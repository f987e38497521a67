------------------------------ MODULE RunFiles ------------------------------
(***************************************************************************)
(* What a completed run returns (agent/workspace.py, agent/images.py,        *)
(* executor._drive_held_gate): the files the CLI reported, then the images   *)
(* Codex generated outside the workspace, which are copied into out/, then   *)
(* the images found in out/.  Each has its caps, the two kinds of image      *)
(* share a byte budget, and nothing is returned twice.  A process the run    *)
(* left behind may still write: a file can grow between its stat and its     *)
(* read, and be touched.                                                     *)
(***************************************************************************)
EXTENDS Integers, FiniteSets, FiniteSetsExt, Functions

CONSTANTS
  Gen, Out,                       \* paths: generated images, the workspace's out/
  CopyBase,                       \* where the paths of exported copies begin
  Content,                        \* what an image shows
  MaxSize,                        \* sizes are 1..MaxSize to begin with
  FileMax, FilesTotal, FilesMax,  \* file_max_bytes, files_total_bytes, files_max_count
  ImageMax, ImageTotal, ImageCount,
  MaxWrites                       \* bound: writes by the process left behind

VARIABLES
  fs,        \* path -> file, once the CLI has ended
  reported,  \* the workspace paths the CLI named
  baseline,  \* the generated images there were before the run
  pc,        \* the collector at work: "files", "export", "out", then "end"
  todo,      \* paths it has not looked at yet, taken in order
  opened,    \* the path that was stat'ed and is read next, or 0
  used,      \* bytes the collector has counted
  files, images, outs,   \* what was delivered: path and data
  skipped,   \* entries the export listed without content
  writes

vars == <<fs, reported, baseline, pc, todo, opened, used, files, images, outs, skipped, writes>>

Copy(g) == g + CopyBase
Copies == {Copy(g): g \in Gen}
Absent == [content |-> 0, size |-> 0, fresh |-> FALSE]
File == [content: Content, size: 1..MaxSize, fresh: {TRUE}]
Data(p) == <<fs[p].content, fs[p].size>>
DataOf(refs) == {r.data: r \in refs}
Bytes(refs) == SumFunction([r \in refs |-> r.data[2]])
Present(paths) == {p \in paths: fs[p] # Absent}

\* The workspace was empty when the run began; Codex's directory was not.
Init ==
  /\ \E old \in SUBSET Gen, here \in [Gen \cup Out -> {Absent} \cup File]:
       /\ baseline = old
       /\ \A g \in old: here[g] # Absent
       /\ fs = [p \in Gen \cup Out \cup Copies |->
                  IF p \in Copies THEN Absent
                  ELSE IF p \in old THEN [here[p] EXCEPT !.fresh = FALSE] ELSE here[p]]
  /\ reported \in SUBSET Out
  /\ pc = "files" /\ todo = reported
  /\ opened = 0 /\ used = 0 /\ files = {} /\ images = {} /\ outs = {}
  /\ skipped = 0 /\ writes = 0

Ready(collector) == pc = collector /\ opened = 0 /\ todo # {}
Next1 == Min(todo)
Pass == todo' = todo \ {Next1} /\ UNCHANGED opened
Open == todo' = todo \ {Next1} /\ opened' = Next1
Ref(p) == [path |-> p, data |-> Data(p)]
Size == fs[opened].size

-----------------------------------------------------------------------------
(* collect_files                                                            *)

Wanted(p) ==
  /\ fs[p] # Absent /\ Cardinality(files) < FilesMax
  /\ fs[p].size <= FileMax /\ used + fs[p].size <= FilesTotal

collect_files ==
  /\ Ready("files")
  /\ IF Wanted(Next1) THEN Open /\ used' = used + fs[Next1].size
     ELSE Pass /\ UNCHANGED used
  /\ UNCHANGED <<fs, reported, baseline, pc, files, images, outs, skipped, writes>>

ReadFile ==
  /\ pc = "files" /\ opened # 0
  /\ files' = files \cup {Ref(opened)} /\ opened' = 0
  /\ UNCHANGED <<fs, reported, baseline, pc, todo, used, images, outs, skipped, writes>>

FilesDone ==
  /\ pc = "files" /\ opened = 0 /\ todo = {}
  /\ pc' = "export" /\ todo' = Present(Gen) /\ used' = 0
  /\ UNCHANGED <<fs, reported, baseline, opened, files, images, outs, skipped, writes>>

-----------------------------------------------------------------------------
(* export_generated_pngs                                                    *)

Excluded_byTime(g) == ~fs[g].fresh
Excluded(g) == g \in baseline \/ ~fs[g].fresh

ExportFull == Cardinality(images) + skipped >= ImageCount

ExportLook ==
  /\ Ready("export") /\ ~ExportFull
  /\ \/ Excluded(Next1) /\ Pass /\ UNCHANGED skipped
     \/ ~Excluded(Next1) /\ fs[Next1].size > ImageMax /\ Pass /\ skipped' = skipped + 1
     \/ ~Excluded(Next1) /\ fs[Next1].size <= ImageMax /\ Open /\ UNCHANGED skipped
  /\ UNCHANGED <<fs, reported, baseline, pc, used, files, images, outs, writes>>

\* What was read decides, not what stat said; the copy lands in out/.
ExportRead ==
  /\ pc = "export" /\ opened # 0
  /\ opened' = 0
  /\ IF Size > ImageMax \/ (Data(opened) \notin DataOf(images) /\ used + Size > ImageTotal)
     THEN skipped' = skipped + 1 /\ UNCHANGED <<fs, used, images>>
     ELSE IF Data(opened) \in DataOf(images) THEN UNCHANGED <<fs, used, images, skipped>>
     ELSE /\ images' = images \cup {Ref(opened)} /\ used' = used + Size
          /\ fs' = [fs EXCEPT ![Copy(opened)] = fs[opened]]
          /\ UNCHANGED skipped
  /\ UNCHANGED <<reported, baseline, pc, todo, files, outs, writes>>

ExportDone ==
  /\ pc = "export" /\ opened = 0 /\ (todo = {} \/ ExportFull)
  /\ pc' = "out" /\ todo' = Present(Out \cup Copies) /\ used' = 0
  /\ UNCHANGED <<fs, reported, baseline, opened, files, images, outs, skipped, writes>>

-----------------------------------------------------------------------------
(* _collect_out_images                                                      *)

SkipPaths == reported \cup {Copy(r.path): r \in images}

Seen_imagesOnly == DataOf(images) \cup DataOf(outs)
Seen == DataOf(images) \cup DataOf(files) \cup DataOf(outs)

Budget_whole == ImageTotal
Budget == LET left == ImageTotal - Bytes(images) IN IF left > 0 THEN left ELSE 0

OutLook ==
  /\ Ready("out") /\ Cardinality(outs) < ImageCount
  /\ IF Next1 \in SkipPaths \/ fs[Next1].size > ImageMax THEN Pass ELSE Open
  /\ UNCHANGED <<fs, reported, baseline, pc, used, files, images, outs, skipped, writes>>

OutRead ==
  /\ pc = "out" /\ opened # 0
  /\ opened' = 0
  /\ IF Size <= ImageMax /\ Data(opened) \notin Seen /\ used + Size <= Budget
     THEN outs' = outs \cup {Ref(opened)} /\ used' = used + Size
     ELSE UNCHANGED <<outs, used>>
  /\ UNCHANGED <<fs, reported, baseline, pc, todo, files, images, skipped, writes>>

OutDone ==
  /\ pc = "out" /\ opened = 0 /\ (todo = {} \/ Cardinality(outs) >= ImageCount)
  /\ pc' = "end" /\ todo' = {}
  /\ UNCHANGED <<fs, reported, baseline, opened, used, files, images, outs, skipped, writes>>

\* The process left behind writes: the file grows, and is as new as can be.
Grow ==
  /\ pc # "end" /\ writes < MaxWrites /\ writes' = writes + 1
  /\ \E p \in Present(Gen \cup Out): fs' = [fs EXCEPT ![p].size = @ + 1, ![p].fresh = TRUE]
  /\ UNCHANGED <<reported, baseline, pc, todo, opened, used, files, images, outs, skipped>>

Next ==
  \/ collect_files \/ ReadFile \/ FilesDone
  \/ ExportLook \/ ExportRead \/ ExportDone
  \/ OutLook \/ OutRead \/ OutDone \/ Grow

Spec == Init /\ [][Next]_vars
-----------------------------------------------------------------------------
\* The images of a run keep the byte budget together, and each its own cap,
\* although two collectors fill it and files grow while they are read.
ImageBudget ==
  /\ Bytes(images) + Bytes(outs) <= ImageTotal
  /\ \A r \in images \cup outs: r.data[2] <= ImageMax

\* No picture is returned twice: not the copy of an exported one, not one that
\* is already among the files or the images.
ReturnedOnce ==
  /\ DataOf(outs) \cap (DataOf(files) \cup DataOf(images)) = {}
  /\ Cardinality(DataOf(images)) = Cardinality(images)
  /\ Cardinality(DataOf(outs)) = Cardinality(outs)

\* A picture that was there before the run is never returned as the run's own,
\* also when something touches it meanwhile.
OwnImages == \A r \in images: r.path \notin baseline
=============================================================================
