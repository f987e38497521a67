----------------------------- MODULE MCAgentRuns -----------------------------
(* An instance of AgentRuns for TLC: one Codex run that resumes a session. *)
EXTENDS AgentRuns

CONSTANTS r1, s1, s2, c1

OneRun == {r1}
TwoSlots == {s1, s2}
OneClient == {c1}
=============================================================================
