--------------------------- MODULE MCSessionLease ---------------------------
(* Instances of SessionLease for TLC.                                      *)
EXTENDS SessionLease

CONSTANTS e1, e2, r1

TwoExecs == {e1, e2}
OneRun == {r1}
SameRun == [e \in Exec |-> r1]
=============================================================================
