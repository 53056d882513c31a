----------------------------- MODULE MCHandoff -----------------------------
(* Small instances of Handoff for TLC.                                     *)
EXTENDS Handoff, TLC

CONSTANTS t1, t2, t3

\* One task is bound to hart 0, so that fetch_for_cpu() has entries to skip.
MCAffinity == [t \in Tasks |-> IF t = t1 THEN {0} ELSE CPUs]
AnyAffinity == [t \in Tasks |-> CPUs]

=============================================================================
