---------------------------- MODULE MCWaitChild ----------------------------
(* Small instances of WaitChild for TLC.                                   *)
EXTENDS WaitChild, TLC

CONSTANTS c1, c2, w1, w2

\* The waiters W are threads of p, c1 is a child of the parent and init has
\* the children C; both processes treat SIGCHLD alike.
Scenario(p, W, C, act, E) ==
    [home |-> [w \in Waiters |-> IF w \in W THEN p ELSE None],
     children |-> (Parent :> {c1} @@ InitProc :> C),
     sigact |-> [q \in Procs |-> act],
     events |-> E]

\* Threads of the parent wait while the child stops, continues and exits, or
\* while other signals arrive; or a thread of init does, which has a child of
\* its own, while the parent exits.
MainScenarios ==
    {Scenario(Parent, Waiters, {}, act, {"stop", "fault"}) : act \in {"default", "nocldstop"}}
    \cup {Scenario(Parent, Waiters, {}, act, {"kill", "reparent"}) : act \in {"default", "handler", "nocldwait"}}
    \cup {Scenario(InitProc, {w}, {c2}, act, {"reparent"}) :
              w \in Waiters, act \in {"default", "handler", "ignore"}}

AllChildren == {Children}
WaiterSymmetry == Permutations(Waiters)
=============================================================================
