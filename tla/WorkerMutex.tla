----------------------------- MODULE WorkerMutex -----------------------------
(***************************************************************************)
(* What the worker execution lease promises: at any moment at most one     *)
(* worker process takes itself for the owner of the processing queues.     *)
(***************************************************************************)
CONSTANT Workers

VARIABLE active \* the workers that would start an operation now

Init == active = {}

Enter(p) == active = {} /\ active' = {p}

Leave(p) == p \in active /\ active' = active \ {p}

Next == \E p \in Workers : Enter(p) \/ Leave(p)

Spec == Init /\ [][Next]_active

=============================================================================
