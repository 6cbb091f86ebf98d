------------------------------ MODULE MCRecovery ------------------------------
(* TLC instance for the liveness of the worker: the attempts of one letter    *)
(* (LetterProcessing) and the executions that drain the queue (WorkerDrain).  *)
(* The modules share no variable: in a behaviour one of them moves, under its *)
(* fairness, and the other keeps its initial state.  No symmetry.             *)
EXTENDS LetterProcessing, WorkerDrain

CONSTANT MaxEvents \* bound on commits and faults together

VARIABLE moving

RecoveryInit == moving \in {"letter", "drain"} /\ Init /\ DrainInit

RecoveryNext ==
    \/ moving = "letter" /\ Next /\ UNCHANGED <<moving, drainVars>>
    \/ /\ moving = "drain" /\ DrainNext /\ UNCHANGED <<moving, vars>>
       /\ spent'.commits + spent'.faults <= MaxEvents

\* Fairness of LetterProcessing and DrainFairness of WorkerDrain, each for the
\* behaviours in which its module moves.
RecoveryFairness ==
    /\ \A r \in Runs : WF_vars(moving = "letter" /\ (Produce(r) \/ Abandon(r)))
    /\ WF_vars(moving = "letter" /\ Orphan(tx) /\ ExpireTranscription)
    /\ WF_vars(moving = "letter" /\ Orphan(md) /\ ExpireMetadata)
    /\ WF_vars(moving = "letter" /\ Orphan(en) /\ ExpireEntities)
    /\ WF_vars(moving = "letter" /\ Orphan(ex) /\ ExpireExtra)
    /\ WF_vars(moving = "letter" /\ RecoverTranscription)
    /\ WF_vars(moving = "letter" /\ RecoverMetadata)
    /\ WF_vars(moving = "letter" /\ RecoverEntities)
    /\ WF_vars(moving = "letter" /\ RecoverExtra)
    /\ \A w \in Executions : WF_drainVars(moving = "drain" /\ WorkerStep(w))
    /\ WF_drainVars(moving = "drain" /\ \E w \in Executions : StartExecution(w))
    /\ \A q \in Wakers : WF_drainVars(moving = "drain" /\ WakerStep(q))
    /\ \A q \in Wakers : WF_drainVars(moving = "drain" /\ Reconcile(q))
    /\ \A j \in Jobs : WF_drainVars(moving = "drain" /\ ExpireJob(j))
    /\ WF_drainVars(moving = "drain" /\ ExpireLease)

RecoverySpec ==
    RecoveryInit /\ [][RecoveryNext]_<<moving, vars, drainVars>> /\ RecoveryFairness

=============================================================================
