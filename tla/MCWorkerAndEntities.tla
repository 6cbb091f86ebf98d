------------------------- MODULE MCWorkerAndEntities -------------------------
(* TLC instances of WorkerLease, WorkerDrain and CanonicalIdentity beside     *)
(* each other.  They share no variable: in a behaviour one of them moves, and *)
(* the others keep one of their initial states.                               *)
EXTENDS WorkerLease, WorkerDrain, CanonicalIdentity, TLC

VARIABLE moving

\* One initial state is enough for entities that do not move.
WorkerAndEntitiesInit ==
    /\ moving \in {"lease", "drain", "entities"}
    /\ IF moving = "entities" THEN TRUE
       ELSE rows = [id \in RowIds |-> Unused] /\ committed = [d \in Documents |-> 0]
    /\ Init /\ DrainInit /\ IdentityInit

WorkerAndEntitiesNext ==
    \/ moving = "lease" /\ Next /\ UNCHANGED <<moving, drainVars, identityVars>>
    \/ moving = "drain" /\ DrainNext /\ UNCHANGED <<moving, vars, identityVars>>
    \/ moving = "entities" /\ IdentityNext /\ UNCHANGED <<moving, vars, drainVars>>

WorkerAndEntitiesSpec ==
    /\ WorkerAndEntitiesInit
    /\ [][WorkerAndEntitiesNext]_<<moving, vars, drainVars, identityVars>>

\* Workers, executions and row ids are the same model values in the .cfg, and
\* so are units of work and entities: each module is symmetric in them.
Symmetry == Permutations(Workers) \union Permutations(Jobs)

=============================================================================
