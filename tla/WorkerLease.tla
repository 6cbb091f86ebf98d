----------------------------- MODULE WorkerLease -----------------------------
(***************************************************************************)
(* The singleton execution lease of the background worker.  A process      *)
(* acquires the worker_state row, renews it by a heartbeat and trusts a    *)
(* local window measured from the START of each confirmed request, because *)
(* a request may take arbitrarily long, fail, or execute after its caller  *)
(* has given up.  The database judges every statement by its own clock.    *)
(***************************************************************************)
EXTENDS Integers

CONSTANTS
    Workers,  \* worker processes; an execution token is its process
    NoToken,  \* the NULL execution token
    Duration, \* WORKER_EXECUTION_LEASE_MS
    MaxTime   \* bound on the clock

ASSUME LeaseAssumption ==
    /\ NoToken \notin Workers
    /\ Duration \in Nat \ {0} /\ MaxTime \in Nat

VARIABLES
    now,      \* the database clock; process clocks advance with it
    token,    \* executionToken
    deadline, \* executionLeaseExpiresAt, 0 for NULL
    pc,       \* what the process is doing
    window,   \* confirmedUntilMs
    lost,     \* ownershipLost, which latches
    request,  \* the acquisition or renewal the process waits for
    adrift    \* statements nobody waits for that may still execute

db   == <<token, deadline>>
vars == <<now, token, deadline, pc, window, lost, request, adrift>>

\* sent: not executed yet; granted, denied: executed, answer not received.
Request == [state : {"none", "sent", "granted", "denied"}, started : Nat]

NoRequest == [state |-> "none", started |-> 0]

(* The type of every variable. *)
TypeOK ==
    /\ now \in Nat
    /\ token \in Workers \union {NoToken}
    /\ deadline \in Nat
    /\ pc \in [Workers -> {"off", "acquiring", "running", "stopping"}]
    /\ window \in [Workers -> Nat]
    /\ lost \in [Workers -> BOOLEAN]
    /\ request \in [Workers -> Request]
    /\ adrift \in [Workers -> SUBSET {"acquire", "renew"}]

Init ==
    /\ now = 0 /\ token = NoToken /\ deadline = 0
    /\ pc = [p \in Workers |-> "off"]
    /\ window = [p \in Workers |-> 0]
    /\ lost = [p \in Workers |-> FALSE]
    /\ request = [p \in Workers |-> NoRequest]
    /\ adrift = [p \in Workers |-> {}]

-----------------------------------------------------------------------------
\* activeExecutionConditions.
LiveToken(p) == token = p /\ deadline > now

Free == token = NoToken \/ deadline <= now

\* Mutant: the interval is subtracted.
DeadlineBehind == now - Duration

NewLeaseDeadline == now + Duration

\* hasOwnership: a latch and the conservative local window.
HasOwnership(p) == ~lost[p] /\ now < window[p]

\* hasOwnership latches a window found to have passed.
Judge(p, until) == lost' = [lost EXCEPT ![p] = @ \/ now >= until]

\* canStartWorkerOperation: the loop runs and the process owns the lease.
Active(p) == pc[p] = "running" /\ HasOwnership(p)

Sent              == [state |-> "sent", started |-> now]
Answer(p, answer) == request' = [request EXCEPT ![p].state = answer]
Forget(p)         == request' = [request EXCEPT ![p] = NoRequest]

\* The caller is gone; a statement not yet executed may still be.
GiveUp(p, kind) ==
    /\ Forget(p)
    /\ IF request[p].state = "sent"
       THEN adrift' = [adrift EXCEPT ![p] = @ \union {kind}]
       ELSE UNCHANGED adrift

-----------------------------------------------------------------------------
(* Acquisition. *)

\* Every execution has a fresh token: nothing of p's last one remains.
Launch(p) ==
    /\ pc[p] = "off" /\ token # p /\ adrift[p] = {}
    /\ pc' = [pc EXCEPT ![p] = "acquiring"]
    /\ lost' = [lost EXCEPT ![p] = FALSE]
    /\ window' = [window EXCEPT ![p] = 0]
    /\ request' = [request EXCEPT ![p] = Sent]
    /\ UNCHANGED <<now, db, adrift>>

\* acquireWorkerExecutionLease, as the database runs it.
Take(p) == Free /\ token' = p /\ deadline' = NewLeaseDeadline

ExecuteAcquire(p) ==
    /\ pc[p] = "acquiring" /\ request[p].state = "sent"
    /\ \/ Take(p) /\ Answer(p, "granted")
       \/ ~Free /\ Answer(p, "denied") /\ UNCHANGED db
    /\ UNCHANGED <<now, pc, window, lost, adrift>>

\* Mutant: the window measured from the answer instead of the request.
WindowFromAnswer(p) == now + Duration

ConfirmedWindow(p) == request[p].started + Duration

\* The heartbeat is created and renews at once while it owns the lease.
AcquireGranted(p) ==
    /\ pc[p] = "acquiring" /\ request[p].state = "granted"
    /\ pc' = [pc EXCEPT ![p] = "running"]
    /\ window' = [window EXCEPT ![p] = ConfirmedWindow(p)]
    /\ Judge(p, ConfirmedWindow(p))
    /\ \/ now < ConfirmedWindow(p) /\ request' = [request EXCEPT ![p] = Sent]
       \/ now >= ConfirmedWindow(p) /\ Forget(p)
    /\ UNCHANGED <<now, db, adrift>>

AcquireDenied(p) ==
    /\ pc[p] = "acquiring" /\ request[p].state = "denied"
    /\ pc' = [pc EXCEPT ![p] = "off"]
    /\ Forget(p)
    /\ UNCHANGED <<now, db, window, lost, adrift>>

-----------------------------------------------------------------------------
(* The heartbeat; stopAndWait lets a renewal in flight settle while stopping. *)

Beating(p) == pc[p] \in {"running", "stopping"}

\* startRenewal: never two in flight, none once stopped or lost.
StartRenewal(p) ==
    /\ Active(p) /\ request[p].state = "none"
    /\ request' = [request EXCEPT ![p] = Sent]
    /\ UNCHANGED <<now, db, pc, window, lost, adrift>>

\* Mutant: an expired owner may resurrect itself.
RenewExpired(p) == token = p

\* The condition of renewWorkerExecutionLease.
Renewable(p) == LiveToken(p)

Extend(p) == Renewable(p) /\ deadline' = NewLeaseDeadline /\ UNCHANGED token

ExecuteRenewal(p) ==
    /\ Beating(p) /\ request[p].state = "sent"
    /\ \/ Extend(p) /\ Answer(p, "granted")
       \/ ~Renewable(p) /\ Answer(p, "denied") /\ UNCHANGED db
    /\ UNCHANGED <<now, pc, window, lost, adrift>>

\* The window moves even after a latch, which still refuses ownership.
RenewalGranted(p) ==
    /\ Beating(p) /\ request[p].state = "granted"
    /\ window' = [window EXCEPT ![p] = ConfirmedWindow(p)]
    /\ Judge(p, ConfirmedWindow(p))
    /\ Forget(p)
    /\ UNCHANGED <<now, db, pc, adrift>>

RenewalDenied(p) ==
    /\ Beating(p) /\ request[p].state = "denied"
    /\ lost' = [lost EXCEPT ![p] = TRUE]
    /\ Forget(p)
    /\ UNCHANGED <<now, db, pc, window, adrift>>

\* An error, executed or not: retried while the last window is safe.
RenewalFails(p) ==
    /\ Beating(p) /\ request[p].state # "none"
    /\ GiveUp(p, "renew")
    /\ Judge(p, window[p])
    /\ UNCHANGED <<now, db, pc, window>>

\* Any look at hasOwnership after the window has passed.
NoticeLoss(p) ==
    /\ pc[p] = "running" /\ ~lost[p] /\ now >= window[p]
    /\ Judge(p, window[p])
    /\ UNCHANGED <<now, db, pc, window, request, adrift>>

-----------------------------------------------------------------------------
(* The end of an execution. *)

\* The loop is left: empty queues, a signal, an error or lost ownership.
Stop(p) ==
    /\ pc[p] = "running"
    /\ pc' = [pc EXCEPT ![p] = "stopping"]
    /\ UNCHANGED <<now, db, window, lost, request, adrift>>

\* Mutant: any token is cleared.
AnyToken(p) == TRUE

\* The condition of releaseWorkerExecutionLease: exact token, live or not.
OwnToken(p) == token = p

\* The wait for a renewal is bounded: it may execute after the release.
Release(p) ==
    /\ pc[p] = "stopping"
    /\ pc' = [pc EXCEPT ![p] = "off"]
    /\ GiveUp(p, "renew")
    /\ \/ OwnToken(p) /\ token' = NoToken /\ deadline' = 0
       \/ ~OwnToken(p) /\ UNCHANGED db
    /\ UNCHANGED <<now, window, lost>>

\* A kill, a failed acquisition or release, or the forced exit after a
\* signal: the token is left to expire.
Crash(p) ==
    /\ pc[p] # "off"
    /\ pc' = [pc EXCEPT ![p] = "off"]
    /\ GiveUp(p, IF pc[p] = "acquiring" THEN "acquire" ELSE "renew")
    /\ UNCHANGED <<now, db, window, lost>>

\* A statement whose caller is gone executes after all, or never does.
ExecuteAdrift(p, kind) ==
    /\ kind \in adrift[p]
    /\ adrift' = [adrift EXCEPT ![p] = @ \ {kind}]
    /\ \/ kind = "acquire" /\ Take(p)
       \/ kind = "renew" /\ Extend(p)
       \/ UNCHANGED db
    /\ UNCHANGED <<now, pc, window, lost, request>>

Tick ==
    /\ now < MaxTime
    /\ now' = now + 1
    /\ UNCHANGED <<db, pc, window, lost, request, adrift>>

-----------------------------------------------------------------------------
Step(p) ==
    \/ Launch(p) \/ ExecuteAcquire(p) \/ AcquireGranted(p) \/ AcquireDenied(p)
    \/ StartRenewal(p) \/ ExecuteRenewal(p) \/ RenewalGranted(p) \/ RenewalDenied(p)
    \/ RenewalFails(p) \/ NoticeLoss(p)
    \/ Stop(p) \/ Release(p) \/ Crash(p)
    \/ \E kind \in {"acquire", "renew"} : ExecuteAdrift(p, kind)

Next == Tick \/ \E p \in Workers : Step(p)

Spec == Init /\ [][Next]_vars

-----------------------------------------------------------------------------
(* A worker that would start an operation is the one the database would let  *)
(* claim: latency, lost answers and late executions only shorten its belief. *)
OwnershipIsBacked == \A p \in Workers : Active(p) => LiveToken(p)

(* Only its own process ever clears a token, and nobody revives or replaces  *)
(* one that is live: a late release or renewal spares the successor.         *)
TokensChangeFairly ==
    [][ /\ token # NoToken /\ token' = NoToken =>
             pc[token] = "stopping" /\ pc'[token] = "off"
        /\ token' # token /\ token' # NoToken => Free
        /\ token' = token /\ deadline' # deadline => deadline > now ]_vars

(* Workers exclude each other: every step is a step of WorkerMutex.          *)
Mutex == INSTANCE WorkerMutex WITH active <- {p \in Workers : Active(p)}

ImplementsMutex == Mutex!Spec

=============================================================================
