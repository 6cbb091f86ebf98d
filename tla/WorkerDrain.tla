----------------------------- MODULE WorkerDrain -----------------------------
(***************************************************************************)
(* How queued work gets a worker and how a worker decides to leave.        *)
(* Producers commit PENDING work and then ask for a Cloud Run execution    *)
(* unless they see one that holds the execution lease; an execution drains *)
(* the queue, reconciles expired attempts, takes a final look, releases    *)
(* the lease and looks once more.  WorkerLease supplies what is assumed of *)
(* the lease here: a process that believes it owns it does.                *)
(***************************************************************************)
EXTENDS Integers, FiniteSets

CONSTANTS
    Executions,    \* concurrent executions of the worker job
    Jobs,          \* units of queued work: one stage of one letter
    Requests,      \* concurrent requests of one API process that queue work
    Reconciler,    \* the API process's periodic recovery, or absent
    NoOne,         \* no worker, no job, no waker
    Silent,        \* whether saves that ask for no worker are enabled
    MaxCommits,    \* bound on the work that requests and stages queue
    MaxFaults,     \* bound on crashes, failed triggers and lost leases
    MaxSignals,    \* bound on SIGTERMs
    MaxExecutions  \* executions Cloud Run holds back; further ones are moot

ASSUME DrainAssumption ==
    /\ NoOne \notin Executions \union Jobs \union Requests \union Reconciler
    /\ Requests \intersect Reconciler = {} /\ Cardinality(Reconciler) <= 1
    /\ Silent \in BOOLEAN
    /\ MaxCommits \in Nat /\ MaxFaults \in Nat /\ MaxSignals \in Nat
    /\ MaxExecutions \in Nat \ {0}

Wakers == Requests \union Reconciler

VARIABLES
    work,       \* per unit of work: its status and the worker running it
    holder,     \* executionToken
    leased,     \* whether its deadline is in the future
    requested,  \* executions requested from Cloud Run and not started yet
    worker,     \* per execution: where main() stands and what it knows
    waker,      \* per producer: where its call of triggerWorkerJob stands
    inFlight,   \* triggerInFlight: the producer whose call the others await
    spent       \* commits, faults and signals so far

lease     == <<holder, leased>>
drainVars == <<work, lease, requested, worker, waker, inFlight, spent>>

\* requested: an API attempt under a live lease; expired: a queued attempt
\* whose lease has passed.
WorkRecord ==
    [status : {"none", "pending", "requested"}, owner : {NoOne}] \union
    [status : {"running", "expired"}, owner : Executions]

Absent   == [status |-> "none", owner |-> NoOne]
Pending  == [status |-> "pending", owner |-> NoOne]
Direct   == [status |-> "requested", owner |-> NoOne]
RunBy(w) == [status |-> "running", owner |-> w]

Steps == {"off", "acquire", "recover", "scan", "batch", "claim", "run",
          "reconcile", "askPending", "askLeased", "release", "recheck",
          "askLease", "post"}

\* sure: hasOwnership; batch: the snapshot still to process; found: the cycle
\* discovered work; normal: completedNormally.
Worker == [pc : Steps, sure : BOOLEAN, signalled : BOOLEAN, batch : SUBSET Jobs,
           current : Jobs \union {NoOne}, found : BOOLEAN, normal : BOOLEAN]

Off == [pc |-> "off", sure |-> FALSE, signalled |-> FALSE, batch |-> {},
        current |-> NoOne, found |-> FALSE, normal |-> FALSE]

(* The type of every variable; only a running job has an owner. *)
DrainTypeOK ==
    /\ work \in [Jobs -> WorkRecord]
    /\ holder \in Executions \union {NoOne} /\ leased \in BOOLEAN
    /\ requested \in 0..MaxExecutions
    /\ worker \in [Executions -> Worker]
    /\ waker \in [Wakers -> {"idle", "check", "trigger", "await", "lease",
                          "skip", "post"}]
    /\ inFlight \in Wakers \union {NoOne}
    /\ spent \in [commits : 0..MaxCommits, faults : 0..MaxFaults, signals : 0..MaxSignals]

DrainInit ==
    /\ work = [j \in Jobs |-> Absent]
    /\ holder = NoOne /\ leased = FALSE /\ requested = 0
    /\ worker = [w \in Executions |-> Off]
    /\ waker = [q \in Wakers |-> "idle"] /\ inFlight = NoOne
    /\ spent = [commits |-> 0, faults |-> 0, signals |-> 0]

Spend(what, max) == spent[what] < max /\ spent' = [spent EXCEPT ![what] = @ + 1]

-----------------------------------------------------------------------------
(* What the statements read and write. *)

PendingJobs == {j \in Jobs : work[j] = Pending}

ExpiredJobs == {j \in Jobs : work[j].status = "expired"}

\* Mutant: every running attempt is waited for.
AwaitedAnyKind == {j \in Jobs : work[j].status \in {"running", "expired", "requested"}}

\* getQueuedProcessingWorkState: queued attempts, live or expired; requested
\* ones keep nobody waiting.
AwaitedJobs == {j \in Jobs : work[j].status \in {"running", "expired"}}

Fenced(w) == holder = w /\ leased

\* Mutant: nothing is put back.
Forgotten == work

\* recoverExpiredProcessingJobs for queued attempts; the four stages' statements
\* touch different columns and are taken together.
Requeued == [j \in Jobs |-> IF j \in ExpiredJobs THEN Pending ELSE work[j]]

\* canStartWorkerOperation.
CanStart(w) == worker[w].sure /\ ~worker[w].signalled

\* The :run request; an execution beyond the bound would find the lease held.
Posted == IF requested < MaxExecutions THEN requested + 1 ELSE requested

Goto(w, pc) == worker' = [worker EXCEPT ![w].pc = pc]

\* The check at the head of the loop and after every await of it.
Continue(w, pc) ==
    worker' = [worker EXCEPT ![w].pc = IF CanStart(w) THEN pc ELSE "release"]

-----------------------------------------------------------------------------
(* The worker job. *)

StartExecution(w) ==
    /\ worker[w].pc = "off" /\ requested > 0
    /\ requested' = requested - 1
    /\ worker' = [worker EXCEPT ![w] = [Off EXCEPT !.pc = "acquire"]]
    /\ UNCHANGED <<work, lease, waker, inFlight, spent>>

Acquire(w) ==
    /\ worker[w].pc = "acquire"
    /\ \/ /\ holder = NoOne \/ ~leased
          /\ holder' = w /\ leased' = TRUE
          /\ worker' = [worker EXCEPT ![w].pc = "recover", ![w].sure = TRUE,
                                      ![w].normal = TRUE]
       \/ /\ holder # NoOne /\ leased
          /\ worker' = [worker EXCEPT ![w] = Off]
          /\ UNCHANGED lease
    /\ UNCHANGED <<work, requested, waker, inFlight, spent>>

\* leaseRecovery.reconcile at startup; each statement carries the token.
RecoverFirst(w) ==
    /\ worker[w].pc = "recover"
    /\ work' = IF CanStart(w) /\ Fenced(w) THEN Requeued ELSE work
    /\ Continue(w, "scan")
    /\ UNCHANGED <<lease, requested, waker, inFlight, spent>>

\* The periodic recovery beside the loop.
RecoverBeside(w) ==
    /\ worker[w].pc \in {"scan", "batch", "claim", "run"} /\ CanStart(w)
    /\ Fenced(w) /\ ExpiredJobs # {}
    /\ work' = Requeued
    /\ UNCHANGED <<lease, requested, worker, waker, inFlight, spent>>

\* processWorkerCycle snapshots the queue before it processes any of it.
Scan(w) ==
    /\ worker[w].pc = "scan"
    /\ worker' = [worker EXCEPT ![w].pc = IF CanStart(w) THEN "batch" ELSE "release",
                                ![w].batch = PendingJobs,
                                ![w].found = PendingJobs # {}]
    /\ UNCHANGED <<work, lease, requested, waker, inFlight, spent>>

PickJob(w, j) ==
    /\ worker[w].pc = "batch" /\ CanStart(w) /\ j \in worker[w].batch
    /\ worker' = [worker EXCEPT ![w].pc = "claim", ![w].current = j,
                                ![w].batch = @ \ {j}]
    /\ UNCHANGED <<work, lease, requested, waker, inFlight, spent>>

\* The atomic claim: still eligible, and the execution still owns the lease.
ClaimJob(w) ==
    /\ worker[w].pc = "claim"
    /\ LET j == worker[w].current IN
         \/ /\ j \in PendingJobs /\ Fenced(w)
            /\ work' = [work EXCEPT ![j] = RunBy(w)]
            /\ Goto(w, "run")
         \/ /\ ~(j \in PendingJobs /\ Fenced(w))
            /\ worker' = [worker EXCEPT ![w].pc = "batch", ![w].current = NoOne]
            /\ UNCHANGED work
    /\ UNCHANGED <<lease, requested, waker, inFlight, spent>>

\* The stage ends, under its own lease; it may queue the next stage.
FinishJob(w) ==
    /\ worker[w].pc = "run"
    /\ worker' = [worker EXCEPT ![w].pc = "batch", ![w].current = NoOne]
    /\ \/ /\ work' = [work EXCEPT ![worker[w].current] = Absent]
          /\ UNCHANGED spent
       \/ \E j \in Jobs \ {worker[w].current} :
            /\ work[j] = Absent
            /\ work' = [work EXCEPT ![worker[w].current] = Absent, ![j] = Pending]
            /\ Spend("commits", MaxCommits)
    /\ UNCHANGED <<lease, requested, waker, inFlight>>

\* An empty cycle leads to the decision to leave, any other to the next one.
EndCycle(w) ==
    /\ worker[w].pc = "batch" /\ (worker[w].batch = {} \/ ~CanStart(w))
    /\ Continue(w, IF worker[w].found THEN "scan" ELSE "reconcile")
    /\ UNCHANGED <<work, lease, requested, waker, inFlight, spent>>

\* decideEmptyWorkerJob: recovered work drains, then pending, then leased.
ReconcileLast(w) ==
    /\ worker[w].pc = "reconcile"
    /\ LET runs == CanStart(w) /\ Fenced(w) IN
         /\ work' = IF runs THEN Requeued ELSE work
         /\ Continue(w, IF runs /\ ExpiredJobs # {} THEN "scan" ELSE "askPending")
    /\ UNCHANGED <<lease, requested, waker, inFlight, spent>>

AskPending(w) ==
    /\ worker[w].pc = "askPending"
    /\ Continue(w, IF PendingJobs # {} THEN "scan" ELSE "askLeased")
    /\ UNCHANGED <<work, lease, requested, waker, inFlight, spent>>

AskLeased(w) ==
    /\ worker[w].pc = "askLeased"
    /\ Continue(w, IF AwaitedJobs # {} THEN "scan" ELSE "release")
    /\ UNCHANGED <<work, lease, requested, waker, inFlight, spent>>

\* Only an execution that released its own token hands over.
\* Mutant: no look after the release.
LeaveAtOnce(w) == "off"

AfterRelease(w) == IF worker[w].normal /\ holder = w THEN "recheck" ELSE "off"

ReleaseLease(w) ==
    /\ worker[w].pc = "release"
    /\ IF holder = w THEN holder' = NoOne /\ leased' = FALSE ELSE UNCHANGED lease
    /\ worker' = [worker EXCEPT ![w] = [Off EXCEPT !.pc = AfterRelease(w)]]
    /\ UNCHANGED <<work, requested, waker, inFlight, spent>>

\* ensureBackgroundWorkerForQueuedProcessing('worker-exit-handoff').
Recheck(w) ==
    /\ worker[w].pc = "recheck"
    /\ Goto(w, IF PendingJobs # {} THEN "askLease" ELSE "off")
    /\ UNCHANGED <<work, lease, requested, waker, inFlight, spent>>

AskLease(w) ==
    /\ worker[w].pc = "askLease"
    /\ Goto(w, IF holder # NoOne /\ leased THEN "off" ELSE "post")
    /\ UNCHANGED <<work, lease, requested, waker, inFlight, spent>>

PostHandoff(w) ==
    /\ worker[w].pc = "post"
    /\ requested' = Posted
    /\ Goto(w, "off")
    /\ UNCHANGED <<work, lease, waker, inFlight, spent>>

-----------------------------------------------------------------------------
(* What ends an execution early. *)

Signal(w) ==
    /\ worker[w].pc # "off" /\ ~worker[w].signalled
    /\ Spend("signals", MaxSignals)
    /\ worker' = [worker EXCEPT ![w].signalled = TRUE]
    /\ UNCHANGED <<work, lease, requested, waker, inFlight>>

\* The heartbeat gives up, rightly or not: see WorkerLease.
LoseOwnership(w) ==
    /\ worker[w].sure
    /\ Spend("faults", MaxFaults)
    /\ worker' = [worker EXCEPT ![w].sure = FALSE]
    /\ UNCHANGED <<work, lease, requested, waker, inFlight>>

\* A cycle or a recovery query throws: release, but no handoff.
CycleFails(w) ==
    /\ worker[w].pc \in {"scan", "reconcile", "askPending", "askLeased"}
    /\ Spend("faults", MaxFaults)
    /\ worker' = [worker EXCEPT ![w].pc = "release", ![w].normal = FALSE]
    /\ UNCHANGED <<work, lease, requested, waker, inFlight>>

ExecutionCrashes(w) ==
    /\ worker[w].pc # "off"
    /\ Spend("faults", MaxFaults)
    /\ worker' = [worker EXCEPT ![w] = Off]
    /\ UNCHANGED <<work, lease, requested, waker, inFlight>>

\* A deadline passes: of a stage whose worker is gone, or of an execution
\* that no longer trusts it.
ExpireJob(j) ==
    /\ work[j].status = "running"
    /\ worker[work[j].owner].current # j
    /\ work' = [work EXCEPT ![j].status = "expired"]
    /\ UNCHANGED <<lease, requested, worker, waker, inFlight, spent>>

ExpireLease ==
    /\ holder # NoOne /\ leased /\ ~worker[holder].sure
    /\ leased' = FALSE
    /\ UNCHANGED <<work, holder, requested, worker, waker, inFlight, spent>>

-----------------------------------------------------------------------------
(* The API process. *)

\* A request queues work, then asks for a worker at once, or after a look at
\* the queue.
Commit(q, j) ==
    /\ q \in Requests /\ waker[q] = "idle" /\ work[j] = Absent
    /\ Spend("commits", MaxCommits)
    /\ work' = [work EXCEPT ![j] = Pending]
    /\ \E next \in {"check", "trigger"} : waker' = [waker EXCEPT ![q] = next]
    /\ UNCHANGED <<lease, requested, worker, inFlight>>

\* A save that puts metadata back in the queue and asks nobody: the API's
\* reconciliation finds it.
CommitSilently(j) ==
    /\ Silent /\ work[j] = Absent
    /\ Spend("commits", MaxCommits)
    /\ work' = [work EXCEPT ![j] = Pending]
    /\ UNCHANGED <<lease, requested, worker, waker, inFlight>>

\* An administrator runs a stage directly; it ends, or its process hangs.
RunDirectly(j) ==
    /\ work[j] = Absent
    /\ Spend("commits", MaxCommits)
    /\ work' = [work EXCEPT ![j] = Direct]
    /\ UNCHANGED <<lease, requested, worker, waker, inFlight>>

EndDirectly(j) ==
    /\ work[j] = Direct
    /\ work' = [work EXCEPT ![j] = Absent]
    /\ UNCHANGED <<lease, requested, worker, waker, inFlight, spent>>

\* apiLeaseRecovery: recovery without a token, then ensure.
Reconcile(q) ==
    /\ q \in Reconciler /\ waker[q] = "idle"
    /\ work' = Requeued
    /\ waker' = [waker EXCEPT ![q] = "check"]
    /\ UNCHANGED <<lease, requested, worker, inFlight, spent>>

CheckQueue(q) ==
    /\ waker[q] = "check"
    /\ waker' = [waker EXCEPT ![q] = IF PendingJobs # {} THEN "trigger" ELSE "idle"]
    /\ UNCHANGED <<work, lease, requested, worker, inFlight, spent>>

\* triggerWorkerJob: join the call in flight, or start one.
Trigger(q) ==
    /\ waker[q] = "trigger"
    /\ \/ /\ inFlight = NoOne /\ inFlight' = q
          /\ waker' = [waker EXCEPT ![q] = "lease"]
       \/ /\ inFlight # NoOne /\ UNCHANGED inFlight
          /\ waker' = [waker EXCEPT ![q] = "await"]
    /\ UNCHANGED <<work, lease, requested, worker, spent>>

\* The call in flight settles, for its caller and for all that joined it.
Settle ==
    /\ waker' = [q \in Wakers |-> IF q = inFlight \/ waker[q] = "await"
                                    THEN "idle" ELSE waker[q]]
    /\ inFlight' = NoOne

\* hasActiveWorkerExecutionLease, whose answer is used later.
ReadLease(q) ==
    /\ waker[q] = "lease"
    /\ waker' = [waker EXCEPT ![q] = IF holder # NoOne /\ leased THEN "skip" ELSE "post"]
    /\ UNCHANGED <<work, lease, requested, worker, inFlight, spent>>

Skip(q) ==
    /\ waker[q] = "skip"
    /\ Settle
    /\ UNCHANGED <<work, lease, requested, worker, spent>>

Post(q) ==
    /\ waker[q] = "post"
    /\ requested' = Posted
    /\ Settle
    /\ UNCHANGED <<work, lease, worker, spent>>

\* The request to Cloud Run fails; the callers swallow the error.
PostFails(q) ==
    /\ waker[q] = "post"
    /\ Spend("faults", MaxFaults)
    /\ Settle
    /\ UNCHANGED <<work, lease, requested, worker>>

-----------------------------------------------------------------------------
WorkerStep(w) ==
    \/ Acquire(w) \/ RecoverFirst(w) \/ Scan(w)
    \/ \E j \in Jobs : PickJob(w, j)
    \/ ClaimJob(w) \/ FinishJob(w) \/ EndCycle(w)
    \/ ReconcileLast(w) \/ AskPending(w) \/ AskLeased(w)
    \/ ReleaseLease(w) \/ Recheck(w) \/ AskLease(w) \/ PostHandoff(w)

Fault(w) == Signal(w) \/ LoseOwnership(w) \/ CycleFails(w) \/ ExecutionCrashes(w)

WakerStep(q) == CheckQueue(q) \/ Trigger(q) \/ ReadLease(q) \/ Skip(q) \/ Post(q)

DrainNext ==
    \/ \E w \in Executions : StartExecution(w) \/ WorkerStep(w) \/ RecoverBeside(w) \/ Fault(w)
    \/ \E q \in Wakers : WakerStep(q) \/ Reconcile(q) \/ PostFails(q)
    \/ \E q \in Requests, j \in Jobs : Commit(q, j)
    \/ \E j \in Jobs : CommitSilently(j) \/ RunDirectly(j) \/ EndDirectly(j) \/ ExpireJob(j)
    \/ ExpireLease

DrainSpec == DrainInit /\ [][DrainNext]_drainVars

\* Processes that run go on, Cloud Run starts what it accepted, clocks pass
\* the deadlines of the dead, and the API process ticks.  A requested attempt
\* may hang.
DrainFairness ==
    /\ \A w \in Executions : WF_drainVars(WorkerStep(w))
    /\ WF_drainVars(\E w \in Executions : StartExecution(w))
    /\ \A q \in Wakers : /\ WF_drainVars(WakerStep(q))
                        /\ WF_drainVars(Reconcile(q))
    /\ \A j \in Jobs : WF_drainVars(ExpireJob(j))
    /\ WF_drainVars(ExpireLease)

FairDrainSpec == DrainSpec /\ DrainFairness

-----------------------------------------------------------------------------
Quiet ==
    /\ requested = 0
    /\ \A w \in Executions : worker[w].pc = "off"
    /\ \A q \in Wakers : waker[q] = "idle"

(* Without faults, work is never left in the queue with nobody on the way    *)
(* to it: not by a producer that saw a worker about to leave, and not by a   *)
(* worker that looked before the producer committed.                         *)
NothingLeftBehind == Quiet /\ spent.faults = 0 => PendingJobs = {}

(* Whatever crashes, expires or fails to start a bounded number of times,    *)
(* all queued work is eventually done.                                       *)
QueueSettles == <>[](\A j \in Jobs : work[j].status \in {"none", "requested"})

(* An execution ends once the queue does, however long a requested attempt   *)
(* keeps its lease.                                                          *)
ExecutionsEnd == \A w \in Executions : worker[w].pc # "off" ~> worker[w].pc = "off"

=============================================================================
