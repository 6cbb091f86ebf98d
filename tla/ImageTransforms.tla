---------------------------- MODULE ImageTransforms ----------------------------
(***************************************************************************)
(* GET /images/:pageId with a width: access check, memory cache, saved     *)
(* previews, the bounded scheduler of transforms with its shared jobs, the *)
(* second look at access and source, and abandoned requests.               *)
(***************************************************************************)
EXTENDS Sequences, SequencesExt, FiniteSets, Integers

CONSTANTS
    ImageRequests, \* requests; each also names the job it may create
    Visitors,      \* the requests without an administrator's session
    Concurrency,   \* transforms at a time
    MaxQueued,     \* jobs that wait for a slot
    MaxWaiters,    \* requests that wait for a job
    NoBytes,       \* no stored bytes
    MaxReplacements, \* bound on how often the image's source changes
    MaxToggles     \* bound on how often the page is hidden or published

ASSUME ImageAssumption ==
    /\ Visitors \subseteq ImageRequests
    /\ Concurrency \in Nat \ {0} /\ MaxQueued \in Nat /\ MaxWaiters \in Nat \ {0}
    /\ MaxReplacements \in Nat /\ MaxToggles \in Nat
    /\ NoBytes \notin Nat

VARIABLES
    request,  \* each request: where it is, what it saw, what it got
    job,      \* the job each request created
    waiting,  \* the queue of jobs without a slot
    cached,   \* the memory cache: bytes by representation
    saved,    \* the preview store
    source,   \* the version of the page's source, which names its bytes
    public,   \* the page belongs to a public catalogue unit
    toggles   \* how often that changed

imageVars == <<request, job, waiting, cached, saved, source, public, toggles>>

\* A representation is named by the version of its source.
Versions == 0 .. MaxReplacements
Image    == Versions \union {NoBytes}

\* made: by a transform.  key, shared: cacheKey and canUseSharedCache.
NewRequest == [pc |-> "idle", key |-> 0, shared |-> FALSE, bytes |-> NoBytes, made |-> FALSE]

NoJob == [pc |-> "none", key |-> 0, shared |-> FALSE, waiters |-> {}]

(* The type of every variable. *)
ImagesTypeOK ==
    /\ request \in [ImageRequests ->
         [pc : {"idle", "read", "schedule", "waiting", "check", "write", "done"},
          key : Versions, shared : BOOLEAN, bytes : Image, made : BOOLEAN]]
    /\ job \in [ImageRequests -> [pc : {"none", "queued", "running"}, key : Versions,
                                  shared : BOOLEAN, waiters : SUBSET ImageRequests]]
    /\ waiting \in Seq(ImageRequests)
    /\ cached \in [Versions -> Image] /\ saved \in [Versions -> Image]
    /\ source \in Versions /\ public \in BOOLEAN /\ toggles \in 0 .. MaxToggles

ImagesInit ==
    /\ request = [r \in ImageRequests |-> NewRequest]
    /\ job = [r \in ImageRequests |-> NoJob]
    /\ waiting = <<>>
    /\ cached = [v \in Versions |-> NoBytes]
    /\ saved = [v \in Versions |-> NoBytes]
    /\ source = 0 /\ public \in BOOLEAN /\ toggles = 0

Jobs(pc)    == {j \in ImageRequests : job[j].pc = pc}
WaiterCount == Cardinality(UNION {job[j].waiters : j \in ImageRequests})

Goto(r, pc) == request' = [request EXCEPT ![r].pc = pc]

-----------------------------------------------------------------------------
(* The scheduler: each operation runs without an await. *)

\* sharedJobs.get(key).
SharedJob(r) == {j \in Jobs("queued") \union Jobs("running") :
                    request[r].shared /\ job[j].shared /\ job[j].key = request[r].key}

\* schedule.
Overloaded(r) ==
    \/ WaiterCount >= MaxWaiters
    \/ /\ SharedJob(r) = {} /\ Cardinality(Jobs("running")) >= Concurrency
       /\ Len(waiting) >= MaxQueued

Schedule(r) ==
    /\ request[r].pc = "schedule"
    /\ IF Overloaded(r)
       THEN Goto(r, "done") /\ UNCHANGED <<job, waiting>>
       ELSE /\ Goto(r, "waiting")
            /\ \/ \E j \in SharedJob(r) :
                    /\ job' = [job EXCEPT ![j].waiters = @ \union {r}]
                    /\ UNCHANGED waiting
               \/ LET start == Cardinality(Jobs("running")) < Concurrency IN
                    /\ SharedJob(r) = {}
                    /\ job' = [job EXCEPT ![r] =
                         [pc |-> IF start THEN "running" ELSE "queued", key |-> request[r].key,
                          shared |-> request[r].shared, waiters |-> {r}]]
                    /\ waiting' = IF start THEN waiting ELSE Append(waiting, r)
    /\ UNCHANGED <<cached, saved, source, public, toggles>>

\* Mutant: a finished job does not start the next one.
LeaveQueue(jobs) == /\ job' = jobs /\ UNCHANGED waiting

\* The freed slot goes to the head of the queue.
StartNext(jobs) ==
    /\ job' = IF waiting = <<>> THEN jobs ELSE [jobs EXCEPT ![Head(waiting)].pc = "running"]
    /\ waiting' = IF waiting = <<>> THEN waiting ELSE Tail(waiting)

\* run: the work read the bytes the key names or, overwritten in place, newer
\* ones; or it failed.
FinishJob(j) ==
    /\ job[j].pc = "running"
    /\ \E bytes \in {job[j].key, source, NoBytes} :
         request' = [r \in ImageRequests |->
            IF r \notin job[j].waiters THEN request[r]
            ELSE [request[r] EXCEPT !.pc = IF bytes = NoBytes THEN "done" ELSE "check",
                                    !.bytes = bytes, !.made = TRUE]]
    /\ StartNext([job EXCEPT ![j] = NoJob])
    /\ UNCHANGED <<cached, saved, source, public, toggles>>

\* Mutant: a job nobody waits for keeps its place in the queue.
KeepEmptyJob(r, j) == /\ job' = [job EXCEPT ![j].waiters = @ \ {r}] /\ UNCHANGED waiting

\* onAbort: the last waiter takes a queued job along.
Detach(r, j) ==
    LET left == job[j].waiters \ {r} IN
    IF job[j].pc = "queued" /\ left = {}
    THEN /\ job' = [job EXCEPT ![j] = NoJob]
         /\ waiting' = RemoveFirst(waiting, j)
    ELSE /\ job' = [job EXCEPT ![j].waiters = left]
         /\ UNCHANGED waiting

-----------------------------------------------------------------------------
(* The route. *)

\* findAccessibleImage.
Accessible(r) == public \/ r \notin Visitors

\* Access, source, conditional request and memory cache.
Open(r) ==
    /\ request[r].pc = "idle"
    /\ \/ Goto(r, "done") \* hidden, missing on disk or not modified
       \/ /\ Accessible(r)
          /\ request' = [request EXCEPT ![r] = [NewRequest EXCEPT
               !.pc = CASE public /\ cached[source] # NoBytes -> "done"
                        [] public /\ cached[source] = NoBytes -> "read"
                        [] ~public -> "schedule",
               !.key = source, !.shared = public]]
    /\ UNCHANGED <<job, waiting, cached, saved, source, public, toggles>>

\* previewStore.read: a hit, or anything else.
ReadSaved(r) ==
    /\ request[r].pc = "read"
    /\ \/ Goto(r, "schedule")
       \/ /\ saved[request[r].key] # NoBytes
          /\ request' = [request EXCEPT ![r].pc = "check",
                                        ![r].bytes = saved[request[r].key]]
    /\ UNCHANGED <<job, waiting, cached, saved, source, public, toggles>>

\* Mutant: only access is looked at again.
AccessOnly(r) == Accessible(r)

StillCurrent(r) == Accessible(r) /\ source = request[r].key

\* setCachedImage may push other entries out.
Remember(r) == \E kept \in SUBSET Versions :
    cached' = [v \in Versions |-> IF v = request[r].key THEN request[r].bytes
                                  ELSE IF v \in kept THEN cached[v] ELSE NoBytes]

\* recheck, and the answer.

Recheck(r) ==
    /\ request[r].pc = "check"
    /\ LET current == StillCurrent(r)
           save == current /\ request[r].made /\ request[r].shared /\ public IN
       /\ Goto(r, IF save THEN "write" ELSE "done")
       /\ IF current /\ ~save /\ public THEN Remember(r) ELSE UNCHANGED cached
    /\ UNCHANGED <<job, waiting, saved, source, public, toggles>>

\* previewStore.write; a write that fails leaves what no read accepts.
WriteSaved(r) ==
    /\ request[r].pc = "write"
    /\ \E bytes \in {request[r].bytes, NoBytes} \union {saved[request[r].key]} :
         saved' = [saved EXCEPT ![request[r].key] = bytes]
    /\ request' = [request EXCEPT ![r].pc = "check", ![r].made = FALSE]
    /\ UNCHANGED <<job, waiting, cached, source, public, toggles>>

\* The client leaves; a request that writes a preview finishes that first.
Abandon(r) ==
    /\ request[r].pc \notin {"idle", "write", "done"}
    /\ Goto(r, "done")
    /\ IF request[r].pc = "waiting"
       THEN \E j \in ImageRequests : r \in job[j].waiters /\ Detach(r, j)
       ELSE UNCHANGED <<job, waiting>>
    /\ UNCHANGED <<cached, saved, source, public, toggles>>

-----------------------------------------------------------------------------
\* The page gets another object, or its legacy object is overwritten.
ReplaceSource ==
    /\ source < MaxReplacements /\ source' = source + 1
    /\ UNCHANGED <<request, job, waiting, cached, saved, public, toggles>>

TogglePublic ==
    /\ toggles < MaxToggles /\ toggles' = toggles + 1
    /\ public' = ~public
    /\ UNCHANGED <<request, job, waiting, cached, saved, source>>

Serve(r) ==
    \/ ReadSaved(r) \/ Schedule(r) \/ Recheck(r) \/ WriteSaved(r)
    \/ FinishJob(r)

ImagesNext ==
    \/ \E r \in ImageRequests : Open(r) \/ Serve(r) \/ Abandon(r)
    \/ ReplaceSource \/ TogglePublic

\* The event loop runs what is ready, and a transform ends.
ImagesFairness == \A r \in ImageRequests : WF_imageVars(Serve(r))

ImagesSpec == ImagesInit /\ [][ImagesNext]_imageVars /\ ImagesFairness

-----------------------------------------------------------------------------
(* Properties. *)

(* However clients come and leave, slots and waiters are never lost: a queued *)
(* job has somebody waiting for it, jobs queue only while every slot is busy, *)
(* and the limits of slots, queue and waiters are kept.                       *)
SlotsAreNeverLost ==
    /\ \A r \in ImageRequests : request[r].pc = "waiting" <=>
         \E j \in Jobs("queued") \union Jobs("running") : r \in job[j].waiters
    /\ \A j \in Jobs("queued") : job[j].waiters # {}
    /\ Jobs("queued") = ToSet(waiting) /\ Len(waiting) = Cardinality(Jobs("queued"))
    /\ waiting # <<>> => Cardinality(Jobs("running")) = Concurrency
    /\ Cardinality(Jobs("running")) <= Concurrency
    /\ Len(waiting) <= MaxQueued /\ WaiterCount <= MaxWaiters

(* Memory and disk only ever hold, under a representation's name, the bytes  *)
(* of exactly that source, although transforms read the file while it may    *)
(* change and results are shared between requests.                           *)
CachedBytesAreWhatTheyName == \A v \in Versions :
    cached[v] \in {v, NoBytes} /\ saved[v] \in {v, NoBytes}

(* In the end every request that was opened is answered, whether its job is   *)
(* its own, is shared, queued behind others, fails, or loses its creator.     *)
ImageRequestsEnd == <>[](\A r \in ImageRequests : request[r].pc \in {"idle", "done"})

=============================================================================
