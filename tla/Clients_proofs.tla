----------------------------- MODULE Clients_proofs -----------------------------
(***************************************************************************)
(* For any number of requests, slots, waiters and replacements of a source:*)
(* what is cached under a source's name is made from that source, and no   *)
(* job waits beside a free slot.  For any fields, flushers, visits and     *)
(* edits: the review page's autosave forgets and overtakes nothing typed.  *)
(***************************************************************************)
EXTENDS MCClients, SequenceTheorems, FiniteSetTheorems, TLAPS

(* The image transforms.                                                     *)

RequestRecord ==
    [pc : {"idle", "read", "schedule", "waiting", "check", "write", "done"},
     key : Versions, shared : BOOLEAN, bytes : Image, made : BOOLEAN]

JobRecord ==
    [pc : {"none", "queued", "running"}, key : Versions, shared : BOOLEAN,
     waiters : SUBSET ImageRequests]

\* The types the argument needs; the queue may hold anything.
RecordsTyped ==
    /\ request \in [ImageRequests -> RequestRecord] /\ job \in [ImageRequests -> JobRecord]
    /\ cached \in [Versions -> Image] /\ saved \in [Versions -> Image] /\ source \in Versions

\* Who waits for a job asked for what it makes, and waits for no other.
WaitersMatch ==
    /\ \A j, r \in ImageRequests :
         r \in job[j].waiters => request[r].pc = "waiting" /\ request[r].key = job[j].key
    /\ \A j, k, r \in ImageRequests : r \in job[j].waiters /\ r \in job[k].waiters => j = k

\* Bytes a request has not rechecked are of its source or a newer one that was
\* already there; bytes it writes are of its source.
BytesBetween(rec, now) ==
    /\ rec.key <= now
    /\ rec.pc = "check" => rec.bytes \in Versions /\ rec.key <= rec.bytes /\ rec.bytes <= now
    /\ rec.pc = "write" => rec.bytes = rec.key

BytesHold ==
    /\ \A r \in ImageRequests : BytesBetween(request[r], source)
    /\ \A j \in ImageRequests : job[j].key <= source

ImagesInv ==
    RecordsTyped /\ public \in BOOLEAN /\ WaitersMatch /\ BytesHold /\ CachedBytesAreWhatTheyName

\* The part of the invariant about requests and jobs.
RequestsInv == RecordsTyped /\ WaitersMatch /\ BytesHold

-----------------------------------------------------------------------------
LEMMA VersionFacts ==
    /\ Versions \subseteq Nat /\ 0 \in Versions /\ NoBytes \notin Versions
    /\ Image = Versions \union {NoBytes}
BY ImageAssumption DEF Versions, Image

LEMMA NewTyped ==
    /\ NewRequest \in RequestRecord /\ NewRequest.pc = "idle" /\ NewRequest.key = 0
    /\ NoJob \in JobRecord /\ NoJob.key = 0 /\ NoJob.waiters = {}
BY VersionFacts DEF NewRequest, NoJob, RequestRecord, JobRecord

\* One request that waits for no job moves on.
RequestMoves(r) ==
    \E new \in RequestRecord :
        /\ request' = [request EXCEPT ![r] = new]
        /\ request[r].pc # "waiting" /\ BytesBetween(new, source)

LEMMA MovesKeep ==
    ASSUME RequestsInv, NEW r \in ImageRequests, RequestMoves(r), UNCHANGED <<job, source>>,
           cached' \in [Versions -> Image], saved' \in [Versions -> Image]
    PROVE  RequestsInv'
<1>1. PICK new \in RequestRecord :
        /\ request' = [request EXCEPT ![r] = new]
        /\ request[r].pc # "waiting" /\ BytesBetween(new, source)
  BY DEF RequestMoves
<1>2. RecordsTyped'
  BY <1>1 DEF RequestsInv, RecordsTyped
<1>3. request'[r] = new /\ \A q \in ImageRequests \ {r} : request'[q] = request[q]
  BY <1>1 DEF RequestsInv, RecordsTyped
<1>4. WaitersMatch'
  BY <1>1, <1>3 DEF RequestsInv, WaitersMatch
<1>5. BytesHold'
  <2>1. \A q \in ImageRequests : BytesBetween(request'[q], source)
    BY <1>1, <1>3 DEF RequestsInv, BytesHold
  <2> QED BY <2>1 DEF RequestsInv, BytesHold
<1> QED BY <1>2, <1>4, <1>5 DEF RequestsInv

\* A request moves to a place that holds no bytes, or keeps what it has.
LEMMA GotoMoves ==
    ASSUME RequestsInv, NEW r \in ImageRequests, NEW pc \in {"schedule", "done", "write"},
           Goto(r, pc), request[r].pc # "waiting",
           pc = "write" => request[r].bytes = request[r].key
    PROVE  RequestMoves(r)
<1>1. PICK old \in RequestRecord : old = request[r]
  BY DEF RequestsInv, RecordsTyped
<1>2. PICK new : new = [old EXCEPT !.pc = pc]
  OBVIOUS
<1>3. new \in RequestRecord /\ new.pc = pc /\ new.key = old.key /\ new.bytes = old.bytes
  BY <1>2 DEF RequestRecord
<1>4. request' = [request EXCEPT ![r] = new]
  BY <1>1, <1>2 DEF Goto, RequestsInv, RecordsTyped
<1>5. BytesBetween(new, source)
  BY <1>1, <1>3 DEF RequestsInv, BytesHold, BytesBetween
<1> QED BY <1>3, <1>4, <1>5 DEF RequestMoves

-----------------------------------------------------------------------------
(* The route.                                                                *)

Keeps == RequestsInv' /\ CachedBytesAreWhatTheyName'

LEMMA OpenKeeps ==
    ASSUME ImagesInv, NEW r \in ImageRequests, Open(r) PROVE Keeps
<1>1. RequestsInv /\ UNCHANGED <<job, source, cached, saved>> /\ request[r].pc = "idle"
      /\ cached' \in [Versions -> Image] /\ saved' \in [Versions -> Image]
  BY DEF ImagesInv, RequestsInv, RecordsTyped, Open
<1>2. CASE Goto(r, "done")
  BY <1>1, <1>2, GotoMoves, MovesKeep DEF ImagesInv, Keeps, CachedBytesAreWhatTheyName
<1>3. CASE ~Goto(r, "done")
  <2>1. PICK pc \in {"done", "read", "schedule"} :
          request' = [request EXCEPT ![r] = [NewRequest EXCEPT !.pc = pc, !.key = source,
                                                               !.shared = public]]
    <3>1. PICK pc : pc = CASE public /\ cached[source] # NoBytes -> "done"
                           [] public /\ cached[source] = NoBytes -> "read"
                           [] ~public -> "schedule"
      OBVIOUS
    <3>2. pc \in {"done", "read", "schedule"}
      BY <3>1
    <3>3. request' = [request EXCEPT ![r] = [NewRequest EXCEPT !.pc = pc, !.key = source,
                                                               !.shared = public]]
      BY <1>3, <3>1 DEF Open
    <3> QED BY <3>2, <3>3
  <2>2. PICK new : new = [NewRequest EXCEPT !.pc = pc, !.key = source, !.shared = public]
    OBVIOUS
  <2>3. source \in Versions /\ public \in BOOLEAN
    BY DEF ImagesInv, RecordsTyped
  <2>4. new \in RequestRecord /\ new.pc = pc /\ new.key = source
    BY <2>2, <2>3, NewTyped DEF RequestRecord
  <2>5. BytesBetween(new, source)
    <3>1. source \in Nat
      BY <2>3, VersionFacts
    <3> QED BY <2>1, <2>4, <3>1 DEF BytesBetween
  <2>6. RequestMoves(r)
    BY <1>1, <2>1, <2>2, <2>4, <2>5 DEF RequestMoves
  <2> QED BY <1>1, <2>6, MovesKeep DEF ImagesInv, Keeps, CachedBytesAreWhatTheyName
<1> QED BY <1>2, <1>3

LEMMA ReadSavedKeeps ==
    ASSUME ImagesInv, NEW r \in ImageRequests, ReadSaved(r) PROVE Keeps
<1>1. RequestsInv /\ UNCHANGED <<job, source, cached, saved>> /\ request[r].pc = "read"
      /\ cached' \in [Versions -> Image] /\ saved' \in [Versions -> Image]
  BY DEF ImagesInv, RequestsInv, RecordsTyped, ReadSaved
<1>2. CASE Goto(r, "schedule")
  BY <1>1, <1>2, GotoMoves, MovesKeep DEF ImagesInv, Keeps, CachedBytesAreWhatTheyName
<1>3. CASE ~Goto(r, "schedule")
  <2>1. PICK old \in RequestRecord : old = request[r]
    BY <1>1 DEF RequestsInv, RecordsTyped
  <2>2. PICK bytes : bytes = saved[old.key]
    OBVIOUS
  <2>3. bytes = old.key /\ old.key \in Versions /\ old.key <= source
    <3>1. old.key \in Versions /\ bytes # NoBytes
      BY <1>3, <2>1, <2>2 DEF ReadSaved, RequestRecord
    <3> QED BY <2>1, <2>2, <3>1
         DEF ImagesInv, CachedBytesAreWhatTheyName, BytesHold, BytesBetween
  <2>4. PICK new : new = [old EXCEPT !.pc = "check", !.bytes = bytes]
    OBVIOUS
  <2>5. new \in RequestRecord /\ new.pc = "check" /\ new.key = old.key /\ new.bytes = bytes
    BY <2>3, <2>4, VersionFacts DEF RequestRecord
  <2>6. request' = [request EXCEPT ![r] = new]
    BY <1>1, <1>3, <2>1, <2>2, <2>4 DEF ReadSaved, RequestsInv, RecordsTyped
  <2>7. RequestMoves(r)
    <3>1. old.key \in Nat
      BY <2>3, VersionFacts
    <3>2. BytesBetween(new, source)
      BY <2>3, <2>5, <3>1 DEF BytesBetween
    <3> QED BY <1>1, <2>5, <2>6, <3>2 DEF RequestMoves
  <2> QED BY <1>1, <2>7, MovesKeep DEF ImagesInv, Keeps, CachedBytesAreWhatTheyName
<1> QED BY <1>2, <1>3

LEMMA RecheckKeeps ==
    ASSUME ImagesInv, NEW r \in ImageRequests, Recheck(r) PROVE Keeps
<1>1. RequestsInv /\ UNCHANGED <<job, source, saved>> /\ request[r].pc = "check"
      /\ saved' \in [Versions -> Image]
  BY DEF ImagesInv, RequestsInv, RecordsTyped, Recheck
<1>2. PICK pc \in {"write", "done"} : Goto(r, pc) /\ (pc = "write" => StillCurrent(r))
  BY DEF Recheck
<1>3. StillCurrent(r) => request[r].bytes = request[r].key /\ request[r].key \in Versions
  <2>1. request[r] \in RequestRecord /\ BytesBetween(request[r], source)
    BY DEF ImagesInv, RecordsTyped, BytesHold
  <2>2. request[r].key \in Versions
    BY <2>1 DEF RequestRecord
  <2>3. ASSUME StillCurrent(r) PROVE request[r].bytes = request[r].key
    <3>1. request[r].bytes \in Nat /\ request[r].key \in Nat
      BY <1>1, <2>1, <2>2, VersionFacts DEF BytesBetween
    <3> QED BY <1>1, <2>1, <2>3, <3>1 DEF BytesBetween, StillCurrent
  <2> QED BY <2>2, <2>3
<1>4. RequestMoves(r)
  BY <1>1, <1>2, <1>3, GotoMoves
<1>5. cached' \in [Versions -> Image] /\ \A v \in Versions : cached'[v] \in {v, NoBytes}
  <2>1. \A v \in Versions : cached[v] \in {v, NoBytes}
    BY DEF ImagesInv, CachedBytesAreWhatTheyName
  <2>2. CASE UNCHANGED cached
    BY <2>1, <2>2 DEF ImagesInv, RecordsTyped
  <2>3. CASE StillCurrent(r) /\ Remember(r)
    <3>1. PICK kept \in SUBSET Versions : cached' =
            [v \in Versions |-> IF v = request[r].key THEN request[r].bytes
                                ELSE IF v \in kept THEN cached[v] ELSE NoBytes]
      BY <2>3 DEF Remember
    <3> QED BY <1>3, <2>1, <2>3, <3>1, VersionFacts
  <2> QED BY <2>2, <2>3 DEF Recheck
<1> QED BY <1>1, <1>4, <1>5, MovesKeep DEF ImagesInv, Keeps, CachedBytesAreWhatTheyName

LEMMA WriteSavedKeeps ==
    ASSUME ImagesInv, NEW r \in ImageRequests, WriteSaved(r) PROVE Keeps
<1>1. RequestsInv /\ UNCHANGED <<job, source, cached>> /\ request[r].pc = "write"
      /\ cached' \in [Versions -> Image]
  BY DEF ImagesInv, RequestsInv, RecordsTyped, WriteSaved
<1>2. PICK old \in RequestRecord : old = request[r]
  BY <1>1 DEF RequestsInv, RecordsTyped
<1>3. old.bytes = old.key /\ old.key \in Versions /\ old.key <= source
  BY <1>1, <1>2 DEF RequestsInv, BytesHold, BytesBetween, RequestRecord
<1>4. RequestMoves(r)
  <2>1. PICK new : new = [old EXCEPT !.pc = "check", !.made = FALSE]
    OBVIOUS
  <2>2. new \in RequestRecord /\ new.pc = "check" /\ new.key = old.key /\ new.bytes = old.bytes
    BY <2>1 DEF RequestRecord
  <2>3. request' = [request EXCEPT ![r] = new]
    BY <1>1, <1>2, <2>1 DEF WriteSaved, RequestsInv, RecordsTyped
  <2>4. BytesBetween(new, source)
    <3>1. old.key \in Nat
      BY <1>3, VersionFacts
    <3> QED BY <1>3, <2>2, <3>1 DEF BytesBetween
  <2> QED BY <1>1, <2>2, <2>3, <2>4 DEF RequestMoves
<1>5. saved' \in [Versions -> Image] /\ \A v \in Versions : saved'[v] \in {v, NoBytes}
  <2>1. PICK bytes \in {old.bytes, NoBytes} \union {saved[old.key]} :
          saved' = [saved EXCEPT ![old.key] = bytes]
    BY <1>2 DEF WriteSaved
  <2>2. bytes \in {old.key, NoBytes}
    BY <1>3, <2>1 DEF ImagesInv, CachedBytesAreWhatTheyName
  <2> QED BY <1>3, <2>1, <2>2, VersionFacts
       DEF ImagesInv, RecordsTyped, CachedBytesAreWhatTheyName
<1> QED BY <1>1, <1>4, <1>5, MovesKeep DEF ImagesInv, Keeps, CachedBytesAreWhatTheyName

-----------------------------------------------------------------------------
(* The scheduler.                                                            *)

\* A request starts to wait for one job, which makes what it asked for.
LEMMA WaitKeeps ==
    ASSUME ImagesInv, NEW r \in ImageRequests, NEW j \in ImageRequests, NEW made \in JobRecord,
           request[r].pc = "schedule", Goto(r, "waiting"),
           job' = [job EXCEPT ![j] = made], made.key = request[r].key,
           \/ made.waiters = {r}
           \/ made.waiters = job[j].waiters \union {r} /\ made.key = job[j].key,
           UNCHANGED <<source, cached, saved>>
    PROVE  Keeps
<1>1. PICK old \in RequestRecord : old = request[r]
  BY DEF ImagesInv, RecordsTyped
<1>2. PICK new : new = [old EXCEPT !.pc = "waiting"]
  OBVIOUS
<1>3. new \in RequestRecord /\ new.pc = "waiting" /\ new.key = old.key
  BY <1>2 DEF RequestRecord
<1>4. request' = [request EXCEPT ![r] = new]
  BY <1>1, <1>2 DEF Goto, ImagesInv, RecordsTyped
<1>5. RecordsTyped'
  BY <1>3, <1>4 DEF ImagesInv, RecordsTyped
<1>6. /\ request'[r] = new /\ \A q \in ImageRequests \ {r} : request'[q] = request[q]
      /\ job'[j] = made /\ \A k \in ImageRequests \ {j} : job'[k] = job[k]
  BY <1>3, <1>4 DEF ImagesInv, RecordsTyped
<1>7. WaitersMatch'
  <2>1. \A k \in ImageRequests : r \notin job[k].waiters
    BY DEF ImagesInv, WaitersMatch
  <2>2. \A k, q \in ImageRequests :
          q \in job'[k].waiters => (q = r /\ k = j) \/ (q # r /\ q \in job[k].waiters
                                                     /\ job'[k].key = job[k].key)
    BY <1>6, <2>1
  <2>3. \A k, q \in ImageRequests :
          q \in job[k].waiters => request[q].pc = "waiting" /\ request[q].key = job[k].key
    BY DEF ImagesInv, WaitersMatch
  <2>4. \A k, q \in ImageRequests :
          q \in job'[k].waiters => request'[q].pc = "waiting" /\ request'[q].key = job'[k].key
    BY <1>1, <1>3, <1>6, <2>2, <2>3
  <2>5. \A k, l, q \in ImageRequests : q \in job'[k].waiters /\ q \in job'[l].waiters => k = l
    BY <2>2 DEF ImagesInv, WaitersMatch
  <2> QED BY <2>4, <2>5 DEF WaitersMatch
<1>8. BytesHold'
  <2>1. \A q \in ImageRequests : BytesBetween(request'[q], source)
    BY <1>1, <1>3, <1>6 DEF ImagesInv, BytesHold, BytesBetween
  <2>2. \A k \in ImageRequests : job'[k].key <= source
    BY <1>6 DEF ImagesInv, BytesHold, BytesBetween
  <2> QED BY <2>1, <2>2 DEF BytesHold
<1> QED BY <1>5, <1>7, <1>8 DEF ImagesInv, RequestsInv, Keeps, CachedBytesAreWhatTheyName

LEMMA ScheduleKeeps ==
    ASSUME ImagesInv, NEW r \in ImageRequests, Schedule(r) PROVE Keeps
<1>1. RequestsInv /\ UNCHANGED <<source, cached, saved>> /\ request[r].pc = "schedule"
      /\ cached' \in [Versions -> Image] /\ saved' \in [Versions -> Image]
      /\ request[r] \in RequestRecord
  BY DEF ImagesInv, RequestsInv, RecordsTyped, Schedule
<1>2. CASE Overloaded(r)
  BY <1>1, <1>2, GotoMoves, MovesKeep
     DEF Schedule, ImagesInv, Keeps, CachedBytesAreWhatTheyName
<1>3. ASSUME NEW j \in SharedJob(r), Goto(r, "waiting"),
             job' = [job EXCEPT ![j].waiters = @ \union {r}]
      PROVE  Keeps
  <2>1. j \in ImageRequests /\ job[j].key = request[r].key
    BY DEF SharedJob, Jobs
  <2>2. PICK old \in JobRecord : old = job[j]
    BY <1>1, <2>1 DEF RequestsInv, RecordsTyped
  <2>3. PICK made : made = [old EXCEPT !.waiters = old.waiters \union {r}]
    OBVIOUS
  <2>4. made \in JobRecord /\ made.waiters = old.waiters \union {r} /\ made.key = old.key
    BY <2>3 DEF JobRecord
  <2>5. job' = [job EXCEPT ![j] = made]
    BY <1>1, <1>3, <2>1, <2>2, <2>3 DEF RequestsInv, RecordsTyped
  <2> QED BY <1>1, <1>3, <2>1, <2>2, <2>4, <2>5, WaitKeeps
<1>4. ASSUME NEW pc \in {"running", "queued"}, Goto(r, "waiting"),
             job' = [job EXCEPT ![r] = [pc |-> pc, key |-> request[r].key,
                                        shared |-> request[r].shared, waiters |-> {r}]]
      PROVE  Keeps
  <2>1. PICK old \in RequestRecord : old = request[r]
    BY <1>1
  <2>2. PICK made : made = [pc |-> pc, key |-> old.key, shared |-> old.shared, waiters |-> {r}]
    OBVIOUS
  <2>3. made \in JobRecord /\ made.key = old.key /\ made.waiters = {r}
    BY <2>1, <2>2 DEF JobRecord, RequestRecord
  <2>4. job' = [job EXCEPT ![r] = made]
    BY <1>4, <2>1, <2>2
  <2> QED BY <1>1, <1>4, <2>1, <2>3, <2>4, WaitKeeps
<1>5. CASE ~Overloaded(r)
  <2>1. PICK pc \in {"running", "queued"} :
          pc = IF Cardinality(Jobs("running")) < Concurrency THEN "running" ELSE "queued"
    OBVIOUS
  <2>2. /\ Goto(r, "waiting")
        /\ \/ \E j \in SharedJob(r) : job' = [job EXCEPT ![j].waiters = @ \union {r}]
           \/ job' = [job EXCEPT ![r] = [pc |-> pc, key |-> request[r].key,
                                         shared |-> request[r].shared, waiters |-> {r}]]
    BY <1>5, <2>1 DEF Schedule
  <2> QED BY <1>3, <1>4, <2>1, <2>2
<1> QED BY <1>2, <1>5

\* No job starts to make something else, or gets a waiter.
JobsShrink(jobs) ==
    /\ jobs \in [ImageRequests -> JobRecord]
    /\ \A k \in ImageRequests : \/ jobs[k].key = job[k].key /\ jobs[k].waiters \subseteq job[k].waiters
                                \/ jobs[k].key = 0 /\ jobs[k].waiters = {}

LEMMA ShrinkKeeps ==
    ASSUME ImagesInv, JobsShrink(job'), UNCHANGED <<source, cached, saved>>,
           request' \in [ImageRequests -> RequestRecord],
           \A q \in ImageRequests : BytesBetween(request'[q], source),
           \A k, q \in ImageRequests : q \in job'[k].waiters => request'[q] = request[q]
    PROVE  Keeps
<1>1. RecordsTyped'
  BY DEF JobsShrink, ImagesInv, RecordsTyped
<1>2. WaitersMatch'
  <2>1. \A k, q \in ImageRequests : q \in job'[k].waiters =>
          q \in job[k].waiters /\ job'[k].key = job[k].key
    BY DEF JobsShrink
  <2> QED BY <2>1 DEF ImagesInv, WaitersMatch
<1>3. BytesHold'
  <2>1. 0 <= source
    BY VersionFacts DEF ImagesInv, RecordsTyped, Versions
  <2> QED BY <2>1 DEF JobsShrink, ImagesInv, BytesHold
<1> QED BY <1>1, <1>2, <1>3 DEF Keeps, ImagesInv, RequestsInv, CachedBytesAreWhatTheyName

LEMMA StartNextShrinks ==
    ASSUME NEW jobs, JobsShrink(jobs), StartNext(jobs)
    PROVE  JobsShrink(job') /\ \A k \in ImageRequests : job'[k].waiters = jobs[k].waiters
<1>1. CASE job' = jobs
  BY <1>1
<1>2. ASSUME NEW h, job' = [jobs EXCEPT ![h].pc = "running"]
      PROVE  JobsShrink(job') /\ \A k \in ImageRequests : job'[k].waiters = jobs[k].waiters
  <2>1. CASE h \notin ImageRequests
    BY <1>2, <2>1 DEF JobsShrink
  <2>2. CASE h \in ImageRequests
    <3>1. PICK old \in JobRecord : old = jobs[h]
      BY <2>2 DEF JobsShrink
    <3>2. PICK new : new = [old EXCEPT !.pc = "running"]
      OBVIOUS
    <3>3. new \in JobRecord /\ new.key = old.key /\ new.waiters = old.waiters
      BY <3>2 DEF JobRecord
    <3>4. job' = [jobs EXCEPT ![h] = new]
      BY <1>2, <2>2, <3>1, <3>2 DEF JobsShrink
    <3>5. job' \in [ImageRequests -> JobRecord]
      BY <3>3, <3>4 DEF JobsShrink
    <3>6. \A k \in ImageRequests : job'[k].key = jobs[k].key /\ job'[k].waiters = jobs[k].waiters
      BY <3>1, <3>3, <3>4 DEF JobsShrink
    <3> QED BY <3>5, <3>6 DEF JobsShrink
  <2> QED BY <2>1, <2>2
<1> QED BY <1>1, <1>2 DEF StartNext

LEMMA FinishJobKeeps ==
    ASSUME ImagesInv, NEW j \in ImageRequests, FinishJob(j) PROVE Keeps
<1>1. PICK bytes \in {job[j].key, source, NoBytes} :
        request' = [r \in ImageRequests |->
          IF r \notin job[j].waiters THEN request[r]
          ELSE [request[r] EXCEPT !.pc = IF bytes = NoBytes THEN "done" ELSE "check",
                                  !.bytes = bytes, !.made = TRUE]]
  BY DEF FinishJob
<1>2. /\ job[j].key \in Versions /\ source \in Versions /\ job[j].key <= source
      /\ bytes \in Image /\ (bytes # NoBytes => bytes \in Versions /\ job[j].key <= bytes
                                                 /\ bytes <= source)
  <2>1. job[j].key \in Versions /\ source \in Versions /\ job[j].key <= source
    BY DEF ImagesInv, RecordsTyped, JobRecord, BytesHold
  <2>2. job[j].key \in Nat /\ source \in Nat
    BY <2>1, VersionFacts
  <2>3. CASE bytes = NoBytes
    BY <2>1, <2>3, VersionFacts
  <2>4. CASE bytes \in {job[j].key, source}
    <3>1. job[j].key <= job[j].key /\ source <= source
      BY <2>2
    <3> QED BY <2>1, <2>4, <3>1, VersionFacts
  <2> QED BY <1>1, <2>1, <2>3, <2>4
<1>3. ASSUME NEW r \in ImageRequests
      PROVE  request'[r] \in RequestRecord /\ BytesBetween(request'[r], source)
  <2>1. CASE r \notin job[j].waiters
    BY <1>1, <2>1 DEF ImagesInv, RecordsTyped, BytesHold
  <2>2. CASE r \in job[j].waiters
    <3>1. PICK old \in RequestRecord : old = request[r]
      BY DEF ImagesInv, RecordsTyped
    <3>2. PICK pc \in {"done", "check"} : pc = IF bytes = NoBytes THEN "done" ELSE "check"
      OBVIOUS
    <3>3. PICK new : new = [old EXCEPT !.pc = pc, !.bytes = bytes, !.made = TRUE]
      OBVIOUS
    <3>4. new \in RequestRecord /\ new.pc = pc /\ new.key = old.key /\ new.bytes = bytes
      BY <1>2, <3>3 DEF RequestRecord
    <3>5. request'[r] = new
      BY <1>1, <2>2, <3>1, <3>2, <3>3
    <3>6. old.key = job[j].key
      BY <2>2, <3>1 DEF ImagesInv, WaitersMatch
    <3>7. BytesBetween(new, source)
      BY <1>2, <3>2, <3>4, <3>6 DEF BytesBetween
    <3> QED BY <3>4, <3>5, <3>7
  <2> QED BY <2>1, <2>2
<1>4. PICK jobs : jobs = [job EXCEPT ![j] = NoJob]
  OBVIOUS
<1>5. JobsShrink(jobs) /\ jobs[j].waiters = {} /\ StartNext(jobs)
  <2>1. jobs \in [ImageRequests -> JobRecord] /\ jobs[j] = NoJob
        /\ \A k \in ImageRequests \ {j} : jobs[k] = job[k]
    BY <1>4, NewTyped DEF ImagesInv, RecordsTyped
  <2> QED BY <1>4, <2>1, NewTyped DEF JobsShrink, FinishJob
<1>6. JobsShrink(job') /\ \A k \in ImageRequests : job'[k].waiters = jobs[k].waiters
  BY <1>5, StartNextShrinks
<1>7. \A k, q \in ImageRequests : q \in job'[k].waiters => request'[q] = request[q]
  <2>1. SUFFICES ASSUME NEW k \in ImageRequests, NEW q \in ImageRequests, q \in job'[k].waiters
                 PROVE  request'[q] = request[q]
    OBVIOUS
  <2>2. k # j
    BY <1>5, <1>6, <2>1
  <2>3. q \in job[k].waiters
    BY <1>4, <1>6, <2>1, <2>2 DEF ImagesInv, RecordsTyped
  <2>4. q \notin job[j].waiters
    BY <2>2, <2>3 DEF ImagesInv, WaitersMatch
  <2> QED BY <1>1, <2>4
<1>8. request' \in [ImageRequests -> RequestRecord]
  BY <1>1, <1>3
<1> QED BY <1>3, <1>6, <1>7, <1>8, ShrinkKeeps DEF FinishJob

LEMMA AbandonKeeps ==
    ASSUME ImagesInv, NEW r \in ImageRequests, Abandon(r) PROVE Keeps
<1>1. RequestsInv /\ UNCHANGED <<source, cached, saved>> /\ Goto(r, "done")
      /\ cached' \in [Versions -> Image] /\ saved' \in [Versions -> Image]
  BY DEF ImagesInv, RequestsInv, RecordsTyped, Abandon
<1>2. CASE request[r].pc # "waiting"
  BY <1>1, <1>2, GotoMoves, MovesKeep
     DEF Abandon, ImagesInv, Keeps, CachedBytesAreWhatTheyName
<1>3. CASE request[r].pc = "waiting"
  <2>1. PICK j \in ImageRequests : r \in job[j].waiters /\ Detach(r, j)
    BY <1>3 DEF Abandon
  <2>2. PICK old \in JobRecord : old = job[j]
    BY <1>1 DEF RequestsInv, RecordsTyped
  <2>3. PICK made \in JobRecord :
          /\ job' = [job EXCEPT ![j] = made] /\ r \notin made.waiters
          /\ \/ made.key = old.key /\ made.waiters \subseteq old.waiters
             \/ made.key = 0 /\ made.waiters = {}
    <3>1. CASE job' = [job EXCEPT ![j] = NoJob]
      BY <3>1, NewTyped
    <3>2. CASE job' = [job EXCEPT ![j].waiters = old.waiters \ {r}]
      <4>1. PICK new : new = [old EXCEPT !.waiters = old.waiters \ {r}]
        OBVIOUS
      <4>2. new \in JobRecord /\ new.key = old.key /\ new.waiters = old.waiters \ {r}
        BY <4>1 DEF JobRecord
      <4>3. job' = [job EXCEPT ![j] = new]
        BY <1>1, <2>2, <3>2, <4>1 DEF RequestsInv, RecordsTyped
      <4> QED BY <4>2, <4>3
    <3> QED BY <2>1, <2>2, <3>1, <3>2 DEF Detach
  <2>4. job'[j] = made /\ \A k \in ImageRequests \ {j} : job'[k] = job[k]
    BY <1>1, <2>3 DEF RequestsInv, RecordsTyped
  <2>5. JobsShrink(job')
    BY <1>1, <2>2, <2>3, <2>4 DEF JobsShrink, RequestsInv, RecordsTyped
  <2>6. PICK new \in RequestRecord : request' = [request EXCEPT ![r] = new]
                                     /\ BytesBetween(new, source)
    <3>1. PICK was \in RequestRecord : was = request[r]
      BY <1>1 DEF RequestsInv, RecordsTyped
    <3>2. PICK new : new = [was EXCEPT !.pc = "done"]
      OBVIOUS
    <3>3. new \in RequestRecord /\ new.pc = "done" /\ new.key = was.key
      BY <3>2 DEF RequestRecord
    <3>4. request' = [request EXCEPT ![r] = new]
      BY <1>1, <3>1, <3>2 DEF Goto, RequestsInv, RecordsTyped
    <3>5. BytesBetween(new, source)
      BY <1>1, <3>1, <3>3 DEF RequestsInv, BytesHold, BytesBetween
    <3> QED BY <3>3, <3>4, <3>5
  <2>7. /\ request' \in [ImageRequests -> RequestRecord]
        /\ \A q \in ImageRequests : BytesBetween(request'[q], source)
        /\ \A q \in ImageRequests \ {r} : request'[q] = request[q]
    BY <1>1, <2>6 DEF RequestsInv, RecordsTyped, BytesHold
  <2>8. \A k \in ImageRequests : r \notin job'[k].waiters
    BY <2>1, <2>3, <2>4 DEF ImagesInv, WaitersMatch
  <2> QED BY <1>1, <2>5, <2>7, <2>8, ShrinkKeeps
<1> QED BY <1>2, <1>3

-----------------------------------------------------------------------------
(* The specification.                                                        *)

LEMMA ImagesInvStarts == ImagesInit => ImagesInv
<1> SUFFICES ASSUME ImagesInit PROVE ImagesInv
  OBVIOUS
<1>1. RecordsTyped /\ public \in BOOLEAN
  BY NewTyped, VersionFacts DEF ImagesInit, RecordsTyped
<1>2. WaitersMatch
  BY NewTyped DEF ImagesInit, WaitersMatch
<1>3. BytesHold
  BY NewTyped DEF ImagesInit, BytesHold, BytesBetween
<1>4. CachedBytesAreWhatTheyName
  BY DEF ImagesInit, CachedBytesAreWhatTheyName
<1> QED BY <1>1, <1>2, <1>3, <1>4 DEF ImagesInv

\* A replaced source is newer than all that was read.
LEMMA ReplaceSourceKeeps == ASSUME ImagesInv, ReplaceSource PROVE Keeps
<1>1. source' = source + 1 /\ source' \in Versions /\ source \in Versions
  BY ImageAssumption DEF ReplaceSource, ImagesInv, RecordsTyped, Versions
<1>2. RecordsTyped' /\ WaitersMatch' /\ CachedBytesAreWhatTheyName'
  BY <1>1 DEF ReplaceSource, ImagesInv, RecordsTyped, WaitersMatch, CachedBytesAreWhatTheyName
<1>3. BytesHold'
  <2>1. ASSUME NEW r \in ImageRequests PROVE BytesBetween(request'[r], source')
    <3>1. BytesBetween(request[r], source) /\ request[r].key \in Versions
      BY DEF ImagesInv, BytesHold, RecordsTyped, RequestRecord
    <3> QED BY <1>1, <3>1 DEF BytesBetween, ReplaceSource, Versions
  <2>2. ASSUME NEW j \in ImageRequests PROVE job'[j].key <= source'
    <3>1. job[j].key <= source /\ job[j].key \in Versions
      BY DEF ImagesInv, BytesHold, RecordsTyped, JobRecord
    <3> QED BY <1>1, <3>1 DEF ReplaceSource, Versions
  <2> QED BY <2>1, <2>2 DEF BytesHold
<1> QED BY <1>2, <1>3 DEF Keeps, RequestsInv

LEMMA ImagesInvKept == ASSUME ImagesInv, [ImagesNext]_imageVars PROVE ImagesInv'
<1>1. public' \in BOOLEAN
  BY DEF ImagesInv, ImagesNext, imageVars, Open, Serve, Abandon, ReplaceSource, TogglePublic,
         ReadSaved, Schedule, Recheck, WriteSaved, FinishJob
<1>2. ASSUME UNCHANGED <<request, job, source, cached, saved>> PROVE Keeps
  <2>1. RequestsInv'
    BY <1>2 DEF ImagesInv, RequestsInv, RecordsTyped, WaitersMatch, BytesHold, BytesBetween
  <2> QED BY <1>2, <2>1 DEF ImagesInv, Keeps, CachedBytesAreWhatTheyName
<1>3. ASSUME NEW r \in ImageRequests, Open(r) \/ Serve(r) \/ Abandon(r) PROVE Keeps
  BY <1>3, OpenKeeps, ReadSavedKeeps, ScheduleKeeps, RecheckKeeps, WriteSavedKeeps,
     FinishJobKeeps, AbandonKeeps DEF Serve
<1>4. Keeps
  <2>1. CASE UNCHANGED imageVars \/ TogglePublic
    BY <1>2, <2>1 DEF imageVars, TogglePublic
  <2> QED BY <1>3, <2>1, ReplaceSourceKeeps DEF ImagesNext
<1> QED BY <1>1, <1>4 DEF Keeps, RequestsInv, ImagesInv

(* Memory and disk never hold other bytes than their name says               *)
(* (image-transform-scheduler.ts, routes/images.ts), whatever changes while  *)
(* a transform reads, and whoever shares its result.                         *)
THEOREM NamesAreKept == ImagesSpec => []CachedBytesAreWhatTheyName
<1>1. ImagesInit => ImagesInv
  BY ImagesInvStarts
<1>2. ImagesInv /\ [ImagesNext]_imageVars => ImagesInv'
  BY ImagesInvKept
<1>3. ImagesInv => CachedBytesAreWhatTheyName
  BY DEF ImagesInv
<1> QED BY <1>1, <1>2, <1>3, PTL DEF ImagesSpec

-----------------------------------------------------------------------------
(* Queues without repetition.                                                *)

LEMMA RemoveAtIs ==
    ASSUME NEW S, NEW s \in Seq(S), NEW i \in 1 .. Len(s)
    PROVE  /\ RemoveAt(s, i) \in Seq(S) /\ Len(RemoveAt(s, i)) = Len(s) - 1
           /\ \A k \in 1 .. Len(s) - 1 : RemoveAt(s, i)[k] = IF k < i THEN s[k] ELSE s[k + 1]
<1> DEFINE front == SubSeq(s, 1, i - 1)
           back == SubSeq(s, i + 1, Len(s))
<1>1. /\ front \in Seq(S) /\ Len(front) = i - 1 /\ \A k \in 1 .. i - 1 : front[k] = s[k]
  BY SubSeqProperties
<1>2. /\ back \in Seq(S) /\ Len(back) = Len(s) - i
      /\ \A k \in 1 .. Len(s) - i : back[k] = s[i + k]
  BY SubSeqProperties
<1>3. RemoveAt(s, i) = front \o back
  BY DEF RemoveAt
<1> HIDE DEF front, back
<1>4. /\ front \o back \in Seq(S) /\ Len(front \o back) = Len(front) + Len(back)
      /\ \A k \in 1 .. Len(front) + Len(back) :
           (front \o back)[k] = IF k <= Len(front) THEN front[k] ELSE back[k - Len(front)]
  BY <1>1, <1>2, ConcatProperties
<1>5. ASSUME NEW k \in 1 .. Len(s) - 1
      PROVE  RemoveAt(s, i)[k] = IF k < i THEN s[k] ELSE s[k + 1]
  <2>1. CASE k < i
    BY <1>1, <1>2, <1>3, <1>4, <2>1
  <2>2. CASE k >= i
    <3>1. k - (i - 1) \in 1 .. Len(s) - i /\ i + (k - (i - 1)) = k + 1
      BY <2>2
    <3>2. (front \o back)[k] = back[k - (i - 1)]
      BY <1>1, <1>2, <1>4, <2>2
    <3> QED BY <1>2, <1>3, <2>2, <3>1, <3>2
  <2> QED BY <2>1, <2>2
<1> QED BY <1>1, <1>2, <1>3, <1>4, <1>5

\* What leaves a queue that holds it once.
LEMMA RemoveFirstIs ==
    ASSUME NEW S, NEW s \in Seq(S), IsInjective(s), NEW e \in ToSet(s)
    PROVE  /\ RemoveFirst(s, e) \in Seq(S) /\ Len(RemoveFirst(s, e)) = Len(s) - 1
           /\ ToSet(RemoveFirst(s, e)) = ToSet(s) \ {e} /\ IsInjective(RemoveFirst(s, e))
<1>1. PICK i \in 1 .. Len(s) : s[i] = e
  BY DEF ToSet
<1>2. {k \in 1 .. Len(s) : s[k] = e} = {i}
  BY <1>1 DEF IsInjective
<1>3. Min({i}) = i
  BY DEF Min
<1>4. PICK rest : rest = RemoveAt(s, i)
  OBVIOUS
<1>5. RemoveFirst(s, e) = rest
  BY <1>1, <1>2, <1>3, <1>4 DEF RemoveFirst, SelectInSeq
<1>6. /\ rest \in Seq(S) /\ Len(rest) = Len(s) - 1
      /\ \A k \in 1 .. Len(s) - 1 : rest[k] = IF k < i THEN s[k] ELSE s[k + 1]
  BY <1>4, RemoveAtIs
<1>7. ToSet(rest) \subseteq ToSet(s) \ {e}
  <2>1. ASSUME NEW k \in 1 .. Len(s) - 1 PROVE rest[k] \in ToSet(s) \ {e}
    <3>1. PICK l \in 1 .. Len(s) : rest[k] = s[l] /\ l # i
      BY <1>6
    <3> QED BY <1>1, <3>1 DEF ToSet, IsInjective
  <2> QED BY <1>6, <2>1 DEF ToSet
<1>8. ToSet(s) \ {e} \subseteq ToSet(rest)
  <2>1. ASSUME NEW l \in 1 .. Len(s), l # i PROVE \E k \in 1 .. Len(s) - 1 : rest[k] = s[l]
    <3>1. CASE l < i
      <4>1. l \in 1 .. Len(s) - 1
        BY <3>1
      <4> QED BY <1>6, <3>1, <4>1
    <3>2. CASE l > i
      <4>1. l - 1 \in 1 .. Len(s) - 1 /\ ~(l - 1 < i) /\ (l - 1) + 1 = l
        BY <3>2
      <4>2. rest[l - 1] = s[(l - 1) + 1]
        BY <1>6, <4>1
      <4> QED BY <4>1, <4>2
    <3> QED BY <2>1, <3>1, <3>2
  <2>2. DOMAIN rest = 1 .. Len(s) - 1 /\ DOMAIN s = 1 .. Len(s)
    BY <1>6
  <2> QED BY <1>1, <2>1, <2>2 DEF ToSet
<1>9. IsInjective(rest)
  <2> SUFFICES ASSUME NEW k \in 1 .. Len(s) - 1, NEW l \in 1 .. Len(s) - 1, rest[k] = rest[l]
               PROVE  k = l
    BY <1>6 DEF IsInjective
  <2>1. \A m \in 1 .. Len(s) - 1 : (IF m < i THEN m ELSE m + 1) \in 1 .. Len(s)
                                  /\ rest[m] = s[IF m < i THEN m ELSE m + 1]
    <3>1. ASSUME NEW m \in 1 .. Len(s) - 1, m < i
          PROVE  m \in 1 .. Len(s) /\ rest[m] = s[m]
      BY <1>6, <3>1
    <3>2. ASSUME NEW m \in 1 .. Len(s) - 1, ~(m < i)
          PROVE  m + 1 \in 1 .. Len(s) /\ rest[m] = s[m + 1]
      BY <1>6, <3>2
    <3> QED BY <3>1, <3>2
  <2>2. (IF k < i THEN k ELSE k + 1) = (IF l < i THEN l ELSE l + 1)
    BY <2>1 DEF IsInjective
  <2>3. k \in Int /\ l \in Int /\ i \in Int
    OBVIOUS
  <2>4. CASE k < i /\ l < i
    BY <2>2, <2>4
  <2>5. CASE k < i /\ ~(l < i)
    BY <2>2, <2>3, <2>5
  <2>6. CASE ~(k < i) /\ l < i
    BY <2>2, <2>3, <2>6
  <2>7. CASE ~(k < i) /\ ~(l < i)
    BY <2>2, <2>3, <2>7
  <2> QED BY <2>4, <2>5, <2>6, <2>7
<1> QED BY <1>5, <1>6, <1>7, <1>8, <1>9

LEMMA HeadLeaves ==
    ASSUME NEW S, NEW s \in Seq(S), IsInjective(s), s # <<>>
    PROVE  /\ Head(s) \in ToSet(s) /\ Tail(s) \in Seq(S) /\ Len(Tail(s)) = Len(s) - 1
           /\ ToSet(Tail(s)) = ToSet(s) \ {Head(s)} /\ IsInjective(Tail(s))
<1>1. /\ Tail(s) \in Seq(S) /\ Len(Tail(s)) = Len(s) - 1
      /\ \A i \in 1 .. Len(Tail(s)) : Tail(s)[i] = s[i + 1]
      /\ Len(s) \in Nat \ {0}
  <2>1. Len(s) \in Nat \ {0}
    BY EmptySeq
  <2> QED BY <2>1, HeadTailProperties
<1>6. Head(s) = s[1]
  OBVIOUS
<1>2. IsInjective(Tail(s))
  BY <1>1 DEF IsInjective
<1>3. ToSet(Tail(s)) \subseteq ToSet(s) \ {Head(s)}
  BY <1>6, <1>1 DEF ToSet, IsInjective
<1>4. ToSet(s) \ {Head(s)} \subseteq ToSet(Tail(s))
  <2>1. ASSUME NEW l \in 1 .. Len(s), l # 1 PROVE s[l] \in ToSet(Tail(s))
    <3>1. l - 1 \in 1 .. Len(Tail(s)) /\ (l - 1) + 1 = l
      BY <1>1, <2>1
    <3>2. Tail(s)[l - 1] = s[l]
      BY <1>1, <3>1
    <3>3. DOMAIN Tail(s) = 1 .. Len(Tail(s))
      BY <1>1
    <3> QED BY <3>1, <3>2, <3>3 DEF ToSet
  <2> QED BY <1>6, <1>1, <2>1 DEF ToSet
<1>5. Head(s) \in ToSet(s)
  BY <1>6, <1>1 DEF ToSet
<1> QED BY <1>1, <1>2, <1>3, <1>4, <1>5

LEMMA AppendJoins ==
    ASSUME NEW S, NEW s \in Seq(S), IsInjective(s), NEW e \in S, e \notin ToSet(s)
    PROVE  /\ Append(s, e) \in Seq(S) /\ Len(Append(s, e)) = Len(s) + 1
           /\ ToSet(Append(s, e)) = ToSet(s) \union {e} /\ IsInjective(Append(s, e))
<1>1. PICK t : t = Append(s, e)
  OBVIOUS
<1>2. /\ t \in Seq(S) /\ Len(t) = Len(s) + 1 /\ t[Len(s) + 1] = e
      /\ \A i \in 1 .. Len(s) : t[i] = s[i]
  BY <1>1, AppendProperties
<1>3. IsInjective(t)
  <2>1. \A i \in 1 .. Len(s) : t[i] = s[i] /\ t[i] # e
    BY <1>2 DEF ToSet
  <2>2. \A i \in 1 .. Len(s) + 1 : i # Len(s) + 1 => i \in 1 .. Len(s)
    OBVIOUS
  <2> QED BY <1>2, <2>1, <2>2 DEF IsInjective
<1>4. ToSet(t) = ToSet(s) \union {e}
  <2>1. DOMAIN t = 1 .. Len(s) + 1 /\ DOMAIN s = 1 .. Len(s) /\ Len(s) \in Nat
    BY <1>2
  <2>2. ToSet(s) \union {e} \subseteq ToSet(t)
    BY <1>2, <2>1 DEF ToSet
  <2>3. ToSet(t) \subseteq ToSet(s) \union {e}
    BY <1>2, <2>1 DEF ToSet
  <2> QED BY <2>2, <2>3
<1> QED BY <1>1, <1>2, <1>3, <1>4
-----------------------------------------------------------------------------
(* Slots and waiters.                                                        *)

Waiters == UNION {job[j].waiters : j \in ImageRequests}

\* A place in the queue for every queued job, and none while a slot is free.
QueueHolds ==
    /\ waiting \in Seq(ImageRequests) /\ IsInjective(waiting) /\ ToSet(waiting) = Jobs("queued")
    /\ IsFiniteSet(Jobs("queued")) /\ Len(waiting) = Cardinality(Jobs("queued"))
    /\ IsFiniteSet(Jobs("running")) /\ Cardinality(Jobs("running")) <= Concurrency
    /\ waiting # <<>> => Cardinality(Jobs("running")) = Concurrency
    /\ Len(waiting) <= MaxQueued

\* A request creates one job at most, and has one while it waits.
WaitersHold ==
    /\ \A j \in ImageRequests : job[j].pc = "none" => job[j].waiters = {}
    /\ \A j \in ImageRequests : job[j].pc = "queued" => job[j].waiters # {}
    /\ \A r \in ImageRequests : request[r].pc = "waiting" => r \in Waiters
    /\ \A r \in ImageRequests : request[r].pc \in {"idle", "read", "schedule"} => job[r].pc = "none"
    /\ IsFiniteSet(Waiters) /\ Cardinality(Waiters) <= MaxWaiters

SlotsInv == ImagesInv /\ QueueHolds /\ WaitersHold

LEMMA SlotsInvStarts == ImagesInit => SlotsInv
<1> SUFFICES ASSUME ImagesInit PROVE SlotsInv
  OBVIOUS
<1>1. \A j \in ImageRequests : job[j].pc = "none" /\ job[j].waiters = {}
  BY DEF ImagesInit, NoJob
<1>2. Jobs("queued") = {} /\ Jobs("running") = {} /\ Waiters = {}
  BY <1>1 DEF Jobs, Waiters
<1>3. QueueHolds
  <2>1. waiting = <<>> /\ waiting \in Seq(ImageRequests) /\ Len(waiting) = 0
        /\ IsInjective(waiting) /\ ToSet(waiting) = {}
    BY DEF ImagesInit, IsInjective, ToSet
  <2>2. IsFiniteSet({}) /\ Cardinality({}) = 0
    BY FS_EmptySet
  <2>3. 0 <= Concurrency /\ 0 <= MaxQueued
    BY ImageAssumption
  <2> QED BY <1>2, <2>1, <2>2, <2>3 DEF QueueHolds
<1>4. WaitersHold
  BY <1>1, <1>2, FS_EmptySet, ImageAssumption DEF WaitersHold, ImagesInit, NewRequest
<1> QED BY <1>3, <1>4, ImagesInvStarts DEF SlotsInv

\* Jobs and queue stay as they are, and nobody starts or stops to wait.
LEMMA SlotsFrame ==
    ASSUME SlotsInv, UNCHANGED <<job, waiting>>,
           \A q \in ImageRequests :
             /\ request'[q].pc = "waiting" => request[q].pc = "waiting"
             /\ request'[q].pc \in {"idle", "read", "schedule"} =>
                  request[q].pc \in {"idle", "read", "schedule"}
    PROVE  QueueHolds' /\ WaitersHold'
<1>1. QueueHolds'
  BY DEF SlotsInv, QueueHolds, Jobs
<1>2. WaitersHold'
  BY DEF SlotsInv, WaitersHold, Waiters
<1> QED BY <1>1, <1>2

\* One request that waits for nothing goes where it asks nothing of the scheduler.
LEMMA StepsAside ==
    ASSUME SlotsInv, UNCHANGED <<job, waiting>>, NEW r \in ImageRequests, NEW new,
           request' = [request EXCEPT ![r] = new], new.pc # "waiting",
           \/ request[r].pc \in {"idle", "read", "schedule"}
           \/ new.pc \notin {"idle", "read", "schedule"}
    PROVE  QueueHolds' /\ WaitersHold'
<1>1. \A q \in ImageRequests : request'[q] = IF q = r THEN new ELSE request[q]
  BY DEF SlotsInv, ImagesInv, RecordsTyped
<1> QED BY <1>1, SlotsFrame

LEMMA RouteKeepsSlots ==
    ASSUME SlotsInv, NEW r \in ImageRequests,
           Open(r) \/ ReadSaved(r) \/ Recheck(r) \/ WriteSaved(r)
    PROVE  QueueHolds' /\ WaitersHold'
<1>1. /\ request \in [ImageRequests -> RequestRecord] /\ UNCHANGED <<job, waiting>>
      /\ source \in Versions /\ public \in BOOLEAN
  BY DEF SlotsInv, ImagesInv, RecordsTyped, Open, ReadSaved, Recheck, WriteSaved
<1>2. ASSUME NEW pc \in {"done", "schedule", "write"}, Goto(r, pc),
             request[r].pc \in {"idle", "read"} \/ pc # "schedule"
      PROVE  QueueHolds' /\ WaitersHold'
  <2>1. PICK old \in RequestRecord : old = request[r]
    BY <1>1
  <2>2. PICK new : new = [old EXCEPT !.pc = pc]
    OBVIOUS
  <2>3. new.pc = pc /\ request' = [request EXCEPT ![r] = new]
    BY <1>1, <1>2, <2>1, <2>2 DEF Goto, RequestRecord
  <2> QED BY <1>1, <1>2, <2>3, StepsAside
<1>3. CASE Open(r)
  <2>1. CASE Goto(r, "done")
    BY <1>2, <2>1
  <2>2. ASSUME NEW pc \in {"done", "read", "schedule"},
               request' = [request EXCEPT ![r] = [NewRequest EXCEPT !.pc = pc, !.key = source,
                                                                    !.shared = public]]
        PROVE  QueueHolds' /\ WaitersHold'
    <3>1. PICK new : new = [NewRequest EXCEPT !.pc = pc, !.key = source, !.shared = public]
      OBVIOUS
    <3>2. new.pc = pc
      BY <3>1 DEF NewRequest
    <3>3. request[r].pc = "idle"
      BY <1>3 DEF Open
    <3> QED BY <1>1, <2>2, <3>1, <3>2, <3>3, StepsAside
  <2>3. CASE ~Goto(r, "done")
    <3>1. PICK pc : pc = CASE public /\ cached[source] # NoBytes -> "done"
                           [] public /\ cached[source] = NoBytes -> "read"
                           [] ~public -> "schedule"
      OBVIOUS
    <3>2. pc \in {"done", "read", "schedule"}
      BY <1>1, <3>1
    <3>3. request' = [request EXCEPT ![r] = [NewRequest EXCEPT !.pc = pc, !.key = source,
                                                               !.shared = public]]
      BY <1>3, <2>3, <3>1 DEF Open
    <3> QED BY <2>2, <3>2, <3>3
  <2> QED BY <2>1, <2>3
<1>4. CASE ReadSaved(r)
  <2>1. CASE Goto(r, "schedule")
    BY <1>2, <1>4, <2>1 DEF ReadSaved
  <2>2. CASE ~Goto(r, "schedule")
    <3>1. PICK old \in RequestRecord : old = request[r]
      BY <1>1
    <3>2. PICK new : new = [old EXCEPT !.pc = "check", !.bytes = saved[old.key]]
      OBVIOUS
    <3>3. new.pc = "check" /\ request' = [request EXCEPT ![r] = new]
      BY <1>1, <1>4, <2>2, <3>1, <3>2 DEF ReadSaved, RequestRecord
    <3> QED BY <1>1, <3>3, StepsAside
  <2> QED BY <2>1, <2>2
<1>5. CASE Recheck(r)
  <2>1. PICK pc \in {"write", "done"} : Goto(r, pc)
    BY <1>5 DEF Recheck
  <2> QED BY <1>2, <2>1
<1>6. CASE WriteSaved(r)
  <2>1. PICK old \in RequestRecord : old = request[r]
    BY <1>1
  <2>2. PICK new : new = [old EXCEPT !.pc = "check", !.made = FALSE]
    OBVIOUS
  <2>3. new.pc = "check" /\ request' = [request EXCEPT ![r] = new]
    BY <1>1, <1>6, <2>1, <2>2 DEF WriteSaved, RequestRecord
  <2> QED BY <1>1, <2>3, StepsAside
<1> QED BY <1>3, <1>4, <1>5, <1>6

\* A request starts to wait.
LEMMA WaitersGrow ==
    ASSUME SlotsInv, NEW r \in ImageRequests, request[r].pc = "schedule", Goto(r, "waiting"),
           WaiterCount < MaxWaiters, NEW j \in ImageRequests, NEW made \in JobRecord,
           job' = [job EXCEPT ![j] = made], made.pc # "none",
           job[j].pc # "none" \/ j = r, made.waiters = job[j].waiters \union {r}
    PROVE  WaitersHold'
<1>1. /\ \A q \in ImageRequests : request'[q].pc = IF q = r THEN "waiting" ELSE request[q].pc
      /\ job'[j] = made /\ \A k \in ImageRequests \ {j} : job'[k] = job[k]
  BY DEF SlotsInv, ImagesInv, RecordsTyped, RequestRecord, Goto
<1>2. r \notin Waiters
  BY DEF SlotsInv, ImagesInv, WaitersMatch, Waiters
<1>3. Waiters' = Waiters \union {r}
  BY <1>1 DEF Waiters
<1>4. IsFiniteSet(Waiters') /\ Cardinality(Waiters') <= MaxWaiters
  <2>1. /\ IsFiniteSet(Waiters) /\ Cardinality(Waiters) < MaxWaiters
        /\ Cardinality(Waiters) \in Nat /\ MaxWaiters \in Nat
    BY FS_CardinalityType, ImageAssumption DEF SlotsInv, WaitersHold, WaiterCount, Waiters
  <2>2. IsFiniteSet(Waiters \union {r})
        /\ Cardinality(Waiters \union {r}) = Cardinality(Waiters) + 1
    BY <1>2, <2>1, FS_AddElement
  <2> QED BY <1>3, <2>1, <2>2
<1>5. \A q \in ImageRequests : request'[q].pc = "waiting" => q \in Waiters'
  BY <1>1, <1>3 DEF SlotsInv, WaitersHold
<1>6. \A q \in ImageRequests :
        request'[q].pc \in {"idle", "read", "schedule"} => job'[q].pc = "none"
  BY <1>1 DEF SlotsInv, WaitersHold
<1>7. \A k \in ImageRequests : /\ job'[k].pc = "none" => job'[k].waiters = {}
                               /\ job'[k].pc = "queued" => job'[k].waiters # {}
  BY <1>1 DEF SlotsInv, WaitersHold
<1> QED BY <1>4, <1>5, <1>6, <1>7 DEF WaitersHold

LEMMA ScheduleKeepsSlots ==
    ASSUME SlotsInv, NEW r \in ImageRequests, Schedule(r) PROVE QueueHolds' /\ WaitersHold'
<1>1. /\ request \in [ImageRequests -> RequestRecord] /\ job \in [ImageRequests -> JobRecord]
      /\ request[r].pc = "schedule" /\ request[r] \in RequestRecord
      /\ job[r].pc = "none" /\ job[r].waiters = {}
  BY DEF SlotsInv, WaitersHold, ImagesInv, RecordsTyped, Schedule
<1>2. CASE Overloaded(r)
  <2>1. PICK old \in RequestRecord : old = request[r]
    BY <1>1
  <2>2. PICK new : new = [old EXCEPT !.pc = "done"]
    OBVIOUS
  <2>3. new.pc = "done" /\ request' = [request EXCEPT ![r] = new]
    BY <1>1, <1>2, <2>1, <2>2 DEF Schedule, Goto, RequestRecord
  <2> QED BY <1>2, <2>3, StepsAside DEF Schedule
<1>3. ASSUME ~Overloaded(r), NEW j \in SharedJob(r),
             job' = [job EXCEPT ![j].waiters = @ \union {r}], UNCHANGED waiting
      PROVE  QueueHolds' /\ WaitersHold'
  <2>1. j \in ImageRequests /\ job[j].pc \in {"queued", "running"}
    BY DEF SharedJob, Jobs
  <2>2. PICK old \in JobRecord : old = job[j]
    BY <1>1, <2>1
  <2>3. PICK made : made = [old EXCEPT !.waiters = old.waiters \union {r}]
    OBVIOUS
  <2>4. made \in JobRecord /\ made.waiters = old.waiters \union {r} /\ made.pc = old.pc
    BY <2>3 DEF JobRecord
  <2>5. job' = [job EXCEPT ![j] = made]
    BY <1>1, <1>3, <2>1, <2>2, <2>3
  <2>6. WaitersHold'
    <3>1. WaiterCount < MaxWaiters
      <4>1. ~(WaiterCount >= MaxWaiters)
        BY <1>3 DEF Overloaded
      <4>2. Cardinality(Waiters) \in Nat /\ MaxWaiters \in Nat
        BY FS_CardinalityType, ImageAssumption DEF SlotsInv, WaitersHold
      <4> QED BY <4>1, <4>2 DEF WaiterCount, Waiters
    <3>2. Goto(r, "waiting")
      BY <1>3 DEF Schedule
    <3>3. made.waiters = job[j].waiters \union {r} /\ made.pc # "none" /\ job[j].pc # "none"
      BY <2>1, <2>2, <2>4
    <3> QED BY <1>1, <2>1, <2>4, <2>5, <3>1, <3>2, <3>3, WaitersGrow
  <2>7. Jobs("queued")' = Jobs("queued") /\ Jobs("running")' = Jobs("running")
    BY <1>1, <2>1, <2>2, <2>4, <2>5 DEF Jobs
  <2> QED BY <1>3, <2>6, <2>7 DEF SlotsInv, QueueHolds
<1>4. ASSUME ~Overloaded(r), SharedJob(r) = {}, NEW pc \in {"running", "queued"},
             Goto(r, "waiting"),
             pc = IF Cardinality(Jobs("running")) < Concurrency THEN "running" ELSE "queued",
             job' = [job EXCEPT ![r] = [pc |-> pc, key |-> request[r].key,
                                        shared |-> request[r].shared, waiters |-> {r}]],
             waiting' = IF pc = "running" THEN waiting ELSE Append(waiting, r)
      PROVE  QueueHolds' /\ WaitersHold'
  <2>1. PICK old \in RequestRecord : old = request[r]
    BY <1>1
  <2>2. PICK made : made = [pc |-> pc, key |-> old.key, shared |-> old.shared, waiters |-> {r}]
    OBVIOUS
  <2>3. made \in JobRecord /\ made.pc = pc /\ made.waiters = {r}
    BY <2>1, <2>2 DEF JobRecord, RequestRecord
  <2>4. job' = [job EXCEPT ![r] = made]
    BY <1>4, <2>1, <2>2
  <2>5. /\ ~(WaiterCount >= MaxWaiters)
        /\ Cardinality(Jobs("running")) >= Concurrency => ~(Len(waiting) >= MaxQueued)
    BY <1>4 DEF Overloaded
  <2>6. WaitersHold'
    <3>1. WaiterCount < MaxWaiters
      <4>1. Cardinality(Waiters) \in Nat /\ MaxWaiters \in Nat
        BY FS_CardinalityType, ImageAssumption DEF SlotsInv, WaitersHold
      <4> QED BY <2>5, <4>1 DEF WaiterCount, Waiters
    <3>2. made.waiters = job[r].waiters \union {r} /\ made.pc # "none"
      BY <1>1, <2>3
    <3> QED BY <1>1, <1>4, <2>3, <2>4, <3>1, <3>2, WaitersGrow
  <2>7. /\ waiting \in Seq(ImageRequests) /\ IsInjective(waiting) /\ ToSet(waiting) = Jobs("queued")
        /\ IsFiniteSet(Jobs("queued")) /\ Len(waiting) = Cardinality(Jobs("queued"))
        /\ IsFiniteSet(Jobs("running")) /\ Cardinality(Jobs("running")) <= Concurrency
        /\ waiting # <<>> => Cardinality(Jobs("running")) = Concurrency
        /\ Cardinality(Jobs("running")) \in Nat /\ Concurrency \in Nat /\ MaxQueued \in Nat
        /\ Len(waiting) \in Nat /\ Len(waiting) <= MaxQueued
    BY FS_CardinalityType, ImageAssumption DEF SlotsInv, QueueHolds
  <2>8. r \notin Jobs("queued") /\ r \notin Jobs("running")
    BY <1>1 DEF Jobs
  <2>9. CASE pc = "running"
    <3>1. Jobs("queued")' = Jobs("queued") /\ Jobs("running")' = Jobs("running") \union {r}
      BY <1>1, <2>3, <2>4, <2>9 DEF Jobs
    <3>2. IsFiniteSet(Jobs("running") \union {r})
          /\ Cardinality(Jobs("running") \union {r}) = Cardinality(Jobs("running")) + 1
      BY <2>7, <2>8, FS_AddElement
    <3>3. Cardinality(Jobs("running")) < Concurrency
      BY <1>4, <2>9
    <3>4. waiting' = waiting /\ waiting = <<>>
      BY <1>4, <2>7, <2>9, <3>3
    <3>5. /\ IsFiniteSet(Jobs("running")') /\ Cardinality(Jobs("running")') <= Concurrency
          /\ IsFiniteSet(Jobs("queued")') /\ Len(waiting') = Cardinality(Jobs("queued")')
          /\ ToSet(waiting') = Jobs("queued")'
      <4>1. IsFiniteSet(Jobs("running")')
            /\ Cardinality(Jobs("running")') = Cardinality(Jobs("running")) + 1
        BY <3>1, <3>2, Zenon
      <4>2. ToSet(waiting') = Jobs("queued")' /\ Len(waiting') = Cardinality(Jobs("queued")')
            /\ IsFiniteSet(Jobs("queued")')
        BY <2>7, <3>1, <3>4, Zenon
      <4> QED BY <2>7, <3>3, <4>1, <4>2
    <3> QED BY <2>6, <2>7, <3>4, <3>5 DEF QueueHolds
  <2>10. CASE pc = "queued"
    <3>1. Jobs("queued")' = Jobs("queued") \union {r} /\ Jobs("running")' = Jobs("running")
      BY <1>1, <2>3, <2>4, <2>10 DEF Jobs
    <3>2. IsFiniteSet(Jobs("queued") \union {r})
          /\ Cardinality(Jobs("queued") \union {r}) = Cardinality(Jobs("queued")) + 1
      BY <2>7, <2>8, FS_AddElement
    <3>3. ~(Cardinality(Jobs("running")) < Concurrency)
      BY <1>4, <2>10
    <3>4. /\ waiting' \in Seq(ImageRequests) /\ Len(waiting') = Len(waiting) + 1
          /\ ToSet(waiting') = ToSet(waiting) \union {r} /\ IsInjective(waiting')
      BY <1>4, <2>7, <2>8, <2>10, AppendJoins
    <3>5. Cardinality(Jobs("running")) = Concurrency /\ Len(waiting) < MaxQueued
      BY <2>5, <2>7, <3>3
    <3>6. /\ IsFiniteSet(Jobs("running")') /\ Cardinality(Jobs("running")') = Concurrency
          /\ IsFiniteSet(Jobs("queued")') /\ Len(waiting') = Cardinality(Jobs("queued")')
          /\ ToSet(waiting') = Jobs("queued")' /\ Len(waiting') <= MaxQueued
      <4>1. IsFiniteSet(Jobs("queued")')
            /\ Cardinality(Jobs("queued")') = Cardinality(Jobs("queued")) + 1
        BY <3>1, <3>2, Zenon
      <4>2. ToSet(waiting') = Jobs("queued")' /\ IsFiniteSet(Jobs("running")')
            /\ Cardinality(Jobs("running")') = Concurrency
        BY <2>7, <3>1, <3>4, <3>5, Zenon
      <4> QED BY <2>7, <3>4, <3>5, <4>1, <4>2
    <3> QED BY <2>6, <2>7, <3>4, <3>6 DEF QueueHolds
  <2> QED BY <2>9, <2>10
<1>5. CASE ~Overloaded(r)
  <2>1. PICK pc \in {"running", "queued"} :
          pc = IF Cardinality(Jobs("running")) < Concurrency THEN "running" ELSE "queued"
    OBVIOUS
  <2>2. /\ Goto(r, "waiting")
        /\ \/ \E j \in SharedJob(r) : /\ job' = [job EXCEPT ![j].waiters = @ \union {r}]
                                      /\ UNCHANGED waiting
           \/ /\ SharedJob(r) = {}
              /\ job' = [job EXCEPT ![r] = [pc |-> pc, key |-> request[r].key,
                                         shared |-> request[r].shared, waiters |-> {r}]]
              /\ waiting' = IF pc = "running" THEN waiting ELSE Append(waiting, r)
    BY <1>5, <2>1 DEF Schedule
  <2> QED BY <1>3, <1>4, <1>5, <2>1, <2>2
<1> QED BY <1>2, <1>5

\* Some requests stop to wait, and no job gets a waiter.
LEMMA WaitersLeave ==
    ASSUME SlotsInv, job' \in [ImageRequests -> JobRecord],
           \A k \in ImageRequests :
             /\ job'[k].waiters \subseteq job[k].waiters
             /\ job'[k].pc = "none" => job'[k].waiters = {}
             /\ job'[k].pc = "queued" => job'[k].waiters # {}
             /\ job[k].pc = "none" => job'[k].pc = "none",
           \A q \in ImageRequests :
             \/ request'[q] = request[q]
                /\ \A k \in ImageRequests : q \in job[k].waiters => q \in job'[k].waiters
             \/ request'[q].pc \in {"done", "check"}
    PROVE  WaitersHold'
<1>1. Waiters' \subseteq Waiters
  BY DEF Waiters
<1>2. IsFiniteSet(Waiters') /\ Cardinality(Waiters') <= MaxWaiters
  <2>1. /\ IsFiniteSet(Waiters) /\ Cardinality(Waiters) <= MaxWaiters
        /\ Cardinality(Waiters) \in Nat /\ MaxWaiters \in Nat
    BY FS_CardinalityType, ImageAssumption DEF SlotsInv, WaitersHold
  <2>2. /\ IsFiniteSet(Waiters') /\ Cardinality(Waiters') <= Cardinality(Waiters)
        /\ Cardinality(Waiters') \in Nat
    BY <1>1, <2>1, FS_Subset, FS_CardinalityType
  <2> QED BY <2>1, <2>2
<1>3. \A q \in ImageRequests : request'[q].pc = "waiting" => q \in Waiters'
  BY DEF SlotsInv, WaitersHold, Waiters
<1>4. \A q \in ImageRequests :
        request'[q].pc \in {"idle", "read", "schedule"} => job'[q].pc = "none"
  BY DEF SlotsInv, WaitersHold
<1> QED BY <1>2, <1>3, <1>4 DEF WaitersHold

\* What QueueHolds says, with the numbers it is about.
LEMMA QueueFacts ==
    ASSUME SlotsInv
    PROVE  /\ waiting \in Seq(ImageRequests) /\ IsInjective(waiting)
           /\ ToSet(waiting) = Jobs("queued") /\ Len(waiting) = Cardinality(Jobs("queued"))
           /\ IsFiniteSet(Jobs("queued")) /\ IsFiniteSet(Jobs("running"))
           /\ waiting # <<>> => Cardinality(Jobs("running")) = Concurrency
           /\ Cardinality(Jobs("running")) \in Nat /\ Cardinality(Jobs("queued")) \in Nat
           /\ Concurrency \in Nat /\ MaxQueued \in Nat
           /\ Cardinality(Jobs("running")) <= Concurrency /\ Len(waiting) <= MaxQueued
BY FS_CardinalityType, ImageAssumption DEF SlotsInv, QueueHolds

LEMMA FinishJobKeepsQueue ==
    ASSUME SlotsInv, NEW j \in ImageRequests, job[j].pc = "running",
           StartNext([job EXCEPT ![j] = NoJob])
    PROVE  /\ QueueHolds' /\ job' \in [ImageRequests -> JobRecord]
           /\ job'[j] = NoJob
           /\ \A k \in ImageRequests \ {j} :
                /\ job'[k].waiters = job[k].waiters
                /\ job'[k].pc = "queued" => job[k].pc = "queued"
                /\ job[k].pc = "none" <=> job'[k].pc = "none"
<1>1. job \in [ImageRequests -> JobRecord]
  BY DEF SlotsInv, ImagesInv, RecordsTyped
<1>2. PICK jobs : jobs = [job EXCEPT ![j] = NoJob]
  OBVIOUS
<1>3. /\ jobs \in [ImageRequests -> JobRecord] /\ jobs[j] = NoJob
      /\ \A k \in ImageRequests \ {j} : jobs[k] = job[k]
  BY <1>1, <1>2, NewTyped
<1>4. NoJob.pc = "none"
  BY DEF NoJob
<1>5. j \in Jobs("running") /\ j \notin Jobs("queued")
  BY DEF Jobs
<1>6. IsFiniteSet(Jobs("running") \ {j})
      /\ Cardinality(Jobs("running") \ {j}) = Cardinality(Jobs("running")) - 1
  BY <1>5, QueueFacts, FS_RemoveElement
<1>7. CASE waiting = <<>>
  <2>1. job' = jobs /\ waiting' = waiting
    BY <1>2, <1>7 DEF StartNext
  <2>2. Jobs("running")' = Jobs("running") \ {j} /\ Jobs("queued")' = Jobs("queued")
    BY <1>3, <1>4, <1>5, <2>1 DEF Jobs
  <2>3. /\ IsFiniteSet(Jobs("running")') /\ Cardinality(Jobs("running")') <= Concurrency
        /\ IsFiniteSet(Jobs("queued")') /\ Len(waiting') = Cardinality(Jobs("queued")')
        /\ ToSet(waiting') = Jobs("queued")'
    <3>1. Cardinality(Jobs("running")') = Cardinality(Jobs("running")) - 1
          /\ IsFiniteSet(Jobs("running")')
      BY <1>6, <2>2, Zenon
    <3>2. IsFiniteSet(Jobs("queued")') /\ Len(waiting') = Cardinality(Jobs("queued")')
          /\ ToSet(waiting') = Jobs("queued")'
      BY <2>1, <2>2, QueueFacts, Zenon
    <3> QED BY <3>1, <3>2, QueueFacts
  <2>4. QueueHolds'
    BY <1>7, <2>1, <2>3, QueueFacts DEF QueueHolds
  <2> QED BY <1>3, <1>4, <2>1, <2>4
<1>8. CASE waiting # <<>>
  <2>1. PICK h : h = Head(waiting)
    OBVIOUS
  <2>2. /\ h \in Jobs("queued") /\ waiting' \in Seq(ImageRequests)
        /\ Len(waiting') = Len(waiting) - 1 /\ ToSet(waiting') = Jobs("queued") \ {h}
        /\ IsInjective(waiting')
    <3>1. waiting' = Tail(waiting)
      BY <1>8 DEF StartNext
    <3> QED BY <1>8, <2>1, <3>1, QueueFacts, HeadLeaves
  <2>3. h \in ImageRequests /\ job[h].pc = "queued" /\ h # j
    BY <2>2, <1>5 DEF Jobs
  <2>4. PICK old \in JobRecord : old = job[h]
    BY <1>1, <2>3
  <2>5. PICK new : new = [old EXCEPT !.pc = "running"]
    OBVIOUS
  <2>6. new \in JobRecord /\ new.pc = "running" /\ new.waiters = old.waiters
    BY <2>5 DEF JobRecord
  <2>7. job' = [jobs EXCEPT ![h] = new]
    BY <1>2, <1>3, <1>8, <2>1, <2>3, <2>4, <2>5 DEF StartNext
  <2>8. /\ job' \in [ImageRequests -> JobRecord] /\ job'[j] = NoJob /\ job'[h] = new
        /\ \A k \in ImageRequests \ {j, h} : job'[k] = job[k]
    BY <1>3, <2>3, <2>6, <2>7
  <2>9. /\ Jobs("running")' = (Jobs("running") \ {j}) \union {h}
        /\ Jobs("queued")' = Jobs("queued") \ {h}
    BY <1>4, <2>3, <2>6, <2>8 DEF Jobs
  <2>10. /\ IsFiniteSet(Jobs("running")') /\ Cardinality(Jobs("running")') = Concurrency
         /\ IsFiniteSet(Jobs("queued")') /\ Len(waiting') = Cardinality(Jobs("queued")')
         /\ ToSet(waiting') = Jobs("queued")' /\ Len(waiting') <= MaxQueued
    <3>1. h \notin Jobs("running") \ {j}
      BY <2>3 DEF Jobs
    <3>2. IsFiniteSet((Jobs("running") \ {j}) \union {h})
          /\ Cardinality((Jobs("running") \ {j}) \union {h}) = Cardinality(Jobs("running") \ {j}) + 1
      BY <1>6, <3>1, FS_AddElement
    <3>3. IsFiniteSet(Jobs("queued") \ {h})
          /\ Cardinality(Jobs("queued") \ {h}) = Cardinality(Jobs("queued")) - 1
      BY <2>2, QueueFacts, FS_RemoveElement
    <3>4. /\ IsFiniteSet(Jobs("running")') /\ IsFiniteSet(Jobs("queued")')
          /\ Cardinality(Jobs("running")') = Cardinality(Jobs("running") \ {j}) + 1
          /\ Cardinality(Jobs("queued")') = Cardinality(Jobs("queued")) - 1
          /\ ToSet(waiting') = Jobs("queued")'
      BY <2>2, <2>9, <3>2, <3>3, Zenon
    <3> QED BY <1>6, <1>8, <2>2, <3>4, QueueFacts
  <2>11. QueueHolds'
    BY <2>2, <2>10, QueueFacts DEF QueueHolds
  <2> QED BY <1>4, <2>3, <2>4, <2>6, <2>8, <2>11
<1> QED BY <1>7, <1>8

LEMMA FinishJobKeepsSlots ==
    ASSUME SlotsInv, NEW j \in ImageRequests, FinishJob(j) PROVE QueueHolds' /\ WaitersHold'
<1>1. /\ QueueHolds' /\ job' \in [ImageRequests -> JobRecord] /\ job'[j] = NoJob
      /\ \A k \in ImageRequests \ {j} :
           /\ job'[k].waiters = job[k].waiters
           /\ job'[k].pc = "queued" => job[k].pc = "queued"
           /\ job[k].pc = "none" <=> job'[k].pc = "none"
  BY FinishJobKeepsQueue DEF FinishJob
<1>2. NoJob.pc = "none" /\ NoJob.waiters = {} /\ job[j].pc = "running"
  BY DEF NoJob, FinishJob
<1>3. \A k \in ImageRequests :
        /\ job'[k].waiters \subseteq job[k].waiters
        /\ job'[k].pc = "none" => job'[k].waiters = {}
        /\ job'[k].pc = "queued" => job'[k].waiters # {}
        /\ job[k].pc = "none" => job'[k].pc = "none"
  BY <1>1, <1>2 DEF SlotsInv, WaitersHold
<1>4. ASSUME NEW q \in ImageRequests
      PROVE  \/ request'[q] = request[q]
                /\ \A k \in ImageRequests : q \in job[k].waiters => q \in job'[k].waiters
             \/ request'[q].pc \in {"done", "check"}
  <2>1. PICK bytes :
          request' = [r \in ImageRequests |->
            IF r \notin job[j].waiters THEN request[r]
            ELSE [request[r] EXCEPT !.pc = IF bytes = NoBytes THEN "done" ELSE "check",
                                    !.bytes = bytes, !.made = TRUE]]
    BY DEF FinishJob
  <2>2. CASE q \notin job[j].waiters
    BY <1>1, <2>1, <2>2
  <2>3. CASE q \in job[j].waiters
    <3>1. request[q] \in RequestRecord
      BY DEF SlotsInv, ImagesInv, RecordsTyped
    <3>2. PICK pc \in {"done", "check"} : pc = IF bytes = NoBytes THEN "done" ELSE "check"
      OBVIOUS
    <3>3. request'[q] = [request[q] EXCEPT !.pc = pc, !.bytes = bytes, !.made = TRUE]
      BY <2>1, <2>3, <3>2
    <3>4. request'[q].pc = pc
      BY <3>1, <3>3 DEF RequestRecord
    <3> QED BY <3>2, <3>4
  <2> QED BY <2>2, <2>3
<1> QED BY <1>1, <1>3, <1>4, WaitersLeave

LEMMA AbandonKeepsSlots ==
    ASSUME SlotsInv, NEW r \in ImageRequests, Abandon(r) PROVE QueueHolds' /\ WaitersHold'
<1>1. /\ request \in [ImageRequests -> RequestRecord] /\ job \in [ImageRequests -> JobRecord]
      /\ Goto(r, "done")
  BY DEF SlotsInv, ImagesInv, RecordsTyped, Abandon
<1>2. PICK old \in RequestRecord : old = request[r]
  BY <1>1
<1>3. PICK new : new = [old EXCEPT !.pc = "done"]
  OBVIOUS
<1>4. /\ new.pc = "done" /\ request' = [request EXCEPT ![r] = new]
      /\ \A q \in ImageRequests : request'[q] = IF q = r THEN new ELSE request[q]
  BY <1>1, <1>2, <1>3 DEF Goto, RequestRecord
<1>5. CASE request[r].pc # "waiting"
  BY <1>4, <1>5, StepsAside DEF Abandon
<1>6. CASE request[r].pc = "waiting"
  <2>1. PICK j \in ImageRequests : r \in job[j].waiters /\ Detach(r, j)
    BY <1>6 DEF Abandon
  <2>2. PICK was \in JobRecord : was = job[j]
    BY <1>1
  <2>3. NoJob \in JobRecord /\ NoJob.pc = "none" /\ NoJob.waiters = {}
    BY NewTyped DEF NoJob
  <2>4. was.pc # "none"
    BY <2>1, <2>2 DEF SlotsInv, WaitersHold
  <2>5. ASSUME NEW made \in JobRecord, job' = [job EXCEPT ![j] = made],
               made.waiters = was.waiters \ {r}, made.pc = "none" => made.waiters = {},
               made.pc = "queued" => made.waiters # {}
        PROVE  WaitersHold'
    <3>1. job'[j] = made /\ \A k \in ImageRequests \ {j} : job'[k] = job[k]
      BY <1>1, <2>5
    <3>2. job' \in [ImageRequests -> JobRecord]
      BY <1>1, <2>5
    <3>3. \A k \in ImageRequests :
            /\ job'[k].waiters \subseteq job[k].waiters
            /\ job'[k].pc = "none" => job'[k].waiters = {}
            /\ job'[k].pc = "queued" => job'[k].waiters # {}
            /\ job[k].pc = "none" => job'[k].pc = "none"
      BY <2>2, <2>4, <2>5, <3>1 DEF SlotsInv, WaitersHold
    <3>4. \A q \in ImageRequests :
            \/ request'[q] = request[q]
               /\ \A k \in ImageRequests : q \in job[k].waiters => q \in job'[k].waiters
            \/ request'[q].pc \in {"done", "check"}
      BY <1>4, <2>2, <2>5, <3>1
    <3> QED BY <3>2, <3>3, <3>4, WaitersLeave
  <2>6. CASE job[j].pc = "queued" /\ job[j].waiters \ {r} = {}
    <3>1. job' = [job EXCEPT ![j] = NoJob] /\ waiting' = RemoveFirst(waiting, j)
      BY <2>1, <2>6 DEF Detach
    <3>2. WaitersHold'
      BY <2>2, <2>3, <2>5, <2>6, <3>1
    <3>3. job'[j] = NoJob /\ \A k \in ImageRequests \ {j} : job'[k] = job[k]
      BY <1>1, <2>3, <3>1
    <3>4. j \in Jobs("queued")
      BY <2>6 DEF Jobs
    <3>5. Jobs("queued")' = Jobs("queued") \ {j} /\ Jobs("running")' = Jobs("running")
      BY <2>3, <2>6, <3>3 DEF Jobs
    <3>6. /\ waiting' \in Seq(ImageRequests) /\ IsInjective(waiting')
          /\ ToSet(waiting') = Jobs("queued") \ {j} /\ Len(waiting') = Len(waiting) - 1
      BY <3>1, <3>4, QueueFacts, RemoveFirstIs
    <3>7. IsFiniteSet(Jobs("queued") \ {j})
          /\ Cardinality(Jobs("queued") \ {j}) = Cardinality(Jobs("queued")) - 1
      BY <3>4, QueueFacts, FS_RemoveElement
    <3>8. /\ IsFiniteSet(Jobs("queued")') /\ IsFiniteSet(Jobs("running")')
          /\ Cardinality(Jobs("queued")') = Cardinality(Jobs("queued")) - 1
          /\ Cardinality(Jobs("running")') = Cardinality(Jobs("running"))
          /\ ToSet(waiting') = Jobs("queued")'
      BY <3>5, <3>6, <3>7, QueueFacts, Zenon
    <3>9. waiting # <<>>
      BY <3>4, QueueFacts DEF ToSet
    <3> QED BY <3>2, <3>6, <3>8, <3>9, QueueFacts DEF QueueHolds
  <2>7. CASE ~(job[j].pc = "queued" /\ job[j].waiters \ {r} = {})
    <3>1. PICK made : made = [was EXCEPT !.waiters = was.waiters \ {r}]
      OBVIOUS
    <3>2. made \in JobRecord /\ made.waiters = was.waiters \ {r} /\ made.pc = was.pc
      BY <3>1 DEF JobRecord
    <3>3. job' = [job EXCEPT ![j] = made] /\ waiting' = waiting
      BY <1>1, <2>1, <2>2, <2>7, <3>1 DEF Detach
    <3>4. WaitersHold'
      BY <2>2, <2>4, <2>5, <2>7, <3>2, <3>3
    <3>5. Jobs("queued")' = Jobs("queued") /\ Jobs("running")' = Jobs("running")
      BY <1>1, <2>2, <3>2, <3>3 DEF Jobs
    <3> QED BY <3>3, <3>4, <3>5, QueueFacts DEF QueueHolds
  <2> QED BY <2>6, <2>7
<1> QED BY <1>5, <1>6

LEMMA SlotsInvKept == ASSUME SlotsInv, [ImagesNext]_imageVars PROVE SlotsInv'
<1>1. ImagesInv'
  BY ImagesInvKept DEF SlotsInv
<1>2. CASE UNCHANGED imageVars \/ ReplaceSource \/ TogglePublic
  <2>1. UNCHANGED <<request, job, waiting>>
    BY <1>2 DEF imageVars, ReplaceSource, TogglePublic
  <2>2. QueueHolds' /\ WaitersHold'
    BY <2>1, SlotsFrame
  <2> QED BY <1>1, <2>2 DEF SlotsInv
<1>3. ASSUME NEW r \in ImageRequests, Open(r) \/ Serve(r) \/ Abandon(r)
      PROVE  QueueHolds' /\ WaitersHold'
  BY <1>3, RouteKeepsSlots, ScheduleKeepsSlots, FinishJobKeepsSlots, AbandonKeepsSlots DEF Serve
<1> QED BY <1>1, <1>2, <1>3 DEF ImagesNext, SlotsInv

(* However clients come and leave, the scheduler                             *)
(* (image-transform-scheduler.ts) loses no slot and no waiter, and keeps its *)
(* three limits, for any of their values.                                    *)
THEOREM NoSlotIsLost == ImagesSpec => []SlotsAreNeverLost
<1>1. SlotsInv => SlotsAreNeverLost
  <2> SUFFICES ASSUME SlotsInv PROVE SlotsAreNeverLost
    OBVIOUS
  <2>1. ASSUME NEW r \in ImageRequests
        PROVE  request[r].pc = "waiting" <=>
                 \E j \in Jobs("queued") \union Jobs("running") : r \in job[j].waiters
    <3>1. \A j \in ImageRequests : r \in job[j].waiters =>
            request[r].pc = "waiting" /\ j \in Jobs("queued") \union Jobs("running")
      BY DEF SlotsInv, ImagesInv, WaitersMatch, WaitersHold, RecordsTyped, JobRecord, Jobs
    <3>2. request[r].pc = "waiting" => \E j \in ImageRequests : r \in job[j].waiters
      BY DEF SlotsInv, WaitersHold, Waiters
    <3> QED BY <3>1, <3>2 DEF Jobs
  <2>2. \A j \in Jobs("queued") : job[j].waiters # {}
    BY DEF SlotsInv, WaitersHold, Jobs
  <2>3. WaiterCount <= MaxWaiters
    BY DEF SlotsInv, WaitersHold, Waiters, WaiterCount
  <2> QED BY <2>1, <2>2, <2>3, QueueFacts DEF SlotsAreNeverLost
<1>2. ImagesInit => SlotsInv
  BY SlotsInvStarts
<1>3. SlotsInv /\ [ImagesNext]_imageVars => SlotsInv'
  BY SlotsInvKept
<1> QED BY <1>1, <1>2, <1>3, PTL DEF ImagesSpec

-----------------------------------------------------------------------------
(* The autosave of the review page.                                          *)

Text  == "letter-fields"
Photos == "photo-description"

\* No field goes back from one patch to the next.
InOrder(earlier, later) == \A i \in Inputs : later[i] # 0 => earlier[i] <= later[i]

Below(patch, n) == \A i \in Inputs : patch[i] <= n

\* The visits whose pending patch a save may still take.
Reachable(t) == {v \in Visits : v = visit \/ v = t.queued[Text].visit}

\* What will be sent after the running save.
ToCome(t) == {t.pending[v] : v \in Reachable(t)} \union {t.queued[Photos].patch}

RunningIs(t, lane) == Running(t) /\ t.lane = lane

\* The queue is of past and present visits; the pending patch has the text, the
\* photo's save the photo.
VisitsArePast(t) ==
    /\ visit # 0 =>
        /\ t.running.visit <= visit /\ \A l \in Lanes : t.queued[l].visit <= visit
        /\ \A v \in Visits : v > visit => t.pending[v] = Nothing /\ typed[v] = Nothing
    /\ visit = 0 => Queued(t) = {}
    /\ \A v \in Visits : t.pending[v][Photo] = 0
    /\ \A i \in Fields : t.queued[Photos].patch[i] = 0
    /\ t.running.visit = 0 => t.running.patch = Nothing
    /\ RunningIs(t, Text) => t.running.patch[Photo] = 0
    /\ Photos \in Queued(t) => t.queued[Photos].patch[Photo] # 0

\* While the text of an earlier visit is queued, this visit has none.
TextIsOfOneVisit(t) ==
    visit # 0 /\ t.queued[Text].visit \notin {0, visit} =>
        t.pending[visit] = Nothing /\ ~(RunningIs(t, Text) /\ t.running.visit = visit)

\* A request is of the running save, or was given up on.
RequestsAreSent(t) ==
    \A q \in t.requests : q.lost \/ (Running(t) /\ q.patch = t.running.patch)

\* What the server holds, then the requests, then the running save, then what
\* is to come, then the next edit.
EditsAreInOrder(t, st) ==
    /\ \A later \in ToCome(t) \union {t.running.patch} :
        /\ InOrder(st, later) /\ \A q \in t.requests : InOrder(q.patch, later)
    /\ \A later \in ToCome(t) : InOrder(t.running.patch, later)

NothingIsNewer(t, st) ==
    /\ Below(st, keys) /\ \A q \in t.requests : Below(q.patch, keys)
    /\ Below(t.running.patch, keys) /\ Below(t.queued[Photos].patch, keys)
    /\ \A v \in Visits : Below(t.pending[v], keys) /\ Below(typed[v], keys)

\* Nothing on its way is newer than what this visit typed.
TypedIsNewest(t) ==
    visit # 0 => \A i \in Inputs : typed[visit][i] # 0 =>
        \A patch \in ToCome(t) \union {t.running.patch} : patch[i] <= typed[visit][i]

\* The running save is stored once its request is executed.
ExecutedIsStored(t, st) ==
    late = 0 /\ Running(t) /\ Sent(t.running.patch) \notin t.requests =>
        \A i \in Inputs : t.running.patch[i] # 0 => st[i] = t.running.patch[i]

\* Where the last edit of a field is while the server does not hold it.
OnItsWay(t, i) ==
    \/ i \in Fields /\ t.pending[visit][i] = typed[visit][i]
    \/ i \in Fields /\ RunningIs(t, Text) /\ t.running.visit = visit
       /\ t.running.patch[i] = typed[visit][i]
    \/ i = Photo /\ Photos \in Queued(t) /\ t.queued[Photos].patch[Photo] = typed[visit][Photo]
    \/ i = Photo /\ RunningIs(t, Photos) /\ t.running.patch[Photo] = typed[visit][Photo]
    \/ i = Photo /\ Photos \notin Queued(t) /\ ~RunningIs(t, Photos) /\ t.failure[Photos] # 0

\* Nothing typed is forgotten, and no pending text without a save or a failure.
NothingIsForgotten(t, st) ==
    visit # 0 /\ ~Frozen(visit) /\ late = 0 =>
        /\ \A i \in Inputs : typed[visit][i] # 0 => st[i] = typed[visit][i] \/ OnItsWay(t, i)
        /\ t.pending[visit] # Nothing =>
            \/ t.queued[Text].visit = visit
            \/ t.failure[Text] # 0 /\ ~RunningIs(t, Text)

QueueInv(t, st) ==
    /\ VisitsArePast(t) /\ TextIsOfOneVisit(t) /\ RequestsAreSent(t)
    /\ EditsAreInOrder(t, st) /\ NothingIsNewer(t, st) /\ TypedIsNewest(t)
    /\ ExecutedIsStored(t, st) /\ NothingIsForgotten(t, st)

WaitersHaveVisits == \A f \in Flushers : flush[f].pc = "waiting" => flush[f].visit # 0

\* The statuses agree with the queue, and those of the visits to come are fresh.
StatusesFit(t) == \A v \in Visits : StatusFits(t, v)

NewVisitsAreFresh(t) ==
    visit # 0 => \A v \in Visits : v > visit => t.state[v] = FreshVisit

AutosaveInv ==
    /\ AutosaveTypeOK /\ QueueInv(target, stored) /\ WaitersHaveVisits
    /\ StatusesFit(target) /\ NewVisitsAreFresh(target)

-----------------------------------------------------------------------------
(* Patches.                                                                  *)

LEMMA Bounds ==
    /\ MaxKeys \in Nat /\ MaxLost \in Nat /\ MaxVisits \in Nat /\ 1 \in Visits
    /\ Photo \notin Fields /\ Photo \in Inputs /\ Fields \subseteq Inputs
    /\ Inputs = Fields \union {Photo}
    /\ Text \in Lanes /\ Photos \in Lanes /\ Text # Photos /\ Lanes = {Text, Photos}
BY AutosaveAssumption DEF Visits, Inputs, Lanes, Text, Photos

LEMMA PatchValues ==
    ASSUME NEW patch \in Patch, NEW i \in Inputs
    PROVE  patch[i] \in Nat /\ patch[i] \in 0 .. MaxKeys
BY Bounds DEF Patch

LEMMA NothingIs ==
    /\ Nothing \in Patch /\ \A i \in Inputs : Nothing[i] = 0
    /\ NoSave \in Save /\ NoSave.visit = 0 /\ NoSave.patch = Nothing
    /\ FreshVisit \in VisitState
    /\ \A patch \in Patch : patch # Nothing => \E i \in Inputs : patch[i] # 0
<1>1. Nothing \in Patch /\ \A i \in Inputs : Nothing[i] = 0
  BY Bounds DEF Nothing, Patch
<1>2. ASSUME NEW patch \in Patch, \A i \in Inputs : patch[i] = 0 PROVE patch = Nothing
  BY <1>2 DEF Patch, Nothing
<1>3. NoSave \in Save /\ NoSave.visit = 0 /\ NoSave.patch = Nothing
  BY <1>1, Bounds DEF NoSave, Save
<1>4. FreshVisit \in VisitState
  BY DEF FreshVisit, VisitState
<1> QED BY <1>1, <1>2, <1>3, <1>4

LEMMA OverIs ==
    ASSUME NEW old \in Patch, NEW new \in Patch
    PROVE  /\ Over(old, new) \in Patch
           /\ \A i \in Inputs : Over(old, new)[i] = IF new[i] # 0 THEN new[i] ELSE old[i]
BY DEF Over, Patch

LEMMA OrderOfOver ==
    ASSUME NEW old \in Patch, NEW new \in Patch, NEW patch \in Patch
    PROVE  /\ InOrder(old, patch) /\ InOrder(new, patch) => InOrder(Over(old, new), patch)
           /\ InOrder(patch, old) /\ InOrder(patch, new) => InOrder(patch, Over(old, new))
           /\ InOrder(old, new) => InOrder(old, Over(old, new))
           /\ InOrder(patch, Nothing) /\ InOrder(Nothing, patch)
           /\ \A n \in Nat : Below(old, n) /\ Below(new, n) => Below(Over(old, new), n)
<1>1. \A i \in Inputs : old[i] \in Nat /\ new[i] \in Nat /\ patch[i] \in Nat
  BY PatchValues
<1> QED BY <1>1, OverIs, NothingIs DEF InOrder, Below

-----------------------------------------------------------------------------
(* The coordinator's functions.                                              *)

\* Two queues that differ in readiness, statuses and whose a failure is.
SameQueue(a, b) ==
    /\ \A l \in Lanes : /\ a.queued[l].visit = b.queued[l].visit
                        /\ a.queued[l].patch = b.queued[l].patch
                        /\ a.failure[l] = 0 <=> b.failure[l] = 0
    /\ a.running = b.running /\ a.lane = b.lane
    /\ a.pending = b.pending /\ a.requests = b.requests

\* Saves are dropped once the page is left, or frozen.
Drops(t, p) ==
    /\ \A l \in Lanes :
        \/ p.queued[l].visit = t.queued[l].visit /\ p.queued[l].patch = t.queued[l].patch
        \/ p.queued[l] = NoSave /\ (visit = 0 \/ Frozen(visit))
    /\ p.running = t.running /\ p.lane = t.lane /\ p.failure = t.failure
    /\ p.pending = t.pending /\ p.requests = t.requests

\* What a lane's save sends.
Payload(t, l) == IF l = Text THEN t.pending[t.queued[l].visit] ELSE t.queued[l].patch

Starts(t, p, l) ==
    /\ visit # 0 /\ ~Running(t) /\ l \in Queued(t)
    /\ p.queued[l] = NoSave
    /\ \A k \in Lanes \ {l} :
        p.queued[k] = t.queued[k] \/ (p.queued[k] = NoSave /\ Frozen(visit))
    /\ p.lane = l /\ p.running.visit = t.queued[l].visit /\ p.running.patch = Payload(t, l)
    /\ p.requests = t.requests \union ({Sent(Payload(t, l))} \ {Sent(Nothing)})
    /\ p.failure = t.failure
    /\ p.pending = IF l = Text THEN [t.pending EXCEPT ![t.queued[l].visit] = Nothing] ELSE t.pending

LEMMA Setters ==
    ASSUME NEW t \in Target
    PROVE  /\ \A q \in [Lanes -> Save] : [t EXCEPT !.queued = q] \in Target
           /\ \A r \in Save : [t EXCEPT !.running = r] \in Target
           /\ \A l \in Lanes : [t EXCEPT !.lane = l] \in Target
           /\ \A l \in Lanes : [t EXCEPT !.newest = l] \in Target
           /\ \A f \in [Lanes -> 0 .. MaxVisits] : [t EXCEPT !.failure = f] \in Target
           /\ \A s \in [Visits -> VisitState] : [t EXCEPT !.state = s] \in Target
           /\ \A p \in [Visits -> Patch] : [t EXCEPT !.pending = p] \in Target
           /\ \A q \in SUBSET Request : [t EXCEPT !.requests = q] \in Target
BY DEF Target

LEMMA TargetFields ==
    ASSUME NEW t \in Target
    PROVE  /\ t.queued \in [Lanes -> Save] /\ t.running \in Save /\ t.lane \in Lanes
           /\ t.failure \in [Lanes -> 0 .. MaxVisits] /\ t.state \in [Visits -> VisitState]
           /\ t.pending \in [Visits -> Patch] /\ t.newest \in Lanes
           /\ t.requests \in SUBSET Request
BY DEF Target

LEMMA SaveFields ==
    ASSUME NEW s \in Save
    PROVE  s.visit \in 0 .. MaxVisits /\ s.ready \in BOOLEAN /\ s.patch \in Patch
BY DEF Save

LEMMA SettledIs ==
    ASSUME NEW t \in Target, NEW vs
    PROVE  /\ Settled(t, vs) \in Target
           /\ \E s \in [Visits -> VisitState] :
                /\ Settled(t, vs) = [t EXCEPT !.state = s]
                /\ \A v \in Visits :
                     /\ s[v].started = t.state[v].started /\ s[v].failed = t.state[v].failed
                     /\ v \notin vs => s[v] = t.state[v]
                     /\ v \in vs => (s[v].status = "saving" <=> t.state[v].started /\ HasWork(t, v))
<1>1. PICK s : s = [v \in Visits |->
        IF v \notin vs THEN t.state[v]
        ELSE [t.state[v] EXCEPT !.status =
                IF ~t.state[v].started THEN "idle"
                ELSE IF HasWork(t, v) THEN "saving"
                ELSE IF t.state[v].failed THEN "error" ELSE "saved"]]
  OBVIOUS
<1>2. Settled(t, vs) = [t EXCEPT !.state = s]
  BY <1>1 DEF Settled
<1>3. ASSUME NEW v \in Visits
      PROVE  /\ s[v] \in VisitState
             /\ s[v].started = t.state[v].started /\ s[v].failed = t.state[v].failed
             /\ v \notin vs => s[v] = t.state[v]
             /\ v \in vs => (s[v].status = "saving" <=> t.state[v].started /\ HasWork(t, v))
  <2>1. PICK old \in VisitState : old = t.state[v]
    BY TargetFields
  <2>2. PICK status \in {"idle", "saving", "saved", "error"} : 
          /\ status = IF ~t.state[v].started THEN "idle"
                ELSE IF HasWork(t, v) THEN "saving"
                ELSE IF t.state[v].failed THEN "error" ELSE "saved"
    OBVIOUS
  <2>3. status = "saving" <=> t.state[v].started /\ HasWork(t, v)
    BY <2>2
  <2>4. s[v] = IF v \notin vs THEN old ELSE [old EXCEPT !.status = status]
    BY <1>1, <2>1, <2>2
  <2>5. status \in {"idle", "saving", "saved", "error"}
    BY <2>2
  <2> HIDE <2>2
  <2>6. PICK new : new = [old EXCEPT !.status = status]
    OBVIOUS
  <2>7. new \in VisitState /\ new.status = status /\ new.started = old.started /\ new.failed = old.failed
    BY <2>5, <2>6 DEF VisitState
  <2> QED BY <2>1, <2>3, <2>4, <2>6, <2>7
<1>4. s \in [Visits -> VisitState]
  BY <1>1, <1>3
<1>5. [t EXCEPT !.state = s] \in Target
  BY <1>4, Setters
<1>6. Settled(t, vs) \in Target
  BY <1>2, <1>5
<1> HIDE <1>1
<1> QED BY <1>2, <1>3, <1>4, <1>6

LEMMA WorkIs ==
    ASSUME NEW t, NEW v \in Visits
    PROVE  HasWork(t, v) <=> t.running.visit = v \/ \E l \in Lanes : t.queued[l].visit = v
BY Bounds DEF HasWork, Queued, Visits

\* What only a change of status leaves alone.
SameButState(a, b) ==
    /\ b.queued = a.queued /\ b.running = a.running /\ b.lane = a.lane /\ b.newest = a.newest
    /\ b.failure = a.failure /\ b.pending = a.pending /\ b.requests = a.requests

LEMMA SettledKeeps ==
    ASSUME NEW t \in Target, NEW vs
    PROVE  /\ Settled(t, vs) \in Target /\ SameButState(t, Settled(t, vs))
           /\ \A v \in Visits : v \in vs \/ StatusFits(t, v) => StatusFits(Settled(t, vs), v)
<1>1. PICK s \in [Visits -> VisitState] :
         /\ Settled(t, vs) = [t EXCEPT !.state = s]
         /\ \A v \in Visits :
              /\ s[v].started = t.state[v].started /\ s[v].failed = t.state[v].failed
              /\ v \notin vs => s[v] = t.state[v]
              /\ v \in vs => (s[v].status = "saving" <=> t.state[v].started /\ HasWork(t, v))
  BY SettledIs
<1>2. PICK new : new = Settled(t, vs)
  OBVIOUS
<1>3. SameButState(t, new) /\ new.state = s
  BY <1>1, <1>2 DEF SameButState, Target
<1>4. ASSUME NEW v \in Visits, v \in vs \/ StatusFits(t, v) PROVE StatusFits(new, v)
  <2>1. HasWork(new, v) <=> HasWork(t, v)
    BY <1>3, WorkIs DEF SameButState
  <2> QED BY <1>1, <1>3, <1>4, <2>1 DEF StatusFits
<1> QED BY <1>2, <1>3, <1>4, SettledIs

LEMMA DroppedIs ==
    ASSUME NEW t \in Target, NEW lanes \in SUBSET Lanes
    PROVE  LET d == Dropped(t, lanes) IN
           /\ d \in Target
           /\ \A l \in Lanes : d.queued[l] = IF l \in lanes THEN NoSave ELSE t.queued[l]
           /\ d.running = t.running /\ d.lane = t.lane /\ d.newest = t.newest
           /\ d.failure = t.failure /\ d.pending = t.pending /\ d.requests = t.requests
           /\ \A v \in Visits : StatusFits(t, v) => StatusFits(d, v)
<1> DEFINE vs == {t.queued[l].visit : l \in lanes} \ {0}
<1>1. PICK queued : queued = [l \in Lanes |-> IF l \in lanes THEN NoSave ELSE t.queued[l]]
  OBVIOUS
<1>2. t.queued \in [Lanes -> Save]
  BY TargetFields
<1>3. queued \in [Lanes -> Save]
  BY <1>1, <1>2, NothingIs
<1>4. PICK removed : removed = [t EXCEPT !.queued = queued]
  OBVIOUS
<1>5. removed = Removed(t, lanes)
  BY <1>1, <1>2, <1>4 DEF Removed, Target
<1>6. removed \in Target
  BY <1>3, <1>4, Setters
<1>7. /\ removed.queued = queued /\ removed.running = t.running /\ removed.lane = t.lane
      /\ removed.newest = t.newest /\ removed.failure = t.failure /\ removed.state = t.state
      /\ removed.pending = t.pending /\ removed.requests = t.requests
  BY <1>4 DEF Target
<1>8. PICK d : d = Dropped(t, lanes)
  OBVIOUS
<1>9. d = Settled(removed, vs)
  BY <1>5, <1>8 DEF Dropped
<1>10. /\ d \in Target /\ SameButState(removed, d)
       /\ \A v \in Visits : v \in vs \/ StatusFits(removed, v) => StatusFits(d, v)
  BY <1>6, <1>9, SettledKeeps
<1>11. ASSUME NEW v \in Visits, StatusFits(t, v) PROVE StatusFits(d, v)
  <2>1. CASE v \in vs
    BY <2>1, <1>10
  <2>2. CASE v \notin vs
    <3>1. v # 0
      BY Bounds DEF Visits
    <3>2. \A l \in Lanes : queued[l].visit = v <=> t.queued[l].visit = v
      BY <1>1, <2>2, <3>1, NothingIs
    <3>3. HasWork(removed, v) <=> HasWork(t, v)
      BY <1>7, <3>2, WorkIs
    <3> QED BY <1>7, <1>10, <1>11, <3>3 DEF StatusFits
  <2> QED BY <2>1, <2>2
<1> QED BY <1>1, <1>7, <1>8, <1>10, <1>11 DEF SameButState

LEMMA PumpedIs ==
    ASSUME NEW t \in Target, visit \in 0 .. MaxVisits
    PROVE  /\ Pumped(t) \in Target
           /\ Drops(t, Pumped(t)) \/ \E l \in Lanes : Starts(t, Pumped(t), l)
           /\ \A v \in Visits : StatusFits(t, v) => StatusFits(Pumped(t), v)
<1> DEFINE ready == {l \in Queued(t) : t.queued[l].ready}
           live  == {l \in ready : ~(t.queued[l].visit = visit /\ Frozen(visit))}
           first == CHOOSE l \in live : l = t.newest => live = {l}
           older == {l \in ready \ live : live = {} \/ l # t.newest}
           rest  == Dropped(t, older)
           next  == t.queued[first]
           patch == IF first = Text THEN t.pending[next.visit] ELSE next.patch
           begun == [rest EXCEPT
                       !.queued[first] = NoSave, !.lane = first,
                       !.running = [next EXCEPT !.patch = patch],
                       !.requests = @ \union ({Sent(patch)} \ {Sent(Nothing)}),
                       !.pending[next.visit] = IF first = Text THEN Nothing ELSE @,
                       !.state[next.visit] = [@ EXCEPT !.started = TRUE, !.status = "saving"]]
<1>1. Pumped(t) = IF visit = 0 \/ ~Idle(t) THEN t ELSE IF live = {} THEN rest ELSE begun
  BY DEF Pumped, Text
<1>2. older \in SUBSET Lanes /\ live \subseteq Lanes /\ ready \subseteq Lanes
  BY DEF Queued
<1>3. PICK r : r = rest
  OBVIOUS
<1>4. /\ r \in Target
      /\ \A l \in Lanes : r.queued[l] = IF l \in older THEN NoSave ELSE t.queued[l]
      /\ r.running = t.running /\ r.lane = t.lane /\ r.newest = t.newest
      /\ r.failure = t.failure /\ r.pending = t.pending /\ r.requests = t.requests
      /\ \A v \in Visits : StatusFits(t, v) => StatusFits(r, v)
  BY <1>2, <1>3, DroppedIs
<1>5. \A l \in older : Frozen(visit)
  OBVIOUS
<1>6. CASE visit = 0 \/ ~Idle(t)
  BY <1>1, <1>6 DEF Drops
<1>7. CASE ~(visit = 0 \/ ~Idle(t)) /\ live = {}
  <2>1. Drops(t, r)
    BY <1>4, <1>5 DEF Drops
  <2> QED BY <1>1, <1>3, <1>4, <1>7, <2>1
<1>8. CASE ~(visit = 0 \/ ~Idle(t)) /\ live # {}
  <2>1. \E l \in live : l = t.newest => live = {l}
    BY <1>2, <1>8, Bounds
  <2>2. PICK f : f = first
    OBVIOUS
  <2>3. f \in live
    BY <2>1, <2>2
  <2>4. f \in Lanes /\ f \in Queued(t) /\ f \notin older
    BY <2>3 DEF Queued
  <2>5. PICK save \in Save : save = t.queued[f]
    BY <2>4, TargetFields
  <2>6. PICK v : v = save.visit
    OBVIOUS
  <2>7. v \in Visits /\ v # 0
    BY <2>4, <2>5, <2>6, SaveFields, Bounds DEF Queued, Visits
  <2>8. PICK sent : sent = IF f = Text THEN t.pending[v] ELSE save.patch
    OBVIOUS
  <2>9. sent \in Patch /\ sent = Payload(t, f)
    BY <2>5, <2>6, <2>7, <2>8, SaveFields, TargetFields DEF Payload
  <2>10. PICK running : running = [save EXCEPT !.patch = sent]
    OBVIOUS
  <2>11. running \in Save /\ running.visit = v /\ running.patch = sent
    BY <2>6, <2>9, <2>10 DEF Save
  <2>12. PICK requests : requests = t.requests \union ({Sent(sent)} \ {Sent(Nothing)})
    OBVIOUS
  <2>13. requests \in SUBSET Request
    <3>1. Sent(sent) \in Request
      BY <2>9 DEF Sent, Request
    <3> QED BY <2>12, <3>1, TargetFields
  <2>14. PICK pending : pending = [t.pending EXCEPT ![v] = IF f = Text THEN Nothing ELSE @]
    OBVIOUS
  <2>15. /\ pending \in [Visits -> Patch]
         /\ pending = IF f = Text THEN [t.pending EXCEPT ![v] = Nothing] ELSE t.pending
    BY <2>7, <2>14, TargetFields, NothingIs
  <2>16. PICK queued : queued = [r.queued EXCEPT ![f] = NoSave]
    OBVIOUS
  <2>17. queued \in [Lanes -> Save] /\ \A l \in Lanes : queued[l] = IF l = f THEN NoSave ELSE r.queued[l]
    BY <2>4, <2>16, <1>4, TargetFields, NothingIs
  <2>18. PICK old \in VisitState : old = r.state[v]
    BY <1>4, <2>7, TargetFields
  <2>19. PICK one : one = [old EXCEPT !.started = TRUE, !.status = "saving"]
    OBVIOUS
  <2>20. one \in VisitState /\ one.started /\ one.status = "saving"
    <3>1. PICK yes \in BOOLEAN : yes = TRUE
      OBVIOUS
    <3>2. PICK two : two = [old EXCEPT !.started = yes]
      OBVIOUS
    <3>3. two \in VisitState /\ two.started = yes
      BY <3>2 DEF VisitState
    <3>4. one = [two EXCEPT !.status = "saving"]
      BY <2>19, <3>1, <3>2
    <3>5. PICK saving \in {"idle", "saving", "saved", "error"} : saving = "saving"
      OBVIOUS
    <3>6. one = [two EXCEPT !.status = saving]
      BY <3>4, <3>5
    <3>7. one \in VisitState /\ one.started = yes /\ one.status = saving
      BY <3>3, <3>6 DEF VisitState
    <3> QED BY <3>1, <3>5, <3>7
  <2>21. PICK state : state = [r.state EXCEPT ![v] = one]
    OBVIOUS
  <2>22. /\ state \in [Visits -> VisitState] /\ state[v] = one
         /\ \A u \in Visits \ {v} : state[u] = r.state[u]
    BY <1>4, <2>7, <2>20, <2>21, TargetFields
  <2>23. PICK a : a = [r EXCEPT !.queued = queued]
    OBVIOUS
  <2>24. PICK b : b = [a EXCEPT !.lane = f]
    OBVIOUS
  <2>25. PICK c : c = [b EXCEPT !.running = running]
    OBVIOUS
  <2>26. PICK d : d = [c EXCEPT !.requests = requests]
    OBVIOUS
  <2>27. PICK e : e = [d EXCEPT !.pending = pending]
    OBVIOUS
  <2>28. PICK g : g = [e EXCEPT !.state = state]
    OBVIOUS
  <2>29. a \in Target /\ b \in Target /\ c \in Target /\ d \in Target /\ e \in Target /\ g \in Target
    <3>1. a \in Target
      BY <1>4, <2>17, <2>23, Setters
    <3>2. b \in Target
      BY <2>4, <2>24, <3>1, Setters
    <3>3. c \in Target
      BY <2>11, <2>25, <3>2, Setters
    <3>4. d \in Target
      BY <2>13, <2>26, <3>3, Setters
    <3>5. e \in Target
      BY <2>15, <2>27, <3>4, Setters
    <3>6. g \in Target
      BY <2>22, <2>28, <3>5, Setters
    <3> QED BY <3>1, <3>2, <3>3, <3>4, <3>5, <3>6
  <2>30. /\ g.queued = queued /\ g.lane = f /\ g.running = running /\ g.requests = requests
         /\ g.pending = pending /\ g.state = state /\ g.failure = t.failure
    BY <1>4, <2>23, <2>24, <2>25, <2>26, <2>27, <2>28, <2>29 DEF Target
  <2>31. g = begun
    <3> HIDE DEF first
    <3>1. next = save /\ next.visit = v
      BY <2>2, <2>5, <2>6
    <3> HIDE DEF next
    <3>2. patch = sent
      BY <2>2, <2>8, <3>1
    <3> HIDE DEF patch
    <3>3. running = [next EXCEPT !.patch = patch]
      BY <2>10, <3>1, <3>2
    <3>4. requests = r.requests \union ({Sent(patch)} \ {Sent(Nothing)})
      BY <1>4, <2>12, <3>2
    <3>5. /\ one = [r.state[v] EXCEPT !.started = TRUE, !.status = "saving"]
          /\ pending = [r.pending EXCEPT ![v] = IF f = Text THEN Nothing ELSE @]
      BY <1>4, <2>14, <2>18, <2>19
    <3> HIDE DEF rest
    <3>6. begun = [r EXCEPT
                     !.queued[f] = NoSave, !.lane = f, !.running = running, !.requests = requests,
                     !.pending[v] = IF f = Text THEN Nothing ELSE @, !.state[v] = one]
      <4>1. begun = [r EXCEPT
                     !.queued[f] = NoSave, !.lane = f, !.running = [next EXCEPT !.patch = patch],
                     !.requests = @ \union ({Sent(patch)} \ {Sent(Nothing)}),
                     !.pending[v] = IF f = Text THEN Nothing ELSE @,
                     !.state[v] = [@ EXCEPT !.started = TRUE, !.status = "saving"]]
        BY <1>3, <2>2, <3>1, Zenon
      <4> HIDE DEF begun
      <4> QED BY <3>3, <3>4, <3>5, <4>1, Zenon
    <3>7. begun = [r EXCEPT
                     !.queued = queued, !.lane = f, !.running = running, !.requests = requests,
                     !.pending = pending, !.state = state]
      <4> HIDE DEF begun
      <4> QED BY <2>16, <2>21, <3>5, <3>6
    <3> HIDE DEF begun
    <3> QED BY <2>23, <2>24, <2>25, <2>26, <2>27, <2>28, <3>7
  <2>32. Starts(t, g, f)
    BY <1>4, <1>5, <1>8, <2>4, <2>5, <2>6, <2>9, <2>11, <2>12, <2>15, <2>17, <2>30 DEF Starts, Idle
  <2>33. ASSUME NEW u \in Visits, StatusFits(t, u) PROVE StatusFits(g, u)
    <3>1. CASE u = v
      BY <2>7, <2>11, <2>20, <2>22, <2>30, <3>1, WorkIs DEF StatusFits
    <3>2. CASE u # v
      <4>1. \A l \in Lanes : g.queued[l].visit = u <=> r.queued[l].visit = u
        BY <2>4, <2>5, <2>6, <2>17, <2>30, <3>2, <1>4, NothingIs, Bounds DEF Visits
      <4>2. u # 0 /\ r.running.visit = 0
        BY <1>4, <1>8, Bounds DEF Visits, Idle, Running
      <4>3. HasWork(g, u) <=> HasWork(r, u)
        BY <2>11, <2>30, <3>2, <4>1, <4>2, WorkIs
      <4> QED BY <1>4, <2>22, <2>30, <2>33, <3>2, <4>3 DEF StatusFits
    <3> QED BY <3>1, <3>2
  <2> HIDE DEF begun
  <2>34. Pumped(t) = g
    BY <1>1, <1>8, <2>31
  <2> QED BY <2>4, <2>29, <2>32, <2>33, <2>34
<1> QED BY <1>6, <1>7, <1>8

LEMMA FailedIs ==
    ASSUME NEW s \in VisitState, NEW failed \in BOOLEAN
    PROVE  LET n == [s EXCEPT !.failed = failed] IN
           n \in VisitState /\ n.started = s.started /\ n.status = s.status
BY DEF VisitState

LEMMA FreshIs == ~FreshVisit.started /\ FreshVisit.status = "idle"
BY DEF FreshVisit

LEMMA ScheduledIs ==
    ASSUME NEW t \in Target, NEW l \in Lanes, NEW v \in Visits, NEW patch \in Patch
    PROVE  LET s == Scheduled(t, l, v, patch) IN
           /\ s \in Target /\ s.queued[l].visit = v /\ s.queued[l].patch = patch
           /\ \A k \in Lanes \ {l} : s.queued[k] = t.queued[k]
           /\ s.running = t.running /\ s.lane = t.lane /\ s.failure = t.failure
           /\ s.pending = t.pending /\ s.requests = t.requests
           /\ \A u \in Visits : StatusFits(t, u) => StatusFits(s, u)
<1>1. PICK c : c = Dropped(t, {l})
  OBVIOUS
<1>2. /\ c \in Target
      /\ \A k \in Lanes : c.queued[k] = IF k \in {l} THEN NoSave ELSE t.queued[k]
      /\ c.running = t.running /\ c.lane = t.lane /\ c.newest = t.newest
      /\ c.failure = t.failure /\ c.pending = t.pending /\ c.requests = t.requests
      /\ \A u \in Visits : StatusFits(t, u) => StatusFits(c, u)
  BY <1>1, DroppedIs
<1>3. PICK fresh : fresh = [FreshVisit EXCEPT !.failed = HasUnresolvedFailure(c, v)]
  OBVIOUS
<1>4. fresh \in VisitState /\ ~fresh.started /\ fresh.status = "idle"
  BY <1>3, FailedIs, FreshIs, NothingIs DEF HasUnresolvedFailure
<1>5. PICK state : state = [c.state EXCEPT ![v] = IF HasWork(c, v) THEN @ ELSE fresh]
  OBVIOUS
<1>6. /\ state \in [Visits -> VisitState]
      /\ \A u \in Visits : state[u] = IF u = v /\ ~HasWork(c, v) THEN fresh ELSE c.state[u]
  BY <1>2, <1>4, <1>5, TargetFields
<1>7. PICK renewed : renewed = IF HasWork(c, v) THEN c ELSE [c EXCEPT !.state[v] = fresh]
  OBVIOUS
<1>8. renewed \in Target /\ SameButState(c, renewed) /\ renewed.state = state
  <2>1. CASE HasWork(c, v)
    BY <1>2, <1>5, <1>7, <2>1, TargetFields DEF SameButState
  <2>2. CASE ~HasWork(c, v)
    <3>1. renewed = [c EXCEPT !.state = state]
      BY <1>5, <1>7, <2>2
    <3>2. renewed \in Target
      BY <1>2, <1>6, <3>1, Setters
    <3> QED BY <1>2, <3>1, <3>2 DEF SameButState, Target
  <2> QED BY <2>1, <2>2
<1>9. PICK save : save = [NoSave EXCEPT !.visit = v, !.patch = patch]
  OBVIOUS
<1>10. save \in Save /\ save.visit = v /\ save.patch = patch
  <2>1. PICK one : one = [NoSave EXCEPT !.visit = v]
    OBVIOUS
  <2>2. one \in Save /\ one.visit = v
    BY <2>1, NothingIs, Bounds DEF Save, Visits
  <2>3. save = [one EXCEPT !.patch = patch]
    BY <1>9, <2>1
  <2> QED BY <2>2, <2>3 DEF Save
<1>11. PICK queued : queued = [renewed.queued EXCEPT ![l] = save]
  OBVIOUS
<1>12. /\ queued \in [Lanes -> Save]
       /\ \A k \in Lanes : queued[k] = IF k = l THEN save ELSE t.queued[k]
  BY <1>2, <1>8, <1>10, <1>11, TargetFields DEF SameButState
<1>13. PICK a : a = [renewed EXCEPT !.newest = l]
  OBVIOUS
<1>14. PICK s : s = [a EXCEPT !.queued = queued]
  OBVIOUS
<1>15. a \in Target
  BY <1>8, <1>13, Setters
<1>16. s \in Target
  BY <1>12, <1>14, <1>15, Setters
<1>17. /\ s.queued = queued /\ s.running = t.running /\ s.lane = t.lane /\ s.failure = t.failure
       /\ s.pending = t.pending /\ s.requests = t.requests /\ s.state = state
  BY <1>2, <1>8, <1>13, <1>14, <1>15, <1>16 DEF Target, SameButState
<1>18. s = Scheduled(t, l, v, patch)
  <2>1. s = [renewed EXCEPT !.newest = l, !.queued[l] = save]
    BY <1>11, <1>13, <1>14
  <2> QED BY <1>1, <1>3, <1>7, <1>9, <2>1, Zenon DEF Scheduled
<1>19. ASSUME NEW u \in Visits, StatusFits(t, u) PROVE StatusFits(s, u)
  <2>1. CASE u = v
    <3>1. HasWork(s, v)
      BY <1>10, <1>12, <1>17, WorkIs
    <3>2. CASE HasWork(c, v)
      BY <1>2, <1>6, <1>17, <1>19, <2>1, <3>1, <3>2 DEF StatusFits
    <3>3. CASE ~HasWork(c, v)
      BY <1>4, <1>6, <1>17, <2>1, <3>3 DEF StatusFits
    <3> QED BY <3>2, <3>3
  <2>2. CASE u # v
    <3>1. \A k \in Lanes : queued[k].visit = u <=> c.queued[k].visit = u
      BY <1>2, <1>10, <1>12, <2>2, NothingIs, Bounds DEF Visits
    <3>2. HasWork(s, u) <=> HasWork(c, u)
      BY <1>2, <1>17, <3>1, WorkIs
    <3> QED BY <1>2, <1>6, <1>17, <1>19, <2>2, <3>2 DEF StatusFits
  <2> QED BY <2>1, <2>2
<1> QED BY <1>10, <1>12, <1>16, <1>17, <1>18, <1>19

LEMMA PrunedIs ==
    ASSUME NEW t \in Target
    PROVE  LET p == Pruned(t) IN
           /\ p \in Target /\ SameButState(t, p)
           /\ \A v \in Visits : StatusFits(t, v) => StatusFits(p, v)
           /\ \A v \in Visits : v # visit /\ ~HasWork(t, v) => p.state[v] = FreshVisit
<1>1. PICK state : state = [v \in Visits |->
                              IF v # visit /\ ~HasWork(t, v) THEN FreshVisit ELSE t.state[v]]
  OBVIOUS
<1>2. state \in [Visits -> VisitState]
  BY <1>1, TargetFields, NothingIs
<1>3. PICK p : p = [t EXCEPT !.state = state]
  OBVIOUS
<1>4. p = Pruned(t)
  BY <1>1, <1>3 DEF Pruned
<1>5. p \in Target
  BY <1>2, <1>3, Setters
<1>6. SameButState(t, p) /\ p.state = state
  BY <1>3, <1>5 DEF Target, SameButState
<1>7. \A v \in Visits : HasWork(t, v) <=> HasWork(p, v)
  BY <1>6, WorkIs DEF SameButState
<1> QED BY <1>1, <1>4, <1>5, <1>6, <1>7, FreshIs DEF StatusFits

\* The running save is over, with its failure and what remains of its patch.
Ends(t, m, failed) ==
    LET ran == t.running IN
    /\ m.queued = t.queued /\ m.running = NoSave /\ m.lane = t.lane /\ m.requests = t.requests
    /\ m.failure = [t.failure EXCEPT ![t.lane] = IF failed THEN ran.visit ELSE 0]
    /\ m.pending = [t.pending EXCEPT ![ran.visit] =
                      IF failed /\ t.lane = Text THEN Over(ran.patch, @) ELSE @]

LEMMA FinishedIs ==
    ASSUME NEW t \in Target, visit \in 0 .. MaxVisits, Running(t), NEW failed \in BOOLEAN
    PROVE  LET p == Finished(t, failed) IN
           /\ p \in Target
           /\ \E m \in Target : /\ Ends(t, m, failed)
                                /\ Drops(m, p) \/ \E l \in Lanes : Starts(m, p, l)
           /\ \A v \in Visits : StatusFits(t, v) => StatusFits(p, v)
<1>1. PICK ran \in Save : ran = t.running
  BY TargetFields
<1>2. ran.visit \in Visits /\ ran.visit \in 0 .. MaxVisits /\ ran.patch \in Patch
  BY <1>1, SaveFields, Bounds DEF Running, Visits
<1>3. PICK lane \in Lanes : lane = t.lane
  BY TargetFields
<1>4. PICK owner : owner = t.failure[lane]
  OBVIOUS
<1>5. PICK failure : failure = [t.failure EXCEPT ![lane] = IF failed THEN ran.visit ELSE 0]
  OBVIOUS
<1>6. failure \in [Lanes -> 0 .. MaxVisits]
  BY <1>2, <1>5, TargetFields, Bounds
<1>7. PICK pending : pending = [t.pending EXCEPT ![ran.visit] =
                                  IF failed /\ lane = Text THEN Kept(ran.patch, @) ELSE @]
  OBVIOUS
<1>8. /\ pending \in [Visits -> Patch]
      /\ pending = [t.pending EXCEPT ![ran.visit] =
                      IF failed /\ lane = Text THEN Over(ran.patch, @) ELSE @]
  BY <1>2, <1>7, TargetFields, OverIs DEF Kept
<1>9. PICK a : a = [t EXCEPT !.failure = failure]
  OBVIOUS
<1>10. PICK noted : noted = [a EXCEPT !.pending = pending]
  OBVIOUS
<1>11. a \in Target
  BY <1>6, <1>9, Setters
<1>12. noted \in Target
  BY <1>8, <1>10, <1>11, Setters
<1>13. /\ noted.queued = t.queued /\ noted.running = ran /\ noted.lane = lane
       /\ noted.failure = failure /\ noted.state = t.state
       /\ noted.pending = pending /\ noted.requests = t.requests
  BY <1>1, <1>3, <1>9, <1>10, <1>11, <1>12 DEF Target
<1>14. PICK state : state = [v \in Visits |->
          IF v \in {owner, ran.visit}
          THEN [noted.state[v] EXCEPT !.failed = HasUnresolvedFailure(noted, v)] ELSE noted.state[v]]
  OBVIOUS
<1>15. ASSUME NEW v \in Visits
       PROVE  /\ state[v] \in VisitState /\ state[v].started = t.state[v].started
              /\ state[v].status = t.state[v].status
  <2>1. PICK old \in VisitState : old = noted.state[v]
    BY <1>12, TargetFields
  <2>2. PICK unresolved \in BOOLEAN : unresolved = HasUnresolvedFailure(noted, v)
    BY DEF HasUnresolvedFailure
  <2>3. PICK new : new = [old EXCEPT !.failed = unresolved]
    OBVIOUS
  <2>4. new \in VisitState /\ new.started = old.started /\ new.status = old.status
    BY <2>3, FailedIs
  <2>5. state[v] = IF v \in {owner, ran.visit} THEN new ELSE old
    BY <1>14, <2>1, <2>2, <2>3
  <2> QED BY <1>13, <2>1, <2>4, <2>5
<1>16. state \in [Visits -> VisitState]
  BY <1>14, <1>15
<1>17. PICK judged : judged = [noted EXCEPT !.state = state]
  OBVIOUS
<1>18. judged \in Target
  BY <1>12, <1>16, <1>17, Setters
<1>19. SameButState(noted, judged) /\ judged.state = state
  BY <1>17, <1>18 DEF Target, SameButState
<1>20. PICK c : c = Settled(judged, {owner} \ {0})
  OBVIOUS
<1>21. /\ c \in Target /\ SameButState(judged, c)
       /\ \A v \in Visits : StatusFits(judged, v) => StatusFits(c, v)
  BY <1>18, <1>20, SettledKeeps
<1>22. PICK m : m = [c EXCEPT !.running = NoSave]
  OBVIOUS
<1>23. m \in Target
  BY <1>21, <1>22, NothingIs, Setters
<1>24. /\ m.queued = t.queued /\ m.running = NoSave /\ m.lane = lane /\ m.failure = failure
       /\ m.pending = pending /\ m.requests = t.requests /\ m.state = c.state
  BY <1>13, <1>19, <1>21, <1>22, <1>23 DEF Target, SameButState
<1>25. Ends(t, m, failed)
  BY <1>1, <1>3, <1>5, <1>8, <1>24 DEF Ends
<1>26. PICK q : q = Pumped(m)
  OBVIOUS
<1>27. /\ q \in Target
       /\ Drops(m, q) \/ \E l \in Lanes : Starts(m, q, l)
       /\ \A v \in Visits : StatusFits(m, v) => StatusFits(q, v)
  BY <1>23, <1>26, PumpedIs
<1>28. PICK p : p = Settled(q, {ran.visit})
  OBVIOUS
<1>29. /\ p \in Target /\ SameButState(q, p)
       /\ \A v \in Visits : v = ran.visit \/ StatusFits(q, v) => StatusFits(p, v)
  <2>1. /\ p \in Target /\ SameButState(q, p)
        /\ \A v \in Visits : v \in {ran.visit} \/ StatusFits(q, v) => StatusFits(p, v)
    <3>1. /\ Settled(q, {ran.visit}) \in Target /\ SameButState(q, Settled(q, {ran.visit}))
          /\ \A v \in Visits : v \in {ran.visit} \/ StatusFits(q, v) =>
                             StatusFits(Settled(q, {ran.visit}), v)
      BY <1>27, SettledKeeps
    <3> QED BY <1>28, <3>1
  <2> QED BY <2>1
<1>30. p = Finished(t, failed)
  <2> DEFINE told == [t EXCEPT !.failure[t.lane] = IF failed THEN t.running.visit ELSE 0,
                          !.pending[t.running.visit] =
                             IF failed /\ t.lane = Text THEN Kept(t.running.patch, @) ELSE @]
             told2 == [told EXCEPT !.state = [v \in Visits |->
          IF v \in {t.failure[t.lane], t.running.visit}
          THEN [@[v] EXCEPT !.failed = HasUnresolvedFailure(told, v)] ELSE @[v]]]
  <2>1. Finished(t, failed) =
          Settled(Pumped([Settled(told2, {t.failure[t.lane]} \ {0}) EXCEPT !.running = NoSave]),
                  {t.running.visit})
    BY Zenon DEF Finished, Text
  <2>2. noted = told
    BY <1>1, <1>3, <1>5, <1>7, <1>9, <1>10
  <2> HIDE DEF told
  <2>3. judged = told2
    BY <1>1, <1>3, <1>4, <1>14, <1>17, <2>2, Zenon
  <2> HIDE DEF told2
  <2> QED BY <1>1, <1>3, <1>4, <1>20, <1>22, <1>26, <1>28, <2>1, <2>3
<1>31. Drops(m, p) \/ \E l \in Lanes : Starts(m, p, l)
  BY <1>27, <1>29 DEF Drops, Starts, SameButState
<1>32. ASSUME NEW v \in Visits, StatusFits(t, v) PROVE StatusFits(p, v)
  <2>1. CASE v = ran.visit
    BY <2>1, <1>29
  <2>2. CASE v # ran.visit
    <3>1. HasWork(judged, v) <=> HasWork(t, v)
      BY <1>1, <1>13, <1>19, WorkIs DEF SameButState
    <3>2. StatusFits(judged, v)
      BY <1>15, <1>19, <1>32, <3>1 DEF StatusFits
    <3>3. v # 0
      BY Bounds DEF Visits
    <3>4. HasWork(m, v) <=> HasWork(c, v)
      BY <1>13, <1>19, <1>21, <1>24, <2>2, <3>3, NothingIs, WorkIs DEF SameButState
    <3>5. StatusFits(m, v)
      BY <1>21, <1>24, <3>2, <3>4 DEF StatusFits
    <3> QED BY <1>27, <1>29, <3>5
  <2> QED BY <2>1, <2>2
<1> QED BY <1>23, <1>25, <1>29, <1>30, <1>31, <1>32

-----------------------------------------------------------------------------
(* What the coordinator's functions keep.                                    *)

\* The types of the visit and of its edits.
VisitTyped == visit \in 0 .. MaxVisits /\ typed \in [Visits -> Patch] /\ keys \in 0 .. MaxKeys

LEMMA VisitTypes ==
    ASSUME VisitTyped
    PROVE  /\ visit \in Nat /\ keys \in Nat
           /\ visit # 0 => visit \in Visits
           /\ \A v \in Visits : typed[v] \in Patch /\ \A i \in Inputs : typed[v][i] \in Nat
<1>1. \A v \in Visits : typed[v] \in Patch
  BY DEF VisitTyped
<1> QED BY <1>1, PatchValues, Bounds DEF VisitTyped, Visits

LEMMA PatchesOf ==
    ASSUME NEW t \in Target
    PROVE  /\ t.running \in Save /\ t.running.patch \in Patch /\ t.running.visit \in 0 .. MaxVisits
           /\ \A l \in Lanes : /\ t.queued[l].patch \in Patch
                               /\ t.queued[l].visit \in 0 .. MaxVisits
           /\ \A v \in Visits : t.pending[v] \in Patch
           /\ \A q \in t.requests : q \in Request /\ q.patch \in Patch
           /\ Visits \subseteq Nat \ {0} /\ \A v \in 0 .. MaxVisits : v # 0 => v \in Visits
<1>1. \A l \in Lanes : t.queued[l] \in Save
  BY TargetFields
<1>2. \A l \in Lanes : t.queued[l].patch \in Patch /\ t.queued[l].visit \in 0 .. MaxVisits
  BY <1>1, SaveFields
<1>3. \A q \in t.requests : q \in Request /\ q.patch \in Patch
  BY TargetFields DEF Request
<1>4. Visits \subseteq Nat \ {0} /\ \A v \in 0 .. MaxVisits : v # 0 => v \in Visits
  BY Bounds DEF Visits
<1> QED BY <1>2, <1>3, <1>4, TargetFields, SaveFields

LEMMA SameKeeps ==
    ASSUME NEW a \in Target, NEW b \in Target, NEW st, SameQueue(a, b), QueueInv(a, st)
    PROVE  QueueInv(b, st)
<1>1. /\ \A l \in Lanes : /\ a.queued[l].visit = b.queued[l].visit
                          /\ a.queued[l].patch = b.queued[l].patch
                          /\ a.failure[l] = 0 <=> b.failure[l] = 0
      /\ a.running = b.running /\ a.lane = b.lane
      /\ a.pending = b.pending /\ a.requests = b.requests
  BY DEF SameQueue
<1>2. Queued(a) = Queued(b)
  BY <1>1 DEF Queued
<1>3. Running(a) = Running(b) /\ \A l : RunningIs(a, l) = RunningIs(b, l)
  BY <1>1 DEF Running, RunningIs
<1>4. Reachable(a) = Reachable(b) /\ ToCome(a) = ToCome(b)
  BY <1>1, Bounds DEF Reachable, ToCome
<1>5. VisitsArePast(b)
  BY <1>1, <1>2, <1>3, Bounds DEF QueueInv, VisitsArePast
<1>6. TextIsOfOneVisit(b)
  BY <1>1, <1>3, Bounds DEF QueueInv, TextIsOfOneVisit
<1>7. RequestsAreSent(b)
  BY <1>1, <1>3 DEF QueueInv, RequestsAreSent
<1>8. EditsAreInOrder(b, st)
  BY <1>1, <1>4 DEF QueueInv, EditsAreInOrder
<1>9. NothingIsNewer(b, st)
  BY <1>1, Bounds DEF QueueInv, NothingIsNewer
<1>10. TypedIsNewest(b)
  BY <1>1, <1>4 DEF QueueInv, TypedIsNewest
<1>11. ExecutedIsStored(b, st)
  BY <1>1, <1>3 DEF QueueInv, ExecutedIsStored
<1>12. \A i \in Inputs : OnItsWay(a, i) <=> OnItsWay(b, i)
  BY <1>1, <1>2, <1>3, Bounds DEF OnItsWay
<1>13. NothingIsForgotten(b, st)
  BY <1>1, <1>3, <1>12, Bounds DEF QueueInv, NothingIsForgotten
<1> QED BY <1>5, <1>6, <1>7, <1>8, <1>9, <1>10, <1>11, <1>13 DEF QueueInv

LEMMA DropsKeep ==
    ASSUME NEW t \in Target, NEW p \in Target, NEW st \in Patch, VisitTyped,
           Drops(t, p), QueueInv(t, st)
    PROVE  QueueInv(p, st)
<1>1. /\ \A l \in Lanes :
        \/ p.queued[l].visit = t.queued[l].visit /\ p.queued[l].patch = t.queued[l].patch
        \/ p.queued[l].visit = 0 /\ p.queued[l].patch = Nothing /\ (visit = 0 \/ Frozen(visit))
      /\ p.running = t.running /\ p.lane = t.lane /\ p.failure = t.failure
      /\ p.pending = t.pending /\ p.requests = t.requests
  BY NothingIs DEF Drops
<1>2. Queued(p) \subseteq Queued(t)
  BY <1>1 DEF Queued
<1>3. Running(t) = Running(p) /\ \A l : RunningIs(t, l) = RunningIs(p, l)
  BY <1>1 DEF Running, RunningIs
<1>4. ToCome(p) \subseteq ToCome(t) \union {Nothing}
  <2>1. Reachable(p) \subseteq Reachable(t)
    BY <1>1, Bounds, PatchesOf DEF Reachable
  <2> QED BY <1>1, <2>1, Bounds DEF ToCome
<1>5. VisitsArePast(p)
  <2>1. visit # 0 => \A l \in Lanes : t.queued[l].visit <= visit => p.queued[l].visit <= visit
    BY <1>1, VisitTypes
  <2>2. \A i \in Fields : p.queued[Photos].patch[i] = 0
    BY <1>1, Bounds, NothingIs DEF QueueInv, VisitsArePast
  <2>3. Photos \in Queued(p) => p.queued[Photos].patch[Photo] # 0
    BY <1>1, <1>2, Bounds DEF QueueInv, VisitsArePast, Queued
  <2> QED BY <1>1, <1>2, <1>3, <2>1, <2>2, <2>3 DEF QueueInv, VisitsArePast
<1>6. TextIsOfOneVisit(p)
  BY <1>1, <1>3, Bounds DEF QueueInv, TextIsOfOneVisit
<1>7. RequestsAreSent(p)
  BY <1>1, <1>3 DEF QueueInv, RequestsAreSent
<1>8. EditsAreInOrder(p, st)
  <2>1. \A patch \in Patch : InOrder(patch, Nothing)
    BY NothingIs DEF InOrder
  <2> QED BY <1>1, <1>4, <2>1, PatchesOf DEF QueueInv, EditsAreInOrder
<1>9. NothingIsNewer(p, st)
  BY <1>1, Bounds, NothingIs, VisitTypes DEF QueueInv, NothingIsNewer, Below
<1>10. TypedIsNewest(p)
  BY <1>1, <1>4, NothingIs, VisitTypes DEF QueueInv, TypedIsNewest
<1>11. ExecutedIsStored(p, st)
  BY <1>1, <1>3 DEF QueueInv, ExecutedIsStored
<1>12. NothingIsForgotten(p, st)
  <2> SUFFICES ASSUME visit # 0, ~Frozen(visit), late = 0
               PROVE  NothingIsForgotten(p, st)
    BY DEF NothingIsForgotten
  <2>1. SameQueue(t, p)
    BY <1>1 DEF SameQueue
  <2> QED BY <2>1, SameKeeps DEF QueueInv
<1> QED BY <1>5, <1>6, <1>7, <1>8, <1>9, <1>10, <1>11, <1>12 DEF QueueInv

LEMMA StartsKeep ==
    ASSUME NEW t \in Target, NEW p \in Target, NEW l \in Lanes, NEW st \in Patch, VisitTyped,
           Starts(t, p, l), QueueInv(t, st)
    PROVE  QueueInv(p, st)
<1>1. PICK sent : sent = Payload(t, l)
  OBVIOUS
<1>2. PICK v : v = t.queued[l].visit
  OBVIOUS
<1>3. v \in Visits /\ v # 0
  BY <1>2, PatchesOf DEF Starts, Queued
<1>4. sent \in Patch /\ sent = IF l = Text THEN t.pending[v] ELSE t.queued[l].patch
  BY <1>1, <1>2, <1>3, PatchesOf DEF Payload
<1>5. /\ visit # 0 /\ t.running.visit = 0 /\ l \in Queued(t)
      /\ p.queued[l] = NoSave
      /\ \A k \in Lanes \ {l} :
           p.queued[k] = t.queued[k] \/ (p.queued[k] = NoSave /\ Frozen(visit))
      /\ p.lane = l /\ p.running.visit = v /\ p.running.patch = sent
      /\ p.requests = t.requests \union ({Sent(sent)} \ {Sent(Nothing)})
      /\ p.failure = t.failure
      /\ p.pending = IF l = Text THEN [t.pending EXCEPT ![v] = Nothing] ELSE t.pending
  BY <1>1, <1>2 DEF Starts, Running
<1>6. /\ ~Running(t) /\ \A k : ~RunningIs(t, k)
      /\ Running(p) /\ \A k : RunningIs(p, k) <=> k = l
  BY <1>3, <1>5 DEF Running, RunningIs
<1>7. VisitsArePast(t) /\ TextIsOfOneVisit(t) /\ RequestsAreSent(t) /\ EditsAreInOrder(t, st)
  BY DEF QueueInv
<1>8. visit \in Visits
  BY <1>5, VisitTypes
<1>9. \A q \in t.requests : q.lost
  BY <1>6, <1>7 DEF RequestsAreSent
<1>10. Queued(p) \subseteq Queued(t) \ {l}
  BY <1>5, NothingIs DEF Queued
<1>11. \A u \in Visits : p.pending[u] = IF l = Text /\ u = v THEN Nothing ELSE t.pending[u]
  BY <1>3, <1>5, TargetFields
<1>12. sent \in ToCome(t)
  BY <1>2, <1>3, <1>4, Bounds DEF ToCome, Reachable
<1>13. ToCome(p) \subseteq ToCome(t) \union {Nothing}
  <2>1. Reachable(p) \subseteq Reachable(t)
    BY <1>5, Bounds, NothingIs, PatchesOf DEF Reachable
  <2>2. Reachable(p) \subseteq Visits
    BY DEF Reachable
  <2> QED BY <1>5, <1>11, <2>1, <2>2, Bounds, NothingIs DEF ToCome
<1>14. \A later \in ToCome(p) : InOrder(sent, later)
  <2>1. CASE l = Text
    <3>1. p.queued[Text].visit = 0
      BY <1>5, <2>1, NothingIs
    <3>2. Reachable(p) = {visit}
      BY <1>8, <3>1, PatchesOf DEF Reachable
    <3>3. p.pending[visit] = Nothing
      BY <1>2, <1>3, <1>5, <1>7, <1>8, <1>11, <2>1 DEF TextIsOfOneVisit
    <3>4. ToCome(p) = {Nothing, p.queued[Photos].patch}
      BY <3>2, <3>3 DEF ToCome
    <3>5. p.queued[Photos].patch \in {Nothing, t.queued[Photos].patch}
      BY <1>5, <2>1, Bounds, NothingIs
    <3>6. sent[Photo] = 0 /\ \A i \in Fields : t.queued[Photos].patch[i] = 0
      BY <1>3, <1>4, <1>7, <2>1 DEF VisitsArePast
    <3>7. InOrder(sent, Nothing)
      BY NothingIs DEF InOrder
    <3>8. InOrder(sent, t.queued[Photos].patch)
      BY <3>6, Bounds, PatchesOf, PatchValues DEF InOrder
    <3> QED BY <3>4, <3>5, <3>7, <3>8
  <2>2. CASE l = Photos
    <3>1. p.queued[Photos].patch = Nothing
      BY <1>5, <2>2, NothingIs
    <3>2. \A later \in ToCome(p) : later = Nothing \/ \E u \in Visits : later = t.pending[u]
      BY <1>11, <2>2, <3>1, Bounds DEF ToCome, Reachable
    <3>3. \A i \in Fields : sent[i] = 0
      BY <1>4, <1>7, <2>2, Bounds DEF VisitsArePast
    <3>4. \A u \in Visits : t.pending[u][Photo] = 0
      BY <1>7 DEF VisitsArePast
    <3>5. \A u \in Visits : InOrder(sent, t.pending[u])
      BY <1>4, <3>3, <3>4, Bounds, PatchesOf, PatchValues DEF InOrder
    <3>6. InOrder(sent, Nothing)
      BY NothingIs DEF InOrder
    <3> QED BY <3>2, <3>5, <3>6
  <2> QED BY <2>1, <2>2, Bounds
<1>15. VisitsArePast(p)
  <2>1. visit # 0 => p.running.visit <= visit
    BY <1>2, <1>5, <1>7 DEF VisitsArePast
  <2>2. visit # 0 => \A k \in Lanes : p.queued[k].visit <= visit
    BY <1>5, <1>7, NothingIs, VisitTypes DEF VisitsArePast
  <2>3. visit # 0 => \A u \in Visits : u > visit => p.pending[u] = Nothing /\ typed[u] = Nothing
    BY <1>7, <1>11 DEF VisitsArePast
  <2>4. \A u \in Visits : p.pending[u][Photo] = 0
    BY <1>7, <1>11, NothingIs, Bounds DEF VisitsArePast
  <2>5. \A i \in Fields : p.queued[Photos].patch[i] = 0
    BY <1>5, <1>7, NothingIs, Bounds DEF VisitsArePast
  <2>6. RunningIs(p, Text) => p.running.patch[Photo] = 0
    BY <1>3, <1>4, <1>5, <1>6, <1>7 DEF VisitsArePast
  <2>7. Photos \in Queued(p) => p.queued[Photos].patch[Photo] # 0
    BY <1>5, <1>7, <1>10, Bounds, NothingIs DEF VisitsArePast, Queued
  <2> QED BY <1>3, <1>5, <2>1, <2>2, <2>3, <2>4, <2>5, <2>6, <2>7 DEF VisitsArePast
<1>16. TextIsOfOneVisit(p)
  <2>1. CASE l = Text
    BY <1>5, <2>1, NothingIs DEF TextIsOfOneVisit
  <2>2. CASE l # Text
    BY <1>5, <1>6, <1>7, <1>11, <2>2, Bounds, NothingIs DEF TextIsOfOneVisit
  <2> QED BY <2>1, <2>2
<1>17. RequestsAreSent(p)
  BY <1>5, <1>6, <1>9 DEF RequestsAreSent, Sent
<1>18. EditsAreInOrder(p, st)
  <2>1. \A patch \in Patch : InOrder(patch, Nothing)
    BY NothingIs DEF InOrder
  <2>2. InOrder(sent, sent)
    BY <1>4, PatchValues DEF InOrder
  <2>3. Sent(sent).patch = sent
    BY DEF Sent
  <2>4. \A later \in ToCome(p) \union {sent} : /\ InOrder(st, later) /\ InOrder(sent, later)
                                               /\ \A q \in t.requests : InOrder(q.patch, later)
    BY <1>7, <1>12, <1>13, <1>14, <2>1, <2>2, PatchesOf DEF EditsAreInOrder
  <2> QED BY <1>5, <1>14, <2>3, <2>4 DEF EditsAreInOrder
<1>19. NothingIsNewer(p, st)
  <2>1. Below(Nothing, keys)
    BY NothingIs, VisitTypes DEF Below
  <2>2. Below(sent, keys)
    BY <1>3, <1>4, Bounds DEF QueueInv, NothingIsNewer
  <2>3. Sent(sent).patch = sent
    BY DEF Sent
  <2> QED BY <1>5, <1>11, <2>1, <2>2, <2>3, NothingIs, Bounds DEF QueueInv, NothingIsNewer
<1>20. TypedIsNewest(p)
  BY <1>5, <1>12, <1>13, NothingIs, VisitTypes DEF QueueInv, TypedIsNewest
<1>21. ExecutedIsStored(p, st)
  <2>1. sent # Nothing => Sent(sent) # Sent(Nothing)
    BY DEF Sent
  <2> QED BY <1>5, <2>1, NothingIs DEF ExecutedIsStored
<1>22. NothingIsForgotten(p, st)
  <2> SUFFICES ASSUME ~Frozen(visit), late = 0
               PROVE  NothingIsForgotten(p, st)
    BY DEF NothingIsForgotten
  <2>1. \A k \in Lanes \ {l} : p.queued[k] = t.queued[k] /\ (k \in Queued(p) <=> k \in Queued(t))
    BY <1>5 DEF Queued
  <2>2. ASSUME NEW i \in Inputs, typed[visit][i] # 0, OnItsWay(t, i) PROVE OnItsWay(p, i)
    <3>1. CASE i \in Fields /\ t.pending[visit][i] = typed[visit][i]
      BY <1>4, <1>5, <1>6, <1>8, <1>11, <3>1 DEF OnItsWay
    <3>2. CASE i = Photo /\ Photos \in Queued(t) /\ t.queued[Photos].patch[Photo] = typed[visit][Photo]
      BY <1>4, <1>5, <1>6, <2>1, <3>2, Bounds DEF OnItsWay
    <3>3. CASE i = Photo /\ Photos \notin Queued(t) /\ t.failure[Photos] # 0
      BY <1>5, <1>6, <2>1, <3>3, Bounds DEF OnItsWay
    <3> QED BY <1>6, <2>2, <3>1, <3>2, <3>3 DEF OnItsWay
  <2>3. ASSUME p.pending[visit] # Nothing
        PROVE  \/ p.queued[Text].visit = visit
               \/ p.failure[Text] # 0 /\ ~RunningIs(p, Text)
    <3>1. l # Text
      <4>1. CASE v = visit
        BY <1>8, <1>11, <2>3, <4>1
      <4>2. CASE v # visit
        BY <1>2, <1>3, <1>5, <1>7, <1>8, <1>11, <2>3, <4>2 DEF TextIsOfOneVisit
      <4> QED BY <4>1, <4>2
    <3>2. t.pending[visit] # Nothing
      BY <1>8, <1>11, <2>3, <3>1
    <3> QED BY <1>5, <1>6, <2>1, <3>1, <3>2, Bounds DEF QueueInv, NothingIsForgotten
  <2> QED BY <1>5, <2>2, <2>3 DEF QueueInv, NothingIsForgotten
<1> QED BY <1>15, <1>16, <1>17, <1>18, <1>19, <1>20, <1>21, <1>22 DEF QueueInv

LEMMA EndsKeep ==
    ASSUME NEW t \in Target, NEW m \in Target, NEW st \in Patch, NEW failed \in BOOLEAN, VisitTyped,
           Running(t), Ends(t, m, failed), \A q \in t.requests : q.lost,
           VisitsArePast(t), TextIsOfOneVisit(t), EditsAreInOrder(t, st), NothingIsNewer(t, st),
           TypedIsNewest(t), NothingIsForgotten(t, st), failed \/ ExecutedIsStored(t, st)
    PROVE  QueueInv(m, st)
<1>1. PICK v : v = t.running.visit
  OBVIOUS
<1>2. PICK sent : sent = t.running.patch
  OBVIOUS
<1>3. v \in Visits /\ v # 0 /\ sent \in Patch
  BY <1>1, <1>2, PatchesOf DEF Running
<1>4. /\ m.queued = t.queued /\ m.running.visit = 0 /\ m.running.patch = Nothing
      /\ m.lane = t.lane /\ m.requests = t.requests
      /\ m.failure = [t.failure EXCEPT ![t.lane] = IF failed THEN v ELSE 0]
      /\ m.pending = [t.pending EXCEPT ![v] = IF failed /\ t.lane = Text THEN Over(sent, @) ELSE @]
  BY <1>1, <1>2, NothingIs DEF Ends
<1>5. /\ ~Running(m) /\ \A k : ~RunningIs(m, k)
      /\ \A k : RunningIs(t, k) <=> k = t.lane
      /\ t.lane \in Lanes
  BY <1>4, TargetFields DEF Running, RunningIs
<1>6. /\ m.failure[t.lane] = IF failed THEN v ELSE 0
      /\ \A k \in Lanes \ {t.lane} : m.failure[k] = t.failure[k]
  BY <1>4, <1>5, TargetFields
<1>7. \A u \in Visits : m.pending[u] = IF failed /\ t.lane = Text /\ u = v
                                       THEN Over(sent, t.pending[u]) ELSE t.pending[u]
  BY <1>3, <1>4, TargetFields
<1>8. \A u \in Visits : t.pending[u] \in Patch /\ m.pending[u] \in Patch
  BY PatchesOf
<1>9. Queued(m) = Queued(t) /\ Reachable(m) = Reachable(t) /\ Reachable(t) \subseteq Visits
  BY <1>4 DEF Queued, Reachable
<1>10. \A u \in Reachable(t) : t.pending[u] \in ToCome(t) /\ t.pending[u] \in Patch
  BY <1>8, <1>9 DEF ToCome
<1>11. \A later \in ToCome(m) :
         \/ later \in ToCome(t)
         \/ v \in Reachable(t) /\ later = Over(sent, t.pending[v])
  BY <1>4, <1>7, <1>9 DEF ToCome
<1>12. VisitsArePast(m)
  <2>1. visit # 0 => /\ \A l \in Lanes : m.queued[l].visit <= visit
                     /\ m.running.visit <= visit
    BY <1>4, VisitTypes DEF VisitsArePast
  <2>2. visit # 0 => \A u \in Visits : u > visit => m.pending[u] = Nothing /\ typed[u] = Nothing
    <3>1. visit # 0 => v <= visit
      BY <1>1 DEF VisitsArePast
    <3>2. visit # 0 => \A u \in Visits : u > visit => u # v
      BY <1>3, <3>1, VisitTypes, Bounds DEF Visits
    <3> QED BY <1>7, <3>2 DEF VisitsArePast
  <2>3. \A u \in Visits : m.pending[u][Photo] = 0
    <3>1. t.lane = Text => sent[Photo] = 0
      BY <1>2, <1>5 DEF VisitsArePast
    <3>2. \A u \in Visits : t.pending[u][Photo] = 0
      BY DEF VisitsArePast
    <3> QED BY <1>3, <1>7, <1>8, <3>1, <3>2, OverIs, Bounds
  <2> QED BY <1>4, <1>5, <1>9, <2>1, <2>2, <2>3 DEF VisitsArePast
<1>13. TextIsOfOneVisit(m)
  <2> SUFFICES ASSUME visit # 0, t.queued[Text].visit \notin {0, visit}
               PROVE  m.pending[visit] = Nothing
    BY <1>4, <1>5 DEF TextIsOfOneVisit
  <2>1. t.pending[visit] = Nothing /\ ~(t.lane = Text /\ v = visit)
    BY <1>1, <1>5 DEF TextIsOfOneVisit
  <2> QED BY <1>7, <2>1, VisitTypes
<1>14. RequestsAreSent(m)
  BY <1>4 DEF RequestsAreSent
<1>15. EditsAreInOrder(m, st)
  <2>1. \A patch \in Patch : InOrder(patch, Nothing) /\ InOrder(Nothing, patch)
    BY NothingIs, OrderOfOver
  <2>2. ASSUME NEW earlier \in Patch, InOrder(earlier, sent),
               \A later \in ToCome(t) : InOrder(earlier, later), NEW later \in ToCome(m)
        PROVE  InOrder(earlier, later)
    BY <1>3, <1>10, <1>11, <2>2, OrderOfOver
  <2>3. \A later \in ToCome(m) : InOrder(st, later) /\ \A q \in t.requests : InOrder(q.patch, later)
    BY <1>2, <2>2, PatchesOf DEF EditsAreInOrder
  <2>4. ToCome(m) \subseteq Patch
    BY <1>8, <1>9, PatchesOf, Bounds DEF ToCome
  <2> QED BY <1>4, <2>1, <2>3, <2>4, PatchesOf DEF EditsAreInOrder
<1>16. NothingIsNewer(m, st)
  <2>1. Below(Nothing, keys)
    BY NothingIs, VisitTypes DEF Below
  <2>2. \A u \in Visits : Below(m.pending[u], keys)
    BY <1>2, <1>3, <1>7, <1>8, OrderOfOver, VisitTypes DEF NothingIsNewer
  <2> QED BY <1>4, <2>1, <2>2 DEF NothingIsNewer
<1>17. TypedIsNewest(m)
  <2> SUFFICES ASSUME visit # 0, NEW i \in Inputs, typed[visit][i] # 0,
                      NEW patch \in ToCome(m) \union {Nothing}
               PROVE  patch[i] <= typed[visit][i]
    BY <1>4 DEF TypedIsNewest
  <2>1. \A later \in ToCome(t) \union {sent} : later[i] <= typed[visit][i]
    BY <1>2 DEF TypedIsNewest
  <2>2. Nothing[i] <= typed[visit][i]
    BY NothingIs, VisitTypes
  <2> QED BY <1>3, <1>10, <1>11, <2>1, <2>2, OverIs
<1>18. ExecutedIsStored(m, st)
  BY <1>5 DEF ExecutedIsStored
<1>19. NothingIsForgotten(m, st)
  <2> SUFFICES ASSUME visit # 0, ~Frozen(visit), late = 0
               PROVE  NothingIsForgotten(m, st)
    BY DEF NothingIsForgotten
  <2>1. visit \in Visits
    BY VisitTypes
  <2>2. ~failed => \A i \in Inputs : sent[i] # 0 => st[i] = sent[i]
    <3>1. Sent(sent) \notin t.requests
      BY DEF Sent
    <3> QED BY <1>2, <3>1 DEF ExecutedIsStored
  <2>3. ASSUME NEW i \in Inputs, typed[visit][i] # 0, OnItsWay(t, i)
        PROVE  st[i] = typed[visit][i] \/ OnItsWay(m, i)
    <3>1. CASE i \in Fields /\ t.pending[visit][i] = typed[visit][i]
      BY <1>3, <1>7, <1>8, <2>1, <2>3, <3>1, OverIs DEF OnItsWay
    <3>2. CASE i \in Fields /\ t.lane = Text /\ v = visit /\ sent[i] = typed[visit][i]
      <4>1. CASE ~failed
        BY <2>2, <2>3, <3>2, <4>1
      <4>2. CASE failed
        <5>1. t.pending[visit] \in ToCome(t)
          BY <1>10, <2>1 DEF Reachable
        <5>2. InOrder(sent, t.pending[visit]) /\ t.pending[visit][i] <= typed[visit][i]
          BY <1>2, <2>3, <5>1 DEF EditsAreInOrder, TypedIsNewest
        <5>3. t.pending[visit][i] \in Nat /\ sent[i] \in Nat
          BY <1>3, <1>8, <2>1, PatchValues
        <5>4. t.pending[visit][i] # 0 => t.pending[visit][i] = typed[visit][i]
          BY <3>2, <5>2, <5>3 DEF InOrder
        <5>5. m.pending[visit][i] = typed[visit][i]
          BY <1>3, <1>7, <1>8, <2>1, <3>2, <4>2, <5>4, OverIs
        <5> QED BY <3>2, <5>5 DEF OnItsWay
      <4> QED BY <4>1, <4>2
    <3>3. CASE /\ i = Photo /\ Photos \in Queued(t)
               /\ t.queued[Photos].patch[Photo] = typed[visit][Photo]
      BY <1>4, <1>9, <3>3 DEF OnItsWay
    <3>4. CASE i = Photo /\ t.lane = Photos /\ sent[Photo] = typed[visit][Photo]
      <4>1. CASE ~failed
        BY <2>2, <2>3, <3>4, <4>1
      <4>2. CASE failed /\ Photos \notin Queued(t)
        BY <1>3, <1>5, <1>6, <1>9, <3>4, <4>2, Bounds DEF OnItsWay
      <4>3. CASE Photos \in Queued(t)
        <5>1. PICK patch \in Patch : patch = t.queued[Photos].patch
          BY PatchesOf, Bounds
        <5>2. patch \in ToCome(t) /\ patch[Photo] # 0
          BY <4>3, <5>1 DEF ToCome, VisitsArePast
        <5>3. InOrder(sent, patch) /\ patch[i] <= typed[visit][i]
          BY <1>2, <2>3, <5>2 DEF EditsAreInOrder, TypedIsNewest
        <5>4. patch[i] \in Nat /\ sent[i] \in Nat
          BY <1>3, PatchValues
        <5>5. patch[i] = typed[visit][i]
          BY <3>4, <5>2, <5>3, <5>4 DEF InOrder
        <5> QED BY <1>4, <1>9, <3>4, <4>3, <5>1, <5>5 DEF OnItsWay
      <4> QED BY <4>1, <4>2, <4>3
    <3>5. CASE /\ i = Photo /\ Photos \notin Queued(t) /\ t.lane # Photos
               /\ t.failure[Photos] # 0
      BY <1>5, <1>6, <1>9, <3>5, Bounds DEF OnItsWay
    <3> QED BY <1>1, <1>2, <1>5, <2>3, <3>1, <3>2, <3>3, <3>4, <3>5 DEF OnItsWay
  <2>4. ASSUME m.pending[visit] # Nothing
        PROVE  \/ m.queued[Text].visit = visit
               \/ m.failure[Text] # 0 /\ ~RunningIs(m, Text)
    <3>1. CASE failed /\ t.lane = Text
      BY <1>3, <1>5, <1>6, <3>1
    <3>2. CASE ~(failed /\ t.lane = Text)
      <4>1. t.pending[visit] # Nothing
        BY <1>7, <2>1, <2>4, <3>2
      <4>2. t.queued[Text].visit = visit \/ (t.failure[Text] # 0 /\ t.lane # Text)
        BY <1>5, <4>1 DEF NothingIsForgotten
      <4> QED BY <1>4, <1>5, <1>6, <4>2, Bounds
    <3> QED BY <3>1, <3>2
  <2> QED BY <2>3, <2>4 DEF NothingIsForgotten
<1> QED BY <1>12, <1>13, <1>14, <1>15, <1>16, <1>17, <1>18, <1>19 DEF QueueInv

-----------------------------------------------------------------------------
(* The steps.                                                                *)

\* The visit, its edits and what was lost stay as they are.
VisitUnchanged == UNCHANGED <<visit, conflict, typed, keys, late>>

QueueOK(t, st) == t \in Target /\ QueueInv(t, st) /\ StatusesFit(t)

FlushStates ==
    [pc : {"idle", "waiting", "saved", "unsaved"}, visit : 0 .. MaxVisits, woken : BOOLEAN]

FlushOK(fl) ==
    /\ fl \in [Flushers -> FlushStates]
    /\ \A f \in Flushers : fl[f].pc = "waiting" => fl[f].visit # 0

LEMMA InvIs ==
    AutosaveInv <=>
        /\ VisitTyped /\ QueueOK(target, stored) /\ NewVisitsAreFresh(target)
        /\ conflict \in [marked : SUBSET Visits, cleaned : SUBSET Visits]
        /\ FlushOK(flush) /\ stored \in Patch /\ late \in Nat
BY VisitTypes DEF AutosaveInv, AutosaveTypeOK, VisitTyped, QueueOK, FlushOK, FlushStates, StatusesFit,
          WaitersHaveVisits

LEMMA InvHolds ==
    ASSUME VisitTyped', QueueOK(target, stored)', NewVisitsAreFresh(target)',
           (conflict \in [marked : SUBSET Visits, cleaned : SUBSET Visits])',
           FlushOK(flush)', (stored \in Patch)', (late \in Nat)'
    PROVE  AutosaveInv'
<1>1. visit' # 0 => visit' \in Visits
  BY Bounds DEF VisitTyped, Visits
<1> QED BY <1>1 DEF AutosaveInv, AutosaveTypeOK, VisitTyped, QueueOK, FlushOK, FlushStates, StatusesFit,
          WaitersHaveVisits

LEMMA VisitStaysKeeps ==
    ASSUME NEW t, NEW st, UNCHANGED <<visit, typed, keys>>, target' = t, stored' = st,
           t \in Target, StatusesFit(t), NewVisitsAreFresh(t),
           VisitsArePast(t), TextIsOfOneVisit(t), RequestsAreSent(t), EditsAreInOrder(t, st),
           NothingIsNewer(t, st), TypedIsNewest(t),
           late' = 0 => late = 0 /\ ExecutedIsStored(t, st) /\ NothingIsForgotten(t, st),
           \A v : Frozen(v) => Frozen(v)'
    PROVE  QueueOK(target, stored)' /\ NewVisitsAreFresh(target)'
<1>1. VisitsArePast(target)'
  BY DEF VisitsArePast, Queued, Running, RunningIs
<1>2. TextIsOfOneVisit(target)'
  BY DEF TextIsOfOneVisit, RunningIs, Running
<1>3. RequestsAreSent(target)'
  BY DEF RequestsAreSent, Running
<1>4. ToCome(target)' = ToCome(t)
  BY DEF ToCome, Reachable
<1>5. EditsAreInOrder(target, stored)'
  BY <1>4 DEF EditsAreInOrder, InOrder
<1>6. NothingIsNewer(target, stored)'
  BY DEF NothingIsNewer, Below
<1>7. TypedIsNewest(target)'
  BY <1>4 DEF TypedIsNewest
<1>8. ExecutedIsStored(target, stored)'
  BY DEF ExecutedIsStored, Running, Sent
<1>9. NothingIsForgotten(target, stored)'
  <2>1. Frozen(visit) => Frozen(visit)'
    BY DEF Frozen
  <2> QED BY <2>1 DEF NothingIsForgotten, OnItsWay, RunningIs, Running, Queued
<1>10. StatusesFit(target)' /\ NewVisitsAreFresh(target)' /\ target' \in Target
  BY DEF StatusesFit, StatusFits, HasWork, Queued, NewVisitsAreFresh
<1> QED BY <1>1, <1>2, <1>3, <1>5, <1>6, <1>7, <1>8, <1>9, <1>10 DEF QueueOK, QueueInv

LEMMA VisitUnchangedKeeps ==
    ASSUME NEW t, NEW st, VisitUnchanged, target' = t, stored' = st, QueueOK(t, st),
           NewVisitsAreFresh(t)
    PROVE  QueueOK(target, stored)' /\ NewVisitsAreFresh(target)'
<1>1. \A v : Frozen(v) => Frozen(v)'
  BY DEF Frozen, VisitUnchanged
<1>2. UNCHANGED <<visit, typed, keys, late>>
  BY DEF VisitUnchanged
<1> QED BY <1>1, <1>2, VisitStaysKeeps DEF QueueOK, QueueInv

LEMMA PrunedKeeps ==
    ASSUME NEW t, NEW st \in Patch, VisitTyped, QueueOK(t, st)
    PROVE  QueueOK(Pruned(t), st) /\ NewVisitsAreFresh(Pruned(t))
<1>1. PICK p : p = Pruned(t)
  OBVIOUS
<1>2. t \in Target /\ QueueInv(t, st) /\ StatusesFit(t)
  BY DEF QueueOK
<1>3. /\ p \in Target /\ SameButState(t, p)
      /\ \A v \in Visits : StatusFits(t, v) => StatusFits(p, v)
      /\ \A v \in Visits : v # visit /\ ~HasWork(t, v) => p.state[v] = FreshVisit
  BY <1>1, <1>2, PrunedIs
<1>4. SameQueue(t, p)
  BY <1>3 DEF SameButState, SameQueue
<1>5. QueueInv(p, st)
  BY <1>2, <1>3, <1>4, SameKeeps
<1>6. NewVisitsAreFresh(p)
  <2> SUFFICES ASSUME visit # 0, NEW v \in Visits, v > visit
               PROVE  p.state[v] = FreshVisit
    BY DEF NewVisitsAreFresh
  <2>1. v # visit /\ v # t.running.visit /\ \A l \in Lanes : v # t.queued[l].visit
    BY <1>2, VisitTypes, PatchesOf DEF QueueInv, VisitsArePast
  <2> QED BY <1>3, <2>1, WorkIs
<1> QED BY <1>1, <1>2, <1>3, <1>5, <1>6 DEF QueueOK, StatusesFit

LEMMA PumpedKeeps ==
    ASSUME NEW t, NEW st \in Patch, VisitTyped, QueueOK(t, st)
    PROVE  QueueOK(Pumped(t), st)
<1>1. PICK p : p = Pumped(t)
  OBVIOUS
<1>2. t \in Target /\ QueueInv(t, st) /\ StatusesFit(t)
  BY DEF QueueOK
<1>3. /\ p \in Target
      /\ Drops(t, p) \/ \E l \in Lanes : Starts(t, p, l)
      /\ \A v \in Visits : StatusFits(t, v) => StatusFits(p, v)
  BY <1>1, <1>2, PumpedIs DEF VisitTyped
<1>4. QueueInv(p, st)
  BY <1>2, <1>3, DropsKeep, StartsKeep
<1> QED BY <1>1, <1>2, <1>3, <1>4 DEF QueueOK, StatusesFit

LEMMA ReadyKeeps ==
    ASSUME NEW t, NEW st, QueueOK(t, st), NEW queued \in [Lanes -> Save],
           \A l \in Lanes : /\ queued[l].visit = t.queued[l].visit
                            /\ queued[l].patch = t.queued[l].patch
    PROVE  QueueOK([t EXCEPT !.queued = queued], st)
<1>1. PICK a : a = [t EXCEPT !.queued = queued]
  OBVIOUS
<1>2. a \in Target
  BY <1>1, Setters DEF QueueOK
<1>3. /\ a.queued = queued /\ a.running = t.running /\ a.lane = t.lane /\ a.failure = t.failure
      /\ a.state = t.state /\ a.pending = t.pending /\ a.requests = t.requests
  BY <1>1, <1>2 DEF Target, QueueOK
<1>4. QueueInv(a, st)
  <2>1. SameQueue(t, a)
    BY <1>3 DEF SameQueue
  <2> QED BY <1>2, <2>1, SameKeeps DEF QueueOK
<1>5. StatusesFit(a)
  <2>1. \A v \in Visits : HasWork(a, v) <=> HasWork(t, v)
    BY <1>3, WorkIs
  <2> QED BY <1>3, <2>1 DEF QueueOK, StatusesFit, StatusFits
<1> QED BY <1>1, <1>2, <1>4, <1>5 DEF QueueOK

LEMMA FinishedKeeps ==
    ASSUME NEW t \in Target, NEW st \in Patch, NEW failed \in BOOLEAN, VisitTyped,
           Running(t), \A q \in t.requests : q.lost, StatusesFit(t),
           VisitsArePast(t), TextIsOfOneVisit(t), EditsAreInOrder(t, st), NothingIsNewer(t, st),
           TypedIsNewest(t), NothingIsForgotten(t, st), failed \/ ExecutedIsStored(t, st)
    PROVE  QueueOK(Finished(t, failed), st)
<1>1. PICK p : p = Finished(t, failed)
  OBVIOUS
<1>2. /\ p \in Target
      /\ \E m \in Target : /\ Ends(t, m, failed)
                           /\ Drops(m, p) \/ \E l \in Lanes : Starts(m, p, l)
      /\ \A v \in Visits : StatusFits(t, v) => StatusFits(p, v)
  BY <1>1, FinishedIs DEF VisitTyped
<1>3. PICK m \in Target : /\ Ends(t, m, failed)
                          /\ Drops(m, p) \/ \E l \in Lanes : Starts(m, p, l)
  BY <1>2
<1>4. QueueInv(m, st)
  BY <1>3, EndsKeep
<1>5. QueueInv(p, st)
  BY <1>2, <1>3, <1>4, DropsKeep, StartsKeep
<1> QED BY <1>1, <1>2, <1>5 DEF QueueOK, StatusesFit

LEMMA WokenAreOK ==
    ASSUME NEW old, FlushOK(old)
    PROVE  FlushOK([f \in Flushers |-> Woken(old[f])])
<1>1. ASSUME NEW f \in Flushers
      PROVE  /\ Woken(old[f]) \in FlushStates
             /\ Woken(old[f]).pc = "waiting" => Woken(old[f]).visit # 0
  <2>1. PICK one \in FlushStates : one = old[f]
    BY DEF FlushOK
  <2>2. PICK yes \in BOOLEAN : yes = TRUE
    OBVIOUS
  <2>3. PICK new : new = [one EXCEPT !.woken = yes]
    OBVIOUS
  <2>4. new \in FlushStates /\ new.pc = one.pc /\ new.visit = one.visit
    BY <2>3 DEF FlushStates
  <2>5. Woken(old[f]) = IF one.pc = "waiting" THEN new ELSE one
    BY <2>1, <2>2, <2>3 DEF Woken
  <2> QED BY <2>1, <2>4, <2>5 DEF FlushOK
<1> QED BY <1>1 DEF FlushOK

LEMMA WokenKeeps ==
    ASSUME FlushOK(flush), flush' = [f \in Flushers |-> Woken(flush[f])]
    PROVE  FlushOK(flush)'
<1>1. PICK old : old = flush
  OBVIOUS
<1>2. FlushOK([f \in Flushers |-> Woken(old[f])])
  BY <1>1, WokenAreOK
<1> QED BY <1>1, <1>2 DEF FlushOK

LEMMA EndedIsOK ==
    ASSUME FlushOK(flush), NEW f \in Flushers, NEW result \in {"idle", "saved", "unsaved"}
    PROVE  FlushOK(Ended(f, result))
<1>1. PICK new : new = [pc |-> result, visit |-> 0, woken |-> FALSE]
  OBVIOUS
<1>2. new \in FlushStates /\ new.pc # "waiting"
  BY <1>1, Bounds DEF FlushStates
<1>3. Ended(f, result) = [flush EXCEPT ![f] = new]
  BY <1>1 DEF Ended
<1> QED BY <1>2, <1>3 DEF FlushOK

LEMMA EndedKeeps ==
    ASSUME FlushOK(flush), NEW f \in Flushers, NEW result \in {"idle", "saved", "unsaved"},
           flush' = Ended(f, result)
    PROVE  FlushOK(flush)'
<1>1. FlushOK(Ended(f, result))
  BY EndedIsOK
<1> QED BY <1>1 DEF FlushOK

LEMMA ChangedKeeps ==
    ASSUME AutosaveInv, NEW t, QueueOK(t, stored), Changed(t), VisitUnchanged, UNCHANGED stored
    PROVE  AutosaveInv'
<1>1. target' = Pruned(t) /\ flush' = [f \in Flushers |-> Woken(flush[f])]
  BY DEF Changed
<1>2. PICK p : p = Pruned(t)
  OBVIOUS
<1>3. PICK st : st = stored
  OBVIOUS
<1>4. QueueOK(p, st) /\ NewVisitsAreFresh(p)
  BY <1>2, <1>3, PrunedKeeps, InvIs
<1>5. QueueOK(target, stored)' /\ NewVisitsAreFresh(target)'
  BY <1>1, <1>2, <1>3, <1>4, VisitUnchangedKeeps
<1>6. FlushOK(flush)'
  BY <1>1, WokenKeeps, InvIs
<1>7. /\ VisitTyped' /\ late' \in Nat /\ stored' \in Patch
      /\ conflict' \in [marked : SUBSET Visits, cleaned : SUBSET Visits]
  BY InvIs DEF VisitTyped, VisitUnchanged
<1> QED BY <1>5, <1>6, <1>7, InvHolds

LEMMA TimerStep ==
    ASSUME AutosaveInv, NEW lane \in Lanes, TimerFires(lane)
    PROVE  AutosaveInv'
<1>1. PICK t : t = target
  OBVIOUS
<1>2. QueueOK(t, stored) /\ VisitTyped /\ stored \in Patch
  BY <1>1, InvIs
<1>3. PICK queued : queued = [t.queued EXCEPT ![lane].ready = TRUE]
  OBVIOUS
<1>4. PICK a : a = [t EXCEPT !.queued = queued]
  OBVIOUS
<1>5. a = [target EXCEPT !.queued[lane].ready = TRUE]
  BY <1>1, <1>3, <1>4
<1>6. /\ queued \in [Lanes -> Save]
      /\ \A l \in Lanes : /\ queued[l].visit = t.queued[l].visit
                          /\ queued[l].patch = t.queued[l].patch
  <2>1. PICK old \in Save : old = t.queued[lane]
    BY <1>2, TargetFields DEF QueueOK
  <2>2. PICK yes \in BOOLEAN : yes = TRUE
    OBVIOUS
  <2>3. PICK new : new = [old EXCEPT !.ready = yes]
    OBVIOUS
  <2>4. new \in Save /\ new.visit = old.visit /\ new.patch = old.patch
    BY <2>3 DEF Save
  <2>5. queued = [t.queued EXCEPT ![lane] = new]
    BY <1>3, <2>1, <2>2, <2>3
  <2> QED BY <1>2, <2>1, <2>4, <2>5, TargetFields DEF QueueOK
<1>7. PICK st : st = stored
  OBVIOUS
<1>8. QueueOK(a, st)
  BY <1>2, <1>4, <1>6, <1>7, ReadyKeeps
<1>9. QueueOK(Pumped(a), stored)
  BY <1>2, <1>7, <1>8, PumpedKeeps
<1>10. PICK p : p = Pumped(a)
  OBVIOUS
<1>11. Changed(p) /\ VisitUnchanged /\ UNCHANGED stored
  BY <1>5, <1>10 DEF TimerFires, VisitUnchanged
<1> QED BY <1>9, <1>10, <1>11, ChangedKeeps

\* The only request of the running save that was not given up on.
LEMMA OthersAreLost ==
    ASSUME NEW t \in Target, RequestsAreSent(t), NEW q \in t.requests, ~q.lost
    PROVE  Running(t) /\ q = Sent(t.running.patch)
BY PatchesOf DEF RequestsAreSent, Sent, Request

LEMMA AnswerStep ==
    ASSUME AutosaveInv, SaveAnswered
    PROVE  AutosaveInv'
<1>1. PICK t : t = target
  OBVIOUS
<1>2. PICK st : st = stored
  OBVIOUS
<1>3. t \in Target /\ QueueInv(t, st) /\ StatusesFit(t) /\ VisitTyped /\ st \in Patch
  BY <1>1, <1>2, InvIs DEF QueueOK
<1>4. Running(t) /\ Sent(t.running.patch) \notin t.requests
  BY <1>1 DEF SaveAnswered, Unexecuted
<1>5. \A q \in t.requests : q.lost
  BY <1>3, <1>4, OthersAreLost DEF QueueInv
<1>6. PICK no \in BOOLEAN : no = FALSE
  OBVIOUS
<1>7. QueueOK(Finished(t, no), st)
  BY <1>3, <1>4, <1>5, FinishedKeeps DEF QueueInv
<1>8. PICK p : p = Finished(t, no)
  OBVIOUS
<1>9. Changed(p) /\ VisitUnchanged /\ UNCHANGED stored
  BY <1>1, <1>6, <1>8 DEF SaveAnswered, VisitUnchanged
<1> QED BY <1>2, <1>7, <1>8, <1>9, ChangedKeeps

LEMMA FailStep ==
    ASSUME AutosaveInv, NEW gone \in BOOLEAN, SaveFails(gone)
    PROVE  AutosaveInv'
<1>1. PICK old : old = target
  OBVIOUS
<1>2. PICK st : st = stored
  OBVIOUS
<1>3. old \in Target /\ QueueInv(old, st) /\ StatusesFit(old) /\ VisitTyped /\ st \in Patch
  BY <1>1, <1>2, InvIs DEF QueueOK
<1>4. PICK sent : sent = Sent(old.running.patch)
  OBVIOUS
<1>5. PICK lost : lost = [sent EXCEPT !.lost = TRUE]
  OBVIOUS
<1>6. lost \in Request /\ lost.lost /\ lost.patch = old.running.patch
  BY <1>3, <1>4, <1>5, PatchesOf DEF Sent, Request
<1>7. PICK requests : requests = (old.requests \ {sent}) \union (IF gone THEN {lost} ELSE {})
  OBVIOUS
<1>8. requests \in SUBSET Request
  BY <1>3, <1>6, <1>7, TargetFields
<1>9. \A q \in requests : q.lost /\ (q \in old.requests \/ q.patch = old.running.patch)
  BY <1>3, <1>4, <1>6, <1>7, OthersAreLost DEF QueueInv
<1>10. PICK t : t = [old EXCEPT !.requests = requests]
  OBVIOUS
<1>11. t \in Target
  BY <1>3, <1>8, <1>10, Setters
<1>12. /\ t.queued = old.queued /\ t.running = old.running /\ t.lane = old.lane
       /\ t.failure = old.failure /\ t.state = old.state /\ t.pending = old.pending
       /\ t.requests = requests
  BY <1>3, <1>10 DEF Target
<1>13. /\ Running(t) /\ Queued(t) = Queued(old) /\ ToCome(t) = ToCome(old)
       /\ \A l : RunningIs(t, l) <=> RunningIs(old, l)
  BY <1>1, <1>12 DEF SaveFails, Running, RunningIs, Queued, ToCome, Reachable
<1>14. VisitsArePast(t) /\ TextIsOfOneVisit(t) /\ TypedIsNewest(t) /\ NothingIsForgotten(t, st)
  BY <1>3, <1>12, <1>13
     DEF QueueInv, VisitsArePast, TextIsOfOneVisit, TypedIsNewest, NothingIsForgotten, OnItsWay
<1>15. EditsAreInOrder(t, st)
  <2>1. \A later \in ToCome(old) \union {old.running.patch} : InOrder(old.running.patch, later)
    BY <1>3, PatchesOf, PatchValues DEF QueueInv, EditsAreInOrder, InOrder
  <2> QED BY <1>3, <1>9, <1>12, <1>13, <2>1 DEF QueueInv, EditsAreInOrder
<1>16. NothingIsNewer(t, st)
  BY <1>3, <1>9, <1>12 DEF QueueInv, NothingIsNewer
<1>17. StatusesFit(t)
  <2>1. \A v \in Visits : HasWork(t, v) <=> HasWork(old, v)
    BY <1>12, WorkIs
  <2> QED BY <1>3, <1>12, <2>1 DEF StatusesFit, StatusFits
<1>18. PICK yes \in BOOLEAN : yes = TRUE
  OBVIOUS
<1>19. QueueOK(Finished(t, yes), st)
  BY <1>3, <1>9, <1>11, <1>12, <1>13, <1>14, <1>15, <1>16, <1>17, <1>18, FinishedKeeps
<1>20. PICK p : p = Finished(t, yes)
  OBVIOUS
<1>21. t = [target EXCEPT !.requests = (@ \ {sent}) \union (IF gone THEN {lost} ELSE {})]
  BY <1>1, <1>7, <1>10
<1>22. Changed(p) /\ VisitUnchanged /\ UNCHANGED stored
  BY <1>1, <1>4, <1>5, <1>18, <1>20, <1>21 DEF SaveFails, VisitUnchanged
<1> QED BY <1>2, <1>19, <1>20, <1>22, ChangedKeeps

LEMMA ExecuteStep ==
    ASSUME AutosaveInv, NEW asked \in target.requests, Execute(asked)
    PROVE  AutosaveInv'
<1>1. PICK t : t = target
  OBVIOUS
<1>2. PICK st : st = stored
  OBVIOUS
<1>3. t \in Target /\ QueueInv(t, st) /\ StatusesFit(t) /\ VisitTyped /\ st \in Patch
  BY <1>1, <1>2, InvIs DEF QueueOK
<1>4. PICK p : p = [t EXCEPT !.requests = @ \ {asked}]
  OBVIOUS
<1>5. PICK after : after = Over(st, asked.patch)
  OBVIOUS
<1>6. asked \in t.requests /\ asked \in Request /\ asked.patch \in Patch
  BY <1>1, <1>3, PatchesOf
<1>7. /\ after \in Patch
      /\ \A i \in Inputs : after[i] = IF asked.patch[i] # 0 THEN asked.patch[i] ELSE st[i]
  BY <1>3, <1>5, <1>6, OverIs
<1>8. p \in Target
  BY <1>3, <1>4, TargetFields, Setters
<1>9. /\ p.queued = t.queued /\ p.running = t.running /\ p.lane = t.lane /\ p.failure = t.failure
      /\ p.state = t.state /\ p.pending = t.pending /\ p.requests = t.requests \ {asked}
  BY <1>3, <1>4, <1>8 DEF Target
<1>10. /\ Running(p) = Running(t) /\ Queued(p) = Queued(t) /\ ToCome(p) = ToCome(t)
       /\ \A l : RunningIs(p, l) = RunningIs(t, l)
  BY <1>9 DEF Running, RunningIs, Queued, ToCome, Reachable
<1>11. VisitsArePast(p) /\ TextIsOfOneVisit(p) /\ TypedIsNewest(p) /\ RequestsAreSent(p)
  BY <1>3, <1>9, <1>10
     DEF QueueInv, VisitsArePast, TextIsOfOneVisit, TypedIsNewest, RequestsAreSent
<1>12. EditsAreInOrder(p, after)
  <2>1. ToCome(t) \union {t.running.patch} \subseteq Patch
    BY <1>3, PatchesOf, Bounds DEF ToCome, Reachable
  <2>2. \A later \in ToCome(t) \union {t.running.patch} : InOrder(after, later)
    BY <1>3, <1>5, <1>6, <2>1, OrderOfOver DEF QueueInv, EditsAreInOrder
  <2> QED BY <1>3, <1>9, <1>10, <2>2 DEF QueueInv, EditsAreInOrder
<1>13. NothingIsNewer(p, after)
  <2>1. Below(after, keys)
    BY <1>3, <1>5, <1>6, OrderOfOver, VisitTypes DEF QueueInv, NothingIsNewer
  <2> QED BY <1>3, <1>9, <2>1 DEF QueueInv, NothingIsNewer
<1>14. StatusesFit(p) /\ NewVisitsAreFresh(p)
  <2>1. \A v \in Visits : HasWork(p, v) <=> HasWork(t, v)
    BY <1>9, WorkIs
  <2> QED BY <1>1, <1>3, <1>9, <2>1, InvIs DEF StatusesFit, StatusFits, NewVisitsAreFresh
<1>15. /\ target' = p /\ stored' = after /\ UNCHANGED <<visit, conflict, typed, keys, flush>>
       /\ late' = late + (IF asked.lost THEN 1 ELSE 0)
  BY <1>1, <1>2, <1>4, <1>5 DEF Execute
<1>16. ASSUME late' = 0
       PROVE  late = 0 /\ ExecutedIsStored(p, after) /\ NothingIsForgotten(p, after)
  <2>1. late = 0 /\ ~asked.lost
    BY <1>15, <1>16, InvIs, Bounds
  <2>2. Running(t) /\ asked = Sent(t.running.patch)
    BY <1>3, <1>6, <2>1, OthersAreLost DEF QueueInv
  <2>3. asked.patch = t.running.patch
    BY <2>2 DEF Sent
  <2>4. ExecutedIsStored(p, after)
    BY <1>7, <1>9, <2>3 DEF ExecutedIsStored
  <2>5. ASSUME visit # 0, NEW i \in Inputs, typed[visit][i] # 0, st[i] = typed[visit][i]
        PROVE  after[i] = typed[visit][i]
    <3>1. st[i] \in Nat /\ asked.patch[i] \in Nat
      BY <1>3, <1>6, PatchValues
    <3>2. asked.patch[i] # 0 => st[i] <= asked.patch[i]
      BY <1>3, <2>3 DEF QueueInv, EditsAreInOrder, InOrder
    <3>3. asked.patch[i] <= typed[visit][i]
      BY <1>3, <2>3, <2>5 DEF QueueInv, TypedIsNewest
    <3> QED BY <1>7, <2>5, <3>1, <3>2, <3>3
  <2>6. \A i \in Inputs : OnItsWay(p, i) <=> OnItsWay(t, i)
    BY <1>9, <1>10 DEF OnItsWay
  <2>7. NothingIsForgotten(p, after)
    BY <1>3, <1>9, <1>10, <2>1, <2>5, <2>6 DEF QueueInv, NothingIsForgotten
  <2> QED BY <2>1, <2>4, <2>7
<1>17. \A v : Frozen(v) => Frozen(v)'
  BY <1>15 DEF Frozen
<1>18. QueueOK(target, stored)' /\ NewVisitsAreFresh(target)'
  BY <1>8, <1>11, <1>12, <1>13, <1>14, <1>15, <1>16, <1>17, VisitStaysKeeps
<1>19. late' \in Nat
  BY <1>15, InvIs
<1>20. /\ VisitTyped' /\ FlushOK(flush)' /\ stored' \in Patch
       /\ conflict' \in [marked : SUBSET Visits, cleaned : SUBSET Visits]
  BY <1>7, <1>15, InvIs DEF VisitTyped, FlushOK
<1> QED BY <1>18, <1>19, <1>20, InvHolds

LEMMA MarkStep ==
    ASSUME AutosaveInv, MarkConflict
    PROVE  AutosaveInv'
<1>1. PICK t : t = target
  OBVIOUS
<1>2. PICK st : st = stored
  OBVIOUS
<1>3. QueueOK(t, st) /\ NewVisitsAreFresh(t) /\ late \in Nat
  BY <1>1, <1>2, InvIs
<1>4. /\ visit # 0 /\ conflict' = [conflict EXCEPT !.marked = @ \union {visit}]
      /\ UNCHANGED <<visit, typed, keys, target, flush, stored, late>>
  BY DEF MarkConflict
<1>5. /\ conflict' \in [marked : SUBSET Visits, cleaned : SUBSET Visits]
      /\ \A v : Frozen(v) => Frozen(v)'
  <2>1. PICK marked : marked = conflict.marked \union {visit}
    OBVIOUS
  <2>2. marked \in SUBSET Visits
    BY <1>4, <2>1, InvIs, VisitTypes
  <2>3. conflict' = [conflict EXCEPT !.marked = marked]
    BY <1>4, <2>1
  <2>4. /\ conflict' \in [marked : SUBSET Visits, cleaned : SUBSET Visits]
        /\ conflict'.marked = marked
    BY <2>2, <2>3, InvIs
  <2> QED BY <2>1, <2>4 DEF Frozen
<1>6. QueueOK(target, stored)' /\ NewVisitsAreFresh(target)'
  BY <1>1, <1>2, <1>3, <1>4, <1>5, VisitStaysKeeps DEF QueueOK, QueueInv
<1>7. VisitTyped' /\ FlushOK(flush)' /\ stored' \in Patch /\ late' \in Nat
  BY <1>4, InvIs DEF VisitTyped, FlushOK
<1> QED BY <1>5, <1>6, <1>7, InvHolds

LEMMA CleanUpStep ==
    ASSUME AutosaveInv, CleanUpConflict
    PROVE  AutosaveInv'
<1>1. PICK t : t = target
  OBVIOUS
<1>2. PICK st : st = stored
  OBVIOUS
<1>3. /\ t \in Target /\ QueueInv(t, st) /\ StatusesFit(t) /\ VisitTyped /\ st \in Patch
      /\ late \in Nat
  BY <1>1, <1>2, InvIs DEF QueueOK
<1>4. PICK d : d = Dropped(t, Lanes)
  OBVIOUS
<1>5. /\ d \in Target
      /\ \A l \in Lanes : d.queued[l] = NoSave
      /\ d.running = t.running /\ d.lane = t.lane /\ d.failure = t.failure
      /\ d.pending = t.pending /\ d.requests = t.requests
      /\ \A v \in Visits : StatusFits(t, v) => StatusFits(d, v)
  BY <1>3, <1>4, DroppedIs
<1>6. visit # 0 /\ Frozen(visit) /\ visit \in Visits
  BY <1>3, VisitTypes DEF CleanUpConflict, Frozen
<1>7. QueueInv(d, st)
  <2>1. Drops(t, d)
    BY <1>5, <1>6 DEF Drops
  <2> QED BY <1>3, <1>5, <2>1, DropsKeep
<1>8. PICK pending : pending = [d.pending EXCEPT ![visit] = Nothing]
  OBVIOUS
<1>9. /\ pending \in [Visits -> Patch]
      /\ \A v \in Visits : pending[v] = IF v = visit THEN Nothing ELSE d.pending[v]
  BY <1>5, <1>6, <1>8, NothingIs, TargetFields
<1>10. PICK c : c = [d EXCEPT !.pending = pending]
  OBVIOUS
<1>11. c \in Target
  BY <1>5, <1>9, <1>10, Setters
<1>12. /\ c.queued = d.queued /\ c.running = d.running /\ c.lane = d.lane /\ c.failure = d.failure
       /\ c.state = d.state /\ c.pending = pending /\ c.requests = d.requests
  BY <1>5, <1>10 DEF Target
<1>13. /\ Running(c) = Running(d) /\ Queued(c) = Queued(d) /\ Reachable(c) = Reachable(d)
       /\ \A l : RunningIs(c, l) = RunningIs(d, l)
       /\ ToCome(c) \subseteq ToCome(d) \union {Nothing}
  <2>1. Reachable(c) = Reachable(d) /\ Reachable(d) \subseteq Visits
    BY <1>12 DEF Reachable
  <2>2. ToCome(c) \subseteq ToCome(d) \union {Nothing}
    BY <1>9, <1>12, <2>1 DEF ToCome
  <2> QED BY <1>12, <2>1, <2>2 DEF Running, RunningIs, Queued
<1>14. QueueInv(c, st)
  <2>1. VisitsArePast(c)
    BY <1>7, <1>9, <1>12, <1>13, NothingIs, Bounds DEF QueueInv, VisitsArePast
  <2>2. TextIsOfOneVisit(c)
    BY <1>5, <1>12, NothingIs, Bounds DEF TextIsOfOneVisit
  <2>3. RequestsAreSent(c)
    BY <1>7, <1>12, <1>13 DEF QueueInv, RequestsAreSent
  <2>4. EditsAreInOrder(c, st)
    <3>1. \A patch \in Patch : InOrder(patch, Nothing)
      BY NothingIs DEF InOrder
    <3> QED BY <1>3, <1>5, <1>7, <1>12, <1>13, <3>1, PatchesOf DEF QueueInv, EditsAreInOrder
  <2>5. NothingIsNewer(c, st)
    <3>1. Below(Nothing, keys)
      BY <1>3, NothingIs, VisitTypes DEF Below
    <3> QED BY <1>7, <1>9, <1>12, <3>1 DEF QueueInv, NothingIsNewer
  <2>6. TypedIsNewest(c)
    BY <1>3, <1>7, <1>12, <1>13, NothingIs, VisitTypes DEF QueueInv, TypedIsNewest
  <2>7. ExecutedIsStored(c, st)
    BY <1>7, <1>12, <1>13 DEF QueueInv, ExecutedIsStored
  <2>8. NothingIsForgotten(c, st)
    BY <1>6 DEF NothingIsForgotten
  <2> QED BY <2>1, <2>2, <2>3, <2>4, <2>5, <2>6, <2>7, <2>8 DEF QueueInv
<1>15. StatusesFit(c)
  <2>1. \A v \in Visits : HasWork(c, v) <=> HasWork(d, v)
    BY <1>12, WorkIs
  <2> QED BY <1>3, <1>5, <1>12, <2>1 DEF StatusesFit, StatusFits
<1>16. PICK p : p = Pruned(c)
  OBVIOUS
<1>17. QueueOK(p, st) /\ NewVisitsAreFresh(p)
  BY <1>3, <1>11, <1>14, <1>15, <1>16, PrunedKeeps DEF QueueOK
<1>18. c = [Dropped(target, Lanes) EXCEPT !.pending[visit] = Nothing]
  BY <1>1, <1>4, <1>8, <1>10
<1>19. /\ target' = p /\ stored' = st /\ UNCHANGED <<visit, typed, keys, late>>
       /\ flush' = [f \in Flushers |-> Woken(flush[f])]
       /\ conflict' = [conflict EXCEPT !.cleaned = @ \union {visit}]
  BY <1>2, <1>16, <1>18 DEF CleanUpConflict, Changed
<1>20. /\ conflict' \in [marked : SUBSET Visits, cleaned : SUBSET Visits]
       /\ \A v : Frozen(v) => Frozen(v)'
  <2>1. PICK cleaned : cleaned = conflict.cleaned \union {visit}
    OBVIOUS
  <2>2. cleaned \in SUBSET Visits
    BY <1>6, <2>1, InvIs
  <2>3. conflict' = [conflict EXCEPT !.cleaned = cleaned]
    BY <1>19, <2>1
  <2>4. /\ conflict' \in [marked : SUBSET Visits, cleaned : SUBSET Visits]
        /\ conflict'.marked = conflict.marked
    BY <2>2, <2>3, InvIs
  <2> QED BY <2>4 DEF Frozen
<1>21. QueueOK(target, stored)' /\ NewVisitsAreFresh(target)'
  BY <1>17, <1>19, <1>20, VisitStaysKeeps DEF QueueOK, QueueInv
<1>22. FlushOK(flush)'
  BY <1>19, WokenKeeps, InvIs
<1>23. VisitTyped' /\ stored' \in Patch /\ late' \in Nat
  BY <1>3, <1>19 DEF VisitTyped
<1> QED BY <1>20, <1>21, <1>22, <1>23, InvHolds

\* A step of a flush leaves everything but the queue and the flush alone.
LEMMA FlushKeeps ==
    ASSUME AutosaveInv, VisitUnchanged, UNCHANGED stored, FlushOK(flush)',
           NEW t, target' = t, QueueOK(t, stored), NewVisitsAreFresh(t)
    PROVE  AutosaveInv'
<1>1. PICK st : st = stored
  OBVIOUS
<1>2. QueueOK(target, stored)' /\ NewVisitsAreFresh(target)'
  BY <1>1, VisitUnchangedKeeps
<1>3. /\ VisitTyped' /\ late' \in Nat /\ stored' \in Patch
      /\ conflict' \in [marked : SUBSET Visits, cleaned : SUBSET Visits]
  BY InvIs DEF VisitTyped, VisitUnchanged
<1> QED BY <1>2, <1>3, InvHolds

LEMMA ConsumedStep ==
    ASSUME AutosaveInv, NEW f \in Flushers, FlushConsumed(f)
    PROVE  AutosaveInv'
<1>1. PICK t : t = target
  OBVIOUS
<1>2. QueueOK(t, stored) /\ NewVisitsAreFresh(t)
  BY <1>1, InvIs
<1>3. PICK result \in {"idle", "saved", "unsaved"} : result = "idle"
  OBVIOUS
<1>4. FlushOK(flush)'
  BY <1>3, InvIs, EndedKeeps DEF FlushConsumed
<1> QED BY <1>1, <1>2, <1>4, FlushKeeps DEF FlushConsumed, VisitUnchanged

LEMMA ContinueStep ==
    ASSUME AutosaveInv, NEW f \in Flushers, FlushContinues(f)
    PROVE  AutosaveInv'
<1>1. PICK t : t = target
  OBVIOUS
<1>2. QueueOK(t, stored) /\ NewVisitsAreFresh(t) /\ VisitTyped /\ FlushOK(flush)
  BY <1>1, InvIs
<1>3. VisitUnchanged /\ UNCHANGED stored
  BY DEF FlushContinues, VisitUnchanged
<1>4. PICK v : v = flush[f].visit
  OBVIOUS
<1>5. PICK failed : failed = {l \in Lanes : t.failure[l] # 0}
  OBVIOUS
<1>6. PICK failure : failure = [l \in Lanes |-> IF l \in failed THEN v ELSE 0]
  OBVIOUS
<1>7. PICK owned : owned = [t EXCEPT !.failure = failure]
  OBVIOUS
<1>8. PICK state : state = [u \in Visits |->
         IF u = v THEN [owned.state[u] EXCEPT !.failed = failed # {},
                                              !.started = t.state[u].started \/ failed # {}]
         ELSE [owned.state[u] EXCEPT !.failed = HasUnresolvedFailure(owned, u)]]
  OBVIOUS
<1>9. PICK judged : judged = [owned EXCEPT !.state = state]
  OBVIOUS
<1>10. PICK settled : settled = Settled(judged, Visits)
  OBVIOUS
<1>11. PICK result : result = Pruned(settled)
  OBVIOUS
<1>12. flush[f].pc = "waiting" /\ v # 0 /\ v \in 0 .. MaxVisits
  BY <1>2, <1>4 DEF FlushContinues, FlushOK, FlushStates
<1>13. \/ /\ flush' = [flush EXCEPT ![f].woken = FALSE]
          /\ target' = t
       \/ \E ended \in {"idle", "saved", "unsaved"} : flush' = Ended(f, ended) /\ target' = t
       \/ /\ target' = result
          /\ \E ended \in {"idle", "saved", "unsaved"} : flush' = Ended(f, ended)
  <2> DEFINE lanes == {l \in Lanes : target.failure[l] # 0}
             taken == [target EXCEPT !.failure = [l \in Lanes |-> IF l \in lanes
                                                                  THEN flush[f].visit ELSE 0]]
             views == [u \in Visits |->
                        IF u = flush[f].visit
                        THEN [taken.state[u] EXCEPT !.failed = lanes # {},
                                           !.started = target.state[u].started \/ lanes # {}]
                        ELSE [taken.state[u] EXCEPT !.failed = HasUnresolvedFailure(taken, u)]]
             seen == [taken EXCEPT !.state = [u \in Visits |->
                        IF u = flush[f].visit
                        THEN [@[u] EXCEPT !.failed = lanes # {},
                                           !.started = target.state[u].started \/ lanes # {}]
                        ELSE [@[u] EXCEPT !.failed = HasUnresolvedFailure(taken, u)]]]
  <2>1. \/ /\ flush' = [flush EXCEPT ![f].woken = FALSE]
           /\ UNCHANGED target
        \/ flush' = Ended(f, "unsaved") /\ UNCHANGED target
        \/ /\ target' = Pruned(Settled(seen, Visits))
           /\ flush' = Ended(f, "saved") \/ flush' = Ended(f, "unsaved")
    BY DEF FlushContinues
  <2>2. seen = [taken EXCEPT !.state = views]
    <3> HIDE DEF lanes
    <3> HIDE DEF taken
    <3> QED OBVIOUS
  <2> HIDE DEF seen
  <2>3. lanes = failed
    BY <1>1, <1>5
  <2> HIDE DEF lanes
  <2>4. taken = owned
    BY <1>1, <1>4, <1>6, <1>7, <2>3
  <2> HIDE DEF taken
  <2>5. views = state
    BY <1>1, <1>4, <1>8, <2>3, <2>4
  <2> HIDE DEF views
  <2>6. seen = judged
    BY <1>9, <2>4, <2>5, <2>2
  <2> QED BY <1>1, <1>10, <1>11, <2>1, <2>6
<1>14. CASE flush' = [flush EXCEPT ![f].woken = FALSE] /\ target' = t
  <2>1. PICK old \in FlushStates : old = flush[f]
    BY <1>2 DEF FlushOK
  <2>2. PICK no \in BOOLEAN : no = FALSE
    OBVIOUS
  <2>3. PICK new : new = [old EXCEPT !.woken = no]
    OBVIOUS
  <2>4. new \in FlushStates /\ new.pc = old.pc /\ new.visit = old.visit
    BY <2>3 DEF FlushStates
  <2>5. flush' = [flush EXCEPT ![f] = new]
    BY <1>14, <2>1, <2>2, <2>3
  <2>6. FlushOK(flush)'
    BY <1>2, <2>1, <2>4, <2>5 DEF FlushOK
  <2> QED BY <1>2, <1>3, <1>14, <2>6, FlushKeeps
<1>15. CASE \E ended \in {"idle", "saved", "unsaved"} : flush' = Ended(f, ended) /\ target' = t
  <2>1. FlushOK(flush)'
    BY <1>2, <1>15, EndedKeeps
  <2> QED BY <1>2, <1>3, <1>15, <2>1, FlushKeeps
<1>16. CASE /\ target' = result
            /\ \E ended \in {"idle", "saved", "unsaved"} : flush' = Ended(f, ended)
  <2>1. FlushOK(flush)'
    BY <1>2, <1>16, EndedKeeps
  <2>2. failure \in [Lanes -> 0 .. MaxVisits] /\ t \in Target
    BY <1>2, <1>6, <1>12, Bounds DEF QueueOK
  <2>3. owned \in Target
    BY <1>7, <2>2, Setters
  <2>4. /\ owned.queued = t.queued /\ owned.running = t.running /\ owned.lane = t.lane
        /\ owned.pending = t.pending /\ owned.requests = t.requests /\ owned.failure = failure
        /\ owned.state = t.state
    BY <1>7, <2>2, <2>3 DEF Target
  <2>5. ASSUME NEW u \in Visits PROVE state[u] \in VisitState
    <3>1. PICK old \in VisitState : old = owned.state[u] /\ old = t.state[u]
      BY <2>3, <2>4, TargetFields
    <3>2. PICK any \in BOOLEAN : any = (failed # {})
      OBVIOUS
    <3>3. PICK begun \in BOOLEAN : begun = (old.started \/ failed # {})
      BY DEF VisitState
    <3>4. PICK unresolved \in BOOLEAN : unresolved = HasUnresolvedFailure(owned, u)
      BY DEF HasUnresolvedFailure
    <3>5. PICK one : one = [old EXCEPT !.failed = any]
      OBVIOUS
    <3>6. PICK two : two = [one EXCEPT !.started = begun]
      OBVIOUS
    <3>7. PICK three : three = [old EXCEPT !.failed = unresolved]
      OBVIOUS
    <3>8. one \in VisitState /\ one.started = old.started
      BY <3>5 DEF VisitState
    <3>9. two \in VisitState /\ three \in VisitState
      BY <3>6, <3>7, <3>8 DEF VisitState
    <3>10. two = [old EXCEPT !.failed = failed # {}, !.started = old.started \/ failed # {}]
      BY <3>2, <3>3, <3>5, <3>6, <3>8
    <3>11. state[u] = IF u = v THEN two ELSE three
      BY <1>8, <3>1, <3>4, <3>7, <3>10
    <3> QED BY <3>9, <3>11
  <2>6. state \in [Visits -> VisitState]
    BY <1>8, <2>5
  <2>7. judged \in Target
    BY <1>9, <2>3, <2>6, Setters
  <2>8. SameButState(owned, judged)
    BY <1>9, <2>3, <2>7 DEF Target, SameButState
  <2>9. /\ settled \in Target /\ SameButState(judged, settled) /\ StatusesFit(settled)
    BY <1>10, <2>7, SettledKeeps DEF StatusesFit
  <2>10. SameQueue(t, settled)
    <3>1. \A l \in Lanes : t.failure[l] = 0 <=> failure[l] = 0
      BY <1>5, <1>6, <1>12
    <3> QED BY <2>4, <2>8, <2>9, <3>1 DEF SameQueue, SameButState
  <2>11. PICK st : st = stored
    OBVIOUS
  <2>12. QueueOK(settled, st)
    BY <1>2, <2>2, <2>9, <2>10, <2>11, SameKeeps DEF QueueOK
  <2>13. QueueOK(result, stored) /\ NewVisitsAreFresh(result)
    BY <1>2, <1>11, <2>11, <2>12, PrunedKeeps, InvIs
  <2> QED BY <1>3, <1>16, <2>1, <2>13, FlushKeeps
<1> QED BY <1>13, <1>14, <1>15, <1>16

\* The visit's pending text is queued again.
LEMMA RetryKeeps ==
    ASSUME NEW t, NEW st \in Patch, VisitTyped, QueueOK(t, st), visit # 0,
           t.pending[visit] # Nothing
    PROVE  QueueOK(Scheduled(t, Text, visit, Nothing), st)
<1>1. PICK s : s = Scheduled(t, Text, visit, Nothing)
  OBVIOUS
<1>2. t \in Target /\ QueueInv(t, st) /\ StatusesFit(t) /\ visit \in Visits
  BY VisitTypes DEF QueueOK
<1>3. /\ s \in Target /\ s.queued[Text].visit = visit /\ s.queued[Text].patch = Nothing
      /\ \A k \in Lanes \ {Text} : s.queued[k] = t.queued[k]
      /\ s.running = t.running /\ s.lane = t.lane /\ s.failure = t.failure
      /\ s.pending = t.pending /\ s.requests = t.requests
      /\ \A u \in Visits : StatusFits(t, u) => StatusFits(s, u)
  <2>1. PICK v \in Visits : v = visit
    BY <1>2
  <2>2. t \in Target /\ Text \in Lanes /\ Nothing \in Patch
    BY <1>2, Bounds, NothingIs
  <2>3. LET n == Scheduled(t, Text, v, Nothing) IN
        /\ n \in Target /\ n.queued[Text].visit = v /\ n.queued[Text].patch = Nothing
        /\ \A k \in Lanes \ {Text} : n.queued[k] = t.queued[k]
        /\ n.running = t.running /\ n.lane = t.lane /\ n.failure = t.failure
        /\ n.pending = t.pending /\ n.requests = t.requests
        /\ \A u \in Visits : StatusFits(t, u) => StatusFits(n, u)
    BY <2>2, ScheduledIs
  <2> QED BY <1>1, <2>1, <2>3
<1>4. s.queued[Photos] = t.queued[Photos] /\ (Photos \in Queued(s) <=> Photos \in Queued(t))
  BY <1>3, Bounds DEF Queued
<1>5. t.queued[Text].visit \in {0, visit}
  BY <1>2 DEF QueueInv, TextIsOfOneVisit
<1>6. Reachable(s) = Reachable(t)
  BY <1>2, <1>3, <1>5, PatchesOf DEF Reachable
<1>7. ToCome(s) = ToCome(t)
  BY <1>3, <1>4, <1>6 DEF ToCome
<1>8. Running(s) = Running(t) /\ \A l : RunningIs(s, l) = RunningIs(t, l)
  BY <1>3 DEF Running, RunningIs
<1>9. VisitsArePast(s)
  <2>1. \A l \in Lanes : s.queued[l].visit <= visit
    BY <1>2, <1>3, Bounds, VisitTypes DEF QueueInv, VisitsArePast
  <2> QED BY <1>2, <1>3, <1>4, <1>8, <2>1 DEF QueueInv, VisitsArePast
<1>10. TextIsOfOneVisit(s) /\ RequestsAreSent(s)
  BY <1>2, <1>3, <1>8 DEF QueueInv, TextIsOfOneVisit, RequestsAreSent
<1>11. EditsAreInOrder(s, st) /\ TypedIsNewest(s)
  BY <1>2, <1>3, <1>7 DEF QueueInv, EditsAreInOrder, TypedIsNewest
<1>12. NothingIsNewer(s, st) /\ ExecutedIsStored(s, st)
  BY <1>2, <1>3, <1>4, <1>8 DEF QueueInv, NothingIsNewer, ExecutedIsStored
<1>13. NothingIsForgotten(s, st)
  <2>1. \A i \in Inputs : OnItsWay(s, i) <=> OnItsWay(t, i)
    BY <1>3, <1>4, <1>8 DEF OnItsWay
  <2> QED BY <1>2, <1>3, <2>1 DEF QueueInv, NothingIsForgotten
<1> QED BY <1>1, <1>2, <1>3, <1>9, <1>10, <1>11, <1>12, <1>13 DEF QueueOK, QueueInv, StatusesFit

LEMMA StartStep ==
    ASSUME AutosaveInv, NEW f \in Flushers, StartFlush(f)
    PROVE  AutosaveInv'
<1>1. PICK t : t = target
  OBVIOUS
<1>2. PICK st : st = stored
  OBVIOUS
<1>3. QueueOK(t, st) /\ VisitTyped /\ st \in Patch /\ FlushOK(flush)
  BY <1>1, <1>2, InvIs
<1>4. VisitUnchanged /\ UNCHANGED stored /\ visit # 0 /\ visit \in Visits /\ visit \in 0 .. MaxVisits
  BY <1>3, VisitTypes DEF StartFlush, VisitUnchanged, VisitTyped
<1>5. CASE Frozen(visit)
  <2>1. PICK d : d = Dropped(t, Lanes)
    OBVIOUS
  <2>2. /\ d \in Target
        /\ \A l \in Lanes : d.queued[l] = NoSave
        /\ d.running = t.running /\ d.lane = t.lane /\ d.failure = t.failure
        /\ d.pending = t.pending /\ d.requests = t.requests
        /\ \A v \in Visits : StatusFits(t, v) => StatusFits(d, v)
    BY <1>3, <2>1, DroppedIs DEF QueueOK
  <2>3. Drops(t, d)
    BY <1>5, <2>2 DEF Drops
  <2>4. QueueOK(d, st)
    BY <1>3, <2>2, <2>3, DropsKeep DEF QueueOK, StatusesFit
  <2>5. PICK p : p = Pruned(d)
    OBVIOUS
  <2>6. QueueOK(p, st) /\ NewVisitsAreFresh(p)
    BY <1>3, <2>4, <2>5, PrunedKeeps
  <2>7. PICK result \in {"idle", "saved", "unsaved"} : result = "unsaved"
    OBVIOUS
  <2>8. PICK ended : ended = Ended(f, result)
    OBVIOUS
  <2>9. /\ target' = p
        /\ flush' = ended \/ flush' = [g \in Flushers |-> Woken(ended[g])]
    BY <1>1, <1>5, <2>1, <2>5, <2>7, <2>8 DEF StartFlush
  <2>10. FlushOK(ended) /\ FlushOK([g \in Flushers |-> Woken(ended[g])])
    BY <1>3, <2>8, EndedIsOK, WokenAreOK
  <2>11. FlushOK(flush)'
    BY <2>9, <2>10 DEF FlushOK
  <2> QED BY <1>2, <1>4, <2>6, <2>9, <2>11, FlushKeeps
<1>6. CASE ~Frozen(visit)
  <2>1. PICK r : r = IF t.pending[visit] = Nothing THEN t ELSE Scheduled(t, Text, visit, Nothing)
    OBVIOUS
  <2>2. QueueOK(r, st)
    BY <1>3, <1>4, <2>1, RetryKeeps
  <2>3. PICK queued : queued = [l \in Lanes |-> IF l \in Queued(r) THEN [r.queued[l] EXCEPT !.ready = TRUE]
                                                 ELSE r.queued[l]]
    OBVIOUS
  <2>4. ASSUME NEW l \in Lanes
        PROVE  /\ queued[l] \in Save /\ queued[l].visit = r.queued[l].visit
               /\ queued[l].patch = r.queued[l].patch
    <3>1. PICK old \in Save : old = r.queued[l]
      BY <2>2, TargetFields DEF QueueOK
    <3>2. PICK yes \in BOOLEAN : yes = TRUE
      OBVIOUS
    <3>3. PICK new : new = [old EXCEPT !.ready = yes]
      OBVIOUS
    <3>4. new \in Save /\ new.visit = old.visit /\ new.patch = old.patch
      BY <3>3 DEF Save
    <3>5. queued[l] = IF l \in Queued(r) THEN new ELSE old
      BY <2>3, <3>1, <3>2, <3>3
    <3> QED BY <3>1, <3>4, <3>5
  <2>5. queued \in [Lanes -> Save]
    BY <2>3, <2>4
  <2>6. PICK a : a = [r EXCEPT !.queued = queued]
    OBVIOUS
  <2>7. QueueOK(a, st)
    BY <2>2, <2>4, <2>5, <2>6, ReadyKeeps
  <2>8. PICK q : q = Pumped(a)
    OBVIOUS
  <2>9. QueueOK(q, st)
    BY <1>3, <2>7, <2>8, PumpedKeeps
  <2>10. PICK p : p = Pruned(q)
    OBVIOUS
  <2>11. QueueOK(p, st) /\ NewVisitsAreFresh(p)
    BY <1>3, <2>9, <2>10, PrunedKeeps
  <2>12. PICK new : new = [pc |-> "waiting", visit |-> visit, woken |-> TRUE]
    OBVIOUS
  <2>13. PICK begun : begun = [flush EXCEPT ![f] = new]
    OBVIOUS
  <2>14. target' = p /\ flush' = [g \in Flushers |-> Woken(begun[g])]
    <3> DEFINE retried == IF target.pending[visit] = Nothing THEN target
                          ELSE Scheduled(target, Text, visit, Nothing)
               ready == [retried EXCEPT !.queued = [l \in Lanes |->
                           IF l \in Queued(retried) THEN [@[l] EXCEPT !.ready = TRUE] ELSE @[l]]]
    <3>1. /\ target' = Pruned(Pumped(ready))
          /\ flush' = [g \in Flushers |-> Woken(begun[g])]
      BY <1>6, <2>12, <2>13 DEF StartFlush, Text
    <3>2. retried = r
      BY <1>1, <2>1
    <3> HIDE DEF retried
    <3>3. ready = a
      BY <2>3, <2>6, <3>2
    <3> HIDE DEF ready
    <3> QED BY <2>8, <2>10, <3>1, <3>3
  <2>15. FlushOK(flush)'
    <3>1. new \in FlushStates /\ new.visit # 0
      BY <1>4, <2>12 DEF FlushStates
    <3>2. FlushOK(begun)
      BY <1>3, <2>13, <3>1 DEF FlushOK
    <3>3. FlushOK([g \in Flushers |-> Woken(begun[g])])
      BY <3>2, WokenAreOK
    <3> QED BY <2>14, <3>3 DEF FlushOK
  <2> QED BY <1>2, <1>4, <2>11, <2>14, <2>15, FlushKeeps
<1> QED BY <1>5, <1>6

LEMMA LeaveStep ==
    ASSUME AutosaveInv, NEW f \in Flushers, NEW to \in 0 .. MaxVisits, Leave(f, to)
    PROVE  AutosaveInv'
<1>1. PICK t : t = target
  OBVIOUS
<1>2. PICK st : st = stored
  OBVIOUS
<1>3. /\ t \in Target /\ QueueInv(t, st) /\ StatusesFit(t) /\ VisitTyped /\ st \in Patch
      /\ FlushOK(flush) /\ NewVisitsAreFresh(t) /\ late \in Nat
      /\ conflict \in [marked : SUBSET Visits, cleaned : SUBSET Visits]
  BY <1>1, <1>2, InvIs DEF QueueOK
<1>4. /\ visit # 0 /\ to \in {0, visit + 1} /\ visit' = to
      /\ UNCHANGED <<conflict, typed, keys, stored, late>>
  BY DEF Leave
<1>5. PICK kept : kept = IF to = 0 THEN Dropped(t, Lanes) ELSE t
  OBVIOUS
<1>6. /\ kept \in Target
      /\ to = 0 => \A l \in Lanes : kept.queued[l].visit = 0 /\ kept.queued[l].patch = Nothing
      /\ to # 0 => kept = t
      /\ kept.running = t.running /\ kept.lane = t.lane /\ kept.failure = t.failure
      /\ kept.pending = t.pending /\ kept.requests = t.requests
      /\ StatusesFit(kept)
  <2>1. CASE to # 0
    BY <1>3, <1>5, <2>1
  <2>2. CASE to = 0
    <3>1. kept = Dropped(t, Lanes)
      BY <1>5, <2>2
    <3>2. /\ kept \in Target
          /\ \A l \in Lanes : kept.queued[l] = NoSave
          /\ kept.running = t.running /\ kept.lane = t.lane /\ kept.failure = t.failure
          /\ kept.pending = t.pending /\ kept.requests = t.requests
          /\ \A v \in Visits : StatusFits(t, v) => StatusFits(kept, v)
      BY <1>3, <3>1, DroppedIs
    <3> QED BY <1>3, <2>2, <3>2, NothingIs DEF StatusesFit
  <2> QED BY <2>1, <2>2
<1>7. PICK state : state = [v \in Visits |->
                              IF v # to /\ ~HasWork(kept, v) THEN FreshVisit ELSE kept.state[v]]
  OBVIOUS
<1>8. state \in [Visits -> VisitState]
  BY <1>6, <1>7, TargetFields, NothingIs
<1>9. PICK p : p = [kept EXCEPT !.state = state]
  OBVIOUS
<1>10. p \in Target
  BY <1>6, <1>8, <1>9, Setters
<1>11. /\ p.queued = kept.queued /\ p.running = t.running /\ p.lane = t.lane
       /\ p.failure = t.failure /\ p.pending = t.pending /\ p.requests = t.requests
       /\ p.state = state
  BY <1>6, <1>9, <1>10 DEF Target
<1>12. target' = p /\ stored' = st
  <2> DEFINE left == IF to = 0 THEN Dropped(target, Lanes) ELSE target
  <2>1. target' = [left EXCEPT !.state = [v \in Visits |->
                     IF v # to /\ ~HasWork(left, v) THEN FreshVisit ELSE @[v]]]
    BY DEF Leave
  <2>2. left = kept
    BY <1>1, <1>5
  <2> HIDE DEF left
  <2> QED BY <1>2, <1>4, <1>7, <1>9, <2>1, <2>2
<1>13. \A v \in Visits : typed[v] \in Patch
  BY <1>3, VisitTypes
<1>14. /\ to = 0 => Queued(p) = {} /\ Reachable(p)' = {}
       /\ to # 0 => /\ to = visit + 1 /\ visit \in Visits /\ visit \in Nat /\ to \in Visits
                    /\ p.queued = t.queued
                    /\ t.pending[to] = Nothing /\ typed[to] = Nothing
                    /\ t.running.visit <= visit /\ \A l \in Lanes : t.queued[l].visit <= visit
  <2>1. CASE to = 0
    <3>1. \A l \in Lanes : p.queued[l].visit = 0
      BY <1>6, <1>11, <2>1
    <3>2. \A v \in Visits : v # 0
      BY Bounds DEF Visits
    <3> QED BY <1>4, <2>1, <3>1, <3>2, Bounds DEF Queued, Reachable
  <2>2. CASE to # 0
    <3>1. to = visit + 1 /\ visit \in Visits /\ visit \in Nat /\ to \in Visits /\ to > visit
      BY <1>3, <1>4, <2>2, VisitTypes, Bounds DEF Visits
    <3> QED BY <1>3, <1>4, <1>6, <1>11, <2>2, <3>1 DEF QueueInv, VisitsArePast
  <2> QED BY <2>1, <2>2
<1>15. /\ Running(p) = Running(t) /\ \A l : RunningIs(p, l) = RunningIs(t, l)
  BY <1>11 DEF Running, RunningIs
<1>16. \A v \in Visits : t.pending[v][Photo] = 0
  BY <1>3 DEF QueueInv, VisitsArePast
<1>17. p.queued[Photos].patch \in {t.queued[Photos].patch, Nothing}
  BY <1>6, <1>11, Bounds
<1>18. VisitsArePast(target)'
  <2>1. visit' # 0 => /\ p.running.visit <= visit' /\ \A l \in Lanes : p.queued[l].visit <= visit'
                      /\ \A v \in Visits : v > visit' => p.pending[v] = Nothing /\ typed[v] = Nothing
    <3> SUFFICES ASSUME to # 0
                 PROVE  /\ p.running.visit <= to /\ \A l \in Lanes : p.queued[l].visit <= to
                        /\ \A v \in Visits : v > to => p.pending[v] = Nothing /\ typed[v] = Nothing
      BY <1>4
    <3>1. p.running.visit <= to /\ \A l \in Lanes : p.queued[l].visit <= to
      BY <1>10, <1>11, <1>14, PatchesOf
    <3>2. \A v \in Visits : v > to => v > visit
      BY <1>14 DEF Visits
    <3> QED BY <1>3, <1>4, <1>11, <3>1, <3>2 DEF QueueInv, VisitsArePast
  <2>2. visit' = 0 => Queued(p) = {}
    BY <1>4, <1>14
  <2>3. \A i \in Fields : p.queued[Photos].patch[i] = 0
    BY <1>3, <1>17, NothingIs, Bounds DEF QueueInv, VisitsArePast
  <2>4. Photos \in Queued(p) => p.queued[Photos].patch[Photo] # 0
    <3>1. to # 0 => Queued(p) = Queued(t)
      BY <1>14 DEF Queued
    <3> QED BY <1>3, <1>14, <3>1 DEF QueueInv, VisitsArePast
  <2>5. /\ p.running.visit = 0 => p.running.patch = Nothing
        /\ RunningIs(p, Text) => p.running.patch[Photo] = 0
        /\ \A v \in Visits : p.pending[v][Photo] = 0
    BY <1>3, <1>11, <1>15 DEF QueueInv, VisitsArePast
  <2> QED BY <1>4, <1>12, <2>1, <2>2, <2>3, <2>4, <2>5
          DEF VisitsArePast, Queued, Running, RunningIs
<1>19. TextIsOfOneVisit(target)'
  <2> SUFFICES ASSUME to # 0
               PROVE  p.pending[to] = Nothing /\ p.running.visit # to
    BY <1>4, <1>12 DEF TextIsOfOneVisit
  <2> QED BY <1>10, <1>11, <1>14, PatchesOf
<1>20. RequestsAreSent(target)'
  BY <1>3, <1>11, <1>12 DEF QueueInv, RequestsAreSent, Running
<1>21. ToCome(target)' \subseteq ToCome(t) \union {Nothing}
  <2>1. CASE to = 0
    BY <1>6, <1>11, <1>12, <1>14, <2>1, Bounds DEF ToCome, Reachable
  <2>2. CASE to # 0
    <3>1. ToCome(target)' = {p.pending[v] : v \in Reachable(p)'} \union {p.queued[Photos].patch}
      BY <1>12 DEF ToCome, Reachable
    <3>2. \A v \in Reachable(p)' : v = to \/ v \in Reachable(t)
      BY <1>4, <1>14, <2>2 DEF Reachable
    <3> QED BY <1>11, <1>14, <2>2, <3>1, <3>2 DEF ToCome
  <2> QED BY <2>1, <2>2
<1>22. EditsAreInOrder(target, stored)'
  <2>1. \A patch \in Patch : InOrder(patch, Nothing)
    BY NothingIs DEF InOrder
  <2>2. /\ \A later \in ToCome(target)' \union {p.running.patch} :
             InOrder(st, later) /\ \A q \in p.requests : InOrder(q.patch, later)
        /\ \A later \in ToCome(target)' : InOrder(p.running.patch, later)
    BY <1>3, <1>11, <1>21, <2>1, PatchesOf DEF QueueInv, EditsAreInOrder
  <2> QED BY <1>12, <2>2 DEF EditsAreInOrder, InOrder
<1>23. NothingIsNewer(target, stored)'
  <2>1. Below(Nothing, keys)
    BY <1>3, NothingIs, VisitTypes DEF Below
  <2>2. NothingIsNewer(p, st)
    BY <1>3, <1>11, <1>17, <2>1 DEF QueueInv, NothingIsNewer
  <2> QED BY <1>4, <1>12, <2>2 DEF NothingIsNewer, Below
<1>24. TypedIsNewest(target)'
  BY <1>4, <1>14, NothingIs DEF TypedIsNewest
<1>25. ExecutedIsStored(target, stored)'
  BY <1>3, <1>4, <1>11, <1>12 DEF QueueInv, ExecutedIsStored, Running, Sent
<1>26. NothingIsForgotten(target, stored)'
  BY <1>4, <1>11, <1>12, <1>14, NothingIs DEF NothingIsForgotten
<1>27. StatusesFit(target)'
  <2>1. \A v \in Visits : HasWork(p, v) <=> HasWork(kept, v)
    BY <1>6, <1>11, WorkIs
  <2>2. ASSUME NEW v \in Visits PROVE StatusFits(p, v)
    BY <1>6, <1>7, <1>11, <2>1, FreshIs DEF StatusesFit, StatusFits
  <2> QED BY <1>12, <2>2 DEF StatusesFit, StatusFits, HasWork, Queued
<1>28. NewVisitsAreFresh(target)'
  <2> SUFFICES ASSUME to # 0, NEW v \in Visits, v > to
               PROVE  p.state[v] = FreshVisit
    BY <1>4, <1>12 DEF NewVisitsAreFresh
  <2>1. v > visit /\ v # to
    BY <1>14 DEF Visits
  <2> QED BY <1>3, <1>4, <1>6, <1>7, <1>11, <2>1 DEF NewVisitsAreFresh
<1>29. FlushOK(flush)'
  <2>1. PICK result \in {"idle", "saved", "unsaved"} : result = "idle"
    OBVIOUS
  <2>2. PICK mid : mid = Ended(f, result)
    OBVIOUS
  <2>3. FlushOK([g \in Flushers |-> Woken(mid[g])])
    BY <1>3, <2>2, EndedIsOK, WokenAreOK
  <2>4. flush' = [g \in Flushers |-> Woken(mid[g])]
    BY <2>1, <2>2 DEF Leave
  <2> QED BY <2>3, <2>4 DEF FlushOK
<1>30. /\ VisitTyped' /\ stored' \in Patch /\ late' \in Nat
       /\ conflict' \in [marked : SUBSET Visits, cleaned : SUBSET Visits]
  BY <1>3, <1>4, <1>12 DEF VisitTyped
<1>31. QueueOK(target, stored)'
  BY <1>10, <1>12, <1>18, <1>19, <1>20, <1>22, <1>23, <1>24, <1>25, <1>26, <1>27
     DEF QueueOK, QueueInv
<1> QED BY <1>28, <1>29, <1>30, <1>31, InvHolds

\* The queue after edit n of field i, a patch of that field alone.
Edited(t, s, i, n) ==
    /\ s.queued[Lane(i)].visit = visit
    /\ s.queued[Lane(i)].patch = [Nothing EXCEPT ![i] = n]
    /\ \A l \in Lanes \ {Lane(i)} : s.queued[l] = t.queued[l]
    /\ s.running = t.running /\ s.lane = t.lane /\ s.failure = t.failure /\ s.requests = t.requests
    /\ \A v \in Visits : s.pending[v] =
         IF i = Photo THEN t.pending[v]
         ELSE IF v = visit THEN Over(t.pending[v], [Nothing EXCEPT ![i] = n]) ELSE Nothing

LEMMA EditedIs ==
    ASSUME AutosaveInv, NEW i \in Inputs, Edit(i)
    PROVE  \E s \in Target : /\ Edited(target, s, i, keys + 1) /\ StatusesFit(s)
                             /\ Changed(s)
<1>1. PICK t : t = target
  OBVIOUS
<1>2. PICK n : n = keys + 1
  OBVIOUS
<1>3. PICK v : v = visit
  OBVIOUS
<1>4. t \in Target /\ StatusesFit(t) /\ v \in Visits /\ n \in 0 .. MaxKeys
  BY <1>1, <1>2, <1>3, InvIs, VisitTypes, Bounds DEF QueueOK, Edit, VisitTyped
<1>5. PICK patch : patch = [Nothing EXCEPT ![i] = n]
  OBVIOUS
<1>6. patch \in Patch
  BY <1>4, <1>5, NothingIs DEF Patch
<1>7. PICK l : l = Lane(i)
  OBVIOUS
<1>8. l \in Lanes
  BY <1>7 DEF Lane, Lanes
<1>9. PICK j : j = IF i = Photo THEN t ELSE Joined(t, v, patch)
  OBVIOUS
<1>10. /\ j \in Target /\ j.queued = t.queued /\ j.running = t.running /\ j.lane = t.lane
       /\ j.failure = t.failure /\ j.requests = t.requests /\ j.state = t.state
       /\ \A u \in Visits : j.pending[u] =
            IF i = Photo THEN t.pending[u] ELSE IF u = v THEN Over(t.pending[u], patch) ELSE Nothing
  <2>1. CASE i = Photo
    BY <1>4, <1>9, <2>1
  <2>2. CASE i # Photo
    <3>1. PICK pending : pending = [u \in Visits |-> IF u = v THEN Over(t.pending[u], patch) ELSE Nothing]
      OBVIOUS
    <3>2. pending \in [Visits -> Patch]
      BY <1>4, <1>6, <3>1, TargetFields, OverIs, NothingIs
    <3>3. j = [t EXCEPT !.pending = pending]
      BY <1>9, <2>2, <3>1 DEF Joined
    <3>4. j \in Target
      BY <1>4, <3>2, <3>3, Setters
    <3> QED BY <1>4, <2>2, <3>1, <3>3, <3>4 DEF Target
  <2> QED BY <2>1, <2>2
<1>11. PICK s : s = Scheduled(j, l, v, patch)
  OBVIOUS
<1>12. /\ s \in Target /\ s.queued[l].visit = v /\ s.queued[l].patch = patch
       /\ \A k \in Lanes \ {l} : s.queued[k] = j.queued[k]
       /\ s.running = j.running /\ s.lane = j.lane /\ s.failure = j.failure
       /\ s.pending = j.pending /\ s.requests = j.requests
       /\ \A u \in Visits : StatusFits(j, u) => StatusFits(s, u)
  BY <1>4, <1>6, <1>8, <1>10, <1>11, ScheduledIs
<1>13. StatusesFit(s)
  <2>1. \A u \in Visits : HasWork(j, u) <=> HasWork(t, u)
    BY <1>10, WorkIs
  <2> QED BY <1>4, <1>10, <1>12, <2>1 DEF StatusesFit, StatusFits
<1>14. Edited(target, s, i, keys + 1)
  BY <1>1, <1>2, <1>3, <1>5, <1>7, <1>10, <1>12 DEF Edited
<1>15. Changed(s)
  <2>1. Changed(Scheduled(IF i = Photo THEN target
                          ELSE Joined(target, visit, [Nothing EXCEPT ![i] = keys + 1]),
                          Lane(i), visit, [Nothing EXCEPT ![i] = keys + 1]))
    BY DEF Edit
  <2> QED BY <1>1, <1>2, <1>3, <1>5, <1>7, <1>9, <1>11, <2>1
<1> QED BY <1>12, <1>13, <1>14, <1>15

LEMMA EditStep ==
    ASSUME AutosaveInv, NEW i \in Inputs, Edit(i)
    PROVE  AutosaveInv'
<1>1. PICK t : t = target
  OBVIOUS
<1>2. PICK st : st = stored
  OBVIOUS
<1>3. PICK n : n = keys + 1
  OBVIOUS
<1>4. /\ t \in Target /\ QueueInv(t, st) /\ StatusesFit(t) /\ VisitTyped /\ st \in Patch
      /\ FlushOK(flush) /\ late \in Nat
      /\ conflict \in [marked : SUBSET Visits, cleaned : SUBSET Visits]
  BY <1>1, <1>2, InvIs DEF QueueOK
<1>5. /\ visit # 0 /\ visit \in Visits /\ visit \in Nat /\ ~Frozen(visit)
      /\ keys \in Nat /\ n = keys + 1 /\ n \in 0 .. MaxKeys /\ n # 0
  BY <1>3, <1>4, VisitTypes, Bounds DEF Edit, VisitTyped
<1>6. /\ keys' = n /\ typed' = [typed EXCEPT ![visit][i] = n]
      /\ UNCHANGED <<visit, conflict, stored, late>>
  BY <1>3 DEF Edit
<1>7. PICK patch : patch = [Nothing EXCEPT ![i] = n]
  OBVIOUS
<1>8. patch \in Patch /\ \A k \in Inputs : patch[k] = IF k = i THEN n ELSE 0
  BY <1>5, <1>7, NothingIs DEF Patch
<1>9. PICK s \in Target : Edited(t, s, i, n) /\ StatusesFit(s) /\ Changed(s)
  BY <1>1, <1>3, EditedIs
<1>10. PICK p : p = Pruned(s)
  OBVIOUS
<1>11. /\ p \in Target /\ SameButState(s, p) /\ StatusesFit(p)
       /\ \A v \in Visits : v # visit /\ ~HasWork(s, v) => p.state[v] = FreshVisit
  BY <1>9, <1>10, PrunedIs DEF StatusesFit
<1>12. /\ target' = p /\ stored' = st /\ flush' = [f \in Flushers |-> Woken(flush[f])]
  BY <1>2, <1>6, <1>9, <1>10 DEF Changed
<1>13. /\ p.queued[Lane(i)].visit = visit /\ p.queued[Lane(i)].patch = patch
       /\ \A l \in Lanes \ {Lane(i)} : p.queued[l] = t.queued[l]
       /\ p.running = t.running /\ p.lane = t.lane /\ p.failure = t.failure
       /\ p.requests = t.requests
       /\ \A v \in Visits : p.pending[v] =
            IF i = Photo THEN t.pending[v]
            ELSE IF v = visit THEN Over(t.pending[v], patch) ELSE Nothing
  BY <1>7, <1>9, <1>11 DEF Edited, SameButState
<1>14. /\ i = Photo => Lane(i) = Photos /\ p.queued[Text] = t.queued[Text]
       /\ i # Photo => Lane(i) = Text /\ p.queued[Photos] = t.queued[Photos]
       /\ Lane(i) \in Lanes
  BY <1>13, Bounds DEF Lane, Text, Photos
<1>15. /\ Running(p) = Running(t) /\ \A l : RunningIs(p, l) = RunningIs(t, l)
  BY <1>13 DEF Running, RunningIs
<1>16. \A v \in Visits : typed[v] \in Patch /\ t.pending[v] \in Patch /\ p.pending[v] \in Patch
  BY <1>4, <1>11, VisitTypes, PatchesOf
<1>17. /\ \A v \in Visits \ {visit} : typed'[v] = typed[v]
       /\ \A k \in Inputs : typed'[visit][k] = IF k = i THEN n ELSE typed[visit][k]
       /\ typed' \in [Visits -> Patch]
  <2>1. PICK row : row = [typed[visit] EXCEPT ![i] = n]
    OBVIOUS
  <2>2. row \in Patch /\ \A k \in Inputs : row[k] = IF k = i THEN n ELSE typed[visit][k]
    BY <1>5, <1>16, <2>1 DEF Patch
  <2>3. typed' = [typed EXCEPT ![visit] = row]
    BY <1>6, <2>1
  <2> QED BY <1>4, <1>5, <2>2, <2>3 DEF VisitTyped
<1>18. \A v \in Visits : \A k \in Inputs :
         p.pending[v][k] = IF i = Photo THEN t.pending[v][k]
                           ELSE IF v # visit THEN 0
                           ELSE IF k = i THEN n ELSE t.pending[v][k]
  BY <1>5, <1>8, <1>13, <1>16, OverIs, NothingIs
<1>19. /\ Photo \in Inputs /\ Text \in Lanes /\ Photos \in Lanes /\ Lanes = {Text, Photos}
       /\ Fields \subseteq Inputs /\ Photo \notin Fields /\ (i # Photo => i \in Fields)
  BY Bounds
<1>20. p.queued[Photos].patch = IF i = Photo THEN patch ELSE t.queued[Photos].patch
  BY <1>13, <1>14
<1>21. i # Photo => p.queued[Text].visit = visit /\ Reachable(p) = {visit}
  BY <1>5, <1>13, <1>14 DEF Reachable
<1>22. i = Photo => Reachable(p) = Reachable(t)
  BY <1>14 DEF Reachable
<1>23. \A later \in ToCome(p) : /\ later \in Patch
         /\ \E old \in ToCome(t) \union {Nothing} : /\ old \in Patch
              /\ \A k \in Inputs : later[k] = IF k = i /\ later[k] = n THEN n ELSE old[k]
  <2>1. t.queued[Photos].patch \in Patch /\ t.queued[Photos].patch \in ToCome(t)
    BY <1>4, <1>19, PatchesOf DEF ToCome
  <2>2. CASE i = Photo
    <3>1. \A v \in Reachable(p) : /\ p.pending[v] = t.pending[v] /\ t.pending[v] \in ToCome(t)
                                  /\ t.pending[v] \in Patch
      BY <1>13, <1>16, <1>22, <2>2 DEF ToCome, Reachable
    <3>2. Nothing \in Patch /\ \A k \in Inputs : patch[k] = IF k = i /\ patch[k] = n THEN n ELSE Nothing[k]
      BY <1>8, NothingIs
    <3>3. \A later \in ToCome(p) : later = patch \/ \E v \in Reachable(p) : later = p.pending[v]
      BY <1>20, <2>2 DEF ToCome
    <3> QED BY <1>8, <3>1, <3>2, <3>3
  <2>3. CASE i # Photo
    <3>1. /\ t.pending[visit] \in ToCome(t) /\ t.pending[visit] \in Patch
          /\ p.pending[visit] \in Patch
      BY <1>5, <1>16 DEF ToCome, Reachable
    <3>2. \A k \in Inputs : p.pending[visit][k] = IF k = i /\ p.pending[visit][k] = n THEN n
                                                  ELSE t.pending[visit][k]
      BY <1>5, <1>18, <2>3
    <3>3. \A later \in ToCome(p) : later = t.queued[Photos].patch \/ later = p.pending[visit]
      BY <1>20, <1>21, <2>3 DEF ToCome
    <3>4. \A later \in ToCome(p) : later = t.queued[Photos].patch =>
            /\ later \in Patch
            /\ \E old \in ToCome(t) \union {Nothing} : /\ old \in Patch
                 /\ \A k \in Inputs : later[k] = IF k = i /\ later[k] = n THEN n ELSE old[k]
      BY <2>1
    <3>5. \A later \in ToCome(p) : later = p.pending[visit] =>
            /\ later \in Patch
            /\ \E old \in ToCome(t) \union {Nothing} : /\ old \in Patch
                 /\ \A k \in Inputs : later[k] = IF k = i /\ later[k] = n THEN n ELSE old[k]
      BY <3>1, <3>2
    <3> QED BY <3>3, <3>4, <3>5
  <2> QED BY <2>2, <2>3
<1>24. ToCome(target)' = ToCome(p)
  BY <1>6, <1>12 DEF ToCome, Reachable
<1>25. /\ Below(st, keys) /\ \A q \in t.requests : Below(q.patch, keys)
       /\ Below(t.running.patch, keys) /\ Below(t.queued[Photos].patch, keys)
       /\ \A v \in Visits : Below(t.pending[v], keys) /\ Below(typed[v], keys)
  BY <1>4 DEF QueueInv, NothingIsNewer
<1>26. /\ t.running.patch \in Patch /\ \A q \in t.requests : q.patch \in Patch
       /\ \A l \in Lanes : t.queued[l].patch \in Patch
  BY <1>4, PatchesOf
<1>27. VisitsArePast(target)'
  <2>1. /\ t.running.visit <= visit /\ \A l \in Lanes : p.queued[l].visit <= visit
    BY <1>4, <1>5, <1>13, <1>19 DEF QueueInv, VisitsArePast
  <2>2. \A v \in Visits : v > visit => p.pending[v] = Nothing /\ typed'[v] = Nothing
    <3>1. \A v \in Visits : v > visit => v # visit /\ t.pending[v] = Nothing /\ typed[v] = Nothing
      BY <1>4, <1>5, Bounds DEF QueueInv, VisitsArePast, Visits
    <3> QED BY <1>13, <1>17, <3>1
  <2>3. \A v \in Visits : p.pending[v][Photo] = 0
    <3>1. \A v \in Visits : t.pending[v][Photo] = 0
      BY <1>4 DEF QueueInv, VisitsArePast
    <3> QED BY <1>18, <1>19, <3>1
  <2>4. \A k \in Fields : p.queued[Photos].patch[k] = 0
    <3>1. \A k \in Fields : t.queued[Photos].patch[k] = 0
      BY <1>4 DEF QueueInv, VisitsArePast
    <3> QED BY <1>8, <1>19, <1>20, <3>1
  <2>5. Photos \in Queued(p) => p.queued[Photos].patch[Photo] # 0
    <3>1. CASE i = Photo
      BY <1>5, <1>8, <1>19, <1>20, <3>1
    <3>2. CASE i # Photo
      BY <1>4, <1>14, <3>2 DEF QueueInv, VisitsArePast, Queued
    <3> QED BY <3>1, <3>2
  <2>6. /\ p.running.visit = 0 => p.running.patch = Nothing
        /\ RunningIs(p, Text) => p.running.patch[Photo] = 0
    BY <1>4, <1>13, <1>15 DEF QueueInv, VisitsArePast
  <2> QED BY <1>5, <1>6, <1>12, <1>13, <2>1, <2>2, <2>3, <2>4, <2>5, <2>6
          DEF VisitsArePast, Queued, Running, RunningIs
<1>28. TextIsOfOneVisit(target)'
  <2>1. TextIsOfOneVisit(p)
    <3>1. CASE i = Photo
      BY <1>4, <1>5, <1>13, <1>14, <1>15, <3>1 DEF QueueInv, TextIsOfOneVisit
    <3>2. CASE i # Photo
      BY <1>21, <3>2 DEF TextIsOfOneVisit
    <3> QED BY <3>1, <3>2
  <2> QED BY <1>6, <1>12, <2>1 DEF TextIsOfOneVisit, RunningIs, Running
<1>29. RequestsAreSent(target)'
  BY <1>4, <1>12, <1>13 DEF QueueInv, RequestsAreSent, Running
<1>30. EditsAreInOrder(target, stored)'
  <2>1. ASSUME NEW earlier \in Patch, Below(earlier, keys),
               \A old \in ToCome(t) : InOrder(earlier, old), NEW later \in ToCome(p)
        PROVE  InOrder(earlier, later)
    <3>1. PICK old \in ToCome(t) \union {Nothing} : /\ old \in Patch
            /\ \A k \in Inputs : later[k] = IF k = i /\ later[k] = n THEN n ELSE old[k]
      BY <1>23
    <3>2. InOrder(earlier, old)
      BY <2>1, <3>1, NothingIs DEF InOrder
    <3>3. \A k \in Inputs : earlier[k] \in Nat /\ earlier[k] <= keys
      BY <2>1, PatchValues DEF Below
    <3> QED BY <1>5, <3>1, <3>2, <3>3 DEF InOrder
  <2>2. \A later \in ToCome(p) :
          /\ InOrder(st, later) /\ InOrder(t.running.patch, later)
          /\ \A q \in t.requests : InOrder(q.patch, later)
    BY <1>4, <1>25, <1>26, <2>1 DEF QueueInv, EditsAreInOrder
  <2>3. /\ InOrder(st, t.running.patch)
        /\ \A q \in t.requests : InOrder(q.patch, t.running.patch)
    BY <1>4 DEF QueueInv, EditsAreInOrder
  <2> QED BY <1>12, <1>13, <1>24, <2>2, <2>3 DEF EditsAreInOrder, InOrder
<1>31. NothingIsNewer(target, stored)'
  <2>1. ASSUME NEW any \in Patch, Below(any, keys) PROVE Below(any, n)
    BY <1>5, <2>1, PatchValues DEF Below
  <2>2. Below(patch, n) /\ \A v \in Visits : Below(p.pending[v], n)
    <3>1. \A v \in Visits : \A k \in Inputs : t.pending[v][k] <= n
      BY <1>16, <1>25, <2>1 DEF Below
    <3> QED BY <1>5, <1>8, <1>18, <3>1 DEF Below
  <2>3. \A v \in Visits : Below(typed'[v], n)
    <3>1. \A v \in Visits : \A k \in Inputs : typed[v][k] <= n
      BY <1>16, <1>25, <2>1 DEF Below
    <3>2. \A v \in Visits : \A k \in Inputs : typed'[v][k] <= n
      BY <1>5, <1>17, <3>1
    <3> QED BY <3>2 DEF Below
  <2>4. /\ Below(st, n) /\ \A q \in t.requests : Below(q.patch, n)
        /\ Below(t.running.patch, n) /\ Below(p.queued[Photos].patch, n)
    BY <1>4, <1>19, <1>20, <1>25, <1>26, <2>1, <2>2
  <2> QED BY <1>6, <1>12, <1>13, <2>2, <2>3, <2>4 DEF NothingIsNewer, Below
<1>32. TypedIsNewest(target)'
  <2> SUFFICES ASSUME NEW k \in Inputs, typed'[visit][k] # 0,
                      NEW later \in ToCome(p) \union {t.running.patch}
               PROVE  later[k] <= typed'[visit][k]
    BY <1>6, <1>12, <1>13, <1>24 DEF TypedIsNewest
  <2>1. CASE k = i
    <3>1. \A old \in ToCome(t) \union {t.running.patch} : old[k] <= keys
      BY <1>25 DEF Below, ToCome, Reachable
    <3>2. t.running.patch[k] \in Nat /\ \A old \in Patch : old[k] \in Nat
      BY <1>26, PatchValues
    <3>3. CASE later = t.running.patch
      BY <1>5, <1>17, <2>1, <3>1, <3>2, <3>3
    <3>4. CASE later \in ToCome(p)
      <4>1. PICK old \in ToCome(t) \union {Nothing} : /\ old \in Patch
              /\ later[k] = IF k = i /\ later[k] = n THEN n ELSE old[k]
        BY <1>23, <3>4
      <4>2. old[k] <= keys /\ old[k] \in Nat
        BY <1>5, <3>1, <3>2, <4>1, NothingIs
      <4> QED BY <1>5, <1>17, <2>1, <4>1, <4>2
    <3> QED BY <3>3, <3>4
  <2>2. CASE k # i
    <3>1. typed'[visit][k] = typed[visit][k] /\ typed[visit][k] \in Nat
      BY <1>5, <1>16, <1>17, <2>2, PatchValues
    <3>2. \A old \in ToCome(t) \union {t.running.patch} : old[k] <= typed[visit][k]
      BY <1>4, <1>5, <3>1 DEF QueueInv, TypedIsNewest
    <3>3. CASE later = t.running.patch
      BY <3>1, <3>2, <3>3
    <3>4. CASE later \in ToCome(p)
      <4>1. PICK old \in ToCome(t) \union {Nothing} : later[k] = old[k]
        BY <1>23, <2>2, <3>4
      <4> QED BY <3>1, <3>2, <4>1, NothingIs
    <3> QED BY <3>3, <3>4
  <2> QED BY <2>1, <2>2
<1>33. ExecutedIsStored(target, stored)'
  BY <1>4, <1>6, <1>12, <1>13 DEF QueueInv, ExecutedIsStored, Running, Sent
<1>34. NothingIsForgotten(target, stored)'
  <2> SUFFICES ASSUME late = 0
               PROVE  /\ \A k \in Inputs : typed'[visit][k] # 0 =>
                           st[k] = typed'[visit][k] \/ OnItsWay(target, k)'
                      /\ p.pending[visit] # Nothing =>
                           \/ p.queued[Text].visit = visit
                           \/ p.failure[Text] # 0 /\ ~RunningIs(p, Text)
    BY <1>5, <1>6, <1>12 DEF NothingIsForgotten, RunningIs, Running
  <2>1. ASSUME NEW k \in Inputs, typed'[visit][k] # 0
        PROVE  st[k] = typed'[visit][k] \/ OnItsWay(target, k)'
    <3>1. CASE k = i
      <4>1. CASE i = Photo
        <5>1. Photos \in Queued(p) /\ p.queued[Photos].patch[Photo] = n
          BY <1>5, <1>8, <1>13, <1>14, <1>19, <1>20, <4>1 DEF Queued
        <5> QED BY <1>5, <1>6, <1>12, <1>17, <3>1, <4>1, <5>1 DEF OnItsWay, Queued
      <4>2. CASE i # Photo
        BY <1>5, <1>6, <1>12, <1>17, <1>18, <1>19, <3>1, <4>2 DEF OnItsWay
      <4> QED BY <4>1, <4>2
    <3>2. CASE k # i
      <4>1. typed'[visit][k] = typed[visit][k]
        BY <1>17, <3>2
      <4>2. st[k] = typed[visit][k] \/ OnItsWay(t, k)
        BY <1>4, <1>5, <2>1, <4>1 DEF QueueInv, NothingIsForgotten
      <4>3. p.pending[visit][k] = t.pending[visit][k]
        BY <1>5, <1>18, <3>2
      <4>4. k = Photo => p.queued[Photos] = t.queued[Photos]
        BY <1>14, <3>2
      <4> QED BY <1>6, <1>12, <1>13, <1>15, <4>1, <4>2, <4>3, <4>4
              DEF OnItsWay, Queued, RunningIs, Running
    <3> QED BY <3>1, <3>2
  <2>2. ASSUME p.pending[visit] # Nothing
        PROVE  \/ p.queued[Text].visit = visit
               \/ p.failure[Text] # 0 /\ ~RunningIs(p, Text)
    <3>1. CASE i = Photo
      BY <1>4, <1>5, <1>13, <1>14, <1>15, <2>2, <3>1 DEF QueueInv, NothingIsForgotten
    <3>2. CASE i # Photo
      BY <1>21, <3>2
    <3> QED BY <3>1, <3>2
  <2> QED BY <2>1, <2>2
<1>35. StatusesFit(target)'
  BY <1>11, <1>12 DEF StatusesFit, StatusFits, HasWork, Queued
<1>36. NewVisitsAreFresh(target)'
  <2> SUFFICES ASSUME NEW v \in Visits, v > visit
               PROVE  p.state[v] = FreshVisit
    BY <1>6, <1>12 DEF NewVisitsAreFresh
  <2>1. s.running = t.running /\ \A l \in Lanes : s.queued[l].visit \in {visit, t.queued[l].visit}
    BY <1>9 DEF Edited
  <2>2. v # visit /\ v # s.running.visit /\ \A l \in Lanes : v # s.queued[l].visit
    BY <1>4, <1>5, <2>1, PatchesOf DEF QueueInv, VisitsArePast
  <2> QED BY <1>11, <2>2, WorkIs
<1>37. FlushOK(flush)'
  BY <1>4, <1>12, WokenKeeps
<1>38. /\ VisitTyped' /\ stored' \in Patch /\ late' \in Nat
       /\ conflict' \in [marked : SUBSET Visits, cleaned : SUBSET Visits]
  BY <1>4, <1>5, <1>6, <1>12, <1>17 DEF VisitTyped
<1>39. QueueOK(target, stored)'
  BY <1>11, <1>12, <1>27, <1>28, <1>29, <1>30, <1>31, <1>32, <1>33, <1>34, <1>35
     DEF QueueOK, QueueInv
<1> QED BY <1>36, <1>37, <1>38, <1>39, InvHolds

-----------------------------------------------------------------------------
(* The theorems.                                                             *)

LEMMA InitHolds == AutosaveInit => AutosaveInv
<1> SUFFICES ASSUME AutosaveInit PROVE AutosaveInv
  OBVIOUS
<1>1. PICK t : t = target
  OBVIOUS
<1>2. /\ t.queued = [l \in Lanes |-> NoSave] /\ t.running = NoSave /\ t.lane = Text
      /\ t.failure = [l \in Lanes |-> 0] /\ t.state = [v \in Visits |-> FreshVisit]
      /\ t.pending = [v \in Visits |-> Nothing] /\ t.newest = Text /\ t.requests = {}
  BY <1>1 DEF AutosaveInit, Text
<1>3. t \in Target
  <2>1. 0 \in 0 .. MaxVisits
    BY Bounds
  <2> QED BY <1>1, <2>1, NothingIs, Bounds DEF AutosaveInit, Target, Text
<1>4. visit = 1 /\ keys = 0 /\ late = 0 /\ stored = Nothing /\ typed = [v \in Visits |-> Nothing]
  BY DEF AutosaveInit
<1>5. VisitTyped /\ stored \in Patch /\ late \in Nat
  BY <1>4, NothingIs, Bounds DEF VisitTyped, Visits
<1>6. conflict \in [marked : SUBSET Visits, cleaned : SUBSET Visits]
  BY DEF AutosaveInit
<1>7. FlushOK(flush)
  BY Bounds DEF AutosaveInit, FlushOK, FlushStates
<1>8. /\ ~Running(t) /\ Queued(t) = {} /\ \A l : ~RunningIs(t, l)
      /\ ToCome(t) = {Nothing} /\ t.running.patch = Nothing
      /\ \A v \in Visits : t.pending[v] = Nothing /\ typed[v] = Nothing
  <2>1. Reachable(t) \subseteq Visits
    BY DEF Reachable
  <2> QED BY <1>2, <1>4, <2>1, NothingIs, Bounds DEF Running, RunningIs, Queued, ToCome
<1>9. VisitsArePast(t) /\ TextIsOfOneVisit(t) /\ RequestsAreSent(t)
  BY <1>2, <1>4, <1>8, NothingIs, Bounds
     DEF VisitsArePast, TextIsOfOneVisit, RequestsAreSent, Visits
<1>10. EditsAreInOrder(t, stored) /\ NothingIsNewer(t, stored)
  BY <1>2, <1>4, <1>8, NothingIs, Bounds DEF EditsAreInOrder, NothingIsNewer, InOrder, Below
<1>11. TypedIsNewest(t) /\ ExecutedIsStored(t, stored) /\ NothingIsForgotten(t, stored)
  BY <1>4, <1>8, NothingIs, Bounds DEF TypedIsNewest, ExecutedIsStored, NothingIsForgotten
<1>12. StatusesFit(t) /\ NewVisitsAreFresh(t)
  BY <1>2, FreshIs DEF StatusesFit, StatusFits, NewVisitsAreFresh
<1> QED BY <1>1, <1>3, <1>5, <1>6, <1>7, <1>9, <1>10, <1>11, <1>12, InvIs DEF QueueOK, QueueInv

LEMMA StepHolds ==
    ASSUME AutosaveInv, [AutosaveNext]_autosaveVars
    PROVE  AutosaveInv'
<1>1. CASE UNCHANGED autosaveVars
  <2>1. PICK t : t = target
    OBVIOUS
  <2>2. VisitUnchanged /\ UNCHANGED <<stored, flush, target>>
    BY <1>1 DEF autosaveVars, VisitUnchanged
  <2>3. FlushOK(flush)'
    BY <2>2, InvIs DEF FlushOK
  <2> QED BY <2>1, <2>2, <2>3, InvIs, FlushKeeps
<1>2. ASSUME NEW i \in Inputs, Edit(i) PROVE AutosaveInv'
  BY <1>2, EditStep
<1>3. ASSUME NEW lane \in Lanes, TimerFires(lane) PROVE AutosaveInv'
  BY <1>3, TimerStep
<1>4. ASSUME NEW asked \in target.requests, Execute(asked) PROVE AutosaveInv'
  BY <1>4, ExecuteStep
<1>5. CASE SaveEnds
  BY <1>5, AnswerStep, FailStep DEF SaveEnds
<1>6. CASE MarkConflict
  BY <1>6, MarkStep
<1>7. CASE CleanUpConflict
  BY <1>7, CleanUpStep
<1>8. ASSUME NEW f \in Flushers, StartFlush(f) \/ FlushContinues(f) \/ FlushConsumed(f)
      PROVE  AutosaveInv'
  BY <1>8, StartStep, ContinueStep, ConsumedStep
<1>9. ASSUME NEW f \in Flushers, NEW to \in 0 .. MaxVisits, Leave(f, to) PROVE AutosaveInv'
  BY <1>9, LeaveStep
<1> QED BY <1>1, <1>2, <1>3, <1>4, <1>5, <1>6, <1>7, <1>8, <1>9 DEF AutosaveNext

(* Nothing typed on the review page is forgotten or overtaken: every edit a   *)
(* visit made is stored, or pending, queued, running or a failure, in order.  *)
THEOREM NothingTypedIsForgotten == AutosaveSpec => []AutosaveInv
<1>1. AutosaveInit => AutosaveInv
  BY InitHolds
<1>2. AutosaveInv /\ [AutosaveNext]_autosaveVars => AutosaveInv'
  BY StepHolds
<1> QED BY <1>1, <1>2, PTL DEF AutosaveSpec

(* Every variable keeps its type, and the status the page shows for its visit *)
(* is "saving" exactly while a save of it that has started is not over.       *)
THEOREM AutosaveTypes == AutosaveSpec => []AutosaveTypeOK
<1>1. AutosaveInv => AutosaveTypeOK
  BY DEF AutosaveInv
<1> QED BY <1>1, NothingTypedIsForgotten, PTL

LEMMA OnlyExecutionsStore ==
    ASSUME AutosaveInv, [AutosaveNext]_autosaveVars
    PROVE  UNCHANGED stored \/ \E asked \in target.requests : Execute(asked)
BY DEF AutosaveNext, autosaveVars, Edit, TimerFires, SaveEnds, SaveAnswered, SaveFails, MarkConflict,
       CleanUpConflict, StartFlush, FlushContinues, FlushConsumed, Leave

LEMMA OrderStep ==
    ASSUME AutosaveInv, [AutosaveNext]_autosaveVars, late' = late, NEW i \in Inputs
    PROVE  stored'[i] >= stored[i]
<1>1. /\ target \in Target /\ QueueInv(target, stored) /\ stored \in Patch /\ late \in Nat
      /\ stored[i] \in Nat
  BY InvIs, PatchValues DEF QueueOK
<1>2. CASE UNCHANGED stored
  BY <1>1, <1>2
<1>3. ASSUME NEW asked \in target.requests, Execute(asked) PROVE stored'[i] >= stored[i]
  <2>1. PICK t : t = target
    OBVIOUS
  <2>2. PICK st : st = stored
    OBVIOUS
  <2>3. ~asked.lost
    BY <1>1, <1>3 DEF Execute
  <2>4. asked = Sent(t.running.patch)
    BY <1>1, <2>1, <2>3, OthersAreLost DEF QueueInv
  <2>5. PICK patch : patch = asked.patch
    OBVIOUS
  <2>6. patch = t.running.patch /\ patch \in Patch /\ patch[i] \in Nat
    BY <1>1, <2>1, <2>4, <2>5, PatchesOf, PatchValues DEF Sent
  <2>7. InOrder(st, patch)
    BY <1>1, <2>1, <2>2, <2>6 DEF QueueInv, EditsAreInOrder
  <2>8. stored' = Over(st, patch)
    BY <1>3, <2>2, <2>5 DEF Execute
  <2>9. stored'[i] = IF patch[i] # 0 THEN patch[i] ELSE st[i]
    BY <1>1, <2>2, <2>6, <2>8, OverIs
  <2> QED BY <1>1, <2>2, <2>6, <2>7, <2>9 DEF InOrder
<1> QED BY <1>2, <1>3, OnlyExecutionsStore

(* Over lanes, visits, retries and the order the requests are executed in,    *)
(* the server only goes forward while no request outlives its answer.         *)
THEOREM TheServerOnlyGoesForward == AutosaveSpec => SavesKeepOrder
<1>1. AutosaveInv /\ [AutosaveNext]_autosaveVars =>
        [late' = late => \A i \in Inputs : stored'[i] >= stored[i]]_autosaveVars
  BY OrderStep
<1> QED BY <1>1, NothingTypedIsForgotten, PTL DEF AutosaveSpec, SavesKeepOrder

LEMMA WokenStays == ASSUME NEW f PROVE Woken(f).pc = f.pc
BY DEF Woken

LEMMA EndedAt ==
    ASSUME FlushOK(flush), NEW f \in Flushers, NEW g \in Flushers, NEW result
    PROVE  Ended(g, result)[f].pc = IF f = g THEN result ELSE flush[f].pc
BY DEF Ended, FlushOK

\* Only its own continuation ends a flush with success, and it finds no work.
LEMMA OnlyContinuationsSave ==
    ASSUME AutosaveInv, [AutosaveNext]_autosaveVars, NEW f \in Flushers,
           flush[f].pc = "waiting", flush'[f].pc = "saved"
    PROVE  /\ FlushContinues(f) /\ ~Running(target) /\ Queued(target) = {}
           /\ flush[f].visit = visit /\ ~Frozen(visit)
           /\ \A l \in Lanes : target.failure[l] = 0
<1>1. FlushOK(flush)
  BY InvIs
<1>2. ASSUME NEW t, Changed(t) PROVE FALSE
  BY <1>2, WokenStays DEF Changed
<1>3. \A i \in Inputs : ~Edit(i)
  BY <1>2 DEF Edit
<1>4. \A lane \in Lanes : ~TimerFires(lane)
  BY <1>2 DEF TimerFires
<1>5. \A asked \in target.requests : ~Execute(asked)
  BY DEF Execute
<1>6. ~SaveEnds /\ ~MarkConflict /\ ~CleanUpConflict
  BY <1>2 DEF SaveEnds, SaveAnswered, SaveFails, MarkConflict, CleanUpConflict
<1>7. ASSUME NEW g \in Flushers, StartFlush(g) PROVE FALSE
  <2>1. flush[g].pc = "idle" /\ g # f
    BY <1>7 DEF StartFlush
  <2>2. PICK new : new = [pc |-> "waiting", visit |-> visit, woken |-> TRUE]
    OBVIOUS
  <2>3. PICK begun : begun = [flush EXCEPT ![g] = new]
    OBVIOUS
  <2>4. \/ flush' = Ended(g, "unsaved")
        \/ flush' = [h \in Flushers |-> Woken(Ended(g, "unsaved")[h])]
        \/ flush' = [h \in Flushers |-> Woken(begun[h])]
    BY <1>7, <2>2, <2>3 DEF StartFlush
  <2>5. flush'[f].pc = Ended(g, "unsaved")[f].pc \/ flush'[f].pc = begun[f].pc
    BY <2>4, WokenStays
  <2>6. begun[f] = flush[f]
    BY <1>1, <2>1, <2>3 DEF FlushOK
  <2> QED BY <1>1, <2>1, <2>5, <2>6, EndedAt
<1>8. ASSUME NEW g \in Flushers, FlushConsumed(g) PROVE FALSE
  <2>1. flush[g].pc # "waiting" /\ flush' = Ended(g, "idle")
    BY <1>8 DEF FlushConsumed
  <2> QED BY <1>1, <2>1, EndedAt
<1>9. ASSUME NEW g \in Flushers, NEW to \in 0 .. MaxVisits, Leave(g, to) PROVE FALSE
  <2>1. flush'[f].pc = Ended(g, "idle")[f].pc
    BY <1>9, WokenStays DEF Leave
  <2> QED BY <1>1, <2>1, EndedAt
<1>10. ASSUME NEW g \in Flushers, FlushContinues(g)
       PROVE  /\ g = f /\ ~Running(target) /\ Queued(target) = {}
              /\ flush[f].visit = visit /\ ~Frozen(visit)
              /\ \A l \in Lanes : target.failure[l] = 0
  <2>1. PICK failed : failed = {l \in Lanes : target.failure[l] # 0}
    OBVIOUS
  <2>2. \/ flush' = [flush EXCEPT ![g].woken = FALSE]
        \/ flush' = Ended(g, "unsaved")
        \/ /\ ~(Running(target) \/ Queued(target) # {})
           /\ ~(flush[g].visit # visit \/ Frozen(flush[g].visit))
           /\ flush' = Ended(g, "unsaved") \/ (flush' = Ended(g, "saved") /\ failed = {})
    BY <1>10, <2>1 DEF FlushContinues
  <2>3. flush' # [flush EXCEPT ![g].woken = FALSE]
    <3>1. PICK new : new = [flush[g] EXCEPT !.woken = FALSE]
      OBVIOUS
    <3>2. new.pc = flush[g].pc
      BY <1>1, <3>1 DEF FlushOK, FlushStates
    <3> QED BY <1>1, <3>1, <3>2 DEF FlushOK
  <2>4. flush' # Ended(g, "unsaved")
    BY <1>1, EndedAt
  <2>5. flush' = Ended(g, "saved") => g = f
    BY <1>1, EndedAt
  <2> QED BY <2>1, <2>2, <2>3, <2>4, <2>5
<1>11. ~UNCHANGED autosaveVars
  BY DEF autosaveVars
<1> QED BY <1>3, <1>4, <1>5, <1>6, <1>7, <1>8, <1>9, <1>10, <1>11 DEF AutosaveNext

LEMMA FlushedStep ==
    ASSUME AutosaveInv, [AutosaveNext]_autosaveVars, NEW f \in Flushers,
           flush[f].pc = "waiting", flush'[f].pc = "saved", late = 0,
           NEW i \in Inputs, typed[visit][i] # 0
    PROVE  stored[i] = typed[visit][i]
<1>1. /\ FlushContinues(f) /\ ~Running(target) /\ Queued(target) = {}
      /\ flush[f].visit = visit /\ ~Frozen(visit)
      /\ \A l \in Lanes : target.failure[l] = 0
  BY OnlyContinuationsSave
<1>2. visit # 0 /\ visit \in Visits
  BY <1>1, InvIs, VisitTypes DEF FlushOK
<1>3. NothingIsForgotten(target, stored)
  BY InvIs DEF QueueOK, QueueInv
<1>4. target.queued[Text].visit # visit
  BY <1>1, <1>2, Bounds DEF Queued
<1>5. target.pending[visit] = Nothing
  BY <1>1, <1>2, <1>3, <1>4, Bounds DEF NothingIsForgotten
<1>6. ~OnItsWay(target, i)
  BY <1>1, <1>5, NothingIs, Bounds DEF OnItsWay, RunningIs
<1> QED BY <1>1, <1>2, <1>3, <1>6 DEF NothingIsForgotten

(* A flush that reports success, whoever waits for it and whatever happened   *)
(* before, has everything this visit typed on the server.                     *)
THEOREM FlushedIsStored == AutosaveSpec => FlushedMeansStored
<1>1. AutosaveInv /\ [AutosaveNext]_autosaveVars =>
        [\A f \in Flushers : flush[f].pc = "waiting" /\ flush'[f].pc = "saved" /\ late = 0 =>
           \A i \in Inputs : typed[visit][i] # 0 => stored[i] = typed[visit][i]]_autosaveVars
  BY FlushedStep
<1> QED BY <1>1, NothingTypedIsForgotten, PTL DEF AutosaveSpec, FlushedMeansStored

-----------------------------------------------------------------------------
(* The two beside each other.                                                *)

TogglesBounded == toggles \in 0 .. MaxToggles

LEMMA TogglesStayBounded ==
    ASSUME TogglesBounded, [ImagesNext]_imageVars
    PROVE  TogglesBounded'
<1>1. MaxToggles \in Nat
  BY ImageAssumption
<1>2. CASE TogglePublic
  BY <1>1, <1>2 DEF TogglePublic, TogglesBounded
<1>3. CASE UNCHANGED toggles
  BY <1>3 DEF TogglesBounded
<1> QED BY <1>2, <1>3 DEF ImagesNext, imageVars, Open, Serve, Abandon, ReplaceSource,
        ReadSaved, Schedule, Recheck, WriteSaved, FinishJob

LEMMA ImageTypesHold == ASSUME SlotsInv, TogglesBounded PROVE ImagesTypeOK
BY DEF SlotsInv, ImagesInv, RecordsTyped, RequestRecord, JobRecord, QueueHolds, TogglesBounded,
       ImagesTypeOK

ClientsInv == SlotsInv /\ TogglesBounded /\ AutosaveInv

LEMMA ClientsInvKept ==
    ASSUME ClientsInv, [ClientsNext]_<<moving, imageVars, autosaveVars>>
    PROVE  ClientsInv'
<1>1. [ImagesNext]_imageVars /\ [AutosaveNext]_autosaveVars
  BY DEF ClientsNext
<1> QED BY <1>1, SlotsInvKept, TogglesStayBounded, StepHolds DEF ClientsInv

(* Whichever of the two moves, every variable of both keeps its type, and the *)
(* status the review page shows (useLetterAutosave.ts) fits what its visit    *)
(* still has to save.                                                         *)
THEOREM ClientsTypes == ClientsSpec => []ClientsTypeOK
<1>1. ClientsInit => ClientsInv
  <2> SUFFICES ASSUME ClientsInit PROVE ClientsInv
    OBVIOUS
  <2>1. TogglesBounded
    BY ImageAssumption DEF ClientsInit, ImagesInit, TogglesBounded
  <2> QED BY <2>1, SlotsInvStarts, InitHolds DEF ClientsInit, ClientsInv
<1>2. ClientsInv /\ [ClientsNext]_<<moving, imageVars, autosaveVars>> => ClientsInv'
  BY ClientsInvKept
<1>3. ClientsInv => ClientsTypeOK
  BY ImageTypesHold DEF ClientsInv, AutosaveInv, ClientsTypeOK
<1> QED BY <1>1, <1>2, <1>3, PTL DEF ClientsSpec

=============================================================================
