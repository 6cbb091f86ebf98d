---------------------------- MODULE ReviewAutosave ----------------------------
(***************************************************************************)
(* The autosave of the letter review page: the lanes of one letter feed    *)
(* one serial queue of requests, visits to the letter come and go, saves   *)
(* fail or outlive their answer, a conflict freezes a visit, and           *)
(* navigation and direct mutations first flush what is pending.            *)
(***************************************************************************)
EXTENDS Integers, FiniteSets

CONSTANTS
    Fields,     \* fields of the patch the letter-fields lane sends
    Photo,      \* the field that the photo-description lane saves whole
    Flushers,   \* the navigation guard and the mutation executor
    MaxVisits,  \* bound on the visits to the letter
    MaxKeys,    \* bound on the edits
    MaxLost     \* bound on the requests that outlive their answer

ASSUME AutosaveAssumption ==
    Photo \notin Fields /\ {MaxKeys, MaxLost} \subseteq Nat /\ MaxVisits \in Nat \ {0}

VARIABLES
    visit,    \* the visit on the screen, 0 once the page is unmounted
    conflict, \* visits frozen by a source conflict, and those it was cleaned up for
    typed,    \* the last edit of each field in each visit, 0 for none
    keys,     \* how many edits there were
    target,   \* the coordinator's queue for the letter
    flush,    \* what each flusher is doing
    stored,   \* the last edit of each field the server holds
    late      \* how many requests the server executed that the page had given up on

autosaveVars == <<visit, conflict, typed, keys, target, flush, stored, late>>

Inputs == Fields \union {Photo}
Visits == 1 .. MaxVisits
Lanes  == {"letter-fields", "photo-description"}
Patch  == [Inputs -> 0 .. MaxKeys]
Nothing == [i \in Inputs |-> 0]

Lane(i) == IF i = Photo THEN "photo-description" ELSE "letter-fields"

\* A queued or running save; visit 0 for none.  Patches carry edit numbers.
Save  == [visit : 0 .. MaxVisits, ready : BOOLEAN, patch : Patch]
NoSave == [visit |-> 0, ready |-> FALSE, patch |-> Nothing]

\* A request the server has not executed; lost once the page gave up on it.
Request == [patch : Patch, lost : BOOLEAN]
Sent(patch) == [patch |-> patch, lost |-> FALSE]

VisitState == [status : {"idle", "saving", "saved", "error"}, started : BOOLEAN, failed : BOOLEAN]
FreshVisit == [status |-> "idle", started |-> FALSE, failed |-> FALSE]

\* lane: that of the running save; newest: the lane that was scheduled last.
\* failure: whose the last failure of a lane is.  pending: the unsent patches.
Target == [queued : [Lanes -> Save], running : Save, lane : Lanes,
           failure : [Lanes -> 0 .. MaxVisits], state : [Visits -> VisitState],
           pending : [Visits -> Patch], newest : Lanes, requests : SUBSET Request]

AutosaveInit ==
    /\ visit = 1 /\ conflict = [marked |-> {}, cleaned |-> {}]
    /\ typed = [v \in Visits |-> Nothing] /\ keys = 0
    /\ target = [queued |-> [l \in Lanes |-> NoSave], running |-> NoSave, lane |-> "letter-fields",
                 failure |-> [l \in Lanes |-> 0], state |-> [v \in Visits |-> FreshVisit],
                 pending |-> [v \in Visits |-> Nothing], newest |-> "letter-fields", requests |-> {}]
    /\ flush = [f \in Flushers |-> [pc |-> "idle", visit |-> 0, woken |-> FALSE]]
    /\ stored = Nothing /\ late = 0

-----------------------------------------------------------------------------
(* The coordinator, as functions of its queue t. *)

Over(old, new) == [i \in Inputs |-> IF new[i] # 0 THEN new[i] ELSE old[i]]

Queued(t) == {l \in Lanes : t.queued[l].visit # 0}
Running(t) == t.running.visit # 0

HasWork(t, v) == t.running.visit = v \/ \E l \in Queued(t) : t.queued[l].visit = v
HasUnresolvedFailure(t, v) == \E l \in Lanes : t.failure[l] = v

\* settleVisit, for every visit in vs.
Settled(t, vs) ==
    [t EXCEPT !.state = [v \in Visits |->
        IF v \notin vs THEN @[v]
        ELSE [@[v] EXCEPT !.status =
                IF ~t.state[v].started THEN "idle"
                ELSE IF HasWork(t, v) THEN "saving"
                ELSE IF t.state[v].failed THEN "error" ELSE "saved"]]]

\* The status shown agrees with the queue.
StatusFits(t, v) == t.state[v].status = "saving" <=> t.state[v].started /\ HasWork(t, v)

(* The type of every variable; the page shows "saving" while it is. *)
AutosaveTypeOK ==
    /\ visit \in 0 .. MaxVisits
    /\ conflict \in [marked : SUBSET Visits, cleaned : SUBSET Visits]
    /\ typed \in [Visits -> Patch] /\ keys \in 0 .. MaxKeys
    /\ target \in Target
    /\ visit # 0 => StatusFits(target, visit)
    /\ flush \in [Flushers -> [pc : {"idle", "waiting", "saved", "unsaved"}, visit : 0 .. MaxVisits,
                               woken : BOOLEAN]]
    /\ stored \in Patch /\ late \in Nat

Frozen(v) == v \in conflict.marked

\* Mutant: nobody settles the visits whose saves are dropped.
Removed(t, lanes) ==
    [t EXCEPT !.queued = [l \in Lanes |-> IF l \in lanes THEN NoSave ELSE @[l]]]

Dropped(t, lanes) == Settled(Removed(t, lanes), {t.queued[l].visit : l \in lanes} \ {0})

\* Mutant: the queue does not look whether a save is still running.
Overlapping(t) == TRUE

Idle(t) == ~Running(t)

\* pump: the oldest ready save starts; those of a frozen visit before it go.
Pumped(t) ==
    LET ready == {l \in Queued(t) : t.queued[l].ready}
        live  == {l \in ready : ~(t.queued[l].visit = visit /\ Frozen(visit))}
        first == CHOOSE l \in live : l = t.newest => live = {l}
        older == {l \in ready \ live : live = {} \/ l # t.newest}
        rest  == Dropped(t, older)
        next  == t.queued[first]
        patch == IF first = "letter-fields" THEN t.pending[next.visit] ELSE next.patch IN
    IF visit = 0 \/ ~Idle(t) THEN t
    ELSE IF live = {} THEN rest
    ELSE [rest EXCEPT
            !.queued[first] = NoSave, !.lane = first,
            !.running = [next EXCEPT !.patch = patch],
            !.requests = @ \union ({Sent(patch)} \ {Sent(Nothing)}),
            !.pending[next.visit] = IF first = "letter-fields" THEN Nothing ELSE @,
            !.state[next.visit] = [@ EXCEPT !.started = TRUE, !.status = "saving"]]

\* schedule: the visit's save takes the lane's place in the queue.
Scheduled(t, lane, v, patch) ==
    LET cleared == Dropped(t, {lane})
        renewed == IF HasWork(cleared, v) THEN cleared
                   ELSE [cleared EXCEPT !.state[v] =
                           [FreshVisit EXCEPT !.failed = HasUnresolvedFailure(cleared, v)]] IN
    [renewed EXCEPT !.newest = lane,
                    !.queued[lane] = [NoSave EXCEPT !.visit = v, !.patch = patch]]

\* pruneSettledOwners.
Pruned(t) ==
    [t EXCEPT !.state = [v \in Visits |-> IF v # visit /\ ~HasWork(t, v) THEN FreshVisit ELSE @[v]]]

\* Mutant: a finished save wakes nobody.
Asleep(f) == f

Woken(f) == IF f.pc = "waiting" THEN [f EXCEPT !.woken = TRUE] ELSE f

\* t is bound here, so that TLC evaluates it once.
Changed(t) ==
    /\ target' \in {Pruned(after) : after \in {t}}
    /\ flush' = [f \in Flushers |-> Woken(flush[f])]

-----------------------------------------------------------------------------
\* scheduleLetterFields: the edit joins the visit's pending patch, and those of
\* other visits are forgotten.
Joined(t, v, patch) ==
    [t EXCEPT !.pending = [u \in Visits |-> IF u = v THEN Over(@[v], patch) ELSE Nothing]]

\* triggerAutoSave and the photo description's save.
Edit(i) ==
    LET patch == [Nothing EXCEPT ![i] = keys + 1] IN
    /\ visit # 0 /\ ~Frozen(visit) /\ keys < MaxKeys
    /\ keys' = keys + 1
    /\ typed' = [typed EXCEPT ![visit][i] = keys + 1]
    /\ Changed(Scheduled(IF i = Photo THEN target ELSE Joined(target, visit, patch),
                         Lane(i), visit, patch))
    /\ UNCHANGED <<visit, conflict, stored, late>>

\* The lane's timer.
TimerFires(lane) ==
    /\ lane \in Queued(target) /\ ~target.queued[lane].ready
    /\ Changed(Pumped([target EXCEPT !.queued[lane].ready = TRUE]))
    /\ UNCHANGED <<visit, conflict, typed, keys, stored, late>>

\* The server executes a request.
Execute(request) ==
    /\ request \in target.requests
    /\ target' = [target EXCEPT !.requests = @ \ {request}]
    /\ stored' = Over(stored, request.patch)
    /\ late' = late + (IF request.lost THEN 1 ELSE 0)
    /\ UNCHANGED <<visit, conflict, typed, keys, flush>>

\* Mutant: what failed replaces what was typed since.
Regained(patch, newer) == Over(newer, patch)

\* The fields of a failed request that were not typed again stay pending.
Kept(patch, newer) == Over(patch, newer)

\* run, after the task: what failed stays pending, a later success resolves it.
Finished(t, failed) ==
    LET job == t.running
        lane == t.lane
        owner == t.failure[lane]
        noted == [t EXCEPT !.failure[lane] = IF failed THEN job.visit ELSE 0,
                           !.pending[job.visit] =
                              IF failed /\ lane = "letter-fields" THEN Kept(job.patch, @) ELSE @]
        judged == [noted EXCEPT !.state = [v \in Visits |->
                     IF v \in {owner, job.visit}
                     THEN [@[v] EXCEPT !.failed = HasUnresolvedFailure(noted, v)] ELSE @[v]]] IN
    Settled(Pumped([Settled(judged, {owner} \ {0}) EXCEPT !.running = NoSave]), {job.visit})

Unexecuted == Sent(target.running.patch) \in target.requests

SaveAnswered ==
    /\ Running(target) /\ ~Unexecuted
    /\ Changed(Finished(target, FALSE))
    /\ UNCHANGED <<visit, conflict, typed, keys, stored, late>>

\* The request fails, executed or not, or the page gives up on it.
SaveFails(gone) ==
    LET sent == Sent(target.running.patch)
        left == IF gone THEN {[sent EXCEPT !.lost = TRUE]} ELSE {} IN
    /\ Running(target)
    /\ gone => Unexecuted /\ Cardinality({q \in target.requests : q.lost}) + late < MaxLost
    /\ Changed(Finished([target EXCEPT !.requests = (@ \ {sent}) \union left], TRUE))
    /\ UNCHANGED <<visit, conflict, typed, keys, stored, late>>

\* markSourceConflict, from this queue or from any other request of the page.
MarkConflict ==
    /\ visit # 0 /\ ~Frozen(visit)
    /\ conflict' = [conflict EXCEPT !.marked = @ \union {visit}]
    /\ UNCHANGED <<visit, typed, keys, target, flush, stored, late>>

\* The effects of mutationsBlocked.
CleanUpConflict ==
    /\ visit # 0 /\ visit \in conflict.marked \ conflict.cleaned
    /\ conflict' = [conflict EXCEPT !.cleaned = @ \union {visit}]
    /\ Changed([Dropped(target, Lanes) EXCEPT !.pending[visit] = Nothing])
    /\ UNCHANGED <<visit, typed, keys, stored, late>>

-----------------------------------------------------------------------------
(* Flushes. *)

Ended(f, result) == [flush EXCEPT ![f] = [pc |-> result, visit |-> 0, woken |-> FALSE]]

\* flushPendingSaves and flush: pending fields are queued again, everything
\* queued is ready at once, and whoever waits looks again.
StartFlush(f) ==
    LET retried == IF target.pending[visit] = Nothing THEN target
                   ELSE Scheduled(target, "letter-fields", visit, Nothing)
        ready == [retried EXCEPT !.queued = [l \in Lanes |->
                    IF l \in Queued(retried) THEN [@[l] EXCEPT !.ready = TRUE] ELSE @[l]]]
        begun == [flush EXCEPT ![f] = [pc |-> "waiting", visit |-> visit, woken |-> TRUE]] IN
    /\ visit # 0 /\ flush[f].pc = "idle"
    /\ IF Frozen(visit)
       THEN /\ target' = Pruned(Dropped(target, Lanes))
            /\ flush' = IF Queued(target) = {} THEN Ended(f, "unsaved")
                        ELSE [g \in Flushers |-> Woken(Ended(f, "unsaved")[g])]
       ELSE /\ target' = Pruned(Pumped(ready))
            /\ flush' = [g \in Flushers |-> Woken(begun[g])]
    /\ UNCHANGED <<visit, conflict, typed, keys, stored, late>>

\* The continuation of flush.  A lane that failed keeps the visit from its
\* result and is this visit's failure from now on.
FlushContinues(f) ==
    LET v == flush[f].visit
        failed == {l \in Lanes : target.failure[l] # 0}
        owned == [target EXCEPT !.failure = [l \in Lanes |-> IF l \in failed THEN v ELSE 0]]
        judged == [owned EXCEPT !.state = [u \in Visits |->
                     IF u = v THEN [@[u] EXCEPT !.failed = failed # {},
                                        !.started = target.state[u].started \/ failed # {}]
                     ELSE [@[u] EXCEPT !.failed = HasUnresolvedFailure(owned, u)]]]
        result == Pruned(Settled(judged, Visits)) IN
    /\ flush[f].pc = "waiting" /\ flush[f].woken
    /\ IF Running(target) \/ Queued(target) # {}
       THEN flush' = [flush EXCEPT ![f].woken = FALSE] /\ UNCHANGED target
       ELSE IF v # visit \/ Frozen(v)
       THEN flush' = Ended(f, "unsaved") /\ UNCHANGED target
       ELSE /\ target' = result
            /\ flush' = Ended(f, IF failed = {} /\ result.state[v].status # "error"
                                 THEN "saved" ELSE "unsaved")
    /\ UNCHANGED <<visit, conflict, typed, keys, stored, late>>

\* The mutation, or nothing, follows.
FlushConsumed(f) ==
    /\ flush[f].pc \in {"saved", "unsaved"} /\ flush' = Ended(f, "idle")
    /\ UNCHANGED <<visit, conflict, typed, keys, target, stored, late>>

HasPendingSaves == HasWork(target, visit) \/ target.state[visit].status = "error"

\* useReviewNavigationGuard: with saves pending, only a flush or a confirmed
\* discard lets the reviewer leave, for another visit or for another page.
Leave(f, to) ==
    /\ visit # 0 /\ to \in {0, visit + 1} /\ to <= MaxVisits
    /\ flush[f].pc \in IF HasPendingSaves THEN {"saved", "unsaved"} ELSE {"idle"}
    /\ visit' = to
    /\ target' = LET kept == IF to = 0 THEN Dropped(target, Lanes) ELSE target IN
                 [kept EXCEPT !.state = [v \in Visits |->
                    IF v # to /\ ~HasWork(kept, v) THEN FreshVisit ELSE @[v]]]
    /\ flush' = [g \in Flushers |-> Woken(Ended(f, "idle")[g])]
    /\ UNCHANGED <<conflict, typed, keys, stored, late>>

-----------------------------------------------------------------------------
SaveEnds == SaveAnswered \/ \E gone \in BOOLEAN : SaveFails(gone)

AutosaveNext ==
    \/ \E i \in Inputs : Edit(i)
    \/ \E lane \in Lanes : TimerFires(lane)
    \/ \E request \in target.requests : Execute(request)
    \/ SaveEnds \/ MarkConflict \/ CleanUpConflict
    \/ \E f \in Flushers : StartFlush(f) \/ FlushContinues(f) \/ FlushConsumed(f)
    \/ \E f \in Flushers, to \in 0 .. MaxVisits : Leave(f, to)

FlushEnds(f) == FlushContinues(f) /\ flush'[f].pc # "waiting"

\* Timers fire, requests end, and a resolved promise is continued before the
\* next event: a flush that is woken with nothing left to wait for ends.
AutosaveFairness ==
    /\ \A lane \in Lanes : WF_autosaveVars(TimerFires(lane))
    /\ WF_autosaveVars(SaveEnds)
    /\ \A f \in Flushers : SF_autosaveVars(FlushEnds(f))

AutosaveSpec == AutosaveInit /\ [][AutosaveNext]_autosaveVars /\ AutosaveFairness

-----------------------------------------------------------------------------
(* Properties. *)

(* A flush that reports success has everything this visit typed on the        *)
(* server: no failure, replaced save, conflict or earlier visit hides one.    *)
FlushedMeansStored == [][\A f \in Flushers :
    flush[f].pc = "waiting" /\ flush'[f].pc = "saved" /\ late = 0 =>
        \A i \in Inputs : typed[visit][i] # 0 => stored[i] = typed[visit][i]]_autosaveVars

(* The server never goes back to an earlier edit of a field, over lanes,      *)
(* visits and retries, but for a request that outlived its answer.            *)
SavesKeepOrder == [][late' = late => \A i \in Inputs : stored'[i] >= stored[i]]_autosaveVars

(* Every flush ends, whatever fails, is replaced, dropped or unmounted, and   *)
(* whatever another flush of the same letter does meanwhile.                  *)
FlushesEnd == \A f \in Flushers : flush[f].pc = "waiting" ~> flush[f].pc # "waiting"

=============================================================================
