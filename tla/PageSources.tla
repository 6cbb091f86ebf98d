----------------------------- MODULE PageSources -----------------------------
(***************************************************************************)
(* Page rows and the stored objects behind them: plain and forced uploads, *)
(* the deletion of a correspondence, and the edits bound to one source     *)
(* (line segments, trust, dimensions).  Storage and database share no      *)
(* transaction: an object is stored before the row that refers to it is    *)
(* committed, and reclaimed after the row that referred to it is gone.     *)
(* A correspondence group is represented by one letter with one page.      *)
(***************************************************************************)
EXTENDS FiniteSets, Integers

CONSTANTS
    Slots,     \* page identities, each of its own group; also initial objects
    Legacy,    \* the slots whose initial object has a legacy logical path
    Uploads,   \* uploads of one file; each names the object and row it makes
    Deletions, \* requests to delete a correspondence
    Readers,   \* edits bound to a page source
    Contents,  \* bytes a file may hold, named by their checksum
    Damaged,   \* the bytes of an object that was damaged
    None,      \* no page, no object, no value
    MaxFaults  \* bound on the failures and crashes

ASSUME PageAssumption ==
    /\ Legacy \subseteq Slots /\ MaxFaults \in Nat
    /\ Damaged \notin Contents /\ None \notin Contents \union {Damaged}
    /\ Slots \intersect Uploads = {} /\ None \notin Slots \union Uploads

VARIABLES
    page,      \* the letter_pages row of each slot, with its owner's revision
    object,    \* the bytes stored at each path
    uploading, \* the local state of each upload
    deleting,  \* the local state of each deletion
    reading,   \* the local state of each bound edit
    faults     \* failures so far

pageVars == <<page, object, uploading, deleting, reading, faults>>

Paths == Slots \union Uploads
Bytes == Contents \union {Damaged}
Kinds == {"segments", "trust", "dimensions"}

\* derived: the bytes each bound edit looked at.  origin: how the row got its
\* present content.
PageRow ==
    [id : Paths, path : Paths, sum : Bytes, revision : Nat,
     derived : [Kinds -> Bytes \union {None}],
     origin : {"initial", "unique", "unchecked", "replaced"}]

ASSUME RowAssumption == None \notin PageRow

Row == PageRow \union {None}

NoDerived == [k \in Kinds |-> None]

Idle == [pc |-> "idle", slot |-> None, content |-> None, force |-> FALSE,
         fresh |-> FALSE, expected |-> None, owner |-> None, seen |-> None,
         policy |-> "keep", sum |-> None, path |-> None, doomed |-> None]

\* expected: the source an administrator confirmed.  seen, owner: the page and
\* the letter observed.  fresh: the duplicate check saw no page at the target.
\* sum, path: what the commit writes.  doomed: the path to reclaim.
UploadState ==
    [pc : {"idle", "lock", "find", "owner", "page", "prepare", "commit", "unused",
           "lookup", "unlink", "done"},
     slot : Slots \union {None}, content : Contents \union {None}, force : BOOLEAN,
     fresh : BOOLEAN, expected : Row, owner : Paths \union {None}, seen : Row,
     policy : {"keep", "repair", "invalidate", "reconcile", "replace"},
     sum : Bytes \union {None}, path : Paths \union {None}, doomed : Paths \union {None}]

(* The type of every variable. *)
PagesTypeOK ==
    /\ page \in [Slots -> Row]
    /\ object \in [Paths -> Bytes \union {None}]
    /\ uploading \in [Uploads -> UploadState]
    /\ deleting \in [Deletions -> [pc : {"idle", "confirmed", "lookup", "unlink", "done"},
                                   slot : Slots \union {None}, seen : Row,
                                   doomed : Paths \union {None}]]
    /\ reading \in [Readers -> [pc : {"idle", "seen", "read", "done"},
                                slot : Slots \union {None}, kind : Kinds, seen : Row,
                                bytes : Bytes \union {None}]]
    /\ faults \in Nat

\* A slot starts without a page, or with one whose object may have been lost
\* or damaged since.
PagesInit ==
    /\ page \in [Slots -> {None} \union
          {[id |-> s, path |-> s, sum |-> c, revision |-> 0, derived |-> NoDerived,
            origin |-> "initial"] : s \in Slots, c \in Contents}]
    /\ \A s \in Slots : page[s] # None => page[s].id = s
    /\ object \in [Paths -> Bytes \union {None}]
    /\ \A u \in Uploads : object[u] = None
    /\ \A s \in Slots : IF page[s] = None THEN object[s] = None
                        ELSE object[s] \in {page[s].sum, Damaged, None}
    /\ uploading = [u \in Uploads |-> Idle]
    /\ deleting = [d \in Deletions |->
                     [pc |-> "idle", slot |-> None, seen |-> None, doomed |-> None]]
    /\ reading = [r \in Readers |-> [pc |-> "idle", slot |-> None, kind |-> "segments",
                                     seen |-> None, bytes |-> None]]
    /\ faults = 0

-----------------------------------------------------------------------------
(* Uploads. *)

Become(u, state) == uploading' = [uploading EXCEPT ![u] = state]

At(u, pc) == uploading[u].pc = pc

Finish(u) == Become(u, [Idle EXCEPT !.pc = "done"])

\* The administrator chooses a file.  A replacement carries the source that
\* the duplicate check returned; a plain upload first inspects the bytes.
Submit(u) ==
    /\ At(u, "idle")
    /\ \E s \in Slots, c \in Contents, force \in BOOLEAN :
         /\ force => page[s] # None
         /\ Become(u, [Idle EXCEPT !.pc = IF force THEN "owner" ELSE "lock",
                                   !.slot = s, !.content = c, !.force = force,
                                   !.expected = IF force THEN page[s] ELSE None])
    /\ UNCHANGED <<page, object, deleting, reading, faults>>

\* Mutant: the lock is a no-op.
NoExclusion(c) == {}

\* The plain uploads that hold the advisory lock of a content.
Holders(c) ==
    {u \in Uploads : /\ uploading[u].content = c /\ ~uploading[u].force
                     /\ uploading[u].pc \notin {"idle", "lock", "done"}}

\* withContentChecksumLock.
LockContent(u) ==
    /\ At(u, "lock")
    /\ Holders(uploading[u].content) = {}
    /\ Become(u, [uploading[u] EXCEPT !.pc = "find"])
    /\ UNCHANGED <<page, object, deleting, reading, faults>>

\* A page with these bytes, whose object still holds them.
DurableCopy(c) == \E t \in Slots :
    page[t] # None /\ page[t].sum = c /\ object[page[t].path] = c

\* findDurableContentDuplicateByIdentity, one transaction over locked groups.
FindDuplicate(u) ==
    LET up == uploading[u] IN
    /\ At(u, "find")
    /\ IF page[up.slot] = None /\ DurableCopy(up.content)
       THEN Finish(u)
       ELSE Become(u, [up EXCEPT !.pc = "owner", !.fresh = page[up.slot] = None])
    /\ UNCHANGED <<page, object, deleting, reading, faults>>

IdOf(row) == IF row = None THEN None ELSE row.id

\* findLetterByIdentity.
ObserveOwner(u) ==
    /\ At(u, "owner")
    /\ Become(u, [uploading[u] EXCEPT !.pc = "page",
                                      !.owner = IdOf(page[uploading[u].slot])])
    /\ UNCHANGED <<page, object, deleting, reading, faults>>

SamePage(a, b) == a # None /\ b # None /\ a.id = b.id /\ a.path = b.path /\ a.sum = b.sum

\* getPage of that owner; a replacement must find what was confirmed.
ObservePage(u) ==
    LET up  == uploading[u]
        row == page[up.slot]
        found == IF row # None /\ row.id = up.owner THEN row ELSE None IN
    /\ At(u, "page")
    /\ IF up.force /\ ~SamePage(found, up.expected)
       THEN Finish(u)
       ELSE Become(u, [up EXCEPT !.pc = "prepare", !.seen = found])
    /\ UNCHANGED <<page, object, deleting, reading, faults>>

\* The bytes at the observed pointer, None if they are gone.
Actual(u) == IF uploading[u].seen = None THEN None ELSE object[uploading[u].seen.path]

\* What to store and under which policy to commit: NoStore for the committed
\* object itself.
NoStore(policy)    == [store |-> FALSE, bytes |-> None, policy |-> policy]
Store(bytes, policy) == [store |-> TRUE, bytes |-> bytes, policy |-> policy]

PlainPlans(u) ==
    LET up == uploading[u]  actual == Actual(u) IN
    IF up.seen = None THEN {Store(up.content, "keep")}
    ELSE IF actual = up.seen.sum THEN {NoStore("keep")}
    ELSE IF up.content = up.seen.sum
         THEN {Store(up.content, IF actual = None THEN "repair" ELSE "invalidate")}
    ELSE IF actual # None /\ up.seen.path \in Legacy
         THEN {Store(actual, "invalidate")}
    ELSE {} \* refused: nothing here matches the committed checksum

ForcePlans(u) ==
    LET up == uploading[u]  actual == Actual(u) IN
    CASE actual = up.content /\ up.seen.sum = up.content -> {NoStore("replace")}
      [] actual = up.content /\ up.seen.sum # up.content -> {Store(up.content, "invalidate")}
      [] actual # up.content ->
           {Store(up.content,
                  IF up.seen.sum # up.content THEN "replace"
                  ELSE IF actual = None THEN "reconcile" ELSE "invalidate")}

Plans(u) == IF uploading[u].force THEN ForcePlans(u) ELSE PlainPlans(u)

\* Verification of the observed object and storeImmutableFile at a fresh path.
Prepare(u) ==
    LET up == uploading[u] IN
    /\ At(u, "prepare")
    /\ \/ Plans(u) = {} /\ Finish(u) /\ UNCHANGED object
       \/ \E plan \in Plans(u) :
            /\ Become(u, [up EXCEPT
                   !.pc = "commit", !.policy = plan.policy,
                   !.sum = IF plan.store THEN plan.bytes ELSE up.seen.sum,
                   !.path = IF plan.store THEN u ELSE up.seen.path])
            /\ IF plan.store THEN object' = [object EXCEPT ![u] = plan.bytes]
                             ELSE UNCHANGED object
    /\ UNCHANGED <<page, deleting, reading, faults>>

\* SourceRevisionChanged: the candidate, if there is one, is removed.
Reject(u) == Become(u, [uploading[u] EXCEPT !.pc = IF @ = "commit" /\ uploading[u].path = u
                                                   THEN "unused" ELSE "done",
                                            !.doomed = None])

\* Mutant: a candidate that was not written stays in storage.
LeaveCandidate(u, row) == Become(u, [uploading[u] EXCEPT !.pc = "done"])

\* Nothing written; a candidate that is not the page's object is removed.
Unchanged(u, row) ==
    Become(u, [uploading[u] EXCEPT !.pc = IF uploading[u].path \in {u} \ {row.path}
                                          THEN "unused" ELSE "done"])

\* The commit is refused: the letter or the confirmed page is another one.
Conflicts(u) ==
    LET up == uploading[u]  row == page[up.slot] IN
    \/ up.owner \notin {None, IdOf(row)}
    \/ up.expected # None
         /\ ~(SamePage(row, up.expected) /\ row.revision = up.expected.revision)

\* persistPage leaves the row alone.
Keeps(u, row) ==
    LET up == uploading[u] IN
    \/ /\ ~up.force /\ up.seen # None
       /\ <<row.path, row.sum>> # <<up.seen.path, up.seen.sum>>
    \/ up.policy = "keep"
    \/ up.sum = row.sum /\ (up.path = row.path \/ up.policy = "replace")

\* Mutant: new content keeps what was derived from the old.
KeepDerived(u, row) == row.derived

\* A changed source clears what was derived; a relocation only re-measures.
DerivedAfter(u, row) ==
    LET up == uploading[u] IN
    IF up.sum # row.sum \/ up.policy = "invalidate"
    THEN [NoDerived EXCEPT !["dimensions"] = object[up.path]]
    ELSE [row.derived EXCEPT !["dimensions"] = object[up.path]]

Rewrite(u, row) ==
    LET up == uploading[u]
        changed == up.sum # row.sum \/ up.policy = "invalidate" IN
    [row EXCEPT !.path = up.path, !.sum = up.sum, !.derived = DerivedAfter(u, row),
                !.revision = IF changed THEN @ + 1 ELSE @,
                !.origin = IF changed THEN "replaced" ELSE @]

Create(u) ==
    LET up == uploading[u] IN
    [id |-> u, path |-> u, sum |-> up.sum, revision |-> 1,
     derived |-> [NoDerived EXCEPT !["dimensions"] = up.sum],
     origin |-> IF up.fresh THEN "unique" ELSE "unchecked"]

\* findOrCreatePage: membership, row and invalidation in one transaction.
CommitPage(u) ==
    LET up == uploading[u]  row == page[up.slot] IN
    /\ At(u, "commit")
    /\ \/ Conflicts(u) /\ Reject(u) /\ UNCHANGED page
       \/ /\ ~Conflicts(u) /\ row = None
          /\ page' = [page EXCEPT ![up.slot] = Create(u)]
          /\ Finish(u)
       \/ /\ ~Conflicts(u) /\ row # None /\ Keeps(u, row)
          /\ Unchanged(u, row) /\ UNCHANGED page
       \/ /\ ~Conflicts(u) /\ row # None /\ ~Keeps(u, row)
          /\ page' = [page EXCEPT ![up.slot] = Rewrite(u, row)]
          /\ Become(u, [up EXCEPT !.pc = IF row.path = up.path THEN "done" ELSE "lookup",
                                  !.doomed = row.path])
    /\ UNCHANGED <<object, deleting, reading, faults>>

Remove(path) == object' = [object EXCEPT ![path] = None]

\* A candidate no row refers to.
RemoveUnused(u) ==
    /\ At(u, "unused")
    /\ Remove(u)
    /\ Finish(u)
    /\ UNCHANGED <<page, deleting, reading, faults>>

Referenced(path) == \E s \in Slots : page[s] # None /\ page[s].path = path

\* Legacy paths are kept; so is a path some row refers to.
Retained(path) == path \in Legacy \/ Referenced(path)

\* reclaimUnreferencedPageStoragePath: a lookup, then an unlink.
LookupSuperseded(u) ==
    /\ At(u, "lookup")
    /\ IF Retained(uploading[u].doomed)
       THEN Finish(u)
       ELSE Become(u, [uploading[u] EXCEPT !.pc = "unlink"])
    /\ UNCHANGED <<page, object, deleting, reading, faults>>

UnlinkSuperseded(u) ==
    /\ At(u, "unlink")
    /\ Remove(uploading[u].doomed)
    /\ Finish(u)
    /\ UNCHANGED <<page, deleting, reading, faults>>

\* A commit or clean-up error, or the death of the process, which also frees
\* the advisory lock.  A commit whose answer is lost has happened.
UploadFails(u) ==
    /\ uploading[u].pc \notin {"idle", "done"}
    /\ faults < MaxFaults /\ faults' = faults + 1
    /\ Finish(u)
    /\ UNCHANGED <<page, object, deleting, reading>>

UploadStep(u) ==
    \/ Submit(u) \/ LockContent(u) \/ FindDuplicate(u) \/ ObserveOwner(u)
    \/ ObservePage(u) \/ Prepare(u) \/ CommitPage(u) \/ RemoveUnused(u)
    \/ LookupSuperseded(u) \/ UnlinkSuperseded(u) \/ UploadFails(u)

-----------------------------------------------------------------------------
(* Deletion of a correspondence. *)

\* The administrator confirms against the revision on the screen.
ConfirmDeletion(d) ==
    /\ deleting[d].pc = "idle"
    /\ \E s \in Slots :
         /\ page[s] # None
         /\ deleting' = [deleting EXCEPT ![d] =
                           [@ EXCEPT !.pc = "confirmed", !.slot = s, !.seen = page[s]]]
    /\ UNCHANGED <<page, object, uploading, reading, faults>>

\* deleteCorrespondenceGroup up to its commit.
DeleteGroup(d) ==
    LET del == deleting[d]  row == page[del.slot] IN
    /\ del.pc = "confirmed"
    /\ IF row # None /\ row.id = del.seen.id /\ row.revision = del.seen.revision
       THEN /\ page' = [page EXCEPT ![del.slot] = None]
            /\ deleting' = [deleting EXCEPT ![d] =
                              [del EXCEPT !.pc = "lookup", !.doomed = row.path]]
       ELSE deleting' = [deleting EXCEPT ![d] = [del EXCEPT !.pc = "done"]] /\ UNCHANGED page
    /\ UNCHANGED <<object, uploading, reading, faults>>

LookupDeleted(d) ==
    /\ deleting[d].pc = "lookup"
    /\ deleting' = [deleting EXCEPT ![d].pc =
                      IF Retained(deleting[d].doomed) THEN "done" ELSE "unlink"]
    /\ UNCHANGED <<page, object, uploading, reading, faults>>

UnlinkDeleted(d) ==
    /\ deleting[d].pc = "unlink"
    /\ Remove(deleting[d].doomed)
    /\ deleting' = [deleting EXCEPT ![d].pc = "done"]
    /\ UNCHANGED <<page, uploading, reading, faults>>

\* The clean-up of a committed deletion fails or its process dies.
CleanupFails(d) ==
    /\ deleting[d].pc \in {"lookup", "unlink"}
    /\ faults < MaxFaults /\ faults' = faults + 1
    /\ deleting' = [deleting EXCEPT ![d].pc = "done"]
    /\ UNCHANGED <<page, object, uploading, reading>>

-----------------------------------------------------------------------------
(* Edits bound to a page source: segments and trust of a reviewer, and the   *)
(* dimensions backfill.                                                      *)

ObserveSource(r) ==
    /\ reading[r].pc = "idle"
    /\ \E s \in Slots, k \in Kinds :
         /\ page[s] # None
         /\ reading' = [reading EXCEPT ![r] =
                          [@ EXCEPT !.pc = "seen", !.slot = s, !.kind = k, !.seen = page[s]]]
    /\ UNCHANGED <<page, object, uploading, deleting, faults>>

\* The image is read from the observed path, which may have been reclaimed.
ReadBytes(r) ==
    LET bytes == object[reading[r].seen.path] IN
    /\ reading[r].pc = "seen"
    /\ reading' = [reading EXCEPT ![r] =
                     [@ EXCEPT !.pc = IF bytes = None THEN "done" ELSE "read",
                               !.bytes = bytes]]
    /\ UNCHANGED <<page, object, uploading, deleting, faults>>

\* currentPageSourceConditions, and those of the dimensions backfill.
SourceCurrent(row, seen, kind) ==
    /\ row # None /\ row.id = seen.id /\ row.sum = seen.sum
    /\ IF kind = "dimensions" THEN row.path = seen.path ELSE row.revision = seen.revision

SaveDerived(r) ==
    LET edit == reading[r] IN
    /\ edit.pc = "read"
    /\ reading' = [reading EXCEPT ![r].pc = "done"]
    /\ IF SourceCurrent(page[edit.slot], edit.seen, edit.kind)
       THEN page' = [page EXCEPT ![edit.slot].derived[edit.kind] = edit.bytes]
       ELSE UNCHANGED page
    /\ UNCHANGED <<object, uploading, deleting, faults>>

-----------------------------------------------------------------------------
PagesNext ==
    \/ \E u \in Uploads : UploadStep(u)
    \/ \E d \in Deletions : \/ ConfirmDeletion(d) \/ DeleteGroup(d) \/ LookupDeleted(d)
                            \/ UnlinkDeleted(d) \/ CleanupFails(d)
    \/ \E r \in Readers : ObserveSource(r) \/ ReadBytes(r) \/ SaveDerived(r)

PagesSpec == PagesInit /\ [][PagesNext]_pageVars

-----------------------------------------------------------------------------
(* Properties. *)

(* A committed row refers to an object that holds the bytes its checksum     *)
(* names; only an object that was lost or damaged from the start is excused. *)
(* No order of stores, commits, conflicts, crashes and reclamations exposes  *)
(* a row whose bytes have disappeared.                                       *)
PagesKeepTheirBytes == \A s \in Slots :
    page[s] # None /\ page[s].path \notin Slots => object[page[s].path] = page[s].sum

(* Plain uploads of one content at identities that had no page never both    *)
(* create a page while the first one's object is sound.                      *)
ContentIsStoredOnce == \A s, t \in Slots :
    /\ s # t /\ page[s] # None /\ page[t] # None
    /\ page[s].origin = "unique" /\ page[t].origin = "unique"
    => page[s].sum # page[t].sum

(* Segments, trust and dimensions of a page describe the bytes its checksum  *)
(* names, or those of an object that was damaged under it.                   *)
DerivedDataFollowsBytes == \A s \in Slots, k \in Kinds :
    page[s] # None => page[s].derived[k] \in {None, page[s].sum, Damaged}

\* The path is in the hands of somebody who will store a row or remove it.
InHand(path) ==
    \/ /\ path \in Uploads
       /\ uploading[path].pc \in {"commit", "unused"} /\ uploading[path].path = path
    \/ \E u \in Uploads : uploading[u].pc \in {"lookup", "unlink"} /\ uploading[u].doomed = path
    \/ \E d \in Deletions : deleting[d].pc \in {"lookup", "unlink"} /\ deleting[d].doomed = path

(* Unless something failed, an immutable object nobody refers to is about to *)
(* be committed or reclaimed: races between uploads and deletions leave no   *)
(* orphan behind.                                                            *)
OrphansComeFromFaults == \A path \in Paths \ Legacy :
    object[path] # None /\ faults = 0 => Referenced(path) \/ InHand(path)

(* Rows and stored objects agree: both of the above.                         *)
ObjectsMatchPages == PagesKeepTheirBytes /\ OrphansComeFromFaults

=============================================================================
