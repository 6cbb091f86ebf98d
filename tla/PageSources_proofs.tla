--------------------------- MODULE PageSources_proofs ---------------------------
(***************************************************************************)
(* Rows and objects for any number of slots, uploads, deletions, readers   *)
(* and contents.  Each upload stores one object, under its own name, at    *)
(* most once; only a settled upload is referred to or reclaimed, and a row *)
(* never gets a path back.                                                 *)
(***************************************************************************)
EXTENDS PageSources, TLAPS

Early   == {"idle", "lock", "find", "owner", "page", "prepare"}
Committed(u) == uploading[u].pc \in {"lookup", "unlink", "done"}

\* A row somebody holds: its object has its bytes, is damaged or gone, and
\* nobody is going to store there.
Sound(row) ==
    /\ object[row.path] \in {None, row.sum, Damaged}
    /\ row.path \in Uploads => Committed(row.path)

Doomed(path) == path \in Paths /\ (path \in Uploads => Committed(path))

PageHolds(s) ==
    page[s] # None =>
        /\ Sound(page[s])
        /\ page[s].path \in Uploads => object[page[s].path] = page[s].sum
        /\ \A k \in Kinds : page[s].derived[k] \in {None, page[s].sum, Damaged}

\* What the commit of an upload will write.
Planned(u) ==
    LET up == uploading[u] IN
    \/ /\ up.path = u /\ object[u] = up.sum /\ up.sum # None
       /\ up.seen = None => up.sum = up.content
    \/ /\ up.path # u /\ object[u] = None /\ up.seen # None
       /\ \/ up.policy = "keep"
          \/ /\ up.force /\ up.policy = "replace"
             /\ up.sum = up.seen.sum /\ up.path = up.seen.path

UploadHolds(u) ==
    LET up == uploading[u] IN
    /\ up.pc \in Early => object[u] = None
    /\ up.pc # "idle" => up.pc = "done" \/ (up.slot \in Slots /\ up.content \in Contents)
    /\ up.force => up.expected # None
    /\ up.pc \in {"prepare", "commit"} =>
         /\ up.seen # None => up.owner = up.seen.id /\ up.seen.path # u
         /\ up.force => SamePage(up.seen, up.expected)
    /\ up.pc = "commit" => Planned(u)
    /\ up.pc \in {"lookup", "unlink"} => Doomed(up.doomed)
    /\ up.pc = "unlink" => ~Retained(up.doomed)

DeletionHolds(d) ==
    /\ deleting[d].pc = "confirmed" => deleting[d].slot \in Slots
    /\ deleting[d].pc \in {"lookup", "unlink"} => Doomed(deleting[d].doomed)
    /\ deleting[d].pc = "unlink" => ~Retained(deleting[d].doomed)

ReaderHolds(r) ==
    reading[r].pc \in {"seen", "read"} =>
        /\ reading[r].slot \in Slots /\ reading[r].seen # None /\ Sound(reading[r].seen)
        /\ reading[r].pc = "read" => reading[r].bytes \in {reading[r].seen.sum, Damaged}

\* Plain uploads of one content exclude each other, and one that saw no durable
\* copy is the first to make a page of it.
LocksHold ==
    /\ \A u, v \in Uploads :
         u \in Holders(uploading[u].content) /\ v \in Holders(uploading[u].content) => u = v
    /\ \A u \in Uploads, s \in Slots :
         /\ uploading[u].fresh /\ ~uploading[u].force
         /\ uploading[u].pc \in {"owner", "page", "prepare", "commit"}
         /\ page[s] # None /\ page[s].origin = "unique"
         => page[s].sum # uploading[u].content
    /\ \A s \in Slots :
         page[s] # None /\ page[s].origin = "unique" => page[s].path \in Uploads

RowsHold ==
    /\ \A s \in Slots : PageHolds(s)
    /\ \A u \in Uploads : UploadHolds(u)
    /\ \A d \in Deletions : DeletionHolds(d)
    /\ \A r \in Readers : ReaderHolds(r)

-----------------------------------------------------------------------------
(* Types.                                                                    *)

LEMMA Constants ==
    /\ None \notin Paths /\ None \notin Bytes /\ None \notin PageRow
    /\ Damaged \notin Contents /\ Slots \intersect Uploads = {}
BY PageAssumption, RowAssumption DEF Paths, Bytes

LEMMA IdleType == Idle \in UploadState /\ [Idle EXCEPT !.pc = "done"] \in UploadState
BY DEF Idle, UploadState, Row

LEMMA RowType ==
    ASSUME PagesTypeOK, NEW s \in Slots, page[s] # None
    PROVE  page[s] \in PageRow
BY DEF PagesTypeOK, Row

LEMMA NoDerivedType == NoDerived \in [Kinds -> Bytes \union {None}]
BY DEF NoDerived

LEMMA BecomeType ==
    ASSUME PagesTypeOK, NEW u \in Uploads, NEW state \in UploadState, Become(u, state)
    PROVE  /\ uploading' \in [Uploads -> UploadState] /\ uploading'[u] = state
           /\ \A v \in Uploads \ {u} : uploading'[v] = uploading[v]
BY DEF PagesTypeOK, Become

-----------------------------------------------------------------------------
(* What a step does not disturb.  U holds the upload that moves, if one does. *)

LEMMA Frame ==
    ASSUME PagesTypeOK, RowsHold, NEW U \in SUBSET Uploads,
           \A v \in Uploads \ U : uploading'[v] = uploading[v],
           \A v \in Uploads \ U : ~Committed(v) => object'[v] = object[v],
           \A v \in U : Committed(v) => Committed(v)',
           \A p \in Paths : \/ object'[p] \in {object[p], None}
                            \/ p \in Uploads /\ ~Committed(p),
           \A p \in Paths : Referenced(p)' => Referenced(p) \/ (p \in Uploads /\ ~Committed(p))
    PROVE  /\ \A row \in PageRow : Sound(row) => Sound(row)'
           /\ \A p \in Paths : Doomed(p) => Doomed(p)'
           /\ \A p \in Paths : Doomed(p) /\ ~Retained(p) => ~Retained(p)'
           /\ \A v \in Uploads \ U : UploadHolds(v)'
           /\ \A d \in Deletions : deleting'[d] = deleting[d] => DeletionHolds(d)'
           /\ \A r \in Readers : reading'[r] = reading[r] => ReaderHolds(r)'
<1>1. \A v \in Uploads : Committed(v) => Committed(v)'
  BY DEF Committed
<1>2. ASSUME NEW row \in PageRow, Sound(row) PROVE Sound(row)'
  <2>1. row.path \in Paths
    BY DEF PageRow
  <2>2. object'[row.path] \in {object[row.path], None}
    BY <1>2, <2>1 DEF Sound
  <2> QED BY <1>1, <1>2, <2>1, <2>2 DEF Sound
<1>3. ASSUME NEW p \in Paths, Doomed(p) PROVE Doomed(p)'
  BY <1>1, <1>3 DEF Doomed
<1>4. ASSUME NEW p \in Paths, Doomed(p), ~Retained(p) PROVE ~Retained(p)'
  BY <1>4 DEF Doomed, Retained
<1>5. ASSUME NEW v \in Uploads \ U PROVE UploadHolds(v)'
  <2>1. UploadHolds(v) /\ uploading'[v] = uploading[v]
    BY DEF RowsHold
  <2>2. uploading[v].pc \in Early => ~Committed(v)
    BY DEF Early, Committed
  <2>3. uploading[v].pc = "commit" => ~Committed(v)
    BY DEF Committed
  <2>4. uploading'[v].pc \in Early => object'[v] = None
    BY <2>1, <2>2 DEF UploadHolds
  <2>5. uploading'[v].pc = "commit" => Planned(v)'
    BY <2>1, <2>3 DEF UploadHolds, Planned
  <2>6. ASSUME uploading[v].pc \in {"lookup", "unlink"}
        PROVE  /\ Doomed(uploading[v].doomed)'
               /\ uploading[v].pc = "unlink" => ~Retained(uploading[v].doomed)'
    <3>2. PICK p \in Paths : p = uploading[v].doomed
      BY <2>1, <2>6 DEF UploadHolds, Doomed
    <3>3. Doomed(p) /\ (uploading[v].pc = "unlink" => ~Retained(p))
      BY <2>1, <2>6, <3>2 DEF UploadHolds
    <3>4. Doomed(p)' /\ (uploading[v].pc = "unlink" => ~Retained(p)')
      BY <1>3, <1>4, <3>3
    <3> QED BY <2>1, <3>2, <3>4 DEF Doomed, Retained, Referenced
  <2> QED BY <2>1, <2>4, <2>5, <2>6 DEF UploadHolds, SamePage
<1>6. ASSUME NEW d \in Deletions, deleting'[d] = deleting[d] PROVE DeletionHolds(d)'
  <2>1. DeletionHolds(d)
    BY DEF RowsHold
  <2>2. ASSUME deleting[d].pc \in {"lookup", "unlink"}
        PROVE  /\ Doomed(deleting[d].doomed)'
               /\ deleting[d].pc = "unlink" => ~Retained(deleting[d].doomed)'
    <3>2. PICK p \in Paths : p = deleting[d].doomed
      BY <2>1, <2>2 DEF DeletionHolds, Doomed
    <3>3. Doomed(p) /\ (deleting[d].pc = "unlink" => ~Retained(p))
      BY <2>1, <2>2, <3>2 DEF DeletionHolds
    <3>4. Doomed(p)' /\ (deleting[d].pc = "unlink" => ~Retained(p)')
      BY <1>3, <1>4, <3>3
    <3> QED BY <1>6, <3>2, <3>4 DEF Doomed, Retained, Referenced
  <2> QED BY <1>6, <2>1, <2>2 DEF DeletionHolds
<1>7. ASSUME NEW r \in Readers, reading'[r] = reading[r] PROVE ReaderHolds(r)'
  <2>1. ReaderHolds(r) /\ reading[r].seen \in Row
    BY DEF RowsHold, PagesTypeOK
  <2>2. ASSUME reading[r].pc \in {"seen", "read"} PROVE Sound(reading[r].seen)'
    <3>1. PICK row \in PageRow : row = reading[r].seen
      BY <2>1, <2>2 DEF ReaderHolds, Row
    <3>2. Sound(row)'
      BY <1>2, <2>1, <2>2, <3>1 DEF ReaderHolds
    <3> QED BY <1>7, <3>1, <3>2 DEF Sound
  <2> QED BY <1>7, <2>1, <2>2 DEF ReaderHolds
<1> QED BY <1>2, <1>3, <1>4, <1>5, <1>6, <1>7

LEMMA PagesRest ==
    ASSUME PagesTypeOK, RowsHold, \A row \in PageRow : Sound(row) => Sound(row)',
           NEW s \in Slots, page'[s] = page[s],
           page[s] # None => object'[page[s].path] = object[page[s].path]
    PROVE  PageHolds(s)'
<1> SUFFICES ASSUME page[s] # None
             PROVE  /\ Sound(page[s])'
                    /\ page[s].path \in Uploads => object'[page[s].path] = page[s].sum
                    /\ \A k \in Kinds : page[s].derived[k] \in {None, page[s].sum, Damaged}
  BY DEF PageHolds, Sound, Committed
<1>1. PageHolds(s) /\ page[s] \in PageRow
  BY RowType DEF RowsHold
<1>2. PICK row \in PageRow : row = page[s]
  BY <1>1
<1>3. Sound(row)'
  BY <1>1, <1>2 DEF PageHolds
<1> QED BY <1>1, <1>2, <1>3 DEF PageHolds, Sound

-----------------------------------------------------------------------------
(* Uploads.                                                                  *)

LEMMA QuietUpload ==
    ASSUME PagesTypeOK, RowsHold, NEW u \in Uploads, NEW state \in UploadState, Become(u, state),
           UNCHANGED <<page, object, deleting, reading>>, faults' \in Nat,
           Committed(u) => state.pc \in {"lookup", "unlink", "done"}, UploadHolds(u)'
    PROVE  PagesTypeOK' /\ RowsHold'
<1>1. /\ uploading' \in [Uploads -> UploadState] /\ uploading'[u] = state
      /\ \A v \in Uploads \ {u} : uploading'[v] = uploading[v]
  BY BecomeType
<1>2. PagesTypeOK'
  BY <1>1 DEF PagesTypeOK
<1>3. /\ \A v \in {u} : Committed(v) => Committed(v)'
      /\ \A p \in Paths : Referenced(p)' => Referenced(p)
  BY <1>1 DEF Committed, Referenced
<1>4. /\ \A row \in PageRow : Sound(row) => Sound(row)'
      /\ \A v \in Uploads \ {u} : UploadHolds(v)'
      /\ \A d \in Deletions : deleting'[d] = deleting[d] => DeletionHolds(d)'
      /\ \A r \in Readers : reading'[r] = reading[r] => ReaderHolds(r)'
  <2>1. \A v \in Uploads \ {u} : ~Committed(v) => object'[v] = object[v]
    OBVIOUS
  <2>2. \A p \in Paths : object'[p] = object[p]
    OBVIOUS
  <2>3. {u} \in SUBSET Uploads
    OBVIOUS
  <2> QED BY <1>1, <1>3, <2>1, <2>2, <2>3, Frame
<1>5. \A s \in Slots : PageHolds(s)'
  BY <1>4, PagesRest
<1> QED BY <1>2, <1>4, <1>5 DEF RowsHold

\* The fields an upload has before it plans anything.
LEMMA EarlyHolds ==
    ASSUME NEW u \in Uploads, object'[u] = None, uploading'[u].pc \in Early \ {"prepare"},
           uploading'[u].pc # "idle" => /\ uploading'[u].slot \in Slots
                                       /\ uploading'[u].content \in Contents,
           uploading'[u].force => uploading'[u].expected # None
    PROVE  UploadHolds(u)'
BY DEF UploadHolds, Early

LEMMA DoneHolds ==
    ASSUME NEW u \in Uploads, uploading'[u].pc = "done",
           uploading'[u].force => uploading'[u].expected # None
    PROVE  UploadHolds(u)'
BY DEF UploadHolds, Early

LEMMA FinishHolds ==
    ASSUME PagesTypeOK, NEW u \in Uploads, Finish(u)
    PROVE  UploadHolds(u)' /\ Become(u, [Idle EXCEPT !.pc = "done"])
<1>1. uploading'[u] = [Idle EXCEPT !.pc = "done"]
  BY BecomeType, IdleType DEF Finish
<1>2. uploading'[u].pc = "done" /\ ~uploading'[u].force
  BY <1>1 DEF Idle
<1> QED BY <1>2, DoneHolds DEF Finish

LEMMA FinishStep ==
    ASSUME PagesTypeOK, RowsHold, NEW u \in Uploads, Finish(u),
           UNCHANGED <<page, object, deleting, reading>>, faults' \in Nat
    PROVE  PagesTypeOK' /\ RowsHold'
<1>1. [Idle EXCEPT !.pc = "done"].pc = "done"
  BY DEF Idle
<1> QED BY <1>1, FinishHolds, IdleType, QuietUpload DEF Finish

LEMMA SubmitStep ==
    ASSUME PagesTypeOK, RowsHold, NEW u \in Uploads, Submit(u)
    PROVE  PagesTypeOK' /\ RowsHold'
<1>1. PICK s \in Slots, c \in Contents, force \in BOOLEAN :
        /\ force => page[s] # None
        /\ Become(u, [Idle EXCEPT !.pc = IF force THEN "owner" ELSE "lock",
                                  !.slot = s, !.content = c, !.force = force,
                                  !.expected = IF force THEN page[s] ELSE None])
  BY DEF Submit
<1> DEFINE pc == IF force THEN "owner" ELSE "lock"
           expected == IF force THEN page[s] ELSE None
           state == [Idle EXCEPT !.pc = pc, !.slot = s, !.content = c, !.force = force,
                                 !.expected = expected]
<1>2. /\ pc \in {"owner", "lock"} /\ expected \in Row /\ (force => expected # None)
      /\ Become(u, state)
  BY <1>1 DEF PagesTypeOK, Row
<1> HIDE DEF pc, expected
<1>3. state \in UploadState
  BY <1>2, IdleType DEF UploadState
<1>4. /\ state.pc = pc /\ state.slot = s /\ state.content = c /\ state.force = force
      /\ state.expected = expected
  BY DEF Idle
<1> HIDE DEF state
<1>5. uploading'[u] = state /\ object' = object /\ object[u] = None /\ ~Committed(u)
  BY <1>2, <1>3, BecomeType DEF Submit, At, RowsHold, UploadHolds, Early, Committed
<1>6. UploadHolds(u)'
  BY <1>2, <1>4, <1>5, EarlyHolds DEF Early
<1> QED BY <1>2, <1>3, <1>5, <1>6, QuietUpload DEF Submit, PagesTypeOK

\* A step of a plain upload before it plans: only its own progress changes.
LEMMA ObserveSteps ==
    ASSUME PagesTypeOK, RowsHold, NEW u \in Uploads,
           LockContent(u) \/ FindDuplicate(u) \/ ObserveOwner(u)
    PROVE  PagesTypeOK' /\ RowsHold'
<1> DEFINE up == uploading[u]
<1>0. /\ up \in UploadState /\ up.pc \in {"lock", "find", "owner"} /\ object[u] = None /\ ~Committed(u)
      /\ up.slot \in Slots /\ up.content \in Contents /\ (up.force => up.expected # None)
      /\ UNCHANGED <<page, object, deleting, reading, faults>>
  BY DEF LockContent, FindDuplicate, ObserveOwner, At, RowsHold, UploadHolds, Early, Committed,
         PagesTypeOK
<1>q. ASSUME NEW state \in UploadState, Become(u, state), state.pc \in Early \ {"idle", "prepare"},
             state.slot = up.slot, state.content = up.content, state.force = up.force,
             state.expected = up.expected
      PROVE  PagesTypeOK' /\ RowsHold'
  <2>1. uploading'[u] = state
    BY <1>q, BecomeType
  <2>2. UploadHolds(u)'
    BY <1>0, <1>q, <2>1, EarlyHolds
  <2> QED BY <1>0, <1>q, <2>2, QuietUpload DEF PagesTypeOK
<1>1. CASE LockContent(u)
  <2> DEFINE state == [up EXCEPT !.pc = "find"]
  <2>1. state \in UploadState /\ state.pc = "find" /\ state.slot = up.slot
        /\ state.content = up.content /\ state.force = up.force /\ state.expected = up.expected
    BY <1>0 DEF UploadState
  <2>2. Become(u, state)
    BY <1>1 DEF LockContent
  <2> HIDE DEF state, up
  <2> QED BY <1>q, <2>1, <2>2 DEF Early
<1>2. CASE FindDuplicate(u)
  <2>1. CASE Finish(u)
    BY <1>0, <2>1, FinishStep DEF PagesTypeOK
  <2>2. CASE ~Finish(u)
    <3>1. \/ Become(u, [up EXCEPT !.pc = "owner", !.fresh = TRUE])
          \/ Become(u, [up EXCEPT !.pc = "owner", !.fresh = FALSE])
      BY <1>2, <2>2, Zenon DEF FindDuplicate
    <3>q. ASSUME NEW state \in UploadState, Become(u, state), state.pc = "owner",
                 state.slot = up.slot, state.content = up.content, state.force = up.force,
                 state.expected = up.expected
          PROVE  PagesTypeOK' /\ RowsHold'
      BY <1>q, <3>q DEF Early
    <3>2. CASE Become(u, [up EXCEPT !.pc = "owner", !.fresh = TRUE])
      <4> DEFINE state == [up EXCEPT !.pc = "owner", !.fresh = TRUE]
      <4>1. state \in UploadState /\ state.pc = "owner" /\ state.slot = up.slot
            /\ state.content = up.content /\ state.force = up.force
            /\ state.expected = up.expected
        BY <1>0 DEF UploadState
      <4> HIDE DEF state, up
      <4> QED BY <3>q, <3>2, <4>1 DEF state
    <3>3. CASE Become(u, [up EXCEPT !.pc = "owner", !.fresh = FALSE])
      <4> DEFINE state == [up EXCEPT !.pc = "owner", !.fresh = FALSE]
      <4>1. state \in UploadState /\ state.pc = "owner" /\ state.slot = up.slot
            /\ state.content = up.content /\ state.force = up.force
            /\ state.expected = up.expected
        BY <1>0 DEF UploadState
      <4> HIDE DEF state, up
      <4> QED BY <3>q, <3>3, <4>1 DEF state
    <3> QED BY <3>1, <3>2, <3>3
  <2> QED BY <2>1, <2>2
<1>3. CASE ObserveOwner(u)
  <2> DEFINE owner == IdOf(page[up.slot])
             state == [up EXCEPT !.pc = "page", !.owner = owner]
  <2>1. owner \in Paths \union {None} /\ Become(u, state)
    BY <1>0, <1>3, RowType DEF ObserveOwner, IdOf, PageRow
  <2> HIDE DEF owner
  <2>2. state \in UploadState /\ state.pc = "page" /\ state.slot = up.slot
        /\ state.content = up.content /\ state.force = up.force /\ state.expected = up.expected
    BY <1>0, <2>1 DEF UploadState
  <2> HIDE DEF state, up
  <2> QED BY <1>q, <2>1, <2>2 DEF Early
<1> QED BY <1>1, <1>2, <1>3

LEMMA ObservePageStep ==
    ASSUME PagesTypeOK, RowsHold, NEW u \in Uploads, ObservePage(u)
    PROVE  PagesTypeOK' /\ RowsHold'
<1> DEFINE up == uploading[u]
           row == page[up.slot]
           found == IF row # None /\ row.id = up.owner THEN row ELSE None
           state == [up EXCEPT !.pc = "prepare", !.seen = found]
<1>0. /\ up \in UploadState /\ up.pc = "page" /\ object[u] = None /\ ~Committed(u)
      /\ up.slot \in Slots /\ up.content \in Contents /\ (up.force => up.expected # None)
      /\ UNCHANGED <<page, object, deleting, reading, faults>>
  BY DEF ObservePage, At, RowsHold, UploadHolds, Early, Committed, PagesTypeOK
<1>1. CASE Finish(u)
  BY <1>0, <1>1, FinishStep DEF PagesTypeOK
<1>2. CASE ~Finish(u)
  <2>1. Become(u, state) /\ (up.force => SamePage(found, up.expected))
    BY <1>2 DEF ObservePage
  <2>2. found \in Row /\ (found # None => found.id = up.owner /\ found.path # u)
    BY <1>0, RowType DEF Row, RowsHold, PageHolds, Sound
  <2> HIDE DEF found
  <2>3. /\ state \in UploadState /\ state.pc = "prepare" /\ state.slot = up.slot
        /\ state.content = up.content /\ state.force = up.force /\ state.expected = up.expected
        /\ state.seen = found /\ state.owner = up.owner
    BY <1>0, <2>2 DEF UploadState
  <2> HIDE DEF state
  <2>4. uploading'[u] = state
    BY <2>1, <2>3, BecomeType
  <2>5. UploadHolds(u)'
    BY <1>0, <2>1, <2>2, <2>3, <2>4 DEF UploadHolds, Early, SamePage
  <2> QED BY <1>0, <2>1, <2>3, <2>5, QuietUpload DEF PagesTypeOK
<1> QED BY <1>1, <1>2

LEMMA LookupStep ==
    ASSUME PagesTypeOK, RowsHold, NEW u \in Uploads, LookupSuperseded(u)
    PROVE  PagesTypeOK' /\ RowsHold'
<1> DEFINE up == uploading[u]
           state == [up EXCEPT !.pc = "unlink"]
<1>0. /\ up \in UploadState /\ up.pc = "lookup" /\ UploadHolds(u)
      /\ UNCHANGED <<page, object, deleting, reading, faults>>
  BY DEF LookupSuperseded, At, RowsHold, PagesTypeOK
<1>1. CASE Finish(u)
  BY <1>0, <1>1, FinishStep DEF PagesTypeOK
<1>2. CASE ~Finish(u)
  <2>1. Become(u, state) /\ ~Retained(up.doomed)
    BY <1>2 DEF LookupSuperseded
  <2>2. /\ state \in UploadState /\ state.pc = "unlink" /\ state.doomed = up.doomed
        /\ state.force = up.force /\ state.expected = up.expected
        /\ state.slot = up.slot /\ state.content = up.content
    BY <1>0 DEF UploadState
  <2> HIDE DEF state
  <2>3. /\ uploading'[u] = state
        /\ \A v \in Uploads \ {u} : uploading'[v] = uploading[v]
    BY <2>1, <2>2, BecomeType
  <2>4. /\ Doomed(up.doomed) => Doomed(uploading[u].doomed)'
        /\ ~Retained(up.doomed) => ~Retained(uploading[u].doomed)'
    BY <1>0, <2>2, <2>3 DEF Doomed, Committed, Retained, Referenced
  <2>5. UploadHolds(u)'
    BY <1>0, <2>1, <2>2, <2>3, <2>4 DEF UploadHolds, Early
  <2> QED BY <1>0, <2>1, <2>2, <2>5, QuietUpload DEF PagesTypeOK
<1> QED BY <1>1, <1>2

LEMMA FailStep ==
    ASSUME PagesTypeOK, RowsHold, NEW u \in Uploads, UploadFails(u)
    PROVE  PagesTypeOK' /\ RowsHold'
BY FinishStep DEF UploadFails, PagesTypeOK

-----------------------------------------------------------------------------
(* Storing and committing.                                                   *)

Policies == {"keep", "repair", "invalidate", "reconcile", "replace"}

\* Every plan stores bytes under some policy, or keeps the observed object.
LEMMA PlansHold ==
    ASSUME PagesTypeOK, RowsHold, NEW u \in Uploads, At(u, "prepare"), NEW plan \in Plans(u)
    PROVE  \/ \E bytes \in Bytes, policy \in Policies :
                /\ plan = Store(bytes, policy)
                /\ uploading[u].seen = None => bytes = uploading[u].content
           \/ plan = NoStore("keep") /\ uploading[u].seen # None
           \/ plan = NoStore("replace") /\ uploading[u].force /\ uploading[u].seen # None
<1> DEFINE up == uploading[u]
           actual == Actual(u)
<1>1. /\ up \in UploadState /\ up.content \in Contents /\ UploadHolds(u) /\ up.pc = "prepare"
  BY DEF RowsHold, UploadHolds, At, PagesTypeOK
<1>2. actual \in Bytes \union {None} /\ (up.seen = None => actual = None)
  BY <1>1 DEF Actual, PagesTypeOK, UploadState, Row, PageRow
<1>3. /\ up.content \in Bytes
      /\ \A policy \in Policies : up.content \in Bytes /\ policy \in Policies
  BY <1>1 DEF Bytes
<1> HIDE DEF actual
<1>4. CASE up.force
  <2>1. up.seen # None
    BY <1>1, <1>4 DEF UploadHolds, SamePage
  <2>2. plan \in ForcePlans(u)
    BY <1>4 DEF Plans
  <2>3. \/ plan = NoStore("replace")
        \/ \E policy \in {"invalidate", "replace", "reconcile"} : plan = Store(up.content, policy)
    BY <2>2 DEF ForcePlans
  <2> QED BY <1>3, <1>4, <2>1, <2>3 DEF Policies
<1>5. CASE ~up.force
  <2>1. plan \in PlainPlans(u)
    BY <1>5 DEF Plans
  <2>2. \/ up.seen # None /\ plan = NoStore("keep")
        \/ \E policy \in {"keep", "repair", "invalidate"} : plan = Store(up.content, policy)
        \/ up.seen # None /\ actual # None /\ plan = Store(actual, "invalidate")
    BY <2>1 DEF PlainPlans, actual
  <2> QED BY <1>2, <1>3, <2>2 DEF Policies
<1> QED BY <1>4, <1>5

LEMMA PlanType ==
    ASSUME NEW up \in UploadState, NEW policy \in Policies, NEW sum \in Bytes \union {None},
           NEW path \in Paths \union {None}
    PROVE  [up EXCEPT !.pc = "commit", !.policy = policy, !.sum = sum, !.path = path]
             \in UploadState
<1> DEFINE state == [up EXCEPT !.pc = "commit", !.policy = policy, !.sum = sum, !.path = path]
<1>1. /\ state.pc = "commit" /\ state.slot = up.slot /\ state.content = up.content
      /\ state.force = up.force /\ state.fresh = up.fresh /\ state.expected = up.expected
      /\ state.owner = up.owner /\ state.seen = up.seen /\ state.policy = policy
      /\ state.sum = sum /\ state.path = path /\ state.doomed = up.doomed
  BY DEF UploadState
<1>2. policy \in {"keep", "repair", "invalidate", "reconcile", "replace"}
  BY DEF Policies
<1> QED BY <1>1, <1>2 DEF UploadState

\* The row of a slot never refers to an upload that has not settled.
LEMMA NotReferenced ==
    ASSUME PagesTypeOK, RowsHold, NEW p \in Uploads, ~Committed(p)
    PROVE  ~Referenced(p)
BY DEF RowsHold, PageHolds, Sound, Referenced

LEMMA PrepareStep ==
    ASSUME PagesTypeOK, RowsHold, NEW u \in Uploads, Prepare(u)
    PROVE  PagesTypeOK' /\ RowsHold'
<1> DEFINE up == uploading[u]
<1>0. /\ up \in UploadState /\ up.pc = "prepare" /\ object[u] = None /\ ~Committed(u)
      /\ UploadHolds(u) /\ up.slot \in Slots /\ up.content \in Contents
      /\ UNCHANGED <<page, deleting, reading, faults>>
  BY DEF Prepare, At, RowsHold, UploadHolds, Early, Committed, PagesTypeOK
<1>1. CASE Finish(u) /\ UNCHANGED object
  BY <1>0, <1>1, FinishStep DEF PagesTypeOK
<1>2. ASSUME NEW plan \in Plans(u),
             Become(u, [up EXCEPT !.pc = "commit", !.policy = plan.policy,
                          !.sum = IF plan.store THEN plan.bytes ELSE up.seen.sum,
                          !.path = IF plan.store THEN u ELSE up.seen.path]),
             IF plan.store THEN object' = [object EXCEPT ![u] = plan.bytes] ELSE UNCHANGED object
      PROVE  PagesTypeOK' /\ RowsHold'
  <2>1. ASSUME NEW bytes \in Bytes, NEW policy \in Policies, plan = Store(bytes, policy),
               up.seen = None => bytes = up.content
        PROVE  PagesTypeOK' /\ RowsHold'
    <3> DEFINE state == [up EXCEPT !.pc = "commit", !.policy = policy, !.sum = bytes, !.path = u]
    <3>1. Become(u, state) /\ object' = [object EXCEPT ![u] = bytes]
      BY <1>2, <2>1 DEF Store
    <3>2. /\ state \in UploadState /\ state.pc = "commit" /\ state.slot = up.slot
          /\ state.content = up.content /\ state.force = up.force /\ state.seen = up.seen
          /\ state.expected = up.expected /\ state.owner = up.owner
          /\ state.sum = bytes /\ state.path = u
      <4>1. u \in Paths \union {None} /\ bytes \in Bytes \union {None}
        BY DEF Paths
      <4>2. state \in UploadState
        BY <1>0, <4>1, PlanType
      <4> QED BY <1>0, <4>2 DEF UploadState
    <3> HIDE DEF state
    <3>3. /\ uploading' \in [Uploads -> UploadState] /\ uploading'[u] = state
          /\ \A v \in Uploads \ {u} : uploading'[v] = uploading[v]
      BY <3>1, <3>2, BecomeType
    <3>4. /\ object' \in [Paths -> Bytes \union {None}] /\ object'[u] = bytes
          /\ \A p \in Paths \ {u} : object'[p] = object[p]
      BY <3>1 DEF PagesTypeOK, Paths
    <3>5. /\ {u} \in SUBSET Uploads
          /\ \A v \in Uploads \ {u} : ~Committed(v) => object'[v] = object[v]
          /\ \A v \in {u} : Committed(v) => Committed(v)'
          /\ \A p \in Paths : Referenced(p)' => Referenced(p)
      BY <1>0, <3>4 DEF Paths, Referenced
    <3>6. \A p \in Paths : \/ object'[p] \in {object[p], None}
                           \/ p \in Uploads /\ ~Committed(p)
      BY <1>0, <3>4
    <3>7. /\ \A row \in PageRow : Sound(row) => Sound(row)'
          /\ \A v \in Uploads \ {u} : UploadHolds(v)'
          /\ \A d \in Deletions : deleting'[d] = deleting[d] => DeletionHolds(d)'
          /\ \A r \in Readers : reading'[r] = reading[r] => ReaderHolds(r)'
      BY <3>3, <3>5, <3>6, Frame
    <3>8. \A s \in Slots : page[s] # None => object'[page[s].path] = object[page[s].path]
      BY <1>0, <3>4, RowType, NotReferenced DEF PageRow, Referenced
    <3>9. \A s \in Slots : PageHolds(s)'
      BY <1>0, <3>7, <3>8, PagesRest
    <3>10. UploadHolds(u)'
      BY <1>0, <2>1, <3>2, <3>3, <3>4, Constants DEF UploadHolds, Planned, SamePage, Early
    <3>11. PagesTypeOK'
      BY <1>0, <3>3, <3>4 DEF PagesTypeOK
    <3> QED BY <1>0, <3>7, <3>9, <3>10, <3>11 DEF RowsHold
  <2>2. ASSUME NEW policy \in {"keep", "replace"}, plan = NoStore(policy), up.seen # None,
               policy = "replace" => up.force
        PROVE  PagesTypeOK' /\ RowsHold'
    <3> DEFINE state == [up EXCEPT !.pc = "commit", !.policy = policy, !.sum = up.seen.sum,
                                   !.path = up.seen.path]
    <3>1. Become(u, state) /\ object' = object
      BY <1>2, <2>2 DEF NoStore
    <3>2. up.seen \in PageRow
      BY <1>0, <2>2 DEF UploadState, Row
    <3>3. /\ state \in UploadState /\ state.pc = "commit" /\ state.slot = up.slot
          /\ state.content = up.content /\ state.force = up.force /\ state.seen = up.seen
          /\ state.expected = up.expected /\ state.owner = up.owner
          /\ state.sum = up.seen.sum /\ state.path = up.seen.path /\ state.policy = policy
      BY <1>0, <3>2 DEF UploadState, PageRow
    <3> HIDE DEF state
    <3>4. uploading'[u] = state
      BY <3>1, <3>3, BecomeType
    <3>5. UploadHolds(u)'
      BY <1>0, <2>2, <3>1, <3>3, <3>4 DEF UploadHolds, Planned, SamePage, Early
    <3> QED BY <1>0, <3>1, <3>3, <3>5, QuietUpload DEF PagesTypeOK
  <2> QED BY <1>0, <2>1, <2>2, PlansHold DEF At
<1> QED BY <1>1, <1>2 DEF Prepare

Put(s, row) == page' = [page EXCEPT ![s] = row]

\* The commit writes one row, or none; no object changes.
LEMMA CommitFrame ==
    ASSUME PagesTypeOK, RowsHold, NEW u \in Uploads, ~Committed(u),
           NEW state \in UploadState, Become(u, state),
           NEW s \in Slots, NEW row \in PageRow, Put(s, row), row.path = u,
           UNCHANGED <<object, deleting, reading, faults>>
    PROVE  /\ PagesTypeOK' /\ uploading'[u] = state /\ page'[s] = row
           /\ \A v \in Uploads \ {u} : UploadHolds(v)'
           /\ \A r \in PageRow : Sound(r) => Sound(r)'
           /\ \A p \in Paths : Doomed(p) => Doomed(p)'
           /\ \A d \in Deletions : DeletionHolds(d)'
           /\ \A r \in Readers : ReaderHolds(r)'
           /\ \A t \in Slots \ {s} : PageHolds(t)'
<1>1. /\ uploading' \in [Uploads -> UploadState] /\ uploading'[u] = state
      /\ \A v \in Uploads \ {u} : uploading'[v] = uploading[v]
  BY BecomeType
<1>2. /\ page' \in [Slots -> Row] /\ page'[s] = row
      /\ \A t \in Slots \ {s} : page'[t] = page[t]
  BY DEF PagesTypeOK, Row, Put
<1>3. PagesTypeOK'
  BY <1>1, <1>2 DEF PagesTypeOK
<1>4. /\ {u} \in SUBSET Uploads
      /\ \A v \in Uploads \ {u} : ~Committed(v) => object'[v] = object[v]
      /\ \A v \in {u} : Committed(v) => Committed(v)'
  OBVIOUS
<1>5. \A p \in Paths : \/ object'[p] \in {object[p], None}
                       \/ p \in Uploads /\ ~Committed(p)
  OBVIOUS
<1>6. \A p \in Paths : Referenced(p)' => Referenced(p) \/ (p \in Uploads /\ ~Committed(p))
  BY <1>2 DEF Referenced
<1>7. /\ \A r \in PageRow : Sound(r) => Sound(r)'
      /\ \A p \in Paths : Doomed(p) => Doomed(p)'
      /\ \A v \in Uploads \ {u} : UploadHolds(v)'
      /\ \A d \in Deletions : deleting'[d] = deleting[d] => DeletionHolds(d)'
      /\ \A r \in Readers : reading'[r] = reading[r] => ReaderHolds(r)'
  BY <1>1, <1>4, <1>5, <1>6, Frame
<1>8. \A t \in Slots \ {s} : PageHolds(t)'
  BY <1>2, <1>7, PagesRest
<1> QED BY <1>1, <1>2, <1>3, <1>7, <1>8

\* The row an upload creates is its own, and only a plain upload creates one.
LEMMA CreateRow ==
    ASSUME PagesTypeOK, RowsHold, NEW u \in Uploads, At(u, "commit"), ~Conflicts(u),
           page[uploading[u].slot] = None
    PROVE  /\ Create(u) \in PageRow /\ Create(u).path = u /\ Create(u).sum = uploading[u].sum
           /\ object[u] = uploading[u].sum /\ uploading[u].sum = uploading[u].content
           /\ ~uploading[u].force /\ (Create(u).origin = "unique" => uploading[u].fresh)
           /\ \A k \in Kinds : Create(u).derived[k] \in {None, uploading[u].sum}
<1> DEFINE up == uploading[u]
<1>0. up \in UploadState /\ UploadHolds(u) /\ Planned(u) /\ up.pc = "commit"
  BY DEF At, RowsHold, UploadHolds, PagesTypeOK
<1>1. up.owner = None /\ up.expected = None
  BY DEF Conflicts, IdOf, SamePage
<1>2. up.seen = None
  BY <1>0, <1>1, Constants DEF UploadHolds, UploadState, Row, PageRow
<1>3. up.path = u /\ object[u] = up.sum /\ up.sum \in Bytes /\ up.sum = up.content
  BY <1>0, <1>2 DEF Planned, UploadState
<1> DEFINE new == Create(u)
           derived == [NoDerived EXCEPT !["dimensions"] = up.sum]
           origin == IF up.fresh THEN "unique" ELSE "unchecked"
<1>4. /\ derived \in [Kinds -> Bytes \union {None}] /\ origin \in {"unique", "unchecked"}
      /\ \A k \in Kinds : derived[k] \in {None, up.sum}
      /\ new = [id |-> u, path |-> u, sum |-> up.sum, revision |-> 1, derived |-> derived,
                origin |-> origin]
  BY <1>3 DEF NoDerived, Kinds, Create
<1>5. origin = "unique" => up.fresh
  OBVIOUS
<1> HIDE DEF derived, origin, new
<1>6. /\ new \in PageRow /\ new.path = u /\ new.sum = up.sum /\ new.derived = derived
      /\ new.origin = origin
  BY <1>3, <1>4 DEF PageRow, Paths
<1>7. ~up.force
  BY <1>0, <1>1 DEF UploadHolds
<1> QED BY <1>3, <1>4, <1>5, <1>6, <1>7 DEF new

\* The row an upload rewrites gets the object of that upload.
LEMMA RewriteRow ==
    ASSUME PagesTypeOK, RowsHold, NEW u \in Uploads, At(u, "commit"), ~Conflicts(u),
           page[uploading[u].slot] # None, ~Keeps(u, page[uploading[u].slot])
    PROVE  LET new == Rewrite(u, page[uploading[u].slot])
               row == page[uploading[u].slot] IN
           /\ new \in PageRow /\ new.path = u /\ new.sum = uploading[u].sum
           /\ uploading[u].path = u /\ object[u] = uploading[u].sum
           /\ \A k \in Kinds : new.derived[k] \in {None, uploading[u].sum, Damaged}
           /\ row \in PageRow /\ row.path # u /\ Doomed(row.path)
           /\ new.origin = "unique" => row.origin = "unique" /\ new.sum = row.sum
<1> DEFINE up == uploading[u]
           row == page[up.slot]
<1>0. /\ up \in UploadState /\ UploadHolds(u) /\ Planned(u) /\ up.pc = "commit" /\ ~Committed(u)
      /\ up.slot \in Slots
  BY DEF At, RowsHold, UploadHolds, PagesTypeOK, Committed
<1>1. row \in PageRow /\ PageHolds(up.slot) /\ row.path # u /\ Doomed(row.path)
  BY <1>0, RowType DEF RowsHold, PageHolds, Sound, Doomed, PageRow
<1>2. up.path = u /\ object[u] = up.sum /\ up.sum \in Bytes
  <2>1. CASE up.path = u
    BY <1>0, <2>1 DEF Planned, UploadState
  <2>2. CASE up.path # u
    <3>1. up.force /\ up.policy = "replace" /\ up.sum = up.seen.sum /\ up.path = up.seen.path
      BY <1>0, <2>2 DEF Planned, Keeps
    <3>2. up.expected # None /\ SamePage(up.seen, up.expected)
      BY <1>0, <3>1 DEF UploadHolds
    <3>3. SamePage(row, up.expected)
      BY <3>2 DEF Conflicts
    <3> QED BY <3>1, <3>2, <3>3 DEF SamePage, Keeps
  <2> QED BY <2>1, <2>2
<1> DEFINE derived == DerivedAfter(u, row)
           changed == up.sum # row.sum \/ up.policy = "invalidate"
           next == row.revision + 1
           revision == IF changed THEN next ELSE row.revision
           origin == IF changed THEN "replaced" ELSE row.origin
           new == [row EXCEPT !.path = up.path, !.sum = up.sum, !.derived = derived,
                              !.revision = revision, !.origin = origin]
<1>3. /\ derived \in [Kinds -> Bytes \union {None}]
      /\ \A k \in Kinds : derived[k] \in {None, up.sum, Damaged}
  <2>1. row.derived \in [Kinds -> Bytes \union {None}]
        /\ \A k \in Kinds : row.derived[k] \in {None, row.sum, Damaged}
    BY <1>1 DEF PageHolds, PageRow
  <2>2. CASE changed
    <3>1. derived = [NoDerived EXCEPT !["dimensions"] = object[up.path]]
      BY <2>2 DEF DerivedAfter
    <3> QED BY <1>2, <3>1 DEF NoDerived, Kinds
  <2>3. CASE ~changed
    <3>1. derived = [row.derived EXCEPT !["dimensions"] = object[up.path]]
      BY <2>3 DEF DerivedAfter
    <3> QED BY <1>2, <2>1, <2>3, <3>1 DEF Kinds
  <2> QED BY <2>2, <2>3
<1>4. next \in Nat
  BY <1>1 DEF PageRow
<1> HIDE DEF next
<1>5. /\ revision \in Nat /\ origin \in {"initial", "unique", "unchecked", "replaced"}
      /\ Rewrite(u, row) = new
      /\ origin = "unique" => row.origin = "unique" /\ up.sum = row.sum
  BY <1>1, <1>4 DEF PageRow, Rewrite, next
<1> HIDE DEF derived, revision, origin
<1>6. /\ new \in PageRow /\ new.path = u /\ new.sum = up.sum /\ new.derived = derived
      /\ new.origin = origin
  BY <1>1, <1>2, <1>3, <1>5 DEF PageRow, Paths
<1> HIDE DEF new
<1> QED BY <1>1, <1>2, <1>3, <1>5, <1>6

LEMMA CommitPageStep ==
    ASSUME PagesTypeOK, RowsHold, NEW u \in Uploads, CommitPage(u)
    PROVE  PagesTypeOK' /\ RowsHold'
<1> DEFINE up == uploading[u]
           row == page[up.slot]
<1>0. /\ up \in UploadState /\ up.pc = "commit" /\ UploadHolds(u) /\ Planned(u) /\ ~Committed(u)
      /\ up.slot \in Slots /\ up.content \in Contents
      /\ UNCHANGED <<object, deleting, reading, faults>>
  BY DEF CommitPage, At, RowsHold, UploadHolds, Committed, PagesTypeOK
<1>1. CASE Conflicts(u) /\ Reject(u) /\ UNCHANGED page
  <2> DEFINE pc == IF up.path = u THEN "unused" ELSE "done"
             state == [up EXCEPT !.pc = pc, !.doomed = None]
  <2>1. Become(u, state) /\ pc \in {"unused", "done"}
    BY <1>0, <1>1 DEF Reject, Become
  <2> HIDE DEF pc
  <2>2. /\ state \in UploadState /\ state.pc = pc /\ state.slot = up.slot
        /\ state.content = up.content /\ state.force = up.force /\ state.expected = up.expected
    BY <1>0, <2>1 DEF UploadState
  <2> HIDE DEF state
  <2>3. uploading'[u] = state
    BY <2>1, <2>2, BecomeType
  <2>4. UploadHolds(u)'
    BY <1>0, <2>1, <2>2, <2>3 DEF UploadHolds, Early
  <2> QED BY <1>0, <1>1, <2>1, <2>2, <2>4, QuietUpload DEF PagesTypeOK
<1>2. CASE ~Conflicts(u) /\ row # None /\ Keeps(u, row) /\ Unchanged(u, row) /\ UNCHANGED page
  <2> DEFINE pc == IF up.path \in {u} \ {row.path} THEN "unused" ELSE "done"
             state == [up EXCEPT !.pc = pc]
  <2>1. Become(u, state) /\ pc \in {"unused", "done"}
    BY <1>2 DEF Unchanged
  <2> HIDE DEF pc
  <2>2. /\ state \in UploadState /\ state.pc = pc /\ state.slot = up.slot
        /\ state.content = up.content /\ state.force = up.force /\ state.expected = up.expected
    BY <1>0, <2>1 DEF UploadState
  <2> HIDE DEF state
  <2>3. uploading'[u] = state
    BY <2>1, <2>2, BecomeType
  <2>4. UploadHolds(u)'
    BY <1>0, <2>1, <2>2, <2>3 DEF UploadHolds, Early
  <2> QED BY <1>0, <1>2, <2>1, <2>2, <2>4, QuietUpload DEF PagesTypeOK
<1>3. CASE /\ ~Conflicts(u) /\ row = None
           /\ page' = [page EXCEPT ![up.slot] = Create(u)] /\ Finish(u)
  <2> DEFINE new == Create(u)
  <2>5. /\ new \in PageRow /\ new.path = u /\ new.sum = up.sum /\ object[u] = up.sum
        /\ \A k \in Kinds : new.derived[k] \in {None, new.sum, Damaged}
    BY <1>0, <1>3, CreateRow DEF At
  <2> HIDE DEF new
  <2>6. Become(u, [Idle EXCEPT !.pc = "done"]) /\ UploadHolds(u)'
        /\ [Idle EXCEPT !.pc = "done"].pc = "done"
    BY <1>3, FinishHolds DEF Idle
  <2>7. /\ PagesTypeOK' /\ uploading'[u] = [Idle EXCEPT !.pc = "done"] /\ page'[up.slot] = new
        /\ \A v \in Uploads \ {u} : UploadHolds(v)'
        /\ \A d \in Deletions : DeletionHolds(d)'
        /\ \A r \in Readers : ReaderHolds(r)'
        /\ \A t \in Slots \ {up.slot} : PageHolds(t)'
    <3>1. Put(up.slot, new)
      BY <1>3 DEF Put, new
    <3>2. new \in PageRow /\ new.path = u
      BY <2>5
    <3>3. [Idle EXCEPT !.pc = "done"] \in UploadState
      BY IdleType
    <3> QED BY <1>0, <2>6, <3>1, <3>2, <3>3, CommitFrame
  <2>8. \A s \in Slots : s = up.slot => PageHolds(s)'
    <3>1. uploading'[u].pc = "done" /\ object'[u] = up.sum
      BY <1>0, <2>5, <2>6, <2>7
    <3>2. \A k \in Kinds : new.derived[k] \in {None, new.sum, Damaged}
      BY <2>5
    <3> SUFFICES ASSUME NEW s \in Slots, s = up.slot PROVE PageHolds(s)'
      OBVIOUS
    <3>3. page'[s] = new /\ new.path = u /\ new.sum = up.sum
      BY <2>5, <2>7
    <3> HIDE DEF up
    <3> QED BY <3>1, <3>2, <3>3 DEF PageHolds, Sound, Committed
  <2> QED BY <2>6, <2>7, <2>8, <1>0 DEF RowsHold
<1>4. CASE /\ ~Conflicts(u) /\ row # None /\ ~Keeps(u, row)
           /\ page' = [page EXCEPT ![up.slot] = Rewrite(u, row)]
           /\ Become(u, [up EXCEPT !.pc = IF row.path = up.path THEN "done" ELSE "lookup",
                                   !.doomed = row.path])
  <2> DEFINE new == Rewrite(u, row)
             state == [up EXCEPT !.pc = "lookup", !.doomed = row.path]
  <2>1. row \in PageRow /\ row.path # u /\ Doomed(row.path)
    BY <1>0, <1>4, RewriteRow DEF At
  <2>2. /\ up.path = u /\ object[u] = up.sum /\ new \in PageRow /\ new.path = u /\ new.sum = up.sum
        /\ \A k \in Kinds : new.derived[k] \in {None, up.sum, Damaged}
    BY <1>0, <1>4, RewriteRow DEF At
  <2> HIDE DEF new
  <2>7. Become(u, state)
    BY <1>4, <2>1, <2>2
  <2>8. /\ state \in UploadState /\ state.pc = "lookup" /\ state.slot = up.slot
        /\ state.content = up.content /\ state.force = up.force /\ state.expected = up.expected
        /\ state.doomed = row.path
    BY <1>0, <2>1 DEF UploadState, PageRow
  <2> HIDE DEF state
  <2>9. /\ PagesTypeOK' /\ uploading'[u] = state /\ page'[up.slot] = new
        /\ \A v \in Uploads \ {u} : UploadHolds(v)'
        /\ \A p \in Paths : Doomed(p) => Doomed(p)'
        /\ \A d \in Deletions : DeletionHolds(d)'
        /\ \A r \in Readers : ReaderHolds(r)'
        /\ \A t \in Slots \ {up.slot} : PageHolds(t)'
    <3>1. Put(up.slot, new)
      BY <1>4 DEF Put, new
    <3>2. new \in PageRow /\ new.path = u
      BY <2>2
    <3>3. state \in UploadState /\ Become(u, state)
      BY <2>7, <2>8
    <3> QED BY <1>0, <3>1, <3>2, <3>3, CommitFrame
  <2>10. \A s \in Slots : s = up.slot => PageHolds(s)'
    BY <1>0, <2>2, <2>8, <2>9 DEF PageHolds, Sound, Committed
  <2>11. PICK path \in Paths : path = row.path /\ Doomed(path)'
    BY <2>1, <2>9 DEF PageRow
  <2>12. UploadHolds(u)'
    BY <1>0, <2>8, <2>9, <2>11 DEF UploadHolds, Early, Doomed
  <2> QED BY <1>0, <2>9, <2>10, <2>12 DEF RowsHold
<1> QED BY <1>1, <1>2, <1>3, <1>4 DEF CommitPage

-----------------------------------------------------------------------------
(* Reclaiming.                                                               *)

\* A settled path, or the candidate of the upload that removes it, may go.
LEMMA RemoveHolds ==
    ASSUME PagesTypeOK, RowsHold, NEW path \in Paths, Remove(path), ~Referenced(path),
           NEW U \in SUBSET Uploads, path \in Uploads => path \in U \/ Committed(path),
           \A v \in Uploads \ U : uploading'[v] = uploading[v],
           \A v \in U : Committed(v) => Committed(v)',
           UNCHANGED <<page, reading>>
    PROVE  /\ object' \in [Paths -> Bytes \union {None}]
           /\ \A v \in Uploads \ U : UploadHolds(v)'
           /\ \A d \in Deletions : deleting'[d] = deleting[d] => DeletionHolds(d)'
           /\ \A r \in Readers : ReaderHolds(r)'
           /\ \A s \in Slots : PageHolds(s)'
<1>1. /\ object' \in [Paths -> Bytes \union {None}] /\ object'[path] = None
      /\ \A p \in Paths \ {path} : object'[p] = object[p]
  BY DEF Remove, PagesTypeOK
<1>2. \A v \in Uploads \ U : ~Committed(v) => object'[v] = object[v]
  BY <1>1 DEF Paths
<1>3. \A p \in Paths : \/ object'[p] \in {object[p], None}
                       \/ p \in Uploads /\ ~Committed(p)
  BY <1>1
<1>4. \A p \in Paths : Referenced(p)' => Referenced(p)
  BY DEF Referenced
<1>5. /\ \A row \in PageRow : Sound(row) => Sound(row)'
      /\ \A v \in Uploads \ U : UploadHolds(v)'
      /\ \A d \in Deletions : deleting'[d] = deleting[d] => DeletionHolds(d)'
      /\ \A r \in Readers : reading'[r] = reading[r] => ReaderHolds(r)'
  BY <1>2, <1>3, <1>4, Frame
<1>6. \A s \in Slots : page[s] # None => object'[page[s].path] = object[page[s].path]
  BY <1>1, RowType DEF Referenced, PageRow
<1>7. \A s \in Slots : PageHolds(s)'
  BY <1>5, <1>6, PagesRest
<1> QED BY <1>1, <1>5, <1>7

LEMMA RemoveUnusedStep ==
    ASSUME PagesTypeOK, RowsHold, NEW u \in Uploads,
           RemoveUnused(u) \/ UnlinkSuperseded(u)
    PROVE  PagesTypeOK' /\ RowsHold'
<1>1. /\ Finish(u) /\ UNCHANGED <<page, deleting, reading, faults>>
      /\ uploading[u].pc \in {"unused", "unlink"} /\ UploadHolds(u)
  BY DEF RemoveUnused, UnlinkSuperseded, At, RowsHold
<1>2. PICK path \in Paths :
        /\ Remove(path) /\ ~Referenced(path)
        /\ path \in Uploads => path \in {u} \/ Committed(path)
  <2>1. CASE RemoveUnused(u)
    <3>1. ~Committed(u) /\ u \in Paths /\ Remove(u)
      BY <2>1 DEF RemoveUnused, At, Committed, Paths
    <3> QED BY <3>1, NotReferenced
  <2>2. CASE UnlinkSuperseded(u)
    BY <1>1, <2>2 DEF UnlinkSuperseded, At, UploadHolds, Doomed, Retained
  <2> QED BY <2>1, <2>2
<1>3. /\ uploading' \in [Uploads -> UploadState]
      /\ uploading'[u] = [Idle EXCEPT !.pc = "done"]
      /\ \A v \in Uploads \ {u} : uploading'[v] = uploading[v]
  BY <1>1, IdleType, BecomeType DEF Finish
<1>4. UploadHolds(u)' /\ \A v \in {u} : Committed(v) => Committed(v)'
  BY <1>1, <1>3, FinishHolds DEF Committed, Idle
<1>5. {u} \in SUBSET Uploads
  OBVIOUS
<1>6. /\ object' \in [Paths -> Bytes \union {None}]
      /\ \A v \in Uploads \ {u} : UploadHolds(v)'
      /\ \A d \in Deletions : deleting'[d] = deleting[d] => DeletionHolds(d)'
      /\ \A r \in Readers : ReaderHolds(r)'
      /\ \A s \in Slots : PageHolds(s)'
  BY <1>1, <1>2, <1>3, <1>4, <1>5, RemoveHolds
<1>7. PagesTypeOK'
  BY <1>1, <1>3, <1>6 DEF PagesTypeOK
<1> QED BY <1>1, <1>4, <1>6, <1>7 DEF RowsHold

-----------------------------------------------------------------------------
(* Deletions and readers.                                                    *)

\* A step that stores nothing, and removes at most a row.
LEMMA PagesQuietStep ==
    ASSUME PagesTypeOK, RowsHold, UNCHANGED <<object, uploading>>,
           \A p \in Paths : Referenced(p)' => Referenced(p)
    PROVE  /\ \A row \in PageRow : Sound(row) => Sound(row)'
           /\ \A p \in Paths : Doomed(p) => Doomed(p)'
           /\ \A p \in Paths : Doomed(p) /\ ~Retained(p) => ~Retained(p)'
           /\ \A v \in Uploads : UploadHolds(v)'
           /\ \A d \in Deletions : deleting'[d] = deleting[d] => DeletionHolds(d)'
           /\ \A r \in Readers : reading'[r] = reading[r] => ReaderHolds(r)'
           /\ \A s \in Slots : page'[s] = page[s] => PageHolds(s)'
<1>1. /\ {} \in SUBSET Uploads
      /\ \A v \in Uploads \ {} : uploading'[v] = uploading[v]
      /\ \A v \in Uploads \ {} : ~Committed(v) => object'[v] = object[v]
      /\ \A v \in {} : Committed(v) => Committed(v)'
  OBVIOUS
<1>2. \A p \in Paths : \/ object'[p] \in {object[p], None}
                       \/ p \in Uploads /\ ~Committed(p)
  OBVIOUS
<1>3. /\ \A row \in PageRow : Sound(row) => Sound(row)'
      /\ \A p \in Paths : Doomed(p) => Doomed(p)'
      /\ \A p \in Paths : Doomed(p) /\ ~Retained(p) => ~Retained(p)'
      /\ \A v \in Uploads \ {} : UploadHolds(v)'
      /\ \A d \in Deletions : deleting'[d] = deleting[d] => DeletionHolds(d)'
      /\ \A r \in Readers : reading'[r] = reading[r] => ReaderHolds(r)'
  BY <1>1, <1>2, Frame
<1>4. \A s \in Slots : page'[s] = page[s] => PageHolds(s)'
  BY <1>3, PagesRest
<1> QED BY <1>3, <1>4

Deletion == [pc : {"idle", "confirmed", "lookup", "unlink", "done"}, slot : Slots \union {None},
             seen : Row, doomed : Paths \union {None}]

Move(d, state) == deleting' = [deleting EXCEPT ![d] = state]

LEMMA MoveType ==
    ASSUME PagesTypeOK, NEW d \in Deletions, NEW state \in Deletion, Move(d, state)
    PROVE  /\ deleting' \in [Deletions -> Deletion] /\ deleting'[d] = state
           /\ \A e \in Deletions \ {d} : deleting'[e] = deleting[e]
BY DEF PagesTypeOK, Deletion, Move

\* A deletion moves and stores nothing.
LEMMA QuietDeletion ==
    ASSUME PagesTypeOK, RowsHold, NEW d \in Deletions, NEW state \in Deletion, Move(d, state),
           UNCHANGED <<page, object, uploading, reading>>, faults' \in Nat, DeletionHolds(d)'
    PROVE  PagesTypeOK' /\ RowsHold'
<1>1. /\ deleting' \in [Deletions -> Deletion] /\ deleting'[d] = state
      /\ \A e \in Deletions \ {d} : deleting'[e] = deleting[e]
  BY MoveType
<1>2. \A p \in Paths : Referenced(p)' => Referenced(p)
  BY DEF Referenced
<1>3. /\ \A v \in Uploads : UploadHolds(v)'
      /\ \A e \in Deletions : deleting'[e] = deleting[e] => DeletionHolds(e)'
      /\ \A r \in Readers : reading'[r] = reading[r] => ReaderHolds(r)'
      /\ \A s \in Slots : page'[s] = page[s] => PageHolds(s)'
  BY <1>2, PagesQuietStep
<1>4. PagesTypeOK'
  BY <1>1 DEF PagesTypeOK, Deletion
<1> QED BY <1>1, <1>3, <1>4 DEF RowsHold

LEMMA DeletionStep ==
    ASSUME PagesTypeOK, RowsHold, NEW d \in Deletions,
           ConfirmDeletion(d) \/ LookupDeleted(d) \/ CleanupFails(d)
    PROVE  PagesTypeOK' /\ RowsHold'
<1>0. deleting[d] \in Deletion /\ DeletionHolds(d)
  BY DEF PagesTypeOK, RowsHold, Deletion
<1>1. CASE ConfirmDeletion(d)
  <2>1. PICK s \in Slots :
          /\ page[s] # None
          /\ deleting' = [deleting EXCEPT ![d] =
                            [@ EXCEPT !.pc = "confirmed", !.slot = s, !.seen = page[s]]]
    BY <1>1 DEF ConfirmDeletion
  <2> DEFINE state == [deleting[d] EXCEPT !.pc = "confirmed", !.slot = s, !.seen = page[s]]
  <2>2. state \in Deletion /\ state.pc = "confirmed" /\ state.slot = s
    BY <1>0 DEF Deletion, PagesTypeOK
  <2>3. Move(d, state)
    BY <2>1 DEF Move
  <2> HIDE DEF state
  <2>4. deleting'[d] = state
    BY <2>2, <2>3, MoveType
  <2>5. DeletionHolds(d)'
    BY <2>2, <2>4 DEF DeletionHolds
  <2> QED BY <1>1, <2>2, <2>3, <2>5, QuietDeletion DEF ConfirmDeletion, PagesTypeOK
<1>2. CASE LookupDeleted(d)
  <2> DEFINE pc == IF Retained(deleting[d].doomed) THEN "done" ELSE "unlink"
             state == [deleting[d] EXCEPT !.pc = pc]
  <2>1. Move(d, state)
    BY <1>2 DEF LookupDeleted, Move
  <2>2. /\ pc \in {"done", "unlink"} /\ (pc = "unlink" => ~Retained(deleting[d].doomed))
    OBVIOUS
  <2> HIDE DEF pc
  <2>3. state \in Deletion /\ state.pc = pc /\ state.doomed = deleting[d].doomed
    BY <1>0, <2>2 DEF Deletion
  <2> HIDE DEF state
  <2>4. deleting'[d] = state
    BY <2>1, <2>3, MoveType
  <2>5. Doomed(deleting[d].doomed) /\ deleting[d].doomed \in Paths
    BY <1>0, <1>2 DEF DeletionHolds, LookupDeleted, Doomed
  <2>6. DeletionHolds(d)'
    BY <1>2, <2>2, <2>3, <2>4, <2>5
    DEF DeletionHolds, Doomed, Committed, Retained, Referenced, LookupDeleted
  <2> QED BY <1>2, <2>1, <2>3, <2>6, QuietDeletion DEF LookupDeleted, PagesTypeOK
<1>3. CASE CleanupFails(d)
  <2> DEFINE state == [deleting[d] EXCEPT !.pc = "done"]
  <2>1. Move(d, state)
    BY <1>3 DEF CleanupFails, Move
  <2>2. state \in Deletion /\ state.pc = "done"
    BY <1>0 DEF Deletion
  <2> HIDE DEF state
  <2>3. DeletionHolds(d)'
    BY <2>1, <2>2, MoveType DEF DeletionHolds
  <2> QED BY <1>3, <2>1, <2>2, <2>3, QuietDeletion DEF CleanupFails, PagesTypeOK
<1> QED BY <1>1, <1>2, <1>3

LEMMA DeleteGroupStep ==
    ASSUME PagesTypeOK, RowsHold, NEW d \in Deletions, DeleteGroup(d)
    PROVE  PagesTypeOK' /\ RowsHold'
<1> DEFINE del == deleting[d]
           row == page[del.slot]
<1>0. /\ del \in Deletion /\ DeletionHolds(d) /\ del.pc = "confirmed" /\ del.slot \in Slots
      /\ UNCHANGED <<object, uploading, reading, faults>>
  BY DEF PagesTypeOK, RowsHold, Deletion, DeletionHolds, DeleteGroup
<1>1. CASE deleting' = [deleting EXCEPT ![d] = [del EXCEPT !.pc = "done"]] /\ UNCHANGED page
  <2> DEFINE state == [del EXCEPT !.pc = "done"]
  <2>1. Move(d, state)
    BY <1>1 DEF Move
  <2>2. state \in Deletion /\ state.pc = "done"
    BY <1>0 DEF Deletion
  <2> HIDE DEF state
  <2>3. DeletionHolds(d)'
    BY <2>1, <2>2, MoveType DEF DeletionHolds
  <2> QED BY <1>0, <1>1, <2>1, <2>2, <2>3, QuietDeletion DEF PagesTypeOK
<1>2. CASE /\ row # None
           /\ page' = [page EXCEPT ![del.slot] = None]
           /\ deleting' = [deleting EXCEPT ![d] = [del EXCEPT !.pc = "lookup", !.doomed = row.path]]
  <2> DEFINE state == [del EXCEPT !.pc = "lookup", !.doomed = row.path]
  <2>1. row \in PageRow /\ Doomed(row.path) /\ row.path \in Paths
    BY <1>0, <1>2, RowType DEF RowsHold, PageHolds, Sound, Doomed, PageRow
  <2>2. Move(d, state)
    BY <1>2 DEF Move
  <2>3. state \in Deletion /\ state.pc = "lookup" /\ state.doomed = row.path
    BY <1>0, <2>1 DEF Deletion
  <2> HIDE DEF state
  <2>4. /\ deleting' \in [Deletions -> Deletion] /\ deleting'[d] = state
        /\ \A e \in Deletions \ {d} : deleting'[e] = deleting[e]
    BY <2>2, <2>3, MoveType
  <2>5. /\ page' \in [Slots -> Row]
        /\ \A s \in Slots : page'[s] = page[s] \/ page'[s] = None
    BY <1>0, <1>2 DEF PagesTypeOK, Row
  <2>6. \A p \in Paths : Referenced(p)' => Referenced(p)
    BY <2>5 DEF Referenced
  <2>7. /\ \A p \in Paths : Doomed(p) => Doomed(p)'
        /\ \A v \in Uploads : UploadHolds(v)'
        /\ \A e \in Deletions : deleting'[e] = deleting[e] => DeletionHolds(e)'
        /\ \A r \in Readers : reading'[r] = reading[r] => ReaderHolds(r)'
        /\ \A s \in Slots : page'[s] = page[s] => PageHolds(s)'
    BY <1>0, <2>6, PagesQuietStep
  <2>8. \A s \in Slots : page'[s] = None => PageHolds(s)'
    BY DEF PageHolds
  <2>9. PICK path \in Paths : path = row.path /\ Doomed(path)'
    BY <2>1, <2>7
  <2>10. DeletionHolds(d)'
    BY <2>3, <2>4, <2>9 DEF DeletionHolds
  <2>11. PagesTypeOK'
    BY <1>0, <2>4, <2>5 DEF PagesTypeOK, Deletion
  <2> QED BY <1>0, <2>4, <2>5, <2>7, <2>8, <2>10, <2>11 DEF RowsHold
<1> QED BY <1>1, <1>2 DEF DeleteGroup

LEMMA UnlinkDeletedStep ==
    ASSUME PagesTypeOK, RowsHold, NEW d \in Deletions, UnlinkDeleted(d)
    PROVE  PagesTypeOK' /\ RowsHold'
<1>0. /\ deleting[d] \in Deletion /\ DeletionHolds(d) /\ deleting[d].pc = "unlink"
      /\ UNCHANGED <<page, uploading, reading, faults>>
  BY DEF PagesTypeOK, RowsHold, Deletion, UnlinkDeleted
<1> DEFINE state == [deleting[d] EXCEPT !.pc = "done"]
<1>1. Move(d, state)
  BY DEF UnlinkDeleted, Move
<1>2. state \in Deletion /\ state.pc = "done"
  BY <1>0 DEF Deletion
<1> HIDE DEF state
<1>3. /\ deleting' \in [Deletions -> Deletion] /\ deleting'[d] = state
      /\ \A e \in Deletions \ {d} : deleting'[e] = deleting[e]
  BY <1>1, <1>2, MoveType
<1>4. PICK path \in Paths :
        Remove(path) /\ ~Referenced(path) /\ (path \in Uploads => path \in {} \/ Committed(path))
  BY <1>0 DEF UnlinkDeleted, DeletionHolds, Doomed, Retained
<1>5. /\ {} \in SUBSET Uploads /\ \A v \in {} : Committed(v) => Committed(v)'
      /\ \A v \in Uploads \ {} : uploading'[v] = uploading[v]
  BY <1>0
<1>6. /\ object' \in [Paths -> Bytes \union {None}]
      /\ \A v \in Uploads \ {} : UploadHolds(v)'
      /\ \A e \in Deletions : deleting'[e] = deleting[e] => DeletionHolds(e)'
      /\ \A r \in Readers : ReaderHolds(r)'
      /\ \A s \in Slots : PageHolds(s)'
  BY <1>0, <1>4, <1>5, RemoveHolds
<1>7. DeletionHolds(d)'
  BY <1>2, <1>3 DEF DeletionHolds
<1>8. PagesTypeOK'
  BY <1>0, <1>3, <1>6 DEF PagesTypeOK, Deletion
<1> QED BY <1>3, <1>6, <1>7, <1>8 DEF RowsHold

Reading == [pc : {"idle", "seen", "read", "done"}, slot : Slots \union {None}, kind : Kinds,
            seen : Row, bytes : Bytes \union {None}]

Note(r, state) == reading' = [reading EXCEPT ![r] = state]

LEMMA NoteType ==
    ASSUME PagesTypeOK, NEW r \in Readers, NEW state \in Reading, Note(r, state)
    PROVE  /\ reading' \in [Readers -> Reading] /\ reading'[r] = state
           /\ \A e \in Readers \ {r} : reading'[e] = reading[e]
BY DEF PagesTypeOK, Reading, Note

\* A reader moves; the rows that change hold.
LEMMA QuietReader ==
    ASSUME PagesTypeOK, RowsHold, NEW r \in Readers, NEW state \in Reading, Note(r, state),
           UNCHANGED <<object, uploading, deleting, faults>>, ReaderHolds(r)',
           page' \in [Slots -> Row], \A p \in Paths : Referenced(p)' => Referenced(p),
           \A s \in Slots : page'[s] = page[s] \/ PageHolds(s)'
    PROVE  PagesTypeOK' /\ RowsHold'
<1>1. /\ reading' \in [Readers -> Reading] /\ reading'[r] = state
      /\ \A e \in Readers \ {r} : reading'[e] = reading[e]
  BY NoteType
<1>2. /\ \A v \in Uploads : UploadHolds(v)'
      /\ \A d \in Deletions : deleting'[d] = deleting[d] => DeletionHolds(d)'
      /\ \A e \in Readers : reading'[e] = reading[e] => ReaderHolds(e)'
      /\ \A s \in Slots : page'[s] = page[s] => PageHolds(s)'
  BY PagesQuietStep
<1>3. PagesTypeOK'
  BY <1>1 DEF PagesTypeOK, Reading
<1> QED BY <1>1, <1>2, <1>3 DEF RowsHold

LEMMA ReaderStep ==
    ASSUME PagesTypeOK, RowsHold, NEW r \in Readers, ObserveSource(r) \/ ReadBytes(r)
    PROVE  PagesTypeOK' /\ RowsHold'
<1>0. /\ reading[r] \in Reading /\ ReaderHolds(r)
      /\ UNCHANGED <<page, object, uploading, deleting, faults>>
  BY DEF PagesTypeOK, RowsHold, Reading, ObserveSource, ReadBytes
<1>q. ASSUME NEW state \in Reading, Note(r, state), ReaderHolds(r)' PROVE PagesTypeOK' /\ RowsHold'
  <2>1. /\ page' \in [Slots -> Row] /\ \A s \in Slots : page'[s] = page[s] \/ PageHolds(s)'
        /\ \A p \in Paths : Referenced(p)' => Referenced(p)
    BY <1>0 DEF PagesTypeOK, Referenced
  <2> QED BY <1>0, <1>q, <2>1, QuietReader
<1>1. CASE ObserveSource(r)
  <2>1. PICK s \in Slots, k \in Kinds :
          /\ page[s] # None
          /\ reading' = [reading EXCEPT ![r] =
                           [@ EXCEPT !.pc = "seen", !.slot = s, !.kind = k, !.seen = page[s]]]
    BY <1>1 DEF ObserveSource
  <2> DEFINE state == [reading[r] EXCEPT !.pc = "seen", !.slot = s, !.kind = k, !.seen = page[s]]
  <2>2. state \in Reading /\ state.pc = "seen" /\ state.slot = s /\ state.seen = page[s]
    BY <1>0 DEF Reading, PagesTypeOK
  <2>3. Note(r, state)
    BY <2>1 DEF Note
  <2> HIDE DEF state
  <2>4. reading'[r] = state
    BY <2>2, <2>3, NoteType
  <2>5. Sound(page[s]) /\ page[s] \in PageRow
    BY <2>1, RowType DEF RowsHold, PageHolds
  <2>6. PICK row \in PageRow : row = page[s]
    BY <2>5
  <2>7. Sound(row)'
    BY <1>0, <2>5, <2>6 DEF Sound, Committed
  <2>8. ReaderHolds(r)'
    BY <2>1, <2>2, <2>4, <2>6, <2>7 DEF ReaderHolds, Sound
  <2> QED BY <1>q, <2>2, <2>3, <2>8
<1>2. CASE ReadBytes(r)
  <2> DEFINE bytes == object[reading[r].seen.path]
             pc == IF bytes = None THEN "done" ELSE "read"
             state == [reading[r] EXCEPT !.pc = pc, !.bytes = bytes]
  <2>1. reading[r].seen \in PageRow /\ Sound(reading[r].seen) /\ reading[r].slot \in Slots
    BY <1>0, <1>2 DEF ReadBytes, ReaderHolds, Reading, Row
  <2>2. /\ bytes \in {None, reading[r].seen.sum, Damaged} /\ bytes \in Bytes \union {None}
        /\ pc \in {"done", "read"} /\ (pc = "read" => bytes # None)
    BY <2>1 DEF Sound, PageRow, PagesTypeOK
  <2>3. Note(r, state)
    BY <1>2 DEF ReadBytes, Note
  <2> HIDE DEF bytes, pc
  <2>4. /\ state \in Reading /\ state.pc = pc /\ state.slot = reading[r].slot
        /\ state.seen = reading[r].seen /\ state.bytes = bytes
    BY <1>0, <2>2 DEF Reading
  <2> HIDE DEF state
  <2>5. reading'[r] = state
    BY <2>3, <2>4, NoteType
  <2>6. PICK row \in PageRow : row = reading[r].seen
    BY <2>1
  <2>7. Sound(row)'
    BY <1>0, <2>1, <2>6 DEF Sound, Committed
  <2>8. ReaderHolds(r)'
    BY <2>1, <2>2, <2>4, <2>5, <2>6, <2>7, Constants DEF ReaderHolds, Sound
  <2> QED BY <1>q, <2>3, <2>4, <2>8
<1> QED BY <1>1, <1>2

\* What a bound edit stores describes the bytes of the page it meets.
LEMMA SaveDerivedStep ==
    ASSUME PagesTypeOK, RowsHold, NEW r \in Readers, SaveDerived(r)
    PROVE  PagesTypeOK' /\ RowsHold'
<1> DEFINE edit == reading[r]
           row == page[edit.slot]
           state == [edit EXCEPT !.pc = "done"]
<1>0. /\ edit \in Reading /\ ReaderHolds(r) /\ edit.pc = "read"
      /\ UNCHANGED <<object, uploading, deleting, faults>>
  BY DEF PagesTypeOK, RowsHold, Reading, SaveDerived
<1>1. edit.slot \in Slots /\ edit.bytes \in {edit.seen.sum, Damaged} /\ edit.kind \in Kinds
      /\ edit.bytes \in Bytes \union {None}
  BY <1>0 DEF ReaderHolds, Reading
<1>2. Note(r, state)
  BY DEF SaveDerived, Note
<1>3. state \in Reading /\ state.pc = "done"
  BY <1>0 DEF Reading
<1> HIDE DEF state
<1>4. ReaderHolds(r)'
  BY <1>2, <1>3, NoteType DEF ReaderHolds
<1>5. CASE UNCHANGED page
  <2>1. /\ page' \in [Slots -> Row] /\ \A s \in Slots : page'[s] = page[s] \/ PageHolds(s)'
        /\ \A p \in Paths : Referenced(p)' => Referenced(p)
    BY <1>5 DEF PagesTypeOK, Referenced
  <2> QED BY <1>0, <1>2, <1>3, <1>4, <2>1, QuietReader
<1>6. CASE /\ SourceCurrent(row, edit.seen, edit.kind)
           /\ page' = [page EXCEPT ![edit.slot].derived[edit.kind] = edit.bytes]
  <2>1. row # None /\ row.sum = edit.seen.sum
    BY <1>6 DEF SourceCurrent
  <2>2. row \in PageRow /\ PageHolds(edit.slot)
    BY <1>1, <2>1, RowType DEF RowsHold
  <2> DEFINE derived == [row.derived EXCEPT ![edit.kind] = edit.bytes]
             new == [row EXCEPT !.derived = derived]
  <2>3. /\ derived \in [Kinds -> Bytes \union {None}]
        /\ \A k \in Kinds : derived[k] \in {None, row.sum, Damaged}
    <3>1. row.derived \in [Kinds -> Bytes \union {None}]
          /\ \A k \in Kinds : row.derived[k] \in {None, row.sum, Damaged}
      BY <2>1, <2>2 DEF PageHolds, PageRow
    <3> QED BY <1>1, <2>1, <3>1
  <2> HIDE DEF derived
  <2>4. new \in PageRow /\ new.path = row.path /\ new.sum = row.sum /\ new.derived = derived
    BY <2>2, <2>3 DEF PageRow
  <2> HIDE DEF new
  <2>5. page' = [page EXCEPT ![edit.slot] = new]
    BY <1>1, <1>6, <2>2 DEF new, derived, PagesTypeOK
  <2>6. /\ page' \in [Slots -> Row]
        /\ \A s \in Slots \ {edit.slot} : page'[s] = page[s]
        /\ page'[edit.slot] = new
    BY <1>1, <2>4, <2>5 DEF PagesTypeOK, Row
  <2>7. \A p \in Paths : Referenced(p)' => Referenced(p)
    BY <1>1, <2>1, <2>4, <2>6 DEF Referenced
  <2>8. ASSUME NEW s \in Slots, s = edit.slot PROVE PageHolds(s)'
    <3>1. page'[s] = new /\ new # None
      BY <2>4, <2>6, <2>8, Constants
    <3>2. page[s] = row /\ PageHolds(s)
      BY <2>2, <2>8
    <3> HIDE DEF row, edit
    <3> QED BY <1>0, <2>1, <2>3, <2>4, <3>1, <3>2 DEF PageHolds, Sound, Committed
  <2>9. \A s \in Slots : page'[s] = page[s] \/ PageHolds(s)'
    BY <2>6, <2>8
  <2> QED BY <1>0, <1>2, <1>3, <1>4, <2>6, <2>7, <2>9, QuietReader
<1> QED BY <1>5, <1>6 DEF SaveDerived

-----------------------------------------------------------------------------
(* The invariant.                                                            *)

LEMMA PagesInitially == PagesInit => PagesTypeOK /\ RowsHold
<1> SUFFICES ASSUME PagesInit PROVE PagesTypeOK /\ RowsHold
  OBVIOUS
<1>1. \A s \in Slots : page[s] # None =>
        \E c \in Contents :
          page[s] = [id |-> s, path |-> s, sum |-> c, revision |-> 0, derived |-> NoDerived,
                     origin |-> "initial"]
  BY DEF PagesInit
<1>2. \A s \in Slots, c \in Contents :
        [id |-> s, path |-> s, sum |-> c, revision |-> 0, derived |-> NoDerived,
         origin |-> "initial"] \in PageRow
  <2> SUFFICES ASSUME NEW s \in Slots, NEW c \in Contents
               PROVE  [id |-> s, path |-> s, sum |-> c, revision |-> 0, derived |-> NoDerived,
                       origin |-> "initial"] \in PageRow
    OBVIOUS
  <2>1. s \in Paths /\ c \in Bytes /\ 0 \in Nat
    BY DEF Paths, Bytes
  <2> QED BY <2>1, NoDerivedType DEF PageRow
<1>3. page \in [Slots -> Row]
  BY <1>1, <1>2 DEF PagesInit, Row
<1>4. PagesTypeOK
  <2>1. uploading \in [Uploads -> UploadState] /\ faults \in Nat
        /\ object \in [Paths -> Bytes \union {None}]
    BY IdleType DEF PagesInit
  <2>2. /\ deleting \in [Deletions -> [pc : {"idle", "confirmed", "lookup", "unlink", "done"},
                                       slot : Slots \union {None}, seen : Row,
                                       doomed : Paths \union {None}]]
        /\ reading \in [Readers -> [pc : {"idle", "seen", "read", "done"},
                                    slot : Slots \union {None}, kind : Kinds, seen : Row,
                                    bytes : Bytes \union {None}]]
    BY DEF PagesInit, Row, Kinds
  <2> QED BY <1>3, <2>1, <2>2 DEF PagesTypeOK
<1>5. \A s \in Slots : PageHolds(s)
  <2> SUFFICES ASSUME NEW s \in Slots, page[s] # None PROVE PageHolds(s)
    BY DEF PageHolds
  <2>1. page[s].path = s /\ page[s].derived = NoDerived
    <3>1. PICK c \in Contents :
            page[s] = [id |-> s, path |-> s, sum |-> c, revision |-> 0, derived |-> NoDerived,
                       origin |-> "initial"]
      BY <1>1
    <3> QED BY <3>1
  <2>2. object[s] \in {page[s].sum, Damaged, None} /\ s \notin Uploads
    BY Constants DEF PagesInit
  <2> QED BY <2>1, <2>2 DEF PageHolds, Sound, NoDerived
<1>6. \A u \in Uploads : UploadHolds(u)
  BY DEF PagesInit, UploadHolds, Idle, Early
<1>7. /\ \A d \in Deletions : DeletionHolds(d)
      /\ \A r \in Readers : ReaderHolds(r)
  BY DEF PagesInit, DeletionHolds, ReaderHolds
<1> QED BY <1>4, <1>5, <1>6, <1>7 DEF RowsHold

LEMMA PagesStep == PagesTypeOK /\ RowsHold /\ [PagesNext]_pageVars => (PagesTypeOK /\ RowsHold)'
<1> SUFFICES ASSUME PagesTypeOK, RowsHold, [PagesNext]_pageVars PROVE PagesTypeOK' /\ RowsHold'
  OBVIOUS
<1>1. ASSUME NEW u \in Uploads, UploadStep(u) PROVE PagesTypeOK' /\ RowsHold'
  BY <1>1, SubmitStep, ObserveSteps, ObservePageStep, PrepareStep, CommitPageStep,
     RemoveUnusedStep, LookupStep, FailStep DEF UploadStep
<1>2. ASSUME NEW d \in Deletions,
             \/ ConfirmDeletion(d) \/ DeleteGroup(d) \/ LookupDeleted(d)
             \/ UnlinkDeleted(d) \/ CleanupFails(d)
      PROVE  PagesTypeOK' /\ RowsHold'
  BY <1>2, DeletionStep, DeleteGroupStep, UnlinkDeletedStep
<1>3. ASSUME NEW r \in Readers, ObserveSource(r) \/ ReadBytes(r) \/ SaveDerived(r)
      PROVE  PagesTypeOK' /\ RowsHold'
  BY <1>3, ReaderStep, SaveDerivedStep
<1>4. CASE UNCHANGED pageVars
  BY <1>4
  DEF pageVars, PagesTypeOK, RowsHold, PageHolds, UploadHolds, DeletionHolds, ReaderHolds, Sound,
      Committed, Planned, Doomed, Retained, Referenced, SamePage
<1> QED BY <1>1, <1>2, <1>3, <1>4 DEF PagesNext

(* The invariant: only settled uploads are referred to or reclaimed, and     *)
(* every row somebody holds has its bytes, damaged bytes or none.            *)
THEOREM PagesInvariant == PagesSpec => [](PagesTypeOK /\ RowsHold)
BY PagesInitially, PagesStep, PTL DEF PagesSpec

(* Every variable has its type.                                              *)
THEOREM PagesTyped == PagesSpec => []PagesTypeOK
BY PagesInvariant, PTL

(* Segments, trust and dimensions describe the bytes of their page.          *)
THEOREM DerivedDataIsOfThePage == PagesSpec => []DerivedDataFollowsBytes
<1>1. RowsHold => DerivedDataFollowsBytes
  BY DEF RowsHold, PageHolds, DerivedDataFollowsBytes
<1> QED BY <1>1, PagesInvariant, PTL

-----------------------------------------------------------------------------
(* Objects and rows agree.                                                   *)

Accounted(p) == Referenced(p) \/ InHand(p) \/ object[p] = None

\* Of what U and D held, and of what is stored, everything stays accounted for.
HandsKept(U, D) ==
    /\ \A v \in Uploads \ U : uploading'[v] = uploading[v]
    /\ \A d \in Deletions \ D : deleting'[d] = deleting[d]
    /\ \A p \in Paths : object'[p] = object[p] \/ object'[p] = None \/ InHand(p)'
    /\ \A p \in Paths : Referenced(p) => Referenced(p)' \/ InHand(p)'
    /\ \A v \in U, p \in Paths \ Legacy :
         \/ uploading[v].pc \in {"commit", "unused"} /\ uploading[v].path = v /\ p = v
         \/ uploading[v].pc \in {"lookup", "unlink"} /\ uploading[v].doomed = p
         => Accounted(p)'
    /\ \A d \in D, p \in Paths \ Legacy :
         deleting[d].pc \in {"lookup", "unlink"} /\ deleting[d].doomed = p => Accounted(p)'

LEMMA HandsFrame ==
    ASSUME PagesTypeOK, OrphansComeFromFaults, faults' = faults,
           NEW U \in SUBSET Uploads, NEW D \in SUBSET Deletions, HandsKept(U, D)
    PROVE  OrphansComeFromFaults'
<1> SUFFICES ASSUME NEW p \in Paths \ Legacy, object'[p] # None, faults' = 0, ~InHand(p)'
             PROVE  Referenced(p)'
  BY DEF OrphansComeFromFaults, Referenced, InHand
<1>1. object[p] # None /\ faults = 0
  BY DEF HandsKept
<1>2. Referenced(p) \/ InHand(p)
  BY <1>1 DEF OrphansComeFromFaults
<1> QED BY <1>2 DEF InHand, HandsKept, Accounted

\* An upload that holds no path keeps whatever the others hold.
LEMMA QuietHands ==
    ASSUME PagesTypeOK, OrphansComeFromFaults, NEW u \in Uploads,
           NEW state, Become(u, state),
           uploading[u].pc \notin {"commit", "unused", "lookup", "unlink"},
           UNCHANGED <<page, deleting, reading, faults>>,
           \A p \in Paths : object'[p] = object[p] \/ InHand(p)'
    PROVE  OrphansComeFromFaults'
<1>1. /\ {u} \in SUBSET Uploads /\ {} \in SUBSET Deletions
      /\ \A v \in Uploads \ {u} : uploading'[v] = uploading[v]
      /\ \A d \in Deletions \ {} : deleting'[d] = deleting[d]
  BY DEF Become, PagesTypeOK
<1>2. \A p \in Paths : object'[p] = object[p] \/ object'[p] = None \/ InHand(p)'
  OBVIOUS
<1>3. \A p \in Paths : Referenced(p) => Referenced(p)' \/ InHand(p)'
  BY DEF Referenced
<1>4. HandsKept({u}, {})
  BY <1>1, <1>2, <1>3 DEF HandsKept
<1> QED BY <1>1, <1>4, HandsFrame

LEMMA EarlyHands ==
    ASSUME PagesTypeOK, RowsHold, OrphansComeFromFaults, NEW u \in Uploads,
           \/ Submit(u) \/ LockContent(u) \/ FindDuplicate(u) \/ ObserveOwner(u)
           \/ ObservePage(u) \/ Prepare(u)
    PROVE  OrphansComeFromFaults'
<1>1. PICK state : Become(u, state)
  BY Zenon DEF Submit, LockContent, FindDuplicate, ObserveOwner, ObservePage, Prepare, Finish
<1>2. /\ uploading[u].pc \notin {"commit", "unused", "lookup", "unlink"}
      /\ UNCHANGED <<page, deleting, reading, faults>>
  BY DEF Submit, LockContent, FindDuplicate, ObserveOwner, ObservePage, Prepare, At
<1>3. \A p \in Paths : object'[p] = object[p] \/ InHand(p)'
  <2>1. CASE UNCHANGED object
    BY <2>1
  <2>2. ASSUME NEW plan \in Plans(u), plan.store,
               object' = [object EXCEPT ![u] = plan.bytes],
               Become(u, [uploading[u] EXCEPT
                            !.pc = "commit", !.policy = plan.policy,
                            !.sum = IF plan.store THEN plan.bytes ELSE uploading[u].seen.sum,
                            !.path = IF plan.store THEN u ELSE uploading[u].seen.path])
        PROVE  \A p \in Paths : object'[p] = object[p] \/ InHand(p)'
    <3>1. uploading'[u].pc = "commit" /\ uploading'[u].path = u
      BY <2>2 DEF Become, PagesTypeOK, UploadState
    <3>2. InHand(u)'
      BY <3>1 DEF InHand
    <3>3. \A p \in Paths \ {u} : object'[p] = object[p]
      BY <2>2 DEF PagesTypeOK
    <3> QED BY <3>2, <3>3
  <2> QED BY <2>1, <2>2
      DEF Submit, LockContent, FindDuplicate, ObserveOwner, ObservePage, Prepare
<1> QED BY <1>1, <1>2, <1>3, QuietHands

LEMMA CommitHands ==
    ASSUME PagesTypeOK, RowsHold, OrphansComeFromFaults, NEW u \in Uploads, CommitPage(u)
    PROVE  OrphansComeFromFaults'
<1> DEFINE up == uploading[u]
           row == page[up.slot]
<1>0. /\ up \in UploadState /\ up.pc = "commit" /\ up.slot \in Slots /\ ~Committed(u)
      /\ UNCHANGED <<object, deleting, reading, faults>>
  BY DEF CommitPage, At, RowsHold, UploadHolds, Committed, PagesTypeOK
<1>1. PICK state : Become(u, state)
  BY Zenon DEF CommitPage, Reject, Finish, Unchanged
<1>2. /\ {u} \in SUBSET Uploads /\ {} \in SUBSET Deletions
      /\ \A v \in Uploads \ {u} : uploading'[v] = uploading[v]
      /\ \A d \in Deletions \ {} : deleting'[d] = deleting[d]
      /\ \A p \in Paths : object'[p] = object[p] \/ object'[p] = None \/ InHand(p)'
  BY <1>0, <1>1 DEF Become, PagesTypeOK
<1>3. ASSUME up.path = u => Referenced(u)' \/ InHand(u)',
             \A p \in Paths : Referenced(p) => Referenced(p)' \/ InHand(p)'
      PROVE  OrphansComeFromFaults'
  <2>1. HandsKept({u}, {})
    BY <1>0, <1>2, <1>3 DEF HandsKept, Accounted
  <2> QED BY <1>0, <1>2, <2>1, HandsFrame
<1>4. CASE Conflicts(u) /\ Reject(u) /\ UNCHANGED page
  <2>1. up.path = u => uploading'[u].pc = "unused" /\ uploading'[u].path = u
    BY <1>0, <1>4 DEF Reject, Become, PagesTypeOK, UploadState
  <2> QED BY <1>3, <1>4, <2>1 DEF InHand, Referenced
<1>5. CASE /\ ~Conflicts(u) /\ row = None
           /\ page' = [page EXCEPT ![up.slot] = Create(u)] /\ Finish(u)
  <2>1. page'[up.slot] = Create(u) /\ Create(u).path = u /\ Create(u) # None
    BY <1>0, <1>5, CreateRow, Constants DEF At, PagesTypeOK
  <2>2. \A s \in Slots \ {up.slot} : page'[s] = page[s]
    BY <1>5 DEF PagesTypeOK
  <2>3. Referenced(u)'
    BY <1>0, <2>1 DEF Referenced
  <2>4. \A p \in Paths : Referenced(p) => Referenced(p)'
    BY <1>5, <2>2 DEF Referenced
  <2> QED BY <1>3, <2>3, <2>4
<1>6. CASE ~Conflicts(u) /\ row # None /\ Keeps(u, row) /\ Unchanged(u, row) /\ UNCHANGED page
  <2>1. row.path # u
    BY <1>0, <1>6, NotReferenced DEF Referenced
  <2>2. up.path = u => uploading'[u].pc = "unused" /\ uploading'[u].path = u
    BY <1>0, <1>6, <2>1 DEF Unchanged, Become, PagesTypeOK, UploadState
  <2> QED BY <1>3, <1>6, <2>2 DEF InHand, Referenced
<1>7. CASE /\ ~Conflicts(u) /\ row # None /\ ~Keeps(u, row)
           /\ page' = [page EXCEPT ![up.slot] = Rewrite(u, row)]
           /\ Become(u, [up EXCEPT !.pc = IF row.path = up.path THEN "done" ELSE "lookup",
                                   !.doomed = row.path])
  <2>1. /\ row \in PageRow /\ up.path = u /\ row.path # u
        /\ Rewrite(u, row).path = u /\ Rewrite(u, row) # None
    BY <1>0, <1>7, RewriteRow, Constants DEF At
  <2>2. page'[up.slot] = Rewrite(u, row)
    BY <1>0, <1>7 DEF PagesTypeOK
  <2>3. \A s \in Slots \ {up.slot} : page'[s] = page[s]
    BY <1>7 DEF PagesTypeOK
  <2>4. uploading'[u].pc = "lookup" /\ uploading'[u].doomed = row.path
    BY <1>0, <1>7, <2>1 DEF Become, PagesTypeOK, UploadState
  <2>5. Referenced(u)'
    BY <1>0, <2>1, <2>2 DEF Referenced
  <2>6. ASSUME NEW p \in Paths, Referenced(p) PROVE Referenced(p)' \/ InHand(p)'
    <3>1. PICK s \in Slots : page[s] # None /\ page[s].path = p
      BY <2>6 DEF Referenced
    <3>2. CASE s = up.slot
      BY <2>4, <3>1, <3>2 DEF InHand
    <3>3. CASE s # up.slot
      BY <2>3, <3>1, <3>3 DEF Referenced
    <3> QED BY <3>2, <3>3
  <2> QED BY <1>3, <2>5, <2>6
<1> QED BY <1>4, <1>5, <1>6, <1>7 DEF CommitPage

LEMMA ReclaimHands ==
    ASSUME PagesTypeOK, RowsHold, OrphansComeFromFaults, NEW u \in Uploads,
           RemoveUnused(u) \/ LookupSuperseded(u) \/ UnlinkSuperseded(u)
    PROVE  OrphansComeFromFaults'
<1> DEFINE up == uploading[u]
<1>0. /\ up \in UploadState /\ up.pc \in {"unused", "lookup", "unlink"} /\ UploadHolds(u)
      /\ UNCHANGED <<page, deleting, reading, faults>>
  BY DEF RemoveUnused, LookupSuperseded, UnlinkSuperseded, At, RowsHold, PagesTypeOK
<1>1. PICK state : Become(u, state)
  BY Zenon DEF RemoveUnused, LookupSuperseded, UnlinkSuperseded, Finish
<1>2. /\ {u} \in SUBSET Uploads /\ {} \in SUBSET Deletions
      /\ \A v \in Uploads \ {u} : uploading'[v] = uploading[v]
      /\ \A d \in Deletions \ {} : deleting'[d] = deleting[d]
  BY <1>0, <1>1 DEF Become, PagesTypeOK
<1>3. \A p \in Paths : object'[p] = object[p] \/ object'[p] = None
  BY DEF RemoveUnused, LookupSuperseded, UnlinkSuperseded, Remove, PagesTypeOK
<1>4. \A p \in Paths : Referenced(p) => Referenced(p)'
  BY <1>0 DEF Referenced
<1>5. up.pc = "unused" => object'[u] = None
  BY DEF RemoveUnused, LookupSuperseded, UnlinkSuperseded, Remove, At, PagesTypeOK, Paths
<1>6. ASSUME NEW p \in Paths \ Legacy, up.pc \in {"lookup", "unlink"}, up.doomed = p
      PROVE  Referenced(p)' \/ InHand(p)' \/ object'[p] = None
  <2>1. CASE up.pc = "lookup"
    <3>1. CASE Retained(p)
      BY <1>4, <1>6, <3>1 DEF Retained
    <3>2. CASE ~Retained(p)
      <4>1. Become(u, [up EXCEPT !.pc = "unlink"])
        BY <1>6, <2>1, <3>2 DEF RemoveUnused, LookupSuperseded, UnlinkSuperseded, At
      <4>2. uploading'[u].pc = "unlink" /\ uploading'[u].doomed = p
        BY <1>0, <1>6, <4>1 DEF Become, PagesTypeOK, UploadState
      <4> QED BY <4>2 DEF InHand
    <3> QED BY <3>1, <3>2
  <2>2. CASE up.pc = "unlink"
    BY <1>6, <2>2 DEF RemoveUnused, LookupSuperseded, UnlinkSuperseded, At, Remove, PagesTypeOK
  <2> QED BY <1>6, <2>1, <2>2
<1>7. HandsKept({u}, {})
  BY <1>0, <1>2, <1>3, <1>4, <1>5, <1>6 DEF HandsKept, Accounted
<1> QED BY <1>0, <1>2, <1>7, HandsFrame

LEMMA DeletionHands ==
    ASSUME PagesTypeOK, RowsHold, OrphansComeFromFaults, NEW d \in Deletions,
           \/ ConfirmDeletion(d) \/ DeleteGroup(d) \/ LookupDeleted(d)
           \/ UnlinkDeleted(d)
    PROVE  OrphansComeFromFaults'
<1> DEFINE del == deleting[d]
<1>0. del \in Deletion /\ DeletionHolds(d) /\ UNCHANGED <<uploading, reading, faults>>
  BY DEF PagesTypeOK, RowsHold, Deletion, ConfirmDeletion, DeleteGroup, LookupDeleted,
         UnlinkDeleted
<1>1. PICK state : Move(d, state)
  BY Zenon DEF ConfirmDeletion, DeleteGroup, LookupDeleted, UnlinkDeleted, Move
<1>2. /\ {} \in SUBSET Uploads /\ {d} \in SUBSET Deletions
      /\ \A v \in Uploads \ {} : uploading'[v] = uploading[v]
      /\ \A e \in Deletions \ {d} : deleting'[e] = deleting[e]
  BY <1>0, <1>1 DEF Move, PagesTypeOK
<1>3. \A p \in Paths : object'[p] = object[p] \/ object'[p] = None
  BY DEF ConfirmDeletion, DeleteGroup, LookupDeleted, UnlinkDeleted, Remove, PagesTypeOK
<1>4. ASSUME NEW p \in Paths, Referenced(p) PROVE Referenced(p)' \/ InHand(p)'
  <2>1. CASE UNCHANGED page
    BY <1>4, <2>1 DEF Referenced
  <2>2. CASE page' # page
    <3>1. /\ del.pc = "confirmed" /\ page[del.slot] # None
          /\ page' = [page EXCEPT ![del.slot] = None]
          /\ deleting' = [deleting EXCEPT ![d] = [del EXCEPT !.pc = "lookup",
                                                             !.doomed = page[del.slot].path]]
      BY <2>2 DEF ConfirmDeletion, DeleteGroup, LookupDeleted, UnlinkDeleted
    <3>2. /\ del.slot \in Slots
          /\ deleting'[d].pc = "lookup" /\ deleting'[d].doomed = page[del.slot].path
      BY <1>0, <3>1 DEF DeletionHolds, Deletion, PagesTypeOK
    <3>3. PICK s \in Slots : page[s] # None /\ page[s].path = p
      BY <1>4 DEF Referenced
    <3>4. CASE s = del.slot
      BY <3>2, <3>3, <3>4 DEF InHand
    <3>5. CASE s # del.slot
      BY <3>1, <3>3, <3>5 DEF Referenced, PagesTypeOK
    <3> QED BY <3>4, <3>5
  <2> QED BY <2>1, <2>2
<1>5. ASSUME NEW p \in Paths \ Legacy, del.pc \in {"lookup", "unlink"}, del.doomed = p
      PROVE  Referenced(p)' \/ InHand(p)' \/ object'[p] = None
  <2>1. CASE LookupDeleted(d)
    <3>1. CASE Retained(p)
      BY <2>1, <3>1 DEF Retained, Referenced, LookupDeleted
    <3>2. CASE ~Retained(p)
      <4>1. deleting'[d].pc = "unlink" /\ deleting'[d].doomed = p
        BY <1>0, <1>5, <2>1, <3>2 DEF LookupDeleted, PagesTypeOK, Deletion
      <4> QED BY <4>1 DEF InHand
    <3> QED BY <3>1, <3>2
  <2>2. CASE UnlinkDeleted(d)
    BY <1>5, <2>2 DEF UnlinkDeleted, Remove, PagesTypeOK
  <2> QED BY <1>5, <2>1, <2>2 DEF ConfirmDeletion, DeleteGroup
<1>6. HandsKept({}, {d})
  BY <1>0, <1>2, <1>3, <1>4, <1>5 DEF HandsKept, Accounted
<1> QED BY <1>0, <1>2, <1>6, HandsFrame

\* A bound edit changes nothing of a row but what was derived.
LEMMA ReaderRows ==
    ASSUME PagesTypeOK, RowsHold, NEW r \in Readers,
           ObserveSource(r) \/ ReadBytes(r) \/ SaveDerived(r)
    PROVE  \A s \in Slots :
             \/ page'[s] = page[s]
             \/ /\ page[s] # None /\ page'[s] # None
                /\ page'[s].path = page[s].path /\ page'[s].sum = page[s].sum
                /\ page'[s].origin = page[s].origin
<1>1. CASE UNCHANGED page
  BY <1>1
<1>2. CASE page' # page
  <2> DEFINE t == reading[r].slot
             new == [page[t] EXCEPT !.derived = [@ EXCEPT ![reading[r].kind] = reading[r].bytes]]
  <2>1. /\ page' = [page EXCEPT ![t].derived[reading[r].kind] = reading[r].bytes]
        /\ reading[r].pc = "read" /\ page[t].sum = reading[r].seen.sum /\ page[t] # None
    BY <1>2 DEF ObserveSource, ReadBytes, SaveDerived, SourceCurrent
  <2>2. /\ t \in Slots /\ reading[r].kind \in Kinds /\ reading[r].bytes \in Bytes \union {None}
        /\ page[t] \in PageRow
    BY <2>1, RowType DEF RowsHold, ReaderHolds, PagesTypeOK
  <2>3. page' = [page EXCEPT ![t] = new]
    BY <2>1, <2>2 DEF PagesTypeOK
  <2>4. /\ new \in PageRow /\ new.path = page[t].path /\ new.sum = page[t].sum
        /\ new.origin = page[t].origin
    BY <2>2 DEF PageRow
  <2> HIDE DEF new
  <2>5. /\ \A s \in Slots \ {t} : page'[s] = page[s]
        /\ page'[t] = new /\ new # None
    BY <2>2, <2>3, <2>4, Constants DEF PagesTypeOK
  <2> HIDE DEF t
  <2> QED BY <2>1, <2>2, <2>4, <2>5
<1> QED BY <1>1, <1>2

LEMMA ReaderHands ==
    ASSUME PagesTypeOK, RowsHold, OrphansComeFromFaults, NEW r \in Readers,
           ObserveSource(r) \/ ReadBytes(r) \/ SaveDerived(r)
    PROVE  OrphansComeFromFaults'
<1>1. UNCHANGED <<object, uploading, deleting, faults>>
  BY DEF ObserveSource, ReadBytes, SaveDerived
<1>2. HandsKept({}, {})
  BY <1>1, ReaderRows DEF HandsKept, Referenced
<1> QED BY <1>1, <1>2, HandsFrame

\* A failure is on record.
LEMMA FaultsExcuse ==
    ASSUME PagesTypeOK, faults' = faults + 1
    PROVE  OrphansComeFromFaults'
BY DEF PagesTypeOK, OrphansComeFromFaults

(* Unless something failed, no immutable object is left behind by the races  *)
(* of uploads, deletions and reclamations.                                   *)
THEOREM NoOrphanWithoutFault == PagesSpec => []OrphansComeFromFaults
<1>1. PagesInit => OrphansComeFromFaults
  <2> SUFFICES ASSUME PagesInit, NEW p \in Paths \ Legacy, object[p] # None
               PROVE  Referenced(p)
    BY DEF OrphansComeFromFaults
  <2>1. p \in Slots /\ page[p] # None
    BY DEF PagesInit, Paths
  <2>2. page[p].path = p
    BY <2>1 DEF PagesInit
  <2> QED BY <2>1, <2>2 DEF Referenced
<1>2. PagesTypeOK /\ RowsHold /\ OrphansComeFromFaults /\ [PagesNext]_pageVars
        => OrphansComeFromFaults'
  <2> SUFFICES ASSUME PagesTypeOK, RowsHold, OrphansComeFromFaults, [PagesNext]_pageVars
               PROVE  OrphansComeFromFaults'
    OBVIOUS
  <2>1. ASSUME NEW u \in Uploads, UploadStep(u) PROVE OrphansComeFromFaults'
    BY <2>1, EarlyHands, CommitHands, ReclaimHands, FaultsExcuse DEF UploadStep, UploadFails
  <2>2. ASSUME NEW d \in Deletions,
               \/ ConfirmDeletion(d) \/ DeleteGroup(d) \/ LookupDeleted(d)
               \/ UnlinkDeleted(d) \/ CleanupFails(d)
        PROVE  OrphansComeFromFaults'
    BY <2>2, DeletionHands, FaultsExcuse DEF CleanupFails
  <2>3. ASSUME NEW r \in Readers, ObserveSource(r) \/ ReadBytes(r) \/ SaveDerived(r)
        PROVE  OrphansComeFromFaults'
    BY <2>3, ReaderHands
  <2>4. CASE UNCHANGED pageVars
    BY <2>4 DEF pageVars, OrphansComeFromFaults, Referenced, InHand
  <2> QED BY <2>1, <2>2, <2>3, <2>4 DEF PagesNext
<1> QED BY <1>1, <1>2, PagesInvariant, PTL DEF PagesSpec

(* Every row refers to an object with the bytes its checksum names, and      *)
(* every object is referred to or about to be, unless something failed.      *)
THEOREM ObjectsAndPagesAgree == PagesSpec => []ObjectsMatchPages
<1>1. PagesTypeOK /\ RowsHold => PagesKeepTheirBytes
  BY RowType DEF RowsHold, PageHolds, PagesKeepTheirBytes, PageRow, Paths
<1> QED BY <1>1, PagesInvariant, NoOrphanWithoutFault, PTL DEF ObjectsMatchPages

-----------------------------------------------------------------------------
(* The lock of a content.                                                    *)

Idling == {"idle", "lock", "done"}
Active == {"owner", "page", "prepare", "commit"}

UniqueRow(s) == page[s] # None /\ page[s].origin = "unique"

\* No page becomes unique.
RowsKept == \A s \in Slots :
    \/ page'[s] = page[s] \/ page'[s] = None \/ page'[s].origin # "unique"
    \/ UniqueRow(s) /\ page'[s].sum = page[s].sum /\ page'[s].path \in Uploads

\* An upload goes on with the lock it has, takes a free one or lets go.
GoesOn(u) ==
    \/ uploading'[u].pc \in Idling
    \/ uploading'[u].force
    \/ /\ uploading[u].pc \notin Idling /\ ~uploading[u].force
       /\ uploading'[u].content = uploading[u].content
       /\ \/ uploading'[u].pc \notin Active
          \/ uploading[u].pc \in Active /\ uploading'[u].fresh = uploading[u].fresh
          \/ uploading'[u].fresh =>
               \A s \in Slots : UniqueRow(s) => page[s].sum # uploading[u].content
    \/ uploading'[u].pc \notin Active /\ Holders(uploading'[u].content) = {}

Moves(u) == /\ \A v \in Uploads \ {u} : uploading'[v] = uploading[v]
            /\ u \in Uploads => GoesOn(u)

LEMMA LocksFrame ==
    ASSUME LocksHold, ContentIsStoredOnce, NEW u, Moves(u), RowsKept
    PROVE  LocksHold' /\ ContentIsStoredOnce'
<1>1. \A v, w \in Uploads :
        v \in Holders(uploading[v].content)' /\ w \in Holders(uploading[v].content)' => v = w
  BY DEF LocksHold, Holders, Moves, GoesOn, Idling, Active
<1>2. \A v \in Uploads, s \in Slots :
        /\ uploading'[v].fresh /\ ~uploading'[v].force /\ uploading'[v].pc \in Active
        /\ page'[s] # None /\ page'[s].origin = "unique"
        => page'[s].sum # uploading'[v].content
  BY DEF LocksHold, Moves, GoesOn, RowsKept, UniqueRow, Active, Idling
<1>3. \A s \in Slots :
        page'[s] # None /\ page'[s].origin = "unique" => page'[s].path \in Uploads
  BY DEF LocksHold, RowsKept, UniqueRow
<1>4. ContentIsStoredOnce'
  BY DEF ContentIsStoredOnce, RowsKept, UniqueRow
<1> QED BY <1>1, <1>2, <1>3, <1>4 DEF LocksHold, Active

\* Nobody else moves when one upload does.
LEMMA OthersStay ==
    ASSUME PagesTypeOK, NEW u \in Uploads, NEW state, Become(u, state)
    PROVE  /\ uploading'[u] = state
           /\ \A v \in Uploads \ {u} : uploading'[v] = uploading[v]
BY DEF PagesTypeOK, Become

LEMMA FinishLocks ==
    ASSUME PagesTypeOK, NEW u \in Uploads, Finish(u)
    PROVE  Moves(u)
<1>1. uploading'[u] = [Idle EXCEPT !.pc = "done"]
  BY OthersStay DEF Finish
<1>2. uploading'[u].pc = "done"
  BY <1>1 DEF Idle
<1> QED BY <1>2, OthersStay DEF Finish, Moves, GoesOn, Idling

LEMMA EarlyLocks ==
    ASSUME PagesTypeOK, RowsHold, LocksHold, NEW u \in Uploads,
           \/ Submit(u) \/ LockContent(u) \/ FindDuplicate(u) \/ ObserveOwner(u)
           \/ ObservePage(u) \/ Prepare(u) \/ LookupSuperseded(u)
    PROVE  Moves(u)
<1>0. uploading[u] \in UploadState
  BY DEF PagesTypeOK
<1>1. CASE Submit(u)
  <2>1. PICK s \in Slots, c \in Contents, force \in BOOLEAN :
          Become(u, [Idle EXCEPT !.pc = IF force THEN "owner" ELSE "lock",
                                 !.slot = s, !.content = c, !.force = force,
                                 !.expected = IF force THEN page[s] ELSE None])
    BY <1>1 DEF Submit
  <2> DEFINE pc == IF force THEN "owner" ELSE "lock"
             expected == IF force THEN page[s] ELSE None
             state == [Idle EXCEPT !.pc = pc, !.slot = s, !.content = c, !.force = force,
                                   !.expected = expected]
  <2>2. pc = "lock" \/ force
    OBVIOUS
  <2>3. Become(u, state)
    BY <2>1
  <2> HIDE DEF pc, expected
  <2>4. state.pc = pc /\ state.force = force
    BY DEF Idle
  <2> HIDE DEF state
  <2> QED BY <2>2, <2>3, <2>4, OthersStay DEF Moves, GoesOn, Idling
<1>2. CASE LockContent(u)
  <2>1. Become(u, [uploading[u] EXCEPT !.pc = "find"]) /\ Holders(uploading[u].content) = {}
    BY <1>2 DEF LockContent
  <2>2. uploading'[u].pc = "find" /\ uploading'[u].content = uploading[u].content
    BY <1>0, <2>1, OthersStay DEF UploadState
  <2> QED BY <2>1, <2>2, OthersStay DEF Moves, GoesOn, Active
<1>3. CASE FindDuplicate(u)
  <2>0. uploading[u].pc = "find"
    BY <1>3 DEF FindDuplicate, At
  <2>1. CASE Finish(u)
    BY <2>1, FinishLocks
  <2>2. CASE ~Finish(u)
    <3>1. CASE page[uploading[u].slot] = None
      <4> DEFINE state == [uploading[u] EXCEPT !.pc = "owner", !.fresh = TRUE]
      <4>1. Become(u, state) /\ ~DurableCopy(uploading[u].content)
        BY <1>3, <2>2, <3>1 DEF FindDuplicate
      <4>2. /\ state.content = uploading[u].content /\ state.force = uploading[u].force
        BY <1>0 DEF UploadState
      <4> HIDE DEF state
      <4>3. ASSUME NEW s \in Slots, UniqueRow(s) PROVE page[s].sum # uploading[u].content
        <5>1. PageHolds(s) /\ page[s].path \in Uploads
          BY <4>3 DEF RowsHold, LocksHold, UniqueRow
        <5> QED BY <4>1, <4>3, <5>1 DEF PageHolds, UniqueRow, DurableCopy
      <4> QED BY <2>0, <4>1, <4>2, <4>3, OthersStay DEF Moves, GoesOn, Idling, Active
    <3>2. CASE page[uploading[u].slot] # None
      <4> DEFINE state == [uploading[u] EXCEPT !.pc = "owner", !.fresh = FALSE]
      <4>1. Become(u, state)
        BY <1>3, <2>2, <3>2 DEF FindDuplicate
      <4>2. /\ state.content = uploading[u].content /\ state.force = uploading[u].force
            /\ state.fresh = FALSE
        BY <1>0 DEF UploadState
      <4> HIDE DEF state
      <4> QED BY <2>0, <4>1, <4>2, OthersStay DEF Moves, GoesOn, Idling, Active
    <3> QED BY <3>1, <3>2
  <2> QED BY <2>1, <2>2
<1>q. ASSUME NEW state, Become(u, state), state.content = uploading[u].content,
             state.fresh = uploading[u].fresh, state.force = uploading[u].force,
             uploading[u].pc \in Active \/ (uploading[u].pc \notin Idling /\ state.pc \notin Active)
      PROVE  Moves(u)
  BY <1>q, OthersStay DEF Moves, GoesOn, Idling, Active
<1>4. CASE ObserveOwner(u)
  <2> DEFINE state == [uploading[u] EXCEPT !.pc = "page",
                                           !.owner = IdOf(page[uploading[u].slot])]
  <2>1. Become(u, state) /\ uploading[u].pc = "owner"
    BY <1>4 DEF ObserveOwner, At
  <2>2. /\ state.content = uploading[u].content /\ state.fresh = uploading[u].fresh
        /\ state.force = uploading[u].force
    BY <1>0 DEF UploadState
  <2> HIDE DEF state
  <2> QED BY <1>q, <2>1, <2>2 DEF Active
<1>5. CASE ObservePage(u)
  <2> DEFINE row == page[uploading[u].slot]
             found == IF row # None /\ row.id = uploading[u].owner THEN row ELSE None
             state == [uploading[u] EXCEPT !.pc = "prepare", !.seen = found]
  <2>1. CASE Finish(u)
    BY <2>1, FinishLocks
  <2>2. CASE Become(u, state)
    <3>1. uploading[u].pc = "page"
      BY <1>5 DEF ObservePage, At
    <3>2. /\ state.content = uploading[u].content /\ state.fresh = uploading[u].fresh
          /\ state.force = uploading[u].force
      BY <1>0 DEF UploadState
    <3> HIDE DEF state
    <3> QED BY <1>q, <2>2, <3>1, <3>2 DEF Active
  <2> QED BY <1>5, <2>1, <2>2 DEF ObservePage
<1>6. CASE Prepare(u)
  <2>1. CASE Finish(u)
    BY <2>1, FinishLocks
  <2>2. ASSUME NEW policy, NEW sum, NEW path,
               Become(u, [uploading[u] EXCEPT !.pc = "commit", !.policy = policy, !.sum = sum,
                                              !.path = path])
        PROVE  Moves(u)
    <3> DEFINE state == [uploading[u] EXCEPT !.pc = "commit", !.policy = policy, !.sum = sum,
                                             !.path = path]
    <3>1. uploading[u].pc = "prepare"
      BY <1>6 DEF Prepare, At
    <3>2. /\ state.content = uploading[u].content /\ state.fresh = uploading[u].fresh
          /\ state.force = uploading[u].force
      BY <1>0 DEF UploadState
    <3> HIDE DEF state
    <3> QED BY <1>q, <2>2, <3>1, <3>2 DEF Active, state
  <2> QED BY <1>6, <2>1, <2>2 DEF Prepare
<1>7. CASE LookupSuperseded(u)
  <2>1. CASE Finish(u)
    BY <2>1, FinishLocks
  <2>2. CASE Become(u, [uploading[u] EXCEPT !.pc = "unlink"])
    <3> DEFINE state == [uploading[u] EXCEPT !.pc = "unlink"]
    <3>1. uploading[u].pc = "lookup"
      BY <1>7 DEF LookupSuperseded, At
    <3>2. /\ state.content = uploading[u].content /\ state.fresh = uploading[u].fresh
          /\ state.force = uploading[u].force /\ state.pc = "unlink"
      BY <1>0 DEF UploadState
    <3> HIDE DEF state
    <3> QED BY <1>q, <2>2, <3>1, <3>2 DEF Active, Idling, state
  <2> QED BY <1>7, <2>1, <2>2 DEF LookupSuperseded
<1> QED BY <1>1, <1>2, <1>3, <1>4, <1>5, <1>6, <1>7

LEMMA ReclaimLocks ==
    ASSUME PagesTypeOK, NEW u \in Uploads,
           RemoveUnused(u) \/ UnlinkSuperseded(u) \/ UploadFails(u)
    PROVE  Moves(u)
BY FinishLocks DEF RemoveUnused, UnlinkSuperseded, UploadFails

\* A unique page is made by the holder of its lock, which saw no other.
LEMMA CommitLocks ==
    ASSUME PagesTypeOK, RowsHold, LocksHold, ContentIsStoredOnce, NEW u \in Uploads, CommitPage(u)
    PROVE  LocksHold' /\ ContentIsStoredOnce'
<1> DEFINE up == uploading[u]
           row == page[up.slot]
<1>0. up \in UploadState /\ up.pc = "commit" /\ up.slot \in Slots /\ At(u, "commit")
  BY DEF CommitPage, At, RowsHold, UploadHolds, PagesTypeOK
<1>q. ASSUME NEW state, Become(u, state), state.content = up.content,
             state.fresh = up.fresh, state.force = up.force, state.pc \notin Active
      PROVE  Moves(u)
  BY <1>0, <1>q, OthersStay DEF Moves, GoesOn, Idling, Active
<1>1. CASE Conflicts(u) /\ Reject(u) /\ UNCHANGED page
  <2> DEFINE pc == IF up.path = u THEN "unused" ELSE "done"
             state == [up EXCEPT !.pc = pc, !.doomed = None]
  <2>1. Become(u, state) /\ pc \in {"unused", "done"}
    BY <1>0, <1>1 DEF Reject, Become
  <2> HIDE DEF pc
  <2>2. /\ state.pc = pc /\ state.content = up.content /\ state.fresh = up.fresh
        /\ state.force = up.force
    BY <1>0 DEF UploadState
  <2> HIDE DEF state
  <2> QED BY <1>1, <1>q, <2>1, <2>2, LocksFrame DEF RowsKept, Active
<1>2. CASE ~Conflicts(u) /\ row # None /\ Keeps(u, row) /\ Unchanged(u, row) /\ UNCHANGED page
  <2> DEFINE pc == IF up.path \in {u} \ {row.path} THEN "unused" ELSE "done"
             state == [up EXCEPT !.pc = pc]
  <2>1. Become(u, state) /\ pc \in {"unused", "done"}
    BY <1>2 DEF Unchanged
  <2> HIDE DEF pc
  <2>2. /\ state.pc = pc /\ state.content = up.content /\ state.fresh = up.fresh
        /\ state.force = up.force
    BY <1>0 DEF UploadState
  <2> HIDE DEF state
  <2> QED BY <1>2, <1>q, <2>1, <2>2, LocksFrame DEF RowsKept, Active
<1>3. CASE /\ ~Conflicts(u) /\ row = None
           /\ page' = [page EXCEPT ![up.slot] = Create(u)] /\ Finish(u)
  <2> DEFINE new == Create(u)
  <2>1. /\ new.path = u /\ new.sum = up.content /\ ~up.force
        /\ new.origin = "unique" => up.fresh
    BY <1>0, <1>3, CreateRow
  <2> HIDE DEF new
  <2>2. page'[up.slot] = new /\ \A s \in Slots \ {up.slot} : page'[s] = page[s]
    BY <1>0, <1>3 DEF PagesTypeOK, new
  <2>3. /\ uploading'[u].pc = "done"
        /\ \A v \in Uploads \ {u} : uploading'[v] = uploading[v]
    BY <1>3, OthersStay DEF Finish, Idle
  <2>4. \A v, w \in Uploads :
          v \in Holders(uploading[v].content)' /\ w \in Holders(uploading[v].content)' => v = w
    BY <2>3 DEF LocksHold, Holders
  <2>5. u \in Holders(up.content)
    BY <1>0, <2>1 DEF Holders
  <2>6. ASSUME NEW v \in Uploads, NEW s \in Slots,
               uploading'[v].fresh, ~uploading'[v].force, uploading'[v].pc \in Active,
               page'[s] # None, page'[s].origin = "unique"
        PROVE  page'[s].sum # uploading'[v].content
    <3>1. v # u /\ uploading'[v] = uploading[v]
      BY <2>3, <2>6 DEF Active
    <3>2. CASE s = up.slot
      <4>1. v \in Holders(uploading[v].content)
        BY <2>6, <3>1 DEF Holders, Active
      <4>2. uploading[v].content # up.content
        BY <2>5, <3>1, <4>1 DEF LocksHold
      <4> QED BY <2>1, <2>2, <3>1, <3>2, <4>2
    <3>3. CASE s # up.slot
      BY <2>2, <2>6, <3>1, <3>3 DEF LocksHold, Active
    <3> QED BY <3>2, <3>3
  <2>7. \A s \in Slots :
          page'[s] # None /\ page'[s].origin = "unique" => page'[s].path \in Uploads
    BY <2>1, <2>2 DEF LocksHold
  <2>8. ASSUME NEW s \in Slots, UniqueRow(s), new.origin = "unique"
        PROVE  page[s].sum # new.sum
    BY <1>0, <2>1, <2>8 DEF LocksHold, UniqueRow
  <2>9. ContentIsStoredOnce'
    BY <2>2, <2>8 DEF ContentIsStoredOnce, UniqueRow
  <2> QED BY <2>4, <2>6, <2>7, <2>9 DEF LocksHold, Active
<1>4. CASE /\ ~Conflicts(u) /\ row # None /\ ~Keeps(u, row)
           /\ page' = [page EXCEPT ![up.slot] = Rewrite(u, row)]
           /\ Become(u, [up EXCEPT !.pc = IF row.path = up.path THEN "done" ELSE "lookup",
                                   !.doomed = row.path])
  <2> DEFINE pc == IF row.path = up.path THEN "done" ELSE "lookup"
             state == [up EXCEPT !.pc = pc, !.doomed = row.path]
  <2>1. Become(u, state) /\ pc \in {"lookup", "done"}
    BY <1>4
  <2> HIDE DEF pc
  <2>2. /\ state.pc = pc /\ state.content = up.content /\ state.fresh = up.fresh
        /\ state.force = up.force
    BY <1>0 DEF UploadState
  <2> HIDE DEF state
  <2>3. LET new == Rewrite(u, row) IN
        new.path = u /\ (new.origin = "unique" => row.origin = "unique" /\ new.sum = row.sum)
    BY <1>0, <1>4, RewriteRow
  <2>4. /\ page'[up.slot] = Rewrite(u, row)
        /\ \A s \in Slots \ {up.slot} : page'[s] = page[s]
    BY <1>0, <1>4 DEF PagesTypeOK
  <2>5. RowsKept
    BY <1>4, <2>3, <2>4 DEF RowsKept, UniqueRow
  <2> QED BY <1>q, <2>1, <2>2, <2>5, LocksFrame DEF Active
<1> QED BY <1>1, <1>2, <1>3, <1>4 DEF CommitPage

(* Plain uploads of one content at free identities make one page of it.      *)
THEOREM UploadsExcludeEachOther == PagesSpec => []ContentIsStoredOnce
<1>1. PagesInit => LocksHold /\ ContentIsStoredOnce
  <2> SUFFICES ASSUME PagesInit PROVE LocksHold /\ ContentIsStoredOnce
    OBVIOUS
  <2>1. \A s \in Slots : page[s] # None => page[s].origin = "initial"
    BY DEF PagesInit
  <2>2. \A u \in Uploads : uploading[u].pc = "idle"
    BY DEF PagesInit, Idle
  <2> QED BY <2>1, <2>2 DEF LocksHold, ContentIsStoredOnce, Holders
<1>2. PagesTypeOK /\ RowsHold /\ LocksHold /\ ContentIsStoredOnce /\ [PagesNext]_pageVars
        => (LocksHold /\ ContentIsStoredOnce)'
  <2> SUFFICES ASSUME PagesTypeOK, RowsHold, LocksHold, ContentIsStoredOnce, [PagesNext]_pageVars
               PROVE  LocksHold' /\ ContentIsStoredOnce'
    OBVIOUS
  <2>1. ASSUME NEW u \in Uploads, UploadStep(u) PROVE LocksHold' /\ ContentIsStoredOnce'
    <3>1. CASE CommitPage(u)
      BY <3>1, CommitLocks
    <3>2. CASE ~CommitPage(u)
      <4>1. Moves(u)
        BY <2>1, <3>2, EarlyLocks, ReclaimLocks DEF UploadStep
      <4>2. UNCHANGED page
        BY <2>1, <3>2 DEF UploadStep, Submit, LockContent, FindDuplicate, ObserveOwner,
           ObservePage, Prepare, RemoveUnused, LookupSuperseded, UnlinkSuperseded, UploadFails
      <4>3. RowsKept
        BY <4>2 DEF RowsKept
      <4> QED BY <4>1, <4>3, LocksFrame
    <3> QED BY <3>1, <3>2
  <2>2. ASSUME UNCHANGED uploading, RowsKept PROVE LocksHold' /\ ContentIsStoredOnce'
    <3>1. Moves(None)
      BY <2>2, PageAssumption DEF Moves
    <3> QED BY <2>2, <3>1, LocksFrame
  <2>3. ASSUME NEW d \in Deletions,
               \/ ConfirmDeletion(d) \/ DeleteGroup(d) \/ LookupDeleted(d)
               \/ UnlinkDeleted(d) \/ CleanupFails(d)
        PROVE  UNCHANGED uploading /\ RowsKept
    BY <2>3 DEF ConfirmDeletion, DeleteGroup, LookupDeleted, UnlinkDeleted, CleanupFails, RowsKept,
                PagesTypeOK
  <2>4. ASSUME NEW r \in Readers, ObserveSource(r) \/ ReadBytes(r) \/ SaveDerived(r)
        PROVE  UNCHANGED uploading /\ RowsKept
    <3>1. UNCHANGED uploading
      BY <2>4 DEF ObserveSource, ReadBytes, SaveDerived
    <3>2. \A s \in Slots : page'[s] = page[s] \/
            /\ page[s] # None /\ page'[s].path = page[s].path /\ page'[s].sum = page[s].sum
            /\ page'[s].origin = page[s].origin
      BY <2>4, ReaderRows
    <3> QED BY <3>1, <3>2 DEF RowsKept, UniqueRow, LocksHold
  <2>5. CASE UNCHANGED pageVars
    BY <2>2, <2>5 DEF pageVars, RowsKept
  <2> QED BY <2>1, <2>2, <2>3, <2>4, <2>5 DEF PagesNext
<1> QED BY <1>1, <1>2, PagesInvariant, PTL DEF PagesSpec

=============================================================================
