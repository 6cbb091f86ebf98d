------------------------ MODULE LetterPublication_proofs ------------------------
(***************************************************************************)
(* Publication for any administrators, texts, records and bound: rows are  *)
(* verified for the content they hold, the members of a group stay         *)
(* together, and only a request that saw the present pages grants.         *)
(***************************************************************************)
EXTENDS LetterPublication, TLAPS

\* A row nobody has published unverified, verified for another content, or left
\* to an attempt older than its content.
RowHolds(row) ==
    /\ \A f \in Fields : row.published[f] => row.status[f] = "VERIFIED"
    /\ \A f \in Fields : row.status[f] = "VERIFIED" => row.content[f] = row.checked[f]
    /\ \A f \in Fields : ~row.overtaken[f]
    /\ row.content["transcript"] \in Transcripts

\* The same of a row that is about to be recorded; Sane: but for publication.
Sane(row) ==
    /\ \A f \in Fields : row.status[f] = "VERIFIED" => row.content[f] = row.checked[f]
    /\ \A f \in Fields : row.overtaken[f] => row.job[f] # "RUNNING"
    /\ row.content["transcript"] \in Transcripts

Ready(row) == Sane(row) /\ \A f \in Fields : row.published[f] => row.status[f] = "VERIFIED"

\* A patch of a row's content leaves alone what the group shares, and grants nothing.
Kin(row, new) ==
    /\ new.present = row.present /\ new.visible = row.visible /\ new.revision = row.revision
    /\ \A f \in Fields : new.published[f] => row.published[f]

\* What is verified in the new row was, for the same content.
Stands(row, new, f) == new.status[f] = "VERIFIED" =>
    row.status[f] = "VERIFIED" /\ new.content[f] = row.content[f]
Inherits(row, new) == \A f \in Fields : Stands(row, new, f)

-----------------------------------------------------------------------------
(* The patches.                                                              *)

LEMMA ReadyRow == ASSUME NEW row, RowHolds(row) PROVE Ready(row)
BY DEF RowHolds, Ready, Sane

LEMMA SourceChangedHolds ==
    ASSUME NEW row \in LetterRow, Sane(row)
    PROVE  /\ SourceChanged(row) \in LetterRow /\ Ready(SourceChanged(row))
           /\ Kin(row, SourceChanged(row)) /\ Inherits(row, SourceChanged(row))
           /\ SourceChanged(row).content = row.content
           /\ SourceChanged(row).checked = row.checked /\ SourceChanged(row).reading = row.reading
           /\ SourceChanged(row).overtaken = row.overtaken
           /\ SourceChanged(row).status["transcript"] = row.status["transcript"]
           /\ SourceChanged(row).job["transcript"] = row.job["transcript"]
           /\ SourceChanged(row).job["metadata"] = "IDLE"
           /\ SourceChanged(row).status["metadata"] # "VERIFIED"
           /\ \A f \in Fields : ~SourceChanged(row).published[f]
<1> DEFINE job == [row.job EXCEPT !["metadata"] = "IDLE"]
           drafted == IF row.status["metadata"] \in {"EMPTY", "EDITED"}
                      THEN row.status["metadata"] ELSE "AI_DRAFT"
           status == [row.status EXCEPT !["metadata"] = drafted]
           published == [f \in Fields |-> FALSE]
           new == [row EXCEPT !.job = job, !.status = status, !.published = published]
<1>1. /\ job \in [Fields -> {"IDLE", "RUNNING", "SUCCESS"}]
      /\ job["metadata"] = "IDLE" /\ job["transcript"] = row.job["transcript"]
  BY DEF LetterRow, Fields
<1>2. /\ status \in [Fields -> {"EMPTY", "AI_DRAFT", "EDITED", "VERIFIED"}]
      /\ status["metadata"] # "VERIFIED" /\ status["transcript"] = row.status["transcript"]
  BY DEF LetterRow, Fields
<1>3. published \in [Fields -> BOOLEAN] /\ \A f \in Fields : ~published[f]
  OBVIOUS
<1>4. SourceChanged(row) = new
  BY DEF SourceChanged, LetterRow
<1> HIDE DEF job, status, published
<1>5. /\ new \in LetterRow /\ new.job = job /\ new.status = status /\ new.published = published
      /\ new.present = row.present /\ new.visible = row.visible /\ new.revision = row.revision
      /\ new.content = row.content /\ new.checked = row.checked
      /\ new.overtaken = row.overtaken /\ new.reading = row.reading
  BY <1>1, <1>2, <1>3 DEF LetterRow
<1> HIDE DEF new
<1>6. Ready(new)
  BY <1>1, <1>2, <1>3, <1>5 DEF Ready, Sane, Fields
<1>7. Inherits(row, new)
  BY <1>2, <1>5 DEF Inherits, Stands, Fields
<1> QED BY <1>1, <1>2, <1>3, <1>4, <1>5, <1>6, <1>7 DEF Kin

LEMMA HumanTranscriptHolds ==
    ASSUME NEW row \in LetterRow, Sane(row), NEW text \in Transcripts
    PROVE  LET new == HumanTranscript(row, text) IN
           /\ new \in LetterRow /\ Ready(new) /\ Kin(row, new) /\ Inherits(row, new)
           /\ new.content["metadata"] = row.content["metadata"]
           /\ \A f \in Fields : ~new.published[f]
<1> DEFINE content == [row.content EXCEPT !["transcript"] = text]
           job == [row.job EXCEPT !["transcript"] = "SUCCESS"]
           written == IF text = NoText THEN "EMPTY" ELSE "EDITED"
           status == [row.status EXCEPT !["transcript"] = written]
           overtaken == [row.overtaken EXCEPT !["transcript"] = TRUE]
           mid == [row EXCEPT !.content = content, !.job = job, !.status = status,
                              !.overtaken = overtaken]
<1>1. /\ content \in [Fields -> Values] /\ content["transcript"] = text
      /\ content["metadata"] = row.content["metadata"]
  BY DEF LetterRow, Fields, Values, Transcripts
<1>2. /\ job \in [Fields -> {"IDLE", "RUNNING", "SUCCESS"}] /\ job["transcript"] = "SUCCESS"
      /\ job["metadata"] = row.job["metadata"]
  BY DEF LetterRow, Fields
<1>3. /\ status \in [Fields -> {"EMPTY", "AI_DRAFT", "EDITED", "VERIFIED"}]
      /\ status["transcript"] \in {"EMPTY", "EDITED"}
      /\ status["metadata"] = row.status["metadata"]
  BY DEF LetterRow, Fields
<1>4. overtaken \in [Fields -> BOOLEAN] /\ overtaken["metadata"] = row.overtaken["metadata"]
  BY DEF LetterRow, Fields
<1>5. HumanTranscript(row, text) = SourceChanged(mid)
  BY DEF HumanTranscript, LetterRow
<1> HIDE DEF content, job, status, overtaken
<1>6. /\ mid \in LetterRow /\ mid.content = content /\ mid.job = job /\ mid.status = status
      /\ mid.overtaken = overtaken /\ mid.present = row.present /\ mid.visible = row.visible
      /\ mid.revision = row.revision /\ mid.checked = row.checked
      /\ mid.published = row.published
  BY <1>1, <1>2, <1>3, <1>4 DEF LetterRow
<1> HIDE DEF mid
<1>7. Sane(mid)
  BY <1>1, <1>2, <1>3, <1>4, <1>6 DEF Sane, Fields
<1>8. mid.content["metadata"] = row.content["metadata"] /\ SourceChanged(mid).content = mid.content
  BY <1>1, <1>6, <1>7, SourceChangedHolds
<1>9. Inherits(row, SourceChanged(mid))
  <2>1. Inherits(mid, SourceChanged(mid))
    BY <1>6, <1>7, SourceChangedHolds
  <2>2. Inherits(row, mid)
    BY <1>1, <1>3, <1>6 DEF Inherits, Stands, Fields
  <2> QED BY <2>1, <2>2 DEF Inherits, Stands
<1> QED BY <1>5, <1>6, <1>7, <1>8, <1>9, SourceChangedHolds DEF Kin

\* A save of metadata: an attempt that runs is given up.
LEMMA HumanMetadataHolds ==
    ASSUME NEW row \in LetterRow, Sane(row), NEW value \in Values,
           row.published["transcript"] => row.status["transcript"] = "VERIFIED"
    PROVE  LET new == HumanMetadata(row, value) IN
           /\ new \in LetterRow /\ Ready(new) /\ Kin(row, new) /\ Inherits(row, new)
           /\ ~new.published["metadata"]
           /\ new.status["transcript"] = row.status["transcript"]
           /\ new.published["transcript"] = row.published["transcript"]
<1> DEFINE content == [row.content EXCEPT !["metadata"] = value]
           stopped == IF row.job["metadata"] = "RUNNING" THEN "IDLE" ELSE row.job["metadata"]
           job == [row.job EXCEPT !["metadata"] = stopped]
           written == IF row.status["metadata"] = "EMPTY" THEN "EMPTY" ELSE "EDITED"
           status == [row.status EXCEPT !["metadata"] = written]
           published == [row.published EXCEPT !["metadata"] = FALSE]
           overtaken == [row.overtaken EXCEPT !["metadata"] = TRUE]
           new == [row EXCEPT !.content = content, !.job = job, !.status = status,
                              !.published = published, !.overtaken = overtaken]
<1>1. /\ content \in [Fields -> Values] /\ content["transcript"] = row.content["transcript"]
  BY DEF LetterRow, Fields
<1>2. /\ job \in [Fields -> {"IDLE", "RUNNING", "SUCCESS"}] /\ job["metadata"] # "RUNNING"
      /\ job["transcript"] = row.job["transcript"]
  BY DEF LetterRow, Fields
<1>3. /\ status \in [Fields -> {"EMPTY", "AI_DRAFT", "EDITED", "VERIFIED"}]
      /\ status["metadata"] \in {"EMPTY", "EDITED"}
      /\ status["transcript"] = row.status["transcript"]
  BY DEF LetterRow, Fields
<1>4. /\ overtaken \in [Fields -> BOOLEAN]
      /\ overtaken["transcript"] = row.overtaken["transcript"]
  BY DEF LetterRow, Fields
<1>5. /\ published \in [Fields -> BOOLEAN] /\ ~published["metadata"]
      /\ published["transcript"] = row.published["transcript"]
  BY DEF LetterRow, Fields
<1>6. HumanMetadata(row, value) = new
  BY DEF HumanMetadata, LetterRow
<1> HIDE DEF content, job, status, published, overtaken
<1>7. /\ new \in LetterRow /\ new.content = content /\ new.job = job /\ new.status = status
      /\ new.overtaken = overtaken /\ new.present = row.present /\ new.visible = row.visible
      /\ new.revision = row.revision /\ new.checked = row.checked
      /\ new.published = published
  BY <1>1, <1>2, <1>3, <1>4, <1>5 DEF LetterRow
<1> HIDE DEF new
<1>8. Ready(new)
  BY <1>1, <1>2, <1>3, <1>4, <1>5, <1>7 DEF Ready, Sane, Fields
<1>9. Inherits(row, new)
  BY <1>1, <1>3, <1>7 DEF Inherits, Stands, Fields
<1> QED BY <1>3, <1>5, <1>6, <1>7, <1>8, <1>9 DEF Kin, Fields

LEMMA RecordedHolds ==
    ASSUME NEW row \in LetterRow, Ready(row)
    PROVE  LET new == Recorded(row) IN
           /\ new \in LetterRow /\ RowHolds(new)
           /\ new.present = row.present /\ new.visible = row.visible
           /\ new.revision = row.revision /\ new.published = row.published
           /\ new.content = row.content /\ new.status = row.status
<1> DEFINE checked == [f \in Fields |-> IF row.status[f] = "VERIFIED" THEN row.checked[f] ELSE NoText]
           overtaken == [f \in Fields |-> row.overtaken[f] /\ row.job[f] = "RUNNING"]
           new == [row EXCEPT !.checked = checked, !.overtaken = overtaken]
<1>1. /\ checked \in [Fields -> Values]
      /\ \A f \in Fields : row.status[f] = "VERIFIED" => checked[f] = row.checked[f]
  BY DEF LetterRow, Values
<1>2. overtaken \in [Fields -> BOOLEAN] /\ \A f \in Fields : ~overtaken[f]
  BY DEF Ready, Sane, LetterRow
<1>3. Recorded(row) = new
  BY DEF Recorded, LetterRow
<1> HIDE DEF checked, overtaken
<1>4. /\ new \in LetterRow /\ new.content = row.content /\ new.status = row.status
      /\ new.present = row.present /\ new.visible = row.visible /\ new.revision = row.revision
      /\ new.published = row.published /\ new.checked = checked /\ new.overtaken = overtaken
  BY <1>1, <1>2 DEF LetterRow
<1> HIDE DEF new
<1> QED BY <1>1, <1>2, <1>3, <1>4 DEF Ready, Sane, RowHolds

\* The row of a save is ready for the flags that the save does not touch.
LEMMA PatchedHolds ==
    ASSUME NEW row \in LetterRow, RowHolds(row), NEW was, NEW text \in Transcripts,
           NEW value \in Values, NEW edits \in SUBSET Fields
    PROVE  LET new == Patched(row, was, text, value, edits) IN
           /\ new \in LetterRow /\ Ready(new) /\ Kin(row, new) /\ Inherits(row, new)
           /\ "metadata" \notin edits => new.content["metadata"] = row.content["metadata"]
           /\ \A f \in Fields : f \notin edits /\ "transcript" \notin edits =>
                                  new.status[f] = row.status[f]
<1> DEFINE written == IF "metadata" \in edits THEN HumanMetadata(row, value) ELSE row
           both == IF "transcript" \in edits THEN HumanTranscript(written, text) ELSE written
<1>1. Ready(row)
  BY ReadyRow
<1>2. /\ written \in LetterRow /\ Ready(written) /\ Kin(row, written) /\ Inherits(row, written)
      /\ written.status["transcript"] = row.status["transcript"]
      /\ "metadata" \notin edits => written = row
  BY <1>1, HumanMetadataHolds DEF Ready, Kin, Fields, Inherits, Stands
<1> HIDE DEF written
<1>3. /\ both \in LetterRow /\ Ready(both) /\ Kin(written, both) /\ Inherits(row, both)
      /\ "transcript" \notin edits => both = written
      /\ "transcript" \in edits => /\ both.content["metadata"] = written.content["metadata"]
                                   /\ \A f \in Fields : ~both.published[f]
  <2>1. CASE "transcript" \in edits
    <3>1. /\ both \in LetterRow /\ Ready(both) /\ Kin(written, both) /\ Inherits(written, both)
          /\ both.content["metadata"] = written.content["metadata"]
          /\ \A f \in Fields : ~both.published[f]
      BY <1>2, <2>1, HumanTranscriptHolds DEF Ready
    <3>2. Inherits(row, both)
      BY <1>2, <3>1 DEF Inherits, Stands
    <3> QED BY <2>1, <3>1, <3>2
  <2>2. CASE "transcript" \notin edits
    BY <1>2, <2>2 DEF Kin
  <2> QED BY <2>1, <2>2
<1> HIDE DEF both
<1>4. CASE edits = Fields /\ was.status["metadata"] # "EMPTY"
  <2> DEFINE status == [both.status EXCEPT !["metadata"] = "EDITED"]
             new == [both EXCEPT !.status = status]
  <2>1. /\ status \in [Fields -> {"EMPTY", "AI_DRAFT", "EDITED", "VERIFIED"}]
        /\ status["metadata"] # "VERIFIED" /\ status["transcript"] = both.status["transcript"]
    BY <1>3 DEF LetterRow, Fields
  <2>2. Patched(row, was, text, value, edits) = new
    BY <1>3, <1>4 DEF Patched, both, written, LetterRow
  <2> HIDE DEF status
  <2>3. /\ new \in LetterRow /\ new.status = status /\ new.content = both.content
        /\ new.job = both.job /\ new.checked = both.checked /\ new.overtaken = both.overtaken
        /\ new.published = both.published /\ new.present = both.present
        /\ new.visible = both.visible /\ new.revision = both.revision
    BY <1>3, <2>1 DEF LetterRow
  <2> HIDE DEF new
  <2>4. "transcript" \in edits /\ "metadata" \in edits
    BY <1>4 DEF Fields
  <2>5. Ready(new)
    BY <1>3, <2>1, <2>3, <2>4 DEF Ready, Sane, Fields
  <2>6. Inherits(row, new)
    BY <1>3, <2>1, <2>3 DEF Inherits, Stands, Fields
  <2> QED BY <1>2, <1>3, <2>2, <2>3, <2>4, <2>5, <2>6 DEF Kin
<1>5. CASE ~(edits = Fields /\ was.status["metadata"] # "EMPTY")
  <2>1. Patched(row, was, text, value, edits) = both
    BY <1>5 DEF Patched, both, written
  <2> QED BY <1>2, <1>3, <2>1 DEF Kin, Fields
<1> QED BY <1>4, <1>5

-----------------------------------------------------------------------------
(* The invariant.                                                            *)

Asker == [pc : {"away", "screen", "read", "generate", "generating", "gone"},
          pages : 0 .. MaxEvents, seen : [Members -> 0 .. MaxEvents], member : Members,
          was : LetterRow, fresh : BOOLEAN]

\* The group: the revision of a member counts the page changes of the group.
RowsInv ==
    /\ letter \in [Members -> LetterRow]
    /\ \A m \in Members : RowHolds(letter[m])
    /\ \A m \in Present : letter[m].revision = pages
    /\ \A m \in Members \ Present : letter[m].revision = 0 /\ ~letter[m].visible
    /\ \A m, n \in Present : letter[m].visible = letter[n].visible
    /\ Present # {}
    /\ pages \in 0 .. MaxEvents /\ events \in 0 .. MaxEvents /\ pages <= events

\* A request remembers what it saw; a fresh one still reads the metadata it has read.
Fits(ask) ==
    /\ ask \in Asker
    /\ ask.pages <= pages
    /\ \A m \in Members : ask.seen[m] \in {0, ask.pages}
    /\ ask.was.content["transcript"] \in Transcripts
    /\ ask.pc \in {"read", "generate", "generating"} => letter[ask.member].present
    /\ ask.pc = "read" /\ ask.fresh =>
         letter[ask.member].content["metadata"] = ask.was.content["metadata"]

AskInv == /\ asking \in [Admins -> Asker]
          /\ \A a \in Admins : Fits(asking[a])

VersionInv ==
    /\ version \in {NoVersion} \union
         [field : Fields, member : Members, content : Values, revision : 0 .. MaxEvents]
    /\ version # NoVersion /\ version.field = "transcript" => version.content \in Transcripts

PublicationInv == RowsInv /\ AskInv /\ VersionInv

\* Nothing of the group became public.
Grantless == \A m \in Members :
    /\ letter'[m].visible => letter[m].visible
    /\ \A f \in Fields : letter'[m].published[f] => letter[m].published[f]

\* Members stay, and only the metadata of those in S was written.
Moved(S) == \A m \in Members :
    /\ letter[m].present => letter'[m].present
    /\ m \notin S => letter'[m].content["metadata"] = letter[m].content["metadata"]

\* Nothing of the group became verified.
Inherited == \A m \in Members : Inherits(letter[m], letter'[m])

\* Requests that read the metadata of S have ended or know that they are late.
Calm(S) ==
    /\ asking' = [b \in Admins |-> asking'[b]]
    /\ \A b \in Admins :
         \/ Fits(asking[b])'
         \/ asking'[b] = asking[b] /\ (asking[b].pc = "read" => asking[b].member \notin S)
         \/ asking'[b] = [asking[b] EXCEPT !.fresh = FALSE]

LEMMA AbsentHolds == Absent \in LetterRow /\ RowHolds(Absent)
BY PublicationAssumption DEF Absent, LetterRow, RowHolds, Fields, Values, Transcripts

LEMMA GoneHolds ==
           /\ Away \in Asker /\ Gone \in Asker /\ Gone.pc = "gone" /\ Away.pc = "away"
           /\ Gone.pages = 0 /\ Gone.was = Absent /\ \A m \in Members : Gone.seen[m] = 0
           /\ Away.pages = 0 /\ Away.was = Absent /\ \A m \in Members : Away.seen[m] = 0
           /\ Absent.content["transcript"] = NoText
<1>1. Absent \in LetterRow /\ 0 \in 0 .. MaxEvents
  BY AbsentHolds, PublicationAssumption
<1>2. Absent.content["transcript"] = NoText
  BY DEF Absent, Fields
<1>3. /\ Away \in Asker /\ Away.pc = "away" /\ Away.pages = 0 /\ Away.was = Absent
      /\ \A m \in Members : Away.seen[m] = 0
  BY <1>1 DEF Away, Asker, Members
<1>4. /\ Gone \in Asker /\ Gone.pc = "gone" /\ Gone.pages = 0 /\ Gone.was = Absent
      /\ Gone.seen = Away.seen
  BY <1>3 DEF Gone, Asker
<1> QED BY <1>2, <1>3, <1>4

\* The rows after one member was rewritten.
LEMMA WriteStep ==
    ASSUME RowsInv, NEW m \in Members, NEW row \in LetterRow, Ready(row), Kin(letter[m], row),
           Write(m, row), UNCHANGED pages, events' \in 0 .. MaxEvents, events' >= events
    PROVE  /\ RowsInv' /\ letter'[m].content = row.content
           /\ \A n \in Members \ {m} : letter'[n] = letter[n]
           /\ Grantless /\ Moved({m}) /\ Present' = Present
           /\ letter'[m].status = row.status /\ (Inherits(letter[m], row) => Inherited)
           /\ row.content["metadata"] = letter[m].content["metadata"] => Moved({})
<1> DEFINE new == Recorded(row)
<1>1. /\ new \in LetterRow /\ RowHolds(new) /\ new.present = letter[m].present
      /\ new.visible = letter[m].visible /\ new.revision = letter[m].revision
      /\ new.content = row.content /\ new.status = row.status /\ Kin(letter[m], new)
  BY RecordedHolds DEF Kin
<1> HIDE DEF new
<1>2. /\ letter' \in [Members -> LetterRow] /\ letter'[m] = new
      /\ \A n \in Members \ {m} : letter'[n] = letter[n]
  BY <1>1 DEF Write, RowsInv, new
<1>3. \A n \in Members : letter'[n].present = letter[n].present
                         /\ letter'[n].visible = letter[n].visible
                         /\ letter'[n].revision = letter[n].revision
  BY <1>1, <1>2
<1>4. Present' = Present
  BY <1>3 DEF Present
<1>5. \A n \in Members : RowHolds(letter[n])'
  BY <1>1, <1>2 DEF RowsInv, RowHolds
<1>6. RowsInv'
  BY <1>2, <1>3, <1>4, <1>5 DEF RowsInv, Present
<1>7. Grantless
  BY <1>1, <1>2 DEF Kin, Grantless
<1>8. Moved({m}) /\ (row.content["metadata"] = letter[m].content["metadata"] => Moved({}))
  BY <1>1, <1>2, <1>3 DEF Moved
<1>9. Inherits(letter[m], row) => Inherited
  BY <1>1, <1>2 DEF Inherited, Inherits, Stands
<1> QED BY <1>1, <1>2, <1>4, <1>6, <1>7, <1>8, <1>9

\* The rows after a publication of a row that is ready.
LEMMA PublishStep ==
    ASSUME RowsInv, NEW intent, NEW edits \in SUBSET Fields, NEW owner \in Present, NEW was,
           NEW patched \in LetterRow, Ready(patched), Kin(letter[owner], patched),
           \A f \in Fields : f \notin edits /\ "transcript" \notin edits =>
                               patched.status[f] = letter[owner].status[f],
           ~Refused(intent, edits, owner, was),
           Publish(intent, edits, owner, was, patched),
           UNCHANGED <<pages, events>>
    PROVE  /\ RowsInv' /\ letter'[owner].content = patched.content
           /\ \A n \in Members \ {owner} : letter'[n].content = letter[n].content
           /\ Present' = Present /\ Moved({owner})
           /\ patched.content["metadata"] = letter[owner].content["metadata"] => Moved({})
           /\ Grants(intent) \/ Grantless
           /\ Inherits(letter[owner], patched) => Inherited
<1>1. Root \in Present /\ Present \subseteq Members
  BY DEF RowsInv, Root, Present, Members
<1> DEFINE before(m) == IF m = owner THEN patched ELSE letter[m]
           visible(m) == IF intent.visible = "keep" THEN before(m).visible ELSE intent.visible = "yes"
           flags(m) == IF m = Root THEN FlagsAfter(intent, edits, owner, was, before(m).published)
                       ELSE before(m).published
           next(m) == [before(m) EXCEPT !.visible = visible(m), !.published = flags(m)]
<1>2. \A m \in Members : /\ before(m) \in LetterRow /\ Ready(before(m)) /\ Kin(letter[m], before(m))
  BY ReadyRow DEF RowsInv, Kin
<1>3. ASSUME NEW f \in Fields, Eligible(f, edits, owner, was)
      PROVE  before(Root).status[f] = "VERIFIED"
  <2>1. f \notin edits /\ "transcript" \notin edits
    BY <1>3 DEF Eligible, Blocked
  <2>2. letter[Root].status[f] = "VERIFIED"
    BY <1>3, <2>1 DEF Eligible, CanPublish, Intended, Fields
  <2> QED BY <2>1, <2>2
<1>4. ASSUME NEW m \in Members
      PROVE  flags(m) \in [Fields -> BOOLEAN]
             /\ \A f \in Fields : flags(m)[f] => before(m).status[f] = "VERIFIED"
  <2>1. before(m).published \in [Fields -> BOOLEAN]
        /\ \A f \in Fields : before(m).published[f] => before(m).status[f] = "VERIFIED"
    BY <1>2 DEF LetterRow, Ready
  <2>2. CASE m # Root
    BY <2>1, <2>2
  <2>3. CASE m = Root
    <3>1. \A f \in Fields : intent.publish[f] = "yes" => Eligible(f, edits, owner, was)
      BY DEF Refused
    <3> QED BY <1>3, <2>1, <2>3, <3>1 DEF FlagsAfter, Eligible, CanPublish
  <2> QED BY <2>2, <2>3
<1>5. ASSUME NEW m \in Members
      PROVE  /\ visible(m) \in BOOLEAN
             /\ next(m) \in LetterRow /\ Ready(next(m)) /\ next(m).present = letter[m].present
             /\ next(m).revision = letter[m].revision /\ next(m).content = before(m).content
             /\ next(m).status = before(m).status
             /\ next(m).visible = visible(m) /\ next(m).published = flags(m)
  <2>1. before(m) \in LetterRow /\ visible(m) \in BOOLEAN /\ flags(m) \in [Fields -> BOOLEAN]
    BY <1>2, <1>4 DEF LetterRow
  <2> DEFINE b == before(m)
             v == visible(m)
             p == flags(m)
             n == [b EXCEPT !.visible = v, !.published = p]
  <2>2. /\ \A f \in Fields : p[f] => b.status[f] = "VERIFIED"
        /\ Ready(b) /\ Kin(letter[m], b)
    BY <1>2, <1>4
  <2> HIDE DEF b, v, p
  <2>3. /\ n \in LetterRow /\ n.visible = v /\ n.published = p /\ n.content = b.content
        /\ n.present = b.present /\ n.revision = b.revision /\ n.status = b.status
        /\ n.checked = b.checked /\ n.job = b.job /\ n.overtaken = b.overtaken
    BY <2>1 DEF LetterRow, b, v, p
  <2> HIDE DEF n
  <2>4. Ready(n)
    BY <2>2, <2>3 DEF Ready, Sane
  <2>5. next(m) = n
    BY DEF n, b, v, p
  <2> QED BY <2>1, <2>2, <2>3, <2>4, <2>5 DEF Kin, b, v, p
<1>6. \A m \in Members : letter'[m] = IF ~before(m).present THEN before(m) ELSE Recorded(next(m))
  BY DEF Publish
<1>7. letter' = [m \in Members |-> letter'[m]]
  BY DEF Publish
<1> HIDE DEF flags
<1>8. ASSUME NEW m \in Members
      PROVE  /\ letter'[m] \in LetterRow /\ RowHolds(letter[m])'
             /\ letter'[m].present = letter[m].present /\ letter'[m].revision = letter[m].revision
             /\ letter'[m].content = before(m).content /\ letter'[m].status = before(m).status
             /\ letter[m].present => letter'[m].visible = visible(m)
             /\ ~letter[m].present => letter'[m].visible = letter[m].visible
             /\ \/ letter'[m].visible = letter[m].visible /\ letter'[m].published = letter[m].published
                \/ letter'[m].visible = visible(m) /\ letter'[m].published = flags(m)
  <2>1. before(m).present = letter[m].present
    BY <1>2 DEF Kin
  <2>2. CASE ~before(m).present
    <3>1. m # owner /\ before(m) = letter[m]
      BY <2>1, <2>2 DEF Present
    <3>2. letter'[m] = letter[m] /\ ~letter[m].present
      BY <1>6, <2>1, <2>2, <3>1
    <3>3. letter[m] \in LetterRow /\ RowHolds(letter[m])
      BY DEF RowsInv
    <3> QED BY <3>1, <3>2, <3>3 DEF RowHolds
  <2>3. CASE before(m).present
    <3> DEFINE n == next(m)
    <3>1. letter'[m] = Recorded(n)
      BY <1>6, <2>3
    <3>2. /\ n \in LetterRow /\ Ready(n) /\ n.present = letter[m].present
          /\ n.revision = letter[m].revision /\ n.content = before(m).content
          /\ n.status = before(m).status
          /\ n.visible = visible(m) /\ n.published = flags(m)
      BY <1>5
    <3> HIDE DEF n
    <3> QED BY <2>1, <2>3, <3>1, <3>2, RecordedHolds DEF RowHolds
  <2> QED BY <2>2, <2>3
<1>9. Present' = Present
  BY <1>8 DEF Present
<1>10. \A m, n \in Present : visible(m) = visible(n)
  <2>1. \A m \in Present : before(m).visible = letter[m].visible
    BY <1>1, <1>2 DEF Kin
  <2> QED BY <2>1 DEF RowsInv
<1>11. letter' \in [Members -> LetterRow]
  BY <1>7, <1>8
<1>12. RowsInv'
  <2>1. \A m \in Present : m \in Members /\ letter[m].present
    BY DEF Present
  <2>2. \A m, n \in Present : letter'[m].visible = letter'[n].visible
    BY <1>8, <1>10, <2>1
  <2>3. \A m \in Present : letter'[m].revision = pages
    BY <1>8, <2>1 DEF RowsInv
  <2>4. \A m \in Members : RowHolds(letter[m])'
    BY <1>8
  <2>5. \A m \in Members \ Present : letter'[m].revision = 0 /\ ~letter'[m].visible
    BY <1>8 DEF RowsInv, Present
  <2> QED BY <1>1, <1>9, <1>11, <2>2, <2>3, <2>4, <2>5 DEF RowsInv
<1>13. before(owner) = patched /\ \A n \in Members \ {owner} : before(n) = letter[n]
  OBVIOUS
<1>14. \A m \in Members : letter'[m].content = before(m).content /\ letter'[m].status = before(m).status
  BY <1>8
<1>15. ASSUME ~Grants(intent) PROVE Grantless
  <2>1. \A m \in Members : visible(m) => letter[m].visible
    BY <1>2, <1>15 DEF Grants, Kin
  <2>2. \A m \in Members, f \in Fields : flags(m)[f] => letter[m].published[f]
    BY <1>2, <1>15 DEF flags, FlagsAfter, Grants, Kin
  <2> HIDE DEF visible
  <2> QED BY <1>8, <2>1, <2>2 DEF Grantless
<1>16. \A m \in Members : letter'[m].present = letter[m].present
  BY <1>8
<1> HIDE DEF before
<1>17. Moved({owner})
  BY <1>13, <1>14, <1>16 DEF Moved
<1>18. patched.content["metadata"] = letter[owner].content["metadata"] => Moved({})
  BY <1>13, <1>14, <1>16 DEF Moved
<1>19. Inherits(letter[owner], patched) => Inherited
  BY <1>13, <1>14 DEF Inherited, Inherits, Stands
<1> QED BY <1>1, <1>9, <1>12, <1>13, <1>14, <1>15, <1>17, <1>18, <1>19

LEMMA GoneFits == ASSUME pages' \in Nat PROVE Fits(Gone)'
BY GoneHolds DEF Fits, Transcripts

\* Requests after a step that only ends some and outdates others.
LEMMA AskKept ==
    ASSUME AskInv, pages \in Nat, pages' \in Nat, pages <= pages',
           NEW S \in SUBSET Members, Moved(S), Calm(S)
    PROVE  AskInv'
<1>1. SUFFICES ASSUME NEW b \in Admins PROVE Fits(asking[b])'
  BY <1>1 DEF AskInv, Calm, Fits
<1>2. Fits(asking[b])
  BY DEF AskInv
<1>3. CASE asking'[b] = asking[b] /\ (asking[b].pc = "read" => asking[b].member \notin S)
  <2>1. PICK ask : ask = asking[b]
    OBVIOUS
  <2>2. asking'[b] = ask /\ Fits(ask) /\ (ask.pc = "read" => ask.member \notin S)
    BY <1>2, <1>3, <2>1
  <2>3. Fits(ask)'
    BY <2>2 DEF Fits, Asker, Moved
  <2> QED BY <2>2, <2>3
<1>4. CASE asking'[b] = [asking[b] EXCEPT !.fresh = FALSE]
  <2>1. PICK ask : ask = asking[b]
    OBVIOUS
  <2>2. asking'[b] = [ask EXCEPT !.fresh = FALSE] /\ Fits(ask)
    BY <1>2, <1>4, <2>1
  <2>3. PICK new : new = [ask EXCEPT !.fresh = FALSE]
    OBVIOUS
  <2>4. /\ new \in Asker /\ new.pc = ask.pc /\ new.pages = ask.pages /\ new.seen = ask.seen
        /\ new.member = ask.member /\ new.was = ask.was /\ ~new.fresh
    BY <2>2, <2>3 DEF Fits, Asker
  <2>5. Fits(new)'
    BY <2>2, <2>4 DEF Fits, Asker, Moved
  <2> QED BY <2>2, <2>3, <2>5
<1> QED BY <1>3, <1>4 DEF Calm

\* The requests after a has left, the others as they were.
LEMMA LeaveStep ==
    ASSUME RowsInv, AskInv, NEW a \in Admins, Leave(a), Moved({}), UNCHANGED pages
    PROVE  AskInv' /\ asking'[a] = Gone
<1>1. pages \in Nat /\ pages' \in Nat
  BY PublicationAssumption DEF RowsInv
<1>2. Calm({})
  BY <1>1, GoneFits DEF Leave, AskInv, Calm
<1> QED BY <1>1, <1>2, AskKept DEF Leave, AskInv

\* The same when the metadata of m was written.
LEMMA LeaveAdvancingStep ==
    ASSUME RowsInv, AskInv, NEW a \in Admins, NEW m \in Members, LeaveAdvancing(a, m),
           Moved({m}), UNCHANGED pages
    PROVE  AskInv' /\ asking'[a] = Gone
<1>1. pages \in Nat /\ pages' \in Nat
  BY PublicationAssumption DEF RowsInv
<1>2. /\ asking' = [b \in Admins |-> asking'[b]] /\ asking'[a] = Gone
      /\ \A b \in Admins \ {a} : asking'[b] = Outdated(a, m)[b]
  BY DEF LeaveAdvancing, Outdated
<1>3. Calm({m})
  BY <1>1, <1>2, GoneFits DEF Calm, Outdated
<1> QED BY <1>1, <1>2, <1>3, AskKept

\* The same when nobody leaves.
LEMMA AdvanceStep ==
    ASSUME RowsInv, AskInv, NEW m \in Members, Advance(m), Moved({m}),
           pages' \in Nat, pages <= pages'
    PROVE  AskInv'
<1>1. pages \in Nat
  BY PublicationAssumption DEF RowsInv
<1>2. Calm({m})
  BY DEF Calm, Advance
<1> QED BY <1>1, <1>2, AskKept

LEMMA WaitStep ==
    ASSUME RowsInv, AskInv, UNCHANGED asking, Moved({}), pages' \in Nat, pages <= pages'
    PROVE  AskInv'
<1>1. pages \in Nat
  BY PublicationAssumption DEF RowsInv
<1>2. Calm({})
  BY DEF Calm, AskInv
<1> QED BY <1>1, <1>2, AskKept

-----------------------------------------------------------------------------
(* Every action preserves the invariant and grants only what was seen.       *)

\* A reader of the present pages verified one entry as it is.
VerifiedByItsReader ==
    /\ SeenByItsAuthor /\ Grantless
    /\ \E m \in Members, f \in Fields :
         /\ letter'[m].status[f] = "VERIFIED" /\ letter'[m].content[f] = letter[m].content[f]
         /\ \A n \in Members, g \in Fields :
              <<n, g>> # <<m, f>> => Stands(letter[n], letter'[n], g)

StepHolds ==
    /\ PublicationInv'
    /\ Grantless \/ SeenByItsAuthor
    /\ Inherited \/ VerifiedByItsReader

LEMMA StillRows ==
    ASSUME RowsInv, UNCHANGED <<letter, pages, events>>
    PROVE  RowsInv' /\ Grantless /\ Inherited /\ Moved({}) /\ pages \in Nat /\ pages' \in Nat
<1>1. RowsInv'
  BY DEF RowsInv, RowHolds, Present
<1>2. Grantless /\ Moved({}) /\ Inherited
  BY DEF Grantless, Moved, Inherited, Inherits, Stands
<1> QED BY <1>1, <1>2, PublicationAssumption DEF RowsInv

LEMMA SameVersion == ASSUME VersionInv, UNCHANGED version PROVE VersionInv'
BY DEF VersionInv

\* A request that only proceeds.
LEMMA OwnStep ==
    ASSUME PublicationInv, NEW a \in Admins, NEW ask, asking' = [asking EXCEPT ![a] = ask],
           Fits(ask), UNCHANGED <<letter, version, pages, events>>
    PROVE  StepHolds
<1>1. RowsInv' /\ Grantless /\ Inherited /\ Moved({}) /\ VersionInv' /\ pages \in Nat
  BY StillRows, SameVersion DEF PublicationInv
<1>2. Fits(ask)'
  BY DEF Fits
<1>3. asking'[a] = ask /\ asking' = [b \in Admins |-> asking'[b]]
      /\ \A b \in Admins \ {a} : asking'[b] = asking[b]
  BY DEF PublicationInv, AskInv
<1>4. Calm({})
  BY <1>2, <1>3 DEF Calm, Fits
<1> QED BY <1>1, <1>4, AskKept DEF PublicationInv, StepHolds

\* Or that ends without having written.
LEMMA LeaveOnly ==
    ASSUME PublicationInv, NEW a \in Admins, Leave(a), UNCHANGED <<letter, version, pages, events>>
    PROVE  StepHolds
BY StillRows, SameVersion, LeaveStep DEF PublicationInv, StepHolds

LEMMA LookHolds ==
    ASSUME PublicationInv, NEW a \in Admins, Look(a) PROVE StepHolds
<1> DEFINE new == [Away EXCEPT !.pc = "screen", !.pages = pages,
                               !.seen = [m \in Members |-> letter[m].revision]]
<1>1. pages \in 0 .. MaxEvents /\ pages \in Nat
  BY PublicationAssumption DEF PublicationInv, RowsInv
<1>2. \A m \in Members : letter[m].revision \in 0 .. MaxEvents /\ letter[m].revision \in {0, pages}
  BY DEF PublicationInv, RowsInv, LetterRow, Present
<1>3. /\ new \in Asker /\ new.pc = "screen" /\ new.pages = pages /\ new.was = Absent
      /\ \A m \in Members : new.seen[m] \in {0, pages}
  BY <1>1, <1>2, GoneHolds DEF Asker
<1>4. asking' = [asking EXCEPT ![a] = new] /\ UNCHANGED <<letter, version, pages, events>>
  BY DEF Look
<1> HIDE DEF new
<1>5. Fits(new)
  BY <1>1, <1>3, GoneHolds DEF Fits, Transcripts
<1> QED BY <1>4, <1>5, OwnStep

LEMMA RequestHolds ==
    ASSUME PublicationInv, NEW a \in Admins, NEW m \in Members, Request(a, m) PROVE StepHolds
<1>1. UNCHANGED <<letter, version, pages, events>>
  BY DEF Request
<1>2. CASE Leave(a)
  BY <1>1, <1>2, LeaveOnly
<1>3. CASE ~Leave(a)
  <2> DEFINE new == [asking[a] EXCEPT !.pc = "read", !.member = m, !.was = letter[m], !.fresh = TRUE]
  <2>1. asking' = [asking EXCEPT ![a] = new] /\ letter[m].present
    BY <1>3 DEF Request, PublicationInv, AskInv
  <2>2. Fits(asking[a]) /\ letter[m] \in LetterRow /\ RowHolds(letter[m])
    BY DEF PublicationInv, AskInv, RowsInv
  <2>3. /\ new \in Asker /\ new.pc = "read" /\ new.pages = asking[a].pages
        /\ new.seen = asking[a].seen /\ new.member = m /\ new.was = letter[m]
    BY <2>2 DEF Fits, Asker
  <2> HIDE DEF new
  <2>4. Fits(new)
    BY <2>1, <2>2, <2>3 DEF Fits, RowHolds
  <2> QED BY <1>1, <2>1, <2>4, OwnStep
<1> QED BY <1>2, <1>3

LEMMA AskReadingViewHolds ==
    ASSUME PublicationInv, NEW a \in Admins, NEW m \in Members, AskReadingView(a, m)
    PROVE  StepHolds
<1> DEFINE new == [asking[a] EXCEPT !.pc = "generate", !.member = m]
<1>1. /\ asking' = [asking EXCEPT ![a] = new] /\ letter[m].present
      /\ UNCHANGED <<letter, version, pages, events>>
  BY DEF AskReadingView, PublicationInv, AskInv
<1>2. Fits(asking[a])
  BY DEF PublicationInv, AskInv
<1>3. /\ new \in Asker /\ new.pc = "generate" /\ new.pages = asking[a].pages
      /\ new.seen = asking[a].seen /\ new.member = m /\ new.was = asking[a].was
  BY <1>2 DEF Fits, Asker
<1> HIDE DEF new
<1>4. Fits(new)
  BY <1>1, <1>2, <1>3 DEF Fits
<1> QED BY <1>1, <1>4, OwnStep

LEMMA StartReadingViewHolds ==
    ASSUME PublicationInv, NEW a \in Admins, StartReadingView(a) PROVE StepHolds
<1>1. UNCHANGED <<letter, version, pages, events>>
  BY DEF StartReadingView
<1>2. CASE Leave(a)
  BY <1>1, <1>2, LeaveOnly
<1>3. CASE ~Leave(a)
  <2> DEFINE m == asking[a].member
             new == [asking[a] EXCEPT !.pc = "generating", !.was = letter[m]]
  <2>1. asking' = [asking EXCEPT ![a] = new] /\ asking[a].pc = "generate"
    BY <1>3 DEF StartReadingView, PublicationInv, AskInv
  <2>2. Fits(asking[a]) /\ m \in Members
    BY DEF PublicationInv, AskInv, Asker
  <2>3. letter[m] \in LetterRow /\ RowHolds(letter[m])
    BY <2>2 DEF PublicationInv, RowsInv
  <2>4. /\ new \in Asker /\ new.pc = "generating" /\ new.pages = asking[a].pages
        /\ new.seen = asking[a].seen /\ new.member = m /\ new.was = letter[m]
    BY <2>2, <2>3 DEF Fits, Asker
  <2> HIDE DEF new
  <2>5. Fits(new)
    BY <2>1, <2>2, <2>3, <2>4 DEF Fits, RowHolds
  <2> QED BY <1>1, <2>1, <2>5, OwnStep
<1> QED BY <1>2, <1>3

\* The row of one member was written by a, who leaves; m's metadata is as it was.
LEMMA WriteLeave ==
    ASSUME PublicationInv, NEW a \in Admins, NEW m \in Members, NEW row \in LetterRow,
           Ready(row), Kin(letter[m], row), Write(m, row),
           row.content["metadata"] = letter[m].content["metadata"],
           Leave(a), UNCHANGED <<version, pages, events>>
    PROVE  /\ PublicationInv' /\ Grantless /\ asking'[a] = Gone
           /\ Inherits(letter[m], row) => StepHolds
<1>1. RowsInv /\ events' \in 0 .. MaxEvents /\ events' >= events /\ UNCHANGED pages
  BY DEF PublicationInv, RowsInv
<1>2. RowsInv' /\ Grantless /\ Moved({}) /\ (Inherits(letter[m], row) => Inherited)
  BY <1>1, WriteStep
<1> QED BY <1>1, <1>2, SameVersion, LeaveStep DEF PublicationInv, StepHolds

\* The same with a new metadata revision.
LEMMA WriteLeaveAdvancing ==
    ASSUME PublicationInv, NEW a \in Admins, NEW m \in Members, NEW row \in LetterRow,
           Ready(row), Kin(letter[m], row), Write(m, row),
           LeaveAdvancing(a, m), UNCHANGED <<version, pages, events>>
    PROVE  /\ PublicationInv' /\ Grantless /\ asking'[a] = Gone
           /\ Inherits(letter[m], row) => StepHolds
<1>1. RowsInv /\ events' \in 0 .. MaxEvents /\ events' >= events /\ UNCHANGED pages
  BY DEF PublicationInv, RowsInv
<1>2. RowsInv' /\ Grantless /\ Moved({m}) /\ (Inherits(letter[m], row) => Inherited)
  BY <1>1, WriteStep
<1> QED BY <1>1, <1>2, SameVersion, LeaveAdvancingStep DEF PublicationInv, StepHolds

\* The row that a verification writes.
AsVerified(row, f) == [row EXCEPT !.status[f] = "VERIFIED", !.checked[f] = row.content[f]]

LEMMA VerifiedRow ==
    ASSUME NEW row \in LetterRow, RowHolds(row), NEW f \in Fields
    PROVE  LET new == AsVerified(row, f) IN
           /\ new \in LetterRow /\ Ready(new) /\ Kin(row, new) /\ new.content = row.content
           /\ new.present = row.present /\ new.status[f] = "VERIFIED"
           /\ \A g \in Fields \ {f} : new.status[g] = row.status[g]
<1> DEFINE status == [row.status EXCEPT ![f] = "VERIFIED"]
           checked == [row.checked EXCEPT ![f] = row.content[f]]
           new == [row EXCEPT !.status = status, !.checked = checked]
<1>1. /\ status \in [Fields -> {"EMPTY", "AI_DRAFT", "EDITED", "VERIFIED"}]
      /\ status[f] = "VERIFIED" /\ \A g \in Fields \ {f} : status[g] = row.status[g]
  BY DEF LetterRow
<1>2. /\ checked \in [Fields -> Values] /\ checked[f] = row.content[f]
      /\ \A g \in Fields \ {f} : checked[g] = row.checked[g]
  BY DEF LetterRow
<1>3. AsVerified(row, f) = new
  BY DEF AsVerified, LetterRow
<1> HIDE DEF status, checked
<1>4. /\ new \in LetterRow /\ new.content = row.content /\ new.status = status
      /\ new.checked = checked /\ new.present = row.present /\ new.visible = row.visible
      /\ new.revision = row.revision /\ new.published = row.published
      /\ new.overtaken = row.overtaken /\ new.job = row.job
  BY <1>1, <1>2 DEF LetterRow
<1> HIDE DEF new
<1>5. Ready(new)
  <2>1. \A g \in Fields : new.status[g] = "VERIFIED" => new.content[g] = new.checked[g]
    BY <1>1, <1>2, <1>4 DEF RowHolds
  <2>2. \A g \in Fields : new.published[g] => new.status[g] = "VERIFIED"
    BY <1>1, <1>4 DEF RowHolds
  <2> QED BY <1>4, <2>1, <2>2 DEF RowHolds, Ready, Sane
<1> QED BY <1>1, <1>3, <1>4, <1>5 DEF Kin

LEMMA UnverifiedRow ==
    ASSUME NEW row \in LetterRow, RowHolds(row), NEW f \in Fields
    PROVE  LET new == [row EXCEPT !.status[f] = "EDITED", !.published[f] = FALSE] IN
           /\ new \in LetterRow /\ Ready(new) /\ Kin(row, new) /\ new.content = row.content
           /\ Inherits(row, new)
<1> DEFINE status == [row.status EXCEPT ![f] = "EDITED"]
           published == [row.published EXCEPT ![f] = FALSE]
           new == [row EXCEPT !.status = status, !.published = published]
<1>1. /\ status \in [Fields -> {"EMPTY", "AI_DRAFT", "EDITED", "VERIFIED"}]
      /\ status[f] # "VERIFIED" /\ \A g \in Fields \ {f} : status[g] = row.status[g]
  BY DEF LetterRow
<1>2. /\ published \in [Fields -> BOOLEAN] /\ ~published[f]
      /\ \A g \in Fields \ {f} : published[g] = row.published[g]
  BY DEF LetterRow
<1>3. [row EXCEPT !.status[f] = "EDITED", !.published[f] = FALSE] = new
  BY DEF LetterRow
<1> HIDE DEF status, published
<1>4. /\ new \in LetterRow /\ new.content = row.content /\ new.status = status
      /\ new.checked = row.checked /\ new.present = row.present /\ new.visible = row.visible
      /\ new.revision = row.revision /\ new.published = published
      /\ new.overtaken = row.overtaken /\ new.job = row.job
  BY <1>1, <1>2 DEF LetterRow
<1> HIDE DEF new
<1>5. Ready(new)
  BY <1>1, <1>2, <1>4 DEF RowHolds, Ready, Sane
<1>6. \A g \in Fields : new.published[g] => row.published[g]
  BY <1>2, <1>4
<1>7. Inherits(row, new)
  BY <1>1, <1>4 DEF Inherits, Stands
<1> QED BY <1>3, <1>4, <1>5, <1>6, <1>7 DEF Kin

\* What a request that is read knows of its member.
LEMMA ReadFacts ==
    ASSUME PublicationInv, NEW a \in Admins
    PROVE  /\ asking[a] \in Asker /\ asking[a].member \in Members
           /\ asking[a].was.content["transcript"] \in Transcripts
           /\ letter[asking[a].member] \in LetterRow /\ RowHolds(letter[asking[a].member])
           /\ asking[a].pc \in {"read", "generate", "generating"} =>
                letter[asking[a].member].present
           /\ asking[a].pc = "read" /\ asking[a].fresh =>
                letter[asking[a].member].content["metadata"] = asking[a].was.content["metadata"]
BY DEF PublicationInv, AskInv, Fits, RowsInv, Asker

\* The revision of a member is the one on the screen: so are the pages.
LEMMA RevisionInforms ==
    ASSUME PublicationInv, NEW a \in Admins, NEW m \in Present, NEW n \in Members,
           letter[m].revision = asking[a].seen[n]
    PROVE  asking[a].pages = pages
<1>1. letter[m].revision = pages /\ pages \in Nat
  BY PublicationAssumption DEF PublicationInv, RowsInv
<1>2. /\ asking[a].seen[n] \in {0, asking[a].pages} /\ asking[a].pages <= pages
      /\ asking[a].pages \in Nat
  BY PublicationAssumption DEF PublicationInv, AskInv, Fits, Asker
<1> QED BY <1>1, <1>2

\* A verification: of the entry as it is, by somebody who saw the present pages.
LEMMA Verifying ==
    ASSUME PublicationInv, NEW a \in Admins, NEW f \in Fields, NEW row \in LetterRow,
           asking[a].pc = "read", SameSource(a), asking'[a].pc \in {"generate", "gone"},
           Ready(row), Kin(letter[asking[a].member], row), Write(asking[a].member, row),
           row.content = letter[asking[a].member].content, row.status[f] = "VERIFIED",
           \A g \in Fields \ {f} : row.status[g] = letter[asking[a].member].status[g],
           UNCHANGED <<pages, events>>
    PROVE  VerifiedByItsReader
<1>1. PICK m : m = asking[a].member
  OBVIOUS
<1>2. m \in Members /\ m \in Present
  BY <1>1, ReadFacts DEF Present
<1>3. SeenByItsAuthor
  <2>1. letter[m].revision = asking[a].seen[m]
    BY <1>1 DEF SameSource
  <2>2. asking[a].pages = pages
    BY <1>2, <2>1, RevisionInforms
  <2> QED BY <2>2 DEF SeenByItsAuthor, Informed
<1>4. /\ RowsInv /\ events' \in 0 .. MaxEvents /\ events' >= events /\ UNCHANGED pages
      /\ Ready(row) /\ Kin(letter[m], row) /\ Write(m, row)
  BY <1>1 DEF PublicationInv, RowsInv
<1>5. /\ Grantless /\ letter'[m].content = row.content /\ letter'[m].status = row.status
      /\ \A n \in Members \ {m} : letter'[n] = letter[n]
  BY <1>2, <1>4, WriteStep
<1>6. /\ row.content = letter[m].content
      /\ \A g \in Fields \ {f} : row.status[g] = letter[m].status[g]
  BY <1>1
<1>7. \A n \in Members, g \in Fields : <<n, g>> # <<m, f>> => Stands(letter[n], letter'[n], g)
  BY <1>5, <1>6 DEF Stands
<1> QED BY <1>2, <1>3, <1>5, <1>6, <1>7 DEF VerifiedByItsReader

LEMMA VerifyTranscriptHolds ==
    ASSUME PublicationInv, NEW a \in Admins, VerifyTranscript(a) PROVE StepHolds
<1> DEFINE m == asking[a].member
           was == asking[a].was
           row == [letter[m] EXCEPT !.status["transcript"] = "VERIFIED",
                                    !.checked["transcript"] = was.content["transcript"]]
<1>1. CASE TextUnchanged(a, letter[m])
  <2>1. was.content["transcript"] = letter[m].content["transcript"]
    BY <1>1 DEF TextUnchanged
  <2>2. "transcript" \in Fields
    BY DEF Fields
  <2>3. /\ row \in LetterRow /\ Ready(row) /\ Kin(letter[m], row) /\ row.content = letter[m].content
        /\ row.present = letter[m].present /\ row.status["transcript"] = "VERIFIED"
        /\ \A g \in Fields \ {"transcript"} : row.status[g] = letter[m].status[g]
    <3>1. PICK old : old = letter[m]
      OBVIOUS
    <3>2. PICK f \in Fields : f = "transcript"
      BY <2>2
    <3>3. PICK new : new = AsVerified(old, f)
      OBVIOUS
    <3>4. old \in LetterRow /\ RowHolds(old)
      BY <3>1, ReadFacts
    <3>5. row = new
      BY <2>1, <3>1, <3>2, <3>3 DEF AsVerified
    <3>6. /\ new \in LetterRow /\ Ready(new) /\ Kin(old, new) /\ new.content = old.content
          /\ new.status[f] = "VERIFIED" /\ new.present = old.present
          /\ \A g \in Fields \ {f} : new.status[g] = old.status[g]
      BY <3>3, <3>4, VerifiedRow
    <3> HIDE DEF row, m
    <3> QED BY <3>1, <3>2, <3>5, <3>6
  <2>4. Write(m, row) /\ UNCHANGED <<version, pages, events>> /\ asking[a].pc = "read"
    BY <1>1 DEF VerifyTranscript
  <2>5. m \in Members /\ m = asking[a].member
    BY ReadFacts
  <2> HIDE DEF row, m
  <2> DEFINE told == asking'[a].pc \in {"generate", "gone"}
  <2>9. ASSUME told PROVE VerifiedByItsReader
    <3>1. SameSource(a)
      BY <1>1 DEF TextUnchanged
    <3> QED BY <2>2, <2>3, <2>4, <2>5, <2>9, <3>1, Verifying
  <2>6. CASE Leave(a)
    <3>1. PublicationInv' /\ Grantless /\ asking'[a] = Gone
      BY <2>3, <2>4, <2>5, <2>6, WriteLeave
    <3> QED BY <2>9, <3>1, GoneHolds DEF StepHolds
  <2>7. CASE ~Leave(a)
    <3>1. asking' = [asking EXCEPT ![a].pc = "generate"]
      BY <1>1, <2>7 DEF VerifyTranscript, m
    <3>2. PICK new : new = [asking[a] EXCEPT !.pc = "generate"]
      OBVIOUS
    <3>3. RowsInv /\ events' \in 0 .. MaxEvents /\ events' >= events /\ UNCHANGED pages
          /\ pages \in Nat /\ pages' \in Nat
      BY <2>4, PublicationAssumption DEF PublicationInv, RowsInv
    <3>4. RowsInv' /\ Grantless /\ Moved({})
      BY <2>3, <2>4, <2>5, <3>3, WriteStep
    <3>5. /\ new \in Asker /\ new.pc = "generate" /\ new.pages = asking[a].pages
          /\ new.seen = asking[a].seen /\ new.member = m /\ new.was = asking[a].was
      BY <3>2 DEF PublicationInv, AskInv, Asker, m
    <3>6. Fits(asking[a])
      BY DEF PublicationInv, AskInv
    <3>7. letter[m].present
      BY <2>4, ReadFacts DEF m
    <3>8. Fits(new)
      BY <3>5, <3>6, <3>7 DEF Fits
    <3>9. letter'[m].present
      BY <2>5, <3>4, <3>7 DEF Moved
    <3>10. Fits(new)'
      BY <3>3, <3>5, <3>8, <3>9 DEF Fits
    <3>11. asking'[a] = new /\ asking' = [b \in Admins |-> asking'[b]]
           /\ \A b \in Admins \ {a} : asking'[b] = asking[b]
      BY <3>1, <3>2 DEF PublicationInv, AskInv
    <3>12. Calm({})
      BY <3>10, <3>11 DEF Calm, Fits
    <3>13. VerifiedByItsReader
      BY <2>9, <3>5, <3>11
    <3> QED BY <2>4, <3>3, <3>4, <3>12, <3>13, AskKept, SameVersion DEF PublicationInv, StepHolds
  <2> QED BY <2>6, <2>7
<1>2. CASE ~TextUnchanged(a, letter[m])
  BY <1>2, LeaveOnly DEF VerifyTranscript
<1> QED BY <1>1, <1>2

LEMMA UnverifyTranscriptHolds ==
    ASSUME PublicationInv, NEW a \in Admins, UnverifyTranscript(a) PROVE StepHolds
<1> DEFINE m == asking[a].member
           row == [letter[m] EXCEPT !.status["transcript"] = "EDITED",
                                    !.published["transcript"] = FALSE]
<1>1. Leave(a) /\ UNCHANGED <<version, pages, events>> /\ (Write(m, row) \/ UNCHANGED letter)
  BY DEF UnverifyTranscript
<1>2. CASE UNCHANGED letter
  BY <1>1, <1>2, LeaveOnly
<1>3. CASE Write(m, row)
  <2>1. "transcript" \in Fields /\ m \in Members
    BY ReadFacts DEF Fields
  <2>2. row \in LetterRow /\ Ready(row) /\ Kin(letter[m], row) /\ row.content = letter[m].content
        /\ Inherits(letter[m], row)
    BY <2>1, UnverifiedRow, ReadFacts
  <2> HIDE DEF row, m
  <2> QED BY <1>1, <1>3, <2>1, <2>2, WriteLeave
<1> QED BY <1>1, <1>2, <1>3

LEMMA VerifyMetadataHolds ==
    ASSUME PublicationInv, NEW a \in Admins, VerifyMetadata(a) PROVE StepHolds
<1> DEFINE m == asking[a].member
           value == asking[a].was.content["metadata"]
           row == [letter[m] EXCEPT !.status["metadata"] = "VERIFIED",
                                    !.checked["metadata"] = value]
<1>1. /\ UNCHANGED <<version, pages, events>> /\ asking[a].pc = "read"
      /\ \/ Leave(a) /\ UNCHANGED letter
         \/ Write(m, row) /\ LeaveAdvancing(a, m) /\ asking[a].fresh /\ SameSource(a)
  BY DEF VerifyMetadata
<1>2. CASE Leave(a) /\ UNCHANGED letter
  BY <1>1, <1>2, LeaveOnly
<1>3. CASE Write(m, row) /\ LeaveAdvancing(a, m) /\ asking[a].fresh /\ SameSource(a)
  <2>1. "metadata" \in Fields /\ m \in Members
    BY ReadFacts DEF Fields
  <2>2. value = letter[m].content["metadata"]
    BY <1>1, <1>3, ReadFacts
  <2>3. /\ row \in LetterRow /\ Ready(row) /\ Kin(letter[m], row)
        /\ row.content = letter[m].content /\ row.status["metadata"] = "VERIFIED"
        /\ \A g \in Fields \ {"metadata"} : row.status[g] = letter[m].status[g]
    <3>1. PICK old : old = letter[m]
      OBVIOUS
    <3>2. PICK f \in Fields : f = "metadata"
      BY <2>1
    <3>3. PICK new : new = AsVerified(old, f)
      OBVIOUS
    <3>4. old \in LetterRow /\ RowHolds(old)
      BY <3>1, ReadFacts
    <3>5. row = new
      BY <2>2, <3>1, <3>2, <3>3 DEF AsVerified
    <3>6. /\ new \in LetterRow /\ Ready(new) /\ Kin(old, new) /\ new.content = old.content
          /\ new.status[f] = "VERIFIED"
          /\ \A g \in Fields \ {f} : new.status[g] = old.status[g]
      BY <3>3, <3>4, VerifiedRow
    <3> HIDE DEF row, m
    <3> QED BY <3>1, <3>2, <3>5, <3>6
  <2>4. m = asking[a].member
    OBVIOUS
  <2> HIDE DEF row, m
  <2>5. PublicationInv' /\ Grantless /\ asking'[a] = Gone
    BY <1>1, <1>3, <2>1, <2>3, WriteLeaveAdvancing
  <2>6. VerifiedByItsReader
    BY <1>1, <1>3, <2>1, <2>3, <2>4, <2>5, GoneHolds, Verifying
  <2> QED BY <2>5, <2>6 DEF StepHolds
<1> QED BY <1>1, <1>2, <1>3

LEMMA UnverifyMetadataHolds ==
    ASSUME PublicationInv, NEW a \in Admins, UnverifyMetadata(a) PROVE StepHolds
<1> DEFINE m == asking[a].member
           row == [letter[m] EXCEPT !.status["metadata"] = "EDITED",
                                    !.published["metadata"] = FALSE]
<1>1. /\ UNCHANGED <<version, pages, events>>
      /\ \/ Leave(a) /\ UNCHANGED letter
         \/ Write(m, row) /\ LeaveAdvancing(a, m)
  BY DEF UnverifyMetadata
<1>2. CASE Leave(a) /\ UNCHANGED letter
  BY <1>1, <1>2, LeaveOnly
<1>3. CASE Write(m, row) /\ LeaveAdvancing(a, m)
  <2>1. "metadata" \in Fields /\ m \in Members
    BY ReadFacts DEF Fields
  <2>2. row \in LetterRow /\ Ready(row) /\ Kin(letter[m], row) /\ Inherits(letter[m], row)
    BY <2>1, UnverifiedRow, ReadFacts
  <2> HIDE DEF row, m
  <2> QED BY <1>1, <1>3, <2>1, <2>2, WriteLeaveAdvancing
<1> QED BY <1>1, <1>2, <1>3

LEMMA SaveReadingViewHolds ==
    ASSUME PublicationInv, NEW a \in Admins, SaveReadingView(a) PROVE StepHolds
<1> DEFINE m == asking[a].member
           text == asking[a].was.content["transcript"]
           row == [letter[m] EXCEPT !.reading = text]
<1>1. Leave(a) /\ UNCHANGED <<version, pages, events>> /\ (Write(m, row) \/ UNCHANGED letter)
  BY DEF SaveReadingView
<1>2. CASE UNCHANGED letter
  BY <1>1, <1>2, LeaveOnly
<1>3. CASE Write(m, row)
  <2>1. m \in Members /\ text \in Transcripts /\ letter[m] \in LetterRow /\ RowHolds(letter[m])
    BY ReadFacts
  <2> HIDE DEF m, text
  <2>2. /\ row \in LetterRow /\ row.content = letter[m].content /\ row.status = letter[m].status
        /\ row.checked = letter[m].checked /\ row.present = letter[m].present
        /\ row.visible = letter[m].visible /\ row.revision = letter[m].revision
        /\ row.published = letter[m].published /\ row.overtaken = letter[m].overtaken
        /\ row.job = letter[m].job
    BY <2>1 DEF LetterRow
  <2> HIDE DEF row
  <2>3. Ready(row) /\ Kin(letter[m], row) /\ Inherits(letter[m], row)
    BY <2>1, <2>2 DEF Ready, Sane, RowHolds, Kin, Inherits, Stands
  <2> QED BY <1>1, <1>3, <2>1, <2>2, <2>3, WriteLeave
<1> QED BY <1>1, <1>2, <1>3

LEMMA CreateVersionHolds ==
    ASSUME PublicationInv, NEW a \in Admins, NEW m \in Members, NEW f \in Fields,
           CreateVersion(a, m, f)
    PROVE  StepHolds
<1>1. letter[m] \in LetterRow /\ RowHolds(letter[m]) /\ VersionInv
  BY DEF PublicationInv, RowsInv
<1>2. /\ letter[m].content[f] \in Values /\ letter[m].revision \in 0 .. MaxEvents
      /\ letter[m].content["transcript"] \in Transcripts
  BY <1>1 DEF LetterRow, RowHolds
<1>3. VersionInv'
  BY <1>1, <1>2 DEF VersionInv, CreateVersion
<1> QED BY <1>3, StillRows, LeaveStep DEF PublicationInv, StepHolds, CreateVersion

LEMMA RestoreVersionHolds ==
    ASSUME PublicationInv, NEW a \in Admins, RestoreVersion(a) PROVE StepHolds
<1> DEFINE m == version.member
           value == version.content
           row == IF version.field = "transcript" THEN HumanTranscript(letter[m], value)
                  ELSE HumanMetadata(letter[m], value)
<1>1. /\ UNCHANGED <<version, pages, events>> /\ version # NoVersion
      /\ \/ Leave(a) /\ UNCHANGED letter
         \/ Write(m, row) /\ LeaveAdvancing(a, m)
  BY DEF RestoreVersion
<1>2. CASE Leave(a) /\ UNCHANGED letter
  BY <1>1, <1>2, LeaveOnly
<1>3. CASE Write(m, row) /\ LeaveAdvancing(a, m)
  <2>1. /\ m \in Members /\ value \in Values
        /\ version.field = "transcript" => value \in Transcripts
    BY <1>1 DEF PublicationInv, VersionInv
  <2>2. letter[m] \in LetterRow /\ RowHolds(letter[m])
    BY <2>1 DEF PublicationInv, RowsInv
  <2> HIDE DEF m, value
  <2>3. Ready(letter[m])
    BY <2>2, ReadyRow
  <2>4. row \in LetterRow /\ Ready(row) /\ Kin(letter[m], row) /\ Inherits(letter[m], row)
    <3>1. CASE version.field = "transcript"
      BY <2>1, <2>2, <2>3, <3>1, HumanTranscriptHolds DEF Ready
    <3>2. CASE version.field # "transcript"
      BY <2>1, <2>2, <2>3, <3>2, HumanMetadataHolds DEF Ready, Fields
    <3> QED BY <3>1, <3>2
  <2> HIDE DEF row
  <2> QED BY <1>1, <1>3, <2>1, <2>4, WriteLeaveAdvancing
<1> QED BY <1>1, <1>2, <1>3

LEMMA ClearHolds ==
    ASSUME PublicationInv, NEW a \in Admins, NEW m \in Members, NEW fields \in SUBSET Fields,
           Clear(a, m, fields)
    PROVE  StepHolds
<1> DEFINE old == letter[m]
           content == [f \in Fields |-> IF f \in fields THEN NoText ELSE old.content[f]]
           status == [f \in Fields |-> IF f \in fields THEN "EMPTY" ELSE old.status[f]]
           job == [f \in Fields |-> IF f \in fields THEN "IDLE" ELSE old.job[f]]
           published == [f \in Fields |-> IF f \in fields THEN FALSE ELSE old.published[f]]
           row == [old EXCEPT !.content = content, !.status = status, !.job = job,
                              !.published = published]
<1>1. old \in LetterRow /\ RowHolds(old)
  BY DEF PublicationInv, RowsInv
<1>2. /\ UNCHANGED <<version, pages, events>>
      /\ \/ Leave(a) /\ UNCHANGED letter
         \/ Write(m, row) /\ LeaveAdvancing(a, m)
  BY <1>1 DEF Clear, LetterRow
<1>3. CASE Leave(a) /\ UNCHANGED letter
  BY <1>2, <1>3, LeaveOnly
<1>4. CASE Write(m, row) /\ LeaveAdvancing(a, m)
  <2> HIDE DEF old
  <2>1. /\ content \in [Fields -> Values] /\ content["transcript"] \in Transcripts
        /\ \A f \in Fields : f \notin fields => content[f] = old.content[f]
    BY <1>1 DEF LetterRow, RowHolds, Values, Transcripts, Fields
  <2>2. /\ status \in [Fields -> {"EMPTY", "AI_DRAFT", "EDITED", "VERIFIED"}]
        /\ \A f \in Fields : IF f \in fields THEN status[f] = "EMPTY" ELSE status[f] = old.status[f]
    BY <1>1 DEF LetterRow
  <2>3. job \in [Fields -> {"IDLE", "RUNNING", "SUCCESS"}]
    BY <1>1 DEF LetterRow
  <2>4. /\ published \in [Fields -> BOOLEAN]
        /\ \A f \in Fields : published[f] => f \notin fields /\ old.published[f]
    BY <1>1 DEF LetterRow
  <2> HIDE DEF content, status, job, published
  <2>5. /\ row \in LetterRow /\ row.content = content /\ row.status = status /\ row.job = job
        /\ row.published = published /\ row.checked = old.checked
        /\ row.overtaken = old.overtaken /\ row.present = old.present
        /\ row.visible = old.visible /\ row.revision = old.revision
    BY <1>1, <2>1, <2>2, <2>3, <2>4 DEF LetterRow
  <2> HIDE DEF row
  <2>6. \A f \in Fields : row.status[f] = "VERIFIED" => row.content[f] = row.checked[f]
    BY <1>1, <2>1, <2>2, <2>5 DEF RowHolds
  <2>7. \A f \in Fields : row.published[f] => row.status[f] = "VERIFIED"
    BY <1>1, <2>2, <2>4, <2>5 DEF RowHolds
  <2>8. Ready(row) /\ Kin(old, row)
    BY <1>1, <2>1, <2>4, <2>5, <2>6, <2>7 DEF Ready, Sane, RowHolds, Kin
  <2>9. Inherits(old, row)
    BY <2>1, <2>2, <2>5 DEF Inherits, Stands
  <2> QED BY <1>2, <1>4, <2>5, <2>8, <2>9, WriteLeaveAdvancing DEF old
<1> QED BY <1>2, <1>3, <1>4

LEMMA ResetHolds ==
    ASSUME PublicationInv, NEW a \in Admins, NEW m \in Members, Reset(a, m) PROVE StepHolds
<1> DEFINE old == letter[m]
           row == [old EXCEPT !.status = [f \in Fields |-> "EMPTY"],
                              !.job = [f \in Fields |-> "IDLE"],
                              !.published = [f \in Fields |-> FALSE]]
<1>1. old \in LetterRow /\ RowHolds(old)
  BY DEF PublicationInv, RowsInv
<1>2. /\ UNCHANGED <<version, pages, events>>
      /\ \/ Leave(a) /\ UNCHANGED letter
         \/ Write(m, row) /\ LeaveAdvancing(a, m)
  BY DEF Reset
<1>3. CASE Leave(a) /\ UNCHANGED letter
  BY <1>2, <1>3, LeaveOnly
<1>4. CASE Write(m, row) /\ LeaveAdvancing(a, m)
  <2> HIDE DEF old
  <2>1. /\ row \in LetterRow /\ row.content = old.content
        /\ row.checked = old.checked /\ row.overtaken = old.overtaken
        /\ row.present = old.present /\ row.visible = old.visible /\ row.revision = old.revision
        /\ \A f \in Fields : row.status[f] = "EMPTY" /\ ~row.published[f]
    BY <1>1 DEF LetterRow
  <2> HIDE DEF row
  <2>2. Ready(row) /\ Kin(old, row) /\ Inherits(old, row)
    BY <1>1, <2>1 DEF Ready, Sane, RowHolds, Kin, Inherits, Stands
  <2> QED BY <1>2, <1>4, <2>1, <2>2, WriteLeaveAdvancing DEF old
<1> QED BY <1>2, <1>3, <1>4

-----------------------------------------------------------------------------
(* Publication: only somebody who saw the present pages grants.              *)

LEMMA RootIsPresent == ASSUME PublicationInv PROVE Root \in Present
BY DEF PublicationInv, RowsInv, Root, Present, Members

LEMMA SaveHolds ==
    ASSUME PublicationInv, NEW a \in Admins, NEW text \in Transcripts, NEW value \in Metadata,
           NEW intent, Save(a, text, value, intent)
    PROVE  StepHolds
<1> DEFINE m == asking[a].member
           was == asking[a].was
           edits == Edits(was, text, value)
           row == Patched(letter[m], was, text, value, edits)
<1>1. UNCHANGED <<version, pages, events>> /\ asking[a].pc = "read"
  BY DEF Save
<1>2. CASE Leave(a) /\ UNCHANGED letter
  BY <1>1, <1>2, LeaveOnly
<1>3. CASE ~(Leave(a) /\ UNCHANGED letter)
  <2>1. /\ letter[Root].revision = asking[a].seen[m] /\ ~Refused(intent, edits, m, was)
        /\ Publish(intent, edits, m, was, row)
        /\ IF edits = {} THEN Leave(a) ELSE LeaveAdvancing(a, m)
    BY <1>3 DEF Save
  <2>2. /\ m \in Members /\ m \in Present /\ letter[m] \in LetterRow /\ RowHolds(letter[m])
        /\ edits \in SUBSET Fields /\ value \in Values
    BY <1>1, ReadFacts DEF Present, Edits, Metadata, Values
  <2>3. asking[a].pages = pages
    BY <2>1, <2>2, RootIsPresent, RevisionInforms
  <2> HIDE DEF m, edits, was
  <2>4. /\ row \in LetterRow /\ Ready(row) /\ Kin(letter[m], row) /\ Inherits(letter[m], row)
        /\ "metadata" \notin edits => row.content["metadata"] = letter[m].content["metadata"]
        /\ \A f \in Fields : f \notin edits /\ "transcript" \notin edits =>
                               row.status[f] = letter[m].status[f]
    <3>1. PICK old : old = letter[m]
      OBVIOUS
    <3>2. old \in LetterRow /\ RowHolds(old) /\ row = Patched(old, was, text, value, edits)
      BY <2>2, <3>1
    <3> HIDE DEF row
    <3> QED BY <2>2, <3>1, <3>2, PatchedHolds
  <2> HIDE DEF row
  <2>5. RowsInv /\ UNCHANGED <<pages, events>>
    BY <1>1 DEF PublicationInv
  <2>6. /\ RowsInv' /\ Moved({m}) /\ (Grants(intent) \/ Grantless) /\ Inherited
        /\ row.content["metadata"] = letter[m].content["metadata"] => Moved({})
    BY <2>1, <2>2, <2>4, <2>5, PublishStep
  <2>7. AskInv' /\ asking'[a] = Gone
    <3>1. CASE edits = {}
      BY <1>1, <2>1, <2>4, <2>6, <3>1, LeaveStep DEF PublicationInv
    <3>2. CASE edits # {}
      BY <1>1, <2>1, <2>2, <2>6, <3>2, LeaveAdvancingStep DEF PublicationInv
    <3> QED BY <3>1, <3>2
  <2>8. SeenByItsAuthor
    BY <1>1, <2>3, <2>7, GoneHolds DEF SeenByItsAuthor, Informed
  <2> QED BY <1>1, <2>6, <2>7, <2>8, SameVersion DEF PublicationInv, StepHolds
<1> QED BY <1>2, <1>3

LEMMA BulkHolds ==
    ASSUME PublicationInv, NEW a \in Admins, NEW chosen \in SUBSET Members, NEW intent,
           Bulk(a, chosen, intent)
    PROVE  StepHolds
<1>1. UNCHANGED <<version, pages, events>> /\ Leave(a) /\ asking[a].pc = "screen"
  BY DEF Bulk
<1>2. CASE UNCHANGED letter
  BY <1>1, <1>2, LeaveOnly
<1>3. CASE ~UNCHANGED letter
  <2>1. PICK m \in chosen :
          /\ ~(Grants(intent) /\ Stale(a, Root, m, chosen))
          /\ ~Refused(intent, {}, m, letter[m])
          /\ Publish(intent, {}, m, letter[m], letter[m])
    BY <1>3 DEF Bulk
  <2>2. m \in Present /\ m \in Members /\ letter[m] \in LetterRow /\ Ready(letter[m])
    BY ReadyRow DEF Bulk, Present, PublicationInv, RowsInv
  <2>3. Kin(letter[m], letter[m]) /\ {} \in SUBSET Fields
    BY DEF Kin
  <2>4. RowsInv /\ UNCHANGED <<pages, events>>
    BY <1>1 DEF PublicationInv
  <2>5. RowsInv' /\ Moved({}) /\ (Grants(intent) \/ Grantless) /\ Inherited
    <3>1. PICK row : row = letter[m]
      OBVIOUS
    <3>2. PICK edits \in SUBSET Fields : edits = {}
      BY <2>3
    <3>3. /\ row \in LetterRow /\ Ready(row) /\ Kin(letter[m], row)
          /\ Publish(intent, edits, m, row, row) /\ ~Refused(intent, edits, m, row)
          /\ row.content["metadata"] = letter[m].content["metadata"]
      BY <2>1, <2>2, <2>3, <3>1, <3>2
    <3>4. \A f \in Fields : f \notin edits /\ "transcript" \notin edits =>
                             row.status[f] = letter[m].status[f]
      BY <3>1
    <3>5. m \in Present /\ RowsInv /\ UNCHANGED <<pages, events>>
      BY <2>2, <2>4
    <3>6. /\ RowsInv'
          /\ row.content["metadata"] = letter[m].content["metadata"] => Moved({})
          /\ Grants(intent) \/ Grantless
          /\ Inherits(letter[m], row) => Inherited
      BY <3>3, <3>4, <3>5, PublishStep
    <3>7. Inherits(letter[m], row)
      BY <3>1 DEF Inherits, Stands
    <3> QED BY <3>3, <3>6, <3>7
  <2>6. AskInv' /\ asking'[a] = Gone
    BY <1>1, <2>5, LeaveStep DEF PublicationInv
  <2>7. ASSUME Grants(intent) PROVE SeenByItsAuthor
    <3>1. Root \in Members
      BY DEF Root, Members
    <3>2. PICK n \in Members : letter[Root].revision = asking[a].seen[n]
      BY <2>1, <2>2, <2>7, <3>1 DEF Stale
    <3>3. asking[a].pages = pages
      BY <3>2, RootIsPresent, RevisionInforms
    <3> QED BY <1>1, <2>6, <3>3, GoneHolds DEF SeenByItsAuthor, Informed
  <2> QED BY <1>1, <2>5, <2>6, <2>7, SameVersion DEF PublicationInv, StepHolds
<1> QED BY <1>2, <1>3

-----------------------------------------------------------------------------
(* Attempts and page changes.                                                *)

\* The row of the primary letter was written; readers of it know, or have no need to.
LEMMA WriteAround ==
    ASSUME PublicationInv, NEW row \in LetterRow, Ready(row), Kin(letter[Primary], row),
           Inherits(letter[Primary], row), Write(Primary, row), events' \in 0 .. MaxEvents, events' >= events,
           UNCHANGED <<version, pages>>,
           \/ Advance(Primary)
           \/ UNCHANGED asking /\ row.content = letter[Primary].content
    PROVE  StepHolds
<1>1. Primary \in Members /\ RowsInv /\ pages \in Nat /\ UNCHANGED pages
  BY PublicationAssumption DEF Members, PublicationInv, RowsInv
<1>2. /\ RowsInv' /\ Grantless /\ Inherited /\ Moved({Primary})
      /\ row.content["metadata"] = letter[Primary].content["metadata"] => Moved({})
  BY <1>1, WriteStep
<1>3. AskInv'
  <2>1. CASE Advance(Primary)
    BY <1>1, <1>2, <2>1, AdvanceStep DEF PublicationInv
  <2>2. CASE UNCHANGED asking /\ row.content = letter[Primary].content
    BY <1>1, <1>2, <2>2, WaitStep DEF PublicationInv
  <2> QED BY <2>1, <2>2
<1> QED BY <1>2, <1>3, SameVersion DEF PublicationInv, StepHolds

LEMMA PrimaryHolds ==
    ASSUME PublicationInv
    PROVE  /\ letter[Primary] \in LetterRow /\ RowHolds(letter[Primary])
           /\ events \in 0 .. MaxEvents /\ events \in Nat /\ MaxEvents \in Nat
BY PublicationAssumption DEF PublicationInv, RowsInv, Members

\* A new state of one job.
LEMMA JobHolds ==
    ASSUME NEW old \in LetterRow, RowHolds(old), NEW f \in Fields,
           NEW state \in {"IDLE", "RUNNING"}
    PROVE  LET row == [old EXCEPT !.job[f] = state] IN
           /\ row \in LetterRow /\ Ready(row) /\ Kin(old, row) /\ row.content = old.content
           /\ Inherits(old, row)
<1> DEFINE job == [old.job EXCEPT ![f] = state]
           row == [old EXCEPT !.job = job]
<1>1. job \in [Fields -> {"IDLE", "RUNNING", "SUCCESS"}]
  BY DEF LetterRow
<1>2. [old EXCEPT !.job[f] = state] = row
  BY DEF LetterRow
<1> HIDE DEF job
<1>3. /\ row \in LetterRow /\ row.content = old.content /\ row.status = old.status
      /\ row.checked = old.checked /\ row.present = old.present /\ row.visible = old.visible
      /\ row.revision = old.revision /\ row.published = old.published
      /\ row.overtaken = old.overtaken
  BY <1>1 DEF LetterRow
<1> HIDE DEF row
<1> QED BY <1>2, <1>3 DEF Ready, Sane, RowHolds, Kin, Inherits, Stands

LEMMA StartAttemptHolds ==
    ASSUME PublicationInv, NEW f \in Fields, StartAttempt(f) PROVE StepHolds
<1>1. PICK row : row = [letter[Primary] EXCEPT !.job[f] = "RUNNING"]
  OBVIOUS
<1>2. /\ row \in LetterRow /\ Ready(row) /\ Kin(letter[Primary], row)
      /\ row.content = letter[Primary].content /\ Inherits(letter[Primary], row)
  BY <1>1, PrimaryHolds, JobHolds
<1>3. /\ Write(Primary, row) /\ UNCHANGED <<version, asking, pages>>
      /\ events' \in 0 .. MaxEvents /\ events' >= events
  BY <1>1, PrimaryHolds DEF StartAttempt, Occur
<1> QED BY <1>2, <1>3, WriteAround

LEMMA FailAttemptHolds ==
    ASSUME PublicationInv, NEW f \in Fields, FailAttempt(f) PROVE StepHolds
<1>1. PICK row : row = [letter[Primary] EXCEPT !.job[f] = "IDLE"]
  OBVIOUS
<1>2. /\ row \in LetterRow /\ Ready(row) /\ Kin(letter[Primary], row)
      /\ row.content = letter[Primary].content /\ Inherits(letter[Primary], row)
  BY <1>1, PrimaryHolds, JobHolds
<1>3. /\ Write(Primary, row) /\ UNCHANGED <<version, asking, pages>>
      /\ events' \in 0 .. MaxEvents /\ events' >= events
  BY <1>1, PrimaryHolds DEF FailAttempt
<1> QED BY <1>2, <1>3, WriteAround

LEMMA FinishTranscriptionHolds ==
    ASSUME PublicationInv, NEW text \in Transcripts, FinishTranscription(text) PROVE StepHolds
<1> DEFINE old == letter[Primary]
           content == [old.content EXCEPT !["transcript"] = text]
           job == [old.job EXCEPT !["transcript"] = "SUCCESS"]
           written == IF text = NoText THEN "EMPTY" ELSE "AI_DRAFT"
           status == [old.status EXCEPT !["transcript"] = written]
           mid == [old EXCEPT !.content = content, !.job = job, !.status = status]
           row == SourceChanged(mid)
<1>1. old \in LetterRow /\ RowHolds(old)
  BY PrimaryHolds
<1>2. Write(Primary, row) /\ Advance(Primary) /\ UNCHANGED <<version, pages, events>>
  BY <1>1 DEF FinishTranscription, LetterRow
<1>3. events' \in 0 .. MaxEvents /\ events' >= events
  BY <1>2, PrimaryHolds
<1> HIDE DEF old
<1>4. content \in [Fields -> Values] /\ content["transcript"] = text
      /\ content["metadata"] = old.content["metadata"]
  BY <1>1 DEF LetterRow, Fields, Values, Transcripts
<1>5. job \in [Fields -> {"IDLE", "RUNNING", "SUCCESS"}]
  BY <1>1 DEF LetterRow, Fields
<1>6. /\ status \in [Fields -> {"EMPTY", "AI_DRAFT", "EDITED", "VERIFIED"}]
      /\ status["transcript"] # "VERIFIED" /\ status["metadata"] = old.status["metadata"]
  BY <1>1 DEF LetterRow, Fields
<1> HIDE DEF content, job, status
<1>7. /\ mid \in LetterRow /\ mid.content = content /\ mid.job = job /\ mid.status = status
      /\ mid.overtaken = old.overtaken /\ mid.present = old.present
      /\ mid.visible = old.visible /\ mid.revision = old.revision
      /\ mid.checked = old.checked /\ mid.published = old.published
  BY <1>1, <1>4, <1>5, <1>6 DEF LetterRow
<1> HIDE DEF mid
<1>8. Sane(mid)
  BY <1>1, <1>4, <1>6, <1>7 DEF Sane, RowHolds, Fields
<1>9. row \in LetterRow /\ Ready(row) /\ Kin(mid, row) /\ Inherits(mid, row)
  BY <1>7, <1>8, SourceChangedHolds
<1> HIDE DEF row
<1>10. Kin(old, row) /\ Inherits(old, row)
  <2>1. Inherits(old, mid)
    BY <1>4, <1>6, <1>7 DEF Inherits, Stands, Fields
  <2> QED BY <1>7, <1>9, <2>1 DEF Kin, Inherits, Stands
<1> QED BY <1>2, <1>3, <1>9, <1>10, WriteAround DEF old

LEMMA FinishMetadataHolds ==
    ASSUME PublicationInv, NEW value \in Metadata, FinishMetadata(value) PROVE StepHolds
<1> DEFINE old == letter[Primary]
           content == [old.content EXCEPT !["metadata"] = value]
           job == [old.job EXCEPT !["metadata"] = "SUCCESS"]
           status == [old.status EXCEPT !["metadata"] = "AI_DRAFT"]
           published == [old.published EXCEPT !["metadata"] = FALSE]
           row == [old EXCEPT !.content = content, !.job = job, !.status = status,
                              !.published = published]
<1>1. old \in LetterRow /\ RowHolds(old)
  BY PrimaryHolds
<1>2. Write(Primary, row) /\ Advance(Primary) /\ UNCHANGED <<version, pages, events>>
  BY <1>1 DEF FinishMetadata, LetterRow
<1>3. events' \in 0 .. MaxEvents /\ events' >= events
  BY <1>2, PrimaryHolds
<1> HIDE DEF old
<1>4. content \in [Fields -> Values] /\ content["transcript"] = old.content["transcript"]
  BY <1>1 DEF LetterRow, Fields, Values, Metadata
<1>5. job \in [Fields -> {"IDLE", "RUNNING", "SUCCESS"}]
  BY <1>1 DEF LetterRow, Fields
<1>6. /\ status \in [Fields -> {"EMPTY", "AI_DRAFT", "EDITED", "VERIFIED"}]
      /\ status["metadata"] # "VERIFIED" /\ status["transcript"] = old.status["transcript"]
  BY <1>1 DEF LetterRow, Fields
<1>7. /\ published \in [Fields -> BOOLEAN] /\ ~published["metadata"]
      /\ published["transcript"] = old.published["transcript"]
  BY <1>1 DEF LetterRow, Fields
<1> HIDE DEF content, job, status, published
<1>8. /\ row \in LetterRow /\ row.content = content /\ row.job = job /\ row.status = status
      /\ row.overtaken = old.overtaken /\ row.present = old.present
      /\ row.visible = old.visible /\ row.revision = old.revision
      /\ row.checked = old.checked /\ row.published = published
  BY <1>1, <1>4, <1>5, <1>6, <1>7 DEF LetterRow
<1> HIDE DEF row
<1>9. Ready(row) /\ Kin(old, row) /\ Inherits(old, row)
  <2>1. Ready(row) /\ Kin(old, row)
    BY <1>1, <1>4, <1>6, <1>7, <1>8 DEF Ready, Sane, RowHolds, Kin, Fields
  <2>2. Inherits(old, row)
    BY <1>4, <1>6, <1>8 DEF Inherits, Stands, Fields
  <2> QED BY <2>1, <2>2
<1> QED BY <1>2, <1>3, <1>8, <1>9, WriteAround DEF old

LEMMA ChangeExtraContentHolds ==
    ASSUME PublicationInv, ChangeExtraContent PROVE StepHolds
<1>1. PICK old : old = letter[Primary]
  OBVIOUS
<1>2. old \in LetterRow /\ Sane(old)
  BY <1>1, PrimaryHolds, ReadyRow DEF Ready
<1>3. PICK row : row = SourceChanged(old)
  OBVIOUS
<1>4. row \in LetterRow /\ Ready(row) /\ Kin(letter[Primary], row) /\ Inherits(letter[Primary], row)
  BY <1>1, <1>2, <1>3, SourceChangedHolds
<1>5. /\ Write(Primary, row) /\ Advance(Primary) /\ UNCHANGED <<version, pages>>
      /\ events' \in 0 .. MaxEvents /\ events' >= events
  BY <1>1, <1>3, PrimaryHolds DEF ChangeExtraContent, Occur
<1> QED BY <1>4, <1>5, WriteAround

LEMMA PagesChangedHolds ==
    ASSUME NEW old \in LetterRow, Sane(old)
    PROVE  LET row == PagesChanged(old) IN
           /\ row \in LetterRow /\ Ready(row) /\ Kin(old, row) /\ row.content = old.content
           /\ Inherits(old, row)
<1> DEFINE mid == SourceChanged(old)
           kept == mid.status["transcript"]
           written == CASE old.content["transcript"] = NoText -> "EMPTY"
                        [] kept = "EDITED" /\ old.content["transcript"] # NoText -> "EDITED"
                        [] OTHER -> "AI_DRAFT"
           job == [mid.job EXCEPT !["transcript"] = "IDLE"]
           status == [mid.status EXCEPT !["transcript"] = written]
           row == [mid EXCEPT !.job = job, !.reading = NoText, !.status = status]
<1>1. /\ mid \in LetterRow /\ Ready(mid) /\ Kin(old, mid) /\ mid.content = old.content
      /\ mid.overtaken = old.overtaken /\ \A f \in Fields : ~mid.published[f]
      /\ mid.job["metadata"] = "IDLE" /\ Inherits(old, mid)
  BY SourceChangedHolds
<1>2. PagesChanged(old) = row
  BY <1>1 DEF PagesChanged, LetterRow
<1> HIDE DEF mid
<1>3. written \in {"EMPTY", "EDITED", "AI_DRAFT"}
  OBVIOUS
<1> HIDE DEF written
<1>4. /\ job \in [Fields -> {"IDLE", "RUNNING", "SUCCESS"}] /\ \A f \in Fields : job[f] = "IDLE"
  BY <1>1 DEF LetterRow, Fields
<1>5. /\ status \in [Fields -> {"EMPTY", "AI_DRAFT", "EDITED", "VERIFIED"}]
      /\ status["transcript"] # "VERIFIED" /\ status["metadata"] = mid.status["metadata"]
  BY <1>1, <1>3 DEF LetterRow, Fields
<1> HIDE DEF job, status
<1>6. NoText \in Transcripts
  BY DEF Transcripts
<1>7. /\ row \in LetterRow /\ row.content = mid.content /\ row.job = job /\ row.status = status
      /\ row.overtaken = mid.overtaken /\ row.present = mid.present
      /\ row.visible = mid.visible /\ row.revision = mid.revision
      /\ row.checked = mid.checked /\ row.published = mid.published
  BY <1>1, <1>4, <1>5, <1>6 DEF LetterRow
<1> HIDE DEF row
<1>8. Ready(row)
  BY <1>1, <1>4, <1>5, <1>7 DEF Ready, Sane, Fields
<1>9. Inherits(old, row)
  BY <1>1, <1>5, <1>7 DEF Inherits, Stands, Fields
<1> QED BY <1>1, <1>2, <1>7, <1>8, <1>9 DEF Kin

\* The revision of the group, read from the members that are present.
LEMMA NextRevisionIs ==
    ASSUME RowsInv, NEW owner, NEW m PROVE NextRevision(owner, m) = pages + 1
<1> DEFINE revisions == {letter[n].revision : n \in Present}
<1>1. revisions = {pages} /\ pages \in Nat
  BY PublicationAssumption DEF RowsInv
<1>2. NextRevision(owner, m) = 1 + CHOOSE r \in revisions : \A s \in revisions : s <= r
  BY DEF NextRevision
<1> HIDE DEF revisions
<1>3. (CHOOSE r \in revisions : \A s \in revisions : s <= r) = pages
  BY <1>1
<1> QED BY <1>1, <1>2, <1>3

LEMMA ChangePagesHolds ==
    ASSUME PublicationInv, NEW owner \in Members, NEW type, ChangePages(owner, type)
    PROVE  StepHolds /\ Inherited /\ Grantless /\ \A m \in Members : ~letter'[m].visible
<1>1. /\ RowsInv /\ pages \in Nat /\ pages' = pages + 1 /\ pages' \in 0 .. MaxEvents
      /\ events' \in 0 .. MaxEvents /\ pages' <= events'
  <2>1. /\ RowsInv /\ pages \in 0 .. MaxEvents /\ events \in 0 .. MaxEvents /\ pages <= events
        /\ MaxEvents \in Nat
    BY PublicationAssumption DEF PublicationInv, RowsInv
  <2>2. pages' = pages + 1 /\ events' = events + 1 /\ events < MaxEvents
    BY DEF ChangePages, Occur
  <2> QED BY <2>1, <2>2
<1> DEFINE left(m) == m # owner /\ ~letter[m].present
           row(m) == CASE m = Primary /\ type = "L" -> PagesChanged(letter[m])
                       [] m = Primary /\ type = "extra" -> SourceChanged(letter[m])
                       [] OTHER -> letter[m]
           next(m) == [row(m) EXCEPT !.present = TRUE, !.visible = FALSE,
                                     !.revision = pages + 1]
<1>2. \A m \in Members : letter'[m] = IF left(m) THEN letter[m] ELSE Recorded(next(m))
  <2>1. \A m \in Members : NextRevision(owner, m) = pages + 1
    BY <1>1, NextRevisionIs
  <2> QED BY <2>1 DEF ChangePages
<1>3. letter' = [m \in Members |-> letter'[m]]
  BY DEF ChangePages
<1>4. ASSUME NEW m \in Members
      PROVE  /\ row(m) \in LetterRow /\ Ready(row(m)) /\ Kin(letter[m], row(m))
             /\ row(m).content = letter[m].content /\ Inherits(letter[m], row(m))
  <2>1. PICK old : old = letter[m]
    OBVIOUS
  <2>2. old \in LetterRow /\ RowHolds(old) /\ Ready(old) /\ Sane(old) /\ Kin(old, old)
        /\ Inherits(old, old)
    BY <1>1, <2>1, ReadyRow DEF RowsInv, Ready, Kin, Inherits, Stands
  <2>3. /\ PagesChanged(old) \in LetterRow /\ Ready(PagesChanged(old))
        /\ Kin(old, PagesChanged(old)) /\ PagesChanged(old).content = old.content
        /\ Inherits(old, PagesChanged(old))
    BY <2>2, PagesChangedHolds
  <2>4. /\ SourceChanged(old) \in LetterRow /\ Ready(SourceChanged(old))
        /\ Kin(old, SourceChanged(old)) /\ SourceChanged(old).content = old.content
        /\ Inherits(old, SourceChanged(old))
    BY <2>2, SourceChangedHolds
  <2>5. row(m) \in {PagesChanged(old), SourceChanged(old), old}
    BY <2>1
  <2> HIDE DEF row
  <2> QED BY <2>1, <2>2, <2>3, <2>4, <2>5
<1> HIDE DEF row
<1>5. ASSUME NEW m \in Members, ~left(m)
      PROVE  /\ letter'[m] \in LetterRow /\ RowHolds(letter[m])' /\ letter'[m].present
             /\ ~letter'[m].visible /\ letter'[m].revision = pages + 1
             /\ letter'[m].content = letter[m].content /\ Inherits(letter[m], letter'[m])
             /\ \A f \in Fields : letter'[m].published[f] => letter[m].published[f]
  <2>1. PICK old : old = row(m)
    OBVIOUS
  <2>2. PICK new : new = [old EXCEPT !.present = TRUE, !.visible = FALSE, !.revision = pages + 1]
    OBVIOUS
  <2>3. /\ old \in LetterRow /\ Ready(old) /\ old.content = letter[m].content
        /\ Inherits(letter[m], old)
        /\ \A f \in Fields : old.published[f] => letter[m].published[f]
    BY <1>4, <2>1 DEF Kin
  <2>4. PICK r : r = pages + 1 /\ r \in 0 .. MaxEvents
    BY <1>1
  <2>5. /\ new \in LetterRow /\ new.present /\ ~new.visible /\ new.revision = r
        /\ new.content = old.content /\ new.published = old.published
        /\ new.status = old.status /\ new.job = old.job /\ new.checked = old.checked
        /\ new.overtaken = old.overtaken
    BY <2>2, <2>3, <2>4 DEF LetterRow
  <2>6. Ready(new)
    BY <2>3, <2>5 DEF Ready, Sane
  <2>7. letter'[m] = Recorded(new)
    BY <1>2, <1>5, <2>1, <2>2
  <2>8. PICK done : done = Recorded(new)
    OBVIOUS
  <2>9. /\ done \in LetterRow /\ RowHolds(done) /\ done.present /\ ~done.visible
        /\ done.revision = r /\ done.content = new.content /\ done.published = new.published
        /\ done.status = new.status
    BY <2>5, <2>6, <2>8, RecordedHolds
  <2>10. RowHolds(letter[m])'
    BY <2>7, <2>8, <2>9 DEF RowHolds
  <2>11. Inherits(letter[m], letter'[m])
    BY <2>3, <2>5, <2>7, <2>8, <2>9 DEF Inherits, Stands
  <2> QED BY <2>3, <2>4, <2>5, <2>7, <2>8, <2>9, <2>10, <2>11
<1>6. ASSUME NEW m \in Members, left(m)
      PROVE  letter'[m] = letter[m] /\ ~letter'[m].present /\ RowHolds(letter[m])'
             /\ letter'[m] \in LetterRow /\ letter'[m].revision = 0 /\ ~letter'[m].visible
  <2>1. letter'[m] = letter[m] /\ RowHolds(letter[m]) /\ letter[m] \in LetterRow
        /\ letter[m].revision = 0 /\ ~letter[m].visible
    BY <1>1, <1>2, <1>6 DEF RowsInv, Present
  <2> QED BY <1>6, <2>1 DEF RowHolds
<1>7. RowsInv'
  <2>1. letter' \in [Members -> LetterRow] /\ \A m \in Members : RowHolds(letter[m])'
    BY <1>3, <1>5, <1>6
  <2>2. \A m \in Present' : m \in Members /\ ~left(m)
    BY <1>6 DEF Present
  <2>3. /\ \A m \in Present' : letter'[m].revision = pages'
        /\ \A m, n \in Present' : letter'[m].visible = letter'[n].visible
    <3>1. \A m \in Present' : letter'[m].visible = FALSE
      <4>1. ASSUME NEW m \in Present' PROVE letter'[m].visible = FALSE
        <5>1. m \in Members /\ letter'[m] \in LetterRow /\ ~letter'[m].visible
          BY <1>5, <2>2
        <5>2. letter'[m].visible \in BOOLEAN
          BY <5>1 DEF LetterRow
        <5> QED BY <5>1, <5>2
      <4> QED BY <4>1
    <3> QED BY <1>1, <1>5, <2>2, <3>1
  <2>4. \A m \in Members \ Present' : letter'[m].revision = 0 /\ ~letter'[m].visible
    BY <1>5, <1>6 DEF Present
  <2>5. Present' # {}
    BY <1>5 DEF Present
  <2> QED BY <1>1, <2>1, <2>3, <2>4, <2>5 DEF RowsInv
<1>8. Grantless /\ Inherited /\ Moved({})
  <2>1. Grantless
    BY <1>5, <1>6 DEF Grantless
  <2>2. Moved({})
    BY <1>5, <1>6 DEF Moved
  <2>3. Inherited
    BY <1>5, <1>6 DEF Inherited, Inherits, Stands
  <2> QED BY <2>1, <2>2, <2>3
<1>9. AskInv'
  <2>1. CASE UNCHANGED asking
    BY <1>1, <1>8, <2>1, WaitStep DEF PublicationInv
  <2>2. CASE Advance(Primary)
    BY <1>1, <1>8, <2>2, AdvanceStep DEF PublicationInv, Members, Moved
  <2> QED BY <2>1, <2>2 DEF ChangePages
<1>10. \A m \in Members : ~letter'[m].visible
  BY <1>5, <1>6
<1> QED BY <1>7, <1>8, <1>9, <1>10, SameVersion DEF PublicationInv, StepHolds, ChangePages

-----------------------------------------------------------------------------
(* The theorems.                                                             *)

LEMMA SettledHolds ==
    ASSUME NEW visible \in BOOLEAN, NEW text \in Texts, NEW record \in Records,
           NEW published \in [Fields -> BOOLEAN],
           NEW status \in [Fields -> {"EMPTY", "AI_DRAFT", "VERIFIED"}]
    PROVE  LET row == Settled(visible, text, record, status, published) IN
           /\ row \in LetterRow /\ RowHolds(row) /\ row.present /\ row.visible = visible
           /\ row.revision = 0
<1> DEFINE content == [f \in Fields |-> IF status[f] = "EMPTY" THEN NoText
                                        ELSE IF f = "transcript" THEN text ELSE record]
           checked == [f \in Fields |-> IF status[f] = "VERIFIED" THEN content[f] ELSE NoText]
           job == [f \in Fields |-> IF status[f] = "EMPTY" THEN "IDLE" ELSE "SUCCESS"]
           open == [f \in Fields |-> published[f] /\ status[f] = "VERIFIED"]
           reading == IF status["transcript"] = "VERIFIED" THEN text ELSE NoText
           row == [Absent EXCEPT !.present = TRUE, !.visible = visible, !.content = content,
                                 !.status = status, !.checked = checked, !.job = job,
                                 !.published = open, !.reading = reading]
<1>1. content \in [Fields -> Values] /\ content["transcript"] \in Transcripts
  BY DEF Values, Transcripts, Fields
<1>2. /\ checked \in [Fields -> Values]
      /\ \A f \in Fields : status[f] = "VERIFIED" => checked[f] = content[f]
  BY <1>1 DEF Values
<1>3. job \in [Fields -> {"IDLE", "RUNNING", "SUCCESS"}] /\ reading \in Transcripts
  BY DEF Transcripts
<1>4. open \in [Fields -> BOOLEAN] /\ \A f \in Fields : open[f] => status[f] = "VERIFIED"
  OBVIOUS
<1>5. status \in [Fields -> {"EMPTY", "AI_DRAFT", "EDITED", "VERIFIED"}]
  OBVIOUS
<1>6. Settled(visible, text, record, status, published) = row
  BY DEF Settled
<1> HIDE DEF content, checked, job, open, reading
<1>7. Absent \in LetterRow /\ RowHolds(Absent) /\ Absent.revision = 0
  BY AbsentHolds DEF Absent
<1>8. /\ row \in LetterRow /\ row.present /\ row.visible = visible /\ row.content = content
      /\ row.status = status /\ row.checked = checked /\ row.job = job /\ row.published = open
      /\ row.revision = 0 /\ row.overtaken = Absent.overtaken
  BY <1>1, <1>2, <1>3, <1>4, <1>5, <1>7 DEF LetterRow
<1> HIDE DEF row
<1> QED BY <1>1, <1>2, <1>4, <1>6, <1>7, <1>8 DEF RowHolds

LEMMA InitHolds == ASSUME PublicationInit PROVE PublicationInv
<1>1. PICK visible \in BOOLEAN, text \in Texts, record \in Records,
           published \in [Fields -> BOOLEAN],
           status \in [Fields -> {"EMPTY", "AI_DRAFT", "VERIFIED"}],
           other \in [Fields -> {"EMPTY", "VERIFIED"}], members \in (SUBSET Members) \ {{}} :
             letter = [m \in Members |->
                         IF m \notin members THEN Absent
                         ELSE IF m = Primary THEN Settled(visible, text, record, status, published)
                         ELSE Settled(visible, text, record, other, published)]
  BY DEF PublicationInit
<1>2. /\ version = NoVersion /\ asking = [a \in Admins |-> Away] /\ pages = 0 /\ events = 0
  BY DEF PublicationInit
<1> DEFINE first == Settled(visible, text, record, status, published)
           second == Settled(visible, text, record, other, published)
<1>3. first \in LetterRow /\ RowHolds(first) /\ first.present /\ first.visible = visible
      /\ first.revision = 0
  BY SettledHolds
<1>4. other \in [Fields -> {"EMPTY", "AI_DRAFT", "VERIFIED"}]
  OBVIOUS
<1>5. second \in LetterRow /\ RowHolds(second) /\ second.present /\ second.visible = visible
      /\ second.revision = 0
  BY <1>4, SettledHolds
<1>6. Absent \in LetterRow /\ RowHolds(Absent) /\ ~Absent.present /\ Absent.revision = 0
      /\ ~Absent.visible
  BY AbsentHolds DEF Absent
<1>7. letter = [m \in Members |-> IF m \notin members THEN Absent
                                  ELSE IF m = Primary THEN first ELSE second]
  BY <1>1
<1> HIDE DEF first, second
<1>8. Present = members /\ members # {} /\ members \subseteq Members
  <2>1. members # {} /\ members \subseteq Members
    BY <1>1
  <2>2. \A m \in Members : letter[m].present <=> m \in members
    BY <1>3, <1>5, <1>6, <1>7
  <2> QED BY <2>1, <2>2 DEF Present
<1>9. RowsInv
  <2>1. letter \in [Members -> LetterRow] /\ \A m \in Members : RowHolds(letter[m])
    BY <1>3, <1>5, <1>6, <1>7
  <2>2. \A m \in Members : letter[m].revision = 0 /\ (~letter[m].present => ~letter[m].visible)
    BY <1>3, <1>5, <1>6, <1>7
  <2>3. \A m \in Present : letter[m].visible = visible
    BY <1>3, <1>5, <1>7, <1>8
  <2>4. 0 \in 0 .. MaxEvents /\ 0 <= 0
    BY PublicationAssumption
  <2>5. Present # {} /\ pages = 0 /\ events = 0
    BY <1>2, <1>8
  <2>6. \A m \in Present : m \in Members
    BY DEF Present
  <2>7. \A m \in Members \ Present : letter[m].revision = 0 /\ ~letter[m].visible
    BY <2>2 DEF Present
  <2> QED BY <2>1, <2>2, <2>3, <2>4, <2>5, <2>6, <2>7 DEF RowsInv
<1>10. Fits(Away)
  BY <1>2, GoneHolds DEF Fits, Transcripts
<1>11. AskInv
  BY <1>2, <1>10, GoneHolds DEF AskInv
<1>12. VersionInv
  BY <1>2 DEF VersionInv
<1> QED BY <1>9, <1>11, <1>12 DEF PublicationInv

LEMMA NextHolds == ASSUME PublicationInv, [PublicationNext]_publicationVars PROVE StepHolds
<1>1. CASE UNCHANGED publicationVars
  <2>1. UNCHANGED <<letter, pages, events>> /\ UNCHANGED asking /\ UNCHANGED version
    BY <1>1 DEF publicationVars
  <2>2. RowsInv' /\ Grantless /\ Inherited /\ Moved({}) /\ pages \in Nat
    BY <2>1, StillRows DEF PublicationInv
  <2> QED BY <2>1, <2>2, WaitStep, SameVersion DEF PublicationInv, StepHolds
<1>2. ASSUME NEW a \in Admins, AdminStep(a) PROVE StepHolds
  <2>1. CASE Look(a)
    BY <2>1, LookHolds
  <2>2. CASE \E m \in Members : Request(a, m) \/ AskReadingView(a, m) \/ Reset(a, m)
    BY <2>2, RequestHolds, AskReadingViewHolds, ResetHolds
  <2>3. CASE \E text \in Transcripts, value \in Metadata, intent \in Intents \union {NoIntent} :
               Save(a, text, value, intent)
    BY <2>3, SaveHolds
  <2>4. CASE \E chosen \in (SUBSET Members) \ {{}}, intent \in Intents : Bulk(a, chosen, intent)
    BY <2>4, BulkHolds
  <2>5. CASE VerifyTranscript(a) \/ UnverifyTranscript(a) \/ VerifyMetadata(a) \/ UnverifyMetadata(a)
    BY <2>5, VerifyTranscriptHolds, UnverifyTranscriptHolds, VerifyMetadataHolds,
       UnverifyMetadataHolds
  <2>6. CASE StartReadingView(a) \/ SaveReadingView(a)
    BY <2>6, StartReadingViewHolds, SaveReadingViewHolds
  <2>7. CASE \E m \in Members, f \in Fields : CreateVersion(a, m, f)
    BY <2>7, CreateVersionHolds
  <2>8. CASE RestoreVersion(a)
    BY <2>8, RestoreVersionHolds
  <2>9. CASE \E m \in Members, fields \in {Fields, {"metadata"}} : Clear(a, m, fields)
    <3>1. Fields \in SUBSET Fields /\ {"metadata"} \in SUBSET Fields
      BY DEF Fields
    <3> QED BY <2>9, <3>1, ClearHolds
  <2> QED BY <1>2, <2>1, <2>2, <2>3, <2>4, <2>5, <2>6, <2>7, <2>8, <2>9 DEF AdminStep
<1>3. CASE \E f \in Fields : StartAttempt(f) \/ FailAttempt(f)
  BY <1>3, StartAttemptHolds, FailAttemptHolds
<1>4. CASE \E text \in Transcripts : FinishTranscription(text)
  BY <1>4, FinishTranscriptionHolds
<1>5. CASE \E value \in Metadata : FinishMetadata(value)
  BY <1>5, FinishMetadataHolds
<1>6. CASE ChangeExtraContent
  BY <1>6, ChangeExtraContentHolds
<1>7. CASE \E owner \in Members, type \in {"L", "extra", "related"} : ChangePages(owner, type)
  BY <1>7, ChangePagesHolds
<1> QED BY <1>1, <1>2, <1>3, <1>4, <1>5, <1>6, <1>7 DEF PublicationNext

(* Every reachable state of publication has the invariant below: typed rows  *)
(* that are verified for their content, one revision per group, and requests *)
(* that remember what they saw (letter-update.ts, publication.ts).           *)
THEOREM PublicationInvariant == PublicationSpec => []PublicationInv
<1>1. PublicationInit => PublicationInv
  BY InitHolds
<1>2. PublicationInv /\ [PublicationNext]_publicationVars => PublicationInv'
  BY NextHolds DEF StepHolds
<1> QED BY <1>1, <1>2, PTL DEF PublicationSpec

LEMMA PublicationTypesHold == PublicationInv => PublicationTypeOK
BY DEF PublicationInv, PublicationTypeOK, RowsInv, AskInv, Asker, VersionInv

(* The variables keep their types.                                           *)
THEOREM PublicationTyped == PublicationSpec => []PublicationTypeOK
BY PublicationTypesHold, PublicationInvariant, PTL

(* The members of a group are visible together and share one revision.       *)
THEOREM GroupsStayTogether == PublicationSpec => []GroupsAreUniform
<1>1. PublicationInv => GroupsAreUniform
  BY DEF PublicationInv, RowsInv, GroupsAreUniform
<1> QED BY <1>1, PublicationInvariant, PTL

(* What is published is the verified content, and an attempt that runs is    *)
(* never older than what a person wrote.                                     *)
THEOREM ReviewersKeepTheLastWord == PublicationSpec => []ReviewersHaveTheLastWord
<1>1. PublicationInv => ReviewersHaveTheLastWord
  BY DEF PublicationInv, RowsInv, RowHolds, ReviewersHaveTheLastWord,
         PublicContentIsVerified, AttemptsYieldToReviewers, Present
<1> QED BY <1>1, PublicationInvariant, PTL

(* Only somebody who saw the present pages makes something public.           *)
THEOREM GrantsAreInformed == PublicationSpec => GrantsSeeThePages
<1>1. PublicationInv /\ [PublicationNext]_publicationVars
        => [(\E m \in Members, f \in Fields :
               \/ letter'[m].visible /\ ~letter[m].visible
               \/ letter'[m].published[f] /\ ~letter[m].published[f])
            => SeenByItsAuthor]_publicationVars
  BY NextHolds DEF StepHolds, Grantless
<1> QED BY <1>1, PublicationInvariant, PTL DEF PublicationSpec, GrantsSeeThePages

-----------------------------------------------------------------------------
(* The group as its public knows it: publication implements PublicCatalogue. *)

\* Nobody comes to have pages on the screen that were not there.
Dims == \A b \in Admins : asking'[b].pc \in {"screen", "read"} =>
    asking[b].pc \in {"screen", "read"} /\ asking'[b].pages = asking[b].pages

LEMMA LeavingDims ==
    ASSUME AskInv, NEW a \in Admins, Leave(a) \/ \E m \in Members : LeaveAdvancing(a, m)
    PROVE  Dims
<1>1. \A b \in Admins \ {a} : \/ asking'[b] = asking[b]
                               \/ asking'[b] = [asking[b] EXCEPT !.fresh = FALSE]
  BY DEF AskInv, Leave, LeaveAdvancing, Outdated
<1>2. asking'[a] = Gone
  BY DEF AskInv, Leave, LeaveAdvancing, Outdated
<1>3. \A ask \in Asker : /\ [ask EXCEPT !.fresh = FALSE].pc = ask.pc
                         /\ [ask EXCEPT !.fresh = FALSE].pages = ask.pages
  BY DEF Asker
<1>4. \A b \in Admins : asking[b] \in Asker
  BY DEF AskInv
<1> QED BY <1>1, <1>2, <1>3, <1>4, GoneHolds DEF Dims

LEMMA AdvancingDims ==
    ASSUME AskInv, UNCHANGED asking \/ Advance(Primary)
    PROVE  Dims /\ \A b \in Admins : asking'[b].pc = asking[b].pc
<1>1. \A b \in Admins : \/ asking'[b] = asking[b]
                         \/ asking'[b] = [asking[b] EXCEPT !.fresh = FALSE]
  BY DEF Advance
<1>2. \A ask \in Asker : /\ [ask EXCEPT !.fresh = FALSE].pc = ask.pc
                         /\ [ask EXCEPT !.fresh = FALSE].pages = ask.pages
  BY DEF Asker
<1>3. \A b \in Admins : asking[b] \in Asker
  BY DEF AskInv
<1> QED BY <1>1, <1>2, <1>3 DEF Dims

\* A request that proceeds keeps the pages it saw.
LEMMA ProceedingDims ==
    ASSUME AskInv, NEW a \in Admins, NEW ask, asking' = [asking EXCEPT ![a] = ask],
           ask.pages = asking[a].pages,
           ask.pc \in {"screen", "read"} => asking[a].pc \in {"screen", "read"}
    PROVE  Dims
BY DEF AskInv, Dims

LEMMA AdminDims ==
    ASSUME PublicationInv, NEW a \in Admins, AdminStep(a), ~Look(a)
    PROVE  Dims /\ UNCHANGED pages
<1>0. AskInv
  BY DEF PublicationInv
<1>1. UNCHANGED pages
  BY DEF AdminStep, Request, AskReadingView, Reset, Save, Bulk, VerifyTranscript,
         UnverifyTranscript, VerifyMetadata, UnverifyMetadata, StartReadingView,
         SaveReadingView, CreateVersion, RestoreVersion, Clear
<1>2. PICK old : old = asking[a] /\ old \in Asker
  BY <1>0 DEF AskInv
<1>3. CASE Leave(a) \/ \E m \in Members : LeaveAdvancing(a, m)
  BY <1>0, <1>1, <1>3, LeavingDims
<1>4. CASE \E m \in Members : Request(a, m) /\ ~Leave(a)
  <2>1. PICK m \in Members : Request(a, m) /\ ~Leave(a)
    BY <1>4
  <2>2. PICK new : new = [old EXCEPT !.pc = "read", !.member = m, !.was = letter[m], !.fresh = TRUE]
    OBVIOUS
  <2>3. asking' = [asking EXCEPT ![a] = new] /\ old.pc = "screen"
    BY <1>0, <1>2, <2>1, <2>2 DEF Request, AskInv
  <2>4. new.pages = old.pages
    BY <1>2, <2>2 DEF Asker
  <2> QED BY <1>0, <1>1, <1>2, <2>3, <2>4, ProceedingDims
<1>5. CASE \E m \in Members : AskReadingView(a, m)
  <2>1. PICK m \in Members : AskReadingView(a, m)
    BY <1>5
  <2>2. PICK new : new = [old EXCEPT !.pc = "generate", !.member = m]
    OBVIOUS
  <2>3. asking' = [asking EXCEPT ![a] = new] /\ old.pc = "screen"
    BY <1>0, <1>2, <2>1, <2>2 DEF AskReadingView, AskInv
  <2>4. new.pages = old.pages
    BY <1>2, <2>2 DEF Asker
  <2> QED BY <1>0, <1>1, <1>2, <2>3, <2>4, ProceedingDims
<1>6. CASE VerifyTranscript(a) /\ ~Leave(a)
  <2>1. PICK new : new = [old EXCEPT !.pc = "generate"]
    OBVIOUS
  <2>2. asking' = [asking EXCEPT ![a] = new] /\ old.pc = "read"
    BY <1>0, <1>2, <1>6, <2>1 DEF VerifyTranscript, AskInv
  <2>3. new.pages = old.pages
    BY <1>2, <2>1 DEF Asker
  <2> QED BY <1>0, <1>1, <1>2, <2>2, <2>3, ProceedingDims
<1>7. CASE StartReadingView(a) /\ ~Leave(a)
  <2>1. PICK new : new = [old EXCEPT !.pc = "generating", !.was = letter[old.member]]
    OBVIOUS
  <2>2. asking' = [asking EXCEPT ![a] = new]
    BY <1>0, <1>2, <1>7, <2>1 DEF StartReadingView, AskInv
  <2>3. new.pages = old.pages /\ new.pc = "generating"
    BY <1>2, <2>1 DEF Asker
  <2> QED BY <1>0, <1>1, <1>2, <2>2, <2>3, ProceedingDims
<1>8. asking[a].member \in Members
  BY <1>2 DEF Asker
<1>9. CASE \/ \E text \in Transcripts, value \in Metadata, intent \in Intents \union {NoIntent} :
                Save(a, text, value, intent)
           \/ VerifyMetadata(a) \/ UnverifyMetadata(a)
  <2>1. Leave(a) \/ LeaveAdvancing(a, asking[a].member)
    BY <1>9 DEF Save, VerifyMetadata, UnverifyMetadata
  <2> QED BY <1>3, <1>8, <2>1
<1>10. CASE RestoreVersion(a)
  <2>1. (Leave(a) \/ LeaveAdvancing(a, version.member)) /\ version # NoVersion
    BY <1>10 DEF RestoreVersion
  <2>2. version.member \in Members
    BY <2>1 DEF PublicationInv, VersionInv
  <2> QED BY <1>3, <2>1, <2>2
<1>11. CASE \/ \E m \in Members : Reset(a, m)
            \/ \E m \in Members, fields \in {Fields, {"metadata"}} : Clear(a, m, fields)
  BY <1>3, <1>11 DEF Reset, Clear
<1>12. CASE \/ \E chosen \in (SUBSET Members) \ {{}}, intent \in Intents : Bulk(a, chosen, intent)
            \/ UnverifyTranscript(a) \/ SaveReadingView(a)
            \/ \E m \in Members, f \in Fields : CreateVersion(a, m, f)
  BY <1>3, <1>12 DEF Bulk, UnverifyTranscript, SaveReadingView, CreateVersion
<1> QED BY <1>3, <1>4, <1>5, <1>6, <1>7, <1>9, <1>10, <1>11, <1>12 DEF AdminStep

\* What is published is verified.
LEMMA PublishedIsVerified == ASSUME PublicationInv PROVE Published \subseteq Verified
BY DEF PublicationInv, RowsInv, RowHolds, Published, Verified, Current

LEMMA InheritedEntries ==
    ASSUME PublicationInv, PublicationInv', Inherited
    PROVE  /\ Verified' \subseteq Verified
           /\ Grantless => Published' \subseteq Published
<1>1. ASSUME NEW m \in Members, NEW f \in Fields, letter'[m].status[f] = "VERIFIED"
      PROVE  letter[m].status[f] = "VERIFIED" /\ letter'[m].content[f] = letter[m].content[f]
  BY <1>1 DEF Inherited, Inherits, Stands
<1>2. Verified' \subseteq Verified
  BY <1>1 DEF Verified, Current
<1>3. ASSUME Grantless PROVE Published' \subseteq Published
  <2>1. \A m \in Members, f \in Fields : letter'[m].published[f] =>
             letter'[m].status[f] = "VERIFIED" /\ letter[m].published[f]
    BY <1>3 DEF Grantless, PublicationInv, RowsInv, RowHolds
  <2> QED BY <1>1, <2>1 DEF Published, Current
<1> QED BY <1>2, <1>3

\* The entry of a verification, and the others.
LEMMA VerifiedEntries ==
    ASSUME PublicationInv, PublicationInv', VerifiedByItsReader
    PROVE  /\ \E entry \in Verified' : Verified' \subseteq Verified \union {entry}
           /\ Published' \subseteq Published
<1>1. PICK m \in Members, f \in Fields :
        /\ letter'[m].status[f] = "VERIFIED" /\ letter'[m].content[f] = letter[m].content[f]
        /\ \A n \in Members, g \in Fields :
             <<n, g>> # <<m, f>> => Stands(letter[n], letter'[n], g)
  BY DEF VerifiedByItsReader
<1>2. PICK value : value = letter'[m].content[f]
  OBVIOUS
<1>3. value \in Values
  BY <1>2 DEF PublicationInv, RowsInv, LetterRow
<1>4. <<m, f, value>> \in Verified'
  BY <1>1, <1>2, <1>3 DEF Verified, Current
<1>5. ASSUME NEW n \in Members, NEW g \in Fields, letter'[n].status[g] = "VERIFIED",
             <<n, g>> # <<m, f>>
      PROVE  letter[n].status[g] = "VERIFIED" /\ letter'[n].content[g] = letter[n].content[g]
  BY <1>1, <1>5 DEF Stands
<1>6. ASSUME NEW entry \in Verified' PROVE entry \in Verified \union {<<m, f, value>>}
  <2>1. PICK n \in Members, g \in Fields, v \in Values : entry = <<n, g, v>>
    BY DEF Verified, Current
  <2>2. letter'[n].status[g] = "VERIFIED" /\ letter'[n].content[g] = v
    BY <2>1 DEF Verified, Current
  <2>3. CASE <<n, g>> = <<m, f>>
    BY <1>2, <2>1, <2>2, <2>3
  <2>4. CASE <<n, g>> # <<m, f>>
    BY <1>5, <2>1, <2>2, <2>4 DEF Verified, Current
  <2> QED BY <2>3, <2>4
<1>7. \A n \in Members, g \in Fields : letter'[n].published[g] =>
         letter[n].published[g] /\ letter'[n].content[g] = letter[n].content[g]
  BY <1>1, <1>5 DEF VerifiedByItsReader, Grantless, PublicationInv, RowsInv, RowHolds
<1>8. Published' \subseteq Published
  BY <1>7 DEF Published, Current
<1> QED BY <1>4, <1>6, <1>8

LEMMA StepKinds ==
    ASSUME PublicationInv, [PublicationNext]_publicationVars
    PROVE  \/ \E a \in Admins : Look(a)
           \/ \E owner \in Members, type \in {"L", "extra", "related"} : ChangePages(owner, type)
           \/ Dims /\ UNCHANGED pages
<1>1. AskInv
  BY DEF PublicationInv
<1>2. CASE UNCHANGED publicationVars
  BY <1>1, <1>2, AdvancingDims DEF publicationVars
<1>3. ASSUME NEW a \in Admins, AdminStep(a) PROVE Look(a) \/ (Dims /\ UNCHANGED pages)
  BY <1>3, AdminDims
<1>4. CASE \/ \E f \in Fields : StartAttempt(f) \/ FailAttempt(f)
           \/ \E text \in Transcripts : FinishTranscription(text)
           \/ \E value \in Metadata : FinishMetadata(value)
           \/ ChangeExtraContent
  <2>1. (UNCHANGED asking \/ Advance(Primary)) /\ UNCHANGED pages
    BY <1>4 DEF StartAttempt, FailAttempt, FinishTranscription, FinishMetadata, ChangeExtraContent
  <2> QED BY <1>1, <2>1, AdvancingDims
<1> QED BY <1>2, <1>3, <1>4 DEF PublicationNext

LEMMA LookRefines ==
    ASSUME PublicationInv, NEW a \in Admins, Look(a) PROVE Catalogue!Look(a)
<1>1. UNCHANGED <<letter, pages>>
  BY DEF Look
<1>2. PICK new : new = [Away EXCEPT !.pc = "screen", !.pages = pages,
                                    !.seen = [m \in Members |-> letter[m].revision]]
  OBVIOUS
<1>3. new.pc = "screen" /\ new.pages = pages
  BY <1>2 DEF Away
<1>4. asking'[a] = new /\ \A b \in Admins \ {a} : asking'[b] = asking[b]
  BY <1>2 DEF Look, PublicationInv, AskInv
<1>5. Informed' = Informed \union {a}
  BY <1>1, <1>3, <1>4 DEF Informed
<1>6. UNCHANGED <<Verified, Published>> /\ UNCHANGED (\E m \in Members : letter[m].visible)
  BY <1>1 DEF Verified, Published, Current
<1> QED BY <1>1, <1>5, <1>6 DEF Catalogue!Look

LEMMA ChangePagesRefines ==
    ASSUME PublicationInv, NEW owner \in Members, NEW type, ChangePages(owner, type)
    PROVE  Catalogue!ChangePages
<1>1. /\ PublicationInv' /\ Inherited /\ Grantless /\ \A m \in Members : ~letter'[m].visible
      /\ pages' = pages + 1 /\ pages \in Nat
  <2>1. StepHolds /\ Inherited /\ Grantless /\ \A m \in Members : ~letter'[m].visible
    BY ChangePagesHolds
  <2>2. pages' = pages + 1 /\ pages \in Nat
    <3>1. pages \in Nat
      BY PublicationAssumption DEF PublicationInv, RowsInv
    <3>2. pages' = pages + 1
      BY DEF ChangePages
    <3> QED BY <3>1, <3>2
  <2> QED BY <2>1, <2>2 DEF StepHolds
<1>2. Verified' \subseteq Verified /\ Published' \subseteq Published /\ Published' \subseteq Verified'
  <2>1. Published' \subseteq Verified'
    BY <1>1, PublishedIsVerified DEF PublicationInv, RowsInv, RowHolds, Published, Verified, Current
  <2> QED BY <1>1, <2>1, InheritedEntries
<1>3. Informed' = {}
  <2>1. Dims
    BY AdvancingDims DEF ChangePages, PublicationInv
  <2>2. \A b \in Admins : asking[b].pages <= pages /\ asking[b].pages \in Nat
    BY PublicationAssumption DEF PublicationInv, AskInv, Fits, Asker
  <2>3. \A b \in Admins : asking'[b].pc \in {"screen", "read"} => asking'[b].pages # pages'
    BY <1>1, <2>1, <2>2 DEF Dims
  <2> QED BY <2>3 DEF Informed
<1> QED BY <1>1, <1>2, <1>3 DEF Catalogue!ChangePages

\* Any other step is a decision of an informed administrator or takes back.
LEMMA StepsRefineCatalogue ==
    ASSUME PublicationInv, [PublicationNext]_publicationVars
    PROVE  Catalogue!Next
<1>1. StepHolds
  BY NextHolds
<1>2. CASE \E a \in Admins : Look(a)
  BY <1>2, LookRefines DEF Catalogue!Next
<1>3. CASE \E owner \in Members, type \in {"L", "extra", "related"} : ChangePages(owner, type)
  BY <1>3, ChangePagesRefines DEF Catalogue!Next
<1>4. CASE Dims /\ UNCHANGED pages
  <2>1. Informed' \subseteq Informed /\ UNCHANGED pages
    BY <1>4 DEF Dims, Informed
  <2>2. Published' \subseteq Verified' /\ PublicationInv'
    BY <1>1 DEF StepHolds, PublicationInv, RowsInv, RowHolds, Published, Verified, Current
  <2>3. Grantless => ((\E m \in Members : letter'[m].visible) => \E m \in Members : letter[m].visible)
    BY DEF Grantless
  <2>4. CASE Inherited /\ Grantless
    <3>1. Verified' \subseteq Verified /\ Published' \subseteq Published
      BY <2>2, <2>4, InheritedEntries
    <3>2. Catalogue!Withdraw
      BY <2>1, <2>2, <2>3, <2>4, <3>1 DEF Catalogue!Withdraw
    <3> QED BY <3>2 DEF Catalogue!Next
  <2>5. ASSUME NEW a \in Informed, asking'[a].pc \in {"generate", "gone"}
        PROVE  a \in Admins /\ Catalogue!Decide(a)
    <3>1. a \in Admins /\ a \notin Informed'
      BY <2>5 DEF Informed
    <3> QED BY <2>1, <2>2, <3>1 DEF Catalogue!Decide
  <2>6. CASE Inherited /\ SeenByItsAuthor
    <3>1. PICK a \in Informed : asking'[a].pc \in {"generate", "gone"}
      BY <2>6 DEF SeenByItsAuthor
    <3>2. Verified' \subseteq Verified
      BY <2>2, <2>6, InheritedEntries
    <3>3. Catalogue!Grant(a)
      BY <2>5, <3>1, <3>2 DEF Catalogue!Grant
    <3> QED BY <2>5, <3>1, <3>3 DEF Catalogue!Next
  <2>7. CASE VerifiedByItsReader
    <3>1. PICK a \in Informed : asking'[a].pc \in {"generate", "gone"}
      BY <2>7 DEF VerifiedByItsReader, SeenByItsAuthor
    <3>2. /\ \E entry \in Verified' : Verified' \subseteq Verified \union {entry}
          /\ Published' \subseteq Published
      BY <2>2, <2>7, VerifiedEntries
    <3>3. Catalogue!Verify(a)
      BY <2>3, <2>5, <2>7, <3>1, <3>2 DEF Catalogue!Verify, VerifiedByItsReader
    <3> QED BY <2>5, <3>1, <3>3 DEF Catalogue!Next
  <2> QED BY <1>1, <2>4, <2>6, <2>7 DEF StepHolds
<1> QED BY <1>2, <1>3, <1>4, StepKinds

(* Publication implements PublicCatalogue: whatever becomes verified or      *)
(* public does so by one request of somebody who saw the present pages, and  *)
(* nothing public outlives its verification (publication-mutations.ts).      *)
THEOREM PublicationImplementsCatalogue == PublicationSpec => ImplementsCatalogue
<1>1. PublicationInit => Catalogue!Init
  <2> SUFFICES ASSUME PublicationInit PROVE Catalogue!Init
    OBVIOUS
  <2>1. PublicationInv
    BY InitHolds
  <2>2. Published \subseteq Verified
    BY <2>1, PublishedIsVerified
  <2>3. Informed = {}
    BY GoneHolds DEF PublicationInit, Informed
  <2>4. pages = 0
    BY DEF PublicationInit
  <2> QED BY <2>2, <2>3, <2>4 DEF Catalogue!Init
<1>2. PublicationInv /\ [PublicationNext]_publicationVars
        => [Catalogue!Next]_(Catalogue!catalogueVars)
  BY StepsRefineCatalogue
<1> QED BY <1>1, <1>2, PublicationInvariant, PTL DEF PublicationSpec, ImplementsCatalogue, Catalogue!Spec

=============================================================================
