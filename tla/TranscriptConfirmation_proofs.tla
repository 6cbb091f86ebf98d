---------------------- MODULE TranscriptConfirmation_proofs ----------------------
(***************************************************************************)
(* Confirmations for any number of screens, transcripts and names, and any *)
(* number of changes, retries, attempts and lost answers.  A receipt is    *)
(* kept only while the letter shows what was confirmed; this carries both  *)
(* the metadata made with the confirmed names and what screens report.     *)
(***************************************************************************)
EXTENDS TranscriptConfirmation, FiniteSetTheorems, TLAPS

\* Pages and supplement never changed more often than changes were counted.
ChangesAreCounted == record.source + record.input.version <= happened.changes

\* There is one envelope at most.
OneEnvelope == record.envelope = {} \/ \E e \in Envelope : record.envelope = {e}

\* The receipt is that of an intent the letter still shows.
ReceiptsAreShown ==
    /\ record.receipt <= Len(intents)
    /\ record.receipt # 0 => StillShown(intents[record.receipt])
    /\ record.metadata \in {"RUNNING", "SUCCESS"} => record.receipt # 0

\* The envelope holds the names of the receipt and, until another job is
\* retried, the present input.
EnvelopesAreCurrent ==
    /\ happened.retries = 0 => record.input.job # "PENDING"
    /\ \A e \in record.envelope :
         /\ e.guidance = intents[record.receipt].guidance
         /\ happened.retries = 0 => e.input = record.input

\* An attempt that loaded its input has the names of the stored envelope.
AttemptsAreGuided ==
    record.metadata = "RUNNING" /\ attempt.loaded =>
        /\ attempt.guidance \in {NoGuidance, intents[record.receipt].guidance}
        /\ happened.retries = 0 => \A e \in record.envelope : attempt.guidance = e.guidance

\* Screens that wait remember what they asked for and saw; an accepted one
\* holds the receipt of exactly that intent.
ScreensRemember ==
    /\ \A q \in requests : ~q.lost => tab[q.tab].pc = "sent" /\ tab[q.tab].asked = q.intent
    /\ \A t \in Tabs :
         /\ tab[t].pc \in {"sent", "accepted", "unsure"} =>
              tab[t].claims = "nothing" /\ tab[t].asked.source = tab[t].seen.source
         /\ tab[t].pc = "accepted" =>
              tab[t].receipt \in 1 .. Len(intents) /\ intents[tab[t].receipt] = tab[t].asked
         /\ tab[t].claims = "ours" => tab[t].seen.receipt \in 1 .. Len(intents)

Tab == [pc : {"screen", "sent", "accepted", "unsure", "blocked", "conflict"}, seen : Screen,
        asked : Intent, receipt : Ids, claims : {"nothing", "confirmed", "ours"}]

Sent == [tab : Tabs, intent : Intent, lost : BOOLEAN]

\* ConfirmationTypeOK without the cardinality, with what makes it inductive.
RowInv ==
    /\ record \in Letter /\ OneEnvelope /\ GuidanceFits(record) /\ ChangesAreCounted
    /\ intents \in Seq(Intent) /\ Len(intents) <= MaxConfirmations
    /\ attempt \in [loaded : BOOLEAN, guidance : Guidance]
    /\ tab \in [Tabs -> Tab] /\ requests \subseteq Sent
    /\ happened \in [changes : 0 .. MaxChanges, retries : 0 .. MaxRetries, runs : 0 .. MaxRuns,
                     unsure : 0 .. MaxUnsure]

LEMMA Bounds ==
    /\ MaxConfirmations \in Nat /\ MaxChanges \in Nat /\ MaxRetries \in Nat
    /\ MaxRuns \in Nat /\ MaxUnsure \in Nat
BY ConfirmationAssumption

LEMMA RowInvGivesTypes == RowInv => ConfirmationTypeOK
<1>1. ASSUME OneEnvelope PROVE Cardinality(record.envelope) <= 1
  <2>1. CASE record.envelope = {}
    BY <2>1, FS_EmptySet
  <2>2. ASSUME NEW e \in Envelope, record.envelope = {e} PROVE Cardinality(record.envelope) <= 1
    <3>1. Cardinality({e}) = 1
      BY FS_Singleton
    <3> QED BY <2>2, <3>1
  <2> QED BY <1>1, <2>1, <2>2 DEF OneEnvelope
<1> QED BY <1>1 DEF RowInv, ConfirmationTypeOK, Tab, Sent

LEMMA ShownType == RowInv => Shown \in Screen
BY DEF RowInv, Letter, Input, Screen, Shown, Confirmable

LEMMA SilentType ==
    ASSUME NEW seen \in Screen, NEW guidance \in Guidance
    PROVE  /\ SilentIntent(seen) \in Intent
           /\ [SilentIntent(seen) EXCEPT !.guidance = guidance] \in Intent
BY DEF SilentIntent, Screen, Intent, Guidance

LEMMA FreshType ==
    ASSUME NEW seen \in Screen
    PROVE  Fresh(seen) \in Tab
<1>1. SilentIntent(seen) \in Intent
  BY SilentType DEF Guidance
<1> QED BY <1>1, Bounds DEF Fresh, Tab, Ids

LEMMA SpendType ==
    ASSUME RowInv, NEW event \in {"changes", "retries", "runs", "unsure"}, NEW bound \in Nat,
           Spend(event, bound),
           bound = CASE event = "changes" -> MaxChanges [] event = "retries" -> MaxRetries
                     [] event = "runs" -> MaxRuns [] event = "unsure" -> MaxUnsure
    PROVE  /\ happened' \in [changes : 0 .. MaxChanges, retries : 0 .. MaxRetries,
                             runs : 0 .. MaxRuns, unsure : 0 .. MaxUnsure]
           /\ event = "changes" => happened'.changes = happened.changes + 1
           /\ event = "retries" => happened'.retries # 0
           /\ event # "changes" => happened'.changes = happened.changes
           /\ event # "retries" => happened'.retries = happened.retries
BY Bounds DEF RowInv, Spend

LEMMA NoAttemptType == NoAttempt \in [loaded : BOOLEAN, guidance : Guidance]
BY DEF NoAttempt, Guidance

LEMMA InitRow == ConfirmationInit => RowInv /\ ReceiptsAreShown /\ EnvelopesAreCurrent
                                       /\ AttemptsAreGuided /\ ScreensRemember
<1> SUFFICES ASSUME ConfirmationInit PROVE RowInv /\ ReceiptsAreShown /\ EnvelopesAreCurrent
                                       /\ AttemptsAreGuided /\ ScreensRemember
  OBVIOUS
<1>1. PICK text \in Wordings, job \in {"SUCCESS", "FAILED"} :
        record = [source |-> 0, input |-> [text |-> text, version |-> 0, job |-> job],
                  transcribed |-> TRUE, receipt |-> 0, envelope |-> {}, metadata |-> "PENDING",
                  bound |-> FALSE, used |-> NoGuidance]
  BY DEF ConfirmationInit
<1>2. record \in Letter
  BY <1>1, Bounds DEF Letter, Input, Guidance, Jobs, Ids
<1>3. OneEnvelope /\ GuidanceFits(record) /\ ChangesAreCounted
  BY <1>1 DEF OneEnvelope, GuidanceFits, ChangesAreCounted, ConfirmationInit
<1>4. Shown \in Screen
  BY <1>2 DEF Letter, Input, Screen, Shown, Confirmable
<1>5. tab \in [Tabs -> Tab] /\ \A t \in Tabs : tab[t] = Fresh(Shown)
  BY <1>4, FreshType DEF ConfirmationInit
<1>6. RowInv
  BY <1>2, <1>3, <1>5, NoAttemptType, Bounds DEF RowInv, ConfirmationInit
<1>7. ReceiptsAreShown /\ EnvelopesAreCurrent /\ AttemptsAreGuided
  BY <1>1 DEF ReceiptsAreShown, EnvelopesAreCurrent, AttemptsAreGuided, ConfirmationInit
<1>8. ScreensRemember
  BY <1>5 DEF ScreensRemember, Fresh, ConfirmationInit
<1> QED BY <1>6, <1>7, <1>8

-----------------------------------------------------------------------------
\* What the writers of the row leave behind.
Same(row) == <<row.source, row.input, row.transcribed, row.receipt>>

LEMMA InvalidatedRow ==
    ASSUME NEW row \in Letter
    PROVE  /\ Invalidated(row) \in Letter
           /\ Same(Invalidated(row)) = Same(row)
           /\ Invalidated(row).envelope = {} /\ Invalidated(row).metadata = "PENDING"
           /\ ~Invalidated(row).bound
BY DEF Invalidated, Letter, Guidance, Jobs, Same

LEMMA UnconfirmedRow ==
    ASSUME NEW row \in Letter
    PROVE  /\ Unconfirmed(row) \in Letter
           /\ Unconfirmed(row).source = row.source /\ Unconfirmed(row).input = row.input
           /\ Unconfirmed(row).receipt = 0
           /\ Unconfirmed(row).envelope = {} /\ Unconfirmed(row).metadata = "PENDING"
           /\ ~Unconfirmed(row).bound
<1>1. Invalidated(row) \in Letter
  BY InvalidatedRow
<1>2. Unconfirmed(row) = [Invalidated(row) EXCEPT !.receipt = 0]
  BY DEF Unconfirmed
<1>3. 0 \in Ids
  BY Bounds DEF Ids
<1>4. Same(Invalidated(row)) = Same(row)
  BY InvalidatedRow
<1> HIDE DEF Invalidated
<1> QED BY <1>1, <1>2, <1>3, <1>4, InvalidatedRow DEF Letter, Same

\* A withdrawn row keeps what is required of any row.
LEMMA WithdrawnRow ==
    ASSUME RowInv, record' \in Letter, record'.envelope = {}, ~record'.bound,
           record'.metadata = "PENDING", ChangesAreCounted',
           happened' \in [changes : 0 .. MaxChanges, retries : 0 .. MaxRetries,
                          runs : 0 .. MaxRuns, unsure : 0 .. MaxUnsure],
           attempt' \in {attempt, NoAttempt}, UNCHANGED <<intents, tab, requests>>,
           record'.receipt \in {0, record.receipt},
           record'.receipt # 0 => record'.source = record.source
                                  /\ record'.input.text = record.input.text,
           happened'.retries = happened.retries,
           record'.input.job \in {record.input.job, "SUCCESS"},
           ReceiptsAreShown, EnvelopesAreCurrent
    PROVE  RowInv' /\ ReceiptsAreShown' /\ EnvelopesAreCurrent' /\ AttemptsAreGuided'
<1>1. RowInv'
  BY NoAttemptType DEF RowInv, OneEnvelope, GuidanceFits
<1>2. ReceiptsAreShown'
  BY Bounds DEF ReceiptsAreShown, StillShown, RowInv, Letter, Ids
<1>3. EnvelopesAreCurrent'
  BY DEF EnvelopesAreCurrent
<1>4. AttemptsAreGuided'
  BY DEF AttemptsAreGuided
<1> QED BY <1>1, <1>2, <1>3, <1>4

(* One lemma per writer of the row.                                          *)
RowGuidance == ReceiptsAreShown /\ EnvelopesAreCurrent /\ AttemptsAreGuided

LEMMA EditStep ==
    ASSUME RowInv, RowGuidance, NEW text \in Wordings, EditTranscript(text)
    PROVE  RowInv' /\ RowGuidance'
<1> DEFINE row == Unconfirmed(record)
<1>1. row \in Letter /\ record \in Letter
  BY UnconfirmedRow DEF RowInv
<1>2. record' = [row EXCEPT !.input.text = text]
  BY DEF EditTranscript
<1>3. /\ row.source = record.source /\ row.input = record.input /\ row.receipt = 0
      /\ row.envelope = {} /\ row.metadata = "PENDING" /\ ~row.bound
  BY <1>1, UnconfirmedRow
<1> HIDE DEF row
<1>4. record' \in Letter
  BY <1>1, <1>2 DEF Letter, Input
<1>5. /\ record'.source = record.source /\ record'.input.version = record.input.version
      /\ record'.input.job = record.input.job /\ record'.receipt = 0
      /\ record'.envelope = {} /\ record'.metadata = "PENDING" /\ ~record'.bound
  BY <1>1, <1>2, <1>3 DEF Letter, Input
<1>6. /\ happened' \in [changes : 0 .. MaxChanges, retries : 0 .. MaxRetries,
                          runs : 0 .. MaxRuns, unsure : 0 .. MaxUnsure]
      /\ happened'.changes = happened.changes + 1
      /\ happened'.retries = happened.retries
  BY SpendType, Bounds DEF EditTranscript
<1>7. ChangesAreCounted'
  BY <1>1, <1>5, <1>6, Bounds DEF ChangesAreCounted, RowInv, Letter, Input
<1> QED BY <1>4, <1>5, <1>6, <1>7, WithdrawnRow DEF EditTranscript, RowGuidance

LEMMA ReplaceStep ==
    ASSUME RowInv, RowGuidance, ReplacePages
    PROVE  RowInv' /\ RowGuidance'
<1> DEFINE row == Unconfirmed(record)
           next == record.source + 1
<1>1. row \in Letter /\ record \in Letter
  BY UnconfirmedRow DEF RowInv
<1>2. /\ row.source = record.source /\ row.input = record.input /\ row.receipt = 0
      /\ row.envelope = {} /\ row.metadata = "PENDING" /\ ~row.bound
  BY <1>1, UnconfirmedRow
<1>3. record' = [row EXCEPT !.source = next, !.transcribed = FALSE]
  BY <1>2 DEF ReplacePages
<1>4. /\ happened' \in [changes : 0 .. MaxChanges, retries : 0 .. MaxRetries,
                          runs : 0 .. MaxRuns, unsure : 0 .. MaxUnsure]
      /\ happened'.changes = happened.changes + 1
      /\ happened'.retries = happened.retries
  BY SpendType, Bounds DEF ReplacePages
<1>5. /\ record.source \in Nat /\ record.input.version \in Nat
      /\ happened.changes + 1 \in 0 .. MaxChanges
      /\ record.source + record.input.version <= happened.changes
  BY <1>1, <1>4, Bounds DEF Letter, Input, RowInv, ChangesAreCounted
<1>6. next \in 0 .. MaxChanges /\ next + record.input.version <= happened'.changes
  <2> DEFINE source == record.source
             version == record.input.version
             changes == happened.changes
  <2>1. source \in Nat /\ version \in Nat /\ changes \in Nat /\ changes + 1 <= MaxChanges
    BY <1>5, Bounds DEF RowInv
  <2>2. source + version <= changes
    BY <1>5
  <2>3. happened'.changes = changes + 1
    BY <1>4
  <2> HIDE DEF source, version, changes
  <2>4. source + 1 \in 0 .. MaxChanges /\ source + version + 1 <= changes + 1
    BY <2>1, <2>2, Bounds
  <2>5. (source + 1) + version <= changes + 1
    BY <2>1, <2>4
  <2> QED BY <2>3, <2>4, <2>5 DEF source, version
<1> HIDE DEF row, next
<1>7. record' \in Letter
  BY <1>1, <1>3, <1>6 DEF Letter
<1>8. /\ record'.source = next /\ record'.input = record.input
      /\ record'.receipt = 0 /\ record'.envelope = {} /\ record'.metadata = "PENDING"
      /\ ~record'.bound
  BY <1>1, <1>2, <1>3 DEF Letter
<1>9. ChangesAreCounted'
  BY <1>6, <1>8 DEF ChangesAreCounted
<1> QED BY <1>4, <1>7, <1>8, <1>9, WithdrawnRow DEF ReplacePages, RowGuidance

LEMMA TranscribeStep ==
    ASSUME RowInv, RowGuidance, NEW text \in Wordings, Transcribe(text)
    PROVE  RowInv' /\ RowGuidance'
<1> DEFINE row == Unconfirmed(record)
<1>1. row \in Letter /\ record \in Letter
  BY UnconfirmedRow DEF RowInv
<1>2. record' = [row EXCEPT !.input.text = text, !.transcribed = TRUE]
  BY DEF Transcribe
<1>3. /\ row.source = record.source /\ row.input = record.input /\ row.receipt = 0
      /\ row.envelope = {} /\ row.metadata = "PENDING" /\ ~row.bound
  BY <1>1, UnconfirmedRow
<1> HIDE DEF row
<1>4. record' \in Letter
  BY <1>1, <1>2 DEF Letter, Input
<1>5. /\ record'.source = record.source /\ record'.input.version = record.input.version
      /\ record'.input.job = record.input.job /\ record'.receipt = 0
      /\ record'.envelope = {} /\ record'.metadata = "PENDING" /\ ~record'.bound
  BY <1>1, <1>2, <1>3 DEF Letter, Input
<1>6. ChangesAreCounted' /\ UNCHANGED <<happened, intents, attempt, tab, requests>>
  BY <1>5 DEF ChangesAreCounted, RowInv, Transcribe
<1> QED BY <1>4, <1>5, <1>6, WithdrawnRow DEF RowGuidance, RowInv

LEMMA SupplementStep ==
    ASSUME RowInv, RowGuidance, ChangeSupplement
    PROVE  RowInv' /\ RowGuidance'
<1> DEFINE row == Invalidated(record)
           next == record.input.version + 1
<1>1. row \in Letter /\ record \in Letter
  BY InvalidatedRow DEF RowInv
<1>2. /\ row.source = record.source /\ row.input = record.input
      /\ row.receipt = record.receipt
      /\ row.envelope = {} /\ row.metadata = "PENDING" /\ ~row.bound
  BY <1>1, InvalidatedRow DEF Same
<1>3. record' = [row EXCEPT !.input.version = next, !.input.job = "SUCCESS"]
  BY <1>2 DEF ChangeSupplement
<1>4. /\ happened' \in [changes : 0 .. MaxChanges, retries : 0 .. MaxRetries,
                          runs : 0 .. MaxRuns, unsure : 0 .. MaxUnsure]
      /\ happened'.changes = happened.changes + 1
      /\ happened'.retries = happened.retries
  BY SpendType, Bounds DEF ChangeSupplement
<1>5. /\ record.source \in Nat /\ record.input.version \in Nat
      /\ happened.changes + 1 \in 0 .. MaxChanges
      /\ record.source + record.input.version <= happened.changes
  BY <1>1, <1>4, Bounds DEF Letter, Input, RowInv, ChangesAreCounted
<1>6. next \in 0 .. MaxChanges /\ record.source + next <= happened'.changes
  <2> DEFINE source == record.source
             version == record.input.version
             changes == happened.changes
  <2>1. source \in Nat /\ version \in Nat /\ changes \in Nat /\ changes + 1 <= MaxChanges
    BY <1>5, Bounds DEF RowInv
  <2>2. source + version <= changes
    BY <1>5
  <2>3. happened'.changes = changes + 1
    BY <1>4
  <2> HIDE DEF source, version, changes
  <2>4. version + 1 \in 0 .. MaxChanges /\ source + version + 1 <= changes + 1
    BY <2>1, <2>2, Bounds
  <2>5. source + (version + 1) <= changes + 1
    BY <2>1, <2>4
  <2> QED BY <2>3, <2>4, <2>5 DEF source, version
<1> HIDE DEF row, next
<1>7. record' \in Letter
  BY <1>1, <1>3, <1>6 DEF Letter, Input, Jobs
<1>8. /\ record'.source = record.source /\ record'.input.version = next
      /\ record'.input.text = record.input.text /\ record'.input.job = "SUCCESS"
      /\ record'.receipt = record.receipt
      /\ record'.envelope = {} /\ record'.metadata = "PENDING" /\ ~record'.bound
  BY <1>1, <1>2, <1>3 DEF Letter, Input
<1>9. ChangesAreCounted'
  BY <1>6, <1>8 DEF ChangesAreCounted
<1> QED BY <1>4, <1>7, <1>8, <1>9, WithdrawnRow DEF ChangeSupplement, RowGuidance

\* The extra-content job: only its own status changes, never beside an attempt.
LEMMA OtherJobStep ==
    ASSUME RowInv, RowGuidance, RetryExtraContent \/ FailExtraContent
    PROVE  RowInv' /\ RowGuidance'
<1> PICK status \in {"PENDING", "FAILED"} :
       /\ record' = [record EXCEPT !.input.job = status]
       /\ happened'.retries # 0
       /\ happened' \in [changes : 0 .. MaxChanges, retries : 0 .. MaxRetries,
                          runs : 0 .. MaxRuns, unsure : 0 .. MaxUnsure]
       /\ happened'.changes = happened.changes
  <2>1. CASE RetryExtraContent
    BY <2>1, SpendType, Bounds DEF RetryExtraContent
  <2>2. CASE FailExtraContent
    BY <2>2 DEF FailExtraContent, RowInv, RowGuidance, EnvelopesAreCurrent
  <2> QED BY <2>1, <2>2
<1>1. /\ record.metadata # "RUNNING" /\ UNCHANGED <<intents, attempt, tab, requests>>
      /\ record \in Letter
  BY DEF RetryExtraContent, FailExtraContent, RowInv
<1>2. record' \in Letter
  BY <1>1 DEF Letter, Input, Jobs
<1>3. /\ Same(record') = <<record.source, record'.input, record.transcribed, record.receipt>>
      /\ record'.input.text = record.input.text /\ record'.input.version = record.input.version
      /\ record'.envelope = record.envelope /\ record'.metadata = record.metadata
      /\ record'.bound = record.bound
  BY <1>1 DEF Letter, Input, Same
<1>4. RowInv'
  BY <1>1, <1>2, <1>3 DEF RowInv, OneEnvelope, GuidanceFits, ChangesAreCounted, Same
<1>5. ReceiptsAreShown'
  BY <1>1, <1>3 DEF RowGuidance, ReceiptsAreShown, StillShown, Same
<1>6. EnvelopesAreCurrent' /\ AttemptsAreGuided'
  BY <1>1, <1>3 DEF RowGuidance, EnvelopesAreCurrent, AttemptsAreGuided, Same
<1> QED BY <1>4, <1>5, <1>6 DEF RowGuidance

\* Steps of a metadata attempt leave source, input and receipt alone.
LEMMA AttemptRow ==
    ASSUME RowInv, RowGuidance, record' \in Letter, Same(record') = Same(record),
           record'.envelope \in {{}, record.envelope}, GuidanceFits(record'),
           record'.metadata \in {"RUNNING", "SUCCESS"} => record.receipt # 0,
           attempt' \in [loaded : BOOLEAN, guidance : Guidance],
           UNCHANGED <<intents, tab, requests>>,
           happened' \in [changes : 0 .. MaxChanges, retries : 0 .. MaxRetries,
                          runs : 0 .. MaxRuns, unsure : 0 .. MaxUnsure],
           happened'.changes = happened.changes, happened'.retries = happened.retries
    PROVE  RowInv' /\ ReceiptsAreShown' /\ EnvelopesAreCurrent'
<1>0. /\ record'.source = record.source /\ record'.input = record.input
      /\ record'.receipt = record.receipt
  BY DEF Same
<1>1. RowInv'
  BY <1>0 DEF RowInv, OneEnvelope, ChangesAreCounted
<1>2. ReceiptsAreShown'
  BY <1>0 DEF RowGuidance, ReceiptsAreShown, StillShown
<1>3. EnvelopesAreCurrent'
  BY <1>0 DEF RowGuidance, EnvelopesAreCurrent
<1> QED BY <1>1, <1>2, <1>3

LEMMA ClaimStep ==
    ASSUME RowInv, RowGuidance, NEW requested \in BOOLEAN, Claim(requested)
    PROVE  RowInv' /\ RowGuidance'
<1> DEFINE bound == ~requested /\ record.envelope # {}
           kept == GuidanceFor(requested)
<1>1. record' = [record EXCEPT !.metadata = "RUNNING", !.used = NoGuidance,
                               !.envelope = kept, !.bound = bound]
  BY DEF Claim
<1>2. /\ kept = IF requested THEN {} ELSE record.envelope
      /\ bound \in BOOLEAN /\ kept \in SUBSET Envelope /\ record \in Letter
      /\ kept # {} <=> bound
  BY DEF GuidanceFor, RowInv, Letter
<1> HIDE DEF bound, kept
<1>3. record' \in Letter
  BY <1>1, <1>2 DEF Letter, Jobs, Guidance
<1>4. /\ Same(record') = Same(record) /\ record'.envelope = kept /\ record'.bound = bound
      /\ record'.receipt = record.receipt
  BY <1>1, <1>2 DEF Letter, Same
<1>5. GuidanceFits(record')
  BY <1>2, <1>4 DEF RowInv, GuidanceFits
<1>6. /\ happened' \in [changes : 0 .. MaxChanges, retries : 0 .. MaxRetries,
                          runs : 0 .. MaxRuns, unsure : 0 .. MaxUnsure]
      /\ happened'.changes = happened.changes /\ happened'.retries = happened.retries
  BY SpendType, Bounds DEF Claim
<1>7. RowInv' /\ ReceiptsAreShown' /\ EnvelopesAreCurrent'
  BY <1>2, <1>3, <1>4, <1>5, <1>6, NoAttemptType, AttemptRow DEF Claim
<1>8. AttemptsAreGuided'
  BY DEF Claim, AttemptsAreGuided, NoAttempt
<1> QED BY <1>7, <1>8 DEF RowGuidance

LEMMA LoadStep ==
    ASSUME RowInv, RowGuidance, Load
    PROVE  RowInv' /\ RowGuidance'
<1> DEFINE guided == IF record.bound THEN Resolved(CHOOSE e \in record.envelope : TRUE)
                     ELSE NoGuidance
<1>0. /\ attempt' = [loaded |-> TRUE, guidance |-> guided]
      /\ UNCHANGED <<record, intents, tab, requests, happened>>
  BY DEF Load
<1>1. CASE record.bound
  <2>1. PICK e \in Envelope : record.envelope = {e}
    BY <1>1 DEF RowInv, OneEnvelope, GuidanceFits
  <2>2. guided = Resolved(e)
    BY <1>1, <2>1
  <2>3. /\ e.id = record.receipt /\ record.receipt # 0 /\ StillShown(intents[record.receipt])
        /\ e.guidance = intents[record.receipt].guidance /\ e.guidance \in Guidance
        /\ happened.retries = 0 => e.input = record.input
    BY <2>1 DEF RowInv, GuidanceFits, RowGuidance, ReceiptsAreShown, EnvelopesAreCurrent, Envelope
  <2>4. /\ guided \in {NoGuidance, e.guidance} /\ guided \in Guidance
        /\ happened.retries = 0 => guided = e.guidance
    BY <2>2, <2>3 DEF Resolved, Guidance
  <2> HIDE DEF guided
  <2>5. RowInv'
    BY <1>0, <2>4 DEF RowInv, OneEnvelope, ChangesAreCounted
  <2> QED BY <1>0, <2>1, <2>3, <2>4, <2>5 DEF RowGuidance, ReceiptsAreShown, StillShown,
                                           EnvelopesAreCurrent, AttemptsAreGuided
<1>2. CASE ~record.bound
  <2>1. record.envelope = {} /\ guided = NoGuidance
    BY <1>2 DEF RowInv, GuidanceFits, Load
  <2> HIDE DEF guided
  <2>2. RowInv'
    BY <1>0, <2>1 DEF RowInv, OneEnvelope, ChangesAreCounted, Guidance
  <2> QED BY <1>0, <2>1, <2>2 DEF RowGuidance, ReceiptsAreShown, StillShown,
                               EnvelopesAreCurrent, AttemptsAreGuided
<1> QED BY <1>1, <1>2

LEMMA CompleteStep ==
    ASSUME RowInv, RowGuidance, Complete
    PROVE  RowInv' /\ RowGuidance' /\ GuidanceIsHonoured'
<1>0. /\ record' = [record EXCEPT !.metadata = "SUCCESS", !.bound = FALSE,
                                  !.used = attempt.guidance]
      /\ record \in Letter /\ attempt.guidance \in Guidance
  BY DEF Complete, RowInv
<1>1. record' \in Letter
  BY <1>0 DEF Letter, Jobs
<1>2. /\ Same(record') = Same(record) /\ record'.envelope = record.envelope /\ ~record'.bound
      /\ record'.metadata = "SUCCESS" /\ record'.receipt = record.receipt
      /\ record'.used = attempt.guidance
  BY <1>0 DEF Letter, Same
<1>3. GuidanceFits(record')
  BY <1>2 DEF RowInv, GuidanceFits
<1>4. RowInv' /\ ReceiptsAreShown' /\ EnvelopesAreCurrent'
  BY <1>1, <1>2, <1>3, NoAttemptType, AttemptRow
     DEF Complete, RowGuidance, ReceiptsAreShown, RowInv
<1>5. AttemptsAreGuided'
  BY <1>2 DEF AttemptsAreGuided
<1>6. GuidanceIsHonoured'
  BY <1>2 DEF Complete, RowGuidance, AttemptsAreGuided, GuidanceIsHonoured
<1> QED BY <1>4, <1>5, <1>6 DEF RowGuidance

\* An attempt ends without a result, a job leaves the queue or enters it, or
\* the guidance is dropped.
LEMMA PauseStep ==
    ASSUME RowInv, RowGuidance, GuidanceIsHonoured,
           (\E status \in {"FAILED", "PENDING"} : Break(status)) \/ Requeue \/ DropGuidance
    PROVE  RowInv' /\ RowGuidance' /\ GuidanceIsHonoured'
<1> DEFINE Paused ==
      /\ record' \in Letter /\ Same(record') = Same(record)
      /\ record'.bound => record.bound /\ record'.envelope = record.envelope
      /\ record'.envelope \in {{}, record.envelope} /\ record'.metadata # "RUNNING"
      /\ record'.metadata = "SUCCESS" => record.metadata = "SUCCESS" /\ record'.envelope = {}
      /\ record'.used = record.used
      /\ attempt' \in {attempt, NoAttempt} /\ UNCHANGED <<intents, tab, requests, happened>>
<1>0. record \in Letter
  BY DEF RowInv
<1>1. ASSUME NEW status \in {"FAILED", "PENDING"}, Break(status) PROVE Paused
  BY <1>0, <1>1 DEF Break, Letter, Jobs, Same
<1>2. ASSUME Requeue PROVE Paused
  <2> DEFINE status == IF record.metadata = "PENDING" THEN "FAILED" ELSE "PENDING"
  <2>1. record' = [record EXCEPT !.metadata = status] /\ record.metadata \in {"PENDING", "FAILED"}
    BY <1>2 DEF Requeue
  <2>2. status \in Jobs \ {"RUNNING", "SUCCESS"}
    BY DEF Jobs
  <2> HIDE DEF status
  <2> QED BY <1>0, <1>2, <2>1, <2>2 DEF Requeue, Letter, Same
<1>3. ASSUME DropGuidance PROVE Paused
  <2> DEFINE status == IF record.metadata = "RUNNING" THEN "PENDING" ELSE record.metadata
  <2>1. record' = [record EXCEPT !.envelope = {}, !.bound = FALSE, !.metadata = status]
    BY <1>3 DEF DropGuidance
  <2>2. status \in Jobs /\ status # "RUNNING" /\ (status = "SUCCESS" => record.metadata = "SUCCESS")
    BY <1>0 DEF Jobs, Letter
  <2> HIDE DEF status
  <2> QED BY <1>0, <1>3, <2>1, <2>2 DEF DropGuidance, Letter, Same
<1>4. Paused
  BY <1>1, <1>2, <1>3
<1>5. GuidanceFits(record') /\ record'.receipt = record.receipt
  BY <1>4 DEF RowInv, GuidanceFits, Same
<1>6. RowInv' /\ ReceiptsAreShown' /\ EnvelopesAreCurrent'
  BY <1>4, <1>5, NoAttemptType, AttemptRow DEF RowGuidance, ReceiptsAreShown, RowInv
<1>7. AttemptsAreGuided' /\ GuidanceIsHonoured'
  BY <1>4, <1>5 DEF AttemptsAreGuided, GuidanceIsHonoured
<1> QED BY <1>6, <1>7 DEF RowGuidance

-----------------------------------------------------------------------------
(* Confirmations and screens.                                                *)

\* Nobody else's request is touched, and each screen waits for one at most.
LEMMA Addressed ==
    ASSUME RowInv, ScreensRemember, NEW q \in requests, ~q.lost
    PROVE  /\ q \in Sent /\ q.tab \in Tabs /\ q.intent \in Intent
           /\ tab[q.tab].pc = "sent" /\ tab[q.tab].asked = q.intent
           /\ \A other \in requests \ {q} : ~other.lost => other.tab # q.tab
<1>1. q \in Sent /\ tab[q.tab].pc = "sent" /\ tab[q.tab].asked = q.intent
  BY DEF RowInv, ScreensRemember
<1>2. ASSUME NEW other \in requests, ~other.lost, other.tab = q.tab PROVE other = q
  <2>1. other.intent = q.intent /\ other \in Sent
    BY <1>1, <1>2 DEF RowInv, ScreensRemember
  <2>2. other.lost = FALSE /\ q.lost = FALSE
    BY <1>1, <1>2, <2>1 DEF Sent
  <2> QED BY <1>1, <1>2, <2>1, <2>2 DEF Sent
<1> QED BY <1>1, <1>2 DEF Sent

\* A screen moves, and its requests with it.
LEMMA ScreenStep ==
    ASSUME RowInv, ScreensRemember, ReportedConfirmationsAreReal, NEW t \in Tabs,
           \A u \in Tabs \ {t} : tab'[u] = tab[u],
           tab' \in [Tabs -> Tab],
           intents' \in Seq(Intent), Len(intents) <= Len(intents'),
           \A i \in 1 .. Len(intents) : intents'[i] = intents[i],
           \A q \in requests' : ~q.lost =>
              \/ q \in requests /\ q.tab # t
              \/ q.tab = t /\ tab'[t].pc = "sent" /\ tab'[t].asked = q.intent,
           tab'[t].pc \in {"sent", "accepted", "unsure"} =>
              tab'[t].claims = "nothing" /\ tab'[t].asked.source = tab'[t].seen.source,
           tab'[t].pc = "accepted" =>
              tab'[t].receipt \in 1 .. Len(intents') /\ intents'[tab'[t].receipt] = tab'[t].asked,
           tab'[t].claims = "ours" =>
              /\ tab'[t].seen.receipt \in 1 .. Len(intents')
              /\ intents'[tab'[t].seen.receipt] = tab'[t].asked
              /\ tab'[t].seen.text = tab'[t].asked.text,
           tab'[t].claims = "confirmed" => tab'[t].seen.receipt # 0
    PROVE  ScreensRemember' /\ ReportedConfirmationsAreReal'
<1>0. intents \in Seq(Intent) /\ Len(intents) \in Nat /\ Len(intents') \in Nat
  BY DEF RowInv
<1>1. \A q \in requests' : ~q.lost => tab'[q.tab].pc = "sent" /\ tab'[q.tab].asked = q.intent
  BY DEF ScreensRemember, RowInv, Sent
<1>2. ASSUME NEW u \in Tabs
      PROVE  /\ tab'[u].pc \in {"sent", "accepted", "unsure"} =>
                  tab'[u].claims = "nothing" /\ tab'[u].asked.source = tab'[u].seen.source
             /\ tab'[u].pc = "accepted" =>
                  tab'[u].receipt \in 1 .. Len(intents') /\ intents'[tab'[u].receipt] = tab'[u].asked
             /\ tab'[u].claims = "ours" => tab'[u].seen.receipt \in 1 .. Len(intents')
             /\ tab'[u].claims = "ours" =>
                  /\ intents'[tab'[u].seen.receipt] = tab'[u].asked
                  /\ tab'[u].seen.text = tab'[u].asked.text
             /\ tab'[u].claims = "confirmed" => tab'[u].seen.receipt # 0
  <2>1. CASE u = t
    BY <2>1
  <2>2. CASE u # t
    <3>1. tab'[u] = tab[u]
      BY <2>2
    <3> QED BY <1>0, <3>1 DEF ScreensRemember, ReportedConfirmationsAreReal
  <2> QED BY <2>1, <2>2
<1> QED BY <1>1, <1>2 DEF ScreensRemember, ReportedConfirmationsAreReal

LEMMA ScreensRest ==
    ASSUME RowInv, ScreensRemember, ReportedConfirmationsAreReal, tab' = tab,
           requests' \subseteq requests, intents' \in Seq(Intent), Len(intents) <= Len(intents'),
           \A i \in 1 .. Len(intents) : intents'[i] = intents[i]
    PROVE  ScreensRemember' /\ ReportedConfirmationsAreReal'
<1>0. intents \in Seq(Intent) /\ Len(intents) \in Nat /\ Len(intents') \in Nat
  BY DEF RowInv
<1> QED BY <1>0 DEF ScreensRemember, ReportedConfirmationsAreReal

\* A fresh screen claims nothing and waits for nothing.
LEMMA FreshFields ==
    ASSUME NEW seen \in Screen
    PROVE  /\ Fresh(seen).pc = "screen" /\ Fresh(seen).claims = "nothing"
           /\ Fresh(seen).seen = seen /\ Fresh(seen) \in Tab
BY FreshType DEF Fresh

\* A screen that no longer waits, and has lost its requests, claims nothing.
LEMMA QuietStep ==
    ASSUME RowInv, ScreensRemember, ReportedConfirmationsAreReal, NEW t \in Tabs,
           NEW screen \in Tab, tab' = [tab EXCEPT ![t] = screen], intents' = intents,
           screen.claims = "nothing",
           \/ screen.pc \in {"screen", "blocked", "conflict"}
           \/ screen.pc = "unsure" /\ screen.asked.source = screen.seen.source,
           \A q \in requests' : ~q.lost => q \in requests /\ q.tab # t
    PROVE  ScreensRemember' /\ ReportedConfirmationsAreReal' /\ tab' \in [Tabs -> Tab]
<1>1. tab' \in [Tabs -> Tab] /\ tab'[t] = screen /\ \A u \in Tabs \ {t} : tab'[u] = tab[u]
  BY DEF RowInv
<1>2. intents' \in Seq(Intent) /\ Len(intents) <= Len(intents')
  BY DEF RowInv
<1> QED BY <1>1, <1>2, ScreenStep

\* A screen that does not wait has no request the server could still answer.
LEMMA NothingPending ==
    ASSUME RowInv, ScreensRemember, NEW t \in Tabs, tab[t].pc # "sent"
    PROVE  \A q \in requests : ~q.lost => q.tab # t
BY DEF ScreensRemember

LEMMA ReloadStep ==
    ASSUME RowInv, ScreensRemember, ReportedConfirmationsAreReal, NEW t \in Tabs,
           Reload(t) \/ LearnNothing(t)
    PROVE  ScreensRemember' /\ ReportedConfirmationsAreReal' /\ tab' \in [Tabs -> Tab]
<1>1. tab[t] \in Tab /\ tab[t].seen \in Screen /\ Shown \in Screen
  BY ShownType DEF RowInv, Tab
<1>2. \A q \in requests : ~q.lost => q.tab # t
  BY NothingPending DEF Reload, LearnNothing
<1>3. CASE Reload(t)
  <2> DEFINE screen == Fresh(Shown)
  <2>1. screen \in Tab /\ screen.pc = "screen" /\ screen.claims = "nothing"
    BY <1>1, FreshFields
  <2>2. tab' = [tab EXCEPT ![t] = screen] /\ UNCHANGED <<intents, requests>>
    BY <1>3 DEF Reload
  <2> HIDE DEF screen
  <2> QED BY <1>2, <2>1, <2>2, QuietStep
<1>4. CASE LearnNothing(t)
  <2> DEFINE screen == [Fresh(tab[t].seen) EXCEPT !.pc = "blocked"]
  <2>0. Fresh(tab[t].seen) \in Tab /\ Fresh(tab[t].seen).claims = "nothing"
    BY <1>1, FreshFields
  <2>1. screen \in Tab /\ screen.pc = "blocked" /\ screen.claims = "nothing"
    BY <2>0 DEF Tab
  <2>2. tab' = [tab EXCEPT ![t] = screen] /\ UNCHANGED <<intents, requests>>
    BY <1>4 DEF LearnNothing
  <2> HIDE DEF screen
  <2> QED BY <1>2, <2>1, <2>2, QuietStep
<1> QED BY <1>3, <1>4

LEMMA AskStep ==
    ASSUME RowInv, ScreensRemember, ReportedConfirmationsAreReal, NEW t \in Tabs,
           NEW guidance \in Guidance, Ask(t, guidance)
    PROVE  /\ ScreensRemember' /\ ReportedConfirmationsAreReal' /\ tab' \in [Tabs -> Tab]
           /\ requests' \subseteq Sent
<1> DEFINE intent == [SilentIntent(tab[t].seen) EXCEPT !.guidance = guidance]
           screen == [tab[t] EXCEPT !.pc = "sent", !.asked = intent, !.claims = "nothing"]
           mine == [tab |-> t, intent |-> intent, lost |-> FALSE]
<1>1. tab[t] \in Tab /\ tab[t].seen \in Screen
  BY DEF RowInv, Tab
<1>2. intent \in Intent /\ intent.source = tab[t].seen.source
  BY <1>1, SilentType DEF SilentIntent
<1>3. tab[t].pc = "screen" /\ tab' = [tab EXCEPT ![t] = screen] /\ requests' = requests \union {mine}
      /\ intents' = intents
  BY DEF Ask
<1> HIDE DEF intent
<1>4. screen \in Tab /\ screen.pc = "sent" /\ screen.asked = intent /\ screen.claims = "nothing"
      /\ screen.seen = tab[t].seen
  BY <1>1, <1>2 DEF Tab
<1>5. mine \in Sent /\ mine.tab = t /\ mine.intent = intent
  BY <1>2 DEF Sent
<1> HIDE DEF screen, mine
<1>6. tab' \in [Tabs -> Tab] /\ tab'[t] = screen /\ \A u \in Tabs \ {t} : tab'[u] = tab[u]
  BY <1>3, <1>4 DEF RowInv
<1>7. intents' \in Seq(Intent) /\ Len(intents) <= Len(intents')
  BY <1>3 DEF RowInv
<1>8. \A q \in requests : ~q.lost => q.tab # t
  BY <1>3, NothingPending
<1>9. requests' \subseteq Sent
  BY <1>3, <1>5 DEF RowInv
<1> QED BY <1>2, <1>3, <1>4, <1>5, <1>6, <1>7, <1>8, <1>9, ScreenStep

LEMMA LoseStep ==
    ASSUME RowInv, ScreensRemember, ReportedConfirmationsAreReal, NEW t \in Tabs, LoseAnswer(t)
    PROVE  /\ ScreensRemember' /\ ReportedConfirmationsAreReal' /\ tab' \in [Tabs -> Tab]
           /\ requests' \subseteq Sent
<1> DEFINE mine == {q \in requests : q.tab = t /\ ~q.lost}
           screen == [tab[t] EXCEPT !.pc = "unsure", !.receipt = 0]
<1>1. tab[t] \in Tab /\ tab[t].pc \in {"sent", "accepted"} /\ 0 \in Ids
  BY Bounds DEF RowInv, LoseAnswer, Ids
<1>2. tab' = [tab EXCEPT ![t] = screen] /\ intents' = intents
      /\ requests' = (requests \ mine) \union {[q EXCEPT !.lost = TRUE] : q \in mine}
  BY DEF LoseAnswer
<1>3. /\ screen \in Tab /\ screen.pc = "unsure" /\ screen.claims = "nothing"
      /\ screen.asked.source = screen.seen.source
  BY <1>1 DEF Tab, ScreensRemember
<1>4. \A q \in mine : [q EXCEPT !.lost = TRUE] \in Sent /\ [q EXCEPT !.lost = TRUE].lost
  BY DEF RowInv, Sent
<1>5. requests' \subseteq Sent
  BY <1>2, <1>4 DEF RowInv
<1>6. \A q \in requests' : ~q.lost => q \in requests /\ q.tab # t
  BY <1>2, <1>4
<1> HIDE DEF screen, mine
<1> QED BY <1>2, <1>3, <1>5, <1>6, QuietStep

\* What a read letter leads to: a conflict, or a claim about what is shown.
LEMMA AdoptStep ==
    ASSUME RowInv, ReceiptsAreShown, ScreensRemember, ReportedConfirmationsAreReal,
           NEW t \in Tabs, tab[t].pc \in {"accepted", "unsure"},
           NEW claims \in {"nothing", "confirmed", "ours"}, Adopted(t, claims),
           UNCHANGED <<intents, requests>>,
           claims = "confirmed" =>
              record.receipt # 0 \/ record.source # tab[t].seen.source,
           claims = "ours" => tab[t].pc = "accepted" /\ record.receipt = tab[t].receipt
    PROVE  ScreensRemember' /\ ReportedConfirmationsAreReal' /\ tab' \in [Tabs -> Tab]
<1>1. tab[t] \in Tab /\ tab[t].seen \in Screen /\ tab[t].asked \in Intent /\ Shown \in Screen
  BY ShownType DEF RowInv, Tab
<1>2. \A q \in requests : ~q.lost => q.tab # t
  BY NothingPending
<1>3. CASE record.source # tab[t].seen.source
  <2> DEFINE screen == [Fresh(tab[t].seen) EXCEPT !.pc = "conflict"]
  <2>0. Fresh(tab[t].seen) \in Tab /\ Fresh(tab[t].seen).claims = "nothing"
    BY <1>1, FreshFields
  <2>1. screen \in Tab /\ screen.pc = "conflict" /\ screen.claims = "nothing"
    BY <2>0 DEF Tab
  <2>2. tab' = [tab EXCEPT ![t] = screen]
    BY <1>3 DEF Adopted
  <2> HIDE DEF screen
  <2> QED BY <1>2, <2>1, <2>2, QuietStep
<1>4. CASE record.source = tab[t].seen.source
  <2> DEFINE fresh == Fresh(Shown)
             screen == [fresh EXCEPT !.claims = claims, !.asked = tab[t].asked]
  <2>1. fresh \in Tab /\ fresh.pc = "screen" /\ fresh.seen = Shown
    BY <1>1, FreshFields
  <2>2. tab' = [tab EXCEPT ![t] = screen]
    BY <1>4 DEF Adopted
  <2> HIDE DEF fresh
  <2>3. /\ screen \in Tab /\ screen.pc = "screen" /\ screen.claims = claims
        /\ screen.asked = tab[t].asked /\ screen.seen = Shown
    BY <1>1, <2>1 DEF Tab
  <2> HIDE DEF screen
  <2>4. tab' \in [Tabs -> Tab] /\ tab'[t] = screen /\ \A u \in Tabs \ {t} : tab'[u] = tab[u]
    BY <2>2, <2>3 DEF RowInv
  <2>5. Shown.receipt = record.receipt /\ Shown.text = record.input.text
    BY DEF Shown
  <2>6. ASSUME claims = "ours"
        PROVE  /\ record.receipt \in 1 .. Len(intents)
               /\ intents[record.receipt] = tab[t].asked
               /\ record.input.text = tab[t].asked.text
    <3>1. record.receipt \in 1 .. Len(intents) /\ intents[record.receipt] = tab[t].asked
      BY <2>6 DEF ScreensRemember
    <3> QED BY <3>1 DEF ReceiptsAreShown, StillShown
  <2>7. intents' \in Seq(Intent) /\ Len(intents) <= Len(intents') /\ intents' = intents
    BY DEF RowInv
  <2>8. claims = "confirmed" => record.receipt # 0
    BY <1>4
  <2> QED BY <1>2, <2>3, <2>4, <2>5, <2>6, <2>7, <2>8, ScreenStep
<1> QED BY <1>3, <1>4

LEMMA LearnStep ==
    ASSUME RowInv, ReceiptsAreShown, ScreensRemember, ReportedConfirmationsAreReal,
           NEW t \in Tabs, LearnAccepted(t) \/ LearnUnsure(t)
    PROVE  ScreensRemember' /\ ReportedConfirmationsAreReal' /\ tab' \in [Tabs -> Tab]
<1>1. CASE LearnAccepted(t)
  <2> DEFINE claims == IF Describes(t) THEN "ours"
                       ELSE IF record.receipt # 0 THEN "confirmed" ELSE "nothing"
  <2>1. tab[t].pc = "accepted" /\ Adopted(t, claims) /\ UNCHANGED <<intents, requests>>
    BY <1>1 DEF LearnAccepted
  <2>2. /\ claims \in {"nothing", "confirmed", "ours"}
        /\ claims = "confirmed" => record.receipt # 0
        /\ claims = "ours" => record.receipt = tab[t].receipt
    BY DEF Describes
  <2> HIDE DEF claims
  <2> QED BY <2>1, <2>2, AdoptStep
<1>2. CASE LearnUnsure(t)
  <2>0. tab[t].pc = "unsure" /\ tab[t].asked.source = tab[t].seen.source
        /\ UNCHANGED <<intents, requests>>
    BY <1>2 DEF LearnUnsure, ScreensRemember
  <2>1. CASE record.source = tab[t].asked.source /\ record.receipt = 0
    <3> DEFINE screen == Fresh(tab[t].seen)
    <3>1. screen \in Tab /\ screen.pc = "screen" /\ screen.claims = "nothing"
      BY FreshFields DEF RowInv, Tab
    <3>2. tab' = [tab EXCEPT ![t] = screen]
      BY <1>2, <2>1 DEF LearnUnsure
    <3>3. \A q \in requests : ~q.lost => q.tab # t
      BY <2>0, NothingPending
    <3> HIDE DEF screen
    <3> QED BY <2>0, <3>1, <3>2, <3>3, QuietStep
  <2>2. CASE ~(record.source = tab[t].asked.source /\ record.receipt = 0)
    <3>1. Adopted(t, "confirmed")
      BY <1>2, <2>2 DEF LearnUnsure
    <3> QED BY <2>0, <2>2, <3>1, AdoptStep
  <2> QED BY <2>1, <2>2
<1> QED BY <1>1, <1>2

\* A receipt reaches the screen that waits for it; nobody waits for a lost answer.
LEMMA AcceptedStep ==
    ASSUME RowInv, ScreensRemember, ReportedConfirmationsAreReal, NEW q \in requests,
           NEW id \in Ids, Accepted(q, id), requests' = requests \ {q},
           intents' \in Seq(Intent), Len(intents) <= Len(intents'),
           \A i \in 1 .. Len(intents) : intents'[i] = intents[i],
           id \in 1 .. Len(intents'), intents'[id] = q.intent
    PROVE  ScreensRemember' /\ ReportedConfirmationsAreReal' /\ tab' \in [Tabs -> Tab]
<1>1. CASE q.lost
  <2>1. tab' = tab
    BY <1>1 DEF Accepted, Answered
  <2> QED BY <2>1, ScreensRest DEF RowInv
<1>2. CASE ~q.lost
  <2> DEFINE t == q.tab
             screen == [tab[t] EXCEPT !.pc = "accepted", !.receipt = id]
  <2>1. /\ t \in Tabs /\ tab[t].pc = "sent" /\ tab[t].asked = q.intent
        /\ \A other \in requests \ {q} : ~other.lost => other.tab # t
    BY <1>2, Addressed
  <2>2. tab' = [tab EXCEPT ![t] = screen]
    BY <1>2 DEF Accepted, Answered
  <2> HIDE DEF t
  <2>3. tab[t] \in Tab /\ tab[t].claims = "nothing" /\ tab[t].asked.source = tab[t].seen.source
    BY <2>1 DEF RowInv, ScreensRemember
  <2>4. /\ screen \in Tab /\ screen.pc = "accepted" /\ screen.receipt = id
        /\ screen.claims = "nothing" /\ screen.asked = tab[t].asked /\ screen.seen = tab[t].seen
    BY <2>3 DEF Tab
  <2> HIDE DEF screen
  <2>5. tab' \in [Tabs -> Tab] /\ tab'[t] = screen /\ \A u \in Tabs \ {t} : tab'[u] = tab[u]
    BY <2>1, <2>2, <2>4 DEF RowInv
  <2>6. \A other \in requests' : ~other.lost => other \in requests /\ other.tab # t
    BY <2>1
  <2> QED BY <2>1, <2>3, <2>4, <2>5, <2>6, ScreenStep
<1> QED BY <1>1, <1>2

LEMMA RefuseStep ==
    ASSUME RowInv, ScreensRemember, ReportedConfirmationsAreReal, NEW q \in requests, Refuse(q)
    PROVE  ScreensRemember' /\ ReportedConfirmationsAreReal' /\ tab' \in [Tabs -> Tab]
<1> DEFINE t == q.tab
           fresh == Fresh(tab[t].seen)
           pc == IF q.intent.source # record.source THEN "conflict" ELSE fresh.pc
           screen == [fresh EXCEPT !.pc = pc]
<1>1. CASE q.lost
  <2>1. tab' = tab /\ UNCHANGED intents
    BY <1>1 DEF Refuse, Answered
  <2> QED BY <2>1, ScreensRest DEF RowInv, Refuse
<1>2. CASE ~q.lost
  <2>1. t \in Tabs /\ \A other \in requests \ {q} : ~other.lost => other.tab # t
    BY <1>2, Addressed
  <2>2. tab' = [tab EXCEPT ![t] = screen] /\ intents' = intents /\ requests' = requests \ {q}
    BY <1>2 DEF Refuse, Answered
  <2>3. fresh \in Tab /\ fresh.pc = "screen" /\ fresh.claims = "nothing"
    BY <2>1, FreshFields DEF RowInv, Tab
  <2>4. pc \in {"screen", "conflict"}
    BY <2>3
  <2> HIDE DEF fresh, pc, t
  <2>5. screen \in Tab /\ screen.pc \in {"screen", "conflict"} /\ screen.claims = "nothing"
    BY <2>3, <2>4 DEF Tab
  <2> HIDE DEF screen
  <2>6. \A other \in requests' : ~other.lost => other \in requests /\ other.tab # t
    BY <2>1, <2>2
  <2> QED BY <2>1, <2>2, <2>5, <2>6, QuietStep
<1> QED BY <1>1, <1>2

LEMMA ReplayStep ==
    ASSUME RowInv, ReceiptsAreShown, ScreensRemember, ReportedConfirmationsAreReal,
           NEW q \in requests, Replay(q)
    PROVE  ScreensRemember' /\ ReportedConfirmationsAreReal' /\ tab' \in [Tabs -> Tab]
<1>1. /\ record.receipt \in Ids /\ record.receipt \in 1 .. Len(intents)
      /\ intents[record.receipt] = q.intent
  BY Bounds DEF Replay, Replays, SameIntent, ReceiptsAreShown, RowInv, Letter, Ids
<1> QED BY <1>1, AcceptedStep DEF Replay, RowInv

LEMMA ConfirmStep ==
    ASSUME RowInv, RowGuidance, ScreensRemember, ReportedConfirmationsAreReal,
           NEW q \in requests, Confirm(q)
    PROVE  /\ RowInv' /\ RowGuidance' /\ record'.metadata = "PENDING"
           /\ ScreensRemember' /\ ReportedConfirmationsAreReal'
<1> DEFINE id == Len(intents) + 1
           e == [id |-> id, input |-> record.input, guidance |-> q.intent.guidance]
<1>0. /\ q \in Sent /\ q.intent \in Intent /\ record \in Letter
      /\ intents \in Seq(Intent) /\ Len(intents) \in Nat
  BY DEF RowInv, Sent
<1>1. /\ intents' = Append(intents, q.intent) /\ requests' = requests \ {q}
      /\ record' = [record EXCEPT !.receipt = id, !.metadata = "PENDING", !.bound = FALSE,
                                  !.envelope = {e}]
      /\ Accepted(q, id) /\ UNCHANGED <<attempt, happened>>
      /\ StillShown(q.intent) /\ Len(intents) < MaxConfirmations
  BY DEF Confirm, Accepts
<1>2. /\ intents' \in Seq(Intent) /\ Len(intents') = id /\ intents'[id] = q.intent
      /\ \A i \in 1 .. Len(intents) : intents'[i] = intents[i]
      /\ id \in Ids /\ id # 0 /\ id \in 1 .. id /\ id <= MaxConfirmations
  BY <1>0, <1>1, Bounds DEF Ids
<1>3. e \in Envelope
  BY <1>0, <1>2 DEF Envelope, Letter, Intent
<1>4. e.id = id /\ e.guidance = q.intent.guidance /\ e.input = record.input
  OBVIOUS
<1>s. ScreensRemember' /\ ReportedConfirmationsAreReal' /\ tab' \in [Tabs -> Tab]
  BY <1>0, <1>1, <1>2, AcceptedStep
<1> HIDE DEF id, e
<1>5. record' \in Letter
  BY <1>0, <1>1, <1>2, <1>3 DEF Letter, Jobs
<1>6. /\ record'.source = record.source /\ record'.input = record.input /\ record'.receipt = id
      /\ record'.envelope = {e} /\ record'.metadata = "PENDING" /\ ~record'.bound
  BY <1>0, <1>1 DEF Letter
<1>7. RowInv'
  BY <1>1, <1>2, <1>3, <1>4, <1>5, <1>6, <1>s
     DEF RowInv, OneEnvelope, GuidanceFits, ChangesAreCounted
<1>8. ReceiptsAreShown'
  BY <1>1, <1>2, <1>6 DEF ReceiptsAreShown, StillShown
<1>9. EnvelopesAreCurrent' /\ AttemptsAreGuided'
  BY <1>1, <1>2, <1>4, <1>6 DEF RowGuidance, EnvelopesAreCurrent, AttemptsAreGuided
<1> QED BY <1>6, <1>7, <1>8, <1>9, <1>s DEF RowGuidance

-----------------------------------------------------------------------------
(* The inductive invariant.                                                  *)
ConfirmationInv ==
    RowInv /\ RowGuidance /\ GuidanceIsHonoured /\ ScreensRemember /\ ReportedConfirmationsAreReal

\* A step that leaves the row and the intents alone keeps what is said of them.
LEMMA RowRests ==
    ASSUME ConfirmationInv, UNCHANGED <<record, intents, attempt>>,
           happened' \in [changes : 0 .. MaxChanges, retries : 0 .. MaxRetries,
                          runs : 0 .. MaxRuns, unsure : 0 .. MaxUnsure],
           happened'.changes = happened.changes, happened'.retries = happened.retries,
           tab' \in [Tabs -> Tab], requests' \subseteq Sent,
           ScreensRemember', ReportedConfirmationsAreReal'
    PROVE  ConfirmationInv'
<1>1. RowInv'
  BY DEF ConfirmationInv, RowInv, OneEnvelope, ChangesAreCounted
<1>2. RowGuidance'
  BY DEF ConfirmationInv, RowGuidance, ReceiptsAreShown, StillShown, EnvelopesAreCurrent,
         AttemptsAreGuided
<1>3. GuidanceIsHonoured'
  BY DEF ConfirmationInv, GuidanceIsHonoured
<1> QED BY <1>1, <1>2, <1>3 DEF ConfirmationInv

\* A step of the row alone keeps the screens.
LEMMA ScreensWait ==
    ASSUME ConfirmationInv, RowInv', RowGuidance', GuidanceIsHonoured',
           UNCHANGED <<intents, tab, requests>>
    PROVE  ConfirmationInv'
BY ScreensRest DEF ConfirmationInv, RowInv

LEMMA ConfirmationInductive ==
    ASSUME ConfirmationInv, [ConfirmationNext]_confirmationVars
    PROVE  ConfirmationInv'
<1>0. /\ RowInv /\ RowGuidance /\ ReceiptsAreShown /\ GuidanceIsHonoured /\ ScreensRemember
      /\ ReportedConfirmationsAreReal
      /\ happened \in [changes : 0 .. MaxChanges, retries : 0 .. MaxRetries,
                        runs : 0 .. MaxRuns, unsure : 0 .. MaxUnsure]
      /\ requests \subseteq Sent
  BY DEF ConfirmationInv, RowInv, RowGuidance
<1>1. ASSUME NEW q \in requests, Confirm(q) PROVE ConfirmationInv'
  BY <1>0, <1>1, ConfirmStep DEF ConfirmationInv, GuidanceIsHonoured
<1>2. ASSUME NEW q \in requests, Replay(q) PROVE ConfirmationInv'
  <2>1. UNCHANGED <<record, intents, attempt, happened>> /\ requests' \subseteq Sent
    BY <1>0, <1>2 DEF Replay
  <2> QED BY <1>0, <1>2, <2>1, ReplayStep, RowRests
<1>3. ASSUME NEW q \in requests, Refuse(q) PROVE ConfirmationInv'
  <2>1. UNCHANGED <<record, intents, attempt, happened>> /\ requests' \subseteq Sent
    BY <1>0, <1>3 DEF Refuse
  <2> QED BY <1>0, <1>3, <2>1, RefuseStep, RowRests
<1>4. ASSUME NEW text \in Wordings, EditTranscript(text) PROVE ConfirmationInv'
  <2>1. record'.metadata # "SUCCESS" /\ UNCHANGED <<intents, tab, requests>>
    BY <1>0, <1>4, UnconfirmedRow DEF EditTranscript, RowInv, Letter
  <2> QED BY <1>0, <1>4, <2>1, EditStep, ScreensWait DEF GuidanceIsHonoured
<1>5. ASSUME NEW text \in Wordings, Transcribe(text) PROVE ConfirmationInv'
  <2>1. record'.metadata # "SUCCESS" /\ UNCHANGED <<intents, tab, requests>>
    BY <1>0, <1>5, UnconfirmedRow DEF Transcribe, RowInv, Letter
  <2> QED BY <1>0, <1>5, <2>1, TranscribeStep, ScreensWait DEF GuidanceIsHonoured
<1>6. ASSUME ReplacePages PROVE ConfirmationInv'
  <2>1. record'.metadata # "SUCCESS" /\ UNCHANGED <<intents, tab, requests>>
    BY <1>0, <1>6, UnconfirmedRow DEF ReplacePages, RowInv, Letter
  <2> QED BY <1>0, <1>6, <2>1, ReplaceStep, ScreensWait DEF GuidanceIsHonoured
<1>7. ASSUME ChangeSupplement PROVE ConfirmationInv'
  <2>1. record'.metadata # "SUCCESS" /\ UNCHANGED <<intents, tab, requests>>
    BY <1>0, <1>7, InvalidatedRow DEF ChangeSupplement, RowInv, Letter
  <2> QED BY <1>0, <1>7, <2>1, SupplementStep, ScreensWait DEF GuidanceIsHonoured
<1>8. ASSUME RetryExtraContent \/ FailExtraContent PROVE ConfirmationInv'
  <2>1. /\ happened'.retries # 0 /\ UNCHANGED <<intents, tab, requests>>
        /\ record'.metadata = record.metadata /\ record'.used = record.used
        /\ record'.receipt = record.receipt
    <3>1. CASE RetryExtraContent
      BY <1>0, <3>1, SpendType, Bounds DEF RetryExtraContent, RowInv, Letter
    <3>2. CASE FailExtraContent
      BY <1>0, <3>2 DEF FailExtraContent, RowInv, Letter, RowGuidance, EnvelopesAreCurrent
    <3> QED BY <1>8, <3>1, <3>2
  <2>2. GuidanceIsHonoured'
    BY <1>0, <2>1 DEF GuidanceIsHonoured
  <2> QED BY <1>0, <1>8, <2>1, <2>2, OtherJobStep, ScreensWait
<1>9. ASSUME NEW requested \in BOOLEAN, Claim(requested) PROVE ConfirmationInv'
  <2>1. record'.metadata # "SUCCESS" /\ UNCHANGED <<intents, tab, requests>>
    BY <1>0, <1>9 DEF Claim, RowInv, Letter
  <2> QED BY <1>0, <1>9, <2>1, ClaimStep, ScreensWait DEF GuidanceIsHonoured
<1>10. ASSUME Load PROVE ConfirmationInv'
  <2>1. record'.metadata # "SUCCESS" /\ UNCHANGED <<intents, tab, requests>>
    BY <1>10 DEF Load
  <2> QED BY <1>0, <1>10, <2>1, LoadStep, ScreensWait DEF GuidanceIsHonoured
<1>11. ASSUME Complete PROVE ConfirmationInv'
  BY <1>0, <1>11, CompleteStep, ScreensWait DEF Complete
<1>12. ASSUME (\E status \in {"FAILED", "PENDING"} : Break(status)) \/ Requeue \/ DropGuidance
       PROVE  ConfirmationInv'
  <2>1. UNCHANGED <<intents, tab, requests>>
    BY <1>12 DEF Break, Requeue, DropGuidance
  <2> QED BY <1>0, <1>12, <2>1, PauseStep, ScreensWait
<1>13. ASSUME NEW t \in Tabs, Reload(t) \/ LearnNothing(t) PROVE ConfirmationInv'
  <2>1. UNCHANGED <<record, intents, attempt, requests, happened>>
    BY <1>13 DEF Reload, LearnNothing
  <2> QED BY <1>0, <1>13, <2>1, ReloadStep, RowRests
<1>14. ASSUME NEW t \in Tabs, LoseAnswer(t) PROVE ConfirmationInv'
  <2>1. /\ happened' \in [changes : 0 .. MaxChanges, retries : 0 .. MaxRetries,
                           runs : 0 .. MaxRuns, unsure : 0 .. MaxUnsure]
        /\ happened'.changes = happened.changes /\ happened'.retries = happened.retries
        /\ UNCHANGED <<record, intents, attempt>>
    BY <1>0, <1>14, SpendType, Bounds DEF LoseAnswer
  <2> QED BY <1>0, <1>14, <2>1, LoseStep, RowRests
<1>15. ASSUME NEW t \in Tabs, LearnAccepted(t) \/ LearnUnsure(t) PROVE ConfirmationInv'
  <2>1. UNCHANGED <<record, intents, attempt, requests, happened>>
    BY <1>15 DEF LearnAccepted, LearnUnsure
  <2> QED BY <1>0, <1>15, <2>1, LearnStep, RowRests
<1>16. ASSUME NEW t \in Tabs, NEW guidance \in Guidance, Ask(t, guidance) PROVE ConfirmationInv'
  <2>1. UNCHANGED <<record, intents, attempt, happened>>
    BY <1>16 DEF Ask
  <2> QED BY <1>0, <1>16, <2>1, AskStep, RowRests
<1>17. ASSUME UNCHANGED confirmationVars PROVE ConfirmationInv'
  <2>1. UNCHANGED <<record, intents, attempt, tab, requests, happened>>
    BY <1>17 DEF confirmationVars
  <2>2. ScreensRemember' /\ ReportedConfirmationsAreReal'
    BY <1>0, <2>1 DEF ScreensRemember, ReportedConfirmationsAreReal
  <2> QED BY <1>0, <2>1, <2>2, RowRests DEF RowInv
<1> QED BY <1>1, <1>2, <1>3, <1>4, <1>5, <1>6, <1>7, <1>8, <1>9, <1>10, <1>11, <1>12, <1>13,
           <1>14, <1>15, <1>16, <1>17 DEF ConfirmationNext

LEMMA ConfirmationStarts == ConfirmationInit => ConfirmationInv
<1> SUFFICES ASSUME ConfirmationInit PROVE ConfirmationInv
  OBVIOUS
<1>1. record.metadata = "PENDING" /\ \A t \in Tabs : tab[t].claims = "nothing"
  BY DEF ConfirmationInit, Fresh
<1> QED BY <1>1, InitRow DEF ConfirmationInv, RowGuidance, GuidanceIsHonoured,
                          ReportedConfirmationsAreReal

(* A receipt means the letter still shows what was confirmed, the envelope    *)
(* holds its names, and waiting screens remember what they asked for.         *)
THEOREM ConfirmationInvariant == ConfirmationSpec => []ConfirmationInv
BY ConfirmationStarts, ConfirmationInductive, PTL DEF ConfirmationSpec

(* Every variable keeps its type, and the row satisfies the database's       *)
(* checks on its guidance.                                                   *)
THEOREM ConfirmationTyped == ConfirmationSpec => []ConfirmationTypeOK
BY RowInvGivesTypes, ConfirmationInvariant, PTL DEF ConfirmationInv

(* Published metadata was made with the names of the stored confirmation.    *)
THEOREM ConfirmedNamesAreUsed == ConfirmationSpec => []GuidanceIsHonoured
BY ConfirmationInvariant, PTL DEF ConfirmationInv

(* A screen that reports success shows the confirmation its reviewer asked   *)
(* for, whatever was lost, repeated or overtaken.                            *)
THEOREM ReportsAreReal == ConfirmationSpec => []ReportedConfirmationsAreReal
BY ConfirmationInvariant, PTL DEF ConfirmationInv

=============================================================================
