------------------------ MODULE TranscriptConfirmation ------------------------
(***************************************************************************)
(* Confirming the transcript of one letter: reviewers send an intent (the  *)
(* source and transcript they saw, the names they vouch for), the server   *)
(* stores one receipt or replays it, and queues metadata work that is to   *)
(* use those names.  Answers are lost, requests outlive their callers, the *)
(* letter changes meanwhile, attempts fail and are retried.                *)
(***************************************************************************)
EXTENDS Integers, FiniteSets, Sequences

CONSTANTS
    Tabs,       \* reviewers' screens
    Wordings,   \* transcripts
    Guidances,  \* names a reviewer may vouch for
    NoGuidance, \* no names
    MaxConfirmations, \* bound on the confirmations stored
    MaxChanges, \* bound on the changes of transcript, pages and extra content
    MaxRetries, \* bound on the retries of a failed extra-content job
    MaxRuns,    \* bound on the metadata attempts
    MaxUnsure   \* bound on the requests whose answer is lost

ASSUME ConfirmationAssumption ==
    /\ NoGuidance \notin Guidances
    /\ {MaxConfirmations, MaxChanges, MaxRetries, MaxRuns, MaxUnsure} \subseteq Nat

VARIABLES
    record,   \* the columns of the letter a confirmation reads and writes
    intents,  \* the intent behind every confirmation; its index is the id
    attempt,  \* whether the current metadata attempt loaded its input, and its guidance
    tab,      \* what each reviewer's screen shows and waits for
    requests, \* confirmations the server has not executed
    happened  \* how often each bounded thing happened

confirmationVars == <<record, intents, attempt, tab, requests, happened>>

Guidance == Guidances \union {NoGuidance}
Jobs     == {"PENDING", "RUNNING", "SUCCESS", "FAILED"}
Ids      == 0 .. MaxConfirmations
Intent   == [source : 0 .. MaxChanges, text : Wordings, guidance : Guidance]

\* What metadata is extracted from, as its identity sees it: version is that of
\* the supplementary transcript, job the status of the job that writes it.
Input    == [text : Wordings, version : 0 .. MaxChanges, job : Jobs \ {"RUNNING"}]
Envelope == [id : Ids, input : Input, guidance : Guidance]
Letter   == [source : 0 .. MaxChanges, input : Input, transcribed : BOOLEAN, receipt : Ids,
             envelope : SUBSET Envelope, metadata : Jobs, bound : BOOLEAN, used : Guidance]
Screen   == [source : 0 .. MaxChanges, text : Wordings, receipt : Ids, open : BOOLEAN]

\* metadata_confirmation_guidance_shape and metadata_guidance_running_bound_to_run.
GuidanceFits(row) ==
    /\ \A envelope \in row.envelope : row.receipt # 0 /\ envelope.id = row.receipt
    /\ row.bound => row.envelope # {}
    /\ row.envelope # {} /\ row.metadata = "RUNNING" => row.bound

(* The type of every variable; the row satisfies the CHECKs on its guidance. *)
ConfirmationTypeOK ==
    /\ record \in Letter /\ Cardinality(record.envelope) <= 1 /\ GuidanceFits(record)
    /\ intents \in Seq(Intent) /\ Len(intents) <= MaxConfirmations
    /\ attempt \in [loaded : BOOLEAN, guidance : Guidance]
    /\ tab \in [Tabs ->
         [pc : {"screen", "sent", "accepted", "unsure", "blocked", "conflict"}, seen : Screen,
          asked : Intent, receipt : Ids, claims : {"nothing", "confirmed", "ours"}]]
    /\ requests \subseteq [tab : Tabs, intent : Intent, lost : BOOLEAN]
    /\ happened \in [changes : 0 .. MaxChanges, retries : 0 .. MaxRetries, runs : 0 .. MaxRuns,
                     unsure : 0 .. MaxUnsure]

\* The confirm button is offered.  Metadata that ended in SUCCESS moved the
\* workflow on, so a letter without a receipt always queues its metadata.
Confirmable == record.transcribed /\ record.metadata # "RUNNING" /\ record.metadata # "SUCCESS"

Shown == [source |-> record.source, text |-> record.input.text, receipt |-> record.receipt,
          open |-> Confirmable /\ record.receipt = 0]

SilentIntent(seen) == [source |-> seen.source, text |-> seen.text, guidance |-> NoGuidance]
NoAttempt == [loaded |-> FALSE, guidance |-> NoGuidance]

Fresh(seen) == [pc |-> "screen", seen |-> seen, asked |-> SilentIntent(seen), receipt |-> 0,
                claims |-> "nothing"]

ConfirmationInit ==
    /\ \E text \in Wordings, job \in {"SUCCESS", "FAILED"} :
         record = [source |-> 0, input |-> [text |-> text, version |-> 0, job |-> job],
                   transcribed |-> TRUE, receipt |-> 0, envelope |-> {}, metadata |-> "PENDING",
                   bound |-> FALSE, used |-> NoGuidance]
    /\ intents = <<>> /\ attempt = NoAttempt
    /\ tab = [t \in Tabs |-> Fresh(Shown)] /\ requests = {}
    /\ happened = [changes |-> 0, retries |-> 0, runs |-> 0, unsure |-> 0]

Spend(event, bound) ==
    /\ happened[event] < bound
    /\ happened' = [happened EXCEPT ![event] = @ + 1]

-----------------------------------------------------------------------------
(* The server. *)

\* Mutant: the reviewer's names are not part of the intent.
AnyNames(stored, asked) == stored.source = asked.source /\ stored.text = asked.text

SameIntent(stored, asked) == stored = asked

StillShown(asked) == asked.source = record.source /\ asked.text = record.input.text

\* Each request is one transaction, which writes, replays the receipt or refuses.
Accepts(asked) ==
    /\ StillShown(asked) /\ record.receipt = 0 /\ Confirmable
    /\ record.input.job # "PENDING"
Replays(asked) ==
    StillShown(asked) /\ record.receipt # 0 /\ SameIntent(intents[record.receipt], asked)

\* The answer is on its way unless nobody waits for it.
Answered(request, screen) ==
    tab' = IF request.lost THEN tab ELSE [tab EXCEPT ![request.tab] = screen]

Accepted(request, id) ==
    Answered(request, [tab[request.tab] EXCEPT !.pc = "accepted", !.receipt = id])

Confirm(request) ==
    /\ request \in requests /\ requests' = requests \ {request}
    /\ Accepts(request.intent) /\ Len(intents) < MaxConfirmations
    /\ LET id == Len(intents) + 1 IN
       /\ intents' = Append(intents, request.intent)
       /\ record' = [record EXCEPT !.receipt = id, !.metadata = "PENDING", !.bound = FALSE,
                       !.envelope = {[id |-> id, input |-> record.input,
                                      guidance |-> request.intent.guidance]}]
       /\ Accepted(request, id)
    /\ UNCHANGED <<attempt, happened>>

Replay(request) ==
    /\ request \in requests /\ requests' = requests \ {request}
    /\ Replays(request.intent)
    /\ Accepted(request, record.receipt)
    /\ UNCHANGED <<record, intents, attempt, happened>>

\* A changed source freezes the screen; any other refusal leaves it as it was.
Refuse(request) ==
    /\ request \in requests /\ requests' = requests \ {request}
    /\ ~Accepts(request.intent) /\ ~Replays(request.intent)
    /\ Answered(request, [Fresh(tab[request.tab].seen) EXCEPT
                            !.pc = IF request.intent.source # record.source THEN "conflict" ELSE @])
    /\ UNCHANGED <<record, intents, attempt, happened>>

\* Mutant: an invalidation leaves the guidance of the confirmation behind.
GuidanceLeft(row) ==
    [row EXCEPT !.metadata = "PENDING", !.bound = FALSE, !.used = NoGuidance]

\* buildMetadataSourceInvalidationPatch.
Invalidated(row) ==
    [row EXCEPT !.metadata = "PENDING", !.envelope = {}, !.bound = FALSE, !.used = NoGuidance]

Unconfirmed(row) == [Invalidated(row) EXCEPT !.receipt = 0]

EditTranscript(text) ==
    /\ record.transcribed /\ text # record.input.text /\ Spend("changes", MaxChanges)
    /\ record' = [Unconfirmed(record) EXCEPT !.input.text = text]
    /\ attempt' = NoAttempt /\ UNCHANGED <<intents, tab, requests>>

ReplacePages ==
    /\ Spend("changes", MaxChanges)
    /\ record' = [Unconfirmed(record) EXCEPT !.source = @ + 1, !.transcribed = FALSE]
    /\ attempt' = NoAttempt /\ UNCHANGED <<intents, tab, requests>>

Transcribe(text) ==
    /\ ~record.transcribed
    /\ record' = [Unconfirmed(record) EXCEPT !.input.text = text, !.transcribed = TRUE]
    /\ UNCHANGED <<intents, attempt, tab, requests, happened>>

\* The extra-content job ends or a reviewer edits or verifies its transcript.
ChangeSupplement ==
    /\ Spend("changes", MaxChanges)
    /\ record' = [Invalidated(record) EXCEPT !.input.version = @ + 1, !.input.job = "SUCCESS"]
    /\ attempt' = NoAttempt /\ UNCHANGED <<intents, tab, requests>>

\* An administrator queues the failed job again; or it fails again.
RetryExtraContent ==
    /\ record.input.job = "FAILED" /\ record.metadata # "RUNNING"
    /\ Spend("retries", MaxRetries)
    /\ record' = [record EXCEPT !.input.job = "PENDING"]
    /\ UNCHANGED <<intents, attempt, tab, requests>>

FailExtraContent ==
    /\ record.input.job = "PENDING" /\ record.metadata # "RUNNING"
    /\ record' = [record EXCEPT !.input.job = "FAILED"]
    /\ UNCHANGED <<intents, attempt, tab, requests, happened>>

-----------------------------------------------------------------------------
(* Metadata attempts.  Their leases and fences are in LetterProcessing. *)

\* Mutant: a requested attempt leaves the guidance in place, without being bound to it.
GuidanceAtHand(requested) == record.envelope

GuidanceFor(requested) == IF requested THEN {} ELSE record.envelope

Claim(requested) ==
    /\ record.receipt # 0 /\ record.transcribed
    /\ IF requested THEN record.metadata # "RUNNING" ELSE record.metadata = "PENDING"
    /\ Spend("runs", MaxRuns)
    /\ record' = [record EXCEPT !.metadata = "RUNNING", !.used = NoGuidance,
                    !.envelope = GuidanceFor(requested),
                    !.bound = ~requested /\ record.envelope # {}]
    /\ attempt' = NoAttempt
    /\ UNCHANGED <<intents, tab, requests>>

\* resolveMetadataConfirmationGuidance.
Resolved(envelope) ==
    IF /\ envelope.id = record.receipt
       /\ StillShown(intents[record.receipt])
       /\ envelope.input = record.input
    THEN envelope.guidance ELSE NoGuidance

Load ==
    /\ record.metadata = "RUNNING" /\ ~attempt.loaded
    /\ attempt' = [loaded |-> TRUE,
                   guidance |-> IF record.bound THEN Resolved(CHOOSE e \in record.envelope : TRUE)
                                ELSE NoGuidance]
    /\ UNCHANGED <<record, intents, tab, requests, happened>>

Complete ==
    /\ record.metadata = "RUNNING" /\ attempt.loaded
    /\ record' = [record EXCEPT !.metadata = "SUCCESS", !.bound = FALSE, !.used = attempt.guidance]
    /\ attempt' = NoAttempt
    /\ UNCHANGED <<intents, tab, requests, happened>>

\* The attempt fails or is cancelled, or its lease runs out.
Break(status) ==
    /\ record.metadata = "RUNNING" /\ status \in {"FAILED", "PENDING"}
    /\ record' = [record EXCEPT !.metadata = status, !.bound = FALSE]
    /\ attempt' = NoAttempt
    /\ UNCHANGED <<intents, tab, requests, happened>>

\* An administrator removes the queued job, or queues a failed one again.
Requeue ==
    /\ record.metadata \in {"PENDING", "FAILED"}
    /\ record' = [record EXCEPT !.metadata = IF @ = "PENDING" THEN "FAILED" ELSE "PENDING"]
    /\ UNCHANGED <<intents, attempt, tab, requests, happened>>

\* People edit the metadata, or entities are projected from it.
DropGuidance ==
    /\ record.envelope # {}
    /\ record' = [record EXCEPT !.envelope = {}, !.bound = FALSE,
                    !.metadata = IF @ = "RUNNING" THEN "PENDING" ELSE @]
    /\ attempt' = NoAttempt /\ UNCHANGED <<intents, tab, requests, happened>>

-----------------------------------------------------------------------------
(* The reviewers' screens. *)

Reload(t) ==
    /\ tab[t].pc \in {"screen", "blocked", "conflict"} /\ tab[t] # Fresh(Shown)
    /\ tab' = [tab EXCEPT ![t] = Fresh(Shown)]
    /\ UNCHANGED <<record, intents, attempt, requests, happened>>

Ask(t, guidance) ==
    LET intent == [SilentIntent(tab[t].seen) EXCEPT !.guidance = guidance] IN
    /\ tab[t].pc = "screen" /\ tab[t].seen.open
    /\ tab' = [tab EXCEPT ![t] = [@ EXCEPT !.pc = "sent", !.asked = intent, !.claims = "nothing"]]
    /\ requests' = requests \union {[tab |-> t, intent |-> intent, lost |-> FALSE]}
    /\ UNCHANGED <<record, intents, attempt, happened>>

\* A transport error, a timeout or a 5xx, before or after the commit.
LoseAnswer(t) ==
    LET mine == {q \in requests : q.tab = t /\ ~q.lost} IN
    /\ tab[t].pc \in {"sent", "accepted"}
    /\ Spend("unsure", MaxUnsure)
    /\ tab' = [tab EXCEPT ![t] = [@ EXCEPT !.pc = "unsure", !.receipt = 0]]
    /\ requests' = (requests \ mine) \union {[q EXCEPT !.lost = TRUE] : q \in mine}
    /\ UNCHANGED <<record, intents, attempt>>

\* tryAdoptLetter: another source freezes the screen.
Adopted(t, claims) ==
    tab' = [tab EXCEPT ![t] =
              IF record.source # tab[t].seen.source
              THEN [Fresh(tab[t].seen) EXCEPT !.pc = "conflict"]
              ELSE [Fresh(Shown) EXCEPT !.claims = claims, !.asked = tab[t].asked]]

\* acceptedReceiptOutcome.
Describes(t) == record.receipt = tab[t].receipt /\ record.source = tab[t].asked.source

\* The letter comes with the receipt, or from the read that follows it.
LearnAccepted(t) ==
    /\ tab[t].pc = "accepted"
    /\ Adopted(t, IF Describes(t) THEN "ours"
                  ELSE IF record.receipt # 0 THEN "confirmed" ELSE "nothing")
    /\ UNCHANGED <<record, intents, attempt, requests, happened>>

\* The read that decides an ambiguous failure.
LearnUnsure(t) ==
    /\ tab[t].pc = "unsure"
    /\ IF record.source = tab[t].asked.source /\ record.receipt = 0
       THEN tab' = [tab EXCEPT ![t] = Fresh(tab[t].seen)]
       ELSE Adopted(t, "confirmed")
    /\ UNCHANGED <<record, intents, attempt, requests, happened>>

\* The read fails as well: confirming again is blocked until a reload.
LearnNothing(t) ==
    /\ tab[t].pc \in {"accepted", "unsure"}
    /\ tab' = [tab EXCEPT ![t] = [Fresh(tab[t].seen) EXCEPT !.pc = "blocked"]]
    /\ UNCHANGED <<record, intents, attempt, requests, happened>>

-----------------------------------------------------------------------------
ConfirmationNext ==
    \/ \E request \in requests : Confirm(request) \/ Replay(request) \/ Refuse(request)
    \/ \E text \in Wordings : EditTranscript(text) \/ Transcribe(text)
    \/ ReplacePages \/ ChangeSupplement \/ RetryExtraContent \/ FailExtraContent
    \/ \E requested \in BOOLEAN : Claim(requested)
    \/ Load \/ Complete \/ Requeue \/ DropGuidance
    \/ \E status \in {"FAILED", "PENDING"} : Break(status)
    \/ \E t \in Tabs : Reload(t) \/ LoseAnswer(t)
    \/ \E t \in Tabs : LearnAccepted(t) \/ LearnUnsure(t) \/ LearnNothing(t)
    \/ \E t \in Tabs, guidance \in Guidance : Ask(t, guidance)

ConfirmationSpec == ConfirmationInit /\ [][ConfirmationNext]_confirmationVars

-----------------------------------------------------------------------------
(* Properties. *)

(* A screen that reports its confirmation shows a letter which holds the      *)
(* confirmation of exactly what this reviewer asked for, whoever else asked,  *)
(* whichever of the requests came first and whatever changed meanwhile.       *)
ReportedConfirmationsAreReal == \A t \in Tabs :
    /\ tab[t].claims = "ours" =>
         /\ intents[tab[t].seen.receipt] = tab[t].asked
         /\ tab[t].seen.text = tab[t].asked.text
    /\ tab[t].claims = "confirmed" => tab[t].seen.receipt # 0

(* Metadata published while the guidance of a confirmation is stored was made *)
(* with it, over failures, retries and expired leases of the metadata job;    *)
(* what was withdrawn with its transcript is never used.  Retries of another  *)
(* job are left to GuidanceOutlivesRetries.                                   *)
GuidanceIsHonoured ==
    record.metadata = "SUCCESS" =>
        /\ happened.retries = 0 => \A envelope \in record.envelope : record.used = envelope.guidance
        /\ record.used \in {NoGuidance, intents[record.receipt].guidance}

(* The same whatever is retried: the status of an attempt is no part of the   *)
(* input a confirmation was made for, as metadata-input-identity.ts:178 says. *)
GuidanceOutlivesRetries ==
    record.metadata = "SUCCESS" =>
        \A envelope \in record.envelope : record.used = envelope.guidance

=============================================================================
