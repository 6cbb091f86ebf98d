# Letter archive: formal models

TLA+ models of this repository: how a scanned letter is uploaded, transcribed, has
metadata and entities extracted from it and is edited, verified and published by
people while background attempts are running, how queued work gets a worker, and how
pages, entities, profiles and images stay consistent under concurrent requests.
Paths below are relative to `src/`; `be/` stands for `backend/src/`.

Contents: [the system](#the-system) · [modules](#modules) ·
[runs](#runs-and-bounds) · [disagreements found](#where-the-code-disagrees) ·
[proofs](#what-is-proved) · [abstractions](#abstractions) · [plan](#plan)

## The system

An Express API and a background worker (a Cloud Run job) share one PostgreSQL
database. Nothing else coordinates them: every protocol below is made of single
`UPDATE ... WHERE` statements, row locks inside short transactions, and leases
judged by the database's clock. AI calls take minutes and never run inside a
transaction, so every attempt and every editor writes from a row it read earlier.

| Component | State | Operations | Hard behaviour | What makes it correct |
|---|---|---|---|---|
| Transcription job `be/services/letter/transcription-job.ts`, `be/pipeline/transcription.ts`, `processor.ts` | `transcription*` columns, workflow, source revision | claim (automatic, requested), load, complete, fail, revoke itself, cancel, recover | pages replaced, lease passed or run cancelled during the AI call | only the live owner of unchanged pages publishes |
| Metadata job `metadata-job.ts`, `be/pipeline/metadataV2.ts` | `metadata*` columns, `metadataRevision`, `metadataRunRevision` | the same, and the patches that human edits, notes and source changes spread into their writes | a dozen writers end or invalidate a run | runs only over confirmed text; SUCCESS means derived from the current transcript |
| Entity job `entity-extraction-job.ts`, `be/services/entities/extraction.ts` | `entityExtraction*` columns | claim, load, materialise, fail, cancel, recover | metadata replaced before the commit | SUCCESS means projected from the current metadata |
| Extra-content job `extra-content-job.ts`, `extra-content.ts` | `extraContentJob*`, the dirty mark | claim, complete, requeue when superseded, cancel, recover | T/C/E pages change under a run that keeps its ownership | a superseded result is thrown away and the work is queued again |
| Eligibility `be/services/processing-eligibility.ts` | — | conditions shared by claims, snapshots and administration | two stages claim one letter | stages that read each other's output exclude each other |
| Queue administration `be/services/processing-queue.ts`, `bulk-operations.ts`, `be/services/letters.ts` | — | remove, retry, cancel, recover, bulk transcribe/extract/clear, reset | races with claims and answers | rows stay legal, requested work is never turned into automatic work |
| Page invalidation `page-source-invalidation.ts` | `primarySourceRevision` | L, T/C/E and related page changes | attempts and editors in flight | everything derived is withdrawn in one write |
| Human edits `be/services/letter-operations.ts`, `ai-notes.ts`, `regeneration.ts`, `verification.ts`, `transcript-confirmation.ts` | editor forms outside the database | save transcript, metadata, notes, extra content; verify; confirm | saves computed from old rows | compare-and-set: an admitted save replaces only what its author saw |
| Execution lease `be/services/worker-state.ts`, `worker-execution-heartbeat.ts` | `worker_state` token and deadline; the local window and its latch | acquire, renew, release, local ownership | delayed, lost and late statements | at most one worker takes itself for the owner |
| Worker loop `be/worker.ts`, `worker-processing-cycle.ts`, `lease-recovery-coordinator.ts` | execution token, snapshot of the queue | cycles, empty decision, release, handoff, signals | exits racing commits | no work is left behind, and a drained execution ends |
| Wake-up `be/services/cloud-run-job.ts`, `be/index.ts` | `triggerInFlight` | check the lease, post `:run`, periodic reconciliation | coalesced callers, failed triggers | queued work eventually has a worker |
| Publication and versions `publication.ts`, `publication-mutations.ts`, `versions.ts`, `verification.ts` | visibility, verified and published flags of a correspondence group, saved versions, the reading text | verify, withdraw, publish, hide, restore | a grant decided on a screen older than the pages or the content | the public sees only what somebody verified and nobody has changed since |
| Transcript confirmation `transcript-confirmation.ts`, `metadata-input-identity.ts`, the review page's outcome logic | one receipt per letter, the guidance envelope, the screen | confirm, replay, invalidate, bind to an attempt | lost answers, two reviewers, retries | a reported confirmation is the stored one; its names reach the metadata |
| Uploads, pages, deletion `be/services/upload.ts`, `letter-pages.ts`, `storage.ts`, `correspondence-deletion.ts`, `storage-reference-cleanup.ts`, `line-segments.ts` | page rows, immutable objects, advisory locks | upload, replace, repair, reclaim, delete a group, save segments | database and storage change one after the other; crashes between | rows and objects agree |
| Canonical entities `be/services/entities/` | persons or places, links, relationships, audit entries | link, confirm, extract, merge, undo | undo after further edits and merges | merges lose nothing a person confirmed; an undo is exact or refused |
| Collection profiles `collection-profile*.ts`, `collection-editor-mutation.ts`, `be/routes/collections.ts` | profile columns with revision and source fingerprint | generate, edit, verify, publish, read | sources and edits change during generation | nothing unseen is replaced or shown |
| Image transforms `image-transform-scheduler.ts`, `image-variant*.ts`, `be/routes/images.ts` | active jobs, queue, waiters, cached and stored variants | schedule, join, abort, store, recheck | aborts of shared jobs, replaced sources | no slot is lost; bytes are those of the version they name |
| Review autosave `frontend/src/pages/admin/LetterReview/` | lanes, pending patches, visits, flushes | edit, debounce, save, fail, conflict, flush, leave | answers that never come, failed lanes, navigation | what is reported saved is stored, in order |

The components interact through the letter row (jobs, edits, invalidation),
through the queue (any committed PENDING state) and through the `worker_state`
row (lease). Uploads and deletions meet the jobs in page invalidation, confirmations
and edits in the metadata patches, publication in the group's shared row lock.
Every part is listed in `PROJECT.json` under `components`, the ones that are not
modelled with the reason, and what is hard about each under `hazards`.

## Modules

| Module | What it is |
|---|---|
| `LetterProcessing` | One letter's processing row under all writers. |
| `LetterProcessing_proofs` | Its safety for every instance. |
| `WorkerMutex` | Abstract: at most one active worker. |
| `WorkerLease` | The execution lease with clocks, requests in flight and late statements; implements `WorkerMutex`. |
| `WorkerDrain` | Queue, worker main loop, exit decision, handoff, wake-up and reconciliation. It uses the lease through what `WorkerLease` proves. |
| `Worker_proofs` | Of the lease, and that nothing is left behind for every instance with one producer. |
| `PublicCatalogue` | Abstract: what a group shows, and who may make it show more. |
| `LetterPublication` | What the public may see of one correspondence group; implements `PublicCatalogue`. |
| `TranscriptConfirmation` | Confirming one transcript, from the reviewers' screens to the metadata attempt. |
| `PageSources` | Page rows and stored objects under uploads, deletions and source-bound edits. |
| `LetterPublication_proofs`, `TranscriptConfirmation_proofs`, `PageSources_proofs`, `CanonicalIdentity_proofs` | Their safety for every instance. |
| `Archive_proofs` | Of `CollectionProfile`, and of the four modules of `MCArchive` side by side. |
| `Clients_proofs` | Of `ImageTransforms` and `ReviewAutosave`, alone and side by side. |
| `CanonicalIdentity` | Entities, their ties, merges and undos. |
| `CollectionProfile` | One profile from generation to the public page. |
| `ImageTransforms` | Requests for one image through the scheduler, the caches and the rechecks. |
| `ReviewAutosave` | The review page's save queue. |
| `MCLetterProcessing`, `MCLetterPublication` | Symmetry for TLC. |
| `MCArchive`, `MCRecovery`, `MCWorkerAndEntities`, `MCClients` | TLC instances of several modules, [side by side](#runs-and-bounds). |

### LetterProcessing

`tx`, `md`, `en`, `ex` are the four stages, each with its status, run id, lease
and claim kind. `doc` holds the workflow, whether the transcript is null, blank or
nonblank, its confirmation, the metadata content status and the source revision.
`job[r]` is the memory of the process behind run `r` (what it loaded, and, as
bookkeeping, whether that has been overwritten since), `editor[e]` a human save
between its read and its compare-and-set. `derived` is a history variable: does the
committed result of a stage reflect the inputs now in the row? It is what makes
"current" a statement about data and not about status columns.

One action is one committed statement or transaction of the code. Claims are
atomic because every eligibility column is in the claim's `WHERE`. A load is a
separate action and the answer another, so anything may happen between. The
patch builders several writers share (`InvalidateMetadata`, `EndMetadata`,
`RestoredWorkflow`...) are operators of the same shape. `Expire*` is a deadline
passing because no heartbeat moved it; a renewal keeps a live lease live and is
therefore a stutter. `Abandon` is a process dying or noticing that it was
superseded.

### WorkerLease

`now` is the database's clock; a process measures its window on its own clock from
the *start* of each confirmed request. The model lets both advance together: the
code assumes clock rates, never clock values, to agree. A request is sent,
executed at some later time (or never), and answered later still. When its caller
gives up (an error, `stopAndWait`'s bound, a crash), the statement goes `adrift`
and may execute at any time after. Tokens are random UUIDs: a process launches
again only when nothing of its last execution remains.

### LetterPublication

Two members of a group, the L letter and one other. A row has its visibility, and
for transcript and metadata the value, its status, its job, its publication flag;
`checked` is the value a standing verification was given for and `overtaken` says that
a person wrote after the running attempt started: bookkeeping that makes "verified"
and "a reviewer has the last word" statements about data. `asking[a]` is one
administrator's request with the screen it came from: a grant is judged once on
the rows read before the transaction and once under the group lock. Attempts are a
start, an end and what the patches of `LetterProcessing` do to them. `reading` is the
transcript the reading text was made from.

`PublicCatalogue` knows neither rows nor requests. An entry is a member, a field and its
value; the verified and the published ones are read off the rows, and an administrator
is informed who has the present pages on the screen or in a request. Only the informed
verify (one entry a request) and grant; whatever else happens only takes back; a change
of the pages hides the group and leaves nobody informed. That a value is part of its
entry is what makes the refinement say more than the flags: text replaced under a
standing verification would be an entry that became verified without its reader.

### TranscriptConfirmation

`record` is the part of the letter a confirmation reads and writes, `intents` every
intent a receipt was stored for, `requests` what the server has not executed (a request
whose caller gave up is `lost` but may still execute), `tab` the reviewers' screens with
the outcome logic of `transcriptConfirmationOutcome.ts`. The identity of the
metadata input is the tuple of values it hashes.

### PageSources

A path is named after what created it: the object of an initial page, or the upload
that stored it. Each await of `processUploadedFile` ends an action: lock, duplicate
lookup, observation of owner and page, store, commit, unlink; storage writes and
unlinks are steps of their own and a process may die before any. `page[s].derived`
holds the bytes segments, trust and dimensions were made from.

### CanonicalIdentity

A tie is a link of an entity to a letter or a relationship of two, told apart by its
parties, whether a person confirmed it, and the extraction revision that wrote it.
`merges` is the audit log with the snapshots an undo compares; `before` and `after` hold
whole tables for the undo's exactness. An undo request looks its entry up before its
transaction. Persons and places go through the same rules. A row that no person confirmed
and no numbered extraction wrote (`Unowned`: a relationship of the backfill, a link
from before revisions) is taken over by an extraction that finds the same tie. An edit of
the letter clears only its extraction document; a change of its pages removes what
extractions left as well.

### CollectionProfile

`fingerprint` is the live fingerprint of the letters. A curator's request is a screen,
the check, the model's answer and the conditional write; a public request reads
publication twice around its other statements. `approved` collects what was verified.

### ImageTransforms

Requests ask for one representation of one image; `job` and `queue` are the
scheduler, `cached` and `saved` the memory cache and the variant store. `source` is the
version of the page, `public` whether an anonymous visitor may see it.

### ReviewAutosave

The coordinator's queue is one record, transformed by operators named after its
methods. Edits are numbers, so a patch says which edit of each field it carries. With two
lanes, the order of the sequence numbers is the lane scheduled last (`newest`). A
request may execute after the page gave it up; `late` counts them.

### WorkerDrain

A unit of work is one stage of one letter, reduced to its queue status and owner.
`worker[w]` is the program counter of `main()` with what it knows: whether it
believes it owns the lease (`sure`), whether a signal came, the snapshot it is
working through. `waker[q]` is a request handler (or the API's timer) inside
`triggerWorkerJob`, `inFlight` the shared promise. Every await of the code ends an
action.

## Runs and bounds

| Run | Instance | What it shows |
|---|---|---|
| `LetterPipeline` | No related items; two runs, two editors, all claims, cancellation, bulk operations, edits, verification; nothing that advances `metadataRevision` starts at 5 | `TypeOK`; every row satisfies the table's CHECKs (`ChecksHold`); `StagesExclude`; `MetadataIsGated`; `MetadataIsCurrent`; `SavesSeeWhatTheyReplace` between humans |
| `LetterExtraContent` | Related items; two runs, one editor, four stages, queue administration, page changes; revisions to 4 | `OwnersReadCurrentInput`, `ResultsAreCurrent`, `RequestedIsNotRequeued`, `OnlyLiveOwnersPublish` |
| `Recovery` | One letter with crashes and slow attempts, revisions to 3; or two overlapping executions, two units of work, two commits or one and a fault, the reconciler | `AttemptsEnd`, `QueueSettles`, `ExecutionsEnd` under fairness |
| `WorkerAndEntities` | Lease: two workers, two ticks, clock to 6. Drain without faults: two executions, three units of work, five commits, two signals, one producer at a time. Entities: three, one letter, two ties, an undo, two merges or other changes | `TypeOK`, `OwnershipIsBacked`, `TokensChangeFairly`, refinement of `WorkerMutex`; `NothingLeftBehind`; `GraphIsSound`, `UndoIsExact`, `HumanTiesSurvive` |
| `Archive` | Pages: two uploads, a deletion and a reader, two of them at a time, two slots, two contents, an object that may be damaged, one fault. Publication: two administrators, two transcripts, one attempt or page change. Profile: two curators and a public reader, two of them at a time. Confirmation: two screens, one receipt, one change, retry, attempt and lost answer | `ContentIsStoredOnce`, `DerivedDataFollowsBytes`, `ObjectsMatchPages`; `ReviewersHaveTheLastWord`, `GroupsAreUniform`, refinement of `PublicCatalogue`; `VerifiedProfilesWereSeen`, `PublicProfilesWereVerified`, `NothingUnseenIsReplaced`; `ReportedConfirmationsAreReal`, `GuidanceIsHonoured`; the types of all four |
| `Clients` | Images: three requests, one slot, one queued job, two waiters; the source changes and the page is hidden. Autosave: two lanes, two visits, two edits, one flusher, one request that outlives its answer; or two flushers (navigation guard and mutation executor) with two visits or two edits | `SlotsAreNeverLost`, `CachedBytesAreWhatTheyName`, `ImageRequestsEnd`; `SavesKeepOrder`, `FlushedMeansStored`; with two flushers `FairFlushesEnd`; the types of both |
| `StrandedTranscription`, `StrandedMetadata`, `NotesRevive`, `LostWake`, `StaleReadingText`, `GuidanceDropped` | Small instances | One violated property each, [below](#where-the-code-disagrees) |

Four runs hold several modules side by side. Those modules share no variable; a
variable of the MC module says which of them moves in a behaviour, and the others keep
one initial state. The states are therefore the sum of the modules' states, not their
product, and a property of one module means what it means alone. Fairness is restated
there for the behaviours in which its module moves. Model values that play
interchangeable roles in two modules have one name, so that one symmetry group serves
both.

The bounds. Two runs let an attempt be superseded by another of the same stage, or
overlap one of a sibling stage; three stages never run at once (`StagesExclude`
allows only a transcription beside an extra-content attempt). Two editors are a
save overtaken by a save. Transcription, confirmation and metadata take the revision
to 3, where entities run; a bound of 4 leaves one more edit or attempt to overtake
all of them and a late answer to arrive after it, 5 a verification and its undoing. Actions that only end something,
and entity attempts, which leave the revision alone, are not bounded by it. A source revision changes once; a second
change is the first one seen by a later attempt. In the lease three whole
lease periods pass, enough for an owner, its successor and the first one's late
statements. In the drain three units of work let one wait in a snapshot, one
run and one be committed late. `MaxExecutions` bounds the
executions Cloud Run has accepted and not started; further ones would find the
lease held. `LetterPipeline` explores no page changes and no related items, and
`LetterExtraContent` no bulk operations; together the runs fire every action. The
theorems do not depend on any of these bounds.

Two administrators, curators or screens are enough for a request that another one
overtakes; each module's properties relate one request to what changed under it, and
every one of them has a small mutation of the model that violates it under
these bounds. Of the requests on pages and profiles only two act in a behaviour
(`cast`), any two of them. A publication begins with a group that shows all that is
verified, or nothing, the states between requests that reviewers produce by one
action each. Two merges let a merge be undone after the next one, which is where
snapshots differ. Two waiters and one queued job fill every limit of the
scheduler with three requests; with two visits a failed save outlives its visit. Two
flushers are enough for one that changes the queue the other waits for: each
drops, retries or resolves saves the other was told of. The instance of two flushers
takes a second visit or a second edit (either makes a save replace another or fail for a
later visit), not both in one behaviour, and no request that outlives its answer, which
changes what is stored and not who waits; the instance of one flusher takes them all.
Only the former is under fairness: `FairFlushesEnd` is its `FlushesEnd`.

`CHECK_DEADLOCK FALSE` appears because producers, clocks and requests stop at their bounds.

Fairness. `LetterProcessing`: a producer ends or its process does, because
provider requests time out; the lease of a process that is gone expires; both
reconcilers scan every minute. No fairness is assumed of claims, humans or of a live
attempt's lease. `WorkerDrain`: a running process proceeds,
Cloud Run starts what it accepted, deadlines of the dead pass, and the API's timer
ticks (`be/index.ts:37-46`). A requested attempt may hang for ever, and
faults are bounded in number but not in time. `ImageTransforms`: a request that can
take its next step does, as promises that settle are continued; nothing is assumed of
aborts. `ReviewAutosave`: timers fire, every request ends in an answer or a
timeout, and a resolved promise is continued before the next event. That last is strong
fairness of `FlushEnds`: the model lets a click or a timer come between the wake-up and
the continuation, the event loop does not, so a flush that is woken again and again with
nothing to wait for ends. Nothing is assumed of the reviewer or of when the server
executes a request.

## Where the code disagrees

1. **A metadata save strands a transcription** (`StrandedTranscription`,
   `be/services/letter/metadata-job.ts:633`). Replacing an L page sets transcription
   PENDING and workflow UPLOADED and keeps the old text. A metadata save opened
   afterwards sees metadata PENDING over nonblank text and writes TRANSCRIBED; the
   automatic claim asks for UPLOADED. Nothing but an administrator's retry or
   bulk transcribe reaches the letter again. `bulkClearMetadata` does the same.
   `docs/architecture-cleanup/current-work.md:3163-3164` promises that "the durable
   queue truthfully reflects the work required to rebuild it".
2. **A source change strands confirmed metadata** (`StrandedMetadata`,
   `metadata-job.ts:726`). The invalidation patch sets metadata PENDING but moves
   the workflow only when the transcription is SUCCESS; after a failed requested
   retranscription of a confirmed letter it stays METADATA_DRAFTED, which the
   automatic claim excludes.
3. **A note revives old metadata** (`NotesRevive`, `metadata-job.ts:664`). While
   metadata is extracted again after a transcript edit and a new
   confirmation, saving an AI note cancels the run and writes
   SUCCESS: the metadata of the previous transcript may then be verified and
   nothing is queued to replace it.
4. **A lost wake-up** (`LostWake`, `be/services/cloud-run-job.ts:48`). A request
   that commits after the leaving worker's recheck joins a trigger in flight whose
   lease check is older than the release, and is skipped with it. Until the
   API's reconciliation a minute later nobody is on the way. With one producer
   at a time (`WorkerAndEntities`) the handoff does what `worker.ts:278-279` says.

5. **The public reads an older text** (`StaleReadingText`,
   `be/services/letter/verification.ts:111`). The reading text is generated on a
   verification only when there is none. Verify, edit, verify again, publish: the reading
   mode shows the first transcript. `README.md:90` says that it is regenerated "on
   verify ... from the canonical transcript".
6. **A retry of another job drops confirmed names** (`GuidanceDropped`,
   `be/services/letter/metadata-input-identity.ts:197`). The identity that binds the
   reviewer's names to the metadata input contains the status of the extra-content job.
   Retrying that job between confirmation and metadata attempt changes the
   identity and nothing the model is sent, and the attempt ignores the names. The
   comment at :178-180 says that attempt state is deliberately absent.
   `GuidanceIsHonoured` shows that nothing else drops them.

Also visible in `WorkerDrain` and by design: saves that put metadata
back in the queue (`CommitSilently`) ask for no worker and wait for the
reconciliation.

## What is proved

TLAPS checks every theorem below for all values of the constants, from the named
assumptions of the modules only (distinct null values, natural bounds, a positive
lease duration).

**The letter row** (`LetterProcessing_proofs`). Layers, each inductive only with
the ones before it:

1. `TypeOK`.
2. `RowShape` = `ChecksHold` ∧ `StagesExclude` ∧ `MetadataIsGated` ∧ `EntitiesWait`.
   The last conjunct, that a running metadata attempt has the entity stage PENDING,
   is the strengthening: without it a completion could land beside an older entity
   SUCCESS.
3. `Attempts` = `AttemptsMatch` ∧ `OwnersReadCurrentInput`. An overwrite marks the
   memory of attempts stale by their stage, so the invariant needs that a process
   and the columns naming its run agree on the stage. One lemma, `AttemptsKept`, says
   what every action but a claim does to attempts; the rest instantiate it.
4. `ResultsAreCurrent`, and `MetadataIsCurrent` under the hypothesis
   `"notes" \notin Edits`: finding 3 shows that it fails with notes, and the
   theorem that nothing else breaks it.
5. `EditorsLag` (the revision only grows, and every replacement of what a save
   read moves it) ⇒ `SavesSeeWhatTheyReplace`.
6. The action properties `OnlyLiveOwnersPublish` and `RequestedIsNotRequeued`.

**The execution lease** (`Worker_proofs`). `WindowsAreBacked`: every window a
process trusts, or that an answer still under way would open, has passed or is
covered by the row for at least as long. It gives `OwnershipIsBacked`, hence at
most one active worker, hence every step is one of `WorkerMutex` or a stutter.
`TokensAreFresh` (a process that asked for nothing owns nothing) gives
`TokensChangeFairly`.

**Draining the queue** (`Worker_proofs`). `NothingLeftBehind`, from the hypotheses
that one producer asks at a time and that no save queues work silently; finding 4
shows that two producers break it, and the reconciliation answers for silent saves.
`OwnersAreSure`: while nothing has failed, an execution between its acquisition and its
release is the holder of a live lease, and there is no other holder. `NobodyJoins`: the
producer waits for no call but its own, and a call in flight is past `Trigger`.
`WorkIsSeen`, the strengthening of the property: queued work has a request for an
execution, an execution that runs, or a producer that has yet to look at the queue or
the lease (`OnTheWay`). A producer that found the lease held is no longer on the way; its
step is safe because the holder then is inside, and looks again after its release.

**Publication** (`LetterPublication_proofs`). `RowsInv`: a row is published only when
verified, verified only for the content it holds, and left to no attempt older than it;
every member that exists carries one revision, the number of page changes. `AskInv`: a
screen's revisions are those of the pages it saw, and a request still fresh reads the
metadata it has read. So a grant that passes the root's revision check saw the present
pages (lemma `RevisionInforms`), which gives `GrantsSeeThePages` from `PublishStep`: a
publication without a grant grants nothing. (No run checks this property: it is what
the refinement below says of grants, member by member.) `GroupsAreUniform` and
`ReviewersHaveTheLastWord` follow from `RowsInv`.

The refinement of `PublicCatalogue` adds two facts about a step. By `StepHolds` it
verifies nothing (`Inherited`: what is verified after it was so before, for the same
value), or it is one verification by a reader of the present pages
(`VerifiedByItsReader`); `Inherits` is proved of every patch of a row, once. By lemma
`StepKinds` a step that is neither a look nor a change of pages informs nobody. With
`Inherited`, a step that grants is `Grant` and one that does not is `Withdraw`.

**Confirming a transcript** (`TranscriptConfirmation_proofs`). `ReceiptsAreShown`: a
receipt under an intent was stored with what the screen of that intent showed.
`EnvelopesAreCurrent` and `AttemptsAreGuided`: guidance that is bound to a metadata
attempt was confirmed for the input the attempt reads, because every write that changes
the input takes the binding away in the same transaction. `ScreensRemember`: a screen
that waits for an answer still holds the intent it sent. Together they give
`GuidanceIsHonoured` and `ReportedConfirmationsAreReal`; neither is inductive alone,
since a request may execute long after its screen has moved on.

**Pages and objects** (`PageSources_proofs`). Each upload stores one object, under its
own name, and stores it at most once. The invariant `RowsHold` says that only a settled
upload is referred to, waited on for reclamation or remembered by an edit (`Sound`,
`Doomed`), so that a path nobody refers to never gets a referrer again
(lemma `Frame`): a lookup that found no row stays right until the unlink. What a commit
will write is `Planned`. `LocksHold` (holders of one content are one; a holder that saw
no durable copy still could not find a unique page) gives `ContentIsStoredOnce`;
`OrphansComeFromFaults` is inductive over `RowsHold`.

**Collection profiles** (`Archive_proofs`). `ScreensFollowRevisions`: a screen
whose revision is the row's shows the row's content. `RowsWereVerified`: what a public
request read earlier was verified when it was read. The writes are classified once
(`WrittenRows`), and `NothingUnseenIsReplaced` follows per step. `ArchiveTypes` puts the
invariants of the four modules of `MCArchive` together: one moves, the others rest.

**Images** (`Clients_proofs`). `BytesBetween`: bytes a request has not rechecked
are of the source its key names or of a newer one that already was the page's, because a
transform reads the file while it may be replaced; after the recheck, which asks that the
key still names the source, they are of the key. `WaitersMatch`: who shares a job asked
for what it makes, and waits for no other job, which an abandoned request and a freed
slot must keep. `CachedBytesAreWhatTheyName` follows. `SlotsAreNeverLost` counts:
`QueueHolds` says that the queue lists the queued jobs once each, that running jobs are
no more than the slots and queued ones no more than the places, and that a job waits only
while every slot is taken; `WaitersHold` that who waits is waited for by a job, and a
queued job by somebody, so that an abort never leaves a job that nobody will take out of
the queue. A freed slot goes to the head of the queue in the same step
(lemma `FinishJobKeepsQueue`), which is why the count survives it.

**Review autosave** (`Clients_proofs`). `AutosaveInv` is about where an edit can be.
`EditsAreInOrder`: for each field, what the server holds and the requests still out are
no newer than the running save, that no newer than what is queued or pending, and nothing is newer than the last edit of the visit on the screen
(`TypedIsNewest`). The order holds without any assumption on requests that were given up
on: the queue starts no save before the last one ended, and a request executed late only
breaks what the server holds. Hence `SavesKeepOrder`. `NothingIsForgotten`: unless its
visit is frozen, the last edit of a field is stored, pending, queued, running or a noted
failure of its lane, and a pending patch has a queued save or a failure. It needs
`ExecutedIsStored` (a running save whose request is gone is on the server),
`TextIsOfOneVisit` (a patch of an earlier visit leaves before this one has text of its
own, so that one lane never carries two visits) and `VisitsArePast`. A flush reports
success only from its own continuation (lemma `OnlyContinuationsSave`), with nothing
running, queued or failed, which leaves only "stored": `FlushedMeansStored`.
`StatusesFit` holds of every visit, not only of the one on the screen as the checked
type says, because a step that settles another visit writes its status too. Each
function of the coordinator has one lemma that says what it returns (`SettledIs`,
`DroppedIs`, `PumpedIs`, `ScheduledIs`, `FinishedIs`), and three that say which changes of
the queue keep the invariant (`DropsKeep`, `StartsKeep`, `EndsKeep`); the steps combine them.

**Canonical entities** (`CanonicalIdentity_proofs`). `GraphIsSound` is not inductive: an
undo writes rows back that were sound when its merge began, into a table that moved on.
`RecordIsSound` says what a record remembers of its merge for ever: every row it changed
is gone or retained, and a row of the entity merged away tied it to entities that a
retained row still ties. `StandingMergesHold`: the entity a standing merge took away is
away, as it was, the rows it took out are out, and two standing merges took different
entities and rows. `StampsAreOfMerges`: `updatedAt` as a merge left it is found only on
the entity it kept, and only while it stands, so that a second undo of one merge refuses.
An undo that passes `AsMerged` then finds its rows as the merge left them
(`UndoFindsItsMerge`), their places free and their ends present
(`RestoredGraphIsSound`). `UndoIsExact` follows; `HumanTiesSurvive` from what a merge
makes of each row (`MergedRowsAre`) and that redirection is injective.

Only model-checked: liveness (`AttemptsEnd`, `QueueSettles`, `ExecutionsEnd`,
`ImageRequestsEnd`, `FairFlushesEnd`; fairness and `ENABLED` are out of the prover's reach)
and with it the recovery of `WorkerDrain` from faults. Every invariant and every action
property of a passing run is a theorem.

## Abstractions

- Texts are null, blank or nonblank; prompts, parsing, costs, errors' wording and
  attempt counters are left out, as is `deadLetter`, which is never set to true.
- `LetterProcessing` leaves out rows without a token (from before the
  lease columns), `transcriptStatus`, publication flags and guidance, version
  restore, `bulkUpdateFields`, name propagation, companions and photo
  descriptions. Whether a letter has related items is a constant of the instance.
- Worker claims also carry the execution token; that condition is `Fenced` in
  `WorkerDrain`.
- Entity materialisation is one action: its transaction takes the row lock under a
  live lease and rechecks the tuple at the end.
- `WorkerDrain` covers job mode (`EXIT_WHEN_EMPTY`) only; the four stages' scans and
  recoveries are one read or write each; a requested attempt is never awaited, while
  the code does wait for a requested extra-content attempt that has been marked
  dirty (it is the automatic attempt of the model: its expiry queues work). A
  stage lease expires only when its worker is gone; slow but living attempts are
  in `LetterProcessing`. There is one API process. Cloud Run's own retries of a failed
  execution are not modelled.
- `LoseOwnership` and `ExpireLease` use `OwnershipIsBacked`: the lease of a worker
  that believes in it does not expire.

- `LetterPublication` takes the writes of `updateLetter` on transcript and metadata as
  one edit each, in requests of their own; people's edits of the reading text are left
  out; page numbers and group ordering are a choice of the root. Publishing in
  bulk is one such mutation per root.
- `TranscriptConfirmation` has an L letter, whose metadata is queued by its confirmation.
  The code also has a branch that confirms without queueing when metadata is SUCCESS
  already; no letter reaches it, since every write of that status moves the workflow out
  of TRANSCRIBED and every later return there puts metadata back in the queue or
  follows a receipt. It leaves leases and fences of the metadata attempt to
  `LetterProcessing`: an attempt there is current or gone. Hashes are the values they
  are made of.
- `PageSources` takes a commit's row locks as atomicity and a slot as the target of a
  filename. An object has one referrer: paths are unique to the upload that stored them,
  and pages that share an object are left out. Readers observe a source once. Objects may be lost or damaged only
  before the behaviour starts.
- `CanonicalIdentity` leaves out renames' undo, which restores without
  comparing, relationships that extractions left before revisions were numbered, and the
  backfill's later update of its own row, and gives each letter one role; names are the entities they belong to.
- `CollectionProfile` has one content value for all profile columns and leaves out the
  correspondents' own rows and the highlight image, which a deletion clears.
- `ImageTransforms` has one representation; widths, formats and cache eviction are left
  out.
- `ReviewAutosave` has one field per lane in its run; the identity fields, a third lane of
  the same shape, are left out, and the server's refusals are failures or conflicts.

Not modelled: notifications, usage and settings, which nothing reads back into the
protocols above; authentication and rate limits; routes, schemas and DTOs beyond the
guards that are conjuncts of the actions here; provider clients, which are steps that
return, fail or never answer; search and catalogue queries; presentation, scripts and
deployment.

## Plan

Next, in order:

1. `CanonicalIdentity`: the undo of a rename and the alias writes that race a merge.
2. `FeaturedSetting`: the compare-and-set repair loop.
