-------------------------- MODULE LetterProcessing --------------------------
(***************************************************************************)
(* The processing row of one primary (L) letter.  Four derived results     *)
(* hang off it, each with a job status, an owning run, a lease and a claim *)
(* kind: the transcription (tx), the metadata (md), the entity projection  *)
(* (en) and the extra-content transcript (ex) of the related T/C/E items.  *)
(* Worker attempts, API attempts, lease recovery, queue administration and *)
(* human edits all act on the row by single compare-and-set UPDATEs; an    *)
(* attempt holds what it read across AI calls that take minutes.           *)
(***************************************************************************)
EXTENDS Integers, FiniteSets

CONSTANTS
    Runs,        \* run identities; one is reused only when nothing holds it
    Editors,     \* concurrent human save requests
    NoRun,       \* the NULL run id
    Queued,      \* stages whose automatic (QUEUED) claim is enabled
    Requested,   \* stages whose admin (REQUESTED) claim is enabled
    Edits,       \* enabled human and administrative operations
    HasRelated,  \* whether the letter has related T/C/E items
    MaxRevision, \* nothing that advances metadataRevision starts at this value
    MaxSource    \* bound on primarySourceRevision

Stages     == {"tx", "md", "en", "ex"}
Statuses   == {"PENDING", "RUNNING", "SUCCESS", "FAILED"}
ClaimKinds == {"QUEUED", "REQUESTED"}
Workflows  == {"UPLOADED", "TRANSCRIBING", "TRANSCRIBED",
               "METADATA_EXTRACTING", "METADATA_DRAFTED", "REVIEWED"}
Contents   == {"EMPTY", "AI_DRAFT", "EDITED", "VERIFIED"}
Texts      == {"NULL", "BLANK", "NONBLANK"}
NoRevision == -1
NoSource   == -1

ASSUME ConstantsAssumption ==
    /\ NoRun \notin Runs
    /\ Queued \subseteq Stages /\ Requested \subseteq Stages
    /\ HasRelated \in BOOLEAN
    /\ MaxRevision \in Nat /\ MaxSource \in Nat

VARIABLES
    tx, md, en, ex, \* per stage: status, owning run, lease, claim kind
    dirty,          \* extraContentJobDirty
    revision,       \* metadataRevision
    runRevision,    \* metadataRunRevision
    doc,            \* workflow, text, confirmation, metadata content, source
    job,            \* what the process behind each run holds in memory
    derived,        \* history: does the committed result reflect its inputs?
    editor          \* human saves between their read and their compare-and-set

row  == <<tx, md, en, ex, dirty, revision, runRevision, doc>>
vars == <<row, job, derived, editor>>

Slot == [status : Statuses, run : Runs \union {NoRun},
         lease : {"none", "live", "expired"}, kind : ClaimKinds \union {"none"}]

Doc == [workflow : Workflows, text : Texts, confirmed : BOOLEAN,
        content : Contents, source : Nat]

\* input: what the attempt loaded after its claim, and whether any of it has
\* been overwritten since.
Job == [stage : Stages \union {"none"}, source : Nat \union {NoSource},
        input : {"unread", "current", "stale"}]

Editor == [open : BOOLEAN, revision : Nat, source : Nat, fresh : BOOLEAN]

NoJob        == [stage |-> "none", source |-> NoSource, input |-> "unread"]
ClosedEditor == [open |-> FALSE, revision |-> 0, source |-> 0, fresh |-> FALSE]

(* The type of every variable. *)
TypeOK ==
    /\ tx \in Slot /\ md \in Slot /\ en \in Slot /\ ex \in Slot
    /\ dirty \in BOOLEAN
    /\ revision \in Nat
    /\ runRevision \in Nat \union {NoRevision}
    /\ doc \in Doc
    /\ job \in [Runs -> Job]
    /\ derived \in [Stages -> BOOLEAN]
    /\ editor \in [Editors -> Editor]

-----------------------------------------------------------------------------
(* Ownership columns. *)

Idle(status) == [status |-> status, run |-> NoRun, lease |-> "none", kind |-> "none"]

Claimed(r, kind) == [status |-> "RUNNING", run |-> r, lease |-> "live", kind |-> kind]

Running(s) == s.status = "RUNNING"
Holds(s, r) == Running(s) /\ s.run = r
\* Mutant: the lease deadline dropped from the terminal writes.
HeldWithoutLease(s, r) == Holds(s, r)

Live(s, r)  == Holds(s, r) /\ s.lease = "live"

\* Mutant: only automatic attempts are recovered.
ExpiredQueuedOnly(s, kind) ==
    Running(s) /\ s.lease = "expired" /\ s.kind = kind /\ kind = "QUEUED"

Expired(s, kind) == Running(s) /\ s.lease = "expired" /\ s.kind = kind

\* A randomUUID() that no column and no process refers to.
Fresh(r) == job[r] = NoJob /\ r \notin {tx.run, md.run, en.run, ex.run}

HasText == doc.text = "NONBLANK"

SourceMatches(r) == job[r].source \in {NoSource, doc.source}

\* The exact-revision owner of a metadata attempt.
OwnsMetadata(r) == Holds(md, r) /\ runRevision = revision

-----------------------------------------------------------------------------
(* Who overwrote what: bookkeeping for attempts and saves in flight. *)

Finish(r) == job' = [job EXCEPT ![r] = NoJob]

Outdated(stages) ==
    [q \in Runs |-> IF job[q].stage \in stages /\ job[q].input = "current"
                      THEN [job[q] EXCEPT !.input = "stale"] ELSE job[q]]

Overtaken ==
    [e \in Editors |-> IF editor[e].open THEN [editor[e] EXCEPT !.fresh = FALSE]
                                        ELSE editor[e]]

UsedCurrentInput(r) == job[r].input = "current"

Underived(stages) == [s \in Stages |-> s \notin stages /\ derived[s]]

-----------------------------------------------------------------------------
(* Eligibility, shared by claims, queue snapshots and administration. *)

\* Mutant: the entity stage forgotten.
PrerequisitesBesideEntities == ~Running(md)

TranscriptionPrerequisites == ~Running(md) /\ ~Running(en)

\* Mutant: the confirmation forgotten.
PrerequisitesUnconfirmed ==
    ~Running(tx) /\ ~Running(en) /\ ~Running(ex) /\ HasText

MetadataPrerequisites ==
    /\ ~Running(tx) /\ ~Running(en) /\ ~Running(ex)
    /\ HasText /\ doc.confirmed

EntityPrerequisites == ~Running(tx) /\ md.status = "SUCCESS" /\ ~Running(ex)

ExtraPrerequisites == ~Running(md) /\ HasRelated

QueuedTranscription ==
    /\ TranscriptionPrerequisites
    /\ doc.workflow = "UPLOADED" /\ tx.status = "PENDING" /\ tx.run = NoRun

QueuedMetadata ==
    /\ MetadataPrerequisites
    /\ doc.workflow = "TRANSCRIBED" /\ md = Idle("PENDING")

QueuedEntities == EntityPrerequisites /\ en.status = "PENDING" /\ en.run = NoRun

QueuedExtra == ExtraPrerequisites /\ ~Running(en) /\ ex.status = "PENDING"

-----------------------------------------------------------------------------
(* Patches several writers spread into their UPDATE. *)

DowngradedContent ==
    IF doc.content \in {"EMPTY", "EDITED"} THEN doc.content ELSE "AI_DRAFT"

\* Mutant: only a running projection is withdrawn.
EntitiesKept == IF Running(en) THEN Idle("FAILED") ELSE en

WithdrawnEntities == Idle(IF en.status = "PENDING" THEN "PENDING" ELSE "FAILED")

InvalidatedWorkflow ==
    IF tx.status = "SUCCESS" /\ HasText THEN "TRANSCRIBED" ELSE doc.workflow

\* Mutant: metadataRunRevision is not cleared.
InvalidateKeepingRunRevision ==
    /\ md' = Idle("PENDING") /\ en' = WithdrawnEntities
    /\ revision' = revision + 1 /\ UNCHANGED runRevision

\* Mutant: only a running attempt is put back, not a finished one.
InvalidateRunningOnly ==
    /\ md' = Idle(IF Running(md) THEN "PENDING" ELSE md.status)
    /\ en' = WithdrawnEntities
    /\ revision' = revision + 1 /\ runRevision' = NoRevision

\* Mutant: the revision is not advanced.
InvalidateWithoutRevision ==
    /\ md' = Idle("PENDING") /\ en' = WithdrawnEntities
    /\ UNCHANGED revision /\ runRevision' = NoRevision

\* buildMetadataSourceInvalidationPatch without its workflow and content.
InvalidateMetadata ==
    /\ md' = Idle("PENDING")
    /\ en' = WithdrawnEntities
    /\ revision' = revision + 1
    /\ runRevision' = NoRevision

\* Mutant: the content status written as the workflow.
WorkflowFromContent ==
    IF doc.content = "VERIFIED" THEN "REVIEWED" ELSE doc.content

RestoredWorkflow ==
    CASE doc.content = "VERIFIED" -> "REVIEWED"
      [] doc.content = "EMPTY"    -> "TRANSCRIBED"
      [] OTHER                    -> "METADATA_DRAFTED"

\* The end of a metadata attempt that published nothing.
EndMetadata(status, workflow) ==
    /\ md' = Idle(status)
    /\ revision' = revision + 1
    /\ runRevision' = NoRevision
    /\ doc' = [doc EXCEPT !.workflow = workflow]

RevokedTranscriptionWorkflow ==
    IF tx.kind = "QUEUED" THEN "UPLOADED" ELSE doc.workflow

RevokeTranscription ==
    /\ tx' = Idle("FAILED")
    /\ doc' = [doc EXCEPT !.workflow = RevokedTranscriptionWorkflow]

-----------------------------------------------------------------------------
Init ==
    /\ tx = Idle("PENDING") /\ md = Idle("PENDING")
    /\ en = Idle("PENDING") /\ ex = Idle("PENDING")
    /\ dirty = FALSE /\ revision = 0 /\ runRevision = NoRevision
    /\ doc = [workflow |-> "UPLOADED", text |-> "NULL", confirmed |-> FALSE,
              content |-> "EMPTY", source |-> 0]
    /\ job = [r \in Runs |-> NoJob]
    /\ derived = [s \in Stages |-> FALSE]
    /\ editor = [e \in Editors |-> ClosedEditor]

\* Bound: nothing that would advance metadataRevision starts at MaxRevision;
\* what has started may still end.
MayStart == revision < MaxRevision

Begin(r, stage, source) ==
    job' = [job EXCEPT ![r] = [stage |-> stage, source |-> source, input |-> "unread"]]

-----------------------------------------------------------------------------
(* Transcription attempts. *)

ClaimQueuedTranscription(r) ==
    /\ "tx" \in Queued /\ MayStart /\ Fresh(r)
    /\ QueuedTranscription
    /\ tx' = Claimed(r, "QUEUED")
    /\ doc' = [doc EXCEPT !.workflow = "TRANSCRIBING"]
    /\ Begin(r, "tx", NoSource)
    /\ UNCHANGED <<md, en, ex, dirty, revision, runRevision, derived, editor>>

ClaimRequestedTranscription(r) ==
    /\ "tx" \in Requested /\ MayStart /\ Fresh(r)
    /\ ~Running(tx) /\ TranscriptionPrerequisites
    /\ tx' = Claimed(r, "REQUESTED")
    /\ Begin(r, "tx", doc.source)
    /\ UNCHANGED <<md, en, ex, dirty, revision, runRevision, doc, derived, editor>>

LoadTranscription(r) ==
    /\ job[r].stage = "tx" /\ job[r].input = "unread"
    /\ SourceMatches(r)
    /\ job' = [job EXCEPT ![r].input = "current"]
    /\ UNCHANGED <<row, derived, editor>>

CompleteTranscription(r, text) ==
    /\ job[r].stage = "tx" /\ job[r].input # "unread"
    /\ Live(tx, r) /\ SourceMatches(r)
    /\ tx' = Idle("SUCCESS")
    /\ InvalidateMetadata
    /\ doc' = [doc EXCEPT !.workflow = "TRANSCRIBED", !.text = text,
                          !.confirmed = FALSE, !.content = DowngradedContent]
    /\ job' = [Outdated({"md", "en"}) EXCEPT ![r] = NoJob]
    /\ derived' = [Underived({"md", "en"}) EXCEPT !["tx"] = UsedCurrentInput(r)]
    /\ editor' = Overtaken
    /\ UNCHANGED <<ex, dirty>>

FailTranscription(r) ==
    /\ job[r].stage = "tx"
    /\ Live(tx, r) /\ SourceMatches(r)
    /\ RevokeTranscription
    /\ Finish(r)
    /\ UNCHANGED <<md, en, ex, dirty, revision, runRevision, derived, editor>>

\* A requested attempt that finds its source or its lease gone revokes itself,
\* live lease or not.
WithdrawTranscription(r) ==
    /\ job[r].stage = "tx" /\ job[r].source # NoSource
    /\ Holds(tx, r) /\ ~(Live(tx, r) /\ SourceMatches(r))
    /\ RevokeTranscription
    /\ Finish(r)
    /\ UNCHANGED <<md, en, ex, dirty, revision, runRevision, derived, editor>>

CancelTranscription ==
    /\ "cancel" \in Edits
    /\ Running(tx)
    /\ RevokeTranscription
    /\ UNCHANGED <<md, en, ex, dirty, revision, runRevision, job, derived, editor>>

RecoverTranscription ==
    /\ \/ /\ Expired(tx, "QUEUED")
          /\ tx' = Idle("PENDING")
          /\ doc' = [doc EXCEPT !.workflow = "UPLOADED"]
       \/ /\ Expired(tx, "REQUESTED")
          /\ tx' = Idle("FAILED")
          /\ UNCHANGED doc
    /\ UNCHANGED <<md, en, ex, dirty, revision, runRevision, job, derived, editor>>

RemoveTranscription ==
    /\ "remove" \in Edits
    /\ QueuedTranscription
    /\ tx' = Idle("FAILED")
    /\ UNCHANGED <<md, en, ex, dirty, revision, runRevision, doc, job, derived, editor>>

RetryTranscription ==
    /\ "retry" \in Edits
    /\ tx.status = "FAILED" /\ TranscriptionPrerequisites
    /\ tx' = Idle("PENDING")
    /\ doc' = [doc EXCEPT !.workflow = "UPLOADED"]
    /\ UNCHANGED <<md, en, ex, dirty, revision, runRevision, job, derived, editor>>

-----------------------------------------------------------------------------
(* Metadata attempts.  Both claims reset the entity stage to a fresh PENDING. *)

ClaimMetadata(r, kind) ==
    /\ md' = Claimed(r, kind)
    /\ en' = Idle("PENDING")
    /\ runRevision' = revision
    /\ doc' = [doc EXCEPT !.workflow = "METADATA_EXTRACTING"]
    /\ Begin(r, "md", NoSource)
    /\ UNCHANGED <<tx, ex, dirty, revision, derived, editor>>

ClaimQueuedMetadata(r) ==
    /\ "md" \in Queued /\ MayStart /\ Fresh(r)
    /\ QueuedMetadata
    /\ ClaimMetadata(r, "QUEUED")

ClaimRequestedMetadata(r) ==
    /\ "md" \in Requested /\ MayStart /\ Fresh(r)
    /\ ~Running(md) /\ MetadataPrerequisites
    /\ ClaimMetadata(r, "REQUESTED")

LoadMetadata(r) ==
    /\ job[r].stage = "md" /\ job[r].input = "unread"
    /\ OwnsMetadata(r) /\ HasText
    /\ job' = [job EXCEPT ![r].input = "current"]
    /\ UNCHANGED <<row, derived, editor>>

CompleteMetadata(r) ==
    /\ job[r].stage = "md" /\ job[r].input # "unread"
    /\ Live(md, r) /\ OwnsMetadata(r)
    /\ md' = Idle("SUCCESS")
    /\ revision' = revision + 1
    /\ runRevision' = NoRevision
    /\ doc' = [doc EXCEPT !.workflow = "METADATA_DRAFTED", !.content = "AI_DRAFT"]
    /\ job' = [Outdated({"en"}) EXCEPT ![r] = NoJob]
    /\ derived' = [Underived({"en"}) EXCEPT !["md"] = UsedCurrentInput(r)]
    /\ editor' = Overtaken
    /\ UNCHANGED <<tx, en, ex, dirty>>

FailMetadata(r) ==
    /\ job[r].stage = "md"
    /\ Live(md, r) /\ OwnsMetadata(r)
    /\ EndMetadata("FAILED", RestoredWorkflow)
    /\ Finish(r)
    /\ UNCHANGED <<tx, en, ex, dirty, derived, editor>>

CancelMetadata ==
    /\ "cancel" \in Edits
    /\ Running(md) /\ runRevision = revision
    /\ EndMetadata("FAILED", RestoredWorkflow)
    /\ UNCHANGED <<tx, en, ex, dirty, job, derived, editor>>

RecoverMetadata ==
    /\ runRevision = revision
    /\ \/ /\ Expired(md, "QUEUED")
          /\ EndMetadata("PENDING", "TRANSCRIBED")
       \/ /\ Expired(md, "REQUESTED")
          /\ EndMetadata("FAILED", RestoredWorkflow)
    /\ UNCHANGED <<tx, en, ex, dirty, job, derived, editor>>

RemoveMetadata ==
    /\ "remove" \in Edits /\ MayStart
    /\ QueuedMetadata
    /\ EndMetadata("FAILED", doc.workflow)
    /\ UNCHANGED <<tx, en, ex, dirty, job, derived, editor>>

RetryMetadata ==
    /\ "retry" \in Edits /\ MayStart
    /\ md.status = "FAILED" /\ MetadataPrerequisites
    /\ EndMetadata("PENDING", "TRANSCRIBED")
    /\ UNCHANGED <<tx, en, ex, dirty, job, derived, editor>>

-----------------------------------------------------------------------------
(* Entity attempts. *)

ClaimEntities(r, kind) ==
    /\ en' = Claimed(r, kind)
    /\ Begin(r, "en", NoSource)
    /\ UNCHANGED <<tx, md, ex, dirty, revision, runRevision, doc, derived, editor>>

ClaimQueuedEntities(r) ==
    /\ "en" \in Queued /\ Fresh(r)
    /\ QueuedEntities
    /\ ClaimEntities(r, "QUEUED")

ClaimRequestedEntities(r) ==
    /\ "en" \in Requested /\ Fresh(r)
    /\ ~Running(en) /\ EntityPrerequisites
    /\ ClaimEntities(r, "REQUESTED")

LoadEntities(r) ==
    /\ job[r].stage = "en" /\ job[r].input = "unread"
    /\ Holds(en, r) /\ ~Running(ex) /\ HasText
    /\ job' = [job EXCEPT ![r].input = "current"]
    /\ UNCHANGED <<row, derived, editor>>

\* One transaction: the entry update takes the row lock under a live lease and
\* the terminal update rechecks the tuple, so materialisation is not split.
CommitEntities(r) ==
    /\ job[r].stage = "en" /\ job[r].input # "unread"
    /\ Live(en, r) /\ ~Running(ex)
    /\ en' = Idle("SUCCESS")
    /\ derived' = [derived EXCEPT !["en"] = UsedCurrentInput(r)]
    /\ Finish(r)
    /\ UNCHANGED <<tx, md, ex, dirty, revision, runRevision, doc, editor>>

FailEntities(r) ==
    /\ job[r].stage = "en"
    /\ Live(en, r) /\ ~Running(ex)
    /\ en' = Idle("FAILED")
    /\ Finish(r)
    /\ UNCHANGED <<tx, md, ex, dirty, revision, runRevision, doc, derived, editor>>

CancelEntities ==
    /\ "cancel" \in Edits
    /\ Running(en)
    /\ en' = Idle("FAILED")
    /\ UNCHANGED <<tx, md, ex, dirty, revision, runRevision, doc, job, derived, editor>>

\* Mutant: requested and automatic attempts recovered alike.
RecoverEntitiesAlike ==
    /\ Running(en) /\ en.lease = "expired" /\ en' = Idle("PENDING")
    /\ UNCHANGED <<tx, md, ex, dirty, revision, runRevision, doc, job, derived, editor>>

RecoverEntities ==
    /\ \/ Expired(en, "QUEUED") /\ en' = Idle("PENDING")
       \/ Expired(en, "REQUESTED") /\ en' = Idle("FAILED")
    /\ UNCHANGED <<tx, md, ex, dirty, revision, runRevision, doc, job, derived, editor>>

RemoveEntities ==
    /\ "remove" \in Edits
    /\ QueuedEntities
    /\ en' = Idle("FAILED")
    /\ UNCHANGED <<tx, md, ex, dirty, revision, runRevision, doc, job, derived, editor>>

RetryEntities ==
    /\ "retry" \in Edits
    /\ en.status = "FAILED" /\ EntityPrerequisites
    /\ en' = Idle("PENDING")
    /\ UNCHANGED <<tx, md, ex, dirty, revision, runRevision, doc, job, derived, editor>>

-----------------------------------------------------------------------------
(* Extra-content attempts.  A transcription may run beside one. *)

ClaimExtra(r, kind) ==
    /\ ex' = Claimed(r, kind)
    /\ dirty' = FALSE
    /\ Begin(r, "ex", doc.source)
    /\ UNCHANGED <<tx, md, en, revision, runRevision, doc, derived, editor>>

ClaimQueuedExtra(r) ==
    /\ "ex" \in Queued /\ MayStart /\ Fresh(r)
    /\ QueuedExtra
    /\ ClaimExtra(r, "QUEUED")

ClaimRequestedExtra(r) ==
    /\ "ex" \in Requested /\ MayStart /\ Fresh(r)
    /\ ~Running(ex) /\ ExtraPrerequisites /\ ~Running(en)
    /\ ClaimExtra(r, "REQUESTED")

LoadExtra(r) ==
    /\ job[r].stage = "ex" /\ job[r].input = "unread"
    /\ SourceMatches(r)
    /\ job' = [job EXCEPT ![r].input = "current"]
    /\ UNCHANGED <<row, derived, editor>>

CompleteExtra(r) ==
    /\ job[r].stage = "ex" /\ job[r].input # "unread"
    /\ Live(ex, r) /\ ~dirty /\ SourceMatches(r)
    /\ ex' = Idle("SUCCESS")
    /\ InvalidateMetadata
    /\ doc' = [doc EXCEPT !.workflow = InvalidatedWorkflow, !.content = DowngradedContent]
    /\ job' = [Outdated({"md", "en"}) EXCEPT ![r] = NoJob]
    /\ derived' = [Underived({"md", "en"}) EXCEPT !["ex"] = UsedCurrentInput(r)]
    /\ editor' = Overtaken
    /\ UNCHANGED <<tx, dirty>>

FailExtra(r) ==
    /\ job[r].stage = "ex"
    /\ Live(ex, r) /\ ~dirty /\ SourceMatches(r)
    /\ ex' = Idle("FAILED")
    /\ Finish(r)
    /\ UNCHANGED <<tx, md, en, dirty, revision, runRevision, doc, derived, editor>>

\* requeueSupersededAttempt: the terminal write lost to a source change.
RequeueExtra(r) ==
    /\ job[r].stage = "ex"
    /\ Live(ex, r) /\ (dirty \/ ~SourceMatches(r))
    /\ ex' = Idle("PENDING")
    /\ dirty' = FALSE
    /\ Finish(r)
    /\ UNCHANGED <<tx, md, en, revision, runRevision, doc, derived, editor>>

CancelExtra ==
    /\ "cancel" \in Edits
    /\ Running(ex)
    /\ ex' = Idle(IF dirty THEN "PENDING" ELSE "FAILED")
    /\ dirty' = FALSE
    /\ UNCHANGED <<tx, md, en, revision, runRevision, doc, job, derived, editor>>

RecoverExtra ==
    /\ \/ Expired(ex, "QUEUED") /\ ex' = Idle("PENDING")
       \/ Expired(ex, "REQUESTED") /\ ex' = Idle(IF dirty THEN "PENDING" ELSE "FAILED")
    /\ dirty' = FALSE
    /\ UNCHANGED <<tx, md, en, revision, runRevision, doc, job, derived, editor>>

RemoveExtra ==
    /\ "remove" \in Edits
    /\ QueuedExtra
    /\ ex' = Idle("FAILED")
    /\ dirty' = FALSE
    /\ UNCHANGED <<tx, md, en, revision, runRevision, doc, job, derived, editor>>

RetryExtra ==
    /\ "retry" \in Edits
    /\ ex.status = "FAILED" /\ ExtraPrerequisites
    /\ ex' = Idle("PENDING")
    /\ dirty' = FALSE
    /\ UNCHANGED <<tx, md, en, revision, runRevision, doc, job, derived, editor>>

\* tryTranscribeExtras on a letter whose related items are gone.
ClearAbsentExtra ==
    /\ "clearExtra" \in Edits /\ MayStart /\ ~HasRelated
    /\ ~Running(ex)
    /\ InvalidateMetadata
    /\ doc' = [doc EXCEPT !.workflow = InvalidatedWorkflow, !.content = DowngradedContent]
    /\ job' = Outdated({"md", "en"})
    /\ derived' = [Underived({"md", "en"}) EXCEPT !["ex"] = TRUE]
    /\ editor' = Overtaken
    /\ UNCHANGED <<tx, ex, dirty>>

-----------------------------------------------------------------------------
(* Human saves: one handler reads the row, transforms it, and writes under   *)
(* the metadata revision and the source revision it read.                    *)

OpenEditor(e) ==
    /\ ~editor[e].open /\ MayStart
    /\ editor' = [editor EXCEPT ![e] = [open |-> TRUE, revision |-> revision,
                                        source |-> doc.source, fresh |-> TRUE]]
    /\ UNCHANGED <<row, job, derived>>

\* 409, 400 or a lost request.
AbandonEdit(e) ==
    /\ editor[e].open
    /\ editor' = [editor EXCEPT ![e] = ClosedEditor]
    /\ UNCHANGED <<row, job, derived>>

Saving(e, edit) == edit \in Edits /\ editor[e].open

SaveAdmitted(e) == editor[e].revision = revision /\ editor[e].source = doc.source

Saved(e) == [Overtaken EXCEPT ![e] = ClosedEditor]

\* updateLetter with a changed transcript, alone or with metadata fields: the
\* source invalidation has final precedence over the metadata patch.
SaveTranscript(e, text, withFields) ==
    /\ Saving(e, "transcript") /\ SaveAdmitted(e)
    /\ tx' = Idle("SUCCESS")
    /\ InvalidateMetadata
    /\ doc' = [doc EXCEPT
                 !.workflow = IF text = "NONBLANK" THEN "TRANSCRIBED" ELSE "UPLOADED",
                 !.text = text, !.confirmed = FALSE,
                 !.content = IF withFields /\ doc.content # "EMPTY"
                               THEN "EDITED" ELSE DowngradedContent]
    /\ job' = Outdated({"md", "en"})
    /\ derived' = [Underived({"md", "en"}) EXCEPT !["tx"] = TRUE]
    /\ editor' = Saved(e)
    /\ UNCHANGED <<ex, dirty>>

HumanMetadataWorkflow ==
    CASE Running(md) -> "TRANSCRIBED"
      [] md.status = "PENDING" /\ HasText -> "TRANSCRIBED"
      [] md.status = "SUCCESS" /\ doc.content # "EMPTY" -> "METADATA_DRAFTED"
      [] OTHER -> doc.workflow

SaveMetadata(e) ==
    /\ Saving(e, "metadata") /\ SaveAdmitted(e)
    /\ md' = Idle(IF Running(md) THEN "PENDING" ELSE md.status)
    /\ en' = WithdrawnEntities
    /\ revision' = revision + 1
    /\ runRevision' = NoRevision
    /\ doc' = [doc EXCEPT !.workflow = HumanMetadataWorkflow,
                          !.content = IF doc.content = "EMPTY" THEN "EMPTY" ELSE "EDITED"]
    /\ job' = Outdated({"en"})
    /\ derived' = Underived({"en"})
    /\ editor' = Saved(e)
    /\ UNCHANGED <<tx, ex, dirty>>

NotesMetadataStatus ==
    IF Running(md) THEN IF doc.content = "EMPTY" THEN "PENDING" ELSE "SUCCESS"
                   ELSE md.status

\* mutateAiNotes: revokes a running producer without demoting what is committed.
SaveNotes(e) ==
    /\ Saving(e, "notes") /\ SaveAdmitted(e)
    /\ EndMetadata(NotesMetadataStatus,
                   IF Running(md) THEN RestoredWorkflow ELSE doc.workflow)
    /\ editor' = Saved(e)
    /\ UNCHANGED <<tx, en, ex, dirty, job, derived>>

SaveExtra(e) ==
    /\ Saving(e, "extra") /\ SaveAdmitted(e)
    /\ ex' = Idle("SUCCESS")
    /\ dirty' = FALSE
    /\ InvalidateMetadata
    /\ doc' = [doc EXCEPT !.workflow = InvalidatedWorkflow, !.content = DowngradedContent]
    /\ job' = Outdated({"md", "en"})
    /\ derived' = [Underived({"md", "en"}) EXCEPT !["ex"] = TRUE]
    /\ editor' = Saved(e)
    /\ UNCHANGED tx

VerifyMetadata(e) ==
    /\ Saving(e, "verify") /\ SaveAdmitted(e)
    /\ md.status = "SUCCESS" /\ doc.content # "EMPTY"
    /\ revision' = revision + 1
    /\ doc' = [doc EXCEPT !.content = "VERIFIED"]
    /\ editor' = Saved(e)
    /\ UNCHANGED <<tx, md, en, ex, dirty, runRevision, job, derived>>

UnverifyMetadata(e) ==
    /\ Saving(e, "verify") /\ SaveAdmitted(e)
    /\ ~Running(md) /\ doc.content = "VERIFIED"
    /\ revision' = revision + 1
    /\ doc' = [doc EXCEPT !.content = "EDITED"]
    /\ editor' = Saved(e)
    /\ UNCHANGED <<tx, md, en, ex, dirty, runRevision, job, derived>>

-----------------------------------------------------------------------------
(* Operations that lock the row or need no earlier read.                     *)

NewlyQueued == md.status \in {"PENDING", "FAILED"}

ConfirmTranscript ==
    /\ "confirm" \in Edits /\ MayStart
    /\ ~doc.confirmed /\ doc.workflow = "TRANSCRIBED"
    /\ ~Running(tx) /\ HasText
    /\ \/ /\ NewlyQueued /\ ~Running(en)
          /\ ~(HasRelated /\ ex.status \in {"PENDING", "RUNNING"})
          /\ md' = Idle("PENDING")
          /\ en' = Idle("PENDING")
          /\ revision' = revision + 1
          /\ runRevision' = NoRevision
       \/ /\ ~NewlyQueued
          /\ UNCHANGED <<md, en, revision, runRevision>>
    /\ doc' = [doc EXCEPT !.confirmed = TRUE]
    /\ UNCHANGED <<tx, ex, dirty, job, derived, editor>>

ResetLetter ==
    /\ "reset" \in Edits /\ MayStart
    /\ TranscriptionPrerequisites /\ ~Running(tx)
    /\ tx' = Idle("PENDING") /\ md' = Idle("PENDING") /\ en' = Idle("PENDING")
    /\ revision' = revision + 1
    /\ runRevision' = NoRevision
    /\ doc' = [doc EXCEPT !.workflow = "UPLOADED", !.confirmed = FALSE, !.content = "EMPTY"]
    /\ UNCHANGED <<ex, dirty, job, derived, editor>>

\* bulkTranscribe: with overwrite, also a letter past the upload stage.
BulkTranscribe(overwrite) ==
    /\ "bulk" \in Edits
    /\ ~Running(tx) /\ TranscriptionPrerequisites
    /\ doc.workflow = "UPLOADED" \/ overwrite
    /\ tx' = Idle("PENDING")
    /\ doc' = [doc EXCEPT !.workflow = "UPLOADED"]
    /\ UNCHANGED <<md, en, ex, dirty, revision, runRevision, job, derived, editor>>

BulkExtractMetadata ==
    /\ "bulk" \in Edits /\ MayStart
    /\ ~Running(md) /\ MetadataPrerequisites /\ doc.workflow = "TRANSCRIBED"
    /\ EndMetadata("PENDING", doc.workflow)
    /\ UNCHANGED <<tx, en, ex, dirty, job, derived, editor>>

BulkClearTranscriptions ==
    /\ "clear" \in Edits /\ MayStart
    /\ ~Running(tx) /\ ~Running(md) /\ ~Running(en) /\ ~Running(ex)
    /\ tx' = Idle("FAILED") /\ md' = Idle("FAILED")
    /\ en' = Idle("FAILED") /\ ex' = Idle("FAILED")
    /\ dirty' = FALSE
    /\ revision' = revision + 1
    /\ runRevision' = NoRevision
    /\ doc' = [doc EXCEPT !.workflow = "UPLOADED", !.text = "NULL",
                          !.confirmed = FALSE, !.content = "EMPTY"]
    /\ job' = Outdated({"md", "en"})
    /\ derived' = Underived(Stages)
    /\ editor' = Overtaken

BulkClearMetadata ==
    /\ "clear" \in Edits /\ MayStart
    /\ ~Running(tx) /\ ~Running(md) /\ ~Running(en)
    /\ md' = Idle("FAILED") /\ en' = Idle("FAILED")
    /\ revision' = revision + 1
    /\ runRevision' = NoRevision
    /\ doc' = [doc EXCEPT !.content = "EMPTY", !.workflow =
                  IF doc.text = "NULL" THEN "UPLOADED" ELSE "TRANSCRIBED"]
    /\ job' = Outdated({"en"})
    /\ derived' = Underived({"md", "en"})
    /\ editor' = Overtaken
    /\ UNCHANGED <<tx, ex, dirty>>

\* invalidatePrimaryLetterSource: an L page was added, replaced, moved or deleted.
ChangePrimaryPages ==
    /\ "primaryPages" \in Edits /\ doc.source < MaxSource
    /\ tx' = Idle("PENDING")
    /\ InvalidateMetadata
    /\ doc' = [doc EXCEPT !.workflow = "UPLOADED", !.confirmed = FALSE,
                          !.content = DowngradedContent, !.source = doc.source + 1]
    /\ job' = Outdated({"tx"})
    /\ derived' = Underived({"tx"})
    /\ UNCHANGED <<ex, dirty, editor>>

\* Mutant: a running attempt is not marked.
InvalidateExtraUnmarked ==
    /\ ex' = IF Running(ex) THEN ex ELSE Idle("PENDING")
    /\ dirty' = FALSE

\* A running attempt keeps its ownership and is marked dirty.
InvalidateExtra ==
    /\ ex' = IF Running(ex) THEN ex ELSE Idle("PENDING")
    /\ dirty' = Running(ex)

\* invalidateExtraContentSource: a T, C or E page changed.
ChangeExtraPages ==
    /\ "extraPages" \in Edits /\ HasRelated /\ doc.source < MaxSource
    /\ InvalidateExtra
    /\ InvalidateMetadata
    /\ doc' = [doc EXCEPT !.workflow = InvalidatedWorkflow,
                          !.content = DowngradedContent, !.source = doc.source + 1]
    /\ job' = Outdated({"ex"})
    /\ derived' = Underived({"ex"})
    /\ UNCHANGED <<tx, editor>>

\* invalidateRelatedPageSource: a photo or other group member's page changed.
ChangeRelatedPages ==
    /\ "relatedPages" \in Edits /\ doc.source < MaxSource
    /\ doc' = [doc EXCEPT !.source = doc.source + 1]
    /\ UNCHANGED <<tx, md, en, ex, dirty, revision, runRevision, job, derived, editor>>

-----------------------------------------------------------------------------
(* Time and crashes. *)

\* The database clock passes a deadline no heartbeat has moved.
Lapse(s) == s.lease = "live"

Lapsed(s) == [s EXCEPT !.lease = "expired"]

steady == <<dirty, revision, runRevision, doc, job, derived, editor>>

ExpireTranscription == Lapse(tx) /\ tx' = Lapsed(tx) /\ UNCHANGED <<md, en, ex, steady>>
ExpireMetadata      == Lapse(md) /\ md' = Lapsed(md) /\ UNCHANGED <<tx, en, ex, steady>>
ExpireEntities      == Lapse(en) /\ en' = Lapsed(en) /\ UNCHANGED <<tx, md, ex, steady>>
ExpireExtra         == Lapse(ex) /\ ex' = Lapsed(ex) /\ UNCHANGED <<tx, md, en, steady>>

Expire == ExpireTranscription \/ ExpireMetadata \/ ExpireEntities \/ ExpireExtra

\* The process behind r dies, or finds itself superseded and stops silently.
Abandon(r) ==
    /\ job[r] # NoJob
    /\ Finish(r)
    /\ UNCHANGED <<row, derived, editor>>

-----------------------------------------------------------------------------
TranscriptionStep(r) ==
    \/ LoadTranscription(r)
    \/ \E text \in Texts : CompleteTranscription(r, text)
    \/ FailTranscription(r)
    \/ WithdrawTranscription(r)

MetadataStep(r) == LoadMetadata(r) \/ CompleteMetadata(r) \/ FailMetadata(r)

EntityStep(r) == LoadEntities(r) \/ CommitEntities(r) \/ FailEntities(r)

ExtraStep(r) == LoadExtra(r) \/ CompleteExtra(r) \/ FailExtra(r) \/ RequeueExtra(r)

\* One step of the process that runs attempt r.
Produce(r) == TranscriptionStep(r) \/ MetadataStep(r) \/ EntityStep(r) \/ ExtraStep(r)

Claim(r) ==
    \/ ClaimQueuedTranscription(r) \/ ClaimRequestedTranscription(r)
    \/ ClaimQueuedMetadata(r)      \/ ClaimRequestedMetadata(r)
    \/ ClaimQueuedEntities(r)      \/ ClaimRequestedEntities(r)
    \/ ClaimQueuedExtra(r)         \/ ClaimRequestedExtra(r)

Recover ==
    RecoverTranscription \/ RecoverMetadata \/ RecoverEntities \/ RecoverExtra

Administer ==
    \/ CancelTranscription \/ CancelMetadata \/ CancelEntities \/ CancelExtra
    \/ RemoveTranscription \/ RemoveMetadata \/ RemoveEntities \/ RemoveExtra
    \/ RetryTranscription  \/ RetryMetadata  \/ RetryEntities  \/ RetryExtra
    \/ \E overwrite \in BOOLEAN : BulkTranscribe(overwrite)
    \/ BulkExtractMetadata \/ BulkClearTranscriptions \/ BulkClearMetadata
    \/ ResetLetter \/ ClearAbsentExtra \/ ConfirmTranscript

Save(e) ==
    \/ \E text \in {"BLANK", "NONBLANK"}, withFields \in BOOLEAN :
           SaveTranscript(e, text, withFields)
    \/ SaveMetadata(e) \/ SaveNotes(e) \/ SaveExtra(e)
    \/ VerifyMetadata(e) \/ UnverifyMetadata(e)

ChangePages == ChangePrimaryPages \/ ChangeExtraPages \/ ChangeRelatedPages

Next ==
    \/ \E r \in Runs : Claim(r) \/ Produce(r) \/ Abandon(r)
    \/ Recover \/ Administer \/ ChangePages \/ Expire
    \/ \E e \in Editors : OpenEditor(e) \/ Save(e) \/ AbandonEdit(e)

Spec == Init /\ [][Next]_vars

\* Nothing renews the lease of a process that is gone.
Orphan(s) == s.run # NoRun /\ job[s.run] = NoJob

\* Provider requests time out, so a producer ends or its process does; the
\* scheduled reconcilers keep scanning for expired leases.
Fairness ==
    /\ \A r \in Runs : WF_vars(Produce(r) \/ Abandon(r))
    /\ WF_vars(Orphan(tx) /\ ExpireTranscription) /\ WF_vars(Orphan(md) /\ ExpireMetadata)
    /\ WF_vars(Orphan(en) /\ ExpireEntities)      /\ WF_vars(Orphan(ex) /\ ExpireExtra)
    /\ WF_vars(RecoverTranscription) /\ WF_vars(RecoverMetadata)
    /\ WF_vars(RecoverEntities)      /\ WF_vars(RecoverExtra)

FairSpec == Spec /\ Fairness

-----------------------------------------------------------------------------
(* Safety. *)

OwnedShape(s) ==
    /\ Running(s) <=> s.run # NoRun
    /\ Running(s) <=> s.lease # "none"
    /\ Running(s) <=> s.kind # "none"

(* The CHECK constraints on the letters table hold of every row the code     *)
(* writes: a violated one would abort a worker or a reviewer's save.         *)
ChecksHold ==
    /\ OwnedShape(tx) /\ OwnedShape(md) /\ OwnedShape(en) /\ OwnedShape(ex)
    /\ runRevision = (IF Running(md) THEN revision ELSE NoRevision)
    /\ dirty => Running(ex)

(* Attempts that read what another one writes never hold the row together:   *)
(* only a transcription and an extra-content attempt may overlap.            *)
StagesExclude ==
    /\ Running(tx) => ~Running(md) /\ ~Running(en)
    /\ Running(md) => ~Running(en) /\ ~Running(ex)
    /\ Running(en) => ~Running(ex) /\ md.status = "SUCCESS"

(* Metadata is only ever extracted from a confirmed, nonblank transcript.    *)
MetadataIsGated == Running(md) => doc.confirmed /\ HasText

(* A stage that still owns the row and has loaded its input would publish a  *)
(* result of the current input, or is fenced off from publishing.            *)
OwnersReadCurrentInput ==
    \A r \in Runs :
        job[r].input = "stale" => /\ ~Holds(tx, r) /\ ~Holds(md, r) /\ ~Holds(en, r)
                                  /\ Holds(ex, r) => dirty

(* A transcription, entity projection or extra-content transcript marked     *)
(* SUCCESS reflects the pages, text and metadata the row now holds, or a     *)
(* human's replacement of them.                                              *)
ResultsAreCurrent ==
    /\ tx.status = "SUCCESS" => derived["tx"]
    /\ en.status = "SUCCESS" => derived["en"]
    /\ ex.status = "SUCCESS" => derived["ex"]

(* Metadata marked SUCCESS, which is what a reviewer may verify, was derived *)
(* from the current transcript and extra content.                            *)
MetadataIsCurrent == md.status = "SUCCESS" => derived["md"]

(* A save the compare-and-set admits was computed from a row whose text,     *)
(* extra text and metadata nobody has replaced since.                        *)
SavesSeeWhatTheyReplace ==
    \A e \in Editors : editor[e].open /\ SaveAdmitted(e) => editor[e].fresh

(* Confirmed metadata work that waits for no transcription is in the state   *)
(* the worker scans for.                                                     *)
PendingMetadataIsQueued ==
    md.status = "PENDING" /\ doc.confirmed /\ HasText
        /\ tx.status \in {"SUCCESS", "FAILED"} => doc.workflow = "TRANSCRIBED"

(* A letter whose transcription is due is in the state the worker scans for. *)
PendingTranscriptionIsQueued ==
    tx.status = "PENDING" => doc.workflow = "UPLOADED"

-----------------------------------------------------------------------------
(* Action properties. *)

(* Requested work is never silently turned into automatic work: a REQUESTED  *)
(* attempt leaves for PENDING only because its source changed under it: by a *)
(* page change, a human save, or the removal of text without related items.  *)
RequestedIsNotRequeued ==
    [][ /\ tx.kind = "REQUESTED" /\ tx'.status = "PENDING" => doc'.source # doc.source
        /\ md.kind = "REQUESTED" /\ md'.status = "PENDING" =>
             editor' # editor \/ doc'.source # doc.source \/ ClearAbsentExtra
        /\ en.kind = "REQUESTED" => en'.status # "PENDING"
        /\ ex.kind = "REQUESTED" /\ ex'.status = "PENDING" =>
             dirty \/ job[ex.run].source # doc.source ]_vars

(* A stage leaves RUNNING for SUCCESS only by the attempt that owns it under *)
(* a live lease, or by a human save: a recovered, cancelled or superseded    *)
(* attempt never publishes.                                                  *)
Published(s, t) == s.status # "SUCCESS" /\ t.status = "SUCCESS"

OnlyLiveOwnersPublish ==
    [][ \A p \in {<<tx, tx'>>, <<md, md'>>, <<en, en'>>, <<ex, ex'>>} :
            Published(p[1], p[2]) =>
                \/ p[1].lease = "live" /\ job[p[1].run] # NoJob
                                       /\ job'[p[1].run] = NoJob
                \/ \E e \in Editors : editor[e].open /\ ~editor'[e].open ]_vars

-----------------------------------------------------------------------------
(* Liveness. *)

RunHeld(r) == r \in {tx.run, md.run, en.run, ex.run}

(* No attempt keeps a letter RUNNING for ever, whatever crashes.             *)
AttemptsEnd == \A r \in Runs : RunHeld(r) ~> ~RunHeld(r)

=============================================================================
