---------------------- MODULE LetterProcessing_proofs ----------------------
(***************************************************************************)
(* Safety of the processing row for any number of runs and editors, any    *)
(* set of enabled operations and any bounds.  The invariants are proved in *)
(* layers, each using the ones before it:                                  *)
(*   TypeOK, RowShape (ownership columns and exclusion between stages),    *)
(*   AttemptsMatch (memory of a process against the row), ResultsAreCurrent*)
(*   and EditorsLag (a save in flight against the revision).               *)
(***************************************************************************)
EXTENDS LetterProcessing, TLAPS

(* The values the actions give a slot, a job and an editor are of the right  *)
(* type; cited so that the action proofs need not expand the records.        *)
LEMMA SlotValues ==
    /\ {Idle("PENDING"), Idle("SUCCESS"), Idle("FAILED")} \subseteq Slot
    /\ \A status \in Statuses \ {"RUNNING"} : Idle(status) \in Slot
    /\ \A r \in Runs, kind \in ClaimKinds : Claimed(r, kind) \in Slot
    /\ \A s \in Slot : Lapsed(s) \in Slot
BY DEF Idle, Claimed, Lapsed, Slot, Statuses, ClaimKinds

LEMMA JobValues ==
    ASSUME TypeOK
    PROVE  /\ \A r \in Runs : [job EXCEPT ![r] = NoJob] \in [Runs -> Job]
           /\ \A r \in Runs : [job EXCEPT ![r].input = "current"] \in [Runs -> Job]
           /\ \A stages \in SUBSET Stages : Outdated(stages) \in [Runs -> Job]
           /\ \A r \in Runs, stages \in SUBSET Stages :
                 [Outdated(stages) EXCEPT ![r] = NoJob] \in [Runs -> Job]
           /\ \A r \in Runs, stage \in Stages, source \in Nat \union {NoSource} :
                 [job EXCEPT ![r] = [stage |-> stage, source |-> source,
                                     input |-> "unread"]] \in [Runs -> Job]
BY DEF TypeOK, Job, NoJob, Outdated, Stages

LEMMA EditorValues ==
    ASSUME TypeOK
    PROVE  /\ Overtaken \in [Editors -> Editor]
           /\ \A e \in Editors : Saved(e) \in [Editors -> Editor]
           /\ \A e \in Editors : [editor EXCEPT ![e] = ClosedEditor] \in [Editors -> Editor]
BY DEF TypeOK, Editor, Overtaken, Saved, ClosedEditor

LEMMA DerivedValues ==
    ASSUME TypeOK
    PROVE  /\ \A stages \in SUBSET Stages : Underived(stages) \in [Stages -> BOOLEAN]
           /\ \A stages \in SUBSET Stages, s \in Stages, b \in BOOLEAN :
                 /\ [Underived(stages) EXCEPT ![s] = b] \in [Stages -> BOOLEAN]
                 /\ [derived EXCEPT ![s] = b] \in [Stages -> BOOLEAN]
           /\ \A r \in Runs : UsedCurrentInput(r) \in BOOLEAN
BY DEF TypeOK, Underived, UsedCurrentInput

(* The patches shared by several writers keep the types.                     *)
LEMMA PatchTypes ==
    ASSUME TypeOK
    PROVE  /\ DowngradedContent \in Contents
           /\ {InvalidatedWorkflow, RestoredWorkflow, RevokedTranscriptionWorkflow,
               HumanMetadataWorkflow} \subseteq Workflows
           /\ NotesMetadataStatus \in Statuses \ {"RUNNING"}
           /\ WithdrawnEntities \in Slot
BY SlotValues DEF TypeOK, Slot, Doc, Workflows, Contents, Statuses, DowngradedContent,
    InvalidatedWorkflow, RestoredWorkflow, RevokedTranscriptionWorkflow,
    HumanMetadataWorkflow, NotesMetadataStatus, WithdrawnEntities, Running

LEMMA InvalidateTypes ==
    ASSUME TypeOK, InvalidateMetadata
    PROVE  /\ md' \in Slot /\ en' \in Slot
           /\ revision' \in Nat /\ runRevision' \in Nat \union {NoRevision}
BY SlotValues, PatchTypes DEF TypeOK, InvalidateMetadata, Statuses

LEMMA EndMetadataTypes ==
    ASSUME TypeOK, NEW status \in Statuses \ {"RUNNING"}, NEW workflow \in Workflows,
           EndMetadata(status, workflow)
    PROVE  /\ md' \in Slot /\ doc' \in Doc
           /\ revision' \in Nat /\ runRevision' \in Nat \union {NoRevision}
BY SlotValues DEF TypeOK, EndMetadata, Doc

-----------------------------------------------------------------------------
(* TypeOK, one lemma per group of actions.                                   *)

LEMMA TranscriptionTypes ==
    ASSUME TypeOK, NEW r \in Runs,
           \/ ClaimQueuedTranscription(r) \/ ClaimRequestedTranscription(r)
           \/ TranscriptionStep(r)
    PROVE  TypeOK'
<1>1. CASE ClaimQueuedTranscription(r)
  BY <1>1, SlotValues, JobValues
     DEF TypeOK, ClaimQueuedTranscription, Begin, Doc, Workflows, ClaimKinds, Stages
<1>2. CASE ClaimRequestedTranscription(r)
  BY <1>2, SlotValues, JobValues
     DEF TypeOK, ClaimRequestedTranscription, Begin, Doc, ClaimKinds, Stages
<1>3. CASE LoadTranscription(r)
  BY <1>3, JobValues DEF TypeOK, LoadTranscription, row
<1>4. ASSUME NEW text \in Texts, CompleteTranscription(r, text) PROVE TypeOK'
  <2>1. tx' \in Slot /\ doc' \in Doc
    BY <1>4, SlotValues, PatchTypes
       DEF TypeOK, CompleteTranscription, Doc, Statuses, Workflows
  <2>2. {"md", "en"} \subseteq Stages /\ "tx" \in Stages
    BY DEF Stages
  <2>3. derived' \in [Stages -> BOOLEAN]
    BY <1>4, <2>2, DerivedValues DEF CompleteTranscription
  <2> QED
    BY <1>4, <2>1, <2>2, <2>3, InvalidateTypes, JobValues, EditorValues
       DEF TypeOK, CompleteTranscription
<1>5. CASE FailTranscription(r)
  BY <1>5, SlotValues, JobValues, PatchTypes
     DEF TypeOK, FailTranscription, RevokeTranscription, Finish, Doc, Statuses
<1>6. CASE WithdrawTranscription(r)
  BY <1>6, SlotValues, JobValues, PatchTypes
     DEF TypeOK, WithdrawTranscription, RevokeTranscription, Finish, Doc, Statuses
<1> QED BY <1>1, <1>2, <1>3, <1>4, <1>5, <1>6 DEF TranscriptionStep

LEMMA MetadataTypes ==
    ASSUME TypeOK, NEW r \in Runs,
           ClaimQueuedMetadata(r) \/ ClaimRequestedMetadata(r) \/ MetadataStep(r)
    PROVE  TypeOK'
<1>1. ASSUME NEW kind \in ClaimKinds, ClaimMetadata(r, kind) PROVE TypeOK'
  BY <1>1, SlotValues, JobValues
     DEF TypeOK, ClaimMetadata, Begin, Doc, Workflows, Stages, Statuses
<1>2. CASE ClaimQueuedMetadata(r)
  BY <1>1, <1>2 DEF ClaimQueuedMetadata, ClaimKinds
<1>3. CASE ClaimRequestedMetadata(r)
  BY <1>1, <1>3 DEF ClaimRequestedMetadata, ClaimKinds
<1>4. CASE LoadMetadata(r)
  BY <1>4, JobValues DEF TypeOK, LoadMetadata, row
<1>5. CASE CompleteMetadata(r)
  <2>1. md' \in Slot /\ doc' \in Doc
    BY <1>5, SlotValues DEF TypeOK, CompleteMetadata, Doc, Statuses, Workflows, Contents
  <2>2. {"en"} \subseteq Stages /\ "md" \in Stages
    BY DEF Stages
  <2>3. derived' \in [Stages -> BOOLEAN]
    BY <1>5, <2>2, DerivedValues DEF CompleteMetadata
  <2> QED
    BY <1>5, <2>1, <2>2, <2>3, JobValues, EditorValues DEF TypeOK, CompleteMetadata
<1>6. CASE FailMetadata(r)
  BY <1>6, EndMetadataTypes, PatchTypes, JobValues
     DEF TypeOK, FailMetadata, Finish, Statuses
<1> QED BY <1>2, <1>3, <1>4, <1>5, <1>6 DEF MetadataStep

LEMMA EntityTypes ==
    ASSUME TypeOK, NEW r \in Runs,
           ClaimQueuedEntities(r) \/ ClaimRequestedEntities(r) \/ EntityStep(r)
    PROVE  TypeOK'
<1>1. ASSUME NEW kind \in ClaimKinds, ClaimEntities(r, kind) PROVE TypeOK'
  BY <1>1, SlotValues, JobValues DEF TypeOK, ClaimEntities, Begin, Stages
<1>2. CASE ClaimQueuedEntities(r)
  BY <1>1, <1>2 DEF ClaimQueuedEntities, ClaimKinds
<1>3. CASE ClaimRequestedEntities(r)
  BY <1>1, <1>3 DEF ClaimRequestedEntities, ClaimKinds
<1>4. CASE LoadEntities(r)
  BY <1>4, JobValues DEF TypeOK, LoadEntities, row
<1>5. CASE CommitEntities(r)
  <2>1. derived' \in [Stages -> BOOLEAN]
    BY <1>5, DerivedValues DEF CommitEntities, Stages
  <2> QED
    BY <1>5, <2>1, SlotValues, JobValues DEF TypeOK, CommitEntities, Finish, Statuses
<1>6. CASE FailEntities(r)
  BY <1>6, SlotValues, JobValues DEF TypeOK, FailEntities, Finish, Statuses
<1> QED BY <1>2, <1>3, <1>4, <1>5, <1>6 DEF EntityStep

LEMMA ExtraTypes ==
    ASSUME TypeOK, NEW r \in Runs,
           ClaimQueuedExtra(r) \/ ClaimRequestedExtra(r) \/ ExtraStep(r)
    PROVE  TypeOK'
<1>1. ASSUME NEW kind \in ClaimKinds, ClaimExtra(r, kind) PROVE TypeOK'
  BY <1>1, SlotValues, JobValues DEF TypeOK, ClaimExtra, Begin, Stages, Doc
<1>2. CASE ClaimQueuedExtra(r)
  BY <1>1, <1>2 DEF ClaimQueuedExtra, ClaimKinds
<1>3. CASE ClaimRequestedExtra(r)
  BY <1>1, <1>3 DEF ClaimRequestedExtra, ClaimKinds
<1>4. CASE LoadExtra(r)
  BY <1>4, JobValues DEF TypeOK, LoadExtra, row
<1>5. CASE CompleteExtra(r)
  <2>1. ex' \in Slot /\ doc' \in Doc
    BY <1>5, SlotValues, PatchTypes DEF TypeOK, CompleteExtra, Doc, Statuses
  <2>2. {"md", "en"} \subseteq Stages /\ "ex" \in Stages
    BY DEF Stages
  <2>3. derived' \in [Stages -> BOOLEAN]
    BY <1>5, <2>2, DerivedValues DEF CompleteExtra
  <2> QED
    BY <1>5, <2>1, <2>2, <2>3, InvalidateTypes, JobValues, EditorValues
       DEF TypeOK, CompleteExtra
<1>6. CASE FailExtra(r)
  BY <1>6, SlotValues, JobValues DEF TypeOK, FailExtra, Finish, Statuses
<1>7. CASE RequeueExtra(r)
  BY <1>7, SlotValues, JobValues DEF TypeOK, RequeueExtra, Finish, Statuses
<1> QED BY <1>2, <1>3, <1>4, <1>5, <1>6, <1>7 DEF ExtraStep

LEMMA RecoverTypes ==
    ASSUME TypeOK, Recover
    PROVE  TypeOK'
<1>1. CASE RecoverTranscription
  BY <1>1, SlotValues DEF TypeOK, RecoverTranscription, Doc, Workflows, Statuses
<1>2. CASE RecoverMetadata
  BY <1>2, EndMetadataTypes, PatchTypes DEF TypeOK, RecoverMetadata, Statuses, Workflows
<1>3. CASE RecoverEntities
  BY <1>3, SlotValues DEF TypeOK, RecoverEntities, Statuses
<1>4. CASE RecoverExtra
  BY <1>4, SlotValues DEF TypeOK, RecoverExtra, Statuses
<1> QED BY <1>1, <1>2, <1>3, <1>4 DEF Recover

\* The queue operations of one letter: cancel, remove, retry.
QueueOperation ==
    \/ CancelTranscription \/ CancelMetadata \/ CancelEntities \/ CancelExtra
    \/ RemoveTranscription \/ RemoveMetadata \/ RemoveEntities \/ RemoveExtra
    \/ RetryTranscription  \/ RetryMetadata  \/ RetryEntities  \/ RetryExtra

LEMMA QueueOperationTypes ==
    ASSUME TypeOK, QueueOperation
    PROVE  TypeOK'
<1>1. CASE CancelTranscription
  BY <1>1, SlotValues, PatchTypes
     DEF TypeOK, CancelTranscription, RevokeTranscription, Doc, Statuses
<1>2. CASE RemoveTranscription
  BY <1>2, SlotValues DEF TypeOK, RemoveTranscription, Statuses
<1>3. CASE RetryTranscription
  BY <1>3, SlotValues DEF TypeOK, RetryTranscription, Doc, Workflows, Statuses
<1>4. CASE CancelMetadata
  BY <1>4, EndMetadataTypes, PatchTypes DEF TypeOK, CancelMetadata, Statuses
<1>5. CASE RemoveMetadata
  BY <1>5, EndMetadataTypes DEF TypeOK, RemoveMetadata, Doc, Statuses
<1>6. CASE RetryMetadata
  BY <1>6, EndMetadataTypes DEF TypeOK, RetryMetadata, Statuses, Workflows
<1>7. CASE CancelEntities \/ RemoveEntities \/ RetryEntities
  BY <1>7, SlotValues
     DEF TypeOK, CancelEntities, RemoveEntities, RetryEntities, Statuses
<1>8. CASE CancelExtra \/ RemoveExtra \/ RetryExtra
  BY <1>8, SlotValues DEF TypeOK, CancelExtra, RemoveExtra, RetryExtra, Statuses
<1> QED BY <1>1, <1>2, <1>3, <1>4, <1>5, <1>6, <1>7, <1>8 DEF QueueOperation

\* The other administrative operations.
LetterOperation ==
    \/ \E overwrite \in BOOLEAN : BulkTranscribe(overwrite)
    \/ BulkExtractMetadata \/ BulkClearTranscriptions \/ BulkClearMetadata
    \/ ResetLetter \/ ClearAbsentExtra \/ ConfirmTranscript

LEMMA LetterOperationTypes ==
    ASSUME TypeOK, LetterOperation
    PROVE  TypeOK'
<1>1. ASSUME NEW overwrite \in BOOLEAN, BulkTranscribe(overwrite) PROVE TypeOK'
  BY <1>1, SlotValues DEF TypeOK, BulkTranscribe, Doc, Workflows, Statuses
<1>2. CASE BulkExtractMetadata
  BY <1>2, EndMetadataTypes DEF TypeOK, BulkExtractMetadata, Doc, Statuses
<1>3. CASE BulkClearTranscriptions
  <2>1. doc' \in Doc
    BY <1>3 DEF TypeOK, BulkClearTranscriptions, Doc, Workflows, Texts, Contents
  <2>2. derived' \in [Stages -> BOOLEAN] /\ job' \in [Runs -> Job]
    BY <1>3, DerivedValues, JobValues DEF BulkClearTranscriptions, Stages
  <2> QED
    <3>1. tx' \in Slot /\ md' \in Slot /\ en' \in Slot /\ ex' \in Slot
      BY <1>3, SlotValues DEF BulkClearTranscriptions
    <3>2. dirty' = FALSE /\ revision' = revision + 1 /\ runRevision' = NoRevision
      BY <1>3 DEF BulkClearTranscriptions
    <3>3. editor' \in [Editors -> Editor]
      BY <1>3, EditorValues DEF BulkClearTranscriptions
    <3>4. revision + 1 \in Nat
      BY DEF TypeOK
    <3> QED BY <2>1, <2>2, <3>1, <3>2, <3>3, <3>4, Zenon DEF TypeOK
<1>4. CASE BulkClearMetadata
  <2>1. doc' \in Doc
    BY <1>4 DEF TypeOK, BulkClearMetadata, Doc, Workflows, Contents
  <2>2. derived' \in [Stages -> BOOLEAN] /\ job' \in [Runs -> Job]
    BY <1>4, DerivedValues, JobValues DEF BulkClearMetadata, Stages
  <2> QED
    BY <1>4, <2>1, <2>2, SlotValues, EditorValues DEF TypeOK, BulkClearMetadata, Statuses
<1>5. CASE ResetLetter
  <2>1. doc' \in Doc
    BY <1>5 DEF TypeOK, ResetLetter, Doc, Workflows, Contents
  <2> QED BY <1>5, <2>1, SlotValues DEF TypeOK, ResetLetter
<1>6. CASE ClearAbsentExtra
  <2>1. doc' \in Doc
    BY <1>6, PatchTypes DEF TypeOK, ClearAbsentExtra, Doc
  <2>2. derived' \in [Stages -> BOOLEAN] /\ job' \in [Runs -> Job]
    BY <1>6, DerivedValues, JobValues DEF ClearAbsentExtra, Stages
  <2> QED
    BY <1>6, <2>1, <2>2, InvalidateTypes, EditorValues DEF TypeOK, ClearAbsentExtra
<1>7. CASE ConfirmTranscript
  <2>1. doc' \in Doc
    BY <1>7 DEF TypeOK, ConfirmTranscript, Doc
  <2>2. /\ md' \in Slot /\ en' \in Slot
        /\ revision' \in Nat /\ runRevision' \in Nat \union {NoRevision}
    BY <1>7, SlotValues DEF TypeOK, ConfirmTranscript
  <2> QED BY <1>7, <2>1, <2>2 DEF TypeOK, ConfirmTranscript
<1> QED BY <1>1, <1>2, <1>3, <1>4, <1>5, <1>6, <1>7 DEF LetterOperation

LEMMA SaveTypes ==
    ASSUME TypeOK, NEW e \in Editors, OpenEditor(e) \/ Save(e) \/ AbandonEdit(e)
    PROVE  TypeOK'
<1>1. CASE OpenEditor(e)
  BY <1>1 DEF TypeOK, OpenEditor, Editor, Doc, row
<1>2. CASE AbandonEdit(e)
  BY <1>2, EditorValues DEF TypeOK, AbandonEdit, row
<1>3. ASSUME NEW text \in {"BLANK", "NONBLANK"}, NEW withFields \in BOOLEAN,
             SaveTranscript(e, text, withFields)
      PROVE  TypeOK'
  <2>1. doc' \in Doc
    BY <1>3, PatchTypes DEF TypeOK, SaveTranscript, Doc, Workflows, Texts, Contents
  <2>2. derived' \in [Stages -> BOOLEAN] /\ job' \in [Runs -> Job]
    BY <1>3, DerivedValues, JobValues DEF SaveTranscript, Stages
  <2> QED
    BY <1>3, <2>1, <2>2, InvalidateTypes, SlotValues, EditorValues
       DEF TypeOK, SaveTranscript, Statuses
<1>4. CASE SaveMetadata(e)
  <2>1. doc' \in Doc
    BY <1>4, PatchTypes DEF TypeOK, SaveMetadata, Doc, Contents
  <2>2. derived' \in [Stages -> BOOLEAN] /\ job' \in [Runs -> Job]
    BY <1>4, DerivedValues, JobValues DEF SaveMetadata, Stages
  <2>3. md' \in Slot
    BY <1>4, SlotValues DEF TypeOK, SaveMetadata, Statuses, Slot, Running
  <2> QED
    BY <1>4, <2>1, <2>2, <2>3, PatchTypes, EditorValues DEF TypeOK, SaveMetadata
<1>5. CASE SaveNotes(e)
  BY <1>5, EndMetadataTypes, PatchTypes, EditorValues DEF TypeOK, SaveNotes, Doc
<1>6. CASE SaveExtra(e)
  <2>1. doc' \in Doc
    BY <1>6, PatchTypes DEF TypeOK, SaveExtra, Doc
  <2>2. derived' \in [Stages -> BOOLEAN] /\ job' \in [Runs -> Job]
    BY <1>6, DerivedValues, JobValues DEF SaveExtra, Stages
  <2> QED
    BY <1>6, <2>1, <2>2, InvalidateTypes, SlotValues, EditorValues
       DEF TypeOK, SaveExtra, Statuses
<1>7. CASE VerifyMetadata(e) \/ UnverifyMetadata(e)
  <2>1. doc' \in Doc
    BY <1>7 DEF TypeOK, VerifyMetadata, UnverifyMetadata, Doc, Contents
  <2>2. editor' \in [Editors -> Editor] /\ revision' \in Nat
    BY <1>7, EditorValues DEF TypeOK, VerifyMetadata, UnverifyMetadata
  <2> QED BY <1>7, <2>1, <2>2 DEF TypeOK, VerifyMetadata, UnverifyMetadata
<1> QED BY <1>1, <1>2, <1>3, <1>4, <1>5, <1>6, <1>7 DEF Save

LEMMA PageTypes ==
    ASSUME TypeOK, ChangePages
    PROVE  TypeOK'
<1>1. CASE ChangePrimaryPages
  <2>4. doc.source + 1 \in Nat
    BY DEF TypeOK, Doc
  <2>1. doc' \in Doc
    BY <1>1, <2>4, PatchTypes, Zenon DEF TypeOK, ChangePrimaryPages, Doc, Workflows
  <2>2. derived' \in [Stages -> BOOLEAN] /\ job' \in [Runs -> Job]
    BY <1>1, DerivedValues, JobValues DEF ChangePrimaryPages, Stages
  <2> QED
    BY <1>1, <2>1, <2>2, SlotValues, InvalidateTypes DEF TypeOK, ChangePrimaryPages
<1>2. CASE ChangeExtraPages
  <2>4. doc.source + 1 \in Nat
    BY DEF TypeOK, Doc
  <2>1. doc' \in Doc
    BY <1>2, <2>4, PatchTypes, Zenon DEF TypeOK, ChangeExtraPages, Doc
  <2>3. ex' \in Slot /\ dirty' \in BOOLEAN
    BY <1>2, SlotValues DEF TypeOK, ChangeExtraPages, InvalidateExtra, Running
  <2>2. derived' \in [Stages -> BOOLEAN] /\ job' \in [Runs -> Job]
    BY <1>2, DerivedValues, JobValues DEF ChangeExtraPages, Stages
  <2> QED BY <1>2, <2>1, <2>2, <2>3, InvalidateTypes DEF TypeOK, ChangeExtraPages, InvalidateExtra
<1>3. CASE ChangeRelatedPages
  BY <1>3 DEF TypeOK, ChangeRelatedPages, Doc
<1> QED BY <1>1, <1>2, <1>3 DEF ChangePages

LEMMA ExpireTypes ==
    ASSUME TypeOK, Expire
    PROVE  TypeOK'
BY SlotValues DEF TypeOK, Expire, ExpireTranscription, ExpireMetadata, ExpireEntities,
    ExpireExtra, steady

LEMMA AbandonTypes ==
    ASSUME TypeOK, NEW r \in Runs, Abandon(r)
    PROVE  TypeOK'
BY JobValues DEF TypeOK, Abandon, Finish, row

\* The groups of actions, as the lemmas of every layer split Next.
LEMMA NextGroups ==
    ASSUME Next
    PROVE  \/ \E r \in Runs :
                 \/ ClaimQueuedTranscription(r) \/ ClaimRequestedTranscription(r)
                      \/ TranscriptionStep(r)
                 \/ ClaimQueuedMetadata(r) \/ ClaimRequestedMetadata(r) \/ MetadataStep(r)
                 \/ ClaimQueuedEntities(r) \/ ClaimRequestedEntities(r) \/ EntityStep(r)
                 \/ ClaimQueuedExtra(r) \/ ClaimRequestedExtra(r) \/ ExtraStep(r)
                 \/ Abandon(r)
           \/ Recover \/ QueueOperation \/ LetterOperation \/ ChangePages \/ Expire
           \/ \E e \in Editors : OpenEditor(e) \/ Save(e) \/ AbandonEdit(e)
BY DEF Next, Claim, Produce, Administer, QueueOperation, LetterOperation

(* Type correctness: every handler writes the enum members, run ids and      *)
(* revisions the columns are declared with.                                  *)
THEOREM Typed == Spec => []TypeOK
<1>1. Init => TypeOK
  <2> SUFFICES ASSUME Init PROVE TypeOK
    OBVIOUS
  <2>1. doc \in Doc
    BY DEF Init, Doc, Workflows, Texts, Contents
  <2>2. job \in [Runs -> Job]
    BY DEF Init, Job, NoJob
  <2>3. derived \in [Stages -> BOOLEAN] /\ editor \in [Editors -> Editor]
    BY DEF Init, Editor, ClosedEditor
  <2> QED
    BY <2>1, <2>2, <2>3, SlotValues DEF Init, TypeOK
<1>2. TypeOK /\ [Next]_vars => TypeOK'
  <2> SUFFICES ASSUME TypeOK, [Next]_vars PROVE TypeOK'
    OBVIOUS
  <2>1. CASE Next
    BY <2>1, NextGroups, TranscriptionTypes, MetadataTypes, EntityTypes, ExtraTypes,
       AbandonTypes, RecoverTypes, QueueOperationTypes, LetterOperationTypes, PageTypes,
       ExpireTypes, SaveTypes
  <2>2. CASE UNCHANGED vars
    BY <2>2 DEF TypeOK, vars, row
  <2> QED BY <2>1, <2>2
<1> QED BY <1>1, <1>2, PTL DEF Spec

-----------------------------------------------------------------------------
(* RowShape: the ownership columns and the exclusion between stages.  A      *)
(* running metadata attempt reset the entity stage when it claimed the row;  *)
(* without that fact its completion could publish beside an older SUCCESS.   *)

EntitiesWait == Running(md) => en.status = "PENDING"

RowShape == ChecksHold /\ StagesExclude /\ MetadataIsGated /\ EntitiesWait

LEMMA TranscriptionShape ==
    ASSUME TypeOK, RowShape, NEW r \in Runs,
           \/ ClaimQueuedTranscription(r) \/ ClaimRequestedTranscription(r)
           \/ TranscriptionStep(r)
    PROVE  RowShape'
<1> USE DEF RowShape, ChecksHold, OwnedShape, StagesExclude, MetadataIsGated, EntitiesWait,
            Running, HasText
<1>0. r # NoRun
  BY ConstantsAssumption
<1>1. CASE ClaimQueuedTranscription(r)
  BY <1>0, <1>1 DEF ClaimQueuedTranscription, TranscriptionPrerequisites, QueuedTranscription,
     Claimed
<1>2. CASE ClaimRequestedTranscription(r)
  BY <1>0, <1>2 DEF ClaimRequestedTranscription, TranscriptionPrerequisites, Claimed
<1>3. CASE LoadTranscription(r)
  BY <1>3 DEF LoadTranscription, row
<1>4. ASSUME NEW text \in Texts, CompleteTranscription(r, text) PROVE RowShape'
  BY <1>4 DEF CompleteTranscription, InvalidateMetadata, WithdrawnEntities, Idle
<1>5. CASE FailTranscription(r)
  BY <1>5 DEF FailTranscription, RevokeTranscription, Live, Holds, Idle
<1>6. CASE WithdrawTranscription(r)
  BY <1>6 DEF WithdrawTranscription, RevokeTranscription, Holds, Idle
<1> QED BY <1>1, <1>2, <1>3, <1>4, <1>5, <1>6 DEF TranscriptionStep

LEMMA MetadataShape ==
    ASSUME TypeOK, RowShape, NEW r \in Runs,
           ClaimQueuedMetadata(r) \/ ClaimRequestedMetadata(r) \/ MetadataStep(r)
    PROVE  RowShape'
<1> USE DEF RowShape, ChecksHold, OwnedShape, StagesExclude, MetadataIsGated, EntitiesWait,
            Running, HasText
<1>0. r # NoRun
  BY ConstantsAssumption
<1>1. ASSUME NEW kind \in ClaimKinds, MetadataPrerequisites, ClaimMetadata(r, kind)
      PROVE  RowShape'
  BY <1>0, <1>1 DEF ClaimMetadata, MetadataPrerequisites, Claimed, Idle, ClaimKinds, TypeOK, Doc
<1>2. CASE ClaimQueuedMetadata(r)
  BY <1>1, <1>2 DEF ClaimQueuedMetadata, QueuedMetadata, ClaimKinds
<1>3. CASE ClaimRequestedMetadata(r)
  BY <1>1, <1>3 DEF ClaimRequestedMetadata, ClaimKinds
<1>4. CASE LoadMetadata(r)
  BY <1>4 DEF LoadMetadata, row
<1>5. CASE CompleteMetadata(r)
  BY <1>5 DEF CompleteMetadata, Live, Holds, Idle
<1>6. CASE FailMetadata(r)
  BY <1>6 DEF FailMetadata, EndMetadata, Live, Holds, Idle
<1> QED BY <1>2, <1>3, <1>4, <1>5, <1>6 DEF MetadataStep

LEMMA EntityShape ==
    ASSUME TypeOK, RowShape, NEW r \in Runs,
           ClaimQueuedEntities(r) \/ ClaimRequestedEntities(r) \/ EntityStep(r)
    PROVE  RowShape'
<1> USE DEF RowShape, ChecksHold, OwnedShape, StagesExclude, MetadataIsGated, EntitiesWait,
            Running, HasText
<1>0. r # NoRun
  BY ConstantsAssumption
<1>1. ASSUME NEW kind \in ClaimKinds, EntityPrerequisites, ClaimEntities(r, kind)
      PROVE  RowShape'
  BY <1>0, <1>1 DEF ClaimEntities, EntityPrerequisites, Claimed, ClaimKinds
<1>2. CASE ClaimQueuedEntities(r)
  BY <1>1, <1>2 DEF ClaimQueuedEntities, QueuedEntities, ClaimKinds
<1>3. CASE ClaimRequestedEntities(r)
  BY <1>1, <1>3 DEF ClaimRequestedEntities, ClaimKinds
<1>4. CASE LoadEntities(r)
  BY <1>4 DEF LoadEntities, row
<1>5. CASE CommitEntities(r) \/ FailEntities(r)
  BY <1>5 DEF CommitEntities, FailEntities, Live, Holds, Idle
<1> QED BY <1>2, <1>3, <1>4, <1>5 DEF EntityStep

LEMMA ExtraShape ==
    ASSUME TypeOK, RowShape, NEW r \in Runs,
           ClaimQueuedExtra(r) \/ ClaimRequestedExtra(r) \/ ExtraStep(r)
    PROVE  RowShape'
<1> USE DEF RowShape, ChecksHold, OwnedShape, StagesExclude, MetadataIsGated, EntitiesWait,
            Running, HasText
<1>0. r # NoRun
  BY ConstantsAssumption
<1>1. ASSUME NEW kind \in ClaimKinds, ExtraPrerequisites, ~Running(en), ClaimExtra(r, kind)
      PROVE  RowShape'
  BY <1>0, <1>1 DEF ClaimExtra, ExtraPrerequisites, Claimed, ClaimKinds
<1>2. CASE ClaimQueuedExtra(r)
  BY <1>1, <1>2 DEF ClaimQueuedExtra, QueuedExtra, ClaimKinds
<1>3. CASE ClaimRequestedExtra(r)
  BY <1>1, <1>3 DEF ClaimRequestedExtra, ClaimKinds
<1>4. CASE LoadExtra(r)
  BY <1>4 DEF LoadExtra, row
<1>5. CASE CompleteExtra(r)
  BY <1>5 DEF CompleteExtra, InvalidateMetadata, WithdrawnEntities, Idle
<1>6. CASE FailExtra(r) \/ RequeueExtra(r)
  BY <1>6 DEF FailExtra, RequeueExtra, Live, Holds, Idle
<1> QED BY <1>2, <1>3, <1>4, <1>5, <1>6 DEF ExtraStep

LEMMA RecoverShape ==
    ASSUME TypeOK, RowShape, Recover
    PROVE  RowShape'
<1> USE DEF RowShape, ChecksHold, OwnedShape, StagesExclude, MetadataIsGated, EntitiesWait,
            Running, HasText
<1>1. CASE RecoverTranscription
  BY <1>1 DEF RecoverTranscription, Expired, Idle
<1>2. CASE RecoverMetadata
  BY <1>2 DEF RecoverMetadata, EndMetadata, Expired, Idle
<1>3. CASE RecoverEntities
  BY <1>3 DEF RecoverEntities, Expired, Idle
<1>4. CASE RecoverExtra
  BY <1>4 DEF RecoverExtra, Expired, Idle
<1> QED BY <1>1, <1>2, <1>3, <1>4 DEF Recover

LEMMA QueueOperationShape ==
    ASSUME TypeOK, RowShape, QueueOperation
    PROVE  RowShape'
<1> USE DEF RowShape, ChecksHold, OwnedShape, StagesExclude, MetadataIsGated, EntitiesWait,
            Running, HasText
<1>1. CASE CancelTranscription \/ RemoveTranscription \/ RetryTranscription
  BY <1>1 DEF CancelTranscription, RemoveTranscription, RetryTranscription,
     RevokeTranscription, QueuedTranscription, TranscriptionPrerequisites, Idle
<1>2. CASE CancelMetadata
  BY <1>2 DEF CancelMetadata, EndMetadata, Idle
<1>3. CASE RemoveMetadata \/ RetryMetadata
  BY <1>3 DEF RemoveMetadata, RetryMetadata, QueuedMetadata, MetadataPrerequisites,
     EndMetadata, Idle
<1>4. CASE CancelEntities \/ RemoveEntities \/ RetryEntities
  BY <1>4 DEF CancelEntities, RemoveEntities, RetryEntities, QueuedEntities,
     EntityPrerequisites, Idle
<1>5. CASE CancelExtra \/ RemoveExtra \/ RetryExtra
  BY <1>5 DEF CancelExtra, RemoveExtra, RetryExtra, QueuedExtra, ExtraPrerequisites, Idle
<1> QED BY <1>1, <1>2, <1>3, <1>4, <1>5 DEF QueueOperation

LEMMA LetterOperationShape ==
    ASSUME TypeOK, RowShape, LetterOperation
    PROVE  RowShape'
<1> USE DEF RowShape, ChecksHold, OwnedShape, StagesExclude, MetadataIsGated, EntitiesWait,
            Running, HasText
<1>1. ASSUME NEW overwrite \in BOOLEAN, BulkTranscribe(overwrite) PROVE RowShape'
  BY <1>1 DEF BulkTranscribe, TranscriptionPrerequisites, Idle
<1>2. CASE BulkExtractMetadata
  BY <1>2 DEF BulkExtractMetadata, MetadataPrerequisites, EndMetadata, Idle
<1>3. CASE BulkClearTranscriptions
  BY <1>3 DEF BulkClearTranscriptions, Idle
<1>4. CASE BulkClearMetadata
  BY <1>4 DEF BulkClearMetadata, Idle
<1>5. CASE ResetLetter
  BY <1>5 DEF ResetLetter, TranscriptionPrerequisites, Idle
<1>6. CASE ClearAbsentExtra
  BY <1>6 DEF ClearAbsentExtra, InvalidateMetadata, WithdrawnEntities, Idle
<1>7. CASE ConfirmTranscript
  BY <1>7 DEF ConfirmTranscript, NewlyQueued, Idle, TypeOK, Doc
<1> QED BY <1>1, <1>2, <1>3, <1>4, <1>5, <1>6, <1>7 DEF LetterOperation

LEMMA SaveShape ==
    ASSUME TypeOK, RowShape, NEW e \in Editors, OpenEditor(e) \/ Save(e) \/ AbandonEdit(e)
    PROVE  RowShape'
<1> USE DEF RowShape, ChecksHold, OwnedShape, StagesExclude, MetadataIsGated, EntitiesWait,
            Running, HasText
<1>1. CASE OpenEditor(e) \/ AbandonEdit(e)
  BY <1>1 DEF OpenEditor, AbandonEdit, row
<1>2. ASSUME NEW text \in {"BLANK", "NONBLANK"}, NEW withFields \in BOOLEAN,
             SaveTranscript(e, text, withFields)
      PROVE  RowShape'
  BY <1>2 DEF SaveTranscript, InvalidateMetadata, WithdrawnEntities, Idle
<1>3. CASE SaveMetadata(e)
  BY <1>3 DEF SaveMetadata, WithdrawnEntities, Idle, TypeOK, Slot, Statuses
<1>4. CASE SaveNotes(e)
  BY <1>4 DEF SaveNotes, EndMetadata, NotesMetadataStatus, Idle
<1>5. CASE SaveExtra(e)
  BY <1>5 DEF SaveExtra, InvalidateMetadata, WithdrawnEntities, Idle
<1>6. CASE VerifyMetadata(e) \/ UnverifyMetadata(e)
  BY <1>6 DEF VerifyMetadata, UnverifyMetadata
<1> QED BY <1>1, <1>2, <1>3, <1>4, <1>5, <1>6 DEF Save

LEMMA PageShape ==
    ASSUME TypeOK, RowShape, ChangePages
    PROVE  RowShape'
<1> USE DEF RowShape, ChecksHold, OwnedShape, StagesExclude, MetadataIsGated, EntitiesWait,
            Running, HasText
<1>1. CASE ChangePrimaryPages
  BY <1>1 DEF ChangePrimaryPages, InvalidateMetadata, WithdrawnEntities, Idle
<1>2. CASE ChangeExtraPages
  BY <1>2 DEF ChangeExtraPages, InvalidateExtra, InvalidateMetadata, WithdrawnEntities, Idle
<1>3. CASE ChangeRelatedPages
  BY <1>3 DEF ChangeRelatedPages, TypeOK, Doc
<1> QED BY <1>1, <1>2, <1>3 DEF ChangePages

LEMMA ExpireShape ==
    ASSUME TypeOK, RowShape, Expire
    PROVE  RowShape'
<1> USE DEF RowShape, ChecksHold, OwnedShape, StagesExclude, MetadataIsGated, EntitiesWait,
            Running, HasText
<1> QED
  BY DEF Expire, ExpireTranscription, ExpireMetadata, ExpireEntities, ExpireExtra, Lapse,
     Lapsed, steady, TypeOK, Slot

LEMMA AbandonShape ==
    ASSUME TypeOK, RowShape, NEW r \in Runs, Abandon(r)
    PROVE  RowShape'
<1> USE DEF RowShape, ChecksHold, OwnedShape, StagesExclude, MetadataIsGated, EntitiesWait,
            Running, HasText
<1> QED BY DEF Abandon, row

LEMMA RowShapeInvariant == Spec => []RowShape
<1>1. Init => RowShape
  BY DEF Init, RowShape, ChecksHold, OwnedShape, StagesExclude, MetadataIsGated,
     EntitiesWait, Running, Idle
<1>2. TypeOK /\ RowShape /\ [Next]_vars => RowShape'
  <2> SUFFICES ASSUME TypeOK, RowShape, [Next]_vars PROVE RowShape'
    OBVIOUS
  <2>1. CASE Next
    BY <2>1, NextGroups, TranscriptionShape, MetadataShape, EntityShape, ExtraShape,
       AbandonShape, RecoverShape, QueueOperationShape, LetterOperationShape, PageShape,
       ExpireShape, SaveShape
  <2>2. CASE UNCHANGED vars
    BY <2>2 DEF RowShape, ChecksHold, OwnedShape, StagesExclude, MetadataIsGated,
       EntitiesWait, Running, HasText, vars, row
  <2> QED BY <2>1, <2>2
<1> QED BY <1>1, <1>2, Typed, PTL DEF Spec

(* No write of any handler, in any interleaving, violates a CHECK constraint *)
(* of the letters table.                                                     *)
THEOREM ChecksNeverFail == Spec => []ChecksHold
BY RowShapeInvariant, PTL DEF RowShape

(* Attempts whose inputs and outputs conflict never hold the row together.   *)
THEOREM StagesExcludeEachOther == Spec => []StagesExclude
BY RowShapeInvariant, PTL DEF RowShape

(* Metadata only ever runs on a confirmed, nonblank transcript.              *)
THEOREM MetadataIsAlwaysGated == Spec => []MetadataIsGated
BY RowShapeInvariant, PTL DEF RowShape

-----------------------------------------------------------------------------
(* AttemptsMatch: a process that still exists believes it runs the stage     *)
(* whose columns name its run.  OwnersReadCurrentInput is inductive only     *)
(* with it, because an overwrite marks memory stale by stage.                *)

AttemptsMatch ==
    \A r \in Runs : job[r] # NoJob =>
        /\ Holds(tx, r) => job[r].stage = "tx"
        /\ Holds(md, r) => job[r].stage = "md"
        /\ Holds(en, r) => job[r].stage = "en"
        /\ Holds(ex, r) => job[r].stage = "ex"

Attempts == AttemptsMatch /\ OwnersReadCurrentInput

\* What every action but a claim does to attempts: nobody gains a stage, ...
NoNewOwner ==
    \A r \in Runs : /\ Holds(tx', r) => Holds(tx, r)
                    /\ Holds(md', r) => Holds(md, r)
                    /\ Holds(en', r) => Holds(en, r)
                    /\ Holds(ex', r) => Holds(ex, r)

\* ... a job is dropped, kept, or kept with another input, stale only for
\* the attempts at the overtaken stages, ...
JobsKept(stages) ==
    \A r \in Runs :
        \/ job'[r] = NoJob
        \/ job'[r] = job[r]
        \/ /\ job[r] # NoJob /\ job'[r].stage = job[r].stage
           /\ job'[r].input = "stale" => job[r].stage \in stages

\* ... and those stages lose their owner or, for extra content, mark it dirty.
Disowned(stages) ==
    /\ "tx" \in stages => ~Running(tx')
    /\ "md" \in stages => ~Running(md')
    /\ "en" \in stages => ~Running(en')
    /\ "ex" \in stages /\ Running(ex') => dirty'

DirtyKept == dirty /\ Running(ex') => dirty'

LEMMA AttemptsKept ==
    ASSUME TypeOK, Attempts, NEW stages \in SUBSET Stages,
           NoNewOwner, JobsKept(stages), Disowned(stages), DirtyKept
    PROVE  Attempts'
<1> SUFFICES ASSUME NEW r \in Runs
             PROVE  /\ job'[r] # NoJob =>
                         /\ Holds(tx', r) => job'[r].stage = "tx"
                         /\ Holds(md', r) => job'[r].stage = "md"
                         /\ Holds(en', r) => job'[r].stage = "en"
                         /\ Holds(ex', r) => job'[r].stage = "ex"
                    /\ job'[r].input = "stale" =>
                         /\ ~Holds(tx', r) /\ ~Holds(md', r) /\ ~Holds(en', r)
                         /\ Holds(ex', r) => dirty'
  BY DEF Attempts, AttemptsMatch, OwnersReadCurrentInput
<1>1. CASE job'[r] = NoJob
  BY <1>1 DEF NoJob
<1>2. CASE job'[r] = job[r]
  BY <1>2 DEF Attempts, AttemptsMatch, OwnersReadCurrentInput, NoNewOwner, DirtyKept, Holds
<1>3. CASE /\ job[r] # NoJob /\ job'[r].stage = job[r].stage
           /\ job'[r].input = "stale" => job[r].stage \in stages
  <2>1. /\ Holds(tx', r) => job'[r].stage = "tx"
        /\ Holds(md', r) => job'[r].stage = "md"
        /\ Holds(en', r) => job'[r].stage = "en"
        /\ Holds(ex', r) => job'[r].stage = "ex"
    BY <1>3 DEF Attempts, AttemptsMatch, NoNewOwner
  <2> QED BY <1>3, <2>1 DEF Disowned, Holds
<1> QED BY <1>1, <1>2, <1>3 DEF JobsKept

LEMMA OutdatedJobs ==
    ASSUME TypeOK, NEW stages \in SUBSET Stages
    PROVE  /\ job' = Outdated(stages) => JobsKept(stages)
           /\ \A r \in Runs :
                job' = [Outdated(stages) EXCEPT ![r] = NoJob] => JobsKept(stages)
<1>1. ASSUME NEW q \in Runs
      PROVE  \/ Outdated(stages)[q] = job[q]
             \/ /\ job[q] # NoJob /\ Outdated(stages)[q].stage = job[q].stage
                /\ job[q].stage \in stages
  <2>1. CASE job[q].stage \in stages /\ job[q].input = "current"
    <3>1. Outdated(stages)[q] = [job[q] EXCEPT !.input = "stale"]
      BY <2>1 DEF Outdated
    <3>2. job[q] \in Job
      BY DEF TypeOK
    <3> QED BY <2>1, <3>1, <3>2 DEF Job, NoJob
  <2>2. CASE ~(job[q].stage \in stages /\ job[q].input = "current")
    BY <2>2 DEF Outdated
  <2> QED BY <2>1, <2>2
<1>2. Outdated(stages) = [q \in Runs |-> Outdated(stages)[q]]
  BY DEF Outdated
<1> HIDE DEF Outdated
<1>3. ASSUME job' = Outdated(stages) PROVE JobsKept(stages)
  BY <1>1, <1>3 DEF JobsKept
<1>4. ASSUME NEW r \in Runs, job' = [Outdated(stages) EXCEPT ![r] = NoJob]
      PROVE  JobsKept(stages)
  <2>1. \A q \in Runs : job'[q] = IF q = r THEN NoJob ELSE Outdated(stages)[q]
    BY <1>2, <1>4
  <2> QED BY <1>1, <2>1 DEF JobsKept
<1> QED BY <1>3, <1>4

LEMMA OtherJobs ==
    ASSUME TypeOK
    PROVE  /\ UNCHANGED job => JobsKept({})
           /\ \A r \in Runs : Finish(r) => JobsKept({})
           /\ \A r \in Runs : job[r].stage # "none"
                /\ job' = [job EXCEPT ![r].input = "current"] => JobsKept({})
BY DEF TypeOK, Job, Finish, JobsKept, NoJob

\* What a claim of r does to attempts: r begins the stage it now holds.
LEMMA ClaimKeepsAttempts ==
    ASSUME TypeOK, Attempts, NEW r \in Runs, NEW stage \in Stages,
           NEW source \in Nat \union {NoSource}, Begin(r, stage, source),
           Holds(tx', r) => stage = "tx", Holds(md', r) => stage = "md",
           Holds(en', r) => stage = "en", Holds(ex', r) => stage = "ex",
           \A q \in Runs \ {r} : /\ Holds(tx', q) => Holds(tx, q)
                                 /\ Holds(md', q) => Holds(md, q)
                                 /\ Holds(en', q) => Holds(en, q)
                                 /\ Holds(ex', q) => Holds(ex, q) /\ (dirty => dirty')
    PROVE  Attempts'
<1>1. /\ job'[r].stage = stage /\ job'[r].input = "unread"
      /\ \A q \in Runs \ {r} : job'[q] = job[q]
  BY DEF Begin, TypeOK
<1>2. AttemptsMatch'
  BY <1>1 DEF Attempts, AttemptsMatch, Holds
<1>3. OwnersReadCurrentInput'
  BY <1>1 DEF Attempts, OwnersReadCurrentInput, Holds
<1> QED BY <1>2, <1>3 DEF Attempts

LEMMA ClaimAttempts ==
    ASSUME TypeOK, RowShape, Attempts, NEW r \in Runs, Claim(r)
    PROVE  Attempts'
<1> USE ConstantsAssumption DEF Stages, Holds, Running, Fresh, Claimed
<1>1. CASE ClaimQueuedTranscription(r) \/ ClaimRequestedTranscription(r)
  <2>1. PICK source \in Nat \union {NoSource} : Begin(r, "tx", source)
    BY <1>1 DEF ClaimQueuedTranscription, ClaimRequestedTranscription, TypeOK, Doc
  <2> QED
    BY <1>1, <2>1, ClaimKeepsAttempts
       DEF ClaimQueuedTranscription, ClaimRequestedTranscription
<1>2. CASE ClaimQueuedMetadata(r) \/ ClaimRequestedMetadata(r)
  BY <1>2, ClaimKeepsAttempts
     DEF ClaimQueuedMetadata, ClaimRequestedMetadata, ClaimMetadata, Idle
<1>3. CASE ClaimQueuedEntities(r) \/ ClaimRequestedEntities(r)
  <2>1. PICK kind : ClaimEntities(r, kind)
    BY <1>3 DEF ClaimQueuedEntities, ClaimRequestedEntities
  <2>2. Fresh(r)
    BY <1>3 DEF ClaimQueuedEntities, ClaimRequestedEntities
  <2> QED
    BY <2>1, <2>2, ClaimKeepsAttempts DEF ClaimEntities
<1>4. CASE ClaimQueuedExtra(r) \/ ClaimRequestedExtra(r)
  <2>1. doc.source \in Nat
    BY DEF TypeOK, Doc
  <2> QED
    BY <1>4, <2>1, ClaimKeepsAttempts
       DEF ClaimQueuedExtra, ClaimRequestedExtra, ClaimExtra
<1> QED BY <1>1, <1>2, <1>3, <1>4 DEF Claim

LEMMA ProducerAttempts ==
    ASSUME TypeOK, RowShape, Attempts, NEW r \in Runs, Produce(r) \/ Abandon(r)
    PROVE  Attempts'
<1> USE DEF NoNewOwner, Disowned, DirtyKept, Holds, Running
<1>1. CASE LoadTranscription(r) \/ LoadMetadata(r) \/ LoadEntities(r) \/ LoadExtra(r)
  <2>1. NoNewOwner /\ Disowned({}) /\ DirtyKept
    BY <1>1 DEF LoadTranscription, LoadMetadata, LoadEntities, LoadExtra, row
  <2>2. JobsKept({})
    BY <1>1, OtherJobs DEF LoadTranscription, LoadMetadata, LoadEntities, LoadExtra
  <2> QED BY <2>1, <2>2, AttemptsKept
<1>2. ASSUME NEW text \in Texts, CompleteTranscription(r, text) PROVE Attempts'
  <2>1. NoNewOwner /\ Disowned({"md", "en"}) /\ DirtyKept
    BY <1>2 DEF CompleteTranscription, InvalidateMetadata, WithdrawnEntities, Idle
  <2>2. JobsKept({"md", "en"})
    BY <1>2, OutdatedJobs DEF CompleteTranscription, Stages
  <2> QED BY <2>1, <2>2, AttemptsKept DEF Stages
<1>3. CASE FailTranscription(r) \/ WithdrawTranscription(r)
  <2>1. NoNewOwner /\ Disowned({}) /\ DirtyKept
    BY <1>3 DEF FailTranscription, WithdrawTranscription, RevokeTranscription, Idle
  <2>2. JobsKept({})
    BY <1>3, OtherJobs DEF FailTranscription, WithdrawTranscription
  <2> QED BY <2>1, <2>2, AttemptsKept
<1>4. CASE CompleteMetadata(r)
  <2>1. NoNewOwner /\ Disowned({"en"}) /\ DirtyKept
    BY <1>4 DEF CompleteMetadata, Live, RowShape, StagesExclude, Idle
  <2>2. JobsKept({"en"})
    BY <1>4, OutdatedJobs DEF CompleteMetadata, Stages
  <2> QED BY <2>1, <2>2, AttemptsKept DEF Stages
<1>5. CASE FailMetadata(r)
  <2>1. NoNewOwner /\ Disowned({}) /\ DirtyKept
    BY <1>5 DEF FailMetadata, EndMetadata, Idle
  <2>2. JobsKept({})
    BY <1>5, OtherJobs DEF FailMetadata
  <2> QED BY <2>1, <2>2, AttemptsKept
<1>6. CASE CommitEntities(r) \/ FailEntities(r)
  <2>1. NoNewOwner /\ Disowned({}) /\ DirtyKept
    BY <1>6 DEF CommitEntities, FailEntities, Idle
  <2>2. JobsKept({})
    BY <1>6, OtherJobs DEF CommitEntities, FailEntities
  <2> QED BY <2>1, <2>2, AttemptsKept
<1>7. CASE CompleteExtra(r)
  <2>1. NoNewOwner /\ Disowned({"md", "en"}) /\ DirtyKept
    BY <1>7 DEF CompleteExtra, InvalidateMetadata, WithdrawnEntities, Idle
  <2>2. JobsKept({"md", "en"})
    BY <1>7, OutdatedJobs DEF CompleteExtra, Stages
  <2> QED BY <2>1, <2>2, AttemptsKept DEF Stages
<1>8. CASE FailExtra(r) \/ RequeueExtra(r)
  <2>1. NoNewOwner /\ Disowned({}) /\ DirtyKept
    BY <1>8 DEF FailExtra, RequeueExtra, Idle
  <2>2. JobsKept({})
    BY <1>8, OtherJobs DEF FailExtra, RequeueExtra
  <2> QED BY <2>1, <2>2, AttemptsKept
<1>9. CASE Abandon(r)
  <2>1. NoNewOwner /\ Disowned({}) /\ DirtyKept
    BY <1>9 DEF Abandon, row
  <2>2. JobsKept({})
    BY <1>9, OtherJobs DEF Abandon
  <2> QED BY <2>1, <2>2, AttemptsKept
<1> QED
  BY <1>1, <1>2, <1>3, <1>4, <1>5, <1>6, <1>7, <1>8, <1>9
     DEF Produce, TranscriptionStep, MetadataStep, EntityStep, ExtraStep

LEMMA RecoverAttempts ==
    ASSUME TypeOK, RowShape, Attempts, Recover
    PROVE  Attempts'
<1> USE DEF NoNewOwner, Disowned, DirtyKept, Holds, Running
<1>1. CASE RecoverTranscription \/ RecoverEntities \/ RecoverExtra
  <2>1. NoNewOwner /\ Disowned({}) /\ DirtyKept
    BY <1>1 DEF RecoverTranscription, RecoverEntities, RecoverExtra, Expired, Idle
  <2>2. JobsKept({})
    BY <1>1, OtherJobs DEF RecoverTranscription, RecoverEntities, RecoverExtra
  <2> QED BY <2>1, <2>2, AttemptsKept
<1>2. CASE RecoverMetadata
  <2>1. NoNewOwner /\ Disowned({}) /\ DirtyKept
    BY <1>2 DEF RecoverMetadata, EndMetadata, Expired, Idle
  <2>2. JobsKept({})
    BY <1>2, OtherJobs DEF RecoverMetadata
  <2> QED BY <2>1, <2>2, AttemptsKept
<1> QED BY <1>1, <1>2 DEF Recover

LEMMA QueueOperationAttempts ==
    ASSUME TypeOK, RowShape, Attempts, QueueOperation
    PROVE  Attempts'
<1> USE DEF NoNewOwner, Disowned, DirtyKept, Holds, Running
<1>1. CASE CancelTranscription \/ RemoveTranscription \/ RetryTranscription
  <2>1. NoNewOwner /\ Disowned({}) /\ DirtyKept
    BY <1>1 DEF CancelTranscription, RemoveTranscription, RetryTranscription, RevokeTranscription, Idle
  <2>2. JobsKept({})
    BY <1>1, OtherJobs DEF CancelTranscription, RemoveTranscription, RetryTranscription
  <2> QED BY <2>1, <2>2, AttemptsKept
<1>2. CASE CancelMetadata \/ RemoveMetadata \/ RetryMetadata
  <2>1. NoNewOwner /\ Disowned({}) /\ DirtyKept
    BY <1>2 DEF CancelMetadata, RemoveMetadata, RetryMetadata, EndMetadata, Idle
  <2>2. JobsKept({})
    BY <1>2, OtherJobs DEF CancelMetadata, RemoveMetadata, RetryMetadata
  <2> QED BY <2>1, <2>2, AttemptsKept
<1>3. CASE CancelEntities \/ RemoveEntities \/ RetryEntities
  <2>1. NoNewOwner /\ Disowned({}) /\ DirtyKept
    BY <1>3 DEF CancelEntities, RemoveEntities, RetryEntities, Idle
  <2>2. JobsKept({})
    BY <1>3, OtherJobs DEF CancelEntities, RemoveEntities, RetryEntities
  <2> QED BY <2>1, <2>2, AttemptsKept
<1>4. CASE CancelExtra \/ RemoveExtra \/ RetryExtra
  <2>1. NoNewOwner /\ Disowned({}) /\ DirtyKept
    BY <1>4 DEF CancelExtra, RemoveExtra, RetryExtra, Idle
  <2>2. JobsKept({})
    BY <1>4, OtherJobs DEF CancelExtra, RemoveExtra, RetryExtra
  <2> QED BY <2>1, <2>2, AttemptsKept
<1> QED BY <1>1, <1>2, <1>3, <1>4 DEF QueueOperation

LEMMA LetterOperationAttempts ==
    ASSUME TypeOK, RowShape, Attempts, LetterOperation
    PROVE  Attempts'
<1> USE DEF NoNewOwner, Disowned, DirtyKept, Holds, Running
<1>1. ASSUME NEW overwrite \in BOOLEAN, BulkTranscribe(overwrite) PROVE Attempts'
  <2>1. NoNewOwner /\ Disowned({}) /\ DirtyKept
    BY <1>1 DEF BulkTranscribe, Idle
  <2>2. JobsKept({})
    BY <1>1, OtherJobs DEF BulkTranscribe
  <2> QED BY <2>1, <2>2, AttemptsKept
<1>2. CASE BulkExtractMetadata
  <2>1. NoNewOwner /\ Disowned({}) /\ DirtyKept
    BY <1>2 DEF BulkExtractMetadata, EndMetadata, Idle
  <2>2. JobsKept({})
    BY <1>2, OtherJobs DEF BulkExtractMetadata
  <2> QED BY <2>1, <2>2, AttemptsKept
<1>3. CASE BulkClearTranscriptions
  <2>1. NoNewOwner /\ Disowned({"md", "en"}) /\ DirtyKept
    BY <1>3 DEF BulkClearTranscriptions, Idle
  <2>2. JobsKept({"md", "en"})
    BY <1>3, OutdatedJobs DEF BulkClearTranscriptions, Stages
  <2> QED BY <2>1, <2>2, AttemptsKept DEF Stages
<1>4. CASE BulkClearMetadata
  <2>1. NoNewOwner /\ Disowned({"en"}) /\ DirtyKept
    BY <1>4 DEF BulkClearMetadata, Idle
  <2>2. JobsKept({"en"})
    BY <1>4, OutdatedJobs DEF BulkClearMetadata, Stages
  <2> QED BY <2>1, <2>2, AttemptsKept DEF Stages
<1>5. CASE ResetLetter \/ ConfirmTranscript
  <2>1. NoNewOwner /\ Disowned({}) /\ DirtyKept
    BY <1>5 DEF ResetLetter, ConfirmTranscript, Idle
  <2>2. JobsKept({})
    BY <1>5, OtherJobs DEF ResetLetter, ConfirmTranscript
  <2> QED BY <2>1, <2>2, AttemptsKept
<1>6. CASE ClearAbsentExtra
  <2>1. NoNewOwner /\ Disowned({"md", "en"}) /\ DirtyKept
    BY <1>6 DEF ClearAbsentExtra, InvalidateMetadata, WithdrawnEntities, Idle
  <2>2. JobsKept({"md", "en"})
    BY <1>6, OutdatedJobs DEF ClearAbsentExtra, Stages
  <2> QED BY <2>1, <2>2, AttemptsKept DEF Stages
<1> QED BY <1>1, <1>2, <1>3, <1>4, <1>5, <1>6 DEF LetterOperation

LEMMA SaveAttempts ==
    ASSUME TypeOK, RowShape, Attempts, NEW e \in Editors,
           OpenEditor(e) \/ Save(e) \/ AbandonEdit(e)
    PROVE  Attempts'
<1> USE DEF NoNewOwner, Disowned, DirtyKept, Holds, Running
<1>1. CASE OpenEditor(e) \/ AbandonEdit(e)
  <2>1. NoNewOwner /\ Disowned({}) /\ DirtyKept
    BY <1>1 DEF OpenEditor, AbandonEdit, row
  <2>2. JobsKept({})
    BY <1>1, OtherJobs DEF OpenEditor, AbandonEdit
  <2> QED BY <2>1, <2>2, AttemptsKept
<1>2. ASSUME NEW text \in {"BLANK", "NONBLANK"}, NEW withFields \in BOOLEAN,
             SaveTranscript(e, text, withFields)
      PROVE  Attempts'
  <2>1. NoNewOwner /\ Disowned({"md", "en"}) /\ DirtyKept
    BY <1>2 DEF SaveTranscript, InvalidateMetadata, WithdrawnEntities, Idle
  <2>2. JobsKept({"md", "en"})
    BY <1>2, OutdatedJobs DEF SaveTranscript, Stages
  <2> QED BY <2>1, <2>2, AttemptsKept DEF Stages
<1>3. CASE SaveMetadata(e)
  <2>1. NoNewOwner /\ Disowned({"en"}) /\ DirtyKept
    BY <1>3 DEF SaveMetadata, WithdrawnEntities, Idle
  <2>2. JobsKept({"en"})
    BY <1>3, OutdatedJobs DEF SaveMetadata, Stages
  <2> QED BY <2>1, <2>2, AttemptsKept DEF Stages
<1>4. CASE SaveNotes(e)
  <2>1. NoNewOwner /\ Disowned({}) /\ DirtyKept
    BY <1>4 DEF SaveNotes, EndMetadata, NotesMetadataStatus, Idle
  <2>2. JobsKept({})
    BY <1>4, OtherJobs DEF SaveNotes
  <2> QED BY <2>1, <2>2, AttemptsKept
<1>5. CASE SaveExtra(e)
  <2>1. NoNewOwner /\ Disowned({"md", "en"}) /\ DirtyKept
    BY <1>5 DEF SaveExtra, InvalidateMetadata, WithdrawnEntities, Idle
  <2>2. JobsKept({"md", "en"})
    BY <1>5, OutdatedJobs DEF SaveExtra, Stages
  <2> QED BY <2>1, <2>2, AttemptsKept DEF Stages
<1>6. CASE VerifyMetadata(e) \/ UnverifyMetadata(e)
  <2>1. NoNewOwner /\ Disowned({}) /\ DirtyKept
    BY <1>6 DEF VerifyMetadata, UnverifyMetadata
  <2>2. JobsKept({})
    BY <1>6, OtherJobs DEF VerifyMetadata, UnverifyMetadata
  <2> QED BY <2>1, <2>2, AttemptsKept
<1> QED BY <1>1, <1>2, <1>3, <1>4, <1>5, <1>6 DEF Save

LEMMA PageAttempts ==
    ASSUME TypeOK, RowShape, Attempts, ChangePages
    PROVE  Attempts'
<1> USE DEF NoNewOwner, Disowned, DirtyKept, Holds, Running
<1>1. CASE ChangePrimaryPages
  <2>1. NoNewOwner /\ Disowned({"tx"}) /\ DirtyKept
    BY <1>1 DEF ChangePrimaryPages, InvalidateMetadata, WithdrawnEntities, Idle
  <2>2. JobsKept({"tx"})
    BY <1>1, OutdatedJobs DEF ChangePrimaryPages, Stages
  <2> QED BY <2>1, <2>2, AttemptsKept DEF Stages
<1>2. CASE ChangeExtraPages
  <2>1. NoNewOwner /\ Disowned({"ex"}) /\ DirtyKept
    BY <1>2 DEF ChangeExtraPages, InvalidateExtra, InvalidateMetadata, WithdrawnEntities, Idle
  <2>2. JobsKept({"ex"})
    BY <1>2, OutdatedJobs DEF ChangeExtraPages, Stages
  <2> QED BY <2>1, <2>2, AttemptsKept DEF Stages
<1>3. CASE ChangeRelatedPages
  <2>1. NoNewOwner /\ Disowned({}) /\ DirtyKept
    BY <1>3 DEF ChangeRelatedPages
  <2>2. JobsKept({})
    BY <1>3, OtherJobs DEF ChangeRelatedPages
  <2> QED BY <2>1, <2>2, AttemptsKept
<1> QED BY <1>1, <1>2, <1>3 DEF ChangePages

LEMMA ExpireAttempts ==
    ASSUME TypeOK, RowShape, Attempts, Expire
    PROVE  Attempts'
<1> USE DEF NoNewOwner, Disowned, DirtyKept, Holds, Running
<1>1. NoNewOwner /\ Disowned({}) /\ DirtyKept
  BY DEF Expire, ExpireTranscription, ExpireMetadata, ExpireEntities, ExpireExtra, Lapsed,
     steady, TypeOK, Slot
<1>2. JobsKept({})
  BY OtherJobs DEF Expire, ExpireTranscription, ExpireMetadata, ExpireEntities, ExpireExtra,
     steady
<1> QED BY <1>1, <1>2, AttemptsKept

LEMMA AttemptsInvariant == Spec => []Attempts
<1>1. Init => Attempts
  BY DEF Init, Attempts, AttemptsMatch, OwnersReadCurrentInput, NoJob
<1>2. TypeOK /\ RowShape /\ Attempts /\ [Next]_vars => Attempts'
  <2> SUFFICES ASSUME TypeOK, RowShape, Attempts, [Next]_vars PROVE Attempts'
    OBVIOUS
  <2>1. CASE Next
    BY <2>1, NextGroups, ClaimAttempts, ProducerAttempts, RecoverAttempts,
       QueueOperationAttempts, LetterOperationAttempts, PageAttempts, ExpireAttempts,
       SaveAttempts DEF Claim, Produce
  <2>2. CASE UNCHANGED vars
    BY <2>2 DEF Attempts, AttemptsMatch, OwnersReadCurrentInput, Holds, Running, vars, row
  <2> QED BY <2>1, <2>2
<1> QED BY <1>1, <1>2, Typed, RowShapeInvariant, PTL DEF Spec

(* An attempt whose loaded input has been overwritten cannot publish: it no  *)
(* longer owns its stage, or its extra-content columns are marked dirty.     *)
THEOREM StaleAttemptsAreFenced == Spec => []OwnersReadCurrentInput
BY AttemptsInvariant, PTL DEF Attempts

-----------------------------------------------------------------------------
(* ResultsAreCurrent.  A producer's SUCCESS is current because an owner that *)
(* loaded its input is not stale; an overwrite withdraws the SUCCESS of the  *)
(* results it outdates, or finds none while metadata is running.             *)

LEMMA OwnerIsCurrent ==
    ASSUME TypeOK, OwnersReadCurrentInput, NEW r \in Runs, job[r].input # "unread"
    PROVE  Holds(tx, r) \/ Holds(md, r) \/ Holds(en, r) \/ (Holds(ex, r) /\ ~dirty)
             => UsedCurrentInput(r)
BY DEF TypeOK, Job, OwnersReadCurrentInput, UsedCurrentInput

LEMMA ProducerResults ==
    ASSUME TypeOK, RowShape, OwnersReadCurrentInput, ResultsAreCurrent,
           NEW r \in Runs, Claim(r) \/ Produce(r) \/ Abandon(r)
    PROVE  ResultsAreCurrent'
<1>1. CASE Claim(r)
  BY <1>1 DEF Claim, ClaimQueuedTranscription, ClaimRequestedTranscription,
     ClaimQueuedMetadata, ClaimRequestedMetadata, ClaimMetadata, ClaimQueuedEntities,
     ClaimRequestedEntities, ClaimEntities, ClaimQueuedExtra, ClaimRequestedExtra,
     ClaimExtra, Claimed, Idle, ResultsAreCurrent
<1>2. CASE \/ LoadTranscription(r) \/ LoadMetadata(r) \/ LoadEntities(r) \/ LoadExtra(r)
           \/ Abandon(r)
  BY <1>2 DEF LoadTranscription, LoadMetadata, LoadEntities, LoadExtra, Abandon, row,
     ResultsAreCurrent
<1>3. CASE \/ FailTranscription(r) \/ WithdrawTranscription(r) \/ FailMetadata(r)
           \/ FailEntities(r) \/ FailExtra(r) \/ RequeueExtra(r)
  BY <1>3 DEF FailTranscription, WithdrawTranscription, RevokeTranscription, FailMetadata,
     EndMetadata, FailEntities, FailExtra, RequeueExtra, Idle, ResultsAreCurrent
<1>4. ASSUME NEW text \in Texts, CompleteTranscription(r, text) PROVE ResultsAreCurrent'
  <2>1. UsedCurrentInput(r)
    BY <1>4, OwnerIsCurrent DEF CompleteTranscription, Live
  <2>2. derived'["tx"] /\ derived'["ex"] = derived["ex"]
    BY <1>4, <2>1 DEF CompleteTranscription, Underived, Stages, TypeOK
  <2>3. en'.status # "SUCCESS" /\ ex' = ex
    BY <1>4 DEF CompleteTranscription, InvalidateMetadata, WithdrawnEntities, Idle
  <2> QED BY <2>2, <2>3 DEF ResultsAreCurrent
<1>5. CASE CompleteMetadata(r)
  <2>1. en.status # "SUCCESS"
    BY <1>5 DEF CompleteMetadata, Live, Holds, RowShape, EntitiesWait
  <2>2. derived'["tx"] = derived["tx"] /\ derived'["ex"] = derived["ex"]
    BY <1>5 DEF CompleteMetadata, Underived, Stages, TypeOK
  <2> QED BY <1>5, <2>1, <2>2 DEF CompleteMetadata, ResultsAreCurrent
<1>6. CASE CommitEntities(r)
  <2>1. UsedCurrentInput(r)
    BY <1>6, OwnerIsCurrent DEF CommitEntities, Live
  <2> QED BY <1>6, <2>1 DEF CommitEntities, ResultsAreCurrent, Stages, TypeOK
<1>7. CASE CompleteExtra(r)
  <2>1. UsedCurrentInput(r)
    BY <1>7, OwnerIsCurrent DEF CompleteExtra, Live
  <2>2. derived'["ex"] /\ derived'["tx"] = derived["tx"]
    BY <1>7, <2>1 DEF CompleteExtra, Underived, Stages, TypeOK
  <2>3. en'.status # "SUCCESS" /\ tx' = tx
    BY <1>7 DEF CompleteExtra, InvalidateMetadata, WithdrawnEntities, Idle
  <2> QED BY <2>2, <2>3 DEF ResultsAreCurrent
<1> QED
  BY <1>1, <1>2, <1>3, <1>4, <1>5, <1>6, <1>7
     DEF Produce, TranscriptionStep, MetadataStep, EntityStep, ExtraStep

LEMMA AdministrationResults ==
    ASSUME TypeOK, RowShape, ResultsAreCurrent,
           Recover \/ QueueOperation \/ LetterOperation
    PROVE  ResultsAreCurrent'
<1> USE DEF Idle, ResultsAreCurrent
<1>1. CASE Recover
  BY <1>1 DEF Recover, RecoverTranscription, RecoverMetadata, RecoverEntities, RecoverExtra,
     EndMetadata
<1>2. CASE QueueOperation
  BY <1>2 DEF QueueOperation, CancelTranscription, CancelMetadata, CancelEntities,
     CancelExtra, RemoveTranscription, RemoveMetadata, RemoveEntities, RemoveExtra,
     RetryTranscription, RetryMetadata, RetryEntities, RetryExtra, RevokeTranscription,
     EndMetadata
<1>3. ASSUME NEW overwrite \in BOOLEAN, BulkTranscribe(overwrite) PROVE ResultsAreCurrent'
  BY <1>3 DEF BulkTranscribe
<1>4. CASE BulkExtractMetadata \/ ResetLetter \/ ConfirmTranscript
  BY <1>4 DEF BulkExtractMetadata, ResetLetter, ConfirmTranscript, EndMetadata
<1>5. CASE BulkClearTranscriptions
  BY <1>5 DEF BulkClearTranscriptions
<1>6. CASE BulkClearMetadata
  <2>1. derived'["tx"] = derived["tx"] /\ derived'["ex"] = derived["ex"]
    BY <1>6 DEF BulkClearMetadata, Underived, Stages, TypeOK
  <2> QED BY <1>6, <2>1 DEF BulkClearMetadata
<1>7. CASE ClearAbsentExtra
  <2>1. derived'["tx"] = derived["tx"] /\ derived'["ex"]
    BY <1>7 DEF ClearAbsentExtra, Underived, Stages, TypeOK
  <2>2. en'.status # "SUCCESS" /\ tx' = tx
    BY <1>7 DEF ClearAbsentExtra, InvalidateMetadata, WithdrawnEntities
  <2> QED BY <2>1, <2>2
<1> QED BY <1>1, <1>2, <1>3, <1>4, <1>5, <1>6, <1>7 DEF LetterOperation

LEMMA SaveResults ==
    ASSUME TypeOK, RowShape, ResultsAreCurrent, NEW e \in Editors,
           OpenEditor(e) \/ Save(e) \/ AbandonEdit(e)
    PROVE  ResultsAreCurrent'
<1> USE DEF Idle, ResultsAreCurrent
<1>1. CASE \/ OpenEditor(e) \/ AbandonEdit(e) \/ SaveNotes(e)
           \/ VerifyMetadata(e) \/ UnverifyMetadata(e)
  BY <1>1 DEF OpenEditor, AbandonEdit, SaveNotes, EndMetadata, VerifyMetadata,
     UnverifyMetadata, row
<1>2. ASSUME NEW text \in {"BLANK", "NONBLANK"}, NEW withFields \in BOOLEAN,
             SaveTranscript(e, text, withFields)
      PROVE  ResultsAreCurrent'
  <2>1. derived'["tx"] /\ derived'["ex"] = derived["ex"]
    BY <1>2 DEF SaveTranscript, Underived, Stages, TypeOK
  <2>2. en'.status # "SUCCESS" /\ ex' = ex
    BY <1>2 DEF SaveTranscript, InvalidateMetadata, WithdrawnEntities
  <2> QED BY <2>1, <2>2
<1>3. CASE SaveMetadata(e)
  <2>1. derived'["tx"] = derived["tx"] /\ derived'["ex"] = derived["ex"]
    BY <1>3 DEF SaveMetadata, Underived, Stages, TypeOK
  <2>2. en'.status # "SUCCESS" /\ UNCHANGED <<tx, ex>>
    BY <1>3 DEF SaveMetadata, WithdrawnEntities
  <2> QED BY <2>1, <2>2
<1>4. CASE SaveExtra(e)
  <2>1. derived'["tx"] = derived["tx"] /\ derived'["ex"]
    BY <1>4 DEF SaveExtra, Underived, Stages, TypeOK
  <2>2. en'.status # "SUCCESS" /\ UNCHANGED tx
    BY <1>4 DEF SaveExtra, InvalidateMetadata, WithdrawnEntities
  <2> QED BY <2>1, <2>2
<1> QED BY <1>1, <1>2, <1>3, <1>4 DEF Save

LEMMA PageResults ==
    ASSUME TypeOK, RowShape, ResultsAreCurrent, ChangePages \/ Expire
    PROVE  ResultsAreCurrent'
<1> USE DEF Idle, ResultsAreCurrent
<1>1. CASE ChangePrimaryPages
  <2>1. derived'["ex"] = derived["ex"]
    BY <1>1 DEF ChangePrimaryPages, Underived, Stages, TypeOK
  <2>2. tx'.status # "SUCCESS" /\ en'.status # "SUCCESS" /\ ex' = ex
    BY <1>1 DEF ChangePrimaryPages, InvalidateMetadata, WithdrawnEntities
  <2> QED BY <2>1, <2>2
<1>2. CASE ChangeExtraPages
  <2>1. derived'["tx"] = derived["tx"]
    BY <1>2 DEF ChangeExtraPages, InvalidateExtra, Underived, Stages, TypeOK
  <2>2. tx' = tx /\ en'.status # "SUCCESS" /\ ex'.status # "SUCCESS"
    BY <1>2 DEF ChangeExtraPages, InvalidateExtra, InvalidateMetadata, WithdrawnEntities, Running
  <2> QED BY <2>1, <2>2
<1>3. CASE ChangeRelatedPages
  BY <1>3 DEF ChangeRelatedPages
<1>4. CASE Expire
  BY <1>4 DEF Expire, ExpireTranscription, ExpireMetadata, ExpireEntities, ExpireExtra,
     Lapsed, steady, TypeOK, Slot
<1> QED BY <1>1, <1>2, <1>3, <1>4 DEF ChangePages

(* A transcription, entity projection or extra-content transcript marked     *)
(* SUCCESS reflects what the row now holds, whatever attempts, edits, page   *)
(* changes, recoveries and bulk operations raced.                            *)
THEOREM ResultsStayCurrent == Spec => []ResultsAreCurrent
<1>1. Init => ResultsAreCurrent
  BY DEF Init, ResultsAreCurrent, Idle
<1>2. TypeOK /\ RowShape /\ OwnersReadCurrentInput /\ ResultsAreCurrent /\ [Next]_vars
        => ResultsAreCurrent'
  <2> SUFFICES ASSUME TypeOK, RowShape, OwnersReadCurrentInput, ResultsAreCurrent,
                      [Next]_vars
               PROVE  ResultsAreCurrent'
    OBVIOUS
  <2>1. CASE Next
    BY <2>1, NextGroups, ProducerResults, AdministrationResults, SaveResults, PageResults
       DEF Claim, Produce
  <2>2. CASE UNCHANGED vars
    BY <2>2 DEF ResultsAreCurrent, vars, row
  <2> QED BY <2>1, <2>2
<1> QED BY <1>1, <1>2, Typed, RowShapeInvariant, StaleAttemptsAreFenced, PTL DEF Spec

-----------------------------------------------------------------------------
(* MetadataIsCurrent fails when an AI-note save settles a running metadata   *)
(* attempt; it is proved for the system without that operation.              *)

LEMMA MetadataKept ==
    ASSUME "notes" \notin Edits, TypeOK, RowShape, OwnersReadCurrentInput,
           MetadataIsCurrent, Next
    PROVE  MetadataIsCurrent'
<1> USE DEF Idle, MetadataIsCurrent
<1>1. ASSUME NEW r \in Runs, Claim(r) PROVE MetadataIsCurrent'
  BY <1>1 DEF Claim, ClaimQueuedTranscription, ClaimRequestedTranscription,
     ClaimQueuedMetadata, ClaimRequestedMetadata, ClaimMetadata, ClaimQueuedEntities,
     ClaimRequestedEntities, ClaimEntities, ClaimQueuedExtra, ClaimRequestedExtra,
     ClaimExtra, Claimed
<1>2. ASSUME NEW r \in Runs, CompleteMetadata(r) PROVE MetadataIsCurrent'
  <2>1. UsedCurrentInput(r)
    BY <1>2, OwnerIsCurrent DEF CompleteMetadata, Live
  <2> QED BY <1>2, <2>1 DEF CompleteMetadata, Underived, Stages, TypeOK
<1>3. ASSUME NEW r \in Runs, Produce(r) \/ Abandon(r), ~CompleteMetadata(r)
      PROVE  MetadataIsCurrent'
  <2>1. ASSUME NEW text \in Texts, CompleteTranscription(r, text) PROVE MetadataIsCurrent'
    BY <2>1 DEF CompleteTranscription, InvalidateMetadata
  <2>2. CASE CompleteExtra(r)
    BY <2>2 DEF CompleteExtra, InvalidateMetadata
  <2>3. CASE CommitEntities(r)
    BY <2>3 DEF CommitEntities, Stages, TypeOK
  <2>4. CASE \/ LoadTranscription(r) \/ LoadMetadata(r) \/ LoadEntities(r) \/ LoadExtra(r)
             \/ Abandon(r)
    BY <2>4 DEF LoadTranscription, LoadMetadata, LoadEntities, LoadExtra, Abandon, row
  <2>5. CASE \/ FailTranscription(r) \/ WithdrawTranscription(r) \/ FailMetadata(r)
             \/ FailEntities(r) \/ FailExtra(r) \/ RequeueExtra(r)
    BY <2>5 DEF FailTranscription, WithdrawTranscription, FailMetadata, EndMetadata,
       FailEntities, FailExtra, RequeueExtra
  <2> QED
    BY <1>3, <2>1, <2>2, <2>3, <2>4, <2>5
       DEF Produce, TranscriptionStep, MetadataStep, EntityStep, ExtraStep
<1>4. CASE Recover \/ QueueOperation
  BY <1>4 DEF Recover, RecoverTranscription, RecoverMetadata, RecoverEntities, RecoverExtra,
     QueueOperation, CancelTranscription, CancelMetadata, CancelEntities, CancelExtra,
     RemoveTranscription, RemoveMetadata, RemoveEntities, RemoveExtra, RetryTranscription,
     RetryMetadata, RetryEntities, RetryExtra, EndMetadata
<1>5. CASE LetterOperation
  BY <1>5 DEF LetterOperation, BulkTranscribe, BulkExtractMetadata, BulkClearTranscriptions,
     BulkClearMetadata, ResetLetter, ConfirmTranscript, ClearAbsentExtra, EndMetadata,
     InvalidateMetadata
<1>6. CASE ChangePages
  BY <1>6 DEF ChangePages, ChangePrimaryPages, ChangeExtraPages, ChangeRelatedPages,
     InvalidateMetadata
<1>7. CASE Expire
  BY <1>7 DEF Expire, ExpireTranscription, ExpireMetadata, ExpireEntities, ExpireExtra,
     Lapsed, steady, TypeOK, Slot
<1>8. ASSUME NEW e \in Editors, OpenEditor(e) \/ Save(e) \/ AbandonEdit(e)
      PROVE  MetadataIsCurrent'
  <2>1. CASE SaveMetadata(e)
    BY <2>1 DEF SaveMetadata, Underived, Stages, TypeOK
  <2>2. CASE OpenEditor(e) \/ AbandonEdit(e) \/ VerifyMetadata(e) \/ UnverifyMetadata(e)
    BY <2>2 DEF OpenEditor, AbandonEdit, VerifyMetadata, UnverifyMetadata, row
  <2>3. CASE SaveExtra(e)
    BY <2>3 DEF SaveExtra, InvalidateMetadata
  <2>4. ASSUME NEW text \in {"BLANK", "NONBLANK"}, NEW withFields \in BOOLEAN,
               SaveTranscript(e, text, withFields)
        PROVE  MetadataIsCurrent'
    BY <2>4 DEF SaveTranscript, InvalidateMetadata
  <2>5. ~SaveNotes(e)
    BY DEF SaveNotes, Saving
  <2> QED BY <1>8, <2>1, <2>2, <2>3, <2>4, <2>5 DEF Save
<1> QED
  BY NextGroups, <1>1, <1>2, <1>3, <1>4, <1>5, <1>6, <1>7, <1>8 DEF Claim, Produce

(* Without AI-note saves, metadata marked SUCCESS was derived from the       *)
(* transcript and extra content the row now holds.                           *)
THEOREM MetadataStaysCurrent ==
    ASSUME "notes" \notin Edits
    PROVE  Spec => []MetadataIsCurrent
<1>1. Init => MetadataIsCurrent
  BY DEF Init, MetadataIsCurrent, Idle
<1>2. TypeOK /\ RowShape /\ OwnersReadCurrentInput /\ MetadataIsCurrent /\ [Next]_vars
        => MetadataIsCurrent'
  BY MetadataKept DEF MetadataIsCurrent, vars, row
<1> QED BY <1>1, <1>2, Typed, RowShapeInvariant, StaleAttemptsAreFenced, PTL DEF Spec

-----------------------------------------------------------------------------
(* EditorsLag: the revision only grows, and every replacement of what a save *)
(* was computed from moves it past the revision the save read.               *)

EditorsLag ==
    \A e \in Editors : editor[e].open =>
        /\ editor[e].revision \leq revision
        /\ editor[e].revision = revision => editor[e].fresh

\* The saves in flight that an action leaves as they are, or ends.
Spared == editor' = editor \/ \E e \in Editors : editor' = [editor EXCEPT ![e] = ClosedEditor]

LEMMA SparedLag ==
    ASSUME TypeOK, EditorsLag, Spared, revision' \in {revision, revision + 1}
    PROVE  EditorsLag'
<1> SUFFICES ASSUME NEW e \in Editors, editor'[e].open
             PROVE  /\ editor'[e].revision \leq revision'
                    /\ editor'[e].revision = revision' => editor'[e].fresh
  BY DEF EditorsLag
<1>1. editor'[e] = editor[e]
  BY DEF Spared, ClosedEditor, TypeOK
<1>2. editor[e].revision \in Nat /\ revision \in Nat
  BY DEF TypeOK, Editor
<1> QED BY <1>1, <1>2 DEF EditorsLag

LEMMA OvertakenLag ==
    ASSUME TypeOK, EditorsLag, revision' = revision + 1,
           editor' = Overtaken \/ \E e \in Editors : editor' = Saved(e)
    PROVE  EditorsLag'
<1> SUFFICES ASSUME NEW e \in Editors, editor'[e].open
             PROVE  /\ editor'[e].revision \leq revision'
                    /\ editor'[e].revision = revision' => editor'[e].fresh
  BY DEF EditorsLag
<1>1. editor'[e] = Overtaken[e]
  <2>1. ASSUME NEW f \in Editors, editor' = Saved(f) PROVE editor'[e] = Overtaken[e]
    <3>1. Saved(f)[e] = IF e = f THEN ClosedEditor ELSE Overtaken[e]
      BY DEF Saved, Overtaken
    <3> QED BY <2>1, <3>1 DEF ClosedEditor
  <2> QED BY <2>1
<1>2. editor[e].open /\ editor'[e].revision = editor[e].revision
  BY <1>1 DEF Overtaken, TypeOK, Editor
<1>3. editor[e].revision \in Nat /\ revision \in Nat
  BY DEF TypeOK, Editor
<1> QED BY <1>2, <1>3 DEF EditorsLag

LEMMA LagKept ==
    ASSUME TypeOK, EditorsLag, Next
    PROVE  EditorsLag'
<1>1. ASSUME NEW r \in Runs, Claim(r) \/ Abandon(r) PROVE EditorsLag'
  BY <1>1, SparedLag DEF Spared, Abandon, row, Claim, ClaimQueuedTranscription,
     ClaimRequestedTranscription, ClaimQueuedMetadata, ClaimRequestedMetadata,
     ClaimMetadata, ClaimQueuedEntities, ClaimRequestedEntities, ClaimEntities,
     ClaimQueuedExtra, ClaimRequestedExtra, ClaimExtra
<1>2. ASSUME NEW r \in Runs, Produce(r) PROVE EditorsLag'
  <2>1. CASE \/ \E text \in Texts : CompleteTranscription(r, text)
             \/ CompleteMetadata(r) \/ CompleteExtra(r)
    BY <2>1, OvertakenLag
       DEF CompleteTranscription, CompleteMetadata, CompleteExtra, InvalidateMetadata
  <2>2. CASE LoadTranscription(r) \/ LoadMetadata(r) \/ LoadEntities(r) \/ LoadExtra(r)
    BY <2>2, SparedLag
       DEF Spared, LoadTranscription, LoadMetadata, LoadEntities, LoadExtra, row
  <2>3. CASE \/ FailTranscription(r) \/ WithdrawTranscription(r) \/ FailMetadata(r)
             \/ CommitEntities(r) \/ FailEntities(r) \/ FailExtra(r) \/ RequeueExtra(r)
    BY <2>3, SparedLag DEF Spared, FailTranscription, WithdrawTranscription,
       FailMetadata, EndMetadata, CommitEntities, FailEntities, FailExtra, RequeueExtra
  <2> QED
    BY <1>2, <2>1, <2>2, <2>3
       DEF Produce, TranscriptionStep, MetadataStep, EntityStep, ExtraStep
<1>3. CASE Recover \/ QueueOperation
  BY <1>3, SparedLag DEF Spared, Recover, RecoverTranscription, RecoverMetadata,
     RecoverEntities, RecoverExtra, QueueOperation, CancelTranscription, CancelMetadata,
     CancelEntities, CancelExtra, RemoveTranscription, RemoveMetadata, RemoveEntities,
     RemoveExtra, RetryTranscription, RetryMetadata, RetryEntities, RetryExtra, EndMetadata
<1>4. CASE BulkClearTranscriptions \/ BulkClearMetadata \/ ClearAbsentExtra
  BY <1>4, OvertakenLag
     DEF BulkClearTranscriptions, BulkClearMetadata, ClearAbsentExtra, InvalidateMetadata
<1>5. CASE \/ \E overwrite \in BOOLEAN : BulkTranscribe(overwrite)
           \/ BulkExtractMetadata \/ ResetLetter \/ ConfirmTranscript
  BY <1>5, SparedLag
     DEF Spared, BulkTranscribe, BulkExtractMetadata, ResetLetter, ConfirmTranscript, EndMetadata
<1>6. CASE ChangePages
  BY <1>6, SparedLag
     DEF Spared, ChangePages, ChangePrimaryPages, ChangeExtraPages, ChangeRelatedPages,
     InvalidateMetadata
<1>7. CASE Expire
  BY <1>7, SparedLag DEF Spared, Expire, ExpireTranscription, ExpireMetadata, ExpireEntities,
     ExpireExtra, steady
<1>8. ASSUME NEW e \in Editors, OpenEditor(e) PROVE EditorsLag'
  BY <1>8 DEF OpenEditor, EditorsLag, TypeOK, row
<1>9. ASSUME NEW e \in Editors, Save(e) PROVE EditorsLag'
  BY <1>9, OvertakenLag DEF Save, SaveTranscript, SaveMetadata, SaveNotes, SaveExtra,
     VerifyMetadata, UnverifyMetadata, InvalidateMetadata, EndMetadata
<1>10. ASSUME NEW e \in Editors, AbandonEdit(e) PROVE EditorsLag'
  BY <1>10, SparedLag DEF Spared, AbandonEdit, row
<1> QED
  BY NextGroups, <1>1, <1>2, <1>3, <1>4, <1>5, <1>6, <1>7, <1>8, <1>9, <1>10
     DEF Claim, Produce, LetterOperation

LEMMA LagInvariant == Spec => []EditorsLag
<1>1. Init => EditorsLag
  BY DEF Init, EditorsLag, ClosedEditor
<1>2. TypeOK /\ EditorsLag /\ [Next]_vars => EditorsLag'
  BY LagKept DEF EditorsLag, vars, row
<1> QED BY <1>1, <1>2, Typed, PTL DEF Spec

(* A human save that the compare-and-set admits replaces nothing that was    *)
(* written after the save read the row.                                      *)
THEOREM SavesLoseNothing == Spec => []SavesSeeWhatTheyReplace
<1>1. EditorsLag => SavesSeeWhatTheyReplace
  BY DEF EditorsLag, SavesSeeWhatTheyReplace, SaveAdmitted
<1> QED BY <1>1, LagInvariant, PTL

-----------------------------------------------------------------------------
(* Action properties. *)

LEMMA PublicationsAreOwned ==
    ASSUME TypeOK, RowShape, Next
    PROVE  \A p \in {<<tx, tx'>>, <<md, md'>>, <<en, en'>>, <<ex, ex'>>} :
               Published(p[1], p[2]) =>
                   \/ p[1].lease = "live" /\ job[p[1].run] # NoJob
                                          /\ job'[p[1].run] = NoJob
                   \/ \E e \in Editors : editor[e].open /\ ~editor'[e].open
<1> DEFINE Owned(s) == s.lease = "live" /\ job[s.run] # NoJob /\ job'[s.run] = NoJob
           Human == \E e \in Editors : editor[e].open /\ ~editor'[e].open
           Silent == /\ ~Published(tx, tx') /\ ~Published(md, md')
                     /\ ~Published(en, en') /\ ~Published(ex, ex')
<1> SUFFICES /\ Published(tx, tx') => Owned(tx) \/ Human
             /\ Published(md, md') => Owned(md) \/ Human
             /\ Published(en, en') => Owned(en) \/ Human
             /\ Published(ex, ex') => Owned(ex) \/ Human
  OBVIOUS
<1> USE DEF Published, Idle
<1>1. ASSUME NEW r \in Runs, Claim(r) \/ Abandon(r) PROVE Silent
  BY <1>1 DEF Abandon, row, Claim, ClaimQueuedTranscription,
     ClaimRequestedTranscription, ClaimQueuedMetadata, ClaimRequestedMetadata,
     ClaimMetadata, ClaimQueuedEntities, ClaimRequestedEntities, ClaimEntities,
     ClaimQueuedExtra, ClaimRequestedExtra, ClaimExtra, Claimed
<1>2. ASSUME NEW r \in Runs, Produce(r)
      PROVE  \/ Silent
             \/ /\ ~Published(md, md') /\ ~Published(en, en') /\ ~Published(ex, ex')
                /\ Owned(tx)
             \/ /\ ~Published(tx, tx') /\ ~Published(en, en') /\ ~Published(ex, ex')
                /\ Owned(md)
             \/ /\ ~Published(tx, tx') /\ ~Published(md, md') /\ ~Published(ex, ex')
                /\ Owned(en)
             \/ /\ ~Published(tx, tx') /\ ~Published(md, md') /\ ~Published(en, en')
                /\ Owned(ex)
  <2>1. ASSUME NEW text \in Texts, CompleteTranscription(r, text)
        PROVE  /\ Owned(tx)
               /\ ~Published(md, md') /\ ~Published(en, en') /\ ~Published(ex, ex')
    BY <2>1 DEF CompleteTranscription, InvalidateMetadata, WithdrawnEntities, Live, Holds,
       NoJob, Outdated
  <2>2. CASE CompleteMetadata(r)
    BY <2>2 DEF CompleteMetadata, Live, Holds, NoJob, Outdated
  <2>3. CASE CommitEntities(r)
    BY <2>3 DEF CommitEntities, Finish, Live, Holds, NoJob, TypeOK
  <2>4. CASE CompleteExtra(r)
    BY <2>4 DEF CompleteExtra, InvalidateMetadata, WithdrawnEntities, Live, Holds,
       NoJob, Outdated
  <2>5. CASE \/ LoadTranscription(r) \/ LoadMetadata(r) \/ LoadEntities(r) \/ LoadExtra(r)
             \/ FailTranscription(r) \/ WithdrawTranscription(r) \/ FailMetadata(r)
             \/ FailEntities(r) \/ FailExtra(r) \/ RequeueExtra(r)
    BY <2>5 DEF LoadTranscription, LoadMetadata, LoadEntities, LoadExtra, row,
       FailTranscription, WithdrawTranscription, RevokeTranscription, FailMetadata,
       EndMetadata, FailEntities, FailExtra, RequeueExtra
  <2> QED
    BY <1>2, <2>1, <2>2, <2>3, <2>4, <2>5
       DEF Produce, TranscriptionStep, MetadataStep, EntityStep, ExtraStep
<1>3. ASSUME Recover \/ QueueOperation PROVE Silent
  BY <1>3 DEF Recover, RecoverTranscription, RecoverMetadata,
     RecoverEntities, RecoverExtra, QueueOperation, CancelTranscription, CancelMetadata,
     CancelEntities, CancelExtra, RemoveTranscription, RemoveMetadata, RemoveEntities,
     RemoveExtra, RetryTranscription, RetryMetadata, RetryEntities, RetryExtra,
     RevokeTranscription, EndMetadata
<1>4. ASSUME LetterOperation PROVE Silent
  BY <1>4 DEF LetterOperation, BulkTranscribe, BulkExtractMetadata, BulkClearTranscriptions,
     BulkClearMetadata, ResetLetter, ClearAbsentExtra, ConfirmTranscript, EndMetadata,
     InvalidateMetadata, WithdrawnEntities
<1>5. ASSUME ChangePages PROVE Silent
  BY <1>5 DEF ChangePages, ChangePrimaryPages, ChangeExtraPages, InvalidateExtra, ChangeRelatedPages,
     InvalidateMetadata, WithdrawnEntities
<1>6. ASSUME Expire PROVE Silent
  BY <1>6 DEF Expire, ExpireTranscription, ExpireMetadata, ExpireEntities, ExpireExtra,
     Lapsed, steady, TypeOK, Slot
<1>7. ASSUME NEW e \in Editors, OpenEditor(e) \/ AbandonEdit(e) PROVE Silent
  BY <1>7 DEF OpenEditor, AbandonEdit, row
<1>8. ASSUME NEW e \in Editors, Save(e) PROVE Human
  <2>1. editor[e].open /\ editor' = Saved(e)
    BY <1>8 DEF Save, SaveTranscript, SaveMetadata, SaveNotes, SaveExtra, VerifyMetadata,
       UnverifyMetadata, Saving
  <2> QED BY <2>1 DEF Saved, Overtaken, ClosedEditor
<1> QED
  BY NextGroups, <1>1, <1>2, <1>3, <1>4, <1>5, <1>6, <1>7, <1>8 DEF Claim, Produce

(* A recovered, cancelled or superseded attempt never publishes: only the    *)
(* attempt that owns a stage under a live lease does, or a human save.       *)
THEOREM PublicationsHaveLiveOwners == Spec => OnlyLiveOwnersPublish
<1>1. TypeOK /\ RowShape /\ [Next]_vars =>
        [ \A p \in {<<tx, tx'>>, <<md, md'>>, <<en, en'>>, <<ex, ex'>>} :
               Published(p[1], p[2]) =>
                   \/ p[1].lease = "live" /\ job[p[1].run] # NoJob
                                          /\ job'[p[1].run] = NoJob
                   \/ \E e \in Editors : editor[e].open /\ ~editor'[e].open ]_vars
  BY PublicationsAreOwned
<1> QED BY <1>1, Typed, RowShapeInvariant, PTL DEF Spec, OnlyLiveOwnersPublish

\* What RequestedIsNotRequeued asks of one step.
StaysVisible ==
    /\ tx.kind = "REQUESTED" /\ tx'.status = "PENDING" => doc'.source # doc.source
    /\ md.kind = "REQUESTED" /\ md'.status = "PENDING" =>
         editor' # editor \/ doc'.source # doc.source \/ ClearAbsentExtra
    /\ en.kind = "REQUESTED" => en'.status # "PENDING"
    /\ ex.kind = "REQUESTED" /\ ex'.status = "PENDING" =>
         dirty \/ job[ex.run].source # doc.source

LEMMA RequestsStayVisible ==
    ASSUME TypeOK, RowShape, Next
    PROVE  StaysVisible
<1> USE DEF StaysVisible, Idle
<1>0. /\ tx.kind = "REQUESTED" => Running(tx) /\ ~Running(md) /\ ~Running(en)
      /\ md.kind = "REQUESTED" => Running(md) /\ ~Running(tx) /\ ~Running(en) /\ ~Running(ex)
      /\ en.kind = "REQUESTED" => Running(en) /\ ~Running(tx) /\ ~Running(md) /\ ~Running(ex)
      /\ ex.kind = "REQUESTED" => Running(ex) /\ ~Running(md) /\ ~Running(en)
  BY DEF RowShape, ChecksHold, OwnedShape, StagesExclude
<1> USE DEF Running
<1>1. ASSUME NEW r \in Runs, Claim(r) PROVE StaysVisible
  BY <1>0, <1>1 DEF Claim, ClaimQueuedTranscription, ClaimRequestedTranscription,
     ClaimQueuedMetadata, ClaimRequestedMetadata, ClaimMetadata, ClaimQueuedEntities,
     ClaimRequestedEntities, ClaimEntities, ClaimQueuedExtra, ClaimRequestedExtra,
     ClaimExtra, Claimed, QueuedTranscription, QueuedMetadata, QueuedEntities, QueuedExtra,
     MetadataPrerequisites
<1>2. ASSUME NEW r \in Runs, Produce(r) \/ Abandon(r) PROVE StaysVisible
  <2>1. ASSUME NEW text \in Texts, CompleteTranscription(r, text) PROVE StaysVisible
    BY <1>0, <2>1 DEF CompleteTranscription, InvalidateMetadata, WithdrawnEntities, Live, Holds
  <2>2. CASE CompleteExtra(r)
    BY <1>0, <2>2 DEF CompleteExtra, InvalidateMetadata, WithdrawnEntities, Live, Holds
  <2>3. CASE RequeueExtra(r)
    BY <1>0, <2>3 DEF RequeueExtra, Live, Holds, SourceMatches
  <2>4. CASE CompleteMetadata(r) \/ CommitEntities(r)
    BY <1>0, <2>4 DEF CompleteMetadata, CommitEntities, Live, Holds
  <2>5. CASE \/ LoadTranscription(r) \/ LoadMetadata(r) \/ LoadEntities(r) \/ LoadExtra(r)
             \/ Abandon(r)
    BY <1>0, <2>5 DEF LoadTranscription, LoadMetadata, LoadEntities, LoadExtra, Abandon, row
  <2>6. CASE \/ FailTranscription(r) \/ WithdrawTranscription(r) \/ FailMetadata(r)
             \/ FailEntities(r) \/ FailExtra(r)
    BY <1>0, <2>6 DEF FailTranscription, WithdrawTranscription, RevokeTranscription,
       FailMetadata, EndMetadata, FailEntities, FailExtra
  <2> QED
    BY <1>2, <2>1, <2>2, <2>3, <2>4, <2>5, <2>6
       DEF Produce, TranscriptionStep, MetadataStep, EntityStep, ExtraStep
<1>3. CASE Recover
  BY <1>0, <1>3 DEF Recover, RecoverTranscription, RecoverMetadata, RecoverEntities,
     RecoverExtra, EndMetadata, Expired
<1>4. CASE QueueOperation
  BY <1>0, <1>4 DEF QueueOperation, CancelTranscription, CancelMetadata, CancelEntities,
     CancelExtra, RemoveTranscription, RemoveMetadata, RemoveEntities, RemoveExtra,
     RetryTranscription, RetryMetadata, RetryEntities, RetryExtra, RevokeTranscription,
     EndMetadata, QueuedMetadata
<1>5. CASE LetterOperation
  BY <1>0, <1>5 DEF LetterOperation, BulkTranscribe, BulkExtractMetadata,
     BulkClearTranscriptions, BulkClearMetadata, ResetLetter, ConfirmTranscript, EndMetadata,
     ClearAbsentExtra, InvalidateMetadata, WithdrawnEntities, TranscriptionPrerequisites,
     NewlyQueued
<1>6. CASE ChangePages
  <2>1. doc.source + 1 # doc.source
    BY DEF TypeOK, Doc
  <2>2. CASE ChangePrimaryPages
    <3>1. doc'.source = doc.source + 1
      BY <2>2 DEF ChangePrimaryPages, TypeOK, Doc
    <3> QED BY <1>0, <2>1, <2>2, <3>1
            DEF ChangePrimaryPages, InvalidateMetadata, WithdrawnEntities
  <2>3. CASE ChangeExtraPages
    <3>1. doc'.source = doc.source + 1
      BY <2>3 DEF ChangeExtraPages, TypeOK, Doc
    <3> QED BY <1>0, <2>1, <2>3, <3>1
            DEF ChangeExtraPages, InvalidateExtra, InvalidateMetadata, WithdrawnEntities
  <2>4. CASE ChangeRelatedPages
    BY <1>0, <2>4 DEF ChangeRelatedPages
  <2> QED BY <1>6, <2>2, <2>3, <2>4 DEF ChangePages
<1>7. CASE Expire
  BY <1>0, <1>7 DEF Expire, ExpireTranscription, ExpireMetadata, ExpireEntities, ExpireExtra,
     Lapsed, steady, TypeOK, Slot
<1>8. ASSUME NEW e \in Editors, OpenEditor(e) \/ Save(e) \/ AbandonEdit(e)
      PROVE  StaysVisible
  <2>1. CASE OpenEditor(e) \/ AbandonEdit(e)
    BY <1>0, <2>1 DEF OpenEditor, AbandonEdit, row
  <2>2. ASSUME Save(e) PROVE editor' # editor
    <3>1. editor[e].open /\ editor' = Saved(e)
      BY <2>2 DEF Save, SaveTranscript, SaveMetadata, SaveNotes, SaveExtra, VerifyMetadata,
         UnverifyMetadata, Saving
    <3>2. Saved(e)[e] = ClosedEditor
      BY DEF Saved, Overtaken
    <3> QED BY <3>1, <3>2 DEF ClosedEditor
  <2>3. ASSUME Save(e)
        PROVE  /\ tx' = tx \/ tx'.status = "SUCCESS"
               /\ en' = en \/ en' = WithdrawnEntities
               /\ ex' = ex \/ ex'.status = "SUCCESS"
    <3>1. ASSUME NEW text \in {"BLANK", "NONBLANK"}, NEW withFields \in BOOLEAN,
                 SaveTranscript(e, text, withFields)
          PROVE  tx'.status = "SUCCESS" /\ en' = WithdrawnEntities /\ ex' = ex
      BY <3>1 DEF SaveTranscript, InvalidateMetadata
    <3>2. CASE SaveExtra(e)
      BY <3>2 DEF SaveExtra, InvalidateMetadata
    <3>3. CASE SaveMetadata(e) \/ SaveNotes(e) \/ VerifyMetadata(e) \/ UnverifyMetadata(e)
      BY <3>3 DEF SaveMetadata, SaveNotes, EndMetadata, VerifyMetadata, UnverifyMetadata
    <3> QED BY <2>3, <3>1, <3>2, <3>3 DEF Save
  <2> QED BY <1>0, <1>8, <2>1, <2>2, <2>3 DEF WithdrawnEntities
<1> QED
  BY NextGroups, <1>1, <1>2, <1>3, <1>4, <1>5, <1>6, <1>7, <1>8 DEF Claim, Produce

(* Admin-requested work fails visibly or is superseded by a source change;   *)
(* it is never turned into automatic work behind the requester's back.       *)
THEOREM RequestsAreNotRequeued == Spec => RequestedIsNotRequeued
<1>1. TypeOK /\ RowShape /\ [Next]_vars =>
        [ /\ tx.kind = "REQUESTED" /\ tx'.status = "PENDING" => doc'.source # doc.source
          /\ md.kind = "REQUESTED" /\ md'.status = "PENDING" =>
               editor' # editor \/ doc'.source # doc.source \/ ClearAbsentExtra
          /\ en.kind = "REQUESTED" => en'.status # "PENDING"
          /\ ex.kind = "REQUESTED" /\ ex'.status = "PENDING" =>
               dirty \/ job[ex.run].source # doc.source ]_vars
  BY RequestsStayVisible DEF StaysVisible
<1> QED BY <1>1, Typed, RowShapeInvariant, PTL DEF Spec, RequestedIsNotRequeued

=============================================================================
