--------------------------- MODULE LetterPublication ---------------------------
(***************************************************************************)
(* What the public may see of one correspondence group: page visibility,   *)
(* the publication of a verified transcript and of verified metadata, and  *)
(* everything that must take them back: edits, restored versions, results  *)
(* of AI attempts and replaced pages.  The members share one visibility    *)
(* and one page-source revision; the first of them in catalogue order is   *)
(* the public root.                                                        *)
(***************************************************************************)
EXTENDS Integers, FiniteSets

CONSTANTS
    Primary,   \* the L letter: pages are transcribed, metadata is extracted
    Companion, \* a photograph or another member of the group
    Admins,    \* administrators, each with one screen open
    Texts,     \* values of a transcript
    Records,   \* values of the metadata
    NoText,    \* no value
    MaxEvents  \* bound on attempts and changes of pages or extra content

ASSUME PublicationAssumption ==
    Primary # Companion /\ NoText \notin Texts \union Records /\ MaxEvents \in Nat

VARIABLES
    letter,  \* the letters row of each member
    version, \* one saved version, or the lack of it
    asking,  \* what each administrator is doing
    pages,   \* how many times pages of the group have changed
    events   \* attempts and changes so far

publicationVars == <<letter, version, asking, pages, events>>

Members == {Primary, Companion}
Fields  == {"transcript", "metadata"}
Transcripts == Texts \union {NoText}
Metadata    == Records \union {NoText}
Values      == Texts \union Records \union {NoText}
Flags   == {"keep", "yes", "no"}

\* IDLE stands for PENDING and FAILED.  checked: the value a verification was
\* given for, while it stands.  overtaken: written by a person since the attempt
\* that runs started.  reading: the transcript the reading view was made from.
LetterRow ==
    [present : BOOLEAN, visible : BOOLEAN, revision : 0 .. MaxEvents,
     content : [Fields -> Values], checked : [Fields -> Values],
     status : [Fields -> {"EMPTY", "AI_DRAFT", "EDITED", "VERIFIED"}],
     job : [Fields -> {"IDLE", "RUNNING", "SUCCESS"}],
     published : [Fields -> BOOLEAN], overtaken : [Fields -> BOOLEAN],
     reading : Transcripts]

Absent ==
    [present |-> FALSE, visible |-> FALSE, revision |-> 0,
     content |-> [f \in Fields |-> NoText], checked |-> [f \in Fields |-> NoText],
     status |-> [f \in Fields |-> "EMPTY"], job |-> [f \in Fields |-> "IDLE"],
     published |-> [f \in Fields |-> FALSE], overtaken |-> [f \in Fields |-> FALSE],
     reading |-> NoText]

NoIntent == [visible |-> "keep", publish |-> [f \in Fields |-> "keep"]]
Granting(f, flag) == [NoIntent EXCEPT !.publish[f] = flag]

\* PUBLICATION_ACTIONS.
Intents == {[NoIntent EXCEPT !.visible = flag] : flag \in {"yes", "no"}}
             \union {Granting(f, flag) : f \in Fields, flag \in {"yes", "no"}}

Away == [pc |-> "away", pages |-> 0, seen |-> [m \in Members |-> 0],
         member |-> Primary, was |-> Absent, fresh |-> FALSE]

Gone == [Away EXCEPT !.pc = "gone"]

NoVersion == [field |-> "none"]

(* The type of every variable. *)
PublicationTypeOK ==
    /\ letter \in [Members -> LetterRow]
    /\ version \in {NoVersion} \union
         [field : Fields, member : Members, content : Values, revision : 0 .. MaxEvents]
    /\ asking \in [Admins ->
         [pc : {"away", "screen", "read", "generate", "generating", "gone"}, pages : 0 .. MaxEvents,
          seen : [Members -> 0 .. MaxEvents], member : Members, was : LetterRow,
          fresh : BOOLEAN]]
    /\ pages \in 0 .. MaxEvents /\ events \in 0 .. MaxEvents

\* A row between requests: what is public is verified.
Settled(visible, text, record, status, published) ==
    LET content == [f \in Fields |-> IF status[f] = "EMPTY" THEN NoText
                                     ELSE IF f = "transcript" THEN text ELSE record] IN
    [Absent EXCEPT
        !.present = TRUE, !.visible = visible, !.content = content, !.status = status,
        !.checked = [f \in Fields |-> IF status[f] = "VERIFIED" THEN content[f] ELSE NoText],
        !.job = [f \in Fields |-> IF status[f] = "EMPTY" THEN "IDLE" ELSE "SUCCESS"],
        !.published = [f \in Fields |-> published[f] /\ status[f] = "VERIFIED"],
        !.reading = IF status["transcript"] = "VERIFIED" THEN text ELSE NoText]

\* A group between requests; only the primary letter has drafts and metadata,
\* and metadata once its transcript is verified.
PublicationInit ==
    /\ \E visible \in BOOLEAN, text \in Texts, record \in Records,
          published \in [Fields -> BOOLEAN],
          status \in [Fields -> {"EMPTY", "AI_DRAFT", "VERIFIED"}],
          other \in [Fields -> {"EMPTY", "VERIFIED"}] :
         LET first  == Settled(visible, text, record, status, published)
             second == Settled(visible, text, record, other, published) IN
         /\ other["metadata"] = "EMPTY"
         /\ status["metadata"] # "EMPTY" => status["transcript"] = "VERIFIED"
         /\ \E members \in (SUBSET Members) \ {{}} :
              letter = [m \in Members |-> IF m \notin members THEN Absent
                                         ELSE IF m = Primary THEN first ELSE second]
    /\ version = NoVersion
    /\ asking = [a \in Admins |-> Away]
    /\ pages = 0 /\ events = 0

-----------------------------------------------------------------------------
(* The patches that the writers share. *)

Present == {m \in Members : letter[m].present}

\* selectPublicCatalogueRepresentative.
Root == IF letter[Primary].present THEN Primary ELSE Companion

\* buildMetadataSourceInvalidationPatch.
SourceChanged(row) ==
    [row EXCEPT !.job["metadata"] = "IDLE",
                !.status["metadata"] = IF @ \in {"EMPTY", "EDITED"} THEN @ ELSE "AI_DRAFT",
                !.published = [f \in Fields |-> FALSE]]

\* The transcript fields of a save and of a restored version.
HumanTranscript(row, text) ==
    SourceChanged([row EXCEPT !.content["transcript"] = text,
                              !.job["transcript"] = "SUCCESS",
                              !.status["transcript"] = IF text = NoText THEN "EMPTY" ELSE "EDITED",
                              !.overtaken["transcript"] = TRUE])

\* buildHumanMetadataJobPatch with the values it is saved with.
HumanMetadata(row, value) ==
    [row EXCEPT !.content["metadata"] = value,
                !.job["metadata"] = IF @ = "RUNNING" THEN "IDLE" ELSE @,
                !.status["metadata"] = IF @ = "EMPTY" THEN @ ELSE "EDITED",
                !.published["metadata"] = FALSE,
                !.overtaken["metadata"] = TRUE]

\* Administrators other than a have now read an old metadata revision of m.
Outdated(a, m) ==
    [b \in Admins |-> IF b # a /\ asking[b].pc = "read" /\ asking[b].member = m
                      THEN [asking[b] EXCEPT !.fresh = FALSE] ELSE asking[b]]

Leave(a) == asking' = [asking EXCEPT ![a] = Gone]

\* a is done; m's metadata revision advanced.
LeaveAdvancing(a, m) == asking' = [Outdated(a, m) EXCEPT ![a] = Gone]

\* Somebody else advanced m's metadata revision.
Advance(m) == asking' = [b \in Admins |->
    IF asking[b].pc = "read" /\ asking[b].member = m
    THEN [asking[b] EXCEPT !.fresh = FALSE] ELSE asking[b]]

\* The bookkeeping of the properties follows the row.
Recorded(row) ==
    [row EXCEPT
        !.checked = [f \in Fields |-> IF row.status[f] = "VERIFIED" THEN @[f] ELSE NoText],
        !.overtaken = [f \in Fields |-> @[f] /\ row.job[f] = "RUNNING"]]

Write(m, row) == letter' = [letter EXCEPT ![m] = Recorded(row)]

-----------------------------------------------------------------------------
(* Requests: an administrator looks, the server reads, the server writes. *)

Look(a) ==
    /\ asking[a].pc = "away"
    /\ asking' = [asking EXCEPT ![a] = [Away EXCEPT
                    !.pc = "screen", !.pages = pages,
                    !.seen = [m \in Members |-> letter[m].revision]]]
    /\ UNCHANGED <<letter, version, pages, events>>

\* A request about m with the revision on the screen; getLetterById.
Request(a, m) ==
    /\ asking[a].pc = "screen" /\ letter[m].present
    /\ IF letter[m].revision = asking[a].seen[m]
       THEN asking' = [asking EXCEPT ![a] = [@ EXCEPT !.pc = "read", !.member = m,
                                                     !.was = letter[m], !.fresh = TRUE]]
       ELSE Leave(a)
    /\ UNCHANGED <<letter, version, pages, events>>

\* currentPrimarySourceRevisionCondition.
SameSource(a) == letter[asking[a].member].revision = asking[a].seen[asking[a].member]

\* canPublishTranscript and canPublishMetadata.
CanPublish(status) == status = "VERIFIED"

\* The status a grant is judged by: the patch says it in plain text only for a
\* transcript, and for metadata saved along with one.
Intended(f, edits, owner, was) ==
    CASE f = "transcript" /\ owner = Root /\ "transcript" \in edits -> "EDITED"
      [] f = "metadata" /\ owner = Root /\ edits = Fields /\ was.status[f] # "EMPTY" -> "EDITED"
      [] OTHER -> letter[Root].status[f]

\* blocksTranscriptGrant and blocksMetadataGrant.
Blocked(f, edits) == f \in edits \/ "transcript" \in edits

Eligible(f, edits, owner, was) ==
    ~Blocked(f, edits) /\ CanPublish(Intended(f, edits, owner, was))

\* An explicit grant is refused unless its content is verified.
Refused(intent, edits, owner, was) ==
    \E f \in Fields : intent.publish[f] = "yes" /\ ~Eligible(f, edits, owner, was)

\* The flags of the root after the intent; going public grants what is verified.
FlagsAfter(intent, edits, owner, was, current) == [f \in Fields |->
    IF intent.publish[f] # "keep" THEN intent.publish[f] = "yes"
    ELSE IF intent.visible = "yes" /\ ~letter[Root].visible
         THEN Eligible(f, edits, owner, was)
    ELSE current[f]]

\* applyLockedPublicationMutation: the owner's content, the root's flags and the
\* visibility of every member, in one transaction.
Publish(intent, edits, owner, was, patched) ==
    letter' = [m \in Members |->
      LET row == IF m = owner THEN patched ELSE letter[m] IN
      IF ~row.present THEN row
      ELSE Recorded([row EXCEPT
              !.visible = IF intent.visible = "keep" THEN @ ELSE intent.visible = "yes",
              !.published = IF m = Root
                            THEN FlagsAfter(intent, edits, owner, was, @) ELSE @])]

\* The row of a save: what changed was decided against the row read before.
Patched(row, was, text, value, edits) ==
    LET written == IF "metadata" \in edits THEN HumanMetadata(row, value) ELSE row
        both    == IF "transcript" \in edits THEN HumanTranscript(written, text) ELSE written IN
    IF edits = Fields /\ was.status["metadata"] # "EMPTY"
    THEN [both EXCEPT !.status["metadata"] = "EDITED"] ELSE both

\* An intent that makes something public.
Grants(intent) == intent.visible = "yes" \/ \E f \in Fields : intent.publish[f] = "yes"

\* What a save changes, against the row it read.
Edits(was, text, value) ==
    {f \in Fields : (IF f = "transcript" THEN text ELSE value) # was.content[f]}

\* updateLetter: refused at once for a grant of what the save itself changes.
Save(a, text, value, intent) ==
    LET m == asking[a].member
        was == asking[a].was
        edits == Edits(was, text, value) IN
    /\ asking[a].pc = "read"
    /\ edits # {} \/ intent # NoIntent
    /\ edits = {} \/ intent = NoIntent \/ Grants(intent)
    /\ \A f \in Fields : intent.publish[f] = "yes" => ~Blocked(f, edits) /\ CanPublish(was.status[f])
    /\ IF \/ letter[Root].revision # asking[a].seen[m]
          \/ Refused(intent, edits, m, was)
          \/ edits # {} /\ (~asking[a].fresh \/ ~SameSource(a))
       THEN Leave(a) /\ UNCHANGED letter
       ELSE /\ Publish(intent, edits, m, was, Patched(letter[m], was, text, value, edits))
            /\ IF edits = {} THEN Leave(a) ELSE LeaveAdvancing(a, m)
    /\ UNCHANGED <<version, pages, events>>

\* Mutant: a selection of any age may publish.
NeverStale(a, root, candidate, chosen) == FALSE

\* The revision the selection carries for this group.
Stale(a, root, candidate, chosen) ==
    letter[root].revision # asking[a].seen[IF root \in chosen THEN root ELSE candidate]

\* applyBulkPublicationAction for the selected members of the group.
Bulk(a, chosen, intent) ==
    /\ asking[a].pc = "screen" /\ chosen \subseteq Present
    /\ \E candidate \in chosen :
         IF \/ Grants(intent) /\ Stale(a, Root, candidate, chosen)
            \/ Refused(intent, {}, candidate, letter[candidate])
         THEN UNCHANGED letter
         ELSE Publish(intent, {}, candidate, letter[candidate], letter[candidate])
    /\ Leave(a)
    /\ UNCHANGED <<version, pages, events>>

\* Mutant: the verification does not compare the text it was read with.
AnyText(a, row) ==
    SameSource(a) /\ row.job["transcript"] = "SUCCESS"
    /\ row.status["transcript"] = asking[a].was.status["transcript"]

\* Mutant: the verification does not compare the revision it was asked for.
AnyPages(a, row) ==
    /\ row.job["transcript"] = "SUCCESS"
    /\ row.status["transcript"] = asking[a].was.status["transcript"]
    /\ row.content["transcript"] = asking[a].was.content["transcript"]

TextUnchanged(a, row) ==
    /\ SameSource(a) /\ row.job["transcript"] = "SUCCESS"
    /\ row.status["transcript"] = asking[a].was.status["transcript"]
    /\ row.content["transcript"] = asking[a].was.content["transcript"]

\* verifyTranscript; the first verification of a letter makes a reading view.
VerifyTranscript(a) ==
    LET m == asking[a].member  was == asking[a].was IN
    /\ asking[a].pc = "read" /\ was.job["transcript"] = "SUCCESS"
    /\ IF TextUnchanged(a, letter[m])
       THEN /\ Write(m, [letter[m] EXCEPT !.status["transcript"] = "VERIFIED",
                                          !.checked["transcript"] = was.content["transcript"]])
            /\ IF m = Primary /\ was.status["transcript"] # "VERIFIED" /\ was.reading = NoText
               THEN asking' = [asking EXCEPT ![a].pc = "generate"]
               ELSE Leave(a)
       ELSE Leave(a) /\ UNCHANGED letter
    /\ UNCHANGED <<version, pages, events>>

\* unverifyTranscript.
UnverifyTranscript(a) ==
    LET m == asking[a].member  was == asking[a].was IN
    /\ asking[a].pc = "read" /\ was.status["transcript"] = "VERIFIED"
    /\ IF /\ SameSource(a) /\ letter[m].job["transcript"] \in {was.job["transcript"]} \ {"RUNNING"}
          /\ letter[m].status["transcript"] = "VERIFIED"
          /\ letter[m].content["transcript"] = was.content["transcript"]
       THEN Write(m, [letter[m] EXCEPT !.status["transcript"] = "EDITED",
                                       !.published["transcript"] = FALSE])
       ELSE UNCHANGED letter
    /\ Leave(a)
    /\ UNCHANGED <<version, pages, events>>

\* verifyMetadata.
VerifyMetadata(a) ==
    LET m == asking[a].member  was == asking[a].was IN
    /\ asking[a].pc = "read" /\ was.job["metadata"] = "SUCCESS"
    /\ was.status["metadata"] # "EMPTY"
    /\ IF /\ SameSource(a) /\ asking[a].fresh /\ letter[m].job["metadata"] = "SUCCESS"
          /\ letter[m].status["metadata"] = was.status["metadata"]
       THEN /\ Write(m, [letter[m] EXCEPT !.status["metadata"] = "VERIFIED",
                                          !.checked["metadata"] = was.content["metadata"]])
            /\ LeaveAdvancing(a, m)
       ELSE Leave(a) /\ UNCHANGED letter
    /\ UNCHANGED <<version, pages, events>>

\* unverifyMetadata.
UnverifyMetadata(a) ==
    LET m == asking[a].member  was == asking[a].was IN
    /\ asking[a].pc = "read" /\ was.status["metadata"] = "VERIFIED"
    /\ IF /\ SameSource(a) /\ asking[a].fresh
          /\ letter[m].job["metadata"] \in {was.job["metadata"]} \ {"RUNNING"}
          /\ letter[m].status["metadata"] = "VERIFIED"
       THEN /\ Write(m, [letter[m] EXCEPT !.status["metadata"] = "EDITED",
                                          !.published["metadata"] = FALSE])
            /\ LeaveAdvancing(a, m)
       ELSE Leave(a) /\ UNCHANGED letter
    /\ UNCHANGED <<version, pages, events>>

\* generateAndSaveReadingView: it reads again, and the model takes its time.
StartReadingView(a) ==
    /\ asking[a].pc = "generate"
    /\ LET row == letter[asking[a].member] IN
       IF /\ SameSource(a) /\ row.job["transcript"] = "SUCCESS"
          /\ row.content["transcript"] # NoText
       THEN asking' = [asking EXCEPT ![a] = [@ EXCEPT !.pc = "generating", !.was = row]]
       ELSE Leave(a)
    /\ UNCHANGED <<letter, version, pages, events>>

\* POST generate-reading-view.
AskReadingView(a, m) ==
    /\ asking[a].pc = "screen" /\ letter[m].present
    /\ asking' = [asking EXCEPT ![a] = [@ EXCEPT !.pc = "generate", !.member = m]]
    /\ UNCHANGED <<letter, version, pages, events>>

SaveReadingView(a) ==
    LET m == asking[a].member  text == asking[a].was.content["transcript"] IN
    /\ asking[a].pc = "generating"
    /\ IF /\ SameSource(a) /\ letter[m].job["transcript"] = "SUCCESS"
          /\ letter[m].content["transcript"] = text
       THEN Write(m, [letter[m] EXCEPT !.reading = text])
       ELSE UNCHANGED letter
    /\ Leave(a)
    /\ UNCHANGED <<version, pages, events>>

-----------------------------------------------------------------------------
(* Versions: one transaction over the locked row each. *)

\* createVersion: what the screen shows must still be the content.
CreateVersion(a, m, f) ==
    /\ asking[a].pc = "screen" /\ letter[m].present
    /\ version' = IF letter[m].revision = asking[a].seen[m]
                  THEN [field |-> f, member |-> m, content |-> letter[m].content[f],
                        revision |-> letter[m].revision]
                  ELSE version
    /\ Leave(a)
    /\ UNCHANGED <<letter, pages, events>>

\* restoreVersion.
RestoreVersion(a) ==
    /\ asking[a].pc = "screen" /\ version # NoVersion
    /\ LET m == version.member  row == letter[version.member] IN
       IF row.revision = asking[a].seen[m] /\ row.revision = version.revision
       THEN /\ Write(m, IF version.field = "transcript"
                        THEN HumanTranscript(row, version.content)
                        ELSE HumanMetadata(row, version.content))
            /\ LeaveAdvancing(a, m)
       ELSE Leave(a) /\ UNCHANGED letter
    /\ UNCHANGED <<version, pages, events>>

-----------------------------------------------------------------------------
(* Attempts of the AI stages, and what withdraws a source. *)

Occur == events < MaxEvents /\ events' = events + 1

StartAttempt(f) ==
    /\ Occur
    /\ letter[Primary].present /\ letter[Primary].job[f] # "RUNNING"
    /\ f = "metadata" => letter[Primary].job["transcript"] = "SUCCESS"
    /\ Write(Primary, [letter[Primary] EXCEPT !.job[f] = "RUNNING"])
    /\ UNCHANGED <<version, asking, pages>>

\* completeTranscription.
FinishTranscription(text) ==
    /\ letter[Primary].job["transcript"] = "RUNNING"
    /\ Write(Primary, SourceChanged([letter[Primary] EXCEPT
           !.content["transcript"] = text, !.job["transcript"] = "SUCCESS",
           !.status["transcript"] = IF text = NoText THEN "EMPTY" ELSE "AI_DRAFT"]))
    /\ Advance(Primary)
    /\ UNCHANGED <<version, pages, events>>

\* completeMetadata.
FinishMetadata(value) ==
    /\ letter[Primary].job["metadata"] = "RUNNING"
    /\ Write(Primary, [letter[Primary] EXCEPT
           !.content["metadata"] = value, !.job["metadata"] = "SUCCESS",
           !.status["metadata"] = "AI_DRAFT", !.published["metadata"] = FALSE])
    /\ Advance(Primary)
    /\ UNCHANGED <<version, pages, events>>

FailAttempt(f) ==
    /\ letter[Primary].job[f] = "RUNNING"
    /\ Write(Primary, [letter[Primary] EXCEPT !.job[f] = "IDLE"])
    /\ UNCHANGED <<version, asking, pages, events>>

\* New extra content, which metadata is extracted from.
ChangeExtraContent ==
    /\ Occur
    /\ letter[Primary].present
    /\ Write(Primary, SourceChanged(letter[Primary]))
    /\ Advance(Primary)
    /\ UNCHANGED <<version, pages>>

\* primarySourceInvalidationPatch.
PagesChanged(row) ==
    [SourceChanged(row) EXCEPT
        !.job["transcript"] = "IDLE", !.reading = NoText,
        !.status["transcript"] = CASE row.content["transcript"] = NoText -> "EMPTY"
                                   [] @ = "EDITED" /\ row.content["transcript"] # NoText -> "EDITED"
                                   [] OTHER -> "AI_DRAFT"]

\* Mutant: the companions keep the revision they had.
OwnRevision(owner, m) == IF m = owner THEN letter[m].revision + 1 ELSE letter[m].revision

\* nextSourceRevision, over the members that were locked.
NextRevision(owner, m) ==
    LET revisions == {letter[n].revision : n \in Present} IN
    1 + CHOOSE r \in revisions : \A s \in revisions : s <= r

\* invalidatePrimaryLetterSource, invalidateExtraContentSource and
\* invalidateRelatedPageSource; a member may be created with its first page.
ChangePages(owner, type) ==
    /\ Occur /\ pages' = pages + 1
    /\ (type = "L") = (owner = Primary)
    /\ letter' = [m \in Members |->
         IF m # owner /\ ~letter[m].present THEN letter[m]
         ELSE LET row == CASE m = Primary /\ type = "L" -> PagesChanged(letter[m])
                           [] m = Primary /\ type = "extra" -> SourceChanged(letter[m])
                           [] OTHER -> letter[m] IN
              Recorded([row EXCEPT !.present = TRUE, !.visible = FALSE,
                                   !.revision = NextRevision(owner, m)])]
    /\ IF type = "related" \/ ~letter[Primary].present THEN UNCHANGED asking ELSE Advance(Primary)
    /\ UNCHANGED version

\* bulkClearTranscriptions and bulkClearMetadata.
Clear(a, m, fields) ==
    /\ asking[a].pc = "screen" /\ letter[m].present
    /\ IF /\ letter[m].revision = asking[a].seen[m]
          /\ \A f \in Fields : letter[m].job[f] # "RUNNING"
       THEN /\ Write(m, [letter[m] EXCEPT
                 !.content = [f \in Fields |-> IF f \in fields THEN NoText ELSE @[f]],
                 !.status = [f \in Fields |-> IF f \in fields THEN "EMPTY" ELSE @[f]],
                 !.job = [f \in Fields |-> IF f \in fields THEN "IDLE" ELSE @[f]],
                 !.published = [f \in Fields |-> IF f \in fields THEN FALSE ELSE @[f]]])
            /\ LeaveAdvancing(a, m)
       ELSE Leave(a) /\ UNCHANGED letter
    /\ UNCHANGED <<version, pages, events>>

\* resetLetterForProcessing: the old values stay until they are replaced.
Reset(a, m) ==
    /\ asking[a].pc = "screen" /\ letter[m].present
    /\ IF letter[m].revision = asking[a].seen[m] /\ letter[m].job["transcript"] # "RUNNING"
       THEN /\ Write(m, [letter[m] EXCEPT
                 !.status = [f \in Fields |-> "EMPTY"], !.job = [f \in Fields |-> "IDLE"],
                 !.published = [f \in Fields |-> FALSE]])
            /\ LeaveAdvancing(a, m)
       ELSE Leave(a) /\ UNCHANGED letter
    /\ UNCHANGED <<version, pages, events>>

-----------------------------------------------------------------------------
AdminStep(a) ==
    \/ Look(a)
    \/ \E m \in Members : Request(a, m) \/ AskReadingView(a, m) \/ Reset(a, m)
    \/ \E text \in Transcripts, value \in Metadata, intent \in Intents \union {NoIntent} :
         Save(a, text, value, intent)
    \/ \E chosen \in (SUBSET Members) \ {{}}, intent \in Intents : Bulk(a, chosen, intent)
    \/ VerifyTranscript(a) \/ UnverifyTranscript(a) \/ VerifyMetadata(a) \/ UnverifyMetadata(a)
    \/ StartReadingView(a) \/ SaveReadingView(a)
    \/ \E m \in Members, f \in Fields : CreateVersion(a, m, f)
    \/ RestoreVersion(a)
    \/ \E m \in Members, fields \in {Fields, {"metadata"}} : Clear(a, m, fields)

PublicationNext ==
    \/ \E a \in Admins : AdminStep(a)
    \/ \E f \in Fields : StartAttempt(f) \/ FailAttempt(f)
    \/ \E text \in Transcripts : FinishTranscription(text)
    \/ \E value \in Metadata : FinishMetadata(value)
    \/ ChangeExtraContent
    \/ \E owner \in Members, type \in {"L", "extra", "related"} : ChangePages(owner, type)

PublicationSpec == PublicationInit /\ [][PublicationNext]_publicationVars

-----------------------------------------------------------------------------
(* Properties. *)

(* Published content is verified, and it is the very content the            *)
(* verification was given for, whatever saves, restores, attempts and page  *)
(* changes came between.                                                    *)
PublicContentIsVerified == \A m \in Present, f \in Fields :
    letter[m].published[f] =>
        letter[m].status[f] = "VERIFIED" /\ letter[m].content[f] = letter[m].checked[f]

(* The members of a group share one visibility and one page-source revision: *)
(* a request about any of them is fenced by every page of the group.         *)
GroupsAreUniform == \A m, n \in Present :
    letter[m].visible = letter[n].visible /\ letter[m].revision = letter[n].revision

\* Those who have the present pages on their screen.
Informed == {a \in Admins : asking[a].pc \in {"screen", "read"} /\ asking[a].pages = pages}

\* Somebody who saw the present pages finishes a request.
SeenByItsAuthor == \E a \in Informed : asking'[a].pc \in {"generate", "gone"}

(* Pages, transcript or metadata become public only by a request of somebody *)
(* who has seen the group's present pages; hiding needs no such thing.       *)
GrantsSeeThePages == [][
    (\E m \in Members, f \in Fields :
        \/ letter'[m].visible /\ ~letter[m].visible
        \/ letter'[m].published[f] /\ ~letter[m].published[f])
    => SeenByItsAuthor]_publicationVars

(* An attempt that runs started after the last time a person wrote its       *)
(* field: a save or a restored version is never overwritten by an older one. *)
AttemptsYieldToReviewers == \A m \in Present, f \in Fields :
    ~letter[m].overtaken[f]

(* What a person verified or wrote stands until a person changes it: both    *)
(* of PublicContentIsVerified and AttemptsYieldToReviewers.                  *)
ReviewersHaveTheLastWord == PublicContentIsVerified /\ AttemptsYieldToReviewers

\* What the group holds: entries of a member, a field and its value.
Current   == {e \in Members \X Fields \X Values : letter[e[1]].content[e[2]] = e[3]}
Verified  == {e \in Current : letter[e[1]].status[e[2]] = "VERIFIED"}
Published == {e \in Current : letter[e[1]].published[e[2]]}

Catalogue == INSTANCE PublicCatalogue WITH
    informed <- Informed,
    visible  <- \E m \in Members : letter[m].visible,
    verified <- Verified,
    shown    <- Published

(* Every step is a step of PublicCatalogue: what becomes verified or public  *)
(* does so by one request of somebody who saw the present pages, nothing     *)
(* public outlives its verification, and a change of the pages hides all.    *)
ImplementsCatalogue == Catalogue!Spec

(* README.md:90 says of the reading view: "On verify, the backend regenerates *)
(* the public readingText field from the canonical transcript".  What the    *)
(* public reads would then be the published transcript.                      *)
PublicReadingIsTheTranscript == \A m \in Present :
    /\ letter[m].visible /\ letter[m].published["transcript"]
    /\ \A a \in Admins : asking[a].pc \notin {"generate", "generating"}
    => letter[m].reading \in {NoText, letter[m].content["transcript"]}

=============================================================================
