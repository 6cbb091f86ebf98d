--------------------------- MODULE CollectionProfile ---------------------------
(***************************************************************************)
(* The profile of one collection: generation by a model from a snapshot of *)
(* the public letters, edits and verification against the revision on the  *)
(* screen, the editor that renames correspondents along with it, whatever  *)
(* changes the letters underneath, and the public pages that show it.      *)
(***************************************************************************)
EXTENDS Integers, FiniteSets

CONSTANTS
    Curators, \* administrators, each with one screen open
    ProfileReaders, \* requests of the public profile page
    Profiles, \* values of the profile's content
    Sources,  \* values of the letters a profile is made from: fingerprints
    Blank,    \* no content, no fingerprint
    MaxSourceChanges \* bound on the changes of the letters

ASSUME ProfileAssumption ==
    Blank \notin Profiles \union Sources /\ MaxSourceChanges \in Nat

VARIABLES
    profile,     \* the profile columns of the collections row
    fingerprint,  \* what the letters say: the live source fingerprint
    rewrites,    \* how often they changed
    curating,    \* what each administrator is doing
    visiting,    \* what each public request is doing
    approved     \* every content and fingerprint somebody verified

profileVars == <<profile, fingerprint, rewrites, curating, visiting, approved>>

Statuses == {"EMPTY", "AI_DRAFT", "EDITED", "VERIFIED"}
Content  == Profiles \union {Blank}
Prints   == Sources \union {Blank}
ProfileRow == [revision : Nat, status : Statuses, content : Content, source : Prints]

\* seen: the row on the screen.  text, status: the requested changes, "keep"
\* for none.  source: the fingerprint computed on the way.
ProfileScreen(row) == [pc |-> "screen", seen |-> row, text |-> "keep", status |-> "keep", source |-> Blank]

(* The type of every variable. *)
ProfileTypeOK ==
    /\ profile \in ProfileRow
    /\ fingerprint \in Sources /\ rewrites \in 0 .. MaxSourceChanges
    /\ curating \in [Curators ->
         [pc : {"away", "screen", "edit", "bound", "ask", "generating", "gone"}, seen : ProfileRow,
          text : Content \union {"keep"}, status : Statuses \union {"keep"}, source : Prints]]
    /\ visiting \in [ProfileReaders -> [pc : {"idle", "start", "end", "served", "withheld"},
                                row : ProfileRow]]
    /\ approved \subseteq Content \X Prints

EmptyProfile == [revision |-> 0, status |-> "EMPTY", content |-> Blank, source |-> Blank]

\* No profile yet, or one at any stage, fitting the letters or not.
ProfileInit ==
    /\ profile \in {EmptyProfile} \union
         [revision : {0}, status : Statuses \ {"EMPTY"}, content : Profiles, source : Sources]
    /\ fingerprint \in Sources /\ rewrites = 0
    /\ curating = [a \in Curators |-> [ProfileScreen(EmptyProfile) EXCEPT !.pc = "away"]]
    /\ visiting = [v \in ProfileReaders |-> [pc |-> "idle", row |-> EmptyProfile]]
    /\ approved = IF profile.status = "VERIFIED" THEN {<<profile.content, profile.source>>}
                                                 ELSE {}

-----------------------------------------------------------------------------
Close(a) == curating' = [curating EXCEPT ![a] = [ProfileScreen(EmptyProfile) EXCEPT !.pc = "gone"]]

\* GET /admin/collections/:code.
OpenProfile(a) ==
    /\ curating[a].pc = "away"
    /\ curating' = [curating EXCEPT ![a] = ProfileScreen(profile)]
    /\ UNCHANGED <<profile, fingerprint, rewrites, visiting, approved>>

\* advanceCollectionProfileRevision.
Advanced(row) ==
    [row EXCEPT !.revision = @ + 1, !.status = IF @ = "VERIFIED" THEN "EDITED" ELSE @]

\* PUT /:code/profile reads the row and refuses an older screen.
SubmitProfile(a, text, status) ==
    /\ curating[a].pc = "screen" /\ <<text, status>> # <<"keep", "keep">>
    /\ IF profile.revision = curating[a].seen.revision
       THEN curating' = [curating EXCEPT ![a] = [@ EXCEPT !.pc = "edit", !.text = text,
                                                        !.status = status]]
       ELSE Close(a)
    /\ UNCHANGED <<profile, fingerprint, rewrites, visiting, approved>>

\* The row after the requested changes; EMPTY discards everything.
Requested(a) ==
    LET row == curating[a].seen
        text == IF curating[a].status = "EMPTY" THEN Blank
                ELSE IF curating[a].text = "keep" THEN row.content ELSE curating[a].text IN
    [row EXCEPT !.content = text,
        !.status = IF curating[a].status # "keep" THEN curating[a].status
                   ELSE IF text # row.content /\ @ \in {"AI_DRAFT", "VERIFIED"} THEN "EDITED"
                   ELSE @,
        !.source = IF curating[a].status = "EMPTY" THEN Blank ELSE @]

\* New content without a fingerprint is bound to the present letters.
Binds(a) ==
    /\ curating[a].seen.source = Blank /\ curating[a].status # "EMPTY"
    /\ Requested(a).content # curating[a].seen.content

Verifies(a) == curating[a].status = "VERIFIED"

\* Fingerprints are computed before the update.
ComputeFingerprint(a) ==
    LET bound == IF Binds(a) THEN fingerprint ELSE curating[a].seen.source IN
    /\ curating[a].pc = "edit"
    /\ IF Verifies(a) /\ bound \in {Blank} \union (Sources \ {fingerprint})
       THEN Close(a)
       ELSE curating' = [curating EXCEPT ![a] = [@ EXCEPT !.pc = "bound", !.source = bound]]
    /\ UNCHANGED <<profile, fingerprint, rewrites, visiting, approved>>

\* Mutant: the update trusts the checks made before it.
Trusting(a) == TRUE

\* The conditions of the update.
RowUnchanged(a) ==
    /\ profile.revision = curating[a].seen.revision
    /\ Binds(a) => profile.source = Blank /\ fingerprint = curating[a].source
    /\ Verifies(a) /\ curating[a].seen.source # Blank
         => profile.source = curating[a].seen.source /\ fingerprint = profile.source

\* updateCollectionProfile; what is asked for already is no update.
CommitProfile(a) ==
    LET asked == [Requested(a) EXCEPT !.source = IF Binds(a) THEN curating[a].source ELSE @] IN
    /\ curating[a].pc = "bound"
    /\ IF asked = curating[a].seen \/ ~RowUnchanged(a)
       THEN UNCHANGED <<profile, approved>>
       ELSE /\ profile' = [profile EXCEPT
                 !.revision = @ + 1,
                 !.status = IF asked.status # curating[a].seen.status THEN asked.status ELSE @,
                 !.content = IF asked.content # curating[a].seen.content THEN asked.content ELSE @,
                 !.source = IF asked.source # curating[a].seen.source THEN asked.source ELSE @]
            /\ approved' = IF Verifies(a) THEN approved \union {<<asked.content, asked.source>>}
                                          ELSE approved
    /\ Close(a)
    /\ UNCHANGED <<fingerprint, rewrites, visiting>>

\* POST generate-profile, for an empty profile or with force, reads the row.
AskGeneration(a, force) ==
    /\ curating[a].pc = "screen"
    /\ IF /\ profile.revision = curating[a].seen.revision
          /\ force \/ profile.status = "EMPTY"
       THEN curating' = [curating EXCEPT ![a].pc = "ask"]
       ELSE Close(a)
    /\ UNCHANGED <<profile, fingerprint, rewrites, visiting, approved>>

\* The letters and their fingerprint, from one snapshot.
ReadSources(a) ==
    /\ curating[a].pc = "ask"
    /\ curating' = [curating EXCEPT ![a] = [@ EXCEPT !.pc = "generating", !.source = fingerprint]]
    /\ UNCHANGED <<profile, fingerprint, rewrites, visiting, approved>>

\* Mutant: generated output is bound to its sources, not to the edit it saw.
SourcesOnly(a) == fingerprint = curating[a].source

Storable(a) == profile.revision = curating[a].seen.revision /\ fingerprint = curating[a].source

\* storeGeneratedCollectionProfile; or the model failed.
StoreGenerated(a, text) ==
    /\ curating[a].pc = "generating"
    /\ \/ /\ Storable(a)
          /\ profile' = [revision |-> profile.revision + 1, status |-> "AI_DRAFT",
                         content |-> text, source |-> curating[a].source]
       \/ UNCHANGED profile
    /\ Close(a)
    /\ UNCHANGED <<fingerprint, rewrites, visiting, approved>>

\* commitAtomicCollectionEditorProfile.
Edited(row, text, source) ==
    [row EXCEPT !.revision = @ + 1, !.content = text,
                !.status = IF @ = "VERIFIED" \/ (text # row.content /\ @ = "AI_DRAFT")
                           THEN "EDITED" ELSE @,
                !.source = IF text # row.content /\ @ = Blank THEN source ELSE @]

\* applyCollectionEditorMutation: one transaction over the locked collection and
\* its letters.  The letters change with a rename or a new description.
EditCollection(a, text, touched) ==
    LET row == profile
        changed == text \notin {"keep", row.content} IN
    /\ curating[a].pc = "screen" /\ row.revision = curating[a].seen.revision
    /\ changed \/ touched
    /\ touched => rewrites < MaxSourceChanges
    /\ fingerprint' \in IF touched THEN Sources \ {fingerprint} ELSE {fingerprint}
    /\ rewrites' = IF touched THEN rewrites + 1 ELSE rewrites
    /\ profile' = Edited(row, IF changed THEN text ELSE row.content, fingerprint')
    /\ Close(a)
    /\ UNCHANGED <<visiting, approved>>

\* PUT /:code and PATCH correspondents, publications, deletions and page changes
\* advance the revision; other writers of letters do not.
ChangeLetters(known) ==
    /\ rewrites < MaxSourceChanges /\ rewrites' = rewrites + 1
    /\ fingerprint' \in Sources \ {fingerprint}
    /\ profile' = IF known THEN Advanced(profile) ELSE profile
    /\ UNCHANGED <<curating, visiting, approved>>

-----------------------------------------------------------------------------
(* GET /collections/:code/profile. *)

\* collectionProfilePublicationIsCurrent.
Publishable(row) == row.status = "VERIFIED" /\ row.source = fingerprint

Visit(v, pc, row) == visiting' = [visiting EXCEPT ![v] = [pc |-> pc, row |-> row]]

ReadProfile(v) ==
    /\ visiting[v].pc = "idle"
    /\ Visit(v, "start", profile)
    /\ UNCHANGED <<profile, fingerprint, rewrites, curating, approved>>

\* Mutant: only the check at the end of the request is made.
AnyRow(row) == TRUE

\* profilePublishedAtStart.
PublishedAtStart(row) == Publishable(row)

CheckAtStart(v) ==
    /\ visiting[v].pc = "start"
    /\ Visit(v, IF PublishedAtStart(visiting[v].row) THEN "end" ELSE "withheld", visiting[v].row)
    /\ UNCHANGED <<profile, fingerprint, rewrites, curating, approved>>

\* The row read first is served if the present one may be published.
ServeProfile(v) ==
    /\ visiting[v].pc = "end"
    /\ Visit(v, IF Publishable(profile) THEN "served" ELSE "withheld", visiting[v].row)
    /\ UNCHANGED <<profile, fingerprint, rewrites, curating, approved>>

-----------------------------------------------------------------------------
Curate(a) ==
    \/ OpenProfile(a)
    \/ \E text \in Content \union {"keep"}, status \in Statuses \union {"keep"} :
         SubmitProfile(a, text, status)
    \/ ComputeFingerprint(a) \/ CommitProfile(a)
    \/ \E force \in BOOLEAN : AskGeneration(a, force)
    \/ ReadSources(a)
    \/ \E text \in Profiles : StoreGenerated(a, text)
    \/ \E text \in Content \union {"keep"}, touched \in BOOLEAN : EditCollection(a, text, touched)

ProfileNext ==
    \/ \E a \in Curators : Curate(a)
    \/ \E known \in BOOLEAN : ChangeLetters(known)
    \/ \E v \in ProfileReaders : ReadProfile(v) \/ CheckAtStart(v) \/ ServeProfile(v)

ProfileSpec == ProfileInit /\ [][ProfileNext]_profileVars

-----------------------------------------------------------------------------
(* Properties. *)

(* A verified profile is exactly what its verifier had before them or wrote, *)
(* bound to the letters it was checked against: no edit, generation or       *)
(* change of the letters slips in between the screen and the update.         *)
VerifiedProfilesWereSeen ==
    profile.status = "VERIFIED" => <<profile.content, profile.source>> \in approved

(* Content is only ever replaced by somebody who saw it: a profile the model *)
(* spent minutes on never lands on an edit made in the meantime.             *)
NothingUnseenIsReplaced == [][
    profile'.content # profile.content => \E a \in Curators :
        /\ curating[a].pc # "gone" /\ curating'[a].pc = "gone"
        /\ curating[a].seen.content = profile.content]_profileVars

(* What the public page shows was verified with the sources it was shown     *)
(* under when the request began.                                             *)
PublicProfilesWereVerified == \A v \in ProfileReaders :
    visiting[v].pc = "served" =>
        <<visiting[v].row.content, visiting[v].row.source>> \in approved

=============================================================================
