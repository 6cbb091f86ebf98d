------------------------------ MODULE MCArchive ------------------------------
(* TLC instances of the modules about what the archive stores and shows.      *)
(* They share no variable: in a behaviour one of them moves, and the others   *)
(* keep one of their initial states.                                          *)
EXTENDS PageSources, LetterPublication, CollectionProfile, TranscriptConfirmation, TLC

VARIABLES
    moving, \* the module that moves
    cast    \* the two requests that act, where all of them are too many

archiveVars == <<moving, cast, pageVars, publicationVars, profileVars, confirmationVars>>

Actors == IF moving = "pages" THEN Uploads \union Deletions \union Readers
          ELSE IF moving = "profile" THEN Curators \union ProfileReaders
          ELSE {}

\* A group shows all that is verified, or nothing: both are where reviewers start.
AllOrNothing == \A n \in Members, field \in Fields :
    letter[n].published[field] <=> letter[n].visible /\ letter[n].status[field] = "VERIFIED"

\* One initial state is enough for a module that does not move.
ArchiveInit ==
    /\ moving \in {"pages", "publication", "profile", "confirmation"}
    /\ cast \in SUBSET Actors
    /\ Cardinality(cast) = IF Actors = {} THEN 0 ELSE 2
    /\ IF moving = "pages" THEN TRUE
       ELSE page = [s \in Slots |-> None] /\ object = [p \in Paths |-> None]
    /\ IF moving = "publication" THEN TRUE
       ELSE letter = [m \in Members |-> [Absent EXCEPT !.present = (m = Primary)]]
    /\ IF moving = "profile" THEN TRUE ELSE profile = EmptyProfile
    /\ PagesInit /\ PublicationInit /\ ProfileInit /\ ConfirmationInit
    /\ AllOrNothing
    /\ moving # "confirmation" => record.input.job = "SUCCESS"
    /\ fingerprint = CHOOSE source \in Sources : TRUE
    /\ record.input.text = CHOOSE text \in Wordings : TRUE

ArchiveNext ==
    \/ /\ moving = "pages" /\ PagesNext
       /\ \A u \in Uploads \ cast : uploading'[u] = uploading[u]
       /\ \A d \in Deletions \ cast : deleting'[d] = deleting[d]
       /\ \A r \in Readers \ cast : reading'[r] = reading[r]
       /\ UNCHANGED <<moving, cast, publicationVars, profileVars, confirmationVars>>
    \/ /\ moving = "publication" /\ PublicationNext
       /\ UNCHANGED <<moving, cast, pageVars, profileVars, confirmationVars>>
    \/ /\ moving = "profile" /\ ProfileNext
       /\ \A a \in Curators \ cast : curating'[a] = curating[a]
       /\ \A v \in ProfileReaders \ cast : visiting'[v] = visiting[v]
       /\ UNCHANGED <<moving, cast, pageVars, publicationVars, confirmationVars>>
    \/ /\ moving = "confirmation" /\ ConfirmationNext
       /\ UNCHANGED <<moving, cast, pageVars, publicationVars, profileVars>>

ArchiveSpec == ArchiveInit /\ [][ArchiveNext]_archiveVars

\* The types of all four modules.
ArchiveTypeOK ==
    /\ PagesTypeOK /\ PublicationTypeOK /\ ProfileTypeOK
    /\ ConfirmationTypeOK

Symmetry == Permutations(Admins) \union Permutations(Texts)

=============================================================================
