--------------------------- MODULE CanonicalIdentity ---------------------------
(***************************************************************************)
(* Canonical persons and places, the rows that tie them to letters and to  *)
(* each other, merges of two of them and the undo of a merge, while humans *)
(* and extraction runs keep writing the same rows.                         *)
(***************************************************************************)
EXTENDS Integers, FiniteSets, Sequences

CONSTANTS
    Entities,   \* canonical persons, or places
    Documents,  \* letters, each with one role
    RowIds,     \* ids of letter_persons and person_relationships rows
    Unused,     \* an id no row ever had
    Removed,    \* an id whose row was deleted
    Undoers,    \* requests that undo a merge
    MaxEntityChanges, \* bound on the merges and other changes together
    MaxRevision \* bound on the extractions of a letter

VARIABLES
    entities,  \* the canonical rows
    rows,      \* links and relationships by id
    latest,    \* the last extraction revision of each letter
    committed, \* the revision its extraction document has, 0 when it was cleared
    merges,    \* the audit log: every recorded merge
    undoing,   \* the merge each undo request has looked up, 0 for none
    changes    \* how many merges and other changes there were

identityVars == <<entities, rows, latest, committed, merges, undoing, changes>>

Confidences == 1 .. 2

\* stamp: the merge that set updatedAt last, 0 for any other write.
Entity == [present : BOOLEAN, aliases : SUBSET Entities, stamp : 0 .. MaxEntityChanges]

\* A link has one party, a relationship two; document is the letter linked, or
\* the one the relationship was discovered in; revision is 0 for a row that no
\* numbered extraction wrote.
Tie == [parties : {{a, b} : a, b \in Entities},
        document : Documents, confirmed : BOOLEAN, revision : 0 .. MaxRevision,
        confidence : Confidences]

Ties == {tie \in Tie : tie.confirmed => tie.revision = 0}

ASSUME IdentityAssumption ==
    /\ MaxEntityChanges \in Nat /\ MaxRevision \in Nat \ {0}
    /\ Unused # Removed /\ \A tie \in Ties : tie \notin {Unused, Removed}

Tables == [RowIds -> Ties \union {Unused, Removed}]

\* retained: ids the undo compares.  before, after: the rows around the merge.
Merge == [keep : Entities, gone : Entities, keepBefore : Entity, keepAfter : Entity,
          goneBefore : Entity, retained : SUBSET RowIds, before : Tables, after : Tables,
          undone : BOOLEAN]

(* The type of every variable. *)
IdentityTypeOK ==
    /\ entities \in [Entities -> Entity]
    /\ rows \in Tables
    /\ {latest, committed} \subseteq [Documents -> 0 .. MaxRevision]
    /\ merges \in Seq(Merge) /\ Len(merges) <= MaxEntityChanges
    /\ undoing \in [Undoers -> 0 .. MaxEntityChanges]
    /\ changes \in 0 .. MaxEntityChanges

-----------------------------------------------------------------------------
Live(table) == {id \in DOMAIN table : table[id] \notin {Unused, Removed}}

IsLink(tie) == Cardinality(tie.parties) = 1

\* The unique indexes: letter, person and role of a link, the pair of a relationship.
SameTie(a, b) ==
    a.parties = b.parties /\ (IsLink(a) => a.document = b.document)

Untied(tie) == \A id \in Live(rows) : ~SameTie(rows[id], tie)

Exists(e) == entities[e].present

IdentityInit ==
    /\ entities = [e \in Entities |-> [present |-> TRUE, aliases |-> {}, stamp |-> 0]]
    /\ latest = [d \in Documents |-> 1] /\ committed \in [Documents -> 0 .. 1]
    /\ rows \in [RowIds -> {tie \in Ties : tie.revision <= 1} \union {Unused}]
    /\ \A a, b \in Live(rows) : a # b => ~SameTie(rows[a], rows[b])
    /\ merges = <<>> /\ undoing = [u \in Undoers |-> 0] /\ changes = 0

Counted == changes < MaxEntityChanges /\ changes' = changes + 1

Change == Counted /\ UNCHANGED <<merges, undoing>>

\* Nobody's: a relationship the backfill inserted, or a link that is older than
\* the revisions.
Unowned(tie) == ~tie.confirmed /\ tie.revision = 0

\* addLinkedPerson, createRelationship and upsertRoleLink insert a confirmed row,
\* backfillRelationshipsFromLetters an unconfirmed relationship.
AddTie(id, tie) ==
    /\ rows[id] = Unused /\ (tie.confirmed \/ (Unowned(tie) /\ ~IsLink(tie)))
    /\ Untied(tie) /\ \A e \in tie.parties : Exists(e)
    /\ rows' = [rows EXCEPT ![id] = tie]
    /\ Change /\ UNCHANGED <<entities, latest, committed>>

\* updateRelationship and upsertRoleLink: the row becomes the administrator's.
ConfirmTie(id, confidence) ==
    /\ id \in Live(rows)
    /\ rows' = [rows EXCEPT ![id] = [@ EXCEPT !.confirmed = TRUE, !.revision = 0,
                                           !.confidence = confidence]]
    /\ Change /\ UNCHANGED <<entities, latest, committed>>

\* removeLinkedPerson, deleteRelationship, clearRoleLinks.
RemoveTie(id) ==
    /\ id \in Live(rows)
    /\ rows' = [rows EXCEPT ![id] = Removed]
    /\ Change /\ UNCHANGED <<entities, latest, committed>>

\* deleteReplaceableEntityProjection.
Replaceable(document) ==
    {id \in Live(rows) : rows[id].document = document /\ rows[id].revision > 0}

\* A row whose extraction is the committed one of its letter.
Current(tie) == tie.revision > 0 /\ tie.revision = committed[tie.document]

\* A row that may stay in the way of what an extraction found.
MayStay(tie) == tie.confirmed \/ Current(tie)

\* An extraction commits: what the last one left is replaced by what it found.
\* A row in the way becomes its own when it is nobody's; another is left alone,
\* or the commit fails.
CommitExtraction(id, tie) ==
    LET kept == [r \in RowIds |-> IF r \in Replaceable(tie.document) THEN Removed ELSE rows[r]]
        held == {r \in Live(kept) : SameTie(kept[r], tie)} IN
    /\ rows[id] = Unused /\ ~tie.confirmed /\ tie.revision = latest[tie.document] + 1
    /\ \A e \in tie.parties : Exists(e)
    /\ \A r \in held : Unowned(kept[r]) \/ MayStay(kept[r])
    /\ rows' = IF held = {} THEN [kept EXCEPT ![id] = tie]
               ELSE [r \in RowIds |-> IF r \in held /\ Unowned(kept[r]) THEN tie ELSE kept[r]]
    /\ latest' = [latest EXCEPT ![tie.document] = tie.revision]
    /\ committed' = [committed EXCEPT ![tie.document] = tie.revision]
    /\ Change /\ UNCHANGED entities

\* Its transcript or its metadata is edited: the extraction document is cleared,
\* the rows stay.
Invalidate(document) ==
    /\ committed[document] # 0 /\ committed' = [committed EXCEPT ![document] = 0]
    /\ Change /\ UNCHANGED <<entities, rows, latest>>

\* Its pages change: what extractions left goes too, links without a revision
\* among it.
ReplacePages(document) ==
    LET unnumbered == {id \in Live(rows) : /\ rows[id].document = document
                                           /\ IsLink(rows[id]) /\ Unowned(rows[id])} IN
    /\ rows' = [id \in RowIds |-> IF id \in Replaceable(document) \union unnumbered
                                  THEN Removed ELSE rows[id]]
    /\ committed' = [committed EXCEPT ![document] = 0]
    /\ Change /\ UNCHANGED <<entities, latest>>

\* A rename, its undo, an alias, a biography: the canonical row is written.
WriteEntity(e, aliases) ==
    /\ Exists(e)
    /\ entities' = [entities EXCEPT ![e] = [@ EXCEPT !.aliases = aliases, !.stamp = 0]]
    /\ Change /\ UNCHANGED <<rows, latest, committed>>

-----------------------------------------------------------------------------
(* Merges. *)

\* Mutant: the surer row wins, whoever wrote it.
SurerOnly(tie) == 0

\* chooseEntityMergeCollisionWinner: a human, then an extraction that still counts.
Rank(tie) ==
    IF tie.confirmed THEN 2 ELSE IF Current(tie) THEN 1 ELSE 0

Beats(incoming, existing) ==
    \/ Rank(incoming) > Rank(existing)
    \/ Rank(incoming) = Rank(existing) /\ incoming.confidence > existing.confidence

Redirected(tie, keep, gone) == [tie EXCEPT !.parties = (@ \ {gone}) \union {keep}]

\* Mutant: a row that is already there is not looked for.
NeverMet(id, keep, gone) == {}

\* The row that already ties what row id is about to.
Met(id, keep, gone) ==
    {other \in Live(rows) : gone \notin rows[other].parties
                            /\ SameTie(rows[other], Redirected(rows[id], keep, gone))}

\* The winner's columns, all but the parties, replace the loser's.
Payload(tie, from) == [from EXCEPT !.parties = tie.parties]

\* mergePersonsWithUndo and mergePlacesWithUndo, one transaction over the locked
\* canonical rows and every row of either.
MergedRows(keep, gone) ==
    LET incoming == {id \in Live(rows) : gone \in rows[id].parties}
        between(id) == rows[id].parties = {keep, gone}
        winner(other) == {id \in incoming : /\ ~between(id) /\ other \in Met(id, keep, gone)
                                            /\ Beats(rows[id], rows[other])} IN
    [id \in RowIds |->
        IF id \in incoming
        THEN IF between(id) \/ Met(id, keep, gone) # {} THEN Removed
             ELSE Redirected(rows[id], keep, gone)
        ELSE IF id \in Live(rows) /\ winner(id) # {}
        THEN Payload(rows[id], rows[CHOOSE w \in winner(id) : TRUE])
        ELSE rows[id]]

KeptLinks(keep, gone) ==
    LET incoming == {id \in Live(rows) : gone \in rows[id].parties /\ keep \notin rows[id].parties}
    IN UNION {IF Met(id, keep, gone) = {} THEN {id} ELSE Met(id, keep, gone) : id \in incoming}

\* tracked: bulk merges leave no undo action.
MergeEntities(keep, gone, tracked) ==
    LET kept == [entities[keep] EXCEPT
                   !.aliases = @ \union {gone} \union entities[gone].aliases,
                   !.stamp = IF tracked THEN Len(merges) + 1 ELSE 0] IN
    /\ keep # gone /\ Exists(keep) /\ Exists(gone)
    /\ rows' = MergedRows(keep, gone)
    /\ entities' = [entities EXCEPT ![keep] = kept, ![gone] = [@ EXCEPT !.present = FALSE]]
    /\ merges' = IF tracked
                 THEN Append(merges,
                        [keep |-> keep, gone |-> gone, keepBefore |-> entities[keep],
                         keepAfter |-> kept, goneBefore |-> entities[gone],
                         retained |-> KeptLinks(keep, gone), before |-> rows, after |-> rows',
                         undone |-> FALSE])
                 ELSE merges
    /\ Counted /\ UNCHANGED <<latest, committed, undoing>>

-----------------------------------------------------------------------------
(* Undo. *)

\* getPersonAuditEntryForUndo, before the transaction.
LookUp(u, n) ==
    /\ undoing[u] = 0 /\ n \in DOMAIN merges /\ ~merges[n].undone
    /\ undoing' = [undoing EXCEPT ![u] = n]
    /\ UNCHANGED <<entities, rows, latest, committed, merges, changes>>

\* Mutant: the undo does not look whether the links were written since.
EntityOnly(n) == entities[merges[n].keep] = merges[n].keepAfter

\* assertSnapshotsUnchanged.
AsMerged(n) ==
    /\ entities[merges[n].keep] = merges[n].keepAfter
    /\ \A id \in merges[n].retained : rows[id] = merges[n].after[id]

Restored(n) ==
    [id \in RowIds |-> IF merges[n].before[id] # merges[n].after[id]
                       THEN merges[n].before[id] ELSE rows[id]]

\* undoPersonMerge, undoPlaceMerge: all of it or nothing.
UndoMerge(u) ==
    LET n == undoing[u] IN
    /\ n # 0 /\ undoing' = [undoing EXCEPT ![u] = 0]
    /\ IF AsMerged(n)
       THEN /\ rows' = Restored(n)
            /\ entities' = [entities EXCEPT
                 ![merges[n].gone] = merges[n].goneBefore,
                 ![merges[n].keep] = [@ EXCEPT !.aliases = merges[n].keepBefore.aliases,
                                               !.stamp = 0]]
            /\ merges' = [merges EXCEPT ![n].undone = TRUE]
       ELSE UNCHANGED <<rows, entities, merges>>
    /\ UNCHANGED <<latest, committed, changes>>

-----------------------------------------------------------------------------
IdentityNext ==
    \/ \E id \in RowIds, tie \in Ties : AddTie(id, tie) \/ CommitExtraction(id, tie)
    \/ \E id \in RowIds, confidence \in Confidences : ConfirmTie(id, confidence)
    \/ \E id \in RowIds : RemoveTie(id)
    \/ \E document \in Documents : Invalidate(document) \/ ReplacePages(document)
    \/ \E e \in Entities : \E aliases \in {{}, entities[e].aliases} : WriteEntity(e, aliases)
    \/ \E keep, gone \in Entities, tracked \in BOOLEAN : MergeEntities(keep, gone, tracked)
    \/ \E u \in Undoers, n \in 1 .. MaxEntityChanges : LookUp(u, n)
    \/ \E u \in Undoers : UndoMerge(u)

IdentitySpec == IdentityInit /\ [][IdentityNext]_identityVars

-----------------------------------------------------------------------------
(* Properties. *)

(* Merges and undos, in any order and between any edits, leave a graph the    *)
(* database accepts: no two rows for the same tie, and no row of an entity    *)
(* that is not there; a restored row finds its place free.                    *)
GraphIsSound ==
    /\ \A a, b \in Live(rows) : a # b => ~SameTie(rows[a], rows[b])
    /\ \A id \in Live(rows) : \A e \in rows[id].parties : Exists(e)

(* An undo that goes through is the inverse of its merge on every row the     *)
(* merge left as it is found, and writes over nothing that changed since: it  *)
(* restores completely or refuses.                                            *)
UndoIsExact == [][\A n \in DOMAIN merges : ~merges[n].undone /\ merges'[n].undone =>
    \A id \in RowIds : rows'[id] = IF rows[id] = merges[n].after[id]
                                   THEN merges[n].before[id] ELSE rows[id]]_identityVars

(* What a human confirmed survives a merge: only another confirmed row may    *)
(* take the place of a tie an administrator wrote.                            *)
HumanTiesSurvive == [][\A gone \in Entities : Exists(gone) /\ ~Exists(gone)' =>
    \E keep \in Entities \ {gone} : \A id \in Live(rows) :
        rows[id].confirmed /\ rows[id].parties # {keep, gone} =>
            \E other \in Live(rows') :
                /\ rows'[other].confirmed
                /\ SameTie(rows'[other], IF gone \in rows[id].parties
                                         THEN Redirected(rows[id], keep, gone)
                                         ELSE rows[id])]_identityVars

=============================================================================
