---------------------- MODULE CanonicalIdentity_proofs ----------------------
(***************************************************************************)
(* For any number of entities, rows, letters, edits, merges and undos: the *)
(* graph stays sound, an undo is exact, and what a human confirmed         *)
(* survives a merge.                                                       *)
(***************************************************************************)
EXTENDS CanonicalIdentity, FiniteSetTheorems, TLAPS

\* The unique indexes hold in a table.
TiesAreUnique(table) == \A a, b \in Live(table) : a # b => ~SameTie(table[a], table[b])

\* A merge that was not undone.
Standing(n) == n \in DOMAIN merges /\ ~merges[n].undone

\* Rows a merge took out of the table.
TakenOut(m) == {id \in RowIds : m.before[id] # Removed /\ m.after[id] = Removed}

\* What a record says of its merge, for ever: it began in a table the database
\* accepts; a row it changed is gone or retained; the row of the merged-away
\* entity was about it and entities that rows of today still tie, the other
\* rows kept their tie.
RecordIsSound(m) ==
    /\ m.keep # m.gone /\ m.goneBefore.present /\ m.keepAfter.present
    /\ TiesAreUnique(m.before)
    /\ \A id \in RowIds : m.before[id] # m.after[id] =>
        /\ id \in Live(m.before)
        /\ m.after[id] = Removed \/ (id \in m.retained /\ id \in Live(m.after))
        /\ \/ m.gone \in m.before[id].parties
           \/ id \in Live(m.after) /\ SameTie(m.before[id], m.after[id])
        /\ \/ m.before[id].parties \subseteq {m.keep, m.gone}
           \/ \E other \in m.retained \cap Live(m.after) :
                 m.before[id].parties \subseteq m.after[other].parties \union {m.gone}

\* Who carries the stamp of a merge is the entity it kept, and nobody undid it.
StampsAreOfMerges ==
    /\ \A n \in DOMAIN merges : merges[n].keepAfter.stamp = n
    /\ \A e \in Entities : entities[e].stamp # 0 =>
        Standing(entities[e].stamp) /\ merges[entities[e].stamp].keep = e

\* The entity a standing merge took away is away, as it was; the rows it took
\* out are out; and no other standing merge took either.
StandingMergesHold ==
    /\ \A n \in DOMAIN merges : Standing(n) =>
        /\ entities[merges[n].gone] = [merges[n].goneBefore EXCEPT !.present = FALSE]
        /\ \A id \in TakenOut(merges[n]) : rows[id] = Removed
    /\ \A m, n \in DOMAIN merges : Standing(m) /\ Standing(n) /\ m # n =>
        /\ merges[m].gone # merges[n].gone
        /\ TakenOut(merges[m]) \cap TakenOut(merges[n]) = {}

IdentityInv ==
    /\ IdentityTypeOK /\ Len(merges) <= changes
    /\ \A u \in Undoers : undoing[u] # 0 => undoing[u] \in DOMAIN merges
    /\ GraphIsSound
    /\ \A n \in DOMAIN merges : RecordIsSound(merges[n])
    /\ StampsAreOfMerges /\ StandingMergesHold

-----------------------------------------------------------------------------
(* Ties.                                                                     *)

\* A tie with one party is a link.
LEMMA LinkHasOneParty ==
    ASSUME NEW a \in Entities, NEW b \in Entities
    PROVE  Cardinality({a, b}) = 1 <=> a = b
<1>1. IsFiniteSet({a}) /\ Cardinality({a}) = 1
  BY FS_Singleton
<1>2. {a, b} = {a} \union {b}
  OBVIOUS
<1>3. Cardinality({a} \union {b}) = IF b \in {a} THEN Cardinality({a}) ELSE Cardinality({a}) + 1
  BY <1>1, FS_AddElement
<1> QED BY <1>1, <1>2, <1>3

LEMMA TiesAreRows ==
    ASSUME NEW table \in Tables, NEW id \in Live(table)
    PROVE  id \in RowIds /\ table[id] \in Ties
BY DEF Live, Tables

LEMMA LiveRows ==
    ASSUME NEW table \in Tables, NEW id \in RowIds
    PROVE  id \in Live(table) <=> table[id] \in Ties
BY IdentityAssumption DEF Live, Tables

\* Being the same tie is an equivalence.
LEMMA SameTieIsEquivalence ==
    /\ \A a : SameTie(a, a)
    /\ \A a, b : SameTie(a, b) => SameTie(b, a)
    /\ \A a, b, c : SameTie(a, b) /\ SameTie(b, c) => SameTie(a, c)
BY DEF SameTie, IsLink

LEMMA TieFields ==
    ASSUME NEW tie \in Ties
    PROVE  /\ tie.document \in Documents /\ tie.revision \in 0 .. MaxRevision
           /\ tie.confirmed \in BOOLEAN /\ tie.confidence \in Confidences
           /\ tie.confirmed => tie.revision = 0
           /\ tie.parties \subseteq Entities
           /\ \E a, b \in Entities : tie.parties = {a, b}
BY DEF Ties, Tie

\* What a redirection does to a row of the merged-away entity.
LEMMA RedirectedIs ==
    ASSUME NEW keep \in Entities, NEW gone \in Entities, NEW tie \in Ties, gone \in tie.parties
    PROVE  LET moved == Redirected(tie, keep, gone) IN
           /\ moved \in Ties
           /\ moved.parties = (tie.parties \ {gone}) \union {keep}
           /\ moved.document = tie.document /\ moved.confirmed = tie.confirmed
<1> DEFINE moved == Redirected(tie, keep, gone)
<1>1. PICK a \in Entities, b \in Entities : tie.parties = {a, b}
  BY TieFields
<1>2. PICK parties : parties = (tie.parties \ {gone}) \union {keep}
  OBVIOUS
<1>3. parties \in {{x, y} : x, y \in Entities}
  <2>1. CASE a = gone
    <3>1. parties = {IF b = gone THEN keep ELSE b, keep}
      BY <1>1, <1>2, <2>1
    <3> QED BY <3>1
  <2>2. CASE a # gone
    <3>1. b = gone
      BY <1>1, <2>2
    <3>2. parties = {a, keep}
      BY <1>1, <1>2, <2>2, <3>1
    <3> QED BY <3>2
  <2> QED BY <2>1, <2>2
<1>4. moved = [tie EXCEPT !.parties = parties]
  BY <1>2 DEF Redirected
<1>5. moved \in Ties /\ moved.parties = parties
      /\ moved.document = tie.document /\ moved.confirmed = tie.confirmed
  BY <1>3, <1>4 DEF Ties, Tie
<1> QED BY <1>2, <1>5

LEMMA PayloadIs ==
    ASSUME NEW tie \in Ties, NEW from \in Ties
    PROVE  LET taken == Payload(tie, from) IN
           /\ taken \in Ties /\ taken.parties = tie.parties
           /\ taken.document = from.document /\ taken.confirmed = from.confirmed
BY TieFields DEF Payload, Ties, Tie

\* Two rows that a redirection makes the same tie are the same tie already.
LEMMA RedirectionIsInjective ==
    ASSUME NEW keep \in Entities, NEW gone \in Entities, keep # gone,
           NEW a \in Ties, NEW b \in Ties,
           gone \in a.parties, keep \notin a.parties, gone \in b.parties, keep \notin b.parties,
           SameTie(Redirected(a, keep, gone), Redirected(b, keep, gone))
    PROVE  SameTie(a, b)
<1>1. /\ Redirected(a, keep, gone).parties = (a.parties \ {gone}) \union {keep}
      /\ Redirected(b, keep, gone).parties = (b.parties \ {gone}) \union {keep}
      /\ Redirected(a, keep, gone).document = a.document
      /\ Redirected(b, keep, gone).document = b.document
  BY RedirectedIs
<1>2. (a.parties \ {gone}) \union {keep} = (b.parties \ {gone}) \union {keep}
  BY <1>1 DEF SameTie, IsLink
<1>3. a.parties = b.parties
  <2>1. ASSUME NEW e PROVE e \in a.parties <=> e \in b.parties
    BY <1>2
  <2> QED BY <2>1
<1>4. ASSUME Cardinality(a.parties) = 1 PROVE a.document = b.document
  <2>1. PICK x \in Entities, y \in Entities : a.parties = {x, y}
    BY TieFields
  <2>2. x = y
    BY <1>4, <2>1, LinkHasOneParty
  <2>3. Redirected(a, keep, gone).parties = {keep, keep}
    BY <1>1, <2>1, <2>2
  <2>4. Cardinality({keep, keep}) = 1
    BY LinkHasOneParty
  <2>5. Cardinality(Redirected(a, keep, gone).parties) = 1
    BY <2>3, <2>4, Zenon
  <2> QED BY <1>1, <2>5 DEF SameTie, IsLink
<1> QED BY <1>3, <1>4 DEF SameTie, IsLink

-----------------------------------------------------------------------------
(* What a merge makes of the rows.                                           *)

\* A row of the merged-away entity that is not about both.
Moves(id, keep, gone) ==
    id \in Live(rows) /\ gone \in rows[id].parties /\ keep \notin rows[id].parties

\* Row w moves to where row id is, and wins.
Takes(w, id, keep, gone) ==
    Moves(w, keep, gone) /\ id \in Met(w, keep, gone) /\ Beats(rows[w], rows[id])

\* A row about both names nobody else.
LEMMA BetweenNamesBoth ==
    ASSUME NEW tie \in Ties, NEW keep, NEW gone, keep # gone, gone \in tie.parties
    PROVE  keep \in tie.parties <=> tie.parties = {keep, gone}
<1>1. PICK a \in Entities, b \in Entities : tie.parties = {a, b}
  BY TieFields
<1> QED BY <1>1

LEMMA MergedRowsAre ==
    ASSUME rows \in Tables, NEW keep \in Entities, NEW gone \in Entities, keep # gone,
           NEW id \in RowIds
    PROVE  LET after == MergedRows(keep, gone)[id] IN
           /\ id \notin Live(rows) => after = rows[id]
           /\ id \in Live(rows) /\ rows[id].parties = {keep, gone} => after = Removed
           /\ Moves(id, keep, gone) =>
                after = IF Met(id, keep, gone) = {} THEN Redirected(rows[id], keep, gone)
                        ELSE Removed
           /\ id \in Live(rows) /\ gone \notin rows[id].parties =>
                \/ after = rows[id] /\ \A w \in RowIds : ~Takes(w, id, keep, gone)
                \/ \E w \in RowIds : /\ Takes(w, id, keep, gone)
                                     /\ after = Payload(rows[id], rows[w])
<1> DEFINE incoming == {w \in Live(rows) : gone \in rows[w].parties}
           between(w) == rows[w].parties = {keep, gone}
           winner(other) == {w \in incoming : /\ ~between(w) /\ other \in Met(w, keep, gone)
                                              /\ Beats(rows[w], rows[other])}
<1>1. MergedRows(keep, gone)[id] =
        IF id \in incoming
        THEN IF between(id) \/ Met(id, keep, gone) # {} THEN Removed
             ELSE Redirected(rows[id], keep, gone)
        ELSE IF id \in Live(rows) /\ winner(id) # {}
        THEN Payload(rows[id], rows[CHOOSE w \in winner(id) : TRUE])
        ELSE rows[id]
  BY DEF MergedRows
<1>2. \A w \in RowIds : w \in winner(id) <=> Takes(w, id, keep, gone)
  <2>1. ASSUME NEW w \in RowIds PROVE w \in incoming /\ ~between(w) <=> Moves(w, keep, gone)
    <3>1. CASE w \in incoming
      BY <3>1, TiesAreRows, BetweenNamesBoth DEF Moves
    <3>2. CASE w \notin incoming
      BY <3>2 DEF Moves
    <3> QED BY <3>1, <3>2
  <2> QED BY <2>1 DEF Takes
<1>3. winner(id) \subseteq RowIds
  BY TiesAreRows
<1>4. PICK chosen : chosen = CHOOSE w \in winner(id) : TRUE
  OBVIOUS
<1>5. winner(id) # {} => chosen \in winner(id)
  BY <1>4
<1> HIDE DEF winner
<1>6. id \notin Live(rows) => MergedRows(keep, gone)[id] = rows[id]
  BY <1>1
<1>7. id \in Live(rows) /\ rows[id].parties = {keep, gone} => MergedRows(keep, gone)[id] = Removed
  BY <1>1
<1>8. Moves(id, keep, gone) =>
        MergedRows(keep, gone)[id] =
            IF Met(id, keep, gone) = {} THEN Redirected(rows[id], keep, gone) ELSE Removed
  BY <1>1 DEF Moves
<1>9. id \in Live(rows) /\ gone \notin rows[id].parties =>
        \/ MergedRows(keep, gone)[id] = rows[id] /\ \A w \in RowIds : ~Takes(w, id, keep, gone)
        \/ \E w \in RowIds : /\ Takes(w, id, keep, gone)
                             /\ MergedRows(keep, gone)[id] = Payload(rows[id], rows[w])
  BY <1>1, <1>2, <1>3, <1>4, <1>5
<1> QED BY <1>6, <1>7, <1>8, <1>9

\* Every row meets at most one of these cases, and some.
LEMMA RowsSplit ==
    ASSUME rows \in Tables, NEW keep \in Entities, NEW gone \in Entities, keep # gone,
           NEW id \in RowIds
    PROVE  \/ id \notin Live(rows)
           \/ id \in Live(rows) /\ rows[id].parties = {keep, gone}
           \/ Moves(id, keep, gone)
           \/ id \in Live(rows) /\ gone \notin rows[id].parties
BY TiesAreRows, BetweenNamesBoth DEF Moves

\* The row that takes another's place was about the same tie.
LEMMA TakersTieTheSame ==
    ASSUME rows \in Tables, NEW keep \in Entities, NEW gone \in Entities, keep # gone,
           NEW id \in RowIds, NEW w \in RowIds, Moves(w, keep, gone), id \in Met(w, keep, gone)
    PROVE  /\ rows[id] \in Ties /\ rows[w] \in Ties /\ gone \notin rows[id].parties
           /\ SameTie(rows[id], Redirected(rows[w], keep, gone))
           /\ Payload(rows[id], rows[w]) \in Ties
           /\ SameTie(rows[id], Payload(rows[id], rows[w]))
<1>1. /\ rows[id] \in Ties /\ rows[w] \in Ties /\ gone \notin rows[id].parties
      /\ SameTie(rows[id], Redirected(rows[w], keep, gone)) /\ gone \in rows[w].parties
  BY TiesAreRows DEF Met, Moves
<1>2. /\ Redirected(rows[w], keep, gone).document = rows[w].document
      /\ Payload(rows[id], rows[w]) \in Ties
      /\ Payload(rows[id], rows[w]).parties = rows[id].parties
      /\ Payload(rows[id], rows[w]).document = rows[w].document
  BY <1>1, RedirectedIs, PayloadIs
<1> QED BY <1>1, <1>2 DEF SameTie, IsLink

\* What is in the merged table: a moved row, or a row that ties what it tied.
LEMMA MergedRowsAreTies ==
    ASSUME rows \in Tables, NEW keep \in Entities, NEW gone \in Entities, keep # gone
    PROVE  LET after == MergedRows(keep, gone) IN
           /\ after \in Tables
           /\ \A id \in Live(after) :
                \/ /\ Moves(id, keep, gone) /\ Met(id, keep, gone) = {}
                   /\ after[id] = Redirected(rows[id], keep, gone)
                \/ /\ id \in Live(rows) /\ gone \notin rows[id].parties
                   /\ SameTie(rows[id], after[id])
<1> DEFINE after == MergedRows(keep, gone)
<1>1. ASSUME NEW id \in RowIds
      PROVE  \/ after[id] \in {Unused, Removed}
             \/ /\ Moves(id, keep, gone) /\ Met(id, keep, gone) = {}
                /\ after[id] = Redirected(rows[id], keep, gone) /\ after[id] \in Ties
             \/ /\ id \in Live(rows) /\ gone \notin rows[id].parties
                /\ SameTie(rows[id], after[id]) /\ after[id] \in Ties
  <2>1. CASE id \notin Live(rows)
    BY <2>1, MergedRowsAre DEF Live, Tables
  <2>2. CASE id \in Live(rows) /\ rows[id].parties = {keep, gone}
    BY <2>2, MergedRowsAre
  <2>3. CASE Moves(id, keep, gone)
    BY <2>3, MergedRowsAre, TiesAreRows, RedirectedIs DEF Moves
  <2>4. CASE id \in Live(rows) /\ gone \notin rows[id].parties
    <3>1. CASE after[id] = rows[id]
      BY <2>4, <3>1, TiesAreRows, SameTieIsEquivalence
    <3>2. CASE \E w \in RowIds : Takes(w, id, keep, gone) /\ after[id] = Payload(rows[id], rows[w])
      BY <2>4, <3>2, TakersTieTheSame DEF Takes
    <3> QED BY <2>4, <3>1, <3>2, MergedRowsAre
  <2> QED BY <2>1, <2>2, <2>3, <2>4, RowsSplit
<1>2. after \in Tables
  <2>1. \A id \in RowIds : after[id] \in Ties \union {Unused, Removed}
    BY <1>1
  <2>2. after = [id \in RowIds |-> after[id]]
    BY DEF MergedRows
  <2> HIDE DEF after
  <2> QED BY <2>1, <2>2 DEF Tables
<1>3. \A id \in Live(after) : id \in RowIds /\ after[id] \notin {Unused, Removed}
  BY <1>2 DEF Live, Tables
<1> QED BY <1>1, <1>2, <1>3

\* A merge keeps ties unique, and ties nobody to the entity that goes.
LEMMA MergedTiesAreUnique ==
    ASSUME rows \in Tables, TiesAreUnique(rows),
           NEW keep \in Entities, NEW gone \in Entities, keep # gone
    PROVE  TiesAreUnique(MergedRows(keep, gone))
<1> DEFINE after == MergedRows(keep, gone)
           Moved(id) == /\ Moves(id, keep, gone) /\ Met(id, keep, gone) = {}
                        /\ after[id] = Redirected(rows[id], keep, gone)
           Stays(id) == /\ id \in Live(rows) /\ gone \notin rows[id].parties
                        /\ SameTie(rows[id], after[id])
<1>1. \A id \in Live(after) : Moved(id) \/ Stays(id)
  BY MergedRowsAreTies
<1>2. ASSUME NEW a, NEW b, Moved(a), Moved(b), a # b PROVE ~SameTie(after[a], after[b])
  BY <1>2, TiesAreRows, RedirectionIsInjective DEF Moves, TiesAreUnique
<1>3. ASSUME NEW a, NEW b, Moved(a), Stays(b) PROVE ~SameTie(after[b], after[a])
  <2>1. SameTie(after[b], after[a]) => SameTie(rows[b], Redirected(rows[a], keep, gone))
    BY <1>3, SameTieIsEquivalence
  <2> QED BY <1>3, <2>1 DEF Met
<1>4. ASSUME NEW a, NEW b, Stays(a), Stays(b), a # b PROVE ~SameTie(after[a], after[b])
  <2>1. SameTie(after[a], after[b]) => SameTie(rows[a], rows[b])
    BY <1>4, SameTieIsEquivalence
  <2> QED BY <1>4, <2>1 DEF TiesAreUnique
<1> HIDE DEF after, Moved, Stays
<1>5. ASSUME NEW a \in Live(after), NEW b \in Live(after), a # b PROVE ~SameTie(after[a], after[b])
  BY <1>1, <1>2, <1>3, <1>4, <1>5, SameTieIsEquivalence
<1> QED BY <1>5 DEF TiesAreUnique, after

LEMMA NobodyIsTiedToTheGone ==
    ASSUME rows \in Tables, NEW keep \in Entities, NEW gone \in Entities, keep # gone,
           NEW id \in Live(MergedRows(keep, gone)), NEW e \in MergedRows(keep, gone)[id].parties
    PROVE  e # gone /\ (e = keep \/ \E other \in Live(rows) : e \in rows[other].parties)
<1>1. CASE Moves(id, keep, gone) /\ MergedRows(keep, gone)[id] = Redirected(rows[id], keep, gone)
  <2>1. MergedRows(keep, gone)[id].parties = (rows[id].parties \ {gone}) \union {keep}
    BY <1>1, TiesAreRows, RedirectedIs DEF Moves
  <2> QED BY <1>1, <2>1 DEF Moves
<1>2. CASE id \in Live(rows) /\ gone \notin rows[id].parties
           /\ SameTie(rows[id], MergedRows(keep, gone)[id])
  BY <1>2 DEF SameTie, IsLink
<1> QED BY <1>1, <1>2, MergedRowsAreTies

\* What a merge changes: KeptLinks has what it did not take out.
LEMMA ChangesAreKept ==
    ASSUME rows \in Tables, NEW keep \in Entities, NEW gone \in Entities, keep # gone,
           NEW id \in RowIds, rows[id] # MergedRows(keep, gone)[id]
    PROVE  LET after == MergedRows(keep, gone) IN
           /\ id \in Live(rows)
           /\ after[id] = Removed \/ (id \in KeptLinks(keep, gone) /\ id \in Live(after))
           /\ \/ gone \in rows[id].parties
              \/ id \in Live(after) /\ SameTie(rows[id], after[id])
           /\ \/ rows[id].parties \subseteq {keep, gone}
              \/ \E other \in KeptLinks(keep, gone) \cap Live(after) :
                    rows[id].parties \subseteq after[other].parties \union {gone}
<1> DEFINE after == MergedRows(keep, gone)
<1>1. after \in Tables
  BY MergedRowsAreTies
<1>2. \A w \in RowIds : Moves(w, keep, gone) =>
        /\ Met(w, keep, gone) = {} => w \in KeptLinks(keep, gone)
        /\ Met(w, keep, gone) \subseteq KeptLinks(keep, gone)
  <2>1. ASSUME NEW w \in RowIds, Moves(w, keep, gone)
        PROVE  (IF Met(w, keep, gone) = {} THEN {w} ELSE Met(w, keep, gone))
                    \subseteq KeptLinks(keep, gone)
    BY <2>1 DEF KeptLinks, Moves
  <2> QED BY <2>1
<1>3. ASSUME NEW other \in Live(rows), gone \notin rows[other].parties
      PROVE  other \in Live(after) /\ SameTie(rows[other], after[other])
  <2>1. other \in RowIds /\ rows[other] \in Ties
    BY TiesAreRows
  <2>2. CASE after[other] = rows[other]
    BY <1>1, <2>1, <2>2, LiveRows, SameTieIsEquivalence
  <2>3. CASE \E w \in RowIds : /\ Takes(w, other, keep, gone)
                               /\ after[other] = Payload(rows[other], rows[w])
    BY <1>1, <2>1, <2>3, LiveRows, TakersTieTheSame DEF Takes
  <2> QED BY <1>3, <2>1, <2>2, <2>3, MergedRowsAre
<1>4. CASE id \in Live(rows) /\ rows[id].parties = {keep, gone}
  BY <1>4, MergedRowsAre
<1>5. CASE Moves(id, keep, gone)
  <2>1. id \in Live(rows) /\ rows[id] \in Ties /\ gone \in rows[id].parties
    BY <1>5, TiesAreRows DEF Moves
  <2>2. /\ Redirected(rows[id], keep, gone) \in Ties
        /\ Redirected(rows[id], keep, gone).parties = (rows[id].parties \ {gone}) \union {keep}
    BY <2>1, RedirectedIs
  <2>3. CASE Met(id, keep, gone) = {}
    <3>1. after[id] = Redirected(rows[id], keep, gone) /\ id \in KeptLinks(keep, gone)
      BY <1>2, <1>5, <2>3, MergedRowsAre
    <3>2. id \in Live(after)
      BY <1>1, <2>2, <3>1, LiveRows
    <3>3. rows[id].parties \subseteq after[id].parties \union {gone}
      BY <2>2, <3>1
    <3> QED BY <2>1, <3>1, <3>2, <3>3
  <2>4. CASE Met(id, keep, gone) # {}
    <3>1. PICK other : other \in Met(id, keep, gone)
      BY <2>4
    <3>2. /\ other \in Live(rows) /\ gone \notin rows[other].parties
          /\ SameTie(rows[other], Redirected(rows[id], keep, gone))
      BY <3>1 DEF Met
    <3>3. other \in Live(after) /\ SameTie(rows[other], after[other])
      BY <1>3, <3>2
    <3>4. rows[id].parties \subseteq after[other].parties \union {gone}
      BY <2>2, <3>2, <3>3 DEF SameTie, IsLink
    <3>5. after[id] = Removed
      BY <1>5, <2>4, MergedRowsAre
    <3> QED BY <1>2, <1>5, <2>1, <3>1, <3>3, <3>4, <3>5
  <2> QED BY <2>3, <2>4
<1>6. CASE id \in Live(rows) /\ gone \notin rows[id].parties
  <2>1. id \in Live(after) /\ SameTie(rows[id], after[id])
    BY <1>3, <1>6
  <2>2. id \in KeptLinks(keep, gone)
    BY <1>2, <1>6, MergedRowsAre DEF Takes
  <2>3. rows[id].parties \subseteq after[id].parties \union {gone}
    BY <2>1 DEF SameTie, IsLink
  <2> QED BY <1>6, <2>1, <2>2, <2>3
<1> QED BY <1>4, <1>5, <1>6, RowsSplit, MergedRowsAre

-----------------------------------------------------------------------------
(* The invariant holds, and edits keep it.                                   *)

LEMMA InvStarts == ASSUME IdentityInit PROVE IdentityInv
<1>1. MaxEntityChanges \in Nat /\ MaxRevision \in Nat /\ MaxRevision >= 1
  BY IdentityAssumption
<1>2. merges = <<>> /\ DOMAIN merges = {} /\ Len(merges) = 0 /\ merges \in Seq(Merge) /\ changes = 0
  BY DEF IdentityInit
<1>3. \A d \in Documents : latest[d] = 1
  BY DEF IdentityInit
<1>4. entities \in [Entities -> Entity]
      /\ \A e \in Entities : Exists(e) /\ entities[e].stamp = 0
  BY <1>1 DEF IdentityInit, Entity, Exists
<1>5. rows \in Tables
  BY DEF IdentityInit, Tables
<1>6. {latest, committed} \subseteq [Documents -> 0 .. MaxRevision]
  <2>1. latest \in [Documents -> 0 .. MaxRevision]
    BY <1>1 DEF IdentityInit
  <2>2. 0 .. 1 \subseteq 0 .. MaxRevision
    BY <1>1
  <2>3. committed \in [Documents -> 0 .. MaxRevision]
    BY <2>2 DEF IdentityInit
  <2> QED BY <2>1, <2>3
<1>7. undoing \in [Undoers -> 0 .. MaxEntityChanges] /\ \A u \in Undoers : undoing[u] = 0
  BY <1>1 DEF IdentityInit
<1>8. IdentityTypeOK
  BY <1>1, <1>2, <1>4, <1>5, <1>6, <1>7 DEF IdentityTypeOK
<1>9. GraphIsSound
  <2>1. \A a, b \in Live(rows) : a # b => ~SameTie(rows[a], rows[b])
    BY DEF IdentityInit
  <2>2. \A id \in Live(rows) : rows[id].parties \subseteq Entities
    BY <1>5, TiesAreRows, TieFields
  <2> QED BY <1>4, <2>1, <2>2 DEF GraphIsSound
<1> QED BY <1>2, <1>4, <1>7, <1>8, <1>9 DEF IdentityInv, StampsAreOfMerges, StandingMergesHold, Standing

\* What an edit has to respect: the log stays, rows that are gone stay gone,
\* and only an entity that is there is written, without a stamp.
LEMMA Frame ==
    ASSUME IdentityInv, IdentityTypeOK', GraphIsSound', UNCHANGED <<merges, undoing>>,
           changes' = changes \/ changes' = changes + 1,
           \A id \in RowIds : rows[id] = Removed => rows'[id] = Removed,
           \A e \in Entities : \/ entities'[e] = entities[e]
                               \/ Exists(e) /\ entities'[e].stamp = 0
    PROVE  IdentityInv'
<1>1. Len(merges)' <= changes'
  <2>1. Len(merges) \in Nat /\ changes \in Nat
    BY DEF IdentityInv, IdentityTypeOK
  <2> QED BY <2>1 DEF IdentityInv
<1>2. \A n : Standing(n)' <=> Standing(n)
  BY DEF Standing
<1>3. StampsAreOfMerges'
  BY <1>2 DEF IdentityInv, StampsAreOfMerges
<1>4. StandingMergesHold'
  <2>1. ASSUME NEW n \in DOMAIN merges, Standing(n)
        PROVE  /\ entities'[merges[n].gone] = [merges[n].goneBefore EXCEPT !.present = FALSE]
               /\ \A id \in TakenOut(merges[n]) : rows'[id] = Removed
    <3>1. merges[n] \in Merge
      BY DEF IdentityInv, IdentityTypeOK
    <3>2. /\ entities[merges[n].gone] = [merges[n].goneBefore EXCEPT !.present = FALSE]
          /\ \A id \in TakenOut(merges[n]) : rows[id] = Removed
      BY <2>1 DEF IdentityInv, StandingMergesHold
    <3>3. ~Exists(merges[n].gone) /\ merges[n].gone \in Entities
      BY <3>1, <3>2 DEF Exists, Merge, Entity
    <3> QED BY <3>2, <3>3 DEF TakenOut
  <2> QED BY <1>2, <2>1 DEF IdentityInv, StandingMergesHold
<1> QED BY <1>1, <1>3, <1>4 DEF IdentityInv

LEMMA EntriesAreTables ==
    ASSUME rows \in Tables, NEW id \in RowIds, NEW tie \in Ties
    PROVE  [rows EXCEPT ![id] = tie] \in Tables /\ [rows EXCEPT ![id] = Removed] \in Tables
BY DEF Tables

LEMMA AddTieKeeps ==
    ASSUME IdentityInv, NEW id \in RowIds, NEW tie \in Ties, AddTie(id, tie) PROVE IdentityInv'
<1>1. /\ IdentityTypeOK /\ GraphIsSound /\ changes \in Nat /\ MaxEntityChanges \in Nat
  BY IdentityAssumption DEF IdentityInv, IdentityTypeOK
<1>2. /\ rows' \in Tables /\ rows'[id] = tie /\ rows[id] = Unused
      /\ \A r \in RowIds \ {id} : rows'[r] = rows[r]
  BY <1>1, EntriesAreTables DEF AddTie, IdentityTypeOK, Tables
<1>3. changes' = changes + 1 /\ IdentityTypeOK'
  BY <1>1, <1>2 DEF AddTie, Change, Counted, IdentityTypeOK
<1>4. /\ \A r \in Live(rows)' : r = id \/ (r \in Live(rows) /\ rows'[r] = rows[r] /\ r # id)
      /\ \A r \in Live(rows)' : r \in RowIds
  BY <1>1, <1>2 DEF Live, Tables, IdentityTypeOK
<1>5. \A r \in Live(rows) : ~SameTie(rows[r], tie) /\ ~SameTie(tie, rows[r])
  BY SameTieIsEquivalence DEF AddTie, Untied
<1>6. \A e \in tie.parties : Exists(e)
  BY DEF AddTie
<1>7. GraphIsSound'
  <2>1. \A a, b \in Live(rows)' : a # b => ~SameTie(rows'[a], rows'[b])
    BY <1>1, <1>2, <1>4, <1>5 DEF GraphIsSound
  <2>2. \A r \in Live(rows)' : \A e \in rows'[r].parties : Exists(e)'
    BY <1>1, <1>2, <1>4, <1>6 DEF GraphIsSound, Exists, AddTie
  <2> QED BY <2>1, <2>2 DEF GraphIsSound
<1> QED BY <1>2, <1>3, <1>7, Frame, IdentityAssumption DEF AddTie, Change

LEMMA ConfirmTieKeeps ==
    ASSUME IdentityInv, NEW id \in RowIds, NEW confidence \in Confidences,
           ConfirmTie(id, confidence)
    PROVE  IdentityInv'
<1>1. /\ IdentityTypeOK /\ GraphIsSound /\ changes \in Nat /\ MaxEntityChanges \in Nat
      /\ MaxRevision \in Nat
  BY IdentityAssumption DEF IdentityInv, IdentityTypeOK
<1>2. rows[id] \in Ties /\ id \in Live(rows) /\ rows[id] # Removed
  BY <1>1, TiesAreRows, IdentityAssumption DEF ConfirmTie, IdentityTypeOK
<1>3. PICK old \in Ties : old = rows[id]
  BY <1>2
<1>4. PICK new : new = [old EXCEPT !.confirmed = TRUE, !.revision = 0, !.confidence = confidence]
  OBVIOUS
<1>5. new \in Ties /\ new.parties = old.parties /\ new.document = old.document
  <2>1. old \in Tie
    BY DEF Ties
  <2>2. PICK yes \in BOOLEAN : yes = TRUE
    OBVIOUS
  <2>3. PICK one : one = [old EXCEPT !.confirmed = yes]
    OBVIOUS
  <2>4. PICK two : two = [one EXCEPT !.revision = 0]
    OBVIOUS
  <2>5. new = [two EXCEPT !.confidence = confidence]
    BY <1>4, <2>2, <2>3, <2>4
  <2>6. yes \in BOOLEAN
    BY <2>2
  <2>7. one \in Tie /\ one.parties = old.parties /\ one.document = old.document
    BY <2>1, <2>3, <2>6 DEF Tie
  <2>8. two \in Tie /\ two.parties = old.parties /\ two.document = old.document /\ two.revision = 0
    BY <1>1, <2>4, <2>7 DEF Tie
  <2>9. /\ new \in Tie /\ new.parties = old.parties /\ new.document = old.document
        /\ new.revision = 0
    BY <2>5, <2>8 DEF Tie
  <2> QED BY <2>9 DEF Ties
<1>6. rows' = [rows EXCEPT ![id] = new]
  BY <1>3, <1>4 DEF ConfirmTie
<1>7. /\ rows' \in Tables /\ rows'[id] = new /\ \A r \in RowIds \ {id} : rows'[r] = rows[r]
  BY <1>1, <1>5, <1>6, EntriesAreTables DEF IdentityTypeOK, Tables
<1>8. changes' = changes + 1 /\ IdentityTypeOK'
  BY <1>1, <1>7 DEF ConfirmTie, Change, Counted, IdentityTypeOK
<1>9. \A r \in Live(rows)' : /\ r \in Live(rows) /\ rows'[r].parties = rows[r].parties
                             /\ rows'[r].document = rows[r].document
  BY <1>1, <1>2, <1>3, <1>5, <1>7 DEF Live, Tables, IdentityTypeOK
<1>10. GraphIsSound'
  <2>1. \A a, b \in Live(rows)' : a # b => ~SameTie(rows'[a], rows'[b])
    BY <1>1, <1>9 DEF GraphIsSound, SameTie, IsLink
  <2>2. \A r \in Live(rows)' : \A e \in rows'[r].parties : Exists(e)'
    BY <1>1, <1>9 DEF GraphIsSound, Exists, ConfirmTie
  <2> QED BY <2>1, <2>2 DEF GraphIsSound
<1> QED BY <1>2, <1>7, <1>8, <1>10, Frame DEF ConfirmTie, Change

\* Rows that go leave a sound graph.
LEMMA FewerRowsAreSound ==
    ASSUME rows \in Tables, GraphIsSound, NEW table \in Tables,
           \A id \in RowIds : table[id] = rows[id] \/ table[id] = Removed
    PROVE  /\ TiesAreUnique(table)
           /\ \A id \in Live(table) : id \in Live(rows) /\ table[id] = rows[id]
<1>1. \A id \in Live(table) : id \in Live(rows) /\ table[id] = rows[id]
  BY DEF Live, Tables
<1> QED BY <1>1 DEF GraphIsSound, TiesAreUnique

LEMMA RemoveTieKeeps ==
    ASSUME IdentityInv, NEW id \in RowIds, RemoveTie(id) PROVE IdentityInv'
<1>1. /\ IdentityTypeOK /\ GraphIsSound /\ changes \in Nat /\ MaxEntityChanges \in Nat
  BY IdentityAssumption DEF IdentityInv, IdentityTypeOK
<1>2. rows' \in Tables /\ \A r \in RowIds : rows'[r] = rows[r] \/ rows'[r] = Removed
  BY <1>1 DEF RemoveTie, IdentityTypeOK, Tables
<1>3. changes' = changes + 1 /\ IdentityTypeOK'
  BY <1>1, <1>2 DEF RemoveTie, Change, Counted, IdentityTypeOK
<1>4. GraphIsSound'
  <2>1. /\ \A a, b \in Live(rows') : a # b => ~SameTie(rows'[a], rows'[b])
        /\ \A r \in Live(rows') : r \in Live(rows) /\ rows'[r] = rows[r]
    BY <1>1, <1>2, FewerRowsAreSound DEF IdentityTypeOK, TiesAreUnique
  <2> QED BY <1>1, <2>1 DEF GraphIsSound, Exists, RemoveTie
<1> QED BY <1>2, <1>3, <1>4, Frame DEF RemoveTie, Change

LEMMA CommitExtractionKeeps ==
    ASSUME IdentityInv, NEW id \in RowIds, NEW tie \in Ties, CommitExtraction(id, tie)
    PROVE  IdentityInv'
<1> DEFINE kept == [r \in RowIds |-> IF r \in Replaceable(tie.document) THEN Removed ELSE rows[r]]
           held == {r \in Live(kept) : SameTie(kept[r], tie)}
<1>1. /\ IdentityTypeOK /\ GraphIsSound /\ changes \in Nat /\ MaxEntityChanges \in Nat
      /\ rows \in Tables
  BY IdentityAssumption DEF IdentityInv, IdentityTypeOK
<1>2. /\ rows[id] = Unused /\ \A e \in tie.parties : Exists(e)
      /\ rows' = IF held = {} THEN [kept EXCEPT ![id] = tie]
                 ELSE [r \in RowIds |-> IF r \in held /\ Unowned(kept[r]) THEN tie ELSE kept[r]]
      /\ latest' = [latest EXCEPT ![tie.document] = tie.revision]
      /\ committed' = [committed EXCEPT ![tie.document] = tie.revision]
      /\ Change /\ UNCHANGED entities
  BY DEF CommitExtraction
<1>3. kept \in Tables /\ \A r \in RowIds : kept[r] = rows[r] \/ kept[r] = Removed
  BY <1>1 DEF Tables
<1>4. /\ TiesAreUnique(kept)
      /\ \A r \in Live(kept) : r \in RowIds /\ r \in Live(rows) /\ kept[r] = rows[r]
  BY <1>1, <1>3, FewerRowsAreSound, TiesAreRows
<1>5. kept[id] = Unused /\ \A r \in RowIds : rows[r] = Removed => kept[r] = Removed
  BY <1>1, <1>2 DEF Replaceable, Live
<1> HIDE DEF kept
<1>6. /\ rows' \in Tables
      /\ \A r \in RowIds : \/ rows'[r] = kept[r]
                           \/ rows'[r] = tie /\ (r \in held \/ (r = id /\ held = {}))
  BY <1>2, <1>3 DEF Tables
<1>7. tie.revision \in 0 .. MaxRevision
  BY TieFields
<1>8. {latest', committed'} \subseteq [Documents -> 0 .. MaxRevision]
  BY <1>1, <1>2, <1>7 DEF IdentityTypeOK
<1>9. changes' = changes + 1 /\ IdentityTypeOK'
  BY <1>1, <1>2, <1>6, <1>8 DEF Change, Counted, IdentityTypeOK
<1>10. \A r \in Live(rows') : r \in RowIds /\ (\/ r \in Live(kept) /\ rows'[r] = kept[r]
                                               \/ r \in held /\ rows'[r] = tie
                                               \/ r = id /\ rows'[r] = tie /\ held = {})
  BY <1>3, <1>6 DEF Live, Tables
<1>11. GraphIsSound'
  <2>1. \A r \in Live(kept) \ held : ~SameTie(kept[r], tie) /\ ~SameTie(tie, kept[r])
    BY SameTieIsEquivalence
  <2>2. \A a, b \in held : a = b
    BY <1>4, SameTieIsEquivalence DEF TiesAreUnique
  <2>3. ASSUME NEW a \in Live(rows'), NEW b \in Live(rows'), a # b
        PROVE  ~SameTie(rows'[a], rows'[b])
    <3>1. CASE rows'[a] = kept[a] /\ a \in Live(kept) /\ rows'[b] = kept[b] /\ b \in Live(kept)
      BY <1>4, <2>3, <3>1 DEF TiesAreUnique
    <3>2. CASE a \in held /\ rows'[a] = tie /\ b \in Live(kept) \ held /\ rows'[b] = kept[b]
      BY <2>1, <3>2
    <3>3. CASE b \in held /\ rows'[b] = tie /\ a \in Live(kept) \ held /\ rows'[a] = kept[a]
      BY <2>1, <3>3
    <3>4. CASE held = {}
      BY <1>10, <2>1, <2>3, <3>1, <3>4
    <3> QED BY <1>10, <2>2, <2>3, <3>1, <3>2, <3>3, <3>4
  <2>4. \A r \in Live(rows') : \A e \in rows'[r].parties : Exists(e)
    BY <1>1, <1>2, <1>4, <1>10 DEF GraphIsSound
  <2> QED BY <1>2, <2>3, <2>4 DEF GraphIsSound, Exists
<1>12. \A r \in RowIds : rows[r] = Removed => rows'[r] = Removed
  <2>1. \A r \in held : kept[r] # Removed
    BY DEF Live
  <2> QED BY <1>2, <1>5, <1>6, <2>1, IdentityAssumption
<1> QED BY <1>2, <1>9, <1>11, <1>12, Frame DEF Change

LEMMA InvalidateKeeps ==
    ASSUME IdentityInv, NEW document \in Documents, Invalidate(document) PROVE IdentityInv'
<1>1. /\ IdentityTypeOK /\ GraphIsSound /\ changes \in Nat /\ MaxEntityChanges \in Nat
      /\ MaxRevision \in Nat
  BY IdentityAssumption DEF IdentityInv, IdentityTypeOK
<1>2. {latest', committed'} \subseteq [Documents -> 0 .. MaxRevision]
  BY <1>1 DEF IdentityTypeOK, Invalidate
<1>3. changes' = changes + 1 /\ IdentityTypeOK'
  BY <1>1, <1>2 DEF Invalidate, Change, Counted, IdentityTypeOK
<1>4. GraphIsSound'
  BY <1>1 DEF GraphIsSound, Exists, Live, Invalidate
<1> QED BY <1>3, <1>4, Frame DEF Invalidate, Change

LEMMA ReplacePagesKeeps ==
    ASSUME IdentityInv, NEW document \in Documents, ReplacePages(document) PROVE IdentityInv'
<1>1. /\ IdentityTypeOK /\ GraphIsSound /\ changes \in Nat /\ MaxEntityChanges \in Nat
      /\ MaxRevision \in Nat
  BY IdentityAssumption DEF IdentityInv, IdentityTypeOK
<1>2. rows' \in Tables /\ \A r \in RowIds : rows'[r] = rows[r] \/ rows'[r] = Removed
  BY <1>1 DEF ReplacePages, IdentityTypeOK, Tables
<1>3. {latest', committed'} \subseteq [Documents -> 0 .. MaxRevision]
  BY <1>1 DEF IdentityTypeOK, ReplacePages
<1>4. changes' = changes + 1 /\ IdentityTypeOK'
  BY <1>1, <1>2, <1>3 DEF ReplacePages, Change, Counted, IdentityTypeOK
<1>5. GraphIsSound'
  <2>1. /\ \A a, b \in Live(rows') : a # b => ~SameTie(rows'[a], rows'[b])
        /\ \A r \in Live(rows') : r \in Live(rows) /\ rows'[r] = rows[r]
    BY <1>1, <1>2, FewerRowsAreSound DEF IdentityTypeOK, TiesAreUnique
  <2> QED BY <1>1, <2>1 DEF GraphIsSound, Exists, ReplacePages
<1> QED BY <1>2, <1>4, <1>5, Frame DEF ReplacePages, Change

LEMMA WriteEntityKeeps ==
    ASSUME IdentityInv, NEW e \in Entities, NEW aliases \in {{}, entities[e].aliases},
           WriteEntity(e, aliases)
    PROVE  IdentityInv'
<1>1. /\ IdentityTypeOK /\ GraphIsSound /\ changes \in Nat /\ MaxEntityChanges \in Nat
      /\ entities \in [Entities -> Entity]
  BY IdentityAssumption DEF IdentityInv, IdentityTypeOK
<1>2. PICK old \in Entity : old = entities[e]
  BY <1>1
<1>3. PICK new : new = [old EXCEPT !.aliases = aliases, !.stamp = 0]
  OBVIOUS
<1>4. new \in Entity /\ new.present = old.present /\ new.stamp = 0
  <2>1. PICK one : one = [old EXCEPT !.aliases = aliases]
    OBVIOUS
  <2>2. new = [one EXCEPT !.stamp = 0]
    BY <1>3, <2>1
  <2>3. aliases \in SUBSET Entities
    BY <1>2 DEF Entity
  <2>4. one \in Entity /\ one.present = old.present
    BY <2>1, <2>3 DEF Entity
  <2> QED BY <1>1, <2>2, <2>4 DEF Entity
<1>5. entities' = [entities EXCEPT ![e] = new]
  BY <1>2, <1>3 DEF WriteEntity
<1>6. /\ entities' \in [Entities -> Entity] /\ entities'[e] = new
      /\ \A f \in Entities \ {e} : entities'[f] = entities[f]
  BY <1>1, <1>4, <1>5
<1>7. changes' = changes + 1 /\ IdentityTypeOK'
  BY <1>1, <1>6 DEF WriteEntity, Change, Counted, IdentityTypeOK
<1>8. \A f \in Entities : Exists(f)' <=> Exists(f)
  BY <1>2, <1>4, <1>6 DEF Exists
<1>9. \A id \in Live(rows) : rows[id].parties \subseteq Entities
  BY <1>1, TiesAreRows, TieFields DEF IdentityTypeOK
<1>10. GraphIsSound'
  BY <1>1, <1>8, <1>9 DEF GraphIsSound, Live, WriteEntity
<1>11. Exists(e)
  BY DEF WriteEntity
<1> QED BY <1>4, <1>6, <1>7, <1>10, <1>11, Frame DEF WriteEntity, Change

LEMMA LookUpKeeps ==
    ASSUME IdentityInv, NEW u \in Undoers, NEW n \in 1 .. MaxEntityChanges, LookUp(u, n)
    PROVE  IdentityInv'
<1>1. /\ undoing \in [Undoers -> 0 .. MaxEntityChanges] /\ MaxEntityChanges \in Nat
      /\ undoing' = [undoing EXCEPT ![u] = n] /\ n \in DOMAIN merges
      /\ UNCHANGED <<entities, rows, latest, committed, merges, changes>>
  BY IdentityAssumption DEF IdentityInv, IdentityTypeOK, LookUp
<1>2. /\ undoing' \in [Undoers -> 0 .. MaxEntityChanges]
      /\ \A v \in Undoers : undoing'[v] # 0 => undoing'[v] \in DOMAIN merges
  BY <1>1 DEF IdentityInv
<1> QED BY <1>1, <1>2 DEF IdentityInv, IdentityTypeOK, GraphIsSound, Live, Exists,
             StampsAreOfMerges, StandingMergesHold, Standing

-----------------------------------------------------------------------------
(* A merge keeps the invariant.                                              *)

LEMMA MergeKeeps ==
    ASSUME IdentityInv, NEW keep \in Entities, NEW gone \in Entities, NEW tracked \in BOOLEAN,
           MergeEntities(keep, gone, tracked)
    PROVE  IdentityInv'
<1>1. /\ IdentityTypeOK /\ GraphIsSound /\ changes \in Nat /\ MaxEntityChanges \in Nat
      /\ entities \in [Entities -> Entity] /\ rows \in Tables
      /\ merges \in Seq(Merge) /\ Len(merges) \in Nat /\ Len(merges) <= changes
      /\ DOMAIN merges = 1 .. Len(merges)
  BY IdentityAssumption DEF IdentityInv, IdentityTypeOK
<1>2. /\ keep # gone /\ Exists(keep) /\ Exists(gone)
      /\ rows' = MergedRows(keep, gone)
      /\ changes < MaxEntityChanges /\ changes' = changes + 1
      /\ UNCHANGED <<latest, committed, undoing>>
  BY DEF MergeEntities, Counted
<1>3. PICK host \in Entity : host = entities[keep]
  BY <1>1
<1>4. PICK guest \in Entity : guest = entities[gone]
  BY <1>1
<1>5. PICK last, stamp : last = Len(merges) + 1 /\ stamp = IF tracked THEN last ELSE 0
  OBVIOUS
<1>6. PICK aliases : aliases = host.aliases \union {gone} \union guest.aliases
  OBVIOUS
<1>7. PICK kept : kept = [host EXCEPT !.aliases = aliases, !.stamp = stamp]
  OBVIOUS
<1>8. PICK away : away = [guest EXCEPT !.present = FALSE]
  OBVIOUS
<1>9. kept \in Entity /\ kept.present = host.present /\ kept.stamp = stamp
  <2>1. PICK one : one = [host EXCEPT !.aliases = aliases]
    OBVIOUS
  <2>2. kept = [one EXCEPT !.stamp = stamp]
    BY <1>7, <2>1
  <2>3. aliases \in SUBSET Entities
    BY <1>6 DEF Entity
  <2>4. one \in Entity /\ one.present = host.present
    BY <2>1, <2>3 DEF Entity
  <2>5. stamp \in 0 .. MaxEntityChanges
    BY <1>1, <1>2, <1>5
  <2> QED BY <2>2, <2>4, <2>5 DEF Entity
<1>10. away \in Entity /\ away.present = FALSE /\ away.stamp = guest.stamp
  <2>1. PICK no \in BOOLEAN : no = FALSE
    OBVIOUS
  <2>2. away = [guest EXCEPT !.present = no]
    BY <1>8, <2>1
  <2>3. away \in Entity /\ away.present = no /\ away.stamp = guest.stamp
    BY <2>2 DEF Entity
  <2> QED BY <2>1, <2>3
<1>11. /\ entities' = [entities EXCEPT ![keep] = kept, ![gone] = away]
       /\ merges' = IF tracked
                    THEN Append(merges,
                        [keep |-> keep, gone |-> gone, keepBefore |-> host,
                         keepAfter |-> kept, goneBefore |-> guest,
                         retained |-> KeptLinks(keep, gone), before |-> rows, after |-> rows',
                         undone |-> FALSE])
                    ELSE merges
  BY <1>2, <1>3, <1>4, <1>5, <1>6, <1>7, <1>8 DEF MergeEntities
<1>12. /\ entities' \in [Entities -> Entity] /\ entities'[keep] = kept /\ entities'[gone] = away
       /\ \A e \in Entities \ {keep, gone} : entities'[e] = entities[e]
  BY <1>1, <1>2, <1>9, <1>10, <1>11
<1>13. rows' \in Tables
  BY <1>1, <1>2, MergedRowsAreTies
<1>14. host.present /\ guest.present
  BY <1>2, <1>3, <1>4 DEF Exists
<1>15. GraphIsSound'
  <2>1. TiesAreUnique(rows')
    BY <1>1, <1>2, MergedTiesAreUnique DEF GraphIsSound, TiesAreUnique
  <2>2. ASSUME NEW id \in Live(rows'), NEW e \in rows'[id].parties PROVE entities'[e].present
    <3>1. e # gone /\ (e = keep \/ \E other \in Live(rows) : e \in rows[other].parties)
      BY <1>1, <1>2, <2>2, NobodyIsTiedToTheGone
    <3>2. e \in Entities
      BY <1>13, <2>2, TiesAreRows, TieFields
    <3>3. CASE e = keep
      BY <1>9, <1>12, <1>14, <3>3
    <3>4. CASE e # keep
      BY <1>1, <1>12, <3>1, <3>2, <3>4 DEF GraphIsSound, Exists
    <3> QED BY <3>3, <3>4
  <2> QED BY <2>1, <2>2 DEF GraphIsSound, TiesAreUnique, Exists
<1>16. \A n \in DOMAIN merges : Standing(n) =>
          merges[n].gone \in Entities \ {keep, gone} /\ merges[n] \in Merge
  <2>1. ASSUME NEW n \in DOMAIN merges, Standing(n)
        PROVE  /\ merges[n] \in Merge /\ merges[n].gone \in Entities
               /\ ~entities[merges[n].gone].present
    <3>1. merges[n] \in Merge
      BY <1>1
    <3>2. entities[merges[n].gone] = [merges[n].goneBefore EXCEPT !.present = FALSE]
      BY <2>1 DEF IdentityInv, StandingMergesHold
    <3>3. merges[n].gone \in Entities /\ merges[n].goneBefore \in Entity
      BY <3>1 DEF Merge
    <3> QED BY <3>1, <3>2, <3>3 DEF Entity
  <2>2. entities[keep].present /\ entities[gone].present
    BY <1>2 DEF Exists
  <2> QED BY <2>1, <2>2
<1>17. \A id \in RowIds : rows[id] = Removed => rows'[id] = Removed
  <2>1. ASSUME NEW id \in RowIds, rows[id] = Removed PROVE rows'[id] = Removed
    <3>1. id \notin Live(rows)
      BY <2>1 DEF Live
    <3> QED BY <1>1, <1>2, <2>1, <3>1, MergedRowsAre
  <2> QED BY <2>1
<1>18. \A n \in DOMAIN merges : Standing(n) =>
          /\ entities'[merges[n].gone] = [merges[n].goneBefore EXCEPT !.present = FALSE]
          /\ \A id \in TakenOut(merges[n]) : rows[id] = Removed /\ rows'[id] = Removed
  BY <1>12, <1>16, <1>17 DEF IdentityInv, StandingMergesHold, TakenOut
<1>19. \A e \in Entities \ {keep} : entities'[e].stamp = entities[e].stamp
  BY <1>4, <1>10, <1>12
<1>20. CASE ~tracked
  <2>1. merges' = merges /\ stamp = 0
    BY <1>5, <1>11, <1>20
  <2>2. \A n : Standing(n)' <=> Standing(n)
    BY <2>1 DEF Standing
  <2>3. IdentityTypeOK'
    BY <1>1, <1>2, <1>12, <1>13, <2>1 DEF IdentityTypeOK
  <2>4. StampsAreOfMerges'
    BY <1>9, <1>12, <1>19, <2>1, <2>2 DEF IdentityInv, StampsAreOfMerges
  <2>5. StandingMergesHold'
    BY <1>18, <2>1, <2>2 DEF IdentityInv, StandingMergesHold
  <2> QED BY <1>1, <1>2, <1>15, <2>1, <2>3, <2>4, <2>5 DEF IdentityInv
<1>21. CASE tracked
  <2>1. PICK entry : entry =
          [keep |-> keep, gone |-> gone, keepBefore |-> host, keepAfter |-> kept,
           goneBefore |-> guest, retained |-> KeptLinks(keep, gone), before |-> rows,
           after |-> rows', undone |-> FALSE]
    OBVIOUS
  <2>2. KeptLinks(keep, gone) \subseteq RowIds
    <3>1. \A id \in Live(rows) : id \in RowIds
      BY <1>1, TiesAreRows
    <3> QED BY <3>1 DEF KeptLinks, Met
  <2>3. entry \in Merge /\ entry.undone = FALSE
    BY <1>1, <1>9, <1>13, <2>1, <2>2 DEF Merge
  <2>4. merges' = Append(merges, entry) /\ stamp = last
    BY <1>5, <1>11, <1>21, <2>1
  <2>5. /\ merges' \in Seq(Merge) /\ Len(merges') = last /\ last = Len(merges) + 1
        /\ merges'[last] = entry /\ \A n \in DOMAIN merges : merges'[n] = merges[n]
        /\ DOMAIN merges' = DOMAIN merges \union {last} /\ last \notin DOMAIN merges
        /\ last # 0
    BY <1>1, <1>5, <2>3, <2>4
  <2>6. IdentityTypeOK'
    BY <1>1, <1>2, <1>12, <1>13, <2>5 DEF IdentityTypeOK
  <2>7. RecordIsSound(entry)
    <3>1. /\ entry.keep = keep /\ entry.gone = gone /\ entry.goneBefore = guest
          /\ entry.keepAfter = kept /\ entry.before = rows /\ entry.after = rows'
          /\ entry.retained = KeptLinks(keep, gone)
      BY <2>1
    <3>2. TiesAreUnique(rows)
      BY <1>1 DEF GraphIsSound, TiesAreUnique
    <3>3. \A id \in RowIds : rows[id] # rows'[id] =>
           /\ id \in Live(rows)
           /\ rows'[id] = Removed \/ (id \in KeptLinks(keep, gone) /\ id \in Live(rows'))
           /\ \/ gone \in rows[id].parties
              \/ id \in Live(rows') /\ SameTie(rows[id], rows'[id])
           /\ \/ rows[id].parties \subseteq {keep, gone}
              \/ \E other \in KeptLinks(keep, gone) \cap Live(rows') :
                    rows[id].parties \subseteq rows'[other].parties \union {gone}
      BY <1>1, <1>2, ChangesAreKept
    <3> QED BY <1>2, <1>9, <1>14, <3>1, <3>2, <3>3 DEF RecordIsSound
  <2>8. /\ \A n \in DOMAIN merges : Standing(n)' <=> Standing(n)
        /\ Standing(last)'
    BY <2>3, <2>5 DEF Standing
  <2>9. StampsAreOfMerges'
    <3>1. \A n \in DOMAIN merges' : merges'[n].keepAfter.stamp = n
      BY <1>9, <2>1, <2>4, <2>5 DEF IdentityInv, StampsAreOfMerges
    <3>2. ASSUME NEW e \in Entities, NEW n, n = entities'[e].stamp, n # 0
          PROVE  Standing(n)' /\ merges'[n].keep = e
      <4>1. CASE e = keep
        <5>1. n = last
          BY <1>9, <1>12, <2>4, <3>2, <4>1
        <5> QED BY <2>1, <2>5, <2>8, <4>1, <5>1
      <4>2. CASE e # keep
        <5>1. n = entities[e].stamp /\ Standing(n) /\ merges[n].keep = e
          BY <1>19, <3>2, <4>2 DEF IdentityInv, StampsAreOfMerges
        <5> QED BY <2>5, <2>8, <5>1 DEF Standing
      <4> QED BY <4>1, <4>2
    <3> QED BY <3>1, <3>2 DEF StampsAreOfMerges
  <2>10. StandingMergesHold'
    <3>1. ASSUME NEW n \in DOMAIN merges', Standing(n)'
          PROVE  /\ entities'[merges'[n].gone] = [merges'[n].goneBefore EXCEPT !.present = FALSE]
                 /\ \A id \in TakenOut(merges'[n]) : rows'[id] = Removed
      <4>1. CASE n \in DOMAIN merges
        BY <1>18, <2>5, <2>8, <3>1, <4>1
      <4>2. CASE n = last
        <5>1. /\ entry.gone = gone /\ entry.goneBefore = guest /\ entry.after = rows'
              /\ merges'[n] = entry
          BY <2>1, <2>5, <4>2
        <5> QED BY <1>8, <1>12, <5>1 DEF TakenOut
      <4> QED BY <2>5, <4>1, <4>2
    <3>2. ASSUME NEW n \in DOMAIN merges, Standing(n)
          PROVE  /\ merges[n].gone # entry.gone
                 /\ TakenOut(merges[n]) \cap TakenOut(entry) = {}
      <4>1. entry.gone = gone /\ entry.before = rows
        BY <2>1
      <4>2. \A id \in TakenOut(merges[n]) : rows[id] = Removed
        BY <1>18, <3>2
      <4> QED BY <1>16, <3>2, <4>1, <4>2 DEF TakenOut
    <3>3. \A m, n \in DOMAIN merges : Standing(m) /\ Standing(n) /\ m # n =>
            /\ merges[m].gone # merges[n].gone
            /\ TakenOut(merges[m]) \cap TakenOut(merges[n]) = {}
      BY DEF IdentityInv, StandingMergesHold
    <3>4. \A m, n \in DOMAIN merges' : Standing(m)' /\ Standing(n)' /\ m # n =>
            /\ merges'[m].gone # merges'[n].gone
            /\ TakenOut(merges'[m]) \cap TakenOut(merges'[n]) = {}
      BY <2>5, <2>8, <3>2, <3>3
    <3> QED BY <3>1, <3>4 DEF StandingMergesHold, TakenOut
  <2>11. \A n \in DOMAIN merges' : RecordIsSound(merges'[n])
    BY <2>5, <2>7 DEF IdentityInv
  <2>12. \A u \in Undoers : undoing'[u] # 0 => undoing'[u] \in DOMAIN merges'
    BY <1>2, <2>5 DEF IdentityInv
  <2>13. Len(merges') <= changes'
    BY <1>1, <1>2, <2>5
  <2> QED BY <1>15, <2>6, <2>9, <2>10, <2>11, <2>12, <2>13
          DEF IdentityInv, RecordIsSound, TiesAreUnique, Live, SameTie, IsLink
<1> QED BY <1>20, <1>21

-----------------------------------------------------------------------------
(* So does an undo.                                                          *)

\* An undo that goes through is of a standing merge, whose survivor is there,
\* and finds every row the merge changed as the merge left it.
LEMMA UndoFindsItsMerge ==
    ASSUME IdentityInv, NEW n \in DOMAIN merges, AsMerged(n)
    PROVE  /\ Standing(n) /\ merges[n].keep \in Entities /\ merges[n].gone \in Entities
           /\ merges[n].keep # merges[n].gone /\ Exists(merges[n].keep)
           /\ \A id \in RowIds : merges[n].before[id] # merges[n].after[id] =>
                /\ merges[n].before[id] \in Ties /\ rows[id] = merges[n].after[id]
                /\ id \in TakenOut(merges[n]) \/ id \in Live(rows)
<1>1. /\ merges[n] \in Merge /\ RecordIsSound(merges[n]) /\ rows \in Tables
  BY DEF IdentityInv, IdentityTypeOK
<1>2. /\ merges[n].keep \in Entities /\ merges[n].gone \in Entities
      /\ merges[n].before \in Tables /\ merges[n].after \in Tables
  BY <1>1 DEF Merge
<1>3. entities[merges[n].keep] = merges[n].keepAfter /\ merges[n].keepAfter.stamp = n /\ n # 0
  <2>1. n \in 1 .. Len(merges)
    BY DEF IdentityInv, IdentityTypeOK
  <2> QED BY <2>1 DEF AsMerged, IdentityInv, StampsAreOfMerges
<1>4. Standing(n)
  BY <1>2, <1>3 DEF IdentityInv, StampsAreOfMerges
<1>5. Exists(merges[n].keep)
  BY <1>1, <1>3 DEF RecordIsSound, Exists
<1>6. ASSUME NEW id \in RowIds, merges[n].before[id] # merges[n].after[id]
      PROVE  /\ merges[n].before[id] \in Ties /\ rows[id] = merges[n].after[id]
             /\ id \in TakenOut(merges[n]) \/ id \in Live(rows)
  <2>1. /\ id \in Live(merges[n].before)
        /\ \/ merges[n].after[id] = Removed
           \/ id \in merges[n].retained /\ id \in Live(merges[n].after)
    BY <1>1, <1>6 DEF RecordIsSound
  <2>2. merges[n].before[id] \in Ties
    BY <1>2, <2>1, LiveRows
  <2>3. CASE merges[n].after[id] = Removed
    <3>1. id \in TakenOut(merges[n])
      BY <1>6, <2>3 DEF TakenOut
    <3> QED BY <1>4, <2>2, <2>3, <3>1 DEF IdentityInv, StandingMergesHold
  <2>4. CASE id \in merges[n].retained /\ id \in Live(merges[n].after)
    <3>1. rows[id] = merges[n].after[id]
      BY <2>4 DEF AsMerged
    <3> QED BY <1>1, <1>2, <2>2, <2>4, <3>1, LiveRows
  <2> QED BY <2>1, <2>3, <2>4
<1> QED BY <1>1, <1>2, <1>4, <1>5, <1>6 DEF RecordIsSound

\* What is restored fits what is there.
LEMMA RestoredGraphIsSound ==
    ASSUME IdentityInv, NEW n \in DOMAIN merges, AsMerged(n)
    PROVE  /\ Restored(n) \in Tables /\ TiesAreUnique(Restored(n))
           /\ \A id \in Live(Restored(n)) : \A e \in Restored(n)[id].parties :
                 Exists(e) \/ e = merges[n].gone
<1> DEFINE m == merges[n]
           table == Restored(n)
<1>1. /\ m \in Merge /\ RecordIsSound(m) /\ rows \in Tables /\ GraphIsSound
  BY DEF IdentityInv, IdentityTypeOK
<1>2. m.before \in Tables /\ m.after \in Tables /\ m.retained \subseteq RowIds
  BY <1>1 DEF Merge
<1>3. \A id \in RowIds : table[id] = IF m.before[id] # m.after[id] THEN m.before[id] ELSE rows[id]
  BY DEF Restored
<1>4. table \in Tables
  BY <1>1, <1>2 DEF Restored, Tables
<1>5. ~Exists(m.gone)
  <2>1. entities[m.gone] = [m.goneBefore EXCEPT !.present = FALSE]
    BY UndoFindsItsMerge DEF IdentityInv, StandingMergesHold
  <2>2. m.goneBefore \in Entity
    BY <1>1 DEF Merge
  <2> QED BY <2>1, <2>2 DEF Exists, Entity
<1> HIDE DEF table
<1>6. \A id \in Live(table) : id \in RowIds /\ table[id] \in Ties
  BY <1>4, TiesAreRows
<1>7. \A id \in Live(table) :
        \/ m.before[id] # m.after[id] /\ table[id] = m.before[id] /\ id \in Live(m.before)
        \/ m.before[id] = m.after[id] /\ table[id] = rows[id] /\ id \in Live(rows)
  BY <1>1, <1>2, <1>3, <1>6, LiveRows
<1>8. ASSUME NEW a \in Live(table), NEW b \in Live(table),
             m.before[a] # m.after[a], m.before[b] = m.after[b]
      PROVE  ~SameTie(table[a], table[b])
  <2>1. table[a] = m.before[a] /\ table[b] = rows[b] /\ b \in Live(rows) /\ a \in RowIds /\ a # b
    BY <1>6, <1>7, <1>8
  <2>2. CASE m.gone \in m.before[a].parties
    BY <1>1, <1>5, <2>1, <2>2 DEF GraphIsSound, SameTie, IsLink
  <2>3. CASE a \in Live(m.after) /\ SameTie(m.before[a], m.after[a])
    <3>1. rows[a] = m.after[a] /\ a \in Live(rows)
      BY <1>1, <1>2, <1>8, <2>1, <2>3, UndoFindsItsMerge, LiveRows
    <3>2. ~SameTie(rows[a], rows[b])
      BY <1>1, <2>1, <3>1 DEF GraphIsSound
    <3> QED BY <2>1, <2>3, <3>1, <3>2, SameTieIsEquivalence
  <2> QED BY <1>1, <1>8, <2>1, <2>2, <2>3 DEF RecordIsSound
<1>9. ASSUME NEW a \in Live(table), NEW b \in Live(table), a # b
      PROVE  ~SameTie(table[a], table[b])
  <2>1. CASE m.before[a] # m.after[a] /\ m.before[b] # m.after[b]
    BY <1>1, <1>7, <1>9, <2>1 DEF RecordIsSound, TiesAreUnique
  <2>2. CASE m.before[a] = m.after[a] /\ m.before[b] = m.after[b]
    BY <1>1, <1>7, <1>9, <2>2 DEF GraphIsSound
  <2> QED BY <1>8, <2>1, <2>2, SameTieIsEquivalence
<1>10. ASSUME NEW id \in Live(table), NEW e \in table[id].parties PROVE Exists(e) \/ e = m.gone
  <2>1. CASE m.before[id] = m.after[id]
    BY <1>1, <1>7, <2>1 DEF GraphIsSound
  <2>2. CASE m.before[id] # m.after[id] /\ m.before[id].parties \subseteq {m.keep, m.gone}
    BY <1>7, <2>2, UndoFindsItsMerge
  <2>3. CASE \E other \in m.retained \cap Live(m.after) :
               m.before[id].parties \subseteq m.after[other].parties \union {m.gone}
    <3>1. PICK other \in m.retained \cap Live(m.after) :
             m.before[id].parties \subseteq m.after[other].parties \union {m.gone}
      BY <2>3
    <3>2. rows[other] = m.after[other] /\ other \in RowIds
      BY <1>2 DEF AsMerged
    <3>3. other \in Live(rows)
      BY <1>1, <1>2, <3>2, LiveRows
    <3>4. \A f \in m.after[other].parties : Exists(f)
      BY <1>1, <3>2, <3>3 DEF GraphIsSound
    <3> QED BY <1>7, <2>1, <3>1, <3>4
  <2> QED BY <1>1, <1>6, <2>1, <2>2, <2>3 DEF RecordIsSound
<1> QED BY <1>4, <1>9, <1>10 DEF TiesAreUnique, table

LEMMA UndoMergeKeeps ==
    ASSUME IdentityInv, NEW u \in Undoers, UndoMerge(u) PROVE IdentityInv'
<1>1. /\ IdentityTypeOK /\ GraphIsSound /\ entities \in [Entities -> Entity] /\ rows \in Tables
      /\ merges \in Seq(Merge) /\ Len(merges) \in Nat /\ DOMAIN merges = 1 .. Len(merges)
      /\ undoing \in [Undoers -> 0 .. MaxEntityChanges] /\ MaxEntityChanges \in Nat
  BY IdentityAssumption DEF IdentityInv, IdentityTypeOK
<1>2. PICK n : n = undoing[u]
  OBVIOUS
<1>3. n \in DOMAIN merges /\ undoing' = [undoing EXCEPT ![u] = 0]
      /\ UNCHANGED <<latest, committed, changes>>
  BY <1>2 DEF UndoMerge, IdentityInv
<1>4. /\ undoing' \in [Undoers -> 0 .. MaxEntityChanges]
      /\ \A v \in Undoers : undoing'[v] # 0 => undoing'[v] \in DOMAIN merges
  BY <1>1, <1>3 DEF IdentityInv
<1>5. CASE ~AsMerged(n)
  <2>1. UNCHANGED <<rows, entities, merges>>
    BY <1>2, <1>5 DEF UndoMerge
  <2> QED BY <1>1, <1>3, <1>4, <2>1 DEF IdentityInv, IdentityTypeOK, GraphIsSound, Live, Exists,
             StampsAreOfMerges, StandingMergesHold, Standing
<1>6. CASE AsMerged(n)
  <2>1. PICK m \in Merge : m = merges[n]
    BY <1>1, <1>3
  <2>2. /\ m.keep \in Entities /\ m.gone \in Entities /\ m.goneBefore \in Entity
        /\ m.keepBefore \in Entity /\ m.before \in Tables /\ m.after \in Tables
    BY DEF Merge
  <2>3. /\ Standing(n) /\ m.keep # m.gone /\ Exists(m.keep)
        /\ m.goneBefore.present /\ entities[m.gone] = [m.goneBefore EXCEPT !.present = FALSE]
    BY <1>3, <1>6, <2>1, UndoFindsItsMerge
       DEF IdentityInv, RecordIsSound, StandingMergesHold
  <2>4. PICK host \in Entity : host = entities[m.keep]
    BY <1>1, <2>2
  <2>5. PICK aliases \in SUBSET Entities : aliases = m.keepBefore.aliases
    BY <2>2 DEF Entity
  <2>6. PICK kept : kept = [host EXCEPT !.aliases = aliases, !.stamp = 0]
    OBVIOUS
  <2>7. kept \in Entity /\ kept.present = host.present /\ kept.stamp = 0
    <3>1. PICK one : one = [host EXCEPT !.aliases = aliases]
      OBVIOUS
    <3>2. kept = [one EXCEPT !.stamp = 0]
      BY <2>6, <3>1
    <3>3. one \in Entity /\ one.present = host.present
      BY <3>1 DEF Entity
    <3>4. 0 \in 0 .. MaxEntityChanges
      BY <1>1
    <3> QED BY <3>2, <3>3, <3>4 DEF Entity
  <2>8. PICK closed : closed = [m EXCEPT !.undone = TRUE]
    OBVIOUS
  <2>9. /\ closed \in Merge /\ closed.undone
        /\ closed.keep = m.keep /\ closed.gone = m.gone /\ closed.keepAfter = m.keepAfter
        /\ closed.goneBefore = m.goneBefore /\ closed.retained = m.retained
        /\ closed.before = m.before /\ closed.after = m.after
    <3>1. PICK yes \in BOOLEAN : yes = TRUE
      OBVIOUS
    <3>2. closed = [m EXCEPT !.undone = yes]
      BY <2>8, <3>1
    <3>3. yes \in BOOLEAN
      BY <3>1
    <3>4. closed \in Merge
      BY <3>2, <3>3 DEF Merge
    <3>5. /\ closed.undone = yes
          /\ closed.keep = m.keep /\ closed.gone = m.gone /\ closed.keepAfter = m.keepAfter
          /\ closed.goneBefore = m.goneBefore /\ closed.retained = m.retained
          /\ closed.before = m.before /\ closed.after = m.after
      BY <3>2 DEF Merge
    <3> QED BY <3>1, <3>4, <3>5
  <2>10. /\ rows' = Restored(n) /\ merges' = [merges EXCEPT ![n] = closed]
         /\ entities' = [entities EXCEPT ![m.gone] = m.goneBefore, ![m.keep] = kept]
    <3>1. /\ rows' = Restored(n) /\ merges' = [merges EXCEPT ![n].undone = TRUE]
          /\ entities' = [entities EXCEPT
                 ![merges[n].gone] = merges[n].goneBefore,
                 ![merges[n].keep] = [@ EXCEPT !.aliases = merges[n].keepBefore.aliases,
                                               !.stamp = 0]]
      BY <1>2, <1>6 DEF UndoMerge
    <3> QED BY <1>1, <2>1, <2>2, <2>3, <2>4, <2>5, <2>6, <2>8, <3>1
  <2>11. /\ entities' \in [Entities -> Entity]
         /\ entities'[m.gone] = m.goneBefore /\ entities'[m.keep] = kept
         /\ \A e \in Entities \ {m.keep, m.gone} : entities'[e] = entities[e]
    BY <1>1, <2>2, <2>3, <2>7, <2>10
  <2>12. /\ merges' \in Seq(Merge) /\ Len(merges') = Len(merges) /\ DOMAIN merges' = DOMAIN merges
         /\ merges'[n] = closed /\ \A k \in DOMAIN merges \ {n} : merges'[k] = merges[k]
    BY <1>1, <1>3, <2>9, <2>10
  <2>13. /\ rows' \in Tables /\ TiesAreUnique(rows')
         /\ \A id \in Live(rows') : \A e \in rows'[id].parties : Exists(e) \/ e = m.gone
    BY <1>3, <1>6, <2>1, <2>10, RestoredGraphIsSound
  <2>14. IdentityTypeOK'
    BY <1>1, <1>3, <1>4, <2>11, <2>12, <2>13 DEF IdentityTypeOK
  <2>15. GraphIsSound'
    <3>1. \A e \in Entities : Exists(e) \/ e = m.gone => entities'[e].present
      BY <2>3, <2>4, <2>7, <2>11 DEF Exists
    <3>2. \A id \in Live(rows') : rows'[id].parties \subseteq Entities
      BY <2>13, TiesAreRows, TieFields
    <3> QED BY <2>13, <3>1, <3>2 DEF GraphIsSound, TiesAreUnique, Exists
  <2>16. \A k : Standing(k)' <=> Standing(k) /\ k # n
    BY <2>9, <2>12 DEF Standing
  <2>17. StampsAreOfMerges'
    <3>1. \A k \in DOMAIN merges' : merges'[k].keepAfter.stamp = k
      BY <2>1, <2>9, <2>12 DEF IdentityInv, StampsAreOfMerges
    <3>2. ASSUME NEW e \in Entities, NEW k, k = entities'[e].stamp, k # 0
          PROVE  Standing(k)' /\ merges'[k].keep = e
      <4>1. e # m.keep
        BY <2>7, <2>11, <3>2
      <4>2. k = entities[e].stamp
        <5>1. CASE e = m.gone
          <6>1. PICK no : no = [m.goneBefore EXCEPT !.present = FALSE]
            OBVIOUS
          <6>2. no.stamp = m.goneBefore.stamp
            BY <2>2, <6>1 DEF Entity
          <6> QED BY <2>3, <2>11, <3>2, <5>1, <6>1, <6>2
        <5>2. CASE e # m.gone
          BY <2>11, <3>2, <4>1, <5>2
        <5> QED BY <5>1, <5>2
      <4>3. Standing(k) /\ merges[k].keep = e
        BY <3>2, <4>2 DEF IdentityInv, StampsAreOfMerges
      <4>4. k # n
        BY <2>1, <4>1, <4>3
      <4> QED BY <2>12, <2>16, <4>3, <4>4 DEF Standing
    <3> QED BY <3>1, <3>2 DEF StampsAreOfMerges
  <2>18. StandingMergesHold'
    <3>1. ASSUME NEW k \in DOMAIN merges', Standing(k)'
          PROVE  /\ entities'[merges'[k].gone] = [merges'[k].goneBefore EXCEPT !.present = FALSE]
                 /\ \A id \in TakenOut(merges'[k]) : rows'[id] = Removed
      <4>1. /\ k \in DOMAIN merges /\ Standing(k) /\ k # n /\ merges'[k] = merges[k]
            /\ merges[k] \in Merge
        BY <1>1, <2>12, <2>16, <3>1
      <4>2. /\ merges[k].gone # m.gone /\ TakenOut(merges[k]) \cap TakenOut(m) = {}
            /\ entities[merges[k].gone] = [merges[k].goneBefore EXCEPT !.present = FALSE]
            /\ \A id \in TakenOut(merges[k]) : rows[id] = Removed
        BY <1>3, <2>1, <2>3, <4>1 DEF IdentityInv, StandingMergesHold
      <4>3. merges[k].gone \in Entities /\ merges[k].goneBefore \in Entity
        BY <4>1 DEF Merge
      <4>4. ~Exists(merges[k].gone)
        BY <4>2, <4>3 DEF Exists, Entity
      <4>5. entities'[merges[k].gone] = entities[merges[k].gone]
        BY <2>3, <2>11, <4>2, <4>3, <4>4
      <4>6. ASSUME NEW id \in TakenOut(merges[k]) PROVE rows'[id] = Removed
        <5>1. id \in RowIds /\ rows[id] = Removed /\ id \notin TakenOut(m) /\ id \notin Live(rows)
          BY <4>2, <4>6 DEF TakenOut, Live
        <5>2. m.before[id] = m.after[id]
          BY <1>3, <1>6, <2>1, <5>1, UndoFindsItsMerge
        <5> QED BY <2>1, <2>10, <5>1, <5>2 DEF Restored
      <4> QED BY <4>1, <4>2, <4>5, <4>6
    <3>2. \A j, k \in DOMAIN merges' : Standing(j)' /\ Standing(k)' /\ j # k =>
            /\ merges'[j].gone # merges'[k].gone
            /\ TakenOut(merges'[j]) \cap TakenOut(merges'[k]) = {}
      BY <2>12, <2>16 DEF IdentityInv, StandingMergesHold
    <3> QED BY <3>1, <3>2 DEF StandingMergesHold, TakenOut
  <2>19. \A k \in DOMAIN merges' : RecordIsSound(merges'[k])
    <3>1. RecordIsSound(closed)
      BY <1>3, <2>1, <2>9 DEF IdentityInv, RecordIsSound
    <3> QED BY <2>12, <3>1 DEF IdentityInv
  <2> QED BY <1>3, <1>4, <2>12, <2>14, <2>15, <2>17, <2>18, <2>19
          DEF IdentityInv, RecordIsSound, TiesAreUnique, Live, SameTie, IsLink
<1> QED BY <1>5, <1>6

LEMMA InvKept == ASSUME IdentityInv, [IdentityNext]_identityVars PROVE IdentityInv'
<1>1. CASE UNCHANGED identityVars
  BY <1>1 DEF identityVars, IdentityInv, IdentityTypeOK, GraphIsSound, Live, Exists,
              StampsAreOfMerges, StandingMergesHold, Standing
<1>2. CASE IdentityNext
  BY <1>2, AddTieKeeps, CommitExtractionKeeps, ConfirmTieKeeps, RemoveTieKeeps, InvalidateKeeps,
     ReplacePagesKeeps, WriteEntityKeeps, MergeKeeps, LookUpKeeps, UndoMergeKeeps DEF IdentityNext
<1> QED BY <1>1, <1>2

(* The whole invariant: the graph, what the log says of it, and whose every   *)
(* stamp is.                                                                  *)
THEOREM IdentityInvariant == IdentitySpec => []IdentityInv
<1>1. IdentityInit => IdentityInv
  BY InvStarts
<1>2. IdentityInv /\ [IdentityNext]_identityVars => IdentityInv'
  BY InvKept
<1> QED BY <1>1, <1>2, PTL DEF IdentitySpec

(* Merges and undos, in any order and between any edits, leave a graph the    *)
(* database accepts: mergePersonsWithUndo, undoPersonMerge and the commits.   *)
THEOREM TheGraphStaysSound == IdentitySpec => []GraphIsSound
<1>1. IdentityInv => GraphIsSound
  BY DEF IdentityInv
<1> QED BY <1>1, IdentityInvariant, PTL

-----------------------------------------------------------------------------
(* Undos are exact.                                                          *)

LEMMA OnlyAnUndoUndoes ==
    ASSUME IdentityInv, [IdentityNext]_identityVars, NEW n \in DOMAIN merges,
           ~merges[n].undone, merges'[n].undone
    PROVE  AsMerged(n) /\ rows' = Restored(n)
<1>1. merges \in Seq(Merge) /\ DOMAIN merges = 1 .. Len(merges) /\ Len(merges) \in Nat
  BY DEF IdentityInv, IdentityTypeOK
<1>2. merges'[n] # merges[n]
  OBVIOUS
<1>3. ASSUME NEW keep \in Entities, NEW gone \in Entities, NEW tracked \in BOOLEAN,
             MergeEntities(keep, gone, tracked)
      PROVE  FALSE
  <2>1. merges' = merges \/ \E entry : merges' = Append(merges, entry)
    BY <1>3 DEF MergeEntities
  <2> QED BY <1>1, <1>2, <2>1
<1>4. PICK u \in Undoers : UndoMerge(u)
  BY <1>2, <1>3 DEF IdentityNext, identityVars, AddTie, CommitExtraction, ConfirmTie, RemoveTie,
                    Invalidate, ReplacePages, WriteEntity, LookUp, Change
<1>5. PICK k : k = undoing[u]
  OBVIOUS
<1>6. AsMerged(k) /\ rows' = Restored(k) /\ merges' = [merges EXCEPT ![k].undone = TRUE]
  BY <1>2, <1>4, <1>5 DEF UndoMerge
<1>7. k = n
  BY <1>1, <1>2, <1>6
<1> QED BY <1>6, <1>7

(* An undo that goes through is the inverse of its merge on every row the     *)
(* merge left as it is found, and writes over nothing that changed since:     *)
(* assertSnapshotsUnchanged in undoPersonMerge and undoPlaceMerge.            *)
THEOREM UndosAreExact == IdentitySpec => UndoIsExact
<1>1. ASSUME IdentityInv, [IdentityNext]_identityVars, NEW n \in DOMAIN merges,
             ~merges[n].undone, merges'[n].undone, NEW id \in RowIds
      PROVE  rows'[id] = IF rows[id] = merges[n].after[id] THEN merges[n].before[id] ELSE rows[id]
  <2>1. AsMerged(n) /\ rows' = Restored(n)
    BY <1>1, OnlyAnUndoUndoes
  <2>2. rows'[id] = IF merges[n].before[id] # merges[n].after[id]
                    THEN merges[n].before[id] ELSE rows[id]
    BY <2>1 DEF Restored
  <2>3. merges[n].before[id] # merges[n].after[id] => rows[id] = merges[n].after[id]
    BY <1>1, <2>1, UndoFindsItsMerge
  <2> QED BY <2>2, <2>3
<1>2. IdentityInv /\ [IdentityNext]_identityVars =>
        [\A n \in DOMAIN merges : ~merges[n].undone /\ merges'[n].undone =>
            \A id \in RowIds : rows'[id] = IF rows[id] = merges[n].after[id]
                                           THEN merges[n].before[id] ELSE rows[id]]_identityVars
  BY <1>1
<1> QED BY <1>2, IdentityInvariant, PTL DEF IdentitySpec, UndoIsExact

-----------------------------------------------------------------------------
(* Human ties survive.                                                       *)

LEMMA OnlyAMergeTakesAway ==
    ASSUME IdentityInv, [IdentityNext]_identityVars, NEW gone \in Entities,
           Exists(gone), ~Exists(gone)'
    PROVE  \E keep \in Entities, tracked \in BOOLEAN : MergeEntities(keep, gone, tracked)
<1>1. entities \in [Entities -> Entity] /\ entities'[gone] # entities[gone]
  BY DEF IdentityInv, IdentityTypeOK, Exists
<1>2. ASSUME NEW e \in Entities, NEW aliases, WriteEntity(e, aliases) PROVE FALSE
  <2>1. PICK old \in Entity : old = entities[e]
    BY <1>1
  <2>2. PICK one : one = [old EXCEPT !.aliases = aliases]
    OBVIOUS
  <2>3. PICK new : new = [one EXCEPT !.stamp = 0]
    OBVIOUS
  <2>4. entities' = [entities EXCEPT ![e] = new]
    BY <1>2, <2>1, <2>2, <2>3 DEF WriteEntity
  <2>5. new.present = old.present
    BY <2>2, <2>3 DEF Entity
  <2> QED BY <1>1, <2>1, <2>4, <2>5 DEF Exists
<1>3. ASSUME NEW u \in Undoers, UndoMerge(u) PROVE FALSE
  <2>1. PICK n : n = undoing[u]
    OBVIOUS
  <2>2. n \in DOMAIN merges /\ AsMerged(n)
    BY <1>1, <1>3, <2>1 DEF UndoMerge, IdentityInv
  <2>3. PICK m \in Merge : m = merges[n]
    BY <2>2 DEF IdentityInv, IdentityTypeOK
  <2>4. m.keep \in Entities /\ m.gone \in Entities /\ m.goneBefore \in Entity
    BY DEF Merge
  <2>5. PICK host \in Entity : host = entities[m.keep]
    BY <1>1, <2>4
  <2>6. PICK one : one = [host EXCEPT !.aliases = m.keepBefore.aliases]
    OBVIOUS
  <2>7. PICK kept : kept = [one EXCEPT !.stamp = 0]
    OBVIOUS
  <2>8. kept.present = host.present
    BY <2>6, <2>7 DEF Entity
  <2>9. m.keep # m.gone /\ m.goneBefore.present
    BY <2>2, <2>3 DEF IdentityInv, RecordIsSound
  <2>10. entities' = [entities EXCEPT
                 ![merges[n].gone] = merges[n].goneBefore,
                 ![merges[n].keep] = [@ EXCEPT !.aliases = merges[n].keepBefore.aliases,
                                               !.stamp = 0]]
    BY <1>3, <2>1, <2>2 DEF UndoMerge
  <2>11. entities' = [entities EXCEPT ![m.gone] = m.goneBefore, ![m.keep] = kept]
    BY <1>1, <2>3, <2>4, <2>5, <2>6, <2>7, <2>9, <2>10
  <2> QED BY <1>1, <2>4, <2>5, <2>8, <2>9, <2>11 DEF Exists
<1>4. PICK keep \in Entities, other \in Entities, tracked \in BOOLEAN :
         MergeEntities(keep, other, tracked)
  BY <1>1, <1>2, <1>3 DEF IdentityNext, identityVars, AddTie, CommitExtraction, ConfirmTie,
                          RemoveTie, Invalidate, ReplacePages, LookUp
<1>5. other = gone
  <2>1. PICK kept, away :
          /\ entities' = [entities EXCEPT ![keep] = kept, ![other] = away]
          /\ kept = [entities[keep] EXCEPT
                       !.aliases = @ \union {other} \union entities[other].aliases,
                       !.stamp = IF tracked THEN Len(merges) + 1 ELSE 0]
    BY <1>1, <1>4 DEF MergeEntities
  <2>2. PICK host \in Entity : host = entities[keep]
    BY <1>1
  <2>3. PICK aliases, stamp : kept = [host EXCEPT !.aliases = aliases, !.stamp = stamp]
    BY <2>1, <2>2
  <2>4. PICK one : one = [host EXCEPT !.aliases = aliases]
    OBVIOUS
  <2>5. kept = [one EXCEPT !.stamp = stamp]
    BY <2>3, <2>4
  <2>6. kept.present = host.present
    BY <2>4, <2>5 DEF Entity
  <2> QED BY <1>1, <2>1, <2>2, <2>6 DEF Exists
<1> QED BY <1>4, <1>5

\* Where a confirmed row is after a merge: itself, or the row that was in its way.
LEMMA MergesKeepHumanTies ==
    ASSUME IdentityInv, NEW keep \in Entities, NEW gone \in Entities, keep # gone,
           NEW id \in Live(rows), rows[id].confirmed, rows[id].parties # {keep, gone}
    PROVE  LET after == MergedRows(keep, gone) IN
           \E other \in Live(after) :
                /\ after[other].confirmed
                /\ SameTie(after[other], IF gone \in rows[id].parties
                                         THEN Redirected(rows[id], keep, gone) ELSE rows[id])
<1> DEFINE after == MergedRows(keep, gone)
<1>1. /\ rows \in Tables /\ GraphIsSound /\ id \in RowIds /\ rows[id] \in Ties
      /\ after \in Tables
  BY TiesAreRows, MergedRowsAreTies DEF IdentityInv, IdentityTypeOK
<1>2. ASSUME NEW other \in Live(rows), gone \notin rows[other].parties, Rank(rows[other]) = 2
      PROVE  /\ other \in Live(after) /\ after[other].confirmed
             /\ SameTie(after[other], rows[other])
  <2>1. other \in RowIds /\ rows[other] \in Ties
    BY <1>1, TiesAreRows
  <2>2. CASE after[other] = rows[other]
    BY <1>1, <1>2, <2>1, <2>2, LiveRows, SameTieIsEquivalence DEF Rank
  <2>3. CASE \E w \in RowIds : /\ Takes(w, other, keep, gone)
                               /\ after[other] = Payload(rows[other], rows[w])
    <3>1. PICK w \in RowIds : /\ Takes(w, other, keep, gone)
                              /\ after[other] = Payload(rows[other], rows[w])
      BY <2>3
    <3>2. rows[w] \in Ties /\ rows[w].confirmed
      <4>1. /\ rows[w] \in Ties /\ Beats(rows[w], rows[other])
        BY <1>1, <2>1, <3>1, TakersTieTheSame DEF Takes
      <4>2. Rank(rows[w]) \in 0 .. 2 /\ (Rank(rows[w]) = 2 => rows[w].confirmed)
        BY DEF Rank
      <4> QED BY <1>2, <4>1, <4>2 DEF Beats
    <3>3. after[other] \in Ties /\ after[other].confirmed = rows[w].confirmed
      BY <2>1, <3>1, <3>2, PayloadIs
    <3> QED BY <1>1, <2>1, <3>1, <3>2, <3>3, LiveRows, TakersTieTheSame, SameTieIsEquivalence
            DEF Takes
  <2> QED BY <1>1, <1>2, <2>1, <2>2, <2>3, MergedRowsAre
<1>3. Rank(rows[id]) = 2
  BY DEF Rank
<1>4. CASE gone \notin rows[id].parties
  BY <1>2, <1>3, <1>4
<1>5. CASE gone \in rows[id].parties
  <2>1. Moves(id, keep, gone)
    BY <1>1, <1>5, BetweenNamesBoth DEF Moves
  <2>2. Redirected(rows[id], keep, gone) \in Ties
        /\ Redirected(rows[id], keep, gone).confirmed = rows[id].confirmed
    BY <1>1, <1>5, RedirectedIs
  <2>3. CASE Met(id, keep, gone) = {}
    <3>1. after[id] = Redirected(rows[id], keep, gone)
      BY <1>1, <2>1, <2>3, MergedRowsAre
    <3> QED BY <1>1, <1>5, <2>2, <3>1, LiveRows, SameTieIsEquivalence
  <2>4. CASE Met(id, keep, gone) # {}
    <3>1. PICK other : other \in Met(id, keep, gone)
      BY <2>4
    <3>2. /\ other \in Live(rows) /\ gone \notin rows[other].parties
          /\ SameTie(rows[other], Redirected(rows[id], keep, gone))
      BY <3>1 DEF Met
    <3>3. other \in RowIds /\ rows[other] \in Ties
      BY <1>1, <3>2, TiesAreRows
    <3>4. CASE Rank(rows[other]) = 2
      BY <1>2, <1>5, <3>2, <3>4, SameTieIsEquivalence
    <3>5. CASE Rank(rows[other]) # 2
      <4>1. Beats(rows[id], rows[other])
        BY <1>3, <3>5 DEF Beats, Rank
      <4>2. Takes(id, other, keep, gone)
        BY <2>1, <3>1, <4>1 DEF Takes
      <4>3. PICK w \in RowIds : /\ Takes(w, other, keep, gone)
                                /\ after[other] = Payload(rows[other], rows[w])
        BY <1>1, <3>2, <3>3, <4>2, MergedRowsAre
      <4>4. /\ SameTie(Redirected(rows[w], keep, gone), Redirected(rows[id], keep, gone))
            /\ rows[w] \in Ties /\ w \in Live(rows)
            /\ gone \in rows[w].parties /\ keep \notin rows[w].parties
        BY <1>1, <3>2, <3>3, <4>3, TakersTieTheSame, SameTieIsEquivalence DEF Takes, Moves
      <4>5. SameTie(rows[w], rows[id])
        BY <1>1, <1>5, <2>1, <4>4, RedirectionIsInjective DEF Moves
      <4>6. w = id
        BY <1>1, <4>4, <4>5 DEF GraphIsSound
      <4>7. after[other] \in Ties /\ after[other].confirmed = rows[id].confirmed
            /\ SameTie(rows[other], after[other])
        <5>1. /\ Moves(id, keep, gone) /\ other \in Met(id, keep, gone)
              /\ after[other] = Payload(rows[other], rows[id])
          BY <4>3, <4>6 DEF Takes
        <5>2. /\ after[other] \in Ties /\ SameTie(rows[other], after[other])
          BY <1>1, <3>3, <5>1, TakersTieTheSame
        <5>3. Payload(rows[other], rows[id]).confirmed = rows[id].confirmed
          BY <1>1, <3>3, PayloadIs
        <5> QED BY <5>1, <5>2, <5>3
      <4>8. other \in Live(after)
        BY <1>1, <3>3, <4>7, LiveRows
      <4> QED BY <1>5, <3>2, <4>7, <4>8, SameTieIsEquivalence
    <3> QED BY <3>4, <3>5
  <2> QED BY <2>3, <2>4
<1> QED BY <1>4, <1>5

(* What a human confirmed survives a merge: only another confirmed row may    *)
(* take the place of a tie an administrator wrote                             *)
(* (chooseEntityMergeCollisionWinner).                                        *)
THEOREM HumanTiesAlwaysSurvive == IdentitySpec => HumanTiesSurvive
<1>1. ASSUME IdentityInv, [IdentityNext]_identityVars, NEW gone \in Entities,
             Exists(gone), ~Exists(gone)'
      PROVE  \E keep \in Entities \ {gone} : \A id \in Live(rows) :
                rows[id].confirmed /\ rows[id].parties # {keep, gone} =>
                    \E other \in Live(rows') :
                        /\ rows'[other].confirmed
                        /\ SameTie(rows'[other], IF gone \in rows[id].parties
                                                 THEN Redirected(rows[id], keep, gone)
                                                 ELSE rows[id])
  <2>1. PICK keep \in Entities : keep # gone /\ rows' = MergedRows(keep, gone)
    BY <1>1, OnlyAMergeTakesAway DEF MergeEntities
  <2> QED BY <1>1, <2>1, MergesKeepHumanTies
<1>2. IdentityInv /\ [IdentityNext]_identityVars =>
        [\A gone \in Entities : Exists(gone) /\ ~Exists(gone)' =>
            \E keep \in Entities \ {gone} : \A id \in Live(rows) :
                rows[id].confirmed /\ rows[id].parties # {keep, gone} =>
                    \E other \in Live(rows') :
                        /\ rows'[other].confirmed
                        /\ SameTie(rows'[other], IF gone \in rows[id].parties
                                                 THEN Redirected(rows[id], keep, gone)
                                                 ELSE rows[id])]_identityVars
  BY <1>1
<1> QED BY <1>2, IdentityInvariant, PTL DEF IdentitySpec, HumanTiesSurvive

=============================================================================
