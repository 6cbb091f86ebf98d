------------------------------ MODULE Archive_proofs ------------------------------
(***************************************************************************)
(* The revision protects a collection's profile for any number of          *)
(* administrators, readers and changes of the letters.  The argument rests *)
(* on ScreensFollowRevisions: whoever holds the present revision sees the  *)
(* present row.  At the end, the archive's modules beside each other.      *)
(***************************************************************************)
EXTENDS MCArchive, PageSources_proofs, LetterPublication_proofs, TranscriptConfirmation_proofs

\* Every write advances the revision, so a screen with the same one is current.
ScreensFollowRevisions == \A a \in Curators :
    curating[a].pc \notin {"away", "gone"} =>
        /\ curating[a].seen.revision <= profile.revision
        /\ curating[a].seen.revision = profile.revision => curating[a].seen = profile

\* A public request keeps a row it read; past the first check it was verified.
RowsWereVerified == \A v \in ProfileReaders :
    /\ visiting[v].pc # "idle" /\ visiting[v].row.status = "VERIFIED" =>
         <<visiting[v].row.content, visiting[v].row.source>> \in approved
    /\ visiting[v].pc \in {"end", "served"} => visiting[v].row.status = "VERIFIED"

ProfileInv ==
    /\ ProfileTypeOK /\ ScreensFollowRevisions /\ VerifiedProfilesWereSeen /\ RowsWereVerified

LEMMA EmptyProfileType == EmptyProfile \in ProfileRow
BY DEF EmptyProfile, ProfileRow, Statuses, Content, Prints

Curating ==
    [pc : {"away", "screen", "edit", "bound", "ask", "generating", "gone"}, seen : ProfileRow,
     text : Content \union {"keep"}, status : Statuses \union {"keep"}, source : Prints]

LEMMA ScreenType ==
    ASSUME NEW row \in ProfileRow
    PROVE  ProfileScreen(row) \in Curating
BY DEF ProfileScreen, Curating, Prints

LEMMA CloseType ==
    ASSUME ProfileTypeOK, NEW a \in Curators, Close(a)
    PROVE  /\ curating' \in [Curators -> Curating]
           /\ curating'[a].pc = "gone"
           /\ \A b \in Curators : b # a => curating'[b] = curating[b]
<1>1. [ProfileScreen(EmptyProfile) EXCEPT !.pc = "gone"] \in Curating
  BY EmptyProfileType, ScreenType DEF Curating
<1>2. curating \in [Curators -> Curating]
  BY DEF ProfileTypeOK, Curating
<1>3. [ProfileScreen(EmptyProfile) EXCEPT !.pc = "gone"].pc = "gone"
  BY DEF ProfileScreen
<1> QED BY <1>1, <1>2, <1>3 DEF Close

\* The row an administrator asks for is a row.
LEMMA RequestedType ==
    ASSUME ProfileTypeOK, NEW a \in Curators
    PROVE  /\ Requested(a) \in ProfileRow
           /\ [Requested(a) EXCEPT !.source = curating[a].source] \in ProfileRow
<1>1. /\ curating[a].seen \in ProfileRow /\ curating[a].source \in Prints
      /\ curating[a].text \in Content \union {"keep"}
      /\ curating[a].status \in Statuses \union {"keep"}
  BY DEF ProfileTypeOK
<1> QED BY <1>1 DEF Requested, ProfileRow, Content, Prints, Statuses

LEMMA CommitType ==
    ASSUME ProfileTypeOK, NEW a \in Curators, CommitProfile(a)
    PROVE  profile' \in ProfileRow /\ approved' \subseteq Content \X Prints
<1> DEFINE asked == [Requested(a) EXCEPT !.source = IF Binds(a) THEN curating[a].source ELSE @]
<1>1. asked \in ProfileRow
  BY RequestedType DEF ProfileRow
<1> DEFINE next == profile.revision + 1
           status == IF asked.status # curating[a].seen.status THEN asked.status
                     ELSE profile.status
           text == IF asked.content # curating[a].seen.content THEN asked.content
                   ELSE profile.content
           print == IF asked.source # curating[a].seen.source THEN asked.source
                    ELSE profile.source
<1>2. \/ UNCHANGED <<profile, approved>>
      \/ /\ profile' = [profile EXCEPT !.revision = next, !.status = status,
                                       !.content = text, !.source = print]
         /\ approved' = IF Verifies(a) THEN approved \union {<<asked.content, asked.source>>}
                                       ELSE approved
  BY DEF CommitProfile
<1> HIDE DEF asked
<1>3. /\ profile \in ProfileRow /\ curating[a].seen \in ProfileRow
      /\ approved \subseteq Content \X Prints
  BY DEF ProfileTypeOK
<1>4. next \in Nat /\ status \in Statuses /\ text \in Content /\ print \in Prints
  BY <1>1, <1>3 DEF ProfileRow
<1> HIDE DEF next, status, text, print
<1>5. profile' \in ProfileRow
  BY <1>2, <1>3, <1>4 DEF ProfileRow
<1>6. <<asked.content, asked.source>> \in Content \X Prints
  BY <1>1 DEF ProfileRow
<1> QED BY <1>2, <1>3, <1>5, <1>6

LEMMA EditedType ==
    ASSUME NEW row \in ProfileRow, NEW text \in Content, NEW print \in Prints
    PROVE  Edited(row, text, print) \in ProfileRow /\ Edited(row, text, print).status # "VERIFIED"
<1> DEFINE next == row.revision + 1
           status == IF row.status = "VERIFIED" \/ (text # row.content /\ row.status = "AI_DRAFT")
                     THEN "EDITED" ELSE row.status
           source == IF text # row.content /\ row.source = Blank THEN print ELSE row.source
<1>1. next \in Nat /\ status \in Statuses \ {"VERIFIED"} /\ source \in Prints
  BY DEF ProfileRow, Statuses
<1>2. Edited(row, text, print) = [row EXCEPT !.revision = next, !.status = status,
                                             !.content = text, !.source = source]
  BY DEF Edited
<1>3. Edited(row, text, print).status = status
  BY DEF Edited, ProfileRow
<1> HIDE DEF next, status, source
<1> QED BY <1>1, <1>2, <1>3 DEF ProfileRow

LEMMA AdvancedType ==
    ASSUME NEW row \in ProfileRow
    PROVE  Advanced(row) \in ProfileRow /\ Advanced(row).status # "VERIFIED"
<1> DEFINE next == row.revision + 1
           status == IF row.status = "VERIFIED" THEN "EDITED" ELSE row.status
<1>1. next \in Nat /\ status \in Statuses \ {"VERIFIED"}
  BY DEF ProfileRow, Statuses
<1>2. Advanced(row) = [row EXCEPT !.revision = next, !.status = status]
  BY DEF Advanced
<1> HIDE DEF next, status
<1> QED BY <1>1, <1>2 DEF ProfileRow

LEMMA ProfileTypesStart == ProfileInit => ProfileTypeOK
<1> SUFFICES ASSUME ProfileInit PROVE ProfileTypeOK
  OBVIOUS
<1>1. profile \in ProfileRow
  BY EmptyProfileType DEF ProfileInit, ProfileRow, Content, Prints
<1>2. approved \subseteq Content \X Prints
  BY <1>1 DEF ProfileInit, ProfileRow
<1>3. curating \in [Curators -> Curating]
  BY EmptyProfileType, ScreenType DEF ProfileInit, Curating
<1>4. visiting \in [ProfileReaders -> [pc : {"idle", "start", "end", "served", "withheld"},
                                       row : ProfileRow]]
  BY EmptyProfileType DEF ProfileInit
<1>5. fingerprint \in Sources /\ rewrites \in 0 .. MaxSourceChanges
  BY ProfileAssumption DEF ProfileInit
<1> QED BY <1>1, <1>2, <1>3, <1>4, <1>5 DEF ProfileTypeOK, Curating

LEMMA ProfileTypesKept == ProfileTypeOK /\ [ProfileNext]_profileVars => ProfileTypeOK'
<1> SUFFICES ASSUME ProfileTypeOK, ProfileNext PROVE ProfileTypeOK'
  BY DEF ProfileTypeOK, profileVars
<1>0. /\ curating \in [Curators -> Curating] /\ profile \in ProfileRow
      /\ fingerprint \in Prints /\ rewrites \in Nat
  BY DEF ProfileTypeOK, Curating, Prints
<1> DEFINE Screens == curating' \in [Curators -> Curating]
<1>q. ASSUME Screens, UNCHANGED <<profile, fingerprint, rewrites, visiting, approved>>
      PROVE  ProfileTypeOK'
  BY <1>q DEF ProfileTypeOK, Curating
<1>1. ASSUME NEW a \in Curators, OpenProfile(a) PROVE ProfileTypeOK'
  BY <1>0, <1>1, <1>q, ScreenType DEF OpenProfile
<1>2. ASSUME NEW a \in Curators, NEW text \in Content \union {"keep"},
             NEW status \in Statuses \union {"keep"}, SubmitProfile(a, text, status)
      PROVE  ProfileTypeOK'
  <2>1. CASE Close(a)
    BY <1>2, <1>q, <2>1, CloseType DEF SubmitProfile
  <2>2. CASE curating' = [curating EXCEPT ![a] = [@ EXCEPT !.pc = "edit", !.text = text,
                                                          !.status = status]]
    BY <1>0, <1>2, <1>q, <2>2 DEF SubmitProfile, Curating
  <2> QED BY <1>2, <2>1, <2>2 DEF SubmitProfile
<1>3. ASSUME NEW a \in Curators, ComputeFingerprint(a) PROVE ProfileTypeOK'
  <2> DEFINE bound == IF Binds(a) THEN fingerprint ELSE curating[a].seen.source
  <2>0. bound \in Prints
    BY <1>0 DEF Curating, ProfileRow
  <2>1. CASE Close(a)
    BY <1>3, <1>q, <2>1, CloseType DEF ComputeFingerprint
  <2>2. CASE curating' = [curating EXCEPT ![a] = [@ EXCEPT !.pc = "bound", !.source = bound]]
    BY <1>0, <1>3, <1>q, <2>0, <2>2 DEF ComputeFingerprint, Curating
  <2> QED BY <1>3, <2>1, <2>2 DEF ComputeFingerprint
<1>4. ASSUME NEW a \in Curators, CommitProfile(a) PROVE ProfileTypeOK'
  <2>1. Screens
    BY <1>4, CloseType DEF CommitProfile
  <2> QED BY <1>4, <2>1, CommitType DEF CommitProfile, ProfileTypeOK, Curating
<1>5. ASSUME NEW a \in Curators, NEW force \in BOOLEAN, AskGeneration(a, force)
      PROVE  ProfileTypeOK'
  <2>1. CASE Close(a)
    BY <1>5, <1>q, <2>1, CloseType DEF AskGeneration
  <2>2. CASE curating' = [curating EXCEPT ![a].pc = "ask"]
    BY <1>0, <1>5, <1>q, <2>2 DEF AskGeneration, Curating
  <2> QED BY <1>5, <2>1, <2>2 DEF AskGeneration
<1>6. ASSUME NEW a \in Curators, ReadSources(a) PROVE ProfileTypeOK'
  BY <1>0, <1>6, <1>q DEF ReadSources, Curating
<1>7. ASSUME NEW a \in Curators, NEW text \in Profiles, StoreGenerated(a, text)
      PROVE  ProfileTypeOK'
  <2>1. Screens
    BY <1>7, CloseType DEF StoreGenerated
  <2>2. profile' \in ProfileRow
    BY <1>0, <1>7 DEF StoreGenerated, ProfileRow, Curating, Content, Statuses
  <2> QED BY <1>7, <2>1, <2>2 DEF StoreGenerated, ProfileTypeOK, Curating
<1>8. ASSUME NEW a \in Curators, NEW text \in Content \union {"keep"}, NEW touched \in BOOLEAN,
             EditCollection(a, text, touched)
      PROVE  ProfileTypeOK'
  <2>1. Screens
    BY <1>8, CloseType DEF EditCollection
  <2>2. fingerprint' \in Sources /\ rewrites' \in 0 .. MaxSourceChanges
    BY <1>8, ProfileAssumption DEF EditCollection, ProfileTypeOK
  <2>3. profile' \in ProfileRow
    <3> DEFINE kept == IF text \notin {"keep", profile.content} THEN text ELSE profile.content
    <3>1. kept \in Content /\ fingerprint' \in Prints
      BY <1>0, <2>2 DEF ProfileRow, Prints
    <3>2. profile' = Edited(profile, kept, fingerprint')
      BY <1>8 DEF EditCollection
    <3> QED BY <1>0, <3>1, <3>2, EditedType
  <2> QED BY <1>8, <2>1, <2>2, <2>3 DEF EditCollection, ProfileTypeOK, Curating
<1>9. ASSUME NEW known \in BOOLEAN, ChangeLetters(known) PROVE ProfileTypeOK'
  <2>1. profile' \in ProfileRow
    BY <1>0, <1>9, AdvancedType DEF ChangeLetters
  <2> QED BY <1>9, <2>1, ProfileAssumption DEF ChangeLetters, ProfileTypeOK, Curating
<1>10. ASSUME NEW v \in ProfileReaders, ReadProfile(v) \/ CheckAtStart(v) \/ ServeProfile(v)
       PROVE  ProfileTypeOK'
  <2>1. UNCHANGED <<profile, fingerprint, rewrites, curating, approved>>
    BY <1>10 DEF ReadProfile, CheckAtStart, ServeProfile
  <2>2. visiting' \in [ProfileReaders -> [pc : {"idle", "start", "end", "served", "withheld"},
                                          row : ProfileRow]]
    BY <1>10 DEF ReadProfile, CheckAtStart, ServeProfile, Visit, ProfileTypeOK
  <2> QED BY <2>1, <2>2 DEF ProfileTypeOK
<1> QED BY <1>1, <1>2, <1>3, <1>4, <1>5, <1>6, <1>7, <1>8, <1>9, <1>10 DEF ProfileNext, Curate

(* Every variable keeps its type.                                            *)
THEOREM ProfileTyped == ProfileSpec => []ProfileTypeOK
BY ProfileTypesStart, ProfileTypesKept, PTL DEF ProfileSpec

-----------------------------------------------------------------------------
\* The profile is left alone, or written with a new revision by somebody who
\* leaves it verified only as approved.
Written ==
    \/ profile' = profile
    \/ /\ profile'.revision = profile.revision + 1
       /\ profile'.status = "VERIFIED" => <<profile'.content, profile'.source>> \in approved'

LEMMA CommitIsWritten ==
    ASSUME ProfileTypeOK, ScreensFollowRevisions, NEW a \in Curators, CommitProfile(a)
    PROVE  /\ Written /\ approved \subseteq approved'
           /\ profile' # profile => curating[a].seen = profile
<1> DEFINE asked == [Requested(a) EXCEPT !.source = IF Binds(a) THEN curating[a].source ELSE @]
           seen  == curating[a].seen
<1>1. asked \in ProfileRow /\ seen \in ProfileRow /\ profile \in ProfileRow
  BY RequestedType DEF ProfileTypeOK, ProfileRow
<1>2. CASE UNCHANGED <<profile, approved>>
  BY <1>2 DEF Written
<1>3. CASE ~(UNCHANGED <<profile, approved>>)
  <2>1. seen = profile
    BY <1>3 DEF CommitProfile, RowUnchanged, ScreensFollowRevisions
  <2>2. /\ asked # seen
        /\ profile' = [profile EXCEPT
                 !.revision = @ + 1,
                 !.status = IF asked.status # seen.status THEN asked.status ELSE @,
                 !.content = IF asked.content # seen.content THEN asked.content ELSE @,
                 !.source = IF asked.source # seen.source THEN asked.source ELSE @]
        /\ approved' = IF Verifies(a) THEN approved \union {<<asked.content, asked.source>>}
                                      ELSE approved
    BY <1>3 DEF CommitProfile
  <2>3. asked.status = "VERIFIED" => Verifies(a)
    <3> SUFFICES ASSUME asked.status = "VERIFIED", ~Verifies(a) PROVE asked = seen
      BY <2>2
    <3>1. curating[a].status = "keep" /\ seen.status = "VERIFIED"
      BY <1>1 DEF Requested, Verifies, ProfileRow
    <3>2. asked.content = seen.content /\ Requested(a).content = seen.content
      BY <1>1, <3>1 DEF Requested, ProfileRow
    <3>3. asked.source = seen.source
      BY <1>1, <3>1, <3>2 DEF Requested, Binds, ProfileRow
    <3>4. asked.revision = seen.revision
      BY <1>1 DEF Requested, ProfileRow
    <3> HIDE DEF asked, seen
    <3> QED BY <1>1, <3>1, <3>2, <3>3, <3>4 DEF ProfileRow
  <2> HIDE DEF asked, seen
  <2>4. /\ profile'.revision = profile.revision + 1 /\ profile'.status = asked.status
        /\ profile'.content = asked.content /\ profile'.source = asked.source
    BY <1>1, <2>1, <2>2 DEF ProfileRow
  <2> QED BY <2>1, <2>2, <2>3, <2>4 DEF Written, seen
<1> QED BY <1>2, <1>3

LEMMA GenerationIsWritten ==
    ASSUME ProfileTypeOK, ScreensFollowRevisions, NEW a \in Curators, NEW text \in Profiles,
           StoreGenerated(a, text)
    PROVE  Written /\ (profile' # profile => curating[a].seen = profile)
<1>1. CASE profile' = profile
  BY <1>1 DEF Written
<1>2. CASE profile' # profile
  <2>1. Storable(a) /\ profile'.revision = profile.revision + 1 /\ profile'.status = "AI_DRAFT"
    BY <1>2 DEF StoreGenerated
  <2> QED BY <2>1 DEF Written, Storable, StoreGenerated, ScreensFollowRevisions
<1> QED BY <1>1, <1>2

LEMMA EditIsWritten ==
    ASSUME ProfileTypeOK, ScreensFollowRevisions, NEW a \in Curators,
           NEW text \in Content \union {"keep"}, NEW touched \in BOOLEAN,
           EditCollection(a, text, touched)
    PROVE  Written /\ curating[a].seen = profile
<1> DEFINE kept == IF text \notin {"keep", profile.content} THEN text ELSE profile.content
<1>1. fingerprint' \in Prints
  BY DEF EditCollection, ProfileTypeOK, Prints
<1>2. profile \in ProfileRow /\ kept \in Content
  BY DEF ProfileTypeOK, ProfileRow
<1>3. profile' = Edited(profile, kept, fingerprint')
  BY DEF EditCollection
<1>4. profile'.status # "VERIFIED"
  BY <1>1, <1>2, <1>3, EditedType
<1>5. profile'.revision = profile.revision + 1
  BY <1>2, <1>3 DEF Edited, ProfileRow
<1>6. curating[a].seen = profile
  BY DEF EditCollection, ScreensFollowRevisions
<1> QED BY <1>4, <1>5, <1>6 DEF Written

LEMMA ChangeIsWritten ==
    ASSUME ProfileTypeOK, NEW known \in BOOLEAN, ChangeLetters(known)
    PROVE  Written
<1>1. profile \in ProfileRow
  BY DEF ProfileTypeOK
<1>2. Advanced(profile).revision = profile.revision + 1
  BY <1>1 DEF Advanced, ProfileRow
<1> QED BY <1>1, <1>2, AdvancedType DEF ChangeLetters, Written

\* A screen is left, or goes on with the row it shows or with the present one.
Looks(a) ==
    \/ curating'[a].pc \in {"away", "gone"}
    \/ /\ profile' = profile
       /\ \/ curating'[a].seen = profile
          \/ curating[a].pc \notin {"away", "gone"} /\ curating'[a].seen = curating[a].seen

LEMMA WrittenKeepsScreens ==
    ASSUME ProfileTypeOK, ScreensFollowRevisions, Written,
           \A a \in Curators : curating'[a] = curating[a] \/ Looks(a)
    PROVE  ScreensFollowRevisions'
<1> SUFFICES ASSUME NEW a \in Curators, curating'[a].pc \notin {"away", "gone"}
             PROVE  /\ curating'[a].seen.revision <= profile'.revision
                    /\ curating'[a].seen.revision = profile'.revision
                         => curating'[a].seen = profile'
  BY DEF ScreensFollowRevisions
<1>1. profile.revision \in Nat /\ curating[a].seen.revision \in Nat
  BY DEF ProfileTypeOK, ProfileRow
<1>2. CASE profile' = profile
  BY <1>1, <1>2 DEF Looks, ScreensFollowRevisions
<1>3. CASE profile' # profile
  BY <1>1, <1>3 DEF Looks, ScreensFollowRevisions, Written
<1> QED BY <1>2, <1>3

(* A screen is opened on the present row, and closed by whoever writes.      *)
LEMMA CuratorKeepsScreens ==
    ASSUME ProfileTypeOK, ScreensFollowRevisions, NEW a \in Curators, Curate(a)
    PROVE  /\ ScreensFollowRevisions' /\ Written /\ approved \subseteq approved'
           /\ profile' # profile =>
                /\ curating[a].seen = profile
                /\ curating[a].pc # "gone" /\ curating'[a].pc = "gone"
<1> DEFINE Others == \A b \in Curators : b # a => curating'[b] = curating[b]
<1>0. curating \in [Curators -> Curating]
  BY DEF ProfileTypeOK, Curating
<1>c. ASSUME Close(a) PROVE Looks(a) /\ Others /\ curating'[a].pc = "gone"
  BY <1>c, CloseType DEF Looks
<1>s. ASSUME Looks(a), Others, Written PROVE ScreensFollowRevisions'
  BY <1>s, WrittenKeepsScreens
<1>q. ASSUME Looks(a), Others, profile' = profile, approved' = approved
      PROVE  ScreensFollowRevisions' /\ Written /\ approved \subseteq approved'
  BY <1>q, <1>s DEF Written
<1>1. CASE OpenProfile(a)
  BY <1>0, <1>1, <1>q DEF OpenProfile, ProfileScreen, Curating, Looks
<1>2. ASSUME NEW text \in Content \union {"keep"}, NEW status \in Statuses \union {"keep"},
             SubmitProfile(a, text, status)
      PROVE  Looks(a) /\ Others
  BY <1>0, <1>2, <1>c DEF SubmitProfile, Curating, Looks
<1>3. ASSUME ComputeFingerprint(a) PROVE Looks(a) /\ Others
  BY <1>0, <1>3, <1>c DEF ComputeFingerprint, Curating, Looks
<1>4. CASE CommitProfile(a)
  BY <1>4, <1>c, <1>s, CommitIsWritten DEF CommitProfile
<1>5. ASSUME NEW force \in BOOLEAN, AskGeneration(a, force) PROVE Looks(a) /\ Others
  BY <1>0, <1>5, <1>c DEF AskGeneration, Curating, Looks
<1>6. ASSUME ReadSources(a) PROVE Looks(a) /\ Others
  BY <1>0, <1>6 DEF ReadSources, Curating, Looks
<1>7. CASE \E text \in Profiles : StoreGenerated(a, text)
  BY <1>7, <1>c, <1>s, GenerationIsWritten DEF StoreGenerated
<1>8. CASE \E text \in Content \union {"keep"}, touched \in BOOLEAN :
             EditCollection(a, text, touched)
  BY <1>8, <1>c, <1>s, EditIsWritten DEF EditCollection
<1>9. CASE \/ \E text \in Content \union {"keep"}, status \in Statuses \union {"keep"} :
                SubmitProfile(a, text, status)
           \/ ComputeFingerprint(a) \/ ReadSources(a)
           \/ \E force \in BOOLEAN : AskGeneration(a, force)
  <2>1. profile' = profile /\ approved' = approved
    BY <1>9 DEF SubmitProfile, ComputeFingerprint, ReadSources, AskGeneration
  <2>2. Looks(a) /\ Others
    BY <1>2, <1>3, <1>5, <1>6, <1>9
  <2> QED BY <1>q, <2>1, <2>2
<1> QED BY <1>1, <1>4, <1>7, <1>8, <1>9 DEF Curate, OpenProfile

\* Approvals are never withdrawn, and a served row was verified when it was read.
LEMMA ReadersKeepRows ==
    ASSUME ProfileTypeOK, VerifiedProfilesWereSeen, RowsWereVerified, NEW v \in ProfileReaders,
           ReadProfile(v) \/ CheckAtStart(v) \/ ServeProfile(v)
    PROVE  RowsWereVerified'
<1>0. \A w \in ProfileReaders :
        visiting'[w] = IF w = v THEN visiting'[v] ELSE visiting[w]
  BY DEF ReadProfile, CheckAtStart, ServeProfile, Visit, ProfileTypeOK
<1>1. CASE ReadProfile(v)
  BY <1>0, <1>1 DEF ReadProfile, Visit, ProfileTypeOK, RowsWereVerified, VerifiedProfilesWereSeen
<1>2. CASE CheckAtStart(v)
  BY <1>0, <1>2 DEF CheckAtStart, Visit, ProfileTypeOK, RowsWereVerified, PublishedAtStart,
                   Publishable
<1>3. CASE ServeProfile(v)
  BY <1>0, <1>3 DEF ServeProfile, Visit, ProfileTypeOK, RowsWereVerified
<1> QED BY <1>1, <1>2, <1>3

THEOREM ProfileInvariant == ProfileSpec => []ProfileInv
<1>1. ProfileInit => ScreensFollowRevisions /\ VerifiedProfilesWereSeen /\ RowsWereVerified
  BY DEF ProfileInit, ScreensFollowRevisions, VerifiedProfilesWereSeen, RowsWereVerified,
         ProfileScreen
<1>2. ProfileInv /\ ProfileTypeOK' /\ [ProfileNext]_profileVars => ProfileInv'
  <2> SUFFICES ASSUME ProfileInv, ProfileTypeOK', [ProfileNext]_profileVars PROVE ProfileInv'
    OBVIOUS
  <2>0. ProfileTypeOK /\ ScreensFollowRevisions /\ VerifiedProfilesWereSeen /\ RowsWereVerified
    BY DEF ProfileInv
  <2>w. ASSUME Written, approved \subseteq approved' PROVE VerifiedProfilesWereSeen'
    BY <2>0, <2>w DEF Written, VerifiedProfilesWereSeen
  <2>r. ASSUME visiting' = visiting, approved \subseteq approved' PROVE RowsWereVerified'
    BY <2>0, <2>r DEF RowsWereVerified
  <2>1. ASSUME NEW a \in Curators, Curate(a) PROVE ProfileInv'
    <3>1. visiting' = visiting
      BY <2>1 DEF Curate, OpenProfile, SubmitProfile, ComputeFingerprint, CommitProfile,
                  AskGeneration, ReadSources, StoreGenerated, EditCollection
    <3> QED BY <2>0, <2>1, <2>w, <2>r, <3>1, CuratorKeepsScreens DEF ProfileInv
  <2>2. ASSUME NEW known \in BOOLEAN, ChangeLetters(known) PROVE ProfileInv'
    <3>1. Written
      BY <2>0, <2>2, ChangeIsWritten
    <3>2. UNCHANGED <<curating, visiting, approved>>
      BY <2>2 DEF ChangeLetters
    <3>3. ScreensFollowRevisions'
      BY <2>0, <3>1, <3>2, WrittenKeepsScreens
    <3> QED BY <2>w, <2>r, <3>1, <3>2, <3>3 DEF ProfileInv
  <2>3. ASSUME NEW v \in ProfileReaders, ReadProfile(v) \/ CheckAtStart(v) \/ ServeProfile(v)
        PROVE  ProfileInv'
    <3>1. UNCHANGED <<profile, curating, approved>>
      BY <2>3 DEF ReadProfile, CheckAtStart, ServeProfile
    <3>2. RowsWereVerified'
      BY <2>0, <2>3, ReadersKeepRows
    <3> QED BY <2>0, <3>1, <3>2 DEF ProfileInv, ScreensFollowRevisions, VerifiedProfilesWereSeen
  <2>4. CASE UNCHANGED profileVars
    BY <2>0, <2>4 DEF profileVars, ProfileInv, ScreensFollowRevisions, VerifiedProfilesWereSeen,
                      RowsWereVerified
  <2> QED BY <2>1, <2>2, <2>3, <2>4 DEF ProfileNext
<1> QED BY <1>1, <1>2, ProfileTyped, PTL DEF ProfileSpec, ProfileInv

(* A verified profile is what somebody verified, with its sources.           *)
THEOREM VerificationsAreGenuine == ProfileSpec => []VerifiedProfilesWereSeen
BY ProfileInvariant, PTL DEF ProfileInv

(* What is served publicly was verified, although the row was read before    *)
(* the letters were looked at.                                               *)
THEOREM ServedProfilesWereVerified == ProfileSpec => []PublicProfilesWereVerified
<1>1. ProfileInv => PublicProfilesWereVerified
  BY DEF ProfileInv, RowsWereVerified, PublicProfilesWereVerified
<1> QED BY <1>1, ProfileInvariant, PTL

(* No edit and no generation replaces content its author did not see.        *)
THEOREM ReplacementsWereSeen == ProfileSpec => NothingUnseenIsReplaced
<1>1. ProfileInv /\ [ProfileNext]_profileVars =>
        [profile'.content # profile.content => \E a \in Curators :
           /\ curating[a].pc # "gone" /\ curating'[a].pc = "gone"
           /\ curating[a].seen.content = profile.content]_profileVars
  <2> SUFFICES ASSUME ProfileInv, ProfileNext, profile'.content # profile.content
               PROVE  \E a \in Curators :
                        /\ curating[a].pc # "gone" /\ curating'[a].pc = "gone"
                        /\ curating[a].seen.content = profile.content
    OBVIOUS
  <2>0. ProfileTypeOK /\ ScreensFollowRevisions /\ profile \in ProfileRow
    BY DEF ProfileInv, ProfileTypeOK
  <2>1. CASE \E a \in Curators : Curate(a)
    BY <2>0, <2>1, CuratorKeepsScreens
  <2>2. CASE \E known \in BOOLEAN : ChangeLetters(known)
    BY <2>0, <2>2 DEF ChangeLetters, Advanced, ProfileRow
  <2>3. CASE \E v \in ProfileReaders : ReadProfile(v) \/ CheckAtStart(v) \/ ServeProfile(v)
    BY <2>3 DEF ReadProfile, CheckAtStart, ServeProfile
  <2> QED BY <2>1, <2>2, <2>3 DEF ProfileNext
<1> QED BY <1>1, ProfileInvariant, PTL DEF ProfileSpec, NothingUnseenIsReplaced

-----------------------------------------------------------------------------
(* The archive's modules beside each other.                                  *)

\* What each module keeps of its own.
ArchiveInv ==
    PagesTypeOK /\ RowsHold /\ PublicationInv /\ ProfileTypeOK /\ ConfirmationInv

LEMMA ArchiveInvStarts == ArchiveInit => ArchiveInv
BY PagesInitially, InitHolds, ProfileTypesStart, ConfirmationStarts DEF ArchiveInit, ArchiveInv

\* One module moves, and the others rest.
LEMMA ArchiveInvKept == ASSUME ArchiveInv, [ArchiveNext]_archiveVars PROVE ArchiveInv'
<1>1. /\ [PagesNext]_pageVars /\ [PublicationNext]_publicationVars
      /\ [ProfileNext]_profileVars /\ [ConfirmationNext]_confirmationVars
  BY DEF ArchiveNext, archiveVars
<1>2. PagesTypeOK' /\ RowsHold'
  BY <1>1, PagesStep DEF ArchiveInv
<1>3. PublicationInv'
  BY <1>1, NextHolds DEF ArchiveInv, StepHolds
<1>4. ProfileTypeOK' /\ ConfirmationInv'
  BY <1>1, ProfileTypesKept, ConfirmationInductive DEF ArchiveInv
<1> QED BY <1>2, <1>3, <1>4 DEF ArchiveInv

(* Whichever of the archive's modules moves, every variable of them keeps its *)
(* type, and a letter's row the database's checks on its guidance.            *)
THEOREM ArchiveTypes == ArchiveSpec => []ArchiveTypeOK
<1>1. ArchiveInv => ArchiveTypeOK
  BY PublicationTypesHold, RowInvGivesTypes DEF ArchiveInv, ConfirmationInv, ArchiveTypeOK
<1> QED BY <1>1, ArchiveInvStarts, ArchiveInvKept, PTL DEF ArchiveSpec

=============================================================================
