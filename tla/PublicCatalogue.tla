---------------------------- MODULE PublicCatalogue ----------------------------
(***************************************************************************)
(* What publication promises of one correspondence group: the public sees  *)
(* nothing but entries that somebody verified with the group's present     *)
(* pages on the screen, and a change of the pages hides the group and      *)
(* makes everybody look again.                                             *)
(***************************************************************************)
EXTENDS Naturals

CONSTANT Admins

VARIABLES
    pages,    \* how many times the pages have changed
    informed, \* the administrators who have seen the present pages
    visible,  \* whether the pages are public
    verified, \* the entries that are verified: a member, a field and its value
    shown     \* the entries that are published

catalogueVars == <<pages, informed, visible, verified, shown>>

Init ==
    /\ pages = 0 /\ informed = {}
    /\ visible \in BOOLEAN /\ shown \subseteq verified

Look(a) ==
    /\ informed' = informed \union {a}
    /\ UNCHANGED <<pages, visible, verified, shown>>

\* A decision is one request of somebody who has seen the pages.
Decide(a) ==
    /\ a \in informed /\ informed' \subseteq informed \ {a}
    /\ UNCHANGED pages /\ shown' \subseteq verified'

Verify(a) ==
    /\ Decide(a)
    /\ \E entry \in verified' : verified' \subseteq verified \union {entry}
    /\ visible' => visible
    /\ shown' \subseteq shown

Grant(a) ==
    /\ Decide(a)
    /\ visible' \in BOOLEAN /\ verified' \subseteq verified

\* Anybody may take back: an edit, an attempt, an administrator who hides.
Withdraw ==
    /\ UNCHANGED pages /\ informed' \subseteq informed
    /\ visible' => visible
    /\ verified' \subseteq verified
    /\ shown' \subseteq shown \intersect verified'

ChangePages ==
    /\ pages' = pages + 1 /\ informed' = {} /\ ~visible'
    /\ verified' \subseteq verified
    /\ shown' \subseteq shown \intersect verified'

Next ==
    \/ \E a \in Admins : Look(a) \/ Verify(a) \/ Grant(a)
    \/ Withdraw
    \/ ChangePages

Spec == Init /\ [][Next]_catalogueVars

=============================================================================
