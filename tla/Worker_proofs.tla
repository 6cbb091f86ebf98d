---------------------------- MODULE Worker_proofs ----------------------------
(***************************************************************************)
(* The execution lease is safe for any number of workers, any duration and *)
(* an unbounded clock.  One inductive invariant, WindowsAreBacked, carries *)
(* it: whatever a process may come to trust has passed, or the row still   *)
(* holds its token at least that long.                                     *)
(*                                                                         *)
(* For any number of executions and units of work, and any signals: while  *)
(* nothing fails and one producer asks at a time, queued work always has   *)
(* somebody on the way to it.                                              *)
(***************************************************************************)
EXTENDS WorkerLease, WorkerDrain, TLAPS

(* ------------------------- The execution lease -------------------------- *)

\* A belief in ownership up to `until` is harmless.
Backed(p, until) == until <= now \/ (token = p /\ until <= deadline)

\* The window itself, and the one a granted answer will confirm.
Safe(p) ==
    /\ Beating(p) => Backed(p, window[p])
    /\ request[p].state = "granted" => Backed(p, ConfirmedWindow(p))
    /\ request[p].started <= now

WindowsAreBacked ==
    /\ deadline <= NewLeaseDeadline
    /\ \A p \in Workers : Safe(p)

LEMMA RequestValues ==
    ASSUME TypeOK, NEW p \in Workers
    PROVE  /\ [request EXCEPT ![p] = Sent] \in [Workers -> Request]
           /\ [request EXCEPT ![p] = NoRequest] \in [Workers -> Request]
           /\ \A answer \in {"granted", "denied"} :
                 [request EXCEPT ![p].state = answer] \in [Workers -> Request]
BY DEF TypeOK, Request, Sent, NoRequest

(* An answer recorded for a request keeps the type of the requests.          *)
LEMMA AnswerType ==
    ASSUME TypeOK, NEW p \in Workers, NEW answer \in {"granted", "denied"}, Answer(p, answer)
    PROVE  request' \in [Workers -> Request]
BY RequestValues DEF Answer

LEMMA JudgeType ==
    ASSUME TypeOK, NEW p \in Workers, NEW until \in Nat, Judge(p, until)
    PROVE  lost' \in [Workers -> BOOLEAN]
<1>1. (lost[p] \/ now >= until) \in BOOLEAN
  OBVIOUS
<1> QED BY <1>1 DEF TypeOK, Judge

LEMMA GiveUpType ==
    ASSUME TypeOK, NEW p \in Workers, NEW kind \in {"acquire", "renew"}, GiveUp(p, kind)
    PROVE  /\ adrift' \in [Workers -> SUBSET {"acquire", "renew"}]
           /\ request' \in [Workers -> Request]
<1>1. request' \in [Workers -> Request]
  BY RequestValues DEF GiveUp, Forget
<1>2. adrift' \in [Workers -> SUBSET {"acquire", "renew"}]
  BY DEF TypeOK, GiveUp
<1> QED BY <1>1, <1>2

(* Every variable keeps its type.                                            *)
THEOREM Typed == Spec => []TypeOK
<1>1. Init => TypeOK
  BY LeaseAssumption DEF Init, TypeOK, Request, NoRequest
<1>2. TypeOK /\ [Next]_vars => TypeOK'
  <2> SUFFICES ASSUME TypeOK, Next PROVE TypeOK'
    BY DEF TypeOK, vars, db
  <2> USE DEF TypeOK
  <2>1. now' \in Nat /\ NewLeaseDeadline \in Nat
    BY LeaseAssumption DEF NewLeaseDeadline, Next, Step, Tick, Launch, ExecuteAcquire,
        AcquireGranted, AcquireDenied, StartRenewal, ExecuteRenewal, RenewalGranted,
        RenewalDenied, RenewalFails, NoticeLoss, Stop, Release, Crash, ExecuteAdrift
  <2>2. CASE Tick
    BY <2>1, <2>2 DEF Tick, db
  <2>3. ASSUME NEW p \in Workers, Step(p) PROVE TypeOK'
    <3>1. ConfirmedWindow(p) \in Nat
      BY LeaseAssumption DEF ConfirmedWindow, Request
    <3>2. CASE Launch(p)
      BY <2>1, <3>2, RequestValues DEF Launch, db
    <3>3. CASE ExecuteAcquire(p)
      <4>1. request' \in [Workers -> Request]
        BY <3>3, AnswerType DEF ExecuteAcquire
      <4>2. token' \in Workers \union {NoToken} /\ deadline' \in Nat
        BY <2>1, <3>3 DEF ExecuteAcquire, Take, db
      <4> QED BY <2>1, <3>3, <4>1, <4>2 DEF ExecuteAcquire
    <3>4. CASE AcquireGranted(p)
      <4>1. request' \in [Workers -> Request]
        BY <3>4, RequestValues DEF AcquireGranted, Forget
      <4>2. lost' \in [Workers -> BOOLEAN]
        BY <3>1, <3>4, JudgeType DEF AcquireGranted
      <4> QED BY <2>1, <3>1, <3>4, <4>1, <4>2 DEF AcquireGranted, db
    <3>5. CASE AcquireDenied(p)
      BY <2>1, <3>5, RequestValues DEF AcquireDenied, Forget, db
    <3>6. CASE StartRenewal(p)
      BY <2>1, <3>6, RequestValues DEF StartRenewal, db
    <3>7. CASE ExecuteRenewal(p)
      <4>1. request' \in [Workers -> Request]
        BY <3>7, AnswerType DEF ExecuteRenewal
      <4>2. token' \in Workers \union {NoToken} /\ deadline' \in Nat
        BY <2>1, <3>7 DEF ExecuteRenewal, Extend, db
      <4> QED BY <2>1, <3>7, <4>1, <4>2 DEF ExecuteRenewal
    <3>8. CASE RenewalGranted(p)
      BY <2>1, <3>1, <3>8, RequestValues, JudgeType DEF RenewalGranted, Forget, db
    <3>9. CASE RenewalDenied(p)
      BY <2>1, <3>9, RequestValues DEF RenewalDenied, Forget, db
    <3>10. CASE RenewalFails(p)
      BY <2>1, <3>10, GiveUpType, JudgeType DEF RenewalFails, db
    <3>11. CASE NoticeLoss(p) \/ Stop(p)
      BY <2>1, <3>11, JudgeType DEF NoticeLoss, Stop, db
    <3>12. CASE Release(p)
      BY <2>1, <3>12, GiveUpType DEF Release, db
    <3>13. CASE Crash(p)
      BY <2>1, <3>13, GiveUpType DEF Crash, db
    <3>14. ASSUME NEW kind \in {"acquire", "renew"}, ExecuteAdrift(p, kind) PROVE TypeOK'
      BY <2>1, <3>14 DEF ExecuteAdrift, Take, Extend, db
    <3> QED BY <2>3, <3>2, <3>3, <3>4, <3>5, <3>6, <3>7, <3>8, <3>9, <3>10, <3>11, <3>12,
               <3>13, <3>14 DEF Step
  <2> QED BY <2>2, <2>3 DEF Next
<1> QED BY <1>1, <1>2, PTL DEF Spec

-----------------------------------------------------------------------------
(* What a statement does to the row: nothing, or a fresh deadline for a row   *)
(* that is free or already p's, or the clearing of p's own token.             *)
RowTakenBy(p) ==
    /\ token' = p /\ deadline' = NewLeaseDeadline
    /\ Free \/ (token = p /\ deadline > now)

(* A belief another process holds survives whatever p does to the row.       *)
LEMMA OthersStayBacked ==
    ASSUME TypeOK, NEW p \in Workers, NEW q \in Workers \ {p}, NEW until \in Nat,
           now' = now, Backed(q, until),
           UNCHANGED db \/ RowTakenBy(p) \/ (token = p /\ token' = NoToken)
    PROVE  Backed(q, until)'
BY LeaseAssumption DEF Backed, TypeOK, RowTakenBy, Free, db

(* So does its own, unless p clears its token.                               *)
LEMMA OwnStaysBacked ==
    ASSUME TypeOK, deadline <= NewLeaseDeadline, NEW p \in Workers, NEW until \in Nat,
           now' = now, Backed(p, until), UNCHANGED db \/ RowTakenBy(p)
    PROVE  Backed(p, until)'
BY LeaseAssumption DEF Backed, TypeOK, RowTakenBy, Free, db, NewLeaseDeadline

LEMMA DeadlineStaysBounded ==
    ASSUME TypeOK, deadline <= NewLeaseDeadline, now' = now, deadline' \in {0, deadline, NewLeaseDeadline}
    PROVE  deadline' <= NewLeaseDeadline'
BY LeaseAssumption DEF TypeOK, NewLeaseDeadline

LEMMA TimesAreNumbers ==
    ASSUME TypeOK, NEW p \in Workers
    PROVE  window[p] \in Nat /\ request[p].started \in Nat /\ ConfirmedWindow(p) \in Nat
BY LeaseAssumption DEF TypeOK, Request, ConfirmedWindow

(* A step of p that leaves the row alone, takes or extends it, or clears p's  *)
(* own token keeps every other process safe.                                  *)
LEMMA OthersStaySafe ==
    ASSUME TypeOK, WindowsAreBacked, NEW p \in Workers, NEW q \in Workers \ {p}, now' = now,
           UNCHANGED db \/ RowTakenBy(p) \/ (token = p /\ token' = NoToken),
           pc'[q] = pc[q], window'[q] = window[q], request'[q] = request[q]
    PROVE  Safe(q)'
<1>1. Beating(q)' => Backed(q, window[q])'
  BY OthersStayBacked, TimesAreNumbers DEF WindowsAreBacked, Safe, Beating
<1>2. request'[q].state = "granted" => Backed(q, ConfirmedWindow(q))'
  BY OthersStayBacked, TimesAreNumbers DEF WindowsAreBacked, Safe, ConfirmedWindow
<1> QED BY <1>1, <1>2 DEF Safe, Backed, WindowsAreBacked

(* What every step of a process does to the row and to the other processes.  *)
RowEffect(p) == UNCHANGED db \/ RowTakenBy(p) \/ (token = p /\ token' = NoToken /\ deadline' = 0)

Untouched(q) ==
    pc'[q] = pc[q] /\ window'[q] = window[q] /\ lost'[q] = lost[q] /\ request'[q] = request[q]

LEMMA StepsAreLocal ==
    ASSUME TypeOK, NEW p \in Workers, Step(p)
    PROVE  /\ now' = now
           /\ RowEffect(p)
           /\ \A q \in Workers \ {p} :
                 Untouched(q)
<1> USE DEF RowEffect, Untouched
<1>1. CASE Launch(p)
  BY <1>1 DEF Launch, TypeOK
<1>2. CASE ExecuteAcquire(p)
  BY <1>2 DEF ExecuteAcquire, Take, Answer, RowTakenBy, TypeOK
<1>3. CASE AcquireGranted(p) \/ AcquireDenied(p)
  BY <1>3 DEF AcquireGranted, AcquireDenied, Forget, Judge, TypeOK
<1>4. CASE StartRenewal(p)
  BY <1>4 DEF StartRenewal, TypeOK
<1>5. CASE ExecuteRenewal(p)
  BY <1>5 DEF ExecuteRenewal, Extend, Renewable, LiveToken, Answer, RowTakenBy, TypeOK
<1>6. CASE RenewalGranted(p) \/ RenewalDenied(p)
  BY <1>6 DEF RenewalGranted, RenewalDenied, Forget, Judge, TypeOK
<1>7. CASE RenewalFails(p)
  BY <1>7 DEF RenewalFails, GiveUp, Forget, Judge, TypeOK
<1>8. CASE NoticeLoss(p) \/ Stop(p)
  BY <1>8 DEF NoticeLoss, Stop, Judge, TypeOK
<1>9. CASE Release(p)
  BY <1>9 DEF Release, OwnToken, GiveUp, Forget, TypeOK
<1>10. CASE Crash(p)
  BY <1>10 DEF Crash, GiveUp, Forget, TypeOK
<1>11. ASSUME NEW kind \in {"acquire", "renew"}, ExecuteAdrift(p, kind)
       PROVE  /\ now' = now /\ RowEffect(p)
              /\ \A q \in Workers \ {p} :
                    Untouched(q)
  BY <1>11 DEF ExecuteAdrift, Take, Extend, Renewable, LiveToken, RowTakenBy
<1> QED BY <1>1, <1>2, <1>3, <1>4, <1>5, <1>6, <1>7, <1>8, <1>9, <1>10, <1>11 DEF Step

LEMMA AnswerValues ==
    ASSUME TypeOK, NEW p \in Workers, NEW answer \in {"granted", "denied"}, Answer(p, answer)
    PROVE  request'[p].state = answer /\ request'[p].started = request[p].started
BY DEF TypeOK, Request, Answer

LEMMA GrantsAreBacked ==
    ASSUME TypeOK, NEW p \in Workers, now' = now, RowTakenBy(p),
           request[p].started <= now, request'[p].started = request[p].started
    PROVE  Backed(p, ConfirmedWindow(p))'
BY LeaseAssumption, TimesAreNumbers
DEF TypeOK, RowTakenBy, Backed, ConfirmedWindow, NewLeaseDeadline

(* A step leaves the process that takes it safe: a window is confirmed only   *)
(* by an answer that is backed, and a grant is backed when it is executed.    *)
LEMMA StepsStaySafe ==
    ASSUME TypeOK, WindowsAreBacked, NEW p \in Workers, Step(p)
    PROVE  Safe(p)'
<1> now' = now /\ RowEffect(p)
  BY StepsAreLocal
<1> Safe(p) /\ deadline <= NewLeaseDeadline
  BY DEF WindowsAreBacked
<1> window[p] \in Nat /\ request[p].started \in Nat /\ ConfirmedWindow(p) \in Nat /\ now \in Nat
  BY TimesAreNumbers DEF TypeOK
<1>1. \A until \in Nat : Backed(p, until) /\ ~(token = p /\ token' = NoToken) => Backed(p, until)'
  BY OwnStaysBacked DEF RowEffect
<1>2. p # NoToken
  BY LeaseAssumption
<1>3. CASE Launch(p)
  BY <1>3 DEF Launch, Sent, Safe, Beating, TypeOK
<1>4. CASE ExecuteAcquire(p)
  <2>1. pc'[p] = "acquiring" /\ request'[p].started = request[p].started
    BY <1>4, AnswerValues DEF ExecuteAcquire
  <2>2. CASE Take(p) /\ Answer(p, "granted")
    <3>1. Backed(p, ConfirmedWindow(p))'
      BY <2>1, <2>2, GrantsAreBacked DEF Take, RowTakenBy, Safe
    <3> QED BY <2>1, <3>1 DEF Safe, Beating
  <2>3. CASE Answer(p, "denied")
    BY <2>1, <2>3, AnswerValues DEF Safe, Beating
  <2> QED BY <1>4, <2>2, <2>3 DEF ExecuteAcquire
<1>5. CASE AcquireGranted(p) \/ RenewalGranted(p)
  <2>1. UNCHANGED db /\ request[p].state = "granted" /\ request' \in {[request EXCEPT ![p] = Sent], [request EXCEPT ![p] = NoRequest]}
        /\ window'[p] = ConfirmedWindow(p)
    BY <1>5 DEF AcquireGranted, RenewalGranted, Forget, TypeOK
  <2>2. Backed(p, ConfirmedWindow(p)) /\ token' = token
    BY <2>1 DEF Safe, db
  <2>3. Backed(p, window[p])'
    BY <1>1, <1>2, <2>1, <2>2 DEF Backed
  <2>4. request'[p].state # "granted" /\ request'[p].started <= now
    BY <2>1 DEF Sent, NoRequest, TypeOK
  <2> QED BY <2>3, <2>4 DEF Safe
<1>6. CASE AcquireDenied(p)
  BY <1>6 DEF AcquireDenied, Forget, NoRequest, Safe, Beating, TypeOK
<1>7. CASE StartRenewal(p)
  BY <1>7 DEF StartRenewal, Sent, Safe, Beating, Backed, db, TypeOK
<1>8. CASE ExecuteRenewal(p)
  <2>1. /\ UNCHANGED <<pc, window>> /\ request'[p].started = request[p].started
        /\ token' = token
    BY <1>8, AnswerValues DEF ExecuteRenewal, Extend, db
  <2>2. Beating(p)' => Backed(p, window[p])'
    BY <1>1, <1>2, <2>1 DEF Safe, Beating
  <2>3. CASE Extend(p) /\ Answer(p, "granted")
    <3>1. Backed(p, ConfirmedWindow(p))'
      BY <2>1, <2>3, GrantsAreBacked DEF Extend, Renewable, LiveToken, RowTakenBy, Safe
    <3> QED BY <2>1, <2>2, <3>1 DEF Safe
  <2>4. CASE Answer(p, "denied")
    BY <2>1, <2>2, <2>4, AnswerValues DEF Safe
  <2> QED BY <1>8, <2>3, <2>4 DEF ExecuteRenewal
<1>9. CASE RenewalDenied(p)
  BY <1>9 DEF RenewalDenied, Forget, NoRequest, Safe, Beating, Backed, db, TypeOK
<1>10. CASE RenewalFails(p)
  BY <1>10 DEF RenewalFails, GiveUp, Forget, NoRequest, Safe, Beating, Backed, db, TypeOK
<1>11. CASE NoticeLoss(p) \/ Stop(p)
  BY <1>11 DEF NoticeLoss, Stop, Safe, Beating, Backed, ConfirmedWindow, db, TypeOK
<1>12. CASE Release(p) \/ Crash(p)
  BY <1>12 DEF Release, Crash, GiveUp, Forget, NoRequest, Safe, Beating, TypeOK
<1>13. ASSUME NEW kind \in {"acquire", "renew"}, ExecuteAdrift(p, kind) PROVE Safe(p)'
  <2>1. UNCHANGED <<pc, window, request>> /\ ~(token = p /\ token' = NoToken)
    BY <1>13, <1>2 DEF ExecuteAdrift, Take, Extend, db
  <2> QED BY <1>1, <2>1 DEF Safe, Beating, ConfirmedWindow
<1> QED BY <1>3, <1>4, <1>5, <1>6, <1>7, <1>8, <1>9, <1>10, <1>11, <1>12, <1>13, Zenon DEF Step

(* Time makes a belief weaker, never wrong.                                  *)
LEMMA TicksStaySafe ==
    ASSUME TypeOK, WindowsAreBacked, Tick
    PROVE  WindowsAreBacked'
<1>1. deadline' <= NewLeaseDeadline'
  BY LeaseAssumption DEF WindowsAreBacked, NewLeaseDeadline, Tick, TypeOK, db
<1> SUFFICES ASSUME NEW p \in Workers PROVE Safe(p)'
  BY <1>1 DEF WindowsAreBacked
<1> window[p] \in Nat /\ request[p].started \in Nat /\ ConfirmedWindow(p) \in Nat
  BY TimesAreNumbers
<1>2. \A until \in Nat : Backed(p, until) => Backed(p, until)'
  BY DEF Backed, Tick, db, TypeOK
<1>3. UNCHANGED <<pc, window, request>> /\ now' = now + 1
  BY DEF Tick
<1>4. Safe(p)
  BY DEF WindowsAreBacked
<1>5. Beating(p)' => Backed(p, window[p])'
  BY <1>2, <1>3, <1>4 DEF Safe, Beating
<1>6. request'[p].state = "granted" => Backed(p, ConfirmedWindow(p))'
  BY <1>2, <1>3, <1>4 DEF Safe, ConfirmedWindow
<1>7. request'[p].started <= now'
  BY <1>3, <1>4 DEF Safe, TypeOK
<1> QED BY <1>5, <1>6, <1>7 DEF Safe

LEMMA WindowsStayBacked ==
    ASSUME TypeOK, WindowsAreBacked, [Next]_vars
    PROVE  WindowsAreBacked'
<1>1. CASE UNCHANGED vars
  <2>1. deadline' <= NewLeaseDeadline'
    BY <1>1 DEF WindowsAreBacked, NewLeaseDeadline, vars, db
  <2>2. \A p \in Workers : Safe(p)'
    BY <1>1 DEF WindowsAreBacked, Safe, Beating, Backed, ConfirmedWindow, vars, db
  <2> QED BY <2>1, <2>2 DEF WindowsAreBacked
<1>2. CASE Tick
  BY <1>2, TicksStaySafe
<1>3. ASSUME NEW p \in Workers, Step(p) PROVE WindowsAreBacked'
  <2>1. now' = now /\ RowEffect(p)
        /\ \A q \in Workers \ {p} :
              Untouched(q)
    BY <1>3, StepsAreLocal
  <2>2. \A q \in Workers \ {p} : Safe(q)'
    BY <2>1, OthersStaySafe DEF RowEffect, Untouched
  <2>3. Safe(p)'
    BY <1>3, StepsStaySafe
  <2>4. deadline' <= NewLeaseDeadline'
    BY <2>1, LeaseAssumption
    DEF WindowsAreBacked, RowEffect, RowTakenBy, NewLeaseDeadline, db, TypeOK
  <2> QED BY <2>2, <2>3, <2>4 DEF WindowsAreBacked
<1> QED BY <1>1, <1>2, <1>3 DEF Next

THEOREM WindowsInvariant == Spec => []WindowsAreBacked
<1>1. Init => WindowsAreBacked
  BY LeaseAssumption
  DEF Init, WindowsAreBacked, Safe, Beating, NoRequest, NewLeaseDeadline
<1>2. TypeOK /\ WindowsAreBacked /\ [Next]_vars => WindowsAreBacked'
  BY WindowsStayBacked
<1> QED BY <1>1, <1>2, Typed, PTL DEF Spec

-----------------------------------------------------------------------------
LEMMA BackedOwnership ==
    ASSUME TypeOK, WindowsAreBacked
    PROVE  OwnershipIsBacked
<1> SUFFICES ASSUME NEW p \in Workers, Active(p) PROVE LiveToken(p)
  BY DEF OwnershipIsBacked
<1>1. Backed(p, window[p]) /\ now < window[p]
  BY DEF WindowsAreBacked, Safe, Beating, Active, HasOwnership
<1> QED BY <1>1 DEF Backed, LiveToken, TypeOK

(* A process that believes it owns the lease does, whatever was delayed, lost *)
(* or executed late.                                                          *)
THEOREM OwnersAreBacked == Spec => []OwnershipIsBacked
BY Typed, WindowsInvariant, BackedOwnership, PTL

(* A token is not in the row before its acquisition executes, which it does   *)
(* once: an acquisition never extends a deadline.                             *)
Unused(p) ==
    /\ pc[p] = "acquiring" /\ request[p].state = "sent" => token # p
    /\ "acquire" \in adrift[p] => pc[p] = "off" /\ token # p

TokensAreFresh == \A p \in Workers : Unused(p)

LEMMA FreshnessOfOthers ==
    ASSUME TypeOK, TokensAreFresh, NEW p \in Workers, Step(p), NEW q \in Workers \ {p}
    PROVE  Unused(q)'
<1>1. Untouched(q) /\ token' \in {token, p, NoToken}
  BY StepsAreLocal DEF RowEffect, RowTakenBy, db
<1>2. adrift'[q] = adrift[q]
  BY DEF Step, Launch, ExecuteAcquire, AcquireGranted, AcquireDenied, StartRenewal, ExecuteRenewal,
      RenewalGranted, RenewalDenied, RenewalFails, NoticeLoss, Stop, Release, Crash, GiveUp,
      ExecuteAdrift, TypeOK
<1> QED BY <1>1, <1>2, LeaseAssumption DEF TokensAreFresh, Unused, Untouched

LEMMA OwnFreshness ==
    ASSUME TypeOK, TokensAreFresh, NEW p \in Workers, Step(p)
    PROVE  Unused(p)'
<1> Unused(p)
  BY DEF TokensAreFresh
<1>1. CASE Launch(p)
  BY <1>1 DEF Launch, Sent, Unused, TypeOK, db
<1>2. CASE ExecuteAcquire(p)
  <2>1. request'[p].state \in {"granted", "denied"}
    BY <1>2, AnswerValues DEF ExecuteAcquire
  <2> QED BY <1>2, <2>1 DEF ExecuteAcquire, Unused
<1>3. CASE AcquireGranted(p) \/ AcquireDenied(p)
  BY <1>3 DEF AcquireGranted, AcquireDenied, Unused, TypeOK, db
<1>4. CASE StartRenewal(p) \/ ExecuteRenewal(p)
  BY <1>4 DEF StartRenewal, ExecuteRenewal, Extend, Beating, Active, Unused, db
<1>5. CASE RenewalGranted(p) \/ RenewalDenied(p) \/ NoticeLoss(p)
  BY <1>5 DEF RenewalGranted, RenewalDenied, NoticeLoss, Beating, Unused, db
<1>6. CASE RenewalFails(p)
  BY <1>6 DEF RenewalFails, GiveUp, Beating, Unused, TypeOK, db
<1>7. CASE Stop(p) \/ Release(p)
  BY <1>7 DEF Stop, Release, GiveUp, Unused, TypeOK, db
<1>8. CASE Crash(p)
  BY <1>8 DEF Crash, GiveUp, Unused, TypeOK, db
<1>9. ASSUME NEW kind \in {"acquire", "renew"}, ExecuteAdrift(p, kind) PROVE Unused(p)'
  BY <1>9 DEF ExecuteAdrift, Take, Extend, Unused, TypeOK, db
<1> QED BY <1>1, <1>2, <1>3, <1>4, <1>5, <1>6, <1>7, <1>8, <1>9 DEF Step

THEOREM FreshTokens == Spec => []TokensAreFresh
<1>1. Init => TokensAreFresh
  BY DEF Init, TokensAreFresh, Unused
<1>2. TypeOK /\ TokensAreFresh /\ [Next]_vars => TokensAreFresh'
  <2> SUFFICES ASSUME TypeOK, TokensAreFresh, [Next]_vars, NEW q \in Workers PROVE Unused(q)'
    BY DEF TokensAreFresh
  <2>1. CASE UNCHANGED vars \/ Tick
    BY <2>1 DEF TokensAreFresh, Unused, Tick, vars, db
  <2>2. CASE \E p \in Workers : Step(p)
    BY <2>2, FreshnessOfOthers, OwnFreshness
  <2> QED BY <2>1, <2>2 DEF Next
<1> QED BY <1>1, <1>2, Typed, PTL DEF Spec

(* Tokens are cleared by their own process only and a live one is never taken *)
(* or revived.                                                                *)
THEOREM TokensAreFair == Spec => TokensChangeFairly
<1> DEFINE Fairly ==
        /\ token # NoToken /\ token' = NoToken =>
             pc[token] = "stopping" /\ pc'[token] = "off"
        /\ token' # token /\ token' # NoToken => Free
        /\ token' = token /\ deadline' # deadline => deadline > now
<1>1. TypeOK /\ TokensAreFresh /\ [Next]_vars => [Fairly]_vars
  <2> SUFFICES ASSUME TypeOK, TokensAreFresh, Next PROVE Fairly
    OBVIOUS
  <2>1. CASE UNCHANGED db
    BY <2>1 DEF db
  <2>2. ASSUME NEW p \in Workers, Take(p), token # p PROVE Fairly
    BY <2>2, LeaseAssumption DEF Take, TypeOK
  <2>3. ASSUME NEW p \in Workers, Extend(p) PROVE Fairly
    BY <2>3, LeaseAssumption DEF Extend, Renewable, LiveToken, TypeOK
  <2>4. ASSUME NEW p \in Workers, Release(p) PROVE Fairly
    BY <2>4, LeaseAssumption DEF Release, OwnToken, TypeOK, db
  <2>5. \/ UNCHANGED db
        \/ \E p \in Workers : (Take(p) /\ token # p) \/ Extend(p) \/ Release(p)
    BY DEF TokensAreFresh, Unused, Next, Step, Tick, Launch, ExecuteAcquire, AcquireGranted,
        AcquireDenied, StartRenewal, ExecuteRenewal, RenewalGranted, RenewalDenied,
        RenewalFails, NoticeLoss, Stop, Crash, ExecuteAdrift
  <2> QED BY <2>1, <2>2, <2>3, <2>4, <2>5
<1> QED BY <1>1, Typed, FreshTokens, PTL DEF Spec, TokensChangeFairly

(* A step changes the standing of one process, and only one can be active     *)
(* before and after it.                                                       *)
LEMMA StepsRefineMutex ==
    ASSUME TypeOK, OwnershipIsBacked, OwnershipIsBacked', [Next]_vars
    PROVE  [Mutex!Next]_({p \in Workers : Active(p)})
<1> DEFINE A == {p \in Workers : Active(p)}
<1>1. /\ \A p, q \in A : p = q
      /\ \A p, q \in A' : p = q
  BY DEF OwnershipIsBacked, LiveToken
<1>2. CASE UNCHANGED vars
  BY <1>2 DEF Active, HasOwnership, vars
<1>3. CASE Tick
  <2>1. A' \subseteq A
    BY <1>3 DEF Tick, Active, HasOwnership, TypeOK
  <2>2. A' = A \/ \E p \in A : A' = {}
    BY <1>1, <2>1
  <2> QED BY <2>2, <1>1 DEF Mutex!Next, Mutex!Leave
<1>4. ASSUME NEW r \in Workers, Step(r) PROVE A' = A \/ Mutex!Next
  <2>1. \A q \in Workers \ {r} : q \in A' <=> q \in A
    BY <1>4, StepsAreLocal DEF Untouched, Active, HasOwnership
  <2>2. CASE r \in A /\ r \notin A'
    <3>1. A' = A \ {r}
      BY <2>1, <2>2
    <3> QED BY <2>2, <3>1 DEF Mutex!Next, Mutex!Leave
  <2>3. CASE r \notin A /\ r \in A'
    <3>1. A = {} /\ A' = {r}
      BY <1>1, <2>1, <2>3
    <3> QED BY <3>1 DEF Mutex!Next, Mutex!Enter
  <2>4. CASE r \in A <=> r \in A'
    BY <2>1, <2>4
  <2> QED BY <2>2, <2>3, <2>4
<1> QED BY <1>2, <1>3, <1>4 DEF Next

(* The lease implements mutual exclusion of the workers' operations.         *)
THEOREM LeaseImplementsMutex == Spec => ImplementsMutex
<1>1. Init => Mutex!Init
  BY DEF Init, Mutex!Init, Active
<1>2. TypeOK /\ OwnershipIsBacked /\ OwnershipIsBacked' /\ [Next]_vars
        => [Mutex!Next]_({p \in Workers : Active(p)})
  BY StepsRefineMutex
<1> QED BY <1>1, <1>2, Typed, OwnersAreBacked, PTL DEF Spec, ImplementsMutex, Mutex!Spec

(* --------------------- The main loop and the wake-up -------------------- *)

\* Where an execution holds the lease.
Inside == Steps \ {"off", "acquire", "recheck", "askLease", "post"}

\* Without faults, the execution inside is the holder, and will look once more.
OwnersAreSure == spent.faults = 0 =>
    /\ \A w \in Executions : worker[w].sure <=> worker[w].pc \in Inside
    /\ \A w \in Executions : worker[w].sure => holder = w /\ leased /\ worker[w].normal
    /\ holder # NoOne => leased /\ worker[holder].sure

\* The producer awaits no call but its own.
NobodyJoins ==
    /\ \A q \in Wakers : waker[q] # "await"
    /\ \A q \in Wakers : waker[q] \in {"lease", "skip", "post"} => inFlight = q
    /\ inFlight # NoOne => waker[inFlight] \in {"lease", "skip", "post"}

\* Somebody is on the way: an execution, a request for one, or a producer that
\* will still look at the queue or at the lease.
OnTheWay ==
    \/ requested > 0
    \/ \E w \in Executions : worker[w].pc # "off"
    \/ \E q \in Wakers : waker[q] \in {"check", "trigger", "lease", "post"}

WorkIsSeen == spent.faults = 0 /\ PendingJobs # {} => OnTheWay

-----------------------------------------------------------------------------
(* Types.                                                                    *)

LEMMA OffTyped == Off \in Worker /\ Off.pc = "off" /\ ~Off.sure
BY DEF Off, Worker, Steps

LEMMA RequeuedTyped == ASSUME work \in [Jobs -> WorkRecord] PROVE Requeued \in [Jobs -> WorkRecord]
BY DEF Requeued, WorkRecord, Pending

LEMMA PostedIs ==
    ASSUME requested \in 0 .. MaxExecutions PROVE Posted \in 0 .. MaxExecutions /\ Posted > 0
BY DrainAssumption DEF Posted

LEMMA SpendTyped ==
    ASSUME spent \in [commits : 0..MaxCommits, faults : 0..MaxFaults, signals : 0..MaxSignals],
           NEW what \in {"commits", "faults", "signals"}, NEW max, Spend(what, max),
           max = CASE what = "commits" -> MaxCommits
                   [] what = "faults" -> MaxFaults
                   [] what = "signals" -> MaxSignals
    PROVE  /\ spent' \in [commits : 0..MaxCommits, faults : 0..MaxFaults, signals : 0..MaxSignals]
           /\ spent'.faults = 0 => spent.faults = 0 /\ what # "faults"
BY DrainAssumption DEF Spend

LEMMA SettleTyped ==
    ASSUME DrainTypeOK, Settle
    PROVE  /\ inFlight' = NoOne
           /\ waker' \in [Wakers -> {"idle", "check", "trigger", "await", "lease", "skip", "post"}]
BY DEF DrainTypeOK, Settle

\* An execution moves on: its place, its snapshot and its job change, nothing else.
Moves(w, from, to) ==
    \E new \in Worker :
        /\ worker' = [worker EXCEPT ![w] = new] /\ worker[w].pc \in from /\ new.pc \in to
        /\ new.sure = worker[w].sure /\ new.normal = worker[w].normal

LEMMA ContinueMoves ==
    ASSUME DrainTypeOK, NEW w \in Executions, NEW step \in Inside, Continue(w, step),
           worker[w].pc \in Inside
    PROVE  Moves(w, Inside, Inside)
<1>1. PICK to \in Inside : worker' = [worker EXCEPT ![w].pc = to]
  BY DEF Continue, Inside, Steps
<1> DEFINE old == worker[w]
           new == [old EXCEPT !.pc = to]
<1>2. old \in Worker /\ worker' = [worker EXCEPT ![w] = new]
  BY <1>1 DEF DrainTypeOK
<1> HIDE DEF old
<1>3. new \in Worker /\ new.pc = to /\ new.sure = old.sure /\ new.normal = old.normal
  BY <1>2 DEF Worker, Inside
<1> QED BY <1>2, <1>3 DEF Moves, old

\* The loop and the decision to leave.
LEMMA InsideMoves ==
    ASSUME DrainTypeOK, NEW w \in Executions,
           \/ RecoverFirst(w) \/ Scan(w) \/ (\E j \in Jobs : PickJob(w, j)) \/ ClaimJob(w)
           \/ FinishJob(w) \/ EndCycle(w) \/ ReconcileLast(w) \/ AskPending(w) \/ AskLeased(w)
    PROVE  Moves(w, Inside, Inside)
<1> DEFINE old == worker[w]
<1>1. old \in Worker /\ PendingJobs \in SUBSET Jobs
  BY DEF DrainTypeOK, PendingJobs
<1>2. ASSUME NEW step \in Inside, NEW batch \in SUBSET Jobs, NEW current \in Jobs \union {NoOne},
             NEW found \in BOOLEAN, old.pc \in Inside,
             worker' = [worker EXCEPT ![w] = [old EXCEPT !.pc = step, !.batch = batch,
                                                        !.current = current, !.found = found]]
      PROVE  Moves(w, Inside, Inside)
  <2>1. PICK new : new = [old EXCEPT !.pc = step, !.batch = batch, !.current = current,
                                     !.found = found]
    OBVIOUS
  <2> HIDE DEF old
  <2>2. new \in Worker /\ new.pc = step /\ new.sure = old.sure /\ new.normal = old.normal
    <3>1. PICK o \in Worker : o = old
      BY <1>1
    <3>2. new = [o EXCEPT !.pc = step, !.batch = batch, !.current = current, !.found = found]
          /\ step \in Steps
      BY <2>1, <3>1 DEF Inside
    <3>3. new \in Worker /\ new.pc = step /\ new.sure = o.sure /\ new.normal = o.normal
      BY <3>2 DEF Worker
    <3> QED BY <3>1, <3>3
  <2> QED BY <1>2, <2>1, <2>2 DEF Moves, old
<1>3. old.batch \in SUBSET Jobs /\ old.current \in Jobs \union {NoOne} /\ old.found \in BOOLEAN
  BY <1>1 DEF Worker
<1>4. CASE RecoverFirst(w)
  BY <1>4, ContinueMoves DEF RecoverFirst, Inside, Steps
<1>5. CASE Scan(w)
  <2>1. PICK step \in Inside, found \in BOOLEAN :
          worker' = [worker EXCEPT ![w].pc = step, ![w].batch = PendingJobs, ![w].found = found]
    <3>1. PICK step : step = IF CanStart(w) THEN "batch" ELSE "release"
      OBVIOUS
    <3>2. PICK found : found = (PendingJobs # {})
      OBVIOUS
    <3>3. worker' = [worker EXCEPT ![w].pc = step, ![w].batch = PendingJobs, ![w].found = found]
      BY <1>5, <3>1, <3>2 DEF Scan
    <3>4. step \in Inside /\ found \in BOOLEAN
      BY <3>1, <3>2 DEF Inside, Steps
    <3> QED BY <3>3, <3>4
  <2>2. worker' = [worker EXCEPT ![w] = [old EXCEPT !.pc = step, !.batch = PendingJobs,
                                                   !.current = old.current, !.found = found]]
    BY <2>1, <1>1 DEF DrainTypeOK, Worker
  <2>3. old.pc \in Inside
    BY <1>5 DEF Scan, Inside, Steps
  <2> QED BY <1>1, <1>2, <1>3, <2>2, <2>3
<1>6. ASSUME NEW j \in Jobs, PickJob(w, j) PROVE Moves(w, Inside, Inside)
  <2>1. worker' = [worker EXCEPT ![w] = [old EXCEPT !.pc = "claim", !.batch = old.batch \ {j},
                                                   !.current = j, !.found = old.found]]
    BY <1>1, <1>6 DEF PickJob, DrainTypeOK, Worker
  <2>2. old.pc \in Inside /\ "claim" \in Inside /\ old.batch \ {j} \in SUBSET Jobs
    BY <1>3, <1>6 DEF PickJob, Inside, Steps
  <2> QED BY <1>2, <1>3, <2>1, <2>2
<1>7. CASE ClaimJob(w)
  <2>1. PICK step \in {"run", "batch"}, current \in {old.current, NoOne} :
          worker' = [worker EXCEPT ![w] = [old EXCEPT !.pc = step, !.batch = old.batch,
                                                     !.current = current, !.found = old.found]]
    <3>1. CASE Goto(w, "run")
      BY <1>1, <3>1 DEF Goto, DrainTypeOK, Worker
    <3>2. CASE worker' = [worker EXCEPT ![w].pc = "batch", ![w].current = NoOne]
      BY <1>1, <3>2 DEF DrainTypeOK, Worker
    <3> QED BY <1>7, <3>1, <3>2 DEF ClaimJob
  <2>2. old.pc \in Inside /\ step \in Inside /\ current \in Jobs \union {NoOne}
    BY <1>3, <1>7 DEF ClaimJob, Inside, Steps
  <2> QED BY <1>2, <1>3, <2>1, <2>2
<1>8. CASE FinishJob(w)
  <2>1. worker' = [worker EXCEPT ![w].pc = "batch", ![w].current = NoOne] /\ old.pc = "run"
    BY <1>8 DEF FinishJob
  <2>2. worker' = [worker EXCEPT ![w] = [old EXCEPT !.pc = "batch", !.batch = old.batch,
                                                   !.current = NoOne, !.found = old.found]]
    BY <1>1, <2>1 DEF DrainTypeOK, Worker
  <2>3. old.pc \in Inside /\ "batch" \in Inside
    BY <2>1 DEF Inside, Steps
  <2> QED BY <1>2, <1>3, <2>2, <2>3
<1>9. CASE EndCycle(w) \/ ReconcileLast(w) \/ AskPending(w) \/ AskLeased(w)
  <2>1. PICK step \in Inside : Continue(w, step)
    BY <1>9 DEF EndCycle, ReconcileLast, AskPending, AskLeased, Inside, Steps
  <2>2. worker[w].pc \in Inside
    BY <1>9 DEF EndCycle, ReconcileLast, AskPending, AskLeased, Inside, Steps
  <2> QED BY <2>1, <2>2, ContinueMoves
<1> QED BY <1>4, <1>5, <1>6, <1>7, <1>8, <1>9

\* Before the lease, and after it.
Outside == {"off", "acquire", "recheck", "askLease", "post"}

LEMMA OutsideMoves ==
    ASSUME DrainTypeOK, NEW w \in Executions, Recheck(w) \/ AskLease(w) \/ PostHandoff(w)
    PROVE  Moves(w, {"recheck", "askLease", "post"}, Outside)
<1>1. PICK to \in Outside : worker' = [worker EXCEPT ![w].pc = to]
  BY DEF Recheck, AskLease, PostHandoff, Goto, Outside
<1> DEFINE old == worker[w]
           new == [old EXCEPT !.pc = to]
<1>2. old \in Worker /\ worker' = [worker EXCEPT ![w] = new]
      /\ old.pc \in {"recheck", "askLease", "post"}
  BY <1>1 DEF DrainTypeOK, Recheck, AskLease, PostHandoff
<1> HIDE DEF old
<1>3. new \in Worker /\ new.pc = to /\ new.sure = old.sure /\ new.normal = old.normal
  BY <1>2 DEF Worker, Outside, Steps
<1> QED BY <1>2, <1>3 DEF Moves, old

\* A step of the worker job, faults aside: how it changes the execution and the lease.
WorkerShape(w) ==
    \/ Moves(w, Inside, Inside) /\ UNCHANGED lease
    \/ Moves(w, {"recheck", "askLease", "post"}, Outside) /\ UNCHANGED lease
    \/ \E new \in Worker :
         /\ worker' = [worker EXCEPT ![w] = new] /\ new.pc = "acquire" /\ ~new.sure
         /\ worker[w].pc = "off" /\ UNCHANGED lease
    \/ \E new \in Worker :
         /\ worker' = [worker EXCEPT ![w] = new] /\ new.pc = "recover" /\ new.sure /\ new.normal
         /\ worker[w].pc = "acquire" /\ (holder = NoOne \/ ~leased) /\ holder' = w /\ leased'
         /\ leased' \in BOOLEAN
    \/ \E new \in Worker :
         /\ worker' = [worker EXCEPT ![w] = new] /\ new.pc = "off" /\ ~new.sure
         /\ worker[w].pc = "acquire" /\ holder # NoOne /\ leased /\ UNCHANGED lease
    \/ \E new \in Worker :
         /\ worker' = [worker EXCEPT ![w] = new] /\ new.pc = AfterRelease(w) /\ ~new.sure
         /\ worker[w].pc = "release"
         /\ IF holder = w THEN holder' = NoOne /\ leased' = FALSE ELSE UNCHANGED lease

LEMMA WorkerShapes ==
    ASSUME DrainTypeOK, NEW w \in Executions, StartExecution(w) \/ WorkerStep(w)
    PROVE  WorkerShape(w)
<1>1. CASE StartExecution(w)
  <2>1. PICK new : new = [Off EXCEPT !.pc = "acquire"]
    OBVIOUS
  <2>2. new \in Worker /\ new.pc = "acquire" /\ ~new.sure
    BY <2>1, OffTyped DEF Worker, Steps
  <2> QED BY <1>1, <2>1, <2>2 DEF StartExecution, WorkerShape
<1>2. CASE Acquire(w)
  <2>1. worker[w] \in Worker
    BY DEF DrainTypeOK
  <2>2. CASE /\ holder = NoOne \/ ~leased
             /\ holder' = w /\ leased' = TRUE
             /\ worker' = [worker EXCEPT ![w].pc = "recover", ![w].sure = TRUE, ![w].normal = TRUE]
    <3>1. PICK old : old = worker[w]
      OBVIOUS
    <3>2. PICK new : new = [old EXCEPT !.pc = "recover", !.sure = TRUE, !.normal = TRUE]
      OBVIOUS
    <3>3. new \in Worker /\ new.pc = "recover" /\ new.sure /\ new.normal
      BY <2>1, <3>1, <3>2 DEF Worker, Steps
    <3>4. worker' = [worker EXCEPT ![w] = new]
      BY <2>1, <2>2, <3>1, <3>2 DEF Worker, DrainTypeOK
    <3> QED BY <1>2, <2>2, <3>3, <3>4 DEF Acquire, WorkerShape
  <2>3. CASE /\ holder # NoOne /\ leased
             /\ worker' = [worker EXCEPT ![w] = Off]
             /\ UNCHANGED lease
    BY <1>2, <2>3, OffTyped DEF Acquire, WorkerShape
  <2> QED BY <1>2, <2>2, <2>3 DEF Acquire
<1>3. CASE \/ RecoverFirst(w) \/ Scan(w) \/ (\E j \in Jobs : PickJob(w, j)) \/ ClaimJob(w)
           \/ FinishJob(w) \/ EndCycle(w) \/ ReconcileLast(w) \/ AskPending(w) \/ AskLeased(w)
  <2>1. UNCHANGED lease
    BY <1>3 DEF RecoverFirst, Scan, PickJob, ClaimJob, FinishJob, EndCycle, ReconcileLast,
                AskPending, AskLeased
  <2> QED BY <1>3, <2>1, InsideMoves DEF WorkerShape
<1>4. CASE ReleaseLease(w)
  <2>1. PICK new : new = [Off EXCEPT !.pc = AfterRelease(w)]
    OBVIOUS
  <2>2. new \in Worker /\ new.pc = AfterRelease(w) /\ ~new.sure
    BY <2>1, OffTyped DEF Worker, Steps, AfterRelease
  <2> QED BY <1>4, <2>1, <2>2 DEF ReleaseLease, WorkerShape
<1>5. CASE Recheck(w) \/ AskLease(w) \/ PostHandoff(w)
  <2>1. UNCHANGED lease
    BY <1>5 DEF Recheck, AskLease, PostHandoff
  <2> QED BY <1>5, <2>1, OutsideMoves DEF WorkerShape
<1> QED BY <1>1, <1>2, <1>3, <1>4, <1>5 DEF WorkerStep

SpentType == [commits : 0..MaxCommits, faults : 0..MaxFaults, signals : 0..MaxSignals]

\* Faults are never forgotten.
FaultsGrow == spent'.faults = 0 => spent.faults = 0

LEMMA Kinds ==
    /\ Absent \in WorkRecord /\ Pending \in WorkRecord /\ Direct \in WorkRecord
    /\ \A w \in Executions : RunBy(w) \in WorkRecord
BY DEF Absent, Pending, Direct, RunBy, WorkRecord

LEMMA WorkerStepKeepsTypes ==
    ASSUME DrainTypeOK, NEW w \in Executions, StartExecution(w) \/ WorkerStep(w)
    PROVE  DrainTypeOK' /\ FaultsGrow
<1>1. worker' \in [Executions -> Worker] /\ holder' \in Executions \union {NoOne}
      /\ leased' \in BOOLEAN
  <2>1. WorkerShape(w) /\ w \in Executions
    BY WorkerShapes
  <2>2. \E new \in Worker : worker' = [worker EXCEPT ![w] = new]
    BY <2>1 DEF WorkerShape, Moves
  <2>3. UNCHANGED lease \/ (holder' = w /\ leased' \in BOOLEAN) \/ (holder' = NoOne /\ leased' = FALSE)
    BY <2>1 DEF WorkerShape
  <2> QED BY <2>2, <2>3 DEF DrainTypeOK, lease
<1>2. work' \in [Jobs -> WorkRecord]
  <2>1. CASE ClaimJob(w)
    BY <2>1, Kinds DEF ClaimJob, DrainTypeOK
  <2>2. CASE FinishJob(w)
    BY <2>2, Kinds DEF FinishJob, DrainTypeOK
  <2>3. CASE RecoverFirst(w) \/ ReconcileLast(w)
    BY <2>3, RequeuedTyped DEF RecoverFirst, ReconcileLast, DrainTypeOK
  <2>4. CASE ~(ClaimJob(w) \/ FinishJob(w) \/ RecoverFirst(w) \/ ReconcileLast(w))
    <3>1. UNCHANGED work
      BY <2>4 DEF WorkerStep, StartExecution, Acquire, Scan, PickJob, EndCycle, AskPending,
                  AskLeased, ReleaseLease, Recheck, AskLease, PostHandoff
    <3> QED BY <3>1 DEF DrainTypeOK
  <2> QED BY <2>1, <2>2, <2>3, <2>4
<1>3. requested' \in 0 .. MaxExecutions
  <2>1. CASE StartExecution(w)
    BY <2>1, DrainAssumption DEF StartExecution, DrainTypeOK
  <2>2. CASE PostHandoff(w)
    BY <2>2, PostedIs DEF PostHandoff, DrainTypeOK
  <2>3. CASE ~(StartExecution(w) \/ PostHandoff(w))
    <3>1. UNCHANGED requested
      BY <2>3 DEF WorkerStep, Acquire, RecoverFirst, Scan, PickJob, ClaimJob, FinishJob, EndCycle,
         ReconcileLast, AskPending, AskLeased, ReleaseLease, Recheck, AskLease
    <3> QED BY <3>1 DEF DrainTypeOK
  <2> QED BY <2>1, <2>2, <2>3
<1>4. waker' = waker /\ inFlight' = inFlight
  BY DEF WorkerStep, StartExecution, Acquire,
     RecoverFirst, Scan, PickJob, ClaimJob, FinishJob, EndCycle, ReconcileLast, AskPending,
     AskLeased, ReleaseLease, Recheck, AskLease, PostHandoff
<1>5. UNCHANGED spent \/ Spend("commits", MaxCommits)
  BY DEF WorkerStep, StartExecution, Acquire,
     RecoverFirst, Scan, PickJob, ClaimJob, FinishJob, EndCycle, ReconcileLast, AskPending,
     AskLeased, ReleaseLease, Recheck, AskLease, PostHandoff
<1>6. spent' \in SpentType /\ FaultsGrow
  BY <1>5, SpendTyped DEF DrainTypeOK, SpentType, FaultsGrow
<1> QED BY <1>1, <1>2, <1>3, <1>4, <1>6 DEF DrainTypeOK, SpentType

LEMMA FaultKeepsTypes ==
    ASSUME DrainTypeOK, NEW w \in Executions, RecoverBeside(w) \/ Fault(w)
    PROVE  DrainTypeOK' /\ FaultsGrow
<1>1. worker[w] \in Worker
  BY DEF DrainTypeOK
<1>2. worker' \in [Executions -> Worker]
  <2>1. CASE Signal(w)
    BY <1>1, <2>1 DEF Signal, Worker, DrainTypeOK
  <2>2. CASE LoseOwnership(w)
    BY <1>1, <2>2 DEF LoseOwnership, Worker, DrainTypeOK
  <2>3. CASE CycleFails(w)
    BY <1>1, <2>3 DEF CycleFails, Worker, DrainTypeOK, Steps
  <2>4. CASE ExecutionCrashes(w)
    BY <2>4, OffTyped DEF ExecutionCrashes, DrainTypeOK
  <2>5. CASE RecoverBeside(w)
    BY <2>5 DEF RecoverBeside, DrainTypeOK
  <2> QED BY <2>1, <2>2, <2>3, <2>4, <2>5 DEF Fault
<1>3. /\ work' \in {work, Requeued} /\ UNCHANGED <<lease, requested, waker, inFlight>>
      /\ UNCHANGED spent \/ Spend("signals", MaxSignals) \/ Spend("faults", MaxFaults)
  BY DEF Fault, Signal, LoseOwnership, CycleFails, ExecutionCrashes, RecoverBeside
<1>4. spent' \in SpentType /\ FaultsGrow
  BY <1>3, SpendTyped DEF DrainTypeOK, SpentType, FaultsGrow
<1> QED BY <1>2, <1>3, <1>4, RequeuedTyped DEF DrainTypeOK, SpentType, lease

LEMMA WakerStepKeepsTypes ==
    ASSUME DrainTypeOK, NEW q \in Wakers, WakerStep(q) \/ Reconcile(q) \/ PostFails(q)
    PROVE  DrainTypeOK' /\ FaultsGrow
<1>1. /\ waker' \in [Wakers -> {"idle", "check", "trigger", "await", "lease", "skip", "post"}]
      /\ inFlight' \in Wakers \union {NoOne}
  <2>1. CASE Settle
    BY <2>1, SettleTyped
  <2>2. CASE CheckQueue(q) \/ Trigger(q) \/ ReadLease(q) \/ Reconcile(q)
    BY <2>2 DEF CheckQueue, Trigger, ReadLease, Reconcile, DrainTypeOK
  <2> QED BY <2>1, <2>2 DEF WakerStep, Skip, Post, PostFails
<1>2. /\ work' \in {work, Requeued} /\ UNCHANGED <<lease, worker>>
      /\ requested' \in {requested, Posted}
      /\ UNCHANGED spent \/ Spend("faults", MaxFaults)
  BY DEF WakerStep, CheckQueue, Trigger, ReadLease, Reconcile, Skip, Post, PostFails
<1>3. spent' \in SpentType /\ FaultsGrow
  BY <1>2, SpendTyped DEF DrainTypeOK, SpentType, FaultsGrow
<1> QED BY <1>1, <1>2, <1>3, RequeuedTyped, PostedIs DEF DrainTypeOK, SpentType, lease

\* What requests, clocks and direct runs change.
OtherStep ==
    \/ \E q \in Requests, j \in Jobs : Commit(q, j)
    \/ \E j \in Jobs : CommitSilently(j) \/ RunDirectly(j) \/ EndDirectly(j) \/ ExpireJob(j)
    \/ ExpireLease

LEMMA OtherStepKeepsTypes ==
    ASSUME DrainTypeOK, OtherStep PROVE DrainTypeOK' /\ FaultsGrow
<1>1. /\ UNCHANGED <<holder, requested, worker, inFlight>> /\ leased' \in BOOLEAN
      /\ UNCHANGED spent \/ Spend("commits", MaxCommits)
  BY DEF OtherStep, Commit, CommitSilently, RunDirectly, EndDirectly, ExpireJob, ExpireLease,
         DrainTypeOK, lease
<1>2. spent' \in SpentType /\ FaultsGrow
  BY <1>1, SpendTyped DEF DrainTypeOK, SpentType, FaultsGrow
<1>3. waker' \in [Wakers -> {"idle", "check", "trigger", "await", "lease", "skip", "post"}]
  BY DEF OtherStep, Commit, CommitSilently, RunDirectly, EndDirectly, ExpireJob, ExpireLease,
         DrainTypeOK
<1>4. work' \in [Jobs -> WorkRecord]
  <2>1. ASSUME NEW j \in Jobs, ExpireJob(j) PROVE work' \in [Jobs -> WorkRecord]
    <3>1. PICK r \in WorkRecord : r = work[j] /\ r.status = "running"
      BY <2>1 DEF ExpireJob, DrainTypeOK
    <3>2. r \in [status : {"running", "expired"}, owner : Executions]
      BY <3>1 DEF WorkRecord
    <3>3. [r EXCEPT !.status = "expired"] \in WorkRecord
      BY <3>2 DEF WorkRecord
    <3> QED BY <2>1, <3>1, <3>3 DEF ExpireJob, DrainTypeOK
  <2> QED BY <2>1, Kinds DEF OtherStep, Commit, CommitSilently, RunDirectly, EndDirectly,
                            ExpireLease, DrainTypeOK
<1> QED BY <1>1, <1>2, <1>3, <1>4 DEF DrainTypeOK, SpentType

LEMMA NextIs ==
    ASSUME [DrainNext]_drainVars
    PROVE  \/ \E w \in Executions : StartExecution(w) \/ WorkerStep(w)
           \/ \E w \in Executions : RecoverBeside(w) \/ Fault(w)
           \/ \E q \in Wakers : WakerStep(q) \/ Reconcile(q) \/ PostFails(q)
           \/ OtherStep
           \/ UNCHANGED drainVars
BY DEF DrainNext, OtherStep

LEMMA TypesKept ==
    ASSUME DrainTypeOK, [DrainNext]_drainVars PROVE DrainTypeOK' /\ FaultsGrow
<1>1. CASE UNCHANGED drainVars
  BY <1>1 DEF drainVars, lease, DrainTypeOK, FaultsGrow
<1> QED BY <1>1, NextIs, WorkerStepKeepsTypes, FaultKeepsTypes, WakerStepKeepsTypes,
           OtherStepKeepsTypes

LEMMA TypedAtFirst == DrainInit => DrainTypeOK
<1>1. /\ 0 \in 0 .. MaxExecutions /\ 0 \in 0 .. MaxCommits /\ 0 \in 0 .. MaxFaults
      /\ 0 \in 0 .. MaxSignals
  BY DrainAssumption
<1>2. ASSUME DrainInit
      PROVE  /\ work \in [Jobs -> WorkRecord] /\ worker \in [Executions -> Worker]
             /\ waker \in [Wakers -> {"idle", "check", "trigger", "await", "lease", "skip", "post"}]
             /\ spent \in [commits : 0..MaxCommits, faults : 0..MaxFaults, signals : 0..MaxSignals]
  BY <1>1, <1>2, OffTyped, Kinds DEF DrainInit
<1> QED BY <1>1, <1>2 DEF DrainInit, DrainTypeOK

(* The variables of the drain keep their types (src/worker.ts and the        *)
(* producers that wake it).                                                  *)
THEOREM DrainTyped == DrainSpec => []DrainTypeOK
<1>1. DrainInit => DrainTypeOK
  BY TypedAtFirst
<1>2. DrainTypeOK /\ [DrainNext]_drainVars => DrainTypeOK'
  BY TypesKept
<1> QED BY <1>1, <1>2, PTL DEF DrainSpec

-----------------------------------------------------------------------------
(* Who is inside owns the lease.                                             *)

LEMMA SignalKeeps ==
    ASSUME DrainTypeOK, NEW w \in Executions, Fault(w), spent'.faults = 0
    PROVE  /\ \A v \in Executions : /\ worker'[v].pc = worker[v].pc
                                    /\ worker'[v].sure = worker[v].sure
                                    /\ worker'[v].normal = worker[v].normal
           /\ UNCHANGED <<work, lease, requested, waker, inFlight>>
<1>1. Signal(w)
  <2>1. ~Spend("faults", MaxFaults)
    BY SpendTyped DEF DrainTypeOK
  <2> QED BY <2>1 DEF Fault, LoseOwnership, CycleFails, ExecutionCrashes
<1>2. worker[w] \in Worker
  BY DEF DrainTypeOK
<1> QED BY <1>1, <1>2 DEF Signal, DrainTypeOK, Worker

LEMMA ShapeKeepsOwners ==
    ASSUME DrainTypeOK, OwnersAreSure, FaultsGrow, NEW w \in Executions, WorkerShape(w)
    PROVE  OwnersAreSure'
<1> SUFFICES ASSUME spent'.faults = 0 PROVE OwnersAreSure'
  BY DEF OwnersAreSure
<1>1. spent.faults = 0
  BY DEF FaultsGrow
<1>2. /\ \A v \in Executions : worker[v].sure <=> worker[v].pc \in Inside
      /\ \A v \in Executions : worker[v].sure => holder = v /\ leased /\ worker[v].normal
      /\ holder # NoOne => leased /\ worker[holder].sure
      /\ holder \in Executions \union {NoOne} /\ NoOne \notin Executions
  BY <1>1, DrainAssumption DEF OwnersAreSure, DrainTypeOK
<1>3. PICK new \in Worker : worker' = [worker EXCEPT ![w] = new]
  BY DEF WorkerShape, Moves
<1>4. worker'[w] = new /\ \A v \in Executions \ {w} : worker'[v] = worker[v]
  BY <1>3 DEF DrainTypeOK
<1>5. /\ "recover" \in Inside /\ "release" \in Inside /\ "off" \notin Inside
      /\ "recheck" \notin Inside /\ \A step \in Outside : step \notin Inside
  BY DEF Inside, Outside, Steps
<1>6. CASE Moves(w, Inside, Inside) /\ UNCHANGED lease
  BY <1>2, <1>4, <1>6 DEF Moves, OwnersAreSure, lease, DrainTypeOK
<1>7. CASE Moves(w, {"recheck", "askLease", "post"}, Outside) /\ UNCHANGED lease
  BY <1>2, <1>4, <1>5, <1>7 DEF Moves, OwnersAreSure, lease, Outside, DrainTypeOK
<1>8. CASE /\ new.pc = "acquire" /\ ~new.sure /\ worker[w].pc = "off" /\ UNCHANGED lease
  BY <1>2, <1>4, <1>5, <1>8 DEF OwnersAreSure, lease, Outside
<1>9. CASE /\ new.pc = "recover" /\ new.sure /\ new.normal /\ worker[w].pc = "acquire"
           /\ holder = NoOne \/ ~leased
           /\ holder' = w /\ leased'
  BY <1>2, <1>4, <1>5, <1>9 DEF OwnersAreSure
<1>10. CASE /\ new.pc = "off" /\ ~new.sure /\ worker[w].pc = "acquire" /\ UNCHANGED lease
  BY <1>2, <1>4, <1>5, <1>10 DEF OwnersAreSure, lease, Outside
<1>11. CASE /\ new.pc = AfterRelease(w) /\ ~new.sure /\ worker[w].pc = "release"
            /\ IF holder = w THEN holder' = NoOne /\ leased' = FALSE ELSE UNCHANGED lease
  BY <1>2, <1>4, <1>5, <1>11 DEF OwnersAreSure, AfterRelease
<1> QED BY <1>3, <1>4, <1>6, <1>7, <1>8, <1>9, <1>10, <1>11 DEF WorkerShape, DrainTypeOK

LEMMA OwnersKept ==
    ASSUME DrainTypeOK, OwnersAreSure, [DrainNext]_drainVars PROVE OwnersAreSure'
<1>1. FaultsGrow
  BY TypesKept
<1>2. ASSUME NEW w \in Executions, StartExecution(w) \/ WorkerStep(w) PROVE OwnersAreSure'
  BY <1>1, <1>2, WorkerShapes, ShapeKeepsOwners
<1>3. CASE UNCHANGED <<worker, lease>>
  BY <1>1, <1>3 DEF OwnersAreSure, FaultsGrow, lease
<1>4. ASSUME NEW w \in Executions, RecoverBeside(w) \/ Fault(w) PROVE OwnersAreSure'
  <2>1. CASE RecoverBeside(w)
    BY <1>3, <2>1 DEF RecoverBeside
  <2>2. CASE Fault(w) /\ spent'.faults = 0
    <3>1. holder \in Executions \union {NoOne}
      BY DEF DrainTypeOK
    <3> QED BY <1>1, <2>2, <3>1, SignalKeeps DEF OwnersAreSure, FaultsGrow, lease
  <2>3. CASE spent'.faults # 0
    BY <2>3 DEF OwnersAreSure
  <2> QED BY <1>4, <2>1, <2>2, <2>3
<1>5. CASE ExpireLease /\ spent'.faults = 0
  BY <1>1, <1>5 DEF ExpireLease, OwnersAreSure, FaultsGrow
<1>6. CASE spent'.faults # 0
  BY <1>6 DEF OwnersAreSure
<1>7. ASSUME NEW q \in Wakers, WakerStep(q) \/ Reconcile(q) \/ PostFails(q) PROVE OwnersAreSure'
  BY <1>3, <1>7 DEF WakerStep, CheckQueue, Trigger, ReadLease, Reconcile, Skip, Post, PostFails
<1>8. CASE OtherStep
  BY <1>3, <1>5, <1>6, <1>8 DEF OtherStep, Commit, CommitSilently, RunDirectly, EndDirectly, ExpireJob
<1> QED BY <1>2, <1>3, <1>4, <1>7, <1>8, NextIs DEF drainVars

-----------------------------------------------------------------------------
(* One producer.                                                             *)

OneProducer == \A q, r \in Wakers : q = r

LEMMA NobodyJoinsKept ==
    ASSUME OneProducer, DrainTypeOK, NobodyJoins, [DrainNext]_drainVars PROVE NobodyJoins'
<1>1. CASE UNCHANGED <<waker, inFlight>>
  BY <1>1 DEF NobodyJoins
<1>2. ASSUME NEW w \in Executions, StartExecution(w) \/ WorkerStep(w) \/ RecoverBeside(w) \/ Fault(w)
      PROVE  NobodyJoins'
  BY <1>1, <1>2 DEF WorkerStep, StartExecution, Acquire,
     RecoverFirst, Scan, PickJob, ClaimJob, FinishJob, EndCycle, ReconcileLast, AskPending,
     AskLeased, ReleaseLease, Recheck, AskLease, PostHandoff, Fault, Signal, LoseOwnership,
     CycleFails, ExecutionCrashes, RecoverBeside
<1>3. ASSUME NEW q \in Wakers, WakerStep(q) \/ Reconcile(q) \/ PostFails(q) PROVE NobodyJoins'
  <2>1. /\ waker \in [Wakers -> {"idle", "check", "trigger", "await", "lease", "skip", "post"}]
        /\ inFlight \in Wakers \union {NoOne} /\ NoOne \notin Wakers
        /\ \A r \in Wakers : r = q
    BY DrainAssumption DEF DrainTypeOK, OneProducer, Wakers
  <2>2. CASE CheckQueue(q) \/ ReadLease(q) \/ Reconcile(q)
    BY <2>1, <2>2 DEF CheckQueue, ReadLease, Reconcile, NobodyJoins
  <2>3. CASE Trigger(q)
    BY <2>1, <2>3 DEF Trigger, NobodyJoins
  <2>4. CASE Settle
    BY <2>1, <2>4 DEF Settle, NobodyJoins
  <2> QED BY <1>3, <2>2, <2>3, <2>4 DEF WakerStep, Skip, Post, PostFails
<1>4. CASE OtherStep
  <2>1. ASSUME NEW q \in Requests, NEW j \in Jobs, Commit(q, j) PROVE NobodyJoins'
    <3>1. q \in Wakers /\ waker[q] = "idle" /\ inFlight' = inFlight
          /\ inFlight \in Wakers \union {NoOne}
      BY <2>1 DEF Commit, Wakers, DrainTypeOK
    <3>2. PICK next \in {"check", "trigger"} : waker' = [waker EXCEPT ![q] = next]
      BY <2>1 DEF Commit
    <3> QED BY <3>1, <3>2 DEF NobodyJoins, DrainTypeOK
  <2> QED BY <1>1, <1>4, <2>1 DEF OtherStep, CommitSilently, RunDirectly, EndDirectly, ExpireJob,
                                  ExpireLease
<1> QED BY <1>1, <1>2, <1>3, <1>4, NextIs DEF drainVars

\* Whoever holds the lease is on the way.
LEMMA HolderIsOnTheWay ==
    ASSUME DrainTypeOK, OwnersAreSure, spent.faults = 0, holder # NoOne
    PROVE  holder \in Executions /\ worker[holder].pc \in Inside
BY DEF DrainTypeOK, OwnersAreSure

LEMMA ExecutionsKeepWork ==
    ASSUME DrainTypeOK, OwnersAreSure, WorkIsSeen, spent.faults = 0, spent'.faults = 0,
           NEW w \in Executions,
           StartExecution(w) \/ WorkerStep(w) \/ RecoverBeside(w) \/ Fault(w)
    PROVE  WorkIsSeen'
<1>1. SUFFICES ASSUME PendingJobs' # {} PROVE OnTheWay'
  BY <1>1 DEF WorkIsSeen
<1>2. "off" \notin Inside /\ "release" \in Inside
  BY DEF Inside, Steps
<1>3. CASE StartExecution(w)
  <2>1. worker'[w].pc = "acquire"
    BY <1>3 DEF StartExecution, DrainTypeOK, Off
  <2> QED BY <2>1 DEF OnTheWay
<1>4. CASE Acquire(w)
  <2>1. CASE worker' = [worker EXCEPT ![w].pc = "recover", ![w].sure = TRUE, ![w].normal = TRUE]
    <3>1. worker'[w].pc = "recover"
      BY <2>1 DEF DrainTypeOK, Worker
    <3> QED BY <3>1 DEF OnTheWay
  <2>2. CASE holder # NoOne /\ worker' = [worker EXCEPT ![w] = Off]
    <3>1. holder \in Executions /\ worker[holder].pc \in Inside
      BY <2>2, HolderIsOnTheWay
    <3>2. worker[w].pc \notin Inside
      BY <1>4 DEF Acquire, Inside, Steps
    <3>3. worker'[holder].pc # "off"
      BY <1>2, <2>2, <3>1, <3>2 DEF DrainTypeOK
    <3> QED BY <3>1, <3>3 DEF OnTheWay
  <2> QED BY <1>4, <2>1, <2>2 DEF Acquire
<1>5. CASE \/ RecoverFirst(w) \/ Scan(w) \/ (\E j \in Jobs : PickJob(w, j)) \/ ClaimJob(w)
           \/ FinishJob(w) \/ EndCycle(w) \/ ReconcileLast(w) \/ AskPending(w) \/ AskLeased(w)
  <2>1. worker'[w].pc \in Inside
    BY <1>5, InsideMoves DEF Moves, DrainTypeOK
  <2> QED BY <1>2, <2>1 DEF OnTheWay
<1>6. CASE ReleaseLease(w)
  <2>1. holder = w /\ worker[w].normal
    BY <1>2, <1>6 DEF ReleaseLease, OwnersAreSure
  <2>2. worker'[w].pc = "recheck"
    BY <1>6, <2>1 DEF ReleaseLease, AfterRelease, DrainTypeOK, Off
  <2> QED BY <2>2 DEF OnTheWay
<1>7. CASE Recheck(w)
  <2>1. PendingJobs' = PendingJobs
    BY <1>7 DEF Recheck, PendingJobs
  <2>2. worker'[w].pc = "askLease"
    BY <1>1, <1>7, <2>1 DEF Recheck, Goto, DrainTypeOK, Worker
  <2> QED BY <2>2 DEF OnTheWay
<1>8. CASE AskLease(w)
  <2>1. CASE holder # NoOne
    <3>1. holder \in Executions /\ worker[holder].pc \in Inside
      BY <2>1, HolderIsOnTheWay
    <3>2. worker[w].pc \notin Inside
      BY <1>8 DEF AskLease, Inside, Steps
    <3>3. worker'[holder].pc # "off"
      BY <1>2, <1>8, <3>1, <3>2 DEF AskLease, Goto, DrainTypeOK
    <3> QED BY <3>1, <3>3 DEF OnTheWay
  <2>2. CASE holder = NoOne
    <3>1. worker'[w].pc = "post"
      BY <1>8, <2>2 DEF AskLease, Goto, DrainTypeOK, Worker
    <3> QED BY <3>1 DEF OnTheWay
  <2> QED BY <2>1, <2>2
<1>9. CASE PostHandoff(w)
  BY <1>9, PostedIs DEF PostHandoff, OnTheWay, DrainTypeOK
<1>10. CASE RecoverBeside(w)
  <2>1. worker'[w].pc # "off"
    BY <1>10 DEF RecoverBeside
  <2> QED BY <2>1 DEF OnTheWay
<1>11. CASE Fault(w)
  <2>1. /\ \A v \in Executions : worker'[v].pc = worker[v].pc
        /\ PendingJobs' = PendingJobs /\ requested' = requested /\ waker' = waker
    BY <1>11, SignalKeeps DEF PendingJobs
  <2>2. OnTheWay
    BY <1>1, <2>1 DEF WorkIsSeen
  <2> QED BY <2>1, <2>2 DEF OnTheWay
<1> QED BY <1>3, <1>4, <1>5, <1>6, <1>7, <1>8, <1>9, <1>10, <1>11 DEF WorkerStep

LEMMA ProducersKeepWork ==
    ASSUME OneProducer, DrainTypeOK, OwnersAreSure, NobodyJoins, NobodyJoins', WorkIsSeen,
           spent.faults = 0, spent'.faults = 0,
           NEW q \in Wakers, WakerStep(q) \/ Reconcile(q) \/ PostFails(q)
    PROVE  WorkIsSeen'
<1>1. SUFFICES ASSUME PendingJobs' # {} PROVE OnTheWay'
  BY <1>1 DEF WorkIsSeen
<1>2. CASE CheckQueue(q)
  <2>1. PendingJobs' = PendingJobs
    BY <1>2 DEF CheckQueue, PendingJobs
  <2>2. waker'[q] = "trigger"
    BY <1>1, <1>2, <2>1 DEF CheckQueue, DrainTypeOK
  <2> QED BY <2>2 DEF OnTheWay
<1>3. CASE Trigger(q)
  <2>1. waker'[q] = "lease"
    BY <1>3 DEF Trigger, DrainTypeOK, NobodyJoins
  <2> QED BY <2>1 DEF OnTheWay
<1>4. CASE ReadLease(q)
  <2>1. CASE holder # NoOne
    <3>1. holder \in Executions /\ worker[holder].pc \in Inside
      BY <2>1, HolderIsOnTheWay
    <3>2. worker'[holder].pc # "off"
      BY <1>4, <3>1 DEF ReadLease, Inside, Steps
    <3> QED BY <3>1, <3>2 DEF OnTheWay
  <2>2. CASE holder = NoOne
    <3>1. waker'[q] = "post"
      BY <1>4, <2>2 DEF ReadLease, DrainTypeOK
    <3> QED BY <3>1 DEF OnTheWay
  <2> QED BY <2>1, <2>2
<1>5. CASE Skip(q)
  <2>1. PendingJobs' = PendingJobs /\ UNCHANGED <<requested, worker>> /\ waker[q] = "skip"
    BY <1>5 DEF Skip, PendingJobs
  <2>2. \A r \in Wakers : waker[r] = "skip"
    BY <2>1 DEF OneProducer
  <2>3. OnTheWay
    BY <1>1, <2>1 DEF WorkIsSeen
  <2> QED BY <2>1, <2>2, <2>3 DEF OnTheWay
<1>6. CASE Post(q)
  BY <1>6, PostedIs DEF Post, OnTheWay, DrainTypeOK
<1>7. CASE Reconcile(q)
  <2>1. waker'[q] = "check"
    BY <1>7 DEF Reconcile, DrainTypeOK
  <2> QED BY <2>1 DEF OnTheWay
<1>8. CASE PostFails(q)
  <2>1. ~Spend("faults", MaxFaults)
    BY SpendTyped DEF DrainTypeOK
  <2> QED BY <1>8, <2>1 DEF PostFails
<1> QED BY <1>2, <1>3, <1>4, <1>5, <1>6, <1>7, <1>8 DEF WakerStep

LEMMA OthersKeepWork ==
    ASSUME ~Silent, DrainTypeOK, WorkIsSeen, spent.faults = 0, OtherStep PROVE WorkIsSeen'
<1>1. ASSUME NEW q \in Requests, NEW j \in Jobs, Commit(q, j) PROVE WorkIsSeen'
  <2>1. PICK next \in {"check", "trigger"} : waker' = [waker EXCEPT ![q] = next]
    BY <1>1 DEF Commit
  <2>2. q \in Wakers /\ waker'[q] = next
    BY <2>1 DEF DrainTypeOK, Wakers
  <2> QED BY <2>2 DEF WorkIsSeen, OnTheWay
<1>2. CASE \E j \in Jobs : CommitSilently(j)
  BY <1>2 DEF CommitSilently
<1>3. CASE (\E j \in Jobs : RunDirectly(j) \/ EndDirectly(j) \/ ExpireJob(j)) \/ ExpireLease
  <2>1. UNCHANGED <<requested, worker, waker>>
    BY <1>3 DEF RunDirectly, EndDirectly, ExpireJob, ExpireLease
  <2>2. PendingJobs' \subseteq PendingJobs
    <3>1. Direct # Pending /\ Absent # Pending
      BY DEF Direct, Absent, Pending
    <3>2. ASSUME NEW j \in Jobs, RunDirectly(j) \/ EndDirectly(j)
          PROVE  PendingJobs' \subseteq PendingJobs
      BY <3>1, <3>2 DEF RunDirectly, EndDirectly, PendingJobs, DrainTypeOK
    <3>3. ASSUME NEW j \in Jobs, ExpireJob(j) PROVE PendingJobs' \subseteq PendingJobs
      <4>1. work[j] \in WorkRecord /\ work[j].status = "running"
        BY <3>3 DEF ExpireJob, DrainTypeOK
      <4>2. work'[j].status = "expired" /\ \A k \in Jobs \ {j} : work'[k] = work[k]
        BY <3>3, <4>1 DEF ExpireJob, DrainTypeOK, WorkRecord
      <4>3. work'[j] # Pending
        BY <4>2 DEF Pending
      <4> QED BY <4>2, <4>3 DEF PendingJobs
    <3>4. CASE ExpireLease
      BY <3>4 DEF ExpireLease, PendingJobs
    <3> QED BY <1>3, <3>2, <3>3, <3>4
  <2> QED BY <2>1, <2>2 DEF WorkIsSeen, OnTheWay
<1> QED BY <1>1, <1>2, <1>3 DEF OtherStep

DrainInv == DrainTypeOK /\ OwnersAreSure /\ NobodyJoins /\ WorkIsSeen

LEMMA DrainInvStarts == DrainInit => DrainInv
<1> SUFFICES ASSUME DrainInit PROVE DrainInv
  OBVIOUS
<1>1. DrainTypeOK
  BY TypedAtFirst
<1>2. OwnersAreSure
  BY OffTyped DEF DrainInit, OwnersAreSure, Inside
<1>3. NobodyJoins
  BY DEF DrainInit, NobodyJoins
<1>4. WorkIsSeen
  <2>1. \A j \in Jobs : work[j] = Absent
    BY DEF DrainInit
  <2> QED BY <2>1 DEF WorkIsSeen, PendingJobs, Absent, Pending
<1> QED BY <1>1, <1>2, <1>3, <1>4 DEF DrainInv

LEMMA WorkIsSeenKept ==
    ASSUME OneProducer, ~Silent, DrainInv, NobodyJoins', FaultsGrow, [DrainNext]_drainVars
    PROVE  WorkIsSeen'
<1>1. CASE spent'.faults # 0
  BY <1>1 DEF WorkIsSeen
<1>2. CASE UNCHANGED drainVars
  BY <1>2 DEF drainVars, DrainInv, WorkIsSeen, OnTheWay, PendingJobs
<1>3. CASE spent'.faults = 0 /\ ~UNCHANGED drainVars
  <2>1. DrainTypeOK /\ OwnersAreSure /\ NobodyJoins /\ WorkIsSeen /\ spent.faults = 0
    BY <1>3 DEF DrainInv, FaultsGrow
  <2>2. ASSUME NEW w \in Executions,
               (StartExecution(w) \/ WorkerStep(w)) \/ (RecoverBeside(w) \/ Fault(w))
        PROVE  WorkIsSeen'
    BY <1>3, <2>1, <2>2, ExecutionsKeepWork
  <2>3. ASSUME NEW q \in Wakers, WakerStep(q) \/ Reconcile(q) \/ PostFails(q)
        PROVE  WorkIsSeen'
    BY <1>3, <2>1, <2>3, ProducersKeepWork
  <2>4. CASE OtherStep
    BY <2>1, <2>4, OthersKeepWork
  <2> QED BY <1>3, <2>2, <2>3, <2>4, NextIs
<1> QED BY <1>1, <1>2, <1>3

(* While nothing fails and one producer asks at a time, queued work is never *)
(* left with nobody on the way to it: neither by a worker that leaves        *)
(* (src/worker.ts) nor by a producer that saw a live lease (worker-job.ts).  *)
THEOREM NoWorkIsLeftBehind ==
    ASSUME OneProducer, ~Silent
    PROVE  DrainSpec => []NothingLeftBehind
<1>1. DrainInit => DrainInv
  BY DrainInvStarts
<1>2. DrainInv /\ [DrainNext]_drainVars => DrainInv'
  <2> SUFFICES ASSUME DrainInv, [DrainNext]_drainVars PROVE DrainInv'
    OBVIOUS
  <2>1. DrainTypeOK' /\ FaultsGrow
    BY TypesKept DEF DrainInv
  <2>2. OwnersAreSure' /\ NobodyJoins'
    BY OwnersKept, NobodyJoinsKept DEF DrainInv
  <2> QED BY <2>1, <2>2, WorkIsSeenKept DEF DrainInv
<1>3. DrainInv => NothingLeftBehind
  BY DEF DrainInv, WorkIsSeen, OnTheWay, NothingLeftBehind, Quiet
<1> QED BY <1>1, <1>2, <1>3, PTL DEF DrainSpec

=============================================================================
