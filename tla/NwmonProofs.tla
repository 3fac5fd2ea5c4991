----------------------------- MODULE NwmonProofs -----------------------------
(***************************************************************************)
(* How far SimpleNwmon keeps the exchange's limits for a caller that asks  *)
(* first, whatever the limits, the calendar and the timing of the orders   *)
(* and of their answers.                                                   *)
(***************************************************************************)
EXTENDS Nwmon, TLAPS

(***************************************************************************)
(* What makes the limits inductive.  No order is missed by the counts but  *)
(* the one that is pending and those whose answer was lost; no more than   *)
(* one is counted in a second or, in the first month, in a day in which it *)
(* was not made; and the orders still to be made fit in any second and any *)
(* day, so that the clock may move between the answer and any of them.     *)
(***************************************************************************)
PendingIn(period) == IF pending \in period THEN 1 ELSE 0

PendingOne == IF pending = "none" THEN 0 ELSE 1

NoneMissed ==
  /\ inSecond <= ordersPS[now] + lostInSecond + PendingIn({"now"})
  /\ inDay <= ordersPD[today] + lostInDay + PendingIn({"now", "today"})

NoneAhead == /\ \A s \in Seconds : s > now => ordersPS[s] = 0
             /\ ordersPS[now] + PendingOne <= inSecond + 1

FirstMonthExact ==
  midnights < DaysPerMonth => /\ today = midnights
                              /\ ordersPD[today] + PendingOne <= inDay + 1
                              /\ \A d \in Days : d > today => ordersPD[d] = 0

\* What selling back may take beyond the limits.
Beyond == IF caller = "path" THEN 0 ELSE SellBackOrders

OrdersFit == /\ left <= OrdersPS + Beyond
             /\ left <= OrdersPD + Beyond
             /\ inSecond + left <= OrdersPS + lostInSecond + Beyond
             /\ inDay + left <= OrdersPD + lostInDay + Beyond

LimitInv == /\ NwmonTypeOK
            /\ NoneMissed
            /\ NoneAhead
            /\ FirstMonthExact
            /\ OrdersFit
            /\ WrongRefusalIsMonthOld

LEMMA LimitInit == NwmonInit => LimitInv
<1> SUFFICES ASSUME NwmonInit PROVE LimitInv
  OBVIOUS
<1>1. /\ 0 \in Seconds /\ 0 \in Days
      /\ OrdersPS \in Nat /\ OrdersPD \in Nat
  BY LimitsAreNat, CalendarIsNat DEF Seconds, Days
<1>2. /\ now = 0 /\ today = 0 /\ midnights = 0 /\ left = 0 /\ inSecond = 0 /\ inDay = 0
      /\ lostInSecond = 0 /\ lostInDay = 0 /\ ordersPS[0] = 0 /\ ordersPD[0] = 0
      /\ PendingOne = 0 /\ Beyond = 0 /\ \A p : PendingIn(p) \in {0, 1}
  BY <1>1 DEF NwmonInit, PendingOne, PendingIn, Beyond
<1>3. NwmonTypeOK /\ WrongRefusalIsMonthOld
  BY <1>1 DEF NwmonInit, NwmonTypeOK, WrongRefusalIsMonthOld
<1>4. NoneMissed /\ OrdersFit
  BY <1>1, <1>2 DEF NoneMissed, OrdersFit
<1>5. NoneAhead /\ FirstMonthExact
  BY <1>2 DEF NwmonInit, NoneAhead, FirstMonthExact
<1> QED BY <1>3, <1>4, <1>5 DEF LimitInv

LEMMA Numbers ==
  ASSUME NwmonTypeOK
  PROVE  /\ now \in Nat /\ today \in Nat
         /\ ordersPS[now] \in Nat /\ ordersPD[today] \in Nat
         /\ left \in Nat /\ inSecond \in Nat /\ inDay \in Nat /\ midnights \in Nat
         /\ lostInSecond \in Nat /\ lostInDay \in Nat
         /\ Beyond \in {0, 2} /\ PendingOne \in {0, 1}
         /\ \A p : PendingIn(p) \in {0, 1}
         /\ OrdersPS \in Nat /\ OrdersPD \in Nat
         /\ DaysPerMonth \in Nat \ {0} /\ MaxSecond \in Nat
BY LimitsAreNat, CalendarIsNat
   DEF NwmonTypeOK, Seconds, Days, Beyond, SellBackOrders, PendingOne, PendingIn

-----------------------------------------------------------------------------
(* The clock.                                                              *)

\* A new second, and in it no order yet.
LEMMA SecondStep ==
  ASSUME LimitInv, NewSecond, pending' = "none" <=> pending = "none", pending' # "now"
  PROVE  /\ now' \in Seconds
         /\ NoneAhead'
         /\ inSecond' <= ordersPS'[now'] + lostInSecond' + PendingIn({"now"})'
         /\ left' <= OrdersPS + Beyond' /\ left' <= OrdersPD + Beyond'
         /\ inSecond' + left' <= OrdersPS + lostInSecond' + Beyond'
<1>1. /\ now' = now + 1 /\ now < MaxSecond /\ inSecond' = 0 /\ lostInSecond' = 0
      /\ UNCHANGED <<ordersPS, left, caller>>
  BY DEF NewSecond, counts, walk
<1>2. /\ now \in Nat /\ MaxSecond \in Nat /\ now' \in Seconds
      /\ left \in Nat /\ Beyond \in {0, 2} /\ OrdersPS \in Nat /\ OrdersPD \in Nat
  <2>1. now \in Nat /\ MaxSecond \in Nat /\ left \in Nat /\ Beyond \in {0, 2}
        /\ OrdersPS \in Nat /\ OrdersPD \in Nat
    BY Numbers DEF LimitInv
  <2> QED BY <1>1, <2>1 DEF Seconds
<1>3. ordersPS'[now'] = 0 /\ \A s \in Seconds : s > now' => ordersPS'[s] = 0
  BY <1>1, <1>2 DEF LimitInv, NoneAhead, Seconds
<1>4. PendingIn({"now"})' = 0 /\ PendingOne' \in {0, 1} /\ Beyond' = Beyond
  BY <1>1 DEF PendingIn, PendingOne, Beyond
<1>5. NoneAhead'
  <2>1. PendingOne' = 0 \/ PendingOne' = 1
    BY <1>4
  <2>2. ordersPS'[now'] + PendingOne' <= inSecond' + 1
    BY <1>1, <1>3, <2>1
  <2> QED BY <1>3, <2>2 DEF NoneAhead
<1>6. left <= OrdersPS + Beyond /\ left <= OrdersPD + Beyond
  BY DEF LimitInv, OrdersFit
<1> QED BY <1>1, <1>2, <1>3, <1>4, <1>5, <1>6

LEMMA TickStep ==
  ASSUME LimitInv, Tick
  PROVE  LimitInv'
<1>1. /\ UNCHANGED <<today, midnights, inDay, lostInDay, ordersPS, ordersPD, caller, left,
                     filled, refused>>
      /\ pending' = IF pending = "now" THEN "today" ELSE pending
      /\ inSecond' = 0 /\ lostInSecond' = 0
  BY DEF Tick, NewSecond, counts, walk
<1>2. /\ now' \in Seconds /\ NoneAhead'
      /\ inSecond' <= ordersPS'[now'] + lostInSecond' + PendingIn({"now"})'
      /\ left' <= OrdersPS + Beyond' /\ left' <= OrdersPD + Beyond'
      /\ inSecond' + left' <= OrdersPS + lostInSecond' + Beyond'
  <2>1. NewSecond
    BY DEF Tick
  <2> QED BY <1>1, <2>1, SecondStep
<1>3. /\ PendingIn({"now", "today"})' = PendingIn({"now", "today"})
      /\ PendingOne' = PendingOne /\ Beyond' = Beyond
  BY <1>1 DEF PendingIn, PendingOne, Beyond
<1>4. NwmonTypeOK'
  BY <1>1, <1>2 DEF LimitInv, NwmonTypeOK
<1>5. NoneMissed' /\ OrdersFit'
  BY <1>1, <1>2, <1>3 DEF LimitInv, NoneMissed, OrdersFit
<1>6. FirstMonthExact' /\ WrongRefusalIsMonthOld'
  BY <1>1, <1>3 DEF LimitInv, FirstMonthExact, WrongRefusalIsMonthOld
<1> QED BY <1>2, <1>4, <1>5, <1>6 DEF LimitInv

LEMMA MidnightStep ==
  ASSUME LimitInv, Midnight
  PROVE  LimitInv'
<1>1. /\ UNCHANGED <<ordersPS, ordersPD, caller, left, filled, refused>>
      /\ today' = IF today = DaysPerMonth - 1 THEN 0 ELSE today + 1
      /\ midnights' = midnights + 1 /\ inDay' = 0 /\ lostInDay' = 0
      /\ pending' = IF pending = "none" THEN "none" ELSE "before"
      /\ inSecond' = 0 /\ lostInSecond' = 0
  BY DEF Midnight, NewSecond, counts, walk
<1>2. /\ now' \in Seconds /\ NoneAhead'
      /\ inSecond' <= ordersPS'[now'] + lostInSecond' + PendingIn({"now"})'
      /\ left' <= OrdersPS + Beyond' /\ left' <= OrdersPD + Beyond'
      /\ inSecond' + left' <= OrdersPS + lostInSecond' + Beyond'
  <2>1. NewSecond
    BY DEF Midnight
  <2> QED BY <1>1, <2>1, SecondStep
<1>3. /\ today \in Days /\ today \in Nat /\ midnights \in Nat /\ left \in Nat
      /\ DaysPerMonth \in Nat \ {0} /\ OrdersPD \in Nat /\ Beyond \in {0, 2}
      /\ ordersPD \in [Days -> Nat]
  <2>1. NwmonTypeOK
    BY DEF LimitInv
  <2>2. today \in Days /\ ordersPD \in [Days -> Nat]
    BY <2>1 DEF NwmonTypeOK
  <2> QED BY <2>1, <2>2, Numbers
<1>4. today' \in Days
  BY <1>1, <1>3 DEF Days
<1>5. ordersPD'[today'] \in Nat
  BY <1>1, <1>3, <1>4
<1>6. PendingIn({"now", "today"})' = 0 /\ PendingOne' \in {0, 1} /\ Beyond' = Beyond
  BY <1>1 DEF PendingIn, PendingOne, Beyond
<1>7. NwmonTypeOK'
  BY <1>1, <1>2, <1>3, <1>4 DEF LimitInv, NwmonTypeOK
<1>8. NoneMissed' /\ OrdersFit'
  BY <1>1, <1>2, <1>3, <1>5, <1>6 DEF NoneMissed, OrdersFit
<1>9. WrongRefusalIsMonthOld'
  BY <1>1, <1>3 DEF LimitInv, WrongRefusalIsMonthOld
<1>10. FirstMonthExact'
  <2> SUFFICES ASSUME midnights' < DaysPerMonth
               PROVE  /\ today' = midnights'
                      /\ ordersPD[today'] = 0
                      /\ \A d \in Days : d > today' => ordersPD[d] = 0
    BY <1>1, <1>6 DEF FirstMonthExact
  <2>1. midnights < DaysPerMonth
    BY <1>1, <1>3
  <2>2. /\ today = midnights
        /\ \A d \in Days : d > today => ordersPD[d] = 0
    BY <2>1 DEF LimitInv, FirstMonthExact
  <2>3. today' = today + 1
    BY <1>1, <1>3, <2>2
  <2>4. \A d \in Days : d > today' => d > today
    BY <1>3, <2>3 DEF Days
  <2>5. today' > today
    BY <1>3, <2>3
  <2> QED BY <1>1, <1>4, <2>2, <2>3, <2>4, <2>5
<1> QED BY <1>2, <1>7, <1>8, <1>9, <1>10 DEF LimitInv

-----------------------------------------------------------------------------
(* The question.                                                           *)

LEMMA QuestionStep ==
  ASSUME LimitInv, CanCompletePathCall
  PROVE  LimitInv'
<1>1. PICK length \in 1 .. OrdersPS + 1 : Allow(length) \/ Refuse(length)
  BY DEF CanCompletePathCall
<1>2. /\ length \in Nat /\ OrdersPS \in Nat /\ OrdersPD \in Nat
      /\ ordersPS[now] \in Nat /\ ordersPD[today] \in Nat
      /\ inSecond \in Nat /\ inDay \in Nat /\ lostInSecond \in Nat /\ lostInDay \in Nat
  <2>1. OrdersPS \in Nat
    BY LimitsAreNat
  <2> QED BY <2>1, Numbers DEF LimitInv
<1>3. /\ UNCHANGED <<now, today, midnights, ordersPS, ordersPD, pending, inSecond, inDay,
                     lostInSecond, lostInDay>>
      /\ pending = "none"
  BY <1>1 DEF Allow, Refuse, BetweenPaths, clock, counts, made, lost
<1>4. /\ \A p : PendingIn(p)' = PendingIn(p)
      /\ PendingOne' = PendingOne
  BY <1>3 DEF PendingIn, PendingOne
<1>5. NoneMissed' /\ NoneAhead' /\ FirstMonthExact'
  BY <1>3, <1>4 DEF LimitInv, NoneMissed, NoneAhead, FirstMonthExact
<1>6. PendingIn({"now"}) = 0 /\ PendingIn({"now", "today"}) = 0 /\ PendingOne = 0
  BY <1>3 DEF PendingIn, PendingOne
<1>7. CASE Allow(length)
  <2>1. /\ left' = length /\ caller' = "path" /\ filled' = FALSE /\ refused' = "no"
        /\ ordersPS[now] + length <= OrdersPS /\ ordersPD[today] + length <= OrdersPD
    BY <1>7 DEF Allow, Answer, CanCompletePath
  <2>2. /\ inSecond <= ordersPS[now] + lostInSecond
        /\ inDay <= ordersPD[today] + lostInDay
    BY <1>2, <1>6 DEF LimitInv, NoneMissed
  <2>3. Beyond' = 0
    BY <2>1 DEF Beyond
  <2>4. OrdersFit'
    BY <1>2, <1>3, <2>1, <2>2, <2>3 DEF OrdersFit
  <2>5. NwmonTypeOK' /\ WrongRefusalIsMonthOld'
    BY <1>2, <1>3, <2>1 DEF LimitInv, NwmonTypeOK, WrongRefusalIsMonthOld
  <2> QED BY <1>5, <2>4, <2>5 DEF LimitInv
<1>8. CASE Refuse(length)
  <2>1. /\ UNCHANGED <<caller, left, filled>> /\ ~Answer(length)
        /\ refused' = IF Room(length + 1) THEN "wrongly" ELSE "rightly"
    BY <1>8 DEF Refuse, walk
  <2>2. midnights < DaysPerMonth => ~Room(length + 1)
    <3> SUFFICES ASSUME midnights < DaysPerMonth, Room(length + 1)
                 PROVE  Answer(length)
      BY <2>1
    <3>1. ordersPS[now] <= inSecond + 1 /\ ordersPD[today] <= inDay + 1
      BY <1>2, <1>6 DEF LimitInv, NoneAhead, FirstMonthExact
    <3>2. inSecond + (length + 1) <= OrdersPS /\ inDay + (length + 1) <= OrdersPD
      BY DEF Room, CanCompletePath
    <3>3. ordersPS[now] + length <= OrdersPS /\ ordersPD[today] + length <= OrdersPD
      BY <1>2, <3>1, <3>2
    <3> QED BY <3>3 DEF Answer, CanCompletePath
  <2>3. WrongRefusalIsMonthOld'
    <3>1. midnights \in Nat /\ DaysPerMonth \in Nat
      BY CalendarIsNat DEF LimitInv, NwmonTypeOK
    <3> QED BY <1>3, <2>1, <2>2, <3>1 DEF WrongRefusalIsMonthOld
  <2>4. Beyond' = Beyond
    BY <2>1 DEF Beyond
  <2>5. NwmonTypeOK' /\ OrdersFit'
    BY <1>3, <2>1, <2>4 DEF LimitInv, NwmonTypeOK, OrdersFit
  <2> QED BY <1>5, <2>3, <2>5 DEF LimitInv
<1> QED BY <1>1, <1>7, <1>8

-----------------------------------------------------------------------------
(* The orders.                                                             *)

LEMMA MakeOrderStep ==
  ASSUME LimitInv, MakeOrder
  PROVE  LimitInv'
<1>1. /\ left > 0 /\ pending = "none" /\ pending' = "now" /\ left' = left - 1
      /\ inSecond' = inSecond + 1 /\ inDay' = inDay + 1
      /\ UNCHANGED <<now, today, midnights, ordersPS, ordersPD, caller, filled,
                     lostInSecond, lostInDay, refused>>
  BY DEF MakeOrder, clock, counts, lost
<1>2. /\ PendingIn({"now"}) = 0 /\ PendingIn({"now", "today"}) = 0 /\ PendingOne = 0
      /\ PendingIn({"now"})' = 1 /\ PendingIn({"now", "today"})' = 1 /\ PendingOne' = 1
      /\ Beyond' = Beyond
  BY <1>1 DEF PendingIn, PendingOne, Beyond
<1>3. /\ left \in Nat /\ inSecond \in Nat /\ inDay \in Nat
      /\ lostInSecond \in Nat /\ lostInDay \in Nat
      /\ ordersPS[now] \in Nat /\ ordersPD[today] \in Nat
      /\ OrdersPS \in Nat /\ OrdersPD \in Nat /\ Beyond \in {0, 2}
  BY Numbers DEF LimitInv
<1>4. NwmonTypeOK'
  BY <1>1, <1>3 DEF LimitInv, NwmonTypeOK
<1>5. NoneMissed' /\ OrdersFit'
  BY <1>1, <1>2, <1>3 DEF LimitInv, NoneMissed, OrdersFit
<1>6. NoneAhead' /\ FirstMonthExact' /\ WrongRefusalIsMonthOld'
  BY <1>1, <1>2, <1>3 DEF LimitInv, NoneAhead, FirstMonthExact, WrongRefusalIsMonthOld
<1> QED BY <1>4, <1>5, <1>6 DEF LimitInv

LEMMA FitsStill ==
  ASSUME NEW limit \in Nat, NEW done \in Nat,
         NEW l \in Nat, NEW beyond \in Nat, NEW gone \in Nat,
         NEW l2 \in Nat, NEW beyond2 \in Nat, NEW gone2 \in Nat,
         gone <= gone2, l2 + beyond <= l + beyond2,
         l <= limit + beyond, done + l <= limit + gone + beyond
  PROVE  l2 <= limit + beyond2 /\ done + l2 <= limit + gone2 + beyond2
OBVIOUS

\* The caller goes on, gives up, sells back or ends.
LEMMA WalkOn ==
  ASSUME LimitInv, inSecond' = inSecond, inDay' = inDay,
         (caller' = caller /\ left' = left) \/ GiveUp \/ SellBack \/ EndProcess,
         lostInSecond' \in Nat, lostInSecond <= lostInSecond',
         lostInDay' \in Nat, lostInDay <= lostInDay'
  PROVE  /\ left' \in Nat
         /\ caller' \in {"path", "selling", "ended"}
         /\ OrdersFit'
<1>1. /\ left \in Nat /\ inSecond \in Nat /\ inDay \in Nat
      /\ lostInSecond \in Nat /\ lostInDay \in Nat
      /\ OrdersPS \in Nat /\ OrdersPD \in Nat /\ Beyond \in {0, 2}
  BY Numbers DEF LimitInv
<1>2. /\ left <= OrdersPS + Beyond /\ left <= OrdersPD + Beyond
      /\ inSecond + left <= OrdersPS + lostInSecond + Beyond
      /\ inDay + left <= OrdersPD + lostInDay + Beyond
  BY DEF LimitInv, OrdersFit
<1>3. /\ lostInSecond' \in Nat /\ lostInDay' \in Nat
      /\ lostInSecond <= lostInSecond' /\ lostInDay <= lostInDay'
  OBVIOUS
<1>4. inSecond' = inSecond /\ inDay' = inDay
  OBVIOUS
<1>5. caller \in {"path", "selling", "ended"}
  BY DEF LimitInv, NwmonTypeOK
<1>6. /\ left' \in Nat /\ Beyond' \in Nat
      /\ left' + Beyond <= left + Beyond'
      /\ caller' \in {"path", "selling", "ended"}
  <2>1. CASE caller' = caller /\ left' = left
    <3>1. Beyond' = Beyond
      BY <2>1 DEF Beyond
    <3> QED BY <1>1, <1>5, <2>1, <3>1
  <2>2. CASE GiveUp
    <3>1. left' = 0 /\ caller' = caller
      BY <2>2 DEF GiveUp, NoMore
    <3>2. Beyond' = Beyond
      BY <3>1 DEF Beyond
    <3> QED BY <1>1, <1>5, <3>1, <3>2
  <2>3. CASE SellBack
    <3>1. left' \in 1 .. 2 /\ caller = "path" /\ caller' = "selling"
      BY <2>3 DEF SellBack, SellBackOrders
    <3>2. Beyond = 0 /\ Beyond' = 2
      BY <3>1 DEF Beyond, SellBackOrders
    <3>3. left' \in Nat /\ left' <= 2
      BY <3>1
    <3>4. \A a, b \in Nat : b <= 2 => b + 0 <= a + 2
      OBVIOUS
    <3>5. left' + Beyond <= left + Beyond'
      BY <1>1, <3>2, <3>3, <3>4
    <3> QED BY <3>1, <3>2, <3>3, <3>5
  <2>4. CASE EndProcess
    <3>1. left' = 0 /\ caller' = "ended"
      BY <2>4 DEF EndProcess
    <3>2. Beyond' = 2
      BY <3>1 DEF Beyond, SellBackOrders
    <3> QED BY <1>1, <3>1, <3>2
  <2> QED BY <2>1, <2>2, <2>3, <2>4
<1>7. Beyond \in Nat
  BY <1>1
<1>8. /\ left' <= OrdersPS + Beyond'
      /\ inSecond + left' <= OrdersPS + lostInSecond' + Beyond'
  BY <1>1, <1>2, <1>3, <1>6, <1>7, FitsStill
<1>9. /\ left' <= OrdersPD + Beyond'
      /\ inDay + left' <= OrdersPD + lostInDay' + Beyond'
  BY <1>1, <1>2, <1>3, <1>6, <1>7, FitsStill
<1> QED BY <1>4, <1>6, <1>8, <1>9 DEF OrdersFit

LEMMA CountedStep ==
  ASSUME LimitInv, Done \/ TooSlow
  PROVE  LimitInv'
<1>1. /\ pending # "none" /\ pending' = "none"
      /\ ordersPS' = [ordersPS EXCEPT ![now] = @ + 1]
      /\ ordersPD' = [ordersPD EXCEPT ![today] = @ + 1]
      /\ UNCHANGED <<now, today, midnights, inSecond, inDay, lostInSecond, lostInDay, refused>>
  BY DEF Done, TooSlow, IterateOrder, DayCounted, clock, made, lost
<1>2. UNCHANGED <<caller, left>> \/ GiveUp \/ SellBack
  BY DEF Done, TooSlow
<1>3. filled' \in BOOLEAN
  BY DEF Done, TooSlow, GiveUp, SellBack, LimitInv, NwmonTypeOK
<1>4. /\ ordersPS \in [Seconds -> Nat] /\ ordersPD \in [Days -> Nat]
      /\ now \in Seconds /\ today \in Days /\ Seconds \subseteq Nat /\ Days \subseteq Nat
  BY DEF LimitInv, NwmonTypeOK, Seconds, Days
<1>5. /\ inSecond \in Nat /\ inDay \in Nat /\ lostInSecond \in Nat /\ lostInDay \in Nat
      /\ ordersPS[now] \in Nat /\ ordersPD[today] \in Nat
      /\ \A p : PendingIn(p) \in {0, 1}
  BY Numbers DEF LimitInv
<1>6. /\ ordersPS' \in [Seconds -> Nat] /\ ordersPD' \in [Days -> Nat]
      /\ ordersPS'[now] = ordersPS[now] + 1 /\ ordersPD'[today] = ordersPD[today] + 1
      /\ \A s \in Seconds : s > now => ordersPS'[s] = ordersPS[s]
      /\ \A d \in Days : d > today => ordersPD'[d] = ordersPD[d]
  BY <1>1, <1>4
<1>7. /\ PendingIn({"now"})' = 0 /\ PendingIn({"now", "today"})' = 0
      /\ PendingOne = 1 /\ PendingOne' = 0
  BY <1>1 DEF PendingIn, PendingOne
<1>8. left' \in Nat /\ caller' \in {"path", "selling", "ended"} /\ OrdersFit'
  BY <1>1, <1>2, <1>5, WalkOn
<1>9. NwmonTypeOK'
  BY <1>1, <1>3, <1>6, <1>8 DEF LimitInv, NwmonTypeOK
<1>10. NoneMissed'
  <2>1. /\ inSecond <= ordersPS[now] + lostInSecond + PendingIn({"now"})
        /\ inDay <= ordersPD[today] + lostInDay + PendingIn({"now", "today"})
    BY DEF LimitInv, NoneMissed
  <2>2. PendingIn({"now"}) \in {0, 1} /\ PendingIn({"now", "today"}) \in {0, 1}
    BY <1>5
  <2>3. /\ inSecond <= ordersPS[now] + 1 + lostInSecond + 0
        /\ inDay <= ordersPD[today] + 1 + lostInDay + 0
    BY <1>5, <2>1, <2>2
  <2> QED BY <1>1, <1>6, <1>7, <2>3 DEF NoneMissed
<1>11. NoneAhead' /\ FirstMonthExact' /\ WrongRefusalIsMonthOld'
  BY <1>1, <1>5, <1>6, <1>7 DEF LimitInv, NoneAhead, FirstMonthExact, WrongRefusalIsMonthOld
<1> QED BY <1>8, <1>9, <1>10, <1>11 DEF LimitInv

LEMMA NotMadeStep ==
  ASSUME LimitInv, NotMade
  PROVE  LimitInv'
<1>1. UNCHANGED <<now, today, midnights, ordersPS, ordersPD, pending, inSecond, inDay,
                  lostInSecond, lostInDay, refused>>
  BY DEF NotMade, clock, counts, made, lost
<1>2. GiveUp \/ SellBack \/ EndProcess
  BY DEF NotMade
<1>3. filled' \in BOOLEAN
  BY <1>2 DEF GiveUp, SellBack, EndProcess, LimitInv, NwmonTypeOK
<1>4. left' \in Nat /\ caller' \in {"path", "selling", "ended"} /\ OrdersFit'
  BY <1>1, <1>2, WalkOn, Numbers DEF LimitInv
<1>5. (\A p : PendingIn(p)' = PendingIn(p)) /\ PendingOne' = PendingOne
  BY <1>1 DEF PendingIn, PendingOne
<1> QED BY <1>1, <1>3, <1>4, <1>5
        DEF LimitInv, NwmonTypeOK, NoneMissed, NoneAhead, FirstMonthExact,
            WrongRefusalIsMonthOld

LEMMA AnswerLostStep ==
  ASSUME LimitInv, AnswerLost
  PROVE  LimitInv'
<1>1. /\ pending # "none" /\ pending' = "none"
      /\ lostInSecond' = IF pending = "now" THEN lostInSecond + 1 ELSE lostInSecond
      /\ lostInDay' = IF pending = "before" THEN lostInDay ELSE lostInDay + 1
      /\ UNCHANGED <<now, today, midnights, ordersPS, ordersPD, inSecond, inDay, refused>>
  BY DEF AnswerLost, clock, counts, made
<1>2. GiveUp \/ SellBack \/ EndProcess
  BY DEF AnswerLost
<1>3. filled' \in BOOLEAN /\ pending \in {"none", "now", "today", "before"}
  BY <1>2 DEF GiveUp, SellBack, EndProcess, LimitInv, NwmonTypeOK
<1>4. left' \in Nat /\ caller' \in {"path", "selling", "ended"} /\ OrdersFit'
  <2>1. lostInSecond \in Nat /\ lostInDay \in Nat
    BY Numbers DEF LimitInv
  <2>2. /\ lostInSecond' \in Nat /\ lostInSecond <= lostInSecond'
        /\ lostInDay' \in Nat /\ lostInDay <= lostInDay'
    BY <1>1, <2>1
  <2> QED BY <1>1, <1>2, <2>2, WalkOn
<1>5. /\ inSecond \in Nat /\ inDay \in Nat /\ lostInSecond \in Nat /\ lostInDay \in Nat
      /\ ordersPS[now] \in Nat /\ ordersPD[today] \in Nat
  BY Numbers DEF LimitInv
<1>6. /\ lostInSecond' = lostInSecond + PendingIn({"now"})
      /\ lostInDay' = lostInDay + PendingIn({"now", "today"})
      /\ PendingIn({"now"}) \in {0, 1} /\ PendingIn({"now", "today"}) \in {0, 1}
      /\ PendingIn({"now"})' = 0 /\ PendingIn({"now", "today"})' = 0
      /\ PendingOne = 1 /\ PendingOne' = 0
  BY <1>1, <1>3, <1>5 DEF PendingIn, PendingOne
<1>7. NwmonTypeOK'
  BY <1>1, <1>3, <1>4, <1>5 DEF LimitInv, NwmonTypeOK
<1>8. NoneMissed'
  BY <1>1, <1>5, <1>6 DEF LimitInv, NoneMissed
<1>9. NoneAhead' /\ FirstMonthExact' /\ WrongRefusalIsMonthOld'
  BY <1>1, <1>5, <1>6 DEF LimitInv, NoneAhead, FirstMonthExact, WrongRefusalIsMonthOld
<1> QED BY <1>4, <1>7, <1>8, <1>9 DEF LimitInv

LEMMA LimitStep == LimitInv /\ [NwmonNext]_nwmonVars => LimitInv'
<1> SUFFICES ASSUME LimitInv, [NwmonNext]_nwmonVars PROVE LimitInv'
  OBVIOUS
<1>1. CASE UNCHANGED nwmonVars
  <2>1. /\ UNCHANGED <<now, today, midnights, ordersPS, ordersPD, caller, left, filled>>
        /\ UNCHANGED <<pending, inSecond, inDay, lostInSecond, lostInDay, refused>>
    BY <1>1 DEF nwmonVars, clock, counts, walk, made, lost
  <2>2. /\ \A p : PendingIn(p)' = PendingIn(p)
        /\ PendingOne' = PendingOne /\ Beyond' = Beyond
    BY <2>1 DEF PendingIn, PendingOne, Beyond
  <2> QED BY <2>1, <2>2 DEF LimitInv, NwmonTypeOK, NoneMissed, NoneAhead, FirstMonthExact,
          OrdersFit, WrongRefusalIsMonthOld
<1> QED BY <1>1, TickStep, MidnightStep, QuestionStep, MakeOrderStep, CountedStep,
        NotMadeStep, AnswerLostStep DEF NwmonNext

-----------------------------------------------------------------------------
\* Counts, day and month stay what they are read as.
THEOREM NwmonTypes == NwmonSpec => []NwmonTypeOK
<1>1. LimitInv => NwmonTypeOK
  BY DEF LimitInv
<1> QED BY <1>1, LimitInit, LimitStep, PTL DEF NwmonSpec

\* What a second holds beyond the limit is what could not be counted, and at
\* most two orders that sell back.
THEOREM SecondsKept == NwmonSpec => []SecondLimitKept
<1>1. LimitInv => SecondLimitKept
  <2> SUFFICES ASSUME LimitInv PROVE SecondLimitKept
    OBVIOUS
  <2>1. inSecond + left <= OrdersPS + lostInSecond + Beyond
    BY DEF LimitInv, OrdersFit
  <2> QED BY <2>1, Numbers DEF LimitInv, SecondLimitKept, SellBackOrders
<1> QED BY <1>1, LimitInit, LimitStep, PTL DEF NwmonSpec

\* The same of a day, at the end of the month too.
THEOREM DaysKept == NwmonSpec => []DayLimitKept
<1>1. LimitInv => DayLimitKept
  <2> SUFFICES ASSUME LimitInv PROVE DayLimitKept
    OBVIOUS
  <2>1. inDay + left <= OrdersPD + lostInDay + Beyond
    BY DEF LimitInv, OrdersFit
  <2> QED BY <2>1, Numbers DEF LimitInv, DayLimitKept, SellBackOrders
<1> QED BY <1>1, LimitInit, LimitStep, PTL DEF NwmonSpec

(***************************************************************************)
(* In its first month the process refuses no path that fits with an order  *)
(* to spare: the counts are wrong only by the one order whose answer came  *)
(* late, until there is something clean() would have removed.              *)
(***************************************************************************)
THEOREM FirstMonthFair == NwmonSpec => []WrongRefusalIsMonthOld
<1>1. LimitInv => WrongRefusalIsMonthOld
  BY DEF LimitInv
<1> QED BY <1>1, LimitInit, LimitStep, PTL DEF NwmonSpec
=============================================================================
