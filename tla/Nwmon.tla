-------------------------------- MODULE Nwmon --------------------------------
(***************************************************************************)
(* SimpleNwmon (app/utils.py:16-46): the order counts against the          *)
(* exchange's limits, with the clock they depend on.                       *)
(*                                                                         *)
(* Its caller is the walk along a path as execute_loop has it written      *)
(* (execute.py:42-155): can_complete_path once, then the orders, each      *)
(* counted by iterate_order after its call has returned, with the clock    *)
(* free to move between the two; an order whose call raises is not         *)
(* counted, although the exchange may have taken it; and if a leg fails    *)
(* when others were filled, up to two orders sell back what they bought.   *)
(* The module says what the monitor is worth to that caller.  As it is,    *)
(* the loop does not get that far: its finally block ends the process      *)
(* after the first leg (see Executor), and the selling back uses names     *)
(* that are not defined, taken here for what they stand for.               *)
(*                                                                         *)
(* The two clock reads of a call fall in the same second.  The counts of a *)
(* day are kept under its day of the month, and clean() raises             *)
(* NotImplementedError: nothing ever removes a count.                      *)
(***************************************************************************)
EXTENDS OrderLimits

CONSTANTS
  DaysPerMonth,
  MaxSecond,     \* bound on the clock
  MaxLost        \* bound on the answers lost in a day

ASSUME CalendarIsNat == /\ DaysPerMonth \in Nat \ {0}
                        /\ MaxSecond \in Nat
                        /\ MaxLost \in Nat

VARIABLES
  now,          \* int(time.time())
  today,        \* datetime.today().day, counted from 0
  ordersPS,     \* orders_ps: the count of each second
  ordersPD,     \* orders_pd: the count of each day of the month
  caller,       \* "path", "selling" (back) or "ended" by an exception
  left,         \* orders the caller has still to make
  filled,       \* an order of the path was filled
  pending,      \* an order is made and not counted: since "now" (this second),
                \* "today" or "before", or there is "none"
  inSecond,     \* orders made in this second
  inDay,        \* orders made in this day
  lostInSecond, \* those of them whose call raised
  lostInDay,
  midnights,    \* midnights passed since the process started
  refused       \* the last answer was no, and why it should have been

clock == <<now, today, midnights>>
counts == <<ordersPS, ordersPD>>
walk == <<caller, left, filled>>
made == <<inSecond, inDay>>
lost == <<lostInSecond, lostInDay>>
nwmonVars == <<clock, counts, walk, pending, made, lost, refused>>

Seconds == 0 .. MaxSecond
Days == 0 .. DaysPerMonth - 1

NwmonInit == /\ now = 0
             /\ today = 0
             /\ ordersPS = [s \in Seconds |-> 0]
             /\ ordersPD = [d \in Days |-> 0]
             /\ caller = "path"
             /\ left = 0
             /\ filled = FALSE
             /\ pending = "none"
             /\ inSecond = 0
             /\ inDay = 0
             /\ lostInSecond = 0
             /\ lostInDay = 0
             /\ midnights = 0
             /\ refused = "no"

-----------------------------------------------------------------------------
(* The clock.                                                              *)

NewSecond == /\ now < MaxSecond
             /\ now' = now + 1
             /\ inSecond' = 0
             /\ lostInSecond' = 0
             /\ UNCHANGED <<counts, walk, refused>>

Tick == /\ NewSecond
        /\ pending' = IF pending = "now" THEN "today" ELSE pending
        /\ UNCHANGED <<today, midnights, inDay, lostInDay>>

\* The first second of a day; how many seconds a day has is left open.
Midnight == /\ NewSecond
            /\ today' = IF today = DaysPerMonth - 1 THEN 0 ELSE today + 1
            /\ midnights' = midnights + 1
            /\ inDay' = 0
            /\ lostInDay' = 0
            /\ pending' = IF pending = "none" THEN "none" ELSE "before"

-----------------------------------------------------------------------------
(* The question, before a path.                                            *)

\* Slip: a path as long as the limit is let through whatever was made before.
AnswersIgnoringSecond(length) ==
  CanCompletePath(0, ordersPD[today], length)

Answer(length) ==
  CanCompletePath(ordersPS[now], ordersPD[today], length)

BetweenPaths == left = 0 /\ pending = "none" /\ caller # "ended"

Allow(length) == /\ BetweenPaths
                 /\ Answer(length)
                 /\ caller' = "path"
                 /\ left' = length
                 /\ filled' = FALSE
                 /\ refused' = "no"
                 /\ UNCHANGED <<clock, counts, pending, made, lost>>

\* What the orders really made leave room for.
Room(length) == CanCompletePath(inSecond, inDay, length)

Refuse(length) == /\ BetweenPaths
                  /\ ~Answer(length)
                  /\ refused' = IF Room(length + 1) THEN "wrongly" ELSE "rightly"
                  /\ UNCHANGED <<clock, counts, walk, pending, made, lost>>

CanCompletePathCall == \E length \in 1 .. OrdersPS + 1 :
                         Allow(length) \/ Refuse(length)

-----------------------------------------------------------------------------
(* The orders.                                                             *)

\* The exchange has taken it; the call has not returned.
MakeOrder == /\ left > 0
             /\ pending = "none"
             /\ pending' = "now"
             /\ left' = left - 1
             /\ inSecond' = inSecond + 1
             /\ inDay' = inDay + 1
             /\ UNCHANGED <<clock, counts, caller, filled, lost, refused>>

\* Slips: the day is not counted; every order counts for those still to come.
DayNotCounted == ordersPD
DayCountedAhead == [ordersPD EXCEPT ![today] = @ + left + 1]

DayCounted == [ordersPD EXCEPT ![today] = @ + 1]

IterateOrder == /\ pending # "none"
                /\ pending' = "none"
                /\ ordersPS' = [ordersPS EXCEPT ![now] = @ + 1]
                /\ ordersPD' = DayCounted
                /\ UNCHANGED <<clock, made, lost, refused>>

\* A leg is filled, or an order that sells back has returned.
Done == IterateOrder /\ filled' = TRUE /\ UNCHANGED <<caller, left>>

\* Slip: the leg that failed and the next one are both taken off.
TwoLess == left - 2

NoMore == 0

\* One order to bitcoin, if the currency has no market with USDT, and one to
\* USDT.
SellBackOrders == 2

\* What follows a leg that failed: break, or first the selling back.
GiveUp == /\ caller = "path"
          /\ ~filled
          /\ left' = NoMore
          /\ UNCHANGED <<caller, filled>>

SellBack == /\ caller = "path"
            /\ filled
            /\ caller' = "selling"
            /\ left' \in 1 .. SellBackOrders
            /\ UNCHANGED filled

EndProcess == /\ caller' = "ended"
              /\ left' = 0
              /\ UNCHANGED filled

\* "Too slow": the order was not filled.
TooSlow == IterateOrder /\ (GiveUp \/ SellBack)

\* No order was made: a quantity too small, or the API refused it.  What raises
\* while a later leg is priced, or while selling back, is caught by nothing.
NotMade == /\ left > 0
           /\ pending = "none"
           /\ GiveUp \/ SellBack \/ (filled /\ EndProcess)
           /\ UNCHANGED <<clock, counts, pending, made, lost, refused>>

\* The order was made, and its answer is lost.
AnswerLost ==
  /\ pending # "none"
  /\ lostInDay < MaxLost
  /\ pending' = "none"
  /\ lostInSecond' = IF pending = "now" THEN lostInSecond + 1 ELSE lostInSecond
  /\ lostInDay' = IF pending = "before" THEN lostInDay ELSE lostInDay + 1
  /\ GiveUp \/ SellBack \/ (caller = "selling" /\ EndProcess)
  /\ UNCHANGED <<clock, counts, made, refused>>

NwmonNext == \/ Tick \/ Midnight \/ CanCompletePathCall
             \/ MakeOrder \/ Done \/ TooSlow \/ NotMade \/ AnswerLost

NwmonSpec == NwmonInit /\ [][NwmonNext]_nwmonVars

-----------------------------------------------------------------------------
NwmonTypeOK == /\ now \in Seconds
               /\ today \in Days
               /\ ordersPS \in [Seconds -> Nat]
               /\ ordersPD \in [Days -> Nat]
               /\ caller \in {"path", "selling", "ended"}
               /\ left \in Nat
               /\ filled \in BOOLEAN
               /\ pending \in {"none", "now", "today", "before"}
               /\ inSecond \in Nat
               /\ inDay \in Nat
               /\ lostInSecond \in Nat
               /\ lostInDay \in Nat
               /\ midnights \in Nat
               /\ refused \in {"no", "rightly", "wrongly"}

(***************************************************************************)
(* A caller that asks first makes more orders in a second than the         *)
(* exchange allows only by those nobody could count, and by the two that   *)
(* sell back, although the answer is given once per path and the path's    *)
(* orders are made and counted later, in whatever second they happen to.   *)
(***************************************************************************)
SecondLimitKept == inSecond <= OrdersPS + lostInSecond + SellBackOrders

(***************************************************************************)
(* The same of a day, midnight and the end of the month included: sold     *)
(* back is counted, so that the two do not add up over the day's paths.    *)
(***************************************************************************)
DayLimitKept == inDay <= OrdersPD + lostInDay + SellBackOrders

(***************************************************************************)
(* A path is refused although the orders really made leave room for it and *)
(* one order more only once the process has run for a month: then, and not *)
(* before, the count under today's number holds orders of another day.     *)
(* The one order is the one whose answer came after the second or the day  *)
(* had changed, and which is counted in the next.                          *)
(***************************************************************************)
WrongRefusalIsMonthOld == refused = "wrongly" => midnights >= DaysPerMonth
=============================================================================
