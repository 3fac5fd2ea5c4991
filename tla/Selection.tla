------------------------------ MODULE Selection ------------------------------
(***************************************************************************)
(* How main picks an opportunity among the cycles find_cycles returned     *)
(* (main.py:203-278): one pass per search, one step per cycle, with the    *)
(* clock free to move between any two of them.                             *)
(*                                                                         *)
(* The loop's variables are those of Python: max_q and path_profit are     *)
(* reset by every pass, arbitrage and trades only by the next cycle, and   *)
(* after the loop each has the value its last assignment gave it.          *)
(***************************************************************************)
EXTENDS Naturals, Sequences, Functions

CONSTANTS
  Cycle,       \* the cycles, as records: see CycleInputs
  Keys,        \* the sorted markets of a cycle, executed_trades' key
  Throttle,    \* seconds a key is left alone, main.py:230
  MaxCycles,   \* bound on the cycles of a search
  MaxTime,     \* bound on the clock
  NoCycle      \* nothing assigned yet

(***************************************************************************)
(* quantity and profit are what main computes from the rates and the books *)
(* of the pass: dollars, capped at 50, and cents, 0 for a loss.  The       *)
(* multiplier line 267 looks at changes nothing: its branch only logs.     *)
(***************************************************************************)
ASSUME CycleInputs ==
  /\ Cycle \subseteq [key : Keys, quantity : Nat, profit : Nat]
  /\ NoCycle \notin Cycle
  /\ MaxCycles \in Nat /\ MaxTime \in Nat /\ Throttle \in 1 .. MaxTime

VARIABLES
  now,          \* time.time()
  executed,     \* executed_trades: when a key was last priced
  pc,           \* "idle", "loop" or "after" (the loop)
  todo,         \* the cycles of this pass not yet looked at
  arbitrage,    \* the loop variable, and with it trades
  maxQ,         \* max_q
  pathProfit,   \* path_profit
  sent,         \* the last opportunity, NoCycle if there was none
  sentProfit,   \* the profit reported with it
  priced,       \* the cycle max_q and path_profit were computed for
  throttled,    \* the cycles of this pass that were skipped as too recent
  pricedAt,     \* when priced was priced
  lastRun,      \* when the last path of a key that was sent had its figures priced
  onOwn         \* the keys whose last path was sent on figures of the same key

loopVars == <<todo, arbitrage, maxQ, pathProfit>>
sentVars == <<sent, sentProfit>>
passHistory == <<priced, throttled, pricedAt>>
paceHistory == <<lastRun, onOwn>>
history == <<passHistory, paceHistory>>
selectionVars == <<now, executed, pc, loopVars, sentVars, history>>

SelectionInit == /\ now = Throttle
                 /\ executed = [k \in Keys |-> 0]
                 /\ pc = "idle"
                 /\ todo = <<>>
                 /\ arbitrage = NoCycle
                 /\ maxQ = 0
                 /\ pathProfit = 0
                 /\ sent = NoCycle
                 /\ sentProfit = 0
                 /\ priced = NoCycle
                 /\ throttled = {}
                 /\ pricedAt = 0
                 /\ lastRun = [k \in Keys |-> 0]
                 /\ onOwn = {}

Tick == /\ now < MaxTime
        /\ now' = now + 1
        /\ UNCHANGED <<executed, pc, loopVars, sentVars, history>>

\* What find_cycles may return: every cycle ends in another last leg.
Searches == UNION {Injection(1 .. n, Cycle) : n \in 0 .. MaxCycles}

StartPass == /\ pc = "idle"
             /\ pc' = "loop"
             /\ todo' \in Searches
             /\ maxQ' = 0
             /\ pathProfit' = 0
             /\ priced' = NoCycle
             /\ throttled' = {}
             /\ UNCHANGED <<now, executed, arbitrage, sentVars, pricedAt, paceHistory>>

TakeCycle == /\ pc = "loop"
             /\ todo # <<>>
             /\ todo' = Tail(todo)
             /\ arbitrage' = Head(todo)
             /\ UNCHANGED <<now, sentVars, paceHistory>>

TooRecent(c) == now - executed[c.key] < Throttle

SkipThrottled == /\ TakeCycle
                 /\ TooRecent(Head(todo))
                 /\ throttled' = throttled \cup {Head(todo)}
                 /\ UNCHANGED <<executed, pc, maxQ, pathProfit, priced, pricedAt>>

\* Slip: the profits of the pass are added up.
ProfitSoFar(c) == pathProfit + c.profit

Profit(c) == c.profit

Priced(c) == /\ maxQ' = c.quantity
             /\ pathProfit' = Profit(c)
             /\ priced' = c
             /\ pricedAt' = now
             /\ UNCHANGED throttled

\* Slip: main goes on after the cycle it wants.
NeverBreaks(c) == "loop"

\* More than five cents: break.  Less, or exactly five: the next cycle.
AfterPricing(c) == IF c.profit > 5 THEN "after" ELSE "loop"

\* Slips: the key is stamped only when the loop ends with it; the stamp says
\* when the key may be priced again.
StampOnBreak(c) == IF c.profit > 5 THEN now ELSE executed[c.key]
StampExpiry(c) == now + Throttle

Stamp(c) == now

Price == /\ TakeCycle
         /\ ~TooRecent(Head(todo))
         /\ executed' = [executed EXCEPT ![Head(todo).key] = Stamp(Head(todo))]
         /\ Priced(Head(todo))
         /\ pc' = AfterPricing(Head(todo))

LoopEnds == /\ pc = "loop"
            /\ todo = <<>>
            /\ pc' = "after"
            /\ UNCHANGED <<now, executed, loopVars, sentVars, history>>

WorthIt == maxQ > 1 /\ pathProfit > 1

\* The quantity in the first market's base currency may be below its minimum,
\* main.py:262.
NoOpportunity == /\ pc = "after"
                 /\ pc' = "idle"
                 /\ sent' = NoCycle
                 /\ UNCHANGED <<now, executed, loopVars, sentProfit, history>>

\* It is the loop variable that is sent, lines 291 and 330, with the figures
\* of the cycle priced last.
SendOpportunity == /\ pc = "after"
                   /\ WorthIt
                   /\ pc' = "idle"
                   /\ sent' = arbitrage
                   /\ sentProfit' = pathProfit
                   /\ lastRun' = [lastRun EXCEPT ![arbitrage.key] = pricedAt]
                   /\ onOwn' = IF arbitrage.key = priced.key THEN onOwn \cup {arbitrage.key}
                               ELSE onOwn \ {arbitrage.key}
                   /\ UNCHANGED <<now, executed, loopVars, passHistory>>

SelectionNext == \/ Tick \/ StartPass \/ SkipThrottled \/ Price
                 \/ LoopEnds \/ NoOpportunity \/ SendOpportunity

SelectionSpec == SelectionInit /\ [][SelectionNext]_selectionVars

-----------------------------------------------------------------------------
SelectionTypeOK == /\ now \in Throttle .. MaxTime
                   /\ executed \in [Keys -> 0 .. MaxTime]
                   /\ pc \in {"idle", "loop", "after"}
                   /\ todo \in Seq(Cycle)
                   /\ {arbitrage, sent, priced} \subseteq Cycle \cup {NoCycle}
                   /\ maxQ \in Nat
                   /\ pathProfit \in Nat
                   /\ sentProfit \in Nat
                   /\ throttled \subseteq Cycle
                   /\ pricedAt \in 0 .. MaxTime
                   /\ lastRun \in [Keys -> 0 .. MaxTime]
                   /\ onOwn \subseteq Keys

JustSent == pc = "idle" /\ sent # NoCycle

(***************************************************************************)
(* The quantity and the profit of an opportunity were computed together,   *)
(* in the pass that sends it, for one cycle: nothing is sent on what an    *)
(* earlier pass or several cycles left behind.                             *)
(***************************************************************************)
PricedInThisPass == JustSent => /\ priced # NoCycle
                                /\ sentProfit = priced.profit
                                /\ maxQ = priced.quantity

(***************************************************************************)
(* If the path that is sent is not the one that was priced, the pass ended *)
(* without a profit above five cents, and the path is one that the same    *)
(* pass had skipped as too recent.                                         *)
(***************************************************************************)
MismatchIsThrottled == JustSent /\ sent # priced => /\ sentProfit \in 2 .. 5
                                                    /\ sent \in throttled

(***************************************************************************)
(* When paths of the same markets are sent one after the other, their      *)
(* figures were priced Throttle seconds apart or more, in whatever passes  *)
(* and with whatever profit, although the stamp is set before it is known  *)
(* whether anything will be sent.  Only a path that goes out with figures  *)
(* of other markets, throttled itself, can be one of two that are closer.  *)
(***************************************************************************)
OpportunitiesArePaced ==
  [][pc = "after" /\ JustSent' =>
       LET k == sent'.key
       IN  \/ lastRun[k] = 0
           \/ lastRun'[k] - lastRun[k] >= Throttle
           \/ ~(k \in onOwn /\ k \in onOwn')]_selectionVars
=============================================================================
