-------------------------------- MODULE Ticker --------------------------------
(***************************************************************************)
(* What main is promised about each market: its book is one the exchange   *)
(* really quoted, and it only ever moves on to a later one.  Quotes may be *)
(* passed over; none is seen twice, late or out of order.                  *)
(***************************************************************************)
EXTENDS Naturals

CONSTANTS
  Markets,
  Times    \* the times a quote can be made at

VARIABLES
  made,    \* the times of the quotes of each market
  seen     \* the time of the quote main has of each market, 0 for none

tickerVars == <<made, seen>>

TickerInit == /\ made = [m \in Markets |-> {}]
              /\ seen = [m \in Markets |-> 0]

Make(m) == /\ \E t \in Times :
                /\ \A u \in made[m] : u < t
                /\ made' = [made EXCEPT ![m] = @ \cup {t}]
           /\ UNCHANGED seen

See(m) == /\ \E t \in made[m] :
               /\ seen[m] < t
               /\ seen' = [seen EXCEPT ![m] = t]
          /\ UNCHANGED made

TickerSpec == TickerInit /\ [][\E m \in Markets : Make(m) \/ See(m)]_tickerVars
=============================================================================
