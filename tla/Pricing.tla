------------------------------- MODULE Pricing -------------------------------
(***************************************************************************)
(* From the books to the quantity of a job: add_to_graph enters the best   *)
(* ask of a market under the currencies its name is split into             *)
(* (main.py:179-188), a path that was found is turned into orders          *)
(* (main.py:212-221), the quantity every leg's book allows is looked up    *)
(* (main.py:233-240, app/utils.py:123-155), and the first order's quantity *)
(* is rounded to the market's step once before it is known whether the     *)
(* path is sent and once more when it is (main.py:256-264, 335).           *)
(*                                                                         *)
(* Prices, quantities and the fee are logarithms, so that products are     *)
(* sums.  The rounding to cents is left out, the rounding to steps is a    *)
(* matter of its own: there, a quantity is a number of steps, and whether  *)
(* it is exactly that.                                                     *)
(***************************************************************************)
EXTENDS MarketNames, Integers, FiniteSetsExt

CONSTANTS
  Source,       \* "USDT"
  Bitcoin,      \* "BTC"
  Cycles,       \* the paths find_cycles may return
  Prices,       \* the best prices of each market
  Offers,       \* the quantities at the best price
  Fee,          \* TRANSACTION_COST, as a positive logarithm
  Balance,      \* the 50 of main.py:235
  MaxSteps,     \* bound on a quantity, in steps of its market
  MinSteps,     \* LOT_SIZE.minQty of each market, in steps
  Unset         \* no price, rate, path or quantity yet

VARIABLES
  stage,      \* "update", "priced", "rounded", "sent" or "raised"
  book,       \* best price and its quantity, by market
  rates,      \* rates[from, to]
  path,       \* the path main has decided on
  legs,       \* its markets and directions
  maxQ,       \* what can be put through it
  asked,      \* that as a quantity of the first order
  quantity    \* and rounded

pathVars == <<path, legs, maxQ>>
pricingVars == <<stage, book, rates, pathVars, asked, quantity>>

Currencies == UNION {{market.base, market.quote} : market \in Listed}

Against(c, d) == \E market \in Listed : {c, d} = {market.base, market.quote}

(***************************************************************************)
(* A path is a cycle through the source.  Whatever is the base of a market *)
(* has one against the source or against bitcoin, or give_source_value     *)
(* raises KeyError: so it is with the markets of the configuration.        *)
(***************************************************************************)
ASSUME PricingInputs ==
  /\ Cycles \subseteq {p \in Seq(Currencies) : Len(p) > 1}
  /\ \A p \in Cycles : p[1] = Source /\ p[Len(p)] = Source
  /\ Prices \in [Listed -> SUBSET Int]
  /\ Offers \subseteq Int /\ Fee \in Nat /\ Balance \in Int
  /\ MaxSteps \in Nat /\ MinSteps \in [Listed -> Nat \ {0}]
  /\ Unset \notin Int /\ Unset \notin [price : Int, quantity : Int]
  /\ Unset \notin Cycles
  /\ Against(Bitcoin, Source)
  /\ \A market \in Listed : Against(market.base, Source) \/ Against(market.base, Bitcoin)

Asked == [steps : 0 .. MaxSteps, exact : BOOLEAN]
Multiples == [steps : Nat \ {0}, exact : {TRUE}]

PricingInit == /\ stage = "update"
               /\ book = [market \in Listed |-> Unset]
               /\ rates = [c \in Currencies \X Currencies |-> Unset]
               /\ path = Unset /\ legs = Unset /\ maxQ = Unset
               /\ asked = Unset /\ quantity = Unset

\* Slip: the way back keeps its first rate.
BackOnce(rate, split) ==
  IF rates[split.quote, split.base] = Unset THEN -rate ELSE rates[split.quote, split.base]

Back(rate, split) == -rate

\* add_to_graph, for the market of that name.
AddToGraph(market, price) ==
  LET split == GiveBaseQuote(market)
      rate == price - Fee
  IN  rates' = [rates EXCEPT ![<<split.base, split.quote>>] = rate,
                             ![<<split.quote, split.base>>] = Back(rate, split)]

Update(market) ==
  /\ stage = "update"
  /\ \E price \in Prices[market], offer \in Offers :
       /\ book' = [book EXCEPT ![market] = [price |-> price, quantity |-> offer]]
       /\ AddToGraph(Name(market), price)
  /\ UNCHANGED <<stage, pathVars, asked, quantity>>

-----------------------------------------------------------------------------
Leg(p, i) == GivePairMarketDirection(p[i], p[i + 1])

GiveSourceValue(currency, amount) ==
  IF rates[currency, Source] # Unset THEN amount + rates[currency, Source]
  ELSE amount + rates[currency, Bitcoin] + rates[Bitcoin, Source]

Called(name) == CHOOSE market \in Listed : Name(market) = name
BookOf(name) == book[Called(name)]
LeastSteps == MinSteps[Called(legs[1].market)]

GiveMaxQuantityThroughPath(trades) ==
  Min({Balance} \cup
      {GiveSourceValue(GiveBaseQuote(t.market).base, BookOf(t.market).quantity) : t \in trades})

\* find_cycles has returned p: every leg has a rate, app/paths.py:75-80.
PricePath(p) ==
  /\ stage = "update"
  /\ \A market \in Listed : book[market] # Unset
  /\ \A i \in 1 .. Len(p) - 1 : rates[p[i], p[i + 1]] # Unset
  /\ path' = p
  /\ legs' = [i \in 1 .. Len(p) - 1 |-> Leg(p, i)]
  /\ maxQ' = GiveMaxQuantityThroughPath({Leg(p, i) : i \in 1 .. Len(p) - 1})
  /\ stage' = "priced"
  /\ UNCHANGED <<book, rates, asked, quantity>>

-----------------------------------------------------------------------------
\* Slip: the least quantity is no longer traded.
AboveMinimum(q) == q.steps > LeastSteps \/ (q.steps = LeastSteps /\ ~q.exact)

Tradeable(q) == q.steps >= LeastSteps

\* Slip: rounded, not floored.
Nearest(q) == IF q.exact THEN {q.steps} ELSE {q.steps, q.steps + 1}

\* The number of steps a quotient is floored to.  Both are floats: a quotient
\* that should be a whole number may come out just below it, if it is not 1.
Floor(q) == IF q.exact /\ q.steps > 1 THEN {q.steps - 1, q.steps} ELSE {q.steps}

ClosestTradeableQuantity(q) ==
  /\ Tradeable(q)
  /\ \E n \in Floor(q) : quantity' = [steps |-> n, exact |-> TRUE]

\* How many units of the base maxQ comes to at the rate of the first market
\* is left open.
FirstRounding ==
  /\ stage = "priced"
  /\ asked' \in Asked
  /\ ClosestTradeableQuantity(asked')
  /\ stage' = "rounded"
  /\ UNCHANGED <<book, rates, pathVars>>

Drop == /\ path' = Unset /\ legs' = Unset /\ maxQ' = Unset
        /\ asked' = Unset /\ quantity' = Unset
        /\ stage' = "update"
        /\ UNCHANGED <<book, rates>>

\* QuantityTooSmallError, which main catches here; or the path is not worth it.
TooSmall == stage = "priced" /\ Drop

SecondRounding == /\ stage = "rounded"
                  /\ ClosestTradeableQuantity(quantity)
                  /\ stage' = "sent"
                  /\ UNCHANGED <<book, rates, pathVars, asked>>

\* QuantityTooSmallError, which main does not catch here.
SecondRaises == /\ stage = "rounded"
                /\ ~Tradeable(quantity)
                /\ stage' = "raised"
                /\ UNCHANGED <<book, rates, pathVars, asked, quantity>>

\* The path was stale or is only reported; or the job is on its way.
NextTurn == stage \in {"rounded", "sent"} /\ Drop

PricingNext == \/ \E market \in Listed : Update(market)
               \/ \E p \in Cycles : PricePath(p)
               \/ FirstRounding \/ TooSmall \/ SecondRounding \/ SecondRaises \/ NextTurn

PricingSpec == PricingInit /\ [][PricingNext]_pricingVars

-----------------------------------------------------------------------------
\* What the exchange makes of one unit of a currency, in the direction given.
Converted(leg) == IF leg.direction = "SELL" THEN BookOf(leg.market).price - Fee
                                            ELSE Fee - BookOf(leg.market).price

(***************************************************************************)
(* give_base_quote, add_to_graph and give_pair_market_direction work       *)
(* independently on the same names, and agree: each leg of a path is an    *)
(* order on a market of the two currencies, a sale exactly of the base,    *)
(* and the rate it was found with is that of this market's present book.   *)
(***************************************************************************)
LegsAreRight ==
  path # Unset =>
    \A i \in DOMAIN legs :
      /\ \E market \in Listed :
           /\ legs[i].market = Name(market)
           /\ \/ legs[i].direction = "SELL" /\ path[i] = market.base /\ path[i + 1] = market.quote
              \/ legs[i].direction = "BUY" /\ path[i] = market.quote /\ path[i + 1] = market.base
      /\ rates[path[i], path[i + 1]] = Converted(legs[i])

\* The rates of a trip from currency to currency, multiplied.
Gain(trip) == MapThenSumSet(LAMBDA j : rates[trip[j], trip[j + 1]], 1 .. Len(trip) - 1)

\* The currency held after i legs of the path, put through at its rates.
Held == [i \in 0 .. Len(path) - 1 |-> maxQ + Gain(SubSeq(path, 1, i + 1))]

\* Where on the path the base of leg i is, before or after the leg.
AtBase(i) == IF legs[i].direction = "SELL" THEN i ELSE i + 1

\* What leg i trades of its base.
Traded(i) == Held[AtBase(i) - 1]

\* The way on which give_source_value values a currency.
WayHome(currency) == IF rates[currency, Source] # Unset THEN <<Source>> ELSE <<Bitcoin, Source>>

\* The path as far as the base of leg i, and from there straight home.
Trip(i) == SubSeq(path, 1, AtBase(i)) \o WayHome(path[AtBase(i)])

Value == Held[Len(path) - 1] - maxQ

(***************************************************************************)
(* "The lowest unit of the initial currency which can be put through the   *)
(* book" (utils.py:139) is not what give_max_quantity_through_path finds:  *)
(* it takes no gain into account, and a leg may need more than its book    *)
(* offers.  The excess is no more than the gain of going along the path as *)
(* far as the leg's base and from there straight home, or home by bitcoin. *)
(* That is not always the path's own gain: where the base has a market     *)
(* against the source, it is that of the shorter path.                     *)
(***************************************************************************)
OffersAllButSuffice ==
  stage = "priced" =>
    \A i \in DOMAIN legs :
      /\ \A j \in 1 .. Len(Trip(i)) - 1 : rates[Trip(i)[j], Trip(i)[j + 1]] # Unset
      /\ Traded(i) <= BookOf(legs[i].market).quantity + Gain(Trip(i))

(***************************************************************************)
(* The quantity of a job is not above what was asked for, and rounding it  *)
(* twice has cost no more than one step each time.                         *)
(***************************************************************************)
RoundingCostsTwoSteps ==
  stage = "sent" => /\ quantity.steps \in asked.steps - 2 .. asked.steps
                    /\ ~asked.exact => quantity.steps >= asked.steps - 1

(***************************************************************************)
(* main.py:335 is outside of any try: the second rounding raises only in a *)
(* market whose least quantity is more than one step.                      *)
(***************************************************************************)
AcceptedAgain == stage = "raised" => LeastSteps > 1

(***************************************************************************)
(* README.md:15: the fee is paid on every leg of a path.                   *)
(***************************************************************************)
FeeIsPaid ==
  stage = "priced" =>
    Value = MapThenSumSet(LAMBDA i : IF legs[i].direction = "SELL"
                                     THEN BookOf(legs[i].market).price - Fee
                                     ELSE -BookOf(legs[i].market).price - Fee,
                          DOMAIN legs)
=============================================================================
