------------------------------ MODULE OrderBook ------------------------------
(***************************************************************************)
(* LimitOrderBook (app/orderbook.py): the asks of one market.              *)
(*                                                                         *)
(* update_levels_from_partial, the only update main.py makes, converts     *)
(* every entry before it looks at it.  update_level, which the unit tests  *)
(* call, compares the quantity as it is given, pops the price as it is     *)
(* given, and converts only what it stores: what it does depends on the    *)
(* form, number or text, of each of its arguments.                         *)
(***************************************************************************)
EXTENDS Naturals, SequencesExt

CONSTANTS
  Prices,       \* non-zero prices
  Quantities,   \* quantities, 0 among them
  Forms,        \* the forms of update_level's arguments: "number", "text"
  MaxAsks       \* bound on the entries of a partial update

\* What the theorems assume of the constants.
BookInputs == /\ Prices \subseteq Nat \ {0}
              /\ Quantities \subseteq Nat /\ 0 \in Quantities
              /\ Forms \subseteq {"number", "text"}

VARIABLES
  ask,      \* _ask: the price levels, a function from some prices
  quoted,   \* the quantity the exchange last gave for each price
  misread   \* the prices update_level was last told to delete, partly in text

bookVars == <<ask, quoted, misread>>

NoLevels == [p \in {} |-> 0]

SetLevel(book, p, q) == [x \in DOMAIN book \cup {p} |-> IF x = p THEN q ELSE book[x]]

DropLevel(book, p) == [x \in DOMAIN book \ {p} |-> book[x]]

BookInit == /\ ask = NoLevels
            /\ quoted = [p \in Prices |-> 0]
            /\ misread = {}

\* Text never equals 0: the level is stored, whatever its quantity.
IsZero(form, q) == form = "number" /\ q = 0

\* The keys are numbers: a price in text is popped in vain, line 30.
PopLevel(form, p) == IF form = "number" THEN DropLevel(ask, p) ELSE ask

\* The history of one update.
Quote(priceForm, quantityForm, p, q) ==
  /\ quoted' = [quoted EXCEPT ![p] = q]
  /\ misread' = IF q = 0 /\ "text" \in {priceForm, quantityForm}
                THEN misread \cup {p}
                ELSE misread \ {p}

UpdateLevel(priceForm, quantityForm, p, q) ==
  /\ ask' = IF IsZero(quantityForm, q) THEN PopLevel(priceForm, p) ELSE SetLevel(ask, p, q)
  /\ Quote(priceForm, quantityForm, p, q)

Entry == [price : Prices, quantity : Quantities]

\* One entry of a partial update, orderbook.py:49-53.
ApplyEntry(book, e) ==
  IF e.quantity # 0 THEN SetLevel(book, e.price, e.quantity)
  ELSE DropLevel(book, e.price)

ApplyQuote(quotes, e) == [quotes EXCEPT ![e.price] = e.quantity]

UpdateLevelsFromPartial(asks) ==
  /\ ask' = FoldLeft(ApplyEntry, NoLevels, asks)
  /\ quoted' = FoldLeft(ApplyQuote, [p \in Prices |-> 0], asks)
  /\ misread' = {}

Lowest == CHOOSE p \in DOMAIN ask : \A x \in DOMAIN ask : p <= x

\* The lowest level, or the dummy of an empty book.
BestPrice == IF ask = NoLevels THEN [price |-> 0, quantity |-> 0]
             ELSE [price |-> Lowest, quantity |-> ask[Lowest]]

BookNext == \/ \E priceForm, quantityForm \in Forms, p \in Prices, q \in Quantities :
                 UpdateLevel(priceForm, quantityForm, p, q)
            \/ \E n \in 0 .. MaxAsks : \E asks \in [1 .. n -> Entry] :
                 UpdateLevelsFromPartial(asks)

BookSpec == BookInit /\ [][BookNext]_bookVars

-----------------------------------------------------------------------------
Offered == {p \in Prices : quoted[p] # 0}

(***************************************************************************)
(* "If quantity is 0.0 delete the key" (README.md:61, and the docstring of *)
(* test_no_quantity_price_points_removed): no price whose last quantity is *)
(* zero is a level.                                                        *)
(***************************************************************************)
ZeroDeletesKey == \A p \in Prices : quoted[p] = 0 => p \notin DOMAIN ask

(***************************************************************************)
(* Through any mixture of partial and single updates, repeated and         *)
(* contradicting entries included, every price but the misread ones is a   *)
(* level exactly when the exchange offers it, with the quantity offered.   *)
(***************************************************************************)
LevelsAreOffers ==
  \A p \in Prices \ misread : /\ p \in DOMAIN ask <=> p \in Offered
                              /\ p \in DOMAIN ask => ask[p] = quoted[p]

(***************************************************************************)
(* The price main trades at is the lowest offer, and the dummy price 0.0,  *)
(* on which main's log10 fails, is given exactly when nothing is offered.  *)
(***************************************************************************)
BestIsLowestOffer ==
  \/ Offered = {} /\ BestPrice.price = 0
  \/ /\ BestPrice.price \in Offered
     /\ \A p \in Offered : BestPrice.price <= p
     /\ BestPrice.quantity = quoted[BestPrice.price]
=============================================================================
