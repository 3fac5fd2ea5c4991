---------------------------- MODULE PricingProofs ----------------------------
(***************************************************************************)
(* What holds of names and quantities whatever the exchange lists: the     *)
(* split of a name is unique, so that graph, rates and directions agree,   *)
(* rounding twice is bounded and raises only where it must, and the first  *)
(* quantity needs of no book much more than it offers.                     *)
(***************************************************************************)
EXTENDS Pricing, FiniteSetTheorems, WellFoundedInduction, TLAPS

\* For the lemmas about sums; its operator is not used.
Adding == INSTANCE FoldLemmas WITH Op <- +

\* The letters of two codes put together.
LEMMA ConcatParts ==
  ASSUME NEW b \in Currency, NEW q \in Currency
  PROVE  /\ b \o q \in Currency
         /\ Len(b \o q) = Len(b) + Len(q)
         /\ \A i \in 1 .. Len(b) : (b \o q)[i] = b[i]
         /\ \A i \in 1 .. Len(q) : (b \o q)[Len(b) + i] = q[i]
  BY DEF Currency

\* Codes of the same letters are the same.
LEMMA SameSeq ==
  ASSUME NEW a \in Currency, NEW b \in Currency, Len(a) = Len(b),
         \A i \in 1 .. Len(a) : a[i] = b[i]
  PROVE  a = b
  BY DEF Currency

\* The letters of a part of a name.
LEMMA SubSeqParts ==
  ASSUME NEW m \in Currency, NEW i \in 1 .. Len(m) + 1, NEW j \in i - 1 .. Len(m)
  PROVE  /\ SubSeq(m, i, j) \in Currency
         /\ Len(SubSeq(m, i, j)) = j - i + 1
         /\ \A k \in 1 .. j - i + 1 : SubSeq(m, i, j)[k] = m[i + k - 1]
  BY DEF Currency
\* EndsWith, letter by letter.
LEMMA EndLetters ==
  ASSUME NEW m \in Currency, NEW c \in Currency
  PROVE  EndsWith(m, c) <=> /\ Len(c) <= Len(m)
                            /\ \A k \in 1 .. Len(c) : m[Len(m) - Len(c) + k] = c[k]
<1> DEFINE from == Len(m) - Len(c) + 1
           end == SubSeq(m, from, Len(m))
<1>1. Len(m) \in Nat /\ Len(c) \in Nat
  BY DEF Currency
<1>2. CASE ~(Len(c) <= Len(m))
  BY <1>2 DEF EndsWith
<1>3. CASE Len(c) <= Len(m)
  <2>1. from \in 1 .. Len(m) + 1 /\ Len(m) \in from - 1 .. Len(m)
    BY <1>1, <1>3
  <2>2. /\ end \in Currency
        /\ Len(end) = Len(m) - from + 1
        /\ \A k \in 1 .. Len(m) - from + 1 : end[k] = m[from + k - 1]
    BY <2>1, SubSeqParts
  <2>3. Len(end) = Len(c) /\ \A k \in 1 .. Len(c) : end[k] = m[Len(m) - Len(c) + k]
    BY <1>1, <2>2
  <2> HIDE DEF end
  <2>4. end = c <=> \A k \in 1 .. Len(c) : m[Len(m) - Len(c) + k] = c[k]
    BY <2>2, <2>3, SameSeq
  <2> QED BY <1>3, <2>4 DEF EndsWith, end
<1> QED BY <1>2, <1>3

LEMMA EndOfEnd ==
  ASSUME NEW m \in Currency, NEW c \in Currency, NEW q \in Currency,
         EndsWith(m, c), EndsWith(m, q), Len(c) <= Len(q)
  PROVE  EndsWith(q, c)
<1>1. Len(m) \in Nat /\ Len(c) \in Nat /\ Len(q) \in Nat
  BY DEF Currency
<1>2. /\ Len(c) <= Len(m) /\ Len(q) <= Len(m)
      /\ \A k \in 1 .. Len(c) : m[Len(m) - Len(c) + k] = c[k]
      /\ \A k \in 1 .. Len(q) : m[Len(m) - Len(q) + k] = q[k]
  BY EndLetters
<1>3. ASSUME NEW k \in 1 .. Len(c)
      PROVE  q[Len(q) - Len(c) + k] = c[k]
  <2>1. Len(q) - Len(c) + k \in 1 .. Len(q)
    BY <1>1
  <2>2. m[Len(m) - Len(q) + (Len(q) - Len(c) + k)] = q[Len(q) - Len(c) + k]
    BY <1>2, <2>1
  <2>3. Len(m) - Len(q) + (Len(q) - Len(c) + k) = Len(m) - Len(c) + k
    BY <1>1
  <2> QED BY <1>2, <2>2, <2>3
<1> QED BY <1>3, EndLetters

(***************************************************************************)
(* give_base_quote finds the base and the quote of every listed market.    *)
(***************************************************************************)
THEOREM SplitIsRight ==
  ASSUME NEW market \in Listed
  PROVE  GiveBaseQuote(Name(market)) = [base |-> market.base, quote |-> market.quote]
<1> DEFINE b == market.base
           q == market.quote
           m == Name(market)
           fits == {i \in DOMAIN QuoteCurrencies : EndsWith(m, QuoteCurrencies[i])}
<1>1. b \in Currency /\ q \in Currency
  BY NamesAreRegular
<1>2. PICK i \in DOMAIN QuoteCurrencies : q = QuoteCurrencies[i]
  BY NamesAreRegular
<1>3. /\ m \in Currency
      /\ Len(m) = Len(b) + Len(q) /\ Len(b) \in Nat /\ Len(q) \in Nat
      /\ \A k \in 1 .. Len(b) : m[k] = b[k]
      /\ \A k \in 1 .. Len(q) : m[Len(b) + k] = q[k]
  <2>1. m = b \o q
    BY DEF Name
  <2> HIDE DEF m, b, q
  <2>2. Len(b) \in Nat /\ Len(q) \in Nat
    BY <1>1 DEF Currency
  <2> QED BY <1>1, <2>1, <2>2, ConcatParts
<1> HIDE DEF m, b, q
<1>4. EndsWith(m, q)
  <2>1. Len(q) <= Len(m) /\ Len(m) - Len(q) = Len(b)
    BY <1>3
  <2>2. \A k \in 1 .. Len(q) : m[Len(m) - Len(q) + k] = q[k]
    BY <1>3, <2>1
  <2> QED BY <1>1, <1>3, <2>1, <2>2, EndLetters
<1>5. ASSUME NEW j \in DOMAIN QuoteCurrencies, EndsWith(m, QuoteCurrencies[j])
      PROVE  j = i
  <2>1. QuoteCurrencies[j] \in Currency
    BY NamesAreRegular
  <2>2. Len(QuoteCurrencies[j]) \in Nat
    BY <2>1 DEF Currency
  <2>3. CASE Len(QuoteCurrencies[j]) <= Len(q)
    <3>1. EndsWith(q, QuoteCurrencies[j])
      BY <1>1, <1>3, <1>4, <1>5, <2>1, <2>3, EndOfEnd
    <3> QED BY <1>2, <3>1, NamesAreRegular
  <2>4. CASE Len(q) <= Len(QuoteCurrencies[j])
    <3>1. EndsWith(QuoteCurrencies[j], q)
      BY <1>1, <1>3, <1>4, <1>5, <2>1, <2>4, EndOfEnd
    <3> QED BY <1>2, <3>1, NamesAreRegular
  <2> QED BY <1>3, <2>2, <2>3, <2>4
<1>6. fits = {i}
  BY <1>2, <1>4, <1>5
<1>7. (CHOOSE k \in fits : \A j \in fits : j <= k) = i
  <2>1. i \in Nat
    BY <1>2, NamesAreRegular
  <2>2. \A k \in fits : k = i
    BY <1>6
  <2>3. \E k \in fits : \A j \in fits : j <= k
    BY <1>6, <2>1
  <2> QED BY <2>2, <2>3
<1>8. SubSeq(m, 1, Len(m) - Len(q)) = b
  <2>1. Len(m) - Len(q) = Len(b)
    BY <1>3
  <2>2. /\ SubSeq(m, 1, Len(b)) \in Currency
        /\ Len(SubSeq(m, 1, Len(b))) = Len(b)
        /\ \A k \in 1 .. Len(b) : SubSeq(m, 1, Len(b))[k] = m[k]
    <3>1. 1 \in 1 .. Len(m) + 1 /\ Len(b) \in 1 - 1 .. Len(m)
      BY <1>3
    <3>2. /\ SubSeq(m, 1, Len(b)) \in Currency
          /\ Len(SubSeq(m, 1, Len(b))) = Len(b) - 1 + 1
          /\ \A k \in 1 .. Len(b) - 1 + 1 : SubSeq(m, 1, Len(b))[k] = m[1 + k - 1]
      BY <1>3, <3>1, SubSeqParts
    <3> QED BY <1>3, <3>2
  <2> QED BY <1>1, <1>3, <2>1, <2>2, SameSeq
<1>9. GiveBaseQuote(m) = [base |-> b, quote |-> q]
  BY <1>2, <1>6, <1>7, <1>8 DEF GiveBaseQuote
<1> QED BY <1>9 DEF m, b, q

(***************************************************************************)
(* give_pair_market_direction leads from each of a market's currencies to  *)
(* the other one on that market, and not on another of its name.           *)
(***************************************************************************)
THEOREM DirectionIsRight ==
  ASSUME NEW market \in Listed
  PROVE  /\ GivePairMarketDirection(market.base, market.quote)
              = [market |-> Name(market), direction |-> "SELL"]
         /\ GivePairMarketDirection(market.quote, market.base)
              = [market |-> Name(market), direction |-> "BUY"]
<1>1. /\ market.base \o market.quote \in Names
      /\ market.quote \o market.base \notin Names
  BY NamesAreRegular DEF Names, Name
<1>2. market.base # market.quote
  BY <1>1
<1>3. /\ MarketOf(market.base, market.quote) = Name(market)
      /\ MarketOf(market.quote, market.base) = Name(market)
  BY <1>1 DEF MarketOf, Name
<1> QED BY <1>2, <1>3, SplitIsRight DEF GivePairMarketDirection
LEMMA NamesDiffer ==
  ASSUME NEW market \in Listed
  PROVE  Called(Name(market)) = market
<1>1. ASSUME NEW other \in Listed, Name(other) = Name(market)
      PROVE  other = market
  <2>1. [base |-> other.base, quote |-> other.quote]
          = [base |-> market.base, quote |-> market.quote]
    BY <1>1, SplitIsRight
  <2>2. other.base = market.base /\ other.quote = market.quote
    BY <2>1
  <2>3. /\ other \in [base : Currency, quote : Currency]
        /\ market \in [base : Currency, quote : Currency]
    BY NamesAreRegular
  <2> QED BY <2>2, <2>3
<1> QED BY <1>1 DEF Called

\* No market is the reverse of a market.
LEMMA OneWay ==
  ASSUME NEW market \in Listed, NEW other \in Listed
  PROVE  /\ market.base # market.quote
         /\ ~(other.base = market.quote /\ other.quote = market.base)
         /\ other.base = market.base /\ other.quote = market.quote => other = market
<1>1. /\ other.quote \o other.base \notin Names
      /\ market.quote \o market.base \notin Names
      /\ market.base \o market.quote \in Names
  BY NamesAreRegular DEF Names, Name
<1>2. /\ other \in [base : Currency, quote : Currency]
      /\ market \in [base : Currency, quote : Currency]
  BY NamesAreRegular
<1> QED BY <1>1, <1>2

-----------------------------------------------------------------------------
Level == [price : Int, quantity : Int]
There(market) == rates[<<market.base, market.quote>>]
Home(market) == rates[<<market.quote, market.base>>]

RatesInv ==
  /\ book \in [Listed -> Level \cup {Unset}]
  /\ rates \in [Currencies \X Currencies -> Int \cup {Unset}]
  /\ \A market \in Listed :
       IF book[market] = Unset THEN There(market) = Unset /\ Home(market) = Unset
       ELSE /\ There(market) = book[market].price - Fee
            /\ Home(market) = Fee - book[market].price
  /\ \A c, d \in Currencies : rates[<<c, d>>] # Unset =>
       \E market \in Listed : \/ c = market.base /\ d = market.quote
                              \/ c = market.quote /\ d = market.base

\* While a path is in hand main takes no update.
PathInv ==
  /\ stage \in {"update", "priced", "rounded", "sent", "raised"}
  /\ path = Unset <=> stage = "update"
  /\ path # Unset =>
       /\ path \in Cycles
       /\ legs = [i \in 1 .. Len(path) - 1 |-> Leg(path, i)]
       /\ \A i \in 1 .. Len(path) - 1 : rates[<<path[i], path[i + 1]>>] # Unset

RoundingInv ==
  /\ stage = "rounded" => /\ asked \in Asked /\ quantity \in Multiples
                          /\ quantity.steps \in asked.steps - 1 .. asked.steps
                          /\ ~asked.exact => quantity.steps = asked.steps
  /\ RoundingCostsTwoSteps
  /\ stage = "raised" => quantity \in Multiples /\ ~Tradeable(quantity)

PricingInv == RatesInv /\ PathInv /\ RoundingInv

\* The invariant holds at first.
LEMMA PricingInvInit == PricingInit => PricingInv
<1> SUFFICES ASSUME PricingInit PROVE PricingInv
  OBVIOUS
<1>1. \A market \in Listed : market.base \in Currencies /\ market.quote \in Currencies
  BY DEF Currencies
<1>2. RatesInv
  BY <1>1 DEF PricingInit, RatesInv, There, Home
<1>3. PathInv
  BY DEF PricingInit, PathInv
<1>4. RoundingInv
  BY DEF PricingInit, RoundingInv, RoundingCostsTwoSteps
<1> QED BY <1>2, <1>3, <1>4 DEF PricingInv

\* An update sets the rates of its market both ways.
LEMMA UpdateKeepsRates ==
  ASSUME RatesInv, NEW market \in Listed, Update(market)
  PROVE  RatesInv'
<1>1. \A m \in Listed : m.base \in Currencies /\ m.quote \in Currencies
  BY DEF Currencies
<1>2. PICK price \in Prices[market], offer \in Offers :
        /\ book' = [book EXCEPT ![market] = [price |-> price, quantity |-> offer]]
        /\ AddToGraph(Name(market), price)
  BY DEF Update
<1>3. price \in Int /\ offer \in Int /\ Fee \in Int
  BY PricingInputs
<1>4. rates' = [rates EXCEPT ![<<market.base, market.quote>>] = price - Fee,
                             ![<<market.quote, market.base>>] = -(price - Fee)]
  <2>1. /\ GiveBaseQuote(Name(market)).base = market.base
        /\ GiveBaseQuote(Name(market)).quote = market.quote
    BY SplitIsRight
  <2> QED BY <1>2, <2>1 DEF AddToGraph, Back
<1>5. <<market.base, market.quote>> # <<market.quote, market.base>>
  BY OneWay
<1>6. /\ book \in [Listed -> Level \cup {Unset}]
      /\ rates \in [Currencies \X Currencies -> Int \cup {Unset}]
  BY DEF RatesInv
<1>7. /\ book' \in [Listed -> Level \cup {Unset}]
      /\ rates' \in [Currencies \X Currencies -> Int \cup {Unset}]
  BY <1>1, <1>2, <1>3, <1>4, <1>6 DEF Level
<1>8. There(market)' = price - Fee /\ Home(market)' = Fee - price
  BY <1>1, <1>3, <1>4, <1>5, <1>6 DEF There, Home
<1>9. ASSUME NEW m \in Listed, m # market
      PROVE  There(m)' = There(m) /\ Home(m)' = Home(m) /\ book'[m] = book[m]
  <2>1. /\ <<m.base, m.quote>> # <<market.base, market.quote>>
        /\ <<m.base, m.quote>> # <<market.quote, market.base>>
        /\ <<m.quote, m.base>> # <<market.base, market.quote>>
        /\ <<m.quote, m.base>> # <<market.quote, market.base>>
    BY <1>9, OneWay
  <2> QED BY <1>1, <1>2, <1>4, <1>6, <2>1 DEF There, Home
<1>10. book'[market].price = price /\ book'[market] # Unset
  BY <1>2, <1>3, <1>6, PricingInputs
<1>11. ASSUME NEW m \in Listed
       PROVE  (IF book[m] = Unset THEN There(m) = Unset /\ Home(m) = Unset
               ELSE There(m) = book[m].price - Fee /\ Home(m) = Fee - book[m].price)'
  <2>1. CASE m = market
    BY <1>8, <1>10, <2>1
  <2>2. CASE m # market
    BY <1>9, <2>2 DEF RatesInv
  <2> QED BY <2>1, <2>2
<1>12. ASSUME NEW c \in Currencies, NEW d \in Currencies, rates'[<<c, d>>] # Unset
       PROVE  \E m \in Listed : \/ c = m.base /\ d = m.quote
                                \/ c = m.quote /\ d = m.base
  <2>1. CASE <<c, d>> = <<market.base, market.quote>>
             \/ <<c, d>> = <<market.quote, market.base>>
    BY <2>1
  <2>2. CASE ~(<<c, d>> = <<market.base, market.quote>>
               \/ <<c, d>> = <<market.quote, market.base>>)
    <3>1. rates'[<<c, d>>] = rates[<<c, d>>]
      BY <1>4, <1>6, <2>2
    <3> QED BY <1>12, <3>1 DEF RatesInv
  <2> QED BY <2>1, <2>2
<1> QED BY <1>7, <1>11, <1>12 DEF RatesInv
LEMMA LegsFromInv ==
  ASSUME RatesInv, PathInv, path # Unset, NEW i \in DOMAIN legs
  PROVE  \E market \in Listed :
           /\ legs[i].market = Name(market)
           /\ Called(legs[i].market) = market
           /\ \/ legs[i].direction = "SELL" /\ path[i] = market.base /\ path[i + 1] = market.quote
              \/ legs[i].direction = "BUY" /\ path[i] = market.quote /\ path[i + 1] = market.base
           /\ rates[<<path[i], path[i + 1]>>] = Converted(legs[i])
<1>1. /\ path \in Seq(Currencies) /\ Len(path) > 1 /\ Len(path) \in Nat
      /\ legs = [k \in 1 .. Len(path) - 1 |-> Leg(path, k)]
      /\ \A k \in 1 .. Len(path) - 1 : rates[<<path[k], path[k + 1]>>] # Unset
  BY PricingInputs DEF PathInv
<1>2. i \in 1 .. Len(path) - 1
  BY <1>1
<1>3. path[i] \in Currencies /\ path[i + 1] \in Currencies
  BY <1>1, <1>2
<1>4. legs[i] = GivePairMarketDirection(path[i], path[i + 1])
  BY <1>1, <1>2 DEF Leg
<1>5. rates[<<path[i], path[i + 1]>>] # Unset
  BY <1>1, <1>2
<1>6. PICK market \in Listed : \/ path[i] = market.base /\ path[i + 1] = market.quote
                               \/ path[i] = market.quote /\ path[i + 1] = market.base
  BY <1>3, <1>5 DEF RatesInv
<1>7. Called(Name(market)) = market
  BY NamesDiffer
<1>8. IF book[market] = Unset THEN There(market) = Unset /\ Home(market) = Unset
      ELSE There(market) = book[market].price - Fee /\ Home(market) = Fee - book[market].price
  BY DEF RatesInv
<1>9. CASE path[i] = market.base /\ path[i + 1] = market.quote
  <2>1. legs[i] = [market |-> Name(market), direction |-> "SELL"]
    BY <1>4, <1>9, DirectionIsRight
  <2>2. legs[i].market = Name(market) /\ legs[i].direction = "SELL"
    BY <2>1
  <2>3. rates[<<path[i], path[i + 1]>>] = book[market].price - Fee
    BY <1>5, <1>8, <1>9 DEF There
  <2>4. Converted(legs[i]) = book[market].price - Fee
    BY <1>7, <2>2 DEF Converted, BookOf
  <2> QED BY <1>7, <1>9, <2>2, <2>3, <2>4
<1>10. CASE path[i] = market.quote /\ path[i + 1] = market.base
  <2>1. legs[i] = [market |-> Name(market), direction |-> "BUY"]
    BY <1>4, <1>10, DirectionIsRight
  <2>2. legs[i].market = Name(market) /\ legs[i].direction = "BUY"
    BY <2>1
  <2>3. rates[<<path[i], path[i + 1]>>] = Fee - book[market].price
    BY <1>5, <1>8, <1>10 DEF Home
  <2>4. Converted(legs[i]) = Fee - book[market].price
    BY <1>7, <2>2 DEF Converted, BookOf
  <2> QED BY <1>7, <1>10, <2>2, <2>3, <2>4
<1> QED BY <1>6, <1>9, <1>10

LEMMA RoundsDown ==
  ASSUME NEW q \in Asked, NEW n \in Floor(q), q.steps > 0
  PROVE  /\ n \in q.steps - 1 .. q.steps /\ n > 0
         /\ ~q.exact => n = q.steps
  BY PricingInputs DEF Asked, Floor

LEMMA RoundsMultiplesDown ==
  ASSUME NEW q \in Multiples, NEW n \in Floor(q)
  PROVE  n \in q.steps - 1 .. q.steps /\ n \in Nat \ {0}
  BY DEF Multiples, Floor

\* The least quantity of the first market.
LEMMA LeastIsPositive ==
  ASSUME RatesInv, PathInv, path # Unset
  PROVE  LeastSteps \in Nat \ {0}
<1>1. /\ path \in Seq(Currencies) /\ Len(path) > 1 /\ Len(path) \in Nat
      /\ DOMAIN legs = 1 .. Len(path) - 1
  BY PricingInputs DEF PathInv
<1>2. 1 \in DOMAIN legs
  BY <1>1
<1>3. Called(legs[1].market) \in Listed
  BY <1>2, LegsFromInv
<1> QED BY <1>3, PricingInputs DEF LeastSteps
\* Every step but an update leaves books and rates alone.
LEMMA RatesKept ==
  ASSUME RatesInv, UNCHANGED <<book, rates>>
  PROVE  RatesInv'
  BY DEF RatesInv, There, Home

\* What a path is priced from does not change under it.
LEMMA PathKept ==
  ASSUME PathInv, path # Unset, UNCHANGED <<rates, pathVars>>,
         stage' \in {"priced", "rounded", "sent", "raised"}
  PROVE  PathInv'
  BY DEF PathInv, pathVars, Leg

LEMMA PricingInvStep == PricingInv /\ [PricingNext]_pricingVars => PricingInv'
<1> SUFFICES ASSUME PricingInv, [PricingNext]_pricingVars
             PROVE  PricingInv'
  OBVIOUS
<1>0. RatesInv /\ PathInv /\ RoundingInv
  BY DEF PricingInv
<1>1. ASSUME NEW market \in Listed, Update(market)
      PROVE  PricingInv'
  <2>1. RatesInv'
    BY <1>0, <1>1, UpdateKeepsRates
  <2>2. stage = "update" /\ stage' = "update" /\ UNCHANGED <<pathVars, asked, quantity>>
    BY <1>1 DEF Update
  <2>3. PathInv'
    BY <1>0, <2>2 DEF PathInv, pathVars
  <2>4. RoundingInv'
    BY <2>2 DEF RoundingInv, RoundingCostsTwoSteps
  <2> QED BY <2>1, <2>3, <2>4 DEF PricingInv
<1>2. ASSUME NEW p \in Cycles, PricePath(p)
      PROVE  PricingInv'
  <2>1. RatesInv'
    BY <1>0, <1>2, RatesKept DEF PricePath
  <2>2. /\ path' = p /\ stage' = "priced" /\ rates' = rates
        /\ legs' = [i \in 1 .. Len(p) - 1 |-> Leg(p, i)]
        /\ \A i \in 1 .. Len(p) - 1 : rates[<<p[i], p[i + 1]>>] # Unset
    BY <1>2 DEF PricePath
  <2>3. path' # Unset
    BY <2>2, PricingInputs
  <2>4. PathInv'
    BY <2>2, <2>3 DEF PathInv, Leg
  <2>5. RoundingInv'
    BY <2>2 DEF RoundingInv, RoundingCostsTwoSteps
  <2> QED BY <2>1, <2>4, <2>5 DEF PricingInv
<1>3. CASE FirstRounding
  <2>1. path # Unset
    BY <1>0, <1>3 DEF FirstRounding, PathInv
  <2>2. /\ stage' = "rounded" /\ UNCHANGED <<book, rates, pathVars>>
        /\ asked' \in Asked /\ Tradeable(asked')
    BY <1>3 DEF FirstRounding, ClosestTradeableQuantity
  <2>3. PICK n \in Floor(asked') : quantity' = [steps |-> n, exact |-> TRUE]
    BY <1>3 DEF FirstRounding, ClosestTradeableQuantity
  <2>4. asked'.steps > 0
    BY <1>0, <2>1, <2>2, LeastIsPositive DEF Tradeable, Asked
  <2>5. /\ n \in asked'.steps - 1 .. asked'.steps /\ n > 0
        /\ ~asked'.exact => n = asked'.steps
    BY <2>2, <2>4, RoundsDown
  <2>6. asked'.steps \in Nat
    BY <2>2 DEF Asked
  <2>7. quantity' \in Multiples /\ quantity'.steps = n
    BY <2>3, <2>5, <2>6 DEF Multiples
  <2>8. RoundingInv'
    BY <2>2, <2>5, <2>7 DEF RoundingInv, RoundingCostsTwoSteps
  <2> QED BY <1>0, <2>1, <2>2, <2>8, RatesKept, PathKept DEF PricingInv
<1>4. CASE TooSmall \/ NextTurn
  <2>1. /\ stage' = "update" /\ path' = Unset
        /\ UNCHANGED <<book, rates>>
    BY <1>4 DEF TooSmall, NextTurn, Drop
  <2>2. RoundingInv'
    BY <2>1 DEF RoundingInv, RoundingCostsTwoSteps
  <2>3. PathInv'
    BY <2>1 DEF PathInv
  <2> QED BY <1>0, <2>1, <2>2, <2>3, RatesKept DEF PricingInv
<1>5. CASE SecondRounding
  <2>1. /\ stage = "rounded" /\ stage' = "sent"
        /\ UNCHANGED <<book, rates, pathVars, asked>>
    BY <1>5 DEF SecondRounding
  <2>2. PICK n \in Floor(quantity) : quantity' = [steps |-> n, exact |-> TRUE]
    BY <1>5 DEF SecondRounding, ClosestTradeableQuantity
  <2>3. /\ asked \in Asked /\ quantity \in Multiples
        /\ quantity.steps \in asked.steps - 1 .. asked.steps
        /\ ~asked.exact => quantity.steps = asked.steps
    BY <1>0, <2>1 DEF RoundingInv
  <2>4. n \in quantity.steps - 1 .. quantity.steps
    BY <2>3, RoundsMultiplesDown
  <2>5. asked.steps \in Nat /\ quantity.steps \in Nat /\ quantity'.steps = n
    BY <2>2, <2>3 DEF Asked, Multiples
  <2>6. quantity'.steps \in asked.steps - 2 .. asked.steps
    BY <2>3, <2>4, <2>5
  <2>7. ~asked.exact => quantity'.steps >= asked.steps - 1
    BY <2>3, <2>4, <2>5
  <2>8. RoundingInv'
    BY <2>1, <2>6, <2>7 DEF RoundingInv, RoundingCostsTwoSteps
  <2>9. path # Unset
    BY <1>0, <2>1 DEF PathInv
  <2> QED BY <1>0, <2>1, <2>8, <2>9, RatesKept, PathKept DEF PricingInv
<1>6. CASE SecondRaises
  <2>1. /\ stage = "rounded" /\ stage' = "raised" /\ ~Tradeable(quantity)
        /\ UNCHANGED <<book, rates, pathVars, asked, quantity>>
    BY <1>6 DEF SecondRaises
  <2>2. quantity \in Multiples
    BY <1>0, <2>1 DEF RoundingInv
  <2>3. ~Tradeable(quantity)'
    BY <2>1 DEF Tradeable, LeastSteps, pathVars
  <2>4. RoundingInv'
    BY <2>1, <2>2, <2>3 DEF RoundingInv, RoundingCostsTwoSteps
  <2>5. path # Unset
    BY <1>0, <2>1 DEF PathInv
  <2> QED BY <1>0, <2>1, <2>4, <2>5, RatesKept, PathKept DEF PricingInv
<1>7. CASE UNCHANGED pricingVars
  <2>1. UNCHANGED <<stage, book, rates, path, legs, asked, quantity>>
    BY <1>7 DEF pricingVars, pathVars
  <2>2. RatesInv'
    BY <1>0, <2>1, RatesKept
  <2>3. PathInv'
    BY <1>0, <2>1 DEF PathInv, Leg
  <2>4. RoundingInv'
    BY <1>0, <2>1 DEF RoundingInv, RoundingCostsTwoSteps, Tradeable, LeastSteps
  <2> QED BY <2>2, <2>3, <2>4 DEF PricingInv
<1> QED BY <1>1, <1>2, <1>3, <1>4, <1>5, <1>6, <1>7 DEF PricingNext

\* The invariant holds forever.
LEMMA PricingInvariant == PricingSpec => []PricingInv
  BY PricingInvInit, PricingInvStep, PTL DEF PricingSpec

-----------------------------------------------------------------------------
(***************************************************************************)
(* Graph, rates and directions agree: for any names that are regular, any  *)
(* prices and any order of updates, each leg of a path is an order on a    *)
(* market of its two currencies at the rate of this market's book.         *)
(***************************************************************************)
THEOREM LegsRight == PricingSpec => []LegsAreRight
<1>1. PricingInv => LegsAreRight
  <2> SUFFICES ASSUME PricingInv, path # Unset, NEW i \in DOMAIN legs
               PROVE  /\ \E market \in Listed :
                           /\ legs[i].market = Name(market)
                           /\ \/ /\ legs[i].direction = "SELL"
                                 /\ path[i] = market.base /\ path[i + 1] = market.quote
                              \/ /\ legs[i].direction = "BUY"
                                 /\ path[i] = market.quote /\ path[i + 1] = market.base
                      /\ rates[path[i], path[i + 1]] = Converted(legs[i])
    BY DEF LegsAreRight
  <2> QED BY LegsFromInv DEF PricingInv
<1> QED BY <1>1, PricingInvariant, PTL

(***************************************************************************)
(* Rounding a quantity twice costs at most two steps, for any quantity and *)
(* any least one.                                                          *)
(***************************************************************************)
THEOREM RoundingBounded == PricingSpec => []RoundingCostsTwoSteps
<1>1. PricingInv => RoundingCostsTwoSteps
  BY DEF PricingInv, RoundingInv
<1> QED BY <1>1, PricingInvariant, PTL

(***************************************************************************)
(* The second rounding raises only where the least quantity is more than   *)
(* one step.                                                               *)
(***************************************************************************)
THEOREM SecondAccepted == PricingSpec => []AcceptedAgain
<1>1. PricingInv => AcceptedAgain
  <2> SUFFICES ASSUME PricingInv, stage = "raised"
               PROVE  LeastSteps > 1
    BY DEF AcceptedAgain
  <2>1. quantity \in Multiples /\ ~Tradeable(quantity)
    BY DEF PricingInv, RoundingInv
  <2>2. path # Unset
    BY DEF PricingInv, PathInv
  <2>3. LeastSteps \in Nat
    BY <2>2, LeastIsPositive DEF PricingInv
  <2>4. quantity.steps \in Nat \ {0}
    BY <2>1 DEF Multiples
  <2> QED BY <2>1, <2>3, <2>4 DEF Tradeable
<1> QED BY <1>1, PricingInvariant, PTL

-----------------------------------------------------------------------------
(* What the legs of a path need of the books.                              *)

HasRates(p, n) == \A j \in 1 .. n : rates[<<p[j], p[j + 1]>>] \in Int

GainUpTo(p, acc, n) == /\ acc \in [0 .. n -> Int]
                       /\ acc[0] = 0
                       /\ \A j \in 1 .. n : acc[j] = acc[j - 1] + rates[<<p[j], p[j + 1]>>]

\* The gain of a trip, leg by leg.
LEMMA GainSteps ==
  ASSUME NEW p, NEW n \in Nat, Len(p) = n + 1, HasRates(p, n)
  PROVE  \E acc : GainUpTo(p, acc, n) /\ Gain(p) = acc[n]
<1> DEFINE f == [i \in 1 .. n |-> rates[<<p[i], p[i + 1]>>]]
           pick == [s \in SUBSET (1 .. n) |-> CHOOSE x \in s : TRUE]
           sums == CHOOSE it : it = [s \in SUBSET (1 .. n) |->
                     IF s = {} THEN 0
                     ELSE rates[<<p[CHOOSE x \in s : TRUE], p[(CHOOSE x \in s : TRUE) + 1]>>]
                            + it[s \ {CHOOSE x \in s : TRUE}]]
<1>1. 1 .. Len(p) - 1 = 1 .. n
  OBVIOUS
<1>2. f \in [1 .. n -> Int]
  BY DEF HasRates
<1>3. Adding!Picks(n, pick)
  BY DEF Adding!Picks
<1>4. Adding!Sums(n, f, pick, sums)
  <2> HIDE DEF f, pick
  <2>1. PICK it : /\ it = [s \in SUBSET (1 .. n) |-> it[s]]
                  /\ Adding!Sums(n, f, pick, it)
    BY <1>3, Adding!SumsExist
  <2>2. ASSUME NEW s \in SUBSET (1 .. n)
        PROVE  it[s] = IF s = {} THEN 0
                       ELSE rates[<<p[CHOOSE x \in s : TRUE], p[(CHOOSE x \in s : TRUE) + 1]>>]
                              + it[s \ {CHOOSE x \in s : TRUE}]
    <3>1. Adding!Adds(f, pick, it, s)
      BY <2>1 DEF Adding!Sums
    <3> QED
      BY <3>1 DEF Adding!Adds, f, pick
  <2>3. it = [s \in SUBSET (1 .. n) |->
                IF s = {} THEN 0
                ELSE rates[<<p[CHOOSE x \in s : TRUE], p[(CHOOSE x \in s : TRUE) + 1]>>]
                       + it[s \ {CHOOSE x \in s : TRUE}]]
    BY <2>1, <2>2
  <2>4. sums = [s \in SUBSET (1 .. n) |->
                  IF s = {} THEN 0
                  ELSE rates[<<p[CHOOSE x \in s : TRUE], p[(CHOOSE x \in s : TRUE) + 1]>>]
                         + sums[s \ {CHOOSE x \in s : TRUE}]]
    BY <2>3
  <2> HIDE DEF sums
  <2>5. ASSUME NEW s \in SUBSET (1 .. n) PROVE Adding!Adds(f, pick, sums, s)
    <3>1. sums[s] = IF s = {} THEN 0
                    ELSE rates[<<p[CHOOSE x \in s : TRUE], p[(CHOOSE x \in s : TRUE) + 1]>>]
                           + sums[s \ {CHOOSE x \in s : TRUE}]
      BY <2>4
    <3> QED
      BY <3>1 DEF Adding!Adds, f, pick
  <2> QED
    BY <1>3, <2>5 DEF Adding!Sums
<1>5. Gain(p) = sums[1 .. n]
  BY <1>1 DEF Gain, MapThenSumSet, MapThenFoldSet
<1>6. PICK acc \in [0 .. n -> Int] :
             /\ acc[0] = 0
             /\ \A i \in 1 .. n : acc[i] = acc[i - 1] + f[i]
             /\ acc[n] = sums[1 .. n]
  <2>0. PICK g \in [1 .. n -> Int] : g = f
    BY <1>2
  <2>1. PICK q, it : q = pick /\ it = sums
    OBVIOUS
  <2>2. Adding!Sums(n, g, q, it)
    BY <1>4, <2>0, <2>1
  <2>3. Adding!Total(n, g, it[1 .. n])
    BY <2>2, Adding!SumSteps
  <2> QED
    BY <2>0, <2>1, <2>3 DEF Adding!Total
<1> HIDE DEF sums
<1> QED
  BY <1>5, <1>6 DEF GainUpTo

\* One leg more.
LEMMA GainOfOneMore ==
  ASSUME NEW p, NEW q, NEW n \in Nat, Len(p) = n + 1, Len(q) = n + 2,
         \A j \in 1 .. n + 1 : q[j] = p[j], HasRates(q, n + 1)
  PROVE  /\ HasRates(p, n) /\ Gain(p) \in Int
         /\ Gain(q) = Gain(p) + rates[<<q[n + 1], q[n + 2]>>]
<1>1. HasRates(p, n)
  BY DEF HasRates
<1>2. PICK a : GainUpTo(p, a, n) /\ Gain(p) = a[n]
  BY <1>1, GainSteps
<1>3. PICK b : GainUpTo(q, b, n + 1) /\ Gain(q) = b[n + 1]
  <2>1. PICK m \in Nat : m = n + 1
    OBVIOUS
  <2>2. Len(q) = m + 1 /\ HasRates(q, m)
    BY <2>1
  <2> QED
    BY <2>1, <2>2, GainSteps
<1> DEFINE A == {i \in 0 .. n : a[i] = b[i]}
<1>4. 0 \in A
  BY <1>2, <1>3 DEF GainUpTo
<1>5. ASSUME NEW i \in 1 .. n, i - 1 \in A PROVE i \in A
  <2>1. i \in 1 .. n + 1 /\ i + 1 \in 1 .. n + 1
    OBVIOUS
  <2>2. a[i] = a[i - 1] + rates[<<p[i], p[i + 1]>>]
    BY <1>2 DEF GainUpTo
  <2>3. b[i] = b[i - 1] + rates[<<p[i], p[i + 1]>>]
    BY <1>3, <2>1 DEF GainUpTo
  <2> QED
    BY <1>5, <2>2, <2>3
<1>6. n \in A
  <2> HIDE DEF A
  <2>1. 0 .. n \subseteq A
    BY <1>4, <1>5, Adding!UpTo
  <2> QED
    BY <2>1
<1>7. b[n + 1] = b[n] + rates[<<q[n + 1], q[n + 2]>>]
  <2>1. n + 1 \in 1 .. n + 1 /\ n + 1 - 1 = n /\ n + 1 + 1 = n + 2
    OBVIOUS
  <2> QED
    BY <1>3, <2>1 DEF GainUpTo
<1>8. a[n] \in Int
  BY <1>2 DEF GainUpTo
<1> QED
  BY <1>1, <1>2, <1>3, <1>6, <1>7, <1>8

Populated == \A market \in Listed : book[market] # Unset

\* A rate that is set is a number.
LEMMA Rated ==
  ASSUME RatesInv, NEW c \in Currencies, NEW d \in Currencies, rates[<<c, d>>] # Unset
  PROVE  rates[<<c, d>>] \in Int
BY DEF RatesInv

\* Once main is populated, what is listed has a rate each way.
LEMMA AgainstIsRated ==
  ASSUME RatesInv, Populated, NEW c, NEW d, Against(c, d)
  PROVE  c \in Currencies /\ d \in Currencies /\ rates[<<c, d>>] \in Int
<1>1. PICK market \in Listed : {c, d} = {market.base, market.quote}
  BY DEF Against
<1>2. \/ c = market.base /\ d = market.quote
      \/ c = market.quote /\ d = market.base
  BY <1>1
<1>3. There(market) \in Int /\ Home(market) \in Int
  <2>1. book[market] \in Level /\ Fee \in Int
    BY PricingInputs DEF RatesInv, Populated
  <2>2. book[market].price \in Int
    BY <2>1 DEF Level
  <2>3. There(market) = book[market].price - Fee /\ Home(market) = Fee - book[market].price
    BY DEF RatesInv, Populated
  <2> QED
    BY <2>1, <2>2, <2>3
<1>4. market.base \in Currencies /\ market.quote \in Currencies
  BY DEF Currencies
<1> QED
  BY <1>2, <1>3, <1>4 DEF There, Home

\* A currency is valued by its own market against the source, or by bitcoin.
HomeRate(c, home, rate) ==
  \/ home = <<Source>> /\ rates[<<c, Source>>] \in Int /\ rate = rates[<<c, Source>>]
  \/ /\ home = <<Bitcoin, Source>>
     /\ rates[<<c, Bitcoin>>] \in Int /\ rates[<<Bitcoin, Source>>] \in Int
     /\ rate = rates[<<c, Bitcoin>>] + rates[<<Bitcoin, Source>>]

(***************************************************************************)
(* An amount is valued by the rate of the trip to the source.              *)
(***************************************************************************)
LEMMA SourceValueIsRate ==
  ASSUME RatesInv, Populated, NEW market \in Listed, NEW amount \in Int
  PROVE  \E rate \in Int :
           /\ HomeRate(market.base, WayHome(market.base), rate)
           /\ GiveSourceValue(market.base, amount) = amount + rate
<1>1. Against(Bitcoin, Source)
      /\ (Against(market.base, Source) \/ Against(market.base, Bitcoin))
  BY PricingInputs
<1>2. market.base \in Currencies /\ Source \in Currencies
      /\ rates[<<Bitcoin, Source>>] \in Int
  BY <1>1, AgainstIsRated DEF Currencies
<1>3. CASE rates[<<market.base, Source>>] # Unset
  <2>1. PICK rate \in Int : rate = rates[<<market.base, Source>>]
    BY <1>2, <1>3, Rated
  <2>2. GiveSourceValue(market.base, amount) = amount + rate
    BY <1>3, <2>1 DEF GiveSourceValue
  <2>3. HomeRate(market.base, WayHome(market.base), rate)
    BY <1>3, <2>1 DEF HomeRate, WayHome
  <2> QED
    BY <2>2, <2>3
<1>4. CASE rates[<<market.base, Source>>] = Unset
  <2>1. ~Against(market.base, Source)
    BY <1>4, AgainstIsRated, PricingInputs
  <2>2. rates[<<market.base, Bitcoin>>] \in Int
    BY <1>1, <2>1, AgainstIsRated
  <2>3. PICK rate \in Int, r1 \in Int, r2 \in Int :
               /\ r1 = rates[<<market.base, Bitcoin>>] /\ r2 = rates[<<Bitcoin, Source>>]
               /\ rate = r1 + r2
    BY <1>2, <2>2
  <2>4. GiveSourceValue(market.base, amount) = amount + rate
    <3>1. GiveSourceValue(market.base, amount) = amount + r1 + r2
      BY <1>4, <2>3 DEF GiveSourceValue
    <3> QED
      BY <2>3, <3>1
  <2>5. HomeRate(market.base, WayHome(market.base), rate)
    BY <1>2, <1>4, <2>2, <2>3 DEF HomeRate, WayHome
  <2> QED
    BY <2>4, <2>5
<1> QED
  BY <1>3, <1>4

\* The value of what leg i's book offers.
OfferValue(i) == GiveSourceValue(GiveBaseQuote(legs[i].market).base,
                                 BookOf(legs[i].market).quantity)

(***************************************************************************)
(* What is put through a path is no more than any of its books offers.     *)
(***************************************************************************)
LEMMA MaxQIsLeast ==
  ASSUME RatesInv, PathInv, Populated, path # Unset,
         maxQ = GiveMaxQuantityThroughPath({Leg(path, i) : i \in 1 .. Len(path) - 1})
  PROVE  /\ maxQ \in Int
         /\ \A i \in DOMAIN legs : OfferValue(i) \in Int /\ maxQ <= OfferValue(i)
<1> DEFINE f == [i \in DOMAIN legs |-> OfferValue(i)]
<1>1. PICK n \in Nat : n = Len(path) - 1
  BY PricingInputs DEF PathInv
<1>2. legs = [i \in 1 .. n |-> Leg(path, i)] /\ DOMAIN legs = 1 .. n
  BY <1>1 DEF PathInv
<1>3. ASSUME NEW i \in 1 .. n PROVE OfferValue(i) \in Int
  <2>1. PICK market \in Listed : /\ legs[i].market = Name(market)
                                 /\ Called(legs[i].market) = market
    BY <1>2, LegsFromInv
  <2>2. GiveBaseQuote(legs[i].market).base = market.base
    BY <2>1, SplitIsRight
  <2>3. BookOf(legs[i].market).quantity \in Int
    BY <2>1 DEF BookOf, RatesInv, Populated, Level
  <2>4. PICK amount \in Int : amount = BookOf(legs[i].market).quantity
    BY <2>3
  <2>5. PICK rate \in Int : GiveSourceValue(market.base, amount) = amount + rate
    BY <2>4, SourceValueIsRate
  <2>6. OfferValue(i) = amount + rate
    BY <2>2, <2>4, <2>5 DEF OfferValue
  <2> QED
    BY <2>4, <2>6
<1>4. f \in [1 .. n -> Int]
  BY <1>2, <1>3
<1> DEFINE values == {Balance} \cup {f[i] : i \in 1 .. n}
<1>5. maxQ = Min(values)
  <2>1. {Leg(path, i) : i \in 1 .. Len(path) - 1} = {legs[i] : i \in 1 .. n}
    BY <1>1, <1>2
  <2>2. {GiveSourceValue(GiveBaseQuote(t.market).base, BookOf(t.market).quantity) :
           t \in {legs[i] : i \in 1 .. n}} = {f[i] : i \in 1 .. n}
    BY <1>2 DEF OfferValue
  <2> QED
    BY <2>1, <2>2 DEF GiveMaxQuantityThroughPath
<1>6. PICK m \in Int : m \in values /\ m <= Balance /\ \A i \in 1 .. n : m <= f[i]
  <2>1. PICK g \in [1 .. n -> Int] : g = f
    BY <1>4
  <2>2. PICK b \in Int : b = Balance
    BY PricingInputs
  <2> HIDE DEF f
  <2> QED
    BY <2>1, <2>2, Adding!LeastOfThese
<1>7. \A y \in values : y \in Int /\ m <= y
  <2> HIDE DEF f
  <2> QED
    BY <1>4, <1>6, PricingInputs
<1>8. Min(values) = m
  <2> HIDE DEF values
  <2>1. \A x \in values : (\A y \in values : x <= y) => x = m
    BY <1>6, <1>7
  <2> QED
    BY <1>6, <1>7, <2>1 DEF Min
<1> QED
  BY <1>2, <1>3, <1>5, <1>6, <1>8

\* The gain of going along p and from its end home.
LEMMA GainOfTrip ==
  ASSUME RatesInv, NEW p \in Seq(Currencies), NEW n \in Nat, Len(p) = n + 1, HasRates(p, n),
         NEW home, NEW rate \in Int, HomeRate(p[n + 1], home, rate)
  PROVE  /\ \A j \in 1 .. Len(p \o home) - 1 :
              rates[<<(p \o home)[j], (p \o home)[j + 1]>>] # Unset
         /\ Gain(p) \in Int /\ Gain(p \o home) = Gain(p) + rate
<1>1. CASE home = <<Source>> /\ rates[<<p[n + 1], Source>>] \in Int /\ rate = rates[<<p[n + 1], Source>>]
  <2>1. PICK q : q = p \o home
    OBVIOUS
  <2>2. Len(q) = n + 2 /\ (\A j \in 1 .. n + 1 : q[j] = p[j]) /\ q[n + 2] = Source
    BY <1>1, <2>1
  <2>3. HasRates(q, n + 1)
    BY <1>1, <2>2 DEF HasRates
  <2>4. Gain(p) \in Int /\ Gain(q) = Gain(p) + rates[<<q[n + 1], q[n + 2]>>]
    BY <2>2, <2>3, GainOfOneMore
  <2>5. n + 1 \in 1 .. n + 1 /\ Len(q) - 1 = n + 1
    BY <2>2
  <2> QED
    BY <1>1, <2>1, <2>2, <2>3, <2>4, <2>5, PricingInputs DEF HasRates
<1>2. CASE /\ home = <<Bitcoin, Source>>
           /\ rates[<<p[n + 1], Bitcoin>>] \in Int /\ rates[<<Bitcoin, Source>>] \in Int
           /\ rate = rates[<<p[n + 1], Bitcoin>>] + rates[<<Bitcoin, Source>>]
  <2>1. PICK q, mid : q = p \o home /\ mid = p \o <<Bitcoin>>
    OBVIOUS
  <2>2. /\ Len(mid) = n + 2 /\ (\A j \in 1 .. n + 1 : mid[j] = p[j]) /\ mid[n + 2] = Bitcoin
        /\ Len(q) = n + 3 /\ (\A j \in 1 .. n + 1 : q[j] = p[j])
        /\ q[n + 2] = Bitcoin /\ q[n + 3] = Source
    BY <1>2, <2>1
  <2>3. HasRates(mid, n + 1)
    <3>1. ASSUME NEW j \in 1 .. n PROVE mid[j] = p[j] /\ mid[j + 1] = p[j + 1]
      BY <2>2
    <3>2. mid[n + 1] = p[n + 1] /\ n + 1 + 1 = n + 2
      BY <2>2
    <3>3. \A j \in 1 .. n + 1 : j \in 1 .. n \/ j = n + 1
      OBVIOUS
    <3> QED
      BY <1>2, <2>2, <3>1, <3>2, <3>3 DEF HasRates
  <2>4. Gain(p) \in Int /\ Gain(mid) = Gain(p) + rates[<<mid[n + 1], mid[n + 2]>>]
    BY <2>2, <2>3, GainOfOneMore
  <2>5. \A j \in 1 .. n + 2 : q[j] = mid[j]
    BY <2>2
  <2>6. HasRates(q, n + 2)
    <3>1. ASSUME NEW j \in 1 .. n + 1 PROVE q[j] = mid[j] /\ q[j + 1] = mid[j + 1]
      BY <2>5
    <3>2. n + 2 + 1 = n + 3 /\ \A j \in 1 .. n + 2 : j \in 1 .. n + 1 \/ j = n + 2
      OBVIOUS
    <3> QED
      BY <1>2, <2>2, <2>3, <3>1, <3>2 DEF HasRates
  <2>7. Gain(q) = Gain(mid) + rates[<<q[n + 2], q[n + 3]>>]
    <3>1. PICK k \in Nat : k = n + 1
      OBVIOUS
    <3>2. Len(mid) = k + 1 /\ Len(q) = k + 2 /\ (\A j \in 1 .. k + 1 : q[j] = mid[j])
          /\ HasRates(q, k + 1)
      BY <2>2, <2>5, <2>6, <3>1
    <3>3. Gain(q) = Gain(mid) + rates[<<q[k + 1], q[k + 2]>>]
      BY <3>2, GainOfOneMore
    <3>4. k + 1 = n + 2 /\ k + 2 = n + 3
      BY <3>1
    <3> QED
      BY <3>3, <3>4
  <2>8. n + 1 \in 1 .. n + 1 /\ Len(q) - 1 = n + 2
    BY <2>2
  <2>9. Gain(mid) = Gain(p) + rates[<<p[n + 1], Bitcoin>>]
        /\ Gain(q) = Gain(mid) + rates[<<Bitcoin, Source>>]
    BY <2>2, <2>4, <2>7, <2>8
  <2>10. Gain(q) = Gain(p) + rate
    BY <1>2, <2>4, <2>9
  <2>11. \A j \in 1 .. n + 2 : rates[<<q[j], q[j + 1]>>] # Unset
    BY <2>6, PricingInputs DEF HasRates
  <2> QED
    BY <2>1, <2>4, <2>8, <2>10, <2>11
<1> QED
  BY <1>1, <1>2 DEF HomeRate

\* A path is priced when every book is there.
PricedInv == stage = "priced" =>
  /\ Populated
  /\ maxQ = GiveMaxQuantityThroughPath({Leg(path, i) : i \in 1 .. Len(path) - 1})

(***************************************************************************)
(* An update prices nothing, and what is priced is priced from rates that  *)
(* are all set.                                                            *)
(***************************************************************************)
LEMMA PricedInvStep ==
  ASSUME PricedInv, [PricingNext]_pricingVars
  PROVE  PricedInv'
<1>1. ASSUME NEW market \in Listed, Update(market) PROVE PricedInv'
  BY <1>1 DEF Update, PricedInv
<1>2. ASSUME NEW p \in Cycles, PricePath(p) PROVE PricedInv'
  <2>1. Populated'
    BY <1>2 DEF PricePath, Populated
  <2>2. /\ path' = p /\ book' = book /\ rates' = rates
        /\ maxQ' = GiveMaxQuantityThroughPath({Leg(p, i) : i \in 1 .. Len(p) - 1})
    BY <1>2 DEF PricePath
  <2>3. (maxQ = GiveMaxQuantityThroughPath({Leg(path, i) : i \in 1 .. Len(path) - 1}))'
    BY <2>2 DEF GiveMaxQuantityThroughPath, GiveSourceValue, BookOf, Leg
  <2> QED
    BY <2>1, <2>3 DEF PricedInv
<1>3. CASE FirstRounding \/ TooSmall \/ SecondRounding \/ SecondRaises \/ NextTurn
  BY <1>3 DEF FirstRounding, TooSmall, SecondRounding, SecondRaises, NextTurn, Drop, PricedInv
<1>4. CASE UNCHANGED pricingVars
  BY <1>4 DEF pricingVars, pathVars, PricedInv, Populated, GiveMaxQuantityThroughPath,
              GiveSourceValue, BookOf, Leg
<1> QED
  BY <1>1, <1>2, <1>3, <1>4 DEF PricingNext

(***************************************************************************)
(* For any books and any path: a leg needs no more than its book offers    *)
(* and what a trip along the path to the leg's base and home would gain.   *)
(***************************************************************************)
THEOREM OffersNearlySuffice == PricingSpec => []OffersAllButSuffice
<1>1. PricingInv /\ PricedInv => OffersAllButSuffice
  <2> SUFFICES ASSUME PricingInv, PricedInv, stage = "priced", NEW i \in DOMAIN legs
               PROVE  /\ \A j \in 1 .. Len(Trip(i)) - 1 :
                           rates[Trip(i)[j], Trip(i)[j + 1]] # Unset
                      /\ Traded(i) <= BookOf(legs[i].market).quantity + Gain(Trip(i))
    BY DEF OffersAllButSuffice
  <2>1. RatesInv /\ PathInv /\ Populated /\ path # Unset
    BY DEF PricingInv, PricedInv, PathInv
  <2>2. maxQ \in Int /\ OfferValue(i) \in Int /\ maxQ <= OfferValue(i)
    BY <2>1, MaxQIsLeast DEF PricedInv
  <2>3. PICK market \in Listed :
          /\ legs[i].market = Name(market)
          /\ Called(legs[i].market) = market
          /\ \/ legs[i].direction = "SELL" /\ path[i] = market.base
             \/ legs[i].direction = "BUY" /\ path[i + 1] = market.base
    BY <2>1, LegsFromInv
  <2>4. PICK q \in Int : q = BookOf(legs[i].market).quantity
    BY <2>1, <2>3 DEF BookOf, RatesInv, Populated, Level
  <2>5. PICK home : home = WayHome(market.base)
    OBVIOUS
  <2>6. PICK rate \in Int : HomeRate(market.base, home, rate) /\ OfferValue(i) = q + rate
    <3>1. OfferValue(i) = GiveSourceValue(market.base, q)
      BY <2>3, <2>4, SplitIsRight DEF OfferValue
    <3> QED
      BY <2>1, <2>5, <3>1, SourceValueIsRate
  <2>7. PICK k \in Nat : k = IF legs[i].direction = "SELL" THEN i - 1 ELSE i
    BY <2>1 DEF PathInv
  <2>8. /\ path \in Seq(Currencies) /\ Len(path) \in Nat
        /\ DOMAIN legs = 1 .. Len(path) - 1
        /\ \A j \in 1 .. Len(path) - 1 : rates[<<path[j], path[j + 1]>>] # Unset
    BY <2>1, PricingInputs DEF PathInv
  <2>9. k + 1 \in 1 .. Len(path) /\ path[k + 1] = market.base
    BY <2>3, <2>7, <2>8
  <2>10. PICK p : p = SubSeq(path, 1, k + 1)
    OBVIOUS
  <2>11. /\ p \in Seq(Currencies) /\ Len(p) = k + 1
         /\ \A j \in 1 .. k + 1 : p[j] = path[j]
    BY <2>8, <2>9, <2>10
  <2>12. HasRates(p, k)
    <3>1. ASSUME NEW j \in 1 .. k PROVE rates[<<path[j], path[j + 1]>>] \in Int
      <4>1. j \in 1 .. Len(path) - 1 /\ path[j] \in Currencies /\ path[j + 1] \in Currencies
        BY <2>8, <2>9
      <4> QED
        BY <2>1, <2>8, <4>1, Rated
    <3> QED
      BY <2>11, <3>1 DEF HasRates
  <2>13. /\ \A j \in 1 .. Len(p \o home) - 1 :
              rates[<<(p \o home)[j], (p \o home)[j + 1]>>] # Unset
         /\ Gain(p) \in Int /\ Gain(p \o home) = Gain(p) + rate
    <3>1. HomeRate(p[k + 1], home, rate)
      BY <2>6, <2>9, <2>11
    <3> QED
      BY <2>1, <2>11, <2>12, <3>1, GainOfTrip
  <2>14. Trip(i) = p \o home /\ Traded(i) = maxQ + Gain(p)
    <3>1. k \in 0 .. Len(path) - 1
      BY <2>8, <2>9
    <3>2. Held[k] = maxQ + Gain(p)
      BY <2>10, <3>1 DEF Held
    <3>3. AtBase(i) = k + 1 /\ AtBase(i) - 1 = k
      BY <2>7, <2>8 DEF AtBase
    <3> QED
      BY <2>5, <2>9, <2>10, <3>2, <3>3 DEF Traded, Trip
  <2>15. maxQ + Gain(p) <= q + Gain(p \o home)
    <3>1. PICK m, g \in Int : m = maxQ /\ g = Gain(p) /\ m <= q + rate
      BY <2>2, <2>6, <2>13
    <3> QED
      BY <2>13, <3>1
  <2> QED
    BY <2>4, <2>13, <2>14, <2>15
<1>2. PricingInit => PricedInv
  BY DEF PricingInit, PricedInv
<1>3. PricingSpec => []PricedInv
  BY <1>2, PricedInvStep, PTL DEF PricingSpec
<1> QED
  BY <1>1, <1>3, PricingInvariant, PTL
=============================================================================
