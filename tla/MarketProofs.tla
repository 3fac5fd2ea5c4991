----------------------------- MODULE MarketProofs -----------------------------
(***************************************************************************)
(* What main knows of a market: the cache of the market information, for   *)
(* any markets and any clock, and the book, for any prices, quantities and *)
(* length of a partial update.                                             *)
(***************************************************************************)
EXTENDS MarketInfo, OrderBook, WellFoundedInduction, TLAPS

\* What a running bot relies on holds already while the file is written, and
\* what is written is what is in memory.
InfoInv == /\ InfoTypeOK
           /\ proc \in {"writing", "running"} => /\ info # NoInfo
                                                 /\ configured \subseteq info.markets
                                                 /\ decidedAt <= info.time + Hour

LEMMA InfoInvInit == InfoInit => InfoInv
BY MarketInfoInputs DEF InfoInit, InfoInv, InfoTypeOK

LEMMA InfoInvStep ==
  ASSUME InfoInv, [InfoNext]_infoVars
  PROVE  InfoInv'
<1> USE MarketInfoInputs, NoInfoIsNone DEF InfoInv, InfoTypeOK
<1>1. CASE Tick
  BY <1>1 DEF Tick
<1>2. CASE Start
  BY <1>2 DEF Start
<1>3. CASE ReadCache
  BY <1>3 DEF ReadCache, Usable
<1>4. CASE NeedsFetch \/ ReadTorn
  BY <1>4 DEF NeedsFetch, NotTorn, ReadTorn
<1>5. CASE FetchAndOpen
  <2>1. info' \in Info /\ info'.markets = configured /\ info'.time = now
    BY <1>5 DEF FetchAndOpen, Emptied, Info
  <2> QED BY <1>5, <2>1 DEF FetchAndOpen, Emptied
<1>6. CASE DumpAndRun
  BY <1>6 DEF DumpAndRun
<1>7. CASE Crash
  BY <1>7 DEF Crash
<1>8. CASE UNCHANGED infoVars
  BY <1>8 DEF infoVars
<1> QED BY <1>1, <1>2, <1>3, <1>4, <1>5, <1>6, <1>7, <1>8 DEF InfoNext

LEMMA InfoInvariant == InfoSpec => []InfoInv
BY InfoInvInit, InfoInvStep, PTL DEF InfoSpec

\* Files and memory hold market information, or none.
THEOREM InfoTypes == InfoSpec => []InfoTypeOK
<1>1. InfoInv => InfoTypeOK
  BY DEF InfoInv
<1> QED BY <1>1, InfoInvariant, PTL

\* The bot never runs on information that was stale when it was accepted, or
\* without a market it is configured for.
THEOREM FreshInfo == InfoSpec => []RunsOnFreshInfo
<1>1. InfoInv => RunsOnFreshInfo
  BY DEF InfoInv, RunsOnFreshInfo
<1> QED BY <1>1, InfoInvariant, PTL

\* Only the bot that writes a torn file is ever past the reading of it.
TornStopsReader == file = "torn" => proc \in {"down", "reading", "writing"}

LEMMA TornStopsReaderStep ==
  ASSUME TornStopsReader, [InfoNext]_infoVars
  PROVE  TornStopsReader'
BY DEF TornStopsReader, InfoNext, infoVars, Tick, Start, ReadCache, NeedsFetch, NotTorn,
   ReadTorn, FetchAndOpen, Emptied, DumpAndRun, Crash, Usable

\* A torn file stays torn and stops every start.
THEOREM TornForever == InfoSpec => TornIsForever
<1>1. InfoInit => TornStopsReader
  BY DEF InfoInit, TornStopsReader
<1>2. ASSUME TornStopsReader, [InfoNext]_infoVars
      PROVE  [file = "torn" /\ proc # "writing"
                => file' = "torn" /\ proc' \in {"down", "reading"}]_infoVars
  BY <1>2 DEF TornStopsReader, InfoNext, infoVars, Tick, Start, ReadCache,
     NeedsFetch, NotTorn, ReadTorn, FetchAndOpen, Emptied, DumpAndRun, Crash, Usable
<1> QED BY <1>1, <1>2, TornStopsReaderStep, PTL DEF InfoSpec, TornIsForever

-----------------------------------------------------------------------------
\* Both folds of a partial update.
Levels == INSTANCE FoldLemmas WITH Op <- ApplyEntry
Quotes == INSTANCE FoldLemmas WITH Op <- ApplyQuote

OffersOf(quotes) == [p \in {x \in Prices : quotes[x] # 0} |-> quotes[p]]

(***************************************************************************)
(* An entry takes the book of some quotes to that of the quotes it leaves. *)
(***************************************************************************)
LEMMA EntryKeepsOffers ==
  ASSUME NEW quotes \in [Prices -> Quantities], NEW e \in Entry
  PROVE  /\ ApplyQuote(quotes, e) \in [Prices -> Quantities]
         /\ ApplyEntry(OffersOf(quotes), e) = OffersOf(ApplyQuote(quotes, e))
<1> DEFINE after == ApplyQuote(quotes, e)
<1>1. after \in [Prices -> Quantities]
  BY DEF ApplyQuote, Entry
<1>2. /\ \A p \in Prices : after[p] = IF p = e.price THEN e.quantity ELSE quotes[p]
      /\ e.price \in Prices
  BY DEF ApplyQuote, Entry
<1>3. CASE e.quantity # 0
  <2>1. {x \in Prices : after[x] # 0} = {x \in Prices : quotes[x] # 0} \cup {e.price}
    BY <1>2, <1>3
  <2> HIDE DEF after
  <2>2. ApplyEntry(OffersOf(quotes), e) = OffersOf(after)
    BY <1>2, <1>3, <2>1 DEF ApplyEntry, SetLevel, OffersOf
  <2> QED
    BY <1>1, <2>2 DEF after
<1>4. CASE e.quantity = 0
  <2>1. {x \in Prices : after[x] # 0} = {x \in Prices : quotes[x] # 0} \ {e.price}
    BY <1>2, <1>4
  <2> HIDE DEF after
  <2>2. ApplyEntry(OffersOf(quotes), e) = OffersOf(after)
    BY <1>2, <1>4, <2>1 DEF ApplyEntry, DropLevel, OffersOf
  <2> QED
    BY <1>1, <2>2 DEF after
<1> QED
  BY <1>3, <1>4

(***************************************************************************)
(* A partial update leaves the offers it names last.                       *)
(***************************************************************************)
LEMMA PartialGivesOffers ==
  ASSUME BookInputs, NEW asks \in Seq(Entry)
  PROVE  LET quotes == FoldLeft(ApplyQuote, [p \in Prices |-> 0], asks)
         IN  /\ quotes \in [Prices -> Quantities]
             /\ FoldLeft(ApplyEntry, NoLevels, asks) = OffersOf(quotes)
<1> DEFINE unquoted == [p \in Prices |-> 0]
           n == Len(asks)
<1>1. PICK book : /\ book[0] = NoLevels
                  /\ \A i \in 1 .. n : book[i] = ApplyEntry(book[i - 1], asks[i])
                  /\ Levels!Folded(NoLevels, asks) = book[n]
  BY Levels!FoldSteps
<1>2. PICK quotes : /\ quotes[0] = unquoted
                    /\ \A i \in 1 .. n : quotes[i] = ApplyQuote(quotes[i - 1], asks[i])
                    /\ Quotes!Folded(unquoted, asks) = quotes[n]
  BY Quotes!FoldSteps
<1> DEFINE A == {i \in 0 .. n : /\ quotes[i] \in [Prices -> Quantities]
                                /\ book[i] = OffersOf(quotes[i])}
<1>3. n \in Nat /\ \A i \in 1 .. n : asks[i] \in Entry
  OBVIOUS
<1>4. 0 \in A
  <2>1. OffersOf(unquoted) = NoLevels
    BY DEF OffersOf, NoLevels
  <2> QED
    BY <1>1, <1>2, <1>3, <2>1 DEF BookInputs
<1>5. ASSUME NEW i \in 1 .. n, i - 1 \in A PROVE i \in A
  BY <1>1, <1>2, <1>3, <1>5, EntryKeepsOffers
<1> HIDE DEF A
<1>6. 0 .. n \subseteq A
  BY <1>3, <1>4, <1>5, Levels!UpTo
<1>7. quotes[n] \in [Prices -> Quantities] /\ book[n] = OffersOf(quotes[n])
  BY <1>3, <1>6 DEF A
<1>8. /\ FoldLeft(ApplyEntry, NoLevels, asks) = Levels!Folded(NoLevels, asks)
      /\ FoldLeft(ApplyQuote, unquoted, asks) = Quotes!Folded(unquoted, asks)
  BY DEF FoldLeft, MapThenFoldSet, Max,
         Levels!Folded, Levels!FoldLeft, Levels!MapThenFoldSet, Levels!Max,
         Quotes!Folded, Quotes!FoldLeft, Quotes!MapThenFoldSet, Quotes!Max
<1> QED
  BY <1>1, <1>2, <1>7, <1>8

-----------------------------------------------------------------------------
BookInv == /\ quoted \in [Prices -> Quantities]
           /\ misread \subseteq {p \in Prices : quoted[p] = 0}
           /\ DOMAIN ask \subseteq Prices
           /\ ask = [p \in DOMAIN ask |-> ask[p]]
           /\ LevelsAreOffers

LEMMA BookHolds ==
  ASSUME BookInputs
  PROVE  BookSpec => []BookInv
<1>1. BookInit => BookInv
  BY DEF BookInputs, BookInit, BookInv, LevelsAreOffers, Offered, NoLevels
<1>2. ASSUME BookInv, [BookNext]_bookVars PROVE BookInv'
  <2>1. ASSUME NEW priceForm \in Forms, NEW quantityForm \in Forms,
               NEW p \in Prices, NEW q \in Quantities,
               UpdateLevel(priceForm, quantityForm, p, q)
        PROVE  BookInv'
    <3>1. /\ quoted' \in [Prices -> Quantities]
          /\ \A x \in Prices : quoted'[x] = IF x = p THEN q ELSE quoted[x]
      BY <1>2, <2>1 DEF BookInv, UpdateLevel, Quote
    <3>2. misread' \subseteq {x \in Prices : quoted'[x] = 0}
      BY <1>2, <2>1, <3>1 DEF BookInv, UpdateLevel, Quote
    <3>3. \A x \in Prices : x # p => (x \in misread' <=> x \in misread)
      BY <2>1 DEF UpdateLevel, Quote
    <3>4. /\ DOMAIN ask' \subseteq Prices
          /\ \A x \in Prices : x # p => /\ x \in DOMAIN ask' <=> x \in DOMAIN ask
                                        /\ x \in DOMAIN ask => ask'[x] = ask[x]
      BY <1>2, <2>1 DEF BookInv, UpdateLevel, PopLevel, SetLevel, DropLevel
    <3>5. ask' = [x \in DOMAIN ask' |-> ask'[x]]
      BY <1>2, <2>1 DEF BookInv, UpdateLevel, PopLevel, SetLevel, DropLevel
    <3>6. p \notin misread' => /\ p \in DOMAIN ask' <=> q # 0
                               /\ p \in DOMAIN ask' => ask'[p] = q
      <4>1. priceForm \in {"number", "text"} /\ quantityForm \in {"number", "text"}
        BY DEF BookInputs
      <4> QED
        BY <2>1, <4>1 DEF UpdateLevel, Quote, IsZero, PopLevel, SetLevel, DropLevel
    <3>7. LevelsAreOffers'
      BY <1>2, <3>1, <3>3, <3>4, <3>6 DEF BookInv, LevelsAreOffers, Offered
    <3> QED
      BY <3>1, <3>2, <3>4, <3>5, <3>7 DEF BookInv
  <2>2. ASSUME NEW n \in 0 .. MaxAsks, NEW asks \in [1 .. n -> Entry],
               UpdateLevelsFromPartial(asks)
        PROVE  BookInv'
    <3>1. asks \in Seq(Entry)
      OBVIOUS
    <3>2. quoted' \in [Prices -> Quantities] /\ ask' = OffersOf(quoted')
      BY <2>2, <3>1, PartialGivesOffers DEF UpdateLevelsFromPartial
    <3>3. misread' = {}
      BY <2>2 DEF UpdateLevelsFromPartial
    <3> QED
      BY <3>2, <3>3 DEF BookInv, LevelsAreOffers, Offered, OffersOf
  <2>3. CASE UNCHANGED bookVars
    BY <1>2, <2>3 DEF bookVars, BookInv, LevelsAreOffers, Offered
  <2> QED
    BY <1>2, <2>1, <2>2, <2>3 DEF BookNext
<1> QED
  BY <1>1, <1>2, PTL DEF BookSpec

(***************************************************************************)
(* Through any mixture of partial and single updates a price is a level    *)
(* exactly when it is offered, but for the prices update_level was last    *)
(* told, partly in text, to delete (orderbook.py:26-55).                   *)
(***************************************************************************)
THEOREM OffersAreInTheBook ==
  ASSUME BookInputs
  PROVE  BookSpec => []LevelsAreOffers
<1>1. BookInv => LevelsAreOffers
  BY DEF BookInv
<1> QED
  BY <1>1, BookHolds, PTL

(***************************************************************************)
(* With no price misread, as after every partial update, the best price is *)
(* the lowest offer, and the dummy exactly when nothing is offered         *)
(* (orderbook.py:57-66).                                                   *)
(***************************************************************************)
THEOREM BestPriceIsLowest ==
  ASSUME BookInputs
  PROVE  BookSpec => [](misread = {} => BestIsLowestOffer)
<1>1. BookInv => (misread = {} => BestIsLowestOffer)
  <2> SUFFICES ASSUME BookInv, misread = {} PROVE BestIsLowestOffer
    OBVIOUS
  <2>1. DOMAIN ask = Offered /\ \A p \in Offered : ask[p] = quoted[p]
    BY DEF BookInv, LevelsAreOffers, Offered
  <2>2. CASE ask = NoLevels
    <3>1. Offered = {}
      BY <2>1, <2>2 DEF NoLevels
    <3> QED
      BY <2>2, <3>1 DEF BestPrice, BestIsLowestOffer
  <2>3. CASE ask # NoLevels /\ Offered # {}
    <3>1. Offered \subseteq Nat
      BY DEF Offered, BookInputs
    <3>2. \E p \in DOMAIN ask : \A x \in DOMAIN ask : p <= x
      BY <2>1, <2>3, <3>1, Levels!LeastNumber
    <3>3. Lowest \in Offered /\ \A x \in Offered : Lowest <= x
      BY <2>1, <3>2 DEF Lowest
    <3>4. BestPrice.price = Lowest /\ BestPrice.quantity = ask[Lowest]
      BY <2>3 DEF BestPrice
    <3> QED
      BY <2>1, <3>3, <3>4 DEF BestIsLowestOffer
  <2>4. CASE Offered = {} /\ ask # NoLevels
    <3>1. ask = [p \in DOMAIN ask |-> ask[p]]
      BY DEF BookInv
    <3> QED
      BY <2>1, <2>4, <3>1 DEF NoLevels
  <2> QED
    BY <2>2, <2>3, <2>4
<1> QED
  BY <1>1, BookHolds, PTL
=============================================================================
