------------------------------ MODULE MarketNames ------------------------------
(***************************************************************************)
(* The names of markets (app/utils.py:49-107).  The exchange's name of a   *)
(* market is that of its base followed by that of its quote currency, with *)
(* nothing in between: the bot has to find out where the one ends, and     *)
(* which of two names a pair is traded under.                              *)
(***************************************************************************)
EXTENDS Naturals, Sequences

CONSTANTS
  Letters,
  QuoteCurrencies,   \* the list of give_base_quote, in its order
  Listed             \* CONFIG.MARKETS: base and quote as the exchange has them

Currency == Seq(Letters)
Name(market) == market.base \o market.quote
Names == {Name(market) : market \in Listed}

\* m[-l:] == c
EndsWith(m, c) == Len(c) <= Len(m) /\ SubSeq(m, Len(m) - Len(c) + 1, Len(m)) = c

NoSplit == [base |-> <<>>, quote |-> <<>>]

\* The loop does not stop at the first currency that fits: the last one counts.
GiveBaseQuote(m) ==
  LET fits == {i \in DOMAIN QuoteCurrencies : EndsWith(m, QuoteCurrencies[i])}
      quote == QuoteCurrencies[CHOOSE i \in fits : \A j \in fits : j <= i]
  IN  IF fits = {} THEN NoSplit
      ELSE [base |-> SubSeq(m, 1, Len(m) - Len(quote)), quote |-> quote]

\* Were neither name listed: UnboundLocalError.
MarketOf(from, to) == IF from \o to \in Names THEN from \o to ELSE to \o from

\* "none" is NoMarketError.
GivePairMarketDirection(from, to) ==
  LET split == GiveBaseQuote(MarketOf(from, to))
  IN  [market |-> MarketOf(from, to),
       direction |-> CASE from = split.base /\ to = split.quote -> "SELL"
                       [] from = split.quote /\ to = split.base -> "BUY"
                       [] OTHER -> "none"]

(***************************************************************************)
(* Of the exchange's names, as far as the bot listens to them: the quote   *)
(* is one of the list, no currency of the list ends with another one, and  *)
(* no pair is listed both ways, in whatever letters.                       *)
(***************************************************************************)
ASSUME NamesAreRegular ==
  /\ QuoteCurrencies \in Seq(Currency)
  /\ \A i, j \in DOMAIN QuoteCurrencies :
       EndsWith(QuoteCurrencies[i], QuoteCurrencies[j]) => i = j
  /\ Listed \subseteq [base : Currency, quote : Currency]
  /\ \A market \in Listed :
       /\ \E i \in DOMAIN QuoteCurrencies : market.quote = QuoteCurrencies[i]
       /\ market.quote \o market.base \notin Names
=============================================================================
