-------------------------------- MODULE Paths --------------------------------
(***************************************************************************)
(* The graph of the currencies (add_to_graph, app/utils.py:110-120) and    *)
(* find_cycles (app/paths.py:9-92), which main runs after every update     *)
(* once all the books are populated.                                       *)
(*                                                                         *)
(* A rate is its logarithm, an integer, so that a path's value is above    *)
(* 1.0 when the sum of its logarithms is above 0.  Python's dicts keep the *)
(* order of insertion, and the answer depends on it: the currencies and    *)
(* the neighbours of each are in the order of the markets' first updates,  *)
(* and Root, inserted by the first search, comes last.                     *)
(***************************************************************************)
EXTENDS Integers, SequencesExt

CONSTANTS
  Source,    \* the currency a path starts from, "USDT"
  Root,      \* the dummy node
  Markets,   \* the markets, <<base, quote>>
  LogRates   \* bound on the logarithms of the rates, after the fee

Currencies == UNION {{m[1], m[2]} : m \in Markets}

ASSUME GraphInputs == /\ Markets \subseteq Currencies \X Currencies
                      /\ \A m \in Markets : <<m[2], m[1]>> \notin Markets
                      /\ Source \in Currencies
                      /\ Root \notin Currencies
                      /\ LogRates \subseteq Int

VARIABLES
  order,    \* the markets in the order of their first updates
  logRate,  \* the logarithm of the last rate of each market of order
  phase,    \* "update", "search" or "raised"
  found     \* what the search returned, gone with the next update

pathVars == <<order, logRate, phase, found>>

PathsInit == order = <<>> /\ logRate = <<>> /\ phase = "update" /\ found = <<>>

-----------------------------------------------------------------------------
Connected(a, b) == <<a, b>> \in Markets \/ <<b, a>> \in Markets

\* rates[a][b]: the rate of the market or its inverse.
Rate(a, b) == IF <<a, b>> \in Markets THEN logRate[<<a, b>>]
                                      ELSE -logRate[<<b, a>>]

AddCurrency(vs, c) == IF c \in Range(vs) THEN vs ELSE Append(vs, c)

AddMarket(vs, m) == AddCurrency(AddCurrency(vs, m[1]), m[2])

Vertices == FoldLeft(AddMarket, <<>>, order)

\* Slip: the sign of the weight.
PlusRate(a, b) == Rate(a, b)

Weight(a, b) == -Rate(a, b)

Target(v, m) == IF m[1] = v THEN m[2] ELSE m[1]

\* A visit is a currency and one of the markets, in their order.
AddEdge(edges, visit) ==
  LET v == visit[1]
      m == visit[2]
  IN  IF v \in Range(m)
      THEN Append(edges, [from |-> v, to |-> Target(v, m), w |-> Weight(v, Target(v, m))])
      ELSE edges

EdgesFrom(v) == FoldLeft(AddEdge, <<>>, [i \in DOMAIN order |-> <<v, order[i]>>])

\* Slip: a tie relaxes.
RelaxesOnTie(st, e) == st.dist[e.to] >= st.dist[e.from] + e.w

Relaxes(st, e) == st.dist[e.to] > st.dist[e.from] + e.w

Relax(st, e) ==
  IF Relaxes(st, e)
  THEN [dist |-> [st.dist EXCEPT ![e.to] = st.dist[e.from] + e.w],
        pred |-> [st.pred EXCEPT ![e.to] = e.from]]
  ELSE st

RelaxFrom(st, v) == FoldLeft(Relax, st, EdgesFrom(v))

RelaxAll(st, pass) == FoldLeft(RelaxFrom, st, Vertices)

\* The first of the passes reaches every currency from Root, the last of the
\* keys, and nothing else.
Reached == [dist |-> [c \in Currencies |-> 0], pred |-> [c \in Currencies |-> Root]]

\* With Root there is one key more than there are currencies, and one pass
\* less than keys.
Passes == [i \in 1 .. Len(Vertices) - 1 |-> i + 1]

Relaxed == FoldLeft(RelaxAll, Reached, Passes)

(***************************************************************************)
(* The last pass lowers distances, notes the currencies in the order they  *)
(* are found, and leaves the predecessors alone.                           *)
(***************************************************************************)
FindCyclic(st, e) ==
  IF Relaxes(st, e)
  THEN [dist |-> [st.dist EXCEPT ![e.to] = st.dist[e.from] + e.w],
        cyclic |-> AddCurrency(st.cyclic, e.to)]
  ELSE st

FindCyclicFrom(st, v) == FoldLeft(FindCyclic, st, EdgesFrom(v))

CyclicAfter(relaxed) ==
  FoldLeft(FindCyclicFrom, [dist |-> relaxed.dist, cyclic |-> <<>>], Vertices).cyclic

(***************************************************************************)
(* The predecessors of v until one was visited, or Root: pred has no Root. *)
(* There is a step for each currency, which is enough to meet one twice.   *)
(***************************************************************************)
Follow(chain, step) ==
  LET p == chain.pred[Last(chain.seq)]
  IN  CASE chain.end # "open" -> chain
        [] chain.end = "open" /\ p = Root -> [chain EXCEPT !.end = "KeyError"]
        [] chain.end = "open" /\ p \in Range(chain.seq) -> [chain EXCEPT !.end = "visited"]
        [] OTHER -> [chain EXCEPT !.seq = Append(@, p)]

Chain(pred, v) == FoldLeft(Follow, [pred |-> pred, seq |-> <<v>>, end |-> "open"], Vertices)

\* The chains of the currencies of the last pass, in the order they were found.
Chains == LET relaxed == Relaxed
              cyclic == CyclicAfter(relaxed)
          IN  [i \in DOMAIN cyclic |-> Chain(relaxed.pred, cyclic[i])]

Closed(seq) == Append(Reverse(seq), Last(seq))

Legs(path) == 1 .. Len(path) - 1

HasRates(path) == \A i \in Legs(path) : Connected(path[i], path[i + 1])

Value(path) == MapThenSumSet(LAMBDA i : Rate(path[i], path[i + 1]), Legs(path))

\* Slip: the start is not looked at.
FromAnywhere(path) == HasRates(path)

FromSource(path) == HasRates(path) /\ path[1] = Source

\* A path with a missing rate or another start is left out.
AddPath(seqs, chain) ==
  LET path == Closed(chain.seq)
  IN  IF FromSource(path) THEN Append(seqs, [currencies |-> path, value |-> Value(path)])
                          ELSE seqs

SourcePaths(chains) == FoldLeft(AddPath, <<>>, chains)

\* sort(reverse=True) leaves equal values in their order.
Insert(seqs, s) ==
  InsertAt(seqs, 1 + Cardinality({i \in DOMAIN seqs : seqs[i].value >= s.value}), s)

SortedByValue(seqs) == FoldLeft(Insert, <<>>, seqs)

(***************************************************************************)
(* Lines 88-90 delete from the list they iterate over: of the paths of no  *)
(* profit, which are last, every second is passed over.                    *)
(***************************************************************************)
DeleteUnprofitable(seqs) ==
  LET good == Cardinality({i \in DOMAIN seqs : seqs[i].value > 0})
  IN  SubSeq(seqs, 1, good) \o [j \in 1 .. (Len(seqs) - good) \div 2 |-> seqs[good + 2 * j]]

\* The KeyError of lines 60 and 65: nothing catches it.
Raises(chains) == \E i \in DOMAIN chains : chains[i].end = "KeyError"

-----------------------------------------------------------------------------
Seen(m) == IF m \in Range(order) THEN order ELSE Append(order, m)

AddToGraph(m, r) ==
  /\ phase = "update"
  /\ order' = Seen(m)
  /\ logRate' = [n \in Range(order') |-> IF n = m THEN r ELSE logRate[n]]
  /\ phase' = IF Range(order') = Markets THEN "search" ELSE "update"
  /\ found' = <<>>

FindCycles ==
  /\ phase = "search"
  /\ LET chains == Chains
     IN  \/ /\ ~Raises(chains)
            /\ phase' = "update"
            /\ found' = DeleteUnprofitable(SortedByValue(SourcePaths(chains)))
         \/ /\ Raises(chains)
            /\ phase' = "raised"
            /\ UNCHANGED found
  /\ UNCHANGED <<order, logRate>>

PathsNext == \/ \E m \in Markets, r \in LogRates : AddToGraph(m, r)
             \/ FindCycles

PathsSpec == PathsInit /\ [][PathsNext]_pathVars

-----------------------------------------------------------------------------
\* The reference: every closed path of three currencies or more, by any means.
ProfitExists ==
  \E n \in 3 .. Cardinality(Currencies) :
    \E p \in Injection(1 .. n, Currencies) :
      HasRates(Append(p, p[1])) /\ Value(Append(p, p[1])) > 0

(***************************************************************************)
(* The last pass finds something to relax exactly when some cycle of the   *)
(* graph makes a profit, in whatever order the markets were first seen.    *)
(***************************************************************************)
DetectsProfit == phase = "search" => (Chains # <<>> <=> ProfitExists)

(***************************************************************************)
(* Whatever find_cycles returns is a path main can price and the executor  *)
(* could walk: it starts and ends with the source, visits no currency      *)
(* twice, has a market for every leg, and the value is that of these legs  *)
(* in this order.                                                          *)
(***************************************************************************)
FoundAreCycles ==
  \A i \in DOMAIN found :
    LET p == found[i].currencies
    IN  /\ p[1] = Source /\ Last(p) = Source
        /\ Len(p) > 3
        /\ IsInjective(Front(p))
        /\ HasRates(p)
        /\ found[i].value = Value(p)

(***************************************************************************)
(* README.md:12: "a negative cycle will indicate a list of trades which,   *)
(* when executed, should return a profit".  It does, although a chain may  *)
(* be closed by a leg that is not one of its predecessors, and although    *)
(* the deletion would pass over a second path of no profit.                *)
(***************************************************************************)
FoundMakeProfit == \A i \in DOMAIN found : found[i].value > 0

(***************************************************************************)
(* README.md:3: "designed to find tri, quad and pent-arbitrage             *)
(* opportunities": a search for one comes back.                            *)
(***************************************************************************)
SearchReturns == phase # "raised"
=============================================================================
