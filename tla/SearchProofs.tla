----------------------------- MODULE SearchProofs -----------------------------
(***************************************************************************)
(* What find_cycles returns (Paths) and what main makes of it (Selection). *)
(*                                                                         *)
(* Paths is a fold of folds: over the passes, the currencies of each, the  *)
(* edges of each currency.  An instance of FoldLemmas for each fold gives  *)
(* its steps, and a property of all of them follows from one of each step. *)
(* The last part is the proof of Selection, which uses nothing of Paths.   *)
(***************************************************************************)
EXTENDS Paths, Selection, FiniteSetTheorems, WellFoundedInduction, TLAPS

\* The folds of the search.
Seeing   == INSTANCE FoldLemmas WITH Op <- AddMarket
Adding   == INSTANCE FoldLemmas WITH Op <- AddEdge
Relaxing == INSTANCE FoldLemmas WITH Op <- Relax
Sweeping == INSTANCE FoldLemmas WITH Op <- RelaxFrom
Passing  == INSTANCE FoldLemmas WITH Op <- RelaxAll
Walking  == INSTANCE FoldLemmas WITH Op <- Follow
Finding  == INSTANCE FoldLemmas WITH Op <- FindCyclic
Noting   == INSTANCE FoldLemmas WITH Op <- FindCyclicFrom
Keeping  == INSTANCE FoldLemmas WITH Op <- AddPath
Sorting  == INSTANCE FoldLemmas WITH Op <- Insert

\* All the rates are there: every search starts with them.
Rated == /\ order \in Seq(Markets) /\ Range(order) = Markets
         /\ logRate \in [Markets -> Int]

\* A market is a pair of two currencies.
LEMMA MarketPair ==
  ASSUME NEW m \in Markets
  PROVE  /\ m = <<m[1], m[2]>> /\ Range(m) = {m[1], m[2]} /\ m[1] # m[2]
         /\ m[1] \in Currencies /\ m[2] \in Currencies
<1>1. /\ m \in Currencies \X Currencies /\ <<m[2], m[1]>> \notin Markets
  BY GraphInputs
<1>2. m = <<m[1], m[2]>> /\ m[1] \in Currencies /\ m[2] \in Currencies
  BY <1>1
<1>3. Range(m) = {m[1], m[2]}
  BY <1>2 DEF Range
<1> QED
  BY <1>1, <1>2, <1>3

\* A market gives a rate each way, one the inverse of the other.
LEMMA BothWays ==
  ASSUME Rated, NEW a, NEW b, Connected(a, b)
  PROVE  /\ a \in Currencies /\ b \in Currencies /\ a # b
         /\ Connected(b, a)
         /\ Rate(a, b) \in Int /\ Rate(b, a) = -Rate(a, b)
         /\ Weight(a, b) \in Int /\ Weight(b, a) = -Weight(a, b)
         /\ Weight(a, b) = Rate(b, a)
<1>1. CASE <<a, b>> \in Markets
  <2>1. /\ a \in Currencies /\ b \in Currencies /\ a # b
        /\ <<b, a>> \notin Markets
    BY <1>1, MarketPair, GraphInputs
  <2>2. Rate(a, b) = logRate[<<a, b>>] /\ Rate(b, a) = -logRate[<<a, b>>]
    BY <1>1, <2>1 DEF Rate
  <2>3. logRate[<<a, b>>] \in Int
    BY <1>1 DEF Rated
  <2> QED
    BY <1>1, <2>1, <2>2, <2>3 DEF Weight, Connected
<1>2. CASE <<b, a>> \in Markets
  <2>1. /\ a \in Currencies /\ b \in Currencies /\ a # b
        /\ <<a, b>> \notin Markets
    BY <1>2, MarketPair, GraphInputs
  <2>2. Rate(b, a) = logRate[<<b, a>>] /\ Rate(a, b) = -logRate[<<b, a>>]
    BY <1>2, <2>1 DEF Rate
  <2>3. logRate[<<b, a>>] \in Int
    BY <1>2 DEF Rated
  <2> QED
    BY <1>2, <2>1, <2>2, <2>3 DEF Weight, Connected
<1> QED
  BY <1>1, <1>2 DEF Connected

\* What an edge of v leads to has a market with v.
LEMMA TargetIsConnected ==
  ASSUME Rated, NEW v, NEW m \in Markets, v \in Range(m)
  PROVE  Connected(v, Target(v, m))
BY MarketPair DEF Target, Connected

\* What has a market with v is led to by an edge of v.
LEMMA ConnectedIsTarget ==
  ASSUME NEW v, NEW x, Connected(v, x)
  PROVE  \E m \in Markets : v \in Range(m) /\ Target(v, m) = x
<1>1. CASE <<v, x>> \in Markets
  BY <1>1, MarketPair DEF Target
<1>2. CASE <<x, v>> \in Markets
  BY <1>2, MarketPair DEF Target
<1> QED
  BY <1>1, <1>2 DEF Connected

Edge(v, x) == [from |-> v, to |-> x, w |-> Weight(v, x)]

Edges(v) == {Edge(v, x) : x \in {y \in Currencies : Connected(v, y)}}

(***************************************************************************)
(* From a currency there is an edge to each it has a market with, and to   *)
(* nothing else.                                                           *)
(***************************************************************************)
LEMMA EdgesFromAre ==
  ASSUME Rated, NEW v
  PROVE  /\ EdgesFrom(v) \in Seq(Edges(v))
         /\ \A x : Connected(v, x) => \E j \in 1 .. Len(EdgesFrom(v)) : EdgesFrom(v)[j].to = x
<1> DEFINE visits == [i \in DOMAIN order |-> <<v, order[i]>>]
           n == Len(order)
<1>1. /\ n \in Nat /\ DOMAIN order = 1 .. n
      /\ \A i \in 1 .. n : order[i] \in Markets
  BY DEF Rated
<1>2. /\ visits \in Seq({v} \X Markets) /\ Len(visits) = n
      /\ \A i \in 1 .. n : visits[i] = <<v, order[i]>>
  BY <1>1
<1>3. PICK acc : /\ acc[0] = <<>>
                 /\ \A i \in 1 .. Len(visits) : acc[i] = AddEdge(acc[i - 1], visits[i])
                 /\ Adding!Folded(<<>>, visits) = acc[Len(visits)]
  <2> HIDE DEF visits
  <2> QED
    BY <1>2, Adding!FoldSteps
<1> DEFINE Holds(edges, i) ==
             /\ edges \in Seq(Edges(v))
             /\ \A k \in 1 .. i : v \in Range(order[k]) =>
                  \E j \in 1 .. Len(edges) : edges[j].to = Target(v, order[k])
           A == {i \in 0 .. n : Holds(acc[i], i)}
<1>4. 0 \in A
  <2>1. Holds(<<>>, 0)
    OBVIOUS
  <2> HIDE DEF Holds
  <2> QED
    BY <1>1, <1>3, <2>1
<1>5. ASSUME NEW i \in 1 .. n, i - 1 \in A PROVE i \in A
  <2>1. Holds(acc[i - 1], i - 1) /\ order[i] \in Markets
    BY <1>1, <1>5
  <2>2. acc[i] = AddEdge(acc[i - 1], <<v, order[i]>>)
    BY <1>2, <1>3
  <2>3. CASE v \in Range(order[i])
    <3> DEFINE e == Edge(v, Target(v, order[i]))
    <3>1. Connected(v, Target(v, order[i]))
      BY <2>1, <2>3, TargetIsConnected
    <3>2. e \in Edges(v) /\ e.to = Target(v, order[i])
      BY <3>1, BothWays DEF Edges, Edge
    <3>3. acc[i] = Append(acc[i - 1], e)
      BY <2>2, <2>3 DEF AddEdge, Edge
    <3> HIDE DEF e
    <3>4. /\ acc[i] \in Seq(Edges(v)) /\ Len(acc[i]) = Len(acc[i - 1]) + 1
          /\ \A j \in 1 .. Len(acc[i - 1]) : acc[i][j] = acc[i - 1][j]
          /\ acc[i][Len(acc[i])] = e
          /\ Len(acc[i - 1]) \in Nat
      BY <2>1, <3>2, <3>3
    <3>5. ASSUME NEW k \in 1 .. i, v \in Range(order[k])
          PROVE  \E j \in 1 .. Len(acc[i]) : acc[i][j].to = Target(v, order[k])
      <4>1. CASE k = i
        BY <3>2, <3>4, <4>1
      <4>2. CASE k # i
        <5>1. PICK j \in 1 .. Len(acc[i - 1]) : acc[i - 1][j].to = Target(v, order[k])
          BY <2>1, <3>5, <4>2
        <5> QED
          BY <3>4, <5>1
      <4> QED
        BY <4>1, <4>2
    <3>6. Holds(acc[i], i)
      BY <3>4, <3>5
    <3> HIDE DEF Holds
    <3> QED
      BY <3>6
  <2>4. CASE v \notin Range(order[i])
    <3>1. acc[i] = acc[i - 1]
      BY <2>2, <2>4 DEF AddEdge
    <3> QED
      BY <2>1, <2>4, <3>1
  <2> QED
    BY <2>3, <2>4
<1>6. Holds(acc[n], n)
  <2> HIDE DEF A
  <2>1. 0 .. n \subseteq A
    BY <1>1, <1>4, <1>5, Adding!UpTo
  <2> QED
    BY <1>1, <2>1 DEF A
<1>7. EdgesFrom(v) = acc[n]
  <2>1. FoldLeft(AddEdge, <<>>, visits) = Adding!Folded(<<>>, visits)
    <3> HIDE DEF visits
    <3> QED
      BY DEF FoldLeft, MapThenFoldSet, Max, Adding!Folded, Adding!FoldLeft,
             Adding!MapThenFoldSet, Adding!Max
  <2> QED
    BY <1>2, <1>3, <2>1 DEF EdgesFrom
<1>8. \A x : Connected(v, x) => \E j \in 1 .. Len(acc[n]) : acc[n][j].to = x
  <2> SUFFICES ASSUME NEW x, Connected(v, x)
               PROVE  \E j \in 1 .. Len(acc[n]) : acc[n][j].to = x
    OBVIOUS
  <2>1. PICK m \in Markets : v \in Range(m) /\ Target(v, m) = x
    BY ConnectedIsTarget
  <2>2. PICK k \in 1 .. n : order[k] = m
    BY <1>1 DEF Rated, Range
  <2> QED
    BY <1>6, <2>1, <2>2
<1> QED
  BY <1>6, <1>7, <1>8

-----------------------------------------------------------------------------
(* Relaxing the edges of one currency.                                     *)

State == [dist : [Currencies -> Int], pred : [Currencies -> Currencies \cup {Root}]]

Improves(st, v, x) == Connected(v, x) /\ st.dist[v] + Weight(v, x) < st.dist[x]

\* What relaxing the edges from v to the currencies of X makes of st.
Improved(st, after, v, X) ==
  /\ after \in State
  /\ \A x \in Currencies :
       IF x \in X /\ Improves(st, v, x)
       THEN after.dist[x] = st.dist[v] + Weight(v, x) /\ after.pred[x] = v
       ELSE after.dist[x] = st.dist[x] /\ after.pred[x] = st.pred[x]

\* One edge more improves what it leads to, and nothing else.
LEMMA RelaxEdge ==
  ASSUME Rated, NEW st \in State, NEW v \in Currencies, NEW X, NEW mid,
         Improved(st, mid, v, X), NEW e \in Edges(v)
  PROVE  Improved(st, Relax(mid, e), v, X \cup {e.to})
<1>1. PICK y \in Currencies : e = Edge(v, y) /\ Connected(v, y)
  BY DEF Edges
<1>2. e.from = v /\ e.to = y /\ e.w = Weight(v, y) /\ y # v /\ Weight(v, y) \in Int
  BY <1>1, BothWays DEF Edge
<1>3. ~Improves(st, v, v)
  BY BothWays DEF Improves
<1>4. mid.dist[v] = st.dist[v]
  BY <1>3 DEF Improved
<1>5. /\ mid.dist \in [Currencies -> Int] /\ st.dist \in [Currencies -> Int]
      /\ mid.pred \in [Currencies -> Currencies \cup {Root}]
  BY DEF Improved, State
<1>6. CASE Relaxes(mid, e)
  <2> DEFINE after == [dist |-> [mid.dist EXCEPT ![y] = mid.dist[v] + Weight(v, y)],
                       pred |-> [mid.pred EXCEPT ![y] = v]]
  <2>1. Relax(mid, e) = after
    BY <1>2, <1>6 DEF Relax
  <2>2. after \in State
    BY <1>2, <1>5 DEF State
  <2>3. /\ \A x \in Currencies \ {y} : /\ after.dist[x] = mid.dist[x]
                                      /\ after.pred[x] = mid.pred[x]
        /\ after.dist[y] = mid.dist[v] + Weight(v, y)
        /\ after.pred[y] = v
    BY <1>5
  <2> HIDE DEF after
  <2>4. mid.dist[y] > mid.dist[v] + Weight(v, y)
    BY <1>2, <1>6 DEF Relaxes
  <2>5. Improves(st, v, y)
    BY <1>1, <1>2, <1>4, <1>5, <2>4 DEF Improved, Improves
  <2>6. Improved(st, after, v, X \cup {y})
    BY <1>4, <2>2, <2>3, <2>5 DEF Improved
  <2> QED
    BY <1>2, <2>1, <2>6
<1>7. CASE ~Relaxes(mid, e)
  <2>1. Relax(mid, e) = mid
    BY <1>7 DEF Relax
  <2>2. mid.dist[y] <= mid.dist[v] + Weight(v, y)
    BY <1>2, <1>5, <1>7 DEF Relaxes
  <2>3. y \in X \/ ~Improves(st, v, y)
    BY <1>2, <1>4, <1>5, <2>2 DEF Improved, Improves
  <2>4. Improved(st, mid, v, X \cup {y})
    BY <2>3 DEF Improved
  <2> QED
    BY <1>2, <2>1, <2>4
<1> QED
  BY <1>6, <1>7

(***************************************************************************)
(* Relaxing the edges of v improves what they lead to, all at once: no     *)
(* edge leads back to v itself.                                            *)
(***************************************************************************)
LEMMA RelaxFromImproves ==
  ASSUME Rated, NEW st \in State, NEW v \in Currencies
  PROVE  Improved(st, RelaxFrom(st, v), v, Currencies)
<1> DEFINE edges == EdgesFrom(v)
           n == Len(edges)
           reached(i) == {edges[k].to : k \in 1 .. i}
<1>1. /\ edges \in Seq(Edges(v)) /\ n \in Nat
      /\ \A i \in 1 .. n : edges[i] \in Edges(v)
      /\ \A x : Connected(v, x) => \E j \in 1 .. n : edges[j].to = x
  BY EdgesFromAre
<1> HIDE DEF edges
<1>2. PICK acc : /\ acc[0] = st
                 /\ \A i \in 1 .. n : acc[i] = Relax(acc[i - 1], edges[i])
                 /\ Relaxing!Folded(st, edges) = acc[n]
  BY <1>1, Relaxing!FoldSteps
<1> DEFINE A == {i \in 0 .. n : Improved(st, acc[i], v, reached(i))}
<1>3. 0 \in A
  <2>1. Improved(st, st, v, reached(0))
    BY DEF Improved
  <2> QED
    BY <1>1, <1>2, <2>1
<1>4. ASSUME NEW i \in 1 .. n, i - 1 \in A PROVE i \in A
  <2>1. reached(i) = reached(i - 1) \cup {edges[i].to}
    BY <1>1
  <2> HIDE DEF reached
  <2>2. Improved(st, Relax(acc[i - 1], edges[i]), v, reached(i - 1) \cup {edges[i].to})
    BY <1>1, <1>4, RelaxEdge
  <2>3. Improved(st, acc[i], v, reached(i))
    BY <1>2, <2>1, <2>2
  <2> QED
    BY <1>1, <2>3
<1>5. Improved(st, acc[n], v, reached(n))
  <2> HIDE DEF A
  <2>1. 0 .. n \subseteq A
    BY <1>1, <1>3, <1>4, Relaxing!UpTo
  <2>2. n \in A
    BY <1>1, <2>1
  <2> HIDE DEF reached
  <2> QED
    BY <2>2 DEF A
<1>6. \A x \in Currencies : Improves(st, v, x) => x \in reached(n)
  BY <1>1 DEF Improves
<1>7. Improved(st, acc[n], v, Currencies)
  BY <1>5, <1>6 DEF Improved
<1>8. RelaxFrom(st, v) = acc[n]
  <2>1. FoldLeft(Relax, st, edges) = Relaxing!Folded(st, edges)
    BY DEF FoldLeft, MapThenFoldSet, Max, Relaxing!Folded, Relaxing!FoldLeft,
           Relaxing!MapThenFoldSet, Relaxing!Max
  <2> QED
    BY <1>2, <2>1 DEF RelaxFrom, edges
<1> QED
  BY <1>7, <1>8

-----------------------------------------------------------------------------
(* The currencies in their order, and the passes over them.                *)

\* A currency is added once.
LEMMA AddCurrencyAdds ==
  ASSUME NEW S, NEW vs \in Seq(S), IsInjective(vs), NEW c \in S
  PROVE  /\ AddCurrency(vs, c) \in Seq(S)
         /\ IsInjective(AddCurrency(vs, c))
         /\ Range(AddCurrency(vs, c)) = Range(vs) \cup {c}
<1>1. CASE c \in Range(vs)
  BY <1>1 DEF AddCurrency
<1>2. CASE c \notin Range(vs)
  <2> DEFINE new == Append(vs, c)
  <2>1. /\ new \in Seq(S) /\ DOMAIN new = 1 .. Len(vs) + 1 /\ Len(vs) \in Nat
        /\ DOMAIN vs = 1 .. Len(vs)
        /\ \A i \in 1 .. Len(vs) : new[i] = vs[i]
        /\ new[Len(vs) + 1] = c
    OBVIOUS
  <2> HIDE DEF new
  <2>2. Range(new) = Range(vs) \cup {c}
    BY <2>1 DEF Range
  <2>3. IsInjective(new)
    BY <1>2, <2>1 DEF Range, IsInjective
  <2> QED
    BY <1>2, <2>1, <2>2, <2>3 DEF AddCurrency, new
<1> QED
  BY <1>1, <1>2

\* A market adds its two currencies.
LEMMA AddMarketAdds ==
  ASSUME NEW vs \in Seq(Currencies), IsInjective(vs), NEW m \in Markets
  PROVE  /\ AddMarket(vs, m) \in Seq(Currencies)
         /\ IsInjective(AddMarket(vs, m))
         /\ Range(AddMarket(vs, m)) = Range(vs) \cup {m[1], m[2]}
<1>1. m[1] \in Currencies /\ m[2] \in Currencies
  BY MarketPair
<1>2. PICK mid : mid = AddCurrency(vs, m[1])
  OBVIOUS
<1>3. mid \in Seq(Currencies) /\ IsInjective(mid)
  BY <1>1, <1>2, AddCurrencyAdds
<1>4. Range(mid) = Range(vs) \cup {m[1]}
  BY <1>1, <1>2, AddCurrencyAdds
<1>5. /\ AddCurrency(mid, m[2]) \in Seq(Currencies)
      /\ IsInjective(AddCurrency(mid, m[2]))
      /\ Range(AddCurrency(mid, m[2])) = Range(mid) \cup {m[2]}
  <2>1. PICK c \in Currencies : c = m[2]
    BY <1>1
  <2>2. AddCurrency(mid, c) \in Seq(Currencies)
    BY <1>3, AddCurrencyAdds
  <2>3. IsInjective(AddCurrency(mid, c))
    BY <1>3, AddCurrencyAdds
  <2>4. Range(AddCurrency(mid, c)) = Range(mid) \cup {c}
    BY <1>3, AddCurrencyAdds
  <2> QED
    BY <2>1, <2>2, <2>3, <2>4
<1> QED
  BY <1>2, <1>4, <1>5 DEF AddMarket

(***************************************************************************)
(* Every currency is once among the vertices.                              *)
(***************************************************************************)
LEMMA VerticesAreAll ==
  ASSUME Rated
  PROVE  /\ Vertices \in Seq(Currencies)
         /\ IsInjective(Vertices)
         /\ Range(Vertices) = Currencies
<1> DEFINE n == Len(order)
           Holds(vs, i) == /\ vs \in Seq(Currencies)
                           /\ IsInjective(vs)
                           /\ Range(vs) = {order[k][1] : k \in 1 .. i}
                                            \cup {order[k][2] : k \in 1 .. i}
<1>1. /\ n \in Nat /\ DOMAIN order = 1 .. n /\ order \in Seq(Markets)
      /\ \A i \in 1 .. n : order[i] \in Markets
  BY DEF Rated
<1>2. PICK acc : /\ acc[0] = <<>>
                 /\ \A i \in 1 .. n : acc[i] = AddMarket(acc[i - 1], order[i])
                 /\ Seeing!Folded(<<>>, order) = acc[n]
  BY <1>1, Seeing!FoldSteps
<1> DEFINE A == {i \in 0 .. n : Holds(acc[i], i)}
<1>3. 0 \in A
  <2>1. Holds(<<>>, 0)
    BY DEF IsInjective, Range
  <2> HIDE DEF Holds
  <2> QED
    BY <1>1, <1>2, <2>1
<1>4. ASSUME NEW i \in 1 .. n, i - 1 \in A PROVE i \in A
  <2>1. PICK old : old = acc[i - 1]
    OBVIOUS
  <2>2. Holds(old, i - 1)
    BY <1>4, <2>1
  <2>3. PICK m \in Markets : m = order[i]
    BY <1>1
  <2>4. acc[i] = AddMarket(old, m)
    BY <1>2, <2>1, <2>3
  <2>5. /\ acc[i] \in Seq(Currencies) /\ IsInjective(acc[i])
        /\ Range(acc[i]) = Range(old) \cup {m[1], m[2]}
    BY <2>2, <2>4, AddMarketAdds
  <2>6. /\ {order[k][1] : k \in 1 .. i} = {order[k][1] : k \in 1 .. i - 1} \cup {m[1]}
        /\ {order[k][2] : k \in 1 .. i} = {order[k][2] : k \in 1 .. i - 1} \cup {m[2]}
    BY <1>1, <2>3
  <2>7. Holds(acc[i], i)
    BY <2>2, <2>5, <2>6
  <2> HIDE DEF Holds
  <2> QED
    BY <2>7
<1>5. Holds(acc[n], n)
  <2> HIDE DEF A
  <2>1. 0 .. n \subseteq A
    BY <1>1, <1>3, <1>4, Seeing!UpTo
  <2>2. n \in A
    BY <1>1, <2>1
  <2> HIDE DEF Holds
  <2> QED
    BY <2>2 DEF A
<1>6. {order[k][1] : k \in 1 .. n} \cup {order[k][2] : k \in 1 .. n} = Currencies
  <2>1. Markets = {order[k] : k \in 1 .. n}
    BY <1>1 DEF Rated, Range
  <2> QED
    BY <2>1 DEF Currencies
<1>7. Vertices = acc[n]
  <2>1. FoldLeft(AddMarket, <<>>, order) = Seeing!Folded(<<>>, order)
    BY DEF FoldLeft, MapThenFoldSet, Max, Seeing!Folded, Seeing!FoldLeft,
           Seeing!MapThenFoldSet, Seeing!Max
  <2> QED
    BY <1>2, <2>1 DEF Vertices
<1> QED
  BY <1>5, <1>6, <1>7

\* What relaxing the edges of any currency keeps, a pass keeps.
LEMMA PassKeeps ==
  ASSUME Rated, NEW T, \A st \in T, v \in Currencies : RelaxFrom(st, v) \in T,
         NEW st \in T, NEW pass
  PROVE  RelaxAll(st, pass) \in T
<1>1. /\ Vertices \in Seq(Currencies)
      /\ \A i \in 1 .. Len(Vertices) : Vertices[i] \in Currencies
  BY VerticesAreAll
<1>2. Sweeping!Folded(st, Vertices) \in T
  BY <1>1, Sweeping!FoldKeeps
<1>3. FoldLeft(RelaxFrom, st, Vertices) = Sweeping!Folded(st, Vertices)
  BY DEF FoldLeft, MapThenFoldSet, Max, Sweeping!Folded, Sweeping!FoldLeft,
         Sweeping!MapThenFoldSet, Sweeping!Max
<1> QED
  BY <1>2, <1>3 DEF RelaxAll

(***************************************************************************)
(* What relaxing the edges of any currency keeps, all the passes keep.     *)
(***************************************************************************)
LEMMA PassesKeep ==
  ASSUME Rated, NEW T, \A st \in T, v \in Currencies : RelaxFrom(st, v) \in T,
         Reached \in T
  PROVE  Relaxed \in T
<1>1. Passes \in Seq(Nat)
  <2>1. Len(Vertices) \in Nat
    BY VerticesAreAll
  <2>2. CASE Len(Vertices) = 0
    BY <2>1, <2>2 DEF Passes
  <2>3. CASE Len(Vertices) # 0
    BY <2>1, <2>3 DEF Passes
  <2> QED
    BY <2>2, <2>3
<1>2. \A st \in T, i \in 1 .. Len(Passes) : RelaxAll(st, Passes[i]) \in T
  BY PassKeeps
<1>3. Passing!Folded(Reached, Passes) \in T
  BY <1>1, <1>2, Passing!FoldKeeps
<1>4. FoldLeft(RelaxAll, Reached, Passes) = Passing!Folded(Reached, Passes)
  BY DEF FoldLeft, MapThenFoldSet, Max, Passing!Folded, Passing!FoldLeft,
         Passing!MapThenFoldSet, Passing!Max
<1> QED
  BY <1>3, <1>4 DEF Relaxed

-----------------------------------------------------------------------------
(***************************************************************************)
(* Where the predecessors come from.  Of each currency u whose edges were  *)
(* relaxed, at[u] is the time when they last were from a new distance, and *)
(* from[u] that distance; at[u] is 0 before the first time.  set[x] is the *)
(* time when the predecessor of x was set.                                 *)
(***************************************************************************)
Times(from, at, set, end) == /\ end \in Nat \ {0}
                             /\ from \in [Currencies -> Int]
                             /\ at \in [Currencies -> 0 .. end - 1]
                             /\ set \in [Currencies -> 0 .. end - 1]

\* No edge was left that would have improved something.
NoBetter(st, from, at) ==
  \A u, x \in Currencies :
    at[u] > 0 /\ Connected(u, x) => st.dist[x] <= from[u] + Weight(u, x)

\* A distance is what it was when its edges were relaxed, or smaller; if it
\* is what it was, it was set before.
Falls(st, from, at, set) ==
  \A u \in Currencies : at[u] > 0 => /\ st.dist[u] <= from[u]
                                     /\ st.dist[u] = from[u] => set[u] < at[u]

\* A distance was set with its predecessor.
SetBy(st, from, at, set) ==
  \A x \in Currencies : \A u \in Currencies :
    st.pred[x] = u => /\ at[u] > 0 /\ Connected(u, x)
                      /\ st.dist[x] = from[u] + Weight(u, x)
                      /\ set[x] = at[u]

\* What would have set the same distance, but is not the predecessor, came
\* later.
Ties(st, from, at, set) ==
  \A s, x \in Currencies :
    at[s] > 0 /\ Connected(s, x) /\ st.pred[x] # s /\ st.dist[x] = from[s] + Weight(s, x)
      => set[x] < at[s]

Explains(st, from, at, set, end) ==
  /\ Times(from, at, set, end)
  /\ NoBetter(st, from, at)
  /\ Falls(st, from, at, set)
  /\ SetBy(st, from, at, set)
  /\ Ties(st, from, at, set)

Explained(st) == \E from, at, set, end : Explains(st, from, at, set, end)

\* Before the first pass nothing is to be explained.
LEMMA ReachedExplained == Reached \in State /\ Explained(Reached)
<1> DEFINE none == [c \in Currencies |-> 0]
<1>1. Reached \in State
  BY DEF Reached, State
<1>2. Explains(Reached, none, none, none, 1)
  BY GraphInputs DEF Explains, Times, NoBetter, Falls, SetBy, Ties, Reached
<1> QED
  BY <1>1, <1>2 DEF Explained

\* Relaxing the edges of v, one unit of time later, keeps the explanation.
LEMMA RelaxExplains ==
  ASSUME Rated, NEW st \in State, NEW v \in Currencies, NEW r,
         Improved(st, r, v, Currencies),
         NEW from, NEW at, NEW set, NEW end, Explains(st, from, at, set, end)
  PROVE  Explained(r)
<1> DEFINE again == at[v] = 0 \/ from[v] # st.dist[v]
           from2 == [from EXCEPT ![v] = st.dist[v]]
           at2 == IF again THEN [at EXCEPT ![v] = end] ELSE at
           set2 == [x \in Currencies |-> IF Improves(st, v, x) THEN end ELSE set[x]]
<1>1. Times(from, at, set, end) /\ Times(from2, at2, set2, end + 1)
  <2>1. Times(from, at, set, end)
    BY DEF Explains
  <2>2. st.dist[v] \in Int
    BY DEF State
  <2>3. at2 \in [Currencies -> 0 .. end]
    BY <2>1 DEF Times
  <2>4. set2 \in [Currencies -> 0 .. end]
    BY <2>1 DEF Times
  <2> QED
    BY <2>1, <2>2, <2>3, <2>4 DEF Times
<1>2. /\ \A x \in Currencies : st.dist[x] \in Int /\ r.dist[x] \in Int
      /\ r \in State
  BY DEF State, Improved
<1>3. \A u, x \in Currencies : Connected(u, x) => Weight(u, x) \in Int /\ u # x
  BY BothWays
<1>4. /\ \A u \in Currencies \ {v} : from2[u] = from[u] /\ at2[u] = at[u]
      /\ from2[v] = st.dist[v]
      /\ at2[v] = IF again THEN end ELSE at[v]
      /\ \A x \in Currencies : set2[x] = IF Improves(st, v, x) THEN end ELSE set[x]
  BY <1>1 DEF Times
<1>5. \A u \in Currencies : /\ at[u] \in 0 .. end - 1 /\ set[u] \in 0 .. end - 1
                            /\ from[u] \in Int /\ end \in Nat \ {0}
  BY <1>1 DEF Times
<1> HIDE DEF from2, at2, set2
<1>6. ~Improves(st, v, v)
  BY <1>3 DEF Improves
<1>7. /\ \A x \in Currencies : r.dist[x] <= st.dist[x]
      /\ r.dist[v] = st.dist[v]
  BY <1>2, <1>3, <1>6 DEF Improved, Improves
<1>8. \A x \in Currencies : Improves(st, v, x) => again
  BY <1>2, <1>3, <1>5 DEF Improves, Explains, NoBetter
<1>9. NoBetter(r, from2, at2)
  <2> SUFFICES ASSUME NEW u \in Currencies, NEW x \in Currencies, at2[u] > 0, Connected(u, x)
               PROVE  r.dist[x] <= from2[u] + Weight(u, x)
    BY DEF NoBetter
  <2>1. CASE u = v
    BY <1>2, <1>3, <1>4, <2>1 DEF Improved, Improves
  <2>2. CASE u # v
    <3>1. st.dist[x] <= from[u] + Weight(u, x)
      BY <1>4, <2>2 DEF Explains, NoBetter
    <3> QED
      BY <1>2, <1>3, <1>4, <1>5, <1>7, <2>2, <3>1
  <2> QED
    BY <2>1, <2>2
<1>10. Falls(r, from2, at2, set2)
  <2> SUFFICES ASSUME NEW u \in Currencies, at2[u] > 0
               PROVE  /\ r.dist[u] <= from2[u]
                      /\ r.dist[u] = from2[u] => set2[u] < at2[u]
    BY DEF Falls
  <2>1. CASE u = v /\ again
    BY <1>2, <1>4, <1>5, <1>6, <1>7, <2>1
  <2>2. CASE u = v /\ ~again
    BY <1>2, <1>4, <1>5, <1>6, <1>7, <2>2 DEF Explains, Falls
  <2>3. CASE u # v
    <3>1. /\ st.dist[u] <= from[u]
          /\ st.dist[u] = from[u] => set[u] < at[u]
      BY <1>4, <2>3 DEF Explains, Falls
    <3>2. Improves(st, v, u) => r.dist[u] < st.dist[u]
      BY <1>2, <1>3 DEF Improves, Improved
    <3> QED
      BY <1>2, <1>4, <1>5, <1>7, <2>3, <3>1, <3>2
  <2> QED
    BY <2>1, <2>2, <2>3
<1>11. ASSUME NEW x \in Currencies, ~Improves(st, v, x), st.pred[x] = v
       PROVE  ~again
  <2>1. at[v] > 0 /\ Connected(v, x) /\ st.dist[x] = from[v] + Weight(v, x)
    BY <1>11 DEF Explains, SetBy
  <2>2. st.dist[v] <= from[v]
    BY <2>1 DEF Explains, Falls
  <2>3. ~(st.dist[v] + Weight(v, x) < st.dist[x])
    BY <1>11, <2>1 DEF Improves
  <2> QED
    BY <1>2, <1>3, <1>5, <2>1, <2>2, <2>3
<1>12. SetBy(r, from2, at2, set2)
  <2> SUFFICES ASSUME NEW x \in Currencies, NEW u \in Currencies, r.pred[x] = u
               PROVE  /\ at2[u] > 0 /\ Connected(u, x)
                      /\ r.dist[x] = from2[u] + Weight(u, x)
                      /\ set2[x] = at2[u]
    BY DEF SetBy
  <2>1. CASE Improves(st, v, x)
    <3>1. u = v /\ r.dist[x] = st.dist[v] + Weight(v, x) /\ Connected(v, x)
      BY <2>1 DEF Improved, Improves
    <3> QED
      BY <1>4, <1>5, <1>8, <2>1, <3>1
  <2>2. CASE ~Improves(st, v, x)
    <3>1. st.pred[x] = u /\ r.dist[x] = st.dist[x]
      BY <2>2 DEF Improved
    <3>2. /\ at[u] > 0 /\ Connected(u, x)
          /\ st.dist[x] = from[u] + Weight(u, x)
          /\ set[x] = at[u]
      BY <3>1 DEF Explains, SetBy
    <3>3. u = v => ~again
      BY <1>11, <2>2, <3>1
    <3> QED
      BY <1>4, <2>2, <3>1, <3>2, <3>3
  <2> QED
    BY <2>1, <2>2
<1>13. Ties(r, from2, at2, set2)
  <2> SUFFICES ASSUME NEW s \in Currencies, NEW x \in Currencies, at2[s] > 0, Connected(s, x),
                      r.pred[x] # s, r.dist[x] = from2[s] + Weight(s, x)
               PROVE  set2[x] < at2[s]
    BY DEF Ties
  <2>1. ~Improves(st, v, x)
    <3>1. SUFFICES ASSUME Improves(st, v, x) PROVE FALSE
      OBVIOUS
    <3>2. r.pred[x] = v /\ r.dist[x] < st.dist[x]
      BY <1>2, <1>3, <3>1 DEF Improved, Improves
    <3>3. s # v /\ at[s] > 0
      BY <1>4, <3>2
    <3>4. st.dist[x] <= from[s] + Weight(s, x)
      BY <3>3 DEF Explains, NoBetter
    <3> QED
      BY <1>2, <1>3, <1>4, <1>5, <3>2, <3>3, <3>4
  <2>2. st.pred[x] = r.pred[x] /\ st.dist[x] = r.dist[x] /\ set2[x] = set[x]
    BY <1>4, <2>1 DEF Improved
  <2>3. CASE s = v /\ again
    BY <1>4, <1>5, <2>2, <2>3
  <2>4. CASE s # v \/ ~again
    <3>1. at[s] = at2[s] /\ from[s] = from2[s]
      BY <1>4, <2>4
    <3>2. set[x] < at[s]
      BY <2>2, <3>1 DEF Explains, Ties
    <3> QED
      BY <2>2, <3>1, <3>2
  <2> QED
    BY <2>3, <2>4
<1> QED
  BY <1>1, <1>9, <1>10, <1>12, <1>13 DEF Explains, Explained

(***************************************************************************)
(* When the passes are done every predecessor is explained.                *)
(***************************************************************************)
LEMMA RelaxedExplained ==
  ASSUME Rated
  PROVE  Relaxed \in State /\ Explained(Relaxed)
<1> DEFINE T == {st \in State : Explained(st)}
<1>1. ASSUME NEW st \in T, NEW v \in Currencies PROVE RelaxFrom(st, v) \in T
  <2>1. PICK from, at, set, end : Explains(st, from, at, set, end)
    BY DEF Explained
  <2>2. Improved(st, RelaxFrom(st, v), v, Currencies)
    BY RelaxFromImproves
  <2>3. Explained(RelaxFrom(st, v))
    BY <2>1, <2>2, RelaxExplains
  <2> QED
    BY <2>2, <2>3 DEF Improved
<1>2. Reached \in T
  BY ReachedExplained
<1> HIDE DEF T
<1>3. Relaxed \in T
  BY <1>1, <1>2, PassesKeep
<1> QED
  BY <1>3 DEF T

-----------------------------------------------------------------------------
(* The chain of predecessors from v, after n steps.                        *)

Ends == {"open", "visited", "KeyError"}

IsChain(chain, pred, v, n) ==
  /\ chain \in [pred : {pred}, seq : Seq(Currencies), end : Ends]
  /\ Len(chain.seq) >= 1 /\ chain.seq[1] = v
  /\ IsInjective(chain.seq)
  /\ \A i \in 1 .. Len(chain.seq) - 1 : chain.seq[i + 1] = pred[chain.seq[i]]
  /\ chain.end = "open" => Len(chain.seq) = n + 1
  /\ chain.end = "visited" => pred[Last(chain.seq)] \in Range(chain.seq)

\* One predecessor more keeps what is said of a chain.
LEMMA FollowKeeps ==
  ASSUME NEW pred \in [Currencies -> Currencies \cup {Root}], NEW v \in Currencies,
         NEW n \in Nat, NEW chain, IsChain(chain, pred, v, n), NEW step
  PROVE  IsChain(Follow(chain, step), pred, v, n + 1)
<1> DEFINE seq == chain.seq
           p == pred[Last(seq)]
<1>1. /\ chain = [pred |-> pred, seq |-> seq, end |-> chain.end]
      /\ seq \in Seq(Currencies) /\ Len(seq) \in Nat /\ Len(seq) >= 1
      /\ DOMAIN seq = 1 .. Len(seq)
      /\ Last(seq) = seq[Len(seq)] /\ Last(seq) \in Currencies
      /\ p \in Currencies \cup {Root}
      /\ chain.pred = pred
  BY DEF IsChain, Last
<1>2. CASE chain.end # "open"
  <2>1. Follow(chain, step) = chain
    BY <1>2 DEF Follow
  <2> QED
    BY <1>2, <2>1 DEF IsChain
<1>3. CASE chain.end = "open" /\ p = Root
  <2>1. p \notin Range(seq)
    BY <1>1, <1>3, GraphInputs DEF Range
  <2>2. Follow(chain, step) = [pred |-> pred, seq |-> seq, end |-> "KeyError"]
    BY <1>1, <1>3, <2>1 DEF Follow
  <2> QED
    BY <2>2 DEF IsChain, Ends
<1>4. CASE chain.end = "open" /\ p # Root /\ p \in Range(seq)
  <2>1. Follow(chain, step) = [pred |-> pred, seq |-> seq, end |-> "visited"]
    BY <1>1, <1>4 DEF Follow
  <2> QED
    BY <1>4, <2>1 DEF IsChain, Ends
<1>5. CASE chain.end = "open" /\ p # Root /\ p \notin Range(seq)
  <2> DEFINE new == Append(seq, p)
  <2>1. Follow(chain, step) = [pred |-> pred, seq |-> new, end |-> "open"]
    BY <1>1, <1>5 DEF Follow
  <2>2. p \in Currencies
    BY <1>1, <1>5
  <2>3. /\ new \in Seq(Currencies) /\ Len(new) = Len(seq) + 1
        /\ DOMAIN new = 1 .. Len(seq) + 1
        /\ \A i \in 1 .. Len(seq) : new[i] = seq[i]
        /\ new[Len(seq) + 1] = p
    BY <1>1, <2>2
  <2>4. Len(seq) = n + 1
    BY <1>5 DEF IsChain
  <2> HIDE DEF new
  <2>5. \A i \in 1 .. Len(new) - 1 : new[i + 1] = pred[new[i]]
    <3> SUFFICES ASSUME NEW i \in 1 .. Len(new) - 1 PROVE new[i + 1] = pred[new[i]]
      OBVIOUS
    <3>1. CASE i = Len(seq)
      BY <1>1, <2>3, <3>1
    <3>2. CASE i # Len(seq)
      <4>1. i \in 1 .. Len(seq) - 1 /\ i \in 1 .. Len(seq) /\ i + 1 \in 1 .. Len(seq)
        BY <1>1, <2>3, <3>2
      <4> QED
        BY <2>3, <4>1 DEF IsChain
    <3> QED
      BY <3>1, <3>2
  <2>6. IsInjective(new)
    <3>1. \A i, j \in 1 .. Len(seq) : seq[i] = seq[j] => i = j
      BY <1>1 DEF IsChain, IsInjective
    <3>2. \A i \in 1 .. Len(seq) : seq[i] # p
      BY <1>1, <1>5 DEF Range
    <3> QED
      BY <1>1, <2>3, <3>1, <3>2 DEF IsInjective
  <2> QED
    BY <1>1, <2>1, <2>3, <2>4, <2>5, <2>6 DEF IsChain, Ends
<1> QED
  BY <1>2, <1>3, <1>4, <1>5

\* The chain of v, once it ends.
LEMMA ChainFollows ==
  ASSUME Rated, NEW pred \in [Currencies -> Currencies \cup {Root}], NEW v \in Currencies
  PROVE  IsChain(Chain(pred, v), pred, v, Len(Vertices))
<1> DEFINE n == Len(Vertices)
           base == [pred |-> pred, seq |-> <<v>>, end |-> "open"]
<1>1. Vertices \in Seq(Currencies) /\ n \in Nat
  BY VerticesAreAll
<1>2. PICK acc : /\ acc[0] = base
                 /\ \A i \in 1 .. n : acc[i] = Follow(acc[i - 1], Vertices[i])
                 /\ Walking!Folded(base, Vertices) = acc[n]
  BY <1>1, Walking!FoldSteps
<1> DEFINE A == {i \in 0 .. n : IsChain(acc[i], pred, v, i)}
<1>3. 0 \in A
  <2>1. IsChain(base, pred, v, 0)
    BY DEF IsChain, Ends, IsInjective
  <2> QED
    BY <1>1, <1>2, <2>1
<1>4. ASSUME NEW i \in 1 .. n, i - 1 \in A PROVE i \in A
  <2>1. i - 1 \in Nat /\ (i - 1) + 1 = i
    BY <1>1
  <2>2. IsChain(acc[i - 1], pred, v, i - 1)
    BY <1>4
  <2>3. IsChain(Follow(acc[i - 1], Vertices[i]), pred, v, (i - 1) + 1)
    BY <2>1, <2>2, FollowKeeps
  <2>4. IsChain(acc[i], pred, v, i)
    BY <1>2, <2>1, <2>3
  <2> QED
    BY <1>1, <2>4
<1>5. IsChain(acc[n], pred, v, n)
  <2> HIDE DEF A
  <2>1. 0 .. n \subseteq A
    BY <1>1, <1>3, <1>4, Walking!UpTo
  <2>2. n \in A
    BY <1>1, <2>1
  <2> QED
    BY <2>2 DEF A
<1>6. Chain(pred, v) = acc[n]
  <2>1. FoldLeft(Follow, base, Vertices) = Walking!Folded(base, Vertices)
    BY DEF FoldLeft, MapThenFoldSet, Max, Walking!Folded, Walking!FoldLeft,
           Walking!MapThenFoldSet, Walking!Max
  <2> QED
    BY <1>2, <2>1 DEF Chain
<1> QED
  BY <1>5, <1>6

-----------------------------------------------------------------------------
(* What a closed chain is worth.                                           *)

\* Two currencies are not the predecessors of each other.
LEMMA NoPairOfPredecessors ==
  ASSUME Rated, NEW st \in State, Explained(st),
         NEW x \in Currencies, NEW u \in Currencies, st.pred[x] = u
  PROVE  u # x /\ Connected(u, x) /\ st.pred[u] # x
<1>1. PICK from, at, set, end : Explains(st, from, at, set, end)
  BY DEF Explained
<1>2. /\ at[u] > 0 /\ Connected(u, x) /\ st.dist[x] = from[u] + Weight(u, x)
      /\ set[x] = at[u] /\ u # x
  BY <1>1, BothWays DEF Explains, SetBy
<1>3. ASSUME st.pred[u] = x PROVE FALSE
  <2>1. at[x] > 0 /\ st.dist[u] = from[x] + Weight(x, u) /\ set[u] = at[x]
    BY <1>1, <1>3 DEF Explains, SetBy
  <2>2. /\ st.dist[u] <= from[u] /\ (st.dist[u] = from[u] => set[u] < at[u])
        /\ st.dist[x] <= from[x] /\ (st.dist[x] = from[x] => set[x] < at[x])
    BY <1>1, <1>2, <2>1 DEF Explains, Falls
  <2>3. /\ st.dist[u] \in Int /\ st.dist[x] \in Int /\ from[u] \in Int /\ from[x] \in Int
        /\ at[u] \in Nat /\ at[x] \in Nat
    BY <1>1 DEF State, Explains, Times
  <2>4. Weight(u, x) \in Int /\ Weight(x, u) = -Weight(u, x)
    BY <1>2, BothWays
  <2> QED
    BY <1>2, <2>1, <2>2, <2>3, <2>4
<1> QED
  BY <1>2, <1>3

\* There are two currencies at least.
LEMMA TwoVertices == Rated => Len(Vertices) \in Nat /\ Len(Vertices) >= 2
<1> SUFFICES ASSUME Rated PROVE Len(Vertices) \in Nat /\ Len(Vertices) >= 2
  OBVIOUS
<1>1. Vertices \in Seq(Currencies) /\ Range(Vertices) = Currencies
  BY VerticesAreAll
<1>2. PICK m \in Markets : Source \in {m[1], m[2]}
  BY GraphInputs DEF Currencies
<1>3. m[1] # m[2] /\ m[1] \in Currencies /\ m[2] \in Currencies
  BY MarketPair
<1>4. PICK i \in 1 .. Len(Vertices), j \in 1 .. Len(Vertices) :
             Vertices[i] = m[1] /\ Vertices[j] = m[2]
  BY <1>1, <1>3 DEF Range
<1> QED
  BY <1>1, <1>3, <1>4

(***************************************************************************)
(* A chain that does not lead to Root has three currencies or more.        *)
(***************************************************************************)
LEMMA ThreeOrMore ==
  ASSUME Rated, NEW st \in State, Explained(st), NEW v \in Currencies, NEW chain,
         IsChain(chain, st.pred, v, Len(Vertices)), chain.end # "KeyError"
  PROVE  Len(chain.seq) >= 3
<1> DEFINE seq == chain.seq
<1>1. /\ seq \in Seq(Currencies) /\ Len(seq) \in Nat /\ Len(seq) >= 1
      /\ DOMAIN seq = 1 .. Len(seq)
      /\ \A i \in 1 .. Len(seq) : seq[i] \in Currencies
      /\ \A i \in 1 .. Len(seq) - 1 : seq[i + 1] = st.pred[seq[i]]
      /\ chain.end \in Ends
  BY DEF IsChain
<1>2. CASE chain.end = "open"
  BY <1>2, TwoVertices DEF IsChain
<1>3. CASE chain.end = "visited"
  <2>1. PICK i \in 1 .. Len(seq) : st.pred[seq[Len(seq)]] = seq[i]
    BY <1>1, <1>3 DEF IsChain, Last, Range
  <2>2. Len(seq) # 1
    BY <1>1, <2>1, NoPairOfPredecessors
  <2>3. ASSUME Len(seq) = 2 PROVE FALSE
    <3>1. seq[2] = st.pred[seq[1]] /\ seq[1] \in Currencies /\ seq[2] \in Currencies
      BY <1>1, <2>3
    <3>2. st.pred[seq[2]] = seq[1] \/ st.pred[seq[2]] = seq[2]
      BY <2>1, <2>3
    <3> QED
      BY <3>1, <3>2, NoPairOfPredecessors
  <2>4. Len(seq) \in Nat /\ Len(seq) >= 1
    BY <1>1
  <2> HIDE DEF seq
  <2>5. Len(seq) >= 3
    BY <2>2, <2>3, <2>4
  <2> QED
    BY <2>5 DEF seq
<1> QED
  BY <1>1, <1>2, <1>3 DEF Ends

(***************************************************************************)
(* The value of a path, leg by leg.                                        *)
(***************************************************************************)
LEMMA ValueSteps ==
  ASSUME Rated, NEW path, NEW n \in Nat, Len(path) = n + 1, HasRates(path)
  PROVE  \E acc \in [0 .. n -> Int] :
           /\ acc[0] = 0
           /\ \A i \in 1 .. n : acc[i] = acc[i - 1] + Rate(path[i], path[i + 1])
           /\ Value(path) = acc[n]
<1> DEFINE f == [i \in 1 .. n |-> Rate(path[i], path[i + 1])]
           pick == [s \in SUBSET (1 .. n) |-> CHOOSE x \in s : TRUE]
           sums == CHOOSE it : it = [s \in SUBSET (1 .. n) |->
                     IF s = {} THEN 0
                     ELSE Rate(path[CHOOSE x \in s : TRUE], path[(CHOOSE x \in s : TRUE) + 1])
                            + it[s \ {CHOOSE x \in s : TRUE}]]
<1>1. Legs(path) = 1 .. n
  BY DEF Legs
<1>2. f \in [1 .. n -> Int]
  BY <1>1, BothWays DEF HasRates
<1>3. Passing!Picks(n, pick)
  BY DEF Passing!Picks
<1>4. Passing!Sums(n, f, pick, sums)
  <2> HIDE DEF f, pick
  <2>1. PICK it : /\ it = [s \in SUBSET (1 .. n) |-> it[s]]
                  /\ Passing!Sums(n, f, pick, it)
    BY <1>3, Passing!SumsExist
  <2>2. ASSUME NEW s \in SUBSET (1 .. n)
        PROVE  it[s] = IF s = {} THEN 0
                       ELSE Rate(path[CHOOSE x \in s : TRUE], path[(CHOOSE x \in s : TRUE) + 1])
                              + it[s \ {CHOOSE x \in s : TRUE}]
    <3>1. Passing!Adds(f, pick, it, s)
      BY <2>1 DEF Passing!Sums
    <3> QED
      BY <3>1 DEF Passing!Adds, f, pick
  <2>3. it = [s \in SUBSET (1 .. n) |->
                IF s = {} THEN 0
                ELSE Rate(path[CHOOSE x \in s : TRUE], path[(CHOOSE x \in s : TRUE) + 1])
                       + it[s \ {CHOOSE x \in s : TRUE}]]
    BY <2>1, <2>2
  <2>4. sums = [s \in SUBSET (1 .. n) |->
                  IF s = {} THEN 0
                  ELSE Rate(path[CHOOSE x \in s : TRUE], path[(CHOOSE x \in s : TRUE) + 1])
                         + sums[s \ {CHOOSE x \in s : TRUE}]]
    BY <2>3
  <2> HIDE DEF sums
  <2>5. ASSUME NEW s \in SUBSET (1 .. n) PROVE Passing!Adds(f, pick, sums, s)
    <3>1. sums[s] = IF s = {} THEN 0
                    ELSE Rate(path[CHOOSE x \in s : TRUE], path[(CHOOSE x \in s : TRUE) + 1])
                           + sums[s \ {CHOOSE x \in s : TRUE}]
      BY <2>4
    <3> QED
      BY <3>1 DEF Passing!Adds, f, pick
  <2> QED
    BY <1>3, <2>5 DEF Passing!Sums
<1>5. Value(path) = sums[1 .. n]
  BY <1>1 DEF Value, MapThenSumSet, MapThenFoldSet
<1>6. PICK acc \in [0 .. n -> Int] :
             /\ acc[0] = 0
             /\ \A i \in 1 .. n : acc[i] = acc[i - 1] + f[i]
             /\ acc[n] = sums[1 .. n]
  <2>0. PICK g \in [1 .. n -> Int] : g = f
    BY <1>2
  <2>1. PICK p, it : p = pick /\ it = sums
    OBVIOUS
  <2>2. Passing!Sums(n, g, p, it)
    BY <1>4, <2>0, <2>1
  <2>3. Passing!Total(n, g, it[1 .. n])
    BY <2>2, Passing!SumSteps
  <2> QED
    BY <2>0, <2>1, <2>3 DEF Passing!Total
<1> HIDE DEF sums
<1> QED
  BY <1>5, <1>6

(***************************************************************************)
(* A chain of three currencies or more that ends where its first currency  *)
(* has a market with makes a profit.  Along the chain the distances fall   *)
(* short of its weight by no less than they did at the end, and where they *)
(* do not fall at all they were set later: the leg that closes the path    *)
(* was no better when it was relaxed, and if it was as good it would have  *)
(* come first.                                                             *)
(***************************************************************************)
LEMMA ClosedChainGains ==
  ASSUME Rated, NEW st \in State, Explained(st),
         NEW seq \in Seq(Currencies), Len(seq) >= 3, IsInjective(seq),
         \A i \in 1 .. Len(seq) - 1 : seq[i + 1] = st.pred[seq[i]],
         HasRates(Closed(seq))
  PROVE  Value(Closed(seq)) > 0
<1> DEFINE path == Closed(seq)
<1>1. PICK m \in Nat, S \in Currencies, v \in Currencies :
             /\ m = Len(seq) /\ m >= 3 /\ S = seq[m] /\ v = seq[1]
             /\ DOMAIN seq = 1 .. m
             /\ \A i \in 1 .. m : seq[i] \in Currencies
  OBVIOUS
<1>2. /\ Len(path) = m + 1
      /\ \A k \in 1 .. m : path[k] = seq[m - k + 1]
      /\ path[m + 1] = S
  <2> DEFINE back == Reverse(seq)
  <2>1. /\ back \in Seq(Currencies) /\ Len(back) = m
        /\ \A k \in 1 .. m : back[k] = seq[m - k + 1]
    BY <1>1 DEF Reverse
  <2> HIDE DEF back
  <2>2. path = Append(back, S)
    BY <1>1 DEF Closed, back, Last
  <2> HIDE DEF path
  <2> QED
    BY <1>1, <2>1, <2>2
<1>3. PICK from, at, set, end : Explains(st, from, at, set, end)
  BY DEF Explained
<1>4. \A x \in Currencies : /\ st.dist[x] \in Int /\ from[x] \in Int
                           /\ at[x] \in Nat /\ set[x] \in Nat
  BY <1>3 DEF State, Explains, Times
<1>5. ASSUME NEW u, NEW x, Connected(u, x)
      PROVE  Weight(u, x) \in Int /\ Rate(u, x) = -Weight(u, x) /\ Rate(x, u) = Weight(u, x)
  BY <1>5, BothWays DEF Weight
<1>6. PICK acc \in [0 .. m -> Int] :
             /\ acc[0] = 0
             /\ \A i \in 1 .. m : acc[i] = acc[i - 1] + Rate(path[i], path[i + 1])
             /\ Value(path) = acc[m]
  <2> HIDE DEF path
  <2> QED
    BY <1>1, <1>2, ValueSteps DEF path
<1> HIDE DEF path
<1>7. ASSUME NEW k \in 1 .. m - 1
      PROVE  \E x \in Currencies, u \in Currencies :
               /\ x = seq[m - k] /\ u = seq[m - k + 1]
               /\ at[u] > 0 /\ Connected(u, x) /\ st.dist[x] = from[u] + Weight(u, x)
               /\ set[x] = at[u]
               /\ acc[k] = acc[k - 1] - Weight(u, x)
               /\ acc[k] \in Int /\ acc[k - 1] \in Int
  <2>1. /\ m - k \in 1 .. m - 1 /\ m - k \in 1 .. m /\ m - k + 1 \in 1 .. m
        /\ k \in 1 .. m /\ k + 1 \in 1 .. m /\ m - (k + 1) + 1 = m - k
        /\ k \in 0 .. m /\ k - 1 \in 0 .. m
    BY <1>1
  <2>2. PICK x \in Currencies, u \in Currencies : x = seq[m - k] /\ u = seq[m - k + 1]
    BY <1>1, <2>1
  <2>3. st.pred[x] = u
    BY <1>1, <2>1, <2>2
  <2>4. /\ at[u] > 0 /\ Connected(u, x) /\ st.dist[x] = from[u] + Weight(u, x)
        /\ set[x] = at[u]
    BY <1>3, <2>3 DEF Explains, SetBy
  <2>5. path[k] = u /\ path[k + 1] = x
    BY <1>2, <2>1, <2>2
  <2>6. acc[k] = acc[k - 1] + Rate(u, x) /\ acc[k] \in Int /\ acc[k - 1] \in Int
    BY <1>6, <2>1, <2>5
  <2>7. Weight(u, x) \in Int /\ Rate(u, x) = -Weight(u, x)
    BY <1>5, <2>4
  <2> QED
    BY <2>2, <2>4, <2>6, <2>7
<1> DEFINE Behind(x, k) == /\ st.dist[x] >= from[S] - acc[k]
                           /\ st.dist[x] = from[S] - acc[k] =>
                                IF k = 1 THEN set[x] = at[S] ELSE set[x] > at[S]
           A == {k \in 0 .. m - 1 : k # 0 => Behind(seq[m - k], k)}
<1>8. ASSUME NEW k \in 1 .. m - 1, k - 1 \in A PROVE k \in A
  <2>1. PICK x \in Currencies, u \in Currencies :
               /\ x = seq[m - k] /\ u = seq[m - k + 1]
               /\ at[u] > 0 /\ Connected(u, x) /\ st.dist[x] = from[u] + Weight(u, x)
               /\ set[x] = at[u]
               /\ acc[k] = acc[k - 1] - Weight(u, x)
               /\ acc[k] \in Int /\ acc[k - 1] \in Int
    BY <1>7
  <2>2. Weight(u, x) \in Int
    BY <1>5, <2>1
  <2>3. CASE k = 1
    <3>1. u = S /\ acc[0] = 0
      BY <1>1, <1>6, <2>1, <2>3
    <3>2. Behind(x, k)
      BY <1>4, <2>1, <2>2, <2>3, <3>1
    <3> QED
      BY <2>1, <3>2
  <2>4. CASE k # 1
    <3>1. Behind(u, k - 1)
      <4>1. k - 1 # 0 /\ m - (k - 1) = m - k + 1
        BY <1>1, <2>4
      <4> QED
        BY <1>8, <2>1, <4>1
    <3>2. /\ st.dist[u] >= from[S] - acc[k - 1]
          /\ st.dist[u] = from[S] - acc[k - 1] => set[u] >= at[S]
      BY <1>4, <3>1
    <3>3. /\ st.dist[u] <= from[u]
          /\ st.dist[u] = from[u] => set[u] < at[u]
      BY <1>3, <2>1 DEF Explains, Falls
    <3>4. Behind(x, k)
      <4>1. PICK d, e, f, a, b, w, p, q, r, t \in Int :
                   /\ d = st.dist[x] /\ e = st.dist[u] /\ f = from[u]
                   /\ a = acc[k - 1] /\ b = acc[k] /\ w = Weight(u, x)
                   /\ p = set[x] /\ q = set[u] /\ r = at[u] /\ t = at[S]
        <5>1. /\ st.dist[x] \in Int /\ st.dist[u] \in Int /\ from[u] \in Int
              /\ set[x] \in Int /\ set[u] \in Int /\ at[u] \in Int /\ at[S] \in Int
          BY <1>1, <1>4
        <5> QED
          BY <2>1, <2>2, <5>1
      <4>2. PICK g \in Int : g = from[S]
        BY <1>1, <1>4
      <4>3. d = f + w /\ p = r /\ b = a - w
        BY <2>1, <4>1
      <4>4. e >= g - a /\ (e = g - a => q >= t)
        BY <3>2, <4>1, <4>2
      <4>5. e <= f /\ (e = f => q < r)
        BY <3>3, <4>1
      <4>6. d >= g - b /\ (d = g - b => p > t)
        BY <4>3, <4>4, <4>5
      <4> QED
        BY <2>4, <4>1, <4>2, <4>6
    <3> QED
      BY <2>1, <3>4
  <2> QED
    BY <2>3, <2>4
<1>9. m - 1 \in A
  <2>1. 0 \in A /\ m - 1 \in Nat
    BY <1>1
  <2> HIDE DEF A
  <2>2. 0 .. m - 1 \subseteq A
    BY <1>8, <2>1, Passing!UpTo
  <2> QED
    BY <1>1, <2>2
<1>10. /\ st.dist[v] >= from[S] - acc[m - 1]
       /\ st.dist[v] = from[S] - acc[m - 1] => set[v] > at[S]
  <2>1. m - 1 # 0 /\ m - (m - 1) = 1 /\ m - 1 # 1
    BY <1>1
  <2>2. Behind(v, m - 1)
    BY <1>1, <1>9, <2>1
  <2> QED
    BY <2>1, <2>2
<1>11. Connected(S, v) /\ Value(path) = acc[m - 1] + Weight(S, v) /\ acc[m - 1] \in Int
  <2>1. /\ m \in 1 .. m /\ m - m + 1 = 1 /\ m - 1 \in 0 .. m
        /\ Legs(path) = 1 .. m
    BY <1>1, <1>2 DEF Legs
  <2>2. path[m] = v /\ path[m + 1] = S
    BY <1>1, <1>2, <2>1
  <2>3. Connected(v, S)
    BY <2>1, <2>2 DEF HasRates, path
  <2>4. Connected(S, v)
    BY <2>3, BothWays
  <2>5. Value(path) = acc[m - 1] + Rate(v, S) /\ acc[m - 1] \in Int
    BY <1>6, <2>1, <2>2
  <2> QED
    BY <1>5, <2>4, <2>5
<1>12. at[S] > 0
  <2>1. 1 \in 1 .. m - 1 /\ m - 1 + 1 = m
    BY <1>1
  <2> QED
    BY <1>1, <1>7, <2>1
<1>13. st.dist[v] <= from[S] + Weight(S, v)
  BY <1>3, <1>11, <1>12 DEF Explains, NoBetter
<1>14. st.dist[v] = from[S] + Weight(S, v) => set[v] < at[S]
  <2>1. st.pred[v] # S
    <3>1. st.pred[v] = seq[2]
      BY <1>1
    <3>2. seq[2] # seq[m]
      BY <1>1 DEF IsInjective
    <3> QED
      BY <1>1, <3>1, <3>2
  <2> QED
    BY <1>3, <1>11, <1>12, <2>1 DEF Explains, Ties
<1>15. Weight(S, v) \in Int
  BY <1>5, <1>11
<1>16. Value(path) > 0
  <2>1. PICK d, f, a, w, s, t \in Int :
               /\ d = st.dist[v] /\ f = from[S] /\ a = acc[m - 1]
               /\ w = Weight(S, v) /\ s = set[v] /\ t = at[S]
    <3>1. /\ st.dist[v] \in Int /\ from[S] \in Int /\ set[v] \in Int /\ at[S] \in Int
      BY <1>1, <1>4
    <3> QED
      BY <1>11, <1>15, <3>1
  <2>2. d >= f - a /\ (d = f - a => s > t)
    BY <1>10, <2>1
  <2>3. d <= f + w /\ (d = f + w => s < t)
    BY <1>13, <1>14, <2>1
  <2>4. a + w > 0
    BY <2>2, <2>3
  <2> QED
    BY <1>11, <2>1, <2>4
<1> QED
  BY <1>16 DEF path
-----------------------------------------------------------------------------
(* The currencies the last pass notes.                                     *)

Notes == [dist : [Currencies -> Int], cyclic : Seq(Currencies)]

\* The last pass goes from notes to notes.
LEMMA NotedFrom ==
  ASSUME Rated, NEW st \in Notes, NEW v \in Currencies
  PROVE  FindCyclicFrom(st, v) \in Notes
<1>1. PICK edges : edges = EdgesFrom(v) /\ edges \in Seq(Edges(v))
  BY EdgesFromAre
<1>2. ASSUME NEW t \in Notes, NEW e \in Edges(v) PROVE FindCyclic(t, e) \in Notes
  <2>1. PICK y \in Currencies : e = Edge(v, y) /\ Connected(v, y)
    BY DEF Edges
  <2>2. e.from = v /\ e.to = y /\ e.w \in Int
    BY <2>1, BothWays DEF Edge
  <2>3. CASE Relaxes(t, e)
    <3>1. t.cyclic \in Seq(Currencies) /\ AddCurrency(t.cyclic, y) \in Seq(Currencies)
      BY DEF Notes, AddCurrency
    <3>2. [t.dist EXCEPT ![y] = t.dist[v] + e.w] \in [Currencies -> Int]
      BY <2>2 DEF Notes
    <3> QED
      BY <2>2, <2>3, <3>1, <3>2 DEF FindCyclic, Notes
  <2>4. CASE ~Relaxes(t, e)
    BY <2>4 DEF FindCyclic
  <2> QED
    BY <2>3, <2>4
<1>3. \A t \in Notes, i \in 1 .. Len(edges) : FindCyclic(t, edges[i]) \in Notes
  BY <1>1, <1>2
<1>4. Finding!Folded(st, edges) \in Notes
  BY <1>1, <1>3, Finding!FoldKeeps
<1>5. FoldLeft(FindCyclic, st, edges) = Finding!Folded(st, edges)
  BY DEF FoldLeft, MapThenFoldSet, Max, Finding!Folded, Finding!FoldLeft,
         Finding!MapThenFoldSet, Finding!Max
<1> QED
  BY <1>1, <1>4, <1>5 DEF FindCyclicFrom

\* It notes currencies.
LEMMA CyclicAreCurrencies ==
  ASSUME Rated, NEW st \in State
  PROVE  CyclicAfter(st) \in Seq(Currencies)
<1> DEFINE base == [dist |-> st.dist, cyclic |-> <<>>]
<1>1. base \in Notes
  BY DEF State, Notes
<1>2. /\ Vertices \in Seq(Currencies)
      /\ \A t \in Notes, i \in 1 .. Len(Vertices) : FindCyclicFrom(t, Vertices[i]) \in Notes
  BY VerticesAreAll, NotedFrom
<1> HIDE DEF base
<1>3. Noting!Folded(base, Vertices) \in Notes
  BY <1>1, <1>2, Noting!FoldKeeps
<1>4. FoldLeft(FindCyclicFrom, base, Vertices) = Noting!Folded(base, Vertices)
  BY DEF FoldLeft, MapThenFoldSet, Max, Noting!Folded, Noting!FoldLeft,
         Noting!MapThenFoldSet, Noting!Max
<1>5. FoldLeft(FindCyclicFrom, base, Vertices).cyclic \in Seq(Currencies)
  BY <1>3, <1>4 DEF Notes
<1> QED
  BY <1>5 DEF CyclicAfter, base

-----------------------------------------------------------------------------
(* What a search returns.                                                  *)

\* A path the search may return: FoundAreCycles and FoundMakeProfit say it of
\* each.
Good(r) ==
  /\ r.currencies[1] = Source /\ Last(r.currencies) = Source
  /\ Len(r.currencies) > 3
  /\ IsInjective(Front(r.currencies))
  /\ HasRates(r.currencies)
  /\ r.value = Value(r.currencies)
  /\ r.value > 0

(***************************************************************************)
(* A chain of the search that leads to no Root, closed, is such a path if  *)
(* it has all its rates and starts with the source.                        *)
(***************************************************************************)
LEMMA ClosedChainIsGood ==
  ASSUME Rated, NEW v \in Currencies, NEW chain, chain = Chain(Relaxed.pred, v),
         chain.end # "KeyError", FromSource(Closed(chain.seq)),
         NEW r, r = [currencies |-> Closed(chain.seq), value |-> Value(Closed(chain.seq))]
  PROVE  Good(r)
<1> DEFINE path == Closed(chain.seq)
<1>1. PICK st : st = Relaxed /\ st \in State /\ Explained(st)
  BY RelaxedExplained
<1>2. st.pred \in [Currencies -> Currencies \cup {Root}]
  BY <1>1 DEF State
<1>3. IsChain(chain, st.pred, v, Len(Vertices))
  BY <1>1, <1>2, ChainFollows
<1>4. PICK seq \in Seq(Currencies), m \in Nat :
             /\ seq = chain.seq /\ m = Len(seq) /\ m >= 3 /\ IsInjective(seq)
             /\ DOMAIN seq = 1 .. m
             /\ \A i \in 1 .. Len(seq) - 1 : seq[i + 1] = st.pred[seq[i]]
  <2>1. Len(chain.seq) >= 3
    BY <1>1, <1>3, ThreeOrMore
  <2> QED
    BY <1>3, <2>1 DEF IsChain
<1>5. HasRates(path) /\ path[1] = Source
  BY DEF FromSource
<1>6. Value(path) > 0
  BY <1>1, <1>4, <1>5, ClosedChainGains
<1>7. PICK back \in Seq(Currencies) :
             /\ back = Reverse(seq) /\ Len(back) = m /\ DOMAIN back = 1 .. m
             /\ \A k \in 1 .. m : back[k] = seq[m - k + 1]
  <2> DEFINE rev == Reverse(seq)
  <2>1. /\ rev \in Seq(Currencies) /\ Len(rev) = m
        /\ \A k \in 1 .. m : rev[k] = seq[m - k + 1]
    BY <1>4 DEF Reverse
  <2> HIDE DEF rev
  <2>2. DOMAIN rev = 1 .. m
    BY <2>1
  <2> QED
    BY <2>1, <2>2 DEF rev
<1>8. IsInjective(back)
  <2> SUFFICES ASSUME NEW i \in 1 .. m, NEW j \in 1 .. m, back[i] = back[j] PROVE i = j
    BY <1>7 DEF IsInjective
  <2>1. /\ m - i + 1 \in 1 .. m /\ m - j + 1 \in 1 .. m
        /\ seq[m - i + 1] = seq[m - j + 1]
    BY <1>4, <1>7
  <2>2. m - i + 1 = m - j + 1
    BY <1>4, <2>1 DEF IsInjective
  <2> QED
    BY <1>4, <2>2
<1>9. path = Append(back, seq[m]) /\ seq[m] \in Currencies /\ back[1] = seq[m]
  <2>1. seq[m] \in Currencies /\ 1 \in 1 .. m /\ m - 1 + 1 = m
    BY <1>4
  <2>2. back[1] = seq[m]
    BY <1>7, <2>1
  <2>3. path = Append(Reverse(seq), seq[m])
    BY <1>4 DEF Closed, Last
  <2> QED
    BY <1>7, <2>1, <2>2, <2>3
<1> HIDE DEF path
<1>10. /\ Len(path) = m + 1 /\ path[1] = back[1] /\ Last(path) = seq[m]
       /\ Front(path) = back
  <2>1. /\ path \in Seq(Currencies) /\ Len(path) = m + 1
        /\ \A k \in 1 .. m : path[k] = back[k]
        /\ path[m + 1] = seq[m]
    BY <1>7, <1>9
  <2>2. SubSeq(path, 1, m) = back
    BY <1>4, <1>7, <2>1
  <2> QED
    BY <1>4, <2>1, <2>2 DEF Front, Last
<1>11. r.currencies = path /\ r.value = Value(path)
  BY DEF path
<1>12. path[1] = Source /\ Last(path) = Source /\ Len(path) > 3
  BY <1>4, <1>5, <1>9, <1>10
<1>13. IsInjective(Front(path))
  BY <1>8, <1>10
<1> QED
  BY <1>5, <1>6, <1>11, <1>12, <1>13 DEF Good

Recorded(chain) == [currencies |-> Closed(chain.seq), value |-> Value(Closed(chain.seq))]

FromSourceIn(chains) == {Recorded(c) : c \in {d \in Range(chains) : FromSource(Closed(d.seq))}}

\* What is put in the list is what FromSourceIn says, in some order.
LEMMA SourcePathsAre ==
  ASSUME NEW S, NEW chains \in Seq(S)
  PROVE  SourcePaths(chains) \in Seq(FromSourceIn(chains))
<1> DEFINE T == Seq(FromSourceIn(chains))
<1>1. ASSUME NEW seqs \in T, NEW i \in 1 .. Len(chains)
      PROVE  AddPath(seqs, chains[i]) \in T
  <2>1. CASE FromSource(Closed(chains[i].seq))
    <3>1. Recorded(chains[i]) \in FromSourceIn(chains)
      BY <2>1 DEF FromSourceIn, Range
    <3>2. AddPath(seqs, chains[i]) = Append(seqs, Recorded(chains[i]))
      BY <2>1 DEF AddPath, Recorded
    <3> QED
      BY <3>1, <3>2
  <2>2. CASE ~FromSource(Closed(chains[i].seq))
    BY <2>2 DEF AddPath
  <2> QED
    BY <2>1, <2>2
<1>2. <<>> \in T
  OBVIOUS
<1> HIDE DEF T
<1>3. Keeping!Folded(<<>>, chains) \in T
  BY <1>1, <1>2, Keeping!FoldKeeps
<1>4. FoldLeft(AddPath, <<>>, chains) = Keeping!Folded(<<>>, chains)
  BY DEF FoldLeft, MapThenFoldSet, Max, Keeping!Folded, Keeping!FoldLeft,
         Keeping!MapThenFoldSet, Keeping!Max
<1> QED
  BY <1>3, <1>4 DEF SourcePaths, T

\* Sorting adds nothing.
LEMMA SortedAreThese ==
  ASSUME NEW S, NEW seqs \in Seq(S)
  PROVE  SortedByValue(seqs) \in Seq(S)
<1>1. ASSUME NEW sorted \in Seq(S), NEW s \in S PROVE Insert(sorted, s) \in Seq(S)
  <2> DEFINE AsLarge(i) == sorted[i].value >= s.value
             above == {i \in DOMAIN sorted : AsLarge(i)}
             n == Len(sorted)
  <2> HIDE DEF AsLarge
  <2>1. n \in Nat /\ above \in SUBSET (1 .. n)
    OBVIOUS
  <2> HIDE DEF above
  <2>2. Cardinality(above) \in Nat /\ Cardinality(above) <= n
    <3> HIDE DEF n
    <3>1. IsFiniteSet(1 .. n) /\ Cardinality(1 .. n) = n
      BY <2>1, FS_Interval
    <3>2. IsFiniteSet(above) /\ Cardinality(above) <= Cardinality(1 .. n)
      BY <2>1, <3>1, FS_Subset
    <3> QED
      BY <3>1, <3>2, FS_CardinalityType
  <2>3. PICK k \in 1 .. n + 1 : k = 1 + Cardinality(above)
    <3> HIDE DEF n
    <3> QED
      BY <2>1, <2>2
  <2>4. SubSeq(sorted, 1, k - 1) \in Seq(S) /\ SubSeq(sorted, k, n) \in Seq(S)
    BY <2>1, <2>3
  <2>5. InsertAt(sorted, k, s) \in Seq(S)
    BY <2>4 DEF InsertAt
  <2>6. Insert(sorted, s) = InsertAt(sorted, k, s)
    BY <2>3 DEF Insert, above, AsLarge
  <2> QED
    BY <2>5, <2>6
<1>2. Sorting!Folded(<<>>, seqs) \in Seq(S)
  <2> DEFINE T == Seq(S)
  <2>1. <<>> \in T /\ \A t \in T, i \in 1 .. Len(seqs) : Insert(t, seqs[i]) \in T
    BY <1>1
  <2> HIDE DEF T
  <2>2. Sorting!Folded(<<>>, seqs) \in T
    BY <2>1, Sorting!FoldKeeps
  <2> QED
    BY <2>2 DEF T
<1>3. FoldLeft(Insert, <<>>, seqs) = Sorting!Folded(<<>>, seqs)
  BY DEF FoldLeft, MapThenFoldSet, Max, Sorting!Folded, Sorting!FoldLeft,
         Sorting!MapThenFoldSet, Sorting!Max
<1> QED
  BY <1>2, <1>3 DEF SortedByValue

\* Neither does the deletion.
LEMMA DeletionKeepsSome ==
  ASSUME NEW S, NEW seqs \in Seq(S)
  PROVE  DeleteUnprofitable(seqs) \in Seq(S)
<1> DEFINE Gains(i) == seqs[i].value > 0
           profitable == {i \in DOMAIN seqs : Gains(i)}
           n == Len(seqs)
<1> HIDE DEF Gains
<1>1. n \in Nat /\ profitable \in SUBSET (1 .. n)
  OBVIOUS
<1> HIDE DEF profitable
<1>2. IsFiniteSet(1 .. n) /\ Cardinality(1 .. n) = n
  <2> HIDE DEF n
  <2> QED
    BY <1>1, FS_Interval
<1>3. IsFiniteSet(profitable) /\ Cardinality(profitable) <= Cardinality(1 .. n)
  BY <1>1, <1>2, FS_Subset
<1>4. PICK good \in 0 .. n : good = Cardinality(profitable)
  BY <1>2, <1>3, FS_CardinalityType
<1>5. SubSeq(seqs, 1, good) \in Seq(S)
  BY <1>1, <1>4
<1>6. [j \in 1 .. (n - good) \div 2 |-> seqs[good + 2 * j]] \in Seq(S)
  <2>1. PICK h \in Nat : h = (n - good) \div 2 /\ good + 2 * h <= n
    BY <1>1, <1>4
  <2>2. \A j \in 1 .. h : good + 2 * j \in 1 .. n
    BY <1>1, <2>1
  <2>3. \A i \in 1 .. n : seqs[i] \in S
    OBVIOUS
  <2>4. \A j \in 1 .. h : seqs[good + 2 * j] \in S
    BY <2>2, <2>3
  <2>5. [j \in 1 .. h |-> seqs[good + 2 * j]] \in Seq(S)
    BY <2>4
  <2> QED
    BY <2>1, <2>5
<1>7. DeleteUnprofitable(seqs) = SubSeq(seqs, 1, good)
                                   \o [j \in 1 .. (n - good) \div 2 |-> seqs[good + 2 * j]]
  BY <1>4 DEF DeleteUnprofitable, profitable, Gains
<1> QED
  BY <1>5, <1>6, <1>7

(***************************************************************************)
(* Whatever is sorted and deleted, every path returned is good.            *)
(***************************************************************************)
LEMMA ReturnsGoodPaths ==
  ASSUME Rated, ~Raises(Chains)
  PROVE  LET paths == DeleteUnprofitable(SortedByValue(SourcePaths(Chains)))
         IN  \A i \in DOMAIN paths : Good(paths[i])
<1>1. PICK cyclic \in Seq(Currencies) : cyclic = CyclicAfter(Relaxed)
  BY RelaxedExplained, CyclicAreCurrencies
<1>2. PICK chains : chains = Chains
  OBVIOUS
<1>3. /\ chains = [i \in DOMAIN cyclic |-> Chain(Relaxed.pred, cyclic[i])]
      /\ DOMAIN cyclic = 1 .. Len(cyclic) /\ Len(cyclic) \in Nat
      /\ \A i \in 1 .. Len(cyclic) : cyclic[i] \in Currencies
  BY <1>1, <1>2 DEF Chains
<1>4. chains \in Seq({Chain(Relaxed.pred, v) : v \in Currencies})
  BY <1>3
<1> DEFINE G == FromSourceIn(chains)
<1>5. \A r \in G : Good(r)
  <2> SUFFICES ASSUME NEW r \in G PROVE Good(r)
    OBVIOUS
  <2>1. PICK c \in Range(chains) : r = Recorded(c) /\ FromSource(Closed(c.seq))
    BY DEF FromSourceIn
  <2>2. PICK i \in DOMAIN chains : c = chains[i]
    BY <2>1 DEF Range
  <2>3. PICK v \in Currencies : c = Chain(Relaxed.pred, v)
    BY <1>3, <2>2
  <2>4. c.end # "KeyError"
    BY <1>2, <2>2 DEF Raises
  <2> QED
    BY <2>1, <2>3, <2>4, ClosedChainIsGood DEF Recorded
<1>6. PICK paths : paths = DeleteUnprofitable(SortedByValue(SourcePaths(chains)))
  OBVIOUS
<1>7. paths \in Seq(G)
  <2>1. PICK all : all = SourcePaths(chains) /\ all \in Seq(G)
    BY <1>4, SourcePathsAre
  <2> HIDE DEF G
  <2>2. PICK sorted : sorted = SortedByValue(all) /\ sorted \in Seq(G)
    BY <2>1, SortedAreThese
  <2>3. DeleteUnprofitable(sorted) \in Seq(G)
    BY <2>2, DeletionKeepsSome
  <2> QED
    BY <1>6, <2>1, <2>2, <2>3
<1> HIDE DEF G
<1>8. \A i \in DOMAIN paths : paths[i] \in G
  BY <1>7
<1>9. \A i \in DOMAIN paths : Good(paths[i])
  BY <1>5, <1>8
<1> QED
  BY <1>2, <1>6, <1>9

-----------------------------------------------------------------------------
(* Whether there is a cycle with a profit.                                 *)

\* The vertices are as many as the currencies.
LEMMA CurrenciesCounted ==
  ASSUME Rated
  PROVE  IsFiniteSet(Currencies) /\ Cardinality(Currencies) = Len(Vertices)
<1>1. PICK n \in Nat : n = Len(Vertices)
  BY VerticesAreAll
<1>2. Vertices \in Injection(1 .. n, Currencies) /\ Vertices \in Surjection(1 .. n, Currencies)
  <2>1. Vertices \in [1 .. n -> Currencies] /\ IsInjective(Vertices) /\ Range(Vertices) = Currencies
    BY <1>1, VerticesAreAll
  <2> QED
    BY <2>1 DEF Injection, Surjection, Range
<1>3. IsFiniteSet(1 .. n) /\ Cardinality(1 .. n) = n
  <2>1. n \in Int /\ n >= 0
    BY <1>1
  <2> QED
    BY <2>1, FS_Interval
<1>4. /\ IsFiniteSet(Currencies)
      /\ Cardinality(Currencies) = Cardinality(1 .. n)
  BY <1>2, <1>3, FS_Surjection
<1> QED
  BY <1>1, <1>3, <1>4

-----------------------------------------------------------------------------
(* The last pass finds nothing exactly when nothing is left to relax.      *)

QuietFrom(st, v) == \A x : Connected(v, x) => st.dist[x] <= st.dist[v] + Weight(v, x)

Quiet(st) == \A v \in Currencies : QuietFrom(st, v)

\* What the last pass makes of t, which had the distances of st and nothing
\* noted if NothingYet.
Noted(r, st, NothingYet) == /\ r \in Notes
                            /\ r.cyclic = <<>> <=> NothingYet
                            /\ NothingYet => r.dist = st.dist

\* The last pass notes something at an edge unless it is quiet.
LEMMA EdgeIsNoted ==
  ASSUME Rated, NEW st \in State, NEW v \in Currencies, NEW e \in Edges(v),
         NEW nothing \in BOOLEAN, NEW r, Noted(r, st, nothing)
  PROVE  Noted(FindCyclic(r, e), st,
               nothing /\ st.dist[e.to] <= st.dist[v] + Weight(v, e.to))
<1>1. PICK y \in Currencies : e = Edge(v, y) /\ Connected(v, y)
  BY DEF Edges
<1>2. e.from = v /\ e.to = y /\ e.w = Weight(v, y) /\ Weight(v, y) \in Int
  BY <1>1, BothWays DEF Edge
<1>3. st.dist[y] \in Int /\ st.dist[v] \in Int
  BY DEF State
<1>4. r \in Notes /\ FindCyclic(r, e) \in Notes
  <2>1. r.cyclic \in Seq(Currencies) /\ AddCurrency(r.cyclic, y) \in Seq(Currencies)
    BY DEF Noted, Notes, AddCurrency
  <2>2. [r.dist EXCEPT ![y] = r.dist[v] + e.w] \in [Currencies -> Int]
    BY <1>2 DEF Noted, Notes
  <2> QED
    BY <1>2, <2>1, <2>2 DEF FindCyclic, Noted, Notes
<1>5. CASE Relaxes(r, e)
  <2>1. FindCyclic(r, e).cyclic = AddCurrency(r.cyclic, y)
    BY <1>2, <1>5 DEF FindCyclic
  <2>2. AddCurrency(r.cyclic, y) # <<>>
    BY DEF AddCurrency, Range, Noted, Notes
  <2>3. nothing => st.dist[y] > st.dist[v] + Weight(v, y)
    BY <1>2, <1>5 DEF Relaxes, Noted
  <2> QED
    BY <1>2, <1>3, <1>4, <2>1, <2>2, <2>3 DEF Noted
<1>6. CASE ~Relaxes(r, e)
  <2>1. FindCyclic(r, e) = r
    BY <1>6 DEF FindCyclic
  <2>2. nothing => ~(st.dist[y] > st.dist[v] + Weight(v, y))
    BY <1>2, <1>6 DEF Relaxes, Noted
  <2>3. nothing => st.dist[y] <= st.dist[v] + Weight(v, y)
    BY <1>2, <1>3, <2>2
  <2> QED
    BY <1>2, <2>1, <2>3 DEF Noted
<1> QED
  BY <1>5, <1>6

\* It does so at the edges of v unless all of them are quiet.
LEMMA NotedFromAre ==
  ASSUME Rated, NEW st \in State, NEW v \in Currencies,
         NEW nothing \in BOOLEAN, NEW t, Noted(t, st, nothing)
  PROVE  Noted(FindCyclicFrom(t, v), st, nothing /\ QuietFrom(st, v))
<1>1. PICK edges : /\ edges = EdgesFrom(v) /\ edges \in Seq(Edges(v))
                   /\ \A x : Connected(v, x) => \E j \in 1 .. Len(edges) : edges[j].to = x
  BY EdgesFromAre
<1>2. PICK n \in Nat : n = Len(edges)
  BY <1>1
<1>3. PICK acc : /\ acc[0] = t
                 /\ \A i \in 1 .. n : acc[i] = FindCyclic(acc[i - 1], edges[i])
                 /\ Finding!Folded(t, edges) = acc[n]
  <2>1. \E acc : /\ acc[0] = t
                 /\ \A i \in 1 .. Len(edges) : acc[i] = FindCyclic(acc[i - 1], edges[i])
                 /\ Finding!Folded(t, edges) = acc[Len(edges)]
    BY <1>1, Finding!FoldSteps
  <2> QED
    BY <1>2, <2>1
<1> DEFINE QuietAt(k) == st.dist[edges[k].to] <= st.dist[v] + Weight(v, edges[k].to)
           So(i) == nothing /\ \A k \in 1 .. i : QuietAt(k)
           A == {i \in 0 .. n : Noted(acc[i], st, So(i))}
<1> HIDE DEF QuietAt
<1>4. 0 \in A
  <2>1. So(0) = nothing
    OBVIOUS
  <2>2. Noted(acc[0], st, So(0))
    BY <1>3, <2>1
  <2> HIDE DEF So
  <2> QED
    BY <2>2
<1>5. ASSUME NEW i \in 1 .. n, i - 1 \in A PROVE i \in A
  <2>1. PICK so \in BOOLEAN : so = So(i - 1)
    OBVIOUS
  <2>2. PICK e \in Edges(v) : e = edges[i]
    BY <1>1, <1>2
  <2> DEFINE old == acc[i - 1]
  <2>3. Noted(old, st, so)
    BY <1>5, <2>1
  <2>4. Noted(FindCyclic(old, e), st, so /\ st.dist[e.to] <= st.dist[v] + Weight(v, e.to))
    BY <2>3, EdgeIsNoted
  <2>5. QuietAt(i) = (st.dist[e.to] <= st.dist[v] + Weight(v, e.to))
    BY <2>2 DEF QuietAt
  <2>6. So(i) = (so /\ QuietAt(i))
    <3>1. \A k \in 1 .. i : k \in 1 .. i - 1 \/ k = i
      OBVIOUS
    <3>2. i \in 1 .. i /\ 1 .. i - 1 \subseteq 1 .. i
      OBVIOUS
    <3> QED
      BY <2>1, <3>1, <3>2
  <2>7. acc[i] = FindCyclic(old, e)
    BY <1>3, <2>2
  <2> HIDE DEF So
  <2>8. Noted(acc[i], st, So(i))
    BY <2>4, <2>5, <2>6, <2>7
  <2> QED
    BY <2>8
<1>6. Noted(acc[n], st, So(n))
  <2> HIDE DEF A
  <2>1. 0 .. n \subseteq A
    BY <1>4, <1>5, Finding!UpTo
  <2>2. n \in A
    BY <2>1
  <2> QED
    BY <2>2 DEF A
<1>7. So(n) = (nothing /\ QuietFrom(st, v))
  <2>1. ASSUME \A k \in 1 .. n : QuietAt(k), NEW x, Connected(v, x)
        PROVE  st.dist[x] <= st.dist[v] + Weight(v, x)
    <3>1. PICK k \in 1 .. n : edges[k].to = x
      BY <1>1, <1>2, <2>1
    <3> QED
      BY <2>1, <3>1 DEF QuietAt
  <2>2. ASSUME QuietFrom(st, v), NEW k \in 1 .. n PROVE QuietAt(k)
    <3>1. PICK y : edges[k] = Edge(v, y) /\ Connected(v, y)
      BY <1>1, <1>2 DEF Edges
    <3>2. edges[k].to = y
      BY <3>1 DEF Edge
    <3> QED
      BY <2>2, <3>1, <3>2 DEF QuietAt, QuietFrom
  <2> QED
    BY <2>1, <2>2 DEF QuietFrom
<1>8. FindCyclicFrom(t, v) = acc[n]
  <2>1. FoldLeft(FindCyclic, t, edges) = Finding!Folded(t, edges)
    BY DEF FoldLeft, MapThenFoldSet, Max, Finding!Folded, Finding!FoldLeft,
           Finding!MapThenFoldSet, Finding!Max
  <2> QED
    BY <1>1, <1>3, <2>1 DEF FindCyclicFrom
<1> QED
  BY <1>6, <1>7, <1>8

\* So it notes nothing at all exactly when every edge is quiet.
LEMMA CyclicUnlessQuiet ==
  ASSUME Rated, NEW st \in State
  PROVE  CyclicAfter(st) = <<>> <=> Quiet(st)
<1> DEFINE base == [dist |-> st.dist, cyclic |-> <<>>]
<1>1. PICK n \in Nat : n = Len(Vertices)
  BY VerticesAreAll
<1>2. PICK acc : /\ acc[0] = base
                 /\ \A i \in 1 .. n : acc[i] = FindCyclicFrom(acc[i - 1], Vertices[i])
                 /\ Noting!Folded(base, Vertices) = acc[n]
  BY <1>1, VerticesAreAll, Noting!FoldSteps
<1> DEFINE So(i) == \A k \in 1 .. i : QuietFrom(st, Vertices[k])
           A == {i \in 0 .. n : Noted(acc[i], st, So(i))}
<1>3. 0 \in A
  <2>1. So(0)
    OBVIOUS
  <2>2. Noted(base, st, TRUE)
    BY DEF Noted, Notes, State
  <2> HIDE DEF So, base
  <2>3. Noted(acc[0], st, So(0))
    BY <1>2, <2>1, <2>2
  <2> QED
    BY <2>3
<1>4. ASSUME NEW i \in 1 .. n, i - 1 \in A PROVE i \in A
  <2>1. PICK so \in BOOLEAN : so = So(i - 1)
    OBVIOUS
  <2>2. PICK v \in Currencies : v = Vertices[i]
    BY <1>1, VerticesAreAll
  <2> DEFINE old == acc[i - 1]
  <2>3. Noted(old, st, so)
    BY <1>4, <2>1
  <2>4. Noted(FindCyclicFrom(old, v), st, so /\ QuietFrom(st, v))
    BY <2>3, NotedFromAre
  <2>5. So(i) = (so /\ QuietFrom(st, v))
    <3>1. \A k \in 1 .. i : k \in 1 .. i - 1 \/ k = i
      OBVIOUS
    <3>2. i \in 1 .. i /\ 1 .. i - 1 \subseteq 1 .. i
      OBVIOUS
    <3> QED
      BY <2>1, <2>2, <3>1, <3>2
  <2>6. acc[i] = FindCyclicFrom(old, v)
    BY <1>2, <2>2
  <2> HIDE DEF So
  <2>7. Noted(acc[i], st, So(i))
    BY <2>4, <2>5, <2>6
  <2> QED
    BY <2>7
<1>5. Noted(acc[n], st, So(n))
  <2> HIDE DEF A
  <2>1. 0 .. n \subseteq A
    BY <1>3, <1>4, Noting!UpTo
  <2>2. n \in A
    BY <2>1
  <2> QED
    BY <2>2 DEF A
<1>6. So(n) <=> Quiet(st)
  <2>1. \A v \in Currencies : \E k \in 1 .. n : Vertices[k] = v
    BY <1>1, VerticesAreAll DEF Range
  <2>2. \A k \in 1 .. n : Vertices[k] \in Currencies
    BY <1>1, VerticesAreAll
  <2> QED
    BY <2>1, <2>2 DEF Quiet
<1>7. CyclicAfter(st) = acc[n].cyclic
  <2>1. FoldLeft(FindCyclicFrom, base, Vertices) = Noting!Folded(base, Vertices)
    BY DEF FoldLeft, MapThenFoldSet, Max, Noting!Folded, Noting!FoldLeft,
           Noting!MapThenFoldSet, Noting!Max
  <2> QED
    BY <1>2, <2>1 DEF CyclicAfter
<1> QED
  BY <1>5, <1>6, <1>7 DEF Noted

-----------------------------------------------------------------------------
(* Where nothing is left to relax no cycle makes a profit.                 *)

(***************************************************************************)
(* Where every edge is quiet the value of a closed path, the sum of        *)
(* differences of distances, is at most 0.                                 *)
(***************************************************************************)
LEMMA QuietMeansNoProfit ==
  ASSUME Rated, NEW st \in State, Quiet(st),
         NEW n \in Nat, n >= 1, NEW p \in [1 .. n -> Currencies], HasRates(Append(p, p[1]))
  PROVE  Value(Append(p, p[1])) \in Int /\ Value(Append(p, p[1])) <= 0
<1>1. PICK path : /\ path = Append(p, p[1])
                  /\ path \in Seq(Currencies) /\ Len(path) = n + 1
                  /\ \A i \in 1 .. n + 1 : path[i] \in Currencies
                  /\ path[n + 1] = path[1]
  <2>1. p \in Seq(Currencies) /\ Len(p) = n /\ \A i \in 1 .. n : p[i] \in Currencies
    OBVIOUS
  <2>2. PICK c \in Currencies : c = p[1]
    OBVIOUS
  <2> DEFINE path == Append(p, c)
  <2>3. /\ path \in Seq(Currencies) /\ Len(path) = n + 1
        /\ \A i \in 1 .. n : path[i] = p[i]
        /\ path[n + 1] = c
    BY <2>1
  <2>4. 1 \in 1 .. n /\ \A i \in 1 .. n + 1 : i \in 1 .. n \/ i = n + 1
    OBVIOUS
  <2> HIDE DEF path
  <2>5. path[n + 1] = path[1] /\ \A i \in 1 .. n + 1 : path[i] \in Currencies
    BY <2>1, <2>2, <2>3, <2>4
  <2> QED
    BY <2>2, <2>3, <2>5 DEF path
<1>2. PICK acc \in [0 .. n -> Int] :
             /\ acc[0] = 0
             /\ \A i \in 1 .. n : acc[i] = acc[i - 1] + Rate(path[i], path[i + 1])
             /\ Value(path) = acc[n]
  BY <1>1, ValueSteps
<1> DEFINE A == {i \in 0 .. n : acc[i] <= st.dist[path[1]] - st.dist[path[i + 1]]}
<1>3. \A i \in 1 .. n + 1 : st.dist[path[i]] \in Int
  BY <1>1 DEF State
<1>4. 0 \in A
  BY <1>2, <1>3
<1>5. ASSUME NEW i \in 1 .. n, i - 1 \in A PROVE i \in A
  <2>1. i \in Legs(path) /\ Connected(path[i], path[i + 1])
    BY <1>1 DEF Legs, HasRates
  <2>2. PICK r \in Int : r = Rate(path[i], path[i + 1]) /\ Weight(path[i], path[i + 1]) = -r
    BY <2>1, BothWays DEF Weight
  <2>3. i \in 1 .. n + 1 /\ i + 1 \in 1 .. n + 1 /\ 1 \in 1 .. n + 1 /\ i - 1 \in 0 .. n
        /\ i - 1 + 1 = i
    OBVIOUS
  <2>4. PICK a, b, c \in Int : /\ a = st.dist[path[1]] /\ b = st.dist[path[i]]
                               /\ c = st.dist[path[i + 1]]
    BY <1>3, <2>3
  <2>5. c <= b - r
    <3>1. c <= b + Weight(path[i], path[i + 1])
      BY <1>1, <2>1, <2>3, <2>4 DEF Quiet, QuietFrom
    <3> QED
      BY <2>2, <2>4, <3>1
  <2>6. PICK old \in Int : old = acc[i - 1] /\ old <= a - b
    BY <1>5, <2>3, <2>4
  <2>7. PICK new \in Int : new = acc[i] /\ new = old + r
    BY <1>2, <2>2, <2>6
  <2>8. acc[i] <= a - c
    <3>1. new <= a - c
      BY <2>5, <2>6, <2>7
    <3> QED
      BY <2>7, <3>1
  <2> QED
    BY <2>4, <2>8
<1>6. acc[n] <= st.dist[path[1]] - st.dist[path[n + 1]]
  <2> HIDE DEF A
  <2>1. 0 .. n \subseteq A
    BY <1>4, <1>5, Passing!UpTo
  <2>2. n \in A
    BY <2>1
  <2> QED
    BY <2>2 DEF A
<1>7. 1 \in 1 .. n + 1
  OBVIOUS
<1> QED
  BY <1>1, <1>2, <1>3, <1>6, <1>7

-----------------------------------------------------------------------------
(* And where no cycle makes a profit the passes are enough.  A distance is *)
(* the weight of a walk that visits nothing twice, and what is left to     *)
(* relax after n passes is at the end of a walk of more than n currencies. *)

\* walk[x] leads to x, sums[x][i] is the weight of its first i - 1 edges.
IsWalk(st, x, w, s) ==
  /\ w \in Seq(Currencies) /\ s \in Seq(Int) /\ Len(s) = Len(w) /\ Len(w) >= 1
  /\ IsInjective(w)
  /\ w[Len(w)] = x /\ s[Len(w)] = st.dist[x]
  /\ \A i \in 1 .. Len(w) - 1 : /\ Connected(w[i], w[i + 1])
                                /\ s[i + 1] = s[i] + Weight(w[i], w[i + 1])
  /\ \A i \in 1 .. Len(w) : st.dist[w[i]] <= s[i]

(***************************************************************************)
(* A walk that comes back to itself with an edge that improves something   *)
(* is a cycle with a profit.                                               *)
(***************************************************************************)
LEMMA WalkInCircle ==
  ASSUME Rated, NEW st \in State, NEW u \in Currencies, NEW x, NEW w, NEW s,
         IsWalk(st, u, w, s), Improves(st, u, x), x \in Range(w)
  PROVE  ProfitExists
<1>1. PICK m \in Nat : /\ m = Len(w) /\ m >= 1 /\ DOMAIN w = 1 .. m
                       /\ \A i \in 1 .. m : w[i] \in Currencies /\ s[i] \in Int
  BY DEF IsWalk
<1>2. PICK j \in 1 .. m : w[j] = x
  BY <1>1 DEF Range
<1>3. /\ Connected(u, x) /\ x \in Currencies /\ u # x
      /\ Weight(u, x) \in Int /\ Weight(x, u) = -Weight(u, x) /\ Rate(u, x) = -Weight(u, x)
  BY BothWays DEF Improves, Weight
<1>4. PICK n \in Nat : n = m - j + 1 /\ n >= 1
  BY <1>1, <1>2
<1>5. s[m] - s[j] + Weight(u, x) < 0
  <2>1. s[m] = st.dist[u] /\ st.dist[x] <= s[j] /\ st.dist[u] + Weight(u, x) < st.dist[x]
    BY <1>1, <1>2 DEF IsWalk, Improves
  <2>2. st.dist[x] \in Int /\ s[m] \in Int /\ s[j] \in Int
    BY <1>1, <1>2, <1>3 DEF State
  <2> QED
    BY <1>3, <2>1, <2>2
<1>6. n >= 3
  <2>1. j # m
    BY <1>1, <1>2, <1>3 DEF IsWalk
  <2>2. ASSUME j = m - 1 PROVE FALSE
    <3>1. s[m] = s[j] + Weight(x, u)
      <4>1. j \in 1 .. Len(w) - 1 /\ j + 1 = m
        BY <1>1, <2>2
      <4> QED
        BY <1>1, <1>2, <4>1 DEF IsWalk
    <3> QED
      BY <1>1, <1>2, <1>3, <1>5, <3>1
  <2> QED
    BY <1>1, <1>4, <2>1, <2>2
<1> DEFINE p == [i \in 1 .. n |-> w[j + i - 1]]
<1>7. p \in Injection(1 .. n, Currencies)
  <2>1. \A i \in 1 .. n : j + i - 1 \in 1 .. m
    BY <1>1, <1>4
  <2>2. \A a, b \in 1 .. m : w[a] = w[b] => a = b
    BY <1>1 DEF IsWalk, IsInjective
  <2>3. p \in [1 .. n -> Currencies] /\ \A i \in 1 .. n : p[i] = w[j + i - 1]
    BY <1>1, <2>1
  <2>4. ASSUME NEW a \in 1 .. n, NEW b \in 1 .. n, p[a] = p[b] PROVE a = b
    <3>1. j + a - 1 = j + b - 1
      BY <2>1, <2>2, <2>4
    <3> QED
      BY <1>1, <3>1
  <2> HIDE DEF p
  <2> QED
    BY <2>3, <2>4 DEF Injection, IsInjective
<1>8. n <= Cardinality(Currencies)
  <2>1. IsFiniteSet(1 .. n) /\ Cardinality(1 .. n) = n
    <3>1. n \in Int /\ n >= 0
      BY <1>4
    <3> QED
      BY <3>1, FS_Interval
  <2> HIDE DEF p
  <2>2. Cardinality(1 .. n) <= Cardinality(Currencies)
    BY <1>7, CurrenciesCounted, FS_Injection
  <2> QED
    BY <2>1, <2>2
<1>9. PICK path : /\ path = Append(p, p[1]) /\ Len(path) = n + 1
                  /\ \A i \in 1 .. n : path[i] = w[j + i - 1]
                  /\ path[n + 1] = x
  <2>1. p \in Seq(Currencies) /\ Len(p) = n /\ p[1] = x
    BY <1>1, <1>2, <1>4, <1>7 DEF Injection
  <2> HIDE DEF p
  <2>2. \A i \in 1 .. n : Append(p, p[1])[i] = p[i]
    BY <2>1
  <2>3. Len(Append(p, p[1])) = n + 1 /\ Append(p, p[1])[n + 1] = p[1]
    BY <2>1
  <2> QED
    BY <2>1, <2>2, <2>3 DEF p
<1>10. \A i \in 1 .. n - 1 : /\ path[i] = w[j + i - 1] /\ path[i + 1] = w[j + i]
                             /\ Connected(w[j + i - 1], w[j + i])
                             /\ s[j + i] = s[j + i - 1] + Weight(w[j + i - 1], w[j + i])
  <2> SUFFICES ASSUME NEW i \in 1 .. n - 1
               PROVE  /\ path[i] = w[j + i - 1] /\ path[i + 1] = w[j + i]
                      /\ Connected(w[j + i - 1], w[j + i])
                      /\ s[j + i] = s[j + i - 1] + Weight(w[j + i - 1], w[j + i])
    OBVIOUS
  <2>1. PICK k \in 1 .. m - 1 : k = j + i - 1
    BY <1>1, <1>4
  <2>2. /\ i \in 1 .. n /\ i + 1 \in 1 .. n /\ j + i = k + 1 /\ j + (i + 1) - 1 = k + 1
    BY <1>1, <1>4, <2>1
  <2>3. path[i] = w[k] /\ path[i + 1] = w[k + 1]
    BY <1>9, <2>1, <2>2
  <2>4. Connected(w[k], w[k + 1]) /\ s[k + 1] = s[k] + Weight(w[k], w[k + 1])
    BY <1>1, <2>1 DEF IsWalk
  <2> QED
    BY <2>1, <2>2, <2>3, <2>4
<1>11. path[n] = u /\ path[n + 1] = x
  <2>1. n \in 1 .. n /\ j + n - 1 = m
    BY <1>1, <1>4
  <2> QED
    BY <1>1, <1>9, <2>1 DEF IsWalk
<1> HIDE DEF p
<1>12. HasRates(path)
  <2>1. Legs(path) = 1 .. n /\ \A i \in 1 .. n : i \in 1 .. n - 1 \/ i = n
    BY <1>9, <1>4 DEF Legs
  <2> QED
    BY <1>3, <1>10, <1>11, <2>1 DEF HasRates
<1>13. PICK acc \in [0 .. n -> Int] :
             /\ acc[0] = 0
             /\ \A i \in 1 .. n : acc[i] = acc[i - 1] + Rate(path[i], path[i + 1])
             /\ Value(path) = acc[n]
  BY <1>9, <1>12, ValueSteps
<1> DEFINE A == {i \in 0 .. n - 1 : acc[i] = s[j] - s[j + i]}
<1>14. 0 \in A
  BY <1>1, <1>2, <1>4, <1>6, <1>13
<1>15. ASSUME NEW i \in 1 .. n - 1, i - 1 \in A PROVE i \in A
  <2>1. PICK wt \in Int : /\ wt = Weight(w[j + i - 1], w[j + i])
                          /\ Rate(w[j + i - 1], w[j + i]) = -wt
    <3>1. PICK a, b : a = w[j + i - 1] /\ b = w[j + i]
      OBVIOUS
    <3>2. Connected(a, b)
      BY <1>10, <3>1
    <3>3. Weight(a, b) \in Int /\ Rate(a, b) = -Weight(a, b)
      BY <3>2, BothWays DEF Weight
    <3> QED
      BY <3>1, <3>3
  <2>2. PICK a, b, c \in Int : a = s[j] /\ b = s[j + i - 1] /\ c = s[j + i]
    <3>1. j \in 1 .. m /\ j + i - 1 \in 1 .. m /\ j + i \in 1 .. m
      BY <1>1, <1>4
    <3> QED
      BY <1>1, <3>1
  <2>3. c = b + wt
    BY <1>10, <2>1, <2>2
  <2>4. acc[i - 1] = a - b
    <3>1. j + (i - 1) = j + i - 1
      BY <1>1
    <3> QED
      BY <1>15, <2>2, <3>1
  <2>5. acc[i] = acc[i - 1] + (-wt)
    <3>1. i \in 1 .. n
      BY <1>4
    <3> QED
      BY <1>10, <1>13, <2>1, <3>1
  <2>6. acc[i] = a - c
    <3>1. PICK old \in Int : old = acc[i - 1] /\ old = a - b
      BY <2>2, <2>4
    <3>2. old + (-wt) = a - c
      BY <2>3, <3>1
    <3> QED
      BY <2>5, <3>1, <3>2
  <2> QED
    BY <2>2, <2>6
<1>16. acc[n - 1] = s[j] - s[m]
  <2>1. n - 1 \in Nat /\ j + (n - 1) = m
    BY <1>1, <1>4, <1>6
  <2> HIDE DEF A
  <2>2. 0 .. n - 1 \subseteq A
    BY <1>14, <1>15, <2>1, Passing!UpTo
  <2>3. n - 1 \in A
    BY <2>1, <2>2
  <2> QED
    BY <2>1, <2>3 DEF A
<1>17. Value(path) > 0
  <2>1. acc[n] = acc[n - 1] + Rate(u, x)
    BY <1>4, <1>11, <1>13
  <2>2. PICK a, b, c \in Int : a = s[m] /\ b = s[j] /\ c = Weight(u, x)
    BY <1>1, <1>2, <1>3
  <2>3. acc[n] = (b - a) + (-c)
    BY <1>3, <1>16, <2>1, <2>2
  <2>4. a - b + c < 0
    BY <1>5, <2>2
  <2> QED
    BY <1>13, <2>2, <2>3, <2>4
<1>18. n \in 3 .. Cardinality(Currencies)
  BY <1>6, <1>8, CurrenciesCounted, VerticesAreAll
<1> QED
  BY <1>7, <1>9, <1>12, <1>17, <1>18 DEF ProfitExists

\* A walk for each currency.  What the edges of u would still improve has a
\* walk to u of more than level currencies, of one more if u is in D.
Walked(st, W, S) == \A x \in Currencies : IsWalk(st, x, W[x], S[x])

Long(st, W, level, D) ==
  \A u, x \in Currencies :
    Improves(st, u, x) => /\ Len(W[u]) >= level + 1
                          /\ u \in D => Len(W[u]) >= level + 2

WalkedTo(st, level, D) == st \in State /\ \E W, S : Walked(st, W, S) /\ Long(st, W, level, D)

\* A walk to x stays one while the distance of x stays.
LEMMA WalkStays ==
  ASSUME NEW st, NEW after \in State, NEW x, NEW w, NEW s, IsWalk(st, x, w, s),
         after.dist[x] = st.dist[x],
         st \in State, \A y \in Currencies : after.dist[y] <= st.dist[y]
  PROVE  IsWalk(after, x, w, s)
<1>1. PICK n \in Nat : n = Len(w) /\ \A i \in 1 .. n : w[i] \in Currencies /\ s[i] \in Int
  BY DEF IsWalk
<1>2. ASSUME NEW i \in 1 .. n PROVE after.dist[w[i]] <= s[i]
  <2>1. PICK a, b, c \in Int : a = after.dist[w[i]] /\ b = st.dist[w[i]] /\ c = s[i]
    BY <1>1 DEF State
  <2>2. a <= b /\ b <= c
    BY <1>1, <2>1 DEF IsWalk
  <2> QED
    BY <2>1, <2>2
<1> QED
  BY <1>1, <1>2 DEF IsWalk

\* What Append does, for the provers.
LEMMA Appended ==
  ASSUME NEW T, NEW q \in Seq(T), NEW e \in T
  PROVE  /\ Append(q, e) \in Seq(T) /\ Len(Append(q, e)) = Len(q) + 1
         /\ DOMAIN Append(q, e) = 1 .. Len(q) + 1
         /\ \A i \in 1 .. Len(q) : Append(q, e)[i] = q[i]
         /\ Append(q, e)[Len(q) + 1] = e
OBVIOUS

\* The walk to u and one edge more is a walk to what the edge improves.
LEMMA WalkGrows ==
  ASSUME Rated, NEW st \in State, NEW after \in State, NEW u \in Currencies, NEW x \in Currencies,
         NEW w, NEW s, IsWalk(st, u, w, s), Improves(st, u, x), x \notin Range(w),
         after.dist[x] = st.dist[u] + Weight(u, x),
         \A y \in Currencies : after.dist[y] <= st.dist[y]
  PROVE  IsWalk(after, x, Append(w, x), Append(s, after.dist[x]))
<1>1. PICK n \in Nat : /\ n = Len(w) /\ n = Len(s) /\ n >= 1 /\ DOMAIN w = 1 .. n
                       /\ \A i \in 1 .. n : w[i] \in Currencies /\ s[i] \in Int
  BY DEF IsWalk
<1>2. PICK d \in Int : d = after.dist[x]
  BY DEF State
<1>3. PICK w2 : /\ w2 = Append(w, x) /\ w2 \in Seq(Currencies) /\ Len(w2) = n + 1
                /\ DOMAIN w2 = 1 .. n + 1
                /\ \A i \in 1 .. n : w2[i] = w[i]
                /\ w2[n + 1] = x
  <2>1. w \in Seq(Currencies)
    BY DEF IsWalk
  <2>2. PICK new : new = Append(w, x)
    OBVIOUS
  <2>3. /\ new \in Seq(Currencies) /\ Len(new) = Len(w) + 1
        /\ DOMAIN new = 1 .. Len(w) + 1
        /\ \A i \in 1 .. Len(w) : new[i] = w[i]
        /\ new[Len(w) + 1] = x
    BY <2>1, <2>2, Appended
  <2> QED
    BY <1>1, <2>2, <2>3
<1>4. PICK s2 : /\ s2 = Append(s, d) /\ s2 \in Seq(Int) /\ Len(s2) = n + 1
                /\ \A i \in 1 .. n : s2[i] = s[i]
                /\ s2[n + 1] = d
  <2>1. s \in Seq(Int)
    BY DEF IsWalk
  <2>2. PICK new : new = Append(s, d)
    OBVIOUS
  <2>3. /\ new \in Seq(Int) /\ Len(new) = Len(s) + 1
        /\ \A i \in 1 .. Len(s) : new[i] = s[i]
        /\ new[Len(s) + 1] = d
    BY <2>1, <2>2, Appended
  <2> QED
    BY <1>1, <2>2, <2>3
<1>5. \A i \in 1 .. n + 1 : i \in 1 .. n \/ i = n + 1
  OBVIOUS
<1>6. IsInjective(w2)
  <2>1. \A i \in 1 .. n : w[i] # x
    BY <1>1 DEF Range
  <2>2. \A i, j \in 1 .. n : w[i] = w[j] => i = j
    BY <1>1 DEF IsWalk, IsInjective
  <2>3. \A i, j \in 1 .. n + 1 : w2[i] = w2[j] => i = j
    BY <1>3, <1>5, <2>1, <2>2
  <2> QED
    BY <1>3, <2>3 DEF IsInjective
<1>7. ASSUME NEW i \in 1 .. n
      PROVE  Connected(w2[i], w2[i + 1]) /\ s2[i + 1] = s2[i] + Weight(w2[i], w2[i + 1])
  <2>1. CASE i = n
    <3>1. w2[i] = u /\ w2[i + 1] = x /\ s2[i + 1] = d
      BY <1>1, <1>3, <1>4, <2>1 DEF IsWalk
    <3>2. s2[i] = st.dist[u]
      BY <1>1, <1>4, <2>1 DEF IsWalk
    <3> QED
      BY <1>2, <3>1, <3>2 DEF Improves
  <2>2. CASE i # n
    <3>1. i \in 1 .. n - 1 /\ i + 1 \in 1 .. n
      BY <2>2
    <3>2. w2[i] = w[i] /\ w2[i + 1] = w[i + 1] /\ s2[i] = s[i] /\ s2[i + 1] = s[i + 1]
      BY <1>3, <1>4, <3>1
    <3> QED
      BY <1>1, <3>1, <3>2 DEF IsWalk
  <2> QED
    BY <2>1, <2>2
<1>8. ASSUME NEW i \in 1 .. n + 1 PROVE after.dist[w2[i]] <= s2[i]
  <2>1. CASE i = n + 1
    BY <1>2, <1>3, <1>4, <2>1
  <2>2. CASE i # n + 1
    <3>1. i \in 1 .. n
      BY <2>2
    <3>2. PICK a, b, c \in Int : a = after.dist[w[i]] /\ b = st.dist[w[i]] /\ c = s[i]
      BY <1>1, <3>1 DEF State
    <3>3. a <= b /\ b <= c
      BY <1>1, <3>1, <3>2 DEF IsWalk
    <3> QED
      BY <1>3, <1>4, <3>1, <3>2, <3>3
  <2> QED
    BY <2>1, <2>2
<1>9. IsWalk(after, x, w2, s2)
  BY <1>1, <1>2, <1>3, <1>4, <1>6, <1>7, <1>8 DEF IsWalk
<1> QED
  BY <1>2, <1>3, <1>4, <1>9

(***************************************************************************)
(* Relaxing the edges of a currency makes the walks longer that it can     *)
(* still do something for.                                                 *)
(***************************************************************************)
LEMMA StepKeepsWalks ==
  ASSUME Rated, ~ProfitExists, NEW st, NEW level \in Nat, NEW D, WalkedTo(st, level, D),
         NEW v \in Currencies, v \notin D
  PROVE  WalkedTo(RelaxFrom(st, v), level, D \cup {v})
<1>1. PICK W, S : Walked(st, W, S) /\ Long(st, W, level, D)
  BY DEF WalkedTo
<1>2. st \in State
  BY DEF WalkedTo
<1>3. PICK after \in State : after = RelaxFrom(st, v) /\ Improved(st, after, v, Currencies)
  BY <1>2, RelaxFromImproves DEF Improved
<1>4. \A x \in Currencies :
        /\ after.dist[x] \in Int /\ st.dist[x] \in Int
        /\ Improves(st, v, x) => after.dist[x] = st.dist[v] + Weight(v, x)
        /\ ~Improves(st, v, x) => after.dist[x] = st.dist[x]
  BY <1>2, <1>3 DEF State, Improved
<1>5. \A x \in Currencies : after.dist[x] <= st.dist[x]
  <2> SUFFICES ASSUME NEW x \in Currencies PROVE after.dist[x] <= st.dist[x]
    OBVIOUS
  <2>1. CASE Improves(st, v, x)
    BY <1>4, <2>1 DEF Improves
  <2>2. CASE ~Improves(st, v, x)
    BY <1>4, <2>2
  <2> QED
    BY <2>1, <2>2
<1> DEFINE W2 == [x \in Currencies |-> IF Improves(st, v, x) THEN Append(W[v], x) ELSE W[x]]
           S2 == [x \in Currencies |->
                    IF Improves(st, v, x) THEN Append(S[v], after.dist[x]) ELSE S[x]]
<1>6. \A x \in Currencies :
        /\ Improves(st, v, x) => /\ W2[x] = Append(W[v], x)
                                 /\ S2[x] = Append(S[v], after.dist[x])
        /\ ~Improves(st, v, x) => W2[x] = W[x] /\ S2[x] = S[x]
  OBVIOUS
<1> HIDE DEF W2, S2
<1>7. Walked(after, W2, S2)
  <2> SUFFICES ASSUME NEW x \in Currencies PROVE IsWalk(after, x, W2[x], S2[x])
    BY DEF Walked
  <2>1. IsWalk(st, x, W[x], S[x]) /\ IsWalk(st, v, W[v], S[v])
    BY <1>1 DEF Walked
  <2>2. CASE Improves(st, v, x)
    <3>1. x \notin Range(W[v])
      BY <1>2, <2>1, <2>2, WalkInCircle
    <3>2. IsWalk(after, x, Append(W[v], x), Append(S[v], after.dist[x]))
      BY <1>2, <1>4, <1>5, <2>1, <2>2, <3>1, WalkGrows
    <3> QED
      BY <1>6, <2>2, <3>2
  <2>3. CASE ~Improves(st, v, x)
    <3>1. IsWalk(after, x, W[x], S[x])
      BY <1>2, <1>4, <1>5, <2>1, <2>3, WalkStays
    <3> QED
      BY <1>6, <2>3, <3>1
  <2> QED
    BY <2>2, <2>3
<1>8. Long(after, W2, level, D \cup {v})
  <2> SUFFICES ASSUME NEW u \in Currencies, NEW x \in Currencies, Improves(after, u, x)
               PROVE  /\ Len(W2[u]) >= level + 1
                      /\ u \in D \cup {v} => Len(W2[u]) >= level + 2
    BY DEF Long
  <2>1. Connected(u, x) /\ Weight(u, x) \in Int /\ after.dist[u] + Weight(u, x) < after.dist[x]
    BY BothWays DEF Improves
  <2>2. u # v
    <3>1. SUFFICES ASSUME u = v PROVE FALSE
      OBVIOUS
    <3>2. after.dist[v] = st.dist[v]
      BY <1>4, BothWays DEF Improves
    <3>3. after.dist[x] <= st.dist[v] + Weight(v, x)
      <4>1. CASE Improves(st, v, x)
        BY <1>4, <2>1, <3>1, <4>1
      <4>2. CASE ~Improves(st, v, x)
        BY <1>4, <2>1, <3>1, <4>2 DEF Improves
      <4> QED
        BY <4>1, <4>2
    <3> QED
      BY <1>4, <2>1, <3>1, <3>2, <3>3
  <2>3. CASE Improves(st, v, u)
    <3>1. Len(W[v]) >= level + 1
      BY <1>1, <2>3 DEF Long
    <3>2. Len(W2[u]) = Len(W[v]) + 1 /\ Len(W[v]) \in Nat
      BY <1>1, <1>6, <2>3 DEF Walked, IsWalk
    <3> QED
      BY <3>1, <3>2
  <2>4. CASE ~Improves(st, v, u)
    <3>1. Improves(st, u, x)
      BY <1>4, <1>5, <2>1, <2>4 DEF Improves
    <3>2. W2[u] = W[u]
      BY <1>6, <2>4
    <3> QED
      BY <1>1, <2>2, <3>1, <3>2 DEF Long
  <2> QED
    BY <2>3, <2>4
<1> QED
  BY <1>3, <1>7, <1>8 DEF WalkedTo

(***************************************************************************)
(* A pass relaxes the edges of every currency once: the walks to what is   *)
(* left to do are one currency longer.                                     *)
(***************************************************************************)
LEMMA PassKeepsWalks ==
  ASSUME Rated, ~ProfitExists, NEW st, NEW level \in Nat, WalkedTo(st, level, {}), NEW pass
  PROVE  WalkedTo(RelaxAll(st, pass), level + 1, {})
<1>1. PICK n \in Nat : n = Len(Vertices)
  BY VerticesAreAll
<1>2. /\ Vertices \in Seq(Currencies)
      /\ \A i \in 1 .. n : Vertices[i] \in Currencies
      /\ \A i, j \in 1 .. n : Vertices[i] = Vertices[j] => i = j
      /\ \A v \in Currencies : \E i \in 1 .. n : Vertices[i] = v
  <2>1. Vertices \in Seq(Currencies) /\ IsInjective(Vertices) /\ Range(Vertices) = Currencies
    BY VerticesAreAll
  <2>2. DOMAIN Vertices = 1 .. n
    BY <1>1, <2>1
  <2> QED
    BY <2>1, <2>2 DEF IsInjective, Range
<1>3. PICK acc : /\ acc[0] = st
                 /\ \A i \in 1 .. n : acc[i] = RelaxFrom(acc[i - 1], Vertices[i])
                 /\ Sweeping!Folded(st, Vertices) = acc[n]
  <2>1. \E acc : /\ acc[0] = st
                 /\ \A i \in 1 .. Len(Vertices) : acc[i] = RelaxFrom(acc[i - 1], Vertices[i])
                 /\ Sweeping!Folded(st, Vertices) = acc[Len(Vertices)]
    BY <1>2, Sweeping!FoldSteps
  <2> QED
    BY <1>1, <2>1
<1> DEFINE Done(i) == {Vertices[k] : k \in 1 .. i}
           A == {i \in 0 .. n : WalkedTo(acc[i], level, Done(i))}
<1>4. 0 \in A
  <2>1. Done(0) = {}
    OBVIOUS
  <2> HIDE DEF Done
  <2> QED
    BY <1>3, <2>1
<1>5. ASSUME NEW i \in 1 .. n, i - 1 \in A PROVE i \in A
  <2>1. PICK done : done = Done(i - 1)
    OBVIOUS
  <2>2. PICK old : old = acc[i - 1]
    OBVIOUS
  <2>3. PICK v \in Currencies : v = Vertices[i]
    BY <1>2
  <2>4. v \notin done
    <3>1. \A k \in 1 .. i - 1 : k \in 1 .. n /\ k # i
      OBVIOUS
    <3> QED
      BY <1>2, <2>1, <2>3, <3>1
  <2>5. Done(i) = done \cup {v}
    <3>1. \A k : k \in 1 .. i <=> k \in 1 .. i - 1 \/ k = i
      OBVIOUS
    <3> QED
      BY <2>1, <2>3, <3>1
  <2>6. WalkedTo(old, level, done)
    BY <1>5, <2>1, <2>2
  <2> HIDE DEF Done
  <2>7. WalkedTo(RelaxFrom(old, v), level, done \cup {v})
    BY <2>4, <2>6, StepKeepsWalks
  <2>8. acc[i] = RelaxFrom(old, v)
    BY <1>3, <2>2, <2>3
  <2> QED
    BY <2>5, <2>7, <2>8
<1>6. WalkedTo(acc[n], level, Currencies)
  <2>1. Done(n) = Currencies
    BY <1>2
  <2> HIDE DEF A
  <2>2. 0 .. n \subseteq A
    BY <1>4, <1>5, Sweeping!UpTo
  <2>3. n \in A
    BY <2>2
  <2> HIDE DEF Done
  <2> QED
    BY <2>1, <2>3 DEF A
<1>7. WalkedTo(acc[n], level + 1, {})
  <2>1. PICK W, S : Walked(acc[n], W, S) /\ Long(acc[n], W, level, Currencies)
    BY <1>6 DEF WalkedTo
  <2>2. Long(acc[n], W, level + 1, {})
    <3>1. (level + 1) + 1 = level + 2
      OBVIOUS
    <3> QED
      BY <2>1, <3>1 DEF Long
  <2> QED
    BY <1>6, <2>1, <2>2 DEF WalkedTo
<1>8. FoldLeft(RelaxFrom, st, Vertices) = Sweeping!Folded(st, Vertices)
  BY DEF FoldLeft, MapThenFoldSet, Max, Sweeping!Folded, Sweeping!FoldLeft,
         Sweeping!MapThenFoldSet, Sweeping!Max
<1> QED
  BY <1>3, <1>7, <1>8 DEF RelaxAll

\* Before the first pass the walk to a currency is that currency.
LEMMA ReachedWalked ==
  ASSUME Rated
  PROVE  WalkedTo(Reached, 0, {})
<1> DEFINE W == [x \in Currencies |-> <<x>>]
           S == [x \in Currencies |-> <<0>>]
<1>1. Reached \in State
  BY ReachedExplained
<1>2. ASSUME NEW x \in Currencies PROVE IsWalk(Reached, x, W[x], S[x])
  <2>1. PICK w, s : /\ w = W[x] /\ w = <<x>> /\ s = S[x] /\ s = <<0>>
    OBVIOUS
  <2>2. w \in Seq(Currencies) /\ s \in Seq(Int) /\ Len(w) = 1 /\ Len(s) = 1
        /\ w[1] = x /\ s[1] = 0 /\ DOMAIN w = 1 .. 1
    BY <2>1
  <2>3. 1 .. Len(w) = {1} /\ 1 .. Len(w) - 1 = {}
    BY <2>2
  <2>4. Reached.dist[x] = 0
    BY DEF Reached
  <2>5. IsInjective(w)
    BY <2>2 DEF IsInjective
  <2>6. IsWalk(Reached, x, w, s)
    BY <2>2, <2>3, <2>4, <2>5 DEF IsWalk
  <2> QED
    BY <2>1, <2>6
<1>3. \A x \in Currencies : Len(W[x]) = 1
  OBVIOUS
<1> HIDE DEF W, S
<1>4. Walked(Reached, W, S)
  BY <1>2 DEF Walked
<1>5. Long(Reached, W, 0, {})
  BY <1>3 DEF Long
<1> QED
  BY <1>1, <1>4, <1>5 DEF WalkedTo

(***************************************************************************)
(* With one pass less than there are currencies, what is left to relax     *)
(* would be the end of a walk through all of them.                         *)
(***************************************************************************)
LEMMA NoProfitMeansQuiet ==
  ASSUME Rated, ~ProfitExists
  PROVE  Quiet(Relaxed)
<1>1. PICK n \in Nat : n = Len(Vertices) - 1
  BY TwoVertices
<1>2. /\ Passes \in Seq(Nat) /\ Len(Passes) = n
  BY <1>1, TwoVertices DEF Passes
<1>3. PICK acc : /\ acc[0] = Reached
                 /\ \A i \in 1 .. n : acc[i] = RelaxAll(acc[i - 1], Passes[i])
                 /\ Passing!Folded(Reached, Passes) = acc[n]
  BY <1>2, Passing!FoldSteps
<1> DEFINE A == {i \in 0 .. n : WalkedTo(acc[i], i, {})}
<1>4. 0 \in A
  BY <1>3, ReachedWalked
<1>5. ASSUME NEW i \in 1 .. n, i - 1 \in A PROVE i \in A
  <2>1. PICK k \in Nat : k = i - 1 /\ k + 1 = i
    OBVIOUS
  <2>2. PICK old : old = acc[i - 1] /\ WalkedTo(old, k, {})
    BY <1>5, <2>1
  <2>3. WalkedTo(RelaxAll(old, Passes[i]), k + 1, {})
    BY <2>2, PassKeepsWalks
  <2>4. acc[i] = RelaxAll(old, Passes[i])
    BY <1>3, <2>2
  <2> QED
    BY <2>1, <2>3, <2>4
<1>6. WalkedTo(acc[n], n, {})
  <2> HIDE DEF A
  <2>1. 0 .. n \subseteq A
    BY <1>4, <1>5, Passing!UpTo
  <2>2. n \in A
    BY <2>1
  <2> QED
    BY <2>2 DEF A
<1>7. Relaxed = acc[n]
  <2>1. FoldLeft(RelaxAll, Reached, Passes) = Passing!Folded(Reached, Passes)
    BY DEF FoldLeft, MapThenFoldSet, Max, Passing!Folded, Passing!FoldLeft,
           Passing!MapThenFoldSet, Passing!Max
  <2> QED
    BY <1>3, <2>1 DEF Relaxed
<1>8. PICK st \in State : st = Relaxed /\ WalkedTo(st, n, {})
  BY <1>6, <1>7 DEF WalkedTo
<1>9. PICK W, S : Walked(st, W, S) /\ Long(st, W, n, {})
  BY <1>8 DEF WalkedTo
<1>10. ASSUME NEW u \in Currencies, NEW x \in Currencies, Improves(st, u, x) PROVE FALSE
  <2>1. PICK w, s : w = W[u] /\ IsWalk(st, u, w, s)
    BY <1>9 DEF Walked
  <2>2. PICK m \in Nat : m = Len(w) /\ w \in [1 .. m -> Currencies] /\ IsInjective(w)
    BY <2>1 DEF IsWalk
  <2>3. m >= n + 1
    BY <1>9, <1>10, <2>1, <2>2 DEF Long
  <2>4. Cardinality(Currencies) = n + 1 /\ IsFiniteSet(Currencies)
    BY <1>1, CurrenciesCounted, TwoVertices
  <2>5. IsFiniteSet(1 .. m) /\ Cardinality(1 .. m) = m
    <3>1. m \in Int /\ m >= 0
      BY <2>2
    <3> QED
      BY <3>1, FS_Interval
  <2>6. w \in Injection(1 .. m, Currencies)
    BY <2>2 DEF Injection, IsInjective
  <2>7. m <= n + 1
    BY <2>4, <2>5, <2>6, FS_Injection
  <2>8. w \in Surjection(1 .. m, Currencies)
    <3>1. Cardinality(1 .. m) = Cardinality(Currencies)
      BY <2>3, <2>4, <2>5, <2>7
    <3> QED
      BY <2>4, <2>6, <3>1, FS_Injection
  <2>9. x \in Range(w)
    BY <2>2, <2>8 DEF Surjection, Range
  <2> QED
    BY <1>10, <2>1, <2>9, WalkInCircle
<1>11. ASSUME NEW v \in Currencies, NEW x, Connected(v, x)
       PROVE  st.dist[x] <= st.dist[v] + Weight(v, x)
  <2>1. x \in Currencies /\ Weight(v, x) \in Int
    BY <1>11, BothWays
  <2>2. ~Improves(st, v, x)
    BY <1>10, <2>1
  <2>3. st.dist[x] \in Int /\ st.dist[v] \in Int
    BY <2>1 DEF State
  <2> QED
    BY <1>11, <2>1, <2>2, <2>3 DEF Improves
<1> QED
  BY <1>8, <1>11 DEF Quiet, QuietFrom

\* The last pass notes something exactly when a cycle makes a profit.
LEMMA SearchDetects ==
  ASSUME Rated
  PROVE  Chains # <<>> <=> ProfitExists
<1>1. PICK st \in State : st = Relaxed
  BY RelaxedExplained
<1>2. ASSUME ProfitExists PROVE ~Quiet(st)
  <2>1. PICK n \in 3 .. Cardinality(Currencies) :
          \E p \in Injection(1 .. n, Currencies) :
            HasRates(Append(p, p[1])) /\ Value(Append(p, p[1])) > 0
    BY <1>2 DEF ProfitExists
  <2>2. PICK p \in Injection(1 .. n, Currencies) :
          HasRates(Append(p, p[1])) /\ Value(Append(p, p[1])) > 0
    BY <2>1
  <2>3. n \in Nat /\ n >= 1 /\ p \in [1 .. n -> Currencies]
    BY CurrenciesCounted, TwoVertices DEF Injection
  <2>4. ASSUME Quiet(st) PROVE FALSE
    <3>1. PICK val : val = Value(Append(p, p[1]))
      OBVIOUS
    <3>2. val \in Int /\ val <= 0
      BY <2>2, <2>3, <2>4, <3>1, QuietMeansNoProfit
    <3>3. val > 0
      BY <2>2, <3>1
    <3> QED
      BY <3>2, <3>3
  <2> QED
    BY <2>4
<1>3. ~ProfitExists => Quiet(st)
  BY <1>1, NoProfitMeansQuiet
<1>4. Chains # <<>> <=> CyclicAfter(st) # <<>>
  BY <1>1, CyclicAreCurrencies DEF Chains
<1> QED
  BY <1>2, <1>3, <1>4, CyclicUnlessQuiet

-----------------------------------------------------------------------------
(* The theorems.                                                           *)

(***************************************************************************)
(* The rates are those of the markets seen, a search starts with all of    *)
(* them, and what is in found comes from the rates of now.                 *)
(***************************************************************************)
PathsInv == /\ order \in Seq(Markets)
            /\ logRate \in [Range(order) -> Int]
            /\ phase \in {"update", "search", "raised"}
            /\ phase = "search" => Range(order) = Markets
            /\ \A i \in DOMAIN found : Good(found[i])

\* A market is put in the order when it is first seen.
LEMMA SeenAdds ==
  ASSUME order \in Seq(Markets), NEW m \in Markets
  PROVE  Seen(m) \in Seq(Markets) /\ Range(Seen(m)) = Range(order) \cup {m}
<1>1. CASE m \in Range(order)
  BY <1>1 DEF Seen
<1>2. CASE m \notin Range(order)
  <2> DEFINE new == Append(order, m)
  <2>1. /\ new \in Seq(Markets) /\ DOMAIN new = 1 .. Len(order) + 1 /\ Len(order) \in Nat
        /\ DOMAIN order = 1 .. Len(order)
        /\ \A i \in 1 .. Len(order) : new[i] = order[i]
        /\ new[Len(order) + 1] = m
    OBVIOUS
  <2> HIDE DEF new
  <2>2. Range(new) = Range(order) \cup {m}
    BY <2>1 DEF Range
  <2> QED
    BY <1>2, <2>1, <2>2 DEF Seen, new
<1> QED
  BY <1>1, <1>2

\* The value of a path depends on the rates only.
LEMMA ValueStays ==
  ASSUME logRate' = logRate, NEW path
  PROVE  Value(path)' = Value(path)
BY Zenon DEF Value, Rate, Legs, MapThenSumSet, MapThenFoldSet

\* So does whether it is good.
LEMMA GoodStays ==
  ASSUME logRate' = logRate, NEW r, Good(r)
  PROVE  Good(r)'
<1>1. Value(r.currencies) = Value(r.currencies)'
  BY ValueStays
<1> QED
  BY <1>1 DEF Good, HasRates, Connected

\* The invariant holds at first.
LEMMA PathsInvInit == PathsInit => PathsInv
BY DEF PathsInit, PathsInv, Range

\* An update forgets what was found, a search returns good paths.
LEMMA PathsInvStep ==
  ASSUME PathsInv, [PathsNext]_pathVars
  PROVE  PathsInv'
<1>1. ASSUME NEW m \in Markets, NEW r \in LogRates, AddToGraph(m, r)
      PROVE  PathsInv'
  <2>1. PICK new : new = Seen(m)
    OBVIOUS
  <2>2. new \in Seq(Markets) /\ Range(new) = Range(order) \cup {m}
    BY <2>1, SeenAdds DEF PathsInv
  <2>3. order' = new
    BY <1>1, <2>1 DEF AddToGraph
  <2>4. /\ logRate' = [n \in Range(new) |-> IF n = m THEN r ELSE logRate[n]]
        /\ phase' = IF Range(new) = Markets THEN "search" ELSE "update"
        /\ found' = <<>>
    BY <1>1, <2>3 DEF AddToGraph
  <2>5. logRate' \in [Range(new) -> Int]
    BY <2>2, <2>4, GraphInputs DEF PathsInv
  <2>6. DOMAIN found' = {}
    BY <2>4
  <2>7. Range(order)' = Range(new)
    BY <2>3 DEF Range
  <2> QED
    BY <2>2, <2>3, <2>4, <2>5, <2>6, <2>7 DEF PathsInv
<1>2. ASSUME FindCycles PROVE PathsInv'
  <2>1. UNCHANGED <<order, logRate>> /\ phase = "search"
    BY <1>2 DEF FindCycles
  <2>2. Rated
    BY <2>1 DEF PathsInv, Rated
  <2>3. PICK new : new = found' /\ \A i \in DOMAIN new : Good(new[i])
    <3>1. CASE UNCHANGED found
      BY <3>1 DEF PathsInv
    <3>2. CASE /\ ~Raises(Chains)
               /\ found' = DeleteUnprofitable(SortedByValue(SourcePaths(Chains)))
      BY <2>2, <3>2, ReturnsGoodPaths
    <3> QED
      BY <1>2, <3>1, <3>2 DEF FindCycles
  <2>4. (\A i \in DOMAIN found : Good(found[i]))'
    <3>1. \A i \in DOMAIN new : Good(new[i])'
      BY <2>1, <2>3, GoodStays
    <3> QED
      BY <2>3, <3>1
  <2>5. phase' \in {"update", "raised"}
    BY <1>2 DEF FindCycles
  <2> QED
    BY <2>1, <2>4, <2>5 DEF PathsInv, Range
<1>3. ASSUME UNCHANGED pathVars PROVE PathsInv'
  <2>1. UNCHANGED <<order, logRate, phase, found>>
    BY <1>3 DEF pathVars
  <2>2. (\A i \in DOMAIN found : Good(found[i]))'
    <3>1. PICK new : new = found /\ \A i \in DOMAIN new : Good(new[i])
      BY DEF PathsInv
    <3>2. \A i \in DOMAIN new : Good(new[i])'
      BY <2>1, <3>1, GoodStays
    <3> QED
      BY <2>1, <3>1, <3>2
  <2> QED
    BY <2>1, <2>2 DEF PathsInv, Range
<1> QED
  BY <1>1, <1>2, <1>3 DEF PathsNext

\* The invariant holds forever.
LEMMA PathsInvariant == PathsSpec => []PathsInv
BY PathsInvInit, PathsInvStep, PTL DEF PathsSpec

(***************************************************************************)
(* For any markets and rates, every path find_cycles returns starts and    *)
(* ends with the source, visits no currency twice, has a market for every  *)
(* leg and the value of its legs.                                          *)
(***************************************************************************)
THEOREM PathsAreCycles == PathsSpec => []FoundAreCycles
<1>1. PathsInv => FoundAreCycles
  BY DEF PathsInv, Good, FoundAreCycles
<1> QED
  BY <1>1, PathsInvariant, PTL

(***************************************************************************)
(* And its value is a profit, although the leg that closes it is in no     *)
(* chain of predecessors and the deletion passes over every second path    *)
(* of no profit: there is none.                                            *)
(***************************************************************************)
THEOREM PathsMakeProfit == PathsSpec => []FoundMakeProfit
<1>1. PathsInv => FoundMakeProfit
  BY DEF PathsInv, Good, FoundMakeProfit
<1> QED
  BY <1>1, PathsInvariant, PTL

(***************************************************************************)
(* For any markets and rates, the last pass finds something to relax if    *)
(* and only if a cycle of the graph makes a profit: the passes, one less   *)
(* than there are currencies, are enough.                                  *)
(***************************************************************************)
THEOREM ProfitDetected == PathsSpec => []DetectsProfit
<1>1. PathsInv => DetectsProfit
  <2> SUFFICES ASSUME PathsInv, phase = "search" PROVE Chains # <<>> <=> ProfitExists
    BY DEF DetectsProfit
  <2>1. Rated
    BY DEF PathsInv, Rated
  <2> QED
    BY <2>1, SearchDetects
<1> QED
  BY <1>1, PathsInvariant, PTL

-----------------------------------------------------------------------------
(* The selection of an opportunity among the paths.                        *)

\* While the pass runs max_q and path_profit are those of the cycle priced
\* last, or 0 if none was.
FiguresInv == pc # "idle" =>
                IF priced = NoCycle THEN maxQ = 0 /\ pathProfit = 0
                ELSE maxQ = priced.quantity /\ pathProfit = priced.profit

\* The loop goes on only below the break, and what it looked at after the
\* cycle it priced last it had skipped.
LoopInv == /\ pc = "loop" => pathProfit <= 5
           /\ pc # "idle" /\ priced # NoCycle /\ arbitrage # priced
              => arbitrage \in throttled /\ pathProfit <= 5

\* What was sent is what the loop left.
SentInv == JustSent => /\ priced # NoCycle
                       /\ maxQ = priced.quantity
                       /\ sentProfit = priced.profit
                       /\ sentProfit > 1
                       /\ sent # priced => sent \in throttled /\ sentProfit <= 5

SelectionInv == SelectionTypeOK /\ FiguresInv /\ LoopInv /\ SentInv

\* The fields of a cycle.
LEMMA CycleFields ==
  \A c \in Cycle : c.quantity \in Nat /\ c.profit \in Nat /\ c # NoCycle
BY CycleInputs

LEMMA SearchIsSeq == \A s \in Searches : s \in Seq(Cycle)
BY DEF Searches, Injection

LEMMA SelectionInvInit == SelectionInit => SelectionInv
BY CycleInputs DEF SelectionInit, SelectionInv, SelectionTypeOK, FiguresInv, LoopInv, SentInv,
   JustSent

LEMMA SelectionInvStep ==
  ASSUME SelectionInv, [SelectionNext]_selectionVars
  PROVE  SelectionInv'
<1> USE CycleFields DEF SelectionInv, SelectionTypeOK, FiguresInv, LoopInv, SentInv,
        JustSent, loopVars, sentVars, history, passHistory, paceHistory
<1>1. CASE Tick
  BY <1>1, CycleInputs DEF Tick
<1>2. CASE StartPass
  BY <1>2, SearchIsSeq DEF StartPass
<1>3. CASE SkipThrottled
  <2>1. Head(todo) \in Cycle /\ Tail(todo) \in Seq(Cycle)
    BY <1>3 DEF SkipThrottled, TakeCycle
  <2> QED BY <1>3, <2>1 DEF SkipThrottled, TakeCycle
<1>4. CASE Price
  <2>1. Head(todo) \in Cycle /\ Tail(todo) \in Seq(Cycle)
    BY <1>4 DEF Price, Stamp, TakeCycle
  <2>2. executed' \in [Keys -> 0 .. MaxTime] /\ now \in 0 .. MaxTime
    <3>1. now \in 0 .. MaxTime
      BY CycleInputs
    <3>2. executed' = [executed EXCEPT ![Head(todo).key] = now]
      BY <1>4 DEF Price, Stamp
    <3> QED BY <3>1, <3>2
  <2> QED BY <1>4, <2>1, <2>2 DEF Price, TakeCycle, Priced, Profit, AfterPricing
<1>5. CASE LoopEnds
  BY <1>5 DEF LoopEnds
<1>6. CASE NoOpportunity
  BY <1>6 DEF NoOpportunity
<1>7. CASE SendOpportunity
  <2>1. priced \in Cycle /\ arbitrage \in Cycle
    BY <1>7 DEF SendOpportunity, WorthIt
  <2>2. lastRun' \in [Keys -> 0 .. MaxTime] /\ onOwn' \subseteq Keys
    BY <1>7, <2>1, CycleInputs DEF SendOpportunity
  <2> QED BY <1>7, <2>1, <2>2 DEF SendOpportunity, WorthIt
<1>8. CASE UNCHANGED selectionVars
  BY <1>8 DEF selectionVars
<1> QED BY <1>1, <1>2, <1>3, <1>4, <1>5, <1>6, <1>7, <1>8 DEF SelectionNext

LEMMA SelectionInvariant == SelectionSpec => []SelectionInv
BY SelectionInvInit, SelectionInvStep, PTL DEF SelectionSpec

\* Every variable of the pass keeps its type.
THEOREM SelectionTypes == SelectionSpec => []SelectionTypeOK
<1>1. SelectionInv => SelectionTypeOK
  BY DEF SelectionInv
<1> QED BY <1>1, SelectionInvariant, PTL

\* Nothing is sent on figures of an earlier pass or of several cycles.
THEOREM FiguresOfOneCycle == SelectionSpec => []PricedInThisPass
<1>1. SelectionInv => PricedInThisPass
  BY DEF SelectionInv, SentInv, PricedInThisPass
<1> QED BY <1>1, SelectionInvariant, PTL

\* Another path than the priced one is sent only when it was throttled in the
\* same pass and the profit is two to five cents.
THEOREM MismatchExplained == SelectionSpec => []MismatchIsThrottled
<1>1. SelectionInv => MismatchIsThrottled
  BY DEF SelectionInv, SelectionTypeOK, SentInv, JustSent, MismatchIsThrottled
<1> QED BY <1>1, SelectionInvariant, PTL

-----------------------------------------------------------------------------
(* The pace.  A key is stamped when it is priced, not when it is sent, so  *)
(* what is sent on figures of its own lies at or before the stamp, and a   *)
(* cycle that can be priced at all is a throttle later.                    *)

PaceInv ==
  /\ \A k \in Keys : /\ executed[k] <= now
                     /\ k \in onOwn => lastRun[k] <= executed[k]
  /\ pc # "idle" /\ priced # NoCycle =>
       /\ pricedAt = executed[priced.key]
       /\ priced.key \in onOwn => pricedAt - lastRun[priced.key] >= Throttle

LEMMA PaceInit == SelectionInit => PaceInv
BY CycleInputs DEF SelectionInit, PaceInv

LEMMA PaceStep ==
  ASSUME SelectionInv, PaceInv, [SelectionNext]_selectionVars
  PROVE  PaceInv'
<1> USE DEF loopVars, sentVars, passHistory, paceHistory, history, selectionVars
<1>1. /\ now \in Nat /\ Throttle \in Nat /\ Throttle > 0
      /\ executed \in [Keys -> Nat] /\ lastRun \in [Keys -> Nat]
  BY CycleInputs DEF SelectionInv, SelectionTypeOK
<1>2. CASE Tick
  BY <1>1, <1>2 DEF Tick, PaceInv
<1>3. CASE Price
  <2> DEFINE key == Head(todo).key
  <2>1. Head(todo) \in Cycle /\ key \in Keys
    BY <1>3, CycleInputs DEF Price, TakeCycle, SelectionInv, SelectionTypeOK
  <2>2. /\ executed' = [executed EXCEPT ![key] = now] /\ pricedAt' = now
        /\ priced' = Head(todo) /\ now - executed[key] >= Throttle
        /\ UNCHANGED <<now, lastRun, onOwn>>
    BY <1>1, <1>3, <2>1 DEF Price, Stamp, Priced, TooRecent, TakeCycle
  <2>3. \A k \in Keys : executed'[k] = IF k = key THEN now ELSE executed[k]
    BY <1>1, <2>2
  <2>4. priced'.key = key
    BY <2>2
  <2> HIDE DEF key
  <2>5. /\ key \in onOwn => lastRun[key] <= executed[key]
        /\ executed[key] <= now
    BY <2>1 DEF PaceInv
  <2>6. executed[key] \in Nat /\ lastRun[key] \in Nat
    BY <1>1, <2>1
  <2>7. key \in onOwn => now - lastRun[key] >= Throttle
    BY <1>1, <2>2, <2>5, <2>6
  <2>8. \A k \in Keys : /\ executed'[k] <= now'
                        /\ k \in onOwn' => lastRun'[k] <= executed'[k]
    BY <1>1, <2>2, <2>3, <2>5, <2>6 DEF PaceInv
  <2>9. executed'[key] = now
    BY <2>1, <2>3
  <2> QED BY <2>2, <2>4, <2>7, <2>8, <2>9 DEF PaceInv
<1>4. CASE SkipThrottled
  BY <1>4 DEF SkipThrottled, TakeCycle, PaceInv
<1>5. CASE StartPass \/ LoopEnds \/ NoOpportunity
  BY <1>5 DEF StartPass, LoopEnds, NoOpportunity, PaceInv
<1>6. CASE SendOpportunity
  <2>1. /\ pc # "idle" /\ priced # NoCycle
        /\ lastRun' = [lastRun EXCEPT ![arbitrage.key] = pricedAt]
        /\ onOwn' = IF arbitrage.key = priced.key THEN onOwn \cup {arbitrage.key}
                    ELSE onOwn \ {arbitrage.key}
        /\ pc' = "idle" /\ UNCHANGED <<now, executed>>
    BY <1>6 DEF SendOpportunity, WorthIt, SelectionInv, SelectionTypeOK, FiguresInv
  <2>2. pricedAt = executed[priced.key]
    BY <2>1 DEF PaceInv
  <2>3. ASSUME NEW k \in Keys
        PROVE  /\ executed[k] <= now
               /\ k \in onOwn' => lastRun'[k] <= executed[k]
    <3>1. /\ lastRun'[k] = IF k = arbitrage.key THEN pricedAt ELSE lastRun[k]
          /\ k \in onOwn' => k \in onOwn \/ k = arbitrage.key
          /\ k \in onOwn' /\ k = arbitrage.key => k = priced.key
      BY <1>1, <2>1
    <3>2. /\ executed[k] \in Nat /\ executed[k] <= now
          /\ k \in onOwn => lastRun[k] <= executed[k]
      BY <1>1 DEF PaceInv
    <3> QED BY <2>2, <3>1, <3>2
  <2> QED BY <2>1, <2>3 DEF PaceInv
<1>7. CASE UNCHANGED selectionVars
  BY <1>7 DEF PaceInv
<1> QED BY <1>2, <1>3, <1>4, <1>5, <1>6, <1>7 DEF SelectionNext

(***************************************************************************)
(* Successive opportunities of the same markets, each sent on figures of   *)
(* these markets, are a throttle apart, whatever number of passes prices   *)
(* them without sending anything (main.py:230-238, 291-363).               *)
(***************************************************************************)
THEOREM Paced == SelectionSpec => OpportunitiesArePaced
<1>1. ASSUME SelectionInv, PaceInv, [SelectionNext]_selectionVars
      PROVE  [pc = "after" /\ JustSent' =>
                LET k == sent'.key
                IN  \/ lastRun[k] = 0
                    \/ lastRun'[k] - lastRun[k] >= Throttle
                    \/ ~(k \in onOwn /\ k \in onOwn')]_selectionVars
  <2>1. CASE SendOpportunity
    <3> DEFINE k == arbitrage.key
    <3>1. /\ lastRun \in [Keys -> 0 .. MaxTime] /\ priced # NoCycle /\ pc # "idle"
          /\ lastRun' = [lastRun EXCEPT ![k] = pricedAt] /\ sent' = arbitrage
          /\ k \in onOwn' => k = priced.key
      BY <1>1, <2>1 DEF SendOpportunity, WorthIt, SelectionInv, SelectionTypeOK, FiguresInv
    <3>2. arbitrage \in Cycle
      BY <1>1, <2>1, <3>1 DEF SendOpportunity, SelectionInv, SelectionTypeOK, LoopInv
    <3>3. k \in Keys
      BY <3>2, CycleInputs
    <3>4. lastRun'[k] = pricedAt
      BY <3>1, <3>3
    <3>5. k \in onOwn /\ k \in onOwn' => pricedAt - lastRun[k] >= Throttle
      BY <1>1, <3>1 DEF PaceInv
    <3> QED BY <3>1, <3>4, <3>5
  <2>2. CASE pc # "after" \/ ~JustSent'
    BY <2>2
  <2>3. CASE UNCHANGED selectionVars
    BY <2>3
  <2> QED BY <1>1, <2>1, <2>2, <2>3
          DEF SelectionNext, Tick, StartPass, SkipThrottled, Price, TakeCycle, LoopEnds,
              NoOpportunity, JustSent
<1>2. SelectionSpec => []PaceInv
  BY SelectionInvariant, PaceInit, PaceStep, PTL DEF SelectionSpec
<1> QED BY <1>1, <1>2, SelectionInvariant, PTL DEF SelectionSpec, OpportunitiesArePaced
=============================================================================
