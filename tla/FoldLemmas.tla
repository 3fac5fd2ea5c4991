----------------------------- MODULE FoldLemmas -----------------------------
(***************************************************************************)
(* Folds over sequences (FoldLeft) and sums over 1 .. n (MapThenSumSet),   *)
(* for any operator Op: a module instantiates this one for each operator   *)
(* it folds with.  The community modules define both by a CHOOSE of a      *)
(* recursive function over subsets; that the function exists and what it   *)
(* returns is proved here, by the least number principle (UpTo).           *)
(***************************************************************************)
EXTENDS SequencesExt, FiniteSetTheorems, WellFoundedInduction, TLAPS

CONSTANT Op(_, _)

Folded(base, seq) == FoldLeft(Op, base, seq)

\* A set of natural numbers that is not empty has a least one.
LEMMA LeastNumber ==
  ASSUME NEW A, A \subseteq Nat, A # {}
  PROVE  \E m \in A : \A k \in A : m <= k
<1>1. PICK m \in A : \A k \in A : <<k, m>> \notin OpToRel(<, Nat)
  BY NatLessThanWellFounded, WFMin
<1>2. ASSUME NEW k \in A PROVE m <= k
  <2>1. k < m => <<k, m>> \in OpToRel(<, Nat)
    BY DEF OpToRel
  <2>2. ~(k < m)
    BY <1>1, <2>1, Zenon
  <2>3. m \in Nat /\ k \in Nat
    OBVIOUS
  <2> QED
    BY <2>2, <2>3
<1> QED
  BY <1>2

(***************************************************************************)
(* Induction over 0 .. n, for a set that is named and not a predicate:     *)
(* tlapm cannot instantiate the induction theorems of its library.         *)
(***************************************************************************)
LEMMA UpTo ==
  ASSUME NEW n \in Nat, NEW A, 0 \in A, \A i \in 1 .. n : i - 1 \in A => i \in A
  PROVE  0 .. n \subseteq A
<1>1. SUFFICES ASSUME 0 .. n \ A # {} PROVE FALSE
  OBVIOUS
<1>2. PICK m \in 0 .. n \ A : \A k \in 0 .. n \ A : m <= k
  <2>1. 0 .. n \ A \subseteq Nat
    OBVIOUS
  <2> QED
    BY <1>1, <2>1, LeastNumber
<1>3. m \in 1 .. n /\ m - 1 \in 0 .. n /\ ~(m <= m - 1)
  OBVIOUS
<1> QED
  BY <1>2, <1>3

Iterate(base, seq, iter, n) ==
  iter = [s \in SUBSET (1 .. n) |->
            IF s = {} THEN base ELSE Op(iter[s \ {Max(s)}], seq[Max(s)])]

\* The greatest of a set of numbers up to n is n if n is one of them.
LEMMA Greatest ==
  ASSUME NEW n \in Nat, NEW s, n \in s, s \subseteq 1 .. n
  PROVE  Max(s) = n
<1>1. \A y \in s : n >= y
  OBVIOUS
<1>2. \A x \in s : (\A y \in s : x >= y) => x = n
  OBVIOUS
<1> QED
  BY <1>1, <1>2 DEF Max

\* The recursive definition inside MapThenFoldSet has a solution.
LEMMA IterateExists ==
  ASSUME NEW base, NEW seq, NEW n \in Nat
  PROVE  \E iter : Iterate(base, seq, iter, n)
<1> DEFINE A == {i \in 0 .. n : \E iter : Iterate(base, seq, iter, i)}
<1>1. 0 \in A
  <2>1. Iterate(base, seq, [s \in SUBSET (1 .. 0) |-> base], 0)
    <3>1. SUBSET (1 .. 0) = {{}}
      OBVIOUS
    <3> QED
      BY <3>1 DEF Iterate
  <2> QED
    BY <2>1
<1>2. ASSUME NEW i \in 1 .. n, i - 1 \in A PROVE i \in A
  <2>1. PICK old : Iterate(base, seq, old, i - 1)
    BY <1>2
  <2> DEFINE new == [s \in SUBSET (1 .. i) |->
                       IF i \in s THEN Op(old[s \ {i}], seq[i]) ELSE old[s]]
  <2>2. ASSUME NEW s \in SUBSET (1 .. i)
        PROVE  new[s] = IF s = {} THEN base ELSE Op(new[s \ {Max(s)}], seq[Max(s)])
    <3>1. CASE i \in s
      <4>1. Max(s) = i
        <5>1. i \in Nat /\ s \subseteq 1 .. i
          OBVIOUS
        <5> QED
          BY <3>1, <5>1, Greatest
      <4>2. s \ {i} \in SUBSET (1 .. i) /\ i \notin s \ {i}
        OBVIOUS
      <4>3. new[s \ {i}] = old[s \ {i}]
        BY <4>2
      <4>4. new[s] = Op(old[s \ {i}], seq[i])
        BY <3>1
      <4> HIDE DEF new
      <4> QED
        BY <4>1, <4>3, <4>4, <3>1
    <3>2. CASE i \notin s
      <4>1. s \in SUBSET (1 .. i - 1)
        BY <3>2
      <4>2. new[s] = old[s]
        BY <3>2
      <4>3. old[s] = IF s = {} THEN base ELSE Op(old[s \ {Max(s)}], seq[Max(s)])
        BY <2>1, <4>1 DEF Iterate
      <4>4. new[s \ {Max(s)}] = old[s \ {Max(s)}]
        BY <3>2
      <4> HIDE DEF new
      <4> QED
        BY <4>2, <4>3, <4>4
    <3> QED
      BY <3>1, <3>2
  <2>3. new = [s \in SUBSET (1 .. i) |->
                 IF s = {} THEN base ELSE Op(new[s \ {Max(s)}], seq[Max(s)])]
    <3> HIDE DEF new
    <3>1. new = [s \in SUBSET (1 .. i) |-> new[s]]
      BY DEF new
    <3> QED
      BY <2>2, <3>1
  <2>4. Iterate(base, seq, new, i)
    BY <2>3 DEF Iterate
  <2> QED
    BY <2>4
<1> HIDE DEF A
<1>3. n \in A
  BY <1>1, <1>2, UpTo
<1> QED
  BY <1>3 DEF A

\* The fold is what that solution gives for all the positions.
LEMMA FoldedIterates ==
  ASSUME NEW S, NEW seq \in Seq(S), NEW base
  PROVE  \E iter : /\ Iterate(base, seq, iter, Len(seq))
                   /\ Folded(base, seq) = iter[1 .. Len(seq)]
<1> DEFINE iter == CHOOSE it : Iterate(base, seq, it, Len(seq))
<1>1. Iterate(base, seq, iter, Len(seq))
  BY IterateExists, Len(seq) \in Nat
<1>2. DOMAIN seq = 1 .. Len(seq)
  OBVIOUS
<1>3. Folded(base, seq) = iter[1 .. Len(seq)]
  BY <1>2 DEF Folded, FoldLeft, MapThenFoldSet, Iterate
<1> QED
  BY <1>1, <1>3

(***************************************************************************)
(* The fold goes through the elements of the sequence in their order.      *)
(***************************************************************************)
LEMMA FoldSteps ==
  ASSUME NEW S, NEW seq \in Seq(S), NEW base
  PROVE  \E acc : /\ acc[0] = base
                  /\ \A i \in 1 .. Len(seq) : acc[i] = Op(acc[i - 1], seq[i])
                  /\ Folded(base, seq) = acc[Len(seq)]
<1> DEFINE n == Len(seq)
<1>1. PICK iter : Iterate(base, seq, iter, n) /\ Folded(base, seq) = iter[1 .. n]
  BY FoldedIterates
<1> DEFINE acc == [i \in 0 .. n |-> iter[1 .. i]]
<1>2. n \in Nat
  OBVIOUS
<1>3. acc[0] = base
  BY <1>1, <1>2, 1 .. 0 = {} DEF Iterate
<1>4. ASSUME NEW i \in 1 .. n PROVE acc[i] = Op(acc[i - 1], seq[i])
  <2>1. 1 .. i \in SUBSET (1 .. n) /\ 1 .. i # {}
    BY <1>2
  <2>2. iter[1 .. i] = Op(iter[1 .. i \ {Max(1 .. i)}], seq[Max(1 .. i)])
    BY <1>1, <2>1 DEF Iterate
  <2>3. Max(1 .. i) = i
    BY Greatest
  <2>4. 1 .. i \ {i} = 1 .. i - 1
    OBVIOUS
  <2>5. acc[i] = iter[1 .. i] /\ acc[i - 1] = iter[1 .. i - 1]
    BY <1>2
  <2> HIDE DEF acc
  <2> QED
    BY <2>2, <2>3, <2>4, <2>5
<1>5. acc[n] = iter[1 .. n]
  BY <1>2
<1> HIDE DEF acc
<1> QED
  BY <1>1, <1>3, <1>4, <1>5

(***************************************************************************)
(* What the base is and each step keeps, the fold is.                      *)
(***************************************************************************)
LEMMA FoldKeeps ==
  ASSUME NEW S, NEW seq \in Seq(S), NEW T, NEW base \in T,
         \A t \in T, i \in 1 .. Len(seq) : Op(t, seq[i]) \in T
  PROVE  Folded(base, seq) \in T
<1>1. PICK acc : /\ acc[0] = base
                 /\ \A i \in 1 .. Len(seq) : acc[i] = Op(acc[i - 1], seq[i])
                 /\ Folded(base, seq) = acc[Len(seq)]
  BY FoldSteps
<1> DEFINE A == {i \in 0 .. Len(seq) : acc[i] \in T}
<1>2. Len(seq) \in Nat
  OBVIOUS
<1>3. 0 \in A
  BY <1>1, <1>2
<1>4. \A i \in 1 .. Len(seq) : i - 1 \in A => i \in A
  BY <1>1, <1>2
<1> HIDE DEF A
<1>5. 0 .. Len(seq) \subseteq A
  BY <1>2, <1>3, <1>4, UpTo
<1> QED
  BY <1>1, <1>2, <1>5 DEF A

-----------------------------------------------------------------------------
(* MapThenSumSet over 1 .. n: its terms are a function f, the elements it  *)
(* takes out are those of pick, its sums are iter.                         *)

Adds(f, pick, iter, s) ==
  iter[s] = IF s = {} THEN 0 ELSE f[pick[s]] + iter[s \ {pick[s]}]

Picks(n, pick) == \A s \in SUBSET (1 .. n) : s # {} => pick[s] \in s

Sums(n, f, pick, iter) ==
  /\ Picks(n, pick)
  /\ \A s \in SUBSET (1 .. n) : Adds(f, pick, iter, s)

\* A measure for induction over the subsets of 1 .. n.
LEMMA Sizes ==
  ASSUME NEW n \in Nat
  PROVE  \E size \in [SUBSET (1 .. n) -> 0 .. n] :
           \A s \in SUBSET (1 .. n) : /\ size[s] = 0 => s = {}
                                     /\ \A x \in s : size[s \ {x}] = size[s] - 1
<1>1. IsFiniteSet(1 .. n) /\ Cardinality(1 .. n) = n
  BY FS_Interval
<1>2. ASSUME NEW s \in SUBSET (1 .. n)
      PROVE  IsFiniteSet(s) /\ Cardinality(s) \in 0 .. n
  <2>1. IsFiniteSet(s) /\ Cardinality(s) <= Cardinality(1 .. n)
    BY <1>1, FS_Subset
  <2>2. Cardinality(s) \in Nat
    BY <2>1, FS_CardinalityType
  <2> QED
    BY <1>1, <2>1, <2>2
<1>3. ASSUME NEW s \in SUBSET (1 .. n), NEW x \in s
      PROVE  Cardinality(s \ {x}) = Cardinality(s) - 1
  BY <1>2, FS_RemoveElement
<1>4. ASSUME NEW s \in SUBSET (1 .. n), Cardinality(s) = 0
      PROVE  s = {}
  BY <1>2, <1>4, FS_EmptySet
<1> DEFINE size == [s \in SUBSET (1 .. n) |-> Cardinality(s)]
<1>5. size \in [SUBSET (1 .. n) -> 0 .. n]
  BY <1>2
<1>6. ASSUME NEW s \in SUBSET (1 .. n), NEW x \in s PROVE size[s \ {x}] = size[s] - 1
  <2>1. s \ {x} \in SUBSET (1 .. n)
    OBVIOUS
  <2>2. size[s \ {x}] = Cardinality(s \ {x}) /\ size[s] = Cardinality(s)
    BY <2>1, Zenon
  <2> QED
    BY <1>3, <2>2, Zenon
<1>7. ASSUME NEW s \in SUBSET (1 .. n), size[s] = 0 PROVE s = {}
  BY <1>4, <1>7
<1> HIDE DEF size
<1> QED
  BY <1>5, <1>6, <1>7

\* The recursive definition inside the sum has a solution.
LEMMA SumsExist ==
  ASSUME NEW n \in Nat, NEW f, NEW pick, Picks(n, pick)
  PROVE  \E iter : /\ iter = [s \in SUBSET (1 .. n) |-> iter[s]]
                   /\ Sums(n, f, pick, iter)
<1>1. PICK size \in [SUBSET (1 .. n) -> 0 .. n] :
             \A s \in SUBSET (1 .. n) : /\ size[s] = 0 => s = {}
                                       /\ \A x \in s : size[s \ {x}] = size[s] - 1
  BY Sizes
<1> DEFINE D == SUBSET (1 .. n)
           Upto(it, k) == \A s \in D : size[s] <= k => Adds(f, pick, it, s)
           A == {k \in 0 .. n : \E it : Upto(it, k)}
<1>2. 0 \in A
  <2>1. Upto([s \in D |-> 0], 0)
    BY <1>1 DEF Adds
  <2> QED
    BY <2>1
<1>3. ASSUME NEW k \in 1 .. n, k - 1 \in A PROVE k \in A
  <2>1. PICK it : Upto(it, k - 1)
    BY <1>3
  <2> DEFINE next == [s \in D |-> IF s = {} THEN 0 ELSE f[pick[s]] + it[s \ {pick[s]}]]
  <2>2. ASSUME NEW s \in D, size[s] <= k PROVE Adds(f, pick, next, s)
    <3>1. CASE s = {}
      BY <3>1 DEF Adds
    <3>2. CASE s # {}
      <4>1. PICK c \in s : c = pick[s]
        BY <3>2 DEF Picks
      <4>2. s \ {c} \in D /\ size[s \ {c}] = size[s] - 1 /\ size[s] \in 0 .. n
        BY <1>1
      <4>3. Adds(f, pick, it, s \ {c})
        BY <2>1, <2>2, <4>2
      <4>4. next[s \ {c}] = it[s \ {c}]
        BY <4>2, <4>3 DEF Adds
      <4>5. next[s] = f[c] + it[s \ {c}]
        BY <3>2, <4>1
      <4> HIDE DEF next
      <4> QED
        BY <3>2, <4>1, <4>4, <4>5 DEF Adds
    <3> QED
      BY <3>1, <3>2
  <2> HIDE DEF next
  <2>3. Upto(next, k)
    BY <2>2
  <2> QED
    BY <2>3
<1>4. n \in A
  <2> HIDE DEF A
  <2> QED
    BY <1>2, <1>3, UpTo
<1>5. PICK it : Upto(it, n)
  BY <1>4
<1>6. \A s \in D : Adds(f, pick, it, s)
  BY <1>1, <1>5
<1> DEFINE iter == [s \in D |-> it[s]]
<1>7. ASSUME NEW s \in D PROVE Adds(f, pick, iter, s)
  <2>1. s # {} => s \ {pick[s]} \in D
    OBVIOUS
  <2> QED
    BY <1>6, <2>1 DEF Adds
<1> QED
  BY <1>7 DEF Sums

(***************************************************************************)
(* Any element may be taken out of a sum first.                            *)
(***************************************************************************)
\* Any element of the set can be taken out first.
Additive(n, f, iter) ==
  \A s \in SUBSET (1 .. n) : /\ iter[s] \in Int
                             /\ \A x \in s : iter[s] = f[x] + iter[s \ {x}]

\* The sum is the same whichever element is taken out first.
LEMMA SumTakesOut ==
  ASSUME NEW n \in Nat, NEW f \in [1 .. n -> Int], NEW pick,
         NEW iter, Sums(n, f, pick, iter)
  PROVE  Additive(n, f, iter)
<1>1. PICK size \in [SUBSET (1 .. n) -> 0 .. n] :
             \A s \in SUBSET (1 .. n) : /\ size[s] = 0 => s = {}
                                       /\ \A x \in s : size[s \ {x}] = size[s] - 1
  BY Sizes
<1> DEFINE D == SUBSET (1 .. n)
           TakesOut(s) == /\ iter[s] \in Int
                          /\ \A x \in s : iter[s] = f[x] + iter[s \ {x}]
           A == {k \in 0 .. n : \A s \in D : size[s] <= k => TakesOut(s)}
<1>2. TakesOut({})
  <2>1. Adds(f, pick, iter, {})
    BY DEF Sums
  <2> QED
    BY <2>1 DEF Adds
<1>3. 0 \in A
  <2>1. \A s \in D : size[s] <= 0 => s = {}
    BY <1>1
  <2>2. \A s \in D : size[s] <= 0 => TakesOut(s)
    BY <1>2, <2>1, Zenon
  <2> HIDE DEF TakesOut
  <2> QED
    BY <2>2
<1>4. ASSUME NEW k \in 1 .. n, k - 1 \in A PROVE k \in A
  <2>0. \A s \in D : size[s] <= k - 1 => TakesOut(s)
    <3> HIDE DEF TakesOut
    <3> QED
      BY <1>4
  <2>1. ASSUME NEW s \in D, size[s] <= k, s # {} PROVE TakesOut(s)
    <3>1. PICK c \in s : c = pick[s]
      BY <2>1 DEF Picks, Sums
    <3>2. iter[s] = f[c] + iter[s \ {c}]
      BY <2>1, <3>1, Zenon DEF Adds, Sums
    <3>3. ASSUME NEW t \in D, size[t] = size[s] - 1 PROVE TakesOut(t)
      <4>1. size[s] \in 0 .. n
        BY <1>1
      <4>2. size[t] <= k - 1
        BY <2>1, <3>3, <4>1
      <4> HIDE DEF TakesOut
      <4> QED
        BY <2>0, <4>2
    <3>4. ASSUME NEW y \in s
          PROVE  /\ s \ {y} \in D
                 /\ size[s \ {y}] = size[s] - 1
                 /\ f[y] \in Int
      BY <1>1
    <3>5. iter[s \ {c}] \in Int
      BY <3>3, <3>4
    <3>6. f[c] \in Int /\ iter[s] \in Int
      BY <3>2, <3>4, <3>5
    <3>7. ASSUME NEW x \in s PROVE iter[s] = f[x] + iter[s \ {x}]
      <4>1. CASE x = c
        BY <3>2, <4>1
      <4>2. CASE x # c
        <5>1. PICK t \in D, u \in D, r \in D :
                     /\ t = s \ {c} /\ u = s \ {x}
                     /\ r = t \ {x} /\ r = u \ {c}
                     /\ x \in t /\ c \in u
          <6> DEFINE t == s \ {c}
                     u == s \ {x}
                     r == s \ {c, x}
          <6>1. /\ t \in D /\ u \in D /\ r \in D
                /\ r = t \ {x} /\ r = u \ {c} /\ x \in t /\ c \in u
            BY <4>2
          <6> QED
            BY <6>1, Zenon
        <5>2. TakesOut(t) /\ TakesOut(u)
          BY <3>3, <3>4, <5>1
        <5>3. iter[t] = f[x] + iter[r] /\ iter[u] = f[c] + iter[r]
          BY <5>1, <5>2, Zenon
        <5>4. size[r] = size[t] - 1 /\ size[t] = size[s] - 1
          BY <1>1, <5>1
        <5>5. TakesOut(r)
          <6>1. size[s] \in 0 .. n
            BY <1>1
          <6>2. size[r] <= k - 1
            BY <2>1, <5>4, <6>1
          <6> HIDE DEF TakesOut
          <6> QED
            BY <2>0, <6>2
        <5>6. iter[t] \in Int /\ iter[u] \in Int /\ iter[r] \in Int
          BY <5>2, <5>5
        <5>7. iter[s] = f[c] + iter[t]
          BY <3>2, <5>1
        <5> HIDE DEF TakesOut
        <5>8. iter[s] = f[x] + iter[u]
          BY <3>4, <3>6, <5>3, <5>6, <5>7
        <5> QED
          BY <5>1, <5>8
      <4> QED
        BY <4>1, <4>2
    <3> QED
      BY <3>6, <3>7
  <2> HIDE DEF TakesOut
  <2>2. \A s \in D : size[s] <= k => TakesOut(s)
    BY <1>2, <2>1
  <2> QED
    BY <2>2
<1>5. n \in A
  <2> HIDE DEF A
  <2>1. \A k \in 1 .. n : k - 1 \in A => k \in A
    BY <1>4, Zenon
  <2>2. 0 .. n \subseteq A
    BY <1>3, <2>1, UpTo
  <2> QED
    BY <2>2
<1>6. \A s \in SUBSET (1 .. n) : TakesOut(s)
  BY <1>1, <1>5
<1> QED
  BY <1>6 DEF Additive

\* The total of f[1] to f[n].
Total(n, f, total) ==
  \E acc \in [0 .. n -> Int] : /\ acc[0] = 0
                               /\ \A i \in 1 .. n : acc[i] = acc[i - 1] + f[i]
                               /\ acc[n] = total

(***************************************************************************)
(* A sum over 1 .. n, from the first term to the last.                     *)
(***************************************************************************)
LEMMA SumSteps ==
  ASSUME NEW n \in Nat, NEW f \in [1 .. n -> Int], NEW pick,
         NEW iter, Sums(n, f, pick, iter)
  PROVE  Total(n, f, iter[1 .. n])
<1> DEFINE acc == [i \in 0 .. n |-> iter[1 .. i]]
<1>0. \A s \in SUBSET (1 .. n) : /\ iter[s] \in Int
                                 /\ \A x \in s : iter[s] = f[x] + iter[s \ {x}]
  <2>1. Additive(n, f, iter)
    BY SumTakesOut
  <2> QED
    BY <2>1 DEF Additive
<1>1. ASSUME NEW i \in 0 .. n
      PROVE  /\ 1 .. i \in SUBSET (1 .. n)
             /\ iter[1 .. i] \in Int
             /\ acc[i] = iter[1 .. i]
  <2>1. 1 .. i \in SUBSET (1 .. n)
    OBVIOUS
  <2> QED
    BY <1>0, <2>1
<1>2. acc[0] = 0
  <2>1. 1 .. 0 = {} /\ 0 \in 0 .. n
    OBVIOUS
  <2> QED
    BY <1>1, <2>1 DEF Adds, Sums
<1>3. ASSUME NEW i \in 1 .. n PROVE acc[i] = acc[i - 1] + f[i]
  <2>1. i \in 1 .. i /\ i \in 0 .. n /\ i - 1 \in 0 .. n
    OBVIOUS
  <2>2. (1 .. i) \ {i} = 1 .. i - 1
    OBVIOUS
  <2>3. iter[1 .. i] = f[i] + iter[(1 .. i) \ {i}]
    BY <1>0, <1>1, <2>1, Zenon
  <2>4. f[i] \in Int
    OBVIOUS
  <2>5. /\ acc[i] = iter[1 .. i]
        /\ acc[i - 1] = iter[1 .. i - 1] /\ iter[1 .. i - 1] \in Int
    BY <1>1, <2>1, Zenon
  <2>6. iter[(1 .. i) \ {i}] = iter[1 .. i - 1]
    BY <2>2
  <2> HIDE DEF acc
  <2> QED
    BY <2>3, <2>4, <2>5, <2>6
<1>4. acc \in [0 .. n -> Int] /\ acc[n] = iter[1 .. n]
  BY <1>1
<1> HIDE DEF acc
<1> QED
  BY <1>2, <1>3, <1>4 DEF Total
-----------------------------------------------------------------------------
\* Of finitely many integers one is the least.
LEMMA LeastOfThese ==
  ASSUME NEW n \in Nat, NEW f \in [1 .. n -> Int], NEW b \in Int
  PROVE  \E m \in Int : /\ m \in {b} \cup {f[i] : i \in 1 .. n}
                        /\ m <= b
                        /\ \A i \in 1 .. n : m <= f[i]
<1> DEFINE Least(k, m) == /\ m \in {b} \cup {f[i] : i \in 1 .. k}
                          /\ m <= b
                          /\ \A i \in 1 .. k : m <= f[i]
           A == {k \in 0 .. n : \E m \in Int : Least(k, m)}
<1>1. 0 \in A
  <2>1. Least(0, b)
    OBVIOUS
  <2> QED
    BY <2>1
<1>2. ASSUME NEW k \in 1 .. n, k - 1 \in A PROVE k \in A
  <2>1. PICK m \in Int : Least(k - 1, m)
    BY <1>2
  <2>2. PICK new \in Int : new = f[k]
    OBVIOUS
  <2>3. CASE m <= new
    <3>1. Least(k, m)
      BY <2>1, <2>2, <2>3
    <3> QED
      BY <3>1
  <2>4. CASE new < m
    <3>1. Least(k, new)
      BY <2>1, <2>2, <2>4
    <3> QED
      BY <3>1
  <2> QED
    BY <2>3, <2>4
<1>3. \E m \in Int : Least(n, m)
  <2> HIDE DEF A
  <2>1. 0 .. n \subseteq A
    BY <1>1, <1>2, UpTo
  <2>2. n \in A
    BY <2>1
  <2> QED
    BY <2>2 DEF A
<1> QED
  BY <1>3
=============================================================================
