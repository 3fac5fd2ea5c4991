---------------------------- MODULE ReporterProofs ----------------------------
(***************************************************************************)
(* The reporter, for any number of opportunities and writing threads.      *)
(*                                                                         *)
(* The invariant says in which order reports may stand in line: no report  *)
(* comes twice, and no event before its opportunity.  The line is that of  *)
(* the two queues, behind what the threads have taken already.             *)
(***************************************************************************)
EXTENDS Reporter, SequenceTheorems, FiniteSetTheorems, TLAPS

Items(q) == {q[i] : i \in DOMAIN q}

MayPrecede(r, s) ==
  r # s /\ ~(r.tag = s.tag /\ r.kind = "sent" /\ s.kind = "opportunity")

InOrder(q) == \A i, j \in DOMAIN q : i < j => MayPrecede(q[i], q[j])

AllBefore(rs, ss) == \A r \in rs, s \in ss : MayPrecede(r, s)

\* What a thread has taken, whatever became of it.
Taken == {held[w] : w \in {x \in Workers : held[x] # NoReport}} \cup rows

LineInv == /\ InOrder(reportQueue) /\ InOrder(writeQueue)
           /\ AllBefore(Items(writeQueue), Items(reportQueue))
           /\ AllBefore(Taken, Items(writeQueue) \cup Items(reportQueue))

HeldInv == /\ \A w \in stuck : held[w] # NoReport
           /\ \A w \in Workers : held[w] # NoReport =>
                /\ w \notin stuck => held[w] \notin rows
                /\ \A v \in Workers : v # w => held[v] # held[w]

PlaceInv == Made = Items(reportQueue) \cup Items(writeQueue) \cup Taken

\* The rows whose commit was answered.
Written == rows \ InDoubt

CountInv == /\ IsFiniteSet(Made) /\ IsFiniteSet(InHand)
            /\ IsFiniteSet(stuck) /\ IsFiniteSet(Written)
            /\ Cardinality(Made) = Len(reportQueue) + Len(writeQueue) + Cardinality(InHand)
                                   + Cardinality(stuck) + Cardinality(Written)

-----------------------------------------------------------------------------
(* Queues.                                                                 *)

LEMMA HeadOfQueue ==
  ASSUME NEW q \in Seq(Reports), q # <<>>, InOrder(q)
  PROVE  /\ Head(q) \in Reports /\ Tail(q) \in Seq(Reports)
         /\ Len(q) \in Nat /\ Len(Tail(q)) = Len(q) - 1
         /\ Items(q) = {Head(q)} \cup Items(Tail(q))
         /\ AllBefore({Head(q)}, Items(Tail(q)))
         /\ InOrder(Tail(q))
<1>1. /\ Len(q) \in Nat \ {0} /\ DOMAIN q = 1 .. Len(q)
      /\ Head(q) \in Reports /\ Head(q) = q[1]
      /\ Tail(q) \in Seq(Reports) /\ Len(Tail(q)) = Len(q) - 1
      /\ DOMAIN Tail(q) = 1 .. Len(q) - 1
      /\ \A i \in 1 .. Len(q) - 1 : Tail(q)[i] = q[i + 1]
  BY HeadTailProperties, EmptySeq, LenProperties
<1>2. Items(q) \subseteq {Head(q)} \cup Items(Tail(q))
  <2> SUFFICES ASSUME NEW i \in 1 .. Len(q), i # 1
               PROVE  q[i] \in Items(Tail(q))
    BY <1>1 DEF Items
  <2>1. i - 1 \in DOMAIN Tail(q) /\ Tail(q)[i - 1] = q[i]
    BY <1>1
  <2> QED BY <2>1 DEF Items
<1>3. {Head(q)} \cup Items(Tail(q)) \subseteq Items(q)
  <2>1. ASSUME NEW i \in DOMAIN Tail(q) PROVE Tail(q)[i] \in Items(q)
    <3>1. i + 1 \in DOMAIN q /\ Tail(q)[i] = q[i + 1]
      BY <1>1
    <3> QED BY <3>1 DEF Items
  <2>2. Head(q) \in Items(q)
    BY <1>1 DEF Items
  <2> QED BY <2>1, <2>2 DEF Items
<1>4. AllBefore({Head(q)}, Items(Tail(q)))
  <2> SUFFICES ASSUME NEW i \in DOMAIN Tail(q)
               PROVE  MayPrecede(Head(q), Tail(q)[i])
    BY DEF AllBefore, Items
  <2>1. 1 \in DOMAIN q /\ i + 1 \in DOMAIN q /\ 1 < i + 1 /\ Tail(q)[i] = q[i + 1]
    BY <1>1
  <2> QED BY <1>1, <2>1 DEF InOrder
<1>5. InOrder(Tail(q))
  <2> SUFFICES ASSUME NEW i \in DOMAIN Tail(q), NEW j \in DOMAIN Tail(q), i < j
               PROVE  MayPrecede(Tail(q)[i], Tail(q)[j])
    BY DEF InOrder
  <2>1. /\ i + 1 \in DOMAIN q /\ j + 1 \in DOMAIN q /\ i + 1 < j + 1
        /\ Tail(q)[i] = q[i + 1] /\ Tail(q)[j] = q[j + 1]
    BY <1>1
  <2> QED BY <2>1 DEF InOrder
<1> QED BY <1>1, <1>2, <1>3, <1>4, <1>5

LEMMA EndOfQueue ==
  ASSUME NEW q \in Seq(Reports), NEW r \in Reports, InOrder(q), AllBefore(Items(q), {r})
  PROVE  /\ Append(q, r) \in Seq(Reports)
         /\ Len(q) \in Nat /\ Len(Append(q, r)) = Len(q) + 1
         /\ Items(Append(q, r)) = Items(q) \cup {r}
         /\ InOrder(Append(q, r))
<1>1. /\ Len(q) \in Nat /\ DOMAIN q = 1 .. Len(q)
      /\ Append(q, r) \in Seq(Reports) /\ Len(Append(q, r)) = Len(q) + 1
      /\ DOMAIN Append(q, r) = 1 .. Len(q) + 1
      /\ \A i \in 1 .. Len(q) : Append(q, r)[i] = q[i]
      /\ Append(q, r)[Len(q) + 1] = r
  OBVIOUS
<1>2. 1 .. Len(q) + 1 = 1 .. Len(q) \cup {Len(q) + 1}
  BY <1>1
<1>3. Items(Append(q, r)) = Items(q) \cup {r}
  BY <1>1, <1>2 DEF Items
<1>4. InOrder(Append(q, r))
  <2> SUFFICES ASSUME NEW i \in 1 .. Len(q) + 1, NEW j \in 1 .. Len(q) + 1, i < j
               PROVE  MayPrecede(Append(q, r)[i], Append(q, r)[j])
    BY <1>1 DEF InOrder
  <2>1. i \in DOMAIN q /\ Append(q, r)[i] = q[i] /\ q[i] \in Items(q)
    BY <1>1 DEF Items
  <2>2. CASE j \in DOMAIN q
    BY <1>1, <2>1, <2>2 DEF InOrder
  <2>3. CASE j = Len(q) + 1
    BY <1>1, <2>1, <2>3 DEF AllBefore
  <2> QED BY <1>1, <2>2, <2>3
<1> QED BY <1>1, <1>3, <1>4

-----------------------------------------------------------------------------
(* What main adds.                                                         *)

LEMMA NewReport ==
  ASSUME ReporterTypeOK, MainReports
  PROVE  \E r \in Reports :
           /\ Made' = Made \cup {r} /\ r \notin Made
           /\ AllBefore(Made, {r})
           /\ reportQueue' = Append(reportQueue, r)
<1>1. lastTag \in Nat /\ MaxTags \in Nat
  BY MaxTagsIsNat DEF ReporterTypeOK
<1>2. CASE ReportOpportunity
  <2> DEFINE r == Opportunity(lastTag + 1)
  <2>1. lastTag + 1 \in Tags /\ 1 .. lastTag + 1 = 1 .. lastTag \cup {lastTag + 1}
    BY <1>1, <1>2 DEF ReportOpportunity, Tags
  <2>2. r \in Reports /\ reportQueue' = Append(reportQueue, r)
    BY <1>2, <2>1 DEF ReportOpportunity, Opportunity, Reports
  <2>3. Made' = Made \cup {r}
    BY <1>2, <2>1 DEF ReportOpportunity, Made
  <2>4. \A x \in Made : x.tag \in 1 .. lastTag
    BY DEF Made, Opportunity, Sent, ReporterTypeOK
  <2>5. r.tag = lastTag + 1
    BY DEF Opportunity
  <2>6. \A x \in Made : x.tag # r.tag
    BY <1>1, <2>4, <2>5
  <2> HIDE DEF r
  <2> QED BY <2>2, <2>3, <2>6 DEF AllBefore, MayPrecede
<1>3. CASE ReportSent
  <2> DEFINE r == Sent(lastTag)
  <2>1. r \in Reports /\ reportQueue' = Append(reportQueue, r)
    BY <1>1, <1>3 DEF ReportSent, EventTag, Sent, Reports, Tags, ReporterTypeOK
  <2>2. Made' = Made \cup {r}
    BY <1>3 DEF ReportSent, EventTag, Made
  <2>3. r \notin Made
    BY <1>3 DEF ReportSent, Made, Opportunity, Sent
  <2>4. r.kind = "sent"
    BY DEF Sent
  <2> HIDE DEF r
  <2> QED BY <2>1, <2>2, <2>3, <2>4 DEF AllBefore, MayPrecede
<1> QED BY <1>2, <1>3 DEF MainReports

-----------------------------------------------------------------------------
ReporterInv == ReporterTypeOK /\ LineInv /\ HeldInv /\ PlaceInv /\ CountInv

LEMMA InvInit == ReporterInit => ReporterInv
<1> SUFFICES ASSUME ReporterInit PROVE ReporterInv
  OBVIOUS
<1>1. /\ reportQueue = <<>> /\ writeQueue = <<>> /\ rows = {} /\ stuck = {}
      /\ Items(<<>>) = {} /\ <<>> \in Seq(Reports) /\ Len(<<>>) = 0
  BY DEF ReporterInit, Items
<1>2. Made = {} /\ InHand = {} /\ Taken = {} /\ Written = {}
  BY <1>1 DEF ReporterInit, Made, InHand, Taken, Written
<1>3. ReporterTypeOK
  BY <1>1, MaxTagsIsNat DEF ReporterInit, ReporterTypeOK
<1>4. LineInv
  BY <1>1, <1>2 DEF LineInv, InOrder, AllBefore
<1>5. HeldInv /\ PlaceInv
  BY <1>1, <1>2 DEF ReporterInit, HeldInv, PlaceInv
<1>6. CountInv
  BY <1>1, <1>2, FS_EmptySet DEF CountInv
<1> QED BY <1>3, <1>4, <1>5, <1>6 DEF ReporterInv

LEMMA LengthsAreNat ==
  ASSUME ReporterTypeOK
  PROVE  Len(reportQueue) \in Nat /\ Len(writeQueue) \in Nat
BY LenProperties DEF ReporterTypeOK

LEMMA CountsAreNat ==
  ASSUME ReporterTypeOK, CountInv
  PROVE  /\ Cardinality(Made) \in Nat /\ Cardinality(InHand) \in Nat
         /\ Cardinality(Written) \in Nat /\ Cardinality(stuck) \in Nat
         /\ Len(reportQueue) \in Nat /\ Len(writeQueue) \in Nat
BY LengthsAreNat, FS_CardinalityType DEF CountInv

LEMMA InvMain ==
  ASSUME ReporterInv, MainReports
  PROVE  ReporterInv'
<1>1. PICK r \in Reports : /\ Made' = Made \cup {r} /\ r \notin Made
                           /\ AllBefore(Made, {r})
                           /\ reportQueue' = Append(reportQueue, r)
  BY NewReport DEF ReporterInv
<1>2. UNCHANGED <<writeQueue, held, stuck, rows>>
  BY DEF MainReports, ReportOpportunity, ReportSent
<1>3. UNCHANGED <<InHand, Taken, Written>>
  BY <1>2 DEF InHand, Taken, Written, InDoubt
<1>4. Made = Items(reportQueue) \cup Items(writeQueue) \cup Taken
  BY DEF ReporterInv, PlaceInv
<1>5. /\ AllBefore(Items(reportQueue), {r}) /\ AllBefore(Items(writeQueue), {r})
      /\ AllBefore(Taken, {r})
  BY <1>1, <1>4 DEF AllBefore
<1>6. reportQueue \in Seq(Reports) /\ InOrder(reportQueue)
  BY DEF ReporterInv, ReporterTypeOK, LineInv
<1>7. /\ reportQueue' \in Seq(Reports) /\ InOrder(reportQueue')
      /\ Len(reportQueue) \in Nat /\ Len(reportQueue') = Len(reportQueue) + 1
      /\ Items(reportQueue') = Items(reportQueue) \cup {r}
  BY <1>1, <1>5, <1>6, EndOfQueue
<1>8. ReporterTypeOK'
  <2>1. lastTag' \in 0 .. MaxTags /\ sentTags' \subseteq 1 .. lastTag'
    <3>1. lastTag \in 0 .. MaxTags /\ sentTags \subseteq 1 .. lastTag /\ MaxTags \in Nat
      BY MaxTagsIsNat DEF ReporterInv, ReporterTypeOK
    <3>2. CASE ReportOpportunity
      <4>1. lastTag' = lastTag + 1 /\ lastTag < MaxTags /\ sentTags' = sentTags
        BY <3>2 DEF ReportOpportunity
      <4>2. 1 .. lastTag \subseteq 1 .. lastTag + 1
        BY <3>1
      <4> QED BY <3>1, <4>1, <4>2
    <3>3. CASE ReportSent
      BY <3>1, <3>3 DEF ReportSent, EventTag
    <3> QED BY <3>2, <3>3 DEF MainReports
  <2> QED BY <1>2, <1>7, <2>1 DEF ReporterInv, ReporterTypeOK
<1>9. LineInv'
  BY <1>2, <1>3, <1>5, <1>7 DEF ReporterInv, LineInv, AllBefore
<1>10. HeldInv' /\ PlaceInv'
  BY <1>1, <1>2, <1>3, <1>7 DEF ReporterInv, HeldInv, PlaceInv
<1>11. CountInv'
  <2>1. IsFiniteSet(Made') /\ Cardinality(Made') = Cardinality(Made) + 1
    BY <1>1, FS_AddElement DEF ReporterInv, CountInv
  <2> QED BY <1>2, <1>3, <1>7, <2>1, CountsAreNat DEF ReporterInv, CountInv
<1> QED BY <1>8, <1>9, <1>10, <1>11 DEF ReporterInv

LEMMA InvForward ==
  ASSUME ReporterInv, Forward
  PROVE  ReporterInv'
<1> DEFINE r == Head(reportQueue)
<1>1. /\ reportQueue \in Seq(Reports) /\ reportQueue # <<>> /\ InOrder(reportQueue)
      /\ writeQueue \in Seq(Reports) /\ InOrder(writeQueue)
      /\ reportQueue' = Tail(reportQueue) /\ writeQueue' = Append(writeQueue, r)
  BY DEF ReporterInv, ReporterTypeOK, LineInv, Forward, Rest, PushBack
<1>2. UNCHANGED <<lastTag, sentTags, held, stuck, rows, Made, InHand, Taken, Written>>
  BY DEF Forward, client, Made, InHand, Taken, Written, InDoubt
<1>3. /\ r \in Reports /\ reportQueue' \in Seq(Reports) /\ InOrder(reportQueue')
      /\ Len(reportQueue) \in Nat /\ Len(reportQueue') = Len(reportQueue) - 1
      /\ Items(reportQueue) = {r} \cup Items(reportQueue')
      /\ AllBefore({r}, Items(reportQueue'))
  BY <1>1, HeadOfQueue
<1> HIDE DEF r
<1>4. AllBefore(Items(writeQueue), {r})
  BY <1>3 DEF ReporterInv, LineInv, AllBefore
<1>5. /\ writeQueue' \in Seq(Reports) /\ InOrder(writeQueue')
      /\ Len(writeQueue) \in Nat /\ Len(writeQueue') = Len(writeQueue) + 1
      /\ Items(writeQueue') = Items(writeQueue) \cup {r}
  BY <1>1, <1>3, <1>4, EndOfQueue
<1>6. ReporterTypeOK'
  BY <1>2, <1>3, <1>5 DEF ReporterInv, ReporterTypeOK
<1>7. LineInv'
  BY <1>2, <1>3, <1>5 DEF ReporterInv, LineInv, AllBefore
<1>8. HeldInv' /\ PlaceInv'
  BY <1>2, <1>3, <1>5 DEF ReporterInv, HeldInv, PlaceInv
<1>9. CountInv'
  BY <1>2, <1>3, <1>5, CountsAreNat DEF ReporterInv, CountInv
<1> QED BY <1>6, <1>7, <1>8, <1>9 DEF ReporterInv

LEMMA InvTake ==
  ASSUME ReporterInv, NEW w \in Workers, Take(w)
  PROVE  ReporterInv'
<1> DEFINE r == Head(writeQueue)
<1>1. /\ writeQueue \in Seq(Reports) /\ writeQueue # <<>> /\ InOrder(writeQueue)
      /\ writeQueue' = Tail(writeQueue)
  BY DEF ReporterInv, ReporterTypeOK, LineInv, Take
<1>2. UNCHANGED <<lastTag, sentTags, reportQueue, stuck, rows, Made>>
  BY DEF Take, client, Made
<1>3. /\ r \in Reports /\ writeQueue' \in Seq(Reports) /\ InOrder(writeQueue')
      /\ Len(writeQueue) \in Nat /\ Len(writeQueue') = Len(writeQueue) - 1
      /\ Items(writeQueue) = {r} \cup Items(writeQueue')
      /\ AllBefore({r}, Items(writeQueue'))
  BY <1>1, HeadOfQueue
<1>4. /\ held[w] = NoReport /\ w \notin stuck
      /\ held' = [held EXCEPT ![w] = r]
      /\ held \in [Workers -> Reports \cup {NoReport}]
  BY DEF Take, Idle, ReporterInv, ReporterTypeOK, HeldInv
<1> HIDE DEF r
<1>5. held'[w] = r /\ \A v \in Workers : v # w => held'[v] = held[v]
  BY <1>4
<1>6. r # NoReport
  BY <1>3 DEF Reports, NoReport
<1>7. Taken' = Taken \cup {r} /\ InHand' = InHand \cup {r}
  BY <1>2, <1>4, <1>5, <1>6 DEF Taken, InHand
<1>8. \A s \in Taken : MayPrecede(s, r)
  BY <1>3 DEF ReporterInv, LineInv, AllBefore
<1>9. r \notin rows /\ \A v \in Workers : held[v] # r
  <2>1. \A s \in Taken : s # r
    BY <1>8 DEF MayPrecede
  <2> QED BY <1>6, <2>1 DEF Taken
<1>10. ReporterTypeOK'
  BY <1>2, <1>3, <1>4 DEF ReporterInv, ReporterTypeOK
<1>11. LineInv'
  BY <1>2, <1>3, <1>7 DEF ReporterInv, LineInv, AllBefore
<1>12. HeldInv'
  BY <1>2, <1>4, <1>5, <1>6, <1>9 DEF ReporterInv, HeldInv
<1>13. PlaceInv'
  BY <1>2, <1>3, <1>7 DEF ReporterInv, PlaceInv
<1>14. CountInv'
  <2>1. r \notin InHand
    BY <1>9 DEF InHand
  <2>2. IsFiniteSet(InHand') /\ Cardinality(InHand') = Cardinality(InHand) + 1
    BY <1>7, <2>1, FS_AddElement DEF ReporterInv, CountInv
  <2>3. Written' = Written
    BY <1>2, <1>4, <1>5 DEF Written, InDoubt, ReporterInv, ReporterTypeOK
  <2> QED BY <1>2, <1>3, <2>2, <2>3, CountsAreNat DEF ReporterInv, CountInv
<1> QED BY <1>10, <1>11, <1>12, <1>13, <1>14 DEF ReporterInv

\* A thread that is done with a report takes it out of what is in hand.
LEMMA OutOfHand ==
  ASSUME ReporterInv, NEW w \in Workers, Busy(w)
  PROVE  /\ IsFiniteSet(InHand \ {held[w]})
         /\ Cardinality(InHand \ {held[w]}) = Cardinality(InHand) - 1
<1>1. held[w] \in InHand
  BY DEF Busy, InHand
<1> QED BY <1>1, FS_RemoveElement DEF ReporterInv, CountInv

LEMMA InvCommit ==
  ASSUME ReporterInv, NEW w \in Workers, Commit(w)
  PROVE  ReporterInv'
<1> DEFINE r == held[w]
<1>1. UNCHANGED <<lastTag, sentTags, reportQueue, writeQueue, stuck, Made>>
  BY DEF Commit, client, Made
<1>2. /\ r # NoReport /\ w \notin stuck /\ r \notin rows /\ r \in Reports
      /\ rows' = rows \cup {r}
      /\ held' = [held EXCEPT ![w] = NoReport]
      /\ held \in [Workers -> Reports \cup {NoReport}]
  BY DEF Commit, Busy, Unique, ReporterInv, ReporterTypeOK
<1>3. held'[w] = NoReport /\ \A v \in Workers : v # w => held'[v] = held[v]
  BY <1>2
<1>4. \A v \in Workers : v # w /\ held[v] # NoReport => held[v] # r
  BY <1>2 DEF ReporterInv, HeldInv
<1>5. Taken' = Taken
  BY <1>2, <1>3 DEF Taken
<1>6. InHand' = InHand \ {r}
  BY <1>1, <1>2, <1>3, <1>4 DEF InHand
<1>7. ReporterTypeOK'
  BY <1>1, <1>2 DEF ReporterInv, ReporterTypeOK
<1>8. LineInv' /\ PlaceInv'
  BY <1>1, <1>5 DEF ReporterInv, LineInv, PlaceInv
<1>9. HeldInv'
  <2>1. \A v \in stuck : held'[v] # NoReport
    BY <1>2, <1>3 DEF ReporterInv, ReporterTypeOK, HeldInv
  <2>2. ASSUME NEW v \in Workers, held'[v] # NoReport
        PROVE  /\ v \notin stuck => held'[v] \notin rows'
               /\ \A u \in Workers : u # v => held'[u] # held'[v]
    <3>1. v # w /\ held'[v] = held[v] /\ held[v] # NoReport
      BY <1>3, <2>2
    <3>2. v \notin stuck => held[v] \notin rows'
      BY <1>2, <1>4, <3>1 DEF ReporterInv, HeldInv
    <3>3. ASSUME NEW u \in Workers, u # v PROVE held'[u] # held[v]
      BY <1>3, <3>1, <3>3 DEF ReporterInv, HeldInv
    <3> QED BY <3>1, <3>2, <3>3
  <2> QED BY <1>1, <2>1, <2>2 DEF HeldInv
<1>10. CountInv'
  <2>1. Busy(w)
    BY DEF Commit
  <2>2. IsFiniteSet(InHand') /\ Cardinality(InHand') = Cardinality(InHand) - 1
    BY <1>6, <2>1, OutOfHand
  <2>3. r \notin InDoubt /\ InDoubt' = InDoubt
    BY <1>1, <1>2, <1>3, <1>4 DEF ReporterInv, ReporterTypeOK, HeldInv, InDoubt
  <2>4. Written' = Written \cup {r} /\ r \notin Written
    BY <1>2, <2>3 DEF Written
  <2>5. IsFiniteSet(Written') /\ Cardinality(Written') = Cardinality(Written) + 1
    BY <2>4, FS_AddElement DEF ReporterInv, CountInv
  <2> QED BY <1>1, <2>2, <2>5, CountsAreNat DEF ReporterInv, CountInv
<1> QED BY <1>7, <1>8, <1>9, <1>10 DEF ReporterInv

LEMMA InvCommitFails ==
  ASSUME ReporterInv, NEW w \in Workers, CommitFails(w)
  PROVE  ReporterInv'
<1> DEFINE r == held[w]
<1>1. /\ UNCHANGED <<lastTag, sentTags, reportQueue, writeQueue, held, Made>>
      /\ rows' = rows \/ rows' = rows \cup {r}
      /\ stuck' = stuck \cup {w}
      /\ r # NoReport /\ w \notin stuck
  BY DEF CommitFails, client, Made, Busy
<1>2. /\ r \in Reports /\ r \notin rows
      /\ \A v \in Workers : v # w => held[v] # r
  BY <1>1 DEF ReporterInv, ReporterTypeOK, HeldInv
<1>3. Taken' = Taken
  BY <1>1 DEF Taken
<1>4. InHand' = InHand \ {r}
  BY <1>1, <1>2 DEF InHand
<1>5. InDoubt' = InDoubt \cup {r}
  BY <1>1 DEF InDoubt
<1>6. Written' = Written
  BY <1>1, <1>2, <1>5 DEF Written
<1>7. ReporterTypeOK' /\ LineInv' /\ PlaceInv'
  BY <1>1, <1>2, <1>3 DEF ReporterInv, ReporterTypeOK, LineInv, PlaceInv
<1>8. HeldInv'
  BY <1>1, <1>2 DEF ReporterInv, HeldInv
<1>9. CountInv'
  <2>1. IsFiniteSet(InHand') /\ Cardinality(InHand') = Cardinality(InHand) - 1
    BY <1>4, OutOfHand DEF CommitFails
  <2>2. IsFiniteSet(stuck') /\ Cardinality(stuck') = Cardinality(stuck) + 1
    BY <1>1, FS_AddElement DEF ReporterInv, CountInv
  <2> QED BY <1>1, <1>6, <2>1, <2>2, CountsAreNat DEF ReporterInv, CountInv
<1> QED BY <1>7, <1>8, <1>9 DEF ReporterInv

LEMMA InvStep == ReporterInv /\ [ReporterNext]_reporterVars => ReporterInv'
<1> SUFFICES ASSUME ReporterInv, [ReporterNext]_reporterVars PROVE ReporterInv'
  OBVIOUS
<1>1. CASE UNCHANGED reporterVars
  BY <1>1 DEF reporterVars, client, ReporterInv, ReporterTypeOK, LineInv, HeldInv, PlaceInv,
     CountInv, Made, InHand, Taken, Written, InDoubt
<1> QED BY <1>1, InvMain, InvForward, InvTake, InvCommit, InvCommitFails
        DEF ReporterNext, Write

-----------------------------------------------------------------------------
(* What the invariant means.                                               *)

LEMMA AccountedMeans == ReporterInv => ReportsAccounted
<1> SUFFICES ASSUME ReporterInv PROVE ReportsAccounted
  OBVIOUS
<1>1. Taken = InHand \cup InDoubt \cup rows
  BY DEF ReporterInv, ReporterTypeOK, HeldInv, Taken, InHand, InDoubt
<1>2. Queued = Items(reportQueue) \cup Items(writeQueue)
  BY DEF Queued, Items
<1> QED BY <1>1, <1>2 DEF ReporterInv, PlaceInv, CountInv, Written, ReportsAccounted

LEMMA OvertakesMeans == ReporterInv => OvertakesOnlyInHand
<1> SUFFICES ASSUME ReporterInv, NEW t \in Tags, Sent(t) \in rows
             PROVE  Opportunity(t) \in rows \cup InHand \cup InDoubt
  BY DEF OvertakesOnlyInHand
<1>1. Sent(t) \in Taken /\ Taken \subseteq rows \cup InHand \cup InDoubt
  BY DEF ReporterInv, ReporterTypeOK, Taken, InHand, InDoubt
<1>2. Opportunity(t) \in Made
  <2>1. Sent(t) \in Made
    BY <1>1 DEF ReporterInv, PlaceInv
  <2>2. t \in sentTags
    BY <2>1 DEF Made, Opportunity, Sent
  <2> QED BY <2>2 DEF ReporterInv, ReporterTypeOK, Made
<1>3. ~MayPrecede(Sent(t), Opportunity(t))
  BY DEF MayPrecede, Sent, Opportunity
<1>4. Opportunity(t) \notin Items(writeQueue) \cup Items(reportQueue)
  BY <1>1, <1>3 DEF ReporterInv, LineInv, AllBefore
<1> QED BY <1>1, <1>2, <1>4 DEF ReporterInv, PlaceInv

\* Reports and tags keep their types.
THEOREM ReporterTypes == ReporterSpec => []ReporterTypeOK
<1>1. ReporterInv => ReporterTypeOK
  BY DEF ReporterInv
<1> QED BY <1>1, InvInit, InvStep, PTL DEF ReporterSpec

\* Every report main made is in one place; only one in doubt may also be a row.
THEOREM EveryReportAccounted == ReporterSpec => []ReportsAccounted
BY InvInit, InvStep, AccountedMeans, PTL DEF ReporterSpec

\* The opportunity of an event that is a row is no longer in a queue.
THEOREM EventsOvertakeInHand == ReporterSpec => []OvertakesOnlyInHand
BY InvInit, InvStep, OvertakesMeans, PTL DEF ReporterSpec
=============================================================================
