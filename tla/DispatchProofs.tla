---------------------------- MODULE DispatchProofs ----------------------------
(***************************************************************************)
(* Proofs about main and the executor on their shared queue, for any       *)
(* number of market updates and opportunities.                             *)
(*                                                                         *)
(* The inductive invariant is built in three layers, each inductive given  *)
(* the ones before it: types; the shape of the queue, one message at most  *)
(* and none once the executor has had one; and where every job is.  That   *)
(* the executor stays in its polling loop is an invariant of its own.      *)
(***************************************************************************)
EXTENDS Bot, SequenceTheorems, TLAPS

Object(m) == m \in Message /\ m.form = "object"

\* The executor only ever polls and drops.
ExecutorIdle == /\ \A i \in DOMAIN buffer : buffer[i].form = "object"
                /\ \A i \in DOMAIN pipe : pipe[i].form = "object"
                /\ epc \in {"poll", "locked", "decode"}
                /\ epc = "decode" => Object(job)
                /\ placed = 0

\* The queue holds one message at most, and only while the lock is taken and
\* the executor has not had one.
QueueShape == /\ \/ buffer = <<>> /\ pipe = <<>>
                 \/ Len(buffer) = 1 /\ pipe = <<>>
                 \/ buffer = <<>> /\ Len(pipe) = 1
              /\ buffer # <<>> \/ pipe # <<>> => ~executeLock /\ takenExec = {}
              /\ takenExec # {} => ~executeLock

\* Reports carry tags drawn before, and versions no newer than the rates.
ReportsInv == \A i \in DOMAIN reports : /\ reports[i].tag < nextTag
                                        /\ reports[i].version <= version

\* The opportunity main has reported last has not been sent.
TagFresh == mpc = "reported" => Tag \notin JobsSent

-----------------------------------------------------------------------------
(* What the operators on messages and reports return.                      *)

LEMMA TagsInEmpty == TagsIn(<<>>) = {}
BY DEF TagsIn

LEMMA TagsInAppend ==
  ASSUME NEW q \in Seq(Message), NEW m \in Message
  PROVE  TagsIn(Append(q, m)) = TagsIn(q) \cup {m.tag}
<1>1. DOMAIN Append(q, m) = DOMAIN q \cup {Len(q) + 1}
  OBVIOUS
<1>2. /\ \A i \in DOMAIN q : Append(q, m)[i] = q[i]
      /\ Append(q, m)[Len(q) + 1] = m
  OBVIOUS
<1> QED BY <1>1, <1>2, Zenon DEF TagsIn

LEMMA TagsInCons ==
  ASSUME NEW q \in Seq(Message), q # <<>>
  PROVE  TagsIn(q) = {Head(q).tag} \cup TagsIn(Tail(q))
<1>1. /\ Tail(q) \in Seq(Message)
      /\ Len(Tail(q)) = Len(q) - 1
      /\ \A i \in 1 .. Len(Tail(q)) : Tail(q)[i] = q[i + 1]
      /\ Head(q) = q[1]
      /\ Len(q) \in Nat \ {0}
  BY HeadTailProperties, EmptySeq
<1>2. DOMAIN q = 1 .. Len(q) /\ DOMAIN Tail(q) = 1 .. Len(Tail(q))
  BY <1>1
<1>3. \A i \in DOMAIN q : i = 1 \/ (i - 1 \in DOMAIN Tail(q) /\ Tail(q)[i - 1] = q[i])
  BY <1>1, <1>2
<1>4. \A i \in DOMAIN Tail(q) : i + 1 \in DOMAIN q /\ Tail(q)[i] = q[i + 1]
  BY <1>1, <1>2
<1>5. 1 \in DOMAIN q
  BY <1>1, <1>2
<1>6. ASSUME NEW i \in DOMAIN q
      PROVE  q[i].tag \in {Head(q).tag} \cup TagsIn(Tail(q))
  BY <1>1, <1>3 DEF TagsIn
<1>7. ASSUME NEW i \in DOMAIN Tail(q)
      PROVE  Tail(q)[i].tag \in TagsIn(q)
  BY <1>4 DEF TagsIn
<1>8. Head(q).tag \in TagsIn(q)
  BY <1>1, <1>5 DEF TagsIn
<1> QED BY <1>6, <1>7, <1>8, Zenon DEF TagsIn

LEMMA TailOfOne ==
  ASSUME NEW q \in Seq(Message), Len(q) = 1
  PROVE  q # <<>> /\ Tail(q) = <<>>
<1>1. q # <<>>
  BY EmptySeq
<1>2. Tail(q) \in Seq(Message) /\ Len(Tail(q)) = 0
  BY <1>1, HeadTailProperties
<1> QED BY <1>1, <1>2, EmptySeq

LEMMA TagsSentAppend ==
  ASSUME NEW rs \in Seq(ReportRecord), NEW r \in ReportRecord
  PROVE  TagsSent(Append(rs, r)) =
           IF r.kind = "sent" THEN TagsSent(rs) \cup {r.tag} ELSE TagsSent(rs)
<1>1. DOMAIN Append(rs, r) = DOMAIN rs \cup {Len(rs) + 1}
  OBVIOUS
<1>2. /\ \A i \in DOMAIN rs : Append(rs, r)[i] = rs[i]
      /\ Append(rs, r)[Len(rs) + 1] = r
  OBVIOUS
<1> QED BY <1>1, <1>2, Zenon DEF TagsSent

-----------------------------------------------------------------------------
(* Types.                                                                  *)

LEMMA JobInMessage ==
  ASSUME DispatchTypeOK, NEW t \in Tags
  PROVE  Job(t) \in Message /\ Job(t).form = "object" /\ Job(t).tag = t
BY MaxUpdatesIsNat, MaxTagsIsNat DEF Job, AsDict, Message, DispatchTypeOK, Tags

LEMMA ReportInRecord ==
  ASSUME DispatchTypeOK, NEW t \in Tags, NEW k \in {"opportunity", "sent"}
  PROVE  Report(k, t) \in ReportRecord
BY MaxUpdatesIsNat, MaxTagsIsNat DEF Report, ReportRecord, DispatchTypeOK, Tags

LEMMA TagInTags ==
  ASSUME DispatchTypeOK, mpc \in {"reported", "sending"}
  PROVE  Tag \in Tags
BY MaxTagsIsNat DEF DispatchTypeOK, Tag, Tags

LEMMA TypeInit == DispatchInit => DispatchTypeOK
BY MaxUpdatesIsNat, MaxTagsIsNat DEF DispatchInit, QueueInit, ExecInit, MainInit,
   DispatchTypeOK, TypeOK, Tags, JobsUnderWay, TagsIn

LEMMA TypeMain ==
  ASSUME DispatchTypeOK, MainStep
  PROVE  DispatchTypeOK'
<1> USE MaxUpdatesIsNat, MaxTagsIsNat DEF DispatchTypeOK, TypeOK, MainStep, execVars, queueVars,
        market, taken, Goto, JobsUnderWay
<1>1. CASE SkipCheck
  BY <1>1 DEF SkipCheck
<1>2. CASE SeeMessage
  BY <1>2 DEF SeeMessage
<1>3. CASE BeginGet
  BY <1>3 DEF BeginGet, Acquire
<1>4. CASE GetRefused
  BY <1>4 DEF GetRefused
<1>5. CASE GetFindsEmpty
  BY <1>5 DEF GetFindsEmpty, FindEmpty
<1>6. CASE TakeMessage
  BY <1>6, TagsInCons, HeadTailProperties
  DEF TakeMessage, Receive, IsEmpty, JobsUnderWay
<1>7. CASE NoSearch
  BY <1>7 DEF NoSearch, NewPrices
<1>8. CASE Update
  BY <1>8 DEF Update, NewPrices
<1>9. CASE UpdateWithoutAsk
  BY <1>9 DEF UpdateWithoutAsk
<1>10. CASE NothingFound \/ SearchRaises
  BY <1>10 DEF NothingFound, SearchRaises
<1>11. CASE Finds
  <2>1. /\ nextTag \in Tags
        /\ nextTag' \in 1 .. MaxTags + 1 /\ nextTag' > 1
        /\ reports' = Append(reports, Report("opportunity", nextTag))
        /\ mpc' \in {"check", "reported"}
        /\ UNCHANGED <<mode, version, executeLock, taken, queueVars>>
    BY <1>11 DEF Finds, ReportDry, ReportOpportunity, Opportunity, Tags
  <2>2. reports' \in Seq(ReportRecord)
    BY <2>1, ReportInRecord
  <2> QED BY <1>11, <2>1, <2>2
<1>12. CASE ReportSent
  <2>1. Report("sent", Tag) \in ReportRecord
    BY <1>12, TagInTags, ReportInRecord DEF ReportSent
  <2> QED BY <1>12, <2>1 DEF ReportSent
<1>13. CASE StalePath \/ LockUnavailable \/ JobRefused
  BY <1>13 DEF StalePath, LockUnavailable, LetGo, JobRefused
<1>14. CASE DispatchJob
  <2>1. Job(Tag) \in Message /\ Job(Tag).tag = Tag /\ Tag \in Tags
    BY <1>14, TagInTags, JobInMessage DEF DispatchJob
  <2>2. buffer' = Append(buffer, Job(Tag)) /\ pipe' = pipe
    BY <1>14 DEF DispatchJob, Put
  <2>3. TagsIn(buffer') = TagsIn(buffer) \cup {Tag} /\ buffer' \in Seq(Message)
    BY <2>1, <2>2, TagsInAppend
  <2> QED BY <1>14, <2>1, <2>2, <2>3 DEF DispatchJob, Put, TakeLock
<1> QED
  BY <1>1, <1>2, <1>3, <1>4, <1>5, <1>6, <1>7, <1>8, <1>9, <1>10, <1>11, <1>12, <1>13, <1>14
  DEF MainNext, Silent

LEMMA TypeFeeder ==
  ASSUME DispatchTypeOK, FeederStep
  PROVE  DispatchTypeOK'
<1> DEFINE m == [Head(buffer) EXCEPT !.rates = version]
<1>1. /\ buffer \in Seq(Message) /\ pipe \in Seq(Message) /\ buffer # <<>>
      /\ buffer' = Tail(buffer) /\ pipe' = Append(pipe, m)
  BY DEF FeederStep, FeedJob, LiveRates, Feed, DispatchTypeOK, TypeOK
<1>2. Head(buffer) \in Message /\ Tail(buffer) \in Seq(Message)
  BY <1>1, HeadTailProperties
<1>3. m \in Message /\ m.tag = Head(buffer).tag
  <2>1. version \in Nat
    BY MaxUpdatesIsNat, MaxTagsIsNat DEF DispatchTypeOK
  <2> QED BY <1>2, <2>1 DEF Message
<1>4. pipe' \in Seq(Message) /\ JobsUnderWay' = JobsUnderWay
  <2> HIDE DEF m
  <2> QED BY <1>1, <1>2, <1>3, TagsInAppend, TagsInCons DEF JobsUnderWay
<1> QED BY <1>1, <1>2, <1>4 DEF FeederStep, FeedJob, LiveRates, Feed, DispatchTypeOK, TypeOK,
        execVars, mainVars, market, taken

LEMMA TypeExec ==
  ASSUME DispatchTypeOK, ExecStep
  PROVE  DispatchTypeOK'
<1> USE DEF DispatchTypeOK, TypeOK, mainVars, market, taken, queueVars,
        JobsUnderWay
<1>1. CASE ExecTake
  BY <1>1, TagsInCons, HeadTailProperties DEF ExecTake, ExecReceive, Receive, IsEmpty
<1>2. CASE ExecOther
  <2> USE <1>2 DEF ExecOther
  <2>1. CASE ExecAcquire
    BY <2>1 DEF ExecAcquire, Acquire
  <2>2. CASE ExecFindEmpty
    BY <2>2 DEF ExecFindEmpty, LeaveEmpty, FindEmpty
  <2>3. CASE IgnoreUndecodable \/ IgnoreWithoutRates \/ IgnoreOverLimit
    BY <2>3 DEF IgnoreUndecodable, IgnoreWithoutRates, IgnoreOverLimit, Ignore
  <2>4. CASE Quit
    BY <2>4 DEF Quit
  <2>5. CASE StartPath
    BY <2>5 DEF StartPath
  <2>6. CASE FirstLeg
    BY <2>6 DEF FirstLeg, Dies, Filled, NotFilled, RaisedBefore, RaisedAfter
  <2> QED BY <2>1, <2>2, <2>3, <2>4, <2>5, <2>6 DEF ExecLocal
<1> QED BY <1>1, <1>2 DEF ExecStep

LEMMA TypeStutter ==
  ASSUME DispatchTypeOK, UNCHANGED dispatchVars
  PROVE  DispatchTypeOK'
BY DEF DispatchTypeOK, TypeOK, JobsUnderWay, dispatchVars, queueVars, execVars,
   mainVars, market, taken

\* Every variable keeps its type: messages stay messages through pickling,
\* tags stay within the opportunities found, prices within the updates.
THEOREM TypeCorrect == DispatchSpec => []DispatchTypeOK
<1>1. DispatchTypeOK /\ [DispatchNext]_dispatchVars => DispatchTypeOK'
  BY TypeMain, TypeFeeder, TypeExec, TypeStutter DEF DispatchNext
<1> QED BY <1>1, TypeInit, PTL DEF DispatchSpec

-----------------------------------------------------------------------------
(* No job is ever decoded.                                                 *)

LEMMA IdleStep ==
  ASSUME DispatchTypeOK, ExecutorIdle, [DispatchNext]_dispatchVars
  PROVE  ExecutorIdle'
<1> USE DEF ExecutorIdle, queueVars, execVars, mainVars
<1>1. /\ buffer \in Seq(Message)
      /\ pipe \in Seq(Message)
  BY DEF DispatchTypeOK, TypeOK
<1>2. ASSUME pipe # <<>>
      PROVE  /\ Object(Head(pipe))
             /\ \A i \in DOMAIN Tail(pipe) : Tail(pipe)[i].form = "object"
  BY <1>1, <1>2, HeadTailProperties, EmptySeq DEF Object
<1>3. CASE MainStep
  <2> USE <1>3 DEF MainStep
  <2>1. CASE UNCHANGED <<buffer, pipe>>
    BY <2>1
  <2>2. CASE TakeMessage
    BY <2>2, <1>2 DEF TakeMessage, Receive, IsEmpty
  <2>3. CASE DispatchJob
    <3>1. Job(Tag) \in Message /\ Job(Tag).form = "object"
      BY <2>3, TagInTags, JobInMessage DEF DispatchJob, Goto
    <3> QED BY <1>1, <2>3, <3>1 DEF DispatchJob, Put
  <2> QED BY <2>1, <2>2, <2>3 DEF MainNext, Silent, SkipCheck, SeeMessage, BeginGet,
          GetRefused, GetFindsEmpty, NoSearch, Update, UpdateWithoutAsk,
          NothingFound, SearchRaises, StalePath, LockUnavailable, JobRefused,
          Finds, ReportDry, ReportOpportunity, Opportunity, ReportSent, Acquire, FindEmpty
<1>4. CASE FeederStep
  <2> DEFINE m == [Head(buffer) EXCEPT !.rates = version]
  <2>1. /\ buffer # <<>> /\ buffer' = Tail(buffer) /\ pipe' = Append(pipe, m)
        /\ UNCHANGED execVars
    BY <1>4 DEF FeederStep, FeedJob, LiveRates, Feed
  <2>2. /\ Head(buffer) \in Message /\ Head(buffer).form = "object"
        /\ \A i \in DOMAIN Tail(buffer) : Tail(buffer)[i].form = "object"
    BY <1>1, <2>1, HeadTailProperties, EmptySeq
  <2>3. m.form = "object"
    BY <2>2 DEF Message
  <2>4. \A i \in DOMAIN Append(pipe, m) : Append(pipe, m)[i].form = "object"
    <3> HIDE DEF m
    <3> QED BY <1>1, <2>3
  <2> QED BY <2>1, <2>2, <2>4
<1>5. CASE ExecTake
  BY <1>5, <1>2 DEF ExecTake, ExecReceive, Receive, IsEmpty
<1>6. CASE ExecOther
  BY <1>6 DEF ExecOther, ExecLocal, ExecAcquire, Acquire, ExecFindEmpty, LeaveEmpty, FindEmpty,
      IgnoreUndecodable, IgnoreWithoutRates, IgnoreOverLimit, Ignore, Quit, StartPath,
     FirstLeg, Dies, Decoded, IsJob, Object
<1>7. CASE UNCHANGED dispatchVars
  BY <1>7 DEF dispatchVars
<1> QED BY <1>3, <1>4, <1>5, <1>6, <1>7 DEF DispatchNext, ExecStep

LEMMA IdleInit == DispatchInit => ExecutorIdle
BY DEF DispatchInit, QueueInit, ExecInit, MainInit, ExecutorIdle

\* The executor of this bot never makes an order: what reaches it is never
\* the JSON text it decodes.
THEOREM NeverTrades == DispatchSpec => []NoOrderMade
<1>1. DispatchTypeOK /\ ExecutorIdle /\ [DispatchNext]_dispatchVars => ExecutorIdle'
  BY IdleStep
<1>2. ExecutorIdle => NoOrderMade
  BY DEF ExecutorIdle, NoOrderMade
<1> QED BY <1>1, <1>2, IdleInit, TypeCorrect, PTL DEF DispatchSpec

-----------------------------------------------------------------------------
(* One message at a time.                                                  *)

LEMMA ShapeMain ==
  ASSUME DispatchTypeOK, QueueShape, MainStep
  PROVE  QueueShape'
<1> USE DEF QueueShape, MainStep, Goto
<1>1. buffer \in Seq(Message) /\ pipe \in Seq(Message)
  BY DEF DispatchTypeOK, TypeOK
<1>2. CASE UNCHANGED <<buffer, pipe, executeLock, takenExec>>
  BY <1>2
<1>3. CASE TakeMessage
  <2>1. /\ pipe # <<>> /\ pipe' = Tail(pipe) /\ buffer' = buffer
        /\ takenExec' = takenExec /\ executeLock'
    BY <1>3 DEF TakeMessage, Receive, IsEmpty
  <2>2. buffer = <<>> /\ Len(pipe) = 1 /\ takenExec = {}
    BY <2>1
  <2>3. pipe' = <<>>
    BY <1>1, <2>1, <2>2, TailOfOne
  <2> QED BY <2>1, <2>2, <2>3
<1>4. CASE DispatchJob
  <2>1. /\ executeLock /\ ~executeLock' /\ takenExec' = takenExec
        /\ buffer' = Append(buffer, Job(Tag)) /\ pipe' = pipe
    BY <1>4 DEF DispatchJob, TakeLock, Put, taken
  <2>2. buffer = <<>> /\ pipe = <<>> /\ takenExec = {}
    BY <2>1
  <2> QED BY <2>1, <2>2
<1>5. CASE JobRefused
  BY <1>5 DEF JobRefused, queueVars, taken
<1> QED BY <1>2, <1>3, <1>4, <1>5 DEF MainNext, Silent, SkipCheck, SeeMessage, BeginGet,
        GetRefused, GetFindsEmpty, NoSearch, Update, UpdateWithoutAsk, NothingFound,
        SearchRaises, StalePath, LockUnavailable, Finds, ReportDry, ReportOpportunity,
        Opportunity, ReportSent, Acquire, FindEmpty, queueVars, taken

LEMMA ShapeFeeder ==
  ASSUME DispatchTypeOK, QueueShape, FeederStep
  PROVE  QueueShape'
<1> DEFINE m == [Head(buffer) EXCEPT !.rates = version]
<1>1. buffer \in Seq(Message) /\ pipe \in Seq(Message)
  BY DEF DispatchTypeOK, TypeOK
<1>2. /\ buffer # <<>> /\ buffer' = Tail(buffer) /\ pipe' = Append(pipe, m)
      /\ UNCHANGED <<executeLock, takenExec>>
  BY DEF FeederStep, FeedJob, LiveRates, Feed, mainVars, taken
<1> HIDE DEF m
<1>3. Len(buffer) = 1 /\ pipe = <<>>
  BY <1>2 DEF QueueShape
<1>4. buffer' = <<>> /\ Len(pipe') = 1
  BY <1>1, <1>2, <1>3, TailOfOne
<1> QED BY <1>2, <1>4 DEF QueueShape

LEMMA ShapeExec ==
  ASSUME DispatchTypeOK, QueueShape, ExecStep
  PROVE  QueueShape'
<1>1. buffer \in Seq(Message) /\ pipe \in Seq(Message)
  BY DEF DispatchTypeOK, TypeOK
<1>2. CASE ExecTake
  <2>1. /\ pipe # <<>> /\ pipe' = Tail(pipe) /\ UNCHANGED <<buffer, executeLock>>
    BY <1>2 DEF ExecTake, ExecReceive, Receive, IsEmpty
  <2>2. buffer = <<>> /\ Len(pipe) = 1 /\ ~executeLock
    BY <2>1 DEF QueueShape
  <2>3. pipe' = <<>>
    BY <1>1, <2>1, <2>2, TailOfOne
  <2> QED BY <2>1, <2>2, <2>3 DEF QueueShape
<1>3. CASE ExecOther
  BY <1>3 DEF QueueShape, ExecOther, ExecLocal, ExecAcquire, Acquire, ExecFindEmpty, LeaveEmpty,
     FindEmpty, IgnoreUndecodable, IgnoreWithoutRates, IgnoreOverLimit, Ignore, Quit,
     StartPath, FirstLeg, Dies, mainVars, taken, queueVars
<1> QED BY <1>2, <1>3 DEF ExecStep

LEMMA ShapeStep ==
  ASSUME DispatchTypeOK, QueueShape, [DispatchNext]_dispatchVars
  PROVE  QueueShape'
<1>1. CASE UNCHANGED dispatchVars
  BY <1>1 DEF QueueShape, dispatchVars, queueVars, mainVars, taken
<1> QED BY <1>1, ShapeMain, ShapeFeeder, ShapeExec DEF DispatchNext

LEMMA ShapeInit == DispatchInit => QueueShape
BY DEF DispatchInit, QueueInit, MainInit, QueueShape

LEMMA ShapeMeans ==
  ASSUME DispatchTypeOK, QueueShape
  PROVE  OneJobAtATime
<1>1. buffer \in Seq(Message) /\ pipe \in Seq(Message)
  BY DEF DispatchTypeOK, TypeOK
<1>2. /\ buffer = <<>> => Len(buffer) = 0
      /\ pipe = <<>> => Len(pipe) = 0
  BY EmptySeq
<1>3. \/ Len(buffer) = 0 /\ Len(pipe) = 0
      \/ Len(buffer) = 1 /\ Len(pipe) = 0
      \/ Len(buffer) = 0 /\ Len(pipe) = 1
  BY <1>2 DEF QueueShape
<1>4. ASSUME JobsUnderWay # {} PROVE buffer # <<>> \/ pipe # <<>>
  BY <1>4, TagsInEmpty DEF JobsUnderWay
<1>5. Len(buffer) + Len(pipe) <= 1
  <2>1. \A a, b \in {0, 1} : ~(a = 1 /\ b = 1) => a + b <= 1
    OBVIOUS
  <2>2. Len(buffer) \in {0, 1} /\ Len(pipe) \in {0, 1}
    BY <1>3
  <2>3. ~(Len(buffer) = 1 /\ Len(pipe) = 1)
    BY <1>3
  <2> QED BY <2>1, <2>2, <2>3, Zenon
<1>6. JobsUnderWay # {} => ~executeLock /\ takenExec = {}
  BY <1>4 DEF QueueShape
<1> QED BY <1>5, <1>6 DEF OneJobAtATime

\* execute_lock keeps main to one job at a time, although main frees it by
\* taking any message, its own job included, and although the lock is lost
\* with the job the executor takes.
THEOREM OneJob == DispatchSpec => []OneJobAtATime
<1>1. DispatchInit => DispatchTypeOK /\ QueueShape
  BY TypeInit, ShapeInit
<1>2. /\ DispatchTypeOK /\ QueueShape /\ [DispatchNext]_dispatchVars
      /\ DispatchTypeOK'
      => QueueShape'
  BY ShapeStep
<1>3. DispatchTypeOK /\ QueueShape => OneJobAtATime
  BY ShapeMeans
<1> QED BY <1>1, <1>2, <1>3, TypeCorrect, PTL DEF DispatchSpec

-----------------------------------------------------------------------------
(* Where every job is.                                                     *)

\* What a step that takes the only message off the pipe does to the tags.
LEMMA LastMessage ==
  ASSUME DispatchTypeOK, QueueShape, pipe # <<>>
  PROVE  /\ JobsUnderWay = {Head(pipe).tag}
         /\ buffer = <<>> /\ Tail(pipe) = <<>>
         /\ TagsIn(Tail(pipe)) = {}
<1>1. pipe \in Seq(Message) /\ buffer = <<>> /\ Len(pipe) = 1
  BY DEF DispatchTypeOK, TypeOK, QueueShape
<1>2. Tail(pipe) = <<>>
  BY <1>1, TailOfOne
<1> QED BY <1>1, <1>2, TagsInCons, TagsInEmpty DEF JobsUnderWay

LEMMA ReportNumbers ==
  ASSUME NEW rs \in Seq(ReportRecord)
  PROVE  \A i \in DOMAIN rs : rs[i].tag \in Nat /\ rs[i].version \in Nat
<1>1. \A i \in DOMAIN rs : rs[i] \in ReportRecord
  OBVIOUS
<1>2. \A r \in ReportRecord : r.tag \in Nat /\ r.version \in Nat
  BY MaxUpdatesIsNat, MaxTagsIsNat DEF ReportRecord, Tags
<1> QED BY <1>1, <1>2

\* The next opportunity's tag has been in no report.
LEMMA NextTagIsNew ==
  ASSUME DispatchTypeOK, ReportsInv
  PROVE  nextTag \notin JobsSent
<1>1. reports \in Seq(ReportRecord) /\ nextTag \in Nat
  BY MaxTagsIsNat DEF DispatchTypeOK
<1>2. \A i \in DOMAIN reports : reports[i].tag # nextTag
  BY <1>1, ReportNumbers DEF ReportsInv
<1> QED BY <1>2, Zenon DEF JobsSent, TagsSent

\* What a report adds.
LEMMA NewReport ==
  ASSUME DispatchTypeOK, ReportsInv, NEW t \in Tags, NEW k \in {"opportunity", "sent"},
         reports' = Append(reports, Report(k, t)), version' = version,
         nextTag' \in {nextTag, nextTag + 1}, t < nextTag'
  PROVE  /\ ReportsInv'
         /\ JobsSent' = IF k = "sent" THEN JobsSent \cup {t} ELSE JobsSent
<1> DEFINE r == Report(k, t)
<1>1. /\ reports \in Seq(ReportRecord) /\ r \in ReportRecord
      /\ nextTag \in Nat /\ version \in Nat
  BY ReportInRecord, MaxUpdatesIsNat, MaxTagsIsNat DEF DispatchTypeOK
<1>2. r.tag = t /\ r.version = version /\ r.kind = k
  BY DEF Report
<1>3. reports' = Append(reports, r)
  OBVIOUS
<1> HIDE DEF r
<1>4. JobsSent' = IF k = "sent" THEN JobsSent \cup {t} ELSE JobsSent
  BY <1>1, <1>2, <1>3, TagsSentAppend DEF JobsSent
<1>5. \A i \in DOMAIN reports : /\ reports[i].tag \in Nat
                                 /\ reports[i].version \in Nat
  BY <1>1, ReportNumbers
<1>6. nextTag <= nextTag'
  BY <1>1
<1>7. \A i \in DOMAIN reports : reports[i].tag < nextTag'
  BY <1>1, <1>5, <1>6 DEF ReportsInv
<1>8. ReportsInv'
  BY <1>1, <1>2, <1>3, <1>7 DEF ReportsInv
<1> QED BY <1>4, <1>8

LEMMA FindsReport ==
  ASSUME DispatchTypeOK, ReportsInv, Finds
  PROVE  ReportsInv' /\ JobsSent' = JobsSent /\ TagFresh'
<1>1. /\ reports' = Append(reports, Report("opportunity", nextTag))
      /\ version' = version /\ nextTag' = nextTag + 1 /\ nextTag \in Tags
      /\ nextTag \in Nat
  BY MaxTagsIsNat DEF Finds, ReportDry, ReportOpportunity, Opportunity, DispatchTypeOK, Tags
<1>2. nextTag < nextTag'
  BY <1>1
<1>3. ReportsInv' /\ JobsSent' = JobsSent
  BY <1>1, <1>2, NewReport
<1>4. Tag' = nextTag
  BY <1>1 DEF Tag
<1> QED BY <1>3, <1>4, NextTagIsNew DEF TagFresh

LEMMA SentReport ==
  ASSUME DispatchTypeOK, ReportsInv, ReportSent
  PROVE  ReportsInv' /\ JobsSent' = JobsSent \cup {Tag}
<1>1. /\ reports' = Append(reports, Report("sent", Tag))
      /\ version' = version /\ nextTag' = nextTag /\ Tag \in Tags
  BY TagInTags DEF ReportSent, Goto, market
<1>2. Tag < nextTag'
  BY <1>1, MaxTagsIsNat DEF DispatchTypeOK, Tag
<1> QED BY <1>1, <1>2, NewReport

JobsInv == ReportsInv /\ EveryJobAccounted /\ TagFresh

LEMMA AccountMain ==
  ASSUME DispatchTypeOK, QueueShape, JobsInv, MainStep
  PROVE  JobsInv'
<1> USE DEF JobsInv, MainStep, Goto
<1>1. CASE /\ UNCHANGED <<buffer, pipe, reports, taken, nextTag>>
           /\ version' \in {version, version + 1}
           /\ mpc' \notin {"reported", "sending"} /\ mpc # "sending"
  <2>1. ReportsInv'
    <3>1. version \in Nat /\ reports \in Seq(ReportRecord)
      BY MaxUpdatesIsNat DEF DispatchTypeOK
    <3> QED BY <1>1, <3>1, ReportNumbers DEF ReportsInv
  <2>2. EveryJobAccounted'
    BY <1>1 DEF EveryJobAccounted, JobsUnderWay, JobsPut, JobsSent, taken
  <2> QED BY <1>1, <2>1, <2>2 DEF TagFresh
<1>2. CASE TakeMessage
  <2>1. /\ pipe # <<>> /\ pipe' = Tail(pipe) /\ buffer' = buffer
        /\ takenMain' = takenMain \cup {Head(pipe).tag} /\ takenExec' = takenExec
        /\ UNCHANGED <<reports, version, nextTag>>
        /\ mpc # "sending" /\ mpc' = "receive"
    BY <1>2 DEF TakeMessage, Receive, IsEmpty, market
  <2>2. JobsUnderWay = {Head(pipe).tag} /\ JobsUnderWay' = {}
    BY <2>1, LastMessage, TagsInEmpty DEF JobsUnderWay
  <2>3. JobsPut' = JobsPut /\ ReportsInv' /\ TagFresh'
    BY <2>1 DEF JobsPut, JobsSent, ReportsInv, TagFresh
  <2> QED BY <2>1, <2>2, <2>3 DEF EveryJobAccounted
<1>3. CASE Finds
  <2>1. /\ UNCHANGED <<buffer, pipe, taken>> /\ mpc # "sending" /\ mpc' # "sending"
    BY <1>3 DEF Finds, ReportDry, ReportOpportunity, Opportunity, queueVars
  <2>2. ReportsInv' /\ JobsSent' = JobsSent /\ TagFresh'
    BY <1>3, FindsReport
  <2> QED BY <2>1, <2>2 DEF EveryJobAccounted, JobsUnderWay, JobsPut, taken
<1>4. CASE DispatchJob
  <2>1. /\ mpc = "reported" /\ mpc' = "sending" /\ Tag' = Tag
        /\ buffer' = Append(buffer, Job(Tag))
        /\ UNCHANGED <<pipe, takenMain, takenExec, reports, version, nextTag>>
    BY <1>4 DEF DispatchJob, Put, market, taken, Tag
  <2>2. Job(Tag) \in Message /\ Job(Tag).tag = Tag
    BY <2>1, TagInTags, JobInMessage
  <2>3. JobsUnderWay' = JobsUnderWay \cup {Tag}
    BY <2>1, <2>2, TagsInAppend DEF JobsUnderWay, DispatchTypeOK, TypeOK
  <2>4. /\ JobsSent' = JobsSent /\ Tag \notin JobsSent
        /\ JobsPut = JobsSent /\ JobsPut' = JobsSent \cup {Tag}
    BY <2>1 DEF JobsPut, JobsSent, TagFresh
  <2>5. ReportsInv' /\ TagFresh'
    BY <2>1 DEF ReportsInv, TagFresh
  <2> QED BY <2>1, <2>3, <2>4, <2>5 DEF EveryJobAccounted
<1>5. CASE ReportSent
  <2>1. /\ mpc = "sending" /\ mpc' = "check"
        /\ UNCHANGED <<buffer, pipe, takenMain, takenExec>>
    BY <1>5 DEF ReportSent, taken, queueVars
  <2>2. ReportsInv' /\ JobsSent' = JobsSent \cup {Tag}
    BY <1>5, SentReport
  <2>3. JobsPut' = JobsPut
    BY <2>1, <2>2 DEF JobsPut
  <2> QED BY <2>1, <2>2, <2>3 DEF EveryJobAccounted, JobsUnderWay, TagFresh
<1> QED BY <1>1, <1>2, <1>3, <1>4, <1>5 DEF MainNext, Silent, SkipCheck, SeeMessage,
        BeginGet, GetRefused, GetFindsEmpty, Acquire, FindEmpty, NoSearch, Update,
        UpdateWithoutAsk, NothingFound, SearchRaises, StalePath, LockUnavailable, LetGo,
        JobRefused, NewPrices, market, queueVars

LEMMA AccountStep ==
  ASSUME DispatchTypeOK, QueueShape, JobsInv, [DispatchNext]_dispatchVars
  PROVE  JobsInv'
<1> USE DEF JobsInv
<1>1. CASE MainStep
  BY <1>1, AccountMain
<1>2. CASE FeederStep
  <2> DEFINE m == [Head(buffer) EXCEPT !.rates = version]
  <2>1. /\ buffer \in Seq(Message) /\ pipe \in Seq(Message) /\ buffer # <<>>
        /\ buffer' = Tail(buffer) /\ pipe' = Append(pipe, m)
        /\ UNCHANGED <<reports, version, nextTag, mpc, takenMain, takenExec>>
    BY <1>2 DEF FeederStep, FeedJob, LiveRates, Feed, DispatchTypeOK, TypeOK, mainVars, market,
       taken
  <2>2. m \in Message /\ m.tag = Head(buffer).tag
    <3>1. version \in Nat /\ Head(buffer) \in Message
      BY <2>1, MaxUpdatesIsNat, HeadTailProperties DEF DispatchTypeOK
    <3> QED BY <3>1 DEF Message
  <2> HIDE DEF m
  <2>3. JobsUnderWay' = JobsUnderWay
    BY <2>1, <2>2, TagsInAppend, TagsInCons DEF JobsUnderWay
  <2> QED BY <2>1, <2>3 DEF ReportsInv, EveryJobAccounted, JobsPut, JobsSent, Tag, TagFresh
<1>3. CASE ExecTake
  <2>1. /\ pipe # <<>> /\ pipe' = Tail(pipe) /\ buffer' = buffer
        /\ takenExec' = takenExec \cup {Head(pipe).tag} /\ takenMain' = takenMain
        /\ UNCHANGED <<reports, version, nextTag, mpc>>
    BY <1>3 DEF ExecTake, ExecReceive, Receive, IsEmpty, market
  <2>2. JobsUnderWay = {Head(pipe).tag} /\ JobsUnderWay' = {}
    BY <2>1, LastMessage, TagsInEmpty DEF JobsUnderWay
  <2> QED BY <2>1, <2>2 DEF ReportsInv, EveryJobAccounted, JobsPut, JobsSent, Tag, TagFresh
<1>4. CASE ExecOther \/ UNCHANGED dispatchVars
  <2>1. UNCHANGED <<buffer, pipe, mainVars>>
    BY <1>4 DEF ExecOther, ExecLocal, ExecAcquire, Acquire, ExecFindEmpty, LeaveEmpty, FindEmpty,
       IgnoreUndecodable, IgnoreWithoutRates, IgnoreOverLimit, Ignore, Quit, StartPath,
       FirstLeg, Dies, queueVars, dispatchVars
  <2> QED BY <2>1 DEF ReportsInv, EveryJobAccounted, JobsUnderWay, JobsPut, JobsSent, Tag,
          TagFresh, mainVars, market, taken
<1> QED BY <1>1, <1>2, <1>3, <1>4 DEF DispatchNext, ExecStep

LEMMA AccountInit == DispatchInit => JobsInv
<1>1. TagsSent(<<>>) = {}
  BY DEF TagsSent
<1> QED BY <1>1, TagsInEmpty DEF DispatchInit, QueueInit, MainInit, JobsInv, ReportsInv,
        EveryJobAccounted, JobsUnderWay, JobsPut, JobsSent, TagFresh

AccountIInv == DispatchTypeOK /\ QueueShape /\ JobsInv

LEMMA AccountInvariant == DispatchSpec => []AccountIInv
<1>1. DispatchInit => AccountIInv
  BY TypeInit, ShapeInit, AccountInit DEF AccountIInv
<1>2. AccountIInv /\ [DispatchNext]_dispatchVars /\ DispatchTypeOK' => AccountIInv'
  BY ShapeStep, AccountStep DEF AccountIInv
<1> QED BY <1>1, <1>2, TypeCorrect, PTL DEF DispatchSpec

\* No job is lost and none is delivered twice: a job that was put is under way,
\* or back with main, or with the executor, and in one of these places only.
THEOREM JobsAccounted == DispatchSpec => []EveryJobAccounted
<1>1. AccountIInv => EveryJobAccounted
  BY DEF AccountIInv, JobsInv
<1> QED BY <1>1, AccountInvariant, PTL

-----------------------------------------------------------------------------
(* The queue and the lock implement the slot for one job.                  *)

LEMMA SlotIsMapped ==
  /\ Slot!SlotInit <=> MappedSlot = "free" /\ JobsPut = {}
  /\ Slot!PutInSlot <=> /\ MappedSlot = "free"
                        /\ MappedSlot' = "underway"
                        /\ \E t \in Tags \ JobsPut : JobsPut' = JobsPut \cup {t}
  /\ Slot!LeaveSlot <=> /\ MappedSlot = "underway"
                        /\ MappedSlot' \in {"free", "taken"}
                        /\ UNCHANGED JobsPut
  /\ Slot!PutFails <=> /\ MappedSlot = "free"
                       /\ MappedSlot' = "taken"
                       /\ UNCHANGED JobsPut
  /\ UNCHANGED Slot!slotVars <=> UNCHANGED <<MappedSlot, JobsPut>>
BY DEF Slot!SlotInit, Slot!PutInSlot, Slot!LeaveSlot, Slot!PutFails, Slot!slotVars,
   MappedSlot

\* Where a job is decides what is under way, in every state.
LEMMA UnderWayIsRest ==
  EveryJobAccounted => JobsUnderWay = JobsPut \ (takenMain \cup takenExec)
BY DEF EveryJobAccounted

LEMMA SlotMain ==
  ASSUME AccountIInv, AccountIInv', MainStep
  PROVE  [Slot!SlotNext]_(Slot!slotVars)
<1> USE DEF AccountIInv, JobsInv, MainStep, Goto
<1>1. CASE /\ UNCHANGED <<buffer, pipe, executeLock, reports>>
           /\ mpc # "sending" /\ mpc' # "sending"
  BY <1>1, SlotIsMapped DEF MappedSlot, JobsUnderWay, JobsPut, JobsSent
<1>2. CASE Finds
  <2>1. /\ UNCHANGED <<buffer, pipe, executeLock>>
        /\ mpc # "sending" /\ mpc' # "sending"
    BY <1>2 DEF Finds, ReportDry, ReportOpportunity, Opportunity, queueVars
  <2>2. JobsPut' = JobsPut
    BY <1>2, <2>1, FindsReport DEF JobsPut
  <2> QED BY <2>1, <2>2, SlotIsMapped DEF MappedSlot, JobsUnderWay
<1>3. CASE TakeMessage
  <2>1. /\ pipe # <<>> /\ executeLock' /\ reports' = reports
        /\ mpc # "sending" /\ mpc' # "sending"
    BY <1>3 DEF TakeMessage, Receive, IsEmpty
  <2>2. JobsUnderWay # {} /\ ~executeLock
    BY <2>1, LastMessage DEF QueueShape
  <2>3. Slot!LeaveSlot
    BY <2>1, <2>2, SlotIsMapped DEF MappedSlot, JobsPut, JobsSent
  <2> QED BY <2>3 DEF Slot!SlotNext
<1>4. CASE DispatchJob
  <2>1. /\ executeLock /\ ~executeLock' /\ mpc = "reported" /\ mpc' = "sending"
        /\ UNCHANGED <<takenMain, takenExec, reports, nextTag>> /\ Tag \in Tags
    BY <1>4, TagInTags DEF DispatchJob, TakeLock, taken, market
  <2>2. JobsPut = JobsSent /\ JobsPut' = JobsPut \cup {Tag} /\ Tag \notin JobsPut
    BY <2>1 DEF JobsPut, JobsSent, Tag, TagFresh
  <2>3. JobsUnderWay' # {}
    BY <2>1, <2>2, UnderWayIsRest DEF EveryJobAccounted
  <2>4. Slot!PutInSlot
    BY <2>1, <2>2, <2>3, SlotIsMapped DEF MappedSlot
  <2> QED BY <2>4 DEF Slot!SlotNext
<1>5. CASE ReportSent
  <2>1. /\ UNCHANGED <<buffer, pipe, executeLock>>
        /\ mpc = "sending" /\ mpc' = "check"
    BY <1>5 DEF ReportSent, queueVars
  <2>2. JobsPut' = JobsPut
    BY <1>5, <2>1, SentReport DEF JobsPut
  <2> QED BY <2>1, <2>2, SlotIsMapped DEF MappedSlot, JobsUnderWay
<1>6. CASE JobRefused
  <2>1. /\ executeLock /\ ~executeLock'
        /\ UNCHANGED <<buffer, pipe, reports>>
        /\ mpc # "sending" /\ mpc' # "sending"
    BY <1>6 DEF JobRefused, queueVars
  <2>2. JobsPut' = JobsPut
    BY <2>1 DEF JobsPut, JobsSent
  <2>3. JobsUnderWay' = {}
    BY <2>1 DEF QueueShape, JobsUnderWay, TagsIn
  <2>4. Slot!PutFails
    BY <2>1, <2>2, <2>3, SlotIsMapped DEF MappedSlot
  <2> QED BY <2>4 DEF Slot!SlotNext
<1> QED BY <1>1, <1>2, <1>3, <1>4, <1>5, <1>6 DEF MainNext, Silent, SkipCheck, SeeMessage,
        BeginGet, GetRefused, GetFindsEmpty, NoSearch, Update, UpdateWithoutAsk,
        NothingFound, SearchRaises, StalePath, LockUnavailable, LetGo, Acquire, FindEmpty,
        queueVars

LEMMA SlotStep ==
  ASSUME AccountIInv, AccountIInv', [DispatchNext]_dispatchVars
  PROVE  [Slot!SlotNext]_(Slot!slotVars)
<1> USE DEF AccountIInv, JobsInv
<1>1. CASE MainStep
  BY <1>1, SlotMain
<1>2. CASE FeederStep
  <2>1. UNCHANGED <<executeLock, reports, mpc, nextTag, takenMain, takenExec>>
    BY <1>2 DEF FeederStep, mainVars, market, taken
  <2>2. JobsPut' = JobsPut
    BY <2>1 DEF JobsPut, JobsSent, Tag
  <2>3. JobsUnderWay' = JobsUnderWay
    BY <2>1, <2>2, UnderWayIsRest DEF EveryJobAccounted
  <2> QED BY <2>1, <2>2, <2>3, SlotIsMapped DEF MappedSlot
<1>3. CASE ExecTake
  <2>1. /\ pipe # <<>> /\ pipe' = Tail(pipe)
        /\ UNCHANGED <<buffer, executeLock, reports, mpc, nextTag>>
    BY <1>3 DEF ExecTake, ExecReceive, Receive, IsEmpty, market
  <2>2. JobsUnderWay # {} /\ ~executeLock /\ JobsUnderWay' = {}
    BY <2>1, LastMessage, TagsInEmpty DEF QueueShape, JobsUnderWay
  <2>3. JobsPut' = JobsPut
    BY <2>1 DEF JobsPut, JobsSent, Tag
  <2>4. Slot!LeaveSlot
    BY <2>1, <2>2, <2>3, SlotIsMapped DEF MappedSlot
  <2> QED BY <2>4 DEF Slot!SlotNext
<1>4. CASE ExecOther \/ UNCHANGED dispatchVars
  <2>1. UNCHANGED <<buffer, pipe, mainVars>>
    BY <1>4 DEF ExecOther, ExecLocal, ExecAcquire, Acquire, ExecFindEmpty, LeaveEmpty, FindEmpty,
       IgnoreUndecodable, IgnoreWithoutRates, IgnoreOverLimit, Ignore, Quit, StartPath,
       FirstLeg, Dies, queueVars, dispatchVars
  <2> QED BY <2>1, SlotIsMapped DEF MappedSlot, JobsUnderWay, JobsPut, JobsSent, Tag,
          mainVars, market
<1> QED BY <1>1, <1>2, <1>3, <1>4 DEF DispatchNext, ExecStep

\* Every step of main, the feeder and the executor is a step of the slot or
\* leaves it alone: in particular the slot is lost for good with the first
\* job the executor takes.
THEOREM SlotImplemented == DispatchSpec => Slot!SlotSafety
<1>1. DispatchInit => Slot!SlotInit
  <2>1. TagsSent(<<>>) = {}
    BY DEF TagsSent
  <2> QED BY <2>1, SlotIsMapped DEF DispatchInit, MainInit, MappedSlot, JobsPut, JobsSent
<1>2. AccountIInv /\ AccountIInv' /\ [DispatchNext]_dispatchVars
      => [Slot!SlotNext]_(Slot!slotVars)
  BY SlotStep
<1> QED BY <1>1, <1>2, AccountInvariant, PTL DEF DispatchSpec, Slot!SlotSafety

-----------------------------------------------------------------------------
(* The rates a job carries.                                                *)

\* Between the put of a job and its report main applies no update.
SendingFresh == mpc = "sending" => \A i \in DOMAIN pipe : pipe[i].rates >= version

RatesInv == RatesNotOlder /\ SendingFresh

\* Another report, of an opportunity no message on the pipe is about.
LEMMA RatesWithReport ==
  ASSUME AccountIInv, RatesNotOlder, pipe' = pipe,
         NEW r \in ReportRecord, reports' = Append(reports, r),
         \A i \in DOMAIN pipe : r.tag = pipe[i].tag => pipe[i].rates >= r.version
  PROVE  RatesNotOlder'
<1>1. reports \in Seq(ReportRecord)
  BY DEF AccountIInv, DispatchTypeOK
<1>2. \A j \in DOMAIN reports' : \/ j \in DOMAIN reports /\ reports'[j] = reports[j]
                                \/ reports'[j] = r
  BY <1>1
<1> QED BY <1>2 DEF RatesNotOlder

LEMMA RatesStep ==
  ASSUME AccountIInv, RatesInv, [DispatchNext]_dispatchVars
  PROVE  RatesInv'
<1> USE DEF AccountIInv, JobsInv, RatesInv
<1>1. /\ pipe \in Seq(Message) /\ buffer \in Seq(Message)
      /\ reports \in Seq(ReportRecord)
  BY DEF DispatchTypeOK, TypeOK
<1>2. CASE UNCHANGED <<pipe, reports>> /\ mpc' # "sending"
  BY <1>2 DEF RatesNotOlder, SendingFresh
<1>3. CASE pipe # <<>> /\ pipe' = Tail(pipe)
  BY <1>3, LastMessage DEF RatesNotOlder, SendingFresh
<1>4. CASE Finds
  <2> DEFINE r == Report("opportunity", nextTag)
  <2>1. /\ reports' = Append(reports, r) /\ nextTag \in Tags /\ pipe' = pipe
        /\ mpc # "sending" /\ mpc' # "sending"
    BY <1>4 DEF Finds, ReportDry, ReportOpportunity, Opportunity, Goto, DispatchTypeOK,
       Tags, queueVars
  <2>2. r.tag = nextTag /\ r \in ReportRecord
    BY <2>1, ReportInRecord DEF Report
  <2>3. \A i \in DOMAIN pipe : pipe[i].tag \in JobsSent
    BY <2>1 DEF EveryJobAccounted, JobsUnderWay, TagsIn, JobsPut
  <2> HIDE DEF r
  <2> QED BY <2>1, <2>2, <2>3, NextTagIsNew, RatesWithReport DEF SendingFresh
<1>5. CASE ReportSent
  <2> DEFINE r == Report("sent", Tag)
  <2>1. /\ reports' = Append(reports, r) /\ Tag \in Tags /\ pipe' = pipe
        /\ mpc = "sending" /\ mpc' # "sending"
    BY <1>5, TagInTags DEF ReportSent, Goto, queueVars
  <2>2. r.tag = Tag /\ r.version = version /\ r \in ReportRecord
    BY <2>1, ReportInRecord DEF Report
  <2> HIDE DEF r
  <2> QED BY <2>1, <2>2, RatesWithReport DEF SendingFresh
<1>6. CASE DispatchJob
  <2>1. UNCHANGED <<pipe, reports>> /\ pipe = <<>>
    BY <1>6 DEF DispatchJob, Put, QueueShape
  <2> QED BY <2>1 DEF RatesNotOlder, SendingFresh
<1>7. CASE FeederStep
  <2> DEFINE m == [Head(buffer) EXCEPT !.rates = version]
  <2>1. /\ buffer # <<>> /\ pipe' = Append(pipe, m) /\ reports' = reports
        /\ version' = version
    BY <1>7 DEF FeederStep, FeedJob, LiveRates, Feed, mainVars, market
  <2>2. m.rates = version /\ pipe = <<>>
    BY <1>1, <2>1, HeadTailProperties DEF Message, QueueShape
  <2> HIDE DEF m
  <2>3. \A i \in DOMAIN pipe' : pipe'[i] = m
    BY <2>1, <2>2
  <2>4. version \in Nat
    BY MaxUpdatesIsNat DEF DispatchTypeOK
  <2> QED BY <2>1, <2>2, <2>3, <2>4 DEF RatesNotOlder, SendingFresh, ReportsInv
<1>8. CASE MainStep
  BY <1>2, <1>3, <1>4, <1>5, <1>6, <1>8 DEF MainStep, MainNext, Silent, SkipCheck, SeeMessage,
     BeginGet, GetRefused, GetFindsEmpty, TakeMessage, NoSearch, Update,
     UpdateWithoutAsk, NothingFound, SearchRaises, StalePath, LockUnavailable, LetGo,
     JobRefused, Acquire, FindEmpty, Receive, IsEmpty, Goto, queueVars
<1>9. CASE ExecTake
  BY <1>3, <1>9 DEF ExecTake, ExecReceive, Receive, IsEmpty
<1>10. CASE ExecOther \/ UNCHANGED dispatchVars
  BY <1>10
  DEF RatesNotOlder, SendingFresh, market, ExecOther, ExecLocal, ExecAcquire, Acquire, ExecFindEmpty, LeaveEmpty, FindEmpty,
      IgnoreUndecodable, IgnoreWithoutRates, IgnoreOverLimit, Ignore, Quit, StartPath,
      FirstLeg, Dies, queueVars, dispatchVars, mainVars
<1> QED BY <1>7, <1>8, <1>9, <1>10 DEF DispatchNext, ExecStep

\* A job is priced with rates at least as new as those it was found with,
\* although they are read only when the feeder pickles it.
THEOREM RatesFresh == DispatchSpec => []RatesNotOlder
<1>1. DispatchInit => RatesInv
  BY DEF DispatchInit, QueueInit, MainInit, RatesInv, RatesNotOlder, SendingFresh
<1>2. AccountIInv /\ RatesInv /\ [DispatchNext]_dispatchVars => RatesInv'
  BY RatesStep
<1>3. RatesInv => RatesNotOlder
  BY DEF RatesInv
<1> QED BY <1>1, <1>2, <1>3, AccountInvariant, PTL DEF DispatchSpec

-----------------------------------------------------------------------------
(***************************************************************************)
(* The executor with a client of any kind: whatever it puts, and whenever  *)
(* it gets, a position is never in the hands of a running process.         *)
(***************************************************************************)
\* An order is placed in the last step of the process.
OneOrderEach == /\ placed # 0 => epc = "crashed"
                /\ HeldMeansGone

ExecutorInv == TypeOK /\ OneOrderEach

LEMMA ExecutorInit == Init => ExecutorInv
BY ProcsDiffer
DEF Init, QueueInit, ExecInit, ExecutorInv, TypeOK, OneOrderEach,
    HeldMeansGone

\* get() in either process: what is left of the queue, and who has the lock.
LEMMA GetStep ==
  ASSUME TypeOK, NEW p \in {MainProc, ExecProc},
         Acquire(p) \/ FindEmpty(p) \/ Receive(p)
  PROVE  /\ buffer' \in Seq(Message) /\ pipe' \in Seq(Message)
         /\ readLock' \in {p, NoProc}
         /\ readLock \in {p, NoProc}
<1>1. CASE Acquire(p) \/ FindEmpty(p)
  BY <1>1 DEF Acquire, FindEmpty, TypeOK
<1>2. CASE Receive(p)
  BY <1>2, HeadTailProperties DEF Receive, IsEmpty, TypeOK
<1> QED BY <1>1, <1>2

LEMMA LocalStep ==
  ASSUME ExecutorInv, ExecLocal
  PROVE  ExecutorInv'
<1> USE ProcsDiffer
    DEF ExecutorInv, TypeOK, OneOrderEach, HeldMeansGone, queueVars
<1>1. CASE ExecAcquire
  BY <1>1 DEF ExecAcquire, Acquire
<1>2. CASE ExecFindEmpty
  BY <1>2 DEF ExecFindEmpty, LeaveEmpty, FindEmpty
<1>3. CASE IgnoreUndecodable
  BY <1>3 DEF IgnoreUndecodable, Ignore
<1>4. CASE IgnoreWithoutRates
  BY <1>4 DEF IgnoreWithoutRates, Decoded, Ignore
<1>5. CASE IgnoreOverLimit
  BY <1>5 DEF IgnoreOverLimit, IsJob, Decoded, Ignore
<1>6. CASE Quit
  BY <1>6 DEF Quit, Decoded
<1>7. CASE StartPath
  BY <1>7 DEF StartPath, IsJob, Decoded
<1>8. CASE FirstLeg
  <2>1. placed = 0 /\ holding = "source" /\ epc = "order" /\ epc' = "crashed"
    BY <1>8 DEF FirstLeg, Dies
  <2>2. /\ placed' \in {0, 1} /\ counted' \in Nat
        /\ holding' \in {"source", "base"}
        /\ holding' = "base" => placed' = 1
    BY <1>8, <2>1 DEF FirstLeg, Filled, NotFilled, RaisedBefore, RaisedAfter
  <2> QED BY <1>8, <2>1, <2>2 DEF FirstLeg
<1> QED BY <1>1, <1>2, <1>3, <1>4, <1>5, <1>6, <1>7, <1>8 DEF ExecLocal

LEMMA ReceiveStep ==
  ASSUME ExecutorInv, ExecReceive
  PROVE  ExecutorInv'
<1>1. pipe \in Seq(Message) /\ pipe # <<>> /\ readLock' = NoProc /\ UNCHANGED buffer
  BY DEF ExecReceive, Receive, IsEmpty, ExecutorInv, TypeOK
<1>2. job' \in Message /\ pipe' \in Seq(Message)
  BY <1>1, HeadTailProperties DEF ExecReceive, Receive
<1> QED
  BY <1>1, <1>2, ProcsDiffer
  DEF ExecReceive, ExecutorInv, TypeOK, OneOrderEach, HeldMeansGone

LEMMA ClientStep ==
  ASSUME ExecutorInv, ClientPut \/ ClientFeed \/ ClientGet
  PROVE  ExecutorInv'
<1>1. UNCHANGED <<epc, job, placed, counted, holding>>
  BY DEF ClientPut, ClientFeed, ClientGet, execVars
<1>2. buffer' \in Seq(Message) /\ pipe' \in Seq(Message)
  <2>1. CASE ClientPut
    BY <2>1, RequestsAreMessages DEF ClientPut, Put, ExecutorInv, TypeOK
  <2>2. CASE ClientFeed
    BY <2>2, HeadTailProperties DEF ClientFeed, Feed, ExecutorInv, TypeOK
  <2>3. CASE ClientGet
    BY <2>3, GetStep DEF ClientGet, ExecutorInv
  <2> QED BY <2>1, <2>2, <2>3
<1>3. \/ readLock' = readLock
      \/ readLock \in {MainProc, NoProc} /\ readLock' \in {MainProc, NoProc}
  BY GetStep DEF ClientPut, Put, ClientFeed, Feed, ClientGet, ExecutorInv
<1> QED
  BY <1>1, <1>2, <1>3, ProcsDiffer
  DEF ExecutorInv, TypeOK, OneOrderEach, HeldMeansGone

LEMMA ExecutorStep == ExecutorInv /\ [Next]_vars => ExecutorInv'
<1> SUFFICES ASSUME ExecutorInv, [Next]_vars PROVE ExecutorInv'
  OBVIOUS
<1>1. CASE UNCHANGED vars
  BY <1>1 DEF vars, queueVars, execVars, ExecutorInv, TypeOK,
     OneOrderEach, HeldMeansGone
<1> QED BY <1>1, LocalStep, ReceiveStep, ClientStep DEF Next, ExecNext

-----------------------------------------------------------------------------
\* Everything on the queue is a message, and the executor is at one place.
THEOREM ExecutorTypes == Spec => []TypeOK
<1>1. ExecutorInv => TypeOK
  BY DEF ExecutorInv
<1> QED BY <1>1, ExecutorInit, ExecutorStep, PTL DEF Spec

\* What is held was bought by the one order of a process that is gone.
THEOREM HeldByTheDead == Spec => []HeldMeansGone
<1>1. ExecutorInv => HeldMeansGone
  BY DEF ExecutorInv, OneOrderEach
<1> QED BY <1>1, ExecutorInit, ExecutorStep, PTL DEF Spec

-----------------------------------------------------------------------------
(* The bot as a whole.                                                     *)

RP == INSTANCE ReporterProofs

LEMMA BotStepOfDispatch == [BotNext]_botVars => [DispatchNext]_dispatchVars
BY DEF BotNext, botVars, MainFinds, MainSends, WithoutReport, ReporterStep, DispatchNext,
   MainStep, MainNext

LEMMA BotStepOfReporter == [BotNext]_botVars => [R!ReporterNext]_(R!reporterVars)
<1> SUFFICES ASSUME [BotNext]_botVars PROVE [R!ReporterNext]_(R!reporterVars)
  OBVIOUS
<1>1. CASE UNCHANGED reporterVars
  BY <1>1 DEF reporterVars, R!reporterVars, R!client
<1>2. CASE MainFinds \/ MainSends \/ ReporterStep
  BY <1>2 DEF MainFinds, MainSends, ReporterStep, R!ReporterNext, R!MainReports
<1> QED BY <1>1, <1>2 DEF BotNext, botVars, WithoutReport

\* The composition adds nothing to its parts: what is proved of main and the
\* executor, and of the reporter, holds of the bot.
THEOREM PartsOfTheBot == BotSpec => DispatchSpec /\ R!ReporterSpec
<1>1. BotInit => DispatchInit /\ R!ReporterInit
  BY DEF BotInit
<1> QED BY <1>1, BotStepOfDispatch, BotStepOfReporter, PTL
        DEF BotSpec, DispatchSpec, R!ReporterSpec

-----------------------------------------------------------------------------
(* The reporter's invariant in the bot, and what links the two.            *)

LEMMA SameInit == R!ReporterInit => RP!ReporterInit
BY DEF R!ReporterInit, RP!ReporterInit, R!NoReport, RP!NoReport

LEMMA SameStep == [R!ReporterNext]_(R!reporterVars) => [RP!ReporterNext]_(RP!reporterVars)
<1>1. UNCHANGED R!reporterVars => UNCHANGED RP!reporterVars
  BY DEF R!reporterVars, R!client, RP!reporterVars, RP!client
<1>2. R!MainReports => RP!MainReports
  BY DEF R!MainReports, R!ReportOpportunity, R!ReportSent, R!EventTag, R!Opportunity, R!Sent,
     RP!MainReports, RP!ReportOpportunity, RP!ReportSent, RP!EventTag, RP!Opportunity, RP!Sent
<1>3. R!Forward => RP!Forward
  BY DEF R!Forward, R!Rest, R!PushBack, R!client, RP!Forward, RP!Rest, RP!PushBack, RP!client
<1>4. ASSUME NEW w \in Workers, R!Write(w) PROVE RP!Write(w)
  BY <1>4
  DEF R!Write, R!Take, R!Idle, R!Commit, R!CommitFails, R!Busy, R!Unique, R!NoReport, R!client,
      RP!Write, RP!Take, RP!Idle, RP!Commit, RP!CommitFails, RP!Busy, RP!Unique,
      RP!NoReport, RP!client
<1> QED BY <1>1, <1>2, <1>3, <1>4 DEF R!ReporterNext, RP!ReporterNext

Linked == lastTag = nextTag - 1 /\ sentTags = JobsSent

LEMMA LinkedStep ==
  ASSUME DispatchTypeOK, ReportsInv, Linked, [BotNext]_botVars
  PROVE  Linked'
<1> USE DEF Linked
<1>1. nextTag \in Nat
  BY MaxTagsIsNat DEF DispatchTypeOK
<1>2. CASE MainFinds
  <2>1. JobsSent' = JobsSent
    BY <1>2, FindsReport DEF MainFinds
  <2>2. nextTag' = nextTag + 1
    BY <1>2 DEF MainFinds, Finds, ReportDry, ReportOpportunity, Opportunity
  <2>3. lastTag' = lastTag + 1 /\ sentTags' = sentTags
    BY <1>2 DEF MainFinds, R!ReportOpportunity
  <2> QED BY <1>1, <2>1, <2>2, <2>3
<1>3. CASE MainSends
  <2>1. JobsSent' = JobsSent \cup {Tag} /\ nextTag' = nextTag
    BY <1>3, SentReport DEF MainSends, ReportSent, market
  <2>2. lastTag' = lastTag /\ sentTags' = sentTags \cup {lastTag}
    BY <1>3 DEF MainSends, R!ReportSent, R!EventTag
  <2> QED BY <2>1, <2>2 DEF Tag
<1>4. CASE WithoutReport
  <2>1. lastTag' = lastTag /\ sentTags' = sentTags
    BY <1>4 DEF WithoutReport, reporterVars
  <2>2. reports' = reports /\ nextTag' = nextTag
    BY <1>4 DEF WithoutReport, Silent, SkipCheck, SeeMessage, BeginGet, GetRefused,
       GetFindsEmpty, TakeMessage, NoSearch, Update, UpdateWithoutAsk, NothingFound,
       SearchRaises, StalePath, LockUnavailable, LetGo, DispatchJob, JobRefused, NewPrices,
       market, FeederStep, ExecStep, ExecTake, ExecOther, mainVars
  <2> QED BY <2>1, <2>2 DEF JobsSent
<1>5. CASE ReporterStep \/ UNCHANGED botVars
  <2>1. lastTag' = lastTag /\ sentTags' = sentTags
    BY <1>5 DEF ReporterStep, R!Forward, R!Write, R!Take, R!Commit, R!CommitFails, R!client,
       botVars, reporterVars
  <2>2. reports' = reports /\ nextTag' = nextTag
    BY <1>5 DEF ReporterStep, botVars, dispatchVars, mainVars, market
  <2> QED BY <2>1, <2>2 DEF JobsSent
<1> QED BY <1>2, <1>3, <1>4, <1>5 DEF BotNext

LEMMA LinkedMeans ==
  ASSUME EveryJobAccounted, RP!ReporterInv, Linked
  PROVE  EventsTellOfJobs
<1> SUFFICES ASSUME NEW t \in Tags, R!Sent(t) \in rows
             PROVE  t \in JobsUnderWay \cup takenMain \cup takenExec
  BY DEF EventsTellOfJobs
<1>1. R!Sent(t) \in RP!Made
  BY DEF RP!ReporterInv, RP!PlaceInv, RP!Taken
<1>2. R!Sent(t) = RP!Sent(t) /\ \A u : RP!Opportunity(u) # R!Sent(t)
  BY DEF R!Sent, RP!Sent, RP!Opportunity
<1>3. \A u : RP!Sent(u) = R!Sent(t) => u = t
  BY DEF R!Sent, RP!Sent
<1>4. t \in sentTags
  BY <1>1, <1>2, <1>3 DEF RP!Made
<1> QED BY <1>4 DEF Linked, EveryJobAccounted, JobsPut

LEMMA ReporterInBot == BotSpec => []RP!ReporterInv
<1>1. BotInit => RP!ReporterInv
  BY SameInit, RP!InvInit, MaxTagsIsNat DEF BotInit
<1>2. RP!ReporterInv /\ [BotNext]_botVars => RP!ReporterInv'
  BY BotStepOfReporter, SameStep, RP!InvStep, MaxTagsIsNat
<1> QED BY <1>1, <1>2, PTL DEF BotSpec

\* An event in the database tells of a job that was put, although reports and
\* jobs travel on queues of their own and main may be gone.
THEOREM EventsAreTrue == BotSpec => []EventsTellOfJobs
<1>1. BotInit => Linked
  <2>1. TagsSent(<<>>) = {}
    BY DEF TagsSent
  <2> QED BY <2>1 DEF BotInit, DispatchInit, MainInit, R!ReporterInit, Linked, JobsSent
<1>2. AccountIInv /\ Linked /\ [BotNext]_botVars => Linked'
  BY LinkedStep DEF AccountIInv, JobsInv
<1>3. AccountIInv /\ RP!ReporterInv /\ Linked => EventsTellOfJobs
  BY LinkedMeans DEF AccountIInv, JobsInv
<1>4. BotSpec => []AccountIInv
  BY PartsOfTheBot, AccountInvariant, PTL
<1> QED BY <1>1, <1>2, <1>3, <1>4, ReporterInBot, PTL DEF BotSpec

\* What main really reports keeps its types on the way to the database.
THEOREM BotReportTypes == BotSpec => []ReporterTypeOK
<1>1. RP!ReporterInv => ReporterTypeOK
  BY DEF RP!ReporterInv, RP!ReporterTypeOK, ReporterTypeOK, R!ReporterTypeOK,
     RP!Reports, R!Reports, RP!Tags, R!Tags, RP!NoReport, R!NoReport
<1> QED BY <1>1, ReporterInBot, PTL

\* Every report of main is in one place, whatever became of main, and each
\* stopped thread has exactly one in doubt.
THEOREM BotReportsAccounted == BotSpec => []ReportsAccounted
<1>1. RP!ReporterInv => RP!ReportsAccounted
  BY RP!AccountedMeans, MaxTagsIsNat
<1>2. RP!ReportsAccounted => ReportsAccounted
  <2>1. /\ RP!Made = R!Made /\ RP!Queued = R!Queued
        /\ RP!InHand = R!InHand /\ RP!InDoubt = R!InDoubt
    BY DEF RP!Made, RP!Queued, RP!InHand, RP!InDoubt, RP!Opportunity, RP!Sent, RP!NoReport,
       R!Made, R!Queued, R!InHand, R!InDoubt, R!Opportunity, R!Sent, R!NoReport
  <2>2. \A S : RP!Cardinality(S) = R!Cardinality(S)
    BY DEF RP!Cardinality, R!Cardinality
  <2> QED BY <2>1, <2>2 DEF RP!ReportsAccounted, ReportsAccounted, R!ReportsAccounted
<1> QED BY <1>1, <1>2, ReporterInBot, PTL

\* In the bot no event is a row while its opportunity waits in a queue.
THEOREM BotEventsOvertake == BotSpec => []OvertakesOnlyInHand
<1>1. RP!ReporterInv => RP!OvertakesOnlyInHand
  BY RP!OvertakesMeans, MaxTagsIsNat
<1>2. RP!OvertakesOnlyInHand => OvertakesOnlyInHand
  BY DEF RP!OvertakesOnlyInHand, RP!Tags, R!Tags, RP!InHand, RP!InDoubt, RP!Opportunity, RP!Sent,
     RP!NoReport, OvertakesOnlyInHand, R!OvertakesOnlyInHand, R!InHand, R!InDoubt,
     R!Opportunity, R!Sent, R!NoReport
<1> QED BY <1>1, <1>2, ReporterInBot, PTL
=============================================================================
