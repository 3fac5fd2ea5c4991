--------------------------- MODULE MarketDataProofs ---------------------------
(***************************************************************************)
(* The way of the quotes, for any markets, queues and delays.  What the    *)
(* properties rest on is the order: of each market, what is published is   *)
(* older than what is on the wire, and newer than main's book.             *)
(***************************************************************************)
EXTENDS MarketData, TLAPS

LEMMA QueueLemma ==
  ASSUME NEW S, NEW q \in Seq(S)
  PROVE  /\ Len(q) \in Nat
         /\ q # <<>> => /\ Len(q) > 0
                        /\ Head(q) \in S /\ Head(q) = q[1]
                        /\ Tail(q) \in Seq(S) /\ Len(Tail(q)) = Len(q) - 1
                        /\ \A i \in 1 .. Len(q) - 1 : Tail(q)[i] = q[i + 1]
         /\ \A x \in S : /\ Append(q, x) \in Seq(S)
                         /\ Len(Append(q, x)) = Len(q) + 1
                         /\ \A i \in 1 .. Len(q) : Append(q, x)[i] = q[i]
                         /\ Append(q, x)[Len(q) + 1] = x
  OBVIOUS

LEMMA RangeOfTail ==
  ASSUME NEW S, NEW q \in Seq(S), q # <<>>
  PROVE  Range(q) = {Head(q)} \cup Range(Tail(q))
<1>1. /\ Len(q) \in Nat /\ Len(q) > 0 /\ Head(q) = q[1]
      /\ Tail(q) \in Seq(S) /\ Len(Tail(q)) = Len(q) - 1
      /\ \A i \in 1 .. Len(q) - 1 : Tail(q)[i] = q[i + 1]
  BY QueueLemma
<1>2. DOMAIN q = 1 .. Len(q) /\ DOMAIN Tail(q) = 1 .. Len(q) - 1
  BY <1>1
<1>3. ASSUME NEW x \in Range(q)
      PROVE  x \in {Head(q)} \cup Range(Tail(q))
  <2>1. PICK i \in 1 .. Len(q) : q[i] = x
    BY <1>2 DEF Range
  <2>2. CASE i = 1
    BY <1>1, <2>1, <2>2
  <2>3. CASE i # 1
    <3>1. i - 1 \in 1 .. Len(q) - 1 /\ Tail(q)[i - 1] = x
      BY <1>1, <2>1, <2>3
    <3> QED BY <1>2, <3>1 DEF Range
  <2> QED BY <2>2, <2>3
<1>4. ASSUME NEW x \in {Head(q)} \cup Range(Tail(q))
      PROVE  x \in Range(q)
  <2>1. CASE x = Head(q)
    BY <1>1, <1>2, <2>1 DEF Range
  <2>2. CASE x \in Range(Tail(q))
    <3>1. PICK i \in 1 .. Len(q) - 1 : Tail(q)[i] = x
      BY <1>2, <2>2 DEF Range
    <3>2. i + 1 \in 1 .. Len(q) /\ q[i + 1] = x
      BY <1>1, <3>1
    <3> QED BY <1>2, <3>2 DEF Range
  <2> QED BY <2>1, <2>2
<1> QED BY <1>3, <1>4

LEMMA RangeOfAppend ==
  ASSUME NEW S, NEW q \in Seq(S), NEW x \in S
  PROVE  Range(Append(q, x)) = Range(q) \cup {x}
<1>1. /\ Len(q) \in Nat
      /\ Append(q, x) \in Seq(S) /\ Len(Append(q, x)) = Len(q) + 1
      /\ \A i \in 1 .. Len(q) : Append(q, x)[i] = q[i]
      /\ Append(q, x)[Len(q) + 1] = x
  BY QueueLemma
<1>2. DOMAIN q = 1 .. Len(q) /\ DOMAIN Append(q, x) = 1 .. Len(q) + 1
  BY <1>1
<1> HIDE DEF Range
<1>3. Range(q) = {q[i] : i \in 1 .. Len(q)}
  BY <1>2 DEF Range
<1>4. Range(Append(q, x)) = {Append(q, x)[i] : i \in 1 .. Len(q) + 1}
  BY <1>2 DEF Range
<1>5. 1 .. Len(q) + 1 = 1 .. Len(q) \cup {Len(q) + 1}
  BY <1>1
<1> QED BY <1>1, <1>3, <1>4, <1>5

-----------------------------------------------------------------------------
\* One market's messages are in the order they were made.
InOrder(q) == \A i, j \in 1 .. Len(q) :
                i < j /\ q[i].market = q[j].market /\ q[i].market \in Markets
                  => q[i].at < q[j].at

Older(msg, msgs) == \A other \in msgs :
                      other.market = msg.market /\ msg.market \in Markets
                        => msg.at < other.at

NewerThanBook(msgs) == \A msg \in msgs : msg.market \in Markets =>
                         /\ msg.at \in made[msg.market]
                         /\ book[msg.market].quoted < msg.at

OrderInv == /\ InOrder(pipe) /\ InOrder(wire)
            /\ \A msg \in Range(pipe) : Older(msg, Range(wire))
            /\ NewerThanBook(Range(pipe)) /\ NewerThanBook(Range(wire))
            /\ \A msg \in UnderWay : msg.at <= now
            /\ \A m \in Markets : /\ \A t \in made[m] : t <= now
                                  /\ book[m].quoted \in made[m] \cup {0}

\* A message that is taken off is older than those that stay.
LEMMA HeadIsOldest ==
  ASSUME NEW q \in Seq(Message), q # <<>>, InOrder(q)
  PROVE  InOrder(Tail(q)) /\ Older(Head(q), Range(Tail(q)))
<1>1. /\ Len(q) \in Nat /\ Len(q) > 0 /\ Head(q) = q[1]
      /\ Tail(q) \in Seq(Message) /\ Len(Tail(q)) = Len(q) - 1
      /\ \A i \in 1 .. Len(q) - 1 : Tail(q)[i] = q[i + 1]
  BY QueueLemma
<1>2. InOrder(Tail(q))
  <2> SUFFICES ASSUME NEW i \in 1 .. Len(q) - 1, NEW j \in 1 .. Len(q) - 1, i < j,
                      Tail(q)[i].market = Tail(q)[j].market, Tail(q)[i].market \in Markets
               PROVE  Tail(q)[i].at < Tail(q)[j].at
    BY <1>1 DEF InOrder
  <2>1. i + 1 \in 1 .. Len(q) /\ j + 1 \in 1 .. Len(q) /\ i + 1 < j + 1
    BY <1>1
  <2>2. Tail(q)[i] = q[i + 1] /\ Tail(q)[j] = q[j + 1]
    BY <1>1
  <2> QED BY <2>1, <2>2 DEF InOrder
<1>3. Older(Head(q), Range(Tail(q)))
  <2> SUFFICES ASSUME NEW i \in DOMAIN Tail(q),
                      Tail(q)[i].market = Head(q).market, Head(q).market \in Markets
               PROVE  Head(q).at < Tail(q)[i].at
    BY DEF Older, Range
  <2>1. i \in 1 .. Len(q) - 1
    BY <1>1
  <2>2. 1 \in 1 .. Len(q) /\ i + 1 \in 1 .. Len(q) /\ 1 < i + 1
    BY <1>1, <2>1
  <2> QED BY <1>1, <2>1, <2>2 DEF InOrder
<1> QED BY <1>2, <1>3

LEMMA AppendInOrder ==
  ASSUME NEW q \in Seq(Message), NEW x \in Message, InOrder(q),
         \A msg \in Range(q) : Older(msg, {x})
  PROVE  InOrder(Append(q, x))
<1>1. /\ Len(q) \in Nat
      /\ Append(q, x) \in Seq(Message) /\ Len(Append(q, x)) = Len(q) + 1
      /\ \A i \in 1 .. Len(q) : Append(q, x)[i] = q[i]
      /\ Append(q, x)[Len(q) + 1] = x
      /\ DOMAIN q = 1 .. Len(q)
  BY QueueLemma
<1> SUFFICES ASSUME NEW i \in 1 .. Len(q) + 1, NEW j \in 1 .. Len(q) + 1, i < j,
                    Append(q, x)[i].market = Append(q, x)[j].market,
                    Append(q, x)[i].market \in Markets
             PROVE  Append(q, x)[i].at < Append(q, x)[j].at
  BY <1>1 DEF InOrder
<1>2. i \in 1 .. Len(q) /\ Append(q, x)[i] = q[i] /\ q[i] \in Range(q)
  BY <1>1 DEF Range
<1>3. CASE j \in 1 .. Len(q)
  BY <1>1, <1>2, <1>3 DEF InOrder
<1>4. CASE j = Len(q) + 1
  BY <1>1, <1>2, <1>4 DEF Older
<1> QED BY <1>1, <1>3, <1>4

-----------------------------------------------------------------------------
(* Types.                                                                  *)

LEMMA TypeInit == DataInit => DataTypeOK
<1> SUFFICES ASSUME DataInit PROVE DataTypeOK
  OBVIOUS
<1>1. 1 \in Times /\ HighWater \in Nat /\ MaxWire \in Nat
  BY MarketDataInputs DEF Times
<1>2. <<>> \in Seq(Message) /\ Len(<<>>) = 0
  OBVIOUS
<1>3. /\ wire \in Seq(Message) /\ Len(wire) <= MaxWire
      /\ pipe \in Seq(Message) /\ Len(pipe) <= HighWater
  BY <1>1, <1>2 DEF DataInit
<1>4. now \in Times
  BY <1>1 DEF DataInit
<1> QED BY <1>3, <1>4 DEF DataInit, DataTypeOK

\* The message that has arrived, and what is left.
LEMMA ArrivedMessage ==
  ASSUME DataTypeOK, PushUpdate
  PROVE  /\ wire # <<>> /\ Head(wire) \in Message
         /\ wire' \in Seq(Message) /\ Len(wire') < Len(wire)
         /\ Range(wire) = {Head(wire)} \cup Range(wire')
<1>1. wire # <<>> /\ wire' = Tail(wire) /\ wire \in Seq(Message)
  BY DEF PushUpdate, Arrived, DataTypeOK
<1>2. Len(wire) \in Nat /\ Head(wire) \in Message /\ Tail(wire) \in Seq(Message)
      /\ Len(Tail(wire)) = Len(wire) - 1
  BY <1>1, QueueLemma
<1>3. Range(wire) = {Head(wire)} \cup Range(Tail(wire))
  BY <1>1, RangeOfTail
<1> QED BY <1>1, <1>2, <1>3

LEMMA ReceivedMessage ==
  ASSUME DataTypeOK, Receive
  PROVE  /\ Head(pipe) \in Message
         /\ pipe' \in Seq(Message) /\ Len(pipe') < Len(pipe)
         /\ Range(pipe) = {Head(pipe)} \cup Range(pipe')
<1>1. pipe # <<>> /\ pipe' = Tail(pipe) /\ pipe \in Seq(Message)
  BY DEF Receive, DataTypeOK
<1>2. Len(pipe) \in Nat /\ Head(pipe) \in Message /\ Tail(pipe) \in Seq(Message)
      /\ Len(Tail(pipe)) = Len(pipe) - 1
  BY <1>1, QueueLemma
<1>3. Range(pipe) = {Head(pipe)} \cup Range(Tail(pipe))
  BY <1>1, RangeOfTail
<1> QED BY <1>1, <1>2, <1>3

\* What a quote adds.
LEMMA QuotedMessage ==
  ASSUME DataTypeOK, NEW m \in Streams, Quote(m)
  PROVE  /\ [market |-> m, at |-> now] \in Message
         /\ wire' \in Seq(Message) /\ Len(wire') <= MaxWire
         /\ Range(wire') = Range(wire) \cup {[market |-> m, at |-> now]}
<1> DEFINE msg == [market |-> m, at |-> now]
<1>1. msg \in Message
  BY DEF DataTypeOK, Message
<1>2. wire \in Seq(Message) /\ wire' = Append(wire, msg) /\ Len(wire) < MaxWire
  BY DEF Quote, DataTypeOK
<1> HIDE DEF msg
<1>3. /\ Len(wire) \in Nat /\ wire' \in Seq(Message) /\ Len(wire') = Len(wire) + 1
      /\ Range(wire') = Range(wire) \cup {msg}
  BY <1>1, <1>2, QueueLemma, RangeOfAppend
<1> QED BY <1>1, <1>2, <1>3, MarketDataInputs DEF msg

\* What the wire keeps when the connection ends.
LEMMA KeptMessages ==
  ASSUME DataTypeOK, Disconnect
  PROVE  /\ wire' \in Seq(Message) /\ Len(wire') <= Len(wire)
         /\ \A i \in 1 .. Len(wire') : wire'[i] = wire[i]
         /\ Range(wire') \subseteq Range(wire)
         /\ lost' \in [Markets -> SUBSET Times]
         /\ \A m \in Markets : \A t \in made[m] :
              t \in lost'[m] <=> \/ t \in lost[m]
                                 \/ [market |-> m, at |-> t] \in Range(wire) \ Range(wire')
<1>1. PICK n \in 0 .. Len(wire) : wire' = SubSeq(wire, 1, n)
  BY DEF Disconnect
<1>2. wire \in Seq(Message) /\ Len(wire) \in Nat
  BY QueueLemma DEF DataTypeOK
<1>3. /\ wire' \in Seq(Message) /\ Len(wire') = n
      /\ \A i \in 1 .. n : wire'[i] = wire[i]
  BY <1>1, <1>2
<1>4. /\ Len(wire') <= Len(wire)
      /\ \A i \in 1 .. Len(wire') : wire'[i] = wire[i]
  BY <1>1, <1>2, <1>3
<1>5. Range(wire') \subseteq Range(wire)
  <2>1. DOMAIN wire' = 1 .. Len(wire') /\ DOMAIN wire = 1 .. Len(wire)
    BY <1>2, <1>3
  <2>2. 1 .. Len(wire') \subseteq 1 .. Len(wire)
    BY <1>1, <1>2, <1>3
  <2> QED BY <1>4, <2>1, <2>2 DEF Range
<1>6. /\ lost' = [m \in Markets |-> lost[m] \cup
                    {t \in made[m] : [market |-> m, at |-> t] \in
                                       Range(wire) \ Range(wire')}]
      /\ lost \in [Markets -> SUBSET Times] /\ made \in [Markets -> SUBSET Times]
  BY DEF Disconnect, DataTypeOK
<1> QED BY <1>3, <1>4, <1>5, <1>6

\* What is sent, when the queue takes it.
LEMMA SentMessage ==
  ASSUME DataTypeOK, PushUpdate
  PROVE  \/ /\ Accepts /\ pipe' = Append(pipe, Head(wire)) /\ lost' = lost
            /\ pipe' \in Seq(Message) /\ Len(pipe') <= HighWater
            /\ Range(pipe') = Range(pipe) \cup {Head(wire)}
         \/ pipe' = pipe /\ lost' = Note(lost, Head(wire).market, Head(wire).at)
<1>1. pipe \in Seq(Message) /\ Head(wire) \in Message
  BY ArrivedMessage DEF DataTypeOK
<1>2. CASE Accepts
  <2>1. pipe' = Append(pipe, Head(wire)) /\ lost' = lost /\ Len(pipe) < HighWater
    BY <1>2 DEF PushUpdate, Send, Accepts
  <2>2. /\ Len(pipe) \in Nat /\ pipe' \in Seq(Message) /\ Len(pipe') = Len(pipe) + 1
        /\ Range(pipe') = Range(pipe) \cup {Head(wire)}
    BY <1>1, <2>1, QueueLemma, RangeOfAppend
  <2> QED BY <1>2, <2>1, <2>2, MarketDataInputs
<1>3. CASE ~Accepts
  BY <1>3 DEF PushUpdate, Drop
<1> QED BY <1>2, <1>3

LEMMA NoteType ==
  ASSUME NEW history \in [Markets -> SUBSET Times], NEW m, NEW t \in Times
  PROVE  Note(history, m, t) \in [Markets -> SUBSET Times]
BY DEF Note

\* What becomes of main's book when it takes a message of a configured market.
LEMMA BookTaken ==
  ASSUME DataTypeOK, TakeUpdate
  PROVE  /\ Head(pipe) \in Message /\ Head(pipe).market \in Markets
         /\ Head(pipe).at \in Times /\ now \in Times
         /\ book' \in [Markets -> [quoted : Nat, received : Nat]]
         /\ book'[Head(pipe).market] = [quoted |-> Head(pipe).at, received |-> now]
         /\ \A m \in Markets : m # Head(pipe).market => book'[m] = book[m]
         /\ maxDelay' \in Nat /\ maxDelay' >= maxDelay
         /\ now - Head(pipe).at <= maxDelay'
<1>1. Head(pipe) \in Message /\ Head(pipe).market \in Markets
  BY ReceivedMessage DEF TakeUpdate
<1>2. Head(pipe).at \in Times /\ now \in Times /\ Times \subseteq Nat
  BY <1>1, MarketDataInputs DEF Message, Times, DataTypeOK
<1>3. book' = [book EXCEPT ![Head(pipe).market] = [quoted |-> Head(pipe).at, received |-> now]]
      /\ book \in [Markets -> [quoted : Nat, received : Nat]]
  BY DEF TakeUpdate, SetBook, DataTypeOK
<1>4. maxDelay' = IF now - Head(pipe).at > maxDelay THEN now - Head(pipe).at ELSE maxDelay
  BY DEF TakeUpdate
<1>5. maxDelay' \in Nat /\ maxDelay' >= maxDelay /\ now - Head(pipe).at <= maxDelay'
  <2>1. now \in Nat /\ Head(pipe).at \in Nat /\ maxDelay \in Nat
    BY <1>2 DEF DataTypeOK
  <2> QED BY <1>4, <2>1
<1> QED BY <1>1, <1>2, <1>3, <1>5

LEMMA TypeStep ==
  ASSUME DataTypeOK, [DataNext]_dataVars
  PROVE  DataTypeOK'
<1> USE DEF DataTypeOK, feedVars, mainVars, dataVars
<1>1. CASE Tick
  BY <1>1, MarketDataInputs DEF Tick, Times
<1>2. ASSUME NEW m \in Streams, Quote(m) PROVE DataTypeOK'
  <2>1. made' \in [Markets -> SUBSET Times]
    BY <1>2, NoteType DEF Quote
  <2>2. wire' \in Seq(Message) /\ Len(wire') <= MaxWire
    BY <1>2, QuotedMessage
  <2> QED BY <1>2, <2>1, <2>2 DEF Quote
<1>3. CASE Subscribe
  BY <1>3 DEF Subscribe
<1>13. CASE Disconnect
  <2>1. Len(wire') <= MaxWire
    <3>1. Len(wire) \in Nat /\ Len(wire') \in Nat
      BY <1>13, KeptMessages, QueueLemma
    <3> QED BY <1>13, <3>1, KeptMessages, MarketDataInputs
  <2> QED BY <1>13, <2>1, KeptMessages DEF Disconnect
<1>4. CASE PushUpdate
  <2>1. wire' \in Seq(Message) /\ Len(wire') <= MaxWire /\ Head(wire).at \in Times
    <3>1. Len(wire) \in Nat /\ Len(wire') \in Nat
      BY <1>4, ArrivedMessage, QueueLemma
    <3> QED BY <1>4, <3>1, ArrivedMessage, MarketDataInputs DEF Message
  <2>2. pipe' \in Seq(Message) /\ Len(pipe') <= HighWater
    BY <1>4, SentMessage
  <2>3. lost' \in [Markets -> SUBSET Times]
    BY <1>4, <2>1, SentMessage, NoteType
  <2> QED BY <1>4, <2>1, <2>2, <2>3 DEF PushUpdate
<1>5. ASSUME Receive
      PROVE  /\ pipe' \in Seq(Message) /\ Len(pipe') <= HighWater
             /\ UNCHANGED <<mode, now, link, subscribed, made, lost, wire>>
  <2>1. Len(pipe) \in Nat /\ Len(pipe') \in Nat
    BY <1>5, ReceivedMessage, QueueLemma
  <2> QED BY <1>5, <2>1, ReceivedMessage, MarketDataInputs DEF Receive
<1>9. CASE SkipUnknown
  BY <1>5, <1>9 DEF SkipUnknown
<1>10. ASSUME TakeUpdate
       PROVE  /\ book' \in [Markets -> [quoted : Nat, received : Nat]]
              /\ maxDelay' \in Nat /\ Head(pipe).at \in Nat
  BY <1>10, BookTaken, MarketDataInputs DEF Times
<1>11. CASE Update
  BY <1>5, <1>10, <1>11 DEF Update, TakeUpdate
<1>12. CASE UpdateWithoutAsk
  BY <1>5, <1>10, <1>12 DEF UpdateWithoutAsk, TakeUpdate
<1>6. CASE NothingSent
  BY <1>6 DEF NothingSent
<1>7. ASSUME NEW path \in SUBSET Markets, SendPath(path) PROVE DataTypeOK'
  BY <1>7 DEF SendPath
<1>8. CASE UNCHANGED dataVars
  BY <1>8
<1> QED BY <1>1, <1>2, <1>3, <1>4, <1>6, <1>7, <1>8, <1>9, <1>11, <1>12, <1>13
        DEF DataNext, FeedNext, MainNext

-----------------------------------------------------------------------------
(* The order of the messages.                                              *)

LEMMA OrderInit == DataInit => OrderInv
<1> SUFFICES ASSUME DataInit PROVE OrderInv
  OBVIOUS
<1>1. wire = <<>> /\ pipe = <<>> /\ Range(<<>>) = {} /\ Len(<<>>) = 0
  BY DEF DataInit, Range
<1>2. InOrder(<<>>)
  BY <1>1 DEF InOrder
<1>3. \A m \in Markets : made[m] = {} /\ book[m].quoted = 0
  BY DEF DataInit
<1> QED BY <1>1, <1>2, <1>3 DEF OrderInv, UnderWay, NewerThanBook, Older

\* A new quote is newer than everything.
LEMMA OrderQuote ==
  ASSUME DataTypeOK, OrderInv, NEW m \in Streams, Quote(m)
  PROVE  OrderInv'
<1> DEFINE msg == [market |-> m, at |-> now]
<1>1. /\ msg \in Message /\ msg.market = m /\ msg.at = now
      /\ Range(wire') = Range(wire) \cup {msg}
      /\ wire' = Append(wire, msg) /\ wire \in Seq(Message)
  BY QuotedMessage DEF Quote, DataTypeOK
<1>2. /\ now \in Nat
      /\ UNCHANGED <<now, book, pipe>>
      /\ m \in Markets => now \notin made[m]
      /\ \A k \in Markets : made'[k] = IF k = m THEN made[k] \cup {now} ELSE made[k]
  BY MarketDataInputs DEF Quote, Note, DataTypeOK, Times, mainVars
<1> HIDE DEF msg
<1>3. \A k \in Markets : /\ \A t \in made[k] : t \in Nat /\ t <= now
                         /\ book[k].quoted \in Nat
                         /\ book[k].quoted \in made[k] \cup {0}
  BY MarketDataInputs DEF OrderInv, DataTypeOK, Times
<1>4. m \in Markets => /\ \A t \in made[m] : t < now
                       /\ book[m].quoted < now
  <2>1. now >= 1
    BY MarketDataInputs DEF DataTypeOK, Times
  <2> QED BY <1>2, <1>3, <2>1
<1>5. \A other \in UnderWay : other.market = m /\ m \in Markets => other.at < now
  BY <1>4 DEF OrderInv, NewerThanBook, UnderWay
<1>6. InOrder(wire')
  <2>1. \A other \in Range(wire) : Older(other, {msg})
    BY <1>1, <1>5 DEF Older, UnderWay
  <2> QED BY <1>1, <2>1, AppendInOrder DEF OrderInv
<1>7. \A other \in Range(pipe) : Older(other, Range(wire'))
  BY <1>1, <1>5 DEF Older, UnderWay, OrderInv
<1>8. ASSUME NEW other \in Range(pipe) \cup Range(wire'), other.market \in Markets
      PROVE  other.at \in made'[other.market] /\ book[other.market].quoted < other.at
  <2>1. CASE other = msg
    BY <1>1, <1>2, <1>4, <1>8, <2>1
  <2>2. CASE other # msg
    BY <1>1, <1>2, <1>8, <2>2 DEF OrderInv, NewerThanBook
  <2> QED BY <2>1, <2>2
<1>9. \A other \in Range(pipe) \cup Range(wire') : other.at <= now
  BY <1>1, <1>2 DEF OrderInv, UnderWay
<1>10. ASSUME NEW k \in Markets
       PROVE  /\ \A t \in made'[k] : t <= now
              /\ book[k].quoted \in made'[k] \cup {0}
  <2>1. made'[k] \subseteq made[k] \cup {now} /\ made[k] \subseteq made'[k]
    BY <1>2
  <2>2. now <= now
    BY <1>2
  <2> QED BY <1>3, <2>1, <2>2
<1>11. InOrder(pipe)
  BY DEF OrderInv
<1> QED BY <1>2, <1>6, <1>7, <1>8, <1>9, <1>10, <1>11 DEF OrderInv, UnderWay, NewerThanBook

\* The message that arrived is sent after all that were sent before.
LEMMA OrderPushUpdate ==
  ASSUME DataTypeOK, OrderInv, PushUpdate
  PROVE  OrderInv'
<1> DEFINE msg == Head(wire)
<1>1. /\ msg \in Message /\ wire # <<>> /\ wire' = Tail(wire) /\ wire \in Seq(Message)
      /\ Range(wire) = {msg} \cup Range(wire') /\ pipe \in Seq(Message)
  BY ArrivedMessage DEF PushUpdate, DataTypeOK
<1>2. UNCHANGED <<now, book, made>>
  BY DEF PushUpdate, mainVars
<1>3. InOrder(wire') /\ Older(msg, Range(wire'))
  BY <1>1, HeadIsOldest DEF OrderInv
<1>4. Range(pipe') \subseteq Range(pipe) \cup {msg} /\ InOrder(pipe')
  <2>1. CASE pipe' = Append(pipe, msg) /\ Range(pipe') = Range(pipe) \cup {msg}
    <3>1. \A other \in Range(pipe) : Older(other, {msg})
      BY <1>1 DEF OrderInv, Older
    <3> HIDE DEF msg
    <3> QED BY <1>1, <2>1, <3>1, AppendInOrder DEF OrderInv
  <2>2. CASE pipe' = pipe
    BY <2>2 DEF OrderInv
  <2> QED BY <2>1, <2>2, SentMessage
<1> HIDE DEF msg
<1>5. \A other \in Range(pipe') : Older(other, Range(wire'))
  BY <1>1, <1>3, <1>4 DEF OrderInv, Older
<1>6. (NewerThanBook(Range(pipe)) /\ NewerThanBook(Range(wire)))'
  BY <1>1, <1>2, <1>4 DEF OrderInv, NewerThanBook
<1>7. \A other \in UnderWay' : other.at <= now'
  BY <1>1, <1>2, <1>4 DEF OrderInv, UnderWay
<1>8. (\A m \in Markets : /\ \A t \in made[m] : t <= now
                          /\ book[m].quoted \in made[m] \cup {0})'
  BY <1>2 DEF OrderInv
<1> QED BY <1>3, <1>4, <1>5, <1>6, <1>7, <1>8 DEF OrderInv, NewerThanBook

\* A wire that loses its last messages stays in order.
LEMMA OrderDisconnect ==
  ASSUME DataTypeOK, OrderInv, Disconnect
  PROVE  OrderInv'
<1>1. UNCHANGED <<now, book, made, pipe>>
  BY DEF Disconnect, mainVars
<1>2. /\ Range(wire') \subseteq Range(wire)
      /\ Len(wire) \in Nat /\ Len(wire') \in Nat /\ Len(wire') <= Len(wire)
      /\ \A i \in 1 .. Len(wire') : wire'[i] = wire[i]
  BY KeptMessages, QueueLemma DEF DataTypeOK
<1>3. InOrder(wire')
  <2>1. \A i \in 1 .. Len(wire') : i \in 1 .. Len(wire)
    BY <1>2
  <2> QED BY <1>2, <2>1 DEF OrderInv, InOrder
<1> QED BY <1>1, <1>2, <1>3 DEF OrderInv, Older, NewerThanBook, UnderWay

\* What main takes is the oldest of what is under way.
LEMMA OrderReceive ==
  ASSUME DataTypeOK, OrderInv, Receive, TakeUpdate \/ UNCHANGED book
  PROVE  OrderInv'
<1> DEFINE msg == Head(pipe)
<1>1. /\ msg \in Message /\ pipe # <<>> /\ pipe' = Tail(pipe) /\ pipe \in Seq(Message)
      /\ Range(pipe) = {msg} \cup Range(pipe')
  BY ReceivedMessage DEF Receive, DataTypeOK
<1>2. UNCHANGED <<now, made, wire>>
  BY DEF Receive
<1>3. InOrder(pipe') /\ Older(msg, Range(pipe')) /\ Older(msg, Range(wire))
  BY <1>1, HeadIsOldest DEF OrderInv
<1>4. \A m \in Markets : \/ book'[m].quoted = book[m].quoted
                         \/ msg.market = m /\ book'[m].quoted = msg.at
  BY BookTaken
<1> HIDE DEF msg
<1>5. ASSUME NEW other \in Range(pipe') \cup Range(wire), other.market \in Markets
      PROVE  other.at \in made[other.market] /\ book'[other.market].quoted < other.at
  <2>1. other.at \in made[other.market] /\ book[other.market].quoted < other.at
    BY <1>1, <1>5 DEF OrderInv, NewerThanBook
  <2>2. msg.market = other.market => msg.at < other.at
    BY <1>3, <1>5 DEF Older
  <2> QED BY <1>4, <1>5, <2>1, <2>2
<1>6. \A m \in Markets : /\ \A t \in made[m] : t <= now
                         /\ book'[m].quoted \in made[m] \cup {0}
  BY <1>1, <1>4 DEF OrderInv, NewerThanBook
<1>7. \A other \in Range(pipe') \cup Range(wire) : other.at <= now
  BY <1>1 DEF OrderInv, UnderWay
<1>8. InOrder(wire) /\ \A other \in Range(pipe') : Older(other, Range(wire))
  BY <1>1 DEF OrderInv
<1> QED BY <1>2, <1>3, <1>5, <1>6, <1>7, <1>8 DEF OrderInv, NewerThanBook, UnderWay

LEMMA OrderStep ==
  ASSUME DataTypeOK, OrderInv, [DataNext]_dataVars
  PROVE  OrderInv'
<1>1. CASE Tick
  <2>1. now' >= now /\ UNCHANGED <<book, made, wire, pipe>> /\ now \in Nat /\ now' \in Nat
    BY <1>1, MarketDataInputs DEF Tick, feedVars, mainVars, DataTypeOK, Times
  <2>2. \A msg \in UnderWay : msg.at \in Nat
    <3>1. \A q \in Seq(Message) : \A msg \in Range(q) : msg \in Message
      BY DEF Range
    <3>2. \A msg \in Message : msg.at \in Nat
      BY MarketDataInputs DEF Message, Times
    <3> QED BY <3>1, <3>2 DEF UnderWay, DataTypeOK
  <2>3. \A m \in Markets : \A t \in made[m] : t \in Nat
    BY MarketDataInputs DEF DataTypeOK, Times
  <2>4. (\A msg \in UnderWay : msg.at <= now)'
    BY <2>1, <2>2 DEF OrderInv, UnderWay
  <2>5. (\A m \in Markets : /\ \A t \in made[m] : t <= now
                            /\ book[m].quoted \in made[m] \cup {0})'
    BY <2>1, <2>3 DEF OrderInv
  <2> QED BY <2>1, <2>4, <2>5 DEF OrderInv, NewerThanBook
<1>2. CASE \E m \in Streams : Quote(m)
  BY <1>2, OrderQuote
<1>3. CASE PushUpdate
  BY <1>3, OrderPushUpdate
<1>4. CASE SkipUnknown \/ Update \/ UpdateWithoutAsk
  BY <1>4, OrderReceive DEF SkipUnknown, Update, UpdateWithoutAsk, TakeUpdate
<1>5. CASE UNCHANGED <<now, book, made, wire, pipe>>
  BY <1>5 DEF OrderInv, UnderWay, NewerThanBook
<1>6. CASE Disconnect
  BY <1>6, OrderDisconnect
<1> QED
  BY <1>1, <1>2, <1>3, <1>4, <1>5, <1>6
  DEF DataNext, FeedNext, MainNext, Subscribe, NothingSent, SendPath,
      feedVars, mainVars, dataVars

-----------------------------------------------------------------------------
(* What is under way, and what became of the rest.                         *)

LEMMA LagInit == DataInit => LagIsExplained
BY DEF DataInit, LagIsExplained

LEMMA LagQuote ==
  ASSUME DataTypeOK, OrderInv, LagIsExplained, NEW m \in Streams, Quote(m)
  PROVE  LagIsExplained'
<1> DEFINE msg == [market |-> m, at |-> now]
<1>1. Range(wire') = Range(wire) \cup {msg}
  BY QuotedMessage
<1>2. /\ UNCHANGED <<book, pipe, lost>>
      /\ \A k \in Markets : made'[k] = IF k = m THEN made[k] \cup {now} ELSE made[k]
  BY DEF Quote, Note, mainVars
<1>3. ASSUME NEW k \in Markets, NEW t \in made'[k], t > book[k].quoted
      PROVE  t \in lost[k] \/ [market |-> k, at |-> t] \in Range(wire') \cup Range(pipe)
  <2>1. CASE t \in made[k]
    BY <1>1, <1>3, <2>1 DEF LagIsExplained, UnderWay
  <2>2. CASE t \notin made[k]
    BY <1>1, <1>2, <1>3, <2>2
  <2> QED BY <2>1, <2>2
<1> QED BY <1>2, <1>3 DEF LagIsExplained, UnderWay

LEMMA LagPushUpdate ==
  ASSUME DataTypeOK, LagIsExplained, PushUpdate
  PROVE  LagIsExplained'
<1> DEFINE msg == Head(wire)
<1>1. msg \in Message /\ Range(wire) = {msg} \cup Range(wire')
  BY ArrivedMessage
<1>2. UNCHANGED <<book, made>>
  BY DEF PushUpdate, mainVars
<1>3. \/ Range(pipe') = Range(pipe) \cup {msg} /\ lost' = lost
      \/ pipe' = pipe /\ lost' = Note(lost, msg.market, msg.at)
  BY SentMessage
<1> HIDE DEF msg
<1>4. ASSUME NEW m \in Markets, NEW t \in made[m], t > book[m].quoted
      PROVE  t \in lost'[m] \/ [market |-> m, at |-> t] \in Range(wire') \cup Range(pipe')
  <2>1. t \in lost[m] \/ [market |-> m, at |-> t] \in Range(wire) \cup Range(pipe)
    BY <1>4 DEF LagIsExplained, UnderWay
  <2>2. lost[m] \subseteq lost'[m] /\ Range(pipe) \subseteq Range(pipe')
    BY <1>3 DEF Note
  <2>3. CASE [market |-> m, at |-> t] = msg
    <3>1. msg.market = m /\ msg.at = t
      BY <2>3
    <3>2. CASE Range(pipe') = Range(pipe) \cup {msg}
      BY <2>3, <3>2
    <3>3. CASE lost' = Note(lost, msg.market, msg.at)
      BY <3>1, <3>3 DEF Note
    <3> QED BY <1>3, <3>2, <3>3
  <2> QED BY <1>1, <2>1, <2>2, <2>3
<1> QED BY <1>2, <1>4 DEF LagIsExplained, UnderWay

\* What the end of the connection takes off the wire is lost.
LEMMA LagDisconnect ==
  ASSUME DataTypeOK, LagIsExplained, Disconnect
  PROVE  LagIsExplained'
<1>1. UNCHANGED <<book, made, pipe>>
  BY DEF Disconnect, mainVars
<1>2. \A m \in Markets : \A t \in made[m] :
        t \in lost'[m] <=> \/ t \in lost[m]
                           \/ [market |-> m, at |-> t] \in Range(wire) \ Range(wire')
  BY KeptMessages
<1> QED BY <1>1, <1>2 DEF LagIsExplained, UnderWay

\* Only what main's book now shows leaves the pipe.
LEMMA LagReceive ==
  ASSUME DataTypeOK, OrderInv, LagIsExplained, Receive,
         TakeUpdate \/ (Head(pipe).market \notin Markets /\ UNCHANGED book)
  PROVE  LagIsExplained'
<1> DEFINE msg == Head(pipe)
<1>1. msg \in Message /\ Range(pipe) = {msg} \cup Range(pipe')
  BY ReceivedMessage
<1>2. UNCHANGED <<made, lost, wire>>
  BY DEF Receive
<1>3. \A m \in Markets : IF msg.market = m THEN book'[m].quoted = msg.at
                                           ELSE book'[m].quoted = book[m].quoted
  BY BookTaken
<1>4. msg.market \in Markets => book[msg.market].quoted < msg.at
  BY <1>1 DEF OrderInv, NewerThanBook
<1>5. book \in [Markets -> [quoted : Nat, received : Nat]]
  BY DEF DataTypeOK
<1> HIDE DEF msg
<1>6. ASSUME NEW m \in Markets, NEW t \in made[m], t > book'[m].quoted
      PROVE  t \in lost[m] \/ [market |-> m, at |-> t] \in Range(wire) \cup Range(pipe')
  <2>1. t > book[m].quoted /\ [market |-> m, at |-> t] # msg
    <3>1. CASE msg.market = m
      <4>1. t \in Nat /\ msg.at \in Nat /\ book[m].quoted \in Nat
        BY <1>1, <1>5, MarketDataInputs DEF DataTypeOK, Message, Times
      <4>2. book'[m].quoted = msg.at /\ book[m].quoted < msg.at
        BY <1>3, <1>4, <3>1
      <4> QED BY <1>6, <4>1, <4>2
    <3>2. CASE msg.market # m
      BY <1>3, <1>6, <3>2
    <3> QED BY <3>1, <3>2
  <2> QED BY <1>1, <2>1 DEF LagIsExplained, UnderWay
<1> QED BY <1>2, <1>6 DEF LagIsExplained, UnderWay

LEMMA LagStep ==
  ASSUME DataTypeOK, OrderInv, LagIsExplained, [DataNext]_dataVars
  PROVE  LagIsExplained'
<1>1. CASE \E m \in Streams : Quote(m)
  BY <1>1, LagQuote
<1>2. CASE PushUpdate
  BY <1>2, LagPushUpdate
<1>3. CASE SkipUnknown \/ Update \/ UpdateWithoutAsk
  BY <1>3, LagReceive DEF SkipUnknown, Update, UpdateWithoutAsk, TakeUpdate
<1>4. CASE UNCHANGED <<book, made, lost, wire, pipe>>
  BY <1>4 DEF LagIsExplained, UnderWay
<1>5. CASE Disconnect
  BY <1>5, LagDisconnect
<1> QED
  BY <1>1, <1>2, <1>3, <1>4, <1>5
  DEF DataNext, FeedNext, MainNext, Tick, Subscribe, NothingSent, SendPath,
      feedVars, mainVars, dataVars

-----------------------------------------------------------------------------
(* The graph and the books.                                                *)

EdgesFollowBooks == \A m \in Markets : edge[m] = book[m].quoted

GraphInv == /\ pc # "dead" => EdgesFollowBooks
            /\ \A m \in Markets : book[m].received # 0 => book[m].quoted # 0
            /\ pc = "search" => Populated(book)

LEMMA GraphInit == DataInit => GraphInv
BY DEF DataInit, GraphInv, EdgesFollowBooks

LEMMA GraphStep ==
  ASSUME DataTypeOK, GraphInv, [DataNext]_dataVars
  PROVE  GraphInv'
<1>1. ASSUME TakeUpdate
      PROVE  \A m \in Markets : book'[m].received # 0 => book'[m].quoted # 0
  <2>1. Head(pipe).at # 0
    BY <1>1, BookTaken, MarketDataInputs DEF Times
  <2> QED BY <1>1, <2>1, BookTaken DEF GraphInv
<1>2. CASE Update
  <2>1. \A m \in Markets : edge'[m] = book'[m].quoted
    <3>1. /\ edge \in [Markets -> Nat]
          /\ edge' = [edge EXCEPT ![Head(pipe).market] = Head(pipe).at]
          /\ \A m \in Markets : edge[m] = book[m].quoted
      BY <1>2 DEF Update, TakeUpdate, Receive, GraphInv, EdgesFollowBooks, DataTypeOK
    <3>2. /\ book'[Head(pipe).market].quoted = Head(pipe).at
          /\ \A m \in Markets : m # Head(pipe).market => book'[m] = book[m]
      BY <1>2, BookTaken DEF Update
    <3> QED BY <3>1, <3>2
  <2>2. pc' = "search" => Populated(book')
    BY <1>2 DEF Update
  <2> QED BY <1>1, <1>2, <2>1, <2>2 DEF GraphInv, EdgesFollowBooks, Populated, Update
<1>3. CASE UpdateWithoutAsk
  BY <1>1, <1>3 DEF UpdateWithoutAsk, GraphInv
<1>4. CASE NothingSent \/ \E path \in SUBSET Markets \ {{}} : SendPath(path)
  BY <1>4 DEF NothingSent, SendPath, GraphInv, EdgesFollowBooks
<1>5. CASE UNCHANGED <<pc, book, edge>>
  BY <1>5 DEF GraphInv, EdgesFollowBooks, Populated
<1> QED
  BY <1>2, <1>3, <1>4, <1>5
  DEF DataNext, FeedNext, MainNext, SkipUnknown, Tick, Quote, Disconnect, Subscribe,
      PushUpdate, mainVars, dataVars

-----------------------------------------------------------------------------
(* How old the quotes of a path are.                                       *)

AgeInv == /\ \A m \in Markets : book[m].received - book[m].quoted <= maxDelay
          /\ QuoteAgeBounded

LEMMA AgeInit == DataInit => AgeInv
BY DEF DataInit, AgeInv, QuoteAgeBounded

LEMMA AgeStep ==
  ASSUME DataTypeOK, AgeInv, [DataNext]_dataVars
  PROVE  AgeInv'
<1>1. ASSUME TakeUpdate PROVE AgeInv'
  <2>1. accepted' = NoPath
    BY <1>1 DEF TakeUpdate, Receive
  <2>2. ASSUME NEW m \in Markets
        PROVE  book'[m].received - book'[m].quoted <= maxDelay'
    <3>1. CASE m = Head(pipe).market
      BY <1>1, <3>1, BookTaken
    <3>2. CASE m # Head(pipe).market
      <4>1. /\ book'[m] = book[m] /\ maxDelay' >= maxDelay
            /\ maxDelay \in Nat /\ maxDelay' \in Nat
            /\ book[m].received \in Nat /\ book[m].quoted \in Nat
        BY <1>1, <3>2, BookTaken DEF DataTypeOK
      <4>2. book[m].received - book[m].quoted <= maxDelay
        BY DEF AgeInv
      <4> QED BY <4>1, <4>2
    <3> QED BY <3>1, <3>2
  <2> QED BY <2>1, <2>2 DEF AgeInv, QuoteAgeBounded
<1>2. ASSUME NEW path \in SUBSET Markets, SendPath(path) PROVE AgeInv'
  <2>1. /\ accepted' = [time |-> now, quotes |-> [m \in path |-> book[m].quoted]]
        /\ UNCHANGED <<book, maxDelay>>
    BY <1>2 DEF SendPath
  <2>2. ASSUME NEW m \in path PROVE now - book[m].quoted <= StaleTimeout + maxDelay
    <3>1. /\ now \in Nat /\ maxDelay \in Nat /\ StaleTimeout \in Nat
          /\ book[m].received \in Nat /\ book[m].quoted \in Nat
      BY MarketDataInputs DEF DataTypeOK, Times
    <3>2. now - book[m].received <= StaleTimeout
      BY <1>2 DEF SendPath, Fresh
    <3>3. book[m].received - book[m].quoted <= maxDelay
      BY DEF AgeInv
    <3> QED BY <3>1, <3>2, <3>3
  <2>3. QuoteAgeBounded'
    BY <2>1, <2>2 DEF QuoteAgeBounded
  <2> QED BY <2>1, <2>3 DEF AgeInv
<1>3. CASE SkipUnknown
  BY <1>3 DEF SkipUnknown, Receive, AgeInv, QuoteAgeBounded
<1>4. CASE UNCHANGED <<book, maxDelay, accepted>>
  BY <1>4 DEF AgeInv, QuoteAgeBounded
<1> QED
  BY <1>1, <1>2, <1>3, <1>4
  DEF DataNext, FeedNext, MainNext, Update, UpdateWithoutAsk, NothingSent, Tick, Quote,
      Disconnect, Subscribe, PushUpdate, mainVars, dataVars

-----------------------------------------------------------------------------
(* Every step is one of the ticker, or none.                               *)

LEMMA TickerInitially == DataInit => Books!TickerInit
BY DEF DataInit, Books!TickerInit

LEMMA TickerStep ==
  ASSUME DataTypeOK, OrderInv, [DataNext]_dataVars
  PROVE  [\E m \in Markets : Books!Make(m) \/ Books!See(m)]_(Books!tickerVars)
<1> DEFINE Seen == [m \in Markets |-> book[m].quoted]
<1>1. ASSUME NEW m \in Markets, Quote(m) PROVE Books!Make(m)
  <2>1. UNCHANGED book /\ now \in Times /\ now \notin made[m]
    BY <1>1 DEF Quote, mainVars, DataTypeOK
  <2>2. made' = [made EXCEPT ![m] = @ \cup {now}]
    BY <1>1 DEF Quote, Note, DataTypeOK
  <2>3. \A u \in made[m] : u < now
    <3>1. \A u \in made[m] : u <= now /\ u # now
      BY <2>1 DEF OrderInv
    <3> QED BY <2>1, <3>1, MarketDataInputs DEF DataTypeOK, Times
  <2> QED BY <2>1, <2>2, <2>3 DEF Books!Make
<1>2. ASSUME NEW m \in Streams \ Markets, Quote(m) PROVE UNCHANGED Books!tickerVars
  <2>1. made' = made
    BY <1>2 DEF Quote, Note, DataTypeOK
  <2> QED BY <1>2, <2>1 DEF Quote, mainVars, Books!tickerVars
<1>3. ASSUME TakeUpdate PROVE \E m \in Markets : Books!See(m)
  <2> DEFINE msg == Head(pipe)
  <2>1. msg \in Message /\ msg.market \in Markets /\ msg \in Range(pipe)
    BY <1>3, BookTaken, ReceivedMessage DEF TakeUpdate
  <2>2. msg.at \in made[msg.market] /\ book[msg.market].quoted < msg.at
    BY <2>1 DEF OrderInv, NewerThanBook
  <2>3. Seen' = [Seen EXCEPT ![msg.market] = msg.at]
    <3>1. \A m \in Markets : book'[m].quoted = IF m = msg.market THEN msg.at ELSE book[m].quoted
      BY <1>3, BookTaken
    <3> QED BY <2>1, <3>1
  <2>4. UNCHANGED made
    BY <1>3 DEF TakeUpdate, Receive
  <2> QED BY <2>1, <2>2, <2>3, <2>4 DEF Books!See
<1>4. UNCHANGED <<made, book>> => UNCHANGED Books!tickerVars
  BY DEF Books!tickerVars
<1>5. \/ UNCHANGED <<made, book>> \/ TakeUpdate
      \/ \E m \in Markets \cup (Streams \ Markets) : Quote(m)
  BY DEF DataNext, FeedNext, MainNext, SkipUnknown, Update, UpdateWithoutAsk, NothingSent,
     SendPath, Tick, Disconnect, Subscribe, PushUpdate, Receive, mainVars, feedVars, dataVars
<1>6. CASE UNCHANGED <<made, book>>
  BY <1>4, <1>6
<1>7. CASE TakeUpdate
  BY <1>3, <1>7
<1>8. CASE \E m \in Markets \cup (Streams \ Markets) : Quote(m)
  BY <1>1, <1>2, <1>8
<1> QED BY <1>5, <1>6, <1>7, <1>8

-----------------------------------------------------------------------------
(* The theorems.                                                           *)

\* Messages keep their types, and the queues their bounds.
THEOREM DataTypes == DataSpec => []DataTypeOK
BY TypeInit, TypeStep, PTL DEF DataSpec

\* Of each market, main's book is older than what is under way, which is in
\* the order the exchange made it.
THEOREM MessagesInOrder == DataSpec => []OrderInv
BY DataTypes, OrderInit, OrderStep, PTL DEF DataSpec

\* Main falls behind only by what is under way to it or was lost on the way.
THEOREM LagExplained == DataSpec => []LagIsExplained
BY DataTypes, MessagesInOrder, LagInit, LagStep, PTL DEF DataSpec

\* Main searches a graph that has every market's rate, that of its book.
THEOREM SearchedGraph == DataSpec => []SearchSeesBooks
<1>1. DataSpec => []GraphInv
  BY DataTypes, GraphInit, GraphStep, PTL DEF DataSpec
<1>2. GraphInv => SearchSeesBooks
  BY DEF GraphInv, SearchSeesBooks, EdgesFollowBooks, Populated
<1> QED BY <1>1, <1>2, PTL

\* The quotes of a path that is sent are at most as old as the stale check
\* allows and a message has waited.
THEOREM AgeOfQuotes == DataSpec => []QuoteAgeBounded
<1>1. DataSpec => []AgeInv
  BY DataTypes, AgeInit, AgeStep, PTL DEF DataSpec
<1>2. AgeInv => QuoteAgeBounded
  BY DEF AgeInv
<1> QED BY <1>1, <1>2, PTL

\* The listener, ZMQ and main implement the ticker.
THEOREM ImplementsTicker == DataSpec => BooksFollowTicker
BY DataTypes, MessagesInOrder, TickerInitially, TickerStep, PTL
DEF DataSpec, BooksFollowTicker, Books!TickerSpec
=============================================================================
