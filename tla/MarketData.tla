------------------------------ MODULE MarketData ------------------------------
(***************************************************************************)
(* The market data on its way from the exchange to a decision of main: the *)
(* websocket (app/cfxws), the listener that publishes each message over    *)
(* ZMQ (app/listen.py), and main, which takes one message per turn of its  *)
(* loop (main.py:151-201), searches once every book has had one, and looks *)
(* at the age of the books of a path before it sends it (main.py:302-317). *)
(*                                                                         *)
(* A message is a snapshot of five levels, told apart by its market and by *)
(* the time the exchange made it, at most one per market and tick.  The    *)
(* websocket and ZMQ are external: both keep the order of the messages;    *)
(* the publisher drops those that come before main has subscribed or while *)
(* the queue is at its high water mark.  The exchange ends every           *)
(* connection after a day, and nothing opens another one; what was on the  *)
(* wire at its end may have come in or not.                                *)
(*                                                                         *)
(* Main starts the listener only in dry mode (main.py:90), where it only   *)
(* reports its paths.  In production another program publishes for it, of  *)
(* which the repository has the socket and the form of the messages, and   *)
(* main checks the age of the books and sends the path to the executor.    *)
(* The feed is modelled alike for both.                                    *)
(***************************************************************************)
EXTENDS Naturals, Sequences, Functions

CONSTANTS
  Markets,        \* CONFIG.MARKETS
  OtherMarkets,   \* listened to, but not configured: markets of an older cache
  StaleTimeout,   \* CONFIG.STALE_TIMEOUT
  HighWater,      \* the messages ZMQ keeps for main
  MaxWire,        \* bound on the messages between the exchange and the listener
  MaxTime,        \* bound on the clock
  NoPath          \* main's last step sent no path

ASSUME MarketDataInputs == /\ Markets \cap OtherMarkets = {}
                           /\ StaleTimeout \in Nat /\ HighWater \in Nat
                           /\ MaxWire \in Nat /\ MaxTime \in Nat \ {0}

Streams == Markets \cup OtherMarkets
Times == 1 .. MaxTime

VARIABLES
  mode,         \* CONFIG.MODE, and with it CONFIG.EXECUTE: "dry" or "production"
  now,          \* time.time(), counted from 1
  link,         \* the websocket: "open" or "closed"
  subscribed,   \* main's socket has connected
  made,         \* the times of the quotes of each market
  lost,         \* those of them the publisher dropped or that the wire lost
  wire,         \* messages sent by the exchange
  pipe,         \* messages published
  pc,           \* main: "receive", "search" or "dead"
  book,         \* of each market: when its levels were quoted and received
  edge,         \* when the rate in the graph was quoted
  maxDelay,     \* the longest a message main has received was under way
  accepted      \* the path main's last step sent: when, and its books' quotes

feedVars == <<link, subscribed, made, lost, wire, pipe>>
mainVars == <<pc, book, edge, maxDelay, accepted>>
dataVars == <<mode, now, feedVars, mainVars>>

Message == [market : Streams, at : Times]

DataInit == /\ mode \in {"dry", "production"}
            /\ now = 1
            /\ link = "open"
            /\ subscribed = FALSE
            /\ made = [m \in Markets |-> {}]
            /\ lost = [m \in Markets |-> {}]
            /\ wire = <<>>
            /\ pipe = <<>>
            /\ pc = "receive"
            /\ book = [m \in Markets |-> [quoted |-> 0, received |-> 0]]
            /\ edge = [m \in Markets |-> 0]
            /\ maxDelay = 0
            /\ accepted = NoPath

Tick == now < MaxTime /\ now' = now + 1 /\ UNCHANGED <<mode, feedVars, mainVars>>

-----------------------------------------------------------------------------
(* The exchange and the listener.                                          *)

\* The histories are kept of the configured markets only.
Note(history, m, t) ==
  [k \in Markets |-> IF k = m THEN history[k] \cup {t} ELSE history[k]]

Quote(m) == /\ link = "open"
            /\ Len(wire) < MaxWire
            /\ m \in Markets => now \notin made[m]
            /\ made' = Note(made, m, now)
            /\ wire' = Append(wire, [market |-> m, at |-> now])
            /\ UNCHANGED <<mode, now, link, subscribed, lost, pipe, mainVars>>

\* What had not come in is lost: the last of the messages on the wire.
Disconnect == /\ link = "open"
              /\ link' = "closed"
              /\ \E n \in 0 .. Len(wire) : wire' = SubSeq(wire, 1, n)
              /\ lost' = [m \in Markets |-> lost[m] \cup
                            {t \in made[m] : [market |-> m, at |-> t] \in
                                               Range(wire) \ Range(wire')}]
              /\ UNCHANGED <<mode, now, subscribed, made, pipe, mainVars>>

Subscribe == /\ ~subscribed
             /\ subscribed' = TRUE
             /\ UNCHANGED <<mode, now, link, made, lost, wire, pipe, mainVars>>

\* Slip: the newest message is sent first.
SendNewestFirst(msg) == pipe' = <<msg>> \o pipe /\ UNCHANGED lost

Send(msg) == pipe' = Append(pipe, msg) /\ UNCHANGED lost

Drop(msg) == lost' = Note(lost, msg.market, msg.at) /\ UNCHANGED pipe

\* Slips: what came in before the connection ended is not read any more; the
\* queue takes one message more than it holds.
ArrivedWhileOpen == wire # <<>> /\ link = "open"
AcceptsOneMore == subscribed /\ Len(pipe) <= HighWater

Arrived == wire # <<>>
Accepts == subscribed /\ Len(pipe) < HighWater

\* push_update, for the message that has arrived.
PushUpdate == /\ Arrived
              /\ wire' = Tail(wire)
              /\ IF Accepts THEN Send(Head(wire)) ELSE Drop(Head(wire))
              /\ UNCHANGED <<mode, now, link, subscribed, made, mainVars>>

-----------------------------------------------------------------------------
(* Main.  Without a message it goes on to its next turn.                   *)

Receive == /\ pc = "receive"
           /\ pipe # <<>>
           /\ pipe' = Tail(pipe)
           /\ accepted' = NoPath
           /\ UNCHANGED <<mode, now, link, subscribed, made, lost, wire>>

SkipUnknown == /\ Receive
               /\ Head(pipe).market \notin Markets
               /\ UNCHANGED <<pc, book, edge, maxDelay>>

\* Slip: a message dates every book that has had one.
StampAll(msg) ==
  book' = [m \in Markets |->
             CASE m = msg.market -> [quoted |-> msg.at, received |-> now]
               [] book[m].received # 0 -> [book[m] EXCEPT !.received = now]
               [] OTHER -> book[m]]

\* update_levels_from_partial: the levels are replaced, and dated.
SetBook(msg) ==
  book' = [book EXCEPT ![msg.market] = [quoted |-> msg.at, received |-> now]]

TakeUpdate == /\ Receive
              /\ Head(pipe).market \in Markets
              /\ SetBook(Head(pipe))
              /\ LET delay == now - Head(pipe).at
                 IN  maxDelay' = IF delay > maxDelay THEN delay ELSE maxDelay

\* Slip: the check ends with the first book that has had a message.
SomePopulated(books) == \E m \in Markets : books[m].received # 0

Populated(books) == \A m \in Markets : books[m].received # 0

Update == /\ TakeUpdate
          /\ edge' = [edge EXCEPT ![Head(pipe).market] = Head(pipe).at]
          /\ pc' = IF Populated(book') THEN "search" ELSE "receive"

\* The snapshot has no asks, and log10 fails on its best price.
UpdateWithoutAsk == TakeUpdate /\ pc' = "dead" /\ UNCHANGED edge

\* Nothing was found or is worth it; the path is only reported, in dry mode; a
\* book of the path is too old, in production; or the search raised KeyError.
NothingSent == /\ pc = "search"
               /\ pc' \in {"receive", "dead"}
               /\ UNCHANGED <<mode, now, feedVars, book, edge, maxDelay, accepted>>

Fresh(path) == \A m \in path : now - book[m].received <= StaleTimeout

SendPath(path) == /\ mode = "production"
                  /\ pc = "search"
                  /\ Fresh(path)
                  /\ pc' = "receive"
                  /\ accepted' = [time |-> now, quotes |-> [m \in path |-> book[m].quoted]]
                  /\ UNCHANGED <<mode, now, feedVars, book, edge, maxDelay>>

MainNext == \/ SkipUnknown \/ Update \/ UpdateWithoutAsk
            \/ NothingSent \/ \E path \in SUBSET Markets \ {{}} : SendPath(path)

FeedNext == (\E m \in Streams : Quote(m)) \/ Disconnect \/ Subscribe \/ PushUpdate

DataNext == Tick \/ FeedNext \/ MainNext

\* Two loops that never sleep: the reactor's and main's.
DataSpec == /\ DataInit /\ [][DataNext]_dataVars
            /\ WF_dataVars(PushUpdate) /\ WF_dataVars(MainNext)

-----------------------------------------------------------------------------
DataTypeOK == /\ mode \in {"dry", "production"}
              /\ now \in Times
              /\ link \in {"open", "closed"}
              /\ subscribed \in BOOLEAN
              /\ made \in [Markets -> SUBSET Times]
              /\ lost \in [Markets -> SUBSET Times]
              /\ wire \in Seq(Message) /\ Len(wire) <= MaxWire
              /\ pipe \in Seq(Message) /\ Len(pipe) <= HighWater
              /\ pc \in {"receive", "search", "dead"}
              /\ book \in [Markets -> [quoted : Nat, received : Nat]]
              /\ edge \in [Markets -> Nat]
              /\ maxDelay \in Nat

Books == INSTANCE Ticker WITH seen <- [m \in Markets |-> book[m].quoted]

(***************************************************************************)
(* Listener, ZMQ and main together implement the ticker: whatever is       *)
(* dropped and however far main lags behind, a book never goes back and is *)
(* never one the exchange did not quote.                                   *)
(***************************************************************************)
BooksFollowTicker == Books!TickerSpec

UnderWay == Range(wire) \cup Range(pipe)

(***************************************************************************)
(* A quote that is newer than main's book is on its way to main, or was    *)
(* dropped by the publisher or gone with the connection: a loss costs no   *)
(* more than the quote itself, and main has no other way to fall behind.   *)
(***************************************************************************)
LagIsExplained ==
  \A m \in Markets : \A t \in made[m] :
    t > book[m].quoted => t \in lost[m] \/ [market |-> m, at |-> t] \in UnderWay

(***************************************************************************)
(* When main searches every market has its rate in the graph, and each is  *)
(* that of the book the stale check will look at.                          *)
(***************************************************************************)
SearchSeesBooks ==
  pc = "search" => \A m \in Markets : edge[m] # 0 /\ edge[m] = book[m].quoted

(***************************************************************************)
(* config.py:8: what STALE_TIMEOUT bounds is the time since main received  *)
(* a quote.  The quotes of a path that is sent may be older than that by   *)
(* as long as a message has waited in the queues, and no longer.           *)
(***************************************************************************)
QuoteAgeBounded ==
  accepted # NoPath =>
    \A m \in DOMAIN accepted.quotes :
      accepted.time - accepted.quotes[m] <= StaleTimeout + maxDelay

(***************************************************************************)
(* Every quote is lost or overtaken in main's book, as long as main lives: *)
(* what came in before the connection ended is still published and read,   *)
(* and a full queue delays nothing for ever.  That a next quote comes is   *)
(* not promised: nothing opens the connection again.                       *)
(***************************************************************************)
QuotesArrive ==
  \A m \in Markets, t \in Times :
    t \in made[m] ~> (t \in lost[m] \/ book[m].quoted >= t \/ pc = "dead")
=============================================================================
