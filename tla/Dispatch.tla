------------------------------- MODULE Dispatch -------------------------------
(***************************************************************************)
(* The main loop (main.py:122-368) and the executor on the queue they      *)
(* share: how an opportunity becomes a job, who takes the job, and what    *)
(* happens to execute_lock, the flag that keeps main to one job at a time. *)
(*                                                                         *)
(* Everything main does between two accesses to shared state is one        *)
(* action: the report of an opportunity, the put of its job and the report *)
(* that it was sent are three.  Prices are a version number, the market    *)
(* updates applied so far; whether an update yields an opportunity, and    *)
(* whether the books of its path are stale, is left open.  current_bal,    *)
(* which is written and never read, is left out.                           *)
(***************************************************************************)
EXTENDS Executor, Opportunities

CONSTANT MaxUpdates   \* bound on the market updates applied

ASSUME MaxUpdatesIsNat == MaxUpdates \in Nat

VARIABLES
  mode,          \* "dry", or "production" with CONFIG.EXECUTE
  version,       \* market updates applied to the live rates
  nextTag,       \* the opportunity_tag of the next opportunity
  mpc,           \* where main is
  executeLock,   \* execute_lock: TRUE when main may put a job
  reports,       \* what main put on the report queue, in order
  takenMain,     \* tags of the jobs main got back from the queue
  takenExec      \* tags of the jobs the executor got

market == <<mode, version, nextTag>>
taken == <<takenMain, takenExec>>
mainVars == <<market, mpc, executeLock, reports, taken>>
dispatchVars == <<queueVars, execVars, mainVars>>

AsDict == "object"

\* The job main puts is a dict.  Its rates are a reference to the live ones,
\* which the feeder thread reads when it pickles the message.
Job(t) == [form |-> AsDict, type |-> "PATH", rates |-> version,
           legs |-> 3, tag |-> t]

Report(k, t) == [kind |-> k, tag |-> t, version |-> version]

Goto(from, to) == mpc = from /\ mpc' = to

MainInit == /\ mode \in {"dry", "production"}
            /\ version = 0
            /\ nextTag = 1
            /\ mpc = "check"
            /\ executeLock = TRUE
            /\ reports = <<>>
            /\ takenMain = {}
            /\ takenExec = {}

DispatchInit == QueueInit /\ ExecInit /\ MainInit

-----------------------------------------------------------------------------
(* Looking for a result, main.py:125-141.                                  *)

\* The lock is free, or empty() says that there is nothing.
SkipCheck == /\ Goto("check", "receive")
             /\ executeLock \/ IsEmpty
             /\ UNCHANGED <<market, executeLock, reports, taken, queueVars>>

SeeMessage == /\ Goto("check", "get")
              /\ ~executeLock /\ ~IsEmpty
              /\ UNCHANGED <<market, executeLock, reports, taken, queueVars>>

BeginGet == /\ Goto("get", "inGet")
            /\ Acquire(MainProc)
            /\ UNCHANGED <<market, executeLock, reports, taken>>

\* get(block=False) raises queue.Empty, which nothing catches: the executor
\* is inside get(), ...
GetRefused == /\ Goto("get", "crashed")
              /\ readLock # NoProc
              /\ UNCHANGED <<market, executeLock, reports, taken, queueVars>>

\* ... or it took the message after empty() had seen it.
GetFindsEmpty == /\ Goto("inGet", "crashed")
                 /\ FindEmpty(MainProc)
                 /\ UNCHANGED <<market, executeLock, reports, taken>>

\* Whatever the message is, line 138 frees the lock.
TakeMessage == /\ Goto("inGet", "receive")
               /\ Receive(MainProc)
               /\ executeLock' = TRUE
               /\ takenMain' = takenMain \cup {Head(pipe).tag}
               /\ UNCHANGED <<market, reports, takenExec>>

-----------------------------------------------------------------------------
(* A market message, main.py:151-201, and the search, 203-278.             *)

NewPrices == /\ version < MaxUpdates
             /\ version' = version + 1
             /\ UNCHANGED <<mode, nextTag>>

\* No message or an unknown market; or an update while some book has had
\* none yet.
NoSearch == /\ Goto("receive", "check")
            /\ NewPrices \/ UNCHANGED market
            /\ UNCHANGED <<executeLock, reports, taken, queueVars>>

Update == /\ Goto("receive", "search")
          /\ NewPrices
          /\ UNCHANGED <<executeLock, reports, taken, queueVars>>

\* The book has no ask: best_price is 0.0 and log10 raises ValueError.
UpdateWithoutAsk == /\ Goto("receive", "crashed")
                    /\ UNCHANGED <<market, executeLock, reports, taken, queueVars>>

\* find_cycles raises KeyError: see SearchReturns in Paths.
SearchRaises == /\ Goto("search", "crashed")
                /\ UNCHANGED <<market, executeLock, reports, taken, queueVars>>

NothingFound == /\ Goto("search", "check")
                /\ UNCHANGED <<market, executeLock, reports, taken, queueVars>>

-----------------------------------------------------------------------------
(* An opportunity, main.py:280-368.                                        *)

(* The tag main draws for an opportunity, line 280, is in its hand until   *)
(* it looks for the next result.                                           *)

Opportunity(m, then) == /\ Goto("search", then)
                        /\ mode = m
                        /\ nextTag <= MaxTags
                        /\ nextTag' = nextTag + 1
                        /\ reports' = Append(reports, Report("opportunity", nextTag))
                        /\ UNCHANGED <<mode, version, executeLock, taken, queueVars>>

ReportDry == Opportunity("dry", "check")

ReportOpportunity == Opportunity("production", "reported")

\* Slip: the tag is drawn again.
DrawnAgain == nextTag

Tag == nextTag - 1

\* A book of the path is older than STALE_TIMEOUT, line 314.
StalePath == /\ Goto("reported", "check")
             /\ UNCHANGED <<market, executeLock, reports, taken, queueVars>>

\* Slips: the event is reported even when the job was not put; the lock is
\* not taken.
ReportAnyway == reports' = Append(reports, Report("sent", Tag))
KeepLockFree == UNCHANGED executeLock

LetGo == UNCHANGED reports

TakeLock == executeLock' = FALSE

\* A job is out: the opportunity is let go, line 351.
LockUnavailable == /\ Goto("reported", "check")
                   /\ ~executeLock
                   /\ LetGo
                   /\ UNCHANGED <<market, executeLock, taken, queueVars>>

DispatchJob == /\ Goto("reported", "sending")
               /\ executeLock
               /\ TakeLock
               /\ Put(Job(Tag))
               /\ UNCHANGED <<market, reports, taken>>

ReportSent == /\ Goto("sending", "check")
              /\ reports' = Append(reports, Report("sent", Tag))
              /\ UNCHANGED <<market, executeLock, taken, queueVars>>

\* Line 335 rounds the quantity again, with the lock already taken.  Rounding
\* is in floats and may have left less than the market's minimum, which is
\* checked before it: QuantityTooSmallError, and here nothing catches it.  See
\* AcceptedAgain in Pricing.
JobRefused == /\ Goto("reported", "crashed")
              /\ executeLock
              /\ executeLock' = FALSE
              /\ UNCHANGED <<market, reports, taken, queueVars>>

Finds == ReportDry \/ ReportOpportunity

Silent == \/ SkipCheck \/ SeeMessage \/ BeginGet \/ GetRefused
          \/ GetFindsEmpty \/ TakeMessage
          \/ NoSearch \/ Update \/ UpdateWithoutAsk
          \/ NothingFound \/ SearchRaises
          \/ StalePath \/ LockUnavailable \/ DispatchJob \/ JobRefused

MainNext == Finds \/ ReportSent \/ Silent

-----------------------------------------------------------------------------
\* Slips: the job is pickled from a copy made before the update was applied;
\* the feeder dies with main.
OldRates(m) == [m EXCEPT !.rates = @ - 1]
FeedWhileMainRuns == mpc # "crashed" /\ Feed([Head(buffer) EXCEPT !.rates = version])

LiveRates(m) == [m EXCEPT !.rates = version]

\* The feeder thread pickles the job with the rates of this moment.  It also
\* runs when main has crashed: a process flushes its queues before it ends.
FeedJob == Feed(LiveRates(Head(buffer)))

ExecTake == /\ ExecReceive
            /\ takenExec' = takenExec \cup {Head(pipe).tag}
            /\ UNCHANGED <<market, mpc, executeLock, reports, takenMain>>

ExecOther == ExecLocal /\ UNCHANGED mainVars

MainStep == MainNext /\ UNCHANGED execVars
FeederStep == FeedJob /\ UNCHANGED <<execVars, mainVars>>
ExecStep == ExecTake \/ ExecOther

DispatchNext == MainStep \/ FeederStep \/ ExecStep

\* Three loops that never sleep: main's, the feeder's and the executor's.
DispatchFairness == /\ WF_dispatchVars(MainStep)
                    /\ WF_dispatchVars(FeederStep)
                    /\ WF_dispatchVars(ExecStep)

DispatchSpec == /\ DispatchInit
                /\ [][DispatchNext]_dispatchVars
                /\ DispatchFairness

-----------------------------------------------------------------------------
TagsIn(q) == {q[i].tag : i \in DOMAIN q}

JobsUnderWay == TagsIn(buffer) \cup TagsIn(pipe)

TagsSent(rs) == {rs[i].tag : i \in {j \in DOMAIN rs : rs[j].kind = "sent"}}

JobsSent == TagsSent(reports)

\* The jobs put so far: those reported as sent, and the one main is about to
\* report.
JobsPut == JobsSent \cup IF mpc = "sending" THEN {Tag} ELSE {}

ReportRecord == [kind : {"opportunity", "sent"}, tag : Tags, version : Nat]

DispatchTypeOK == /\ TypeOK
                  /\ JobsUnderWay \subseteq Tags
                  /\ mode \in {"dry", "production"}
                  /\ version \in 0 .. MaxUpdates
                  /\ nextTag \in 1 .. MaxTags + 1
                  /\ mpc \in {"check", "get", "inGet", "receive", "search",
                              "reported", "sending", "crashed"}
                  /\ mpc \in {"reported", "sending"} => nextTag > 1
                  /\ executeLock \in BOOLEAN
                  /\ reports \in Seq(ReportRecord)
                  /\ takenMain \subseteq Tags
                  /\ takenExec \subseteq Tags

(***************************************************************************)
(* Every job main has put is in exactly one place: on its way, or back     *)
(* with main, or with the executor.  No crash of main, no refused get()    *)
(* and no race between the two readers loses one or delivers it twice.     *)
(* And every job is reported as sent, but for the one main is about to     *)
(* report, which the executor may have long before the report.             *)
(***************************************************************************)
EveryJobAccounted == /\ JobsPut = JobsUnderWay \cup takenMain \cup takenExec
                     /\ JobsUnderWay \cap takenMain = {}
                     /\ JobsUnderWay \cap takenExec = {}
                     /\ takenMain \cap takenExec = {}
                     /\ mpc = "sending" => Tag \notin JobsSent

(***************************************************************************)
(* execute_lock, although main itself may take a job back off the queue    *)
(* and free the lock with it, keeps to one job at a time: one message on   *)
(* the queue at most, none while the lock is free, and none once the       *)
(* executor has taken one.                                                 *)
(***************************************************************************)
OneJobAtATime == /\ Len(buffer) + Len(pipe) <= 1
                 /\ JobsUnderWay # {} => ~executeLock /\ takenExec = {}

(***************************************************************************)
(* The executor prices a path with rates no older than those it was found  *)
(* and reported with, however late the message was pickled.                *)
(***************************************************************************)
RatesNotOlder ==
  \A i \in DOMAIN pipe, j \in DOMAIN reports :
    reports[j].tag = pipe[i].tag => pipe[i].rates >= reports[j].version

MappedSlot == IF executeLock THEN "free"
              ELSE IF JobsUnderWay = {} THEN "taken" ELSE "underway"

Slot == INSTANCE JobSlot WITH
          Jobs <- Tags,
          slot <- MappedSlot,
          sent <- JobsPut

(***************************************************************************)
(* The queue and the lock implement the slot for one job.  A job under way *)
(* leaves the queue even if main has died, and a job the executor takes is *)
(* the last job of the bot's life: main's lock never comes back.           *)
(***************************************************************************)
SlotSpec == Slot!SlotSpec

(***************************************************************************)
(* The jobs main puts are dicts, which the executor's json.loads refuses:  *)
(* whatever the two processes do, no order is ever made for one.           *)
(***************************************************************************)
NoOrderMade == placed = 0

(***************************************************************************)
(* README.md:22, of the executor: "It listens for paths from Main.  It     *)
(* then attempts to execute the path and report back."  A job it takes off *)
(* the queue gets as far as the first order's call.                        *)
(***************************************************************************)
PathsAreAttempted == \A t \in Tags : t \in takenExec ~> epc = "order"
=============================================================================
