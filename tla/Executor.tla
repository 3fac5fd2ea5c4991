------------------------------- MODULE Executor -------------------------------
(***************************************************************************)
(* execute_loop (app/execute.py): the process that takes jobs off the      *)
(* shared queue and trades them.                                           *)
(*                                                                         *)
(* The loop polls the queue, decodes what it got as JSON text, and walks   *)
(* the legs of the path.  Every leg ends in the finally block at line 162, *)
(* whose else branch reads exec_prices, a local that only the code of a    *)
(* later leg assigns (line 71).  With no more than one order made that is  *)
(* an UnboundLocalError, so the first leg of the first job that is decoded *)
(* ends the process, whatever the exchange answered.  What follows the     *)
(* first leg (lines 53-86, 115-155, 168-174 and the two puts at 191-192)   *)
(* is therefore never executed, and is not part of the model.              *)
(*                                                                         *)
(* The client of the queue is left open here: it may put any member of     *)
(* Requests and may get() from the same queue, as main.py does.            *)
(***************************************************************************)
EXTENDS MpQueue, OrderLimits

CONSTANTS
  Requests,    \* the messages the client may put
  MaxQueued,   \* bound on the messages under way
  NoJob        \* the executor has no message in hand

ASSUME MaxQueuedIsNat == MaxQueued \in Nat

(***************************************************************************)
(* A message.  form: what get() returns, a Python object (a dict) or JSON  *)
(* text.  rates: the version of the rates it carries, 0 for a message      *)
(* without the key "rates".  legs: the number of trades of its path.       *)
(***************************************************************************)
Message == [form  : {"object", "text"},
            type  : {"PATH", "EXECRESULT", "SHUTDOWN"},
            rates : Nat,
            legs  : Nat,
            tag   : Nat]

ASSUME RequestsAreMessages == Requests \subseteq Message

VARIABLES
  epc,       \* where the executor is
  job,       \* the message it received last, NoJob between messages
  placed,    \* orders that reached the exchange
  counted,   \* orders nwmon.iterate_order() was told about
  holding    \* what the account holds: "source" (USDT) or "base" of leg 1

execVars == <<epc, job, placed, counted, holding>>

Stopped == epc \in {"exited", "crashed"}

ExecInit == /\ epc = "poll"
            /\ job = NoJob
            /\ placed = 0
            /\ counted = 0
            /\ holding = "source"

(***************************************************************************)
(* execute_queue.get(False), line 33.  A failed attempt at the lock raises *)
(* queue.Empty, which line 34 swallows: a stuttering step.                 *)
(***************************************************************************)
ExecAcquire == /\ epc = "poll"
               /\ Acquire(ExecProc)
               /\ epc' = "locked"
               /\ UNCHANGED <<job, placed, counted, holding>>

\* Slip: the early return on an empty pipe forgets the lock.
LeaveLocked == readLock = ExecProc /\ IsEmpty /\ UNCHANGED queueVars

LeaveEmpty == FindEmpty(ExecProc)

ExecFindEmpty == /\ epc = "locked"
                 /\ LeaveEmpty
                 /\ epc' = "poll"
                 /\ UNCHANGED <<job, placed, counted, holding>>

ExecReceive == /\ epc = "locked"
               /\ Receive(ExecProc)
               /\ job' = Head(pipe)
               /\ epc' = "decode"
               /\ UNCHANGED <<placed, counted, holding>>

Ignore == /\ epc' = "poll"
          /\ job' = NoJob
          /\ UNCHANGED <<placed, counted, holding, queueVars>>

\* json.loads raises TypeError on a dict: swallowed with the message, line 34.
IgnoreUndecodable == /\ epc = "decode"
                     /\ job.form = "object"
                     /\ Ignore

Decoded == epc = "decode" /\ job.form = "text"

\* A message that is no job, such as a result the executor put itself, line 39.
IgnoreWithoutRates == /\ Decoded
                      /\ job.type # "SHUTDOWN"
                      /\ job.rates = 0
                      /\ Ignore

IsJob == Decoded /\ job.type # "SHUTDOWN" /\ job.rates > 0

\* Dropped without a result to the client, line 43.
IgnoreOverLimit == /\ IsJob
                   /\ ~CanCompletePath(counted, counted, job.legs)
                   /\ Ignore

Quit == /\ Decoded
        /\ job.type = "SHUTDOWN"
        /\ epc' = "exited"
        /\ UNCHANGED <<job, placed, counted, holding, queueVars>>

StartPath == /\ IsJob
             /\ CanCompletePath(counted, counted, job.legs)
             /\ epc' = "order"
             /\ UNCHANGED <<job, placed, counted, holding, queueVars>>

(***************************************************************************)
(* The first leg, a LIMIT fill-or-kill order that buys the base currency,  *)
(* and the finally block, which raises.  The exchange fills the order or   *)
(* not; the call returns, or raises before the order was made (a quantity  *)
(* too small, an API error) or after it (the answer was lost).             *)
(***************************************************************************)
Filled == /\ placed' = placed + 1
          /\ counted' = counted + 1
          /\ holding' = "base"

\* Slip: the monitor counts down.
NotFilledCountsDown == /\ placed' = placed + 1
                       /\ counted' = counted - 1
                       /\ UNCHANGED holding

NotFilled == /\ placed' = placed + 1
             /\ counted' = counted + 1
             /\ UNCHANGED holding

RaisedBefore == UNCHANGED <<placed, counted, holding>>

RaisedAfter == /\ placed' = placed + 1
               /\ holding' \in {"source", "base"}
               /\ UNCHANGED counted

Dies == "crashed"

FirstLeg == /\ epc = "order"
            /\ Filled \/ NotFilled \/ RaisedBefore \/ RaisedAfter
            /\ epc' = Dies
            /\ UNCHANGED <<job, queueVars>>

\* Every step but the one that takes a message off the queue.
ExecLocal == \/ ExecAcquire
             \/ ExecFindEmpty
             \/ IgnoreUndecodable
             \/ IgnoreWithoutRates
             \/ IgnoreOverLimit
             \/ Quit
             \/ StartPath
             \/ FirstLeg

ExecNext == ExecLocal \/ ExecReceive

-----------------------------------------------------------------------------
(* The open client: puts requests, and gets from the same queue.           *)

ClientPut == /\ Len(buffer) + Len(pipe) < MaxQueued
             /\ \E m \in Requests : Put(m)
             /\ UNCHANGED execVars

ClientFeed == /\ Feed(Head(buffer))
              /\ UNCHANGED execVars

ClientGet == /\ Acquire(MainProc) \/ FindEmpty(MainProc) \/ Receive(MainProc)
             /\ UNCHANGED execVars

vars == <<queueVars, execVars>>

Init == QueueInit /\ ExecInit

Next == ExecNext \/ ClientPut \/ ClientFeed \/ ClientGet

\* The executor and the feeder thread keep running; the client owes nothing
\* but to leave get() once it is inside.
Fairness == /\ WF_vars(ExecNext)
            /\ WF_vars(ClientFeed)
            /\ WF_vars(ClientGet /\ readLock = MainProc)

Spec == Init /\ [][Next]_vars /\ Fairness

-----------------------------------------------------------------------------
TypeOK == /\ buffer \in Seq(Message)
          /\ pipe \in Seq(Message)
          /\ readLock \in {MainProc, ExecProc, NoProc}
          /\ epc \in {"poll", "locked", "decode", "order", "exited", "crashed"}
          /\ job \in Message \cup {NoJob}
          /\ placed \in Nat
          /\ counted \in Nat
          /\ holding \in {"source", "base"}

(***************************************************************************)
(* A position the executor opened is never seen by a running executor:     *)
(* when anything but the source currency is held, the process that bought  *)
(* it is gone, one order was placed in its life, and nobody is left to     *)
(* sell, whatever README.md:22 says ("will sell back to USDT if a path is  *)
(* not profitable").                                                       *)
(***************************************************************************)
HeldMeansGone == holding = "base" => epc = "crashed" /\ placed = 1

(***************************************************************************)
(* Once the client has stopped get()ing from the queue, a running executor *)
(* never ignores a message for good, however many the client puts: neither *)
(* a get() that found nothing nor a message it dropped stops the loop.     *)
(***************************************************************************)
KeepsReceiving == <>[][~ClientGet]_vars
                    => []<>(IsEmpty \/ epc = "decode" \/ Stopped)
=============================================================================
