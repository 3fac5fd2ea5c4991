------------------------------- MODULE Reporter -------------------------------
(***************************************************************************)
(* The reporting process (app/reporting.py): reporting_loop moves what     *)
(* main reported to a queue of its own, from which ten threads write rows. *)
(*                                                                         *)
(* A worker whose commit fails calls pdb.set_trace() with no terminal to   *)
(* talk to: it never takes a message again, and whether the one it had was *)
(* written nobody knows: the database may have committed the row before    *)
(* commit() raised.                                                        *)
(* Main reports an opportunity and, if it sent a job for it, the event;    *)
(* the other branches of db_write_worker belong to messages nobody sends.  *)
(***************************************************************************)
EXTENDS Opportunities, Sequences, FiniteSets

CONSTANT Workers   \* the writing threads

Reports == [kind : {"opportunity", "sent"}, tag : Tags]

\* A worker has nothing in hand.
NoReport == [kind |-> "none", tag |-> 0]

VARIABLES
  lastTag,       \* the opportunities reported so far
  sentTags,      \* those of them the event was reported for
  reportQueue,   \* report_queue, from main
  writeQueue,    \* write_queue, to the workers
  held,          \* what each worker has taken and not written
  stuck,         \* the workers in pdb
  rows           \* what the database has

client == <<lastTag, sentTags>>
reporterVars == <<client, reportQueue, writeQueue, held, stuck, rows>>

ReporterInit == /\ lastTag = 0
                /\ sentTags = {}
                /\ reportQueue = <<>>
                /\ writeQueue = <<>>
                /\ held = [w \in Workers |-> NoReport]
                /\ stuck = {}
                /\ rows = {}

Opportunity(t) == [kind |-> "opportunity", tag |-> t]
Sent(t) == [kind |-> "sent", tag |-> t]

\* main.py:291 and 354.
ReportOpportunity == /\ lastTag < MaxTags
                     /\ lastTag' = lastTag + 1
                     /\ reportQueue' = Append(reportQueue, Opportunity(lastTag + 1))
                     /\ UNCHANGED <<sentTags, writeQueue, held, stuck, rows>>

\* Slip: the event is reported with a tag of its own.
NewTag == lastTag + 1

EventTag == lastTag

\* main.py:343, at most once for the opportunity reported last.
ReportSent == /\ lastTag > 0
              /\ lastTag \notin sentTags
              /\ sentTags' = sentTags \cup {EventTag}
              /\ reportQueue' = Append(reportQueue, Sent(EventTag))
              /\ UNCHANGED <<lastTag, writeQueue, held, stuck, rows>>

\* Slips: the message stays on the report queue until the next one; what was
\* reported last is written first.
Keep == reportQueue
PushFront(msg) == <<msg>> \o writeQueue

Rest == Tail(reportQueue)
PushBack(msg) == Append(writeQueue, msg)

Forward == /\ reportQueue # <<>>
           /\ reportQueue' = Rest
           /\ writeQueue' = PushBack(Head(reportQueue))
           /\ UNCHANGED <<client, held, stuck, rows>>

\* Slip: the threads share a session, which a thread in pdb does not give back.
IdleUnlessStuck(w) == held[w] = NoReport /\ stuck = {}

Idle(w) == held[w] = NoReport

Take(w) == /\ Idle(w)
           /\ writeQueue # <<>>
           /\ held' = [held EXCEPT ![w] = Head(writeQueue)]
           /\ writeQueue' = Tail(writeQueue)
           /\ UNCHANGED <<client, reportQueue, stuck, rows>>

Busy(w) == held[w] # NoReport /\ w \notin stuck

\* opportunity_tag is unique in either table, app/models.py:36 and 57.
Unique(r) == r \notin rows

Commit(w) == /\ Busy(w)
             /\ Unique(held[w])
             /\ rows' = rows \cup {held[w]}
             /\ held' = [held EXCEPT ![w] = NoReport]
             /\ UNCHANGED <<client, reportQueue, writeQueue, stuck>>

\* commit() raises before the row is committed, or after it (the connection
\* is lost before the answer).
CommitFails(w) == /\ Busy(w)
                  /\ stuck' = stuck \cup {w}
                  /\ \/ UNCHANGED rows
                     \/ Unique(held[w]) /\ rows' = rows \cup {held[w]}
                  /\ UNCHANGED <<client, reportQueue, writeQueue, held>>

MainReports == ReportOpportunity \/ ReportSent

Write(w) == Take(w) \/ Commit(w) \/ CommitFails(w)

ReporterNext == \/ MainReports
                \/ Forward
                \/ \E w \in Workers : Write(w)

\* The forwarding loop and every thread that is not in pdb keep running.  get()
\* serves the threads that wait for it in turn.
ReporterFairness == /\ WF_reporterVars(Forward)
                    /\ \A w \in Workers : WF_reporterVars(Write(w))

ReporterSpec == ReporterInit /\ [][ReporterNext]_reporterVars /\ ReporterFairness

-----------------------------------------------------------------------------
ReporterTypeOK == /\ lastTag \in 0 .. MaxTags
                  /\ sentTags \subseteq 1 .. lastTag
                  /\ reportQueue \in Seq(Reports)
                  /\ writeQueue \in Seq(Reports)
                  /\ held \in [Workers -> Reports \cup {NoReport}]
                  /\ stuck \subseteq Workers
                  /\ rows \subseteq Reports

Made == {Opportunity(t) : t \in 1 .. lastTag} \cup {Sent(t) : t \in sentTags}

\* What the stopped threads were writing: a row, or lost.
InDoubt == {held[w] : w \in stuck}

InHand == {held[w] : w \in {x \in Workers \ stuck : held[x] # NoReport}}

Queued == {reportQueue[i] : i \in DOMAIN reportQueue}
          \cup {writeQueue[i] : i \in DOMAIN writeQueue}

(***************************************************************************)
(* Every report is in one place: waiting, in the hands of one worker, in   *)
(* doubt with a stopped one, or a row; only a report in doubt may be a row *)
(* as well.  Each stopped worker has put exactly one report in doubt.      *)
(***************************************************************************)
ReportsAccounted ==
  /\ Made = Queued \cup InHand \cup InDoubt \cup rows
  /\ Cardinality(Made) = Len(reportQueue) + Len(writeQueue) + Cardinality(InHand)
                         + Cardinality(stuck) + Cardinality(rows \ InDoubt)

(***************************************************************************)
(* As long as one worker runs every report is written, or in doubt with a  *)
(* stopped one: failed commits take threads away but never block the       *)
(* others.                                                                 *)
(***************************************************************************)
WrittenWhileOneLives ==
  \A r \in Reports : r \in Made ~> (r \in rows \cup InDoubt \/ stuck = Workers)

(***************************************************************************)
(* Two threads may write an event before its opportunity, but it is never  *)
(* further ahead than that: the opportunity is then in the other thread's  *)
(* hands, or in doubt there.                                               *)
(***************************************************************************)
OvertakesOnlyInHand ==
  \A t \in Tags : Sent(t) \in rows =>
                     Opportunity(t) \in rows \cup InHand \cup InDoubt
=============================================================================
