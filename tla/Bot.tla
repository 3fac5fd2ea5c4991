---------------------------------- MODULE Bot ----------------------------------
(***************************************************************************)
(* The three processes main.py starts in production or dry mode, together: *)
(* main and the executor on execute_trade_queue (Dispatch), and the        *)
(* reporter (Reporter) on report_queue, which main fills.  A report main   *)
(* makes in Dispatch is the same step as a put of Reporter's client.       *)
(*                                                                         *)
(* The processes are not daemons: the executor and the reporter outlive a  *)
(* main that has crashed, and what main had put still reaches them.        *)
(***************************************************************************)
EXTENDS Dispatch

CONSTANT Workers   \* the writing threads of the reporter

VARIABLES lastTag, sentTags, reportQueue, writeQueue, held, stuck, rows

R == INSTANCE Reporter

reporterVars == <<lastTag, sentTags, reportQueue, writeQueue, held, stuck, rows>>
botVars == <<dispatchVars, reporterVars>>

BotInit == DispatchInit /\ R!ReporterInit

MainFinds == /\ Finds /\ UNCHANGED execVars
             /\ R!ReportOpportunity

MainSends == /\ ReportSent /\ UNCHANGED execVars
             /\ R!ReportSent

\* Steps of main that report nothing, the feeder's and the executor's.
WithoutReport == /\ \/ Silent /\ UNCHANGED execVars
                    \/ FeederStep
                    \/ ExecStep
                 /\ UNCHANGED reporterVars

ReporterStep == /\ R!Forward \/ \E w \in Workers : R!Write(w)
                /\ UNCHANGED dispatchVars

BotNext == MainFinds \/ MainSends \/ WithoutReport \/ ReporterStep

BotSpec == /\ BotInit
           /\ [][BotNext]_botVars
           /\ DispatchFairness
           /\ R!ReporterFairness

-----------------------------------------------------------------------------
\* The reporter's properties, of what main really reports.
ReporterTypeOK == R!ReporterTypeOK
ReportsAccounted == R!ReportsAccounted
OvertakesOnlyInHand == R!OvertakesOnlyInHand
WrittenWhileOneLives == R!WrittenWhileOneLives

(***************************************************************************)
(* The database against the queue of jobs: an event that is a row tells of *)
(* a job that really was put, with the tag the job carries, whatever       *)
(* became of main since.  The other way round nothing is promised: main    *)
(* may have put a job it has not reported yet, and the commit of a report  *)
(* may fail.                                                               *)
(***************************************************************************)
EventsTellOfJobs ==
  \A t \in Tags : R!Sent(t) \in rows => t \in JobsUnderWay \cup takenMain \cup takenExec
=============================================================================
