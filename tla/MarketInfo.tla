------------------------------ MODULE MarketInfo ------------------------------
(***************************************************************************)
(* initialise_markets_info (app/utils.py:195-246) and its cache on disk,   *)
(* market_info.json, through crashes, restarts and changes of the          *)
(* configured markets between two runs of the bot.                         *)
(*                                                                         *)
(* open("w") empties the file long before json.dump has filled it.  What   *)
(* a crash leaves in between is not JSON, json.load raises an error that   *)
(* is no FileNotFoundError, and the bot does not start.                    *)
(***************************************************************************)
EXTENDS Naturals

CONSTANTS
  Markets,    \* the markets that may be configured
  Hour,       \* how long the cache is good for, line 202
  MaxTime,    \* bound on the clock
  NoInfo      \* no market info

ASSUME MarketInfoInputs == Hour \in Nat /\ MaxTime \in Nat

Info == [time : 0 .. MaxTime, markets : SUBSET Markets]

ASSUME NoInfoIsNone == NoInfo \notin Info

VARIABLES
  now,          \* time.time()
  configured,   \* CONFIG.MARKETS
  proc,         \* "down", "reading", "fetching", "writing" or "running"
  file,         \* "absent", "torn" (emptied or half written) or "whole"
  cached,       \* what a whole file says, NoInfo otherwise
  info,         \* market_info in memory
  decidedAt     \* when what is in memory was accepted as fresh

infoVars == <<now, configured, proc, file, cached, info, decidedAt>>

InfoInit == /\ now = 0
            /\ configured \in SUBSET Markets
            /\ proc = "down"
            /\ file = "absent"
            /\ cached = NoInfo
            /\ info = NoInfo
            /\ decidedAt = 0

Tick == /\ now < MaxTime
        /\ now' = now + 1
        /\ UNCHANGED <<configured, proc, file, cached, info, decidedAt>>

\* The configuration may have been edited while the bot was down.
Start == /\ proc = "down"
         /\ proc' = "reading"
         /\ configured' \in SUBSET Markets
         /\ info' = NoInfo
         /\ UNCHANGED <<now, file, cached, decidedAt>>

\* Slip: the age of the file is not looked at.
UsableAtAnyAge == file = "whole" /\ configured \subseteq cached.markets

Usable == /\ file = "whole"
          /\ now <= cached.time + Hour
          /\ configured \subseteq cached.markets

ReadCache == /\ proc = "reading"
             /\ Usable
             /\ proc' = "running"
             /\ info' = cached
             /\ decidedAt' = now
             /\ UNCHANGED <<now, configured, file, cached>>

\* Slip: whatever the file is, it is fetched again.
AnyFile == file \in {"absent", "torn", "whole"}

NotTorn == file # "torn"

\* No file, an old one, or one without a market: FileNotFoundError.
NeedsFetch == /\ proc = "reading"
              /\ NotTorn
              /\ ~Usable
              /\ proc' = "fetching"
              /\ UNCHANGED <<now, configured, file, cached, info, decidedAt>>

\* JSONDecodeError: nothing catches it.
ReadTorn == /\ proc = "reading"
            /\ file = "torn"
            /\ proc' = "down"
            /\ UNCHANGED <<now, configured, file, cached, info, decidedAt>>

\* Slip: the file is opened when the exchange is asked, and still says what
\* it said.
StillCached == cached

Emptied == NoInfo

\* The exchange's answer, and open("w").
FetchAndOpen == /\ proc = "fetching"
                /\ proc' = "writing"
                /\ info' = [time |-> now, markets |-> configured]
                /\ file' = "torn"
                /\ cached' = Emptied
                /\ decidedAt' = now
                /\ UNCHANGED <<now, configured>>

DumpAndRun == /\ proc = "writing"
              /\ proc' = "running"
              /\ file' = "whole"
              /\ cached' = info
              /\ UNCHANGED <<now, configured, info, decidedAt>>

\* Killed, or the exchange did not answer or does not list a market.
Crash == /\ proc # "down"
         /\ proc' = "down"
         /\ info' = NoInfo
         /\ UNCHANGED <<now, configured, file, cached, decidedAt>>

InfoNext == \/ Tick \/ Start \/ ReadCache \/ NeedsFetch \/ ReadTorn
            \/ FetchAndOpen \/ DumpAndRun \/ Crash

InfoSpec == InfoInit /\ [][InfoNext]_infoVars

-----------------------------------------------------------------------------
InfoTypeOK == /\ now \in 0 .. MaxTime
              /\ configured \subseteq Markets
              /\ proc \in {"down", "reading", "fetching", "writing", "running"}
              /\ file \in {"absent", "torn", "whole"}
              /\ cached \in Info \cup {NoInfo}
              /\ info \in Info \cup {NoInfo}
              /\ decidedAt \in 0 .. MaxTime
              /\ file = "whole" <=> cached # NoInfo

(***************************************************************************)
(* A bot that runs knows every market it is configured for, from           *)
(* information that was less than an hour old when it was accepted:        *)
(* however often it was stopped, and the configuration changed, meanwhile. *)
(***************************************************************************)
RunsOnFreshInfo == proc = "running" => /\ info # NoInfo
                                       /\ configured \subseteq info.markets
                                       /\ decidedAt <= info.time + Hour

(***************************************************************************)
(* A file torn by a crash is never repaired: every restart reads it and    *)
(* ends there, until somebody deletes it by hand.                          *)
(***************************************************************************)
TornIsForever ==
  [][file = "torn" /\ proc # "writing"
       => file' = "torn" /\ proc' \in {"down", "reading"}]_infoVars
=============================================================================
