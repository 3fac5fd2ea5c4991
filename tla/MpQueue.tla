------------------------------- MODULE MpQueue -------------------------------
(***************************************************************************)
(* The multiprocessing.Queue that main.py creates as execute_trade_queue   *)
(* (main.py:65) and hands to execute_loop.  Both processes get() from it;  *)
(* only the main process ever gets as far as a put().                      *)
(*                                                                         *)
(* The library is external to the repository: what is kept is what the     *)
(* bot's use of it can observe.                                            *)
(*   - put() appends the object to a buffer of the producer; a feeder      *)
(*     thread pickles it into the pipe later.                              *)
(*   - get(block=False) makes one attempt at the readers' lock, raises     *)
(*     queue.Empty if the other process has it, polls the pipe under the   *)
(*     lock, raises queue.Empty if there is nothing, else receives, and    *)
(*     releases the lock in a finally block.                               *)
(*   - empty() polls the pipe without the lock.                            *)
(***************************************************************************)
EXTENDS Naturals, Sequences

CONSTANTS
  MainProc,   \* the process of main.py
  ExecProc,   \* the process of execute_loop
  NoProc      \* nobody has the readers' lock

ASSUME ProcsDiffer == /\ MainProc # ExecProc
                      /\ MainProc # NoProc
                      /\ ExecProc # NoProc

VARIABLES
  buffer,     \* objects put and not yet pickled by the feeder thread
  pipe,       \* messages pickled and not yet received
  readLock    \* the process inside get()

queueVars == <<buffer, pipe, readLock>>

QueueInit == /\ buffer = <<>>
             /\ pipe = <<>>
             /\ readLock = NoProc

Put(m) == /\ buffer' = Append(buffer, m)
          /\ UNCHANGED <<pipe, readLock>>

\* The feeder thread: m is the first object of the buffer as pickled now.
Feed(m) == /\ buffer # <<>>
           /\ buffer' = Tail(buffer)
           /\ pipe' = Append(pipe, m)
           /\ UNCHANGED readLock

IsEmpty == pipe = <<>>

Acquire(p) == /\ readLock = NoProc
              /\ readLock' = p
              /\ UNCHANGED <<buffer, pipe>>

\* poll() under the lock found nothing: release and raise queue.Empty.
FindEmpty(p) == /\ readLock = p
                /\ IsEmpty
                /\ readLock' = NoProc
                /\ UNCHANGED <<buffer, pipe>>

\* Receive Head(pipe) and release.
Receive(p) == /\ readLock = p
              /\ ~IsEmpty
              /\ pipe' = Tail(pipe)
              /\ readLock' = NoProc
              /\ UNCHANGED buffer
=============================================================================
