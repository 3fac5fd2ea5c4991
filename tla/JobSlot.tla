------------------------------- MODULE JobSlot -------------------------------
(***************************************************************************)
(* What the shared queue and execute_lock give, seen from outside: a slot  *)
(* for one job.  A job put in the free slot either comes back to main,     *)
(* which frees the slot, or is taken for good, and the slot is lost: there *)
(* is no step out of "taken".  The slot may also be lost with main, when   *)
(* it fails between taking the lock and putting the job.                   *)
(***************************************************************************)
CONSTANTS
  Jobs     \* the jobs there are

VARIABLES
  slot,    \* "free", "underway" or "taken"
  sent     \* the jobs ever put in the slot

slotVars == <<slot, sent>>

SlotInit == slot = "free" /\ sent = {}

PutInSlot == /\ slot = "free"
             /\ slot' = "underway"
             /\ \E t \in Jobs \ sent : sent' = sent \cup {t}

\* A job leaves the queue: back to its sender, or for good.
LeaveSlot == /\ slot = "underway"
             /\ slot' \in {"free", "taken"}
             /\ UNCHANGED sent

\* No job was put, and none will be.
PutFails == /\ slot = "free"
            /\ slot' = "taken"
            /\ UNCHANGED sent

SlotNext == PutInSlot \/ LeaveSlot \/ PutFails

SlotSafety == SlotInit /\ [][SlotNext]_slotVars

SlotSpec == SlotSafety /\ WF_slotVars(LeaveSlot)
=============================================================================
