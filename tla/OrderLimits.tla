----------------------------- MODULE OrderLimits -----------------------------
(***************************************************************************)
(* The exchange's order limits as SimpleNwmon knows them (app/utils.py).   *)
(***************************************************************************)
EXTENDS Naturals

CONSTANTS
  OrdersPS,   \* ORDERS_P_S: orders per second
  OrdersPD    \* ORDERS_P_D: orders per day

ASSUME LimitsAreNat == OrdersPS \in Nat /\ OrdersPD \in Nat

\* SimpleNwmon.can_complete_path with the counts of this second and this day.
CanCompletePath(inSecond, inDay, length) ==
  /\ inSecond + length <= OrdersPS
  /\ inDay + length <= OrdersPD
=============================================================================
