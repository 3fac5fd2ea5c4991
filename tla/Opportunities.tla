----------------------------- MODULE Opportunities -----------------------------
(***************************************************************************)
(* The opportunities main finds, numbered by their opportunity_tag         *)
(* (main.py:280).                                                          *)
(***************************************************************************)
EXTENDS Naturals

CONSTANT MaxTags   \* bound on the opportunities found

ASSUME MaxTagsIsNat == MaxTags \in Nat

Tags == 1 .. MaxTags
=============================================================================
