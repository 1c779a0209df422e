---------------------------- MODULE MCSettlement ----------------------------
(***************************************************************************)
(* Instances of Settlement: one instalment, an event that can fail and one *)
(* that cannot, two overlapping ticks.                                     *)
(***************************************************************************)
EXTENDS SettlementProps, TLC

CONSTANTS i1, t1, t2

=============================================================================
