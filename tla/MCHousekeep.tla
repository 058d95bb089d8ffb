---------------------------- MODULE MCHousekeep ----------------------------
(***************************************************************************)
(* Housekeep for TLC: a board with a message, a blanked line and another   *)
(* message.                                                                *)
(***************************************************************************)
EXTENDS Housekeep

CONSTANTS m1, m2, m3

Board == <<m1, Garbage, m2>>
=============================================================================
