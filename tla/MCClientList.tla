---------------------------- MODULE MCClientList ----------------------------
(***************************************************************************)
(* ClientList for TLC.  Connections are alike, so states that differ only  *)
(* in which is which are one.                                              *)
(***************************************************************************)
EXTENDS ClientList, TLC

Alike == Permutations(Conns)
=============================================================================
