--------------------------- MODULE MCPeerSessions ---------------------------
(***************************************************************************)
(* PeerSessions for TLC: three masters, two of which have generated the    *)
(* same number.                                                            *)
(***************************************************************************)
EXTENDS PeerSessions, TLC

CONSTANTS ma, mb, mc

Numbers == (ma :> 7) @@ (mb :> 7) @@ (mc :> 8)
=============================================================================
