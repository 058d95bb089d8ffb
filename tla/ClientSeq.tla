----------------------------- MODULE ClientSeq -----------------------------
(***************************************************************************)
(* What the list of clients (linkedList.cc) is for: the sessions that run, *)
(* in the order in which they began.  Abstract specification; ClientList   *)
(* implements it with nodes and pointers.                                  *)
(***************************************************************************)
EXTENDS Sequences, SequencesExt

CONSTANT Conns      \* the connections
VARIABLE clients    \* those in a session, the eldest first

Init == clients = <<>>

(* A session begins: lPush puts it at the end. *)
Enter(c) ==
    /\ c \notin ToSet(clients)
    /\ clients' = Append(clients, c)

(* A session ends: pullSpec takes this one out, the others keep their order. *)
Leave(c) ==
    \E k \in DOMAIN clients : clients[k] = c /\ clients' = RemoveAt(clients, k)

Next == \E c \in Conns : Enter(c) \/ Leave(c)

Spec == Init /\ [][Next]_clients
=============================================================================
