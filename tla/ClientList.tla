----------------------------- MODULE ClientList -----------------------------
(***************************************************************************)
(* clients_list (linkedList.cc) and those who use it: every session enters *)
(* its socket when it begins and takes it out before it closes it          *)
(* (server_operations.cc:20, 346-355); quit_handler walks the list without *)
(* its mutex and shuts down what it meets (bbserv.cc:72-78,                *)
(* linkedList.cc:198-215).                                                 *)
(*                                                                         *)
(* A connection is one session and one node, since every session pushes    *)
(* one.  Nodes are never freed: the walk may stand on one that is out of   *)
(* the list.  lPush and pullSpec hold access_list from end to end and are  *)
(* one step each; every access of the walk is a step.                      *)
(***************************************************************************)
EXTENDS Integers, Sequences, FiniteSets

CONSTANTS
    Conns,     \* connections clients make
    Sockets,   \* descriptors accept may return
    NULL,      \* the null pointer
    T_MAX      \* threads of file_team

ASSUME NullAssumption == NULL \notin Conns
ASSUME SocketsAssumption == Sockets \subseteq Nat
ASSUME TMaxAssumption == T_MAX \in Nat \ {0}

NoSocket == -1   \* what accept has not given yet

VARIABLES
    first, last, listLength,   \* the list
    prev,        \* prev[c]: the node behind c's
    sck_val,     \* sck_val[c]: c's descriptor, in its session and in its node
    place,       \* how far c's session is
    eof,         \* connections whose next read finds the end
    wpc,         \* where shutdownList is
    temp_line, i,              \* its local variables
    atStart,     \* history: who was in the list when the walk began
    pushed, pulled             \* history: changes to the list during the walk

list == <<first, last, listLength, prev>>
walk == <<wpc, temp_line, i>>
history == <<atStart, pushed, pulled>>
vars == <<first, last, listLength, prev, sck_val, place, eof, wpc, temp_line,
          i, atStart, pushed, pulled>>

TypeOK ==
    /\ first \in Conns \cup {NULL} /\ last \in Conns \cup {NULL}
    /\ listLength \in Nat
    /\ prev \in [Conns -> Conns \cup {NULL}]
    /\ sck_val \in [Conns -> Sockets \cup {NoSocket}]
    /\ place \in [Conns -> {"out", "accepted", "started", "listed", "pulled",
                            "closed"}]
    /\ eof \in SUBSET Conns
    /\ wpc \in {"serving", "first", "test", "shut", "next", "done", "crashed"}
    /\ temp_line \in Conns \cup {NULL} /\ i \in Nat
    /\ atStart \in SUBSET Conns /\ pushed \in SUBSET Conns
    /\ pulled \in SUBSET Conns

Init ==
    /\ first = NULL /\ last = NULL /\ listLength = 0
    /\ prev = [c \in Conns |-> NULL]
    /\ sck_val = [c \in Conns |-> NoSocket]
    /\ place = [c \in Conns |-> "out"]
    /\ eof = {}
    /\ wpc = "serving" /\ temp_line = NULL /\ i = 0
    /\ atStart = {} /\ pushed = {} /\ pulled = {}

-----------------------------------------------------------------------------
(* The list as it can be read from first. *)

(* The k-th node: first, and from there k-1 times prev. *)
Nth == LET nth[k \in 1..(listLength + 1)] ==
             IF k = 1 THEN first
             ELSE IF nth[k - 1] = NULL THEN NULL ELSE prev[nth[k - 1]]
       IN  nth

(* Indices of nodes that hold socket v; pullSpec and find_next take the    *)
(* first of them.                                                          *)
Holding(v) == {k \in 1..listLength : sck_val[Nth[k]] = v}
FirstHolding(v) == CHOOSE k \in Holding(v) : \A m \in Holding(v) : k <= m

(* find_next: the node in front of the first one that holds v. *)
find_next(v) == Nth[FirstHolding(v) - 1]

Walking == wpc \in {"test", "shut", "next"}

InSession == {c \in Conns : place[c] \in {"started", "listed", "pulled"}}

OpenUntilEnd ==  \* closed as soon as the end is read, the node still listed
    {c \in Conns : place[c] \in {"accepted", "started", "listed"} /\ c \notin eof}

(* Connections with an open descriptor: a session closes it at its end, *)
(* when its node is out of the list.                                    *)
Open == {c \in Conns : place[c] \in {"accepted", "started", "listed", "pulled"}}

-----------------------------------------------------------------------------
(* Clients and their sessions *)

(* accept and pass_to_team, while the server listens: any descriptor that  *)
(* is not open (the board file and peers' connections take some as well).  *)
Accept(c) ==
    /\ wpc = "serving" /\ place[c] = "out"
    /\ \E v \in Sockets \ {sck_val[d] : d \in Open} :
         sck_val' = [sck_val EXCEPT ![c] = v]
    /\ place' = [place EXCEPT ![c] = "accepted"]
    /\ UNCHANGED <<list, eof, walk, history>>

(* A thread of file_team begins the session.  Once the walk is over        *)
(* terminate_team clears threads_keepalive and nothing is begun any more.  *)
Start(c) ==
    /\ place[c] = "accepted" /\ wpc # "done"
    /\ Cardinality(InSession) < T_MAX
    /\ place' = [place EXCEPT ![c] = "started"]
    /\ UNCHANGED <<list, sck_val, eof, walk, history>>

(* pushVal, lPush *)
PushVal(c) ==
    /\ place[c] = "started"
    /\ place' = [place EXCEPT ![c] = "listed"]
    /\ IF listLength = 0
         THEN /\ first' = c
              /\ prev' = [prev EXCEPT ![c] = NULL]
         ELSE /\ prev' = [prev EXCEPT ![c] = NULL, ![last] = c]
              /\ UNCHANGED first
    /\ last' = c
    /\ listLength' = listLength + 1
    /\ pushed' = IF Walking THEN pushed \cup {c} ELSE pushed
    /\ UNCHANGED <<sck_val, eof, walk, atStart, pulled>>

(* The client closes its side, or sends QUIT. *)
ClientLeaves(c) ==
    /\ place[c] \in {"accepted", "started", "listed"} /\ c \notin eof
    /\ eof' = eof \cup {c}
    /\ UNCHANGED <<list, sck_val, place, walk, history>>

(* The branches of pullList: the node with v is the first, the last, or    *)
(* between them.                                                           *)
PullFirst(v) ==
    /\ sck_val[first] = v
    /\ first' = IF listLength = 1 THEN NULL ELSE prev[first]
    /\ last' = IF listLength = 1 THEN NULL ELSE last
    /\ UNCHANGED prev

PullLastStays(v) ==  \* last goes on pointing to the node
    /\ sck_val[first] # v /\ sck_val[last] = v
    /\ prev' = [prev EXCEPT ![find_next(v)] = NULL]
    /\ UNCHANGED <<first, last>>

PullLast(v) ==
    /\ sck_val[first] # v /\ sck_val[last] = v
    /\ last' = find_next(v)
    /\ prev' = [prev EXCEPT ![find_next(v)] = NULL]
    /\ UNCHANGED first

PullInner(v) ==
    /\ sck_val[first] # v /\ sck_val[last] # v
    /\ prev' = [prev EXCEPT ![find_next(v)] = prev[Nth[FirstHolding(v)]]]
    /\ UNCHANGED <<first, last>>

(* pullSpec: the session has read the end and takes its socket out. *)
PullSpec(c) ==
    LET v == sck_val[c]
    IN  /\ place[c] = "listed" /\ c \in eof
        /\ place' = [place EXCEPT ![c] = "pulled"]
        /\ IF Holding(v) = {}
             THEN UNCHANGED list
             ELSE /\ PullFirst(v) \/ PullLast(v) \/ PullInner(v)
                  /\ listLength' = listLength - 1
        /\ pulled' = IF Walking THEN pulled \cup {c} ELSE pulled
        /\ UNCHANGED <<sck_val, eof, walk, atStart, pushed>>

(* BYE, shutdown and close: the descriptor is free again. *)
Close(c) ==
    /\ place[c] = "pulled"
    /\ place' = [place EXCEPT ![c] = "closed"]
    /\ UNCHANGED <<list, sck_val, eof, walk, history>>

Session(c) == Start(c) \/ PushVal(c) \/ PullSpec(c) \/ Close(c)

-----------------------------------------------------------------------------
(* quit_handler up to the end of shutdownList *)

(* The listening sockets are shut down and closed. *)
StopListening ==
    /\ wpc = "serving"
    /\ wpc' = "first"
    /\ UNCHANGED <<list, sck_val, place, eof, temp_line, i, history>>

WalkFirst ==
    /\ wpc = "first"
    /\ temp_line' = first /\ i' = 0
    /\ wpc' = IF first = NULL THEN "done" ELSE "test"
    /\ atStart' = {c \in Conns : place[c] = "listed"}
    /\ UNCHANGED <<list, sck_val, place, eof, pushed, pulled>>

WalkTestShort ==  \* stops one node early
    /\ wpc = "test"
    /\ wpc' = IF i < listLength - 1 THEN "shut" ELSE "done"
    /\ UNCHANGED <<list, sck_val, place, eof, temp_line, i, history>>

WalkTest ==
    /\ wpc = "test"
    /\ wpc' = IF i < listLength THEN "shut" ELSE "done"
    /\ UNCHANGED <<list, sck_val, place, eof, temp_line, i, history>>

(* shutdown(temp_line->sck_val, SHUT_RD): whoever has this descriptor open *)
(* reads the end from now on.                                              *)
WalkShut ==
    /\ wpc = "shut" /\ temp_line # NULL
    /\ eof' = eof \cup {d \in Open : sck_val[d] = sck_val[temp_line]}
    /\ wpc' = "next"
    /\ UNCHANGED <<list, sck_val, place, temp_line, i, history>>

(* temp_line is null: the process ends with a signal. *)
WalkCrash ==
    /\ wpc = "shut" /\ temp_line = NULL
    /\ wpc' = "crashed"
    /\ UNCHANGED <<list, sck_val, place, eof, temp_line, i, history>>

WalkNext ==
    /\ wpc = "next"
    /\ temp_line' = prev[temp_line] /\ i' = i + 1
    /\ wpc' = "test"
    /\ UNCHANGED <<list, sck_val, place, eof, history>>

Walk == WalkFirst \/ WalkTest \/ WalkShut \/ WalkCrash \/ WalkNext

Next ==
    \/ wpc # "crashed" /\ \E c \in Conns : Accept(c) \/ ClientLeaves(c) \/ Session(c)
    \/ StopListening \/ Walk

Spec == Init /\ [][Next]_vars

-----------------------------------------------------------------------------
(* Properties *)

(* The chain of nodes is the sequence of the sessions that are running, in *)
(* the order they began, however pushes and pulls at both ends and in the  *)
(* middle follow one another (lPush, pullList).                            *)
ListSeq == INSTANCE ClientSeq WITH clients <- [k \in 1..listLength |-> Nth[k]]
ListSpec == ListSeq!Spec

(* A pull looks for a socket number, not for a node: it takes out the      *)
(* right one because no number is in the list twice, and that holds        *)
(* because sessions pull before they close (server_operations.cc:346,355). *)
DistinctSockets ==
    \A c, d \in Conns :
        c # d /\ place[c] = "listed" /\ place[d] = "listed"
            => sck_val[c] # sck_val[d]

(* Without its mutex the walk reads a length that shrinks while the        *)
(* sessions it has just shut down leave (linkedList.cc:206-212).  What it  *)
(* costs is bounded: a client of before the walk is passed over, at most,  *)
(* for each session that left during it; and it comes to the end of the    *)
(* chain before its count says so, and follows a null pointer, only when a *)
(* session began during it.                                                *)
WalkBounded ==
    /\ wpc = "done" =>
         Cardinality({c \in atStart : place[c] = "listed" /\ c \notin eof})
             <= Cardinality(pulled)
    /\ wpc = "crashed" => pushed # {}
=============================================================================
