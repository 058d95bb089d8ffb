----------------------------- MODULE SyncCommit -----------------------------
(***************************************************************************)
(* One WRITE or REPLACE of one client, synchronised by the server that     *)
(* received it (the master) with its N peers: sync_write, sync_replace,    *)
(* send_precommit, send_commit, send_del, send_quit of                     *)
(* server_operations.cc, and peer_receiver_operations of                   *)
(* peer_operations.cc on the other side of every connection.               *)
(*                                                                         *)
(* Three kinds of process take part: the client's worker thread on the     *)
(* master (mpc), the "Peer sender" threads, one job per peer and phase     *)
(* (snd), and the "Peer receiver" thread of each peer (session).  A        *)
(* connection is a pair of FIFO channels.  The master reads a reply with   *)
(* recv_nonblock(sd,buff,ALEN-1,10): a reply may always come too late, or  *)
(* be misread because buff is not terminated, so an awaiting sender may    *)
(* give up in any state.                                                   *)
(*                                                                         *)
(* Abstracted: the text of the message (a copy of the addressed message    *)
(* number is absent, the one before the command, or the one the command    *)
(* carries); the pool and its queue (module ThreadPool); the other         *)
(* commands in flight.  Enqueuing N jobs is one step: a job that starts    *)
(* before the last one is queued commutes with the rest of the loop.       *)
(*                                                                         *)
(* pthread_cond_wait stands behind an "if" and may return unsignalled.     *)
(* The worker then decides with votes outstanding: it clears the marks and *)
(* queues the jobs of the last phase while jobs of the phase before, here  *)
(* called stragglers, have yet to mark a peer, to send their order or to   *)
(* read a reply.  All jobs compete for the same marks.                     *)
(***************************************************************************)
EXTENDS Integers, Sequences, FiniteSets

CONSTANTS
    N,       \* server_config.NO_OF_PEERS
    Kinds,   \* the commands explored: "write" (sync_write), "replace" (sync_replace)
    Faults   \* what may go wrong in this instance, a subset of AllFaults

(***************************************************************************)
(* "refused":   connect() to a peer fails (err_connect)                    *)
(* "nohost":    gethostbyname() of a peer fails (err_host)                 *)
(* "peerfile":  a peer cannot open its bulletin board file                 *)
(* "localfile": the master cannot open its own, at the moment of applying  *)
(* "verify":    the message just applied cannot be read back               *)
(* "uninit":    dont_reissue holds what new[] left in it                   *)
(* "stale":     undo_command holds what the thread's last session left     *)
(***************************************************************************)
AllFaults == {"refused", "nohost", "peerfile", "localfile", "verify",
              "uninit", "stale"}

ASSUME NAssumption == N \in Nat
ASSUME KindsAssumption == Kinds \subseteq {"write", "replace"}
ASSUME FaultsAssumption == Faults \subseteq AllFaults

Peers == 1..N

VARIABLES
    kind,          \* the command being synchronised
    mpc,           \* where the worker thread is in sync_write / sync_replace
    phase,         \* which jobs were last queued: send_precommit, ..., send_quit
    reply,         \* what the client was told: return value 0 or -1
    local,         \* the addressed message in the master's file
    pos_count, neg_count,  \* peer_stat's counters
    snd,           \* snd[i]: the job of the current phase that marked peer i
    dont_reissue,  \* peer_addr[i].dont_reissue
    sd,            \* peer_addr[i].peer_port, the socket to peer i
    behind,        \* the stragglers that have marked no peer yet
    untold,        \* untold[i]: those that have marked i and have not sent
    unheard,       \* unheard[i]: those that wait for i's reply to a commit
    toPeer, toMaster,      \* the two directions of connection i
    session,       \* peer i's receiver thread
    undo_command,  \* its undo_command
    undo_message,  \* its undo_message: the copy a REPLACE found
    copy,          \* the addressed message in peer i's file
    earlier        \* a message peer i committed in a session before this one

masterVars == <<kind, mpc, phase, reply, local>>
senderVars == <<pos_count, neg_count, snd, dont_reissue, sd>>
lateVars   == <<behind, untold, unheard>>
undoVars   == <<undo_command, undo_message>>
peerVars   == <<session, undoVars, copy, earlier>>
vars == <<masterVars, senderVars, lateVars, toPeer, toMaster, peerVars>>

Copies == {"none", "old", "new"}
Orders == {"precommit", "commit", "abort", "quit"}
Answers == {"positive", "negative", "negative_exists"}

TypeOK ==
    /\ kind \in Kinds
    /\ mpc \in {"start", "lock", "wait", "decide", "apply", "verify", "hung", "done"}
    /\ phase \in {"none", "precommit", "commit", "del", "quit"}
    /\ reply \in {"none", "ok", "error"}
    /\ local \in Copies
    /\ pos_count \in 0..N
    /\ neg_count \in 0..N
    /\ snd \in [Peers -> {"idle", "queued", "taken", "awaiting", "pos", "neg",
                          "lost", "finished", "missed", "passed"}]
    /\ dont_reissue \in [Peers -> BOOLEAN]
    /\ sd \in [Peers -> {"none", "open", "closed", "refused", "nohost"}]
    /\ behind \in 0..N
    /\ untold \in [Peers -> 0..2]
    /\ unheard \in [Peers -> 0..2]
    /\ toPeer \in [Peers -> Seq(Orders)]
    /\ toMaster \in [Peers -> Seq(Answers)]
    /\ session \in [Peers -> {"none", "serving", "over", "left", "hung"}]
    /\ undo_command \in [Peers -> {"none", "write", "replace", "stale"}]
    /\ undo_message \in [Peers -> Copies]
    /\ copy \in [Peers -> Copies]
    /\ earlier \in [Peers -> {"kept", "lost"}]

Init ==
    /\ kind \in Kinds
    /\ mpc = "start" /\ phase = "none" /\ reply = "none"
    /\ local = IF kind = "write" THEN "none" ELSE "old"
    /\ pos_count = 0 /\ neg_count = 0
    /\ snd = [i \in Peers |-> "idle"]
    /\ dont_reissue \in [Peers -> IF "uninit" \in Faults THEN BOOLEAN ELSE {FALSE}]
    /\ sd = [i \in Peers |-> "none"]
    /\ behind = 0
    /\ untold = [i \in Peers |-> 0]
    /\ unheard = [i \in Peers |-> 0]
    /\ toPeer = [i \in Peers |-> <<>>]
    /\ toMaster = [i \in Peers |-> <<>>]
    /\ session = [i \in Peers |-> "none"]
    /\ undo_command \in
           [Peers -> IF "stale" \in Faults THEN {"none", "stale"} ELSE {"none"}]
    /\ undo_message = [i \in Peers |-> "none"]
    /\ copy \in [Peers -> {"none", "old"}]
    /\ earlier = [i \in Peers |-> "kept"]

-----------------------------------------------------------------------------
(* What the counters say. *)

EveryAnswerIn == pos_count + neg_count = N
AllPositive == pos_count = N

(* The condition in front of both pthread_cond_wait calls. *)
MustWait == pos_count # N \/ neg_count # N \/ pos_count + neg_count # N

(* The condition under which a sender broadcasts peer_stat_cond. *)
PositivesOnly(p, n) == p = N
VotesIn(p, n) == p = N \/ n = N \/ p + n = N

(* Clear the counters and the marks, and queue one job per peer.  The jobs *)
(* of the phase before that are not done become stragglers.                *)
JobsAt(v) == {i \in Peers : snd[i] = v}
One(b) == IF b THEN 1 ELSE 0

Unmark(jobs) ==
    /\ snd' = [i \in Peers |-> "queued"]
    /\ behind' = Cardinality(JobsAt("queued"))
    /\ untold' = [i \in Peers |-> One(snd[i] = "taken")]
    /\ unheard' = [i \in Peers |-> One(jobs = "del" /\ snd[i] = "awaiting")]

EnqueueUncleared(jobs) ==
    /\ phase' = jobs
    /\ Unmark(jobs)
    /\ UNCHANGED <<pos_count, neg_count>>
Enqueue(jobs) ==
    /\ phase' = jobs
    /\ Unmark(jobs)
    /\ pos_count' = 0
    /\ neg_count' = 0

-----------------------------------------------------------------------------
(* The worker thread. *)

(* Allocate comms_info, queue the precommits, go for the mutex. *)
StartSync ==
    /\ mpc = "start"
    /\ Enqueue("precommit")
    /\ mpc' = "lock"
    /\ UNCHANGED <<kind, reply, local, dont_reissue, sd, toPeer, toMaster, peerVars>>

(* Lock access_peer_stat; an "if", not a loop, decides whether to wait. *)
AwaitVotes ==
    /\ mpc = "lock"
    /\ mpc' = IF MustWait THEN "wait" ELSE "decide"
    /\ UNCHANGED <<kind, phase, reply, local, senderVars, lateVars, toPeer, toMaster, peerVars>>

(* pthread_cond_wait may return without a broadcast, and need not.  Nothing *)
(* looks at the votes again before the decision.                            *)
WakeUnsignalled ==
    /\ mpc = "wait"
    /\ mpc' = "decide"
    /\ UNCHANGED <<kind, phase, reply, local, senderVars, lateVars, toPeer, toMaster, peerVars>>

(* Every precommit positive: queue the commits, wait again. *)
DecideCommit ==
    /\ mpc = "decide" /\ phase = "precommit" /\ AllPositive
    /\ Enqueue("commit")
    /\ mpc' = "lock"
    /\ UNCHANGED <<kind, reply, local, dont_reissue, sd, toPeer, toMaster, peerVars>>

(* A precommit failed: sync_write queues the quits and returns -1 ... *)
AbandonSilently ==
    /\ mpc = "decide" /\ phase = "precommit" /\ ~AllPositive /\ kind = "write"
    /\ mpc' = "done" /\ reply' = "error"
    /\ UNCHANGED <<kind, phase, local, senderVars, lateVars, toPeer, toMaster, peerVars>>
AbandonWrite ==
    /\ mpc = "decide" /\ phase = "precommit" /\ ~AllPositive /\ kind = "write"
    /\ Enqueue("quit")
    /\ mpc' = "done" /\ reply' = "error"
    /\ UNCHANGED <<kind, local, dont_reissue, sd, toPeer, toMaster, peerVars>>

(* ... sync_replace only returns -1. *)
AbandonReplace ==
    /\ mpc = "decide" /\ phase = "precommit" /\ ~AllPositive /\ kind = "replace"
    /\ mpc' = "done" /\ reply' = "error"
    /\ UNCHANGED <<kind, phase, local, senderVars, lateVars, toPeer, toMaster, peerVars>>

AcceptCommit ==
    /\ mpc = "decide" /\ phase = "commit" /\ AllPositive
    /\ mpc' = "apply"
    /\ UNCHANGED <<kind, phase, reply, local, senderVars, lateVars, toPeer, toMaster, peerVars>>

(* Undo everywhere and tell the client. *)
UndoAndFail ==
    /\ Enqueue("del")
    /\ mpc' = "done" /\ reply' = "error"
    /\ UNCHANGED <<kind, dont_reissue, sd, toPeer, toMaster, peerVars>>

RefuseCommit ==
    /\ mpc = "decide" /\ phase = "commit" /\ ~AllPositive
    /\ UndoAndFail
    /\ UNCHANGED local

(* write_descriptor or replace_descriptor on the master's own file. *)
ApplyLocal ==
    /\ mpc = "apply"
    /\ mpc' = "verify" /\ local' = "new"
    /\ UNCHANGED <<kind, phase, reply, senderVars, lateVars, toPeer, toMaster, peerVars>>

(* It returns -2: a replace may have blanked the old line already. *)
ApplyFails ==
    /\ mpc = "apply" /\ "localfile" \in Faults
    /\ UndoAndFail
    /\ local' \in IF kind = "replace" THEN {local, "none"} ELSE {local}

(* seek_msg_descriptor reads a descriptor that open() did not return, and  *)
(* loops: readline answers -1, never recv_nodata.                          *)
ApplyHangs ==
    /\ mpc = "apply" /\ "localfile" \in Faults /\ kind = "replace"
    /\ mpc' = "hung"
    /\ UNCHANGED <<kind, phase, reply, local, senderVars, lateVars, toPeer, toMaster, peerVars>>

(* Read it back; queue the quits and return 0.  sync_replace takes the     *)
(* failure to open the file (-2) for success as well.                      *)
VerifyFound ==
    /\ mpc = "verify"
    /\ Enqueue("quit")
    /\ mpc' = "done" /\ reply' = "ok"
    /\ UNCHANGED <<kind, local, dont_reissue, sd, toPeer, toMaster, peerVars>>

(* Not found: another thread blanked the line since (-1); or, for a write, *)
(* the file does not open (-2).                                            *)
VerifyMissing ==
    /\ mpc = "verify" /\ "verify" \in Faults
    /\ UndoAndFail
    /\ local' \in IF kind = "write" THEN {local, "none"} ELSE {"none"}

Master ==
    \/ StartSync \/ AwaitVotes
    \/ DecideCommit \/ AbandonWrite \/ AbandonReplace
    \/ AcceptCommit \/ RefuseCommit
    \/ ApplyLocal \/ ApplyFails \/ ApplyHangs
    \/ VerifyFound \/ VerifyMissing

-----------------------------------------------------------------------------
(* The sender jobs.  A job marks the lowest peer not marked yet. *)

Take(i) ==
    /\ snd[i] = "queued"
    /\ \A j \in 1..(i - 1) : snd[j] # "queued"
    /\ snd' = [snd EXCEPT ![i] = "taken"]
    /\ UNCHANGED <<masterVars, lateVars, pos_count, neg_count, dont_reissue, sd,
                   toPeer, toMaster, peerVars>>

Send(i, order) == toPeer' = [toPeer EXCEPT ![i] = Append(@, order)]

(* connectbyport, send "precommit", start to read. *)
SendPrecommit(i) ==
    /\ phase = "precommit" /\ snd[i] = "taken"
    /\ sd' = [sd EXCEPT ![i] = "open"]
    /\ session' = [session EXCEPT ![i] = "serving"]
    /\ Send(i, "precommit")
    /\ snd' = [snd EXCEPT ![i] = "awaiting"]
    /\ UNCHANGED <<masterVars, lateVars, pos_count, neg_count, dont_reissue, toMaster,
                   undoVars, copy, earlier>>

(* err_connect: sd < 0 never holds of a size_t, so the job goes on, sends  *)
(* to no socket and polls one that never answers.                          *)
ConnectRefused(i) ==
    /\ phase = "precommit" /\ snd[i] = "taken" /\ "refused" \in Faults
    /\ sd' = [sd EXCEPT ![i] = "refused"]
    /\ snd' = [snd EXCEPT ![i] = "awaiting"]
    /\ UNCHANGED <<masterVars, lateVars, pos_count, neg_count, dont_reissue,
                   toPeer, toMaster, peerVars>>

(* err_host: the job returns -1 and counts nothing. *)
HostUnknown(i) ==
    /\ phase = "precommit" /\ snd[i] = "taken" /\ "nohost" \in Faults
    /\ sd' = [sd EXCEPT ![i] = "nohost"]
    /\ snd' = [snd EXCEPT ![i] = "lost"]
    /\ UNCHANGED <<masterVars, lateVars, pos_count, neg_count, dont_reissue,
                   toPeer, toMaster, peerVars>>

SendCommit(i) ==
    /\ phase = "commit" /\ snd[i] = "taken"
    /\ Send(i, "commit")
    /\ snd' = [snd EXCEPT ![i] = "awaiting"]
    /\ UNCHANGED <<masterVars, lateVars, pos_count, neg_count, dont_reissue, sd,
                   toMaster, peerVars>>

(* Under access_peer_stat: count, and broadcast when the count says so.    *)
(* The broadcast reaches the worker thread only if it waits already.       *)
Tally(positive) ==
    LET p == pos_count + (IF positive THEN 1 ELSE 0)
        n == neg_count + (IF positive THEN 0 ELSE 1)
    IN  /\ pos_count' = p
        /\ neg_count' = n
        /\ mpc' = IF mpc = "wait" /\ VotesIn(p, n) THEN "decide" ELSE mpc

ReadReply(i) ==
    /\ snd[i] = "awaiting" /\ toMaster[i] # <<>>
    /\ LET answer == Head(toMaster[i]) IN
         /\ toMaster' = [toMaster EXCEPT ![i] = Tail(@)]
         /\ Tally(answer = "positive")
         /\ snd' = [snd EXCEPT ![i] = IF answer = "positive" THEN "pos" ELSE "neg"]
         /\ dont_reissue' = [dont_reissue EXCEPT ![i] =
                               @ \/ (phase = "commit" /\ answer = "negative_exists")]
    /\ UNCHANGED <<kind, phase, reply, local, lateVars, sd, toPeer, peerVars>>

(* No data within 10 ms, or a buffer that does not compare equal. *)
GiveUp(i) ==
    /\ snd[i] = "awaiting"
    /\ Tally(FALSE)
    /\ snd' = [snd EXCEPT ![i] = "neg"]
    /\ UNCHANGED <<kind, phase, reply, local, lateVars, dont_reissue, sd,
                   toPeer, toMaster, peerVars>>

(* send_del and send_quit: one order, shutdown, close.  A peer that said   *)
(* negative_exists gets nothing, and its socket stays open.  The job that  *)
(* overtakes connectbyport finds no socket yet: peer_port is what new[]    *)
(* left in it, and taken to be nobody's socket.                            *)
LastOrder == IF phase = "del" THEN "abort" ELSE "quit"

Dismiss(i) ==
    /\ phase \in {"del", "quit"} /\ snd[i] = "taken"
    /\ snd' = [snd EXCEPT ![i] = IF sd[i] = "none" THEN "missed" ELSE "finished"]
    /\ IF sd[i] = "open" /\ ~dont_reissue[i]
         THEN /\ Send(i, LastOrder)
              /\ sd' = [sd EXCEPT ![i] = "closed"]
         ELSE UNCHANGED <<toPeer, sd>>
    /\ UNCHANGED <<masterVars, lateVars, pos_count, neg_count, dont_reissue, toMaster, peerVars>>

(* The stragglers.  One that has marked no peer takes the lowest mark that *)
(* is free now, and the last order passes this peer over.  Without a free  *)
(* mark it returns 0, and so does a send_del or send_quit.  Nobody reads   *)
(* the counters after the worker's return, so late votes are not counted,  *)
(* and a reply that comes too late for the abort is left unread.           *)
LateTake(i) ==
    /\ phase \in {"del", "quit"} /\ behind > 0
    /\ snd[i] = "queued" /\ \A j \in 1..(i - 1) : snd[j] # "queued"
    /\ behind' = behind - 1
    /\ snd' = [snd EXCEPT ![i] = "passed"]
    /\ untold' = [untold EXCEPT ![i] = @ + 1]
    /\ UNCHANGED <<masterVars, pos_count, neg_count, dont_reissue, sd, unheard,
                   toPeer, toMaster, peerVars>>

(* It connects whatever the phase; a second connection to a peer takes the *)
(* place of the first, which nobody closes any more.                       *)
LatePrecommit(i) ==
    /\ phase = "quit" /\ untold[i] > 0
    /\ untold' = [untold EXCEPT ![i] = @ - 1]
    /\ \E outcome \in {"open"} \cup ({"refused", "nohost"} \cap Faults) :
         /\ sd' = [sd EXCEPT ![i] = outcome]
         /\ IF outcome = "open"
              THEN /\ session' = [session EXCEPT ![i] = "serving"]
                   /\ toPeer' = [toPeer EXCEPT ![i] = <<"precommit">>]
              ELSE UNCHANGED <<session, toPeer>>
    /\ UNCHANGED <<masterVars, pos_count, neg_count, snd, dont_reissue, behind,
                   unheard, toMaster, undoVars, copy, earlier>>

(* It commits on the socket the peer has, in vain when this is closed. *)
LateCommit(i) ==
    /\ phase = "del" /\ untold[i] > 0
    /\ untold' = [untold EXCEPT ![i] = @ - 1]
    /\ unheard' = [unheard EXCEPT ![i] = @ + 1]
    /\ IF sd[i] = "open" THEN Send(i, "commit") ELSE UNCHANGED toPeer
    /\ UNCHANGED <<masterVars, senderVars, behind, toMaster, peerVars>>

(* A late reply to a commit only matters when it holds back the abort. *)
LateRefusal(i) ==
    /\ unheard[i] > 0 /\ toMaster[i] # <<>> /\ Head(toMaster[i]) = "negative_exists"
    /\ unheard' = [unheard EXCEPT ![i] = @ - 1]
    /\ toMaster' = [toMaster EXCEPT ![i] = Tail(@)]
    /\ dont_reissue' = [dont_reissue EXCEPT ![i] = TRUE]
    /\ UNCHANGED <<masterVars, pos_count, neg_count, snd, sd, behind, untold,
                   toPeer, peerVars>>

Straggler(i) ==
    \/ LateTake(i)
    \/ LatePrecommit(i) \/ LateCommit(i)
    \/ LateRefusal(i)

Sender(i) ==
    \/ Take(i)
    \/ SendPrecommit(i) \/ ConnectRefused(i) \/ HostUnknown(i)
    \/ SendCommit(i)
    \/ ReadReply(i) \/ GiveUp(i)
    \/ Dismiss(i)
    \/ Straggler(i)

-----------------------------------------------------------------------------
(* The peers.  readline takes the next order from the connection. *)

Receive(i, order) ==
    /\ session[i] = "serving" /\ toPeer[i] # <<>> /\ Head(toPeer[i]) = order
    /\ toPeer' = [toPeer EXCEPT ![i] = Tail(@)]

Answer(i, a) == toMaster' = [toMaster EXCEPT ![i] = Append(@, a)]

PeerPrecommit(i) ==
    /\ Receive(i, "precommit")
    /\ Answer(i, "positive")
    /\ UNCHANGED <<masterVars, senderVars, lateVars, peerVars>>

(* commit write: read_descriptor found no such number. *)
NumberIgnored(i) == TRUE
NumberFree(i) == copy[i] = "none"

PeerWrites(i) ==
    /\ kind = "write" /\ NumberFree(i)
    /\ Receive(i, "commit")
    /\ copy' = [copy EXCEPT ![i] = "new"]
    /\ undo_command' = [undo_command EXCEPT ![i] = "write"]
    /\ Answer(i, "positive")
    /\ UNCHANGED <<masterVars, senderVars, lateVars, session, undo_message, earlier>>

(* write_descriptor fails: the peer says so and serves on. *)
PeerWriteFails(i) ==
    /\ kind = "write" /\ NumberFree(i) /\ "peerfile" \in Faults
    /\ Receive(i, "commit")
    /\ Answer(i, "negative")
    /\ UNCHANGED <<masterVars, senderVars, lateVars, peerVars>>

(* The number exists, or read_descriptor could not open the file (-2).     *)
(* The thread leaves the loop without closing the socket.                  *)
PeerHasNumber(i) ==
    /\ kind = "write" /\ (copy[i] # "none" \/ "peerfile" \in Faults)
    /\ Receive(i, "commit")
    /\ Answer(i, "negative_exists")
    /\ session' = [session EXCEPT ![i] = "left"]
    /\ UNCHANGED <<masterVars, senderVars, lateVars, undoVars, copy, earlier>>

(* commit replace: save the copy the number has now, a second commit its   *)
(* new text.                                                               *)
SaveForUndo(i) ==
    /\ undo_command' = [undo_command EXCEPT ![i] = "replace"]
    /\ undo_message' = [undo_message EXCEPT ![i] = copy[i]]

PeerReplaces(i) ==
    /\ kind = "replace" /\ copy[i] # "none"
    /\ Receive(i, "commit")
    /\ copy' = [copy EXCEPT ![i] = "new"]
    /\ SaveForUndo(i)
    /\ Answer(i, "positive")
    /\ UNCHANGED <<masterVars, senderVars, lateVars, session, earlier>>

(* The result of replace_descriptor is ignored: the peer still answers     *)
(* "positive", its line blanked or untouched.                              *)
PeerReplaceFails(i) ==
    /\ kind = "replace" /\ copy[i] # "none" /\ "peerfile" \in Faults
    /\ Receive(i, "commit")
    /\ \E c \in {copy[i], "none"} : copy' = [copy EXCEPT ![i] = c]
    /\ SaveForUndo(i)
    /\ Answer(i, "positive")
    /\ UNCHANGED <<masterVars, senderVars, lateVars, session, earlier>>

(* read_descriptor's -2 is not looked at, and read_tokenized_descriptor    *)
(* loops on a file that does not open.                                     *)
PeerReplaceHangs(i) ==
    /\ kind = "replace" /\ "peerfile" \in Faults
    /\ Receive(i, "commit")
    /\ SaveForUndo(i)
    /\ session' = [session EXCEPT ![i] = "hung"]
    /\ UNCHANGED <<masterVars, senderVars, lateVars, toMaster, copy, earlier>>

PeerLacksNumber(i) ==
    /\ kind = "replace" /\ copy[i] = "none"
    /\ Receive(i, "commit")
    /\ Answer(i, "negative")
    /\ session' = [session EXCEPT ![i] = "left"]
    /\ UNCHANGED <<masterVars, senderVars, lateVars, undoVars, copy, earlier>>

(* abort: delete_descriptor after a write, the old line back after a       *)
(* replace, nothing when undo_command holds neither word.                  *)
NotUndone(i) == copy[i]
Undone(i) ==
    CASE undo_command[i] = "write"   -> "none"
      [] undo_command[i] = "replace" -> undo_message[i]
      [] OTHER                       -> copy[i]

PeerAborts(i) ==
    /\ Receive(i, "abort")
    /\ copy' = [copy EXCEPT ![i] = Undone(i)]
    /\ earlier' = [earlier EXCEPT ![i] =
                     IF undo_command[i] = "stale" THEN "lost" ELSE @]
    /\ session' = [session EXCEPT ![i] = "over"]
    /\ UNCHANGED <<masterVars, senderVars, lateVars, toMaster, undoVars>>

(* The undo itself cannot open the file: seek_msg_descriptor loops, unless *)
(* what its uninitialised line holds happens to be the number.             *)
PeerUndoFails(i) ==
    /\ Receive(i, "abort")
    /\ "peerfile" \in Faults /\ undo_command[i] # "none"
    /\ \E s \in {"hung", "over"} : session' = [session EXCEPT ![i] = s]
    /\ UNCHANGED <<masterVars, senderVars, lateVars, toMaster, undoVars, copy, earlier>>

PeerQuits(i) ==
    /\ Receive(i, "quit")
    /\ session' = [session EXCEPT ![i] = "over"]
    /\ UNCHANGED <<masterVars, senderVars, lateVars, toMaster, undoVars, copy, earlier>>

Peer(i) ==
    \/ PeerPrecommit(i)
    \/ PeerWrites(i) \/ PeerWriteFails(i) \/ PeerHasNumber(i)
    \/ PeerReplaces(i) \/ PeerReplaceFails(i) \/ PeerReplaceHangs(i)
    \/ PeerLacksNumber(i)
    \/ PeerAborts(i) \/ PeerUndoFails(i)
    \/ PeerQuits(i)

-----------------------------------------------------------------------------
Next ==
    \/ Master
    \/ WakeUnsignalled
    \/ \E i \in Peers : Sender(i) \/ Peer(i)

(* Every thread that can take a step eventually does: the kernel runs it,  *)
(* poll() returns within 10 ms, TCP delivers what was sent.  A wake-up     *)
(* without a signal is allowed, never counted on.                          *)
Fairness ==
    /\ WF_vars(Master)
    /\ \A i \in Peers : WF_vars(Sender(i)) /\ WF_vars(Peer(i))

Spec == Init /\ [][Next]_vars /\ Fairness

-----------------------------------------------------------------------------
(* Properties. *)

(* server_operations.cc:489-532: the client hears of success only when the *)
(* new message stands in the master's file and in the file of every peer,  *)
(* and no abort, late reply or time-out takes it away afterwards.          *)
WroteEverywhere ==
    reply = "ok" => local = "new" /\ \A i \in Peers : copy[i] = "new"

(* protocol2pc.txt:32-33, server_operations.cc:405: no peer changes its    *)
(* file before every peer has been reached, that is, serves or has served  *)
(* this command; nothing is committed anywhere while one peer is down, and *)
(* no early return of the worker commits before the last peer is reached.  *)
CommitNeedsAll ==
    (\E i \in Peers : copy[i] = "new") => \A j \in Peers : session[j] # "none"

(* peer_operations.cc:220-260: whatever the order of commits, time-outs    *)
(* and aborts, a WRITE never replaces nor deletes a message a peer         *)
(* already has under that number.                                          *)
KeepsExisting ==
    [][kind = "write" => \A i \in Peers : copy[i] = "old" => copy'[i] = "old"]_vars

(* protocol2pc.txt:71-73: once the client is told of an error, every peer  *)
(* ends up without the new message, for good: also the peer whose          *)
(* "positive" came too late to be counted, or who reads a straggler's      *)
(* commit beside the abort.  Excepted is the peer that the abort passes    *)
(* over, a straggler having taken its mark (server_operations.cc:540-543): *)
(* only an unsignalled return of the worker (451-454) leads there.         *)
AbortReaches ==
    (reply = "error")
        ~> [](\A i \in Peers : snd[i] = "passed" \/ copy[i] # "new")

(* server_operations.cc:827-830, 966-969: a worker thread that does wait   *)
(* before the last vote is counted is woken, if every vote gets counted.   *)
WaiterWoken ==
    (mpc = "wait" /\ ~EveryAnswerIn /\ \A i \in Peers : sd[i] # "nohost")
        ~> (mpc # "wait")

(* protocol2pc.txt:35,44,56: when the client has its answer, no receiver   *)
(* thread of any peer keeps serving this session.  Not so after a REPLACE  *)
(* whose precommit failed: sync_replace (625-628) queues no send_quit.     *)
(* Nor at a peer whose last order a straggler made the master pass over,   *)
(* or miss because the straggler had yet to connect.                       *)
SessionReleased ==
    (reply # "none" /\ (kind = "write" \/ phase # "precommit"))
        ~> [](\A i \in Peers : snd[i] \in {"passed", "missed"} \/ session[i] # "serving")

(* protocol2pc.txt:33: "If all the peers acknowledge the PRECOMMIT with     *)
(* "positive" then the server proceeds to COMMIT."                         *)
PrecommitProceeds == (phase = "precommit" /\ AllPositive) ~> (phase = "commit")

(* README.md:125,161: a client whose peer cannot be found gets an error.   *)
PeerNotFoundAnswered == (\E i \in Peers : sd[i] = "nohost") ~> (reply = "error")

(* protocol2pc.txt:42: abort undoes the last command of the current        *)
(* session, so it takes no message that an earlier session committed.      *)
EarlierKept == \A i \in Peers : earlier[i] = "kept"
=============================================================================
