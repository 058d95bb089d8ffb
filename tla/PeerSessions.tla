---------------------------- MODULE PeerSessions ----------------------------
(***************************************************************************)
(* One server as the peer of several masters (peer_operations.cc:36-396):  *)
(* peer_receiver_control accepts their connections and queues a job for    *)
(* each, but all jobs get the address of one client_t; the receiver thread *)
(* that takes a job reads the socket from it when it gets to run.  Threads *)
(* in their sessions check that a number is free and append the line in    *)
(* two calls, each of which locks the file by itself.                      *)
(*                                                                         *)
(* A connection is its master.  The protocol as a master runs it, with its *)
(* timeouts and failures, is SyncCommit; here a master may abort at any    *)
(* time, and sends quit only if its commit was answered "positive".        *)
(***************************************************************************)
EXTENDS Integers, Sequences, FiniteSets

CONSTANTS
    Masters,      \* each sends one WRITE to this peer
    Receivers,    \* threads of peer_receiver_team
    Number,       \* Number[m]: the message number master m has generated
    Nobody        \* no connection; the user name before a precommit

ASSUME NobodyAssumption == Nobody \notin Masters
ASSUME NumberAssumption == Number \in [Masters -> Nat \ {0}]

NoNumber == 0   \* a blanked line; nothing to undo

VARIABLES
    file,        \* lines: their number and the user they are signed with
    backlog,     \* connections that wait to be accepted
    clnt,        \* the socket in the one client_t
    lpc,         \* the listener: at accept, or about to queue the job
    jobs,        \* length of the receiver team's queue
    mpc,         \* how far each master is
    toPeer,      \* toPeer[m]: orders it sent that nobody has read
    answer,      \* answer[m]: the last answer it was sent and has not used
    rpc, sd,     \* where each receiver thread is, and its socket
    user, undo,  \* its client.user, and undo_nmbr if this session has set it
    left,        \* undo_nmbr as an earlier session has left it
    served,      \* history: served[m]: the threads that had its socket
    clash,       \* history: connections accepted while a job had not yet
                 \* read client_t, and those it was overwritten for
    raced,       \* history: numbers two threads found free at once
    astray       \* history: numbers blanked for a session without a line of
                 \* that number

listener == <<backlog, clnt, lpc, jobs>>
masters == <<mpc, toPeer, answer>>
threads == <<rpc, sd, user, undo, left>>
history == <<served, clash, raced, astray>>
vars == <<file, backlog, clnt, lpc, jobs, mpc, toPeer, answer, rpc, sd, user, undo,
          left, served, clash, raced, astray>>

Orders == {"precommit", "commit", "quit", "abort"}

TypeOK ==
    /\ file \in Seq([num : Nat, by : Masters \cup {Nobody}])
    /\ backlog \in SUBSET Masters
    /\ clnt \in Masters \cup {Nobody} /\ lpc \in {"accept", "push"} /\ jobs \in Nat
    /\ mpc \in [Masters -> {"new", "connected", "committing", "quit", "aborted"}]
    /\ toPeer \in [Masters -> Seq(Orders)]
    /\ answer \in [Masters -> {"none", "positive", "negative_exists"}]
    /\ rpc \in [Receivers -> {"idle", "begin", "read", "check", "write"}]
    /\ sd \in [Receivers -> Masters \cup {Nobody}]
    /\ user \in [Receivers -> Masters \cup {Nobody}]
    /\ undo \in [Receivers -> Nat] /\ left \in [Receivers -> Nat]
    /\ served \in [Masters -> SUBSET Receivers]
    /\ clash \in SUBSET (Masters \cup {Nobody})
    /\ raced \in SUBSET Nat /\ astray \in SUBSET Nat

Init ==
    /\ file = <<>> /\ backlog = {} /\ clnt = Nobody /\ lpc = "accept" /\ jobs = 0
    /\ mpc = [m \in Masters |-> "new"]
    /\ toPeer = [m \in Masters |-> <<>>]
    /\ answer = [m \in Masters |-> "none"]
    /\ rpc = [r \in Receivers |-> "idle"]
    /\ sd = [r \in Receivers |-> Nobody]
    /\ user = [r \in Receivers |-> Nobody]
    /\ undo = [r \in Receivers |-> NoNumber]
    /\ left = [r \in Receivers |-> NoNumber]
    /\ served = [m \in Masters |-> {}] /\ clash = {} /\ raced = {} /\ astray = {}

-----------------------------------------------------------------------------
(* Masters *)

Sends(m, order) == toPeer' = [toPeer EXCEPT ![m] = Append(@, order)]

Becomes(m, place) == mpc' = [mpc EXCEPT ![m] = place]

Connect(m) ==
    /\ mpc[m] = "new" /\ Becomes(m, "connected")
    /\ Sends(m, "precommit")
    /\ backlog' = backlog \cup {m}
    /\ UNCHANGED <<file, clnt, lpc, jobs, answer, threads, history>>

SendCommit(m) ==
    /\ mpc[m] = "connected" /\ answer[m] = "positive"
    /\ Becomes(m, "committing") /\ Sends(m, "commit")
    /\ answer' = [answer EXCEPT ![m] = "none"]
    /\ UNCHANGED <<file, listener, threads, history>>

SendQuit(m) ==
    /\ mpc[m] = "committing" /\ answer[m] = "positive"
    /\ Becomes(m, "quit") /\ Sends(m, "quit")
    /\ UNCHANGED <<file, listener, answer, threads, history>>

(* Another peer refused, or an answer did not come in time. *)
SendAbort(m) ==
    /\ mpc[m] \in {"connected", "committing"}
    /\ Becomes(m, "aborted") /\ Sends(m, "abort")
    /\ UNCHANGED <<file, listener, answer, threads, history>>

-----------------------------------------------------------------------------
(* peer_receiver_control *)

Unread == jobs > 0 \/ \E r \in Receivers : rpc[r] = "begin"

(* accept; clnt->sd = ssock, in the client_t of the job before. *)
AcceptPeer(m) ==
    /\ lpc = "accept" /\ m \in backlog
    /\ backlog' = backlog \ {m}
    /\ clnt' = m
    /\ lpc' = "push"
    /\ clash' = IF Unread THEN clash \cup {clnt, m} ELSE clash
    /\ UNCHANGED <<file, jobs, masters, threads, served, raced, astray>>

QueueJobTwice ==  \* posts once more than there is work
    /\ lpc = "push" /\ lpc' = "accept"
    /\ jobs' = jobs + 2
    /\ UNCHANGED <<file, backlog, clnt, masters, threads, history>>

QueueJobIfQuiet ==  \* loses the job if no thread is free to notice it
    /\ lpc = "push" /\ lpc' = "accept"
    /\ jobs' = IF \E r \in Receivers : rpc[r] = "read" THEN jobs ELSE jobs + 1
    /\ UNCHANGED <<file, backlog, clnt, masters, threads, history>>

(* add_work_to_team *)
QueueJob ==
    /\ lpc = "push" /\ lpc' = "accept"
    /\ jobs' = jobs + 1
    /\ UNCHANGED <<file, backlog, clnt, masters, threads, history>>

Listener == QueueJob \/ \E m \in Masters : AcceptPeer(m)

-----------------------------------------------------------------------------
(* peer_receiver_operations *)

Goto(r, place) == rpc' = [rpc EXCEPT ![r] = place]

TakeJob(r) ==
    /\ rpc[r] = "idle" /\ jobs > 0
    /\ jobs' = jobs - 1
    /\ Goto(r, "begin")
    /\ UNCHANGED <<file, backlog, clnt, lpc, masters, sd, user, undo, left, history>>

(* What the session would undo: the test undo_command != NULL always holds. *)
Undoes(r) == IF undo[r] # NoNumber THEN undo[r] ELSE left[r]

(* The socket is read from client_t now.  Nothing sets undo_command and    *)
(* undo_nmbr, arrays on the stack: they hold what the last session of this *)
(* thread left there, or other calls have overwritten it since.            *)
Begin(r) ==
    /\ rpc[r] = "begin" /\ Goto(r, "read")
    /\ sd' = [sd EXCEPT ![r] = clnt]
    /\ user' = [user EXCEPT ![r] = Nobody]
    /\ undo' = [undo EXCEPT ![r] = NoNumber]
    /\ \E n \in {Undoes(r), NoNumber} : left' = [left EXCEPT ![r] = n]
    /\ served' = [served EXCEPT ![clnt] = @ \cup {r}]
    /\ UNCHANGED <<file, listener, masters, clash, raced, astray>>

(* readline returns the next order that came on the socket. *)
Reads(r, order) ==
    /\ rpc[r] = "read" /\ toPeer[sd[r]] # <<>> /\ Head(toPeer[sd[r]]) = order
    /\ toPeer' = [toPeer EXCEPT ![sd[r]] = Tail(@)]

Says(r, what) == answer' = [answer EXCEPT ![sd[r]] = what]

Precommit(r) ==
    /\ Reads(r, "precommit")
    /\ user' = [user EXCEPT ![r] = sd[r]]
    /\ Says(r, "positive")
    /\ UNCHANGED <<file, listener, mpc, rpc, sd, undo, left, history>>

Commit(r) ==
    /\ Reads(r, "commit")
    /\ Goto(r, "check")
    /\ UNCHANGED <<file, listener, mpc, answer, sd, user, undo, left, history>>

Taken(n) == \E k \in DOMAIN file : file[k].num = n

CheckSkipped(r) ==  \* appends without a look at what the check returned
    LET n == Number[sd[r]]
    IN  /\ rpc[r] = "check" /\ Goto(r, "write")
        /\ UNCHANGED <<file, listener, masters, sd, user, undo, left, history>>

(* read_descriptor finds the number free. *)
CheckFree(r) ==
    LET n == Number[sd[r]]
    IN  /\ rpc[r] = "check" /\ ~Taken(n) /\ Goto(r, "write")
        /\ raced' = IF \E q \in Receivers \ {r} :
                         rpc[q] = "write" /\ Number[sd[q]] = n
                      THEN raced \cup {n} ELSE raced
        /\ UNCHANGED <<file, listener, masters, sd, user, undo, left, served, clash, astray>>

(* The number is there: the session is left, its socket stays open. *)
CheckTaken(r) ==
    /\ rpc[r] = "check" /\ Taken(Number[sd[r]]) /\ Goto(r, "idle")
    /\ Says(r, "negative_exists")
    /\ UNCHANGED <<file, listener, mpc, toPeer, sd, user, undo, left, history>>

WriteNotUndoable(r) ==  \* does not note how to undo it
    LET n == Number[sd[r]]
    IN  /\ rpc[r] = "write" /\ Goto(r, "read")
        /\ file' = Append(file, [num |-> n, by |-> user[r]])
        /\ Says(r, "positive")
        /\ UNCHANGED <<listener, mpc, toPeer, sd, user, undo, left, history>>

(* write_descriptor, undo_command and undo_nmbr *)
Write(r) ==
    LET n == Number[sd[r]]
    IN  /\ rpc[r] = "write" /\ Goto(r, "read")
        /\ file' = Append(file, [num |-> n, by |-> user[r]])
        /\ undo' = [undo EXCEPT ![r] = n]
        /\ Says(r, "positive")
        /\ UNCHANGED <<listener, mpc, toPeer, sd, user, left, history>>

(* delete_descriptor blanks the first line with the number.  Without one   *)
(* seek_msg_descriptor returns 0 and leaves msg_len unset: what is blanked *)
(* is the beginning of the file, at a length that is garbage.              *)
Blank == [num |-> NoNumber, by |-> Nobody]

Deleted(n) ==
    [k \in DOMAIN file |->
        IF file[k].num = n /\ \A j \in 1..(k - 1) : file[j].num # n
          THEN Blank ELSE file[k]]

Wiped(last) == [k \in DOMAIN file |-> IF k <= last THEN Blank ELSE file[k]]

AbortByNumber(r) ==  \* deletes the message whether this session wrote it or not
    /\ Reads(r, "abort") /\ Goto(r, "idle")
    /\ file' = Deleted(Number[sd[r]])
    /\ UNCHANGED <<listener, mpc, answer, sd, user, undo, left, history>>

Abort(r) ==
    LET n == Undoes(r)
    IN  /\ Reads(r, "abort") /\ Goto(r, "idle")
        /\ \/ n = NoNumber /\ UNCHANGED <<file, astray>>
           \/ /\ n # NoNumber /\ Taken(n)
              /\ file' = Deleted(n)
              /\ astray' = IF undo[r] = NoNumber THEN astray \cup {n} ELSE astray
           \/ /\ n # NoNumber /\ ~Taken(n)
              /\ \E last \in DOMAIN file :
                   /\ file' = Wiped(last)
                   /\ astray' = astray \cup {file[k].num : k \in 1..last}
        /\ UNCHANGED <<listener, mpc, answer, sd, user, undo, left, served, clash, raced>>

Quit(r) ==
    /\ Reads(r, "quit") /\ Goto(r, "idle")
    /\ UNCHANGED <<file, listener, mpc, answer, sd, user, undo, left, history>>

(* The other thread on this socket shut it down, and readline finds the end. *)
Hangup(r) ==
    /\ rpc[r] = "read" /\ toPeer[sd[r]] = <<>>
    /\ mpc[sd[r]] \in {"quit", "aborted"}
    /\ Goto(r, "idle")
    /\ UNCHANGED <<file, listener, masters, sd, user, undo, left, history>>

Receiver(r) ==
    \/ TakeJob(r) \/ Begin(r) \/ Precommit(r) \/ Commit(r) \/ CheckFree(r)
    \/ CheckTaken(r) \/ Write(r) \/ Abort(r) \/ Quit(r) \/ Hangup(r)

Master(m) == Connect(m) \/ SendCommit(m) \/ SendQuit(m) \/ SendAbort(m)

Next ==
    \/ \E m \in Masters : Master(m)
    \/ Listener
    \/ \E r \in Receivers : Receiver(r)

Fairness ==
    /\ WF_vars(Listener)
    /\ \A r \in Receivers : WF_vars(Receiver(r))

Spec == Init /\ [][Next]_vars /\ Fairness

-----------------------------------------------------------------------------
(* Properties *)

(* Every connection gets one thread.  It gets two, or none at all, only if *)
(* it was accepted before the job of another had read the shared client_t, *)
(* or was overwritten in it (peer_operations.cc:52-70, 88-92).             *)
OneThreadEach ==
    \A m \in Masters :
        \/ m \in clash
        \/ /\ Cardinality(served[m]) <= 1
           /\ (mpc[m] # "new" /\ m \notin backlog /\ served[m] = {})
                => clnt = m

(* A number is in the file twice only if two threads found it free before  *)
(* either of them appended its line (peer_operations.cc:220-225): with any *)
(* other interleaving of the commits the second is refused.                *)
DuplicatesRaced ==
    \A j, k \in DOMAIN file :
        j # k /\ file[j].num = file[k].num => file[j].num \in raced \cup {NoNumber}

(* A master that quits, having been told "positive", leaves its message in *)
(* the file, whatever other masters abort.  Two things may take it: its    *)
(* number was raced for, and the abort of another deletes the first line   *)
(* that has it; or a session that had not committed got an abort, found in *)
(* undo_nmbr what an earlier session of its thread had left, and deleted   *)
(* this number, or wiped this line for a number the file no longer had     *)
(* (peer_operations.cc:101, 130-137, descriptor.cc:176).  The abort of a   *)
(* session that did commit takes no line but its own.                      *)
QuitStays ==
    \A m \in Masters :
        mpc[m] = "quit" =>
            \/ Number[m] \in raced \cup astray
            \/ \E k \in DOMAIN file : file[k].num = Number[m]

(* An abort that a thread has read leaves none of this master's lines,     *)
(* also if it overtook the answer to the commit: the thread that reads it  *)
(* has carried out the commit before, unless two threads share the socket. *)
AbortLeavesNothing ==
    \A m \in Masters \ clash :
        (mpc[m] = "aborted" /\ toPeer[m] = <<>> /\ Number[m] \notin raced
           /\ served[m] # {} /\ \A r \in served[m] : sd[r] = m => rpc[r] = "idle")
        => \A k \in DOMAIN file : file[k].by # m

(* Fewer threads are free than connections wait: masters that neither quit *)
(* nor abort keep theirs.                                                  *)
Crowded == \A r \in Receivers : rpc[r] \in {"begin", "read", "check", "write"}

(* Who connects is served, unless its socket was overwritten or shared     *)
(* (peer_operations.cc:58): two threads on one socket leave one connection *)
(* to wait for an answer to its precommit for ever.                        *)
Served ==
    \A m \in Masters : (mpc[m] = "connected" /\ toPeer[m] # <<>>)
        ~> (toPeer[m] = <<>> \/ m \in clash \/ Crowded)
=============================================================================
