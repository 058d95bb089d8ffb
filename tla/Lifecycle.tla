----------------------------- MODULE Lifecycle -----------------------------
(***************************************************************************)
(* The server from main to the end of the process (bbserv.cc,              *)
(* peer_operations.cc:13-79): main and the signal handlers, start_server,  *)
(* peer_establisher, peer_receiver_control, and quit_handler, with the     *)
(* four teams each start creates and the one threads_keepalive they share. *)
(*                                                                         *)
(* A team has one employee here; what several of them do among themselves  *)
(* is ThreadPool.  Team <<k, g>> is the team of kind k of the g-th start.  *)
(* A session is at "work" until its client goes; how quit_handler makes    *)
(* clients go is ClientList, what a command does SyncCommit and Descriptor.*)
(***************************************************************************)
EXTENDS Integers

CONSTANTS
    Starts,    \* how often main may start the server
    Signals,   \* how many signals arrive
    Clients,   \* how many connections each listener may accept in all
    Early,     \* whether signals and WRITEs may come while a start is under way
    Writes     \* whether there are peers, so that a WRITE needs the senders

ASSUME BoundsAssumption ==
    Starts \in Nat \ {0} /\ Signals \in Nat /\ Clients \in Nat
ASSUME FlagsAssumption == Early \in BOOLEAN /\ Writes \in BOOLEAN

Gens == 1..Starts
Kinds == {"file", "control", "receiver", "sender"}
Teams == Kinds \X Gens
None == 0     \* a null team pointer; a socket not opened

VARIABLES
    threads_keepalive, bealive,
    mpc, gen,                      \* main, and the starts it has made
    hupReceived, quitReceived,
    handler,                       \* "idle", or the thread a handler runs on
    signals,                       \* those still to come
    spc, epc, cpc,                 \* start_server, peer_establisher, and
                                   \* peer_receiver_control of each start
    master_socket, peer_listener,  \* server_config's copies of the sockets
    bpOpen, spOpen,                \* starts whose listening socket is open
    file_team, peer_sender_team,   \* the global pointers
    team,                          \* how far each team's life is
    emp,                           \* where its employee is
    jobs,                          \* length of its queue
    accepts,                       \* connections still to come
    freedUsed                      \* history: what was done to a freed team

shared == <<threads_keepalive, bealive>>
main == <<mpc, gen>>
sigs == <<hupReceived, quitReceived, handler, signals>>
sockets == <<master_socket, peer_listener, bpOpen, spOpen>>
pointers == <<file_team, peer_sender_team>>
pool == <<team, emp, jobs>>
vars == <<threads_keepalive, bealive, mpc, gen, hupReceived, quitReceived,
          handler, signals, spc, epc, cpc, master_socket, peer_listener,
          bpOpen, spOpen, file_team, peer_sender_team, team, emp, jobs,
          accepts, freedUsed>>

Quitting == {"stop", "file", "fileWait", "sender", "senderWait", "house"}

TypeOK ==
    /\ threads_keepalive \in BOOLEAN /\ bealive \in BOOLEAN
    /\ mpc \in {"launch", "locked", "wait", "decide", "ended", "crashed"}
                \cup Quitting
    /\ gen \in 0..Starts
    /\ hupReceived \in BOOLEAN /\ quitReceived \in BOOLEAN
    /\ handler \in {"idle", "main", "other"} /\ signals \in 0..Signals
    /\ spc \in [Gens -> {"none", "begin", "bound", "hire", "hiring", "accept",
                         "got", "dead"}]
    /\ epc \in [Gens -> {"none", "begin", "hiringControl", "hireSender",
                         "hiringSender", "done"}]
    /\ cpc \in [Gens -> {"none", "bind", "hire", "hiring", "accept",
                         "terminate", "ending", "returned"}]
    /\ master_socket \in 0..Starts /\ peer_listener \in 0..Starts
    /\ bpOpen \in SUBSET Gens /\ spOpen \in SUBSET Gens
    /\ file_team \in 0..Starts /\ peer_sender_team \in 0..Starts
    /\ team \in [Teams -> {"none", "hiring", "up", "ending", "freed"}]
    /\ emp \in [Teams -> {"none", "created", "loop", "wait", "work", "writing",
                          "gone"}]
    /\ jobs \in [Teams -> Nat]
    /\ accepts \in 0..Clients
    /\ freedUsed \in SUBSET {"terminate", "push"}

Init ==
    /\ threads_keepalive = FALSE /\ bealive = TRUE
    /\ mpc = "launch" /\ gen = 0
    /\ hupReceived = FALSE /\ quitReceived = FALSE
    /\ handler = "idle" /\ signals = Signals
    /\ spc = [g \in Gens |-> "none"] /\ epc = [g \in Gens |-> "none"]
    /\ cpc = [g \in Gens |-> "none"]
    /\ master_socket = None /\ peer_listener = None
    /\ bpOpen = {} /\ spOpen = {}
    /\ file_team = None /\ peer_sender_team = None
    /\ team = [t \in Teams |-> "none"] /\ emp = [t \in Teams |-> "none"]
    /\ jobs = [t \in Teams |-> 0]
    /\ accepts = Clients /\ freedUsed = {}

-----------------------------------------------------------------------------
(* create_team and terminate_team, as their callers run them *)

(* create_team up to the threads it creates. *)
Create(t) ==
    /\ threads_keepalive' = TRUE
    /\ team' = [team EXCEPT ![t] = "hiring"]
    /\ emp' = [emp EXCEPT ![t] = "created"]
    /\ UNCHANGED jobs

(* no_of_employees_available is 1 while the employee is in one of these. *)
Available(t) == emp[t] \in {"loop", "wait", "work", "writing"}

(* create_team spins until all have reported, and returns. *)
Created(t) ==
    /\ Available(t)
    /\ team' = [team EXCEPT ![t] = "up"]

(* terminate_team clears the flag of all teams, not only of this one. *)
Terminate(t) ==
    /\ threads_keepalive' = FALSE
    /\ team' = [team EXCEPT ![t] = "ending"]
    /\ freedUsed' = IF team[t] = "freed" THEN freedUsed \cup {"terminate"}
                    ELSE freedUsed

TerminatedAtOnce(t) ==  \* gives up after the second of grace
    /\ team' = [team EXCEPT ![t] = "freed"]
    /\ jobs' = [jobs EXCEPT ![t] = 0]

(* It posts until nobody is available, and frees queue and team. *)
Terminated(t) ==
    /\ ~Available(t)
    /\ team' = [team EXCEPT ![t] = "freed"]
    /\ jobs' = [jobs EXCEPT ![t] = 0]

(* add_work_to_team *)
AddWork(t) ==
    /\ jobs' = [jobs EXCEPT ![t] = @ + 1]
    /\ freedUsed' = IF team[t] \in {"none", "freed"} THEN freedUsed \cup {"push"}
                    ELSE freedUsed

-----------------------------------------------------------------------------
(* Employees (activate_employee) *)

Step(t, from, to) == emp[t] = from /\ emp' = [emp EXCEPT ![t] = to]

Report(t) ==
    /\ Step(t, "created", "loop")
    /\ UNCHANGED <<shared, main, sigs, spc, epc, cpc, sockets, pointers, team,
                   jobs, accepts, freedUsed>>

(* while(threads_keepalive) *)
TestAlive(t) ==
    /\ Step(t, "loop", IF threads_keepalive THEN "wait" ELSE "gone")
    /\ UNCHANGED <<shared, main, sigs, spc, epc, cpc, sockets, pointers, team,
                   jobs, accepts, freedUsed>>

(* bsem_wait returns because a job came or because the team is being       *)
(* terminated; the flag is read again before the queue is.                 *)
WakeUp(t) ==
    /\ jobs[t] > 0 \/ team[t] = "ending"
    /\ IF threads_keepalive /\ jobs[t] > 0
         THEN /\ Step(t, "wait", "work")
              /\ jobs' = [jobs EXCEPT ![t] = @ - 1]
              /\ cpc' = IF t[1] = "control"
                          THEN [cpc EXCEPT ![t[2]] = "bind"] ELSE cpc
         ELSE /\ Step(t, "wait", "loop")
              /\ UNCHANGED <<jobs, cpc>>
    /\ UNCHANGED <<shared, main, sigs, spc, epc, sockets, pointers, team,
                   accepts, freedUsed>>

(* A client's session ends, and its employee goes back to the loop. *)
SessionEnds(g) ==
    /\ Step(<<"file", g>>, "work", "loop")
    /\ UNCHANGED <<shared, main, sigs, spc, epc, cpc, sockets, pointers, team,
                   jobs, accepts, freedUsed>>

(* A peer's session ends when the peer says so: nothing here asks it to.   *)
PeerSessionEnds(g) ==
    /\ Step(<<"receiver", g>>, "work", "loop")
    /\ UNCHANGED <<shared, main, sigs, spc, epc, cpc, sockets, pointers, team,
                   jobs, accepts, freedUsed>>

(* WRITE or REPLACE with a peer: a job for the senders, and a wait for it. *)
(* The pointer to them is null until the establisher has assigned it.      *)
StartWrite(g) ==
    /\ Writes /\ emp[<<"file", g>>] = "work"
    /\ Early \/ epc[gen] = "done"
    /\ IF peer_sender_team = None
         THEN /\ mpc' = "crashed"
              /\ UNCHANGED <<emp, jobs, freedUsed>>
         ELSE /\ Step(<<"file", g>>, "work", "writing")
              /\ AddWork(<<"sender", peer_sender_team>>)
              /\ UNCHANGED mpc
    /\ UNCHANGED <<shared, gen, sigs, spc, epc, cpc, sockets, pointers, team,
                   accepts>>

(* A sender's job is done, and the session that waited for it goes on. *)
SenderDone(s, g) ==
    /\ emp[<<"sender", s>>] = "work" /\ emp[<<"file", g>>] = "writing"
    /\ emp' = [emp EXCEPT ![<<"sender", s>>] = "loop", ![<<"file", g>>] = "work"]
    /\ UNCHANGED <<shared, main, sigs, spc, epc, cpc, sockets, pointers, team,
                   jobs, accepts, freedUsed>>

(* peer_receiver_control has returned. *)
ControlReturns(g) ==
    /\ cpc[g] = "returned"
    /\ Step(<<"control", g>>, "work", "loop")
    /\ UNCHANGED <<shared, main, sigs, spc, epc, cpc, sockets, pointers, team,
                   jobs, accepts, freedUsed>>
-----------------------------------------------------------------------------
(* start_server and bb_server *)

(* bealive, and the listening socket, which an earlier start may still hold. *)
BindServer(g) ==
    /\ spc[g] = "begin"
    /\ bealive' = TRUE
    /\ IF bpOpen = {}
         THEN /\ bpOpen' = {g}
              /\ spc' = [spc EXCEPT ![g] = "bound"]
         ELSE /\ spc' = [spc EXCEPT ![g] = "dead"]
              /\ UNCHANGED bpOpen
    /\ UNCHANGED <<threads_keepalive, main, sigs, epc, cpc, master_socket,
                   peer_listener, spOpen, pointers, pool, accepts, freedUsed>>

(* After the board file is found or made the socket becomes known.  If it  *)
(* can be neither, start_server returns, and the socket stays open.        *)
RegisterServer(g) ==
    /\ spc[g] = "bound"
    /\ \/ /\ master_socket' = g
          /\ spc' = [spc EXCEPT ![g] = "hire"]
       \/ /\ spc' = [spc EXCEPT ![g] = "dead"]
          /\ UNCHANGED master_socket
    /\ UNCHANGED <<shared, main, sigs, epc, cpc, peer_listener, bpOpen, spOpen,
                   pointers, pool, accepts, freedUsed>>

HireServer(g) ==
    /\ spc[g] = "hire"
    /\ Create(<<"file", g>>)
    /\ spc' = [spc EXCEPT ![g] = "hiring"]
    /\ UNCHANGED <<bealive, main, sigs, epc, cpc, sockets, pointers, accepts,
                   freedUsed>>

(* file_team is assigned, and peer_establisher gets a thread of its own. *)
HiredServer(g) ==
    /\ spc[g] = "hiring"
    /\ Created(<<"file", g>>)
    /\ file_team' = g
    /\ epc' = [epc EXCEPT ![g] = "begin"]
    /\ spc' = [spc EXCEPT ![g] = IF bealive THEN "accept" ELSE "dead"]
    /\ UNCHANGED <<shared, main, sigs, cpc, sockets, peer_sender_team, emp,
                   jobs, accepts, freedUsed>>

(* accept: a client, or an error once the socket was shut down. *)
AcceptClient(g) ==
    /\ spc[g] = "accept"
    /\ IF g \in bpOpen
         THEN /\ accepts > 0 /\ accepts' = accepts - 1
              /\ spc' = [spc EXCEPT ![g] = "got"]
         ELSE /\ spc' = [spc EXCEPT ![g] = "dead"]
              /\ UNCHANGED accepts
    /\ UNCHANGED <<shared, main, sigs, epc, cpc, sockets, pointers, pool,
                   freedUsed>>

(* pass_to_team, to the team the global points to, and while(bealive). *)
PassToTeam(g) ==
    /\ spc[g] = "got"
    /\ AddWork(<<"file", file_team>>)
    /\ spc' = [spc EXCEPT ![g] = IF bealive THEN "accept" ELSE "dead"]
    /\ UNCHANGED <<shared, main, sigs, epc, cpc, sockets, pointers, team, emp,
                   accepts>>

Server(g) ==
    \/ BindServer(g) \/ RegisterServer(g) \/ HireServer(g) \/ HiredServer(g)
    \/ AcceptClient(g) \/ PassToTeam(g)

-----------------------------------------------------------------------------
(* peer_establisher *)

HireControl(g) ==
    /\ epc[g] = "begin"
    /\ Create(<<"control", g>>)
    /\ epc' = [epc EXCEPT ![g] = "hiringControl"]
    /\ UNCHANGED <<bealive, main, sigs, spc, cpc, sockets, pointers, accepts,
                   freedUsed>>

(* The pointer is a local that shadows the global: nobody else learns it.  *)
HiredControl(g) ==
    /\ epc[g] = "hiringControl"
    /\ Created(<<"control", g>>)
    /\ AddWork(<<"control", g>>)
    /\ epc' = [epc EXCEPT ![g] = "hireSender"]
    /\ UNCHANGED <<shared, main, sigs, spc, cpc, sockets, pointers, emp, accepts>>

HireSender(g) ==
    /\ epc[g] = "hireSender"
    /\ Create(<<"sender", g>>)
    /\ epc' = [epc EXCEPT ![g] = "hiringSender"]
    /\ UNCHANGED <<bealive, main, sigs, spc, cpc, sockets, pointers, accepts,
                   freedUsed>>

HiredSender(g) ==
    /\ epc[g] = "hiringSender"
    /\ Created(<<"sender", g>>)
    /\ peer_sender_team' = g
    /\ epc' = [epc EXCEPT ![g] = "done"]
    /\ UNCHANGED <<shared, main, sigs, spc, cpc, sockets, file_team, emp, jobs,
                   accepts, freedUsed>>

Establisher(g) ==
    HireControl(g) \/ HiredControl(g) \/ HireSender(g) \/ HiredSender(g)

-----------------------------------------------------------------------------
(* peer_receiver_control, the job of the control team's employee *)

BindListener(g) ==
    /\ cpc[g] = "bind"
    /\ IF spOpen = {} THEN spOpen' = {g} /\ peer_listener' = g
                      ELSE peer_listener' = None /\ UNCHANGED spOpen
    /\ cpc' = [cpc EXCEPT ![g] = "hire"]
    /\ UNCHANGED <<shared, main, sigs, spc, epc, master_socket, bpOpen,
                   pointers, pool, accepts, freedUsed>>

HireReceiver(g) ==
    /\ cpc[g] = "hire"
    /\ Create(<<"receiver", g>>)
    /\ cpc' = [cpc EXCEPT ![g] = "hiring"]
    /\ UNCHANGED <<bealive, main, sigs, spc, epc, sockets, pointers, accepts,
                   freedUsed>>

HiredReceiver(g) ==
    /\ cpc[g] = "hiring"
    /\ Created(<<"receiver", g>>)
    /\ cpc' = [cpc EXCEPT ![g] = IF bealive THEN "accept" ELSE "returned"]
    /\ UNCHANGED <<shared, main, sigs, spc, epc, sockets, pointers, emp, jobs,
                   accepts, freedUsed>>

(* A peer's connection becomes a job for the receivers. *)
AcceptPeer(g) ==
    /\ cpc[g] = "accept" /\ g \in spOpen
    /\ accepts > 0 /\ accepts' = accepts - 1
    /\ AddWork(<<"receiver", g>>)
    /\ cpc' = [cpc EXCEPT ![g] = IF bealive THEN "accept" ELSE "returned"]
    /\ UNCHANGED <<shared, main, sigs, spc, epc, sockets, pointers, team, emp>>

(* accept fails, as the socket is closed or was never bound: the receiver  *)
(* team is terminated from here, at whatever time this thread gets to it.  *)
AcceptPeerFails(g) ==
    /\ cpc[g] = "accept" /\ g \notin spOpen
    /\ cpc' = [cpc EXCEPT ![g] = "terminate"]
    /\ UNCHANGED <<shared, main, sigs, spc, epc, sockets, pointers, pool,
                   accepts, freedUsed>>

TerminateReceiver(g) ==
    /\ cpc[g] = "terminate"
    /\ Terminate(<<"receiver", g>>)
    /\ cpc' = [cpc EXCEPT ![g] = "ending"]
    /\ UNCHANGED <<bealive, main, sigs, spc, epc, sockets, pointers, emp, jobs,
                   accepts>>

ReceiverTerminated(g) ==
    /\ cpc[g] = "ending"
    /\ Terminated(<<"receiver", g>>)
    /\ cpc' = [cpc EXCEPT ![g] = "returned"]
    /\ UNCHANGED <<shared, main, sigs, spc, epc, sockets, pointers, emp,
                   accepts, freedUsed>>

Control(g) ==
    \/ BindListener(g) \/ HireReceiver(g) \/ HiredReceiver(g) \/ AcceptPeer(g)
    \/ AcceptPeerFails(g) \/ TerminateReceiver(g) \/ ReceiverTerminated(g)

-----------------------------------------------------------------------------
(* Signals *)

(* The server is up: the start main made last has got through. *)
Up ==
    /\ mpc = "wait" /\ gen > 0
    /\ spc[gen] = "accept" /\ epc[gen] = "done" /\ cpc[gen] = "accept"

(* A handler begins, on main's thread or another: it sets its flag. Only   *)
(* bb_server installs the one for SIGQUIT, so before that SIGQUIT kills.   *)
(* Linux prefers main for a signal sent to the process, and that is what   *)
(* happens during a shutdown if no signal is early: on another thread the  *)
(* handler could be overtaken by main and wake it in the next start.       *)
Signal(thread) ==
    /\ handler = "idle" /\ signals > 0
    /\ Early \/ Up \/ (mpc \in Quitting /\ thread = "main")
    /\ signals' = signals - 1
    /\ handler' = thread
    /\ \/ hupReceived' = TRUE /\ UNCHANGED quitReceived
       \/ /\ team[<<"file", 1>>] # "none"
          /\ quitReceived' = TRUE /\ UNCHANGED hupReceived
    /\ UNCHANGED <<shared, main, spc, epc, cpc, sockets, pointers, pool,
                   accepts, freedUsed>>

(* It locks h_mutex, which main holds from 392 until it waits, and signals *)
(* h_cond, which is lost unless main waits.                                *)
Notify ==
    /\ handler # "idle" /\ mpc # "locked"
    /\ handler' = "idle"
    /\ mpc' = IF mpc = "wait" THEN "stop" ELSE mpc
    /\ UNCHANGED <<shared, gen, hupReceived, quitReceived, signals, spc, epc,
                   cpc, sockets, pointers, pool, accepts, freedUsed>>

-----------------------------------------------------------------------------
(* main and quit_handler *)

Go(from, to) == handler # "main" /\ mpc = from /\ mpc' = to

(* pthread_create of start_server, then h_mutex. *)
Launch ==
    /\ gen < Starts /\ Go("launch", "locked")
    /\ gen' = gen + 1
    /\ spc' = [spc EXCEPT ![gen + 1] = "begin"]
    /\ UNCHANGED <<shared, sigs, epc, cpc, sockets, pointers, pool, accepts,
                   freedUsed>>

(* pthread_cond_wait, once and with no condition around it. *)
Await ==
    /\ Go("locked", "wait")
    /\ UNCHANGED <<shared, gen, sigs, spc, epc, cpc, sockets, pointers, pool,
                   accepts, freedUsed>>

StopSkippingFile ==  \* file_team shadowed by a local, as two others are
    /\ Go("stop", "sender")
    /\ bealive' = FALSE
    /\ bpOpen' = bpOpen \ {master_socket}
    /\ spOpen' = spOpen \ {peer_listener}
    /\ UNCHANGED <<threads_keepalive, gen, sigs, spc, epc, cpc, master_socket,
                   peer_listener, pointers, pool, accepts, freedUsed>>

(* bealive, and the listening sockets. *)
StopListening ==
    /\ Go("stop", "file")
    /\ bealive' = FALSE
    /\ bpOpen' = bpOpen \ {master_socket}
    /\ spOpen' = spOpen \ {peer_listener}
    /\ UNCHANGED <<threads_keepalive, gen, sigs, spc, epc, cpc, master_socket,
                   peer_listener, pointers, pool, accepts, freedUsed>>

TerminateFile ==
    /\ IF file_team = None
         THEN Go("file", "sender") /\ UNCHANGED <<threads_keepalive, team, freedUsed>>
         ELSE Go("file", "fileWait") /\ Terminate(<<"file", file_team>>)
    /\ UNCHANGED <<bealive, gen, sigs, spc, epc, cpc, sockets, pointers, emp,
                   jobs, accepts>>

(* file_team is gone.  The next call terminates peer_receiver_team, a      *)
(* global nobody assigns: nothing happens.                                 *)
FileTerminated ==
    /\ Go("fileWait", "sender")
    /\ Terminated(<<"file", file_team>>)
    /\ UNCHANGED <<shared, gen, sigs, spc, epc, cpc, sockets, pointers, emp,
                   accepts, freedUsed>>

TerminateSender ==
    /\ IF peer_sender_team = None
         THEN Go("sender", "house") /\ UNCHANGED <<threads_keepalive, team, freedUsed>>
         ELSE Go("sender", "senderWait") /\ Terminate(<<"sender", peer_sender_team>>)
    /\ UNCHANGED <<bealive, gen, sigs, spc, epc, cpc, sockets, pointers, emp,
                   jobs, accepts>>

SenderTerminated ==
    /\ Go("senderWait", "house")
    /\ Terminated(<<"sender", peer_sender_team>>)
    /\ UNCHANGED <<shared, gen, sigs, spc, epc, cpc, sockets, pointers, emp,
                   accepts, freedUsed>>

(* housekeep_descriptor returns; peer_control_team is null like the other. *)
Housekept ==
    /\ Go("house", "decide")
    /\ UNCHANGED <<shared, gen, sigs, spc, epc, cpc, sockets, pointers, pool,
                   accepts, freedUsed>>

DecideHupFirst ==  \* asks for SIGHUP before SIGQUIT
    /\ Go("decide", IF quitReceived /\ ~hupReceived THEN "ended" ELSE "launch")
    /\ UNCHANGED <<shared, gen, sigs, spc, epc, cpc, sockets, pointers, pool,
                   accepts, freedUsed>>

(* Only quitReceived is asked for; hupReceived is never reset.             *)
Decide ==
    /\ Go("decide", IF quitReceived THEN "ended" ELSE "launch")
    /\ UNCHANGED <<shared, gen, sigs, spc, epc, cpc, sockets, pointers, pool,
                   accepts, freedUsed>>

Main ==
    \/ Launch \/ Await \/ StopListening \/ TerminateFile \/ FileTerminated
    \/ TerminateSender \/ SenderTerminated \/ Housekept \/ Decide

-----------------------------------------------------------------------------
(* Every thread but the employees in sessions with peers. *)
Employee(t) == Report(t) \/ TestAlive(t) \/ WakeUp(t)

Working(g) ==
    \/ SessionEnds(g) \/ ControlReturns(g)
    \/ \E s \in Gens : SenderDone(s, g)

Running == mpc \notin {"ended", "crashed"}   \* all threads end with main

Next ==
    /\ Running
    /\ \/ Main \/ Notify
       \/ \E thread \in {"main", "other"} : Signal(thread)
       \/ \E t \in Teams : Employee(t)
       \/ \E g \in Gens :
            \/ Server(g) \/ Establisher(g) \/ Control(g) \/ Working(g)
            \/ StartWrite(g) \/ PeerSessionEnds(g)

(* The kernel runs every thread; clients go once they are shut down.       *)
Fairness ==
    /\ WF_vars(Running /\ Main) /\ WF_vars(Running /\ Notify)
    /\ \A t \in Teams : WF_vars(Running /\ Employee(t))
    /\ \A g \in Gens :
         /\ WF_vars(Running /\ Server(g)) /\ WF_vars(Running /\ Establisher(g))
         /\ WF_vars(Running /\ Control(g))
         /\ WF_vars(Running /\ Working(g))

Spec == Init /\ [][Next]_vars /\ Fairness

-----------------------------------------------------------------------------
(* Properties *)

(* Housekeeping rewrites the board file.  No client's session of any start *)
(* is then under way or can begin (bbserv.cc:82-101), although the flag    *)
(* that stops the employees is shared with teams other threads create.     *)
HousekeepAlone ==
    mpc = "house" => \A g \in Gens : emp[<<"file", g>>] \notin {"work", "writing"}

(* The pointers of one start are still there in the next.  If signals wait *)
(* until the server is up, no team is terminated after it was freed, and a *)
(* session that waits for its senders never finds their team freed:        *)
(* file_team goes first (bbserv.cc:82-96, 148; peer_operations.cc:29).     *)
NoFreedTeam ==
    /\ "terminate" \notin freedUsed
    /\ (\E g \in Gens : emp[<<"file", g>>] = "writing")
         => team[<<"sender", peer_sender_team>>] \in {"up", "ending"}

(* A SIGQUIT noticed while a shutdown is under way, whoever caused it, is  *)
(* heeded at its end (bbserv.cc:400): the teams main terminates do end,    *)
(* unless a WRITE is waiting for senders, who are told to stop with the    *)
(* same flag as its own team.                                              *)
QuitDuringStopHeeded ==
    (quitReceived /\ mpc \in Quitting)
        ~> (mpc = "ended" \/ \E g \in Gens : emp[<<"file", g>>] = "writing")

(* README.md:194, "SIGQUIT kills the server". *)
QuitKills == quitReceived ~> mpc = "ended"
=============================================================================
