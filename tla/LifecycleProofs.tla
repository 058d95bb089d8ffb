-------------------------- MODULE LifecycleProofs --------------------------
(***************************************************************************)
(* Housekeeping is alone with the board file, and no team is used after it *)
(* was freed, for any number of starts, signals and connections, when      *)
(* signals and WRITEs wait until a start is through.                       *)
(*                                                                         *)
(* LifeInv follows each start to its end.  ServerInv, EstablisherInv and   *)
(* ControlInv say how far its teams are for each place of the thread that  *)
(* hires them; MainInv that a shutdown only begins when the latest start   *)
(* is through, so that the pointers are those of its teams, and that the   *)
(* employee of file_team is gone when main has seen the end of it.  What   *)
(* is gone stays gone: an earlier start hires nobody any more.             *)
(***************************************************************************)
EXTENDS Lifecycle, TLAPS

Emp(k, g) == emp[<<k, g>>]
Team(k, g) == team[<<k, g>>]
Jobs(k, g) == jobs[<<k, g>>]

(* Places of an employee who has reported for work. *)
Reported == {"loop", "wait", "work", "writing", "gone"}

(* A shutdown is called for or under way. *)
Stopping ==
    \/ handler # "idle" \/ mpc \in Quitting \cup {"decide", "ended"}
    \/ mpc = "launch" /\ gen > 0

(* Main has seen the end of file_team. *)
FileGone == mpc \in {"sender", "senderWait", "house", "decide", "ended", "launch"}

ServerInv(g) ==
    /\ g > gen <=> spc[g] = "none"
    /\ spc[g] \in {"none", "begin", "bound", "hire"} => Emp("file", g) = "none"
    /\ spc[g] \notin {"accept", "got", "dead"} => epc[g] = "none"
    /\ spc[g] \in {"accept", "got"} => epc[g] # "none"
    /\ epc[g] # "none" => Emp("file", g) \in Reported
    /\ g < gen => epc[g] = "done" /\ Emp("file", g) = "gone"

EstablisherInv(g) ==
    /\ epc[g] \in {"none", "begin", "hiringControl"} =>
         cpc[g] = "none" /\ Jobs("control", g) = 0
    /\ Jobs("control", g) \in {0, 1}
    /\ Jobs("control", g) = 1 => cpc[g] = "none"

ControlInv(g) ==
    cpc[g] \in {"accept", "terminate"} => Team("receiver", g) = "up"

(* The latest start, once its server has hired: what the pointers point to. *)
FileInv ==
    gen > 0 /\ epc[gen] # "none" =>
      /\ file_team = gen
      /\ mpc \in {"locked", "wait", "stop", "file"} => Team("file", gen) = "up"
      /\ FileGone => Emp("file", gen) = "gone"

SenderInv ==
    gen > 0 /\ epc[gen] = "done" =>
      /\ peer_sender_team = gen
      /\ mpc \in {"locked", "wait", "stop", "file", "fileWait", "sender"}
           => Team("sender", gen) = "up"
      /\ mpc = "senderWait" => Team("sender", gen) = "ending"

MainInv ==
    /\ handler = "other" => mpc = "wait"
    /\ handler = "main" => mpc \in {"wait"} \cup Quitting
    /\ gen > 0 \/ mpc = "launch"
    /\ mpc # "crashed"
    /\ Stopping => epc[gen] = "done"

WriteInv ==
    \A g \in Gens : Emp("file", g) = "writing" => epc[gen] = "done"

LifeInv ==
    /\ TypeOK
    /\ \A g \in Gens : ServerInv(g) /\ EstablisherInv(g) /\ ControlInv(g)
    /\ FileInv /\ SenderInv /\ MainInv /\ WriteInv
    /\ "terminate" \notin freedUsed

-----------------------------------------------------------------------------
(* Types *)

LEMMA WorkTyped ==
    ASSUME TypeOK, NEW t, AddWork(t)
    PROVE  jobs' \in [Teams -> Nat] /\ freedUsed' \in SUBSET {"terminate", "push"}
<1>1. jobs \in [Teams -> Nat] /\ jobs' = [jobs EXCEPT ![t] = jobs[t] + 1]
  BY DEF AddWork, TypeOK
<1>2. ASSUME NEW u \in Teams PROVE jobs'[u] \in Nat
  BY <1>1
<1>3. jobs' \in [Teams -> Nat]
  BY <1>1, <1>2
<1> QED
  BY <1>3 DEF AddWork, TypeOK

LEMMA TypeStep == TypeOK /\ [Next]_vars => TypeOK'
<1> SUFFICES ASSUME TypeOK, [Next]_vars PROVE TypeOK'
  OBVIOUS
<1> USE BoundsAssumption
<1> USE DEF shared, main, sigs, sockets, pointers, pool, TypeOK, Teams, Kinds, Gens, None,
           Create, Created, Terminate, Terminated, Step, Go, Quitting
<1>1. ASSUME NEW t \in Teams, Report(t) PROVE TypeOK'
  BY <1>1 DEF Report
<1>2. ASSUME NEW t \in Teams, TestAlive(t) PROVE TypeOK'
  BY <1>2 DEF TestAlive
<1>3. ASSUME NEW t \in Teams, WakeUp(t) PROVE TypeOK'
  <2>1. CASE threads_keepalive /\ jobs[t] > 0
    <3>1. /\ emp' = [emp EXCEPT ![t] = "work"] /\ jobs' = [jobs EXCEPT ![t] = jobs[t] - 1]
          /\ cpc' = IF t[1] = "control" THEN [cpc EXCEPT ![t[2]] = "bind"] ELSE cpc
      BY <1>3, <2>1 DEF WakeUp
    <3>2. jobs' \in [Teams -> Nat]
      BY <2>1, <3>1
    <3>3. cpc' \in [Gens -> {"none", "bind", "hire", "hiring", "accept", "terminate",
                             "ending", "returned"}]
      BY <3>1
    <3>4. emp' \in [Teams -> {"none", "created", "loop", "wait", "work", "writing", "gone"}]
      BY <3>1
    <3> QED
      BY <1>3, <3>2, <3>3, <3>4 DEF WakeUp
  <2>2. CASE ~(threads_keepalive /\ jobs[t] > 0)
    <3>1. emp' = [emp EXCEPT ![t] = "loop"] /\ jobs' = jobs /\ cpc' = cpc
      BY <1>3, <2>2 DEF WakeUp
    <3> QED
      BY <1>3, <3>1 DEF WakeUp
  <2> QED
    BY <2>1, <2>2
<1>4. ASSUME NEW s \in Gens, NEW g \in Gens, SenderDone(s, g) PROVE TypeOK'
  BY <1>4 DEF SenderDone
<1>5. ASSUME NEW g \in Gens, StartWrite(g) PROVE TypeOK'
  <2>1. CASE peer_sender_team = None
    BY <1>5, <2>1 DEF StartWrite
  <2>2. CASE peer_sender_team # None
    BY <1>5, <2>2, WorkTyped, ZenonT(60) DEF StartWrite
  <2> QED
    BY <2>1, <2>2
<1>6. ASSUME NEW g \in Gens, AcceptClient(g) PROVE TypeOK'
  <2>1. accepts' \in 0..Clients
    BY <1>6 DEF AcceptClient
  <2>2. spc' \in [Gens -> {"none", "begin", "bound", "hire", "hiring", "accept", "got",
                           "dead"}]
    BY <1>6 DEF AcceptClient
  <2> QED
    BY <1>6, <2>1, <2>2 DEF AcceptClient
<1>7. ASSUME NEW g \in Gens, PassToTeam(g) PROVE TypeOK'
  BY <1>7, WorkTyped DEF PassToTeam
<1>8. ASSUME NEW g \in Gens, BindListener(g) PROVE TypeOK'
  <2>1. CASE spOpen = {}
    BY <1>8, <2>1 DEF BindListener
  <2>2. CASE spOpen # {}
    <3>1. peer_listener' = None /\ UNCHANGED spOpen
      BY <1>8, <2>2, Zenon DEF BindListener
    <3> QED
      BY <1>8, <3>1 DEF BindListener
  <2> QED
    BY <2>1, <2>2
<1>9. ASSUME NEW thread \in {"main", "other"}, Signal(thread) PROVE TypeOK'
  <2>1. signals' \in 0..Signals /\ hupReceived' \in BOOLEAN /\ quitReceived' \in BOOLEAN
    <3>1. /\ signals > 0 /\ signals' = signals - 1
          /\ \/ hupReceived' = TRUE /\ UNCHANGED quitReceived
             \/ quitReceived' = TRUE /\ UNCHANGED hupReceived
      BY <1>9, Zenon DEF Signal
    <3>2. signals' \in 0..Signals
      BY <3>1
    <3>3. hupReceived' \in BOOLEAN /\ quitReceived' \in BOOLEAN
      BY <3>1, Zenon
    <3> QED
      BY <3>2, <3>3
  <2> QED
    BY <1>9, <2>1 DEF Signal
<1>10. ASSUME NEW g \in Gens, SessionEnds(g) PROVE TypeOK'
  BY <1>10 DEF SessionEnds
<1>11. ASSUME NEW g \in Gens, PeerSessionEnds(g) PROVE TypeOK'
  BY <1>11 DEF PeerSessionEnds
<1>12. ASSUME NEW g \in Gens, ControlReturns(g) PROVE TypeOK'
  BY <1>12 DEF ControlReturns
<1>13. ASSUME NEW g \in Gens, BindServer(g) PROVE TypeOK'
  BY <1>13, ZenonT(60) DEF BindServer
<1>14. ASSUME NEW g \in Gens, RegisterServer(g) PROVE TypeOK'
  BY <1>14 DEF RegisterServer
<1>15. ASSUME NEW g \in Gens, HireServer(g) PROVE TypeOK'
  BY <1>15 DEF HireServer
<1>16. ASSUME NEW g \in Gens, HiredServer(g) PROVE TypeOK'
  BY <1>16 DEF HiredServer
<1>17. ASSUME NEW g \in Gens, HireControl(g) PROVE TypeOK'
  BY <1>17 DEF HireControl
<1>18. ASSUME NEW g \in Gens, HiredControl(g) PROVE TypeOK'
  BY <1>18, WorkTyped, ZenonT(60) DEF HiredControl
<1>19. ASSUME NEW g \in Gens, HireSender(g) PROVE TypeOK'
  BY <1>19 DEF HireSender
<1>20. ASSUME NEW g \in Gens, HiredSender(g) PROVE TypeOK'
  BY <1>20 DEF HiredSender
<1>21. ASSUME NEW g \in Gens, HireReceiver(g) PROVE TypeOK'
  BY <1>21 DEF HireReceiver
<1>22. ASSUME NEW g \in Gens, HiredReceiver(g) PROVE TypeOK'
  BY <1>22 DEF HiredReceiver
<1>23. ASSUME NEW g \in Gens, AcceptPeer(g) PROVE TypeOK'
  BY <1>23, WorkTyped DEF AcceptPeer
<1>24. ASSUME NEW g \in Gens, AcceptPeerFails(g) PROVE TypeOK'
  BY <1>24 DEF AcceptPeerFails
<1>25. ASSUME NEW g \in Gens, TerminateReceiver(g) PROVE TypeOK'
  BY <1>25 DEF TerminateReceiver
<1>26. ASSUME NEW g \in Gens, ReceiverTerminated(g) PROVE TypeOK'
  BY <1>26 DEF ReceiverTerminated
<1>27. ASSUME Launch PROVE TypeOK'
  BY <1>27 DEF Launch
<1>28. ASSUME Await PROVE TypeOK'
  BY <1>28 DEF Await
<1>29. ASSUME StopListening PROVE TypeOK'
  BY <1>29 DEF StopListening
<1>30. ASSUME TerminateFile PROVE TypeOK'
  BY <1>30, ZenonT(60) DEF TerminateFile
<1>31. ASSUME FileTerminated PROVE TypeOK'
  BY <1>31 DEF FileTerminated
<1>32. ASSUME TerminateSender PROVE TypeOK'
  BY <1>32, ZenonT(60) DEF TerminateSender
<1>33. ASSUME SenderTerminated PROVE TypeOK'
  BY <1>33 DEF SenderTerminated
<1>34. ASSUME Housekept PROVE TypeOK'
  BY <1>34 DEF Housekept
<1>35. ASSUME Decide PROVE TypeOK'
  BY <1>35 DEF Decide
<1>36. ASSUME Notify PROVE TypeOK'
  BY <1>36 DEF Notify
<1>37. CASE UNCHANGED vars
  BY <1>37 DEF vars
<1> QED
  BY <1>1, <1>2, <1>3, <1>4, <1>5, <1>6, <1>7, <1>8, <1>9, <1>10, <1>11, <1>12,
     <1>13, <1>14, <1>15, <1>16, <1>17, <1>18, <1>19, <1>20, <1>21, <1>22,
     <1>23, <1>24, <1>25, <1>26, <1>27, <1>28, <1>29, <1>30, <1>31, <1>32,
     <1>33, <1>34, <1>35, <1>36, <1>37
     DEF Next, Main, Employee, Server, Establisher, Control, Working

-----------------------------------------------------------------------------
(* One team, of all *)

LEMMA TeamsAre ==
    \A k \in Kinds, g \in Gens : <<k, g>> \in Teams
  BY DEF Teams

LEMMA CreateTeam ==
    ASSUME TypeOK, NEW k \in Kinds, NEW g \in Gens, Create(<<k, g>>)
    PROVE  \A j \in Kinds, h \in Gens :
             /\ Team(j, h)' = IF j = k /\ h = g THEN "hiring" ELSE Team(j, h)
             /\ Emp(j, h)' = IF j = k /\ h = g THEN "created" ELSE Emp(j, h)
             /\ Jobs(j, h)' = Jobs(j, h)
  BY DEF Create, TypeOK, Teams, Team, Emp, Jobs

LEMMA CreatedTeam ==
    ASSUME TypeOK, NEW k \in Kinds, NEW g \in Gens, Created(<<k, g>>)
    PROVE  /\ Emp(k, g) \in {"loop", "wait", "work", "writing"}
           /\ \A j \in Kinds, h \in Gens :
                Team(j, h)' = IF j = k /\ h = g THEN "up" ELSE Team(j, h)
  BY DEF Created, Available, TypeOK, Teams, Team, Emp

LEMMA TerminateTeam ==
    ASSUME TypeOK, NEW k \in Kinds, NEW g \in Gens, Terminate(<<k, g>>)
    PROVE  /\ \A j \in Kinds, h \in Gens :
                Team(j, h)' = IF j = k /\ h = g THEN "ending" ELSE Team(j, h)
           /\ Team(k, g) # "freed" => freedUsed' = freedUsed
  BY DEF Terminate, TypeOK, Teams, Team

LEMMA TerminatedTeam ==
    ASSUME TypeOK, NEW k \in Kinds, NEW g \in Gens, Terminated(<<k, g>>)
    PROVE  /\ Emp(k, g) \notin {"loop", "wait", "work", "writing"}
           /\ \A j \in Kinds, h \in Gens :
                /\ Team(j, h)' = IF j = k /\ h = g THEN "freed" ELSE Team(j, h)
                /\ Jobs(j, h)' = IF j = k /\ h = g THEN 0 ELSE Jobs(j, h)
  BY DEF Terminated, Available, TypeOK, Teams, Team, Emp, Jobs

LEMMA WorkAdded ==
    ASSUME TypeOK, NEW k \in Kinds, NEW g \in Nat, AddWork(<<k, g>>)
    PROVE  /\ \A j \in Kinds, h \in Gens :
                Jobs(j, h)' = IF j = k /\ h = g THEN Jobs(j, h) + 1 ELSE Jobs(j, h)
           /\ "terminate" \in freedUsed' => "terminate" \in freedUsed
<1>1. /\ jobs' = [jobs EXCEPT ![<<k, g>>] = jobs[<<k, g>>] + 1]
      /\ jobs \in [Teams -> Nat]
  BY DEF AddWork, TypeOK
<1>2. ASSUME NEW j \in Kinds, NEW h \in Gens
      PROVE  Jobs(j, h)' = IF j = k /\ h = g THEN Jobs(j, h) + 1 ELSE Jobs(j, h)
  BY <1>1 DEF Teams, Jobs
<1>3. "terminate" \in freedUsed' => "terminate" \in freedUsed
  BY DEF AddWork
<1> QED
  BY <1>2, <1>3

LEMMA EmployeeMoves ==
    ASSUME TypeOK, NEW k \in Kinds, NEW g \in Gens, NEW from, NEW to,
           Step(<<k, g>>, from, to)
    PROVE  /\ Emp(k, g) = from
           /\ \A j \in Kinds, h \in Gens :
                Emp(j, h)' = IF j = k /\ h = g THEN to ELSE Emp(j, h)
  BY DEF Step, TypeOK, Teams, Emp

-----------------------------------------------------------------------------
(* Steps that neither main makes nor a thread that hires *)

(* How an employee of file_team may move, and a server that hires nobody. *)
FileMoves(g) ==
    \/ Emp("file", g)' = Emp("file", g)
    \/ Emp("file", g) \notin {"none", "gone"} /\ Emp("file", g)' \in Reported \ {"writing"}
    \/ Emp("file", g) = "work" /\ Emp("file", g)' = "writing" /\ epc[gen] = "done"
ServerMoves(g) ==
    \/ spc'[g] = spc[g]
    \/ spc[g] = "begin" /\ spc'[g] \in {"bound", "dead"}
    \/ spc[g] = "bound" /\ spc'[g] \in {"hire", "dead"}
    \/ spc[g] \in {"accept", "got"} /\ spc'[g] \in {"accept", "got", "dead"}
ControlMoves(g) ==
    \/ Jobs("control", g)' = Jobs("control", g) /\ (cpc'[g] = "none" <=> cpc[g] = "none")
    \/ Jobs("control", g) = 1 /\ Jobs("control", g)' = 0

LEMMA Quiet ==
    ASSUME LifeInv, TypeOK',
           UNCHANGED <<gen, mpc, handler, file_team, peer_sender_team, epc>>,
           \A h \in Gens :
             /\ FileMoves(h) /\ ServerMoves(h) /\ ControlMoves(h) /\ ControlInv(h)'
             /\ Team("file", h)' = Team("file", h) /\ Team("sender", h)' = Team("sender", h),
           "terminate" \notin freedUsed'
    PROVE  LifeInv'
<1>1. ASSUME NEW h \in Gens PROVE ServerInv(h)'
  <2>1. /\ ServerInv(h) /\ FileMoves(h) /\ ServerMoves(h)
        /\ epc'[h] = epc[h] /\ gen' = gen
    BY DEF LifeInv
  <2> QED
    BY <2>1 DEF ServerInv, FileMoves, ServerMoves, Reported
<1>2. ASSUME NEW h \in Gens PROVE EstablisherInv(h)'
  <2>1. EstablisherInv(h) /\ ControlMoves(h) /\ epc'[h] = epc[h]
    BY DEF LifeInv
  <2> QED
    BY <2>1 DEF EstablisherInv, ControlMoves
<1>3. gen > 0 => gen \in Gens
  BY BoundsAssumption DEF LifeInv, TypeOK, Gens
<1>4. FileInv'
  <2>1. gen > 0 => FileMoves(gen) /\ Team("file", gen)' = Team("file", gen)
    BY <1>3
  <2>2. FileInv /\ UNCHANGED <<gen, mpc, file_team, epc>>
    BY DEF LifeInv
  <2> QED
    BY <2>1, <2>2 DEF FileInv, FileMoves, FileGone
<1>5. SenderInv'
  <2>1. gen > 0 => Team("sender", gen)' = Team("sender", gen)
    BY <1>3
  <2> QED
    BY <2>1 DEF LifeInv, SenderInv
<1>6. MainInv'
  BY DEF LifeInv, MainInv, Stopping
<1>7. WriteInv'
  <2>1. ASSUME NEW h \in Gens, Emp("file", h)' = "writing" PROVE epc[gen] = "done"
    BY <2>1 DEF FileMoves, LifeInv, WriteInv
  <2> QED
    BY <2>1 DEF WriteInv
<1> QED
  BY <1>1, <1>2, <1>4, <1>5, <1>6, <1>7 DEF LifeInv

(* Those who change nothing that is common to the threads. *)
LEMMA EmployeeQuiet ==
    ASSUME LifeInv, TypeOK', NEW k \in Kinds, NEW g \in Gens, Employee(<<k, g>>)
    PROVE  LifeInv'
<1>1. TypeOK /\ k \in Kinds
  BY DEF LifeInv
<1>2. /\ UNCHANGED <<gen, mpc, handler, file_team, peer_sender_team, epc, spc, team, freedUsed>>
      /\ \E from \in {"created", "loop", "wait"}, to \in {"loop", "wait", "work", "gone"} :
           Step(<<k, g>>, from, to)
  BY DEF Employee, Report, TestAlive, WakeUp, main, sigs, pointers
<1>3. \A h \in Gens : FileMoves(h)
  BY <1>1, <1>2, EmployeeMoves DEF FileMoves, Reported, Kinds
<1>4. \A h \in Gens : ServerMoves(h) /\ Team("file", h)' = Team("file", h)
                        /\ Team("sender", h)' = Team("sender", h)
  BY <1>2 DEF ServerMoves, Team
<1>5. ASSUME NEW h \in Gens PROVE ControlMoves(h) /\ ControlInv(h)'
  <2>1. CASE UNCHANGED <<cpc, jobs>>
    BY <1>2, <2>1 DEF ControlMoves, Jobs, LifeInv, ControlInv, Team
  <2>2. CASE WakeUp(<<k, g>>) /\ threads_keepalive /\ jobs[<<k, g>>] > 0
    <3>1. /\ jobs' = [jobs EXCEPT ![<<k, g>>] = jobs[<<k, g>>] - 1]
          /\ cpc' = IF k = "control" THEN [cpc EXCEPT ![g] = "bind"] ELSE cpc
      BY <2>2 DEF WakeUp
    <3>2. /\ Jobs("control", h)' = IF k = "control" /\ g = h THEN Jobs("control", h) - 1
                                   ELSE Jobs("control", h)
          /\ cpc'[h] = IF k = "control" /\ g = h THEN "bind" ELSE cpc[h]
      <4>1. jobs \in [Teams -> Nat] /\ cpc \in [Gens -> {"none", "bind", "hire", "hiring",
                                  "accept", "terminate", "ending", "returned"}]
        BY <1>1 DEF TypeOK
      <4> QED
        BY <1>1, <3>1, <4>1, TeamsAre DEF Jobs, Kinds
    <3>3. Jobs("control", h) \in {0, 1} /\ ControlInv(h) /\ team' = team
      BY <1>2 DEF LifeInv, EstablisherInv
    <3>4. k = "control" /\ g = h => Jobs("control", h) = 1
      BY <2>2, <3>3 DEF Jobs
    <3> QED
      BY <3>2, <3>3, <3>4 DEF ControlMoves, ControlInv, Team
  <2> QED
    BY <2>1, <2>2 DEF Employee, Report, TestAlive, WakeUp
<1>6. "terminate" \notin freedUsed'
  BY <1>2 DEF LifeInv
<1> QED
  BY <1>2, <1>3, <1>4, <1>5, <1>6, Quiet

LEMMA SessionQuiet ==
    ASSUME LifeInv, TypeOK', NEW g \in Gens, Working(g) \/ PeerSessionEnds(g)
    PROVE  LifeInv'
<1>1. TypeOK
  BY DEF LifeInv
<1>2. /\ UNCHANGED <<gen, mpc, handler, file_team, peer_sender_team, epc, spc, cpc>>
      /\ UNCHANGED <<team, jobs, freedUsed>>
  BY DEF Working, SessionEnds, ControlReturns, SenderDone, PeerSessionEnds, main, sigs, pointers
<1>3. ASSUME NEW h \in Gens PROVE FileMoves(h)
  <2>1. CASE SessionEnds(g)
    BY <1>1, <2>1, EmployeeMoves DEF SessionEnds, FileMoves, Reported, Kinds
  <2>2. CASE ControlReturns(g)
    BY <1>1, <2>2, EmployeeMoves DEF ControlReturns, FileMoves, Reported, Kinds
  <2>3. CASE PeerSessionEnds(g)
    BY <1>1, <2>3, EmployeeMoves DEF PeerSessionEnds, FileMoves, Reported, Kinds
  <2>4. ASSUME NEW s \in Gens, SenderDone(s, g) PROVE FileMoves(h)
    <3>1. Emp("file", h)' = IF h = g THEN "work" ELSE Emp("file", h)
      BY <1>1, <2>4 DEF SenderDone, TypeOK, Teams, Kinds, Emp
    <3> QED
      BY <2>4, <3>1 DEF SenderDone, FileMoves, Emp, Reported
  <2> QED
    BY <2>1, <2>2, <2>3, <2>4 DEF Working
<1>4. \A h \in Gens :
        /\ ServerMoves(h) /\ ControlMoves(h) /\ ControlInv(h)'
        /\ Team("file", h)' = Team("file", h) /\ Team("sender", h)' = Team("sender", h)
  BY <1>2 DEF ServerMoves, ControlMoves, Jobs, Team, ControlInv, LifeInv
<1>5. "terminate" \notin freedUsed'
  BY <1>2 DEF LifeInv
<1> QED
  BY <1>2, <1>3, <1>4, <1>5, Quiet

(* A session writes: only in the latest start, whose senders are there. *)
LEMMA WriteQuiet ==
    ASSUME ~Early, LifeInv, TypeOK', NEW g \in Gens, StartWrite(g)
    PROVE  LifeInv'
<1>1. TypeOK /\ Emp("file", g) = "work" /\ epc[gen] = "done"
  BY DEF LifeInv, StartWrite, Emp
<1>2. gen \in Gens /\ peer_sender_team = gen /\ peer_sender_team # None
  <2>1. gen \in 0..Starts /\ ServerInv(g)
    BY <1>1 DEF LifeInv, TypeOK
  <2>2. gen # 0
    BY <1>1, <2>1 DEF ServerInv, Gens
  <2>3. gen \in Gens
    BY <2>1, <2>2, BoundsAssumption DEF Gens
  <2> QED
    BY <1>1, <2>3 DEF LifeInv, SenderInv, Gens, None
<1>3. /\ Step(<<"file", g>>, "work", "writing") /\ AddWork(<<"sender", gen>>)
      /\ UNCHANGED <<gen, mpc, handler, file_team, peer_sender_team, epc, spc, cpc, team>>
  BY <1>2 DEF StartWrite, sigs, pointers
<1>4. \A h \in Gens : Emp("file", h)' = IF h = g THEN "writing" ELSE Emp("file", h)
  BY <1>1, <1>3, EmployeeMoves DEF Kinds
<1>5. /\ \A h \in Gens : Jobs("control", h)' = Jobs("control", h)
      /\ "terminate" \notin freedUsed'
  BY <1>1, <1>2, <1>3, WorkAdded DEF Kinds, Gens, LifeInv
<1>6. \A h \in Gens :
        /\ FileMoves(h) /\ ServerMoves(h) /\ ControlMoves(h) /\ ControlInv(h)'
        /\ Team("file", h)' = Team("file", h) /\ Team("sender", h)' = Team("sender", h)
  BY <1>1, <1>3, <1>4, <1>5
     DEF FileMoves, ServerMoves, ControlMoves, Team, ControlInv, LifeInv
<1> QED
  BY <1>3, <1>5, <1>6, Quiet

(* The server's thread while it hires nobody, and peer_receiver_control. *)
LEMMA ServerQuiet ==
    ASSUME LifeInv, TypeOK', NEW g \in Gens,
           BindServer(g) \/ RegisterServer(g) \/ AcceptClient(g) \/ PassToTeam(g)
    PROVE  LifeInv'
<1>1. TypeOK /\ file_team \in Nat
  BY DEF LifeInv, TypeOK
<1>2. UNCHANGED <<gen, mpc, handler, file_team, peer_sender_team, epc, cpc, team, emp>>
  BY DEF BindServer, RegisterServer, AcceptClient, PassToTeam, main, sigs, pointers, pool
<1>3. \E to \in {"bound", "dead", "hire", "accept", "got"} :
        /\ spc' = [spc EXCEPT ![g] = to]
        /\ \/ spc[g] = "begin" /\ to \in {"bound", "dead"}
           \/ spc[g] = "bound" /\ to \in {"hire", "dead"}
           \/ spc[g] \in {"accept", "got"} /\ to \in {"accept", "got", "dead"}
  BY DEF BindServer, RegisterServer, AcceptClient, PassToTeam
<1>4. \A h \in Gens : ServerMoves(h)
  BY <1>1, <1>3 DEF ServerMoves, TypeOK
<1>5. /\ \A h \in Gens : Jobs("control", h)' = Jobs("control", h)
      /\ "terminate" \notin freedUsed'
  <2>1. CASE PassToTeam(g)
    BY <1>1, <2>1, WorkAdded DEF PassToTeam, Kinds, LifeInv
  <2>2. CASE UNCHANGED <<jobs, freedUsed>>
    BY <2>2 DEF Jobs, LifeInv
  <2> QED
    BY <2>1, <2>2 DEF BindServer, RegisterServer, AcceptClient, pool
<1>6. \A h \in Gens :
        /\ FileMoves(h) /\ ControlMoves(h) /\ ControlInv(h)'
        /\ Team("file", h)' = Team("file", h) /\ Team("sender", h)' = Team("sender", h)
  BY <1>2, <1>5 DEF FileMoves, ControlMoves, Team, Emp, ControlInv, LifeInv
<1> QED
  BY <1>2, <1>4, <1>5, <1>6, Quiet

LEMMA ControlQuiet ==
    ASSUME LifeInv, TypeOK', NEW g \in Gens, Control(g)
    PROVE  LifeInv'
<1>1. TypeOK
  BY DEF LifeInv
<1>2. /\ UNCHANGED <<gen, mpc, handler, file_team, peer_sender_team, epc, spc>>
      /\ cpc[g] # "none"
  BY DEF Control, BindListener, HireReceiver, HiredReceiver, AcceptPeer, AcceptPeerFails,
         TerminateReceiver, ReceiverTerminated, main, sigs, pointers
<1>3. \E to \in {"hire", "hiring", "accept", "terminate", "ending", "returned"} :
        /\ cpc' = [cpc EXCEPT ![g] = to]
        /\ to = "terminate" => cpc[g] = "accept" /\ team' = team
        /\ to = "accept" => (cpc[g] = "accept" /\ team' = team) \/ Created(<<"receiver", g>>)
  BY DEF Control, BindListener, HireReceiver, HiredReceiver, AcceptPeer, AcceptPeerFails,
         TerminateReceiver, ReceiverTerminated, pool
<1>4. PICK to \in {"hire", "hiring", "accept", "terminate", "ending", "returned"} :
        /\ \A h \in Gens : cpc'[h] = IF h = g THEN to ELSE cpc[h]
        /\ to = "terminate" => cpc[g] = "accept" /\ team' = team
        /\ to = "accept" => (cpc[g] = "accept" /\ team' = team) \/ Created(<<"receiver", g>>)
  BY <1>1, <1>3 DEF TypeOK
<1>5. \A j \in Kinds, h \in Gens :
        /\ (j # "receiver" \/ h # g) => Team(j, h)' = Team(j, h) /\ Emp(j, h)' = Emp(j, h)
        /\ j # "receiver" => Jobs(j, h)' = Jobs(j, h)
  <2>1. CASE BindListener(g) \/ AcceptPeerFails(g)
    BY <2>1 DEF BindListener, AcceptPeerFails, pool, Team, Emp, Jobs
  <2>2. CASE HireReceiver(g)
    BY <1>1, <2>2, CreateTeam DEF HireReceiver, Kinds
  <2>3. CASE HiredReceiver(g)
    <3>1. emp' = emp /\ jobs' = jobs /\ Created(<<"receiver", g>>)
      BY <2>3 DEF HiredReceiver
    <3> QED
      BY <1>1, <3>1, CreatedTeam DEF Emp, Jobs, Kinds
  <2>4. CASE AcceptPeer(g)
    <3>1. emp' = emp /\ team' = team /\ AddWork(<<"receiver", g>>) /\ g \in Nat
      BY <2>4 DEF AcceptPeer, Gens
    <3> QED
      BY <1>1, <3>1, WorkAdded DEF Emp, Team, Kinds
  <2>5. CASE TerminateReceiver(g)
    <3>1. emp' = emp /\ jobs' = jobs /\ Terminate(<<"receiver", g>>)
      BY <2>5 DEF TerminateReceiver
    <3> QED
      BY <1>1, <3>1, TerminateTeam DEF Emp, Jobs, Kinds
  <2>6. CASE ReceiverTerminated(g)
    <3>1. emp' = emp /\ Terminated(<<"receiver", g>>)
      BY <2>6 DEF ReceiverTerminated
    <3> QED
      BY <1>1, <3>1, TerminatedTeam DEF Emp, Kinds
  <2> QED
    BY <2>1, <2>2, <2>3, <2>4, <2>5, <2>6 DEF Control
<1>6. "terminate" \notin freedUsed'
  <2>1. CASE AcceptPeer(g)
    BY <1>1, <2>1, WorkAdded DEF AcceptPeer, Kinds, Gens, LifeInv
  <2>2. CASE TerminateReceiver(g)
    <3>1. Team("receiver", g) = "up"
      BY <2>2 DEF TerminateReceiver, LifeInv, ControlInv
    <3> QED
      BY <1>1, <2>2, <3>1, TerminateTeam DEF TerminateReceiver, Kinds, LifeInv
  <2>3. CASE UNCHANGED freedUsed
    BY <2>3 DEF LifeInv
  <2> QED
    BY <2>1, <2>2, <2>3 DEF Control, BindListener, HireReceiver, HiredReceiver,
                            AcceptPeerFails, ReceiverTerminated
<1>7. ASSUME NEW h \in Gens PROVE ControlInv(h)'
  <2>1. CASE h # g
    BY <1>4, <1>5, <2>1 DEF ControlInv, LifeInv, Kinds
  <2>2. CASE h = g /\ cpc[g] = "accept" /\ team' = team
    BY <1>4, <2>2 DEF ControlInv, LifeInv, Team
  <2>3. CASE h = g /\ Created(<<"receiver", g>>)
    BY <1>1, <2>3, CreatedTeam DEF ControlInv, Kinds
  <2>4. CASE h = g /\ to \notin {"accept", "terminate"}
    BY <1>4, <2>4 DEF ControlInv
  <2> QED
    BY <1>4, <2>1, <2>2, <2>3, <2>4
<1>8. \A h \in Gens :
        /\ FileMoves(h) /\ ServerMoves(h) /\ ControlMoves(h)
        /\ Team("file", h)' = Team("file", h) /\ Team("sender", h)' = Team("sender", h)
  BY <1>2, <1>4, <1>5 DEF FileMoves, ServerMoves, ControlMoves, Kinds
<1> QED
  BY <1>2, <1>6, <1>7, <1>8, Quiet

-----------------------------------------------------------------------------
(* Hiring: only the latest start does *)

LEMMA LatestStart ==
    ASSUME LifeInv, NEW g \in Gens, spc[g] # "none", epc[g] # "done"
    PROVE  g = gen /\ gen \in Gens /\ gen > 0 /\ handler = "idle" /\ mpc \in {"locked", "wait"}
<1>1. gen \in 0..Starts /\ g \in Nat /\ ServerInv(g)
  BY BoundsAssumption DEF LifeInv, TypeOK, Gens
<1>2. g = gen
  BY <1>1 DEF ServerInv
<1>3. ~Stopping
  BY <1>2 DEF LifeInv, MainInv
<1>4. gen > 0
  BY <1>1, <1>2 DEF Gens
<1> QED
  BY <1>2, <1>3, <1>4 DEF LifeInv, TypeOK, MainInv, Stopping

(* What a thread that hires leaves as it is. *)
LEMMA Hiring ==
    ASSUME LifeInv, TypeOK', NEW g \in Gens,
           spc[g] # "none", epc[g] # "done",
           UNCHANGED <<gen, mpc, handler, cpc>>,
           "terminate" \notin freedUsed',
           \A h \in Gens :
             /\ Team("receiver", h)' = Team("receiver", h)
             /\ h # g => /\ spc'[h] = spc[h] /\ epc'[h] = epc[h]
                         /\ Emp("file", h)' = Emp("file", h)
                         /\ Jobs("control", h)' = Jobs("control", h),
           ServerInv(g)', EstablisherInv(g)', FileInv', SenderInv',
           Emp("file", g)' = "writing" => Emp("file", g) = "writing" /\ epc'[g] = epc[g]
    PROVE  LifeInv'
<1>1. /\ g = gen /\ gen \in Gens /\ gen > 0 /\ gen \in Nat
      /\ handler = "idle" /\ mpc \in {"locked", "wait"}
  BY LatestStart DEF Gens
<1>2. ASSUME NEW h \in Gens PROVE ServerInv(h)' /\ EstablisherInv(h)' /\ ControlInv(h)'
  <2>1. CASE h = g
    BY <2>1 DEF LifeInv, ControlInv
  <2>2. CASE h # g
    <3>1. ServerInv(h)'
      BY <2>2 DEF LifeInv, ServerInv
    <3>2. EstablisherInv(h)' /\ ControlInv(h)'
      BY <2>2 DEF LifeInv, EstablisherInv, ControlInv
    <3> QED
      BY <3>1, <3>2
  <2> QED
    BY <2>1, <2>2
<1>3. MainInv'
  BY <1>1 DEF LifeInv, MainInv, Stopping, Quitting
<1>4. WriteInv'
  <2>1. ASSUME NEW h \in Gens, Emp("file", h)' = "writing" PROVE epc'[gen] = "done"
    <3>1. Emp("file", h) = "writing"
      BY <2>1
    <3>2. epc[gen] = "done"
      BY <3>1 DEF LifeInv, WriteInv
    <3> QED
      BY <1>1, <3>2
  <2> QED
    BY <2>1 DEF WriteInv
<1> QED
  BY <1>2, <1>3, <1>4 DEF LifeInv

LEMMA ServerHires ==
    ASSUME LifeInv, TypeOK', NEW g \in Gens, HireServer(g) \/ HiredServer(g)
    PROVE  LifeInv'
<1>1. /\ TypeOK /\ ServerInv(g) /\ EstablisherInv(g)
      /\ spc[g] \in {"hire", "hiring"} /\ epc[g] = "none"
  BY DEF LifeInv, ServerInv, HireServer, HiredServer
<1>2. /\ g = gen /\ gen > 0 /\ gen \in Gens
      /\ handler = "idle" /\ mpc \in {"locked", "wait"}
  BY <1>1, LatestStart
<1>3. CASE HireServer(g)
  <2>1. /\ UNCHANGED <<gen, mpc, handler, cpc, epc, file_team, peer_sender_team, freedUsed>>
        /\ Create(<<"file", g>>)
        /\ \A h \in Gens : spc'[h] = IF h = g THEN "hiring" ELSE spc[h]
    BY <1>1, <1>3 DEF HireServer, main, sigs, pointers, TypeOK
  <2>2. \A j \in Kinds, h \in Gens :
          /\ Team(j, h)' = IF j = "file" /\ h = g THEN "hiring" ELSE Team(j, h)
          /\ Emp(j, h)' = IF j = "file" /\ h = g THEN "created" ELSE Emp(j, h)
          /\ Jobs(j, h)' = Jobs(j, h)
    BY <1>1, <2>1, CreateTeam DEF Kinds
  <2>3. ServerInv(g)' /\ EstablisherInv(g)'
    BY <1>1, <1>2, <2>1, <2>2 DEF ServerInv, EstablisherInv, Kinds
  <2>4. FileInv' /\ SenderInv'
    BY <1>1, <1>2, <2>1 DEF FileInv, SenderInv
  <2> QED
    BY <1>1, <2>1, <2>2, <2>3, <2>4, Hiring DEF Kinds, LifeInv
<1>4. CASE HiredServer(g)
  <2>1. /\ UNCHANGED <<gen, mpc, handler, cpc, peer_sender_team, emp, jobs, freedUsed>>
        /\ Created(<<"file", g>>) /\ file_team' = g
        /\ spc'[g] \in {"accept", "dead"}
        /\ \A h \in Gens : h # g => spc'[h] = spc[h]
        /\ \A h \in Gens : epc'[h] = IF h = g THEN "begin" ELSE epc[h]
    BY <1>1, <1>4 DEF HiredServer, main, sigs, pointers, TypeOK
  <2>2. /\ Emp("file", g) \in {"loop", "wait", "work", "writing"}
        /\ \A j \in Kinds, h \in Gens :
             /\ Team(j, h)' = IF j = "file" /\ h = g THEN "up" ELSE Team(j, h)
             /\ Emp(j, h)' = Emp(j, h) /\ Jobs(j, h)' = Jobs(j, h)
    BY <1>1, <2>1, CreatedTeam DEF Kinds, Emp, Jobs
  <2>3. Emp("file", g) # "writing"
    BY <1>1, <1>2 DEF LifeInv, WriteInv
  <2>4. ServerInv(g)' /\ EstablisherInv(g)'
    BY <1>1, <1>2, <2>1, <2>2 DEF ServerInv, EstablisherInv, Kinds, Reported
  <2>5. FileInv' /\ SenderInv'
    BY <1>1, <1>2, <2>1, <2>2 DEF FileInv, SenderInv, FileGone, Kinds
  <2> QED
    BY <1>1, <2>1, <2>2, <2>3, <2>4, <2>5, Hiring DEF Kinds, LifeInv
<1> QED
  BY <1>3, <1>4

LEMMA EstablisherHires ==
    ASSUME LifeInv, TypeOK', NEW g \in Gens, Establisher(g)
    PROVE  LifeInv'
<1>1. /\ TypeOK /\ ServerInv(g) /\ EstablisherInv(g) /\ g \in Nat
      /\ epc[g] \in {"begin", "hiringControl", "hireSender", "hiringSender"}
  BY DEF LifeInv, Establisher, HireControl, HiredControl, HireSender, HiredSender, Gens
<1>2. spc[g] \in {"accept", "got", "dead"}
  BY <1>1 DEF ServerInv
<1>3. /\ g = gen /\ gen > 0 /\ gen \in Gens
      /\ handler = "idle" /\ mpc \in {"locked", "wait"}
  BY <1>1, <1>2, LatestStart
<1>4. /\ file_team = gen /\ Team("file", gen) = "up" /\ Emp("file", g) # "writing"
  BY <1>1, <1>3 DEF LifeInv, FileInv, WriteInv
<1>5. /\ UNCHANGED <<gen, mpc, handler, spc, cpc, file_team>>
      /\ \E to \in {"hiringControl", "hireSender", "hiringSender", "done"} :
           epc' = [epc EXCEPT ![g] = to]
  BY DEF Establisher, HireControl, HiredControl, HireSender, HiredSender, main, sigs, pointers
<1>6. PICK to \in {"hiringControl", "hireSender", "hiringSender", "done"} :
        \A h \in Gens : epc'[h] = IF h = g THEN to ELSE epc[h]
  BY <1>1, <1>5 DEF TypeOK
<1>7. /\ \A h \in Gens :
           /\ Team("receiver", h)' = Team("receiver", h)
           /\ Team("file", h)' = Team("file", h) /\ Emp("file", h)' = Emp("file", h)
           /\ h # g => Jobs("control", h)' = Jobs("control", h)
      /\ "terminate" \notin freedUsed'
      /\ to = "hiringControl" => Jobs("control", g)' = 0 /\ cpc[g] = "none"
      /\ to # "hiringControl" =>
           \/ Jobs("control", g)' = Jobs("control", g) /\ epc[g] # "begin"
                /\ epc[g] # "hiringControl"
           \/ Jobs("control", g)' = 1 /\ cpc[g] = "none"
      /\ to = "done" => peer_sender_team' = g /\ Team("sender", g)' = "up"
  <2>1. CASE HireControl(g)
    <3>1. /\ freedUsed' = freedUsed /\ Create(<<"control", g>>)
          /\ epc[g] = "begin" /\ epc' = [epc EXCEPT ![g] = "hiringControl"]
      BY <2>1 DEF HireControl
    <3>2. to = "hiringControl" /\ cpc[g] = "none" /\ Jobs("control", g) = 0
      BY <1>1, <1>6, <3>1 DEF TypeOK, EstablisherInv
    <3> QED
      BY <1>1, <3>1, <3>2, CreateTeam DEF Kinds, LifeInv
  <2>2. CASE HiredControl(g)
    <3>1. /\ emp' = emp /\ Created(<<"control", g>>) /\ AddWork(<<"control", g>>)
          /\ epc[g] = "hiringControl" /\ epc' = [epc EXCEPT ![g] = "hireSender"]
      BY <2>2 DEF HiredControl
    <3>2. to = "hireSender" /\ cpc[g] = "none" /\ Jobs("control", g) = 0
      BY <1>1, <1>6, <3>1 DEF TypeOK, EstablisherInv
    <3> QED
      BY <1>1, <3>1, <3>2, CreatedTeam, WorkAdded DEF Kinds, LifeInv, Emp
  <2>3. CASE HireSender(g)
    <3>1. /\ freedUsed' = freedUsed /\ Create(<<"sender", g>>)
          /\ epc[g] = "hireSender" /\ epc' = [epc EXCEPT ![g] = "hiringSender"]
      BY <2>3 DEF HireSender
    <3>2. to = "hiringSender"
      BY <1>1, <1>6, <3>1 DEF TypeOK
    <3> QED
      BY <1>1, <3>1, <3>2, CreateTeam DEF Kinds, LifeInv
  <2>4. CASE HiredSender(g)
    <3>1. /\ UNCHANGED <<emp, jobs, freedUsed>> /\ Created(<<"sender", g>>)
          /\ peer_sender_team' = g
          /\ epc[g] = "hiringSender" /\ epc' = [epc EXCEPT ![g] = "done"]
      BY <2>4 DEF HiredSender
    <3>2. to = "done"
      BY <1>1, <1>6, <3>1 DEF TypeOK
    <3> QED
      BY <1>1, <3>1, <3>2, CreatedTeam DEF Kinds, LifeInv, Emp, Jobs
  <2> QED
    BY <2>1, <2>2, <2>3, <2>4 DEF Establisher
<1>8. ServerInv(g)'
  BY <1>1, <1>2, <1>3, <1>5, <1>6, <1>7 DEF ServerInv
<1>9. EstablisherInv(g)'
  BY <1>1, <1>5, <1>6, <1>7 DEF EstablisherInv
<1>10. FileInv' /\ SenderInv'
  BY <1>3, <1>4, <1>5, <1>6, <1>7 DEF FileInv, SenderInv, FileGone
<1> QED
  BY <1>1, <1>2, <1>4, <1>5, <1>6, <1>7, <1>8, <1>9, <1>10, Hiring

-----------------------------------------------------------------------------
(* Main and the handlers *)

(* What main and the handlers leave as it is. *)
LEMMA MainStep ==
    ASSUME LifeInv, TypeOK',
           UNCHANGED <<gen, spc, epc, cpc, emp, file_team, peer_sender_team, freedUsed>>,
           \A h \in Gens : /\ Team("receiver", h)' = Team("receiver", h)
                           /\ Jobs("control", h)' = Jobs("control", h),
           FileInv', SenderInv', MainInv'
    PROVE  LifeInv'
<1>1. ASSUME NEW h \in Gens PROVE ServerInv(h)' /\ EstablisherInv(h)' /\ ControlInv(h)'
  <2>1. ServerInv(h)'
    BY DEF LifeInv, ServerInv, Emp
  <2>2. EstablisherInv(h)' /\ ControlInv(h)'
    BY DEF LifeInv, EstablisherInv, ControlInv
  <2> QED
    BY <2>1, <2>2
<1>2. WriteInv'
  BY DEF LifeInv, WriteInv, Emp
<1> QED
  BY <1>1, <1>2 DEF LifeInv

LEMMA LaunchKeeps ==
    ASSUME LifeInv, TypeOK', Launch
    PROVE  LifeInv'
<1>1. /\ TypeOK /\ gen \in Nat /\ Starts \in Nat /\ gen' = gen + 1 /\ gen < Starts
      /\ mpc = "launch" /\ mpc' = "locked"
      /\ UNCHANGED <<epc, cpc, emp, team, jobs, handler, freedUsed>>
      /\ handler = "idle"
  <2>1. gen \in Nat /\ Starts \in Nat
    BY BoundsAssumption DEF LifeInv, TypeOK
  <2>2. handler = "idle"
    BY DEF LifeInv, TypeOK, MainInv, Launch, Go, Quitting
  <2> QED
    BY <2>1, <2>2 DEF LifeInv, Launch, Go, sigs, pool
<1>2. \A h \in Gens : h \in Nat /\ spc'[h] = IF h = gen + 1 THEN "begin" ELSE spc[h]
  BY <1>1 DEF Launch, TypeOK, Gens
<1>3. gen > 0 => gen \in Gens /\ epc[gen] = "done" /\ Emp("file", gen) = "gone"
  BY <1>1 DEF Gens, LifeInv, MainInv, Stopping, FileInv, FileGone
<1>4. gen + 1 \in Gens /\ spc[gen + 1] = "none" /\ epc[gen + 1] = "none"
  BY <1>1 DEF Gens, LifeInv, ServerInv
<1>5. ASSUME NEW h \in Gens PROVE ServerInv(h)' /\ EstablisherInv(h)' /\ ControlInv(h)'
  <2>1. /\ ServerInv(h) /\ Emp("file", h)' = Emp("file", h) /\ epc'[h] = epc[h]
        /\ h \in Nat /\ spc'[h] = IF h = gen + 1 THEN "begin" ELSE spc[h]
    BY <1>1, <1>2 DEF LifeInv, Emp
  <2>2. h = gen => epc[h] = "done" /\ Emp("file", h) = "gone"
    BY <1>3, <2>1 DEF Gens
  <2>3. ServerInv(h)'
    BY <1>1, <2>1, <2>2 DEF ServerInv
  <2>4. EstablisherInv(h)' /\ ControlInv(h)'
    BY <1>1 DEF LifeInv, EstablisherInv, ControlInv, Jobs, Team
  <2> QED
    BY <2>3, <2>4
<1>6. FileInv' /\ SenderInv'
  BY <1>1, <1>4 DEF FileInv, SenderInv
<1>7. MainInv'
  BY <1>1 DEF MainInv, Stopping, Quitting
<1>8. WriteInv'
  <2>1. ASSUME NEW h \in Gens, Emp("file", h)' = "writing" PROVE FALSE
    <3>1. Emp("file", h) = "writing" /\ ServerInv(h)
      BY <1>1, <2>1 DEF Emp, LifeInv
    <3>2. spc[h] # "none" /\ ~(h < gen)
      BY <3>1 DEF ServerInv
    <3>3. h = gen
      BY <1>1, <1>2, <3>1, <3>2 DEF ServerInv
    <3> QED
      BY <1>1, <1>2, <1>3, <3>1, <3>3 DEF Gens
  <2> QED
    BY <2>1 DEF WriteInv
<1> QED
  BY <1>1, <1>5, <1>6, <1>7, <1>8 DEF LifeInv

LEMMA StoppingStart ==
    ASSUME LifeInv, Stopping
    PROVE  /\ gen > 0 /\ gen \in Gens /\ epc[gen] = "done"
           /\ file_team = gen /\ peer_sender_team = gen /\ gen # None
<1>1. gen > 0 /\ gen \in 0..Starts
  BY DEF LifeInv, TypeOK, MainInv, Stopping, Quitting
<1>2. gen \in Gens /\ gen # None
  BY <1>1, BoundsAssumption DEF Gens, None
<1> QED
  BY <1>1, <1>2 DEF LifeInv, MainInv, FileInv, SenderInv

(* Steps that touch no team. *)
LEMMA PlainKeeps ==
    ASSUME LifeInv, TypeOK', Await \/ StopListening \/ Housekept \/ Decide \/ Notify
    PROVE  LifeInv'
<1>1. /\ UNCHANGED <<gen, spc, epc, cpc, emp, file_team, peer_sender_team, freedUsed>>
      /\ UNCHANGED <<team, jobs>>
  BY DEF Await, StopListening, Housekept, Decide, Notify, shared, pointers, pool
<1>2. /\ \/ mpc = "locked" /\ mpc' = "wait"
         \/ mpc = "wait" /\ mpc' = "stop" /\ handler # "idle" /\ handler' = "idle"
         \/ mpc = "stop" /\ mpc' = "file"
         \/ mpc = "house" /\ mpc' = "decide"
         \/ mpc = "decide" /\ mpc' \in {"launch", "ended"}
         \/ mpc' = mpc /\ handler' = "idle"
      /\ handler' = handler \/ handler' = "idle"
      /\ handler = "main" => handler' = "idle"
  BY DEF Await, StopListening, Housekept, Decide, Notify, Go, sigs
<1>3. handler \in {"idle", "main", "other"}
  BY DEF LifeInv, TypeOK
<1>4. FileInv' /\ SenderInv'
  BY <1>1, <1>2 DEF LifeInv, FileInv, SenderInv, FileGone, Emp, Team
<1>5. MainInv'
  BY <1>1, <1>2, <1>3 DEF LifeInv, MainInv, Stopping, Quitting
<1> QED
  BY <1>1, <1>4, <1>5, MainStep DEF Team, Jobs

LEMMA SignalKeeps ==
    ASSUME ~Early, LifeInv, TypeOK', NEW thread \in {"main", "other"}, Signal(thread)
    PROVE  LifeInv'
<1>1. /\ UNCHANGED <<gen, mpc, spc, epc, cpc, emp, file_team, peer_sender_team, freedUsed>>
      /\ UNCHANGED <<team, jobs>>
      /\ handler' = thread
      /\ Up \/ (mpc \in Quitting /\ thread = "main")
  BY DEF Signal, main, pointers, pool
<1>2. FileInv' /\ SenderInv'
  BY <1>1 DEF LifeInv, FileInv, SenderInv, FileGone, Emp, Team
<1>3. MainInv'
  BY <1>1 DEF LifeInv, MainInv, Stopping, Up
<1> QED
  BY <1>1, <1>2, <1>3, MainStep DEF Team, Jobs

(* The two teams main terminates are up when it begins to. *)
LEMMA TeamsKeep ==
    ASSUME LifeInv, TypeOK',
           TerminateFile \/ FileTerminated \/ TerminateSender \/ SenderTerminated
    PROVE  LifeInv'
<1>1. /\ UNCHANGED <<gen, spc, epc, cpc, emp, file_team, peer_sender_team, handler>>
      /\ handler # "main" /\ TypeOK
  BY DEF TerminateFile, FileTerminated, TerminateSender, SenderTerminated, pointers, sigs, Go,
         LifeInv
<1>2. /\ gen > 0 /\ gen \in Gens /\ epc[gen] = "done" /\ file_team = gen
      /\ peer_sender_team = gen /\ gen # None /\ Stopping /\ ServerInv(gen)
  BY StoppingStart DEF TerminateFile, FileTerminated, TerminateSender, SenderTerminated, Go,
                       Stopping, Quitting, LifeInv
<1>3. CASE TerminateFile
  <2>1. /\ mpc = "file" /\ mpc' = "fileWait" /\ Terminate(<<"file", gen>>) /\ jobs' = jobs
    BY <1>2, <1>3 DEF TerminateFile, Go
  <2>2. Team("file", gen) = "up" /\ Team("sender", gen) = "up"
    BY <1>2, <2>1 DEF LifeInv, FileInv, SenderInv
  <2>3. /\ freedUsed' = freedUsed
        /\ \A h \in Gens : /\ Team("receiver", h)' = Team("receiver", h)
                           /\ Team("sender", h)' = Team("sender", h)
    BY <1>1, <1>2, <2>1, <2>2, TerminateTeam DEF Kinds
  <2>4. FileInv' /\ SenderInv' /\ MainInv'
    BY <1>1, <1>2, <2>1, <2>2, <2>3
       DEF LifeInv, FileInv, SenderInv, MainInv, FileGone, Stopping, Quitting
  <2> QED
    BY <1>1, <2>1, <2>3, <2>4, MainStep DEF Jobs
<1>4. CASE FileTerminated
  <2>1. /\ mpc = "fileWait" /\ mpc' = "sender" /\ Terminated(<<"file", gen>>)
        /\ freedUsed' = freedUsed
    BY <1>2, <1>4 DEF FileTerminated, Go
  <2>2. Emp("file", gen) = "gone"
    BY <1>1, <1>2, <2>1, TerminatedTeam DEF ServerInv, Reported, Kinds
  <2>3. \A h \in Gens : /\ Team("receiver", h)' = Team("receiver", h)
                        /\ Team("sender", h)' = Team("sender", h)
                        /\ Jobs("control", h)' = Jobs("control", h)
    BY <1>1, <1>2, <2>1, TerminatedTeam DEF Kinds
  <2>4. Emp("file", gen)' = "gone"
    BY <1>1, <2>2 DEF Emp
  <2>5. FileInv' /\ SenderInv' /\ MainInv'
    BY <1>1, <1>2, <2>1, <2>3, <2>4
       DEF LifeInv, FileInv, SenderInv, MainInv, Stopping, Quitting
  <2> QED
    BY <1>1, <2>1, <2>3, <2>5, MainStep
<1>5. CASE TerminateSender
  <2>1. /\ mpc = "sender" /\ mpc' = "senderWait" /\ Terminate(<<"sender", gen>>)
        /\ jobs' = jobs
    BY <1>2, <1>5 DEF TerminateSender, Go
  <2>2. Team("sender", gen) = "up" /\ Emp("file", gen)' = "gone"
    BY <1>1, <1>2, <2>1 DEF LifeInv, FileInv, SenderInv, FileGone, Emp
  <2>3. /\ freedUsed' = freedUsed /\ Team("sender", gen)' = "ending"
        /\ \A h \in Gens : Team("receiver", h)' = Team("receiver", h)
    BY <1>1, <1>2, <2>1, <2>2, TerminateTeam DEF Kinds
  <2>4. FileInv' /\ SenderInv' /\ MainInv'
    BY <1>1, <1>2, <2>1, <2>2, <2>3
       DEF LifeInv, FileInv, SenderInv, MainInv, Stopping, Quitting
  <2> QED
    BY <1>1, <2>1, <2>3, <2>4, MainStep DEF Jobs
<1>6. CASE SenderTerminated
  <2>1. /\ mpc = "senderWait" /\ mpc' = "house" /\ Terminated(<<"sender", gen>>)
        /\ freedUsed' = freedUsed
    BY <1>2, <1>6 DEF SenderTerminated, Go
  <2>2. Emp("file", gen)' = "gone"
    BY <1>1, <1>2, <2>1 DEF LifeInv, FileInv, FileGone, Emp
  <2>3. \A h \in Gens : /\ Team("receiver", h)' = Team("receiver", h)
                        /\ Jobs("control", h)' = Jobs("control", h)
    BY <1>1, <1>2, <2>1, TerminatedTeam DEF Kinds
  <2>4. FileInv' /\ SenderInv' /\ MainInv'
    BY <1>1, <1>2, <2>1, <2>2, <2>3
       DEF LifeInv, FileInv, SenderInv, MainInv, Stopping, Quitting
  <2> QED
    BY <1>1, <2>1, <2>3, <2>4, MainStep
<1> QED
  BY <1>3, <1>4, <1>5, <1>6

-----------------------------------------------------------------------------
LEMMA LifeInit == Init => LifeInv
<1> SUFFICES ASSUME Init PROVE LifeInv
  OBVIOUS
<1>1. TypeOK
  <2>1. Starts \in Nat /\ Signals \in Nat /\ Clients \in Nat
    BY BoundsAssumption
  <2>2. team \in [Teams -> {"none", "hiring", "up", "ending", "freed"}] /\ jobs \in [Teams -> Nat]
    BY DEF Init
  <2>3. emp \in [Teams -> {"none", "created", "loop", "wait", "work", "writing", "gone"}]
    BY DEF Init
  <2>4. /\ threads_keepalive \in BOOLEAN /\ bealive \in BOOLEAN
        /\ hupReceived \in BOOLEAN /\ quitReceived \in BOOLEAN
    BY Zenon DEF Init
  <2>5. /\ gen \in 0..Starts /\ signals \in 0..Signals /\ accepts \in 0..Clients
        /\ master_socket \in 0..Starts /\ peer_listener \in 0..Starts
        /\ file_team \in 0..Starts /\ peer_sender_team \in 0..Starts
    BY <2>1 DEF Init, None
  <2>6. bpOpen \in SUBSET Gens /\ spOpen \in SUBSET Gens /\ freedUsed \in SUBSET {"terminate", "push"}
    BY DEF Init
  <2> QED
    BY <2>2, <2>3, <2>4, <2>5, <2>6 DEF Init, TypeOK
<1>2. ASSUME NEW g \in Gens PROVE ServerInv(g) /\ EstablisherInv(g) /\ ControlInv(g)
  <2>1. /\ g > gen /\ ~(g < gen) /\ spc[g] = "none" /\ epc[g] = "none" /\ cpc[g] = "none"
        /\ Emp("file", g) = "none" /\ Jobs("control", g) = 0
    BY BoundsAssumption DEF Init, Gens, Emp, Jobs, Teams, Kinds
  <2> QED
    BY <2>1 DEF ServerInv, EstablisherInv, ControlInv
<1>3. FileInv /\ SenderInv /\ MainInv
  BY DEF Init, FileInv, SenderInv, MainInv, Stopping, Quitting
<1>4. WriteInv
  BY TeamsAre DEF Init, WriteInv, Emp, Kinds
<1> QED
  BY <1>1, <1>2, <1>3, <1>4 DEF LifeInv, Init

LEMMA LifeStep == ~Early /\ LifeInv /\ [Next]_vars => LifeInv'
<1> SUFFICES ASSUME ~Early, LifeInv, [Next]_vars PROVE LifeInv'
  OBVIOUS
<1>1. TypeOK'
  BY TypeStep DEF LifeInv
<1>2. CASE Main \/ Notify
  BY <1>1, <1>2, LaunchKeeps, PlainKeeps, TeamsKeep DEF Main
<1>3. ASSUME NEW thread \in {"main", "other"}, Signal(thread) PROVE LifeInv'
  BY <1>1, <1>3, SignalKeeps
<1>4. ASSUME NEW t \in Teams, Employee(t) PROVE LifeInv'
  <2>1. PICK k \in Kinds, g \in Gens : t = <<k, g>>
    BY DEF Teams
  <2> QED
    BY <1>1, <1>4, <2>1, EmployeeQuiet
<1>5. ASSUME NEW g \in Gens, Server(g) PROVE LifeInv'
  BY <1>1, <1>5, ServerQuiet, ServerHires DEF Server
<1>6. ASSUME NEW g \in Gens, Establisher(g) PROVE LifeInv'
  BY <1>1, <1>6, EstablisherHires
<1>7. ASSUME NEW g \in Gens, Control(g) PROVE LifeInv'
  BY <1>1, <1>7, ControlQuiet
<1>8. ASSUME NEW g \in Gens, Working(g) \/ PeerSessionEnds(g) \/ StartWrite(g) PROVE LifeInv'
  BY <1>1, <1>8, SessionQuiet, WriteQuiet
<1>9. CASE UNCHANGED vars
  <2>1. UNCHANGED <<mpc, gen, handler, spc, epc, cpc, emp, team, jobs, file_team,
                    peer_sender_team, freedUsed>>
    BY <1>9 DEF vars
  <2>2. FileInv' /\ SenderInv' /\ MainInv'
    BY <2>1 DEF LifeInv, FileInv, SenderInv, MainInv, FileGone, Stopping, Emp, Team
  <2> QED
    BY <1>1, <2>1, <2>2, MainStep DEF Team, Jobs
<1> QED
  BY <1>2, <1>3, <1>4, <1>5, <1>6, <1>7, <1>8, <1>9 DEF Next

(* bbserv.cc:60-401, peer_operations.cc:13-79, thrd_mgmt.cc: the places,   *)
(* teams and pointers keep their types, early signals or not.              *)
THEOREM TypeCorrect == Spec => []TypeOK
<1>1. Init => TypeOK
  BY LifeInit DEF LifeInv
<1> QED
  BY <1>1, TypeStep, PTL DEF Spec

(* bbserv.cc:82-101: no client's session is under way or can begin while   *)
(* the board file is rewritten, if signals wait until a start is through.  *)
THEOREM HousekeepUndisturbed == ~Early /\ Spec => []HousekeepAlone
<1> SUFFICES ASSUME ~Early PROVE Spec => []HousekeepAlone
  OBVIOUS
<1>1. LifeInv => HousekeepAlone
  <2> SUFFICES ASSUME LifeInv, mpc = "house", NEW g \in Gens
               PROVE  Emp("file", g) \notin {"work", "writing"}
    BY DEF HousekeepAlone, Emp
  <2>1. gen \in Gens /\ gen > 0 /\ epc[gen] = "done" /\ Emp("file", gen) = "gone"
    <3>1. gen \in Gens /\ gen > 0 /\ epc[gen] = "done"
      BY StoppingStart DEF Stopping, Quitting
    <3> QED
      BY <3>1 DEF LifeInv, FileInv, FileGone
  <2>2. ServerInv(g) /\ g \in Nat /\ gen \in Nat
    BY <2>1 DEF LifeInv, Gens
  <2>3. CASE g < gen
    BY <2>2, <2>3 DEF ServerInv
  <2>4. CASE g = gen
    BY <2>1, <2>4
  <2>5. CASE g > gen
    BY <2>2, <2>5 DEF ServerInv
  <2> QED
    BY <2>2, <2>3, <2>4, <2>5
<1>2. LifeInv /\ [Next]_vars => LifeInv'
  BY LifeStep
<1> QED
  BY <1>1, <1>2, LifeInit, PTL DEF Spec

(* bbserv.cc:82-96, 148; peer_operations.cc:29: no team is terminated      *)
(* twice, although the pointers outlive the teams, and the senders of a    *)
(* session that waits for them are there, if signals wait until a start    *)
(* is through.                                                             *)
THEOREM TeamsOutliveUse == ~Early /\ Spec => []NoFreedTeam
<1> SUFFICES ASSUME ~Early PROVE Spec => []NoFreedTeam
  OBVIOUS
<1>1. LifeInv => NoFreedTeam
  <2> SUFFICES ASSUME LifeInv, NEW g \in Gens, Emp("file", g) = "writing"
               PROVE  Team("sender", peer_sender_team) \in {"up", "ending"}
    BY DEF NoFreedTeam, Emp, Team, LifeInv
  <2>1. ServerInv(g) /\ epc[gen] = "done" /\ gen \in 0..Starts
    BY DEF LifeInv, WriteInv, TypeOK
  <2>2. g = gen /\ gen > 0
    BY <2>1 DEF ServerInv, Gens
  <2>3. ~FileGone /\ peer_sender_team = gen
    BY <2>1, <2>2 DEF LifeInv, FileInv, SenderInv
  <2> QED
    BY <2>1, <2>2, <2>3 DEF LifeInv, TypeOK, SenderInv, MainInv, FileGone, Quitting
<1>2. LifeInv /\ [Next]_vars => LifeInv'
  BY LifeStep
<1> QED
  BY <1>1, <1>2, LifeInit, PTL DEF Spec
=============================================================================
