-------------------------- MODULE ThreadPoolProofs --------------------------
(***************************************************************************)
(* Theorems of ThreadPool, for every finite team and every set of jobs.    *)
(***************************************************************************)
EXTENDS ThreadPool, FiniteSetTheorems, SequenceTheorems, TLAPS

(* Those who have reported to create_team and not counted themselves out. *)
Reported == {e \in Employees : pc[e] \notin {"created", "leaving", "gone"}}

CountRight ==
    /\ available = Cardinality(Reported)
    /\ tpc # "hiring" => In("created") = {}

Awake == In("signalled") \cup In("woken") \cup In("pull")

(* Why work is never left lying: the semaphore is up whenever nobody is on *)
(* the way to the queue, and a thread that sleeps while it is up has been  *)
(* chosen to wake or leaves that to one that has.                          *)
WakeUps ==
    /\ pol = 1 /\ In("blocked") # {} => In("signalled") # {}
    /\ queue # <<>> /\ threads_keepalive => pol = 1 \/ Awake # {}

Inv == TypeOK /\ CountRight /\ PurgedQuiet /\ WakeUps

LEMMA ReportedFinite == IsFiniteSet(Reported) /\ Cardinality(Reported) \in Nat
                        /\ (Cardinality(Reported) = 0 => Reported = {})
                        /\ (Cardinality(Reported) = Cardinality(Employees)
                              => Reported = Employees)
<1>1. Reported \in SUBSET Employees
  BY DEF Reported
<1> QED
  BY <1>1, EmployeesAssumption, FS_Subset, FS_CardinalityType, FS_EmptySet

LEMMA InitInv == Init => Inv
<1> SUFFICES ASSUME Init PROVE Inv
  OBVIOUS
<1>1. TypeOK
  BY NoJobAssumption DEF Init, TypeOK, Places
<1>2. Reported = {}
  BY DEF Init, Reported
<1>3. CountRight
  BY <1>2, FS_EmptySet DEF Init, CountRight
<1> QED
  BY <1>1, <1>3 DEF Init, Inv, PurgedQuiet, WakeUps, In

(* Post chooses one of the blocked, and nobody else moves. *)
LEMMA PostEffect ==
    ASSUME NEW f \in [Employees -> Places], Post(f)
    PROVE  /\ pol' = 1
           /\ pc' \in [Employees -> Places]
           /\ \A e \in Employees : pc'[e] = f[e] \/ (f[e] = "blocked" /\ pc'[e] = "signalled")
           /\ In("blocked")' # {} => In("signalled")' # {}
  BY DEF Post, In, Places

-----------------------------------------------------------------------------
(* Types. *)

LEMMA NextTypeOK == TypeOK /\ [Next]_vars => TypeOK'
<1> SUFFICES ASSUME TypeOK, [Next]_vars PROVE TypeOK'
  OBVIOUS
<1> USE DEF TypeOK
<1>1. ASSUME NEW j \in Jobs, Push(j) PROVE TypeOK'
  <2>1. queue' \in Seq(Jobs)
    BY <1>1, AppendProperties DEF Push
  <2>2. pol' \in {0, 1} /\ pc' \in [Employees -> Places]
    BY <1>1, PostEffect DEF Push
  <2> QED
    BY <1>1, <2>1, <2>2 DEF Push
<1>2. ASSUME NEW e \in Employees, Arrive(e) \/ TestAlive(e) \/ TakeSem(e) \/ Block(e)
             \/ Return(e) \/ GoToWork(e) \/ TurnBack(e) \/ PullNothing(e)
             \/ JobDone(e) \/ Rest(e) \/ Leave(e) \/ End(e) \/ Spurious(e)
      PROVE  TypeOK'
  BY <1>2 DEF Arrive, TestAlive, TakeSem, Block, Return, GoToWork, TurnBack,
     PullNothing, JobDone, Rest, Leave, End, Spurious, Goto, Places
<1>3. ASSUME NEW e \in Employees, PullJob(e) PROVE TypeOK'
  <2> DEFINE f == [pc EXCEPT ![e] = "run"]
  <2>1. queue' \in Seq(Jobs) /\ Head(queue) \in Jobs
    BY <1>3, HeadTailProperties DEF PullJob
  <2>2. f \in [Employees -> Places]
    BY DEF Places
  <2>3. pol' \in {0, 1} /\ pc' \in [Employees -> Places]
    BY <1>3, <2>2, PostEffect DEF PullJob
  <2> QED
    BY <1>3, <2>1, <2>3 DEF PullJob, Oldest
<1>4. CASE Manager \/ BeginTermination
  <2>1. CASE PostAll
    BY <2>1 DEF PostAll, Released, Places
  <2>2. CASE Purge
    <3>1. <<>> \in Seq(Jobs)
      BY EmptySeq
    <3> QED
      BY <2>2, <3>1 DEF Purge
  <2>3. CASE Hired \/ Fire \/ FreeTeam \/ BeginTermination
    BY <2>3 DEF Hired, Fire, FreeTeam, BeginTermination
  <2> QED
    BY <1>4, <2>1, <2>2, <2>3 DEF Manager
<1>5. CASE UNCHANGED vars
  BY <1>5 DEF vars
<1> QED
  BY <1>1, <1>2, <1>3, <1>4, <1>5 DEF Next, Work

-----------------------------------------------------------------------------
(* The count of those available, and the quiet after the purge. *)

(* A step in which no employee enters or leaves Reported. *)
LEMMA SameReported ==
    ASSUME CountRight, PurgedQuiet, available' = available,
           tpc' = tpc \/ (tpc # "hiring" /\ tpc' = "posting"),
           \A e \in Employees :
               \/ pc'[e] = pc[e]
               \/ /\ pc[e] \notin {"created", "leaving", "gone"}
                  /\ pc'[e] \notin {"created", "leaving", "gone"}
               \/ pc[e] = "leaving" /\ pc'[e] = "gone"
    PROVE  CountRight' /\ PurgedQuiet'
<1>1. Reported' = Reported
  BY DEF Reported
<1>2. In("created")' = In("created")
  BY DEF In
<1> QED
  BY <1>1, <1>2 DEF CountRight, PurgedQuiet

LEMMA NextCounts ==
    ASSUME TypeOK, CountRight, PurgedQuiet, [Next]_vars
    PROVE  CountRight' /\ PurgedQuiet'
<1> USE DEF TypeOK
<1>1. ASSUME NEW j \in Jobs, Push(j) PROVE CountRight' /\ PurgedQuiet'
  <2>1. available' = available /\ tpc' = tpc
    BY <1>1 DEF Push
  <2>2. \A e \in Employees : pc'[e] = pc[e] \/ (pc[e] = "blocked" /\ pc'[e] = "signalled")
    BY <1>1, PostEffect DEF Push
  <2> QED
    BY <2>1, <2>2, SameReported
<1>2. ASSUME NEW e \in Employees, TestAlive(e) \/ TakeSem(e) \/ Block(e)
             \/ Return(e) \/ GoToWork(e) \/ TurnBack(e) \/ PullNothing(e)
             \/ JobDone(e) \/ Rest(e) \/ End(e) \/ Spurious(e)
      PROVE  CountRight' /\ PurgedQuiet'
  <2>1. available' = available /\ tpc' = tpc
    BY <1>2 DEF TestAlive, TakeSem, Block, Return, GoToWork, TurnBack,
       PullNothing, JobDone, Rest, End, Spurious
  <2>2. \A d \in Employees :
               \/ pc'[d] = pc[d]
               \/ /\ pc[d] \notin {"created", "leaving", "gone"}
                  /\ pc'[d] \notin {"created", "leaving", "gone"}
               \/ pc[d] = "leaving" /\ pc'[d] = "gone"
    BY <1>2 DEF TestAlive, TakeSem, Block, Return, GoToWork, TurnBack,
       PullNothing, JobDone, Rest, End, Spurious, Goto
  <2> QED
    BY <2>1, <2>2, SameReported
<1>3. ASSUME NEW e \in Employees, PullJob(e) PROVE CountRight' /\ PurgedQuiet'
  <2> DEFINE f == [pc EXCEPT ![e] = "run"]
  <2>1. available' = available /\ tpc' = tpc /\ pc[e] = "pull"
    BY <1>3 DEF PullJob
  <2>2. f \in [Employees -> Places] /\ (Post(f) \/ pc' = f)
    BY <1>3 DEF PullJob, Places
  <2>3. \A d \in Employees : pc'[d] = f[d] \/ (f[d] = "blocked" /\ pc'[d] = "signalled")
    BY <2>2, PostEffect
  <2> QED
    BY <2>1, <2>3, SameReported
<1>4. ASSUME NEW e \in Employees, Arrive(e) PROVE CountRight' /\ PurgedQuiet'
  <2>1. Reported' = Reported \cup {e} /\ e \notin Reported
    BY <1>4 DEF Arrive, Goto, Reported
  <2>2. available' = Cardinality(Reported')
    BY <1>4, <2>1, ReportedFinite, FS_AddElement DEF Arrive, CountRight
  <2> QED
    BY <1>4, <2>2 DEF Arrive, Goto, CountRight, PurgedQuiet, In
<1>5. ASSUME NEW e \in Employees, Leave(e) PROVE CountRight' /\ PurgedQuiet'
  <2>1. Reported' = Reported \ {e} /\ e \in Reported
    BY <1>5 DEF Leave, Goto, Reported
  <2>2. available' = Cardinality(Reported')
    BY <1>5, <2>1, ReportedFinite, FS_RemoveElement DEF Leave, CountRight
  <2> QED
    BY <1>5, <2>2 DEF Leave, Goto, CountRight, PurgedQuiet, In
<1>6. CASE Hired
  <2>1. Reported = Employees /\ Reported' = Reported
    BY <1>6, ReportedFinite DEF Hired, CountRight, Reported
  <2>2. In("created")' = {}
    BY <1>6, <2>1 DEF Hired, In, Reported
  <2> QED
    BY <1>6, <2>1, <2>2 DEF Hired, CountRight, PurgedQuiet
<1>7. CASE PostAll
  BY <1>7, SameReported DEF PostAll, Released
<1>8. CASE BeginTermination
  BY <1>8, SameReported DEF BeginTermination
<1>9. CASE Purge
  <2>1. Reported = {} /\ In("created") = {}
    BY <1>9, ReportedFinite DEF Purge, EveryoneOut, CountRight
  <2>2. \A e \in Employees : pc[e] \in {"leaving", "gone"}
    BY <2>1 DEF Reported, In
  <2> QED
    BY <1>9, <2>2 DEF Purge, CountRight, PurgedQuiet, Reported, In
<1>10. CASE Fire \/ FreeTeam
  BY <1>10 DEF Fire, FreeTeam, CountRight, PurgedQuiet, Reported, In
<1>11. CASE UNCHANGED vars
  BY <1>11, SameReported DEF vars
<1> QED
  BY <1>1, <1>2, <1>3, <1>4, <1>5, <1>6, <1>7, <1>8, <1>9, <1>10, <1>11
     DEF Next, Work, Manager

-----------------------------------------------------------------------------
(* Wake-ups. *)

LEMMA NextWakeUps ==
    ASSUME TypeOK, WakeUps, [Next]_vars
    PROVE  WakeUps'
<1> USE DEF TypeOK
<1>1. ASSUME NEW j \in Jobs, Push(j) PROVE WakeUps'
  BY <1>1, PostEffect DEF Push, WakeUps
<1>2. ASSUME NEW e \in Employees, Arrive(e) \/ TestAlive(e) \/ JobDone(e) \/ Rest(e)
             \/ Leave(e) \/ End(e) \/ TurnBack(e) \/ GoToWork(e)
      PROVE  WakeUps'
  BY <1>2 DEF Arrive, TestAlive, JobDone, Rest, Leave, End, TurnBack, GoToWork,
     Goto, WakeUps, Awake, In
<1>3. ASSUME NEW e \in Employees, TakeSem(e) \/ Return(e) PROVE WakeUps'
  <2>1. pol' = 0 /\ e \in Awake'
    BY <1>3 DEF TakeSem, Return, Goto, Awake, In
  <2> QED
    BY <2>1 DEF WakeUps
<1>4. ASSUME NEW e \in Employees, Block(e) PROVE WakeUps'
  BY <1>4 DEF Block, Goto, WakeUps, Awake, In
<1>5. ASSUME NEW e \in Employees, Spurious(e) PROVE WakeUps'
  BY <1>5 DEF Spurious, Goto, WakeUps, Awake, In
<1>6. ASSUME NEW e \in Employees, PullNothing(e) PROVE WakeUps'
  BY <1>6 DEF PullNothing, Goto, WakeUps, In
<1>7. ASSUME NEW e \in Employees, PullJob(e) PROVE WakeUps'
  <2> DEFINE f == [pc EXCEPT ![e] = "run"]
  <2>1. f \in [Employees -> Places]
    BY DEF Places
  <2>2. CASE LeavesJobs
    <3>1. pol' = 1 /\ (In("blocked")' # {} => In("signalled")' # {})
      BY <1>7, <2>1, <2>2, PostEffect DEF PullJob
    <3> QED
      BY <3>1 DEF WakeUps
  <2>3. CASE ~LeavesJobs
    <3>1. queue' = <<>>
      <4>1. Len(queue) = 1
        <5>1. queue \in Seq(Jobs) /\ queue # <<>> /\ ~(Len(queue) > 1)
          BY <1>7, <2>3 DEF PullJob, LeavesJobs
        <5>2. Len(queue) \in Nat /\ Len(queue) # 0
          BY <5>1, EmptySeq
        <5>3. \A n \in Nat : n # 0 /\ ~(n > 1) => n = 1
          OBVIOUS
        <5> QED
          BY <5>1, <5>2, <5>3, Zenon
      <4>2. Len(Tail(queue)) = 0 /\ Tail(queue) \in Seq(Jobs)
        BY <1>7, <4>1, HeadTailProperties DEF PullJob
      <4> QED
        BY <1>7, <4>2, EmptySeq DEF PullJob
    <3>2. pc' = f /\ pol' = pol
      BY <1>7, <2>3 DEF PullJob
    <3>3. In("blocked")' = In("blocked") /\ In("signalled")' = In("signalled")
      BY <1>7, <3>2 DEF PullJob, In
    <3> QED
      BY <3>1, <3>2, <3>3 DEF WakeUps
  <2> QED
    BY <2>2, <2>3
<1>8. CASE PostAll
  BY <1>8 DEF PostAll, Released, WakeUps, In
<1>9. CASE Hired \/ Fire \/ FreeTeam \/ UNCHANGED vars
  BY <1>9 DEF Hired, Fire, FreeTeam, vars, WakeUps, Awake, In
<1>10. CASE Purge \/ BeginTermination
  BY <1>10 DEF Purge, BeginTermination, WakeUps, Awake, In
<1> QED
  BY <1>1, <1>2, <1>3, <1>4, <1>5, <1>6, <1>7, <1>8, <1>9, <1>10
     DEF Next, Work, Manager

-----------------------------------------------------------------------------
LEMMA InvHolds == Spec => []Inv
<1>1. Init => Inv
  BY InitInv
<1>2. Inv /\ [Next]_vars => Inv'
  BY NextTypeOK, NextCounts, NextWakeUps DEF Inv
<1> QED
  BY <1>1, <1>2, PTL DEF Spec

(* thrd_mgmt.cc:215-275,320-368: every variable of a team keeps its type,  *)
(* with any number of employees and of jobs.                               *)
THEOREM TypeCorrect == Spec => []TypeOK
  BY InvHolds, PTL DEF Inv

(* thrd_mgmt.cc:339,362,415-430: no lost wake-up.  Two threads may leave   *)
(* bsem_wait for one post and one post may stand for several jobs, and     *)
(* still no job is left in the queue with everybody asleep.                *)
THEOREM NoLostWakeUp == Spec => []Dispatchable
<1>1. Inv => Dispatchable
  BY DEF Inv, WakeUps, Awake, Dispatchable
<1> QED
  BY <1>1, InvHolds, PTL

(* thrd_mgmt.cc:119-124: terminate_team destroys the queue only when every *)
(* employee has finished its job and is out of the loop for good.          *)
THEOREM QuietPurge == Spec => []PurgedQuiet
  BY InvHolds, PTL DEF Inv

-----------------------------------------------------------------------------
(* The team implements WorkPool: a job is in the queue once, or held by    *)
(* one employee, and never both.                                           *)
JobsInv ==
    /\ \A e, d \in In("run") : job[e] = job[d] => e = d
    /\ \A k, m \in 1..Len(queue) : queue[k] = queue[m] => k = m
    /\ Queued \cap Running = {}
    /\ Running \subseteq Jobs

LEMMA JobsInit == Init => JobsInv
  BY DEF Init, JobsInv, In, Queued, Running

(* A step that moves nobody to or from "run" and leaves jobs alone. *)
LEMMA SameRunning ==
    ASSUME job' = job, In("run")' = In("run")
    PROVE  Running' = Running
  BY DEF Running

LEMMA SameJobs ==
    ASSUME JobsInv, job' = job, In("run")' = In("run"), queue' \in {queue, <<>>}
    PROVE  JobsInv'
  BY SameRunning DEF JobsInv, Queued

(* push_work *)
LEMMA PushJobs ==
    ASSUME TypeOK, JobsInv, NEW j \in Jobs, Push(j)
    PROVE  /\ JobsInv' /\ Running' = Running
           /\ queue' = Append(queue, j) /\ j \notin Queued \cup Running
<1>1. In("run")' = In("run") /\ job' = job
  <2>1. \A e \in Employees : pc'[e] = pc[e] \/ (pc[e] = "blocked" /\ pc'[e] = "signalled")
    BY PostEffect DEF Push, TypeOK
  <2> QED
    BY <2>1 DEF In, Push
<1>2. Running' = Running
  BY <1>1, SameRunning
<1>3. queue' = Append(queue, j) /\ j \notin Queued \cup Running
  BY DEF Push
<1>4. /\ Len(queue') = Len(queue) + 1 /\ queue'[Len(queue) + 1] = j
      /\ \A k \in 1..Len(queue) : queue'[k] = queue[k]
      /\ Len(queue) \in Nat
  BY <1>3 DEF TypeOK
<1>5. Queued' = Queued \cup {j}
  BY <1>4 DEF Queued
<1>6. \A k, m \in 1..Len(queue') : queue'[k] = queue'[m] => k = m
  BY <1>3, <1>4 DEF JobsInv, Queued
<1> QED
  BY <1>1, <1>2, <1>3, <1>5, <1>6 DEF JobsInv

(* pull_work *)
LEMMA PullJobs ==
    ASSUME TypeOK, JobsInv, NEW e \in Employees, PullJob(e)
    PROVE  /\ JobsInv' /\ e \notin In("run")
           /\ Running' = Running \cup {Head(queue)}
           /\ queue # <<>> /\ queue' = Tail(queue) /\ Head(queue) \notin Running
<1> DEFINE f == [pc EXCEPT ![e] = "run"]
<1>1. /\ pc[e] = "pull" /\ queue # <<>> /\ queue' = Tail(queue)
      /\ job' = [job EXCEPT ![e] = Head(queue)]
      /\ f \in [Employees -> Places] /\ (Post(f) \/ pc' = f)
  BY DEF PullJob, TypeOK, Places, Oldest
<1>2. \A d \in Employees : pc'[d] = f[d] \/ (f[d] = "blocked" /\ pc'[d] = "signalled")
  BY <1>1, PostEffect
<1>3. In("run")' = In("run") \cup {e} /\ e \notin In("run")
  BY <1>1, <1>2 DEF In, TypeOK
<1>4. job'[e] = Head(queue) /\ \A d \in In("run") : job'[d] = job[d]
  BY <1>1, <1>3 DEF TypeOK, In
<1>5. Running' = Running \cup {Head(queue)}
  BY <1>3, <1>4 DEF Running
<1>6. /\ Head(queue) = queue[1] /\ 1 \in 1..Len(queue) /\ Head(queue) \in Jobs
      /\ Len(queue') = Len(queue) - 1 /\ Len(queue) \in Nat
      /\ \A k \in 1..Len(queue') : queue'[k] = queue[k + 1]
  BY <1>1 DEF TypeOK
<1>7. Head(queue) \notin Running
  BY <1>6 DEF JobsInv, Queued
<1>8. Queued' \subseteq Queued \ {Head(queue)}
  BY <1>6 DEF JobsInv, Queued
<1>9. \A k, m \in 1..Len(queue') : queue'[k] = queue'[m] => k = m
  BY <1>6 DEF JobsInv
<1>10. \A d, c \in In("run")' : job'[d] = job'[c] => d = c
  BY <1>3, <1>4, <1>7 DEF JobsInv, Running
<1> QED
  BY <1>1, <1>3, <1>5, <1>6, <1>7, <1>8, <1>9, <1>10 DEF JobsInv

(* The job of e is done: nobody else holds it. *)
LEMMA DoneJobs ==
    ASSUME TypeOK, JobsInv, NEW e \in Employees, JobDone(e)
    PROVE  /\ JobsInv' /\ queue' = queue
           /\ job[e] \in Running /\ Running' = Running \ {job[e]}
<1>1. In("run")' = In("run") \ {e} /\ e \in In("run")
  BY DEF JobDone, Goto, In, TypeOK
<1>2. \A d \in In("run")' : job'[d] = job[d]
  BY <1>1 DEF JobDone, TypeOK
<1>3. job[e] \in Running /\ Running' = Running \ {job[e]}
  BY <1>1, <1>2 DEF JobsInv, Running
<1>4. queue' = queue
  BY DEF JobDone
<1> QED
  BY <1>1, <1>2, <1>3, <1>4 DEF JobsInv, Queued

(* Every other step neither starts nor ends a job. *)
LEMMA IdleJobs ==
    ASSUME TypeOK, JobsInv,
           \/ \E e \in Employees :
                 \/ Arrive(e) \/ TestAlive(e) \/ TakeSem(e) \/ Block(e) \/ Return(e)
                 \/ GoToWork(e) \/ TurnBack(e) \/ PullNothing(e) \/ Rest(e)
                 \/ Leave(e) \/ End(e) \/ Spurious(e)
           \/ Hired \/ PostAll \/ Purge \/ Fire \/ FreeTeam \/ BeginTermination
           \/ UNCHANGED vars
    PROVE  JobsInv' /\ Running' = Running
<1>1. job' = job /\ queue' \in {queue, <<>>}
  BY DEF Arrive, TestAlive, TakeSem, Block, Return, GoToWork, TurnBack, PullNothing,
     Rest, Leave, End, Spurious, Hired, PostAll, Purge, Fire, FreeTeam,
     BeginTermination, vars
<1>2. In("run")' = In("run")
  <2>1. CASE \E e \in Employees :
                 \/ Arrive(e) \/ TestAlive(e) \/ TakeSem(e) \/ Block(e) \/ Return(e)
                 \/ GoToWork(e) \/ TurnBack(e) \/ PullNothing(e) \/ Rest(e)
                 \/ Leave(e) \/ End(e) \/ Spurious(e)
    BY <2>1 DEF Arrive, TestAlive, TakeSem, Block, Return, GoToWork, TurnBack,
       PullNothing, Rest, Leave, End, Spurious, Goto, In, TypeOK
  <2>2. CASE PostAll
    BY <2>2 DEF PostAll, Released, In
  <2>3. CASE Hired \/ Purge \/ Fire \/ FreeTeam \/ BeginTermination \/ UNCHANGED vars
    BY <2>3 DEF Hired, Purge, Fire, FreeTeam, BeginTermination, vars, In
  <2> QED
    BY <2>1, <2>2, <2>3
<1> QED
  BY <1>1, <1>2, SameJobs, SameRunning

LEMMA JobsStep == TypeOK /\ JobsInv /\ [Next]_vars => JobsInv'
  BY PushJobs, PullJobs, DoneJobs, IdleJobs DEF Next, Work, Manager

(* One thread that pulls is not running: there is room for one more. *)
LEMMA RoomForOne ==
    ASSUME NEW e \in Employees, e \notin In("run")
    PROVE  Cardinality(Running) < Cardinality(Employees)
<1> DEFINE held == [d \in In("run") |-> job[d]]
<1>1. In("run") \in SUBSET (Employees \ {e})
  BY DEF In
<1>2. /\ IsFiniteSet(Employees \ {e})
      /\ Cardinality(Employees \ {e}) = Cardinality(Employees) - 1
      /\ Cardinality(Employees) \in Nat
  BY EmployeesAssumption, FS_RemoveElement, FS_CardinalityType
<1>3. IsFiniteSet(In("run")) /\ Cardinality(In("run")) <= Cardinality(Employees) - 1
  BY <1>1, <1>2, FS_Subset
<1>4. held \in Surjection(In("run"), Running)
  BY DEF Surjection, Running
<1>5. IsFiniteSet(Running) /\ Cardinality(Running) <= Cardinality(In("run"))
  BY <1>3, <1>4, FS_Surjection
<1>6. Cardinality(Running) \in Nat /\ Cardinality(In("run")) \in Nat
  BY <1>3, <1>5, FS_CardinalityType
<1> QED
  BY <1>2, <1>3, <1>5, <1>6

(* WorkPool's Cardinality is the one of FiniteSets. *)
LEMMA PoolCardinality == ASSUME NEW S PROVE Pool!Cardinality(S) = Cardinality(S)
  BY Zenon DEF Pool!Cardinality, Cardinality

Over == tpc \in {"purged", "fired", "freed"}

LEMMA PoolStep ==
    ASSUME Inv, JobsInv, [Next]_vars
    PROVE  [Pool!Next]_(Pool!vars)
<1>0. TypeOK /\ PurgedQuiet
  BY DEF Inv
<1>1. ASSUME NEW j \in Jobs, Push(j) PROVE Pool!Submit(j)
  BY <1>0, <1>1, PushJobs DEF Pool!Submit, Pool!Waiting, Push, Queued
<1>2. ASSUME NEW e \in Employees, PullJob(e) PROVE Pool!Start
  <2>1. ~Over /\ tpc' = tpc
    BY <1>0, <1>2 DEF PullJob, PurgedQuiet, Over
  <2>2. Pool!Cardinality(Running) < Cardinality(Employees)
    BY <1>0, <1>2, PullJobs, RoomForOne, PoolCardinality
  <2>3. /\ Running' = Running \cup {Head(queue)} /\ Head(queue) \notin Running
        /\ queue # <<>> /\ queue' = Tail(queue)
    BY <1>0, <1>2, PullJobs
  <2> QED
    BY <2>1, <2>2, <2>3 DEF Pool!Start, Over
<1>3. ASSUME NEW e \in Employees, JobDone(e) PROVE Pool!Finish(job[e]) /\ job[e] \in Jobs
  <2>1. pc[e] = "run" /\ tpc' = tpc
    BY <1>3 DEF JobDone
  <2>2. job[e] \in Running /\ Running' = Running \ {job[e]} /\ queue' = queue
    BY <1>0, <1>3, DoneJobs
  <2>3. job[e] \in Jobs
    BY <2>2 DEF JobsInv
  <2> QED
    BY <2>1, <2>2, <2>3 DEF Pool!Finish
<1>4. ASSUME Purge PROVE Pool!Close
  <2>1. Running = {}
    <3>1. Reported = {}
      BY <1>4, ReportedFinite DEF Purge, EveryoneOut, Inv, CountRight
    <3> QED
      BY <3>1 DEF Running, In, Reported
  <2>2. Running' = Running
    BY <1>0, <1>4, IdleJobs
  <2> QED
    BY <1>4, <2>1, <2>2 DEF Pool!Close, Purge
<1>5. ASSUME \/ \E e \in Employees :
                 \/ Arrive(e) \/ TestAlive(e) \/ TakeSem(e) \/ Block(e) \/ Return(e)
                 \/ GoToWork(e) \/ TurnBack(e) \/ PullNothing(e) \/ Rest(e)
                 \/ Leave(e) \/ End(e) \/ Spurious(e)
             \/ Hired \/ PostAll \/ Fire \/ FreeTeam \/ BeginTermination
             \/ UNCHANGED vars
      PROVE  UNCHANGED Pool!vars
  <2>1. Running' = Running
    BY <1>0, <1>5, IdleJobs
  <2>2. queue' = queue /\ (Over' <=> Over)
    BY <1>5 DEF Arrive, TestAlive, TakeSem, Block, Return, GoToWork, TurnBack,
       PullNothing, Rest, Leave, End, Spurious, Hired, PostAll, Fire, FreeTeam,
       BeginTermination, vars, Over
  <2> QED
    BY <2>1, <2>2 DEF Pool!vars, Over
<1> QED
  BY <1>1, <1>2, <1>3, <1>4, <1>5 DEF Next, Work, Manager, Pool!Next

(* thrd_mgmt.cc:215-368: whatever the interleaving of those who add work,  *)
(* the employees, the semaphore and terminate_team, jobs start in the      *)
(* order they were added, each one once, never more than there are         *)
(* employees, and none after the team is closed.                           *)
THEOREM PoolImplemented == Spec => PoolSpec
<1>1. Init => JobsInv /\ Pool!Init
  BY JobsInit DEF Init, Pool!Init, Running, In
<1>2. Inv /\ JobsInv /\ [Next]_vars => JobsInv'
  BY JobsStep DEF Inv
<1>3. Inv /\ JobsInv /\ [Next]_vars => [Pool!Next]_(Pool!vars)
  BY PoolStep
<1> QED
  BY <1>1, <1>2, <1>3, InvHolds, PTL DEF Spec, PoolSpec, Pool!Spec
=============================================================================
