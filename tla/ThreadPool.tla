----------------------------- MODULE ThreadPool -----------------------------
(***************************************************************************)
(* One team of thrd_mgmt.cc: its employees (activate_employee), its queue  *)
(* and binary semaphore (push_work, pull_work, bsem_wait, sem_post,        *)
(* bsem_post_all), those who add work to it, and terminate_team.           *)
(*                                                                         *)
(* A stretch of code under one mutex is one step.  push_work and pull_work *)
(* hold access_work_queue and inside it take the semaphore's mutex once;   *)
(* nobody takes the two in the other order, so they are one step as well.  *)
(* The wait set of sem.cond is part of the state: an employee is blocked   *)
(* in pthread_cond_wait, then signalled (chosen, not back yet).            *)
(* threads_keepalive is one global of the process; here one team uses it.  *)
(***************************************************************************)
EXTENDS Integers, Sequences, FiniteSets

CONSTANTS
    Employees,     \* the threads of the team
    Jobs,          \* work that may be added; a job done may be added again
    NoJob,         \* what an employee holds between jobs
    MayTerminate   \* whether terminate_team may be called in this instance

ASSUME EmployeesAssumption == IsFiniteSet(Employees)
ASSUME NoJobAssumption == NoJob \notin Jobs
ASSUME MayTerminateAssumption == MayTerminate \in BOOLEAN

VARIABLES
    threads_keepalive,
    queue,       \* first ... last; its length is work_to_be_done
    pol,         \* the semaphore: 0 or 1
    pc,          \* where each employee is in activate_employee
    job,         \* the job it runs
    available,   \* no_of_employees_available
    working,     \* no_of_employees_working
    tpc          \* where create_team / terminate_team is

vars == <<threads_keepalive, queue, pol, pc, job, available, working, tpc>>

Places == {"created", "loop", "sem", "blocked", "signalled", "woken", "pull",
           "run", "finish", "leave", "leaving", "gone"}

TypeOK ==
    /\ threads_keepalive \in BOOLEAN
    /\ queue \in Seq(Jobs)
    /\ pol \in {0, 1}
    /\ pc \in [Employees -> Places]
    /\ job \in [Employees -> Jobs \cup {NoJob}]
    /\ available \in Int
    /\ working \in Int
    /\ tpc \in {"hiring", "open", "posting", "purged", "fired", "freed"}

Init ==
    /\ threads_keepalive = TRUE
    /\ queue = <<>>
    /\ pol = 0
    /\ pc = [e \in Employees |-> "created"]
    /\ job = [e \in Employees |-> NoJob]
    /\ available = 0
    /\ working = 0
    /\ tpc = "hiring"

-----------------------------------------------------------------------------
In(place) == {e \in Employees : pc[e] = place}

Goto(e, place) == pc' = [pc EXCEPT ![e] = place]

(* The mutex team_lock is held while a leaving employee writes its log     *)
(* line; the other stretches under it are single steps.                    *)
TeamLockFree == In("leaving") = {}

(* sem_post on the way of f: set pol, let one of the blocked go, if any. *)
PostCounting(f) ==
    /\ pol' = pol + 1
    /\ IF \E e \in Employees : f[e] = "blocked"
         THEN \E e \in Employees : /\ f[e] = "blocked"
                                   /\ pc' = [f EXCEPT ![e] = "signalled"]
         ELSE pc' = f
Post(f) ==
    /\ pol' = 1
    /\ IF \E e \in Employees : f[e] = "blocked"
         THEN \E e \in Employees : /\ f[e] = "blocked"
                                   /\ pc' = [f EXCEPT ![e] = "signalled"]
         ELSE pc' = f

(* pull_work posts again when it leaves jobs behind ("default"). *)
LeavesNone == FALSE
LeavesJobs == Len(queue) > 1

Newest(q) == q[Len(q)]
Oldest(q) == Head(q)

-----------------------------------------------------------------------------
(* create_team spins until every employee has reported. *)

Arrive(e) ==
    /\ pc[e] = "created" /\ TeamLockFree
    /\ available' = available + 1
    /\ Goto(e, "loop")
    /\ UNCHANGED <<threads_keepalive, queue, pol, job, working, tpc>>

Hired ==
    /\ tpc = "hiring" /\ available = Cardinality(Employees)
    /\ tpc' = "open"
    /\ UNCHANGED <<threads_keepalive, queue, pol, pc, job, available, working>>

-----------------------------------------------------------------------------
(* add_work_to_team, called by other threads while the team exists. *)

Queued == {queue[k] : k \in 1..Len(queue)}
Running == {job[e] : e \in In("run")}

Push(j) ==
    /\ tpc \in {"open", "posting"}
    /\ j \notin Queued \cup Running
    /\ queue' = Append(queue, j)
    /\ Post(pc)
    /\ UNCHANGED <<threads_keepalive, job, available, working, tpc>>

-----------------------------------------------------------------------------
(* activate_employee. *)

TestAlive(e) ==
    /\ pc[e] = "loop"
    /\ Goto(e, IF threads_keepalive THEN "sem" ELSE "leave")
    /\ UNCHANGED <<threads_keepalive, queue, pol, job, available, working, tpc>>

(* bsem_wait: an "if" around pthread_cond_wait, so whoever returns from it *)
(* takes the semaphore, whatever pol is by then.                           *)
TakeSem(e) ==
    /\ pc[e] = "sem" /\ pol = 1
    /\ pol' = 0
    /\ Goto(e, "woken")
    /\ UNCHANGED <<threads_keepalive, queue, job, available, working, tpc>>

Block(e) ==
    /\ pc[e] = "sem" /\ pol # 1
    /\ Goto(e, "blocked")
    /\ UNCHANGED <<threads_keepalive, queue, pol, job, available, working, tpc>>

Return(e) ==
    /\ pc[e] = "signalled"
    /\ pol' = 0
    /\ Goto(e, "woken")
    /\ UNCHANGED <<threads_keepalive, queue, job, available, working, tpc>>

(* pthread_cond_wait may return without a signal. *)
Spurious(e) ==
    /\ pc[e] = "blocked"
    /\ Goto(e, "signalled")
    /\ UNCHANGED <<threads_keepalive, queue, pol, job, available, working, tpc>>

GoToWork(e) ==
    /\ pc[e] = "woken" /\ threads_keepalive /\ TeamLockFree
    /\ working' = working + 1
    /\ Goto(e, "pull")
    /\ UNCHANGED <<threads_keepalive, queue, pol, job, available, tpc>>

TurnBack(e) ==
    /\ pc[e] = "woken" /\ ~threads_keepalive
    /\ Goto(e, "loop")
    /\ UNCHANGED <<threads_keepalive, queue, pol, job, available, working, tpc>>

PullNothing(e) ==
    /\ pc[e] = "pull" /\ queue = <<>>
    /\ Goto(e, "finish")
    /\ UNCHANGED <<threads_keepalive, queue, pol, job, available, working, tpc>>

PullJob(e) ==
    /\ pc[e] = "pull" /\ queue # <<>>
    /\ job' = [job EXCEPT ![e] = Oldest(queue)]
    /\ queue' = Tail(queue)
    /\ LET f == [pc EXCEPT ![e] = "run"] IN
         IF LeavesJobs THEN Post(f) ELSE pc' = f /\ UNCHANGED pol
    /\ UNCHANGED <<threads_keepalive, available, working, tpc>>

JobDone(e) ==
    /\ pc[e] = "run"
    /\ job' = [job EXCEPT ![e] = NoJob]
    /\ Goto(e, "finish")
    /\ UNCHANGED <<threads_keepalive, queue, pol, available, working, tpc>>

Rest(e) ==
    /\ pc[e] = "finish" /\ TeamLockFree
    /\ working' = working - 1
    /\ Goto(e, "loop")
    /\ UNCHANGED <<threads_keepalive, queue, pol, job, available, tpc>>

(* Count itself out, and only then write a log line with employee_a->id. *)
Leave(e) ==
    /\ pc[e] = "leave" /\ TeamLockFree
    /\ available' = available - 1
    /\ Goto(e, "leaving")
    /\ UNCHANGED <<threads_keepalive, queue, pol, job, working, tpc>>

End(e) ==
    /\ pc[e] = "leaving"
    /\ Goto(e, "gone")
    /\ UNCHANGED <<threads_keepalive, queue, pol, job, available, working, tpc>>

(* Steps of an employee that its scheduling guarantees; a job may be long, *)
(* but ends.                                                               *)
Work(e) ==
    \/ Arrive(e) \/ TestAlive(e)
    \/ TakeSem(e) \/ Block(e) \/ Return(e)
    \/ GoToWork(e) \/ TurnBack(e)
    \/ PullNothing(e) \/ PullJob(e) \/ JobDone(e) \/ Rest(e)
    \/ Leave(e) \/ End(e)

-----------------------------------------------------------------------------
(* terminate_team. *)

BeginTermination ==
    /\ tpc = "open" /\ MayTerminate
    /\ threads_keepalive' = FALSE
    /\ tpc' = "posting"
    /\ UNCHANGED <<queue, pol, pc, job, available, working>>

(* no_of_employees_available is read without team_lock. *)
OneMayRemain == available <= 1
EveryoneOut == available = 0

(* bsem_post_all, as long as somebody is available. *)
NotReleased(place) == place
Released(place) == IF place = "blocked" THEN "signalled" ELSE place

PostAll ==
    /\ tpc = "posting" /\ ~EveryoneOut
    /\ pol' = 1
    /\ pc' = [e \in Employees |-> Released(pc[e])]
    /\ UNCHANGED <<threads_keepalive, queue, job, available, working, tpc>>

(* terminate_work_queue: the jobs still queued are freed, not run. *)
Purge ==
    /\ tpc = "posting" /\ EveryoneOut
    /\ queue' = <<>> /\ pol' = 0
    /\ tpc' = "purged"
    /\ UNCHANGED <<threads_keepalive, pc, job, available, working>>

(* terminate_employee on each; sleep(1); free the team. *)
Fire ==
    /\ tpc = "purged"
    /\ tpc' = "fired"
    /\ UNCHANGED <<threads_keepalive, queue, pol, pc, job, available, working>>

FreeTeam ==
    /\ tpc = "fired"
    /\ tpc' = "freed"
    /\ UNCHANGED <<threads_keepalive, queue, pol, pc, job, available, working>>

Manager == Hired \/ PostAll \/ Purge \/ Fire \/ FreeTeam

-----------------------------------------------------------------------------
Next ==
    \/ \E j \in Jobs : Push(j)
    \/ \E e \in Employees : Work(e) \/ Spurious(e)
    \/ Manager \/ BeginTermination

(* The kernel runs every thread, and every job ends.  When to add work or  *)
(* to terminate the team is for others to choose; spurious wake-ups need   *)
(* not happen.                                                             *)
Fairness ==
    /\ \A e \in Employees : WF_vars(Work(e))
    /\ WF_vars(Manager)

Spec == Init /\ [][Next]_vars /\ Fairness

-----------------------------------------------------------------------------
(* Properties. *)

(* thrd_mgmt.cc:339,362,415-430: work is never left lying.  While jobs are *)
(* queued, somebody is on the way to pull_work, or the semaphore is up and *)
(* nobody sleeps through it.                                               *)
Dispatchable ==
    queue # <<>> /\ threads_keepalive =>
        \/ In("signalled") \cup In("woken") \cup In("pull") # {}
        \/ pol = 1 /\ In("blocked") = {}

(* thrd_mgmt.cc:119-124, bbserv.cc:82: when the queue is destroyed, no     *)
(* employee runs a job, holds the semaphore or will look at the queue.     *)
PurgedQuiet ==
    tpc \in {"purged", "fired", "freed"} =>
        \A e \in Employees : pc[e] \in {"leaving", "gone"}

(* thrd_mgmt.cc:243-258: a job that was added is run, however many jobs    *)
(* are in front of it, unless the team is terminated.                      *)
QueuedServed ==
    \A j \in Jobs : (j \in Queued) ~> (j \in Running \/ ~threads_keepalive)

(* thrd_mgmt.cc:94-137: terminate_team returns.                            *)
TerminationEnds == (tpc = "posting") ~> (tpc = "freed")

(* README.md:178,184: a client in excess of T_MAX waits in the queue, and   *)
(* is told of every interruption; its job leaves the queue only to be run. *)
NeverDropped == [][\A j \in Queued : j \in Queued' \/ j \in Running']_vars

(* Jobs start in the order of add_work_to_team, each one once. *)
Pool == INSTANCE WorkPool WITH
            Size <- Cardinality(Employees),
            pending <- queue,
            running <- Running,
            open <- tpc \notin {"purged", "fired", "freed"}
PoolSpec == Pool!Spec
=============================================================================
