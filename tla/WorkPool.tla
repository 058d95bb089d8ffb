------------------------------ MODULE WorkPool ------------------------------
(***************************************************************************)
(* What a team of thrd_mgmt.h promises those who add work to it: jobs      *)
(* start in the order they were added, each one once, no more of them at a *)
(* time than the team has employees; whatever has not started when the     *)
(* team is terminated never does.                                          *)
(***************************************************************************)
EXTENDS Naturals, Sequences, FiniteSets

CONSTANTS Jobs, Size

VARIABLES
    pending,   \* jobs added and not started, oldest first
    running,   \* jobs started and not finished
    open       \* FALSE once the team's queue is gone

vars == <<pending, running, open>>

Waiting == {pending[k] : k \in 1..Len(pending)}

Init == pending = <<>> /\ running = {} /\ open = TRUE

Submit(j) ==
    /\ open /\ j \notin running \cup Waiting
    /\ pending' = Append(pending, j)
    /\ UNCHANGED <<running, open>>

Start ==
    /\ open /\ pending # <<>>
    /\ Head(pending) \notin running
    /\ Cardinality(running) < Size
    /\ running' = running \cup {Head(pending)}
    /\ pending' = Tail(pending)
    /\ UNCHANGED open

Finish(j) ==
    /\ j \in running
    /\ running' = running \ {j}
    /\ UNCHANGED <<pending, open>>

Close ==
    /\ open /\ running = {}
    /\ pending' = <<>> /\ open' = FALSE
    /\ UNCHANGED running

Next == (\E j \in Jobs : Submit(j) \/ Finish(j)) \/ Start \/ Close

Spec == Init /\ [][Next]_vars
=============================================================================
