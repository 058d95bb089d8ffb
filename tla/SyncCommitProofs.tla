-------------------------- MODULE SyncCommitProofs --------------------------
(***************************************************************************)
(* Theorems of SyncCommit, for every number of peers and every set of      *)
(* faults.                                                                 *)
(***************************************************************************)
EXTENDS SyncCommit, FiniteSetTheorems, SequenceTheorems, TLAPS

(* The counters count what the jobs reported. *)
CountsRight ==
    /\ pos_count = Cardinality(JobsAt("pos"))
    /\ neg_count = Cardinality(JobsAt("neg"))

(* A job of the phase before has marked one peer at most, and a straggler   *)
(* one more.                                                                *)
LateFew ==
    \A i \in Peers : untold[i] + unheard[i] <= IF snd[i] = "passed" THEN 2 ELSE 1

Typed == TypeOK /\ CountsRight /\ LateFew

(* A set of peers has at most N elements, and N only if it is all of them. *)
LEMMA PeerSets ==
    ASSUME NEW S \in SUBSET Peers
    PROVE  /\ IsFiniteSet(S)
           /\ Cardinality(S) \in 0..N
           /\ Cardinality(S) = N => S = Peers
<1>1. IsFiniteSet(Peers) /\ Cardinality(Peers) = N
  BY FS_Interval, NAssumption, SMT DEF Peers
<1>2. IsFiniteSet(S) /\ Cardinality(S) <= N /\ (Cardinality(S) = N => S = Peers)
  BY <1>1, FS_Subset
<1>3. Cardinality(S) \in Nat
  BY <1>2, FS_CardinalityType
<1> QED
  BY <1>2, <1>3, NAssumption, SMT

(* One more peer of which a counter is kept. *)
LEMMA OneMore ==
    ASSUME NEW S \in SUBSET Peers, NEW i \in Peers, i \notin S
    PROVE  /\ Cardinality(S \cup {i}) = Cardinality(S) + 1
           /\ Cardinality(S) + 1 \in 0..N
<1>1. IsFiniteSet(S) /\ S \cup {i} \in SUBSET Peers
  BY PeerSets
<1>2. Cardinality(S \cup {i}) = Cardinality(S) + 1
  BY <1>1, FS_AddElement
<1> QED
  BY <1>1, <1>2, PeerSets

(* A step that moves job i to w, from a value that is not counted. *)
LEMMA MovesTo ==
    ASSUME TypeOK, NEW i \in Peers, NEW w, snd[i] \notin {"pos", "neg"},
           snd' = [snd EXCEPT ![i] = w]
    PROVE  /\ w \notin {"pos", "neg"} => JobsAt("pos")' = JobsAt("pos") /\ JobsAt("neg")' = JobsAt("neg")
           /\ w = "pos" => JobsAt("pos")' = JobsAt("pos") \cup {i} /\ JobsAt("neg")' = JobsAt("neg")
           /\ w = "neg" => JobsAt("neg")' = JobsAt("neg") \cup {i} /\ JobsAt("pos")' = JobsAt("pos")
  BY DEF TypeOK, JobsAt

(* Queuing the jobs of a phase clears what is counted, and leaves one      *)
(* straggler per peer at most.                                             *)
LEMMA EnqueueCounts ==
    ASSUME NEW jobs, Enqueue(jobs)
    PROVE  /\ CountsRight' /\ LateFew'
           /\ snd' = [i \in Peers |-> "queued"]
           /\ behind' \in 0..N
           /\ untold' \in [Peers -> 0..2] /\ unheard' \in [Peers -> 0..2]
<1>1. JobsAt("pos")' = {} /\ JobsAt("neg")' = {}
  BY DEF Enqueue, Unmark, JobsAt
<1>2. CountsRight'
  BY <1>1, FS_EmptySet DEF Enqueue, CountsRight
<1>3. JobsAt("queued") \in SUBSET Peers
  BY DEF JobsAt
<1>4. behind' \in 0..N
  BY <1>3, PeerSets DEF Enqueue, Unmark
<1>5. /\ snd' = [i \in Peers |-> "queued"]
      /\ untold' = [i \in Peers |-> One(snd[i] = "taken")]
      /\ unheard' = [i \in Peers |-> One(jobs = "del" /\ snd[i] = "awaiting")]
  BY DEF Enqueue, Unmark
<1>6. untold' \in [Peers -> 0..2] /\ unheard' \in [Peers -> 0..2]
  BY <1>5 DEF One
<1>7. ASSUME NEW i \in Peers PROVE untold'[i] + unheard'[i] <= 1
  BY <1>5, "taken" # "awaiting" DEF One
<1>8. LateFew'
  <2> SUFFICES ASSUME NEW i \in Peers PROVE (untold[i] + unheard[i] <= IF snd[i] = "passed" THEN 2 ELSE 1)'
    BY DEF LateFew
  <2>1. snd'[i] # "passed"
    BY <1>5
  <2> QED
    BY <1>7, <2>1
<1> QED
  BY <1>2, <1>4, <1>5, <1>6, <1>8

(* Tally counts one vote, and the vote is the new value of snd[i]. *)
LEMMA TallyCounts ==
    ASSUME Typed, NEW i \in Peers, snd[i] = "awaiting", NEW positive \in BOOLEAN,
           Tally(positive),
           snd' = [snd EXCEPT ![i] = IF positive THEN "pos" ELSE "neg"]
    PROVE  /\ CountsRight'
           /\ pos_count' \in 0..N /\ neg_count' \in 0..N
           /\ mpc' \in {mpc, "decide"}
<1>1. JobsAt("pos") \in SUBSET Peers /\ JobsAt("neg") \in SUBSET Peers
      /\ i \notin JobsAt("pos") /\ i \notin JobsAt("neg")
  BY DEF JobsAt
<1>2. Cardinality(JobsAt("pos")) \in 0..N /\ Cardinality(JobsAt("neg")) \in 0..N
  BY <1>1, PeerSets
<1>3. mpc' \in {mpc, "decide"}
  BY DEF Tally
<1>4. CASE positive
  <2>1. JobsAt("pos")' = JobsAt("pos") \cup {i} /\ JobsAt("neg")' = JobsAt("neg")
    BY <1>4, MovesTo DEF Typed
  <2>2. pos_count' = pos_count + 1 /\ neg_count' = neg_count
    BY <1>2, <1>4, SMT DEF Tally, Typed, CountsRight
  <2> QED
    BY <1>1, <1>2, <1>3, <2>1, <2>2, OneMore DEF Typed, CountsRight
<1>5. CASE ~positive
  <2>1. JobsAt("neg")' = JobsAt("neg") \cup {i} /\ JobsAt("pos")' = JobsAt("pos")
    BY <1>5, MovesTo DEF Typed
  <2>2. neg_count' = neg_count + 1 /\ pos_count' = pos_count
    BY <1>2, <1>5, SMT DEF Tally, Typed, CountsRight
  <2> QED
    BY <1>1, <1>2, <1>3, <2>1, <2>2, OneMore DEF Typed, CountsRight
<1> QED
  BY <1>4, <1>5

-----------------------------------------------------------------------------
(* Type correctness. *)

LEMMA InitTyped == Init => Typed
<1> SUFFICES ASSUME Init PROVE Typed
  OBVIOUS
<1>1. TypeOK
  <2>1. /\ dont_reissue \in [Peers -> BOOLEAN]
        /\ undo_command \in [Peers -> {"none", "write", "replace", "stale"}]
        /\ undo_message \in [Peers -> Copies]
        /\ copy \in [Peers -> Copies]
    BY DEF Init, Copies
  <2>2. toPeer \in [Peers -> Seq(Orders)] /\ toMaster \in [Peers -> Seq(Answers)]
    BY DEF Init
  <2> QED
    BY <2>1, <2>2, NAssumption DEF Init, TypeOK, Copies
<1>2. JobsAt("pos") = {} /\ JobsAt("neg") = {}
  BY DEF Init, JobsAt
<1>3. LateFew
  BY DEF Init, LateFew
<1> QED
  BY <1>1, <1>2, <1>3, FS_EmptySet DEF Init, Typed, CountsRight

(* Counters that do not move, over jobs that do not either. *)
LEMMA SameCounts ==
    ASSUME CountsRight, LateFew, UNCHANGED <<pos_count, neg_count, snd, lateVars>>
    PROVE  CountsRight' /\ LateFew'
  BY DEF CountsRight, JobsAt, LateFew, lateVars

(* A job that moves between two values that are not counted. *)
LEMMA MoveKeepsCounts ==
    ASSUME Typed, NEW i \in Peers, NEW w, w \notin {"pos", "neg"},
           snd[i] \notin {"pos", "neg"}, snd' = [snd EXCEPT ![i] = w],
           UNCHANGED <<pos_count, neg_count>>
    PROVE  CountsRight'
  BY MovesTo DEF Typed, CountsRight

(* A job that moves while no straggler does. *)
LEMMA MoveKeepsFew ==
    ASSUME Typed, NEW i \in Peers, NEW w, snd[i] # "passed",
           snd' = [snd EXCEPT ![i] = w], UNCHANGED lateVars
    PROVE  LateFew'
<1> SUFFICES ASSUME NEW j \in Peers
             PROVE  (untold[j] + unheard[j] <= IF snd[j] = "passed" THEN 2 ELSE 1)'
  BY DEF LateFew
<1>1. untold'[j] = untold[j] /\ unheard'[j] = unheard[j]
  BY DEF lateVars
<1>2. untold[j] \in Int /\ unheard[j] \in Int
  BY DEF Typed, TypeOK
<1>3. snd[j] = "passed" => snd'[j] = "passed"
  BY DEF Typed, TypeOK
<1>4. untold[j] + unheard[j] <= IF snd[j] = "passed" THEN 2 ELSE 1
  BY DEF Typed, LateFew
<1> QED
  BY <1>1, <1>2, <1>3, <1>4

LEMMA MasterTyped ==
    ASSUME Typed, Master \/ WakeUnsignalled
    PROVE  Typed'
<1> USE NAssumption DEF Typed, TypeOK
<1>1. CASE StartSync
  <2>1. /\ CountsRight' /\ LateFew'
        /\ snd' = [i \in Peers |-> "queued"]
        /\ behind' \in 0..N
        /\ untold' \in [Peers -> 0..2] /\ unheard' \in [Peers -> 0..2]
    BY <1>1, EnqueueCounts DEF StartSync
  <2> QED
    BY <1>1, <2>1 DEF StartSync, Enqueue, peerVars, undoVars
<1>2. CASE AwaitVotes
  <2>1. CountsRight' /\ LateFew'
    BY <1>2, SameCounts DEF AwaitVotes, senderVars
  <2> QED
    BY <1>2, <2>1 DEF AwaitVotes, senderVars, lateVars, peerVars, undoVars
<1>3. CASE DecideCommit
  <2>1. /\ CountsRight' /\ LateFew'
        /\ snd' = [i \in Peers |-> "queued"]
        /\ behind' \in 0..N
        /\ untold' \in [Peers -> 0..2] /\ unheard' \in [Peers -> 0..2]
    BY <1>3, EnqueueCounts DEF DecideCommit
  <2> QED
    BY <1>3, <2>1 DEF DecideCommit, Enqueue, peerVars, undoVars
<1>4. CASE AbandonWrite
  <2>1. /\ CountsRight' /\ LateFew'
        /\ snd' = [i \in Peers |-> "queued"]
        /\ behind' \in 0..N
        /\ untold' \in [Peers -> 0..2] /\ unheard' \in [Peers -> 0..2]
    BY <1>4, EnqueueCounts DEF AbandonWrite
  <2> QED
    BY <1>4, <2>1 DEF AbandonWrite, Enqueue, peerVars, undoVars
<1>5. CASE AbandonReplace
  <2>1. CountsRight' /\ LateFew'
    BY <1>5, SameCounts DEF AbandonReplace, senderVars
  <2> QED
    BY <1>5, <2>1 DEF AbandonReplace, senderVars, lateVars, peerVars, undoVars
<1>6. CASE AcceptCommit
  <2>1. CountsRight' /\ LateFew'
    BY <1>6, SameCounts DEF AcceptCommit, senderVars
  <2> QED
    BY <1>6, <2>1 DEF AcceptCommit, senderVars, lateVars, peerVars, undoVars
<1>7. ASSUME UndoAndFail, local' \in Copies PROVE Typed'
  <2>1. /\ CountsRight' /\ LateFew'
        /\ snd' = [i \in Peers |-> "queued"]
        /\ behind' \in 0..N
        /\ untold' \in [Peers -> 0..2] /\ unheard' \in [Peers -> 0..2]
    BY <1>7, EnqueueCounts DEF UndoAndFail
  <2> QED
    BY <1>7, <2>1 DEF UndoAndFail, Enqueue, peerVars, undoVars
<1>8. CASE RefuseCommit
  BY <1>7, <1>8 DEF RefuseCommit
<1>9. CASE ApplyLocal
  <2>1. CountsRight' /\ LateFew'
    BY <1>9, SameCounts DEF ApplyLocal, senderVars
  <2> QED
    BY <1>9, <2>1 DEF ApplyLocal, senderVars, lateVars, peerVars, undoVars, Copies
<1>10. CASE ApplyFails
  BY <1>7, <1>10 DEF ApplyFails, Copies
<1>11. CASE ApplyHangs
  <2>1. CountsRight' /\ LateFew'
    BY <1>11, SameCounts DEF ApplyHangs, senderVars
  <2> QED
    BY <1>11, <2>1 DEF ApplyHangs, senderVars, lateVars, peerVars, undoVars
<1>12. CASE VerifyFound
  <2>1. /\ CountsRight' /\ LateFew'
        /\ snd' = [i \in Peers |-> "queued"]
        /\ behind' \in 0..N
        /\ untold' \in [Peers -> 0..2] /\ unheard' \in [Peers -> 0..2]
    BY <1>12, EnqueueCounts DEF VerifyFound
  <2> QED
    BY <1>12, <2>1 DEF VerifyFound, Enqueue, peerVars, undoVars
<1>13. CASE VerifyMissing
  BY <1>7, <1>13 DEF VerifyMissing, Copies
<1>14. CASE WakeUnsignalled
  <2>1. CountsRight' /\ LateFew'
    BY <1>14, SameCounts DEF WakeUnsignalled, senderVars
  <2> QED
    BY <1>14, <2>1 DEF WakeUnsignalled, senderVars, lateVars, peerVars, undoVars
<1> QED
  BY <1>1, <1>2, <1>3, <1>4, <1>5, <1>6, <1>8, <1>9, <1>10, <1>11, <1>12,
     <1>13, <1>14 DEF Master

(* The channels carry orders one way and answers the other. *)
LEMMA SendTyped ==
    ASSUME TypeOK, NEW i \in Peers, NEW order \in Orders, Send(i, order)
    PROVE  toPeer' \in [Peers -> Seq(Orders)]
<1>1. Append(toPeer[i], order) \in Seq(Orders)
  BY AppendProperties DEF TypeOK
<1> QED
  BY <1>1 DEF TypeOK, Send

LEMMA AnswerTyped ==
    ASSUME TypeOK, NEW i \in Peers, NEW a \in Answers, Answer(i, a)
    PROVE  toMaster' \in [Peers -> Seq(Answers)]
<1>1. Append(toMaster[i], a) \in Seq(Answers)
  BY AppendProperties DEF TypeOK
<1> QED
  BY <1>1 DEF TypeOK, Answer

(* A straggler stays within what LateFew allows it. *)
LEMMA StragglerTyped ==
    ASSUME Typed, NEW i \in Peers, Straggler(i)
    PROVE  Typed'
<1> USE DEF Typed, TypeOK
<1>1. untold[i] \in 0..2 /\ unheard[i] \in 0..2
      /\ untold[i] + unheard[i] <= IF snd[i] = "passed" THEN 2 ELSE 1
  BY DEF LateFew
<1>2. CASE LateTake(i)
  <2>1. CountsRight'
    BY <1>2, MoveKeepsCounts DEF LateTake
  <2>2. untold[i] + 1 \in 0..2 /\ untold[i] + 1 + unheard[i] <= 2
    BY <1>1, <1>2 DEF LateTake
  <2>3. behind' \in 0..N
    BY <1>2, NAssumption DEF LateTake
  <2>4. LateFew'
    BY <1>2, <2>2 DEF LateTake, LateFew
  <2> QED
    BY <1>2, <2>1, <2>2, <2>3, <2>4 DEF LateTake, masterVars, peerVars, undoVars
<1>3. CASE LatePrecommit(i)
  <2>1. untold[i] - 1 \in 0..2
    BY <1>1, <1>3 DEF LatePrecommit
  <2>2. CountsRight'
    BY <1>3 DEF LatePrecommit, CountsRight, JobsAt
  <2>3. LateFew'
    BY <1>1, <1>3, <2>1 DEF LatePrecommit, LateFew
  <2>4. <<"precommit">> \in Seq(Orders)
    BY DEF Orders
  <2>5. /\ sd' \in [Peers -> {"none", "open", "closed", "refused", "nohost"}]
        /\ session' \in [Peers -> {"none", "serving", "over", "left", "hung"}]
        /\ toPeer' \in [Peers -> Seq(Orders)]
    <3>1. PICK outcome \in {"open", "refused", "nohost"} :
            /\ sd' = [sd EXCEPT ![i] = outcome]
            /\ IF outcome = "open"
                 THEN /\ session' = [session EXCEPT ![i] = "serving"]
                      /\ toPeer' = [toPeer EXCEPT ![i] = <<"precommit">>]
                 ELSE UNCHANGED <<session, toPeer>>
      BY <1>3 DEF LatePrecommit
    <3>2. sd' \in [Peers -> {"none", "open", "closed", "refused", "nohost"}]
      BY <3>1
    <3>3. CASE outcome = "open"
      <4>1. session' = [session EXCEPT ![i] = "serving"]
            /\ toPeer' = [toPeer EXCEPT ![i] = <<"precommit">>]
        BY <3>1, <3>3
      <4>2. session' \in [Peers -> {"none", "serving", "over", "left", "hung"}]
        BY <4>1
      <4>3. toPeer' \in [Peers -> Seq(Orders)]
        BY <2>4, <4>1
      <4> QED
        BY <3>2, <4>2, <4>3
    <3>4. CASE outcome # "open"
      BY <3>1, <3>2, <3>4
    <3> QED
      BY <3>3, <3>4
  <2> QED
    BY <1>3, <2>1, <2>2, <2>3, <2>5 DEF LatePrecommit, masterVars, undoVars
<1>4. CASE LateCommit(i)
  <2>1. untold[i] - 1 \in 0..2 /\ unheard[i] + 1 \in 0..2
    BY <1>1, <1>4 DEF LateCommit
  <2>2. CountsRight'
    BY <1>4 DEF LateCommit, CountsRight, JobsAt, senderVars
  <2>3. LateFew'
    BY <1>1, <1>4, <2>1 DEF LateCommit, LateFew, senderVars
  <2>4. toPeer' \in [Peers -> Seq(Orders)]
    BY <1>4, SendTyped DEF LateCommit, Orders
  <2> QED
    BY <1>4, <2>1, <2>2, <2>3, <2>4 DEF LateCommit, masterVars, senderVars, peerVars, undoVars
<1>5. CASE LateRefusal(i)
  <2>1. unheard[i] - 1 \in 0..2
    BY <1>1, <1>5 DEF LateRefusal
  <2>2. CountsRight'
    BY <1>5 DEF LateRefusal, CountsRight, JobsAt
  <2>3. LateFew'
    BY <1>1, <1>5, <2>1 DEF LateRefusal, LateFew
  <2>4. toMaster' \in [Peers -> Seq(Answers)]
    BY <1>5 DEF LateRefusal
  <2> QED
    BY <1>5, <2>1, <2>2, <2>3, <2>4 DEF LateRefusal, masterVars, peerVars, undoVars
<1> QED
  BY <1>2, <1>3, <1>4, <1>5 DEF Straggler

LEMMA SenderTyped ==
    ASSUME Typed, NEW i \in Peers, Sender(i)
    PROVE  Typed'
<1> USE DEF Typed, TypeOK
<1>1. CASE Take(i)
  <2>1. CountsRight' /\ LateFew'
    BY <1>1, MoveKeepsCounts, MoveKeepsFew DEF Take
  <2> QED
    BY <1>1, <2>1 DEF Take, masterVars, lateVars, peerVars, undoVars
<1>2. CASE SendPrecommit(i)
  <2>1. CountsRight' /\ LateFew'
    BY <1>2, MoveKeepsCounts, MoveKeepsFew DEF SendPrecommit
  <2> QED
    BY <1>2, <2>1 DEF SendPrecommit, Send, Orders, masterVars, lateVars, undoVars
<1>3. CASE ConnectRefused(i)
  <2>1. CountsRight' /\ LateFew'
    BY <1>3, MoveKeepsCounts, MoveKeepsFew DEF ConnectRefused
  <2> QED
    BY <1>3, <2>1 DEF ConnectRefused, masterVars, lateVars, peerVars, undoVars
<1>4. CASE HostUnknown(i)
  <2>1. CountsRight' /\ LateFew'
    BY <1>4, MoveKeepsCounts, MoveKeepsFew DEF HostUnknown
  <2> QED
    BY <1>4, <2>1 DEF HostUnknown, masterVars, lateVars, peerVars, undoVars
<1>5. CASE SendCommit(i)
  <2>1. CountsRight' /\ LateFew'
    BY <1>5, MoveKeepsCounts, MoveKeepsFew DEF SendCommit
  <2> QED
    BY <1>5, <2>1 DEF SendCommit, Send, Orders, masterVars, lateVars, peerVars, undoVars
<1>6. CASE ReadReply(i)
  <2> DEFINE a == Head(toMaster[i])
  <2>1. /\ CountsRight'
        /\ pos_count' \in 0..N /\ neg_count' \in 0..N
        /\ mpc' \in {mpc, "decide"}
    BY <1>6, TallyCounts, (a = "positive") \in BOOLEAN DEF ReadReply
  <2>2. toMaster' \in [Peers -> Seq(Answers)]
    BY <1>6 DEF ReadReply
  <2>3. /\ snd' = [snd EXCEPT ![i] = IF a = "positive" THEN "pos" ELSE "neg"]
        /\ dont_reissue' \in [Peers -> BOOLEAN]
    BY <1>6 DEF ReadReply
  <2>4. LateFew'
    BY <1>6, MoveKeepsFew DEF ReadReply
  <2> QED
    BY <1>6, <2>1, <2>2, <2>3, <2>4 DEF ReadReply, lateVars, peerVars, undoVars
<1>7. CASE GiveUp(i)
  <2>1. /\ CountsRight'
        /\ pos_count' \in 0..N /\ neg_count' \in 0..N
        /\ mpc' \in {mpc, "decide"}
    BY <1>7, TallyCounts DEF GiveUp
  <2>2. LateFew'
    BY <1>7, MoveKeepsFew DEF GiveUp
  <2> QED
    BY <1>7, <2>1, <2>2 DEF GiveUp, lateVars, peerVars, undoVars
<1>8. CASE Dismiss(i)
  <2>1. CountsRight' /\ LateFew'
    BY <1>8, MoveKeepsCounts, MoveKeepsFew DEF Dismiss
  <2>2. toPeer' \in [Peers -> Seq(Orders)]
    <3>1. LastOrder \in Orders
      BY DEF LastOrder, Orders
    <3> QED
      BY <1>8, <3>1, SendTyped DEF Dismiss
  <2>3. sd' \in [Peers -> {"none", "open", "closed", "refused", "nohost"}]
    <3>1. sd' = sd \/ sd' = [sd EXCEPT ![i] = "closed"]
      BY <1>8 DEF Dismiss
    <3> QED
      BY <3>1
  <2> QED
    BY <1>8, <2>1, <2>2, <2>3 DEF Dismiss, masterVars, lateVars, peerVars, undoVars
<1>9. CASE Straggler(i)
  BY <1>9, StragglerTyped
<1> QED
  BY <1>1, <1>2, <1>3, <1>4, <1>5, <1>6, <1>7, <1>8, <1>9 DEF Sender

LEMMA PeerTyped ==
    ASSUME Typed, NEW i \in Peers, Peer(i)
    PROVE  Typed'
<1> USE DEF Typed, TypeOK
<1>1. /\ UNCHANGED <<masterVars, senderVars, lateVars>>
      /\ \E order \in Orders : Receive(i, order)
  BY DEF Peer, PeerPrecommit, PeerWrites, PeerWriteFails, PeerHasNumber,
         PeerReplaces, PeerReplaceFails, PeerReplaceHangs, PeerLacksNumber,
         PeerAborts, PeerUndoFails, PeerQuits, Orders
<1>2. CountsRight' /\ LateFew'
  BY <1>1, SameCounts DEF senderVars
<1>3. toPeer' \in [Peers -> Seq(Orders)]
  BY <1>1 DEF Receive
<1>4. toMaster' \in [Peers -> Seq(Answers)]
  <2>1. (\E a \in Answers : Answer(i, a)) \/ UNCHANGED toMaster
    BY DEF Peer, PeerPrecommit, PeerWrites, PeerWriteFails, PeerHasNumber,
           PeerReplaces, PeerReplaceFails, PeerReplaceHangs, PeerLacksNumber,
           PeerAborts, PeerUndoFails, PeerQuits, Answers
  <2> QED
    BY <2>1, AnswerTyped
<1>5. /\ session' \in [Peers -> {"none", "serving", "over", "left", "hung"}]
      /\ undo_command' \in [Peers -> {"none", "write", "replace", "stale"}]
  <2>1. \/ UNCHANGED session
        \/ \E s \in {"over", "left", "hung"} : session' = [session EXCEPT ![i] = s]
    BY DEF Peer, PeerPrecommit, PeerWrites, PeerWriteFails, PeerHasNumber,
           PeerReplaces, PeerReplaceFails, PeerReplaceHangs, PeerLacksNumber,
           PeerAborts, PeerUndoFails, PeerQuits, SaveForUndo, peerVars, undoVars
  <2>2. \/ UNCHANGED undo_command
        \/ \E u \in {"write", "replace"} : undo_command' = [undo_command EXCEPT ![i] = u]
    BY DEF Peer, PeerPrecommit, PeerWrites, PeerWriteFails, PeerHasNumber,
           PeerReplaces, PeerReplaceFails, PeerReplaceHangs, PeerLacksNumber,
           PeerAborts, PeerUndoFails, PeerQuits, SaveForUndo, peerVars, undoVars
  <2>3. session' \in [Peers -> {"none", "serving", "over", "left", "hung"}]
    BY <2>1
  <2>4. undo_command' \in [Peers -> {"none", "write", "replace", "stale"}]
    BY <2>2
  <2> QED
    BY <2>3, <2>4
<1>6. copy' \in [Peers -> Copies]
  <2>1. Undone(i) \in Copies /\ copy[i] \in Copies
    BY DEF Undone, Copies
  <2>2. (\E c \in Copies : copy' = [copy EXCEPT ![i] = c]) \/ UNCHANGED copy
    BY <2>1 DEF Peer, PeerPrecommit, PeerWrites, PeerWriteFails, PeerHasNumber,
           PeerReplaces, PeerReplaceFails, PeerReplaceHangs, PeerLacksNumber,
           PeerAborts, PeerUndoFails, PeerQuits, SaveForUndo, Copies, peerVars, undoVars
  <2> QED
    BY <2>2
<1>7. earlier' \in [Peers -> {"kept", "lost"}]
  BY DEF Peer, PeerPrecommit, PeerWrites, PeerWriteFails, PeerHasNumber,
         PeerReplaces, PeerReplaceFails, PeerReplaceHangs, PeerLacksNumber,
         PeerAborts, PeerUndoFails, PeerQuits, SaveForUndo, peerVars, undoVars
<1>8. undo_message' \in [Peers -> Copies]
  <2>1. \/ UNCHANGED undo_message
        \/ undo_message' = [undo_message EXCEPT ![i] = copy[i]]
    BY DEF SaveForUndo, Peer, PeerPrecommit, PeerWrites, PeerWriteFails, PeerHasNumber,
           PeerReplaces, PeerReplaceFails, PeerReplaceHangs, PeerLacksNumber,
           PeerAborts, PeerUndoFails, PeerQuits, peerVars, undoVars
  <2>2. undo_message \in [Peers -> Copies] /\ copy[i] \in Copies
    OBVIOUS
  <2> QED
    BY <2>1, <2>2
<1> QED
  BY <1>1, <1>2, <1>3, <1>4, <1>5, <1>6, <1>7, <1>8 DEF masterVars, senderVars, lateVars

LEMMA NextTyped == Typed /\ [Next]_vars => Typed'
<1> SUFFICES ASSUME Typed, [Next]_vars PROVE Typed'
  OBVIOUS
<1>1. CASE Next
  BY <1>1, MasterTyped, SenderTyped, PeerTyped DEF Next
<1>2. CASE UNCHANGED vars
  <2>1. CountsRight' /\ LateFew'
    BY <1>2, SameCounts DEF Typed, vars, senderVars
  <2> QED
    BY <1>2, <2>1 DEF Typed, TypeOK, vars, masterVars, senderVars, lateVars, peerVars, undoVars
<1> QED
  BY <1>1, <1>2

(* Every variable keeps its type; the counters never pass N, because they  *)
(* count distinct peers (server_operations.cc:755-771 marks each once).    *)
THEOREM TypeCorrect == Spec => [](TypeOK /\ CountsRight)
<1>1. Spec => []Typed
  BY InitTyped, NextTyped, PTL DEF Spec
<1> QED
  BY <1>1, PTL DEF Typed

-----------------------------------------------------------------------------
(* A WRITE keeps what the peers have. *)

(* What a peer is ready to undo during a WRITE is never an old message. *)
UndoSafe ==
    kind = "write" =>
        \A i \in Peers : /\ undo_command[i] # "replace"
                         /\ undo_command[i] = "write" => copy[i] # "old"

LEMMA NextUndoSafe ==
    ASSUME TypeOK, UndoSafe, [Next]_vars
    PROVE  UndoSafe' /\ (kind = "write" =>
                           \A i \in Peers : copy[i] = "old" => copy'[i] = "old")
<1>1. CASE Master \/ WakeUnsignalled
  BY <1>1 DEF UndoSafe, Master, StartSync, AwaitVotes, WakeUnsignalled, DecideCommit, AbandonWrite,
     AbandonReplace, AcceptCommit, UndoAndFail, RefuseCommit, ApplyLocal,
     ApplyFails, ApplyHangs, VerifyFound, VerifyMissing, peerVars, undoVars
<1>2. ASSUME NEW i \in Peers, Sender(i) PROVE UNCHANGED <<kind, undo_command, copy>>
  BY <1>2 DEF Sender, Take, SendPrecommit, ConnectRefused, HostUnknown, SendCommit,
     ReadReply, GiveUp, Dismiss, Straggler, LateTake, LatePrecommit, LateCommit,
     LateRefusal, masterVars, peerVars, undoVars
<1>3. ASSUME NEW i \in Peers, Peer(i), kind = "write"
      PROVE  /\ kind' = kind
             /\ \/ UNCHANGED <<undo_command, copy>>
                \/ /\ copy[i] = "none"
                   /\ copy' = [copy EXCEPT ![i] = "new"]
                   /\ undo_command' = [undo_command EXCEPT ![i] = "write"]
                \/ /\ copy' = [copy EXCEPT ![i] = Undone(i)]
                   /\ undo_command' = undo_command
  BY <1>3 DEF Peer, PeerPrecommit, PeerWrites, PeerWriteFails, PeerHasNumber,
     PeerReplaces, PeerReplaceFails, PeerReplaceHangs, SaveForUndo, PeerLacksNumber, PeerAborts,
     PeerUndoFails, PeerQuits, NumberFree, peerVars, undoVars, masterVars
<1>4. ASSUME NEW i \in Peers, Peer(i) PROVE kind' = kind
  BY <1>4 DEF Peer, PeerPrecommit, PeerWrites, PeerWriteFails, PeerHasNumber,
     PeerReplaces, PeerReplaceFails, PeerReplaceHangs, SaveForUndo, PeerLacksNumber, PeerAborts,
     PeerUndoFails, PeerQuits, masterVars
<1>5. CASE UNCHANGED vars
  BY <1>5 DEF UndoSafe, vars, masterVars, peerVars, undoVars
<1>6. ASSUME NEW i \in Peers, Peer(i)
      PROVE  UndoSafe' /\ (kind = "write" =>
                             \A j \in Peers : copy[j] = "old" => copy'[j] = "old")
  <2>1. CASE kind = "write"
    <3>1. kind' = kind
      BY <1>4, <1>6
    <3>2. CASE UNCHANGED <<undo_command, copy>>
      BY <3>1, <3>2 DEF UndoSafe
    <3>3. CASE /\ copy[i] = "none"
               /\ copy' = [copy EXCEPT ![i] = "new"]
               /\ undo_command' = [undo_command EXCEPT ![i] = "write"]
      BY <2>1, <3>1, <3>3 DEF UndoSafe, TypeOK
    <3>4. CASE copy' = [copy EXCEPT ![i] = Undone(i)] /\ undo_command' = undo_command
      <4>1. Undone(i) \in {copy[i], "none"} /\ (copy[i] = "old" => Undone(i) = "old")
        BY <2>1 DEF UndoSafe, Undone
      <4> QED
        BY <2>1, <3>1, <3>4, <4>1 DEF UndoSafe, TypeOK
    <3> QED
      BY <1>3, <1>6, <2>1, <3>2, <3>3, <3>4
  <2>2. CASE kind # "write"
    BY <1>4, <1>6, <2>2 DEF UndoSafe
  <2> QED
    BY <2>1, <2>2
<1> QED
  BY <1>1, <1>2, <1>5, <1>6 DEF Next, UndoSafe, Master, StartSync, AwaitVotes,
     DecideCommit, AbandonWrite, AbandonReplace, AcceptCommit, UndoAndFail,
     RefuseCommit, ApplyLocal, ApplyFails, ApplyHangs, VerifyFound, VerifyMissing,
     peerVars, undoVars

(* peer_operations.cc:220-260: a WRITE neither replaces nor deletes a      *)
(* message that a peer already has under that number, whatever is timed    *)
(* out, refused or aborted.                                                *)
THEOREM ExistingKept == Spec => KeepsExisting
<1>1. Init => UndoSafe
  BY DEF Init, UndoSafe
<1>2. TypeOK /\ UndoSafe /\ [Next]_vars => UndoSafe'
  BY NextUndoSafe
<1>3. TypeOK /\ UndoSafe /\ [Next]_vars
      => [kind = "write" => \A i \in Peers : copy[i] = "old" => copy'[i] = "old"]_vars
  BY NextUndoSafe
<1> QED
  BY <1>1, <1>2, <1>3, TypeCorrect, PTL DEF Spec, KeepsExisting

-----------------------------------------------------------------------------
(* No peer changes its file before all have been reached. *)

(* A commit that peer i has not read yet. *)
Pending(i) == \E k \in 1..Len(toPeer[i]) : toPeer[i][k] = "commit"

AllReached == \A j \in Peers : session[j] # "none"

(* A peer without a session has said nothing and can be sent nothing; a    *)
(* commit that is out, in a channel or in a file, has all peers in session. *)
ReachedFirst ==
    /\ \A i \in Peers : session[i] = "none" =>
           toMaster[i] = <<>> /\ sd[i] # "open" /\ snd[i] # "pos"
    /\ mpc \in {"apply", "verify"} => phase = "commit"
    /\ phase \in {"commit", "del"} => AllReached
    /\ \A i \in Peers : Pending(i) \/ copy[i] = "new" \/ undo_message[i] = "new"
                           => AllReached

LEMMA InitReachedFirst == Init => ReachedFirst
<1> SUFFICES ASSUME Init PROVE ReachedFirst
  OBVIOUS
<1>1. \A i \in Peers : ~Pending(i)
  BY EmptySeq DEF Init, Pending
<1> QED
  BY <1>1 DEF Init, ReachedFirst

(* Appending another order than commit leaves nothing more pending. *)
LEMMA SendPending ==
    ASSUME TypeOK, NEW i \in Peers, NEW order \in Orders \ {"commit"},
           Send(i, order), NEW j \in Peers, Pending(j)'
    PROVE  Pending(j)
<1>1. /\ Len(Append(toPeer[i], order)) = Len(toPeer[i]) + 1
      /\ \A k \in 1..Len(toPeer[i]) : Append(toPeer[i], order)[k] = toPeer[i][k]
      /\ Append(toPeer[i], order)[Len(toPeer[i]) + 1] = order
      /\ Len(toPeer[i]) \in Nat
  BY AppendProperties DEF TypeOK
<1>2. toPeer'[j] = IF j = i THEN Append(toPeer[i], order) ELSE toPeer[j]
  BY DEF Send, TypeOK
<1> QED
  BY <1>1, <1>2, SMT DEF Pending

(* Reading leaves nothing more pending, and what is read was pending. *)
LEMMA ReceivePending ==
    ASSUME TypeOK, NEW i \in Peers, NEW order, Receive(i, order)
    PROVE  /\ \A j \in Peers : Pending(j)' => Pending(j)
           /\ order = "commit" => Pending(i)
<1> DEFINE q == toPeer[i]
<1>1. q \in Seq(Orders) /\ q # <<>>
  BY DEF Receive, TypeOK
<1>2. /\ Len(q) \in Nat /\ Len(q) >= 1
      /\ Head(q) = q[1]
      /\ Len(Tail(q)) = Len(q) - 1
      /\ \A k \in 1..Len(Tail(q)) : Tail(q)[k] = q[k + 1]
  BY <1>1, HeadTailProperties, EmptySeq, LenProperties
<1>3. \A j \in Peers : toPeer'[j] = IF j = i THEN Tail(q) ELSE toPeer[j]
  BY DEF Receive, TypeOK
<1>4. order = "commit" => Pending(i)
  BY <1>2, SMT DEF Receive, Pending
<1>5. ASSUME NEW j \in Peers, Pending(j)' PROVE Pending(j)
  <2>1. CASE j = i
    <3>1. PICK k \in 1..Len(Tail(q)) : Tail(q)[k] = "commit"
      BY <1>3, <1>5, <2>1 DEF Pending
    <3>2. k + 1 \in 1..Len(q) /\ q[k + 1] = "commit"
      BY <1>2, <3>1
    <3> QED
      BY <2>1, <3>2 DEF Pending
  <2>2. CASE j # i
    BY <1>3, <1>5, <2>2 DEF Pending
  <2> QED
    BY <2>1, <2>2
<1> QED
  BY <1>4, <1>5

LEMMA NextReachedFirst ==
    ASSUME Typed, ReachedFirst, [Next]_vars
    PROVE  ReachedFirst'
<1> USE DEF Typed
<1>1. CASE DecideCommit
  <2>1. JobsAt("pos") = Peers
    BY <1>1, PeerSets DEF DecideCommit, AllPositive, CountsRight, JobsAt
  <2>2. AllReached
    BY <2>1 DEF ReachedFirst, AllReached, JobsAt
  <2> QED
    BY <1>1, <2>2 DEF DecideCommit, Enqueue, Unmark, peerVars, undoVars, ReachedFirst,
       AllReached, Pending
<1>2. ASSUME Master \/ WakeUnsignalled, ~DecideCommit PROVE ReachedFirst'
  <2>1. UNCHANGED <<session, toPeer, toMaster, sd, copy, undo_message>>
    BY <1>2 DEF Master, StartSync, AwaitVotes, WakeUnsignalled, AbandonWrite,
       AbandonReplace, AcceptCommit, UndoAndFail, RefuseCommit, ApplyLocal,
       ApplyFails, ApplyHangs, VerifyFound, VerifyMissing, peerVars, undoVars,
       senderVars
  <2>2. /\ phase' \in {"commit", "del"} => phase \in {"commit", "del"}
        /\ mpc' \in {"apply", "verify"} => phase' = "commit"
    BY <1>2 DEF ReachedFirst, Master, StartSync, AwaitVotes, WakeUnsignalled,
       AbandonWrite, AbandonReplace, AcceptCommit, UndoAndFail, RefuseCommit,
       ApplyLocal, ApplyFails, ApplyHangs, VerifyFound, VerifyMissing, Enqueue
  <2>3. \A i \in Peers : snd'[i] = "pos" => snd[i] = "pos"
    BY <1>2 DEF Master, StartSync, AwaitVotes, WakeUnsignalled, AbandonWrite,
       AbandonReplace, AcceptCommit, UndoAndFail, RefuseCommit, ApplyLocal,
       ApplyFails, ApplyHangs, VerifyFound, VerifyMissing, Enqueue, Unmark, senderVars
  <2> QED
    BY <2>1, <2>2, <2>3 DEF ReachedFirst, AllReached, Pending
<1>3. ASSUME NEW i \in Peers, Sender(i) PROVE ReachedFirst'
  <2>1. CASE SendPrecommit(i)
    <3>1. \A j \in Peers : Pending(j)' => Pending(j)
      BY <2>1, SendPending DEF SendPrecommit, Orders
    <3>2. /\ session' = [session EXCEPT ![i] = "serving"]
          /\ sd' = [sd EXCEPT ![i] = "open"]
          /\ snd' = [snd EXCEPT ![i] = "awaiting"]
          /\ UNCHANGED <<mpc, phase, toMaster, copy, undo_message>>
      BY <2>1 DEF SendPrecommit, masterVars, undoVars
    <3> QED
      BY <3>1, <3>2 DEF ReachedFirst, AllReached, TypeOK
  <2>2. CASE SendCommit(i)
    BY <2>2 DEF SendCommit, ReachedFirst, AllReached, TypeOK, masterVars, peerVars, undoVars
  <2>3. CASE Dismiss(i)
    <3>1. \A j \in Peers : Pending(j)' => Pending(j)
      <4>1. LastOrder \in Orders \ {"commit"}
        BY DEF LastOrder, Orders
      <4>2. CASE Send(i, LastOrder)
        BY <4>1, <4>2, SendPending
      <4>3. CASE UNCHANGED toPeer
        BY <4>3 DEF Pending
      <4> QED
        BY <2>3, <4>2, <4>3 DEF Dismiss
    <3>2. /\ sd' = sd \/ sd' = [sd EXCEPT ![i] = "closed"]
          /\ \E v \in {"finished", "missed"} : snd' = [snd EXCEPT ![i] = v]
          /\ UNCHANGED <<mpc, phase, toMaster, copy, undo_message, session>>
      BY <2>3 DEF Dismiss, masterVars, peerVars, undoVars
    <3> QED
      BY <3>1, <3>2 DEF ReachedFirst, AllReached, TypeOK
  <2>4. CASE ReadReply(i)
    <3>1. session[i] # "none"
      BY <2>4 DEF ReadReply, ReachedFirst
    <3>2. /\ \A j \in Peers : j # i => toMaster'[j] = toMaster[j] /\ snd'[j] = snd[j]
          /\ UNCHANGED <<phase, sd, toPeer, session, copy, undo_message>>
          /\ mpc' \in {mpc, "decide"}
      BY <2>4 DEF ReadReply, Tally, TypeOK, peerVars, undoVars
    <3> QED
      BY <3>1, <3>2 DEF ReachedFirst, AllReached, Pending
  <2>5. ASSUME Take(i) \/ ConnectRefused(i) \/ HostUnknown(i) \/ GiveUp(i)
        PROVE  ReachedFirst'
    <3>1. /\ UNCHANGED <<phase, toPeer, toMaster, session, copy, undo_message>>
          /\ \A j \in Peers : sd'[j] = "open" => sd[j] = "open"
          /\ \A j \in Peers : snd'[j] = "pos" => snd[j] = "pos"
          /\ mpc' \in {mpc, "decide"}
      <4>1. /\ UNCHANGED <<phase, toPeer, toMaster, session, copy, undo_message>>
            /\ mpc' \in {mpc, "decide"}
        BY <2>5 DEF Take, ConnectRefused, HostUnknown, GiveUp, Tally, masterVars,
           peerVars, undoVars
      <4>2. UNCHANGED sd \/ \E v \in {"refused", "nohost"} : sd' = [sd EXCEPT ![i] = v]
        BY <2>5 DEF Take, ConnectRefused, HostUnknown, GiveUp
      <4>3. \E v \in {"taken", "awaiting", "lost", "neg"} : snd' = [snd EXCEPT ![i] = v]
        BY <2>5 DEF Take, ConnectRefused, HostUnknown, GiveUp
      <4> QED
        BY <4>1, <4>2, <4>3 DEF TypeOK
    <3> QED
      BY <3>1 DEF ReachedFirst, AllReached, Pending
  <2>6. CASE LateTake(i)
    <3>1. /\ UNCHANGED <<mpc, phase, toPeer, toMaster, session, copy, undo_message, sd>>
          /\ \A j \in Peers : snd'[j] = "pos" => snd[j] = "pos"
      BY <2>6 DEF LateTake, TypeOK, masterVars, peerVars, undoVars
    <3> QED
      BY <3>1 DEF ReachedFirst, AllReached, Pending
  <2>7. CASE LatePrecommit(i)
    <3>1. PICK outcome \in {"open", "refused", "nohost"} :
            /\ sd' = [sd EXCEPT ![i] = outcome]
            /\ IF outcome = "open"
                 THEN /\ session' = [session EXCEPT ![i] = "serving"]
                      /\ toPeer' = [toPeer EXCEPT ![i] = <<"precommit">>]
                 ELSE UNCHANGED <<session, toPeer>>
      BY <2>7 DEF LatePrecommit
    <3>2. UNCHANGED <<mpc, phase, snd, toMaster, copy, undo_message>> /\ phase = "quit"
      BY <2>7 DEF LatePrecommit, masterVars, undoVars
    <3>3. ~ \E k \in 1..Len(<<"precommit">>) : <<"precommit">>[k] = "commit"
      OBVIOUS
    <3>4. \A j \in Peers : Pending(j)' => Pending(j)
      BY <3>1, <3>3 DEF Pending, TypeOK
    <3>5. \A j \in Peers : session'[j] = "none" => session[j] = "none" /\ sd'[j] # "open"
      BY <3>1 DEF ReachedFirst, TypeOK
    <3>6. AllReached => AllReached'
      BY <3>5 DEF AllReached
    <3> QED
      BY <3>2, <3>4, <3>5, <3>6 DEF ReachedFirst
  <2>8. CASE LateCommit(i)
    <3>1. AllReached /\ UNCHANGED <<mpc, phase, session, toMaster, sd, snd, copy, undo_message>>
      BY <2>8 DEF LateCommit, ReachedFirst, masterVars, senderVars, peerVars, undoVars
    <3> QED
      BY <3>1 DEF ReachedFirst, AllReached
  <2>9. CASE LateRefusal(i)
    <3>1. session[i] # "none"
      BY <2>9 DEF LateRefusal, ReachedFirst
    <3>2. /\ \A j \in Peers : j # i => toMaster'[j] = toMaster[j]
          /\ UNCHANGED <<mpc, phase, snd, sd, toPeer, session, copy, undo_message>>
      BY <2>9 DEF LateRefusal, TypeOK, masterVars, peerVars, undoVars
    <3> QED
      BY <3>1, <3>2 DEF ReachedFirst, AllReached, Pending
  <2> QED
    BY <1>3, <2>1, <2>2, <2>3, <2>4, <2>5, <2>6, <2>7, <2>8, <2>9 DEF Sender, Straggler
<1>4. ASSUME NEW i \in Peers, Peer(i) PROVE ReachedFirst'
  <2>1. PICK order \in Orders :
          /\ Receive(i, order)
          /\ copy'[i] = "new" \/ undo_message'[i] = "new"
               => copy[i] = "new" \/ undo_message[i] = "new" \/ order = "commit"
    BY <1>4 DEF Peer, PeerPrecommit, PeerWrites, PeerWriteFails, PeerHasNumber,
       PeerReplaces, PeerReplaceFails, PeerReplaceHangs, SaveForUndo, PeerLacksNumber,
       PeerAborts, PeerUndoFails, PeerQuits, Undone, Orders, TypeOK, peerVars, undoVars
  <2>2. /\ UNCHANGED <<mpc, phase, snd, sd>>
        /\ \A j \in Peers : j # i => /\ toMaster'[j] = toMaster[j]
                                     /\ copy'[j] = copy[j]
                                     /\ undo_message'[j] = undo_message[j]
        /\ \A j \in Peers : session[j] # "none" => session'[j] # "none"
        /\ \A j \in Peers : j # i => session'[j] = session[j]
    BY <1>4 DEF Peer, PeerPrecommit, PeerWrites, PeerWriteFails, PeerHasNumber,
       PeerReplaces, PeerReplaceFails, PeerReplaceHangs, SaveForUndo, PeerLacksNumber,
       PeerAborts, PeerUndoFails, PeerQuits, Answer, TypeOK, peerVars, undoVars,
       masterVars, senderVars
  <2>3. session[i] # "none"
    BY <2>1 DEF Receive
  <2>4. \A j \in Peers : Pending(j)' => Pending(j)
    BY <2>1, ReceivePending
  <2>5. order = "commit" => Pending(i)
    BY <2>1, ReceivePending
  <2> QED
    BY <2>1, <2>2, <2>3, <2>4, <2>5 DEF ReachedFirst, AllReached
<1>5. CASE UNCHANGED vars
  BY <1>5 DEF vars, masterVars, senderVars, lateVars, peerVars, undoVars, ReachedFirst, AllReached, Pending
<1> QED
  BY <1>1, <1>2, <1>3, <1>4, <1>5 DEF Next

(* protocol2pc.txt:32-33: no peer holds the new message before every peer  *)
(* has been reached, whatever is refused, lost, late or broken.            *)
THEOREM CommitAfterAll == Spec => []CommitNeedsAll
<1>1. ReachedFirst => CommitNeedsAll
  BY DEF ReachedFirst, AllReached, CommitNeedsAll
<1>2. Spec => [](Typed /\ ReachedFirst)
  BY InitTyped, NextTyped, InitReachedFirst, NextReachedFirst, PTL DEF Spec
<1> QED
  BY <1>1, <1>2, PTL

-----------------------------------------------------------------------------
(* Success means everywhere. *)

(* A "positive" is true only when no REPLACE meets a file that fails. *)
Truthful == kind = "write" \/ "peerfile" \notin Faults

(* What is in flight between the master and peer i in the phases that vote. *)
Commits(i) ==
    \/ toPeer[i] = <<"commit">> /\ toMaster[i] = <<>>
    \/ toPeer[i] = <<>> /\ toMaster[i] = <<>>
    \/ /\ toPeer[i] = <<>>
       /\ \E a \in Answers : /\ toMaster[i] = <<a>>
                             /\ a = "positive" => copy[i] = "new"
Precommits(i) ==
    \/ toPeer[i] = <<"precommit">> /\ toMaster[i] = <<>>
    \/ toPeer[i] = <<>> /\ toMaster[i] \in {<<>>, <<"positive">>}

Connection(i) ==
    /\ phase \in {"none", "precommit", "commit"} /\ snd[i] \in {"idle", "queued", "taken"}
         => toPeer[i] = <<>> /\ toMaster[i] = <<>>
    /\ snd[i] = "awaiting" /\ phase = "precommit" => Precommits(i)
    /\ snd[i] = "awaiting" /\ phase = "commit" => Commits(i)
    /\ snd[i] = "pos" => /\ toPeer[i] = <<>> /\ toMaster[i] = <<>>
                         /\ phase = "commit" => copy[i] = "new"
    /\ phase = "none" => snd[i] = "idle"
    /\ phase \in {"del", "quit"}
         => snd[i] \in {"queued", "taken", "finished", "missed", "passed"}
    /\ phase \notin {"del", "quit"} => snd[i] \notin {"finished", "missed", "passed"}

(* The farewell of a command that succeeded. *)
Farewell(i) ==
    /\ copy[i] = "new"
    /\ snd[i] \in {"queued", "taken"} => toPeer[i] = <<>>
    /\ toPeer[i] \in {<<>>, <<"quit">>}

Control ==
    /\ mpc = "start" => phase = "none"
    /\ mpc \in {"apply", "verify"} => phase = "commit" /\ \A i \in Peers : snd[i] = "pos"
    /\ mpc = "verify" => local = "new"
    /\ reply # "none" => mpc = "done"
    /\ reply = "ok" => phase = "quit" /\ local = "new" /\ \A i \in Peers : Farewell(i)
    /\ reply = "ok" => behind = 0 /\ \A i \in Peers : untold[i] = 0
    /\ phase # "del" => \A i \in Peers : unheard[i] = 0

Succeeds == Truthful => Control /\ \A i \in Peers : Connection(i)

(* Sequences of length one. *)
LEMMA Singles ==
    /\ \A x : Append(<<>>, x) = <<x>> /\ Head(<<x>>) = x /\ Tail(<<x>>) = <<>>
    /\ \A x : <<x>> # <<>>
    /\ \A x, y : <<x>> = <<y>> => x = y
  OBVIOUS

LEMMA InitSucceeds == Init => Succeeds
  BY DEF Init, Succeeds, Control, Connection

LEMMA MasterSucceeds ==
    ASSUME Typed, Control, \A i \in Peers : Connection(i),
           Master \/ WakeUnsignalled
    PROVE  Control' /\ \A i \in Peers : Connection(i)'
<1> USE DEF Typed
<1>a. AllPositive => \A i \in Peers : snd[i] = "pos"
  BY PeerSets, JobsAt("pos") \in SUBSET Peers DEF AllPositive, CountsRight, JobsAt
<1>1. CASE StartSync
  BY <1>1 DEF StartSync, Enqueue, Unmark, One, peerVars, undoVars, Control, Connection
<1>2. CASE AwaitVotes \/ WakeUnsignalled \/ AbandonReplace \/ ApplyHangs
  BY <1>2 DEF AwaitVotes, WakeUnsignalled, AbandonReplace, ApplyHangs, lateVars, senderVars, peerVars, undoVars, Control,
     Connection, Precommits, Commits, Farewell
<1>3. CASE AcceptCommit
  BY <1>3, <1>a DEF AcceptCommit, lateVars, senderVars, peerVars, undoVars, Control, Connection,
     Precommits, Commits, Farewell
<1>4. CASE DecideCommit
  BY <1>4, <1>a DEF DecideCommit, Enqueue, Unmark, One, peerVars, undoVars, Control, Connection
<1>5. CASE AbandonWrite
  BY <1>5 DEF AbandonWrite, Enqueue, Unmark, One, peerVars, undoVars, Control, Connection
<1>6. CASE RefuseCommit \/ ApplyFails \/ VerifyMissing
  BY <1>6 DEF RefuseCommit, ApplyFails, VerifyMissing, UndoAndFail, Enqueue, Unmark, One, peerVars, undoVars,
     Control, Connection
<1>7. CASE ApplyLocal
  BY <1>7 DEF ApplyLocal, lateVars, senderVars, peerVars, undoVars, Control, Connection, Precommits,
     Commits, Farewell
<1>8. CASE VerifyFound
  <2>1. JobsAt("queued") = {}
    BY <1>8 DEF VerifyFound, Control, JobsAt
  <2>2. behind' = 0
    BY <1>8, <2>1, FS_EmptySet DEF VerifyFound, Enqueue, Unmark
  <2> QED
    BY <1>8, <2>2 DEF VerifyFound, Enqueue, Unmark, One, peerVars, undoVars, Control, Connection, Farewell
<1> QED
  BY <1>1, <1>2, <1>3, <1>4, <1>5, <1>6, <1>7, <1>8 DEF Master

(* A sender or a peer leaves the rows of the other peers alone. *)
LEMMA OtherConnections ==
    ASSUME NEW j \in Peers, Connection(j), UNCHANGED phase,
           toPeer'[j] = toPeer[j], toMaster'[j] = toMaster[j],
           snd'[j] = snd[j], copy'[j] = copy[j]
    PROVE  Connection(j)' /\ (Farewell(j) => Farewell(j)')
  BY DEF Connection, Precommits, Commits, Farewell

(* A straggler acts once the last jobs are queued, of a command that failed. *)
LEMMA StragglerSucceeds ==
    ASSUME Typed, Control, \A j \in Peers : Connection(j), NEW i \in Peers, Straggler(i)
    PROVE  Control' /\ \A j \in Peers : Connection(j)'
<1> USE DEF Typed, TypeOK
<1>1. UNCHANGED <<mpc, phase, reply, local>>
  BY DEF Straggler, LateTake, LatePrecommit, LateCommit, LateRefusal, masterVars
<1>2. phase \in {"del", "quit"} /\ reply # "ok"
  BY DEF Straggler, LateTake, LatePrecommit, LateCommit, LateRefusal, Control
<1>3. \A j \in Peers : snd'[j] \in {snd[j], "passed"}
  BY DEF Straggler, LateTake, LatePrecommit, LateCommit, LateRefusal, senderVars
<1>4. phase # "del" => UNCHANGED unheard
  BY DEF Straggler, LateTake, LatePrecommit, LateCommit, LateRefusal, Control
<1>5. \A j \in Peers : Connection(j)'
  BY <1>1, <1>2, <1>3 DEF Connection
<1> QED
  BY <1>1, <1>2, <1>4, <1>5 DEF Control

LEMMA SenderSucceeds ==
    ASSUME Typed, Control, \A j \in Peers : Connection(j), NEW i \in Peers, Sender(i)
    PROVE  Control' /\ \A j \in Peers : Connection(j)'
<1> USE DEF Typed, TypeOK
<1>s. CASE Straggler(i)
  BY <1>s, StragglerSucceeds
<1> SUFFICES ASSUME ~Straggler(i) PROVE Control' /\ \A j \in Peers : Connection(j)'
  BY <1>s
<1>1. /\ UNCHANGED <<kind, phase, reply, local, copy, lateVars>>
      /\ mpc' = mpc \/ (mpc = "wait" /\ mpc' = "decide")
  BY DEF Sender, Take, SendPrecommit, ConnectRefused, HostUnknown, SendCommit,
     ReadReply, GiveUp, Tally, Dismiss, masterVars, lateVars, peerVars, undoVars
<1>2. \A j \in Peers : j # i => /\ toPeer'[j] = toPeer[j]
                                /\ toMaster'[j] = toMaster[j]
                                /\ snd'[j] = snd[j]
  <2>1. UNCHANGED toPeer \/ \E q : toPeer' = [toPeer EXCEPT ![i] = q]
    BY DEF Sender, Take, SendPrecommit, ConnectRefused, HostUnknown, SendCommit,
       ReadReply, GiveUp, Dismiss, Send
  <2>2. UNCHANGED toMaster \/ \E q : toMaster' = [toMaster EXCEPT ![i] = q]
    BY DEF Sender, Take, SendPrecommit, ConnectRefused, HostUnknown, SendCommit,
       ReadReply, GiveUp, Dismiss
  <2>3. \E v : snd' = [snd EXCEPT ![i] = v]
    BY DEF Sender, Take, SendPrecommit, ConnectRefused, HostUnknown, SendCommit,
       ReadReply, GiveUp, Dismiss
  <2> QED
    BY <2>1, <2>2, <2>3
<1>3. \A j \in Peers : j # i => Connection(j)' /\ (Farewell(j) => Farewell(j)')
  BY <1>1, <1>2, OtherConnections
<1>4. mpc \notin {"apply", "verify"} /\ snd[i] \in {"queued", "taken", "awaiting"}
  <2>1. snd[i] \in {"queued", "taken", "awaiting"}
    BY DEF Sender, Take, SendPrecommit, ConnectRefused, HostUnknown, SendCommit,
       ReadReply, GiveUp, Dismiss
  <2> QED
    BY <2>1 DEF Control
<1>5. Connection(i)' /\ (reply = "ok" => Farewell(i)')
  <2> USE DEF Connection
  <2>1. CASE Take(i)
    BY <1>1, <2>1 DEF Take, Control, Farewell
  <2>2. CASE SendPrecommit(i)
    <3>1. toPeer'[i] = <<"precommit">> /\ toMaster'[i] = <<>> /\ snd'[i] = "awaiting"
      <4>1. toPeer[i] = <<>> /\ toMaster[i] = <<>>
        BY <2>2 DEF SendPrecommit
      <4>2. toPeer'[i] = Append(toPeer[i], "precommit")
        BY <2>2 DEF SendPrecommit, Send
      <4>3. toMaster' = toMaster /\ snd'[i] = "awaiting"
        BY <2>2 DEF SendPrecommit
      <4> QED
        BY <4>1, <4>2, <4>3, Singles
    <3>2. phase = "precommit" /\ phase' = phase /\ reply # "ok"
      BY <1>1, <2>2 DEF SendPrecommit, Control
    <3>3. Precommits(i)'
      BY <3>1 DEF Precommits
    <3> QED
      BY <3>1, <3>2, <3>3
  <2>3. CASE ConnectRefused(i) \/ HostUnknown(i)
    BY <1>1, <2>3 DEF ConnectRefused, HostUnknown, Control, Precommits
  <2>4. CASE SendCommit(i)
    <3>1. toPeer'[i] = <<"commit">> /\ toMaster'[i] = <<>> /\ snd'[i] = "awaiting"
      <4>1. toPeer[i] = <<>> /\ toMaster[i] = <<>>
        BY <2>4 DEF SendCommit
      <4>2. toPeer'[i] = Append(toPeer[i], "commit")
        BY <2>4 DEF SendCommit, Send
      <4>3. toMaster' = toMaster /\ snd'[i] = "awaiting"
        BY <2>4 DEF SendCommit
      <4> QED
        BY <4>1, <4>2, <4>3, Singles
    <3>2. phase = "commit" /\ phase' = phase /\ reply # "ok"
      BY <1>1, <2>4 DEF SendCommit, Control
    <3>3. Commits(i)'
      BY <3>1 DEF Commits
    <3> QED
      BY <3>1, <3>2, <3>3
  <2>5. CASE ReadReply(i)
    <3>1. phase \in {"precommit", "commit"}
      BY <1>4, <2>5 DEF ReadReply
    <3>2. PICK a : toPeer[i] = <<>> /\ toMaster[i] = <<a>>
                   /\ (phase = "commit" /\ a = "positive" => copy[i] = "new")
      BY <2>5, <3>1, Singles DEF ReadReply, Precommits, Commits
    <3>3. /\ toMaster'[i] = <<>> /\ toPeer'[i] = <<>>
          /\ snd'[i] = IF a = "positive" THEN "pos" ELSE "neg"
      BY <2>5, <3>2, Singles DEF ReadReply
    <3> QED
      BY <1>1, <3>1, <3>2, <3>3 DEF Control
  <2>6. CASE GiveUp(i)
    BY <1>1, <2>6 DEF GiveUp, Control
  <2>7. CASE Dismiss(i)
    <3>1. Connection(i)'
      BY <1>1, <2>7 DEF Dismiss
    <3>2. ASSUME reply = "ok" PROVE Farewell(i)'
      <4>1. /\ phase = "quit" /\ toPeer[i] = <<>> /\ copy[i] = "new"
            /\ snd'[i] \in {"finished", "missed"}
        BY <2>7, <3>2 DEF Dismiss, Control, Farewell
      <4>2. toPeer'[i] \in {<<>>, <<"quit">>}
        BY <2>7, <4>1, Singles DEF Dismiss, Send, LastOrder
      <4> QED
        BY <1>1, <4>1, <4>2 DEF Farewell
    <3> QED
      BY <3>1, <3>2
  <2> QED
    BY <2>1, <2>2, <2>3, <2>4, <2>5, <2>6, <2>7 DEF Sender
<1> QED
  BY <1>1, <1>3, <1>4, <1>5 DEF Control, lateVars

LEMMA PeerSucceeds ==
    ASSUME Typed, Truthful, Control, \A j \in Peers : Connection(j),
           NEW i \in Peers, Peer(i)
    PROVE  Control' /\ \A j \in Peers : Connection(j)'
<1> USE DEF Typed, TypeOK
<1>1. /\ UNCHANGED <<kind, mpc, phase, reply, local, snd, lateVars>>
      /\ \A j \in Peers : j # i => /\ toPeer'[j] = toPeer[j]
                                   /\ toMaster'[j] = toMaster[j]
                                   /\ copy'[j] = copy[j]
  BY DEF Peer, PeerPrecommit, PeerWrites, PeerWriteFails, PeerHasNumber, PeerReplaces,
     PeerReplaceFails, PeerReplaceHangs, SaveForUndo, PeerLacksNumber, PeerAborts, PeerUndoFails,
     PeerQuits, Receive, Answer, masterVars, senderVars, peerVars, undoVars
<1>2. \A j \in Peers : j # i => Connection(j)' /\ (Farewell(j) => Farewell(j)')
  BY <1>1, OtherConnections
<1>3. toPeer[i] # <<>>
  BY DEF Peer, PeerPrecommit, PeerWrites, PeerWriteFails, PeerHasNumber, PeerReplaces,
     PeerReplaceFails, PeerReplaceHangs, SaveForUndo, PeerLacksNumber, PeerAborts, PeerUndoFails,
     PeerQuits, Receive
<1>4. Connection(i)' /\ (reply = "ok" => Farewell(i)')
  <2>1. CASE phase \in {"none", "precommit"} /\ snd[i] \notin {"neg", "lost"}
    <3>1. phase = "precommit" /\ snd[i] = "awaiting"
          /\ toPeer[i] = <<"precommit">> /\ toMaster[i] = <<>>
      BY <1>3, <2>1 DEF Connection, Precommits
    <3>2. PeerPrecommit(i)
      BY <3>1, Singles DEF Peer, PeerPrecommit, PeerWrites, PeerWriteFails,
         PeerHasNumber, PeerReplaces, PeerReplaceFails, PeerReplaceHangs, SaveForUndo,
         PeerLacksNumber, PeerAborts, PeerUndoFails, PeerQuits, Receive
    <3>3. toPeer'[i] = <<>> /\ toMaster'[i] = <<"positive">>
      BY <3>1, <3>2, Singles DEF PeerPrecommit, Receive, Answer
    <3> QED
      BY <1>1, <2>1, <3>1, <3>3 DEF Connection, Precommits, Control
  <2>2. CASE phase = "commit" /\ snd[i] \notin {"neg", "lost"}
    <3>1. snd[i] = "awaiting" /\ toPeer[i] = <<"commit">> /\ toMaster[i] = <<>>
      BY <1>3, <2>2 DEF Connection, Commits
    <3>2. toPeer'[i] = <<>>
      BY <3>1, Singles DEF Peer, PeerPrecommit, PeerWrites, PeerWriteFails,
         PeerHasNumber, PeerReplaces, PeerReplaceFails, PeerReplaceHangs, SaveForUndo,
         PeerLacksNumber, PeerAborts, PeerUndoFails, PeerQuits, Receive
    <3>3. \/ UNCHANGED toMaster
          \/ \E a \in Answers : Answer(i, a) /\ (a = "positive" => copy'[i] = "new")
      BY <3>1, Singles DEF Peer, PeerPrecommit, PeerWrites, PeerWriteFails,
         PeerHasNumber, PeerReplaces, PeerReplaceFails, PeerReplaceHangs, SaveForUndo,
         PeerLacksNumber, PeerAborts, PeerUndoFails, PeerQuits, Receive, Answers,
         Truthful
    <3>4. Commits(i)'
      BY <3>1, <3>2, <3>3, Singles DEF Commits, Answer
    <3> QED
      BY <1>1, <2>2, <3>1, <3>4 DEF Connection, Control
  <2>3. CASE reply = "ok"
    <3>1. phase = "quit" /\ toPeer[i] = <<"quit">> /\ copy[i] = "new"
      BY <1>3, <2>3 DEF Control, Farewell
    <3>2. PeerQuits(i)
      BY <3>1, Singles DEF Peer, PeerPrecommit, PeerWrites, PeerWriteFails,
         PeerHasNumber, PeerReplaces, PeerReplaceFails, PeerReplaceHangs, SaveForUndo,
         PeerLacksNumber, PeerAborts, PeerUndoFails, PeerQuits, Receive
    <3>3. toPeer'[i] = <<>> /\ copy'[i] = "new"
      BY <3>1, <3>2, Singles DEF PeerQuits, Receive
    <3> QED
      BY <1>1, <3>1, <3>3 DEF Connection, Farewell
  <2>4. CASE reply # "ok" /\ (phase \in {"del", "quit"} \/ snd[i] \in {"neg", "lost"})
    BY <1>1, <2>4 DEF Connection
  <2> QED
    BY <2>1, <2>2, <2>3, <2>4
<1>5. mpc \in {"apply", "verify"} => FALSE
  BY <1>3 DEF Control, Connection
<1> QED
  BY <1>1, <1>2, <1>4, <1>5 DEF Control, lateVars

LEMMA NextSucceeds ==
    ASSUME Typed, Succeeds, [Next]_vars
    PROVE  Succeeds'
<1>1. Truthful' => Truthful
  BY DEF Truthful, Next, Master, StartSync, AwaitVotes, WakeUnsignalled, DecideCommit, AbandonWrite,
     AbandonReplace, AcceptCommit, UndoAndFail, RefuseCommit, ApplyLocal, ApplyFails,
     ApplyHangs, VerifyFound, VerifyMissing, Sender, Take, SendPrecommit,
     ConnectRefused, HostUnknown, SendCommit, ReadReply, GiveUp, Dismiss, Straggler,
     LateTake, LatePrecommit, LateCommit, LateRefusal, Peer,
     PeerPrecommit, PeerWrites, PeerWriteFails, PeerHasNumber, PeerReplaces,
     PeerReplaceFails, PeerReplaceHangs, SaveForUndo, PeerLacksNumber, PeerAborts, PeerUndoFails,
     PeerQuits, vars, masterVars
<1> SUFFICES ASSUME Truthful PROVE Control' /\ \A i \in Peers : Connection(i)'
  BY <1>1 DEF Succeeds
<1>2. Control /\ \A i \in Peers : Connection(i)
  BY DEF Succeeds
<1>3. CASE Next
  BY <1>2, <1>3, MasterSucceeds, SenderSucceeds, PeerSucceeds DEF Next
<1>4. CASE UNCHANGED vars
  BY <1>2, <1>4 DEF vars, masterVars, senderVars, lateVars, peerVars, undoVars, Control, Connection,
     Precommits, Commits, Farewell
<1> QED
  BY <1>3, <1>4

(* server_operations.cc:489-532: a client that hears of success finds its  *)
(* message in every file, for good.  For a REPLACE this needs peers whose  *)
(* file never fails: the result of replace_descriptor is dropped at        *)
(* peer_operations.cc:338.                                                 *)
THEOREM SuccessEverywhere ==
    Spec => [](kind = "write" \/ "peerfile" \notin Faults => WroteEverywhere)
<1>1. Succeeds => (kind = "write" \/ "peerfile" \notin Faults => WroteEverywhere)
  BY DEF Succeeds, Truthful, Control, Farewell, WroteEverywhere
<1>2. Spec => [](Typed /\ Succeeds)
  BY InitTyped, NextTyped, InitSucceeds, NextSucceeds, PTL DEF Spec
<1> QED
  BY <1>1, <1>2, PTL
=============================================================================
