----------------------------- MODULE Descriptor -----------------------------
(***************************************************************************)
(* The bulletin board file of one server without peers, and the worker     *)
(* threads that READ, WRITE and REPLACE in it: descriptor.cc, called as    *)
(* server_operations calls it through sync_write and sync_replace with     *)
(* NO_OF_PEERS = 0 (which then neither send nor wait).                     *)
(*                                                                         *)
(* A line of the file is its message number; 0 is a line whose number is   *)
(* gone (blanked, or overwritten).  Lines keep their place, so a position  *)
(* found by lseek stays that of the same line.  read_descriptor looks at   *)
(* one line per step; generate_number and seek_msg_descriptor, which hold  *)
(* no lock and are no readers, look at the file in one step.               *)
(***************************************************************************)
EXTENDS Integers, Sequences, FiniteSets

CONSTANTS
    Threads,        \* the workers of file_team that have a client
    NoThread,       \* nobody holds access_file_queue
    Ops,            \* Ops[t]: the commands client t may send
    InitialFile,    \* the message numbers in bbfile at the start
    Requests,       \* a bound: how many requests each client sends
    FileMayVanish   \* whether bbfile may be removed under the server

Commands == {"read", "write", "replace"}

ASSUME ThreadsAssumption == IsFiniteSet(Threads) /\ NoThread \notin Threads
ASSUME OpsAssumption == Ops \in [Threads -> SUBSET Commands]
ASSUME FileAssumption == InitialFile \in Seq(Nat)
ASSUME RequestsAssumption == Requests \in Nat
ASSUME VanishAssumption == FileMayVanish \in BOOLEAN

VARIABLES
    file,        \* the lines of source_file
    present,     \* whether open(source_file) succeeds
    lock,        \* who holds access_file_queue over several steps
    reads,       \* file_queue_a.reads
    temp_list, count,  \* gen_on_queue
    pc, op,      \* where each worker is, and in which command
    num,         \* the message number it works on; in generate_number, max
    stage,       \* why it reads: for the client, as a check, or to verify
    idx,         \* the line it reads next, or found
    raised,      \* generate_number's max_changed
    reply,       \* its last answer to the client
    left,        \* requests its client has left
    acked, due,  \* history: numbers clients know of; READs that must succeed
    raced        \* history: a number was chosen while another one was in use

lockVars == <<lock, reads>>
genVars == <<temp_list, count, raised>>
history == <<acked, due, raced>>
vars == <<file, present, lockVars, genVars, pc, op, num, stage, idx, reply,
          left, history>>

Slots == Cardinality(Threads) * Requests   \* of temp_list, as far as used

InFile(s) == {s[k] : k \in 1..Len(s)} \ {0}

Places == {"idle", "enter", "scan", "max", "list", "record", "count",
           "lock", "waiting", "append", "seek", "blank", "hung"}

TypeOK ==
    /\ file \in Seq(Nat)
    /\ present \in BOOLEAN
    /\ lock \in Threads \cup {NoThread}
    /\ reads \in Nat
    /\ temp_list \in [0..Slots -> Nat]
    /\ count \in Nat
    /\ pc \in [Threads -> Places]
    /\ op \in [Threads -> Commands]
    /\ num \in [Threads -> Int]
    /\ stage \in [Threads -> {"client", "check", "verify"}]
    /\ idx \in [Threads -> Nat]
    /\ raised \in [Threads -> BOOLEAN]
    /\ reply \in [Threads -> {"none", "message", "unknown", "wrote", "error"}]
    /\ left \in [Threads -> 0..Requests]
    /\ acked \subseteq Nat
    /\ due \in [Threads -> BOOLEAN]
    /\ raced \in BOOLEAN

(* The slots of temp_list beyond count hold what new[] left: zero here. *)
Init ==
    /\ file = InitialFile /\ present = TRUE
    /\ lock = NoThread /\ reads = 0
    /\ temp_list = [k \in 0..Slots |-> 0] /\ count = 0
    /\ pc = [t \in Threads |-> "idle"]
    /\ op = [t \in Threads |-> "read"]
    /\ num = [t \in Threads |-> 0]
    /\ stage = [t \in Threads |-> "client"]
    /\ idx = [t \in Threads |-> 0]
    /\ raised = [t \in Threads |-> FALSE]
    /\ reply = [t \in Threads |-> "none"]
    /\ left = [t \in Threads |-> Requests]
    /\ acked = InFile(InitialFile)
    /\ due = [t \in Threads |-> FALSE]
    /\ raced = FALSE

-----------------------------------------------------------------------------
Goto(t, place) == pc' = [pc EXCEPT ![t] = place]

(* server_operations answers and reads the client's next request. *)
Answer(t, r) ==
    /\ reply' = [reply EXCEPT ![t] = r]
    /\ Goto(t, "idle")

(* REPLACE has blanked the line with n, and not yet appended the new one. *)
Replacing(n) == \E t \in Threads : /\ op[t] = "replace" /\ num[t] = n
                                   /\ pc[t] \in {"lock", "waiting", "append"}

(* A client's request.  Numbers nobody was told of are not asked for. *)
Request(t) ==
    /\ pc[t] = "idle" /\ left[t] > 0
    /\ left' = [left EXCEPT ![t] = @ - 1]
    /\ reply' = [reply EXCEPT ![t] = "none"]
    /\ \E o \in Ops[t] :
         /\ op' = [op EXCEPT ![t] = o]
         /\ Goto(t, IF o = "write" THEN "max" ELSE "enter")
         /\ stage' = [stage EXCEPT ![t] = IF o = "read" THEN "client" ELSE "check"]
         /\ \E n \in IF o = "write" THEN {0} ELSE acked :
              /\ num' = [num EXCEPT ![t] = n]
              /\ due' = [due EXCEPT ![t] = o = "read" /\ ~Replacing(n)]
    /\ UNCHANGED <<file, present, lockVars, genVars, idx, acked, raced>>

-----------------------------------------------------------------------------
(* generate_number.  access_num_gen is never locked. *)

(* A number is in use that the file does not show: that of a WRITE not yet *)
(* appended, or one a REPLACE has blanked.                                 *)
Unsettled ==
    \E t \in Threads :
        \/ op[t] = "write" /\ pc[t] \in {"list", "record", "count", "lock", "waiting", "append"}
        \/ Replacing(num[t])

GenerateMax(t) ==
    /\ pc[t] = "max" /\ present
    /\ \E max \in InFile(file) \cup {0} :
         /\ \A n \in InFile(file) : n <= max
         /\ num' = [num EXCEPT ![t] = max]
    /\ raced' = (raced \/ Unsettled)
    /\ Goto(t, "list")
    /\ UNCHANGED <<file, present, lockVars, genVars, op, stage, idx, reply,
                   left, acked, due>>

(* The file does not open: the number is -2, and sync_write goes on. *)
GenerateFails(t) ==
    /\ pc[t] = "max" /\ ~present
    /\ num' = [num EXCEPT ![t] = -2]
    /\ Goto(t, "lock")
    /\ UNCHANGED <<file, present, lockVars, genVars, op, stage, idx, reply,
                   left, history>>

(* The loop over temp_list: a number found there is stepped over, and the  *)
(* loop starts again, at index 1 (j=0 in the body, j++ in the head).       *)
(* It takes max to the first number from there on that is not listed.      *)
Skips(max, m) ==
    LET first == IF count > 0 /\ temp_list[0] = max THEN max + 1 ELSE max
        listed == {temp_list[j] : j \in 1..(count - 1)}
    IN  m >= first /\ m \notin listed /\ \A n \in first..(m - 1) : n \in listed

GenerateSkip(t) ==
    /\ pc[t] = "list"
    /\ \E m \in num[t]..(num[t] + count) :
         /\ Skips(num[t], m)
         /\ num' = [num EXCEPT ![t] = m]
         /\ raised' = [raised EXCEPT ![t] = m # num[t]]
    /\ Goto(t, "record")
    /\ UNCHANGED <<file, present, lockVars, temp_list, count, op, stage, idx,
                   reply, left, history>>

GenerateRecord(t) ==
    /\ pc[t] = "record"
    /\ temp_list' = [temp_list EXCEPT ![count] = num[t]]
    /\ Goto(t, "count")
    /\ UNCHANGED <<file, present, lockVars, count, raised, op, num, stage, idx,
                   reply, left, history>>

(* A number no entry of temp_list raised is raised only after recording. *)
SameNumber(m, changed) == m
Successor(m, changed) == IF changed THEN m ELSE m + 1

GenerateCount(t) ==
    /\ pc[t] = "count"
    /\ count' = count + 1
    /\ num' = [num EXCEPT ![t] = Successor(num[t], raised[t])]
    /\ Goto(t, "lock")
    /\ UNCHANGED <<file, present, lockVars, temp_list, raised, op, stage, idx,
                   reply, left, history>>

(* release_number: the first entry equal to num becomes 0. *)
Release(n) ==
    LET hits == {j \in 0..(count - 1) : temp_list[j] = n}
    IN  temp_list' = IF hits = {} THEN temp_list
                     ELSE [temp_list EXCEPT
                             ![CHOOSE j \in hits : \A k \in hits : j <= k] = 0]

-----------------------------------------------------------------------------
(* read_descriptor. *)

EnterRead(t) ==
    /\ pc[t] = "enter" /\ lock = NoThread /\ present
    /\ reads' = reads + 1
    /\ idx' = [idx EXCEPT ![t] = 1]
    /\ Goto(t, "scan")
    /\ UNCHANGED <<file, present, lock, genVars, op, num, stage, reply, left, history>>

BeforeEnd(t) == idx[t] >= Len(file)
AtEnd(t) == idx[t] > Len(file)
Hit(t) == ~AtEnd(t) /\ file[idx[t]] = num[t]

NextLine(t) ==
    /\ pc[t] = "scan" /\ ~AtEnd(t) /\ ~Hit(t)
    /\ idx' = [idx EXCEPT ![t] = @ + 1]
    /\ UNCHANGED <<file, present, lockVars, genVars, pc, op, num, stage, reply,
                   left, history>>

(* Under the lock: reads--, and the last reader wakes those who wait in    *)
(* pthread_cond_wait(can_write).                                           *)
NoReader(n) == FALSE
LastReader(n) == n = 0
LeaveTwice == lock = NoThread /\ reads' = reads - 2
LeaveRead == lock = NoThread /\ reads' = reads - 1

Wake(f) == [t \in Threads |-> IF f[t] = "waiting" THEN "lock" ELSE f[t]]
WakeIfLast(f) == pc' = IF LastReader(reads - 1) THEN Wake(f) ELSE f

(* What server_operations, sync_write and sync_replace make of the result. *)
ReadFound(t) ==
    /\ pc[t] = "scan" /\ Hit(t)
    /\ LeaveRead
    /\ WakeIfLast([pc EXCEPT ![t] = IF stage[t] = "check" THEN "seek" ELSE "idle"])
    /\ reply' = [reply EXCEPT ![t] = CASE stage[t] = "client" -> "message"
                                       [] stage[t] = "verify" -> "wrote"
                                       [] OTHER -> @]
    /\ acked' = IF stage[t] = "verify" THEN acked \cup {num[t]} ELSE acked
    /\ UNCHANGED <<file, present, lock, genVars, op, num, stage, idx, left, due, raced>>

ReadMissing(t) ==
    /\ pc[t] = "scan" /\ AtEnd(t)
    /\ LeaveRead
    /\ WakeIfLast([pc EXCEPT ![t] = "idle"])
    /\ reply' = [reply EXCEPT ![t] = IF stage[t] = "verify" THEN "error" ELSE "unknown"]
    /\ IF stage[t] = "verify" /\ op[t] = "write"
         THEN Release(num[t]) ELSE UNCHANGED temp_list
    /\ UNCHANGED <<file, present, lock, count, raised, op, num, stage, idx, left,
                   history>>

(* -2: reads++ and reads-- around an open() that fails.  Only a REPLACE    *)
(* goes on, to seek in the file that is not there.                         *)
ReadFails(t) ==
    /\ pc[t] = "enter" /\ lock = NoThread /\ ~present
    /\ pc' = LET f == [pc EXCEPT ![t] = IF stage[t] = "check" THEN "seek" ELSE "idle"]
             IN  IF LastReader(reads) THEN Wake(f) ELSE f
    /\ reply' = [reply EXCEPT ![t] =
                   IF stage[t] = "check" THEN @
                   ELSE IF stage[t] = "verify" /\ op[t] = "replace" THEN "wrote"
                   ELSE "error"]
    /\ IF stage[t] = "verify" /\ op[t] = "write"
         THEN Release(num[t]) ELSE UNCHANGED temp_list
    /\ UNCHANGED <<file, present, lockVars, count, raised, op, num, stage, idx,
                   left, history>>

-----------------------------------------------------------------------------
(* write_descriptor. *)

Heedless == TRUE
NoReads == reads = 0

LockFile(t) ==
    /\ pc[t] = "lock" /\ lock = NoThread
    /\ IF NoReads THEN lock' = t /\ Goto(t, "append")
                  ELSE lock' = lock /\ Goto(t, "waiting")
    /\ UNCHANGED <<file, present, reads, genVars, op, num, stage, idx, reply,
                   left, history>>

(* pthread_cond_wait may return without a signal; the loop tests again. *)
Spurious(t) ==
    /\ pc[t] = "waiting"
    /\ Goto(t, "lock")
    /\ UNCHANGED <<file, present, lockVars, genVars, op, num, stage, idx, reply,
                   left, history>>

AppendLine(t) ==
    /\ pc[t] = "append" /\ present
    /\ file' = Append(file, num[t])
    /\ lock' = NoThread
    /\ pc' = Wake([pc EXCEPT ![t] = "enter"])
    /\ stage' = [stage EXCEPT ![t] = "verify"]
    /\ UNCHANGED <<present, reads, genVars, op, num, idx, reply, left, history>>

AppendFails(t) ==
    /\ pc[t] = "append" /\ ~present
    /\ lock' = NoThread
    /\ pc' = Wake([pc EXCEPT ![t] = "idle"])
    /\ reply' = [reply EXCEPT ![t] = "error"]
    /\ IF op[t] = "write" THEN Release(num[t]) ELSE UNCHANGED temp_list
    /\ UNCHANGED <<file, present, reads, count, raised, op, num, stage, idx, left,
                   history>>

-----------------------------------------------------------------------------
(* delete_descriptor: seek_msg_descriptor, then write over what it found.  *)
(* Neither takes the lock.                                                 *)

(* The first line with the number; 0 stands for "not found": the same byte *)
(* position as the first line, but with a length that was never set.       *)
LineAfter(k, n) == IF k = 0 THEN TRUE ELSE file[k] # n
SeekLine(k, n) ==
    IF k = 0 THEN n \notin InFile(file)
    ELSE file[k] = n /\ \A j \in 1..(k - 1) : file[j] # n

Seek(t) ==
    /\ pc[t] = "seek" /\ present
    /\ \E k \in 0..Len(file) :
         /\ SeekLine(k, num[t])
         /\ idx' = [idx EXCEPT ![t] = k]
    /\ Goto(t, "blank")
    /\ UNCHANGED <<file, present, lockVars, genVars, op, num, stage, reply, left,
                   history>>

(* readline on the descriptor of a failed open() answers -1, not           *)
(* recv_nodata, and the loop goes on for ever, unless what the             *)
(* uninitialised line holds happens to be the number.                      *)
SeekFails(t) ==
    /\ pc[t] = "seek" /\ ~present
    /\ \E place \in {"hung", "blank"} : Goto(t, place)
    /\ UNCHANGED <<file, present, lockVars, genVars, op, num, stage, idx, reply,
                   left, history>>

(* From the start of the file, as many bytes as msg_len happens to say,    *)
(* one at least: the first k lines lose their numbers.  What is left of a  *)
(* line half overwritten is taken to be no number.                         *)
WipeStart(s, k) == [j \in 1..Len(s) |-> IF j <= k THEN 0 ELSE s[j]]

Blank(t) ==
    /\ pc[t] = "blank" /\ present
    /\ IF idx[t] # 0 THEN file' = [file EXCEPT ![idx[t]] = 0]
                     ELSE \E k \in 1..Len(file) : file' = WipeStart(file, k)
    /\ Goto(t, "lock")
    /\ due' = [q \in Threads |-> due[q] /\ num[q] # num[t]]
    /\ UNCHANGED <<present, lockVars, genVars, op, num, stage, idx, reply, left,
                   acked, raced>>

BlankFails(t) ==
    /\ pc[t] = "blank" /\ ~present
    /\ Answer(t, "error")
    /\ UNCHANGED <<file, present, lockVars, genVars, op, num, stage, idx, left,
                   history>>

-----------------------------------------------------------------------------
Vanish ==
    /\ FileMayVanish /\ present
    /\ present' = FALSE
    /\ UNCHANGED <<file, lockVars, genVars, pc, op, num, stage, idx, reply, left,
                   history>>

Serve(t) ==
    \/ GenerateMax(t) \/ GenerateFails(t) \/ GenerateSkip(t)
    \/ GenerateRecord(t) \/ GenerateCount(t)
    \/ EnterRead(t) \/ NextLine(t) \/ ReadFound(t) \/ ReadMissing(t) \/ ReadFails(t)
    \/ LockFile(t) \/ AppendLine(t) \/ AppendFails(t)
    \/ Seek(t) \/ SeekFails(t) \/ Blank(t) \/ BlankFails(t)

Next == (\E t \in Threads : Request(t) \/ Serve(t) \/ Spurious(t)) \/ Vanish

(* A worker that can go on does.  Weak fairness is enough, the number of   *)
(* requests being bounded: the lock is taken only finitely often.          *)
Fairness == \A t \in Threads : WF_vars(Serve(t))

Spec == Init /\ [][Next]_vars /\ Fairness

-----------------------------------------------------------------------------
(* Properties. *)

(* README.md:190-192, descriptor.cc:84-94: while anybody scans the file in *)
(* read_descriptor, no line is appended to it.                             *)
AppendExcludesReaders ==
    [][(\E t \in Threads : pc[t] = "scan") => Len(file') = Len(file)]_vars

(* descriptor.cc:90-94,258-325: a writer sleeps only while somebody reads. *)
NoSleepingWriter == (\E t \in Threads : pc[t] = "waiting") => reads > 0

(* README.md:188: no two lines of the file have the same number, unless a  *)
(* maximum was read while the number of another WRITE was not in the file  *)
(* yet or that of a REPLACE not there just then (descriptor.cc:374-429):   *)
(* temp_list, meant for the first of these, does not prevent it.           *)
UniqueNumbers ==
    ~raced => \A j, k \in 1..Len(file) : file[j] = file[k] /\ file[j] # 0 => j = k

(* descriptor.h:50-54: a message that was acknowledged stays in the file,  *)
(* as long as there is one, except between the two halves of a REPLACE of  *)
(* that very message.                                                      *)
WrittenStays == present => \A n \in acked : n \in InFile(file) \/ Replacing(n)

(* README.md:96-97: a READ of a message whose author has been told         *)
(* "3.0 WROTE" answers with the message, unless a REPLACE has it blanked   *)
(* while the READ is under way.                                            *)
ReadFindsWritten ==
    \A t \in Threads : due[t] /\ op[t] = "read" => reply[t] # "unknown"

(* README.md:98,118,154: every request is answered, the file being there   *)
(* or not; only a REPLACE whose file goes while it is under way may read   *)
(* for ever.  As a client sends finitely many, a request is left without   *)
(* its answer exactly if it is not true that in the end all have theirs.   *)
Answered(t) == pc[t] = "idle" \/ (op[t] = "replace" /\ pc[t] = "hung")
RequestAnswered == <>[](\A t \in Threads : Answered(t))
=============================================================================
