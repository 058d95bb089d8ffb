-------------------------- MODULE DescriptorProofs --------------------------
(***************************************************************************)
(* What the lock and the count of readers of descriptor.cc guarantee, for  *)
(* any number of workers, any file and any bound on the requests.          *)
(*                                                                         *)
(* FileLockInv says what access_file_queue protects: reads counts exactly  *)
(* the workers that scan, whoever holds the lock over several steps is     *)
(* about to append, and it got there with no reader inside.  It needs no   *)
(* more of the state than pc, lock and reads; the types of the rest follow *)
(* from it afterwards.                                                     *)
(*                                                                         *)
(* The second half is about the lines.  Two REPLACEs of one message that   *)
(* meet spoil the file: each appends what it has.  The theorems say that   *)
(* nothing else does.  They are stated twice, for a run in which that does *)
(* not happen, and for a server where it cannot since one client replaces. *)
(***************************************************************************)
EXTENDS Descriptor, FiniteSetTheorems, SequenceTheorems, TLAPS

Scanning == {t \in Threads : pc[t] = "scan"}
Watched == {"scan", "append", "waiting"}

FileLockInv ==
    /\ pc \in [Threads -> Places]
    /\ lock \in Threads \cup {NoThread}
    /\ reads = Cardinality(Scanning)
    /\ \A t \in Threads : (pc[t] = "append") <=> (lock = t)
    /\ lock # NoThread => reads = 0
    /\ NoSleepingWriter

(* The readers are finitely many, so reads is a natural number, zero only  *)
(* when nobody scans.                                                      *)
LEMMA ReadersAreCounted ==
    ASSUME reads = Cardinality(Scanning)
    PROVE  /\ IsFiniteSet(Scanning) /\ reads \in Nat
           /\ reads = 0 <=> Scanning = {}
<1>1. IsFiniteSet(Scanning)
  BY FS_Subset, ThreadsAssumption DEF Scanning
<1> QED
  BY <1>1, FS_CardinalityType, FS_EmptySet

(* A step of one worker between places where it neither scans, appends nor *)
(* sleeps leaves everything the lock protects as it is.                    *)
LEMMA UnwatchedStep ==
    ASSUME FileLockInv, NEW t \in Threads, NEW place \in Places,
           pc[t] \notin Watched, place \notin Watched,
           pc' = [pc EXCEPT ![t] = place], UNCHANGED lockVars
    PROVE  FileLockInv'
<1>1. pc' \in [Threads -> Places]
  BY DEF FileLockInv
<1>2. \A u \in Threads : /\ pc'[u] = "scan" <=> pc[u] = "scan"
                         /\ pc'[u] = "append" <=> pc[u] = "append"
                         /\ pc'[u] = "waiting" <=> pc[u] = "waiting"
  BY DEF FileLockInv, Watched
<1>3. Scanning' = Scanning
  BY <1>2 DEF Scanning
<1> QED
  BY <1>1, <1>2, <1>3 DEF FileLockInv, lockVars, NoSleepingWriter

(* A reader leaves: reads-- with the lock free, and the last one wakes all *)
(* who sleep.                                                              *)
LEMMA ReaderLeaves ==
    ASSUME FileLockInv, NEW t \in Threads, NEW place \in Places,
           pc[t] = "scan", place \notin Watched,
           LeaveRead, lock' = lock,
           WakeIfLast([pc EXCEPT ![t] = place])
    PROVE  FileLockInv'
<1> DEFINE f == [pc EXCEPT ![t] = place]
<1>1. f \in [Threads -> Places] /\ f[t] = place /\ Wake(f) \in [Threads -> Places]
  BY DEF FileLockInv, Wake, Places
<1>2. pc' = f \/ pc' = Wake(f)
  BY DEF WakeIfLast
<1>3. \A u \in Threads : /\ pc'[u] = "scan" <=> (pc[u] = "scan" /\ u # t)
                         /\ pc'[u] = "append" <=> pc[u] = "append"
                         /\ pc'[u] = "waiting" => pc[u] = "waiting"
  BY <1>1, <1>2 DEF FileLockInv, Wake, Watched
<1>4. Scanning' = Scanning \ {t} /\ t \in Scanning
  BY <1>3 DEF Scanning
<1>5. reads \in Nat /\ reads # 0 /\ IsFiniteSet(Scanning)
  BY <1>4, ReadersAreCounted DEF FileLockInv
<1>6. reads' = Cardinality(Scanning')
  BY <1>4, <1>5, FS_RemoveElement DEF FileLockInv, LeaveRead
<1>7. NoSleepingWriter'
  <2>1. CASE reads' = 0
    <3>1. pc' = Wake(f)
      BY <2>1 DEF WakeIfLast, LastReader, LeaveRead
    <3> QED
      BY <3>1 DEF Wake, NoSleepingWriter
  <2>2. CASE reads' # 0
    BY <2>2, <1>5 DEF LeaveRead, NoSleepingWriter
  <2> QED
    BY <2>1, <2>2
<1> QED
  BY <1>1, <1>2, <1>3, <1>6, <1>7 DEF FileLockInv, LeaveRead

(* The file is let go of: the writer is through, and all who sleep wake.   *)
LEMMA WriterLeaves ==
    ASSUME FileLockInv, NEW t \in Threads, NEW place \in Places,
           pc[t] = "append", place \notin Watched,
           lock' = NoThread, reads' = reads,
           pc' = Wake([pc EXCEPT ![t] = place])
    PROVE  FileLockInv'
<1>1. pc' \in [Threads -> Places]
  BY DEF FileLockInv, Wake, Places
<1>2. \A u \in Threads : /\ pc'[u] = "scan" <=> pc[u] = "scan"
                         /\ pc'[u] = "append" => pc[u] = "append" /\ u # t
                         /\ pc'[u] # "waiting"
  BY DEF FileLockInv, Wake, Watched
<1>3. Scanning' = Scanning
  BY <1>2 DEF Scanning
<1>4. lock = t
  BY DEF FileLockInv
<1>5. \A u \in Threads : pc'[u] # "append" /\ lock' # u
  BY <1>2, <1>4, ThreadsAssumption DEF FileLockInv
<1> QED
  BY <1>1, <1>2, <1>3, <1>5 DEF FileLockInv, NoSleepingWriter

LEMMA FileLockInit == Init => FileLockInv
<1> SUFFICES ASSUME Init PROVE FileLockInv
  OBVIOUS
<1>1. Scanning = {}
  BY DEF Init, Scanning
<1>2. Cardinality(Scanning) = 0
  BY <1>1, FS_EmptySet
<1> QED
  BY <1>2, ThreadsAssumption DEF Init, FileLockInv, NoSleepingWriter, Places

LEMMA FileLockStep == FileLockInv /\ [Next]_vars => FileLockInv'
<1> SUFFICES ASSUME FileLockInv, [Next]_vars PROVE FileLockInv'
  OBVIOUS
<1>0. pc \in [Threads -> Places]
  BY DEF FileLockInv
<1>1. ASSUME NEW t \in Threads, Request(t) PROVE FileLockInv'
  <2>1. \E place \in {"max", "enter"} : pc' = [pc EXCEPT ![t] = place]
    BY <1>1 DEF Request, Goto
  <2> QED
    BY <1>1, <2>1, UnwatchedStep DEF Request, Watched, Places
<1>2. ASSUME NEW t \in Threads,
             \/ GenerateMax(t) \/ GenerateFails(t) \/ GenerateSkip(t)
             \/ GenerateRecord(t) \/ GenerateCount(t)
      PROVE  FileLockInv'
  <2>1. /\ pc[t] \in {"max", "list", "record", "count"}
        /\ \E place \in {"list", "record", "count", "lock"} :
              pc' = [pc EXCEPT ![t] = place]
        /\ UNCHANGED lockVars
    BY <1>2 DEF GenerateMax, GenerateFails, GenerateSkip, GenerateRecord,
                GenerateCount, Goto
  <2> QED
    BY <2>1, UnwatchedStep DEF Watched, Places
<1>3. ASSUME NEW t \in Threads, EnterRead(t) PROVE FileLockInv'
  <2>1. /\ pc' = [pc EXCEPT ![t] = "scan"] /\ pc[t] = "enter"
        /\ lock = NoThread /\ lock' = lock /\ reads' = reads + 1
    BY <1>3 DEF EnterRead, Goto
  <2>2. pc' \in [Threads -> Places]
    BY <1>0, <2>1 DEF Places
  <2>3. \A u \in Threads : /\ pc'[u] = "scan" <=> (pc[u] = "scan" \/ u = t)
                           /\ pc'[u] = "append" <=> pc[u] = "append"
    BY <1>0, <2>1
  <2>4. Scanning' = Scanning \cup {t} /\ t \notin Scanning
    BY <2>1, <2>3 DEF Scanning
  <2>5. IsFiniteSet(Scanning) /\ reads \in Nat
    BY ReadersAreCounted DEF FileLockInv
  <2>6. reads' = Cardinality(Scanning')
    BY <2>1, <2>4, <2>5, FS_AddElement DEF FileLockInv
  <2> QED
    BY <2>1, <2>2, <2>3, <2>5, <2>6 DEF FileLockInv, NoSleepingWriter
<1>4. ASSUME NEW t \in Threads, NextLine(t) PROVE FileLockInv'
  <2>1. UNCHANGED <<pc, lock, reads>>
    BY <1>4 DEF NextLine, lockVars
  <2> QED
    BY <2>1 DEF FileLockInv, Scanning, NoSleepingWriter
<1>5. ASSUME NEW t \in Threads, ReadFound(t) \/ ReadMissing(t) PROVE FileLockInv'
  <2>1. /\ pc[t] = "scan" /\ LeaveRead /\ lock' = lock
        /\ \E place \in {"seek", "idle"} : WakeIfLast([pc EXCEPT ![t] = place])
    BY <1>5 DEF ReadFound, ReadMissing
  <2> QED
    BY <2>1, ReaderLeaves DEF Watched, Places
<1>6. ASSUME NEW t \in Threads, ReadFails(t) PROVE FileLockInv'
  <2>1. PICK place \in {"seek", "idle"} :
           pc' = LET f == [pc EXCEPT ![t] = place]
                 IN  IF LastReader(reads) THEN Wake(f) ELSE f
    BY <1>6 DEF ReadFails
  <2>2. /\ pc[t] = "enter" /\ UNCHANGED lockVars
        /\ lock = NoThread
    BY <1>6 DEF ReadFails
  <2>3. CASE reads = 0
    <3>1. \A u \in Threads : pc[u] # "waiting"
      BY <2>3, ReadersAreCounted DEF FileLockInv, NoSleepingWriter
    <3>2. pc' = [pc EXCEPT ![t] = place]
      BY <1>0, <2>1, <2>3, <3>1 DEF LastReader, Wake
    <3> QED
      BY <2>2, <3>2, UnwatchedStep DEF Watched, Places
  <2>4. CASE reads # 0
    <3>1. pc' = [pc EXCEPT ![t] = place]
      BY <2>1, <2>4 DEF LastReader
    <3> QED
      BY <2>2, <3>1, UnwatchedStep DEF Watched, Places
  <2> QED
    BY <2>3, <2>4
<1>7. ASSUME NEW t \in Threads, LockFile(t) PROVE FileLockInv'
  <2>1. /\ pc[t] = "lock" /\ lock = NoThread /\ reads' = reads
        /\ \/ reads = 0 /\ lock' = t /\ pc' = [pc EXCEPT ![t] = "append"]
           \/ reads # 0 /\ lock' = lock /\ pc' = [pc EXCEPT ![t] = "waiting"]
    BY <1>7 DEF LockFile, Goto, NoReads
  <2>2. pc' \in [Threads -> Places]
    BY <1>0, <2>1 DEF Places
  <2>3. \A u \in Threads : pc'[u] = "scan" <=> pc[u] = "scan"
    BY <1>0, <2>1
  <2>4. Scanning' = Scanning
    BY <2>3 DEF Scanning
  <2>5. reads \in Nat
    BY ReadersAreCounted DEF FileLockInv
  <2>6. \A u \in Threads : (pc'[u] = "append") <=> (lock' = u)
    BY <1>0, <2>1, ThreadsAssumption DEF FileLockInv
  <2>7. NoSleepingWriter'
    BY <1>0, <2>1, <2>5 DEF FileLockInv, NoSleepingWriter
  <2> QED
    BY <2>1, <2>2, <2>4, <2>6, <2>7 DEF FileLockInv
<1>8. ASSUME NEW t \in Threads, Spurious(t) PROVE FileLockInv'
  <2>1. /\ pc[t] = "waiting" /\ pc' = [pc EXCEPT ![t] = "lock"]
        /\ UNCHANGED <<lock, reads>>
    BY <1>8 DEF Spurious, Goto, lockVars
  <2>2. pc' \in [Threads -> Places]
    BY <1>0, <2>1 DEF Places
  <2>3. \A u \in Threads : /\ pc'[u] = "scan" <=> pc[u] = "scan"
                           /\ pc'[u] = "append" <=> pc[u] = "append"
                           /\ pc'[u] = "waiting" => pc[u] = "waiting"
    BY <1>0, <2>1
  <2>4. Scanning' = Scanning
    BY <2>3 DEF Scanning
  <2> QED
    BY <2>1, <2>2, <2>3, <2>4 DEF FileLockInv, NoSleepingWriter
<1>9. ASSUME NEW t \in Threads, AppendLine(t) \/ AppendFails(t) PROVE FileLockInv'
  <2>1. /\ pc[t] = "append" /\ lock' = NoThread /\ reads' = reads
        /\ \E place \in {"enter", "idle"} : pc' = Wake([pc EXCEPT ![t] = place])
    BY <1>9 DEF AppendLine, AppendFails
  <2> QED
    BY <2>1, WriterLeaves DEF Watched, Places
<1>10. ASSUME NEW t \in Threads, Seek(t) \/ SeekFails(t) \/ Blank(t) \/ BlankFails(t)
       PROVE  FileLockInv'
  <2>1. /\ pc[t] \in {"seek", "blank"} /\ UNCHANGED lockVars
        /\ \E place \in {"blank", "hung", "lock", "idle"} :
              pc' = [pc EXCEPT ![t] = place]
    BY <1>10 DEF Seek, SeekFails, Blank, BlankFails, Goto, Answer
  <2> QED
    BY <2>1, UnwatchedStep DEF Watched, Places
<1>11. CASE Vanish \/ UNCHANGED vars
  <2>1. UNCHANGED <<pc, lock, reads>>
    BY <1>11 DEF Vanish, vars, lockVars
  <2> QED
    BY <2>1 DEF FileLockInv, Scanning, NoSleepingWriter
<1> QED
  BY <1>1, <1>2, <1>3, <1>4, <1>5, <1>6, <1>7, <1>8, <1>9, <1>10, <1>11
  DEF Next, Serve

LEMMA FileLocked == Spec => []FileLockInv
BY FileLockInit, FileLockStep, PTL DEF Spec

-----------------------------------------------------------------------------
(* descriptor.cc:90-94, 258-325: whoever sleeps in pthread_cond_wait, in   *)
(* write_descriptor, has a reader left that will wake it.                  *)
THEOREM SleepersHaveReaders == Spec => []NoSleepingWriter
<1>1. FileLockInv => NoSleepingWriter
  BY DEF FileLockInv
<1> QED
  BY <1>1, FileLocked, PTL

(* Who appends holds the lock and found nobody reading; who blanks a line  *)
(* leaves the others where they are.                                       *)
LEMMA AppendAlone ==
    ASSUME FileLockInv, TypeOK, [Next]_vars, NEW r \in Threads, pc[r] = "scan"
    PROVE  Len(file') = Len(file)
<1>1. ASSUME NEW t \in Threads, AppendLine(t) PROVE FALSE
  <2>1. lock = t
    BY <1>1 DEF AppendLine, FileLockInv
  <2>2. reads = 0
    BY <2>1, ThreadsAssumption DEF FileLockInv
  <2>3. r \in Scanning
    BY DEF Scanning
  <2> QED
    BY <2>2, <2>3, ReadersAreCounted DEF FileLockInv
<1>2. ASSUME NEW t \in Threads, Blank(t) PROVE Len(file') = Len(file)
  <2>1. \/ file' = [file EXCEPT ![idx[t]] = 0]
        \/ \E k \in 1..Len(file) : file' = WipeStart(file, k)
    BY <1>2 DEF Blank
  <2> QED
    BY <2>1 DEF WipeStart, TypeOK
<1>3. ASSUME file' = file PROVE Len(file') = Len(file)
  BY <1>3
<1>4. \/ \E t \in Threads : AppendLine(t) \/ Blank(t)
      \/ file' = file
  BY DEF Next, Serve, Request, Spurious, Vanish, vars,
         GenerateMax, GenerateFails, GenerateSkip, GenerateRecord, GenerateCount,
         EnterRead, NextLine, ReadFound, ReadMissing, ReadFails, LockFile,
         AppendFails, Seek, SeekFails, BlankFails
<1> QED
  BY <1>1, <1>2, <1>3, <1>4

-----------------------------------------------------------------------------
(* Types.  A worker's number is a natural number while the file is there,  *)
(* which is when it may be appended, and in generate_number until -2 or    *)
(* the number is decided; a scan starts at line 1.                         *)
NumberedInv ==
    \A t \in Threads :
        /\ present \/ pc[t] \in {"list", "record"} => num[t] \in Nat
        /\ pc[t] = "scan" => idx[t] \in Nat \ {0}

TypeInv == TypeOK /\ NumberedInv

LEMMA TypeInit == Init => TypeInv
<1> SUFFICES ASSUME Init PROVE TypeInv
  OBVIOUS
<1>1. InFile(InitialFile) \subseteq Nat
  BY FileAssumption DEF InFile
<1>2. pc \in [Threads -> Places] /\ op \in [Threads -> Commands]
  BY DEF Init, Places, Commands
<1>3. NumberedInv
  BY DEF Init, NumberedInv
<1>4. raced \in BOOLEAN /\ present \in BOOLEAN
  BY DEF Init
<1>5. due \in [Threads -> BOOLEAN] /\ raised \in [Threads -> BOOLEAN]
  BY DEF Init
<1> QED
  BY <1>1, <1>2, <1>3, <1>4, <1>5, FileAssumption, RequestsAssumption, ThreadsAssumption
  DEF Init, TypeInv, TypeOK

(* Whatever is woken goes to "lock". *)
LEMMA WakeKeepsPlaces ==
    ASSUME NEW f \in [Threads -> Places]
    PROVE  /\ Wake(f) \in [Threads -> Places]
           /\ \A t \in Threads : Wake(f)[t] \in {f[t], "lock"}
BY DEF Wake, Places

(* release_number blanks a slot, or none. *)
LEMMA ReleaseKeepsSlots ==
    ASSUME NEW n, Release(n), temp_list \in [0..Slots -> Nat]
    PROVE  temp_list' \in [0..Slots -> Nat]
BY DEF Release

LEMMA TypeStep == FileLockInv' /\ TypeInv /\ [Next]_vars => TypeInv'
<1> SUFFICES ASSUME FileLockInv', TypeOK, NumberedInv, [Next]_vars
             PROVE  TypeInv'
  BY DEF TypeInv
<1>0. pc' \in [Threads -> Places] /\ lock' \in Threads \cup {NoThread}
  BY DEF FileLockInv
<1>00. reads' \in Nat
  <2>1. IsFiniteSet(Scanning')
    BY FS_Subset, ThreadsAssumption DEF Scanning
  <2> QED
    BY <2>1, FS_CardinalityType DEF FileLockInv
<1>1. ASSUME NEW t \in Threads, Request(t) PROVE TypeInv'
  <2>1. PICK o \in Commands, n \in Nat :
           /\ op' = [op EXCEPT ![t] = o]
           /\ stage' = [stage EXCEPT ![t] = IF o = "read" THEN "client" ELSE "check"]
           /\ num' = [num EXCEPT ![t] = n]
           /\ due' = [due EXCEPT ![t] = o = "read" /\ ~Replacing(n)]
           /\ pc' = [pc EXCEPT ![t] = IF o = "write" THEN "max" ELSE "enter"]
    <3>1. Ops[t] \subseteq Commands /\ acked \subseteq Nat
      BY OpsAssumption DEF TypeOK
    <3>2. PICK o \in Ops[t] :
             /\ op' = [op EXCEPT ![t] = o]
             /\ stage' = [stage EXCEPT ![t] = IF o = "read" THEN "client" ELSE "check"]
             /\ pc' = [pc EXCEPT ![t] = IF o = "write" THEN "max" ELSE "enter"]
             /\ \E n \in IF o = "write" THEN {0} ELSE acked :
                  /\ num' = [num EXCEPT ![t] = n]
                  /\ due' = [due EXCEPT ![t] = o = "read" /\ ~Replacing(n)]
      BY <1>1, Zenon DEF Request, Goto
    <3>3. PICK n \in IF o = "write" THEN {0} ELSE acked :
             /\ num' = [num EXCEPT ![t] = n]
             /\ due' = [due EXCEPT ![t] = o = "read" /\ ~Replacing(n)]
      BY <3>2, Zenon
    <3>4. n \in Nat
      BY <3>1
    <3> QED
      BY <3>1, <3>2, <3>3, <3>4, Zenon
  <2>2. left' \in [Threads -> 0..Requests]
    BY <1>1, RequestsAssumption DEF Request, TypeOK
  <2>3. due' \in [Threads -> BOOLEAN]
    BY <2>1 DEF TypeOK
  <2>4. NumberedInv'
    BY <1>1, <2>1 DEF Request, NumberedInv, TypeOK
  <2>5. op' \in [Threads -> Commands] /\ stage' \in [Threads -> {"client", "check", "verify"}]
    BY <2>1 DEF TypeOK
  <2>6. num' \in [Threads -> Int]
    BY <2>1 DEF TypeOK
  <2>7. reply' \in [Threads -> {"none", "message", "unknown", "wrote", "error"}]
    BY <1>1 DEF Request, TypeOK
  <2> QED
    BY <1>0, <1>00, <1>1, <2>2, <2>3, <2>4, <2>5, <2>6, <2>7
    DEF Request, TypeInv, TypeOK, genVars, history
<1>2. ASSUME NEW t \in Threads, GenerateMax(t) PROVE TypeInv'
  <2>1. PICK n \in Nat : num' = [num EXCEPT ![t] = n]
    <3>1. InFile(file) \cup {0} \subseteq Nat
      BY DEF InFile, TypeOK
    <3> QED
      BY <1>2, <3>1 DEF GenerateMax
  <2>2. NumberedInv'
    BY <1>2, <2>1 DEF GenerateMax, Goto, NumberedInv, TypeOK
  <2> QED
    BY <1>0, <1>00, <1>2, <2>1, <2>2
    DEF GenerateMax, TypeInv, TypeOK, genVars, history
<1>3. ASSUME NEW t \in Threads, GenerateFails(t) PROVE TypeInv'
  <2>1. NumberedInv'
    BY <1>3 DEF GenerateFails, Goto, NumberedInv, TypeOK
  <2> QED
    BY <1>0, <1>00, <1>3, <2>1 DEF GenerateFails, TypeInv, TypeOK, genVars, history
<1>4. ASSUME NEW t \in Threads, GenerateSkip(t) PROVE TypeInv'
  <2>1. num[t] \in Nat /\ count \in Nat
    BY <1>4 DEF GenerateSkip, NumberedInv, TypeOK
  <2>2. PICK m \in Nat : /\ num' = [num EXCEPT ![t] = m]
                         /\ raised' = [raised EXCEPT ![t] = m # num[t]]
    <3>1. PICK m \in num[t]..(num[t] + count) :
             /\ num' = [num EXCEPT ![t] = m]
             /\ raised' = [raised EXCEPT ![t] = m # num[t]]
      BY <1>4, Zenon DEF GenerateSkip
    <3>2. m \in Nat
      BY <2>1
    <3> QED
      BY <3>1, <3>2, Zenon
  <2>3. raised' \in [Threads -> BOOLEAN]
    BY <2>2 DEF TypeOK
  <2>4. NumberedInv'
    BY <1>4, <2>2 DEF GenerateSkip, Goto, NumberedInv, TypeOK
  <2> QED
    BY <1>0, <1>00, <1>4, <2>2, <2>3, <2>4 DEF GenerateSkip, TypeInv, TypeOK, history
<1>5. ASSUME NEW t \in Threads, GenerateRecord(t) PROVE TypeInv'
  <2>1. temp_list' \in [0..Slots -> Nat]
    BY <1>5 DEF GenerateRecord, NumberedInv, TypeOK
  <2>2. NumberedInv'
    BY <1>5 DEF GenerateRecord, Goto, NumberedInv, TypeOK
  <2> QED
    BY <1>0, <1>00, <1>5, <2>1, <2>2 DEF GenerateRecord, TypeInv, TypeOK, history
<1>6. ASSUME NEW t \in Threads, GenerateCount(t) PROVE TypeInv'
  <2>1. NumberedInv'
    BY <1>6 DEF GenerateCount, Goto, Successor, NumberedInv, TypeOK
  <2>2. num' \in [Threads -> Int] /\ count' \in Nat
    BY <1>6 DEF GenerateCount, Successor, TypeOK
  <2> QED
    BY <1>0, <1>00, <1>6, <2>1, <2>2 DEF GenerateCount, TypeInv, TypeOK, history
<1>7. ASSUME NEW t \in Threads, EnterRead(t) PROVE TypeInv'
  <2>1. NumberedInv'
    BY <1>7 DEF EnterRead, Goto, NumberedInv, TypeOK
  <2> QED
    BY <1>0, <1>00, <1>7, <2>1 DEF EnterRead, TypeInv, TypeOK, genVars, history
<1>8. ASSUME NEW t \in Threads, NextLine(t) PROVE TypeInv'
  <2>1. NumberedInv'
    BY <1>8 DEF NextLine, NumberedInv, TypeOK
  <2> QED
    BY <1>0, <1>00, <1>8, <2>1 DEF NextLine, TypeInv, TypeOK, genVars, history
<1>9. ASSUME NEW t \in Threads, NEW f \in [Threads -> Places],
             f = [pc EXCEPT ![t] = "seek"] \/ f = [pc EXCEPT ![t] = "idle"]
                \/ f = [pc EXCEPT ![t] = "enter"],
             pc' = f \/ pc' = Wake(f), UNCHANGED <<num, idx>>, present' = present
      PROVE  NumberedInv'
  <2>1. \A u \in Threads : pc'[u] \in {pc[u], "seek", "idle", "enter", "lock"}
    BY <1>9, WakeKeepsPlaces DEF TypeOK
  <2> QED
    BY <1>9, <2>1 DEF NumberedInv
<1>10. \A t \in Threads, place \in Places : [pc EXCEPT ![t] = place] \in [Threads -> Places]
  BY DEF TypeOK
<1>11. ASSUME NEW t \in Threads, ReadFound(t) PROVE TypeInv'
  <2>1. acked' \subseteq Nat
    <3>1. file[idx[t]] = num[t] /\ idx[t] \in 1..Len(file)
      BY <1>11 DEF ReadFound, Hit, AtEnd, NumberedInv, TypeOK
    <3> QED
      BY <1>11, <3>1 DEF ReadFound, TypeOK
  <2>2. reply' \in [Threads -> {"none", "message", "unknown", "wrote", "error"}]
    <3>1. reply[t] \in {"none", "message", "unknown", "wrote", "error"}
      BY DEF TypeOK
    <3>2. \E x \in {"none", "message", "unknown", "wrote", "error"} :
             reply' = [reply EXCEPT ![t] = x]
      BY <1>11, <3>1 DEF ReadFound, TypeOK
    <3> QED
      BY <3>2 DEF TypeOK
  <2>3. PICK place \in {"seek", "idle"} : WakeIfLast([pc EXCEPT ![t] = place])
    BY <1>11 DEF ReadFound
  <2>4. NumberedInv'
    BY <1>9, <1>10, <1>11, <2>3 DEF ReadFound, WakeIfLast, Places
  <2> QED
    BY <1>0, <1>00, <1>11, <2>1, <2>2, <2>4 DEF ReadFound, TypeInv, TypeOK, genVars
<1>12. ASSUME NEW t \in Threads, ReadMissing(t) PROVE TypeInv'
  <2>1. temp_list' \in [0..Slots -> Nat]
    BY <1>12, ReleaseKeepsSlots DEF ReadMissing, TypeOK
  <2>2. reply' \in [Threads -> {"none", "message", "unknown", "wrote", "error"}]
    BY <1>12 DEF ReadMissing, TypeOK
  <2>3. NumberedInv'
    BY <1>9, <1>10, <1>12 DEF ReadMissing, WakeIfLast, Places
  <2> QED
    BY <1>0, <1>00, <1>12, <2>1, <2>2, <2>3 DEF ReadMissing, TypeInv, TypeOK, history
<1>13. ASSUME NEW t \in Threads, ReadFails(t) PROVE TypeInv'
  <2>1. temp_list' \in [0..Slots -> Nat]
    BY <1>13, ReleaseKeepsSlots DEF ReadFails, TypeOK
  <2>2. reply' \in [Threads -> {"none", "message", "unknown", "wrote", "error"}]
    BY <1>13 DEF ReadFails, TypeOK
  <2>3. PICK place \in {"seek", "idle"} :
           \/ pc' = [pc EXCEPT ![t] = place]
           \/ pc' = Wake([pc EXCEPT ![t] = place])
    BY <1>13 DEF ReadFails
  <2>4. NumberedInv'
    BY <1>9, <1>10, <1>13, <2>3 DEF ReadFails, Places
  <2> QED
    BY <1>0, <1>00, <1>13, <2>1, <2>2, <2>4
    DEF ReadFails, TypeInv, TypeOK, lockVars, history
<1>14. ASSUME NEW t \in Threads, LockFile(t) PROVE TypeInv'
  <2>1. NumberedInv'
    BY <1>14 DEF LockFile, Goto, NumberedInv, TypeOK
  <2> QED
    BY <1>0, <1>00, <1>14, <2>1 DEF LockFile, TypeInv, TypeOK, genVars, history
<1>15. ASSUME NEW t \in Threads, Spurious(t) PROVE TypeInv'
  <2>1. NumberedInv'
    BY <1>15 DEF Spurious, Goto, NumberedInv, TypeOK
  <2> QED
    BY <1>0, <1>00, <1>15, <2>1 DEF Spurious, TypeInv, TypeOK, genVars, history
<1>16. ASSUME NEW t \in Threads, AppendLine(t) PROVE TypeInv'
  <2>1. file' \in Seq(Nat)
    BY <1>16 DEF AppendLine, NumberedInv, TypeOK
  <2>2. NumberedInv'
    BY <1>9, <1>10, <1>16 DEF AppendLine, Places
  <2> QED
    BY <1>0, <1>00, <1>16, <2>1, <2>2 DEF AppendLine, TypeInv, TypeOK, genVars, history
<1>17. ASSUME NEW t \in Threads, AppendFails(t) PROVE TypeInv'
  <2>1. temp_list' \in [0..Slots -> Nat]
    BY <1>17, ReleaseKeepsSlots DEF AppendFails, TypeOK
  <2>2. NumberedInv'
    BY <1>9, <1>10, <1>17 DEF AppendFails, Places
  <2> QED
    BY <1>0, <1>00, <1>17, <2>1, <2>2 DEF AppendFails, TypeInv, TypeOK, history
<1>18. ASSUME NEW t \in Threads, Seek(t) PROVE TypeInv'
  <2>1. PICK k \in Nat : idx' = [idx EXCEPT ![t] = k]
    <3>1. PICK k \in 0..Len(file) : idx' = [idx EXCEPT ![t] = k]
      BY <1>18, Zenon DEF Seek
    <3>2. k \in Nat
      BY DEF TypeOK
    <3> QED
      BY <3>1, <3>2
  <2>2. NumberedInv'
    BY <1>18, <2>1 DEF Seek, Goto, NumberedInv, TypeOK
  <2> QED
    BY <1>0, <1>00, <1>18, <2>1, <2>2 DEF Seek, TypeInv, TypeOK, genVars, history
<1>19. ASSUME NEW t \in Threads, SeekFails(t) \/ BlankFails(t) PROVE TypeInv'
  <2>1. NumberedInv'
    BY <1>19 DEF SeekFails, BlankFails, Goto, Answer, NumberedInv, TypeOK
  <2> QED
    BY <1>0, <1>00, <1>19, <2>1
    DEF SeekFails, BlankFails, Answer, TypeInv, TypeOK, genVars, history
<1>20. ASSUME NEW t \in Threads, Blank(t) PROVE TypeInv'
  <2>1. file' \in Seq(Nat)
    <3>1. CASE \E k \in 1..Len(file) : file' = WipeStart(file, k)
      BY <3>1 DEF WipeStart, TypeOK
    <3>2. CASE file' = [file EXCEPT ![idx[t]] = 0]
      <4>1. CASE idx[t] \in 1..Len(file)
        BY <3>2, <4>1, ExceptSeq DEF TypeOK
      <4>2. CASE idx[t] \notin 1..Len(file)
        <5>1. file = [j \in 1..Len(file) |-> file[j]]
          BY DEF TypeOK
        <5>2. file' = [j \in 1..Len(file) |-> IF j = idx[t] THEN 0 ELSE file[j]]
          BY <3>2, <5>1
        <5>3. \A j \in 1..Len(file) : (IF j = idx[t] THEN 0 ELSE file[j]) \in Nat
          BY DEF TypeOK
        <5> QED
          BY <5>2, <5>3, IsASeq DEF TypeOK
      <4> QED
        BY <4>1, <4>2
    <3> QED
      BY <1>20, <3>1, <3>2 DEF Blank
  <2>2. NumberedInv'
    BY <1>20 DEF Blank, Goto, NumberedInv, TypeOK
  <2> QED
    BY <1>0, <1>00, <1>20, <2>1, <2>2 DEF Blank, TypeInv, TypeOK, genVars, history
<1>21. CASE Vanish
  <2>1. NumberedInv'
    BY <1>21 DEF Vanish, NumberedInv
  <2> QED
    BY <1>0, <1>00, <1>21, <2>1 DEF Vanish, TypeInv, TypeOK, genVars, history
<1>22. CASE UNCHANGED vars
  BY <1>22 DEF vars, lockVars, genVars, history, TypeInv, TypeOK, NumberedInv
<1> QED
  BY <1>1, <1>2, <1>3, <1>4, <1>5, <1>6, <1>7, <1>8, <1>11, <1>12, <1>13, <1>14,
     <1>15, <1>16, <1>17, <1>18, <1>19, <1>20, <1>21, <1>22
  DEF Next, Serve

(* Type correctness: in particular, however reads, their failures and the  *)
(* writers interleave, file_queue_a.reads (unsigned in the code) never     *)
(* goes below zero.                                                        *)
THEOREM TypeCorrect == Spec => []TypeOK
<1>1. TypeInv => TypeOK
  BY DEF TypeInv
<1>2. Init => FileLockInv /\ TypeInv
  BY FileLockInit, TypeInit
<1>3. (FileLockInv /\ TypeInv) /\ [Next]_vars => (FileLockInv /\ TypeInv)'
  BY FileLockStep, TypeStep
<1> QED
  BY <1>1, <1>2, <1>3, PTL DEF Spec

(* README.md:190-192, descriptor.cc:84-137: nothing is appended while      *)
(* anybody is between the reads++ and the reads-- of read_descriptor.      *)
THEOREM ReadersUndisturbed == Spec => AppendExcludesReaders
<1>1. FileLockInv /\ TypeOK /\ [Next]_vars
        => ((\E t \in Threads : pc[t] = "scan") => Len(file') = Len(file))
  BY AppendAlone
<1>2. Spec => [](FileLockInv /\ TypeOK)
  BY FileLocked, TypeCorrect, PTL
<1> QED
  BY <1>1, <1>2, PTL DEF Spec, AppendExcludesReaders
-----------------------------------------------------------------------------
(* What WRITE and REPLACE do to the messages of the file.                  *)
(*                                                                         *)
(* sync_replace holds no lock from finding a line to blanking it, nor from *)
(* there to appending the new one: two REPLACEs of one message can append  *)
(* it twice, or blank the start of the file instead of its line, and then  *)
(* none of the following holds.  Undisturbed says that this does not       *)
(* happen.  It is the hypothesis of the theorems below; OneReplacer, of    *)
(* the constants alone, implies it.                                        *)
Changing(t) ==
    op[t] = "replace" /\ pc[t] \in {"seek", "blank", "lock", "waiting", "append"}

Undisturbed ==
    \A t, u \in Threads : t # u /\ Changing(t) /\ Changing(u) => num[t] # num[u]

OneReplacer ==
    \A t, u \in Threads : "replace" \in Ops[t] /\ "replace" \in Ops[u] => t = u

(* Which command is where, and for which reason it reads. *)
PlaceInv ==
    \A t \in Threads :
        /\ pc[t] # "idle" => op[t] \in Ops[t]
        /\ pc[t] \in {"max", "list", "record", "count"} => op[t] = "write"
        /\ pc[t] \in {"lock", "waiting", "append"} => op[t] # "read"
        /\ pc[t] \in {"seek", "blank"} => op[t] = "replace"
        /\ pc[t] \in {"enter", "scan"} =>
              /\ op[t] = "read" <=> stage[t] = "client"
              /\ op[t] = "write" => stage[t] = "verify"

(* Clients are told of positive numbers and ask for those; what            *)
(* generate_number makes is positive once it is through, if it could read. *)
PositiveInv ==
    /\ acked \subseteq Nat \ {0}
    /\ \A t \in Threads :
          /\ pc[t] # "idle" /\ op[t] # "write" => num[t] \in acked
          /\ op[t] = "write" =>
                /\ pc[t] \in {"record", "count"} /\ raised[t] => num[t] > 0
                /\ pc[t] \in {"lock", "waiting", "append"} /\ present => num[t] > 0
                /\ pc[t] \in {"enter", "scan"} => num[t] > 0

(* A REPLACE that is about to blank has found its line, and it is there. *)
FoundInv ==
    present => \A t \in Threads : pc[t] = "blank" =>
                   idx[t] \in 1..Len(file) /\ file[idx[t]] = num[t]

KeptInv == PlaceInv /\ PositiveInv /\ FoundInv /\ WrittenStays

(* A worker goes on to place; all that another one may notice is that it   *)
(* is woken.                                                               *)
Moves(t, place) ==
    /\ pc'[t] = place
    /\ \A u \in Threads \ {t} :
          pc'[u] = pc[u] \/ (pc[u] = "waiting" /\ pc'[u] = "lock")

LEMMA GotoMoves ==
    ASSUME pc \in [Threads -> Places], NEW t \in Threads, NEW place \in Places,
           Goto(t, place)
    PROVE  Moves(t, place)
BY DEF Goto, Moves

LEMMA WakeMoves ==
    ASSUME pc \in [Threads -> Places], NEW t \in Threads,
           NEW place \in Places \ {"waiting"},
           \/ pc' = [pc EXCEPT ![t] = place]
           \/ pc' = Wake([pc EXCEPT ![t] = place])
    PROVE  Moves(t, place)
BY DEF Wake, Moves

(* From where to where each action takes its worker. *)
LEMMA StepMoves ==
    ASSUME TypeOK, NEW t \in Threads
    PROVE  /\ Request(t) => /\ pc[t] = "idle"
                            /\ Moves(t, IF op'[t] = "write" THEN "max" ELSE "enter")
           /\ GenerateMax(t) => pc[t] = "max" /\ Moves(t, "list")
           /\ GenerateFails(t) => pc[t] = "max" /\ Moves(t, "lock")
           /\ GenerateSkip(t) => pc[t] = "list" /\ Moves(t, "record")
           /\ GenerateRecord(t) => pc[t] = "record" /\ Moves(t, "count")
           /\ GenerateCount(t) => pc[t] = "count" /\ Moves(t, "lock")
           /\ EnterRead(t) => pc[t] = "enter" /\ Moves(t, "scan")
           /\ ReadFound(t) => /\ pc[t] = "scan"
                              /\ Moves(t, IF stage[t] = "check" THEN "seek" ELSE "idle")
           /\ ReadMissing(t) => pc[t] = "scan" /\ Moves(t, "idle")
           /\ ReadFails(t) => /\ pc[t] = "enter"
                              /\ Moves(t, IF stage[t] = "check" THEN "seek" ELSE "idle")
           /\ LockFile(t) => /\ pc[t] = "lock"
                             /\ Moves(t, "append") \/ Moves(t, "waiting")
           /\ Spurious(t) => pc[t] = "waiting" /\ Moves(t, "lock")
           /\ AppendLine(t) => pc[t] = "append" /\ Moves(t, "enter")
           /\ AppendFails(t) => pc[t] = "append" /\ Moves(t, "idle")
           /\ Seek(t) => pc[t] = "seek" /\ Moves(t, "blank")
           /\ SeekFails(t) => /\ pc[t] = "seek"
                              /\ Moves(t, "hung") \/ Moves(t, "blank")
           /\ Blank(t) => pc[t] = "blank" /\ Moves(t, "lock")
           /\ BlankFails(t) => pc[t] = "blank" /\ Moves(t, "idle")
<1>0. pc \in [Threads -> Places] /\ op \in [Threads -> Commands]
  BY DEF TypeOK
<1>1. Request(t) => /\ pc[t] = "idle"
                    /\ Moves(t, IF op'[t] = "write" THEN "max" ELSE "enter")
  <2>1. SUFFICES ASSUME Request(t)
                 PROVE  Moves(t, IF op'[t] = "write" THEN "max" ELSE "enter")
    BY DEF Request
  <2>2. Goto(t, IF op'[t] = "write" THEN "max" ELSE "enter")
    BY <1>0, <2>1 DEF Request
  <2> QED
    BY <1>0, <2>2, GotoMoves DEF Places
<1>2. /\ GenerateMax(t) => pc[t] = "max" /\ Moves(t, "list")
      /\ GenerateFails(t) => pc[t] = "max" /\ Moves(t, "lock")
      /\ GenerateSkip(t) => pc[t] = "list" /\ Moves(t, "record")
      /\ GenerateRecord(t) => pc[t] = "record" /\ Moves(t, "count")
      /\ GenerateCount(t) => pc[t] = "count" /\ Moves(t, "lock")
      /\ EnterRead(t) => pc[t] = "enter" /\ Moves(t, "scan")
  BY <1>0, GotoMoves DEF GenerateMax, GenerateFails, GenerateSkip, GenerateRecord,
                         GenerateCount, EnterRead, Places
<1>3. ReadFound(t) => /\ pc[t] = "scan"
                      /\ Moves(t, IF stage[t] = "check" THEN "seek" ELSE "idle")
  BY <1>0, WakeMoves DEF ReadFound, WakeIfLast, Places
<1>4. ReadMissing(t) => pc[t] = "scan" /\ Moves(t, "idle")
  BY <1>0, WakeMoves DEF ReadMissing, WakeIfLast, Places
<1>5. ReadFails(t) => /\ pc[t] = "enter"
                      /\ Moves(t, IF stage[t] = "check" THEN "seek" ELSE "idle")
  BY <1>0, WakeMoves DEF ReadFails, Places
<1>6. LockFile(t) => pc[t] = "lock" /\ (Moves(t, "append") \/ Moves(t, "waiting"))
  BY <1>0, GotoMoves DEF LockFile, Places
<1>7. Spurious(t) => pc[t] = "waiting" /\ Moves(t, "lock")
  BY <1>0, GotoMoves DEF Spurious, Places
<1>8. /\ AppendLine(t) => pc[t] = "append" /\ Moves(t, "enter")
      /\ AppendFails(t) => pc[t] = "append" /\ Moves(t, "idle")
  BY <1>0, WakeMoves DEF AppendLine, AppendFails, Places
<1>9. SeekFails(t) => pc[t] = "seek" /\ (Moves(t, "hung") \/ Moves(t, "blank"))
  BY <1>0, GotoMoves DEF SeekFails, Places
<1>10. /\ Seek(t) => pc[t] = "seek" /\ Moves(t, "blank")
       /\ Blank(t) => pc[t] = "blank" /\ Moves(t, "lock")
       /\ BlankFails(t) => pc[t] = "blank" /\ Moves(t, "idle")
  BY <1>0, GotoMoves DEF Seek, Blank, BlankFails, Answer, Places
<1> QED
  BY <1>1, <1>2, <1>3, <1>4, <1>5, <1>6, <1>7, <1>8, <1>9, <1>10

LEMMA PlaceStep == TypeOK /\ PlaceInv /\ [Next]_vars => PlaceInv'
<1> SUFFICES ASSUME TypeOK, PlaceInv, [Next]_vars PROVE PlaceInv'
  OBVIOUS
<1>1. ASSUME NEW t \in Threads, Request(t) PROVE PlaceInv'
  <2>1. PICK o \in Ops[t] :
           /\ op' = [op EXCEPT ![t] = o]
           /\ stage' = [stage EXCEPT ![t] = IF o = "read" THEN "client" ELSE "check"]
    BY <1>1, Zenon DEF Request
  <2>2. op'[t] = o /\ stage'[t] = IF o = "read" THEN "client" ELSE "check"
    BY <2>1 DEF TypeOK
  <2>3. \A u \in Threads \ {t} : op'[u] = op[u] /\ stage'[u] = stage[u]
    BY <2>1 DEF TypeOK
  <2>4. Moves(t, IF op'[t] = "write" THEN "max" ELSE "enter")
    BY <1>1, StepMoves
  <2> QED
    BY <2>2, <2>3, <2>4 DEF PlaceInv, Moves
<1>2. ASSUME NEW t \in Threads,
             GenerateMax(t) \/ GenerateFails(t) \/ GenerateSkip(t) \/ GenerateRecord(t)
                \/ GenerateCount(t)
      PROVE  PlaceInv'
  <2>1. UNCHANGED <<op, stage>>
    BY <1>2 DEF GenerateMax, GenerateFails, GenerateSkip, GenerateRecord, GenerateCount
  <2>2. /\ pc[t] \in {"max", "list", "record", "count"}
        /\ \E place \in {"list", "record", "count", "lock"} : Moves(t, place)
    BY <1>2, StepMoves
  <2> QED
    BY <2>1, <2>2 DEF PlaceInv, Moves
<1>3. ASSUME NEW t \in Threads,
             EnterRead(t) \/ ReadFound(t) \/ ReadMissing(t) \/ ReadFails(t)
      PROVE  PlaceInv'
  <2>1. UNCHANGED <<op, stage>>
    BY <1>3 DEF EnterRead, ReadFound, ReadMissing, ReadFails
  <2>2. CASE EnterRead(t)
    BY <2>1, <2>2, StepMoves DEF PlaceInv, Moves
  <2>3. ASSUME ~EnterRead(t)
        PROVE  /\ pc[t] \in {"enter", "scan"}
               /\ \/ Moves(t, "idle")
                  \/ stage[t] = "check" /\ Moves(t, "seek")
    BY <1>3, <2>3, StepMoves
  <2>4. op[t] \in Commands
    BY DEF TypeOK
  <2> QED
    BY <2>1, <2>2, <2>3, <2>4 DEF PlaceInv, Moves, Commands
<1>4. ASSUME NEW t \in Threads, LockFile(t) \/ Spurious(t) \/ AppendFails(t)
      PROVE  PlaceInv'
  <2>1. UNCHANGED <<op, stage>>
    BY <1>4 DEF LockFile, Spurious, AppendFails
  <2>2. /\ pc[t] \in {"lock", "waiting", "append"}
        /\ \E place \in {"lock", "waiting", "append", "idle"} : Moves(t, place)
    BY <1>4, StepMoves
  <2> QED
    BY <2>1, <2>2 DEF PlaceInv, Moves
<1>5. ASSUME NEW t \in Threads, AppendLine(t) PROVE PlaceInv'
  <2>1. /\ op' = op /\ stage'[t] = "verify"
        /\ \A u \in Threads \ {t} : stage'[u] = stage[u]
    BY <1>5 DEF AppendLine, TypeOK
  <2> QED
    BY <1>5, <2>1, StepMoves DEF PlaceInv, Moves
<1>6. ASSUME NEW t \in Threads, Seek(t) \/ SeekFails(t) \/ Blank(t) \/ BlankFails(t)
      PROVE  PlaceInv'
  <2>1. UNCHANGED <<op, stage>>
    BY <1>6 DEF Seek, SeekFails, Blank, BlankFails
  <2>2. /\ pc[t] \in {"seek", "blank"}
        /\ \E place \in {"blank", "hung", "lock", "idle"} : Moves(t, place)
    BY <1>6, StepMoves
  <2> QED
    BY <2>1, <2>2 DEF PlaceInv, Moves
<1>7. ASSUME Vanish \/ (\E t \in Threads : NextLine(t)) \/ UNCHANGED vars
      PROVE  PlaceInv'
  BY <1>7 DEF Vanish, NextLine, vars, PlaceInv
<1> QED
  BY <1>1, <1>2, <1>3, <1>4, <1>5, <1>6, <1>7 DEF Next, Serve

LEMMA PositiveStep ==
    TypeInv /\ PlaceInv /\ PositiveInv /\ [Next]_vars => PositiveInv'
<1> SUFFICES ASSUME TypeInv, PlaceInv, PositiveInv, [Next]_vars PROVE PositiveInv'
  OBVIOUS
<1>0. TypeOK /\ NumberedInv
  BY DEF TypeInv
<1>1. ASSUME NEW t \in Threads, Request(t) PROVE PositiveInv'
  <2>1. PICK o \in Ops[t] :
           /\ op' = [op EXCEPT ![t] = o]
           /\ \E n \in IF o = "write" THEN {0} ELSE acked : num' = [num EXCEPT ![t] = n]
    BY <1>1, Zenon DEF Request
  <2>2. op'[t] = o /\ (o # "write" => num'[t] \in acked)
    BY <1>0, <2>1 DEF TypeOK
  <2>3. \A u \in Threads \ {t} : op'[u] = op[u] /\ num'[u] = num[u]
    BY <1>0, <2>1 DEF TypeOK
  <2>4. Moves(t, IF op'[t] = "write" THEN "max" ELSE "enter")
    BY <1>0, <1>1, StepMoves
  <2>5. UNCHANGED <<present, raised, acked>>
    BY <1>1 DEF Request, genVars
  <2> QED
    BY <2>2, <2>3, <2>4, <2>5 DEF PositiveInv, Moves
<1>2. ASSUME NEW t \in Threads, GenerateMax(t) \/ GenerateFails(t)
      PROVE  PositiveInv'
  <2>1. UNCHANGED <<present, raised, acked, op>> /\ (GenerateFails(t) => ~present)
    BY <1>2 DEF GenerateMax, GenerateFails, genVars, history
  <2>2. \A u \in Threads \ {t} : num'[u] = num[u]
    BY <1>0, <1>2 DEF GenerateMax, GenerateFails, TypeOK
  <2>3. /\ pc[t] = "max"
        /\ Moves(t, "list") \/ (Moves(t, "lock") /\ ~present)
    BY <1>0, <1>2, <2>1, StepMoves
  <2>4. op[t] = "write"
    BY <2>3 DEF PlaceInv
  <2> QED
    BY <2>1, <2>2, <2>3, <2>4 DEF PositiveInv, Moves
<1>3. ASSUME NEW t \in Threads, GenerateSkip(t) PROVE PositiveInv'
  <2>1. PICK m \in num[t]..(num[t] + count) :
           /\ num' = [num EXCEPT ![t] = m]
           /\ raised' = [raised EXCEPT ![t] = m # num[t]]
    BY <1>3, Zenon DEF GenerateSkip
  <2>2. pc[t] = "list" /\ Moves(t, "record")
    BY <1>0, <1>3, StepMoves
  <2>3. num[t] \in Nat /\ count \in Nat /\ op[t] = "write"
    BY <1>0, <2>2 DEF NumberedInv, TypeOK, PlaceInv
  <2>4. raised'[t] => num'[t] > 0
    <3>1. num'[t] = m
      BY <1>0, <2>1 DEF TypeOK
    <3>2. raised'[t] = (m # num[t])
      BY <1>0, <2>1, Zenon DEF TypeOK
    <3>3. m # num[t] => m > 0
      BY <2>3
    <3> QED
      BY <3>1, <3>2, <3>3, Zenon
  <2>5. \A u \in Threads \ {t} : num'[u] = num[u] /\ raised'[u] = raised[u]
    BY <1>0, <2>1 DEF TypeOK
  <2>6. UNCHANGED <<present, acked, op>>
    BY <1>3 DEF GenerateSkip, history
  <2> QED
    BY <2>2, <2>3, <2>4, <2>5, <2>6 DEF PositiveInv, Moves
<1>4. ASSUME NEW t \in Threads, GenerateRecord(t) PROVE PositiveInv'
  <2>1. UNCHANGED <<present, acked, op, num, raised>>
    BY <1>4 DEF GenerateRecord, history
  <2>2. pc[t] = "record" /\ Moves(t, "count")
    BY <1>0, <1>4, StepMoves
  <2> QED
    BY <2>1, <2>2 DEF PositiveInv, Moves
<1>5. ASSUME NEW t \in Threads, GenerateCount(t) PROVE PositiveInv'
  <2>1. UNCHANGED <<present, acked, op, raised>>
    BY <1>5 DEF GenerateCount, history
  <2>2. pc[t] = "count" /\ Moves(t, "lock")
    BY <1>0, <1>5, StepMoves
  <2>3. \A u \in Threads \ {t} : num'[u] = num[u]
    BY <1>0, <1>5 DEF GenerateCount, TypeOK
  <2>4. op[t] = "write" /\ (present => num[t] \in Nat)
    BY <1>0, <2>2 DEF PlaceInv, NumberedInv
  <2>5. present => num'[t] > 0
    BY <1>0, <1>5, <2>2, <2>4 DEF GenerateCount, Successor, PositiveInv, TypeOK
  <2> QED
    BY <2>1, <2>2, <2>3, <2>4, <2>5 DEF PositiveInv, Moves
<1>6. ASSUME NEW t \in Threads, ReadFound(t) PROVE PositiveInv'
  <2>1. UNCHANGED <<present, op, num, raised>>
    BY <1>6 DEF ReadFound, genVars
  <2>2. /\ pc[t] = "scan" /\ Moves(t, IF stage[t] = "check" THEN "seek" ELSE "idle")
    BY <1>0, <1>6, StepMoves
  <2>3. num[t] \in Nat \ {0}
    <3>1. idx[t] \in 1..Len(file) /\ file[idx[t]] = num[t]
      BY <1>0, <1>6 DEF ReadFound, Hit, AtEnd, NumberedInv, TypeOK
    <3>2. num[t] \in Nat
      BY <1>0, <3>1 DEF TypeOK
    <3> QED
      BY <2>2, <3>2 DEF PositiveInv
  <2>4. acked \subseteq acked' /\ acked' \subseteq Nat \ {0}
    BY <1>6, <2>3 DEF ReadFound, PositiveInv
  <2>5. op[t] = "write" => stage[t] = "verify"
    BY <2>2 DEF PlaceInv
  <2> QED
    BY <2>1, <2>2, <2>4, <2>5 DEF PositiveInv, Moves
<1>7. ASSUME NEW t \in Threads,
             EnterRead(t) \/ ReadMissing(t) \/ ReadFails(t) \/ LockFile(t)
                \/ Spurious(t) \/ AppendFails(t)
      PROVE  PositiveInv'
  <2>1. UNCHANGED <<present, acked, op, num, raised>>
    BY <1>7 DEF EnterRead, ReadMissing, ReadFails, LockFile, Spurious, AppendFails,
                genVars, history
  <2>2. \/ pc[t] = "enter" /\ Moves(t, "scan")
        \/ pc[t] # "idle" /\ Moves(t, "idle")
        \/ pc[t] = "enter" /\ stage[t] = "check" /\ Moves(t, "seek")
        \/ pc[t] \in {"lock", "waiting"} /\ \E place \in {"lock", "waiting", "append"} : Moves(t, place)
    BY <1>0, <1>7, StepMoves
  <2> QED
    BY <2>1, <2>2 DEF PositiveInv, PlaceInv, Moves
<1>8. ASSUME NEW t \in Threads, AppendLine(t) PROVE PositiveInv'
  <2>1. UNCHANGED <<present, acked, op, num, raised>> /\ present
    BY <1>8 DEF AppendLine, genVars, history
  <2> QED
    BY <1>0, <1>8, <2>1, StepMoves DEF PositiveInv, PlaceInv, Moves
<1>9. ASSUME NEW t \in Threads, Seek(t) \/ SeekFails(t) \/ Blank(t) \/ BlankFails(t)
      PROVE  PositiveInv'
  <2>1. UNCHANGED <<present, acked, op, num, raised>>
    BY <1>9 DEF Seek, SeekFails, Blank, BlankFails, genVars, history
  <2>2. /\ pc[t] \in {"seek", "blank"}
        /\ \E place \in {"blank", "hung", "lock", "idle"} : Moves(t, place)
    BY <1>0, <1>9, StepMoves
  <2> QED
    BY <2>1, <2>2 DEF PositiveInv, PlaceInv, Moves
<1>10. ASSUME Vanish \/ (\E t \in Threads : NextLine(t)) \/ UNCHANGED vars
       PROVE  PositiveInv'
  <2>1. UNCHANGED <<acked, op, num, raised, pc>> /\ (present' => present)
    BY <1>10 DEF Vanish, NextLine, vars, genVars, history
  <2> QED
    BY <2>1 DEF PositiveInv
<1> QED
  BY <1>1, <1>2, <1>3, <1>4, <1>5, <1>6, <1>7, <1>8, <1>9, <1>10 DEF Next, Serve

(* Appending keeps what is there, blanking takes the numbers of one line. *)
LEMMA AppendKeeps ==
    ASSUME NEW s \in Seq(Nat), NEW n \in Nat
    PROVE  /\ Append(s, n) \in Seq(Nat) /\ Len(Append(s, n)) = Len(s) + 1
           /\ \A k \in 1..Len(s) : Append(s, n)[k] = s[k]
           /\ Append(s, n)[Len(s) + 1] = n
           /\ InFile(Append(s, n)) = InFile(s) \cup ({n} \ {0})
<1>1. /\ Append(s, n) \in Seq(Nat) /\ Len(Append(s, n)) = Len(s) + 1
      /\ \A k \in 1..Len(s) : Append(s, n)[k] = s[k]
      /\ Append(s, n)[Len(s) + 1] = n
  OBVIOUS
<1>2. 1..(Len(s) + 1) = 1..Len(s) \cup {Len(s) + 1}
  OBVIOUS
<1>3. ASSUME NEW m PROVE m \in InFile(Append(s, n)) <=> m \in InFile(s) \cup ({n} \ {0})
  <2>1. m \in InFile(Append(s, n))
          <=> m # 0 /\ \E k \in 1..(Len(s) + 1) : Append(s, n)[k] = m
    BY <1>1, Zenon DEF InFile
  <2>2. m \in InFile(s) <=> m # 0 /\ \E k \in 1..Len(s) : s[k] = m
    BY Zenon DEF InFile
  <2> QED
    BY <1>1, <1>2, <2>1, <2>2, Zenon
<1> QED
  BY <1>1, <1>3, Zenon

LEMMA BlankedLine ==
    ASSUME NEW s \in Seq(Nat), NEW j \in 1..Len(s)
    PROVE  LET f == [s EXCEPT ![j] = 0]
           IN  /\ f \in Seq(Nat) /\ Len(f) = Len(s)
               /\ \A k \in 1..Len(s) : f[k] = IF k = j THEN 0 ELSE s[k]
               /\ InFile(f) \subseteq InFile(s)
               /\ \A n \in InFile(s) : n # s[j] => n \in InFile(f)
<1> DEFINE f == [s EXCEPT ![j] = 0]
<1>1. f \in Seq(Nat) /\ Len(f) = Len(s)
  BY ExceptSeq
<1>2. \A k \in 1..Len(s) : f[k] = IF k = j THEN 0 ELSE s[k]
  BY ExceptSeq
<1> HIDE DEF f
<1>3. InFile(f) \subseteq InFile(s)
  BY <1>1, <1>2, Zenon DEF InFile
<1>4. \A n \in InFile(s) : n # s[j] => n \in InFile(f)
  BY <1>1, <1>2, Zenon DEF InFile
<1> QED
  BY <1>1, <1>2, <1>3, <1>4 DEF f

(* A number a REPLACE works on is in the file until it blanks it.          *)
LEMMA AddressedInFile ==
    ASSUME TypeOK, PositiveInv, WrittenStays, Undisturbed, present,
           NEW t \in Threads, pc[t] \in {"seek", "blank"}, op[t] = "replace"
    PROVE  num[t] \in InFile(file)
<1>1. num[t] \in acked
  BY DEF PositiveInv
<1>2. ASSUME Replacing(num[t]) PROVE FALSE
  <2>1. PICK u \in Threads : /\ op[u] = "replace" /\ num[u] = num[t]
                             /\ pc[u] \in {"lock", "waiting", "append"}
    BY <1>2, Zenon DEF Replacing
  <2> QED
    BY <2>1 DEF Undisturbed, Changing
<1> QED
  BY <1>1, <1>2 DEF WrittenStays

(* While there is a file a step either appends a number, or blanks the     *)
(* line of the message it replaces, or leaves the file alone.              *)
FileStep(t) ==
    \/ /\ AppendLine(t) /\ num[t] \in Nat \ {0}
       /\ file' = Append(file, num[t])
    \/ /\ Blank(t) /\ op[t] = "replace"
       /\ idx[t] \in 1..Len(file) /\ file[idx[t]] = num[t]
       /\ file' = [file EXCEPT ![idx[t]] = 0]

QuietStep(t) ==
    \/ Request(t) \/ Seek(t) \/ LockFile(t) \/ Spurious(t)
    \/ GenerateMax(t) \/ GenerateSkip(t) \/ GenerateRecord(t) \/ GenerateCount(t)
    \/ EnterRead(t) \/ NextLine(t) \/ ReadFound(t) \/ ReadMissing(t)

LEMMA FileSteps ==
    ASSUME TypeInv, PlaceInv, PositiveInv, FoundInv, [Next]_vars, present'
    PROVE  /\ present
           /\ \/ \E t \in Threads : FileStep(t)
              \/ file' = file /\ \E t \in Threads : QuietStep(t)
              \/ UNCHANGED vars
<1>1. present
  BY DEF Next, Serve, Request, Spurious, Vanish, vars,
         GenerateMax, GenerateFails, GenerateSkip, GenerateRecord, GenerateCount,
         EnterRead, NextLine, ReadFound, ReadMissing, ReadFails, LockFile,
         AppendLine, AppendFails, Seek, SeekFails, Blank, BlankFails
<1>2. ASSUME NEW t \in Threads, AppendLine(t) PROVE FileStep(t)
  <2>1. pc[t] = "append" /\ num[t] \in Nat
    BY <1>1, <1>2 DEF AppendLine, TypeInv, NumberedInv
  <2>2. op[t] # "write" => num[t] # 0
    BY <2>1 DEF PositiveInv
  <2>3. op[t] = "write" => num[t] # 0
    BY <1>1, <2>1 DEF PositiveInv
  <2> QED
    BY <1>2, <2>1, <2>2, <2>3 DEF AppendLine, FileStep
<1>3. ASSUME NEW t \in Threads, Blank(t) PROVE FileStep(t)
  <2>1. pc[t] = "blank" /\ op[t] = "replace"
    BY <1>3 DEF Blank, PlaceInv
  <2>2. idx[t] \in 1..Len(file) /\ file[idx[t]] = num[t]
    BY <1>1, <2>1 DEF FoundInv
  <2>3. idx[t] # 0
    BY <2>2 DEF TypeInv, TypeOK
  <2> QED
    BY <1>3, <2>1, <2>2, <2>3 DEF Blank, FileStep
<1>4. ASSUME NEW t \in Threads, QuietStep(t) PROVE file' = file
  BY <1>4 DEF QuietStep, Request, Seek, LockFile, Spurious, GenerateMax, GenerateSkip,
              GenerateRecord, GenerateCount, EnterRead, NextLine, ReadFound, ReadMissing
<1>5. /\ ~Vanish
      /\ \A t \in Threads : /\ ~GenerateFails(t) /\ ~ReadFails(t) /\ ~AppendFails(t)
                            /\ ~SeekFails(t) /\ ~BlankFails(t)
  BY <1>1 DEF Vanish, GenerateFails, ReadFails, AppendFails, SeekFails, BlankFails
<1> QED
  BY <1>1, <1>2, <1>3, <1>4, <1>5 DEF Next, Serve, QuietStep

(* A REPLACE keeps the line it found: the others append behind it, or      *)
(* blank the lines of other messages.                                      *)
LEMMA FoundStep ==
    /\ TypeInv /\ PlaceInv /\ PositiveInv /\ FoundInv /\ WrittenStays
    /\ Undisturbed /\ [Next]_vars
    => FoundInv'
<1> SUFFICES ASSUME TypeInv, PlaceInv, PositiveInv, FoundInv, WrittenStays, Undisturbed,
                    [Next]_vars, present', NEW u \in Threads, pc'[u] = "blank"
             PROVE  idx'[u] \in 1..Len(file') /\ file'[idx'[u]] = num'[u]
  BY DEF FoundInv
<1>0. TypeOK /\ present
  BY FileSteps DEF TypeInv
<1>1. pc[u] = "blank" => idx[u] \in 1..Len(file) /\ file[idx[u]] = num[u]
  BY <1>0 DEF FoundInv
<1>2. ASSUME NEW t \in Threads, FileStep(t), AppendLine(t)
      PROVE  idx'[u] \in 1..Len(file') /\ file'[idx'[u]] = num'[u]
  <2>1. UNCHANGED <<idx, num>> /\ Moves(t, "enter") /\ pc[t] = "append"
    BY <1>0, <1>2, StepMoves DEF AppendLine
  <2>2. file' = Append(file, num[t]) /\ num[t] \in Nat
    BY <1>2, <2>1 DEF FileStep, Blank
  <2>3. \A k \in 1..Len(file) : k \in 1..Len(file') /\ file'[k] = file[k]
    BY <1>0, <2>2, AppendKeeps DEF TypeOK
  <2> QED
    BY <1>1, <2>1, <2>3 DEF Moves
<1>3. ASSUME NEW t \in Threads, FileStep(t), Blank(t)
      PROVE  idx'[u] \in 1..Len(file') /\ file'[idx'[u]] = num'[u]
  <2>1. UNCHANGED <<idx, num>> /\ Moves(t, "lock") /\ pc[t] = "blank"
    BY <1>0, <1>3, StepMoves DEF Blank
  <2>2. /\ file' = [file EXCEPT ![idx[t]] = 0] /\ op[t] = "replace"
        /\ idx[t] \in 1..Len(file) /\ file[idx[t]] = num[t]
    BY <1>3, <2>1 DEF FileStep, AppendLine
  <2>3. pc[u] = "blank" /\ u # t /\ op[u] = "replace"
    BY <2>1 DEF Moves, PlaceInv
  <2>4. num[u] # num[t]
    BY <2>1, <2>2, <2>3 DEF Undisturbed, Changing
  <2>5. idx[u] # idx[t]
    BY <1>1, <2>2, <2>3, <2>4
  <2>6. \A k \in 1..Len(file) : /\ k \in 1..Len(file')
                                /\ k # idx[t] => file'[k] = file[k]
    BY <1>0, <2>2, BlankedLine DEF TypeOK
  <2> QED
    BY <1>1, <2>1, <2>3, <2>5, <2>6
<1>4. ASSUME NEW t \in Threads, Seek(t)
      PROVE  idx'[u] \in 1..Len(file') /\ file'[idx'[u]] = num'[u]
  <2>1. PICK k \in 0..Len(file) :
           SeekLine(k, num[t]) /\ idx' = [idx EXCEPT ![t] = k]
    BY <1>4, Zenon DEF Seek
  <2>2. pc[t] = "seek" /\ Moves(t, "blank") /\ UNCHANGED <<file, num>>
    BY <1>0, <1>4, StepMoves DEF Seek
  <2>3. op[t] = "replace"
    BY <2>2 DEF PlaceInv
  <2>4. num[t] \in InFile(file)
    BY <1>0, <2>2, <2>3, AddressedInFile
  <2>5. k # 0 /\ file[k] = num[t]
    BY <2>1, <2>4 DEF SeekLine
  <2>6. k \in 1..Len(file) /\ idx'[t] = k /\ (u # t => idx'[u] = idx[u])
    BY <1>0, <2>1, <2>5 DEF TypeOK
  <2> QED
    BY <1>1, <2>2, <2>5, <2>6 DEF Moves
<1>5. ASSUME NEW t \in Threads, file' = file, QuietStep(t), ~Seek(t)
      PROVE  idx'[u] \in 1..Len(file') /\ file'[idx'[u]] = num'[u]
  <2>1. pc[t] # "blank" /\ \/ \E place \in Places \ {"blank"} : Moves(t, place)
                           \/ pc' = pc
    BY <1>0, <1>5, StepMoves DEF QuietStep, NextLine, Places
  <2>2. pc[u] = "blank" /\ u # t
    BY <2>1 DEF Moves
  <2>3. \/ UNCHANGED <<idx, num>>
        \/ idx' = idx /\ \E n : num' = [num EXCEPT ![t] = n]
        \/ num' = num /\ \E k : idx' = [idx EXCEPT ![t] = k]
    BY <1>5, Zenon DEF QuietStep, Request, LockFile, Spurious, GenerateMax, GenerateSkip,
              GenerateRecord, GenerateCount, EnterRead, NextLine, ReadFound, ReadMissing
  <2>4. idx'[u] = idx[u] /\ num'[u] = num[u]
    BY <1>0, <2>2, <2>3 DEF TypeOK
  <2> QED
    BY <1>1, <1>5, <2>2, <2>4
<1>6. CASE UNCHANGED vars
  BY <1>1, <1>6 DEF vars
<1> QED
  BY <1>2, <1>3, <1>4, <1>5, <1>6, FileSteps DEF FileStep

(* A number clients know of leaves the file only with a REPLACE that will  *)
(* append it again.                                                        *)
LEMMA WrittenStep ==
    /\ TypeInv /\ PlaceInv /\ PositiveInv /\ FoundInv /\ WrittenStays
    /\ [Next]_vars
    => WrittenStays'
<1> SUFFICES ASSUME TypeInv, PlaceInv, PositiveInv, FoundInv, WrittenStays,
                    [Next]_vars, present', NEW n \in acked'
             PROVE  n \in InFile(file)' \/ Replacing(n)'
  BY DEF WrittenStays
<1>0. TypeOK /\ present
  BY FileSteps DEF TypeInv
<1>1. n \in acked => n \in InFile(file) \/ Replacing(n)
  BY <1>0 DEF WrittenStays
<1>2. ASSUME NEW t \in Threads, FileStep(t), AppendLine(t)
      PROVE  n \in InFile(file)' \/ Replacing(n)'
  <2>1. UNCHANGED <<op, num, acked>> /\ Moves(t, "enter") /\ pc[t] = "append"
    BY <1>0, <1>2, StepMoves DEF AppendLine, history
  <2>2. file' = Append(file, num[t]) /\ num[t] \in Nat \ {0}
    BY <1>2, <2>1 DEF FileStep, Blank
  <2>3. InFile(file)' = InFile(file) \cup {num[t]}
    BY <1>0, <2>2, AppendKeeps DEF TypeOK
  <2>4. CASE Replacing(n) /\ n # num[t]
    BY <2>1, <2>4 DEF Replacing, Moves
  <2> QED
    BY <1>1, <2>1, <2>3, <2>4
<1>3. ASSUME NEW t \in Threads, FileStep(t), Blank(t)
      PROVE  n \in InFile(file)' \/ Replacing(n)'
  <2>1. UNCHANGED <<op, num, acked>> /\ Moves(t, "lock") /\ pc[t] = "blank"
    BY <1>0, <1>3, StepMoves DEF Blank
  <2>2. /\ file' = [file EXCEPT ![idx[t]] = 0] /\ op[t] = "replace"
        /\ idx[t] \in 1..Len(file) /\ file[idx[t]] = num[t]
    BY <1>3, <2>1 DEF FileStep, AppendLine
  <2>3. Replacing(num[t])'
    BY <2>1, <2>2 DEF Replacing, Moves
  <2>4. Replacing(n) => Replacing(n)'
    BY <2>1 DEF Replacing, Moves
  <2>5. n \in InFile(file) /\ n # num[t] => n \in InFile(file)'
    BY <1>0, <2>2, BlankedLine DEF TypeOK
  <2> QED
    BY <1>1, <2>1, <2>3, <2>4, <2>5
<1>4. ASSUME NEW t \in Threads, file' = file, ReadFound(t)
      PROVE  n \in InFile(file)' \/ Replacing(n)'
  <2>1. /\ UNCHANGED <<op, num>> /\ pc[t] = "scan"
        /\ Moves(t, IF stage[t] = "check" THEN "seek" ELSE "idle")
    BY <1>0, <1>4, StepMoves DEF ReadFound
  <2>2. n \in acked \/ n = num[t]
    BY <1>4 DEF ReadFound
  <2>3. num[t] \in InFile(file)
    <3>1. idx[t] \in 1..Len(file) /\ file[idx[t]] = num[t]
      BY <1>0, <1>4 DEF ReadFound, Hit, AtEnd, TypeInv, NumberedInv, TypeOK
    <3>2. num[t] # 0
      <4>1. op[t] = "write" => num[t] # 0
        BY <2>1 DEF PositiveInv
      <4>2. op[t] # "write" => num[t] # 0
        BY <2>1 DEF PositiveInv
      <4> QED
        BY <4>1, <4>2
    <3> QED
      BY <3>1, <3>2 DEF InFile
  <2>4. Replacing(n) => Replacing(n)'
    BY <2>1 DEF Replacing, Moves
  <2> QED
    BY <1>1, <1>4, <2>2, <2>3, <2>4
<1>5. ASSUME NEW t \in Threads, file' = file, QuietStep(t), ~ReadFound(t), ~NextLine(t)
      PROVE  n \in InFile(file)' \/ Replacing(n)'
  <2>1. acked' = acked
    BY <1>5 DEF QuietStep, Request, Seek, LockFile, Spurious, GenerateMax, GenerateSkip,
                GenerateRecord, GenerateCount, EnterRead, ReadMissing, history
  <2>2. \/ /\ pc[t] \notin {"lock", "waiting", "append"}
           /\ \E place \in Places : Moves(t, place)
        \/ /\ pc[t] \in {"lock", "waiting"} /\ op' = op /\ num' = num
           /\ \E place \in {"lock", "waiting", "append"} : Moves(t, place)
    <3>1. LockFile(t) \/ Spurious(t) => op' = op /\ num' = num
      BY DEF LockFile, Spurious
    <3> QED
      BY <1>0, <1>5, <3>1, StepMoves DEF QuietStep, Places
  <2>3. \A v \in Threads \ {t} : op'[v] = op[v] /\ num'[v] = num[v]
    <3>1. op' = op \/ \E o : op' = [op EXCEPT ![t] = o]
      BY <1>5, Zenon DEF QuietStep, Request, Seek, LockFile, Spurious, GenerateMax,
         GenerateSkip, GenerateRecord, GenerateCount, EnterRead, ReadMissing
    <3>2. num' = num \/ \E m : num' = [num EXCEPT ![t] = m]
      BY <1>5, Zenon DEF QuietStep, Request, Seek, LockFile, Spurious, GenerateMax,
         GenerateSkip, GenerateRecord, GenerateCount, EnterRead, ReadMissing
    <3> QED
      BY <1>0, <3>1, <3>2 DEF TypeOK
  <2>4. Replacing(n) => Replacing(n)'
    BY <1>0, <1>5, <2>2, <2>3 DEF Replacing, Moves
  <2> QED
    BY <1>1, <1>5, <2>1, <2>4
<1>6. CASE UNCHANGED vars \/ \E t \in Threads : NextLine(t)
  BY <1>1, <1>6 DEF vars, NextLine, history, Replacing
<1> QED
  BY <1>2, <1>3, <1>4, <1>5, <1>6, FileSteps DEF FileStep

LEMMA KeptInit == Init => KeptInv
<1> SUFFICES ASSUME Init PROVE KeptInv
  OBVIOUS
<1>1. \A t \in Threads : pc[t] = "idle" /\ op[t] = "read"
  BY DEF Init
<1>2. acked = InFile(file) /\ acked \subseteq Nat \ {0}
  BY FileAssumption DEF Init, InFile
<1>3. PlaceInv /\ FoundInv
  BY <1>1 DEF PlaceInv, FoundInv
<1>4. PositiveInv
  BY <1>1, <1>2 DEF PositiveInv
<1> QED
  BY <1>2, <1>3, <1>4 DEF KeptInv, WrittenStays

LEMMA KeptStep ==
    TypeInv /\ Undisturbed /\ KeptInv /\ [Next]_vars => KeptInv'
BY PlaceStep, PositiveStep, FoundStep, WrittenStep DEF KeptInv, TypeInv

LEMMA Typed == Spec => []TypeInv
<1>1. Init => FileLockInv /\ TypeInv
  BY FileLockInit, TypeInit
<1>2. (FileLockInv /\ TypeInv) /\ [Next]_vars => (FileLockInv /\ TypeInv)'
  BY FileLockStep, TypeStep
<1> QED
  BY <1>1, <1>2, PTL DEF Spec

LEMMA Kept == Spec /\ []Undisturbed => []KeptInv
BY Typed, KeptInit, KeptStep, PTL DEF Spec

(* Where one client at most may REPLACE, no two REPLACEs meet. *)
LEMMA Alone == OneReplacer /\ Spec => []Undisturbed
<1>1. OneReplacer /\ PlaceInv => Undisturbed
  BY DEF OneReplacer, PlaceInv, Undisturbed, Changing
<1>2. Init => PlaceInv
  BY DEF Init, PlaceInv
<1>3. TypeInv /\ PlaceInv /\ [Next]_vars => PlaceInv'
  BY PlaceStep DEF TypeInv
<1>4. Spec => []PlaceInv
  BY <1>2, <1>3, Typed, PTL DEF Spec
<1>5. CASE OneReplacer
  <2>1. PlaceInv => Undisturbed
    BY <1>1, <1>5
  <2> QED
    BY <1>4, <2>1, PTL
<1>6. CASE ~OneReplacer
  BY <1>6
<1> QED
  BY <1>5, <1>6

(* descriptor.h:50-54: a message that was acknowledged stays in the file,  *)
(* whatever the clients do and whenever their commands meet, except that   *)
(* two REPLACEs of one message may meet.                                   *)
THEOREM WrittenStaysUndisturbed == Spec /\ []Undisturbed => []WrittenStays
<1>1. KeptInv => WrittenStays
  BY DEF KeptInv
<1> QED
  BY <1>1, Kept, PTL

(* The same, as a property of the server: any number of clients that READ  *)
(* and WRITE, and one that REPLACEs.                                       *)
THEOREM WrittenStaysOneReplacer == OneReplacer /\ Spec => []WrittenStays
BY WrittenStaysUndisturbed, Alone, PTL

-----------------------------------------------------------------------------
(* A READ of a number its client knows of has it ahead of it, or is        *)
(* answered; due[t] is given up when a REPLACE blanks that number.         *)
Ahead(t) == \E k \in idx[t]..Len(file) : file[k] = num[t]

DueInv ==
    \A t \in Threads : due[t] /\ op[t] = "read" =>
        /\ pc[t] = "enter" /\ present => num[t] \in InFile(file)
        /\ pc[t] = "scan" => Ahead(t)
        /\ reply[t] # "unknown"

(* Steps of which a reader notices nothing. *)
LEMMA ReaderKeeps ==
    ASSUME TypeOK, DueInv, NEW u \in Threads,
           due'[u] => due[u], op'[u] = op[u], num'[u] = num[u], idx'[u] = idx[u],
           pc'[u] \in {"enter", "scan"} => pc[u] = pc'[u],
           present' => present,
           \A n \in InFile(file) : due'[u] /\ n = num[u] => n \in InFile(file)',
           \A k \in 1..Len(file) : /\ k \in 1..Len(file')
                                   /\ due'[u] /\ file[k] = num[u] => file'[k] = num[u],
           pc'[u] = "scan" => idx[u] \in Nat \ {0},
           reply'[u] = "unknown" => reply[u] = "unknown",
           due'[u], op'[u] = "read"
    PROVE  /\ pc'[u] = "enter" /\ present' => num'[u] \in InFile(file)'
           /\ pc'[u] = "scan" => Ahead(u)'
           /\ reply'[u] # "unknown"
<1>1. /\ pc[u] = "enter" /\ present => num[u] \in InFile(file)
      /\ pc[u] = "scan" => Ahead(u)
      /\ reply[u] # "unknown"
  BY DEF DueInv
<1>2. ASSUME pc'[u] = "scan" PROVE Ahead(u)'
  <2>1. PICK k \in idx[u]..Len(file) : file[k] = num[u]
    BY <1>1, <1>2 DEF Ahead
  <2>2. k \in 1..Len(file)
    BY <1>2 DEF TypeOK
  <2>3. k \in 1..Len(file') /\ file'[k] = num[u]
    BY <2>1, <2>2
  <2>4. k \in idx'[u]..Len(file') /\ file'[k] = num'[u]
    BY <2>1, <2>3 DEF TypeOK
  <2> QED
    BY <2>4 DEF Ahead
<1> QED
  BY <1>1, <1>2

(* What a client asks for. *)
LEMMA Asked ==
    ASSUME NEW t \in Threads, Request(t)
    PROVE  \E o \in Ops[t] : \E n : /\ o # "write" => n \in acked
                                   /\ op' = [op EXCEPT ![t] = o]
                                   /\ num' = [num EXCEPT ![t] = n]
                                   /\ due' = [due EXCEPT ![t] = o = "read" /\ ~Replacing(n)]
<1>1. PICK o \in Ops[t] :
         /\ op' = [op EXCEPT ![t] = o]
         /\ \E n \in IF o = "write" THEN {0} ELSE acked :
              /\ num' = [num EXCEPT ![t] = n]
              /\ due' = [due EXCEPT ![t] = o = "read" /\ ~Replacing(n)]
  BY Zenon DEF Request
<1>2. PICK n \in IF o = "write" THEN {0} ELSE acked :
         /\ num' = [num EXCEPT ![t] = n]
         /\ due' = [due EXCEPT ![t] = o = "read" /\ ~Replacing(n)]
  BY <1>1, Zenon
<1> QED
  BY <1>1, <1>2

LEMMA DueStep == TypeInv /\ KeptInv /\ DueInv /\ [Next]_vars => DueInv'
<1> SUFFICES ASSUME TypeInv, KeptInv, DueInv, [Next]_vars, NEW u \in Threads,
                    due'[u], op'[u] = "read"
             PROVE  /\ pc'[u] = "enter" /\ present' => num'[u] \in InFile(file)'
                    /\ pc'[u] = "scan" => Ahead(u)'
                    /\ reply'[u] # "unknown"
  BY Zenon DEF DueInv
<1> DEFINE Goal == /\ pc'[u] = "enter" /\ present' => num'[u] \in InFile(file)'
                   /\ pc'[u] = "scan" => Ahead(u)'
                   /\ reply'[u] # "unknown"
<1>0. TypeOK /\ PlaceInv /\ WrittenStays
  BY DEF TypeInv, KeptInv
<1>1. pc[u] = "scan" => idx[u] \in Nat \ {0}
  BY DEF TypeInv, NumberedInv
<1>2. ASSUME NEW t \in Threads, Request(t) PROVE Goal
  <2>0. PICK o \in Ops[t] : \E n :
           /\ o # "write" => n \in acked
           /\ op' = [op EXCEPT ![t] = o]
           /\ num' = [num EXCEPT ![t] = n]
           /\ due' = [due EXCEPT ![t] = o = "read" /\ ~Replacing(n)]
    BY <1>2, Asked, Zenon
  <2>1. PICK n :
           /\ o # "write" => n \in acked
           /\ op' = [op EXCEPT ![t] = o]
           /\ num' = [num EXCEPT ![t] = n]
           /\ due' = [due EXCEPT ![t] = o = "read" /\ ~Replacing(n)]
    BY <2>0, Zenon
  <2>2. UNCHANGED <<file, present, idx>> /\ pc[t] = "idle"
        /\ \E place \in {"max", "enter"} : Moves(t, place)
    BY <1>0, <1>2, StepMoves DEF Request
  <2>3. CASE u # t
    <3>1. op'[u] = op[u] /\ num'[u] = num[u] /\ due'[u] = due[u]
      BY <1>0, <2>1, <2>3 DEF TypeOK
    <3>2. reply'[u] = reply[u]
      BY <1>0, <1>2, <2>3 DEF Request, TypeOK
    <3> QED
      BY <1>0, <1>1, <2>2, <2>3, <3>1, <3>2, ReaderKeeps DEF Moves
  <2>4. CASE u = t
    <3>1. o = "read" /\ num'[t] = n
      BY <1>0, <2>1, <2>4 DEF TypeOK
    <3>2. due'[t] = (o = "read" /\ ~Replacing(n))
      BY <1>0, <2>1, Zenon DEF TypeOK
    <3>3. n \in acked /\ ~Replacing(n)
      BY <2>1, <2>4, <3>1, <3>2
    <3>4. present => n \in InFile(file)
      BY <1>0, <3>3 DEF WrittenStays
    <3>5. reply'[t] = "none"
      BY <1>0, <1>2 DEF Request, TypeOK
    <3> QED
      BY <2>2, <2>4, <3>1, <3>4, <3>5 DEF Moves
  <2> QED
    BY <2>3, <2>4
<1>3. ASSUME NEW t \in Threads, EnterRead(t) PROVE Goal
  <2>1. /\ UNCHANGED <<file, present, op, num, due, reply>> /\ present
        /\ pc[t] = "enter" /\ Moves(t, "scan")
        /\ idx'[t] = 1 /\ (u # t => idx'[u] = idx[u])
    BY <1>0, <1>3, StepMoves DEF EnterRead, history, TypeOK
  <2>2. CASE u # t
    BY <1>0, <1>1, <2>1, <2>2, ReaderKeeps DEF Moves
  <2>3. CASE u = t
    <3>1. num[t] \in InFile(file) /\ reply[t] # "unknown"
      BY <2>1, <2>3 DEF DueInv
    <3>2. \E k \in 1..Len(file) : file[k] = num[t]
      BY <3>1 DEF InFile
    <3> QED
      BY <2>1, <2>3, <3>1, <3>2 DEF Ahead, Moves
  <2> QED
    BY <2>2, <2>3
<1>4. ASSUME NEW t \in Threads, NextLine(t) PROVE Goal
  <2>1. /\ UNCHANGED <<file, present, op, num, due, reply, pc>>
        /\ pc[t] = "scan" /\ ~AtEnd(t) /\ ~Hit(t)
        /\ idx'[t] = idx[t] + 1 /\ (u # t => idx'[u] = idx[u])
    BY <1>0, <1>4 DEF NextLine, history, TypeOK
  <2>2. CASE u # t
    BY <1>0, <1>1, <2>1, <2>2, ReaderKeeps
  <2>3. CASE u = t
    <3>1. reply[t] # "unknown" /\ \E k \in idx[t]..Len(file) : file[k] = num[t]
      BY <2>1, <2>3 DEF DueInv, Ahead
    <3>2. idx[t] \in Nat /\ Len(file) \in Nat /\ file[idx[t]] # num[t]
      BY <1>0, <2>1 DEF Hit, TypeOK
    <3>3. \E k \in (idx[t] + 1)..Len(file) : file[k] = num[t]
      BY <3>1, <3>2
    <3> QED
      BY <2>1, <2>3, <3>1, <3>3 DEF Ahead
  <2> QED
    BY <2>2, <2>3
<1>5. ASSUME NEW t \in Threads, ReadFound(t) \/ ReadMissing(t) \/ ReadFails(t) PROVE Goal
  <2>1. /\ UNCHANGED <<file, present, op, num, due, idx>>
        /\ pc[t] \in {"enter", "scan"}
        /\ \E place \in {"seek", "idle"} : Moves(t, place)
        /\ u # t => reply'[u] = reply[u]
    BY <1>0, <1>5, StepMoves DEF ReadFound, ReadMissing, ReadFails, lockVars, history, TypeOK
  <2>2. CASE u # t
    BY <1>0, <1>1, <2>1, <2>2, ReaderKeeps DEF Moves
  <2>3. CASE u = t
    <3>1. stage[t] = "client" /\ reply[t] # "unknown"
      BY <1>0, <2>1, <2>3 DEF PlaceInv, DueInv
    <3>2. ~ReadMissing(t)
      <4>1. SUFFICES ASSUME ReadMissing(t) PROVE FALSE
        OBVIOUS
      <4>2. pc[t] = "scan" /\ idx[t] > Len(file)
        BY <4>1 DEF ReadMissing, AtEnd
      <4>3. \E k \in idx[t]..Len(file) : TRUE
        BY <2>1, <2>3, <4>2 DEF DueInv, Ahead
      <4> QED
        BY <1>0, <4>2, <4>3 DEF TypeOK
    <3>3. reply'[t] \in {"message", "error"}
      BY <1>0, <1>5, <3>1, <3>2 DEF ReadFound, ReadFails, TypeOK
    <3> QED
      BY <2>1, <2>3, <3>3 DEF Moves
  <2> QED
    BY <2>2, <2>3
<1>6. ASSUME NEW t \in Threads, AppendLine(t) PROVE Goal
  <2>1. /\ UNCHANGED <<present, op, num, due, reply, idx>>
        /\ pc[t] = "append" /\ Moves(t, "enter") /\ present
    BY <1>0, <1>6, StepMoves DEF AppendLine, genVars, history
  <2>2. num[t] \in Nat /\ file' = Append(file, num[t])
    BY <1>6, <2>1 DEF AppendLine, TypeInv, NumberedInv
  <2>3. /\ InFile(file) \subseteq InFile(file)'
        /\ \A k \in 1..Len(file) : k \in 1..Len(file') /\ file'[k] = file[k]
    BY <1>0, <2>2, AppendKeeps DEF TypeOK
  <2>4. u # t
    BY <1>0, <2>1 DEF PlaceInv
  <2> QED
    BY <1>0, <1>1, <2>1, <2>3, <2>4, ReaderKeeps DEF Moves
<1>7. ASSUME NEW t \in Threads, Blank(t) PROVE Goal
  <2>1. /\ UNCHANGED <<present, op, num, reply, idx>>
        /\ pc[t] = "blank" /\ Moves(t, "lock") /\ present
        /\ due' = [q \in Threads |-> due[q] /\ num[q] # num[t]]
    BY <1>0, <1>7, StepMoves DEF Blank, genVars, history
  <2>2. idx[t] \in 1..Len(file) /\ file[idx[t]] = num[t]
    BY <2>1 DEF KeptInv, FoundInv
  <2>3. file' = [file EXCEPT ![idx[t]] = 0]
    BY <1>0, <1>7, <2>2 DEF Blank, TypeOK
  <2>4. due'[u] = (due[u] /\ num[u] # num[t])
    BY <2>1, Zenon
  <2>5. due[u] /\ num[u] # num[t]
    BY <2>4
  <2>6. \A n \in InFile(file) : n = num[u] => n \in InFile(file)'
    BY <1>0, <2>2, <2>3, <2>5, BlankedLine DEF TypeOK
  <2>7. \A k \in 1..Len(file) : k \in 1..Len(file') /\ (file[k] = num[u] => file'[k] = num[u])
    BY <1>0, <2>2, <2>3, <2>5, BlankedLine DEF TypeOK
  <2>8. u # t
    BY <1>0, <2>1 DEF PlaceInv
  <2> QED
    BY <1>0, <1>1, <2>1, <2>5, <2>6, <2>7, <2>8, ReaderKeeps DEF Moves
<1>8. ASSUME NEW t \in Threads,
             \/ GenerateMax(t) \/ GenerateFails(t) \/ GenerateSkip(t)
             \/ GenerateRecord(t) \/ GenerateCount(t) \/ LockFile(t) \/ Spurious(t)
             \/ AppendFails(t) \/ Seek(t) \/ SeekFails(t) \/ BlankFails(t)
      PROVE  Goal
  <2>1. UNCHANGED <<file, present, op, due>>
    BY <1>8 DEF GenerateMax, GenerateFails, GenerateSkip, GenerateRecord, GenerateCount,
         LockFile, Spurious, AppendFails, Seek, SeekFails, BlankFails, history
  <2>2. /\ pc[t] \in {"max", "list", "record", "count", "lock", "waiting", "append",
                     "seek", "blank"}
        /\ \E place \in Places \ {"enter", "scan"} : Moves(t, place)
    BY <1>0, <1>8, StepMoves DEF Places
  <2>3. u # t
    BY <1>0, <2>1, <2>2 DEF PlaceInv
  <2>4. /\ num' = num \/ \E n : num' = [num EXCEPT ![t] = n]
        /\ idx' = idx \/ \E k : idx' = [idx EXCEPT ![t] = k]
        /\ reply' = reply \/ \E x : reply' = [reply EXCEPT ![t] = x]
    BY <1>8, Zenon DEF GenerateMax, GenerateFails, GenerateSkip, GenerateRecord,
         GenerateCount, LockFile, Spurious, AppendFails, Seek, SeekFails, BlankFails, Answer
  <2>5. num'[u] = num[u] /\ idx'[u] = idx[u] /\ reply'[u] = reply[u]
    BY <1>0, <2>3, <2>4 DEF TypeOK
  <2> QED
    BY <1>0, <1>1, <2>1, <2>2, <2>3, <2>5, ReaderKeeps DEF Moves
<1>9. CASE Vanish \/ UNCHANGED vars
  <2>1. UNCHANGED <<file, op, num, due, idx, reply, pc>> /\ (present' => present)
    BY <1>9 DEF Vanish, vars, history
  <2> QED
    BY <1>0, <1>1, <2>1, ReaderKeeps
<1> QED
  BY <1>2, <1>3, <1>4, <1>5, <1>6, <1>7, <1>8, <1>9 DEF Next, Serve

(* README.md:96-97: a READ of a message whose author has been told         *)
(* "3.0 WROTE" answers with the message, unless a REPLACE has it blanked   *)
(* while the READ is under way, or two REPLACEs of one message meet.       *)
THEOREM ReadFindsUndisturbed == Spec /\ []Undisturbed => []ReadFindsWritten
<1>1. Init => DueInv
  BY DEF Init, DueInv
<1>2. DueInv => ReadFindsWritten
  BY DEF DueInv, ReadFindsWritten
<1> QED
  BY <1>1, <1>2, Typed, Kept, DueStep, PTL DEF Spec

(* The same for any number of clients that READ and WRITE, and one that    *)
(* REPLACEs.                                                               *)
THEOREM ReadFindsOneReplacer == OneReplacer /\ Spec => []ReadFindsWritten
BY ReadFindsUndisturbed, Alone, PTL

-----------------------------------------------------------------------------
(* Numbers.  While no two commands have met in generate_number, one WRITE  *)
(* at most has a number the file does not show; that number is above every *)
(* one of the file and above those which REPLACEs have blanked just now,   *)
(* strictly so once it is decided.                                         *)
Unique(s) == \A j, k \in 1..Len(s) : s[j] = s[k] /\ s[j] # 0 => j = k

Blanked(t) == op[t] = "replace" /\ pc[t] \in {"lock", "waiting", "append"}

Choosing(t) ==
    /\ op[t] = "write"
    /\ pc[t] \in {"list", "record", "count", "lock", "waiting", "append"}

Decided(t) ==
    \/ pc[t] \in {"record", "count"} /\ raised[t]
    \/ pc[t] \in {"lock", "waiting", "append"}

Below(n, t) == n <= num[t] /\ (Decided(t) => n # num[t])

ApartInv ==
    /\ \A t \in Threads : Blanked(t) => num[t] \notin InFile(file)
    /\ \A t, u \in Threads : Choosing(t) /\ Choosing(u) => t = u
    /\ \A t \in Threads : Choosing(t) => \A n \in InFile(file) : Below(n, t)
    /\ \A t, u \in Threads : Choosing(t) /\ Blanked(u) => Below(num[u], t)

FreshInv == ~raced => Unique(file) /\ (present => ApartInv)

LEMMA UniqueAppend ==
    ASSUME NEW s \in Seq(Nat), Unique(s), NEW n \in Nat, n \notin InFile(s)
    PROVE  Unique(Append(s, n))
<1>1. \A k \in 1..Len(s) : s[k] = n => n = 0
  BY DEF InFile
<1>2. 1..(Len(s) + 1) = 1..Len(s) \cup {Len(s) + 1}
  OBVIOUS
<1>3. /\ Len(Append(s, n)) = Len(s) + 1
      /\ \A k \in 1..Len(s) : Append(s, n)[k] = s[k]
      /\ Append(s, n)[Len(s) + 1] = n
  BY AppendKeeps
<1>4. SUFFICES ASSUME NEW j \in 1..(Len(s) + 1), NEW k \in 1..(Len(s) + 1),
                      Append(s, n)[j] = Append(s, n)[k], Append(s, n)[j] # 0
               PROVE  j = k
  BY <1>3 DEF Unique
<1>5. CASE j \in 1..Len(s) /\ k \in 1..Len(s)
  BY <1>3, <1>4, <1>5 DEF Unique
<1>6. CASE j \in 1..Len(s) /\ k = Len(s) + 1
  BY <1>1, <1>3, <1>4, <1>6
<1>7. CASE j = Len(s) + 1 /\ k \in 1..Len(s)
  BY <1>1, <1>3, <1>4, <1>7
<1> QED
  BY <1>2, <1>5, <1>6, <1>7

LEMMA UniqueBlanked ==
    ASSUME NEW s \in Seq(Nat), Unique(s), NEW j \in 1..Len(s)
    PROVE  LET f == [s EXCEPT ![j] = 0]
           IN  /\ Unique(f)
               /\ s[j] \notin InFile(f)
<1> DEFINE f == [s EXCEPT ![j] = 0]
<1>1. /\ Len(f) = Len(s)
      /\ \A k \in 1..Len(s) : f[k] = IF k = j THEN 0 ELSE s[k]
  BY BlankedLine
<1> HIDE DEF f
<1>2. Unique(f)
  BY <1>1, Zenon DEF Unique
<1>3. s[j] \notin InFile(f)
  BY <1>1, Zenon DEF Unique, InFile
<1> QED
  BY <1>2, <1>3 DEF f

(* A worker that appends has a number of its own. *)
LEMMA AppendsFresh ==
    ASSUME ApartInv, PlaceInv, TypeOK, NEW t \in Threads, pc[t] = "append"
    PROVE  num[t] \notin InFile(file)
<1>1. op[t] \in {"write", "replace"}
  BY DEF PlaceInv, TypeOK, Commands
<1>2. CASE op[t] = "replace"
  BY <1>2 DEF ApartInv, Blanked
<1>3. CASE op[t] = "write"
  BY <1>3 DEF ApartInv, Choosing, Decided, Below
<1> QED
  BY <1>1, <1>2, <1>3

LEMMA UniqueStep ==
    ASSUME TypeInv, KeptInv, ApartInv, Unique(file), [Next]_vars, present'
    PROVE  Unique(file')
<1>0. TypeOK /\ PlaceInv /\ PositiveInv /\ FoundInv
  BY DEF TypeInv, KeptInv
<1>1. ASSUME NEW t \in Threads, FileStep(t) PROVE Unique(file')
  <2>1. CASE AppendLine(t) /\ num[t] \in Nat /\ file' = Append(file, num[t])
    <3>1. num[t] \notin InFile(file)
      BY <1>0, <2>1, AppendsFresh DEF AppendLine
    <3> QED
      BY <1>0, <2>1, <3>1, UniqueAppend DEF TypeOK
  <2>2. CASE idx[t] \in 1..Len(file) /\ file' = [file EXCEPT ![idx[t]] = 0]
    BY <1>0, <2>2, UniqueBlanked DEF TypeOK
  <2> QED
    BY <1>1, <2>1, <2>2 DEF FileStep
<1> QED
  BY <1>0, <1>1, FileSteps DEF vars

(* Steps that make no number and blank no line. *)
LEMMA ApartKeeps ==
    ASSUME ApartInv, InFile(file)' = InFile(file),
           \A u \in Threads : /\ Blanked(u)' => Blanked(u) /\ num'[u] = num[u]
                              /\ Choosing(u)' => Choosing(u) /\ num'[u] = num[u]
                              /\ Choosing(u)' /\ Decided(u)' => Decided(u)
    PROVE  ApartInv'
BY DEF ApartInv, Below

(* The steps of generate_number change the number of one WRITE; all others *)
(* are as they were.                                                       *)
LEMMA ApartChooses ==
    ASSUME ApartInv, UNCHANGED <<file, op>>, NEW t \in Threads,
           \A u \in Threads \ {t} : /\ Blanked(u)' => Blanked(u) /\ num'[u] = num[u]
                                    /\ Choosing(u)' => Choosing(u),
           ~Blanked(t)',
           \A u \in Threads \ {t} : ~Choosing(u),
           \A n \in InFile(file) : Below(n, t)',
           \A u \in Threads \ {t} : Blanked(u)' => Below(num[u], t)'
    PROVE  ApartInv'
<1>1. \A u \in Threads : Blanked(u)' => u # t /\ Blanked(u) /\ num'[u] = num[u]
  OBVIOUS
<1>2. \A u \in Threads : Choosing(u)' => u = t
  OBVIOUS
<1>3. InFile(file)' = InFile(file)
  OBVIOUS
<1>4. \A u \in Threads : Blanked(u)' => num'[u] \notin InFile(file)'
  BY <1>1, <1>3 DEF ApartInv
<1>5. \A u \in Threads : Blanked(u)' => Below(num[u], t)'
  BY <1>1
<1> QED
  BY <1>1, <1>2, <1>3, <1>4, <1>5 DEF ApartInv

LEMMA ApartStep ==
    ASSUME TypeInv, KeptInv, Undisturbed, ApartInv, Unique(file), [Next]_vars,
           present', ~raced'
    PROVE  ApartInv'
<1>0. TypeOK /\ PlaceInv /\ PositiveInv /\ FoundInv /\ NumberedInv /\ present
  BY FileSteps DEF TypeInv, KeptInv
<1>00. InFile(file) \subseteq Int /\ \A u \in Threads : num[u] \in Int
  BY <1>0 DEF InFile, TypeOK
<1>1. ASSUME NEW t \in Threads, FileStep(t), AppendLine(t) PROVE ApartInv'
  <2>1. /\ UNCHANGED <<op, num, raised>> /\ Moves(t, "enter") /\ pc[t] = "append"
        /\ num[t] \in Nat /\ file' = Append(file, num[t])
    BY <1>0, <1>1, StepMoves DEF AppendLine, genVars, FileStep, Blank
  <2>2. InFile(file)' \subseteq InFile(file) \cup {num[t]}
    BY <1>0, <2>1, AppendKeeps DEF TypeOK
  <2>3. \A u \in Threads : /\ Blanked(u)' => Blanked(u) /\ u # t
                           /\ Choosing(u)' => Choosing(u) /\ u # t
                           /\ Choosing(u)' /\ Decided(u)' => Decided(u)
    BY <2>1 DEF Moves, Blanked, Choosing, Decided
  <2>4. \/ op[t] = "replace" /\ Blanked(t)
        \/ op[t] = "write" /\ Choosing(t) /\ Decided(t)
    BY <1>0, <2>1 DEF PlaceInv, TypeOK, Commands, Blanked, Choosing, Decided
  <2>5. \A u \in Threads : Blanked(u)' => num[u] # num[t]
    BY <2>3, <2>4 DEF Undisturbed, Changing, Blanked, ApartInv, Below
  <2>6. \A u \in Threads : Choosing(u)' => Below(num[t], u)
    BY <2>3, <2>4 DEF ApartInv
  <2>7. \A u \in Threads : Blanked(u)' => num'[u] \notin InFile(file)'
    BY <2>1, <2>2, <2>3, <2>5 DEF ApartInv
  <2>8. \A u \in Threads : Choosing(u)' => \A n : Below(n, u) => Below(n, u)'
    BY <2>1, <2>3 DEF Below
  <2>9. \A u \in Threads : Choosing(u)' => \A n \in InFile(file)' : Below(n, u)'
    BY <2>2, <2>3, <2>6, <2>8 DEF ApartInv
  <2>10. \A u, v \in Threads : Choosing(u)' /\ Blanked(v)' => Below(num[v], u)'
    BY <2>1, <2>3, <2>8 DEF ApartInv
  <2> QED
    BY <2>3, <2>7, <2>9, <2>10 DEF ApartInv
<1>2. ASSUME NEW t \in Threads, FileStep(t), Blank(t) PROVE ApartInv'
  <2>1. /\ UNCHANGED <<op, num, raised>> /\ Moves(t, "lock") /\ pc[t] = "blank"
        /\ op[t] = "replace" /\ idx[t] \in 1..Len(file) /\ file[idx[t]] = num[t]
        /\ file' = [file EXCEPT ![idx[t]] = 0]
    BY <1>0, <1>2, StepMoves DEF Blank, genVars, FileStep, AppendLine
  <2>2. InFile(file)' \subseteq InFile(file) /\ num[t] \notin InFile(file)'
    BY <1>0, <2>1, BlankedLine, UniqueBlanked DEF TypeOK
  <2>3. num[t] \in InFile(file)
    BY <1>0, <2>1 DEF InFile, PositiveInv
  <2>4. \A u \in Threads : /\ Blanked(u)' => Blanked(u) \/ u = t
                           /\ Choosing(u)' => Choosing(u)
                           /\ Choosing(u)' /\ Decided(u)' => Decided(u)
    BY <2>1 DEF Moves, Blanked, Choosing, Decided
  <2>5. \A u \in Threads : Choosing(u)' => \A n : Below(n, u) => Below(n, u)'
    BY <2>1, <2>4 DEF Below
  <2>6. \A u \in Threads : Choosing(u)' => \A n \in InFile(file)' : Below(n, u)'
    BY <2>2, <2>4, <2>5 DEF ApartInv
  <2>7. \A u, v \in Threads : Choosing(u)' /\ Blanked(v)' => Below(num[v], u)'
    BY <2>1, <2>3, <2>4, <2>5 DEF ApartInv
  <2>8. \A u \in Threads : Blanked(u)' => num'[u] \notin InFile(file)'
    BY <2>1, <2>2, <2>4 DEF ApartInv
  <2> QED
    BY <2>4, <2>6, <2>7, <2>8 DEF ApartInv
<1>3. ASSUME NEW t \in Threads, GenerateMax(t) PROVE ApartInv'
  <2>1. PICK max \in InFile(file) \cup {0} :
           /\ \A n \in InFile(file) : n <= max
           /\ num' = [num EXCEPT ![t] = max]
    BY <1>3, Zenon DEF GenerateMax
  <2>2. /\ UNCHANGED <<file, op, raised>> /\ pc[t] = "max" /\ Moves(t, "list")
        /\ raced' = (raced \/ Unsettled)
    BY <1>0, <1>3, StepMoves DEF GenerateMax, genVars
  <2>3. ~Unsettled
    BY <2>2, Zenon
  <2>4. \A u \in Threads : ~Choosing(u) /\ ~Blanked(u)
    BY <2>3 DEF Unsettled, Replacing, Choosing, Blanked
  <2>5. op[t] = "write" /\ num'[t] = max /\ \A u \in Threads \ {t} : num'[u] = num[u]
    BY <1>0, <2>1, <2>2 DEF PlaceInv, TypeOK
  <2>6. \A n \in InFile(file) : Below(n, t)'
    BY <2>1, <2>2, <2>5 DEF Below, Decided, Moves
  <2>7. \A u \in Threads \ {t} : ~Blanked(u)' /\ ~Choosing(u)'
    BY <2>2, <2>4 DEF Moves, Blanked, Choosing
  <2>8. ~Blanked(t)'
    BY <2>2, <2>5 DEF Blanked
  <2> QED
    BY <2>2, <2>4, <2>6, <2>7, <2>8, ApartChooses
<1>4. ASSUME NEW t \in Threads, GenerateSkip(t) PROVE ApartInv'
  <2>1. PICK m \in num[t]..(num[t] + count) :
           /\ num' = [num EXCEPT ![t] = m]
           /\ raised' = [raised EXCEPT ![t] = m # num[t]]
    BY <1>4, Zenon DEF GenerateSkip
  <2>2. UNCHANGED <<file, op>> /\ pc[t] = "list" /\ Moves(t, "record")
    BY <1>0, <1>4, StepMoves DEF GenerateSkip
  <2>3. op[t] = "write" /\ Choosing(t) /\ ~Blanked(t)' /\ m \in Int /\ m >= num[t]
    BY <1>0, <1>00, <2>1, <2>2 DEF PlaceInv, Choosing, Blanked, TypeOK
  <2>4. \A u \in Threads \ {t} : ~Choosing(u)
    BY <2>3 DEF ApartInv
  <2>5. num'[t] = m /\ \A u \in Threads \ {t} : num'[u] = num[u]
    BY <1>0, <2>1 DEF TypeOK
  <2>6. raised'[t] = (m # num[t])
    BY <1>0, <2>1, Zenon DEF TypeOK
  <2>7. \A n \in Int : Below(n, t) => Below(n, t)'
    <3>1. Decided(t)' => m # num[t]
      BY <2>2, <2>6 DEF Decided, Moves
    <3> QED
      BY <1>00, <2>3, <2>5, <3>1 DEF Below
  <2>8. \A u \in Threads \ {t} : /\ Blanked(u)' => Blanked(u)
                                 /\ Choosing(u)' => Choosing(u)
    BY <2>2 DEF Moves, Blanked, Choosing
  <2>9. \A n \in InFile(file) : Below(n, t)'
    BY <1>00, <2>3, <2>7 DEF ApartInv
  <2>10. \A u \in Threads \ {t} : Blanked(u)' => Below(num[u], t)'
    BY <1>00, <2>3, <2>5, <2>7, <2>8 DEF ApartInv
  <2> QED
    BY <2>2, <2>3, <2>4, <2>5, <2>8, <2>9, <2>10, ApartChooses
<1>5. ASSUME NEW t \in Threads, GenerateCount(t) PROVE ApartInv'
  <2>1. /\ UNCHANGED <<file, op, raised>> /\ pc[t] = "count" /\ Moves(t, "lock")
        /\ num' = [num EXCEPT ![t] = Successor(num[t], raised[t])]
    BY <1>0, <1>5, StepMoves DEF GenerateCount
  <2>2. op[t] = "write" /\ Choosing(t) /\ ~Blanked(t)'
    BY <1>0, <2>1 DEF PlaceInv, Choosing, Blanked
  <2>3. \A u \in Threads \ {t} : ~Choosing(u)
    BY <2>2 DEF ApartInv
  <2>4. /\ num'[t] = IF raised[t] THEN num[t] ELSE num[t] + 1
        /\ \A u \in Threads \ {t} : num'[u] = num[u]
    BY <1>0, <2>1 DEF TypeOK, Successor
  <2>5. \A n \in Int : Below(n, t) => Below(n, t)'
    BY <1>00, <2>1, <2>4 DEF Below, Decided
  <2>6. \A u \in Threads \ {t} : /\ Blanked(u)' => Blanked(u)
                                 /\ Choosing(u)' => Choosing(u)
    BY <2>1 DEF Moves, Blanked, Choosing
  <2>7. \A n \in InFile(file) : Below(n, t)'
    BY <1>00, <2>2, <2>5 DEF ApartInv
  <2>8. \A u \in Threads \ {t} : Blanked(u)' => Below(num[u], t)'
    BY <1>00, <2>2, <2>4, <2>5, <2>6 DEF ApartInv
  <2> QED
    BY <2>1, <2>2, <2>3, <2>4, <2>6, <2>7, <2>8, ApartChooses
<1>6. ASSUME NEW t \in Threads, file' = file, Request(t) PROVE ApartInv'
  <2>0. PICK o \in Ops[t] : \E n :
           /\ o # "write" => n \in acked
           /\ op' = [op EXCEPT ![t] = o]
           /\ num' = [num EXCEPT ![t] = n]
           /\ due' = [due EXCEPT ![t] = o = "read" /\ ~Replacing(n)]
    BY <1>6, Asked, Zenon
  <2>1. PICK n : op' = [op EXCEPT ![t] = o] /\ num' = [num EXCEPT ![t] = n]
    BY <2>0, Zenon
  <2>2. \A u \in Threads \ {t} : op'[u] = op[u] /\ num'[u] = num[u]
    BY <1>0, <2>1 DEF TypeOK
  <2>3. raised' = raised /\ \E place \in {"max", "enter"} : Moves(t, place)
    BY <1>0, <1>6, StepMoves DEF Request, genVars
  <2>4. \A u \in Threads : /\ Blanked(u)' => Blanked(u) /\ num'[u] = num[u]
                           /\ Choosing(u)' => Choosing(u) /\ num'[u] = num[u]
                           /\ Choosing(u)' /\ Decided(u)' => Decided(u)
    BY <2>2, <2>3 DEF Moves, Blanked, Choosing, Decided
  <2> QED
    BY <1>6, <2>4, ApartKeeps
<1>7. ASSUME NEW t \in Threads, file' = file,
             \/ Seek(t) \/ LockFile(t) \/ Spurious(t) \/ GenerateRecord(t)
             \/ EnterRead(t) \/ ReadFound(t) \/ ReadMissing(t)
      PROVE  ApartInv'
  <2>1. UNCHANGED <<op, num, raised>>
    BY <1>7 DEF Seek, LockFile, Spurious, GenerateRecord, EnterRead, ReadFound, ReadMissing, genVars
  <2>2. \/ pc[t] = "record" /\ Moves(t, "count")
        \/ pc[t] \in {"lock", "waiting"} /\ \E place \in {"lock", "waiting", "append"} : Moves(t, place)
        \/ \E place \in {"blank", "scan", "seek", "idle"} : Moves(t, place)
    BY <1>0, <1>7, StepMoves
  <2>3. \A u \in Threads : /\ Blanked(u)' => Blanked(u)
                           /\ Choosing(u)' => Choosing(u)
                           /\ Choosing(u)' /\ Decided(u)' => Decided(u)
    BY <2>1, <2>2 DEF Moves, Blanked, Choosing, Decided
  <2> QED
    BY <1>7, <2>1, <2>3, ApartKeeps
<1>8. CASE UNCHANGED vars \/ \E t \in Threads : NextLine(t)
  <2>1. UNCHANGED <<file, op, num, raised, pc>>
    BY <1>8 DEF vars, NextLine, genVars
  <2> QED
    BY <2>1, ApartKeeps DEF Blanked, Choosing, Decided
<1> QED
  BY <1>0, <1>1, <1>2, <1>3, <1>4, <1>5, <1>6, <1>7, <1>8, FileSteps DEF FileStep, QuietStep

LEMMA FreshStep ==
    TypeInv /\ KeptInv /\ Undisturbed /\ FreshInv /\ [Next]_vars => FreshInv'
<1> SUFFICES ASSUME TypeInv, KeptInv, Undisturbed, FreshInv, [Next]_vars, ~raced'
             PROVE  Unique(file') /\ (present' => ApartInv')
  BY DEF FreshInv
<1>1. ~raced
  <2>1. \/ raced' = raced
        \/ \E t \in Threads : raced' = (raced \/ Unsettled)
    BY Zenon DEF Next, Serve, Request, Spurious, Vanish, vars, history,
         GenerateMax, GenerateFails, GenerateSkip, GenerateRecord, GenerateCount,
         EnterRead, NextLine, ReadFound, ReadMissing, ReadFails, LockFile,
         AppendLine, AppendFails, Seek, SeekFails, Blank, BlankFails
  <2> QED
    BY <2>1, Zenon
<1>2. CASE present'
  <2>1. present
    BY <1>2, FileSteps DEF KeptInv
  <2>2. ApartInv /\ Unique(file)
    BY <1>1, <2>1 DEF FreshInv
  <2> QED
    BY <1>2, <2>2, ApartStep, UniqueStep
<1>3. CASE ~present'
  <2>1. \A t \in Threads : ~AppendLine(t) /\ ~Blank(t)
    BY <1>3 DEF AppendLine, Blank
  <2>2. file' = file
    BY <2>1 DEF Next, Serve, Request, Spurious, Vanish, vars,
         GenerateMax, GenerateFails, GenerateSkip, GenerateRecord, GenerateCount,
         EnterRead, NextLine, ReadFound, ReadMissing, ReadFails, LockFile,
         AppendFails, Seek, SeekFails, BlankFails
  <2> QED
    BY <1>1, <1>3, <2>2 DEF FreshInv
<1> QED
  BY <1>2, <1>3

(* README.md:188, descriptor.cc:374-429: if the file starts without a      *)
(* number twice, it never has one twice, unless a WRITE reads the maximum  *)
(* while the number of another command is not in the file, or two REPLACEs *)
(* of one message meet.  temp_list plays no part in it.                    *)
THEOREM UniqueUndisturbed ==
    Unique(InitialFile) /\ Spec /\ []Undisturbed => []UniqueNumbers
<1>1. Unique(InitialFile) /\ Init => FreshInv
  BY DEF Init, FreshInv, ApartInv, Blanked, Choosing
<1>2. FreshInv => UniqueNumbers
  BY DEF FreshInv, Unique, UniqueNumbers
<1> QED
  BY <1>1, <1>2, Typed, Kept, FreshStep, PTL DEF Spec

(* The same for any number of clients that READ and WRITE, and one that    *)
(* REPLACEs: such a server gives no number twice.                          *)
THEOREM UniqueOneReplacer ==
    OneReplacer /\ Unique(InitialFile) /\ Spec => []UniqueNumbers
BY UniqueUndisturbed, Alone, PTL
=============================================================================
