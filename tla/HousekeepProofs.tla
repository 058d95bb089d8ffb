-------------------------- MODULE HousekeepProofs ---------------------------
(***************************************************************************)
(* No acknowledged message is lost by housekeeping, nor comes a deleted    *)
(* one back, but for the cases the code leaves open, and the copy that is  *)
(* made is exact: for any board file, messages, faults and restarts.       *)
(*                                                                         *)
(* KeepInv follows the messages from one file to the other: while the      *)
(* board file is there it has them all; what has been read of it is in     *)
(* what has been written of the cache; from the end of the copying on the  *)
(* cache has them all; and a killed process leaves one file that does.     *)
(* FreshInv says that nobody writes a message again, so only a copy brings *)
(* it back, and CopyInv which line of the board file each line of the      *)
(* cache was copied from.                                                  *)
(***************************************************************************)
EXTENDS Housekeep, SequenceTheorems, TLAPS

Line == Msgs \cup {Garbage}

TypeInv ==
    /\ TypeOK
    /\ place = "copy" =>
         /\ rpos <= Len(bbfile)
         /\ wpos # -1 => cache # Absent /\ wpos <= Len(cache)
    /\ place \in {"serving", "copy", "remove"} => bbfile # Absent
    /\ place = "rename" => bbfile = Absent
    /\ \A m \in Msgs : fd[m] = "open" \/ del[m] = "open" => bbfile # Absent

(* The line a deletion has found, unless the file was replaced since, is   *)
(* still there, and nobody else's.                                         *)
Aimed(m) == del[m] \in {"found", "open"} /\ m \notin adrift /\ at[m] # 0

AimInv ==
    \A m \in Msgs : Aimed(m) =>
        bbfile # Absent /\ at[m] \in 1..Len(bbfile) /\ bbfile[at[m]] \in {m, Garbage}

(* What has been read of the board file is in the cache, but for garbage. *)
Copied ==
    \A k \in 1..rpos : bbfile[k] # Garbage => \E j \in 1..wpos : cache[j] = bbfile[k]

KeepInv ==
    /\ bbfile # Absent => Live \ In(bbfile) \subseteq exposed
    /\ place = "copy" => IF wpos = -1 THEN exposed = Msgs ELSE Copied
    /\ place \in {"remove", "rename"} => Live \subseteq In(cache) \cup exposed
    /\ place = "down" /\ bbfile = Absent => Live \subseteq exposed

(* A message that was written is not written again. *)
FreshInv ==
    /\ \A m \in acked : fd[m] = "done"
    /\ \A m \in Msgs : del[m] # "idle" => m \in acked
    /\ \A m \in Msgs : del[m] = "stale" => m \in adrift
    /\ deleted \subseteq acked
    /\ deleted \cap (In(bbfile) \cup In(cache)) \subseteq revivable

-----------------------------------------------------------------------------
(* Files *)

LEMMA FileLines ==
    ASSUME NEW f \in Lines
    PROVE  /\ f # Absent /\ Len(f) \in Nat /\ DOMAIN f = 1..Len(f)
           /\ \A k \in 1..Len(f) : f[k] \in Line
           /\ In(f) \subseteq Msgs
           /\ \A m : m \in In(f) <=> m # Garbage /\ \E k \in 1..Len(f) : f[k] = m
<1>1. f # Absent
  BY AbsentAssumption DEF Lines
<1>2. Len(f) \in Nat /\ DOMAIN f = 1..Len(f) /\ \A k \in 1..Len(f) : f[k] \in Line
  BY LenProperties, ElementOfSeq DEF Lines, Line
<1> QED
  BY <1>1, <1>2 DEF In, Line

LEMMA AppendedFile ==
    ASSUME NEW f \in Lines, NEW x \in Line
    PROVE  /\ Append(f, x) \in Lines /\ Len(Append(f, x)) = Len(f) + 1
           /\ \A k \in 1..Len(f) : Append(f, x)[k] = f[k]
           /\ Append(f, x)[Len(f) + 1] = x
           /\ In(Append(f, x)) = In(f) \cup ({x} \ {Garbage})
<1>1. /\ Append(f, x) \in Lines /\ Len(Append(f, x)) = Len(f) + 1
      /\ \A k \in 1..Len(f) : Append(f, x)[k] = f[k]
      /\ Append(f, x)[Len(f) + 1] = x
  BY AppendProperties DEF Lines, Line
<1>2. Len(f) \in Nat
  BY FileLines
<1>3. \A m : m \in In(Append(f, x)) <=> m # Garbage /\ \E k \in 1..(Len(f) + 1) : Append(f, x)[k] = m
  BY <1>1, FileLines
<1>4. \A m : m \in In(f) <=> m # Garbage /\ \E k \in 1..Len(f) : f[k] = m
  BY FileLines
<1>5. \A m : m \in In(Append(f, x)) <=> m \in In(f) \/ (m = x /\ m # Garbage)
  BY <1>1, <1>2, <1>3, <1>4
<1> QED
  BY <1>1, <1>5

(* One line of a file becomes another. *)
LEMMA ChangedFile ==
    ASSUME NEW f \in Lines, NEW i \in 1..Len(f), NEW x \in Line
    PROVE  /\ [f EXCEPT ![i] = x] \in Lines /\ Len([f EXCEPT ![i] = x]) = Len(f)
           /\ In([f EXCEPT ![i] = x]) \subseteq In(f) \cup {x}
<1>1. [f EXCEPT ![i] = x] \in Lines /\ Len([f EXCEPT ![i] = x]) = Len(f)
  BY ExceptSeq DEF Lines, Line
<1>2. \A k \in 1..Len(f) : [f EXCEPT ![i] = x][k] \in {f[k], x}
  BY FileLines
<1> QED
  BY <1>1, <1>2, FileLines

(* Of two ranges from 1 the longer has the other in it. *)
LEMMA NestedRanges ==
    ASSUME NEW a \in Nat, NEW b \in Nat, a <= b
    PROVE  1..a \cup 1..b = 1..b /\ 1..b \cup 1..a = 1..b
OBVIOUS

(* The lines that a deletion covers become garbage. *)
LEMMA OverwrittenFile ==
    ASSUME bbfile \in Lines, NEW last \in Nat, NEW lines, last \in lines,
           lines \subseteq 1..last
    PROVE  /\ Overwritten(lines) \in Lines
           /\ Len(bbfile) <= Len(Overwritten(lines))
           /\ \A k \in 1..Len(bbfile) :
                 Overwritten(lines)[k] = IF k \in lines THEN Garbage ELSE bbfile[k]
           /\ \A k \in 1..Len(Overwritten(lines)) :
                 Overwritten(lines)[k] # Garbage => k \in 1..Len(bbfile)
           /\ In(Overwritten(lines)) \subseteq In(bbfile)
<1> DEFINE g == Overwritten(lines)
<1>1. Len(bbfile) \in Nat /\ DOMAIN bbfile = 1..Len(bbfile)
      /\ \A k \in 1..Len(bbfile) : bbfile[k] \in Line
  BY FileLines
<1>2. UNION {1..j : j \in lines} = 1..last
  <2>1. \A j \in lines : 1..j \subseteq 1..last
    OBVIOUS
  <2>2. \A i \in UNION {1..j : j \in lines} : i \in 1..last
    BY <2>1
  <2>3. \A i \in 1..last : i \in UNION {1..j : j \in lines}
    OBVIOUS
  <2> QED
    BY <2>2, <2>3
<1>3. PICK n \in Nat : /\ n = IF last <= Len(bbfile) THEN Len(bbfile) ELSE last
                       /\ Len(bbfile) <= n
                       /\ 1..Len(bbfile) \cup 1..last = 1..n
  <2>1. Len(bbfile) \in Nat
    BY <1>1
  <2>2. CASE last <= Len(bbfile)
    <3>1. 1..Len(bbfile) \cup 1..last = 1..Len(bbfile)
      BY <2>1, <2>2, NestedRanges
    <3> QED
      BY <2>1, <2>2, <3>1
  <2>3. CASE ~(last <= Len(bbfile))
    <3>1. Len(bbfile) <= last
      BY <2>1, <2>3
    <3>2. 1..Len(bbfile) \cup 1..last = 1..last
      BY <2>1, <3>1, NestedRanges
    <3> QED
      BY <2>3, <3>1, <3>2
  <2> QED
    BY <2>2, <2>3
<1>4. g = [k \in 1..n |->
             IF k \in lines \/ k \notin 1..Len(bbfile) THEN Garbage ELSE bbfile[k]]
  <2>1. DOMAIN bbfile \cup UNION {1..j : j \in lines} = 1..n
    BY <1>1, <1>2, <1>3
  <2>2. DOMAIN bbfile = 1..Len(bbfile)
    BY <1>1
  <2>3. g = [k \in DOMAIN bbfile \cup UNION {1..j : j \in lines} |->
               IF k \in lines \/ k \notin DOMAIN bbfile THEN Garbage ELSE bbfile[k]]
    BY DEF Overwritten
  <2> QED
    BY <2>1, <2>2, <2>3, Zenon
<1>5. g \in [1..n -> Line]
  <2>1. \A k \in 1..n :
           (IF k \in lines \/ k \notin 1..Len(bbfile) THEN Garbage ELSE bbfile[k]) \in Line
    BY <1>1 DEF Line
  <2> QED
    BY <1>4, <2>1
<1>6. g \in Lines /\ Len(g) = n
  <2>1. g \in Seq(Line)
    BY <1>5, SeqDef
  <2>2. DOMAIN g = 1..Len(g) /\ Len(g) \in Nat /\ DOMAIN g = 1..n
    BY <1>4, <2>1, LenProperties
  <2>3. Len(g) = n
    BY <2>1, SeqDef, LenProperties, <1>4, <1>5
  <2> QED
    BY <2>1, <2>3 DEF Lines, Line
<1>7. \A k \in 1..n : g[k] = IF k \in lines \/ k \notin 1..Len(bbfile)
                              THEN Garbage ELSE bbfile[k]
  BY <1>4
<1>8. \A k \in 1..Len(bbfile) : k \in 1..n
  BY <1>1, <1>3
<1> HIDE DEF g
<1>9. \A k \in 1..Len(bbfile) : g[k] = IF k \in lines THEN Garbage ELSE bbfile[k]
  BY <1>7, <1>8
<1>10. In(g) \subseteq In(bbfile)
  <2> SUFFICES ASSUME NEW x \in In(g) PROVE x \in In(bbfile)
    OBVIOUS
  <2>1. PICK k \in 1..n : g[k] = x /\ x # Garbage
    BY <1>6, FileLines
  <2>2. k \in 1..Len(bbfile) /\ bbfile[k] = x
    BY <1>7, <2>1
  <2> QED
    BY <2>1, <2>2, FileLines
<1> QED
  BY <1>3, <1>6, <1>7, <1>9, <1>10 DEF g

LEMMA CoveredLines ==
    ASSUME TypeInv, NEW m \in Msgs, del[m] = "open", NEW lines \in Covered(m)
    PROVE  \E last \in Nat : last \in lines /\ lines \subseteq 1..last
<1>1. at[m] \in Nat /\ bbfile \in Lines
  BY DEF TypeInv, TypeOK
<1>2. Len(bbfile) \in Nat /\ DOMAIN bbfile = 1..Len(bbfile)
  BY <1>1, FileLines
<1>3. CASE at[m] # 0
  <2>1. lines = {at[m]}
    BY <1>3 DEF Covered
  <2> QED
    BY <1>1, <1>3, <2>1
<1>4. CASE at[m] = 0
  <2>1. PICK k \in DOMAIN bbfile \cup {1} : lines = 1..k
    BY <1>4 DEF Covered
  <2>2. k \in Nat /\ k >= 1
    BY <1>2
  <2> QED
    BY <2>1, <2>2
<1> QED
  BY <1>3, <1>4

(* What a deletion does to the file: the line it aimed at is garbage, and  *)
(* so are others, which are on record.                                     *)
LEMMA BlankTyped ==
    ASSUME TypeInv, NEW m \in Msgs, BlankLine(m)
    PROVE  /\ bbfile \in Lines /\ bbfile' \in Lines /\ Len(bbfile) <= Len(bbfile')
           /\ In(bbfile') \subseteq In(bbfile)
           /\ \A k \in 1..Len(bbfile') : bbfile'[k] # Garbage => k \in 1..Len(bbfile)
           /\ exposed \subseteq exposed' /\ exposed' \subseteq Msgs
           /\ \A k \in 1..Len(bbfile) :
                 \/ bbfile'[k] = bbfile[k] /\ k \notin Aim(m)
                 \/ bbfile'[k] = Garbage /\ k \in Aim(m)
                 \/ bbfile'[k] = Garbage /\ bbfile[k] \in {Garbage} \cup exposed'
<1>1. bbfile \in Lines /\ at[m] \in Nat /\ exposed \subseteq Msgs
  BY DEF BlankLine, TypeInv, TypeOK
<1>2. /\ Len(bbfile) \in Nat /\ DOMAIN bbfile = 1..Len(bbfile)
      /\ \A k \in 1..Len(bbfile) : bbfile[k] \in Line
  BY <1>1, FileLines
<1>3. PICK lines \in Covered(m) :
        /\ bbfile' = Overwritten(lines)
        /\ exposed' = IF Aim(m) = {}
                        THEN exposed \cup ({bbfile[k] : k \in lines \cap DOMAIN bbfile}
                                           \ {Garbage})
                        ELSE exposed
  BY DEF BlankLine
<1>4. PICK last \in Nat : last \in lines /\ lines \subseteq 1..last
  BY CoveredLines DEF BlankLine
<1>5. /\ bbfile' \in Lines /\ Len(bbfile) <= Len(bbfile')
      /\ \A k \in 1..Len(bbfile) : bbfile'[k] = IF k \in lines THEN Garbage ELSE bbfile[k]
      /\ In(bbfile') \subseteq In(bbfile)
      /\ \A k \in 1..Len(bbfile') : bbfile'[k] # Garbage => k \in 1..Len(bbfile)
  BY <1>1, <1>3, <1>4, OverwrittenFile
<1>6. Aim(m) # {} => Aim(m) = {at[m]} /\ lines = {at[m]}
  BY <1>3 DEF Aim, Covered
<1>7. exposed \subseteq exposed' /\ exposed' \subseteq Msgs
  BY <1>1, <1>2, <1>3 DEF Line
<1>8. Aim(m) = {} => \A k \in 1..Len(bbfile) :
        k \in lines => bbfile[k] \in {Garbage} \cup exposed'
  BY <1>2, <1>3
<1>9. ASSUME NEW k \in 1..Len(bbfile)
      PROVE  \/ bbfile'[k] = bbfile[k] /\ k \notin Aim(m)
             \/ bbfile'[k] = Garbage /\ k \in Aim(m)
             \/ bbfile'[k] = Garbage /\ bbfile[k] \in {Garbage} \cup exposed'
  <2>1. CASE Aim(m) = {}
    BY <1>5, <1>8, <2>1
  <2>2. CASE Aim(m) # {}
    BY <1>5, <1>6, <2>2
  <2> QED
    BY <2>1, <2>2
<1> QED
  BY <1>1, <1>5, <1>7, <1>9

LEMMA BlankAims ==
    ASSUME TypeInv, AimInv, NEW m \in Msgs, BlankLine(m)
    PROVE  \A k \in 1..Len(bbfile) :
              \/ bbfile'[k] = bbfile[k]
              \/ bbfile'[k] = Garbage /\ bbfile[k] \in {m, Garbage} \cup exposed'
<1>1. ASSUME NEW k \in Aim(m) PROVE bbfile[k] \in {m, Garbage}
  <2>1. Aimed(m) /\ k = at[m]
    BY <1>1 DEF Aim, Aimed, BlankLine
  <2> QED
    BY <2>1 DEF AimInv
<1> QED
  BY <1>1, BlankTyped

(* write at the position reached in the cache. *)
LEMMA PutLine ==
    ASSUME TypeInv, place = "copy", wpos # -1, NEW line \in Line
    PROVE  /\ Put(line) \in Lines /\ wpos + 1 \in Nat /\ wpos + 1 <= Len(Put(line))
           /\ \A j \in 1..wpos : Put(line)[j] = cache[j]
           /\ Put(line)[wpos + 1] = line
           /\ In(Put(line)) \subseteq In(cache) \cup {line}
<1>1. cache \in Lines /\ wpos \in Nat /\ wpos <= Len(cache) /\ Len(cache) \in Nat
  BY FileLines DEF TypeInv, TypeOK
<1>2. CASE wpos < Len(cache)
  <2> DEFINE i == wpos + 1
             g == [cache EXCEPT ![i] = line]
  <2>1. i \in 1..Len(cache) /\ Put(line) = g
    BY <1>1, <1>2 DEF Put
  <2>2. g \in Lines /\ Len(g) = Len(cache) /\ In(g) \subseteq In(cache) \cup {line}
    BY <1>1, <2>1, ChangedFile
  <2>3. g[i] = line /\ \A j \in 1..Len(cache) : j # i => g[j] = cache[j]
    BY <1>1, <2>1, FileLines
  <2>4. \A j \in 1..wpos : j \in 1..Len(cache) /\ j # i
    BY <1>1, <2>1
  <2> HIDE DEF g
  <2>5. /\ Put(line) \in Lines /\ wpos + 1 <= Len(Put(line))
        /\ Put(line)[wpos + 1] = line /\ In(Put(line)) \subseteq In(cache) \cup {line}
    BY <1>1, <1>2, <2>1, <2>2, <2>3
  <2>6. \A j \in 1..wpos : Put(line)[j] = cache[j]
    BY <2>1, <2>3, <2>4
  <2> QED
    BY <1>1, <2>5, <2>6
<1>3. CASE ~(wpos < Len(cache))
  <2>1. Put(line) = Append(cache, line) /\ wpos = Len(cache)
    BY <1>1, <1>3 DEF Put
  <2> QED
    BY <1>1, <2>1, AppendedFile
<1> QED
  BY <1>2, <1>3

LEMMA UseTyped ==
    ASSUME TypeInv, NEW m \in Msgs, OpenToAppend(m) \/ Append1(m) \/ Delete(m)
    PROVE  TypeInv'
<1>1. CASE OpenToAppend(m)
  BY <1>1 DEF OpenToAppend, TypeInv, TypeOK, files, deletion, history
<1>2. CASE Append1(m)
  <2>1. /\ bbfile' \in Lines \cup {Absent}
        /\ (bbfile' = Absent <=> bbfile = Absent)
        /\ bbfile # Absent => Len(bbfile) \in Nat /\ Len(bbfile') \in Nat
                                /\ Len(bbfile) <= Len(bbfile')
    <3>1. CASE fd[m] = "open"
      <4>1. bbfile \in Lines /\ m \in Line /\ bbfile' = Append(bbfile, m)
        BY <1>2, <3>1 DEF Append1, TypeInv, TypeOK, Line
      <4>2. bbfile' \in Lines /\ Len(bbfile') = Len(bbfile) + 1
        BY <4>1, AppendedFile
      <4>3. bbfile # Absent /\ bbfile' # Absent /\ Len(bbfile) \in Nat
        BY <4>1, <4>2, FileLines
      <4> QED
        BY <4>2, <4>3
    <3>2. CASE fd[m] # "open"
      BY <1>2, <3>2, FileLines DEF Append1, TypeInv, TypeOK
    <3> QED
      BY <3>1, <3>2
  <2>2. /\ UNCHANGED <<cache, place, rpos, wpos, del, at, adrift, rounds, deleted, revivable>>
        /\ fd' = [fd EXCEPT ![m] = "done"]
        /\ acked' \in SUBSET Msgs /\ exposed' \in SUBSET Msgs
    BY <1>2 DEF Append1, deletion, TypeInv, TypeOK
  <2> QED
    BY <2>1, <2>2 DEF TypeInv, TypeOK
<1>3. CASE Seek(m)
  <2>1. at' \in [Msgs -> Nat]
    <3>1. PICK k \in Places(m) : at' = [at EXCEPT ![m] = k]
      BY <1>3 DEF Seek
    <3>2. k \in Nat
      <4>1. CASE m \in In(bbfile)
        <5>1. bbfile \in Lines
          BY <4>1 DEF In, TypeInv, TypeOK
        <5> QED
          BY <4>1, <5>1, FileLines DEF Places
      <4> QED
        BY <4>1 DEF Places
    <3> QED
      BY <3>1, <3>2 DEF TypeInv, TypeOK
  <2> QED
    BY <1>3, <2>1 DEF Seek, files, history, TypeInv, TypeOK
<1>4. CASE OpenToBlank(m)
  BY <1>4 DEF OpenToBlank, files, history, TypeInv, TypeOK
<1>5. CASE OpenFails(m) \/ BlankInVain(m)
  BY <1>5 DEF OpenFails, BlankInVain, Over, files, TypeInv, TypeOK
<1>6. CASE BlankLine(m)
  <2>1. /\ bbfile' \in Lines /\ bbfile' # Absent
        /\ Len(bbfile) \in Nat /\ Len(bbfile') \in Nat /\ Len(bbfile) <= Len(bbfile')
        /\ exposed' \in SUBSET Msgs
    BY <1>6, BlankTyped, FileLines
  <2>2. /\ UNCHANGED <<cache, place, rpos, wpos, fd, rounds, acked>>
        /\ del' = [del EXCEPT ![m] = "idle"] /\ at' = [at EXCEPT ![m] = 0]
        /\ adrift' \in SUBSET Msgs
        /\ deleted' \in SUBSET Msgs /\ revivable' \in SUBSET Msgs
    BY <1>6 DEF BlankLine, Over, TypeInv, TypeOK
  <2>3. bbfile # Absent
    BY <1>6 DEF BlankLine, TypeInv
  <2> QED
    BY <2>1, <2>2, <2>3 DEF TypeInv, TypeOK
<1> QED
  BY <1>1, <1>2, <1>3, <1>4, <1>5, <1>6 DEF Delete

LEMMA EmptyFile == <<>> \in Lines /\ <<>> # Absent /\ Len(<<>>) = 0 /\ In(<<>>) = {}
<1>1. <<>> \in Lines
  BY DEF Lines
<1> QED
  BY <1>1, FileLines

LEMMA TypeInit == Init => TypeInv
<1> SUFFICES ASSUME Init PROVE TypeInv
  OBVIOUS
<1>1. Initially \in Lines /\ Initially # Absent /\ In(Initially) \subseteq Msgs
  BY LinesAssumption, FileLines DEF Lines
<1> QED
  BY <1>1, LimitsAssumption DEF Init, TypeInv, TypeOK

LEMMA TypeStep == TypeInv /\ [Next]_vars => TypeInv'
<1> SUFFICES ASSUME TypeInv, [Next]_vars PROVE TypeInv'
  OBVIOUS
<1>1. ASSUME NEW m \in Msgs, OpenToAppend(m) \/ Append1(m) \/ Delete(m) PROVE TypeInv'
  BY <1>1, UseTyped
<1>2. ASSUME OpenBoth PROVE TypeInv'
  <2>1. bbfile \in Lines /\ Len(bbfile) \in Nat
    BY <1>2, FileLines DEF OpenBoth, TypeInv, TypeOK
  <2>2. cache' \in Lines \cup {Absent} /\ wpos' \in Nat \cup {-1}
    BY <1>2, EmptyFile DEF OpenBoth, TypeInv, TypeOK
  <2>3. wpos' # -1 => cache' # Absent /\ wpos' <= Len(cache')
    <3>1. CASE wpos' # -1
      <4>1. wpos' = 0 /\ cache' \in Lines
        BY <1>2, <3>1, EmptyFile DEF OpenBoth, TypeInv, TypeOK
      <4> QED
        BY <4>1, FileLines
    <3> QED
      BY <3>1
  <2> QED
    BY <1>2, <2>1, <2>2, <2>3 DEF OpenBoth, deletion, TypeInv, TypeOK
<1>3. ASSUME CopyLine PROVE TypeInv'
  <2>1. /\ bbfile \in Lines /\ Len(bbfile) \in Nat /\ rpos < Len(bbfile) /\ rpos \in Nat
        /\ bbfile[rpos + 1] \in Line
    BY <1>3, FileLines DEF CopyLine, TypeInv, TypeOK
  <2>2. /\ cache' \in Lines \cup {Absent} /\ wpos' \in Nat \cup {-1}
        /\ wpos' # -1 => cache' # Absent /\ wpos' <= Len(cache')
    <3>1. CASE UNCHANGED <<cache, wpos>>
      BY <1>3, <3>1 DEF CopyLine, TypeInv, TypeOK
    <3>2. CASE cache' = Put(bbfile[rpos + 1]) /\ wpos = -1 /\ wpos' = -1
      BY <3>2 DEF Put, TypeInv, TypeOK
    <3>3. CASE cache' = Put(bbfile[rpos + 1]) /\ wpos # -1 /\ wpos' = wpos + 1
      BY <1>3, <2>1, <3>3, PutLine, FileLines DEF CopyLine
    <3> QED
      BY <1>3, <3>1, <3>2, <3>3 DEF CopyLine
  <2> QED
    BY <1>3, <2>1, <2>2 DEF CopyLine, deletion, history, TypeInv, TypeOK
<1>4. ASSUME CopyEnds PROVE TypeInv'
  BY <1>4 DEF CopyEnds, files, deletion, history, TypeInv, TypeOK
<1>5. ASSUME Unlink PROVE TypeInv'
  BY <1>5 DEF Unlink, history, TypeInv, TypeOK
<1>6. ASSUME Rename PROVE TypeInv'
  <2>1. bbfile' \in Lines /\ bbfile' # Absent /\ cache' \in Lines \cup {Absent}
    BY <1>6, EmptyFile DEF Rename, TypeInv, TypeOK
  <2>2. exposed' \in SUBSET Msgs /\ rounds' \in 0..Rounds
    BY <1>6, LimitsAssumption DEF Rename, TypeInv, TypeOK
  <2> QED
    BY <1>6, <2>1, <2>2 DEF Rename, deletion, TypeInv, TypeOK
<1>7. ASSUME Crash PROVE TypeInv'
  <2>1. In(cache) \subseteq Msgs
    BY FileLines DEF TypeInv, TypeOK, In
  <2> QED
    BY <1>7, <2>1 DEF Crash, files, TypeInv, TypeOK
<1>8. ASSUME Restart PROVE TypeInv'
  <2>1. rounds' \in 0..Rounds /\ bbfile' \in Lines /\ bbfile' # Absent
    BY <1>8, EmptyFile, LimitsAssumption DEF Restart, TypeInv, TypeOK
  <2> QED
    BY <1>8, <2>1 DEF Restart, deletion, history, TypeInv, TypeOK
<1>9. CASE UNCHANGED vars
  BY <1>9 DEF vars, TypeInv, TypeOK
<1> QED
  BY <1>1, <1>2, <1>3, <1>4, <1>5, <1>6, <1>7, <1>8, <1>9 DEF Next, Use, Housekeeping

(* housekeep_descriptor keeps the two files files, and its positions inside *)
(* them, whatever faults and restarts there are (descriptor.cc:446-516).   *)
THEOREM TypeCorrect == Spec => []TypeOK
<1>1. TypeInv => TypeOK
  BY DEF TypeInv
<1> QED
  BY <1>1, TypeInit, TypeStep, PTL DEF Spec

-----------------------------------------------------------------------------
(* Deletions *)

(* A step that leaves lines and deletions alone, or lets one be over. *)
LEMMA AimKeeps ==
    ASSUME AimInv, \A m \in Msgs : Aimed(m)' => Aimed(m) /\ at'[m] = at[m],
           bbfile # Absent => /\ bbfile' # Absent /\ Len(bbfile) \in Nat
                              /\ Len(bbfile') \in Nat /\ Len(bbfile) <= Len(bbfile')
                              /\ \A k \in 1..Len(bbfile) : bbfile'[k] \in {bbfile[k], Garbage}
    PROVE  AimInv'
BY DEF AimInv

LEMMA AimStep == TypeInv /\ AimInv /\ [Next]_vars => AimInv'
<1> SUFFICES ASSUME TypeInv, AimInv, [Next]_vars PROVE AimInv'
  OBVIOUS
<1>0. /\ del \in [Msgs -> {"idle", "found", "open", "stale"}]
      /\ at \in [Msgs -> Nat]
      /\ bbfile # Absent => bbfile \in Lines /\ Len(bbfile) \in Nat
  BY FileLines DEF TypeInv, TypeOK
<1>1. ASSUME UNCHANGED <<bbfile, del, at, adrift>> PROVE AimInv'
  BY <1>0, <1>1, AimKeeps DEF Aimed
<1>2. ASSUME NEW m \in Msgs, OpenToAppend(m) PROVE AimInv'
  BY <1>1, <1>2 DEF OpenToAppend, files, deletion
<1>3. ASSUME NEW m \in Msgs, Append1(m) PROVE AimInv'
  <2>1. UNCHANGED <<del, at, adrift>>
    BY <1>3 DEF Append1, deletion
  <2>2. CASE fd[m] = "open"
    <3>1. bbfile \in Lines /\ m \in Line /\ bbfile' = Append(bbfile, m)
      BY <1>3, <2>2 DEF Append1, TypeInv, TypeOK, Line
    <3>2. /\ bbfile' \in Lines /\ Len(bbfile') = Len(bbfile) + 1
          /\ \A k \in 1..Len(bbfile) : bbfile'[k] = bbfile[k]
      BY <3>1, AppendedFile
    <3>3. bbfile' # Absent /\ Len(bbfile) \in Nat /\ Len(bbfile') \in Nat
      BY <3>1, <3>2, FileLines
    <3> QED
      BY <2>1, <3>2, <3>3, AimKeeps DEF Aimed
  <2>3. CASE fd[m] # "open"
    BY <1>1, <1>3, <2>1, <2>3 DEF Append1
  <2> QED
    BY <2>2, <2>3
<1>4. ASSUME NEW m \in Msgs, Seek(m) PROVE AimInv'
  <2>1. PICK k \in Places(m) : at' = [at EXCEPT ![m] = k]
    BY <1>4 DEF Seek
  <2>2. /\ UNCHANGED <<bbfile, adrift>> /\ at'[m] = k
        /\ \A q \in Msgs : q # m => del'[q] = del[q] /\ at'[q] = at[q]
    BY <1>0, <1>4, <2>1 DEF Seek, files
  <2>3. k # 0 => bbfile # Absent /\ k \in 1..Len(bbfile) /\ bbfile[k] = m
    <3>1. CASE m \in In(bbfile)
      <4>1. bbfile # Absent /\ bbfile \in Lines
        BY <1>0, <3>1 DEF In
      <4> QED
        BY <3>1, <4>1, FileLines DEF Places
    <3> QED
      BY <3>1 DEF Places
  <2>4. \A q \in Msgs : q # m /\ Aimed(q)' => Aimed(q)
    BY <2>2 DEF Aimed
  <2>5. Aimed(m)' => k # 0
    BY <2>2 DEF Aimed
  <2> QED
    BY <2>2, <2>3, <2>4, <2>5 DEF AimInv
<1>5. ASSUME NEW m \in Msgs, OpenToBlank(m) PROVE AimInv'
  <2>1. UNCHANGED <<bbfile, at, adrift>> /\ del[m] = "found"
        /\ \A q \in Msgs : q # m => del'[q] = del[q]
    BY <1>0, <1>5 DEF OpenToBlank, files
  <2> QED
    BY <1>0, <2>1, AimKeeps DEF Aimed
<1>6. ASSUME NEW m \in Msgs, Over(m) PROVE \A q \in Msgs : Aimed(q)' => Aimed(q) /\ at'[q] = at[q]
  <2>1. /\ del'[m] = "idle" /\ adrift' = adrift \ {m}
        /\ \A q \in Msgs : q # m => del'[q] = del[q] /\ at'[q] = at[q]
    BY <1>0, <1>6 DEF Over
  <2> QED
    BY <2>1 DEF Aimed
<1>7. ASSUME NEW m \in Msgs, OpenFails(m) \/ BlankInVain(m) PROVE AimInv'
  <2>1. bbfile' = bbfile /\ Over(m)
    BY <1>7 DEF OpenFails, BlankInVain, files
  <2> QED
    BY <1>0, <1>6, <2>1, AimKeeps
<1>8. ASSUME NEW m \in Msgs, BlankLine(m) PROVE AimInv'
  <2>1. /\ bbfile \in Lines /\ bbfile' \in Lines /\ Len(bbfile) <= Len(bbfile')
        /\ \A k \in 1..Len(bbfile) : bbfile'[k] \in {bbfile[k], Garbage}
    BY <1>8, BlankTyped
  <2>2. bbfile' # Absent /\ Len(bbfile) \in Nat /\ Len(bbfile') \in Nat
    BY <2>1, FileLines
  <2>3. Over(m)
    BY <1>8 DEF BlankLine
  <2> QED
    BY <1>6, <2>1, <2>2, <2>3, AimKeeps
<1>9. ASSUME OpenBoth \/ CopyLine \/ CopyEnds PROVE AimInv'
  BY <1>1, <1>9 DEF OpenBoth, CopyLine, CopyEnds, files, deletion
<1>10. ASSUME Unlink PROVE AimInv'
  <2>1. \A m \in Msgs : m \notin adrift' => del'[m] = "idle"
    BY <1>0, <1>10 DEF Unlink
  <2> QED
    BY <2>1 DEF AimInv, Aimed
<1>11. ASSUME Rename \/ Restart PROVE AimInv'
  <2>1. UNCHANGED <<del, at, adrift>> /\ (bbfile # Absent => bbfile' = bbfile)
    BY <1>11 DEF Rename, Restart, deletion, TypeInv
  <2> QED
    BY <1>0, <2>1, AimKeeps DEF Aimed
<1>12. ASSUME Crash PROVE AimInv'
  BY <1>12 DEF Crash, AimInv, Aimed
<1>13. CASE UNCHANGED vars
  BY <1>1, <1>13 DEF vars
<1> QED
  BY <1>2, <1>3, <1>4, <1>5, <1>7, <1>8, <1>9, <1>10, <1>11, <1>12, <1>13
  DEF Next, Use, Delete, Housekeeping

LEMMA AimInit == Init => AimInv
  BY DEF Init, AimInv, Aimed

-----------------------------------------------------------------------------
(* What becomes of the messages *)

(* A thread appends a line, which is lost if the file goes or is gone. *)
LEMMA AppendKeeps ==
    ASSUME TypeInv, KeepInv, NEW m \in Msgs, Append1(m)
    PROVE  KeepInv'
<1>1. /\ UNCHANGED <<cache, place, rpos, wpos, deleted>>
      /\ Live' \subseteq Live \cup {m} /\ exposed \subseteq exposed'
      /\ place = "remove" => m \in exposed'
      /\ fd[m] = "stale" => m \in exposed'
      /\ fd[m] \in {"open", "stale"} /\ place # "down"
  BY DEF Append1, Live, MayUse
<1>2. CASE fd[m] = "open"
  <2>1. bbfile \in Lines /\ bbfile # Absent /\ m \in Line /\ m # Garbage
    BY <1>2, LinesAssumption DEF TypeInv, TypeOK, Line
  <2>2. bbfile' = Append(bbfile, m)
    BY <1>2 DEF Append1
  <2>3. /\ bbfile' # Absent /\ In(bbfile') = In(bbfile) \cup {m}
        /\ \A k \in 1..Len(bbfile) : bbfile'[k] = bbfile[k]
        /\ Len(bbfile) \in Nat
    <3>1. /\ bbfile' \in Lines /\ In(bbfile') = In(bbfile) \cup ({m} \ {Garbage})
          /\ \A k \in 1..Len(bbfile) : bbfile'[k] = bbfile[k]
      BY <2>1, <2>2, AppendedFile
    <3> QED
      BY <2>1, <3>1, FileLines
  <2>4. place = "copy" => rpos \in Nat /\ rpos <= Len(bbfile)
    BY DEF TypeInv, TypeOK
  <2>5. place # "rename"
    BY <2>1 DEF TypeInv
  <2>6. place = "copy" => IF wpos' = -1 THEN exposed' = Msgs ELSE Copied'
    <3>1. place = "copy" /\ wpos = -1 => exposed' = Msgs
      BY <1>1 DEF KeepInv, Append1, TypeInv, TypeOK
    <3>2. place = "copy" /\ wpos # -1 => Copied'
      BY <1>1, <2>3, <2>4 DEF KeepInv, Copied
    <3> QED
      BY <1>1, <3>1, <3>2
  <2> QED
    BY <1>1, <2>1, <2>3, <2>5, <2>6 DEF KeepInv
<1>3. CASE fd[m] # "open"
  <2>1. bbfile' = bbfile /\ m \in exposed'
    BY <1>1, <1>3 DEF Append1
  <2>2. place = "copy" => IF wpos' = -1 THEN exposed' = Msgs ELSE Copied'
    BY <1>1, <2>1 DEF KeepInv, Copied, Append1, TypeInv, TypeOK
  <2> QED
    BY <1>1, <2>1, <2>2 DEF KeepInv
<1> QED
  BY <1>2, <1>3

(* Nobody loses a line to a deletion but its message, and those on record. *)
LEMMA BlankKeeps ==
    ASSUME TypeInv, AimInv, KeepInv, NEW m \in Msgs, BlankLine(m)
    PROVE  KeepInv'
<1>1. /\ bbfile \in Lines /\ bbfile' \in Lines /\ exposed \subseteq exposed'
      /\ exposed' \subseteq Msgs /\ Len(bbfile) <= Len(bbfile')
  BY BlankTyped
<1>2. bbfile # Absent /\ bbfile' # Absent /\ Len(bbfile) \in Nat /\ Len(bbfile') \in Nat
  BY <1>1, FileLines
<1>3. \A k \in 1..Len(bbfile) :
         \/ bbfile'[k] = bbfile[k]
         \/ bbfile'[k] = Garbage /\ bbfile[k] \in {m, Garbage} \cup exposed'
  BY BlankAims
<1>4. UNCHANGED <<cache, place, rpos, wpos>> /\ Live' = Live \ {m}
  BY DEF BlankLine, Over, Live
<1>5. place = "copy" => rpos \in Nat /\ rpos <= Len(bbfile)
  BY DEF TypeInv, TypeOK
<1>6. In(bbfile) \subseteq In(bbfile') \cup {m} \cup exposed'
  <2> SUFFICES ASSUME NEW x \in In(bbfile), x # m, x \notin exposed' PROVE x \in In(bbfile')
    OBVIOUS
  <2>1. PICK k \in 1..Len(bbfile) : bbfile[k] = x /\ x # Garbage
    BY <1>1, FileLines
  <2>2. bbfile'[k] = x /\ k \in 1..Len(bbfile')
    BY <1>1, <1>2, <1>3, <2>1
  <2> QED
    BY <1>1, <2>1, <2>2, FileLines
<1>7. place = "copy" => IF wpos' = -1 THEN exposed' = Msgs ELSE Copied'
  <2>1. place = "copy" /\ wpos = -1 => exposed' = Msgs
    BY <1>1 DEF KeepInv
  <2>2. place = "copy" /\ wpos # -1 => Copied'
    BY <1>2, <1>3, <1>4, <1>5 DEF KeepInv, Copied
  <2> QED
    BY <1>4, <2>1, <2>2
<1> QED
  BY <1>1, <1>2, <1>4, <1>6, <1>7 DEF KeepInv

(* One more line has been read, and written unless it is garbage. *)
LEMMA CopyKeeps ==
    ASSUME TypeInv, KeepInv, CopyLine
    PROVE  KeepInv'
<1>1. /\ UNCHANGED <<bbfile, place, acked, deleted, exposed>>
      /\ place = "copy" /\ rpos' = rpos + 1 /\ rpos \in Nat
      /\ bbfile \in Lines /\ bbfile # Absent
  BY DEF CopyLine, history, TypeInv, TypeOK
<1>2. bbfile[rpos + 1] \in Line
  BY <1>1, FileLines DEF CopyLine
<1>3. CASE wpos = -1
  BY <1>1, <1>3 DEF CopyLine, KeepInv, Live
<1>4. CASE wpos # -1 /\ bbfile[rpos + 1] = Garbage
  <2>1. UNCHANGED <<cache, wpos>>
    BY <1>4 DEF CopyLine
  <2>2. \A k \in 1..(rpos + 1) : k \in 1..rpos \/ k = rpos + 1
    BY <1>1
  <2>3. Copied'
    BY <1>1, <1>4, <2>1, <2>2 DEF KeepInv, Copied
  <2> QED
    BY <1>1, <1>4, <2>1, <2>3 DEF KeepInv, Live
<1>5. CASE wpos # -1 /\ bbfile[rpos + 1] # Garbage
  <2>1. cache' = Put(bbfile[rpos + 1]) /\ wpos' = wpos + 1 /\ wpos \in Nat
    BY <1>5 DEF CopyLine, TypeInv, TypeOK
  <2>2. /\ \A j \in 1..wpos : cache'[j] = cache[j]
        /\ cache'[wpos + 1] = bbfile[rpos + 1]
    BY <1>1, <1>2, <1>5, <2>1, PutLine
  <2>3. ASSUME NEW k \in 1..(rpos + 1), bbfile[k] # Garbage
        PROVE  \E j \in 1..(wpos + 1) : cache'[j] = bbfile[k]
    <3>1. CASE k = rpos + 1
      BY <2>1, <2>2, <3>1
    <3>2. CASE k \in 1..rpos
      <4>1. PICK j \in 1..wpos : cache[j] = bbfile[k]
        BY <1>1, <1>5, <2>3, <3>2 DEF KeepInv, Copied
      <4> QED
        BY <2>1, <2>2, <4>1
    <3> QED
      BY <1>1, <3>1, <3>2
  <2>4. Copied' /\ wpos' # -1
    BY <1>1, <2>1, <2>3 DEF Copied
  <2> QED
    BY <1>1, <2>4 DEF KeepInv, Live
<1> QED
  BY <1>3, <1>4, <1>5

(* At the end of the board file the cache has everything that is in it. *)
LEMMA EndKeeps ==
    ASSUME TypeInv, KeepInv, CopyEnds
    PROVE  KeepInv'
<1>1. /\ UNCHANGED <<bbfile, cache, acked, deleted, exposed>>
      /\ place = "copy" /\ place' = "remove" /\ rpos \in Nat
      /\ bbfile \in Lines /\ bbfile # Absent
      /\ Len(bbfile) \in Nat /\ Len(bbfile) <= rpos
  BY FileLines DEF CopyEnds, files, history, TypeInv, TypeOK
<1>2. Live \subseteq In(cache) \cup exposed
  <2>1. CASE wpos = -1
    BY <1>1, <2>1 DEF KeepInv, Live, TypeInv, TypeOK
  <2>2. CASE wpos # -1
    <3>1. cache \in Lines /\ wpos \in Nat /\ wpos <= Len(cache) /\ Len(cache) \in Nat
      BY <1>1, <2>2, FileLines DEF TypeInv, TypeOK
    <3>2. ASSUME NEW m \in In(bbfile) PROVE m \in In(cache)
      <4>1. PICK k \in 1..Len(bbfile) : bbfile[k] = m /\ m # Garbage
        BY <1>1, <3>2, FileLines
      <4>2. PICK j \in 1..wpos : cache[j] = m
        BY <1>1, <2>2, <4>1 DEF KeepInv, Copied
      <4> QED
        BY <3>1, <4>1, <4>2, FileLines
    <3> QED
      BY <1>1, <3>2 DEF KeepInv
  <2> QED
    BY <2>1, <2>2
<1> QED
  BY <1>1, <1>2 DEF KeepInv, Live

LEMMA KeepStep == TypeInv /\ AimInv /\ KeepInv /\ [Next]_vars => KeepInv'
<1> SUFFICES ASSUME TypeInv, AimInv, KeepInv, [Next]_vars PROVE KeepInv'
  OBVIOUS
<1>1. ASSUME NEW m \in Msgs, OpenToAppend(m) PROVE KeepInv'
  BY <1>1 DEF OpenToAppend, KeepInv, Copied, Live, files, history
<1>2. ASSUME NEW m \in Msgs, Append1(m) \/ Delete(m) PROVE KeepInv'
  <2>1. ASSUME Seek(m) \/ OpenToBlank(m) PROVE KeepInv'
    BY <2>1 DEF Seek, OpenToBlank, KeepInv, Copied, Live, files, history
  <2>2. ASSUME OpenFails(m) \/ BlankInVain(m) PROVE KeepInv'
    <3>1. /\ UNCHANGED <<bbfile, cache, place, rpos, wpos, exposed>>
          /\ Live' \subseteq Live
      BY <2>2 DEF OpenFails, BlankInVain, Over, Live, files
    <3> QED
      BY <3>1 DEF KeepInv, Copied
  <2> QED
    BY <1>2, <2>1, <2>2, AppendKeeps, BlankKeeps DEF Delete
<1>3. ASSUME OpenBoth PROVE KeepInv'
  <2>1. wpos' = 0 \/ (wpos' = -1 /\ exposed' = Msgs)
    BY <1>3 DEF OpenBoth
  <2>2. Copied'
    BY <1>3 DEF OpenBoth, Copied
  <2>3. exposed \subseteq exposed'
    BY <1>3 DEF OpenBoth, TypeInv, TypeOK
  <2> QED
    BY <1>3, <2>1, <2>2, <2>3 DEF OpenBoth, KeepInv, Live
<1>4. ASSUME CopyLine \/ CopyEnds PROVE KeepInv'
  BY <1>4, CopyKeeps, EndKeeps
<1>5. ASSUME Unlink PROVE KeepInv'
  BY <1>5 DEF Unlink, KeepInv, Live, history
<1>6. ASSUME Rename PROVE KeepInv'
  <2>1. Live \subseteq Msgs /\ Live' = Live /\ place' = "serving"
    BY <1>6 DEF Rename, Live, TypeInv, TypeOK
  <2>2. Live \ In(bbfile') \subseteq exposed'
    BY <1>6, <2>1 DEF Rename, KeepInv
  <2> QED
    BY <2>1, <2>2 DEF KeepInv
<1>7. ASSUME Crash PROVE KeepInv'
  <2>1. /\ UNCHANGED <<bbfile, cache, acked, deleted>> /\ place' = "down"
        /\ exposed \subseteq exposed'
        /\ bbfile = Absent => In(cache) \subseteq exposed'
        /\ bbfile = Absent => place \in {"remove", "rename"}
    BY <1>7 DEF Crash, files, TypeInv, TypeOK
  <2> QED
    BY <2>1 DEF KeepInv, Live
<1>8. ASSUME Restart PROVE KeepInv'
  <2>1. In(bbfile) \subseteq In(bbfile') \/ Live \subseteq exposed
    BY <1>8 DEF Restart, KeepInv
  <2> QED
    BY <1>8, <2>1 DEF Restart, KeepInv, Live, history
<1>9. CASE UNCHANGED vars
  BY <1>9 DEF vars, KeepInv, Copied, Live
<1> QED
  BY <1>1, <1>2, <1>3, <1>4, <1>5, <1>6, <1>7, <1>8, <1>9 DEF Next, Use, Housekeeping

LEMMA KeepInit == Init => KeepInv
  BY DEF Init, KeepInv, Live

(* descriptor.cc:446-505: an acknowledged message that nobody deleted is   *)
(* in the board file or in the cache, at every moment and after every      *)
(* crash, and in the board file itself while the server serves, unless it  *)
(* was exposed.                                                            *)
THEOREM NothingLost == Spec => []LostOnlyExposed
<1>1. TypeInv /\ KeepInv => LostOnlyExposed
  BY DEF TypeInv, TypeOK, KeepInv, LostOnlyExposed
<1> QED
  BY <1>1, TypeInit, TypeStep, AimInit, AimStep, KeepInit, KeepStep, PTL DEF Spec

-----------------------------------------------------------------------------
(* Deleted messages *)

LEMMA FreshInit == Init => FreshInv
<1> SUFFICES ASSUME Init PROVE FreshInv
  OBVIOUS
<1>1. Initially \in Lines /\ In(Initially) \subseteq Msgs
  BY LinesAssumption, FileLines DEF Lines
<1> QED
  BY <1>1 DEF Init, FreshInv

LEMMA FreshStep == TypeInv /\ FreshInv /\ [Next]_vars => FreshInv'
<1> SUFFICES ASSUME TypeInv, FreshInv, [Next]_vars PROVE FreshInv'
  OBVIOUS
<1>0. /\ fd \in [Msgs -> {"new", "open", "stale", "done"}] /\ acked \subseteq Msgs
      /\ del \in [Msgs -> {"idle", "found", "open", "stale"}]
  BY DEF TypeInv, TypeOK
<1>1. ASSUME NEW m \in Msgs, OpenToAppend(m) PROVE FreshInv'
  BY <1>0, <1>1 DEF OpenToAppend, FreshInv, files, deletion, history
<1>2. ASSUME NEW m \in Msgs, Append1(m) PROVE FreshInv'
  <2>1. m \notin acked /\ m \notin deleted /\ acked' = acked \cup {m}
    BY <1>2 DEF Append1, FreshInv
  <2>2. In(bbfile') \subseteq In(bbfile) \cup {m}
    <3>1. CASE fd[m] = "open"
      <4>1. bbfile \in Lines /\ m \in Line /\ bbfile' = Append(bbfile, m)
        BY <1>2, <3>1 DEF Append1, TypeInv, TypeOK, Line
      <4>2. In(bbfile') = In(bbfile) \cup ({m} \ {Garbage})
        BY <4>1, AppendedFile
      <4> QED
        BY <4>2
    <3>2. CASE fd[m] # "open"
      BY <1>2, <3>2 DEF Append1
    <3> QED
      BY <3>1, <3>2
  <2>3. UNCHANGED <<cache, del, adrift, deleted, revivable>> /\ fd' = [fd EXCEPT ![m] = "done"]
    BY <1>2 DEF Append1, deletion
  <2> QED
    BY <1>0, <2>1, <2>2, <2>3 DEF FreshInv
<1>3. ASSUME NEW m \in Msgs, Delete(m) PROVE FreshInv'
  <2>1. ASSUME Seek(m) \/ OpenToBlank(m) PROVE FreshInv'
    <3>1. /\ UNCHANGED <<bbfile, cache, fd, adrift, acked, deleted, revivable>>
          /\ \A q \in Msgs : q # m => del'[q] = del[q]
          /\ del'[m] \in {"found", "open"}
      BY <1>0, <2>1 DEF Seek, OpenToBlank, files, history
    <3>2. m \in acked
      BY <2>1 DEF Seek, OpenToBlank, Deletable, FreshInv
    <3> QED
      BY <3>1, <3>2 DEF FreshInv
  <2>2. ASSUME Over(m), UNCHANGED <<cache, fd, acked>>, m \in acked,
               In(bbfile') \subseteq In(bbfile), m \in In(bbfile') => m \in revivable'
        PROVE  FreshInv'
    <3>1. /\ deleted' = deleted \cup {m} /\ revivable \subseteq revivable'
          /\ (m \in In(cache) => m \in revivable')
          /\ \A q \in Msgs : q # m => del'[q] = del[q]
          /\ del'[m] = "idle" /\ adrift' = adrift \ {m}
      BY <1>0, <2>2 DEF Over
    <3> QED
      BY <2>2, <3>1 DEF FreshInv
  <2>3. ASSUME OpenFails(m) \/ BlankInVain(m) PROVE FreshInv'
    <3>1. Over(m) /\ UNCHANGED <<bbfile, cache, fd, acked>> /\ m \in acked
      BY <2>3 DEF OpenFails, BlankInVain, files, FreshInv
    <3>2. m \in In(bbfile) => m \in revivable'
      <4>1. ASSUME m \in In(bbfile)
            PROVE  bbfile # Absent /\ \E k \in DOMAIN bbfile : bbfile[k] = m
        BY <4>1 DEF In
      <4>2. m \in In(bbfile) => Aim(m) = {}
        BY <2>3, <4>1 DEF OpenFails, BlankInVain, Aim, FreshInv
      <4> QED
        BY <3>1, <4>1, <4>2 DEF Over
    <3> QED
      BY <2>2, <3>1, <3>2
  <2>4. ASSUME BlankLine(m) PROVE FreshInv'
    <3>1. Over(m) /\ UNCHANGED <<cache, fd, acked>> /\ m \in acked
      BY <2>4 DEF BlankLine, FreshInv
    <3>2. bbfile \in Lines /\ bbfile' \in Lines /\ In(bbfile') \subseteq In(bbfile)
      BY <2>4, BlankTyped
    <3>3. ASSUME m \in In(bbfile') PROVE m \in revivable'
      <4>1. PICK k \in 1..Len(bbfile') : bbfile'[k] = m /\ m # Garbage
        BY <3>2, <3>3, FileLines
      <4>2. k \in 1..Len(bbfile)
        BY <2>4, <4>1, BlankTyped
      <4>3. bbfile[k] = m /\ k \notin Aim(m)
        BY <2>4, <4>1, <4>2, BlankTyped
      <4>4. bbfile # Absent /\ k \in DOMAIN bbfile
        BY <3>2, <4>2, FileLines
      <4> QED
        BY <3>1, <4>3, <4>4 DEF Over
    <3> QED
      BY <2>2, <3>1, <3>2, <3>3
  <2> QED
    BY <1>3, <2>1, <2>3, <2>4 DEF Delete
<1>4. ASSUME OpenBoth PROVE FreshInv'
  <2>1. In(cache') \subseteq In(cache)
    BY <1>4, EmptyFile DEF OpenBoth
  <2> QED
    BY <1>4, <2>1 DEF OpenBoth, deletion, FreshInv
<1>5. ASSUME CopyLine PROVE FreshInv'
  <2>1. In(cache') \subseteq In(cache) \cup In(bbfile)
    <3>1. CASE cache' = cache
      BY <3>1
    <3>2. CASE cache' = Put(bbfile[rpos + 1]) /\ wpos # -1 /\ bbfile[rpos + 1] # Garbage
      <4>1. bbfile \in Lines /\ rpos + 1 \in 1..Len(bbfile)
        BY <1>5, FileLines DEF CopyLine, TypeInv, TypeOK
      <4>2. bbfile[rpos + 1] \in Line /\ bbfile[rpos + 1] \in In(bbfile)
        BY <3>2, <4>1, FileLines
      <4> QED
        BY <1>5, <3>2, <4>2, PutLine DEF CopyLine
    <3> QED
      BY <1>5, <3>1, <3>2 DEF CopyLine, Put
  <2> QED
    BY <1>5, <2>1 DEF CopyLine, deletion, history, FreshInv
<1>6. ASSUME CopyEnds PROVE FreshInv'
  BY <1>6 DEF CopyEnds, files, deletion, history, FreshInv
<1>7. ASSUME Unlink PROVE FreshInv'
  <2>1. In(bbfile') = {}
    BY <1>7 DEF Unlink, In
  <2> QED
    BY <1>0, <1>7, <2>1 DEF Unlink, history, FreshInv
<1>8. ASSUME Rename PROVE FreshInv'
  <2>1. In(bbfile') \cup In(cache') \subseteq In(cache)
    BY <1>8, EmptyFile DEF Rename, In
  <2> QED
    BY <1>8, <2>1 DEF Rename, deletion, FreshInv
<1>9. ASSUME Crash PROVE FreshInv'
  BY <1>0, <1>9 DEF Crash, files, FreshInv
<1>10. ASSUME Restart PROVE FreshInv'
  <2>1. In(bbfile') \subseteq In(bbfile)
    BY <1>10, EmptyFile DEF Restart
  <2> QED
    BY <1>10, <2>1 DEF Restart, deletion, history, FreshInv
<1>11. CASE UNCHANGED vars
  BY <1>11 DEF vars, FreshInv
<1> QED
  BY <1>1, <1>2, <1>3, <1>4, <1>5, <1>6, <1>7, <1>8, <1>9, <1>10, <1>11
  DEF Next, Use, Housekeeping

(* descriptor.cc:446-457: a deleted message comes back only from a copy of *)
(* it that was there when it was deleted.                                  *)
THEOREM DeletedStay == Spec => []DeletedComeFromCache
<1>1. FreshInv => DeletedComeFromCache
  BY DEF FreshInv, DeletedComeFromCache
<1> QED
  BY <1>1, TypeInit, TypeStep, FreshInit, FreshStep, PTL DEF Spec

-----------------------------------------------------------------------------
(* The copy *)

(* While the board file is read the cache is a copy of what has been read. *)
CopyInv ==
    place = "copy" /\ wpos # -1 => \E from \in [1..wpos -> 1..rpos] : CopiedFrom(from, rpos)

(* The lines read stay as they are but for the blanked ones, and the cache *)
(* stays as it is.                                                         *)
LEMMA CopyUndisturbed ==
    ASSUME TypeInv, CopyInv, place' = place, rpos' = rpos, wpos' = wpos, cache' = cache,
           deleted \subseteq deleted', exposed \subseteq exposed',
           \A k \in 1..rpos :
              \/ bbfile'[k] = bbfile[k]
              \/ bbfile'[k] = Garbage /\ bbfile[k] \in {Garbage} \cup deleted' \cup exposed'
    PROVE  CopyInv'
<1> SUFFICES ASSUME place = "copy", wpos # -1
             PROVE  \E from \in [1..wpos -> 1..rpos] : CopiedFrom(from, rpos)'
  BY DEF CopyInv, CopiedFrom
<1>1. PICK from \in [1..wpos -> 1..rpos] : CopiedFrom(from, rpos)
  BY DEF CopyInv
<1>2. \A i, j \in 1..wpos : i < j => from[i] < from[j]
  BY <1>1 DEF CopiedFrom
<1>3. ASSUME NEW j \in 1..wpos
      PROVE  \/ cache[j] = bbfile'[from[j]] /\ cache[j] # Garbage
             \/ bbfile'[from[j]] = Garbage /\ cache[j] \in deleted' \cup exposed'
  <2>1. from[j] \in 1..rpos
    BY <1>1
  <2>2. \/ cache[j] = bbfile[from[j]] /\ cache[j] # Garbage
        \/ bbfile[from[j]] = Garbage /\ cache[j] \in deleted \cup exposed
    BY <1>1 DEF CopiedFrom
  <2> QED
    BY <2>1, <2>2
<1>4. \A k \in 1..rpos : bbfile'[k] # Garbage => \E j \in 1..wpos : from[j] = k
  BY <1>1 DEF CopiedFrom
<1> QED
  BY <1>1, <1>2, <1>3, <1>4 DEF CopiedFrom

(* One more line has been read and, unless it is garbage, written. *)
LEMMA CopyExtended ==
    ASSUME TypeInv, CopyInv, CopyLine
    PROVE  CopyInv'
<1> SUFFICES ASSUME wpos # -1 PROVE CopyInv'
  BY DEF CopyLine, CopyInv
<1>1. /\ UNCHANGED <<bbfile, place, deleted, exposed>> /\ place = "copy"
      /\ rpos' = rpos + 1 /\ rpos \in Nat /\ wpos \in Nat /\ bbfile \in Lines
  BY DEF CopyLine, history, TypeInv, TypeOK
<1>2. PICK from \in [1..wpos -> 1..rpos] : CopiedFrom(from, rpos)
  BY <1>1 DEF CopyInv
<1>3. /\ \A i, j \in 1..wpos : i < j => from[i] < from[j]
      /\ \A j \in 1..wpos : \/ cache[j] = bbfile[from[j]] /\ cache[j] # Garbage
                            \/ bbfile[from[j]] = Garbage /\ cache[j] \in deleted \cup exposed
      /\ \A k \in 1..rpos : bbfile[k] # Garbage => \E j \in 1..wpos : from[j] = k
  BY <1>2 DEF CopiedFrom
<1>4. CASE bbfile[rpos + 1] = Garbage
  <2>1. UNCHANGED <<cache, wpos>>
    BY <1>4 DEF CopyLine
  <2>2. from \in [1..wpos -> 1..(rpos + 1)]
    BY <1>1, <1>2
  <2>3. CopiedFrom(from, rpos)'
    BY <1>1, <1>3, <1>4, <2>1 DEF CopiedFrom
  <2> QED
    BY <1>1, <2>1, <2>2, <2>3 DEF CopyInv, CopiedFrom
<1>5. CASE bbfile[rpos + 1] # Garbage
  <2>1. cache' = Put(bbfile[rpos + 1]) /\ wpos' = wpos + 1
    BY <1>5 DEF CopyLine
  <2>2. bbfile[rpos + 1] \in Line
    BY <1>1, FileLines DEF CopyLine
  <2>3. /\ \A j \in 1..wpos : cache'[j] = cache[j]
        /\ cache'[wpos + 1] = bbfile[rpos + 1]
    BY <1>1, <2>1, <2>2, PutLine
  <2>4. PICK to \in [1..(wpos + 1) -> 1..(rpos + 1)] :
          /\ to[wpos + 1] = rpos + 1
          /\ \A j \in 1..wpos : to[j] = from[j] /\ to[j] \in 1..rpos
    <3> DEFINE g == [j \in 1..(wpos + 1) |-> IF j = wpos + 1 THEN rpos + 1 ELSE from[j]]
    <3>1. /\ g \in [1..(wpos + 1) -> 1..(rpos + 1)] /\ g[wpos + 1] = rpos + 1
          /\ \A j \in 1..wpos : g[j] = from[j] /\ g[j] \in 1..rpos
      BY <1>1, <1>2
    <3> QED
      BY <3>1
  <2>5. \A i, j \in 1..(wpos + 1) : i < j => to[i] < to[j]
    <3> SUFFICES ASSUME NEW i \in 1..(wpos + 1), NEW j \in 1..(wpos + 1), i < j
                 PROVE  to[i] < to[j]
      OBVIOUS
    <3>1. i \in 1..wpos /\ (j \in 1..wpos \/ j = wpos + 1)
      BY <1>1
    <3>2. CASE j \in 1..wpos
      <4>1. from[i] < from[j]
        BY <1>3, <3>1, <3>2
      <4> QED
        BY <2>4, <3>1, <3>2, <4>1
    <3>3. CASE j = wpos + 1
      <4>1. to[i] \in 1..rpos
        BY <2>4, <3>1
      <4> QED
        BY <1>1, <2>4, <3>3, <4>1
    <3> QED
      BY <3>1, <3>2, <3>3
  <2>6. ASSUME NEW j \in 1..(wpos + 1)
        PROVE  \/ cache'[j] = bbfile[to[j]] /\ cache'[j] # Garbage
               \/ bbfile[to[j]] = Garbage /\ cache'[j] \in deleted \cup exposed
    <3>1. CASE j = wpos + 1
      BY <1>5, <2>3, <2>4, <3>1
    <3>2. CASE j \in 1..wpos
      <4>1. to[j] = from[j] /\ cache'[j] = cache[j]
        BY <2>3, <2>4, <3>2
      <4> QED
        BY <1>3, <3>2, <4>1
    <3> QED
      BY <1>1, <3>1, <3>2
  <2>7. \A k \in 1..(rpos + 1) : bbfile[k] # Garbage => \E j \in 1..(wpos + 1) : to[j] = k
    <3> SUFFICES ASSUME NEW k \in 1..(rpos + 1), bbfile[k] # Garbage
                 PROVE  \E j \in 1..(wpos + 1) : to[j] = k
      OBVIOUS
    <3>1. CASE k = rpos + 1
      BY <1>1, <2>4, <3>1
    <3>2. CASE k \in 1..rpos
      <4>1. PICK j \in 1..wpos : from[j] = k
        BY <1>3, <3>2
      <4> QED
        BY <1>1, <2>4, <4>1
    <3> QED
      BY <1>1, <3>1, <3>2
  <2>8. CopiedFrom(to, rpos)'
    <3>1. /\ \A i, j \in 1..wpos' : i < j => to[i] < to[j]
          /\ \A k \in 1..rpos' : bbfile'[k] # Garbage => \E j \in 1..wpos' : to[j] = k
      BY <1>1, <2>1, <2>5, <2>7
    <3>2. \A j \in 1..wpos' : \/ cache'[j] = bbfile'[to[j]] /\ cache'[j] # Garbage
                              \/ bbfile'[to[j]] = Garbage /\ cache'[j] \in deleted' \cup exposed'
      BY <1>1, <2>1, <2>6
    <3> QED
      BY <3>1, <3>2 DEF CopiedFrom
  <2> QED
    <3>1. to \in [1..wpos' -> 1..rpos']
      BY <1>1, <2>1, <2>4
    <3> QED
      BY <2>8, <3>1, Zenon DEF CopyInv
<1> QED
  BY <1>4, <1>5

LEMMA CopyStep == TypeInv /\ AimInv /\ CopyInv /\ [Next]_vars => CopyInv'
<1> SUFFICES ASSUME TypeInv, AimInv, CopyInv, [Next]_vars PROVE CopyInv'
  OBVIOUS
<1>1. ASSUME NEW m \in Msgs, OpenToAppend(m) PROVE CopyInv'
  BY <1>1, CopyUndisturbed DEF OpenToAppend, files, history
<1>2. ASSUME NEW m \in Msgs, Append1(m) PROVE CopyInv'
  <2>1. UNCHANGED <<cache, place, rpos, wpos, deleted>> /\ exposed \subseteq exposed'
    BY <1>2 DEF Append1
  <2>2. CASE place = "copy"
    <3>1. rpos \in Nat /\ rpos <= Len(bbfile) /\ bbfile \in Lines /\ m \in Line
      BY <2>2 DEF TypeInv, TypeOK, Line
    <3>2. \A k \in 1..rpos : bbfile'[k] = bbfile[k]
      <4>1. Len(bbfile) \in Nat /\ \A k \in 1..Len(bbfile) : Append(bbfile, m)[k] = bbfile[k]
        BY <3>1, AppendedFile, FileLines
      <4> QED
        BY <1>2, <3>1, <4>1 DEF Append1
    <3> QED
      BY <2>1, <3>2, CopyUndisturbed
  <2>3. CASE place # "copy"
    BY <2>1, <2>3 DEF CopyInv
  <2> QED
    BY <2>2, <2>3
<1>3. ASSUME NEW m \in Msgs, Delete(m) PROVE CopyInv'
  <2>1. ASSUME ~BlankLine(m) PROVE CopyInv'
    <3>1. /\ UNCHANGED <<bbfile, cache, place, rpos, wpos, exposed>>
          /\ deleted \subseteq deleted'
      BY <1>3, <2>1 DEF Delete, Seek, OpenToBlank, OpenFails, BlankInVain, Over, files, history
    <3> QED
      BY <3>1, CopyUndisturbed
  <2>2. ASSUME BlankLine(m) PROVE CopyInv'
    <3>1. UNCHANGED <<cache, place, rpos, wpos>> /\ deleted' = deleted \cup {m}
      BY <2>2 DEF BlankLine, Over
    <3>2. CASE place = "copy"
      <4>1. rpos \in Nat /\ rpos <= Len(bbfile) /\ Len(bbfile) \in Nat
        BY <3>2, FileLines DEF TypeInv, TypeOK
      <4>2. exposed \subseteq exposed'
        BY <2>2, BlankTyped
      <4>3. \A k \in 1..Len(bbfile) :
               \/ bbfile'[k] = bbfile[k]
               \/ bbfile'[k] = Garbage /\ bbfile[k] \in {m, Garbage} \cup exposed'
        BY <2>2, BlankAims
      <4>4. \A k \in 1..rpos : k \in 1..Len(bbfile)
        BY <4>1
      <4> QED
        BY <3>1, <4>2, <4>3, <4>4, CopyUndisturbed
    <3>3. CASE place # "copy"
      BY <3>1, <3>3 DEF CopyInv
    <3> QED
      BY <3>2, <3>3
  <2> QED
    BY <2>1, <2>2
<1>4. ASSUME OpenBoth PROVE CopyInv'
  <2>1. rpos' = 0 /\ (wpos' = 0 \/ wpos' = -1)
    BY <1>4 DEF OpenBoth
  <2>2. \A from : wpos' = 0 => CopiedFrom(from, 0)'
    BY DEF CopiedFrom
  <2>3. <<>> \in [1..0 -> 1..0]
    OBVIOUS
  <2>4. CASE wpos' = 0
    <3>1. <<>> \in [1..wpos' -> 1..rpos'] /\ CopiedFrom(<<>>, rpos)'
      BY <2>1, <2>2, <2>3, <2>4 DEF CopiedFrom
    <3> QED
      BY <3>1, Zenon DEF CopyInv
  <2> QED
    BY <2>1, <2>4 DEF CopyInv
<1>5. ASSUME CopyLine PROVE CopyInv'
  BY <1>5, CopyExtended
<1>6. ASSUME CopyEnds \/ Unlink \/ Rename \/ Crash \/ Restart PROVE CopyInv'
  BY <1>6 DEF CopyEnds, Unlink, Rename, Crash, Restart, CopyInv
<1>7. CASE UNCHANGED vars
  BY <1>7, CopyUndisturbed DEF vars
<1> QED
  BY <1>1, <1>2, <1>3, <1>4, <1>5, <1>6, <1>7 DEF Next, Use, Housekeeping

LEMMA CopyInit == Init => CopyInv
  BY DEF Init, CopyInv

LEMMA CopyEnding ==
    ASSUME TypeInv, CopyInv, CopyEnds, wpos # -1
    PROVE  \E from \in [1..wpos -> 1..Len(bbfile)] : CopiedFrom(from, Len(bbfile))
<1>1. place = "copy" /\ rpos \in Nat /\ bbfile \in Lines /\ rpos <= Len(bbfile)
      /\ Len(bbfile) <= rpos /\ Len(bbfile) \in Nat
  BY FileLines DEF CopyEnds, TypeInv, TypeOK
<1>2. rpos = Len(bbfile)
  BY <1>1
<1> QED
  BY <1>1, <1>2 DEF CopyInv

(* descriptor.cc:459-485: whatever peers append and blank while the board  *)
(* file is copied, the copy has its lines in their order, without garbage  *)
(* and without any twice; the only others were blanked too late.           *)
THEOREM CopyIsComplete == Spec => CopyComplete
<1>1. ASSUME TypeInv, CopyInv, [Next]_vars, place = "copy", place' = "remove", wpos # -1
      PROVE  \E from \in [1..wpos -> 1..Len(bbfile)] : CopiedFrom(from, Len(bbfile))
  <2>1. CASE CopyEnds
    BY <1>1, <2>1, CopyEnding
  <2>2. CASE ~CopyEnds
    BY <1>1, <2>2 DEF Next, Use, Housekeeping, OpenToAppend, Append1, Delete, Seek,
       OpenToBlank, OpenFails, BlankLine, BlankInVain, OpenBoth, CopyLine, Unlink,
       Rename, Crash, Restart, vars
  <2> QED
    BY <2>1, <2>2
<1>2. TypeInv /\ CopyInv /\ [Next]_vars
        => [place = "copy" /\ place' = "remove" /\ wpos # -1
              => \E from \in [1..wpos -> 1..Len(bbfile)] : CopiedFrom(from, Len(bbfile))]_vars
  BY <1>1
<1> QED
  BY <1>2, TypeInit, TypeStep, AimInit, AimStep, CopyInit, CopyStep, PTL DEF Spec, CopyComplete
=============================================================================
