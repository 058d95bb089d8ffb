----------------------------- MODULE Housekeep -----------------------------
(***************************************************************************)
(* housekeep_descriptor (descriptor.cc:446-516): the lines of the board    *)
(* file that are not blanked are copied to bbfile_cache, the board file is *)
(* removed, and the copy takes its name; each is a step of its own.  The   *)
(* process may be killed between any two of them, and initiate_descriptor  *)
(* (44-75) then finds what is left.  Client sessions have ended, but       *)
(* receiver threads of peers have not (bbserv.cc:89): they go on appending *)
(* and blanking lines.  delete_descriptor (154-216) looks for the line,    *)
(* opens the file again by its name and writes over the place it has found;*)
(* nothing keeps housekeeping from coming in between.                      *)
(*                                                                         *)
(* A file is a sequence of lines, a line a message or Garbage.  All lines  *)
(* have one length here, and a line that is overwritten in part counts as  *)
(* garbage.  How clients and scans exclude each other is Descriptor.       *)
(***************************************************************************)
EXTENDS Integers, Sequences, FiniteSets

CONSTANTS
    Msgs,        \* messages, each written at most once
    Initially,   \* the board file at first
    Garbage,     \* a blanked line
    Absent,      \* a file that does not exist
    Peers,       \* whether peers' sessions go on during housekeeping
    Threads,     \* how many threads may be at work on the file
    Again,       \* messages that may be deleted more than once
    Faults,      \* what may go wrong: "crash", "cache", "rename"
    Rounds       \* how often the server is started again

ASSUME LinesAssumption == Garbage \notin Msgs /\ Initially \in Seq(Msgs \cup {Garbage})
ASSUME AbsentAssumption == Absent \notin Seq(Msgs \cup {Garbage})
ASSUME LimitsAssumption ==
    /\ Peers \in BOOLEAN /\ Threads \in Nat
    /\ Faults \subseteq {"crash", "cache", "rename"}
    /\ Rounds \in Nat

VARIABLES
    bbfile, cache,     \* the two files
    place,             \* where the server is
    rpos,              \* lines of bbfile read by now
    wpos,              \* lines of cache written by now; -1: it is not open
    fd,                \* fd[m]: how far the thread is that appends m
    del,               \* del[m]: how far the thread is that deletes m
    at,                \* at[m]: the line it has found; 0: none
    adrift,            \* deletions since whose look the file was replaced
    rounds,
    acked,             \* history: messages somebody was told are written
    deleted,           \* history: messages whose deletion was over since
    exposed,           \* history: messages a housekeeping or a misled
                       \* deletion endangered
    revivable          \* history: deleted messages of which a copy was left

files == <<bbfile, cache>>
deletion == <<del, at, adrift>>
history == <<acked, deleted, exposed, revivable>>
vars == <<bbfile, cache, place, rpos, wpos, fd, del, at, adrift, rounds, acked,
          deleted, exposed, revivable>>

Lines == Seq(Msgs \cup {Garbage})

TypeOK ==
    /\ bbfile \in Lines \cup {Absent} /\ cache \in Lines \cup {Absent}
    /\ place \in {"serving", "copy", "remove", "rename", "down"}
    /\ rpos \in Nat /\ wpos \in Nat \cup {-1}
    /\ fd \in [Msgs -> {"new", "open", "stale", "done"}]
    /\ del \in [Msgs -> {"idle", "found", "open", "stale"}]
    /\ at \in [Msgs -> Nat] /\ adrift \in SUBSET Msgs
    /\ rounds \in 0..Rounds
    /\ acked \in SUBSET Msgs /\ deleted \in SUBSET Msgs
    /\ exposed \in SUBSET Msgs /\ revivable \in SUBSET Msgs

(* The messages in a file. *)
In(file) ==
    IF file = Absent THEN {} ELSE {file[k] : k \in DOMAIN file} \ {Garbage}

Live == acked \ deleted

Init ==
    /\ bbfile = Initially /\ cache = Absent
    /\ place = "serving" /\ rpos = 0 /\ wpos = -1
    /\ fd = [m \in Msgs |-> IF m \in In(Initially) THEN "done" ELSE "new"]
    /\ del = [m \in Msgs |-> "idle"] /\ at = [m \in Msgs |-> 0] /\ adrift = {}
    /\ rounds = 0
    /\ acked = In(Initially) /\ deleted = {}
    /\ exposed = {} /\ revivable = {}

-----------------------------------------------------------------------------
(* Those who use the file *)

MayUse == place = "serving" \/ (Peers /\ place \in {"copy", "remove", "rename"})

Free ==
    Cardinality({m \in Msgs : fd[m] \in {"open", "stale"}})
        + Cardinality({m \in Msgs : del[m] # "idle"}) < Threads

(* write_descriptor opens the file by its name: without one it fails.      *)
OpenToAppend(m) ==
    /\ MayUse /\ Free /\ fd[m] = "new" /\ bbfile # Absent
    /\ fd' = [fd EXCEPT ![m] = "open"]
    /\ UNCHANGED <<files, place, rpos, wpos, deletion, rounds, history>>

(* It appends, to a removed file if it was removed in between, and answers. *)
Append1(m) ==
    /\ MayUse /\ fd[m] \in {"open", "stale"}
    /\ bbfile' = IF fd[m] = "open" THEN Append(bbfile, m) ELSE bbfile
    /\ fd' = [fd EXCEPT ![m] = "done"]
    /\ acked' = acked \cup {m}
    /\ exposed' = IF fd[m] = "stale" \/ place = "remove"
                    THEN exposed \cup {m} ELSE exposed
    /\ UNCHANGED <<cache, place, rpos, wpos, deletion, rounds, deleted, revivable>>

(* seek_msg_descriptor: the place of the first line with the number, or 0. *)
(* Without a file it reads what its buffer held before, and in general     *)
(* goes on doing so.                                                       *)
Places(m) ==
    IF m \in In(bbfile)
      THEN {k \in DOMAIN bbfile : bbfile[k] = m /\ \A j \in 1..(k - 1) : bbfile[j] # m}
      ELSE {0}

Deletable(m) == m \in acked /\ (m \in deleted => m \in Again)

SeekPast(m) ==  \* returns where the line ends
    /\ MayUse /\ Free /\ del[m] = "idle" /\ Deletable(m)
    /\ \E k \in Places(m) : at' = [at EXCEPT ![m] = IF k = 0 THEN 0 ELSE k + 1]
    /\ del' = [del EXCEPT ![m] = "found"]
    /\ UNCHANGED <<files, place, rpos, wpos, fd, adrift, rounds, history>>

(* For a REPLACE or a peer's abort. *)
Seek(m) ==
    /\ MayUse /\ Free /\ del[m] = "idle" /\ Deletable(m)
    /\ \E k \in Places(m) : at' = [at EXCEPT ![m] = k]
    /\ del' = [del EXCEPT ![m] = "found"]
    /\ UNCHANGED <<files, place, rpos, wpos, fd, adrift, rounds, history>>

(* The deletion of m is over, and m is taken for deleted.  A copy of it may *)
(* be left: in the cache, or in a line other than the one it was found in. *)
Aim(m) == IF m \in adrift THEN {} ELSE {at[m]} \ {0}

Over(m) ==
    /\ del' = [del EXCEPT ![m] = "idle"] /\ at' = [at EXCEPT ![m] = 0]
    /\ adrift' = adrift \ {m}
    /\ deleted' = deleted \cup {m}
    /\ revivable' =
         IF \/ m \in In(cache)
            \/ bbfile # Absent /\ \E k \in DOMAIN bbfile \ Aim(m) : bbfile[k] = m
           THEN revivable \cup {m} ELSE revivable

(* The file is opened again, by its name. *)
OpenToBlank(m) ==
    /\ MayUse /\ del[m] = "found" /\ bbfile # Absent
    /\ del' = [del EXCEPT ![m] = "open"]
    /\ UNCHANGED <<files, place, rpos, wpos, fd, at, adrift, rounds, history>>

(* It is not there, and nobody looks at the -2 returned. *)
OpenFails(m) ==
    /\ MayUse /\ del[m] = "found" /\ bbfile = Absent
    /\ Over(m)
    /\ UNCHANGED <<files, place, rpos, wpos, fd, rounds, acked, exposed>>

(* The lines the write covers.  If none was found it begins with the first *)
(* and is as long as msg_len, which nobody set, happens to say.            *)
Covered(m) ==
    IF at[m] # 0 THEN {{at[m]}} ELSE {1..k : k \in DOMAIN bbfile \cup {1}}

(* Behind the end of the file, the gap is filled.                          *)
Overwritten(lines) ==
    [k \in DOMAIN bbfile \cup UNION {1..j : j \in lines} |->
        IF k \in lines \/ k \notin DOMAIN bbfile THEN Garbage ELSE bbfile[k]]

BlankAtEnd(m) ==  \* opens it with O_APPEND, as seek_msg_descriptor does
    /\ MayUse /\ del[m] = "open"
    /\ bbfile' = Append(bbfile, Garbage)
    /\ Over(m)
    /\ UNCHANGED <<cache, place, rpos, wpos, fd, rounds, acked, exposed>>

(* What it covers is garbage then, also lines of others if it was misled.  *)
BlankLine(m) ==
    /\ MayUse /\ del[m] = "open"
    /\ \E lines \in Covered(m) :
          /\ bbfile' = Overwritten(lines)
          /\ exposed' = IF Aim(m) = {}
                          THEN exposed \cup ({bbfile[k] : k \in lines \cap DOMAIN bbfile}
                                             \ {Garbage})
                          ELSE exposed
    /\ Over(m)
    /\ UNCHANGED <<cache, place, rpos, wpos, fd, rounds, acked>>

(* It goes to the file that was removed after it had been opened. *)
BlankInVain(m) ==
    /\ MayUse /\ del[m] = "stale"
    /\ Over(m)
    /\ UNCHANGED <<files, place, rpos, wpos, fd, rounds, acked, exposed>>

Delete(m) ==
    Seek(m) \/ OpenToBlank(m) \/ OpenFails(m) \/ BlankLine(m) \/ BlankInVain(m)

-----------------------------------------------------------------------------
(* housekeep_descriptor *)

(* Both files are opened.  An old bbfile_cache keeps its contents, since   *)
(* O_TRUNC is not given; if it cannot be opened that is not noticed.       *)
OpenBoth ==
    /\ place = "serving" /\ bbfile # Absent
    /\ place' = "copy" /\ rpos' = 0
    /\ \/ /\ cache' = IF cache = Absent THEN <<>> ELSE cache
          /\ wpos' = 0
          /\ UNCHANGED exposed
       \/ /\ "cache" \in Faults
          /\ wpos' = -1
          /\ exposed' = Msgs
          /\ UNCHANGED cache
    /\ UNCHANGED <<bbfile, fd, deletion, rounds, acked, deleted, revivable>>

(* write at the position reached: over an old line, or behind the last. *)
Put(line) ==
    IF wpos = -1 THEN cache
    ELSE IF wpos < Len(cache) THEN [cache EXCEPT ![wpos + 1] = line]
    ELSE Append(cache, line)

(* One round of the loop: a line is read, and copied unless it is garbage. *)
CopyLine ==
    /\ place = "copy" /\ rpos < Len(bbfile)
    /\ rpos' = rpos + 1
    /\ IF bbfile[rpos + 1] = Garbage
         THEN UNCHANGED <<cache, wpos>>
         ELSE /\ cache' = Put(bbfile[rpos + 1])
              /\ wpos' = IF wpos = -1 THEN -1 ELSE wpos + 1
    /\ UNCHANGED <<bbfile, place, fd, deletion, rounds, history>>

CopyEndsEarly ==  \* stops in front of the last line
    /\ place = "copy" /\ rpos >= Len(bbfile) - 1
    /\ place' = "remove"
    /\ UNCHANGED <<files, rpos, wpos, fd, deletion, rounds, history>>

(* The end of the file is read; both files are closed. *)
CopyEnds ==
    /\ place = "copy" /\ rpos >= Len(bbfile)
    /\ place' = "remove"
    /\ UNCHANGED <<files, rpos, wpos, fd, deletion, rounds, history>>

(* remove(source_file): who has it open goes on writing to it. *)
Unlink ==
    /\ place = "remove"
    /\ bbfile' = Absent
    /\ fd' = [m \in Msgs |-> IF fd[m] = "open" THEN "stale" ELSE fd[m]]
    /\ del' = [m \in Msgs |-> IF del[m] = "open" THEN "stale" ELSE del[m]]
    /\ adrift' = {m \in Msgs : del[m] # "idle"}
    /\ place' = "rename"
    /\ UNCHANGED <<cache, at, rpos, wpos, rounds, history>>

(* rename("bbfile_cache", source_file), and the server is started again,   *)
(* which makes an empty file if there is none.  The names may be on two    *)
(* file systems, or there may be no bbfile_cache.                          *)
Rename ==
    /\ place = "rename" /\ rounds < Rounds
    /\ \/ /\ cache # Absent
          /\ bbfile' = cache /\ cache' = Absent
          /\ UNCHANGED exposed
       \/ /\ cache = Absent \/ "rename" \in Faults
          /\ bbfile' = <<>>
          /\ exposed' = Msgs
          /\ UNCHANGED cache
    /\ place' = "serving" /\ rounds' = rounds + 1
    /\ UNCHANGED <<rpos, wpos, fd, deletion, acked, deleted, revivable>>

-----------------------------------------------------------------------------
(* The process is killed: threads are gone, the files are as they are.  If *)
(* the board file is away just then, the next start makes an empty one and *)
(* bbfile_cache keeps the messages.                                        *)
Crash ==
    /\ "crash" \in Faults /\ place \notin {"serving", "down"}
    /\ place' = "down"
    /\ fd' = [m \in Msgs |-> IF fd[m] = "done" THEN "done" ELSE "new"]
    /\ del' = [m \in Msgs |-> "idle"] /\ at' = [m \in Msgs |-> 0] /\ adrift' = {}
    /\ exposed' = IF bbfile = Absent THEN exposed \cup In(cache) ELSE exposed
    /\ UNCHANGED <<files, rpos, wpos, rounds, acked, deleted, revivable>>

(* initiate_descriptor, create_descriptor *)
Restart ==
    /\ place = "down" /\ rounds < Rounds
    /\ bbfile' = IF bbfile = Absent THEN <<>> ELSE bbfile
    /\ place' = "serving" /\ rounds' = rounds + 1
    /\ UNCHANGED <<cache, rpos, wpos, fd, deletion, history>>

Use == \E m \in Msgs : OpenToAppend(m) \/ Append1(m) \/ Delete(m)

Housekeeping == OpenBoth \/ CopyLine \/ CopyEnds \/ Unlink \/ Rename

Next == Use \/ Housekeeping \/ Crash \/ Restart

Spec == Init /\ [][Next]_vars

-----------------------------------------------------------------------------
(* Properties *)

(* An acknowledged message that nobody deleted is in one of the two files, *)
(* and while the server serves in the board file itself.  What can get     *)
(* lost is exactly: a message appended after the copying and before the    *)
(* file is gone, or into the removed file; what only the cache holds when  *)
(* the process dies; anything once the cache could not be opened or        *)
(* renamed; and a line that a deletion hits which did not find its own, or *)
(* for which the board file was replaced after it had looked               *)
(* (descriptor.cc:176, 184-207, 449-505).                                  *)
LostOnlyExposed ==
    /\ Live \ (In(bbfile) \cup In(cache)) \subseteq exposed
    /\ place = "serving" => Live \ In(bbfile) \subseteq exposed

(* A deleted message comes back only from a copy that was left when the    *)
(* deletion was over: in the cache that was being made, or a killed        *)
(* process had left; or in a line of the board other than the one it had   *)
(* found, since the board was replaced after it had looked, or has a       *)
(* message twice from an old bbfile_cache.                                 *)
DeletedComeFromCache == deleted \cap In(bbfile) \subseteq revivable

(* When the end of the board file is reached the cache begins with exactly *)
(* its lines but the garbage, in their order, also if lines were appended  *)
(* and blanked meanwhile; only what was blanked after it had been copied   *)
(* is there as well (descriptor.cc:459-485).  from[j] is the line of the   *)
(* board file that the line j of the cache was copied from.                *)
CopiedFrom(from, n) ==
    /\ \A i, j \in 1..wpos : i < j => from[i] < from[j]
    /\ \A j \in 1..wpos : \/ cache[j] = bbfile[from[j]] /\ cache[j] # Garbage
                          \/ bbfile[from[j]] = Garbage /\ cache[j] \in deleted \cup exposed
    /\ \A k \in 1..n : bbfile[k] # Garbage => \E j \in 1..wpos : from[j] = k
CopyComplete ==
    [][place = "copy" /\ place' = "remove" /\ wpos # -1
         => \E from \in [1..wpos -> 1..Len(bbfile)] : CopiedFrom(from, Len(bbfile))]_vars
=============================================================================
