------------------------------- MODULE Config -------------------------------
(***************************************************************************)
(* How the server gets its configuration: fetch_cmndLine, then             *)
(* fetch_config, and force_fetch_config after each SIGHUP                  *)
(* (bbserv_utils.cc:46-391, bbserv.cc:252-284, 355-377).  A line of the    *)
(* file is a step.                                                         *)
(*                                                                         *)
(* What the numeric settings have in common is written once: THMAX, BBPORT *)
(* and SYNCPORT are members of Numeric.  A peer's token is a peer, or      *)
(* NoColon if it has no ":".  Lines other than these seven, comments among *)
(* them, have the name "other".  Numeric and Boolean lines have a value    *)
(* here; without one the code reads an old pointer.                        *)
(***************************************************************************)
EXTENDS Integers, Sequences, FiniteSetsExt

CONSTANTS
    Numeric,     \* names of numeric settings
    Default,     \* Default[s]: what main sets s to
    Files,       \* the configuration files there may be
    Argvs,       \* the command lines there may be
    NoColon,     \* a token that is no peer
    NoValue,     \* an option or a value that is not there
    Unset,       \* memory from new[] that nobody has written
    Restarts     \* SIGHUPs

Names == Numeric \cup {"BBFILE", "PEERS", "DAEMON", "DEBUG"}

ASSUME NumericAssumption ==
    Numeric \cap {"BBFILE", "PEERS", "DAEMON", "DEBUG", "NOPEERS", "other"} = {}
ASSUME DefaultAssumption == Default \in [Numeric -> Int]
ASSUME NoValueAssumption == NoValue \notin BOOLEAN /\ NoValue \notin Names \cup {"NOPEERS"}
ASSUME ArgvsAssumption ==
    \A a \in Argvs :
        /\ \A s \in Numeric : a[s] = NoValue \/ a[s] \in Int
        /\ a.f \in BOOLEAN /\ a.d \in BOOLEAN
        /\ Len(a.peers) \in Nat /\ DOMAIN a.peers = 1..Len(a.peers)
ASSUME FilesAssumption ==
    \A f \in Files :
        /\ Len(f) \in Nat /\ DOMAIN f = 1..Len(f)
        /\ \A j \in DOMAIN f :
             /\ f[j].name \in Names \cup {"other"}
             /\ f[j].name \in Numeric => f[j].value \in Int
             /\ f[j].name \in {"DAEMON", "DEBUG"} => f[j].value \in BOOLEAN
             /\ f[j].name = "PEERS" =>
                  Len(f[j].value) \in Nat /\ DOMAIN f[j].value = 1..Len(f[j].value)
ASSUME RestartsAssumption == Restarts \in Nat

VARIABLES
    argv, file,
    pc, k,                       \* main's place; the lines read so far
    seen,                        \* the _ind locals of fetch_config that are 1
    ind,                         \* ind[s]: 0 default, 1 command line, 2 file
    number, BBFILE, DEBUG_DELAY,
    CDETACH, FDETACH, DETACH,
    NO_OF_PEERS, peer_info,
    restarts,
    given                        \* history: the tokens peer_info is made of

settings == <<number, BBFILE, DEBUG_DELAY, DETACH>>
detach == <<CDETACH, FDETACH>>
peers == <<NO_OF_PEERS, peer_info, given>>
vars == <<argv, file, pc, k, seen, ind, settings, detach, peers, restarts>>

TypeOK ==
    /\ argv \in Argvs /\ file \in Files
    /\ pc \in {"cmnd", "config", "running", "force"}
    /\ k \in 0..Len(file)
    /\ seen \subseteq Names \cup {"NOPEERS"}
    /\ ind \in [Names -> 0..2]
    /\ number \in [Numeric -> Int]
    /\ CDETACH \in BOOLEAN /\ FDETACH \in BOOLEAN /\ DETACH \in BOOLEAN
    /\ DEBUG_DELAY \in BOOLEAN
    /\ NO_OF_PEERS \in 0..Len(peer_info)
    /\ restarts \in 0..Restarts

Init ==
    /\ argv \in Argvs /\ file \in Files
    /\ pc = "cmnd" /\ k = 0 /\ seen = {}
    /\ ind = [s \in Names |-> 0]
    /\ number = Default /\ BBFILE = Unset /\ DEBUG_DELAY = FALSE
    /\ CDETACH = TRUE /\ FDETACH = TRUE /\ DETACH = TRUE
    /\ NO_OF_PEERS = 0 /\ peer_info = <<>> /\ given = <<>>
    /\ restarts = 0

-----------------------------------------------------------------------------
IsPeer(token) == token # NoColon
Proper(tokens) == {j \in DOMAIN tokens : IsPeer(tokens[j])}

(* One slot for each token; that of a token without ":" is left unwritten, *)
(* and not counted.                                                        *)
SlotsOf(tokens) ==
    [j \in DOMAIN tokens |-> IF IsPeer(tokens[j]) THEN tokens[j] ELSE Unset]
CountAll(tokens) == Len(tokens)
CountOf(tokens) == Cardinality(Proper(tokens))

(* getopt, and what is left are peers.  atoi takes any number. *)
FetchCmndLine ==
    /\ pc = "cmnd"
    /\ number' = [s \in Numeric |-> IF argv[s] = NoValue THEN number[s] ELSE argv[s]]
    /\ BBFILE' = IF argv.b = NoValue THEN BBFILE ELSE argv.b
    /\ CDETACH' = ~argv.f
    /\ DEBUG_DELAY' = argv.d
    /\ peer_info' = SlotsOf(argv.peers) /\ NO_OF_PEERS' = CountOf(argv.peers)
    /\ given' = argv.peers
    /\ ind' = [s \in Names |->
                 CASE s \in Numeric -> IF argv[s] = NoValue THEN 0 ELSE 1
                   [] s = "BBFILE" -> IF argv.b = NoValue THEN 0 ELSE 1
                   [] s = "PEERS" -> IF argv.peers = <<>> THEN 0 ELSE 1
                   [] s = "DAEMON" -> IF argv.f THEN 1 ELSE 0
                   [] OTHER -> IF argv.d THEN 1 ELSE 0]
    /\ pc' = "config" /\ k' = 0
    /\ UNCHANGED <<argv, file, seen, FDETACH, DETACH, restarts>>

-----------------------------------------------------------------------------
(* Both fetch_config and force_fetch_config read line by line; fetch_config *)
(* lets a setting be that has been set before.                              *)

Line == file[k + 1]
Fetching == pc \in {"config", "force"}

AllSeen == seen = Names \cup {"NOPEERS"}

AlwaysTakes(name) == TRUE
Takes(name) == pc = "force" \/ ind[name] = 0

(* The next line is read, and a local of fetch_config set. *)
Read(name, mark) ==
    /\ Fetching /\ ~AllSeen /\ k < Len(file)
    /\ Line.name = name
    /\ k' = k + 1
    /\ seen' = IF pc = "config" /\ mark # NoValue THEN seen \cup {mark} ELSE seen
    /\ UNCHANGED <<argv, file, pc, CDETACH, restarts>>

Mark(name) == ind' = [ind EXCEPT ![name] = 2]

ReadNumber(name) ==
    /\ Line.value > 0
    /\ Read(name, name)
    /\ IF Takes(name)
         THEN number' = [number EXCEPT ![name] = Line.value] /\ Mark(name)
         ELSE UNCHANGED <<number, ind>>
    /\ UNCHANGED <<BBFILE, DEBUG_DELAY, DETACH, FDETACH, peers>>

ReadBBFile ==
    /\ Read("BBFILE", "BBFILE")
    /\ IF Line.value # NoValue /\ Takes("BBFILE")
         THEN BBFILE' = Line.value /\ Mark("BBFILE")
         ELSE UNCHANGED <<BBFILE, ind>>
    /\ UNCHANGED <<number, DEBUG_DELAY, DETACH, FDETACH, peers>>

(* fetch_config adds to a count that is zero, force_fetch_config sets it.  *)
ReadPeers ==
    /\ Line.name = "PEERS"
    /\ Read("PEERS", IF Line.value = <<>> THEN "NOPEERS" ELSE "PEERS")
    /\ IF Line.value # <<>> /\ Takes("PEERS")
         THEN /\ peer_info' = SlotsOf(Line.value) /\ given' = Line.value
              /\ NO_OF_PEERS' = CountOf(Line.value) +
                                (IF pc = "force" THEN 0 ELSE NO_OF_PEERS)
              /\ Mark("PEERS")
         ELSE UNCHANGED <<peers, ind>>
    /\ UNCHANGED <<settings, FDETACH>>

(* DAEMON is for FDETACH at first, and for DETACH itself after a restart.  *)
ReadDaemon ==
    /\ Read("DAEMON", "DAEMON")
    /\ IF Takes("DAEMON")
         THEN /\ Mark("DAEMON")
              /\ IF pc = "config" THEN FDETACH' = Line.value /\ UNCHANGED DETACH
                                  ELSE DETACH' = Line.value /\ UNCHANGED FDETACH
         ELSE UNCHANGED <<FDETACH, DETACH, ind>>
    /\ UNCHANGED <<number, BBFILE, DEBUG_DELAY, peers>>

ReadDebug ==
    /\ Read("DEBUG", "DEBUG")
    /\ IF Takes("DEBUG") THEN DEBUG_DELAY' = Line.value /\ Mark("DEBUG")
                         ELSE UNCHANGED <<DEBUG_DELAY, ind>>
    /\ UNCHANGED <<number, BBFILE, DETACH, FDETACH, peers>>

(* A comment, or a number that is not positive: no branch is for it. *)
ReadOther ==
    /\ k < Len(file)
    /\ Line.name = "other" \/ (Line.name \in Numeric /\ Line.value <= 0)
    /\ Read(Line.name, NoValue)
    /\ UNCHANGED <<ind, settings, FDETACH, peers>>

ReadLine ==
    \/ \E s \in Numeric : k < Len(file) /\ Line.name = s /\ ReadNumber(s)
    \/ ReadBBFile
    \/ k < Len(file) /\ ReadPeers
    \/ ReadDaemon \/ ReadDebug \/ ReadOther

(* The file is read, or nothing is left to look for; main starts the       *)
(* server.                                                                 *)
Done == AllSeen \/ k = Len(file)

Configured ==
    /\ pc = "config" /\ Done
    /\ DETACH' = (CDETACH /\ FDETACH)
    /\ pc' = "running" /\ seen' = {}
    /\ UNCHANGED <<argv, file, k, ind, number, BBFILE, DEBUG_DELAY, detach, peers,
                   restarts>>

Reconfigured ==
    /\ pc = "force" /\ Done
    /\ pc' = "running"
    /\ UNCHANGED <<argv, file, k, seen, ind, settings, detach, peers, restarts>>

-----------------------------------------------------------------------------
ResetKeepingNumbers ==
    /\ pc = "running" /\ restarts < Restarts
    /\ ind' = [s \in Names |-> 0]
    /\ BBFILE' = Unset /\ DETACH' = TRUE /\ DEBUG_DELAY' = FALSE
    /\ pc' = "force" /\ k' = 0 /\ restarts' = restarts + 1
    /\ file' \in Files
    /\ UNCHANGED <<argv, seen, number, detach, peers>>

(* SIGHUP: main's loop sets the defaults again, but for peers and for the  *)
(* name of the configuration file.  Somebody may have edited the file.     *)
Reset ==
    /\ pc = "running" /\ restarts < Restarts
    /\ ind' = [s \in Names |-> 0]
    /\ number' = Default
    /\ BBFILE' = Unset /\ DETACH' = TRUE /\ DEBUG_DELAY' = FALSE
    /\ pc' = "force" /\ k' = 0 /\ restarts' = restarts + 1
    /\ file' \in Files
    /\ UNCHANGED <<argv, seen, detach, peers>>

Next ==
    \/ FetchCmndLine \/ ReadLine \/ Configured \/ Reconfigured \/ Reset

Spec == Init /\ [][Next]_vars

-----------------------------------------------------------------------------
(* Properties *)

Counts(line, name) ==
    /\ line.name = name
    /\ IF name \in Numeric THEN line.value > 0
       ELSE line.value # NoValue
LinesFor(name) == {j \in DOMAIN file : Counts(file[j], name)}

FirstOr(name, else) ==
    IF LinesFor(name) = {} THEN else ELSE file[Min(LinesFor(name))].value
LastOr(name, else) ==
    IF LinesFor(name) = {} THEN else ELSE file[Max(LinesFor(name))].value

(* A line BBFILE without a value stands before every one with a value. *)
EmptyBBFileFirst ==
    \E j \in DOMAIN file :
        file[j].name = "BBFILE" /\ \A m \in LinesFor("BBFILE") : j < m

(* bbserv_utils.h:146-148: what the command line says goes before the      *)
(* file, the first line of several in the file before the others, and the  *)
(* file before the defaults (fetch_cmndLine, fetch_config).  That the      *)
(* reading stops when every setting has been seen changes nothing but for  *)
(* BBFILE, which a line without a value marks as seen: the name of the     *)
(* board file may then stand in a line nobody reads.  The server goes to   *)
(* the background only if both let it.                                     *)
CommandLineWins ==
    (pc = "running" /\ restarts = 0) =>
        /\ \A s \in Numeric :
             number[s] = IF argv[s] # NoValue THEN argv[s] ELSE FirstOr(s, Default[s])
        /\ IF argv.b # NoValue THEN BBFILE = argv.b
           ELSE \/ BBFILE = FirstOr("BBFILE", Unset)
                \/ BBFILE = Unset /\ EmptyBBFileFirst
        /\ DEBUG_DELAY = (argv.d \/ FirstOr("DEBUG", FALSE))
        /\ DETACH = (~argv.f /\ FirstOr("DAEMON", TRUE))

(* README.md:195: a restart "uses the config from configuration file":     *)
(* nothing of the command line or of earlier files is left but the peers,  *)
(* and here the last line of several counts (force_fetch_config).          *)
RestartUsesFile ==
    (pc = "running" /\ restarts > 0) =>
        /\ \A s \in Numeric : number[s] = LastOr(s, Default[s])
        /\ BBFILE = LastOr("BBFILE", Unset)
        /\ DEBUG_DELAY = LastOr("DEBUG", FALSE)
        /\ DETACH = LastOr("DAEMON", TRUE)

(* Whoever loops over the peers goes from 0 to NO_OF_PEERS - 1             *)
(* (server_operations.cc:373,382): those are the slots of the peers that   *)
(* were named exactly if no token without ":" stands before one with it.   *)
(* Otherwise an unwritten slot is taken for a peer, and the last peer is   *)
(* left out (bbserv_utils.cc:112-127, 217-231, 348-362).                   *)
Contacted == 1..NO_OF_PEERS
PeersContacted ==
    (Contacted = Proper(given) /\ \A j \in Contacted : peer_info[j] = given[j])
        <=> ~\E i, j \in DOMAIN given : i < j /\ given[i] = NoColon /\ given[j] # NoColon
=============================================================================
