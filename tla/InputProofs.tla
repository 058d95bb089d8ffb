---------------------------- MODULE InputProofs -----------------------------
(***************************************************************************)
(* Theorems about what the server makes of what it is given: about Config, *)
(* for configuration files of any length, any settings and any number of   *)
(* restarts, and about Requests, for texts of any length.                  *)
(*                                                                         *)
(* What a setting has become is told from the lines read so far (Prog,     *)
(* Latest): the command line's value, the first line's that counts, the    *)
(* default; after a restart the last line's, or the default.  Prog also    *)
(* ties the mark ind to that, since fetch_config decides by the mark, and  *)
(* seen to lines that were read, since it stops when all are seen.         *)
(*                                                                         *)
(* A text's tokens are told from the tokens of the text without its last   *)
(* character (TokensAppend: Scan is a fold, and a token that has its \0    *)
(* stays).  On that rest, by induction over texts: the words of a text and *)
(* what their being empty means in it (WordsAre), the words of a text put  *)
(* together from words (WSpaced, WClosed), where they begin (AllSpelled),  *)
(* and that the parts between slashes are the text again (PartsAre).       *)
(* Induction is over the elements of a set (FromZero, FromEmpty), since    *)
(* the library's theorems would need an operator for an argument.          *)
(***************************************************************************)
EXTENDS Config, Requests, SequenceTheorems, FiniteSetTheorems, WellFoundedInduction, TLAPS

LEMMA LeastNatural ==
    ASSUME NEW T \in SUBSET Nat, T # {}
    PROVE  \E m \in T : \A n \in T : m <= n
<1> DEFINE Less == OpToRel(<, Nat)
<1>1. PICK m \in T : \A n \in T : ~ (<<n, m>> \in Less)
  BY NatLessThanWellFounded, WFMin, Zenon
<1>2. \A n \in T : ~ (n < m)
  BY <1>1, Zenon DEF OpToRel
<1> QED
  BY <1>2

-----------------------------------------------------------------------------
(* The lines read so far *)

Upto(f, name, n) == {j \in 1..n : Counts(f[j], name)}

(* v is the value of the first of them, or of the last; else, without any. *)
Earliest(f, name, v, n, else) ==
    \/ Upto(f, name, n) = {} /\ v = else
    \/ \E j \in Upto(f, name, n) : v = f[j].value /\ \A m \in Upto(f, name, n) : j <= m

Latest(f, name, v, n, else) ==
    \/ Upto(f, name, n) = {} /\ v = else
    \/ \E j \in Upto(f, name, n) : v = f[j].value /\ \A m \in Upto(f, name, n) : m <= j

(* A setting in fetch_config: on is whether the command line has it, c its *)
(* value there, i its mark.                                                *)
Prog(f, n, i, name, on, c, v, else) ==
    IF on THEN i # 0 /\ v = c
    ELSE /\ Earliest(f, name, v, n, else)
         /\ i = 0 <=> Upto(f, name, n) = {}

LEMMA UptoNext ==
    ASSUME NEW f, NEW name, NEW n \in Nat
    PROVE  Upto(f, name, n + 1) =
             IF Counts(f[n + 1], name) THEN Upto(f, name, n) \cup {n + 1}
             ELSE Upto(f, name, n)
<1>1. \A j : j \in 1..(n + 1) <=> j \in 1..n \/ j = n + 1
  OBVIOUS
<1> QED
  BY <1>1 DEF Upto

LEMMA UptoBelow ==
    ASSUME NEW f, NEW name, NEW n \in Nat
    PROVE  \A j \in Upto(f, name, n) : j \in Nat /\ j <= n
  BY DEF Upto

LEMMA FirstStays ==
    ASSUME NEW f, NEW name, NEW v, NEW n \in Nat, NEW else, Earliest(f, name, v, n, else),
           ~Counts(f[n + 1], name) \/ Upto(f, name, n) # {}
    PROVE  Earliest(f, name, v, n + 1, else)
<1>1. CASE ~Counts(f[n + 1], name)
  BY <1>1, UptoNext DEF Earliest
<1>2. CASE Counts(f[n + 1], name)
  <2>1. PICK j \in Upto(f, name, n) : v = f[j].value /\ \A m \in Upto(f, name, n) : j <= m
    BY <1>2 DEF Earliest
  <2>2. Upto(f, name, n + 1) = Upto(f, name, n) \cup {n + 1}
    BY <1>2, UptoNext
  <2>3. j <= n + 1
    BY UptoBelow
  <2> QED
    BY <2>1, <2>2, <2>3 DEF Earliest
<1> QED
  BY <1>1, <1>2

LEMMA ProgStays ==
    ASSUME NEW f, NEW name, NEW v, NEW n \in Nat, NEW i, NEW on, NEW c, NEW else,
           Prog(f, n, i, name, on, c, v, else),
           ~Counts(f[n + 1], name) \/ i # 0
    PROVE  Prog(f, n + 1, i, name, on, c, v, else)
<1>1. CASE on
  BY <1>1 DEF Prog
<1>2. CASE ~on
  <2>1. Earliest(f, name, v, n, else) /\ (i = 0 <=> Upto(f, name, n) = {})
    BY <1>2 DEF Prog
  <2>2. Earliest(f, name, v, n + 1, else)
    BY <2>1, FirstStays
  <2>3. i = 0 <=> Upto(f, name, n + 1) = {}
    BY <2>1, UptoNext
  <2> QED
    BY <1>2, <2>2, <2>3 DEF Prog
<1> QED
  BY <1>1, <1>2

LEMMA ProgTakes ==
    ASSUME NEW f, NEW name, NEW v, NEW n \in Nat, NEW on, NEW c, NEW else,
           Prog(f, n, 0, name, on, c, v, else),
           Counts(f[n + 1], name)
    PROVE  Prog(f, n + 1, 2, name, on, c, f[n + 1].value, else)
<1>1. ~on /\ Upto(f, name, n) = {}
  BY DEF Prog
<1>2. Upto(f, name, n + 1) = {n + 1}
  BY <1>1, UptoNext
<1> QED
  BY <1>1, <1>2 DEF Prog, Earliest

LEMMA LastStays ==
    ASSUME NEW f, NEW name, NEW v, NEW n \in Nat, NEW else, Latest(f, name, v, n, else),
           ~Counts(f[n + 1], name)
    PROVE  Latest(f, name, v, n + 1, else)
  BY UptoNext DEF Latest

LEMMA LastTakes ==
    ASSUME NEW f, NEW name, NEW n \in Nat, NEW else, Counts(f[n + 1], name)
    PROVE  Latest(f, name, f[n + 1].value, n + 1, else)
<1>1. Upto(f, name, n + 1) = Upto(f, name, n) \cup {n + 1}
  BY UptoNext
<1>2. \A m \in Upto(f, name, n + 1) : m <= n + 1
  BY <1>1, UptoBelow
<1> QED
  BY <1>1, <1>2 DEF Latest

LEMMA LinesUpto ==
    ASSUME file \in Files
    PROVE  /\ Len(file) \in Nat
           /\ \A name : LinesFor(name) = Upto(file, name, Len(file))
  BY FilesAssumption DEF Upto, LinesFor

(* Once the file is read, or a line for it has been, the first line so far *)
(* is that of the file.                                                    *)
LEMMA FirstIsFirst ==
    ASSUME NEW name, NEW v, NEW l \in Nat, NEW n \in 0..l, NEW else,
           LinesFor(name) = Upto(file, name, l),
           Earliest(file, name, v, n, else),
           n = l \/ Upto(file, name, n) # {}
    PROVE  v = FirstOr(name, else)
<1>1. /\ \A j \in Upto(file, name, n) : j \in LinesFor(name)
      /\ \A j \in LinesFor(name) : j \in 1..l /\ (j <= n => j \in Upto(file, name, n))
  BY DEF Upto
<1>2. CASE Upto(file, name, n) = {}
  <2>1. LinesFor(name) = {} /\ v = else
    BY <1>1, <1>2 DEF Earliest
  <2> QED
    BY <2>1 DEF FirstOr
<1>3. CASE Upto(file, name, n) # {}
  <2>1. PICK j \in Upto(file, name, n) :
          v = file[j].value /\ \A m \in Upto(file, name, n) : j <= m
    BY <1>3 DEF Earliest
  <2>2. j \in LinesFor(name) /\ j \in 1..n
    BY <1>1 DEF Upto
  <2>3. \A m \in LinesFor(name) : j <= m
    BY <1>1, <2>1, <2>2
  <2>4. Min(LinesFor(name)) = j
    <3>1. \A m \in LinesFor(name) : m \in Nat
      BY <1>1
    <3>2. \A x \in LinesFor(name) : (\A m \in LinesFor(name) : x <= m) <=> x = j
      <4> TAKE x \in LinesFor(name)
      <4>1. (\A m \in LinesFor(name) : x <= m) => x <= j /\ j <= x
        BY <2>2, <2>3
      <4>2. x \in Nat /\ j \in Nat
        BY <2>2, <3>1
      <4> QED
        BY <2>3, <4>1, <4>2
    <3> QED
      BY <2>2, <3>2 DEF Min
  <2> QED
    BY <2>1, <2>2, <2>4 DEF FirstOr
<1> QED
  BY <1>2, <1>3

LEMMA LastIsLast ==
    ASSUME NEW name, NEW v, NEW l \in Nat, NEW else,
           LinesFor(name) = Upto(file, name, l),
           Latest(file, name, v, l, else)
    PROVE  v = LastOr(name, else)
<1>2. CASE LinesFor(name) = {}
  BY <1>2 DEF Latest, LastOr
<1>3. CASE LinesFor(name) # {}
  <2>1. PICK j \in LinesFor(name) : v = file[j].value /\ \A m \in LinesFor(name) : m <= j
    BY <1>3 DEF Latest
  <2>2. \A m \in LinesFor(name) : m \in Nat
    BY DEF Upto
  <2>3. Max(LinesFor(name)) = j
    BY <2>1, <2>2 DEF Max
  <2> QED
    BY <1>3, <2>1, <2>3 DEF LastOr
<1> QED
  BY <1>2, <1>3

(* The same, the file read. *)
Told(name, on, c, v, else) == IF on THEN v = c ELSE v = FirstOr(name, else)

LEMMA ProgEnds ==
    ASSUME NEW name, NEW v, NEW l \in Nat, NEW n \in 0..l, NEW i, NEW on, NEW c, NEW else,
           LinesFor(name) = Upto(file, name, l),
           Prog(file, n, i, name, on, c, v, else),
           n = l \/ Upto(file, name, n) # {}
    PROVE  Told(name, on, c, v, else)
  BY FirstIsFirst DEF Prog, Told

-----------------------------------------------------------------------------
(* The invariant *)

(* TypeOK without what is said of the peers, and with the types of number. *)
BaseOK ==
    /\ argv \in Argvs /\ file \in Files
    /\ pc \in {"cmnd", "config", "running", "force"}
    /\ k \in 0..Len(file)
    /\ seen \subseteq Names \cup {"NOPEERS"}
    /\ ind \in [Names -> 0..2]
    /\ number \in [Numeric -> Int]
    /\ CDETACH \in BOOLEAN /\ FDETACH \in BOOLEAN /\ DETACH \in BOOLEAN
    /\ DEBUG_DELAY \in BOOLEAN
    /\ restarts \in 0..Restarts

StartInv ==
    pc = "cmnd" =>
        /\ k = 0 /\ seen = {} /\ restarts = 0
        /\ number = Default /\ BBFILE = Unset /\ DEBUG_DELAY = FALSE /\ FDETACH = TRUE

SeenInv ==
    /\ \A name \in seen : name \in Numeric \cup {"DAEMON", "DEBUG"} => Upto(file, name, k) # {}
    /\ "BBFILE" \in seen => \E j \in 1..k : file[j].name = "BBFILE"

ConfigInv ==
    pc = "config" =>
        /\ restarts = 0 /\ CDETACH = ~argv.f
        /\ \A s \in Numeric :
             Prog(file, k, ind[s], s, argv[s] # NoValue, argv[s], number[s], Default[s])
        /\ Prog(file, k, ind["BBFILE"], "BBFILE", argv.b # NoValue, argv.b, BBFILE, Unset)
        /\ Prog(file, k, ind["DEBUG"], "DEBUG", argv.d, TRUE, DEBUG_DELAY, FALSE)
        /\ Prog(file, k, ind["DAEMON"], "DAEMON", argv.f, TRUE, FDETACH, TRUE)
        /\ SeenInv

ForceInv ==
    pc = "force" =>
        /\ restarts > 0 /\ seen = {}
        /\ \A s \in Numeric : Latest(file, s, number[s], k, Default[s])
        /\ Latest(file, "BBFILE", BBFILE, k, Unset)
        /\ Latest(file, "DEBUG", DEBUG_DELAY, k, FALSE)
        /\ Latest(file, "DAEMON", DETACH, k, TRUE)

RunInv ==
    /\ pc = "running" => seen = {}
    /\ CommandLineWins /\ RestartUsesFile

ConfInv == BaseOK /\ StartInv /\ ConfigInv /\ ForceInv /\ RunInv

(* Lines are of the shape the assumption says. *)
LEMMA LineShape ==
    ASSUME BaseOK, k < Len(file)
    PROVE  /\ k \in Nat /\ k + 1 \in 1..Len(file) /\ k + 1 \in 0..Len(file)
           /\ Line.name \in Names \cup {"other"}
           /\ Line.name \in Numeric => Line.value \in Int
           /\ Line.name \in {"DAEMON", "DEBUG"} => Line.value \in BOOLEAN
<1>1. PICK l : l = Len(file)
  OBVIOUS
<1>2. l \in Nat /\ DOMAIN file = 1..l
  BY <1>1, FilesAssumption DEF BaseOK
<1>3. k \in 0..l /\ k < l
  BY <1>1 DEF BaseOK
<1>4. k \in Nat /\ k + 1 \in 1..l /\ k + 1 \in 0..l
  BY <1>2, <1>3
<1>5. k + 1 \in DOMAIN file
  BY <1>2, <1>4
<1>6. /\ file[k + 1].name \in Names \cup {"other"}
      /\ file[k + 1].name \in Numeric => file[k + 1].value \in Int
      /\ file[k + 1].name \in {"DAEMON", "DEBUG"} => file[k + 1].value \in BOOLEAN
  BY <1>5, FilesAssumption, Zenon DEF BaseOK
<1> QED
  BY <1>1, <1>4, <1>6, Zenon DEF Line

LEMMA NamesApart ==
    /\ \A s \in Numeric : s \notin {"BBFILE", "PEERS", "DAEMON", "DEBUG", "NOPEERS", "other"}
    /\ NoValue # "BBFILE" /\ NoValue # "PEERS" /\ NoValue # "DAEMON" /\ NoValue # "DEBUG"
    /\ NoValue # "NOPEERS"
    /\ \A s \in Numeric : NoValue # s
  BY NumericAssumption, NoValueAssumption DEF Names

-----------------------------------------------------------------------------
(* A line is read *)

(* What becomes of a setting: v before, w after. *)
Branch(name, v, w) ==
    IF Counts(Line, name) /\ Takes(name)
      THEN w = Line.value /\ ind'[name] = 2
      ELSE w = v /\ ind'[name] = ind[name]

Moves ==
    /\ \A s \in Numeric : Branch(s, number[s], number'[s])
    /\ Branch("BBFILE", BBFILE, BBFILE')
    /\ Branch("DEBUG", DEBUG_DELAY, DEBUG_DELAY')
    /\ pc = "config" => Branch("DAEMON", FDETACH, FDETACH')
    /\ pc = "force" => Branch("DAEMON", DETACH, DETACH')

LEMMA BranchConfig ==
    ASSUME k \in Nat, pc = "config", NEW name, NEW on, NEW c, NEW v, NEW w, NEW else,
           Prog(file, k, ind[name], name, on, c, v, else), Branch(name, v, w)
    PROVE  Prog(file, k + 1, ind'[name], name, on, c, w, else)
<1>1. CASE Counts(Line, name) /\ ind[name] = 0
  <2>1. w = file[k + 1].value /\ ind'[name] = 2
    BY <1>1 DEF Branch, Takes, Line
  <2>2. Counts(file[k + 1], name)
    BY <1>1 DEF Line
  <2> QED
    BY <1>1, <2>1, <2>2, ProgTakes
<1>2. CASE ~(Counts(Line, name) /\ ind[name] = 0)
  <2>1. w = v /\ ind'[name] = ind[name]
    BY <1>2 DEF Branch, Takes
  <2>2. ~Counts(file[k + 1], name) \/ ind[name] # 0
    BY <1>2 DEF Line
  <2> QED
    BY <2>1, <2>2, ProgStays
<1> QED
  BY <1>1, <1>2

LEMMA BranchForce ==
    ASSUME k \in Nat, pc = "force", NEW name, NEW v, NEW w, NEW else,
           Latest(file, name, v, k, else), Branch(name, v, w)
    PROVE  Latest(file, name, w, k + 1, else)
<1>1. CASE Counts(Line, name)
  <2>1. w = file[k + 1].value
    BY <1>1 DEF Branch, Takes, Line
  <2>2. Counts(file[k + 1], name)
    BY <1>1 DEF Line
  <2> QED
    BY <2>1, <2>2, LastTakes
<1>2. CASE ~Counts(Line, name)
  <2>1. w = v
    BY <1>2 DEF Branch
  <2>2. ~Counts(file[k + 1], name)
    BY <1>2 DEF Line
  <2> QED
    BY <2>1, <2>2, LastStays
<1> QED
  BY <1>1, <1>2

LEMMA SeenNext ==
    ASSUME k \in Nat, SeenInv, k' = k + 1, file' = file, NEW mark,
           seen' \subseteq seen \cup {mark},
           mark \in Numeric \cup {"DAEMON", "DEBUG"} => Counts(Line, mark),
           mark = "BBFILE" => Line.name = "BBFILE"
    PROVE  SeenInv'
<1>1. ASSUME NEW name \in seen', name \in Numeric \cup {"DAEMON", "DEBUG"}
      PROVE  Upto(file, name, k + 1) # {}
  <2>1. Upto(file, name, k) # {} \/ Counts(file[k + 1], name)
    BY <1>1 DEF SeenInv, Line
  <2> QED
    BY <2>1, UptoNext
<1>2. ASSUME "BBFILE" \in seen' PROVE \E j \in 1..(k + 1) : file[j].name = "BBFILE"
  <2>1. CASE "BBFILE" \in seen
    BY <2>1 DEF SeenInv
  <2>2. CASE mark = "BBFILE"
    BY <2>2 DEF Line
  <2> QED
    BY <1>2, <2>1, <2>2
<1>3. \A name \in seen' :
        name \in Numeric \cup {"DAEMON", "DEBUG"} => Upto(file', name, k') # {}
  BY <1>1
<1>4. "BBFILE" \in seen' => \E j \in 1..k' : file'[j].name = "BBFILE"
  BY <1>2
<1> QED
  BY <1>3, <1>4, Zenon DEF SeenInv

LEMMA LineRead ==
    ASSUME BaseOK, ConfigInv, ForceInv, NEW name, NEW mark, Read(name, mark), Moves,
           mark \in Numeric \cup {"DAEMON", "DEBUG"} => Counts(Line, mark),
           mark = "BBFILE" => name = "BBFILE"
    PROVE  StartInv' /\ ConfigInv' /\ ForceInv' /\ RunInv'
<1>1. /\ k < Len(file) /\ Line.name = name /\ k' = k + 1
      /\ pc \in {"config", "force"} /\ pc' = pc
      /\ argv' = argv /\ file' = file /\ CDETACH' = CDETACH /\ restarts' = restarts
      /\ seen' \subseteq seen \cup {mark} /\ (pc = "force" => seen' = seen)
  BY DEF Read, Fetching
<1>2. k \in Nat
  BY <1>1, LineShape
<1>3. CASE pc = "config"
  <2>1. /\ restarts = 0 /\ CDETACH = ~argv.f
        /\ \A s \in Numeric :
             Prog(file, k, ind[s], s, argv[s] # NoValue, argv[s], number[s], Default[s])
        /\ Prog(file, k, ind["BBFILE"], "BBFILE", argv.b # NoValue, argv.b, BBFILE, Unset)
        /\ Prog(file, k, ind["DEBUG"], "DEBUG", argv.d, TRUE, DEBUG_DELAY, FALSE)
        /\ Prog(file, k, ind["DAEMON"], "DAEMON", argv.f, TRUE, FDETACH, TRUE)
        /\ SeenInv
    BY <1>3, Zenon DEF ConfigInv
  <2>2. /\ \A s \in Numeric : Branch(s, number[s], number'[s])
        /\ Branch("BBFILE", BBFILE, BBFILE') /\ Branch("DEBUG", DEBUG_DELAY, DEBUG_DELAY')
        /\ Branch("DAEMON", FDETACH, FDETACH')
    BY <1>3, Zenon DEF Moves
  <2>3. \A s \in Numeric :
          Prog(file, k + 1, ind'[s], s, argv[s] # NoValue, argv[s], number'[s], Default[s])
    BY <1>2, <1>3, <2>1, <2>2, BranchConfig, Zenon
  <2>4. Prog(file, k + 1, ind'["BBFILE"], "BBFILE", argv.b # NoValue, argv.b, BBFILE', Unset)
    BY <1>2, <1>3, <2>1, <2>2, BranchConfig, Zenon
  <2>5. Prog(file, k + 1, ind'["DEBUG"], "DEBUG", argv.d, TRUE, DEBUG_DELAY', FALSE)
    BY <1>2, <1>3, <2>1, <2>2, BranchConfig, Zenon
  <2>6. Prog(file, k + 1, ind'["DAEMON"], "DAEMON", argv.f, TRUE, FDETACH', TRUE)
    BY <1>2, <1>3, <2>1, <2>2, BranchConfig, Zenon
  <2>7. SeenInv'
    BY <1>1, <1>2, <2>1, SeenNext
  <2>8. ConfigInv'
    BY <1>1, <2>1, <2>3, <2>4, <2>5, <2>6, <2>7, Zenon DEF ConfigInv
  <2> QED
    BY <1>1, <1>3, <2>8 DEF StartInv, ForceInv, RunInv, CommandLineWins, RestartUsesFile
<1>4. CASE pc = "force"
  <2>1. /\ restarts > 0 /\ seen = {}
        /\ \A s \in Numeric : Latest(file, s, number[s], k, Default[s])
        /\ Latest(file, "BBFILE", BBFILE, k, Unset)
        /\ Latest(file, "DEBUG", DEBUG_DELAY, k, FALSE)
        /\ Latest(file, "DAEMON", DETACH, k, TRUE)
    BY <1>4, Zenon DEF ForceInv
  <2>2. /\ \A s \in Numeric : Branch(s, number[s], number'[s])
        /\ Branch("BBFILE", BBFILE, BBFILE') /\ Branch("DEBUG", DEBUG_DELAY, DEBUG_DELAY')
        /\ Branch("DAEMON", DETACH, DETACH')
    BY <1>4, Zenon DEF Moves
  <2>3. \A s \in Numeric : Latest(file, s, number'[s], k + 1, Default[s])
    BY <1>2, <1>4, <2>1, <2>2, BranchForce, Zenon
  <2>4. Latest(file, "BBFILE", BBFILE', k + 1, Unset)
    BY <1>2, <1>4, <2>1, <2>2, BranchForce, Zenon
  <2>5. Latest(file, "DEBUG", DEBUG_DELAY', k + 1, FALSE)
    BY <1>2, <1>4, <2>1, <2>2, BranchForce, Zenon
  <2>6. Latest(file, "DAEMON", DETACH', k + 1, TRUE)
    BY <1>2, <1>4, <2>1, <2>2, BranchForce, Zenon
  <2>7. ForceInv'
    BY <1>1, <1>4, <2>1, <2>3, <2>4, <2>5, <2>6, Zenon DEF ForceInv
  <2> QED
    BY <1>1, <1>4, <2>7 DEF StartInv, ConfigInv, RunInv, CommandLineWins, RestartUsesFile
<1> QED
  BY <1>1, <1>3, <1>4

LineInv == StartInv' /\ ConfigInv' /\ ForceInv' /\ RunInv'

(* What a line of another name does to a setting. *)
LEMMA OtherName ==
    ASSUME NEW name, Line.name # name, NEW v, ind'[name] = ind[name]
    PROVE  Branch(name, v, v)
  BY DEF Branch, Counts

LEMMA NumberLine ==
    ASSUME BaseOK, ConfigInv, ForceInv, NEW t \in Numeric,
           k < Len(file), Line.name = t, ReadNumber(t)
    PROVE  LineInv /\ BaseOK'
<1>1. /\ Read(t, t) /\ Line.value > 0 /\ Line.value \in Int
      /\ UNCHANGED <<BBFILE, DEBUG_DELAY, DETACH, FDETACH>>
      /\ IF Takes(t) THEN /\ number' = [number EXCEPT ![t] = Line.value]
                          /\ ind' = [ind EXCEPT ![t] = 2]
                     ELSE UNCHANGED <<number, ind>>
  BY LineShape DEF ReadNumber, Mark
<1>2. /\ t \in Names /\ ind \in [Names -> 0..2] /\ number \in [Numeric -> Int]
      /\ Numeric \subseteq Names /\ {"BBFILE", "DEBUG", "DAEMON"} \subseteq Names
      /\ t # "BBFILE" /\ t # "DEBUG" /\ t # "DAEMON"
  BY NamesApart DEF BaseOK, Names
<1>3. Counts(Line, t)
  BY <1>1 DEF Counts
<1>4. \A s \in Names \ {t} : ind'[s] = ind[s]
  BY <1>1, <1>2
<1>5. Branch("BBFILE", BBFILE, BBFILE') /\ Branch("DEBUG", DEBUG_DELAY, DEBUG_DELAY')
      /\ Branch("DAEMON", FDETACH, FDETACH') /\ Branch("DAEMON", DETACH, DETACH')
  BY <1>1, <1>2, <1>4, OtherName
<1>6. \A s \in Numeric : Branch(s, number[s], number'[s])
  <2> TAKE s \in Numeric
  <2>1. CASE s # t
    <3>1. number'[s] = number[s] /\ ind'[s] = ind[s]
      BY <1>1, <1>2, <1>4, <2>1
    <3> QED
      BY <2>1, <3>1, OtherName
  <2>2. CASE s = t
    BY <1>1, <1>2, <1>3, <2>2 DEF Branch
  <2> QED
    BY <2>1, <2>2
<1>7. LineInv
  BY <1>1, <1>2, <1>3, <1>5, <1>6, LineRead DEF Moves, LineInv
<1>8. BaseOK'
  <2>1. k' \in 0..Len(file') /\ UNCHANGED <<argv, file, pc, CDETACH, restarts>>
    BY <1>1, LineShape DEF Read
  <2>2. seen' \subseteq Names \cup {"NOPEERS"}
    BY <1>1, <1>2 DEF Read, BaseOK
  <2>3. ind' \in [Names -> 0..2] /\ number' \in [Numeric -> Int]
    BY <1>1, <1>2
  <2> QED
    BY <1>1, <2>1, <2>2, <2>3 DEF BaseOK
<1> QED
  BY <1>7, <1>8

LEMMA BBFileLine ==
    ASSUME BaseOK, ConfigInv, ForceInv, ReadBBFile
    PROVE  LineInv /\ BaseOK'
<1>1. /\ Read("BBFILE", "BBFILE") /\ Line.name = "BBFILE" /\ k < Len(file)
      /\ UNCHANGED <<number, DEBUG_DELAY, DETACH, FDETACH>>
      /\ IF Line.value # NoValue /\ Takes("BBFILE")
           THEN BBFILE' = Line.value /\ ind' = [ind EXCEPT !["BBFILE"] = 2]
           ELSE UNCHANGED <<BBFILE, ind>>
  BY DEF ReadBBFile, Mark, Read
<1>2. /\ ind \in [Names -> 0..2] /\ Numeric \subseteq Names
      /\ {"BBFILE", "DEBUG", "DAEMON"} \subseteq Names /\ "BBFILE" \notin Numeric
  BY NamesApart DEF BaseOK, Names
<1>3. Counts(Line, "BBFILE") <=> Line.value # NoValue
  BY <1>1, <1>2 DEF Counts
<1>4. \A s \in Names \ {"BBFILE"} : ind'[s] = ind[s]
  BY <1>1, <1>2
<1>5. /\ Branch("DEBUG", DEBUG_DELAY, DEBUG_DELAY')
      /\ Branch("DAEMON", FDETACH, FDETACH') /\ Branch("DAEMON", DETACH, DETACH')
      /\ \A s \in Numeric : Branch(s, number[s], number'[s])
  BY <1>1, <1>2, <1>4, OtherName
<1>6. Branch("BBFILE", BBFILE, BBFILE')
  BY <1>1, <1>2, <1>3 DEF Branch
<1>7. LineInv
  BY <1>1, <1>2, <1>5, <1>6, LineRead DEF Moves, LineInv
<1>8. BaseOK'
  <2>1. k' \in 0..Len(file') /\ UNCHANGED <<argv, file, pc, CDETACH, restarts>>
    BY <1>1, LineShape DEF Read
  <2>2. seen' \subseteq Names \cup {"NOPEERS"}
    BY <1>1, <1>2 DEF Read, BaseOK
  <2>3. ind' \in [Names -> 0..2]
    BY <1>1, <1>2
  <2> QED
    BY <1>1, <2>1, <2>2, <2>3 DEF BaseOK
<1> QED
  BY <1>7, <1>8

LEMMA DaemonLine ==
    ASSUME BaseOK, ConfigInv, ForceInv, ReadDaemon
    PROVE  LineInv /\ BaseOK'
<1>1. /\ Read("DAEMON", "DAEMON") /\ Line.name = "DAEMON" /\ k < Len(file)
      /\ UNCHANGED <<number, BBFILE, DEBUG_DELAY>>
      /\ IF Takes("DAEMON")
           THEN /\ ind' = [ind EXCEPT !["DAEMON"] = 2]
                /\ IF pc = "config" THEN FDETACH' = Line.value /\ UNCHANGED DETACH
                                    ELSE DETACH' = Line.value /\ UNCHANGED FDETACH
           ELSE UNCHANGED <<FDETACH, DETACH, ind>>
  BY DEF ReadDaemon, Mark, Read
<1>2. /\ ind \in [Names -> 0..2] /\ Numeric \subseteq Names
      /\ {"BBFILE", "DEBUG", "DAEMON"} \subseteq Names /\ "DAEMON" \notin Numeric
  BY NamesApart DEF BaseOK, Names
<1>3. Line.value \in BOOLEAN
  BY <1>1, LineShape
<1>4. Counts(Line, "DAEMON")
  BY <1>1, <1>2, <1>3, NoValueAssumption DEF Counts
<1>5. \A s \in Names \ {"DAEMON"} : ind'[s] = ind[s]
  BY <1>1, <1>2
<1>6. /\ Branch("DEBUG", DEBUG_DELAY, DEBUG_DELAY') /\ Branch("BBFILE", BBFILE, BBFILE')
      /\ \A s \in Numeric : Branch(s, number[s], number'[s])
  BY <1>1, <1>2, <1>5, OtherName
<1>7. /\ pc = "config" => Branch("DAEMON", FDETACH, FDETACH')
      /\ pc = "force" => Branch("DAEMON", DETACH, DETACH')
  <2>1. CASE Takes("DAEMON")
    <3>1. /\ ind'["DAEMON"] = 2
          /\ pc = "config" => FDETACH' = Line.value
          /\ pc = "force" => DETACH' = Line.value
      BY <1>1, <1>2, <2>1
    <3> QED
      BY <1>4, <2>1, <3>1, Zenon DEF Branch
  <2>2. CASE ~Takes("DAEMON")
    BY <1>1, <2>2 DEF Branch
  <2> QED
    BY <2>1, <2>2
<1>8. LineInv
  BY <1>1, <1>2, <1>4, <1>6, <1>7, LineRead DEF Moves, LineInv
<1>9. BaseOK'
  <2>1. k' \in 0..Len(file') /\ UNCHANGED <<argv, file, pc, CDETACH, restarts>>
    BY <1>1, LineShape DEF Read
  <2>2. seen' \subseteq Names \cup {"NOPEERS"}
    BY <1>1, <1>2 DEF Read, BaseOK
  <2>3. ind' \in [Names -> 0..2]
    BY <1>1, <1>2
  <2>4. DETACH' \in BOOLEAN /\ FDETACH' \in BOOLEAN
    BY <1>1, <1>3 DEF BaseOK
  <2> QED
    BY <1>1, <2>1, <2>2, <2>3, <2>4 DEF BaseOK
<1> QED
  BY <1>8, <1>9

LEMMA DebugLine ==
    ASSUME BaseOK, ConfigInv, ForceInv, ReadDebug
    PROVE  LineInv /\ BaseOK'
<1>1. /\ Read("DEBUG", "DEBUG") /\ Line.name = "DEBUG" /\ k < Len(file)
      /\ UNCHANGED <<number, BBFILE, FDETACH, DETACH>>
      /\ IF Takes("DEBUG")
           THEN DEBUG_DELAY' = Line.value /\ ind' = [ind EXCEPT !["DEBUG"] = 2]
           ELSE UNCHANGED <<DEBUG_DELAY, ind>>
  BY DEF ReadDebug, Mark, Read
<1>2. /\ ind \in [Names -> 0..2] /\ Numeric \subseteq Names
      /\ {"BBFILE", "DEBUG", "DAEMON"} \subseteq Names /\ "DEBUG" \notin Numeric
  BY NamesApart DEF BaseOK, Names
<1>3. Line.value \in BOOLEAN
  BY <1>1, LineShape
<1>4. Counts(Line, "DEBUG")
  BY <1>1, <1>2, <1>3, NoValueAssumption DEF Counts
<1>5. \A s \in Names \ {"DEBUG"} : ind'[s] = ind[s]
  BY <1>1, <1>2
<1>6. /\ Branch("DAEMON", FDETACH, FDETACH') /\ Branch("DAEMON", DETACH, DETACH')
      /\ Branch("BBFILE", BBFILE, BBFILE')
      /\ \A s \in Numeric : Branch(s, number[s], number'[s])
  BY <1>1, <1>2, <1>5, OtherName
<1>7. Branch("DEBUG", DEBUG_DELAY, DEBUG_DELAY')
  <2>1. CASE Takes("DEBUG")
    <3>1. ind'["DEBUG"] = 2 /\ DEBUG_DELAY' = Line.value
      BY <1>1, <1>2, <2>1
    <3> QED
      BY <1>4, <2>1, <3>1, Zenon DEF Branch
  <2>2. CASE ~Takes("DEBUG")
    BY <1>1, <2>2 DEF Branch
  <2> QED
    BY <2>1, <2>2
<1>8. LineInv
  BY <1>1, <1>2, <1>4, <1>6, <1>7, LineRead DEF Moves, LineInv
<1>9. BaseOK'
  <2>1. k' \in 0..Len(file') /\ UNCHANGED <<argv, file, pc, CDETACH, restarts>>
    BY <1>1, LineShape DEF Read
  <2>2. seen' \subseteq Names \cup {"NOPEERS"}
    BY <1>1, <1>2 DEF Read, BaseOK
  <2>3. ind' \in [Names -> 0..2]
    BY <1>1, <1>2
  <2>4. DEBUG_DELAY' \in BOOLEAN
    BY <1>1, <1>3 DEF BaseOK
  <2> QED
    BY <1>1, <2>1, <2>2, <2>3, <2>4 DEF BaseOK
<1> QED
  BY <1>9, <1>8

LEMMA PeersLine ==
    ASSUME BaseOK, ConfigInv, ForceInv, ReadPeers
    PROVE  LineInv /\ BaseOK'
<1>1. PICK mark \in {"PEERS", "NOPEERS"} : Read("PEERS", mark)
  BY DEF ReadPeers
<1>2. /\ Line.name = "PEERS" /\ k < Len(file)
      /\ UNCHANGED <<number, BBFILE, DEBUG_DELAY, DETACH, FDETACH>>
      /\ ind' = ind \/ ind' = [ind EXCEPT !["PEERS"] = 2]
  BY <1>1 DEF ReadPeers, Mark, Read, settings
<1>3. /\ ind \in [Names -> 0..2] /\ Numeric \subseteq Names
      /\ {"BBFILE", "DEBUG", "DAEMON", "PEERS"} \subseteq Names
      /\ \A s \in Numeric : s # "PEERS" /\ s # "NOPEERS"
  BY NamesApart DEF BaseOK, Names
<1>4. \A s \in Names \ {"PEERS"} : ind'[s] = ind[s]
  BY <1>2, <1>3
<1>5. /\ Branch("DAEMON", FDETACH, FDETACH') /\ Branch("DAEMON", DETACH, DETACH')
      /\ Branch("BBFILE", BBFILE, BBFILE') /\ Branch("DEBUG", DEBUG_DELAY, DEBUG_DELAY')
      /\ \A s \in Numeric : Branch(s, number[s], number'[s])
  BY <1>2, <1>3, <1>4, OtherName
<1>6. LineInv
  BY <1>1, <1>3, <1>5, LineRead DEF Moves, LineInv
<1>7. BaseOK'
  <2>1. k' \in 0..Len(file') /\ UNCHANGED <<argv, file, pc, CDETACH, restarts>>
    BY <1>1, <1>2, LineShape DEF Read
  <2>2. seen' \subseteq Names \cup {"NOPEERS"}
    BY <1>1, <1>3 DEF Read, BaseOK
  <2>3. ind' \in [Names -> 0..2]
    BY <1>2, <1>3
  <2> QED
    BY <1>2, <2>1, <2>2, <2>3 DEF BaseOK
<1> QED
  BY <1>6, <1>7

LEMMA OtherLine ==
    ASSUME BaseOK, ConfigInv, ForceInv, ReadOther
    PROVE  LineInv /\ BaseOK'
<1>1. /\ Read(Line.name, NoValue) /\ k < Len(file)
      /\ UNCHANGED <<number, BBFILE, DEBUG_DELAY, DETACH, FDETACH, ind>>
      /\ Line.name = "other" \/ (Line.name \in Numeric /\ Line.value <= 0)
  BY DEF ReadOther, settings
<1>2. Line.name \in Numeric => Line.value \in Int
  BY <1>1, LineShape
<1>3. /\ \A s \in Numeric \cup {"BBFILE", "DEBUG", "DAEMON"} : ~Counts(Line, s)
      /\ NoValue \notin Numeric \cup {"DAEMON", "DEBUG", "BBFILE"}
  BY <1>1, <1>2, NamesApart DEF Counts
<1>4. /\ Branch("DAEMON", FDETACH, FDETACH') /\ Branch("DAEMON", DETACH, DETACH')
      /\ Branch("BBFILE", BBFILE, BBFILE') /\ Branch("DEBUG", DEBUG_DELAY, DEBUG_DELAY')
      /\ \A s \in Numeric : Branch(s, number[s], number'[s])
  BY <1>1, <1>3 DEF Branch
<1>5. LineInv
  BY <1>1, <1>3, <1>4, LineRead DEF Moves, LineInv
<1>6. BaseOK'
  <2>1. k' \in 0..Len(file') /\ UNCHANGED <<argv, file, pc, CDETACH, restarts>>
    BY <1>1, LineShape DEF Read
  <2>2. seen' = seen
    BY <1>1 DEF Read
  <2> QED
    BY <1>1, <2>1, <2>2 DEF BaseOK
<1> QED
  BY <1>5, <1>6

-----------------------------------------------------------------------------
(* The other steps *)

LEMMA Fetched ==
    ASSUME BaseOK, StartInv, FetchCmndLine
    PROVE  BaseOK' /\ StartInv' /\ ConfigInv' /\ ForceInv' /\ RunInv'
<1>1. /\ pc = "cmnd" /\ pc' = "config" /\ k' = 0 /\ CDETACH' = ~argv.f
      /\ DEBUG_DELAY' = argv.d
      /\ number' = [s \in Numeric |-> IF argv[s] = NoValue THEN number[s] ELSE argv[s]]
      /\ BBFILE' = IF argv.b = NoValue THEN BBFILE ELSE argv.b
      /\ UNCHANGED <<argv, file, seen, FDETACH, DETACH, restarts>>
  BY DEF FetchCmndLine
<1>2. /\ seen = {} /\ restarts = 0 /\ number = Default /\ BBFILE = Unset
      /\ DEBUG_DELAY = FALSE /\ FDETACH = TRUE
  BY <1>1 DEF StartInv
<1>3. /\ Numeric \subseteq Names /\ {"BBFILE", "DEBUG", "DAEMON", "PEERS"} \subseteq Names
      /\ \A s \in Numeric : s \notin {"BBFILE", "DEBUG", "DAEMON", "PEERS"}
  BY NamesApart DEF Names
<1>4. /\ argv.f \in BOOLEAN /\ argv.d \in BOOLEAN
      /\ \A s \in Numeric : argv[s] = NoValue \/ argv[s] \in Int
  BY ArgvsAssumption, Zenon DEF BaseOK
<1>5. ind' = [s \in Names |->
                 CASE s \in Numeric -> IF argv[s] = NoValue THEN 0 ELSE 1
                   [] s = "BBFILE" -> IF argv.b = NoValue THEN 0 ELSE 1
                   [] s = "PEERS" -> IF argv.peers = <<>> THEN 0 ELSE 1
                   [] s = "DAEMON" -> IF argv.f THEN 1 ELSE 0
                   [] OTHER -> IF argv.d THEN 1 ELSE 0]
  BY DEF FetchCmndLine
<1>6. /\ \A s \in Numeric : ind'[s] = IF argv[s] = NoValue THEN 0 ELSE 1
      /\ ind'["BBFILE"] = IF argv.b = NoValue THEN 0 ELSE 1
      /\ ind'["PEERS"] = IF argv.peers = <<>> THEN 0 ELSE 1
      /\ ind'["DAEMON"] = IF argv.f THEN 1 ELSE 0
      /\ ind'["DEBUG"] = IF argv.d THEN 1 ELSE 0
  <2>1. \A s \in Numeric : ind'[s] = IF argv[s] = NoValue THEN 0 ELSE 1
    BY <1>3, <1>5
  <2>2. ind'["BBFILE"] = IF argv.b = NoValue THEN 0 ELSE 1
    BY <1>3, <1>5
  <2>3. ind'["PEERS"] = IF argv.peers = <<>> THEN 0 ELSE 1
    BY <1>3, <1>5
  <2>4. ind'["DAEMON"] = IF argv.f THEN 1 ELSE 0
    BY <1>3, <1>5
  <2>5. ind'["DEBUG"] = IF argv.d THEN 1 ELSE 0
    BY <1>3, <1>5
  <2> QED
    BY <2>1, <2>2, <2>3, <2>4, <2>5
<1>7. ind' \in [Names -> 0..2]
  <2>1. \A s \in Names : ind'[s] \in 0..2
    BY <1>6 DEF Names
  <2>2. ind' = [s \in Names |-> ind'[s]]
    BY <1>5
  <2> QED
    BY <2>1, <2>2
<1>8. \A name : Upto(file, name, 0) = {}
  BY DEF Upto
<1>9. /\ \A s \in Numeric :
           Prog(file, 0, ind'[s], s, argv[s] # NoValue, argv[s], number'[s], Default[s])
      /\ Prog(file, 0, ind'["BBFILE"], "BBFILE", argv.b # NoValue, argv.b, BBFILE', Unset)
  BY <1>1, <1>2, <1>6, <1>8 DEF Prog, Earliest
<1>10. /\ Prog(file, 0, ind'["DEBUG"], "DEBUG", argv.d, TRUE, DEBUG_DELAY', FALSE)
       /\ Prog(file, 0, ind'["DAEMON"], "DAEMON", argv.f, TRUE, FDETACH', TRUE)
  <2>1. Prog(file, 0, ind'["DEBUG"], "DEBUG", argv.d, TRUE, DEBUG_DELAY', FALSE)
    <3>1. CASE argv.d
      <4>1. DEBUG_DELAY' = TRUE /\ ind'["DEBUG"] # 0
        BY <1>1, <1>4, <1>6, <3>1
      <4> QED
        BY <3>1, <4>1 DEF Prog
    <3>2. CASE ~argv.d
      <4>1. DEBUG_DELAY' = FALSE /\ ind'["DEBUG"] = 0
        BY <1>1, <1>4, <1>6, <3>2
      <4> QED
        BY <1>8, <3>2, <4>1 DEF Prog, Earliest
    <3> QED
      BY <3>1, <3>2
  <2>2. Prog(file, 0, ind'["DAEMON"], "DAEMON", argv.f, TRUE, FDETACH', TRUE)
    <3>1. FDETACH' = TRUE /\ (argv.f => ind'["DAEMON"] # 0) /\ (~argv.f => ind'["DAEMON"] = 0)
      BY <1>1, <1>2, <1>4, <1>6
    <3> QED
      BY <1>8, <3>1 DEF Prog, Earliest
  <2> QED
    BY <2>1, <2>2
<1>11. SeenInv'
  BY <1>1, <1>2 DEF SeenInv
<1>12. ConfigInv'
  BY <1>1, <1>2, <1>9, <1>10, <1>11, Zenon DEF ConfigInv
<1>13. BaseOK'
  <2>1. number' \in [Numeric -> Int]
    BY <1>1, <1>2, <1>4, DefaultAssumption
  <2>2. CDETACH' \in BOOLEAN /\ DEBUG_DELAY' \in BOOLEAN
    BY <1>1, <1>4
  <2>3. k' \in 0..Len(file')
    BY <1>1, FilesAssumption DEF BaseOK
  <2> QED
    BY <1>1, <1>7, <2>1, <2>2, <2>3 DEF BaseOK
<1> QED
  BY <1>1, <1>12, <1>13 DEF StartInv, ForceInv, RunInv, CommandLineWins, RestartUsesFile

LEMMA FileStays ==
    ASSUME file' = file
    PROVE  /\ \A name, else : FirstOr(name, else)' = FirstOr(name, else)
           /\ \A name, else : LastOr(name, else)' = LastOr(name, else)
           /\ EmptyBBFileFirst' <=> EmptyBBFileFirst
<1>1. \A name : LinesFor(name)' = LinesFor(name)
  BY Zenon DEF LinesFor
<1> QED
  BY <1>1, Zenon DEF FirstOr, LastOr, EmptyBBFileFirst

LEMMA ConfigEnds ==
    ASSUME BaseOK, ConfigInv, Configured
    PROVE  BaseOK' /\ StartInv' /\ ConfigInv' /\ ForceInv' /\ RunInv'
<1>1. /\ pc = "config" /\ pc' = "running" /\ seen' = {} /\ DETACH' = (CDETACH /\ FDETACH)
      /\ AllSeen \/ k = Len(file)
      /\ UNCHANGED <<argv, file, k, ind, number, BBFILE, DEBUG_DELAY, CDETACH, FDETACH, restarts>>
  BY DEF Configured, Done, detach
<1>2. /\ restarts = 0 /\ CDETACH = ~argv.f
      /\ \A s \in Numeric :
           Prog(file, k, ind[s], s, argv[s] # NoValue, argv[s], number[s], Default[s])
      /\ Prog(file, k, ind["BBFILE"], "BBFILE", argv.b # NoValue, argv.b, BBFILE, Unset)
      /\ Prog(file, k, ind["DEBUG"], "DEBUG", argv.d, TRUE, DEBUG_DELAY, FALSE)
      /\ Prog(file, k, ind["DAEMON"], "DAEMON", argv.f, TRUE, FDETACH, TRUE)
      /\ SeenInv
  BY <1>1, Zenon DEF ConfigInv
<1>3. PICK l : l = Len(file)
  OBVIOUS
<1>4. l \in Nat /\ k \in 0..l /\ \A name : LinesFor(name) = Upto(file, name, l)
  BY <1>3, LinesUpto DEF BaseOK
<1>5. \A name \in Numeric \cup {"DEBUG", "DAEMON"} : k = l \/ Upto(file, name, k) # {}
  BY <1>1, <1>2, <1>3 DEF AllSeen, SeenInv, Names
<1>6. \A s \in Numeric : number[s] = IF argv[s] # NoValue THEN argv[s] ELSE FirstOr(s, Default[s])
  <2> TAKE s \in Numeric
  <2>0. /\ Prog(file, k, ind[s], s, argv[s] # NoValue, argv[s], number[s], Default[s])
        /\ LinesFor(s) = Upto(file, s, l)
        /\ k = l \/ Upto(file, s, k) # {}
    BY <1>2, <1>4, <1>5
  <2>1. Told(s, argv[s] # NoValue, argv[s], number[s], Default[s])
    BY <1>4, <2>0, ProgEnds, Zenon
  <2> QED
    BY <2>1 DEF Told
<1>7. /\ IF argv.d THEN DEBUG_DELAY = TRUE ELSE DEBUG_DELAY = FirstOr("DEBUG", FALSE)
      /\ IF argv.f THEN FDETACH = TRUE ELSE FDETACH = FirstOr("DAEMON", TRUE)
  <2>1. /\ k = l \/ Upto(file, "DEBUG", k) # {}
        /\ k = l \/ Upto(file, "DAEMON", k) # {}
    BY <1>5
  <2> QED
    <3>1. Told("DEBUG", argv.d, TRUE, DEBUG_DELAY, FALSE)
      BY <1>2, <1>4, <2>1, ProgEnds, Zenon
    <3>2. Told("DAEMON", argv.f, TRUE, FDETACH, TRUE)
      BY <1>2, <1>4, <2>1, ProgEnds, Zenon
    <3> QED
      BY <3>1, <3>2, Zenon DEF Told
<1>8. /\ argv.f \in BOOLEAN /\ argv.d \in BOOLEAN
      /\ DEBUG_DELAY \in BOOLEAN /\ FDETACH \in BOOLEAN
  BY ArgvsAssumption, Zenon DEF BaseOK
<1>9. /\ DEBUG_DELAY = (argv.d \/ FirstOr("DEBUG", FALSE))
      /\ DETACH' = (~argv.f /\ FirstOr("DAEMON", TRUE))
  <2>1. DEBUG_DELAY = (argv.d \/ FirstOr("DEBUG", FALSE))
    BY <1>7, <1>8, Zenon
  <2>2. DETACH' = (~argv.f /\ FirstOr("DAEMON", TRUE))
    BY <1>1, <1>2, <1>7, <1>8, Zenon
  <2> QED
    BY <2>1, <2>2
<1>10. IF argv.b # NoValue THEN BBFILE = argv.b
       ELSE BBFILE = FirstOr("BBFILE", Unset) \/ (BBFILE = Unset /\ EmptyBBFileFirst)
  <2>1. CASE k = l \/ Upto(file, "BBFILE", k) # {}
    <3>1. Told("BBFILE", argv.b # NoValue, argv.b, BBFILE, Unset)
      BY <1>2, <1>4, <2>1, ProgEnds, Zenon
    <3> QED
      BY <3>1 DEF Told
  <2>2. CASE k # l /\ Upto(file, "BBFILE", k) = {}
    <3>1. PICK j \in 1..k : file[j].name = "BBFILE"
      BY <1>1, <1>2, <1>3, <2>2 DEF AllSeen, SeenInv, Names
    <3>2. \A m \in LinesFor("BBFILE") : j < m
      <4> TAKE m \in LinesFor("BBFILE")
      <4>1. m \in 1..l /\ Counts(file[m], "BBFILE") /\ ~(m \in 1..k)
        BY <1>4, <2>2 DEF Upto
      <4> QED
        BY <1>4, <3>1, <4>1
    <3>3. j \in DOMAIN file
      <4>1. DOMAIN file = 1..l
        BY <1>3, FilesAssumption DEF BaseOK
      <4> QED
        BY <1>4, <3>1, <4>1
    <3>4. argv.b = NoValue => BBFILE = Unset
      BY <1>2, <2>2 DEF Prog, Earliest
    <3>5. argv.b # NoValue => BBFILE = argv.b
      BY <1>2 DEF Prog
    <3> QED
      BY <3>1, <3>2, <3>3, <3>4, <3>5 DEF EmptyBBFileFirst
  <2> QED
    BY <2>1, <2>2
<1>11. CommandLineWins'
  BY <1>1, <1>6, <1>9, <1>10, FileStays, Zenon DEF CommandLineWins
<1>12. RestartUsesFile'
  BY <1>1, <1>2 DEF RestartUsesFile
<1>13. BaseOK'
  BY <1>1, <1>8 DEF BaseOK
<1> QED
  BY <1>1, <1>11, <1>12, <1>13 DEF StartInv, ConfigInv, ForceInv, RunInv

LEMMA ForceEnds ==
    ASSUME BaseOK, ForceInv, Reconfigured
    PROVE  BaseOK' /\ StartInv' /\ ConfigInv' /\ ForceInv' /\ RunInv'
<1>1. /\ pc = "force" /\ pc' = "running"
      /\ AllSeen \/ k = Len(file)
      /\ UNCHANGED <<argv, file, k, seen, ind, number, BBFILE, DEBUG_DELAY, DETACH,
                     CDETACH, FDETACH, restarts>>
  BY DEF Reconfigured, Done, detach, settings
<1>2. /\ restarts > 0 /\ seen = {}
      /\ \A s \in Numeric : Latest(file, s, number[s], k, Default[s])
      /\ Latest(file, "BBFILE", BBFILE, k, Unset)
      /\ Latest(file, "DEBUG", DEBUG_DELAY, k, FALSE)
      /\ Latest(file, "DAEMON", DETACH, k, TRUE)
  BY <1>1, Zenon DEF ForceInv
<1>3. PICK l : l = Len(file)
  OBVIOUS
<1>4. /\ l \in Nat /\ \A name : LinesFor(name) = Upto(file, name, l)
      /\ k = l
  BY <1>1, <1>2, <1>3, LinesUpto DEF AllSeen, BaseOK
<1>5. /\ \A s \in Numeric : number[s] = LastOr(s, Default[s])
      /\ BBFILE = LastOr("BBFILE", Unset)
      /\ DEBUG_DELAY = LastOr("DEBUG", FALSE)
      /\ DETACH = LastOr("DAEMON", TRUE)
  BY <1>2, <1>4, LastIsLast, Zenon
<1>6. RestartUsesFile'
  BY <1>1, <1>5, FileStays, Zenon DEF RestartUsesFile
<1>7. restarts # 0
  BY <1>2
<1>8. CommandLineWins'
  BY <1>1, <1>7 DEF CommandLineWins
<1>9. BaseOK'
  BY <1>1 DEF BaseOK
<1> QED
  BY <1>1, <1>2, <1>6, <1>8, <1>9 DEF StartInv, ConfigInv, ForceInv, RunInv

LEMMA Restarted ==
    ASSUME BaseOK, RunInv, Reset
    PROVE  BaseOK' /\ StartInv' /\ ConfigInv' /\ ForceInv' /\ RunInv'
<1>1. /\ pc = "running" /\ pc' = "force" /\ k' = 0 /\ restarts' = restarts + 1
      /\ restarts < Restarts /\ restarts \in Nat /\ seen = {}
      /\ ind' = [s \in Names |-> 0] /\ number' = Default
      /\ BBFILE' = Unset /\ DETACH' = TRUE /\ DEBUG_DELAY' = FALSE
      /\ file' \in Files
      /\ UNCHANGED <<argv, seen, CDETACH, FDETACH>>
  BY RestartsAssumption DEF Reset, detach, BaseOK, RunInv
<1>2. \A name : Upto(file', name, 0) = {}
  BY DEF Upto
<1>3. ForceInv'
  <2>1. restarts' > 0 /\ seen' = {}
    BY <1>1
  <2>2. \A name, v : Latest(file', name, v, 0, v)
    BY <1>2 DEF Latest
  <2> QED
    BY <1>1, <2>1, <2>2, Zenon DEF ForceInv
<1>4. BaseOK'
  <2>1. number' \in [Numeric -> Int] /\ ind' \in [Names -> 0..2]
    BY <1>1, DefaultAssumption
  <2>2. k' \in 0..Len(file')
    BY <1>1, FilesAssumption
  <2>3. restarts' \in 0..Restarts
    BY <1>1, RestartsAssumption
  <2> QED
    BY <1>1, <2>1, <2>2, <2>3 DEF BaseOK
<1> QED
  BY <1>1, <1>3, <1>4 DEF StartInv, ConfigInv, RunInv, CommandLineWins, RestartUsesFile

LEMMA ConfStep == ConfInv /\ [Next]_vars => ConfInv'
<1> SUFFICES ASSUME ConfInv, [Next]_vars PROVE ConfInv'
  OBVIOUS
<1>1. BaseOK /\ StartInv /\ ConfigInv /\ ForceInv /\ RunInv
  BY DEF ConfInv
<1>2. ASSUME ReadLine PROVE ConfInv'
  <2>1. LineInv /\ BaseOK'
    BY <1>1, <1>2, NumberLine, BBFileLine, DaemonLine, DebugLine, PeersLine, OtherLine
       DEF ReadLine
  <2> QED
    BY <2>1 DEF LineInv, ConfInv
<1>3. ASSUME FetchCmndLine \/ Configured \/ Reconfigured \/ Reset PROVE ConfInv'
  BY <1>1, <1>3, Fetched, ConfigEnds, ForceEnds, Restarted DEF ConfInv
<1>4. CASE UNCHANGED vars
  <2>1. UNCHANGED <<argv, file, pc, k, seen, ind, number, BBFILE, DEBUG_DELAY, DETACH,
                    CDETACH, FDETACH, restarts>>
    BY <1>4 DEF vars, settings, detach
  <2>2. BaseOK' /\ StartInv'
    BY <1>1, <2>1 DEF BaseOK, StartInv
  <2>3. SeenInv' <=> SeenInv
    BY <2>1 DEF SeenInv
  <2>4. ConfigInv'
    BY <1>1, <2>1, <2>3, Zenon DEF ConfigInv
  <2>5. ForceInv'
    BY <1>1, <2>1, Zenon DEF ForceInv
  <2>6. CommandLineWins' /\ RestartUsesFile'
    BY <1>1, <2>1, FileStays, Zenon DEF RunInv, CommandLineWins, RestartUsesFile
  <2> QED
    BY <1>1, <2>1, <2>2, <2>4, <2>5, <2>6 DEF ConfInv, RunInv
<1> QED
  BY <1>2, <1>3, <1>4 DEF Next

LEMMA ConfInit == Init => ConfInv
<1> SUFFICES ASSUME Init PROVE ConfInv
  OBVIOUS
<1>1. k \in 0..Len(file) /\ restarts \in 0..Restarts
  BY FilesAssumption, RestartsAssumption DEF Init
<1>2. BaseOK
  <2>1. ind \in [Names -> 0..2] /\ number \in [Numeric -> Int]
    BY DefaultAssumption DEF Init
  <2> QED
    BY <1>1, <2>1 DEF Init, BaseOK
<1> QED
  BY <1>2 DEF Init, ConfInv, StartInv, ConfigInv, ForceInv, RunInv, CommandLineWins,
              RestartUsesFile

(* bbserv_utils.cc:46-275, bbserv.cc:252-284: once the server runs, every  *)
(* setting is what the command line says, or what the first line for it in *)
(* the file says, or the default, wherever the reading stopped; only the   *)
(* name of the board file may be missed.                                   *)
THEOREM StartsAsTold == Spec => []CommandLineWins
<1>1. ConfInv => CommandLineWins
  BY DEF ConfInv, RunInv
<1> QED
  BY <1>1, ConfInit, ConfStep, PTL DEF Spec

(* bbserv_utils.cc:279-391, bbserv.cc:355-377: after a SIGHUP every        *)
(* setting comes from the file as it is then, the last line for it, and    *)
(* nothing from the command line or from an earlier file.                  *)
THEOREM RestartsFromFile == Spec => []RestartUsesFile
<1>1. ConfInv => RestartUsesFile
  BY DEF ConfInv, RunInv
<1> QED
  BY <1>1, ConfInit, ConfStep, PTL DEF Spec

-----------------------------------------------------------------------------
(* Peers *)

TokenList(t) == Len(t) \in Nat /\ DOMAIN t = 1..Len(t)

(* One slot a token, and fetch_config adds to a count of nothing. *)
PeersInv ==
    /\ TokenList(given)
    /\ peer_info = SlotsOf(given) /\ NO_OF_PEERS = CountOf(given)
    /\ pc = "cmnd" \/ (pc = "config" /\ ind["PEERS"] = 0) => given = <<>>

LEMMA Counted ==
    ASSUME NEW t, TokenList(t)
    PROVE  CountOf(t) \in Nat /\ Proper(t) \subseteq Nat /\ IsFiniteSet(Proper(t))
<1>1. PICK n \in Nat : n = Len(t) /\ DOMAIN t = 1..n
  BY DEF TokenList
<1>2. Proper(t) \in SUBSET (1..n)
  BY <1>1 DEF Proper
<1>3. IsFiniteSet(1..n)
  BY <1>1, FS_Interval
<1> QED
  BY <1>2, <1>3, FS_Subset, FS_CardinalityType DEF CountOf

LEMMA CountedNone == CountOf(<<>>) = 0 /\ TokenList(<<>>)
<1>1. Proper(<<>>) = {}
  BY DEF Proper
<1> QED
  BY <1>1, FS_EmptySet DEF CountOf, TokenList

LEMMA PeersStep == ConfInv /\ PeersInv /\ [Next]_vars => PeersInv'
<1> SUFFICES ASSUME ConfInv, PeersInv, [Next]_vars PROVE PeersInv'
  OBVIOUS
<1>1. BaseOK /\ ind \in [Names -> 0..2] /\ "PEERS" \in Names
  BY DEF ConfInv, BaseOK, Names
<1>2. ASSUME FetchCmndLine PROVE PeersInv'
  <2>1. /\ peer_info' = SlotsOf(argv.peers) /\ NO_OF_PEERS' = CountOf(argv.peers)
        /\ given' = argv.peers /\ pc' = "config"
    BY <1>2 DEF FetchCmndLine
  <2>2. ind'["PEERS"] = IF argv.peers = <<>> THEN 0 ELSE 1
    <3>1. "PEERS" \notin Numeric
      BY NumericAssumption
    <3> QED
      BY <1>1, <1>2, <3>1 DEF FetchCmndLine
  <2>3. TokenList(argv.peers)
    BY <1>1, ArgvsAssumption, Zenon DEF BaseOK, TokenList
  <2> QED
    BY <2>1, <2>2, <2>3 DEF PeersInv
<1>3. ASSUME ReadPeers, Line.value # <<>>, Takes("PEERS") PROVE PeersInv'
  <2>1. /\ peer_info' = SlotsOf(Line.value) /\ given' = Line.value
        /\ NO_OF_PEERS' = CountOf(Line.value) + (IF pc = "force" THEN 0 ELSE NO_OF_PEERS)
        /\ ind' = [ind EXCEPT !["PEERS"] = 2] /\ pc' = pc /\ pc \in {"config", "force"}
        /\ k < Len(file) /\ Line.name = "PEERS"
    BY <1>3 DEF ReadPeers, Read, Mark, Fetching
  <2>2. TokenList(Line.value)
    <3>1. k + 1 \in DOMAIN file
      BY <1>1, <2>1, LineShape, FilesAssumption DEF BaseOK
    <3> QED
      BY <1>1, <2>1, <3>1, FilesAssumption, Zenon DEF Line, BaseOK, TokenList
  <2>3. pc = "config" => NO_OF_PEERS = 0
    <3>1. pc = "config" => ind["PEERS"] = 0
      BY <1>3 DEF Takes
    <3> QED
      BY <3>1, CountedNone DEF PeersInv
  <2>4. NO_OF_PEERS' = CountOf(Line.value)
    BY <2>1, <2>2, <2>3, Counted
  <2>5. ind'["PEERS"] # 0
    BY <1>1, <2>1
  <2> QED
    BY <2>1, <2>2, <2>4, <2>5 DEF PeersInv
<1>4. ASSUME UNCHANGED peers, pc' = "cmnd" => pc = "cmnd",
             pc' = "config" => pc = "config" /\ (ind'["PEERS"] = 0 => ind["PEERS"] = 0)
      PROVE  PeersInv'
  BY <1>4 DEF PeersInv, peers
<1>5. ASSUME ReadPeers, ~(Line.value # <<>> /\ Takes("PEERS")) PROVE PeersInv'
  <2>1. UNCHANGED <<peers, ind, pc>>
    BY <1>5 DEF ReadPeers, Read
  <2> QED
    BY <1>4, <2>1
<1>6. ASSUME NEW s \in Numeric, ReadNumber(s) PROVE PeersInv'
  <2>1. UNCHANGED <<peers, pc>> /\ s # "PEERS"
    BY <1>6, NumericAssumption DEF ReadNumber, Read
  <2>2. ind'["PEERS"] = ind["PEERS"]
    BY <1>1, <1>6, <2>1 DEF ReadNumber, Mark
  <2> QED
    BY <1>4, <2>1, <2>2
<1>7. ASSUME ReadBBFile \/ ReadDaemon \/ ReadDebug \/ ReadOther PROVE PeersInv'
  <2>1. UNCHANGED <<peers, pc>>
    BY <1>7 DEF ReadBBFile, ReadDaemon, ReadDebug, ReadOther, Read
  <2>2. ind'["PEERS"] = ind["PEERS"]
    BY <1>1, <1>7 DEF ReadBBFile, ReadDaemon, ReadDebug, ReadOther, Mark
  <2> QED
    BY <1>4, <2>1, <2>2
<1>8. ASSUME Configured \/ Reconfigured \/ Reset PROVE PeersInv'
  <2>1. UNCHANGED peers /\ pc' \in {"running", "force"}
    BY <1>8 DEF Configured, Reconfigured, Reset
  <2> QED
    BY <1>4, <2>1
<1>9. CASE UNCHANGED vars
  <2>1. UNCHANGED <<peers, ind, pc>>
    BY <1>9 DEF vars
  <2> QED
    BY <1>4, <2>1
<1> QED
  BY <1>2, <1>3, <1>5, <1>6, <1>7, <1>8, <1>9 DEF Next, ReadLine

LEMMA PeersInit == Init => PeersInv
<1> SUFFICES ASSUME Init PROVE PeersInv
  OBVIOUS
<1>1. SlotsOf(<<>>) = <<>>
  BY DEF SlotsOf
<1> QED
  BY <1>1, CountedNone DEF Init, PeersInv

(* The peers take the first slots, as many as they are, if no token that   *)
(* is none stands before one of them.                                      *)
LEMMA Prefix ==
    ASSUME NEW t, TokenList(t)
    PROVE  1..CountOf(t) = Proper(t) <=>
             ~\E i, j \in DOMAIN t : i < j /\ t[i] = NoColon /\ t[j] # NoColon
<1>1. PICK n \in Nat : DOMAIN t = 1..n
  BY DEF TokenList
<1>2. \A j : j \in Proper(t) <=> j \in 1..n /\ t[j] # NoColon
  BY <1>1 DEF Proper, IsPeer
<1>3. ASSUME 1..CountOf(t) = Proper(t), NEW i \in 1..n, NEW j \in 1..n,
             i < j, t[i] = NoColon, t[j] # NoColon
      PROVE  FALSE
  <2>1. CountOf(t) \in Nat /\ j \in 1..CountOf(t)
    BY <1>2, <1>3, Counted
  <2>2. i \in 1..CountOf(t)
    BY <1>3, <2>1
  <2> QED
    BY <1>2, <1>3, <2>2
<1>4. ASSUME \A i, j \in 1..n : i < j /\ t[i] = NoColon => t[j] = NoColon
      PROVE  1..CountOf(t) = Proper(t)
  <2>1. PICK m \in 0..n : Proper(t) = 1..m
    <3> DEFINE None == {j \in 1..n : t[j] = NoColon}
    <3>1. CASE None = {}
      <4>1. Proper(t) = 1..n
        BY <1>2, <3>1
      <4> QED
        BY <4>1
    <3>2. CASE None # {}
      <4>1. None \in SUBSET Nat
        OBVIOUS
      <4>2. PICK i \in None : \A j \in None : i <= j
        BY <3>2, <4>1, LeastNatural
      <4>3. Proper(t) = 1..(i - 1)
        <5>1. ASSUME NEW j \in 1..n PROVE t[j] # NoColon <=> j < i
          BY <1>4, <4>2
        <5>2. \A j : j \in 1..(i - 1) <=> j \in 1..n /\ j < i
          BY <4>2
        <5> QED
          BY <1>2, <5>1, <5>2
      <4> QED
        BY <4>2, <4>3
    <3> QED
      BY <3>1, <3>2
  <2>2. Cardinality(1..m) = m
    BY <2>1, FS_Interval
  <2> QED
    BY <2>1, <2>2 DEF CountOf
<1> QED
  BY <1>1, <1>3, <1>4

(* bbserv_utils.cc:112-127, 217-231, 348-362: the first NO_OF_PEERS slots  *)
(* are the peers somebody named, exactly if no token without ":" stands    *)
(* before one with it.                                                     *)
THEOREM PeersAsNamed == Spec => []PeersContacted
<1>1. PeersInv => PeersContacted
  <2> SUFFICES ASSUME PeersInv PROVE PeersContacted
    OBVIOUS
  <2>1. \A j \in Proper(given) : peer_info[j] = given[j]
    BY DEF PeersInv, Proper, SlotsOf
  <2>2. Contacted = 1..CountOf(given) /\ TokenList(given)
    BY DEF PeersInv, Contacted
  <2> QED
    BY <2>1, <2>2, Prefix DEF PeersContacted
<1> QED
  BY <1>1, ConfInit, ConfStep, PeersInit, PeersStep, PTL DEF Spec

(* bbserv_utils.cc:46-391: every setting keeps its type, and the count of  *)
(* peers stays within the slots there are.                                 *)
THEOREM TypeCorrect == Spec => []TypeOK
<1>1. ConfInv /\ PeersInv => TypeOK
  <2> SUFFICES ASSUME ConfInv, PeersInv PROVE TypeOK
    OBVIOUS
  <2>1. PICK n \in Nat : n = Len(given) /\ DOMAIN given = 1..n
    BY DEF PeersInv, TokenList
  <2>2. Proper(given) \in SUBSET (1..n) /\ IsFiniteSet(1..n) /\ Cardinality(1..n) = n
    <3>1. IsFiniteSet(1..n) /\ Cardinality(1..n) = n
      <4>1. 1 \in Int /\ n \in Int
        OBVIOUS
      <4>2. /\ IsFiniteSet(1..n)
            /\ Cardinality(1..n) = IF 1 > n THEN 0 ELSE n - 1 + 1
        BY <4>1, FS_Interval
      <4> QED
        BY <4>2
    <3>2. Proper(given) \in SUBSET (1..n)
      BY <2>1 DEF Proper
    <3> QED
      BY <3>1, <3>2
  <2>3. NO_OF_PEERS \in Nat /\ NO_OF_PEERS <= n
    BY <2>2, FS_Subset, Counted DEF PeersInv, CountOf
  <2>4. Len(peer_info) = n
    <3>1. peer_info = [j \in 1..n |-> IF IsPeer(given[j]) THEN given[j] ELSE Unset]
      BY <2>1 DEF PeersInv, SlotsOf
    <3> QED
      BY <2>1, <3>1
  <2> QED
    BY <2>3, <2>4 DEF ConfInv, BaseOK, TypeOK
<1> QED
  BY <1>1, ConfInit, ConfStep, PeersInit, PeersStep, PTL DEF Spec

-----------------------------------------------------------------------------
(* Induction: a set that has 0, and with each number the next, has all.    *)
LEMMA FromZero ==
    ASSUME NEW T, 0 \in T, \A n \in Nat : n \in T => n + 1 \in T
    PROVE  \A n \in Nat : n \in T
<1> DEFINE Not == {n \in Nat : n \notin T}
<1>1. SUFFICES ASSUME Not # {} PROVE FALSE
  OBVIOUS
<1>2. PICK m \in Not : \A n \in Not : m <= n
  BY <1>1, LeastNatural
<1>3. m # 0 /\ m - 1 \in Nat /\ m - 1 \notin Not
  BY <1>2
<1>4. m - 1 \in T
  BY <1>3
<1>5. (m - 1) + 1 \in T
  BY <1>3, <1>4, Zenon
<1> QED
  BY <1>5

(* A sequence is one that is shorter, and its last element.                *)
LEMMA Shorter ==
    ASSUME NEW A, NEW n \in Nat, NEW t \in Seq(A), Len(t) = n + 1
    PROVE  /\ SubSeq(t, 1, n) \in Seq(A) /\ Len(SubSeq(t, 1, n)) = n
           /\ t[n + 1] \in A
           /\ t = Append(SubSeq(t, 1, n), t[n + 1])
<1>1. SubSeq(t, 1, n) \in Seq(A) /\ Len(SubSeq(t, 1, n)) = n
      /\ \A i \in 1..n : SubSeq(t, 1, n)[i] = t[i]
  BY SubSeqProperties
<1>2. t[n + 1] \in A
  BY ElementOfSeq
<1> DEFINE s == SubSeq(t, 1, n)
<1> HIDE DEF s
<1>3. s \in Seq(A) /\ Len(s) = n /\ \A i \in 1..n : s[i] = t[i]
  BY <1>1 DEF s
<1>4. Append(s, t[n + 1]) \in Seq(A) /\ Len(Append(s, t[n + 1])) = n + 1
      /\ \A i \in 1..(n + 1) : Append(s, t[n + 1])[i] = t[i]
  BY <1>2, <1>3, AppendProperties
<1>5. t = Append(s, t[n + 1])
  BY <1>4, SeqEqual
<1> QED
  BY <1>1, <1>2, <1>5 DEF s

(* A set that has the empty sequence, and with each sequence the longer    *)
(* ones, has all.                                                          *)
LEMMA FromEmpty ==
    ASSUME NEW A, NEW T, <<>> \in T,
           \A s \in Seq(A) : s \in T => \A c \in A : Append(s, c) \in T
    PROVE  \A s \in Seq(A) : s \in T
<1> DEFINE N == {n \in Nat : \A s \in Seq(A) : Len(s) = n => s \in T}
<1>1. 0 \in N
  BY EmptySeq
<1>2. ASSUME NEW n \in Nat, n \in N PROVE n + 1 \in N
  <2>1. SUFFICES ASSUME NEW t \in Seq(A), Len(t) = n + 1 PROVE t \in T
    OBVIOUS
  <2>2. PICK s \in Seq(A) : Len(s) = n /\ t = Append(s, t[n + 1]) /\ t[n + 1] \in A
    BY <2>1, Shorter
  <2>3. s \in T
    BY <1>2, <2>2
  <2> QED
    BY <2>2, <2>3
<1>3. \A n \in Nat : n \in N
  <2> HIDE DEF N
  <2> QED
    BY <1>1, <1>2, FromZero
<1>4. ASSUME NEW s \in Seq(A) PROVE s \in T
  <2>1. Len(s) \in Nat
    OBVIOUS
  <2> QED
    BY <1>3, <2>1
<1> QED
  BY <1>4

-----------------------------------------------------------------------------
(* The loop of the tokenizers, one character at a time *)

Before == [starts |-> <<1>>, zeros |-> {}, gap |-> FALSE]

Take(s, c, seps, i) ==
    IF Stays(c, s.gap) THEN s
    ELSE [starts |-> IF s.gap THEN Append(s.starts, i) ELSE s.starts,
          zeros |-> IF c \in seps THEN s.zeros \cup {i} ELSE s.zeros,
          gap |-> c \in seps]

Scans(f, str, seps, n) ==
    f = [i \in 0..n |-> IF i = 0 THEN Before ELSE Take(f[i - 1], str[i], seps, i)]

(* Scan's recursion, defined over an interval, has a function for each     *)
(* text.                                                                   *)
LEMMA ScansExist ==
    ASSUME NEW str, NEW seps
    PROVE  \A n \in Nat : \E f : Scans(f, str, seps, n)
<1> DEFINE T == {n \in Nat : \E f : Scans(f, str, seps, n)}
<1>1. 0 \in T
  <2>1. Scans([i \in 0..0 |-> Before], str, seps, 0)
    BY DEF Scans
  <2> QED
    BY <2>1
<1>2. ASSUME NEW n \in Nat, n \in T PROVE n + 1 \in T
  <2>1. PICK f : Scans(f, str, seps, n)
    BY <1>2
  <2>2. \A i \in 0..n : f[i] = IF i = 0 THEN Before ELSE Take(f[i - 1], str[i], seps, i)
    BY <2>1, Zenon DEF Scans
  <2> DEFINE g == [i \in 0..(n + 1) |-> IF i = n + 1 THEN Take(f[n], str[n + 1], seps, n + 1) ELSE f[i]]
  <2>3. g[n + 1] = Take(f[n], str[n + 1], seps, n + 1) /\ \A i \in 0..n : g[i] = f[i]
    OBVIOUS
  <2>4. \A i \in 0..(n + 1) : g[i] = IF i = 0 THEN Before ELSE Take(g[i - 1], str[i], seps, i)
    <3> HIDE DEF g
    <3> TAKE i \in 0..(n + 1)
    <3>1. CASE i = n + 1
      <4>1. i # 0 /\ i - 1 = n /\ n \in 0..n
        BY <3>1
      <4> QED
        BY <2>3, <3>1, <4>1
    <3>2. CASE i # n + 1
      <4>1. i \in 0..n /\ (i = 0 \/ i - 1 \in 0..n)
        BY <3>2
      <4> QED
        BY <2>2, <2>3, <4>1
    <3> QED
      BY <3>1, <3>2
  <2>5. Scans(g, str, seps, n + 1)
    BY <2>4, Zenon DEF Scans
  <2> QED
    BY <2>5
<1>3. \A n \in Nat : n \in T
  <2> HIDE DEF T
  <2> QED
    BY <1>1, <1>2, FromZero
<1> QED
  BY <1>3

(* Scan takes its value from such a function.                              *)
LEMMA ScanIs ==
    ASSUME NEW str, NEW seps, NEW n \in Nat
    PROVE  \E f : Scans(f, str, seps, n) /\ Scan(str, seps, n) = f[n]
<1> DEFINE f == CHOOSE f : Scans(f, str, seps, n)
<1>1. \E g : Scans(g, str, seps, n)
  BY ScansExist
<1>2. Scans(f, str, seps, n)
  BY <1>1, Zenon
<1>3. Scan(str, seps, n) = f[n]
  BY Zenon DEF Scan, Scans, Take, Before
<1> QED
  BY <1>2, <1>3

(* What the scan makes of a text depends on the characters it has read.    *)
LEMMA ScansSame ==
    ASSUME NEW str, NEW other, NEW seps, NEW n \in Nat, NEW m \in Nat, NEW l \in Nat,
           l <= n, l <= m, \A i \in 1..l : str[i] = other[i],
           NEW f, Scans(f, str, seps, n), NEW g, Scans(g, other, seps, m)
    PROVE  f[l] = g[l]
<1> DEFINE T == {h \in Nat : h <= l => f[h] = g[h]}
<1>a. \A i \in 0..n : f[i] = IF i = 0 THEN Before ELSE Take(f[i - 1], str[i], seps, i)
  BY Zenon DEF Scans
<1>b. \A i \in 0..m : g[i] = IF i = 0 THEN Before ELSE Take(g[i - 1], other[i], seps, i)
  BY Zenon DEF Scans
<1>1. 0 \in T
  <2>1. 0 \in 0..n /\ 0 \in 0..m
    OBVIOUS
  <2> QED
    BY <1>a, <1>b, <2>1
<1>2. ASSUME NEW h \in Nat, h \in T PROVE h + 1 \in T
  <2>1. SUFFICES ASSUME h + 1 <= l PROVE f[h + 1] = g[h + 1]
    OBVIOUS
  <2>2. f[h] = g[h] /\ str[h + 1] = other[h + 1]
    BY <1>2, <2>1
  <2>3. h + 1 \in 0..n /\ h + 1 \in 0..m /\ (h + 1) - 1 = h /\ h + 1 # 0
    BY <2>1
  <2> QED
    BY <1>a, <1>b, <2>2, <2>3
<1>3. \A h \in Nat : h \in T
  <2> HIDE DEF T
  <2> QED
    BY <1>1, <1>2, FromZero
<1> QED
  BY <1>3

(* Scan looks at the characters it has passed, and no others.              *)
LEMMA ScanLocal ==
    ASSUME NEW str, NEW other, NEW seps, NEW n \in Nat, \A i \in 1..n : str[i] = other[i]
    PROVE  Scan(str, seps, n) = Scan(other, seps, n)
  BY ScanIs, ScansSame

(* Scan of no characters.                                                  *)
LEMMA ScanZero ==
    ASSUME NEW str, NEW seps
    PROVE  Scan(str, seps, 0) = Before
<1>1. PICK f : Scans(f, str, seps, 0) /\ Scan(str, seps, 0) = f[0]
  BY ScanIs
<1>2. f[0] = IF 0 = 0 THEN Before ELSE Take(f[0 - 1], str[0], seps, 0)
  <2>1. \A i \in 0..0 : f[i] = IF i = 0 THEN Before ELSE Take(f[i - 1], str[i], seps, i)
    BY <1>1, Zenon DEF Scans
  <2>2. 0 \in 0..0
    OBVIOUS
  <2> QED
    BY <2>1, <2>2, Zenon
<1> QED
  BY <1>1, <1>2

(* Scan of one character more.                                             *)
LEMMA ScanNext ==
    ASSUME NEW str, NEW seps, NEW n \in Nat
    PROVE  Scan(str, seps, n + 1) =
             Take(Scan(str, seps, n), str[n + 1], seps, n + 1)
<1>1. PICK f : Scans(f, str, seps, n + 1) /\ Scan(str, seps, n + 1) = f[n + 1]
  BY ScanIs
<1>2. PICK g : Scans(g, str, seps, n) /\ Scan(str, seps, n) = g[n]
  BY ScanIs
<1>3. f[n] = g[n]
  BY <1>1, <1>2, ScansSame
<1>4. f[n + 1] = IF n + 1 = 0 THEN Before ELSE Take(f[(n + 1) - 1], str[n + 1], seps, n + 1)
  <2>1. \A i \in 0..(n + 1) : f[i] = IF i = 0 THEN Before ELSE Take(f[i - 1], str[i], seps, i)
    BY <1>1, Zenon DEF Scans
  <2>2. n + 1 \in 0..(n + 1)
    OBVIOUS
  <2> QED
    BY <2>1, <2>2, Zenon
<1>5. n + 1 # 0 /\ (n + 1) - 1 = n
  OBVIOUS
<1> QED
  BY <1>1, <1>2, <1>3, <1>4, <1>5

(* Starts and ends: a token has its \0, unless it is the last and still    *)
(* grows; then there is none behind its start.                             *)
Cut(s, n) ==
    /\ s.starts \in Seq(1..(n + 1)) /\ Len(s.starts) >= 1
    /\ s.zeros \subseteq 1..n
    /\ s.gap \in BOOLEAN
    /\ \A h \in 1..Len(s.starts) :
          (s.gap \/ h # Len(s.starts)) => \E z \in s.zeros : z >= s.starts[h]
    /\ ~s.gap => \A z \in s.zeros : z < s.starts[Len(s.starts)]

(* A character keeps starts and ends in order (Cut).                       *)
LEMMA TakeCut ==
    ASSUME NEW n \in Nat, NEW s, Cut(s, n), NEW c, NEW seps
    PROVE  Cut(Take(s, c, seps, n + 1), n + 1)
<1> DEFINE t == Take(s, c, seps, n + 1)
<1>1. /\ s.starts \in Seq(1..(n + 1)) /\ Len(s.starts) >= 1
      /\ s.starts \in Seq(1..(n + 2))
      /\ s.zeros \subseteq 1..n
      /\ s.gap \in BOOLEAN
      /\ Len(s.starts) \in Nat
  <2>1. 1..(n + 1) \subseteq 1..(n + 2)
    OBVIOUS
  <2>2. s.starts \in Seq(1..(n + 1))
    BY DEF Cut
  <2> QED
    BY <2>1, <2>2, SeqMonotonic DEF Cut
<1>2. \A h \in 1..Len(s.starts) : s.starts[h] \in 1..(n + 1)
  BY <1>1, ElementOfSeq
<1>3. \A h \in 1..Len(s.starts) :
        (s.gap \/ h # Len(s.starts)) => \E z \in s.zeros : z >= s.starts[h]
  BY DEF Cut
<1>4. ~s.gap => \A z \in s.zeros : z < s.starts[Len(s.starts)]
  BY DEF Cut
<1>5. CASE Stays(c, s.gap)
  <2>1. t = s
    BY <1>5 DEF Take
  <2> QED
    BY <1>1, <1>3, <1>4, <2>1 DEF Cut
<1>6. CASE ~Stays(c, s.gap)
  <2> DEFINE starts == IF s.gap THEN Append(s.starts, n + 1) ELSE s.starts
             zeros == IF c \in seps THEN s.zeros \cup {n + 1} ELSE s.zeros
  <2>1. t.starts = starts /\ t.zeros = zeros /\ t.gap = (c \in seps)
    BY <1>6 DEF Take
  <2>2. zeros \subseteq 1..(n + 1)
    BY <1>1
  <2>3. /\ starts \in Seq(1..(n + 2)) /\ Len(starts) >= 1
        /\ Len(starts) = IF s.gap THEN Len(s.starts) + 1 ELSE Len(s.starts)
        /\ \A h \in 1..Len(s.starts) : starts[h] = s.starts[h]
        /\ s.gap => starts[Len(starts)] = n + 1
    <3>1. CASE s.gap
      <4>1. n + 1 \in 1..(n + 2)
        OBVIOUS
      <4>2. /\ Append(s.starts, n + 1) \in Seq(1..(n + 2))
            /\ Len(Append(s.starts, n + 1)) = Len(s.starts) + 1
            /\ \A h \in 1..Len(s.starts) : Append(s.starts, n + 1)[h] = s.starts[h]
            /\ Append(s.starts, n + 1)[Len(s.starts) + 1] = n + 1
        BY <1>1, <4>1, AppendProperties
      <4>3. starts = Append(s.starts, n + 1)
        BY <3>1
      <4> QED
        BY <1>1, <3>1, <4>2, <4>3
    <3>2. CASE ~s.gap
      BY <1>1, <3>2
    <3> QED
      BY <3>1, <3>2
  <2> HIDE DEF starts, zeros
  <2>4. \A h \in 1..Len(starts) :
          ((c \in seps) \/ h # Len(starts)) => \E z \in zeros : z >= starts[h]
    <3> SUFFICES ASSUME NEW h \in 1..Len(starts), (c \in seps) \/ h # Len(starts)
                 PROVE  \E z \in zeros : z >= starts[h]
      OBVIOUS
    <3>1. CASE c \in seps
      <4>1. n + 1 \in zeros
        BY <3>1 DEF zeros
      <4>2. starts[h] <= n + 1
        <5>1. CASE h <= Len(s.starts)
          <6>1. h \in 1..Len(s.starts) /\ starts[h] = s.starts[h]
            BY <1>1, <2>3, <5>1
          <6> QED
            BY <1>2, <6>1
        <5>2. CASE ~(h <= Len(s.starts))
          BY <1>1, <2>3, <5>2
        <5> QED
          BY <5>1, <5>2
      <4> QED
        BY <4>1, <4>2
    <3>2. CASE h # Len(starts)
      <4>1. h \in 1..Len(s.starts) /\ (s.gap \/ h # Len(s.starts))
        BY <1>1, <2>3, <3>2
      <4>2. PICK z \in s.zeros : z >= s.starts[h]
        BY <1>3, <4>1
      <4>3. z \in zeros
        BY DEF zeros
      <4> QED
        BY <2>3, <4>1, <4>2, <4>3
    <3> QED
      BY <3>1, <3>2
  <2>5. ~(c \in seps) => \A z \in zeros : z < starts[Len(starts)]
    <3> SUFFICES ASSUME c \notin seps, NEW z \in zeros PROVE z < starts[Len(starts)]
      OBVIOUS
    <3>1. z \in s.zeros /\ z \in 1..n
      BY <1>1 DEF zeros
    <3>2. Len(s.starts) \in 1..Len(s.starts)
      BY <1>1
    <3>3. CASE s.gap
      BY <2>3, <3>1, <3>3
    <3>4. CASE ~s.gap
      <4>1. starts[Len(starts)] = s.starts[Len(s.starts)]
        BY <2>3, <3>2, <3>4
      <4>2. z < s.starts[Len(s.starts)]
        BY <1>4, <3>1, <3>4
      <4> QED
        BY <4>1, <4>2
    <3> QED
      BY <3>3, <3>4
  <2>6. (n + 1) + 1 = n + 2 /\ (c \in seps) \in BOOLEAN
    OBVIOUS
  <2> HIDE DEF t
  <2>7. t.starts \in Seq(1..((n + 1) + 1)) /\ Len(t.starts) >= 1
    BY <2>1, <2>3, <2>6
  <2>8. t.zeros \subseteq 1..(n + 1) /\ t.gap \in BOOLEAN
    BY <2>1, <2>2, <2>6
  <2>9. \A h \in 1..Len(t.starts) :
          (t.gap \/ h # Len(t.starts)) => \E z \in t.zeros : z >= t.starts[h]
    BY <2>1, <2>4
  <2>10. ~t.gap => \A z \in t.zeros : z < t.starts[Len(t.starts)]
    BY <2>1, <2>5
  <2>11. Cut(t, n + 1)
    BY <2>7, <2>8, <2>9, <2>10, Zenon DEF Cut
  <2> QED
    BY <2>11 DEF t
<1> QED
  BY <1>5, <1>6

(* So they are in order after each.                                        *)
LEMMA ScanCut ==
    ASSUME NEW str, NEW seps
    PROVE  \A n \in Nat : Cut(Scan(str, seps, n), n)
<1> DEFINE T == {n \in Nat : Cut(Scan(str, seps, n), n)}
<1>1. 0 \in T
  <2>1. Cut(Before, 0)
    <3>1. 0 + 1 = 1 /\ <<1>> \in Seq(1..1) /\ Len(<<1>>) = 1 /\ <<1>>[1] = 1
      OBVIOUS
    <3> QED
      BY <3>1 DEF Cut, Before
  <2> QED
    BY <2>1, ScanZero
<1>2. ASSUME NEW n \in Nat, n \in T PROVE n + 1 \in T
  BY <1>2, ScanNext, TakeCut
<1>3. \A n \in Nat : n \in T
  <2> HIDE DEF T
  <2> QED
    BY <1>1, <1>2, FromZero
<1> QED
  BY <1>3

-----------------------------------------------------------------------------
(* Tokens of a text that grows *)

(* Min of a set whose least element is known.                              *)
LEMMA LeastIs ==
    ASSUME NEW S, S \subseteq Int, NEW m \in S, \A y \in S : m <= y
    PROVE  Min(S) = m
<1>1. \A x \in S : (\A y \in S : x =< y) => x = m
  OBVIOUS
<1> QED
  BY <1>1 DEF Min

(* Where a token ends: at the first \0 from its start on, or at the        *)
(* string's end.                                                           *)
LEMMA TokenIs ==
    ASSUME NEW str, Len(str) \in Nat, DOMAIN str = 1..Len(str),
           NEW start \in Nat, NEW zeros, zeros \subseteq Nat,
           NEW e \in 1..(Len(str) + 1),
           e = Len(str) + 1 \/ (e >= start /\ (e \in zeros \/ str[e] = End)),
           \A z \in zeros : z >= start => e <= z,
           \A z \in 1..Len(str) : z >= start /\ str[z] = End => e <= z
    PROVE  Token(str, start, zeros) = SubSeq(str, start, e - 1)
<1> DEFINE ends == {z \in zeros \cup {h \in DOMAIN str : str[h] = End} : z >= start}
           all == ends \cup {Len(str) + 1}
<1>1. Token(str, start, zeros) = SubSeq(str, start, Min(all) - 1)
  BY Zenon DEF Token
<1>2. all \subseteq Int
  <2> SUFFICES ASSUME NEW y \in all PROVE y \in Int
    OBVIOUS
  <2>1. y \in zeros \/ y \in 1..Len(str) \/ y = Len(str) + 1
    OBVIOUS
  <2> QED
    BY <2>1
<1>3. e \in all
  OBVIOUS
<1>4. \A y \in all : e <= y
  OBVIOUS
<1>5. Min(all) = e
  <2> HIDE DEF all
  <2> QED
    BY <1>2, <1>3, <1>4, LeastIs
<1> QED
  BY <1>1, <1>5

Letters == Characters \cup {Stale}
Texts == Seq(Letters)

(* Elements of a text.                                                     *)
LEMMA TextBasics ==
    ASSUME NEW p \in Texts
    PROVE  /\ Len(p) \in Nat /\ DOMAIN p = 1..Len(p)
           /\ \A i \in 1..Len(p) : p[i] \in Letters /\ p[i] # End
<1>1. End \notin Letters
  BY DEF Letters, Characters, Stale, End
<1> QED
  BY <1>1, LenProperties, ElementOfSeq DEF Texts

(* Texts that agree between m and n have the same part there.              *)
LEMMA SubSame ==
    ASSUME NEW S, NEW p, NEW q, NEW m \in Int, NEW n \in Int,
           \A i \in m..n : p[i] \in S /\ q[i] = p[i]
    PROVE  SubSeq(q, m, n) = SubSeq(p, m, n)
<1>1. /\ SubSeq(p, m, n) \in Seq(S)
      /\ Len(SubSeq(p, m, n)) = IF m <= n THEN n - m + 1 ELSE 0
      /\ \A i \in 1..(n - m + 1) : SubSeq(p, m, n)[i] = p[m + i - 1]
  BY SubSeqProperties
<1>2. /\ SubSeq(q, m, n) \in Seq(S)
      /\ Len(SubSeq(q, m, n)) = IF m <= n THEN n - m + 1 ELSE 0
      /\ \A i \in 1..(n - m + 1) : SubSeq(q, m, n)[i] = q[m + i - 1]
  BY SubSeqProperties
<1>3. \A i \in 1..Len(SubSeq(p, m, n)) : SubSeq(p, m, n)[i] = SubSeq(q, m, n)[i]
  BY <1>1, <1>2
<1> QED
  BY <1>1, <1>2, <1>3, SeqEqual

(* q goes on where p ends. *)
Extends(q, p) ==
    /\ p \in Texts /\ q \in Texts /\ Len(p) <= Len(q)
    /\ \A i \in 1..Len(p) : q[i] = p[i]

(* A token that has its \0 stays what it is.                               *)
Closing(q, p, start, zeros, more) ==
    /\ Extends(q, p)
    /\ start \in Nat \ {0} /\ zeros \subseteq 1..Len(p)
    /\ more \subseteq Nat /\ \A z \in more : z > Len(p)
    /\ \E z \in zeros : z >= start

(* So it does, whatever is written behind.                                 *)
LEMMA TokenStays ==
    ASSUME NEW p, NEW q, NEW start, NEW zeros, NEW more,
           Closing(q, p, start, zeros, more)
    PROVE  Token(q, start, zeros \cup more) = Token(p, start, zeros)
<1>a. /\ start \in Nat \ {0} /\ zeros \subseteq 1..Len(p)
      /\ more \subseteq Nat /\ \A z \in more : z > Len(p)
      /\ \E z \in zeros : z >= start
  BY DEF Closing
<1>1. p \in Texts /\ q \in Texts /\ Len(p) <= Len(q) /\ \A i \in 1..Len(p) : q[i] = p[i]
  BY DEF Extends, Closing
<1>2. /\ Len(p) \in Nat /\ DOMAIN p = 1..Len(p) /\ \A i \in 1..Len(p) : p[i] \in Letters /\ p[i] # End
      /\ Len(q) \in Nat /\ DOMAIN q = 1..Len(q) /\ \A i \in 1..Len(q) : q[i] # End
  BY <1>a, <1>1, TextBasics
<1> DEFINE E == {y \in zeros : y >= start}
<1>3. PICK e \in E : \A y \in E : e <= y
  <2>1. \A y \in zeros : y \in Nat
    BY <1>a, <1>2
  <2>2. E \in SUBSET Nat
    BY <2>1
  <2>3. E # {}
    BY <1>a
  <2> HIDE DEF E
  <2> QED
    BY <2>2, <2>3, LeastNatural
<1>4. e \in zeros /\ e >= start /\ e \in 1..Len(p) /\ \A y \in zeros : y >= start => e <= y
  BY <1>a, <1>3
<1>5. Token(p, start, zeros) = SubSeq(p, start, e - 1)
  <2>1. zeros \subseteq Nat /\ e \in 1..(Len(p) + 1)
    BY <1>a, <1>2, <1>4
  <2> QED
    BY <1>a, <1>2, <1>4, <2>1, TokenIs
<1>6. Token(q, start, zeros \cup more) = SubSeq(q, start, e - 1)
  <2>1. zeros \cup more \subseteq Nat /\ e \in 1..(Len(q) + 1)
    BY <1>a, <1>1, <1>2, <1>4
  <2>2. \A y \in zeros \cup more : y >= start => e <= y
    BY <1>a, <1>2, <1>4
  <2>3. e \in zeros \cup more
    BY <1>a, <1>4
  <2> HIDE DEF E
  <2> QED
    BY <1>a, <1>2, <1>4, <2>1, <2>2, <2>3, TokenIs
<1>7. SubSeq(q, start, e - 1) = SubSeq(p, start, e - 1)
  <2>1. \A i \in start..(e - 1) : p[i] \in Letters /\ q[i] = p[i]
    BY <1>a, <1>1, <1>2, <1>4
  <2>2. start \in Int /\ e - 1 \in Int
    BY <1>a, <1>2, <1>4
  <2> QED
    BY <1>a, <2>1, <2>2, SubSame
<1> QED
  BY <1>a, <1>5, <1>6, <1>7

(* One without a \0 reaches to the end.                                    *)
LEMMA TokenOpen ==
    ASSUME NEW q \in Texts, NEW start \in Nat, NEW zeros, zeros \subseteq Nat,
           \A z \in zeros : z < start
    PROVE  Token(q, start, zeros) = SubSeq(q, start, Len(q))
<1>1. Len(q) \in Nat /\ DOMAIN q = 1..Len(q) /\ \A i \in 1..Len(q) : q[i] # End
  BY TextBasics
<1>2. Len(q) + 1 \in 1..(Len(q) + 1) /\ (Len(q) + 1) - 1 = Len(q)
  BY <1>1
<1>3. \A z \in zeros : z >= start => Len(q) + 1 <= z
  OBVIOUS
<1> QED
  BY <1>1, <1>2, <1>3, TokenIs

(* One whose \0 is the last character.                                     *)
LEMMA TokenEnds ==
    ASSUME NEW p \in Texts, NEW c \in Letters, NEW start \in Nat \ {0}, start <= Len(p) + 1,
           NEW zeros, zeros \subseteq Nat, \A z \in zeros : z < start
    PROVE  Token(Append(p, c), start, zeros \cup {Len(p) + 1}) = SubSeq(p, start, Len(p))
<1> DEFINE q == Append(p, c)
<1>1. q \in Texts /\ Len(q) = Len(p) + 1 /\ \A i \in 1..Len(p) : q[i] = p[i]
  BY AppendProperties DEF Texts
<1>2. Len(p) \in Nat /\ \A i \in 1..Len(p) : p[i] \in Letters
  BY TextBasics
<1> HIDE DEF q
<1>3. Len(q) \in Nat /\ DOMAIN q = 1..Len(q) /\ \A i \in 1..Len(q) : q[i] # End
  BY <1>1, TextBasics
<1>4. /\ Len(p) + 1 \in 1..(Len(q) + 1) /\ (Len(p) + 1) - 1 = Len(p)
      /\ \A z \in zeros \cup {Len(p) + 1} : z >= start => Len(p) + 1 <= z
      /\ zeros \cup {Len(p) + 1} \subseteq Nat
      /\ Len(p) + 1 \in zeros \cup {Len(p) + 1}
  <2>1. Len(p) + 1 \in 1..(Len(q) + 1) /\ (Len(p) + 1) - 1 = Len(p)
    BY <1>1, <1>2
  <2>2. \A z \in zeros \cup {Len(p) + 1} : z >= start => Len(p) + 1 <= z
    BY <1>2
  <2>3. zeros \cup {Len(p) + 1} \subseteq Nat
    <3>1. Len(p) + 1 \in Nat
      BY <1>2
    <3> QED
      BY <3>1, Zenon
  <2> QED
    BY <2>1, <2>2, <2>3
<1>5. Token(q, start, zeros \cup {Len(p) + 1}) = SubSeq(q, start, (Len(p) + 1) - 1)
  BY <1>3, <1>4, TokenIs
<1>6. SubSeq(q, start, Len(p)) = SubSeq(p, start, Len(p))
  <2>1. \A i \in start..Len(p) : p[i] \in Letters /\ q[i] = p[i]
    BY <1>1, <1>2
  <2> QED
    BY <1>2, <2>1, SubSame
<1> QED
  BY <1>4, <1>5, <1>6 DEF q

(* A token of a text is a text.                                            *)
LEMMA TokenText ==
    ASSUME NEW p \in Texts, NEW start \in Nat \ {0}, NEW zeros, zeros \subseteq 1..Len(p)
    PROVE  Token(p, start, zeros) \in Texts
<1>1. /\ Len(p) \in Nat /\ DOMAIN p = 1..Len(p)
      /\ \A i \in 1..Len(p) : p[i] \in Letters /\ p[i] # End
  BY TextBasics
<1> DEFINE E == {y \in zeros \cup {Len(p) + 1} : y >= start \/ y = Len(p) + 1}
<1>2. PICK e \in E : \A y \in E : e <= y
  <2>1. \A y \in E : y \in Nat
    BY <1>1
  <2>2. Len(p) + 1 \in E
    OBVIOUS
  <2> HIDE DEF E
  <2> QED
    BY <2>1, <2>2, LeastNatural
<1>3. /\ e \in 1..(Len(p) + 1)
      /\ e = Len(p) + 1 \/ (e >= start /\ e \in zeros)
      /\ \A z \in zeros : z >= start => e <= z
  BY <1>1, <1>2
<1>4. Token(p, start, zeros) = SubSeq(p, start, e - 1)
  <2>1. zeros \subseteq Nat
    BY <1>1
  <2> HIDE DEF E
  <2> QED
    BY <1>1, <1>3, <2>1, TokenIs
<1>5. \A i \in start..(e - 1) : p[i] \in Letters
  BY <1>1, <1>3
<1>6. start \in Int /\ e - 1 \in Int
  BY <1>1, <1>3
<1> QED
  BY <1>4, <1>5, <1>6, SubSeqProperties DEF Texts

Ts(p, seps) == Tokens(p, seps, Len(p))
(* Where the scan is at the end of a text: in a word, or in a gap. *)
Gap == "gap"
At(p, seps) == IF Scan(p, seps, Len(p)).gap THEN Gap ELSE "word"

(* The tokens, one for each start.                                         *)
LEMMA TsIs ==
    ASSUME NEW p \in Texts, NEW seps
    PROVE  LET s == Scan(p, seps, Len(p))
           IN  /\ Ts(p, seps) \in Seq(Texts) /\ Len(Ts(p, seps)) = Len(s.starts)
               /\ Len(s.starts) \in Nat /\ Len(s.starts) >= 1
               /\ \A h \in 1..Len(s.starts) :
                     Ts(p, seps)[h] = Token(p, s.starts[h], s.zeros)
<1>1. PICK s : s = Scan(p, seps, Len(p))
  OBVIOUS
<1>2. Len(p) \in Nat
  BY TextBasics
<1>3. Cut(s, Len(p))
  BY <1>1, <1>2, ScanCut
<1>4. s.starts \in Seq(1..(Len(p) + 1)) /\ Len(s.starts) >= 1 /\ s.zeros \subseteq 1..Len(p)
  BY <1>3 DEF Cut
<1>5. /\ Len(s.starts) \in Nat /\ DOMAIN s.starts = 1..Len(s.starts)
      /\ \A h \in 1..Len(s.starts) : s.starts[h] \in Nat \ {0}
  <2>1. \A h \in 1..Len(s.starts) : s.starts[h] \in 1..(Len(p) + 1)
    BY <1>4, ElementOfSeq
  <2> QED
    BY <1>2, <1>4, <2>1, LenProperties
<1>6. Ts(p, seps) = [h \in 1..Len(s.starts) |-> Token(p, s.starts[h], s.zeros)]
  BY <1>1, <1>5 DEF Ts, Tokens
<1>7. \A h \in 1..Len(s.starts) : Token(p, s.starts[h], s.zeros) \in Texts
  BY <1>4, <1>5, TokenText
<1>8. Ts(p, seps) \in Seq(Texts) /\ Len(Ts(p, seps)) = Len(s.starts)
  BY <1>5, <1>6, <1>7
<1> QED
  BY <1>1, <1>4, <1>5, <1>6, <1>8

Extend(ts, r) == [h \in 1..Len(ts) |-> IF h = Len(ts) THEN ts[h] \o r ELSE ts[h]]

(* What a character does to the tokens. *)
More(ts, at, c, seps) ==
    IF at = Gap THEN IF c = " " THEN ts ELSE Append(ts, IF c \in seps THEN <<>> ELSE <<c>>)
    ELSE IF c \in seps THEN ts ELSE Extend(ts, <<c>>)

Then(at, c, seps) == IF (at = Gap /\ c = " ") \/ c \in seps THEN Gap ELSE "word"

(* The token that grows.                                                   *)
LEMMA LastToken ==
    ASSUME NEW p \in Texts, NEW c \in Letters, NEW start \in 1..(Len(p) + 1)
    PROVE  SubSeq(Append(p, c), start, Len(p) + 1) = SubSeq(p, start, Len(p)) \o <<c>>
<1> DEFINE q == Append(p, c)
<1>1. /\ q \in Seq(Letters) /\ Len(q) = Len(p) + 1 /\ q[Len(p) + 1] = c
      /\ \A i \in 1..Len(p) : q[i] = p[i]
  BY AppendProperties DEF Texts
<1>2. Len(p) \in Nat /\ \A i \in 1..Len(p) : p[i] \in Letters
  BY TextBasics
<1> HIDE DEF q
<1>3. SubSeq(q, start, Len(p)) = SubSeq(p, start, Len(p))
  <2>1. \A i \in start..Len(p) : p[i] \in Letters /\ q[i] = p[i]
    BY <1>1, <1>2
  <2> QED
    BY <1>2, <2>1, SubSame
<1>4. SubSeq(q, start, Len(p) + 1) = SubSeq(q, start, (Len(p) + 1) - 1) \o <<q[Len(p) + 1]>>
  <2>1. start \in 1..Len(q) /\ Len(p) + 1 \in start..Len(q)
    BY <1>1, <1>2
  <2> QED
    BY <1>1, <2>1, SubSeqRecursiveSecond
<1>5. (Len(p) + 1) - 1 = Len(p)
  BY <1>2
<1> QED
  BY <1>1, <1>3, <1>4, <1>5 DEF q

(* One character more: where the scan is then, and what the tokens are.    *)
LEMMA TokensAppend ==
    ASSUME NEW p \in Texts, NEW c \in Letters, NEW seps
    PROVE  /\ At(p, seps) \in {Gap, "word"}
           /\ At(Append(p, c), seps) = Then(At(p, seps), c, seps)
           /\ Ts(Append(p, c), seps) = More(Ts(p, seps), At(p, seps), c, seps)
<1>1. PICK q : q = Append(p, c)
  OBVIOUS
<1>2. Len(p) \in Nat
  BY TextBasics
<1>3. /\ q \in Texts /\ Len(q) = Len(p) + 1 /\ q[Len(p) + 1] = c
      /\ \A i \in 1..Len(p) : q[i] = p[i]
  BY <1>1, <1>2, AppendProperties DEF Texts
<1>4. Extends(q, p)
  BY <1>2, <1>3 DEF Extends
<1>5. PICK s : s = Scan(p, seps, Len(p))
  OBVIOUS
<1>a. PICK st : st = s.starts
  OBVIOUS
<1>b. PICK zs : zs = s.zeros
  OBVIOUS
<1>6. PICK t : t = Scan(q, seps, Len(p) + 1)
  OBVIOUS
<1>7. t = Take(s, c, seps, Len(p) + 1)
  <2>1. Scan(q, seps, Len(p)) = s
    BY <1>3, <1>5, ScanLocal
  <2> QED
    BY <1>3, <1>6, <2>1, ScanNext
<1>8. Cut(s, Len(p))
  BY <1>5, ScanCut
<1>9. /\ st \in Seq(1..(Len(p) + 1)) /\ Len(st) \in Nat /\ Len(st) >= 1
      /\ zs \subseteq 1..Len(p) /\ zs \subseteq Nat
      /\ s.gap \in BOOLEAN
      /\ \A h \in 1..Len(st) : st[h] \in 1..(Len(p) + 1)
  <2>1. st \in Seq(1..(Len(p) + 1)) /\ Len(st) >= 1 /\ zs \subseteq 1..Len(p) /\ s.gap \in BOOLEAN
    BY <1>8, <1>a, <1>b DEF Cut
  <2>2. \A h \in 1..Len(st) : st[h] \in 1..(Len(p) + 1)
    BY <2>1, ElementOfSeq
  <2>3. \A z \in zs : z \in Nat
    BY <2>1
  <2> QED
    BY <2>1, <2>2, <2>3
<1>10. \A h \in 1..Len(st) :
          (s.gap \/ h # Len(st)) => \E z \in zs : z >= st[h]
  BY <1>8, <1>a, <1>b DEF Cut
<1>11. ~s.gap => \A z \in zs : z < st[Len(st)]
  BY <1>8, <1>a, <1>b DEF Cut
<1>12. PICK ts : ts = Ts(p, seps)
  OBVIOUS
<1>13. /\ ts \in Seq(Texts) /\ Len(ts) = Len(st)
       /\ \A h \in 1..Len(ts) : ts[h] = Token(p, st[h], zs) /\ ts[h] \in Texts
  BY <1>5, <1>a, <1>b, <1>12, TsIs, ElementOfSeq
<1>14. PICK us : us = Ts(q, seps)
  OBVIOUS
<1>15. /\ us \in Seq(Texts) /\ Len(us) = Len(t.starts)
       /\ \A h \in 1..Len(us) : us[h] = Token(q, t.starts[h], t.zeros)
  BY <1>3, <1>6, <1>14, TsIs
<1>16. /\ At(p, seps) = IF s.gap THEN Gap ELSE "word"
       /\ At(q, seps) = IF t.gap THEN Gap ELSE "word"
  BY <1>2, <1>3, <1>5, <1>6 DEF At
<1>17. Stays(c, s.gap) <=> s.gap /\ c = " "
  BY <1>9 DEF Stays
<1>18. t.gap = IF s.gap /\ c = " " THEN TRUE ELSE c \in seps
  BY <1>7, <1>9, <1>17 DEF Take
(* What is behind a token's \0 changes nothing. *)
<1>19. ASSUME NEW h \in 1..Len(ts), s.gap \/ h # Len(ts),
              NEW more, more \subseteq {Len(p) + 1}
       PROVE  Token(q, st[h], zs \cup more) = ts[h]
  <2>1. \E z \in zs : z >= st[h]
    BY <1>10, <1>13, <1>19
  <2>2. st[h] \in Nat \ {0}
    BY <1>9, <1>13
  <2>3. more \subseteq Nat /\ \A y \in more : y > Len(p)
    BY <1>19
  <2>4. Token(q, st[h], zs \cup more) = Token(p, st[h], zs)
    <3>1. zs \subseteq 1..Len(p)
      BY <1>9
    <3>2. Closing(q, p, st[h], zs, more)
      BY <1>4, <2>1, <2>2, <2>3, <3>1 DEF Closing
    <3> QED
      BY <3>2, TokenStays
  <2> QED
    BY <1>13, <2>4
<1>20. CASE s.gap /\ c = " "
  <2>1. t = s
    BY <1>7, <1>17, <1>20, <1>a, <1>b DEF Take
  <2>2. \A h \in 1..Len(ts) : us[h] = ts[h]
    <3> TAKE h \in 1..Len(ts)
    <3>1. Token(q, st[h], zs \cup {}) = ts[h]
      BY <1>19, <1>20
    <3>2. zs \cup {} = zs
      OBVIOUS
    <3> QED
      BY <1>13, <1>15, <1>a, <1>b, <2>1, <3>1, <3>2
  <2>3. us = ts
    BY <1>13, <1>15, <1>a, <2>1, <2>2, SeqEqual
  <2> QED
    BY <1>1, <1>9, <1>12, <1>14, <1>16, <1>18, <1>20, <2>3 DEF More, Then, Gap
<1>21. CASE s.gap /\ c # " "
  <2> DEFINE more == IF c \in seps THEN {Len(p) + 1} ELSE {}
             new == IF c \in seps THEN <<>> ELSE <<c>>
  <2>1. t.starts = Append(st, Len(p) + 1) /\ t.zeros = zs \cup more
    BY <1>7, <1>17, <1>21, <1>a, <1>b DEF Take
  <2>2. /\ Len(t.starts) = Len(st) + 1 /\ t.starts[Len(st) + 1] = Len(p) + 1
        /\ \A h \in 1..Len(st) : t.starts[h] = st[h]
    <3>1. Len(p) + 1 \in 1..(Len(p) + 1)
      OBVIOUS
    <3> QED
      BY <1>9, <2>1, <3>1, AppendProperties
  <2>a. more \subseteq {Len(p) + 1}
    OBVIOUS
  <2> HIDE DEF more
  <2>3. \A h \in 1..Len(ts) : us[h] = ts[h]
    <3> TAKE h \in 1..Len(ts)
    <3>1. Token(q, st[h], zs \cup more) = ts[h]
      BY <1>19, <1>21, <2>a
    <3>2. us[h] = Token(q, t.starts[h], t.zeros)
      BY <1>9, <1>13, <1>15, <2>2
    <3>3. t.starts[h] = st[h]
      BY <1>13, <2>2
    <3> QED
      BY <2>1, <3>1, <3>2, <3>3
  <2>4. us[Len(ts) + 1] = Token(q, Len(p) + 1, zs \cup more)
    <3>1. us[Len(ts) + 1] = Token(q, t.starts[Len(ts) + 1], t.zeros)
      BY <1>9, <1>13, <1>15, <2>2
    <3> QED
      BY <1>13, <2>1, <2>2, <3>1
  <2>5. \A z \in zs : z < Len(p) + 1
    BY <1>9
  <2>6. us[Len(ts) + 1] = new
    <3>1. CASE c \in seps
      <4>1. Token(Append(p, c), Len(p) + 1, zs \cup {Len(p) + 1}) = SubSeq(p, Len(p) + 1, Len(p))
        <5>1. /\ Len(p) + 1 \in Nat \ {0} /\ Len(p) + 1 <= Len(p) + 1
          BY <1>2
        <5>2. zs \subseteq Nat
          BY <1>9
        <5> QED
          BY <2>5, <5>1, <5>2, TokenEnds, Zenon
      <4>2. SubSeq(p, Len(p) + 1, Len(p)) = <<>>
        BY <1>2, SubSeqEmpty
      <4> QED
        BY <1>1, <1>2, <2>4, <3>1, <4>1, <4>2 DEF more
    <3>2. CASE c \notin seps
      <4>1. zs \cup {} = zs
        OBVIOUS
      <4>2. Token(q, Len(p) + 1, zs) = SubSeq(q, Len(p) + 1, Len(q))
        <5>1. Len(p) + 1 \in Nat
          BY <1>2
        <5>2. zs \subseteq Nat /\ q \in Texts
          BY <1>3, <1>9
        <5> QED
          BY <2>5, <5>1, <5>2, TokenOpen, Zenon
      <4>3. SubSeq(q, Len(p) + 1, Len(q)) = SubSeq(p, Len(p) + 1, Len(p)) \o <<c>>
        BY <1>1, <1>2, <1>3, LastToken
      <4>4. SubSeq(p, Len(p) + 1, Len(p)) = <<>> /\ <<c>> \in Seq(Letters)
        BY SubSeqEmpty
      <4> QED
        BY <2>4, <3>2, <4>1, <4>2, <4>3, <4>4, ConcatEmptySeq DEF more
    <3> QED
      BY <3>1, <3>2
  <2>7. new \in Texts
    BY DEF Texts
  <2> HIDE DEF new
  <2>8. us = Append(ts, new)
    <3>1. /\ Append(ts, new) \in Seq(Texts) /\ Len(Append(ts, new)) = Len(ts) + 1
          /\ \A h \in 1..Len(ts) : Append(ts, new)[h] = ts[h]
          /\ Append(ts, new)[Len(ts) + 1] = new
      BY <1>13, <2>7, AppendProperties
    <3>2. Len(us) = Len(ts) + 1 /\ Len(ts) \in Nat
      BY <1>9, <1>13, <1>15, <2>2
    <3>3. \A h \in 1..Len(us) : us[h] = Append(ts, new)[h]
      BY <2>3, <2>6, <3>1, <3>2
    <3> QED
      BY <1>15, <3>1, <3>2, <3>3, SeqEqual
  <2> QED
    BY <1>1, <1>9, <1>12, <1>14, <1>16, <1>18, <1>21, <2>8 DEF More, Then, new, Gap
<1>22. CASE ~s.gap
  <2> DEFINE more == IF c \in seps THEN {Len(p) + 1} ELSE {}
             m == Len(st)
  <2>1. t.starts = st /\ t.zeros = zs \cup more
    BY <1>7, <1>17, <1>22, <1>a, <1>b DEF Take
  <2>2. \A h \in 1..Len(ts) : h # Len(ts) => us[h] = ts[h]
    BY <1>13, <1>15, <1>19, <2>1
  <2>3. /\ m \in 1..m /\ st[m] \in 1..(Len(p) + 1) /\ st[m] \in Nat \ {0}
        /\ \A z \in zs : z < st[m]
    BY <1>9, <1>11, <1>22
  <2>4. us[m] = Token(q, st[m], zs \cup more)
    BY <1>15, <2>1, <2>3
  <2>5. ts[m] = SubSeq(p, st[m], Len(p))
    BY <1>2, <1>9, <1>13, <2>3, TokenOpen
  <2>6. CASE c \in seps
    <3>1. Token(Append(p, c), st[m], zs \cup {Len(p) + 1})
            = SubSeq(p, st[m], Len(p))
      <4>1. st[m] <= Len(p) + 1
        BY <1>2, <2>3
      <4>2. zs \subseteq Nat
        BY <1>9
      <4> QED
        BY <2>3, <4>1, <4>2, TokenEnds, Zenon
    <3>2. us[m] = ts[m]
      BY <1>1, <1>2, <2>4, <2>5, <2>6, <3>1
    <3>3. us = ts
      BY <1>13, <1>15, <2>1, <2>2, <3>2, SeqEqual
    <3> QED
      BY <1>1, <1>9, <1>12, <1>14, <1>16, <1>18, <1>22, <2>6, <3>3 DEF More, Then, Gap
  <2>7. CASE c \notin seps
    <3>1. zs \cup {} = zs
      OBVIOUS
    <3>2. Token(q, st[m], zs) = SubSeq(q, st[m], Len(q))
      BY <1>3, <1>9, <2>3, TokenOpen
    <3>3. SubSeq(q, st[m], Len(q)) = SubSeq(p, st[m], Len(p)) \o <<c>>
      BY <1>1, <1>2, <1>3, <2>3, LastToken
    <3>4. us[m] = ts[m] \o <<c>>
      BY <2>4, <2>5, <2>7, <3>1, <3>2, <3>3
    <3>5. us = Extend(ts, <<c>>)
      <4>1. us = [h \in 1..Len(us) |-> us[h]]
        BY <1>15, LenProperties
      <4>2. Len(us) = Len(ts) /\ Len(ts) = m
        BY <1>13, <1>15, <2>1
      <4>3. \A h \in 1..Len(ts) : us[h] = IF h = Len(ts) THEN ts[h] \o <<c>> ELSE ts[h]
        BY <2>2, <3>4, <4>2
      <4> HIDE DEF m
      <4> QED
        BY <4>1, <4>2, <4>3 DEF Extend
    <3> QED
      BY <1>1, <1>9, <1>12, <1>14, <1>16, <1>18, <1>22, <2>7, <3>5 DEF More, Then, Gap
  <2> QED
    BY <2>6, <2>7
<1>23. At(p, seps) \in {Gap, "word"}
  BY <1>16
<1> QED
  BY <1>9, <1>20, <1>21, <1>22, <1>23

-----------------------------------------------------------------------------
(* Words *)

Blank == {" ", "="}
X == Word \o <<" ">>

(* What is found behind a command's name, whether it ends with a separator. *)
W(t) == Tail(Ts(X \o t, Blank))
G(t) == At(X \o t, Blank)

(* Appending to the second of two is appending to both.                    *)
LEMMA ConcatAppend ==
    ASSUME NEW S, NEW p \in Seq(S), NEW t \in Seq(S), NEW c \in S
    PROVE  p \o Append(t, c) = Append(p \o t, c)
<1>1. Append(t, c) = t \o <<c>> /\ <<c>> \in Seq(S) /\ p \o t \in Seq(S)
  BY AppendIsConcat, ConcatProperties
<1>2. Append(p \o t, c) = (p \o t) \o <<c>>
  BY <1>1, AppendIsConcat
<1>3. (p \o t) \o <<c>> = p \o (t \o <<c>>)
  BY <1>1, ConcatAssociative
<1> QED
  BY <1>1, <1>2, <1>3

(* Types and elements of Extend.                                           *)
LEMMA ExtendIs ==
    ASSUME NEW ts \in Seq(Texts), NEW r \in Texts
    PROVE  /\ Extend(ts, r) \in Seq(Texts) /\ Len(Extend(ts, r)) = Len(ts)
           /\ \A h \in 1..Len(ts) :
                 Extend(ts, r)[h] = IF h = Len(ts) THEN ts[h] \o r ELSE ts[h]
<1>1. Len(ts) \in Nat /\ \A h \in 1..Len(ts) : ts[h] \in Texts
  BY LenProperties, ElementOfSeq
<1>2. \A h \in 1..Len(ts) : ts[h] \o r \in Texts
  BY <1>1, ConcatProperties DEF Texts
<1>3. \A h \in 1..Len(ts) : (IF h = Len(ts) THEN ts[h] \o r ELSE ts[h]) \in Texts
  BY <1>1, <1>2
<1> QED
  BY <1>1, <1>3 DEF Extend

(* Texts of one character, and of none.                                    *)
LEMMA Single ==
    ASSUME NEW c \in Letters
    PROVE  <<c>> \in Texts /\ Len(<<c>>) = 1 /\ <<c>>[1] = c /\ <<>> \in Texts
  BY DEF Texts

(* The tokens stay texts.                                                  *)
LEMMA MoreIs ==
    ASSUME NEW ts \in Seq(Texts), NEW at, NEW c \in Letters, NEW seps
    PROVE  More(ts, at, c, seps) \in Seq(Texts)
<1>1. <<c>> \in Texts /\ <<>> \in Texts
  BY Single
<1>2. Extend(ts, <<c>>) \in Seq(Texts)
  BY <1>1, ExtendIs
<1>3. Append(ts, IF c \in seps THEN <<>> ELSE <<c>>) \in Seq(Texts)
  BY <1>1, AppendProperties
<1> QED
  BY <1>2, <1>3 DEF More, Gap

(* s \o t and Append(s, c), as names. *)
Cat(s, t) == s \o t
Put(s, c) == Append(s, c)

(* Only the last token matters. *)
LEMMA MoreBehind ==
    ASSUME NEW a \in Seq(Texts), NEW r \in Seq(Texts), NEW at,
           at = Gap \/ r # <<>>, NEW c \in Letters, NEW seps
    PROVE  More(Cat(a, r), at, c, seps) = Cat(a, More(r, at, c, seps))
<1>a. More(a \o r, at, c, seps) = a \o More(r, at, c, seps)
  <2>1. Len(a) \in Nat /\ Len(r) \in Nat /\ (r # <<>> => Len(r) > 0)
    BY EmptySeq
  <2>2. /\ a \o r \in Seq(Texts) /\ Len(a \o r) = Len(a) + Len(r)
        /\ \A i \in 1..(Len(a) + Len(r)) :
              (a \o r)[i] = IF i <= Len(a) THEN a[i] ELSE r[i - Len(a)]
    BY ConcatProperties
  <2>3. CASE at = Gap
    <3> DEFINE new == IF c \in seps THEN <<>> ELSE <<c>>
    <3>1. new \in Texts
      BY Single
    <3>2. a \o Append(r, new) = Append(a \o r, new)
      <4> HIDE DEF new
      <4> QED
        BY <3>1, ConcatAppend
    <3> QED
      BY <2>3, <3>2 DEF More, Gap
  <2>4. CASE at # Gap /\ c \in seps
    BY <2>4 DEF More, Gap
  <2>5. CASE at # Gap /\ c \notin seps
    <3>1. <<c>> \in Texts /\ Len(r) > 0
      BY <2>1, <2>5, Single
    <3>2. PICK e : e = Extend(r, <<c>>)
      OBVIOUS
    <3>3. /\ e \in Seq(Texts) /\ Len(e) = Len(r)
          /\ \A h \in 1..Len(r) : e[h] = IF h = Len(r) THEN r[h] \o <<c>> ELSE r[h]
      BY <3>1, <3>2, ExtendIs
    <3>4. /\ a \o e \in Seq(Texts) /\ Len(a \o e) = Len(a) + Len(r)
          /\ \A i \in 1..(Len(a) + Len(r)) :
                (a \o e)[i] = IF i <= Len(a) THEN a[i] ELSE e[i - Len(a)]
      <4>1. e \in Seq(Texts) /\ Len(e) = Len(r)
        BY <3>3
      <4>2. /\ a \o e \in Seq(Texts) /\ Len(a \o e) = Len(a) + Len(e)
            /\ \A i \in 1..(Len(a) + Len(e)) :
                  (a \o e)[i] = IF i <= Len(a) THEN a[i] ELSE e[i - Len(a)]
        BY <4>1, ConcatProperties
      <4> QED
        BY <4>1, <4>2
    <3>5. PICK ar : ar = a \o r
      OBVIOUS
    <3>6. PICK f : f = Extend(ar, <<c>>)
      OBVIOUS
    <3>7. /\ f \in Seq(Texts) /\ Len(f) = Len(ar)
          /\ \A h \in 1..Len(ar) : f[h] = IF h = Len(ar) THEN ar[h] \o <<c>> ELSE ar[h]
      BY <2>2, <3>1, <3>5, <3>6, ExtendIs
    <3>8. \A i \in 1..(Len(a) + Len(r)) : f[i] = (a \o e)[i]
      <4> SUFFICES ASSUME NEW i \in 1..(Len(a) + Len(r)) PROVE f[i] = (a \o e)[i]
        OBVIOUS
      <4>1. CASE i <= Len(a)
        BY <2>1, <2>2, <3>1, <3>4, <3>5, <3>7, <4>1
      <4>2. CASE i > Len(a)
        <5>1. i - Len(a) \in 1..Len(r) /\ (i = Len(a) + Len(r) <=> i - Len(a) = Len(r))
          BY <2>1, <4>2
        <5>2. ar[i] = r[i - Len(a)] /\ (a \o e)[i] = e[i - Len(a)] /\ Len(ar) = Len(a) + Len(r)
          BY <2>1, <2>2, <3>4, <3>5, <4>2
        <5> QED
          BY <3>3, <3>7, <5>1, <5>2
      <4>3. i \in Int /\ Len(a) \in Int
        BY <2>1
      <4>4. i <= Len(a) \/ i > Len(a)
        BY <4>3
      <4> QED
        BY <4>1, <4>2, <4>4
    <3>9. f = a \o e
      BY <2>2, <3>4, <3>5, <3>7, <3>8, SeqEqual
    <3> QED
      BY <2>5, <3>2, <3>5, <3>6, <3>9 DEF More, Gap
  <2> QED
    BY <2>3, <2>4, <2>5
<1> QED
  BY <1>a, Zenon DEF Cat

(* Two texts that were cut into a and b, and since then alike. *)
Alike(p, q, a, b) ==
    /\ At(p, Blank) = At(q, Blank)
    /\ \E r \in Seq(Texts) :
          /\ Ts(p, Blank) = Cat(a, r) /\ Ts(q, Blank) = Cat(b, r)
          /\ At(p, Blank) = Gap \/ r # <<>>

(* A character keeps two texts alike.                                      *)
LEMMA AlikeStep ==
    ASSUME NEW p \in Texts, NEW q \in Texts, NEW a \in Seq(Texts), NEW b \in Seq(Texts),
           Alike(p, q, a, b), NEW c \in Letters
    PROVE  Alike(Append(p, c), Append(q, c), a, b)
<1>1. PICK g : g = At(p, Blank) /\ g = At(q, Blank)
  BY DEF Alike
<1>2. PICK r \in Seq(Texts) : Ts(p, Blank) = Cat(a, r) /\ Ts(q, Blank) = Cat(b, r) /\ (g = Gap \/ r # <<>>)
  BY <1>1 DEF Alike
<1>3. PICK m : m = More(r, g, c, Blank)
  OBVIOUS
<1>4. m \in Seq(Texts)
  BY <1>2, <1>3, MoreIs
<1>5. Ts(Append(p, c), Blank) = Cat(a, m) /\ Ts(Append(q, c), Blank) = Cat(b, m)
  <2>a. g = Gap \/ r # <<>>
    BY <1>2
  <2>b. More(Cat(a, r), g, c, Blank) = Cat(a, More(r, g, c, Blank))
    BY <2>a, MoreBehind
  <2>c. More(Cat(b, r), g, c, Blank) = Cat(b, More(r, g, c, Blank))
    BY <2>a, MoreBehind
  <2>1. More(Cat(a, r), g, c, Blank) = Cat(a, m) /\ More(Cat(b, r), g, c, Blank) = Cat(b, m)
    BY <1>3, <2>b, <2>c
  <2>2. Ts(Append(p, c), Blank) = More(Ts(p, Blank), At(p, Blank), c, Blank)
    BY TokensAppend
  <2>3. Ts(Append(q, c), Blank) = More(Ts(q, Blank), At(q, Blank), c, Blank)
    BY TokensAppend
  <2> QED
    BY <1>1, <1>2, <2>1, <2>2, <2>3
<1>6. PICK h : h = Then(g, c, Blank)
  OBVIOUS
<1>7. At(Append(p, c), Blank) = h /\ At(Append(q, c), Blank) = h
  <2>1. At(Append(p, c), Blank) = Then(At(p, Blank), c, Blank)
    BY TokensAppend
  <2>2. At(Append(q, c), Blank) = Then(At(q, Blank), c, Blank)
    BY TokensAppend
  <2> QED
    BY <1>1, <1>6, <2>1, <2>2
<1>8. h = Gap \/ m # <<>>
  <2>1. SUFFICES ASSUME h # Gap PROVE m # <<>>
    OBVIOUS
  <2>2. c \notin Blank /\ c # " "
    BY <1>6, <2>1 DEF Blank, Then
  <2>3. CASE g = Gap
    <3>1. m = Append(r, <<c>>)
      BY <1>3, <2>2, <2>3 DEF More, Gap
    <3> QED
      BY <1>2, <3>1, Single, AppendProperties
  <2>4. CASE g # Gap
    <3>1. m = Extend(r, <<c>>) /\ r # <<>>
      BY <1>2, <1>3, <2>2, <2>4 DEF More, Gap
    <3>2. Len(m) = Len(r) /\ Len(r) > 0
      BY <1>2, <3>1, Single, ExtendIs, EmptySeq
    <3> QED
      BY <3>2
  <2> QED
    BY <2>3, <2>4
<1> QED
  BY <1>4, <1>5, <1>7, <1>8 DEF Alike

(* An empty text has one token, an empty one.                              *)
LEMMA TsEmpty ==
    ASSUME NEW seps
    PROVE  <<>> \in Texts /\ Ts(<<>>, seps) = <<<<>>>> /\ At(<<>>, seps) = "word"
<1>1. <<>> \in Texts /\ Len(<<>>) = 0
  BY EmptySeq DEF Texts
<1>2. Scan(<<>>, seps, 0) = Before
  BY ScanZero
<1>3. Token(<<>>, 1, {}) = SubSeq(<<>>, 1, 0)
  <2>1. {} \subseteq Nat /\ \A z \in {} : z < 1
    OBVIOUS
  <2> QED
    BY <1>1, <2>1, TokenOpen
<1>4. SubSeq(<<>>, 1, 0) = <<>>
  BY SubSeqEmpty
<1>5. Ts(<<>>, seps) = [h \in DOMAIN <<1>> |-> Token(<<>>, <<1>>[h], {})]
  <2>1. PICK s : s = Scan(<<>>, seps, 0)
    OBVIOUS
  <2>2. s.starts = <<1>> /\ s.zeros = {}
    BY <1>2, <2>1 DEF Before
  <2>3. Ts(<<>>, seps) = [h \in DOMAIN s.starts |-> Token(<<>>, s.starts[h], s.zeros)]
    BY <1>1, <2>1 DEF Ts, Tokens
  <2> QED
    BY <2>2, <2>3
<1>6. Ts(<<>>, seps) = [h \in 1..1 |-> <<>>]
  <2>1. DOMAIN <<1>> = 1..1 /\ <<1>>[1] = 1
    OBVIOUS
  <2>2. \A h \in 1..1 : Token(<<>>, <<1>>[h], {}) = <<>>
    BY <1>3, <1>4, <2>1
  <2> QED
    BY <1>5, <2>1, <2>2
<1>7. [h \in 1..1 |-> <<>>] = <<<<>>>>
  OBVIOUS
<1>8. At(<<>>, seps) = "word"
  BY <1>1, <1>2 DEF At, Before
<1> QED
  BY <1>1, <1>6, <1>7, <1>8

(* Of a command's name and a blank.                                        *)
LEMMA FirstWord ==
    X \in Texts /\ Ts(X, Blank) = <<<<"x">>>> /\ At(X, Blank) = Gap
<1>1. "x" \in Letters /\ " " \in Letters /\ "x" \notin Blank /\ " " \in Blank
  BY DEF Letters, Characters, Blank
<1>2. PICK w : w = Append(<<>>, "x")
  OBVIOUS
<1>3. w = <<"x">> /\ w \in Texts
  <2>1. Append(<<>>, "x") = <<>> \o <<"x">> /\ <<>> \o <<"x">> = <<"x">>
    BY <1>1, EmptySeq, AppendIsConcat, ConcatEmptySeq, Single DEF Texts
  <2> QED
    BY <1>1, <1>2, <2>1, Single
<1>4. At(w, Blank) = "word"
  <2>1. At(w, Blank) = Then(At(<<>>, Blank), "x", Blank)
    BY <1>1, <1>2, TsEmpty, TokensAppend
  <2> QED
    BY <1>1, <2>1, TsEmpty DEF Then, Gap
<1>5. Ts(w, Blank) = <<<<"x">>>>
  <2>1. Ts(w, Blank) = More(<<<<>>>>, "word", "x", Blank)
    BY <1>1, <1>2, TsEmpty, TokensAppend
  <2>2. More(<<<<>>>>, "word", "x", Blank) = Extend(<<<<>>>>, <<"x">>)
    BY <1>1 DEF More, Gap
  <2>3. PICK u : u = <<<<>>>>
    OBVIOUS
  <2>4. u \in Seq(Texts) /\ Len(u) = 1 /\ u[1] = <<>>
    BY <2>3, TsEmpty
  <2>5. <<>> \o <<"x">> = <<"x">>
    BY <1>1, Single, ConcatEmptySeq DEF Texts
  <2>6. PICK e : e = Extend(u, <<"x">>)
    OBVIOUS
  <2>7. e \in Seq(Texts) /\ Len(e) = 1 /\ e[1] = <<"x">>
    <3>1. <<"x">> \in Texts
      BY <1>1, Single
    <3>2. e \in Seq(Texts) /\ Len(e) = Len(u)
          /\ \A h \in 1..Len(u) : e[h] = IF h = Len(u) THEN u[h] \o <<"x">> ELSE u[h]
      BY <2>4, <2>6, <3>1, ExtendIs
    <3>3. e[1] = u[1] \o <<"x">>
      BY <2>4, <3>2
    <3> QED
      BY <2>4, <2>5, <3>2, <3>3
  <2>8. e = <<<<"x">>>>
    BY <2>7
  <2> QED
    BY <2>1, <2>2, <2>3, <2>6, <2>8
<1>6. X = Append(w, " ")
  BY <1>1, <1>3, AppendIsConcat DEF X, Word, Texts
<1>7. X \in Texts
  BY <1>1, <1>3, <1>6, AppendProperties DEF Texts
<1>8. At(X, Blank) = Gap
  <2>1. At(X, Blank) = Then(At(w, Blank), " ", Blank)
    BY <1>1, <1>3, <1>6, TokensAppend
  <2> QED
    BY <1>1, <2>1 DEF Then
<1>9. Ts(X, Blank) = <<<<"x">>>>
  <2>1. Ts(X, Blank) = More(<<<<"x">>>>, "word", " ", Blank)
    <3>1. Ts(X, Blank) = More(Ts(w, Blank), At(w, Blank), " ", Blank)
      BY <1>1, <1>3, <1>6, TokensAppend
    <3> QED
      BY <1>4, <1>5, <3>1
  <2> QED
    BY <1>1, <2>1 DEF More, Gap
<1> QED
  BY <1>7, <1>8, <1>9

(* Tail of tokens that have one in front.                                  *)
LEMMA TailBehind ==
    ASSUME NEW S, NEW a \in S, NEW r \in Seq(S)
    PROVE  Tail(<<a>> \o r) = r
<1>1. <<a>> \in Seq(S) /\ Len(<<a>>) = 1 /\ <<a>>[1] = a /\ Len(r) \in Nat
  OBVIOUS
<1>2. PICK s : s = <<a>> \o r
  OBVIOUS
<1>3. s \in Seq(S) /\ Len(s) = 1 + Len(r) /\ \A i \in 1..(1 + Len(r)) :
         s[i] = IF i <= 1 THEN <<a>>[i] ELSE r[i - 1]
  BY <1>1, <1>2, ConcatProperties
<1>4. s # <<>>
  BY <1>1, <1>3, EmptySeq
<1>5. /\ Tail(s) \in Seq(S) /\ Len(Tail(s)) = Len(s) - 1
      /\ \A i \in 1..Len(Tail(s)) : Tail(s)[i] = s[i + 1]
  BY <1>3, <1>4, HeadTailProperties
<1>6. Len(Tail(s)) = Len(r) /\ \A i \in 1..Len(r) : Tail(s)[i] = r[i]
  BY <1>1, <1>3, <1>5
<1> QED
  BY <1>2, <1>5, <1>6, SeqEqual

(* Whatever is in front, if it ends with a separator: what follows is cut  *)
(* into the same words.                                                    *)
LEMMA Behind ==
    ASSUME NEW p \in Texts, At(p, Blank) = Gap, NEW t \in Texts
    PROVE  /\ W(t) \in Seq(Texts) /\ G(t) \in {Gap, "word"}
           /\ G(t) = Gap \/ W(t) # <<>>
           /\ Ts(p \o t, Blank) = Cat(Ts(p, Blank), W(t))
           /\ At(p \o t, Blank) = G(t)
<1>1. PICK a : a = Ts(p, Blank)
  OBVIOUS
<1>2. PICK b : b = Ts(X, Blank)
  OBVIOUS
<1>3. a \in Seq(Texts) /\ b \in Seq(Texts) /\ b = <<<<"x">>>> /\ X \in Texts /\ At(X, Blank) = Gap
  BY <1>1, <1>2, FirstWord, TsIs
<1> DEFINE T == {s \in Texts : Alike(p \o s, X \o s, a, b)}
<1>4. <<>> \in T
  <2>1. p \o <<>> = p /\ X \o <<>> = X /\ a \o <<>> = a /\ b \o <<>> = b
    BY <1>3, ConcatEmptySeq DEF Texts
  <2>2. <<>> \in Seq(Texts) /\ <<>> \in Texts
    BY DEF Texts
  <2>3. At(p, Blank) = At(X, Blank)
    BY <1>3
  <2>4. Alike(p, X, a, b)
    BY <1>1, <1>2, <2>1, <2>2, <2>3 DEF Alike, Cat
  <2> QED
    BY <2>1, <2>2, <2>4
<1>5. ASSUME NEW s \in Texts, s \in T, NEW c \in Letters
      PROVE  Append(s, c) \in T
  <2>1. p \o Append(s, c) = Append(p \o s, c) /\ X \o Append(s, c) = Append(X \o s, c)
    <3>1. p \o Append(s, c) = Append(p \o s, c)
      BY ConcatAppend DEF Texts
    <3>2. X \o Append(s, c) = Append(X \o s, c)
      BY <1>3, ConcatAppend DEF Texts
    <3> QED
      BY <3>1, <3>2
  <2>2. p \o s \in Texts /\ X \o s \in Texts /\ Append(s, c) \in Texts
    <3>1. p \o s \in Texts
      BY ConcatProperties DEF Texts
    <3>2. X \o s \in Texts
      BY <1>3, ConcatProperties DEF Texts
    <3>3. Append(s, c) \in Texts
      BY AppendProperties DEF Texts
    <3> QED
      BY <3>1, <3>2, <3>3
  <2>3. Alike(p \o s, X \o s, a, b)
    BY <1>5
  <2>4. Alike(Append(p \o s, c), Append(X \o s, c), a, b)
    BY <1>3, <2>2, <2>3, AlikeStep
  <2> QED
    BY <2>1, <2>2, <2>4
<1>6. \A s \in Texts : s \in T
  <2> HIDE DEF T
  <2> QED
    BY <1>4, <1>5, FromEmpty DEF Texts
<1>7. Alike(p \o t, X \o t, a, b)
  BY <1>6
<1>8. PICK q : q = Seq(Texts)
  OBVIOUS
<1>9. PICK w \in Seq(Texts) :
          /\ Ts(p \o t, Blank) = Cat(a, w) /\ Ts(X \o t, Blank) = Cat(b, w)
          /\ At(p \o t, Blank) = Gap \/ w # <<>>
  BY <1>7 DEF Alike
<1>10. W(t) = w
  <2>1. <<"x">> \in Texts
    BY Single DEF Letters, Characters
  <2>2. Tail(b \o w) = w
    BY <1>3, <2>1, TailBehind
  <2>3. Cat(b, w) = b \o w
    BY Zenon DEF Cat
  <2> QED
    BY <1>9, <2>2, <2>3 DEF W
<1>11. At(p \o t, Blank) = G(t)
  BY <1>7 DEF Alike, G
<1>12. G(t) \in {Gap, "word"}
  <2>1. X \o t \in Texts
    BY <1>3, ConcatProperties DEF Texts
  <2>2. " " \in Letters
    BY DEF Letters, Characters
  <2> QED
    BY <2>1, <2>2, TokensAppend DEF G
<1> QED
  BY <1>1, <1>9, <1>10, <1>11, <1>12

(* No text, no words.                                                      *)
LEMMA WEmpty ==
    W(<<>>) = <<>> /\ G(<<>>) = Gap
<1>1. X \o <<>> = X
  BY FirstWord, ConcatEmptySeq DEF Texts
<1>2. Tail(<<<<"x">>>>) = <<>>
  OBVIOUS
<1> QED
  BY <1>1, <1>2, FirstWord DEF W, G

(* One character more: what the words are then.                            *)
LEMMA WNext ==
    ASSUME NEW t \in Texts, NEW c \in Letters
    PROVE  /\ Append(t, c) \in Texts
           /\ W(t) \in Seq(Texts) /\ G(t) \in {Gap, "word"}
           /\ G(t) = Gap \/ W(t) # <<>>
           /\ W(Append(t, c)) = More(W(t), G(t), c, Blank)
           /\ G(Append(t, c)) = Then(G(t), c, Blank)
<1>1. /\ W(t) \in Seq(Texts) /\ G(t) \in {Gap, "word"}
      /\ G(t) = Gap \/ W(t) # <<>>
      /\ Ts(X \o t, Blank) = Cat(Ts(X, Blank), W(t))
      /\ At(X \o t, Blank) = G(t)
  BY FirstWord, Behind
<1>2. PICK p : p = X \o t
  OBVIOUS
<1>3. p \in Texts /\ Append(t, c) \in Texts
  BY <1>2, FirstWord, ConcatProperties, AppendProperties DEF Texts
<1>4. X \o Append(t, c) = Append(p, c)
  BY <1>2, FirstWord, ConcatAppend DEF Texts
<1>5. PICK b : b = Ts(X, Blank)
  OBVIOUS
<1>6. b \in Seq(Texts) /\ b = <<<<"x">>>> /\ <<"x">> \in Texts
  <2>1. "x" \in Letters
    BY DEF Letters, Characters
  <2> QED
    BY <1>5, <2>1, FirstWord, TsIs, Single
<1>7. PICK m : m = More(W(t), G(t), c, Blank)
  OBVIOUS
<1>8. m \in Seq(Texts)
  BY <1>1, <1>7, MoreIs
<1>9. Ts(Append(p, c), Blank) = Cat(b, m)
  <2>1. Ts(Append(p, c), Blank) = More(Ts(p, Blank), At(p, Blank), c, Blank)
    BY <1>3, TokensAppend
  <2>2. More(Cat(b, W(t)), G(t), c, Blank) = Cat(b, More(W(t), G(t), c, Blank))
    <3>1. PICK w : w = W(t)
      OBVIOUS
    <3>2. PICK g : g = G(t)
      OBVIOUS
    <3>3. w \in Seq(Texts) /\ b \in Seq(Texts)
      BY <1>1, <1>6, <3>1
    <3>5. g = Gap \/ w # <<>>
      BY <1>1, <3>1, <3>2
    <3>4. More(Cat(b, w), g, c, Blank) = Cat(b, More(w, g, c, Blank))
      BY <3>3, <3>5, MoreBehind
    <3> QED
      BY <3>1, <3>2, <3>4
  <2> QED
    BY <1>1, <1>2, <1>5, <1>7, <2>1, <2>2
<1>10. W(Append(t, c)) = m
  <2>1. Tail(b \o m) = m
    BY <1>6, <1>8, TailBehind
  <2>2. Cat(b, m) = b \o m
    BY Zenon DEF Cat
  <2>3. W(Append(t, c)) = Tail(Ts(Append(p, c), Blank))
    BY <1>4, Zenon DEF W
  <2> QED
    BY <1>9, <2>1, <2>2, <2>3
<1>11. G(Append(t, c)) = Then(G(t), c, Blank)
  <2>1. G(Append(t, c)) = At(Append(p, c), Blank)
    BY <1>4, Zenon DEF G
  <2>2. At(Append(p, c), Blank) = Then(At(p, Blank), c, Blank)
    BY <1>3, TokensAppend
  <2> QED
    BY <1>1, <1>2, <2>1, <2>2
<1> QED
  BY <1>1, <1>3, <1>7, <1>10, <1>11

Clean(w) == \A i \in 1..Len(w) : w[i] \notin Blank
AllClean(ts) == \A h \in 1..Len(ts) : Clean(ts[h])
Holes(ts) == \E h \in 1..Len(ts) : ts[h] = <<>>

(* What a word does to AllClean and Holes.                                 *)
LEMMA AppendWord ==
    ASSUME NEW ts \in Seq(Texts), NEW w \in Texts
    PROVE  /\ Append(ts, w) \in Seq(Texts)
           /\ AllClean(Append(ts, w)) <=> AllClean(ts) /\ Clean(w)
           /\ Holes(Append(ts, w)) <=> Holes(ts) \/ w = <<>>
<1>1. PICK u : u = Append(ts, w)
  OBVIOUS
<1>2. Len(ts) \in Nat
  BY LenProperties
<1>3. /\ u \in Seq(Texts) /\ Len(u) = Len(ts) + 1 /\ u[Len(ts) + 1] = w
      /\ \A h \in 1..Len(ts) : u[h] = ts[h]
  BY <1>1, AppendProperties
<1>4. \A h : h \in 1..Len(u) <=> h \in 1..Len(ts) \/ h = Len(ts) + 1
  BY <1>2, <1>3
<1>5. AllClean(u) <=> AllClean(ts) /\ Clean(w)
  BY <1>3, <1>4 DEF AllClean
<1>6. Holes(u) <=> Holes(ts) \/ w = <<>>
  BY <1>3, <1>4 DEF Holes
<1> QED
  BY <1>1, <1>3, <1>5, <1>6

(* What a character does to the last word.                                 *)
LEMMA ExtendWord ==
    ASSUME NEW ts \in Seq(Texts), ts # <<>>, NEW c \in Letters
    PROVE  LET u == Extend(ts, <<c>>)
               n == Len(ts)
           IN  /\ u \in Seq(Texts) /\ Len(u) = n /\ n \in 1..n
               /\ \A h \in 1..(n - 1) : u[h] = ts[h]
               /\ u[n] = Append(ts[n], c) /\ u[n] # <<>> /\ u[n] \in Texts
<1>1. PICK u : u = Extend(ts, <<c>>)
  OBVIOUS
<1>2. PICK n \in Nat : n = Len(ts)
  BY LenProperties
<1>3. n \in 1..n /\ ts[n] \in Texts
  <2>1. n > 0
    BY <1>2, EmptySeq
  <2> QED
    BY <1>2, <2>1, ElementOfSeq
<1>4. /\ u \in Seq(Texts) /\ Len(u) = n
      /\ \A h \in 1..n : u[h] = IF h = n THEN ts[h] \o <<c>> ELSE ts[h]
  <2>1. <<c>> \in Texts
    BY Single
  <2>2. /\ Extend(ts, <<c>>) \in Seq(Texts) /\ Len(Extend(ts, <<c>>)) = Len(ts)
        /\ \A h \in 1..Len(ts) :
              Extend(ts, <<c>>)[h] = IF h = Len(ts) THEN ts[h] \o <<c>> ELSE ts[h]
    BY <2>1, ExtendIs
  <2> QED
    BY <1>1, <1>2, <2>2
<1>5. u[n] = ts[n] \o <<c>>
  BY <1>3, <1>4
<1>6. Append(ts[n], c) = ts[n] \o <<c>>
  BY <1>3, AppendIsConcat DEF Texts
<1>7. Append(ts[n], c) # <<>> /\ Append(ts[n], c) \in Texts
  <2>1. PICK w : w = ts[n]
    OBVIOUS
  <2>2. w \in Seq(Letters)
    BY <1>3, <2>1 DEF Texts
  <2>3. Append(w, c) \in Seq(Letters) /\ Append(w, c) # <<>>
    BY <2>2, AppendProperties
  <2> QED
    BY <2>1, <2>3 DEF Texts
<1>8. \A h \in 1..(n - 1) : u[h] = ts[h]
  BY <1>4
<1>9. u[n] = Append(ts[n], c)
  BY <1>5, <1>6, Zenon
<1> QED
  BY <1>1, <1>2, <1>3, <1>4, <1>7, <1>8, <1>9

(* What a character does to Clean.                                         *)
LEMMA AppendClean ==
    ASSUME NEW w \in Texts, NEW c \in Letters
    PROVE  Clean(Append(w, c)) <=> Clean(w) /\ c \notin Blank
<1>1. PICK u : u = Append(w, c)
  OBVIOUS
<1>2. Len(w) \in Nat
  BY TextBasics
<1>3. /\ Len(u) = Len(w) + 1 /\ u[Len(w) + 1] = c
      /\ \A h \in 1..Len(w) : u[h] = w[h]
  BY <1>1, AppendProperties DEF Texts
<1>4. \A h : h \in 1..Len(u) <=> h \in 1..Len(w) \/ h = Len(w) + 1
  BY <1>2, <1>3
<1>5. Clean(u) <=> Clean(w) /\ c \notin Blank
  BY <1>3, <1>4 DEF Clean
<1> QED
  BY <1>1, <1>5

(* Requests' EmptyWord, of any text. *)
EmptyIn(t) == \E h \in 1..Len(t) : t[h] = "=" /\ (h = 1 \/ t[h - 1] \in Blank)
Parted(t) == t = <<>> \/ t[Len(t)] \in Blank

(* What a character does to EmptyIn.                                       *)
LEMMA AppendEmptyIn ==
    ASSUME NEW t \in Texts, NEW c \in Letters
    PROVE  /\ EmptyIn(Append(t, c)) <=> EmptyIn(t) \/ (c = "=" /\ Parted(t))
           /\ Parted(Append(t, c)) <=> c \in Blank
<1>1. PICK u : u = Append(t, c)
  OBVIOUS
<1>2. PICK n \in Nat : n = Len(t)
  BY TextBasics
<1>3. /\ Len(u) = n + 1 /\ u[n + 1] = c /\ u # <<>>
      /\ \A h \in 1..n : u[h] = t[h]
  BY <1>1, <1>2, AppendProperties DEF Texts
<1>4. \A h : h \in 1..Len(u) <=> h \in 1..n \/ h = n + 1
  BY <1>3
<1>5. \A h \in 1..n : h = 1 \/ (h - 1 \in 1..n /\ u[h - 1] = t[h - 1])
  BY <1>3
<1>6. t = <<>> <=> n = 0
  BY <1>2, EmptySeq DEF Texts
<1>7. n = 0 \/ (n \in 1..n /\ u[(n + 1) - 1] = t[n])
  BY <1>3
<1>8. EmptyIn(u) <=> EmptyIn(t) \/ (c = "=" /\ Parted(t))
  <2>1. ASSUME EmptyIn(u) PROVE EmptyIn(t) \/ (c = "=" /\ Parted(t))
    <3>1. PICK h \in 1..Len(u) : u[h] = "=" /\ (h = 1 \/ u[h - 1] \in Blank)
      BY <2>1 DEF EmptyIn
    <3>2. CASE h \in 1..n
      BY <1>2, <1>3, <1>5, <3>1, <3>2 DEF EmptyIn
    <3>3. CASE h = n + 1
      BY <1>2, <1>3, <1>6, <1>7, <3>1, <3>3 DEF Parted
    <3> QED
      BY <1>4, <3>1, <3>2, <3>3
  <2>2. ASSUME EmptyIn(t) PROVE EmptyIn(u)
    <3>1. PICK h \in 1..n : t[h] = "=" /\ (h = 1 \/ t[h - 1] \in Blank)
      BY <1>2, <2>2 DEF EmptyIn
    <3>2. h \in 1..Len(u) /\ u[h] = "=" /\ (h = 1 \/ u[h - 1] \in Blank)
      BY <1>3, <1>4, <1>5, <3>1
    <3> QED
      BY <3>2 DEF EmptyIn
  <2>3. ASSUME c = "=", Parted(t) PROVE EmptyIn(u)
    <3>1. n + 1 \in 1..Len(u) /\ u[n + 1] = "="
      BY <1>3, <1>4, <2>3
    <3>2. n + 1 = 1 \/ u[(n + 1) - 1] \in Blank
      BY <1>2, <1>6, <1>7, <2>3 DEF Parted
    <3> QED
      BY <3>1, <3>2 DEF EmptyIn
  <2> QED
    BY <2>1, <2>2, <2>3
<1>9. Parted(u) <=> c \in Blank
  BY <1>3 DEF Parted
<1> QED
  BY <1>1, <1>8, <1>9

(* A word that grows is not empty; others are as they were.                *)
LEMMA ExtendHoles ==
    ASSUME NEW ts \in Seq(Texts), ts # <<>>, ts[Len(ts)] # <<>>, NEW c \in Letters
    PROVE  /\ Holes(Extend(ts, <<c>>)) <=> Holes(ts)
           /\ c \notin Blank /\ AllClean(ts) => AllClean(Extend(ts, <<c>>))
<1>1. PICK u : u = Extend(ts, <<c>>)
  OBVIOUS
<1>2. PICK n : n = Len(ts)
  OBVIOUS
<1>3. /\ u \in Seq(Texts) /\ Len(u) = n /\ n \in 1..n
      /\ \A h \in 1..(n - 1) : u[h] = ts[h]
      /\ u[n] = Append(ts[n], c) /\ u[n] # <<>> /\ u[n] \in Texts
  BY <1>1, <1>2, ExtendWord
<1>4. n \in Nat /\ \A h : h \in 1..n <=> h \in 1..(n - 1) \/ h = n
  BY <1>2, <1>3, LenProperties
<1>5. Holes(u) <=> Holes(ts)
  BY <1>2, <1>3, <1>4 DEF Holes
<1>6. ts[n] \in Texts
  BY <1>2, <1>3, ElementOfSeq
<1>7. ASSUME c \notin Blank, AllClean(ts) PROVE AllClean(u)
  <2>1. Clean(ts[n])
    BY <1>2, <1>3, <1>7 DEF AllClean
  <2>2. Clean(Append(ts[n], c))
    <3>1. PICK w : w = ts[n]
      OBVIOUS
    <3>2. w \in Texts /\ Clean(w)
      BY <1>6, <2>1, <3>1
    <3>3. Clean(Append(w, c))
      BY <1>7, <3>2, AppendClean
    <3> QED
      BY <3>1, <3>3
  <2>3. \A h \in 1..(n - 1) : Clean(u[h])
    BY <1>2, <1>3, <1>4, <1>7 DEF AllClean
  <2>4. Clean(u[n])
    BY <1>3, <2>2
  <2> QED
    BY <1>3, <1>4, <2>3, <2>4 DEF AllClean
<1> QED
  BY <1>1, <1>5, <1>7

(* The empty text.                                                         *)
LEMMA Nothing ==
    <<>> \in Texts /\ Clean(<<>>) /\ Parted(<<>>) /\ ~EmptyIn(<<>>)
<1>1. <<>> \in Texts /\ Len(<<>>) = 0 /\ 1..0 = {}
  BY EmptySeq DEF Texts
<1>2. PICK e : e = <<>>
  OBVIOUS
<1>3. 1..Len(e) = {}
  BY <1>1, <1>2
<1>4. Clean(e) /\ ~EmptyIn(e)
  BY <1>3 DEF Clean, EmptyIn
<1>5. Parted(e)
  BY <1>2 DEF Parted
<1> QED
  BY <1>1, <1>2, <1>4, <1>5

(* What the words of a text tell of it. *)
WordsOf(t, w, g) ==
    /\ w \in Seq(Texts) /\ g \in {Gap, "word"}
    /\ g = Gap <=> Parted(t)
    /\ AllClean(w)
    /\ Holes(w) <=> EmptyIn(t)
    /\ g # Gap => w # <<>> /\ w[Len(w)] # <<>>

(* A character keeps what the words tell of the text.                      *)
LEMMA WordsNext ==
    ASSUME NEW t \in Texts, NEW w, NEW g, WordsOf(t, w, g), NEW c \in Letters
    PROVE  WordsOf(Append(t, c), More(w, g, c, Blank), Then(g, c, Blank))
<1>1. PICK m : m = More(w, g, c, Blank)
  OBVIOUS
<1>2. PICK h : h = Then(g, c, Blank)
  OBVIOUS
<1>3. w \in Seq(Texts) /\ g \in {Gap, "word"} /\ AllClean(w)
  BY DEF WordsOf
<1>4. m \in Seq(Texts) /\ h \in {Gap, "word"}
  BY <1>1, <1>2, <1>3, MoreIs DEF Then
<1>5. PICK p : p = Append(t, c)
  OBVIOUS
<1>6. /\ EmptyIn(p) <=> EmptyIn(t) \/ (c = "=" /\ Parted(t))
      /\ Parted(p) <=> c \in Blank
  BY <1>5, AppendEmptyIn
<1>7. /\ g = Gap <=> Parted(t)
      /\ Holes(w) <=> EmptyIn(t)
      /\ g # Gap => w # <<>> /\ w[Len(w)] # <<>>
  BY DEF WordsOf
<1>8. CASE c = " " \/ (c = "=" /\ g # Gap)
  <2>1. m = w /\ h = Gap /\ c \in Blank
    BY <1>1, <1>2, <1>8 DEF More, Then, Blank
  <2>2. EmptyIn(p) <=> EmptyIn(t)
    BY <1>6, <1>7, <1>8
  <2> QED
    BY <1>1, <1>2, <1>3, <1>4, <1>5, <1>6, <1>7, <2>1, <2>2 DEF WordsOf
<1>9. CASE c = "=" /\ g = Gap
  <2>1. m = Append(w, <<>>) /\ h = Gap /\ c \in Blank
    BY <1>1, <1>2, <1>9 DEF More, Then, Blank
  <2>2. EmptyIn(p)
    BY <1>6, <1>7, <1>9
  <2>3. <<>> \in Texts /\ Clean(<<>>)
    BY Nothing
  <2>4. AllClean(m) /\ Holes(m)
    BY <1>3, <2>1, <2>3, AppendWord
  <2> QED
    BY <1>1, <1>2, <1>4, <1>5, <1>6, <2>1, <2>2, <2>4 DEF WordsOf
<1>10. CASE c \notin Blank
  <2>1. c # " " /\ c # "=" /\ h = "word" /\ h # Gap
    BY <1>2, <1>10 DEF Blank, Then, Gap
  <2>2. (EmptyIn(p) <=> EmptyIn(t)) /\ ~Parted(p)
    BY <1>6, <1>10, <2>1
  <2>3. AllClean(m) /\ (Holes(m) <=> Holes(w)) /\ m # <<>> /\ m[Len(m)] # <<>>
    <3>1. CASE g = Gap
      <4>1. m = Append(w, <<c>>)
        BY <1>1, <1>10, <2>1, <3>1 DEF More
      <4>2. PICK v : v = <<c>>
        OBVIOUS
      <4>3. v \in Texts /\ v # <<>> /\ Len(v) = 1 /\ v[1] = c
        BY <4>2, Single
      <4>4. Clean(v)
        BY <1>10, <4>3 DEF Clean
      <4>5. AllClean(m) /\ (Holes(m) <=> Holes(w))
        BY <1>3, <4>1, <4>2, <4>3, <4>4, AppendWord
      <4>6. Len(m) = Len(w) + 1 /\ m[Len(w) + 1] = v /\ m # <<>>
        BY <1>3, <4>1, <4>2, <4>3, AppendProperties
      <4> QED
        BY <4>3, <4>5, <4>6
    <3>2. CASE g # Gap
      <4>1. m = Extend(w, <<c>>)
        BY <1>1, <1>10, <2>1, <3>2 DEF More
      <4>2. w # <<>> /\ w[Len(w)] # <<>>
        BY <1>7, <3>2
      <4>3. (Holes(m) <=> Holes(w)) /\ AllClean(m)
        BY <1>3, <1>10, <4>1, <4>2, ExtendHoles
      <4>4. Len(m) = Len(w) /\ m[Len(w)] # <<>> /\ Len(w) \in 1..Len(w)
        BY <1>3, <4>1, <4>2, ExtendWord
      <4>5. m # <<>>
        BY <4>4, EmptySeq
      <4> QED
        BY <4>3, <4>4, <4>5
    <3> QED
      BY <3>1, <3>2
  <2> QED
    BY <1>1, <1>2, <1>4, <1>5, <1>7, <2>1, <2>2, <2>3 DEF WordsOf
<1> QED
  BY <1>3, <1>8, <1>9, <1>10 DEF Blank

(* So they tell it of every text.                                          *)
LEMMA WordsAre ==
    ASSUME NEW t \in Texts
    PROVE  WordsOf(t, W(t), G(t))
<1> DEFINE T == {s \in Texts : WordsOf(s, W(s), G(s))}
<1>1. <<>> \in T
  <2>1. <<>> \in Texts /\ Parted(<<>>) /\ ~EmptyIn(<<>>)
    BY Nothing
  <2>2. AllClean(<<>>) /\ ~Holes(<<>>) /\ <<>> \in Seq(Texts)
    BY DEF AllClean, Holes
  <2> QED
    BY <2>1, <2>2, WEmpty DEF WordsOf
<1>2. ASSUME NEW s \in Texts, s \in T, NEW c \in Letters PROVE Append(s, c) \in T
  <2>1. PICK w : w = W(s)
    OBVIOUS
  <2>2. PICK g : g = G(s)
    OBVIOUS
  <2>3. WordsOf(s, w, g)
    BY <1>2, <2>1, <2>2
  <2>4. WordsOf(Append(s, c), More(w, g, c, Blank), Then(g, c, Blank))
    BY <2>3, WordsNext
  <2>5. Append(s, c) \in Texts /\ W(Append(s, c)) = More(w, g, c, Blank)
        /\ G(Append(s, c)) = Then(g, c, Blank)
    BY <2>1, <2>2, WNext
  <2> QED
    BY <2>4, <2>5
<1>3. \A s \in Texts : s \in T
  <2> HIDE DEF T
  <2> QED
    BY <1>1, <1>2, FromEmpty DEF Texts
<1> QED
  BY <1>3

(* A word behind a separator, and the separator behind a word.             *)
LEMMA WBlank ==
    ASSUME NEW t \in Texts
    PROVE  W(Append(t, " ")) = W(t) /\ G(Append(t, " ")) = Gap
<1>1. " " \in Letters /\ " " \in Blank
  BY DEF Letters, Characters, Blank
<1>2. /\ W(Append(t, " ")) = More(W(t), G(t), " ", Blank)
      /\ G(Append(t, " ")) = Then(G(t), " ", Blank)
  BY <1>1, WNext
<1> QED
  BY <1>1, <1>2 DEF More, Then

(* A clean word behind a gap is one word more.                             *)
LEMMA WWord ==
    ASSUME NEW t \in Texts, G(t) = Gap, NEW w \in Texts, Clean(w), w # <<>>
    PROVE  t \o w \in Texts /\ W(t \o w) = Append(W(t), w) /\ G(t \o w) = "word"
<1>1. PICK a : a = W(t)
  OBVIOUS
<1>2. a \in Seq(Texts)
  BY <1>1, WordsAre DEF WordsOf
<1> DEFINE Good(s) == t \o s \in Texts /\ W(t \o s) = Append(a, s) /\ G(t \o s) = "word"
           T == {s \in Texts : s # <<>> /\ Clean(s) => Good(s)}
<1>3. <<>> \in T
  BY Nothing
<1>4. ASSUME NEW s \in Texts, s \in T, NEW c \in Letters PROVE Append(s, c) \in T
  <2>1. SUFFICES ASSUME Clean(Append(s, c)) PROVE Append(s, c) \in Texts /\ Good(Append(s, c))
    BY <1>4, AppendProperties DEF Texts
  <2>2. Clean(s) /\ c \notin Blank /\ c # " "
    BY <2>1, AppendClean DEF Blank
  <2>3. PICK p : p = t \o s
    OBVIOUS
  <2>4. p \in Texts /\ Append(s, c) \in Texts
    BY <2>3, ConcatProperties, AppendProperties DEF Texts
  <2>5. t \o Append(s, c) = Append(p, c)
    BY <2>3, ConcatAppend DEF Texts
  <2>6. /\ Append(p, c) \in Texts /\ W(Append(p, c)) = More(W(p), G(p), c, Blank)
        /\ G(Append(p, c)) = Then(G(p), c, Blank)
    BY <2>4, WNext
  <2>7. G(p) \in {Gap, "word"}
    BY <2>4, WNext, <2>6, WordsAre DEF WordsOf
  <2>8. G(Append(p, c)) = "word"
    BY <2>2, <2>6, <2>7 DEF Then
  <2>9. W(Append(p, c)) = Append(a, Append(s, c))
    <3>1. CASE s = <<>>
      <4>1. p = t
        BY <2>3, <3>1, ConcatEmptySeq DEF Texts
      <4>2. More(a, Gap, c, Blank) = Append(a, <<c>>)
        BY <2>2 DEF More
      <4>3. Append(s, c) = <<c>>
        <5>1. Append(<<>>, c) = <<>> \o <<c>> /\ <<>> \o <<c>> = <<c>>
          BY Single, AppendIsConcat, ConcatEmptySeq DEF Texts
        <5> QED
          BY <3>1, <5>1
      <4> QED
        BY <1>1, <2>6, <4>1, <4>2, <4>3
    <3>2. CASE s # <<>>
      <4>1. W(p) = Append(a, s) /\ G(p) = "word"
        BY <1>4, <2>2, <2>3, <3>2
      <4>2. PICK u : u = Append(a, s)
        OBVIOUS
      <4>3. u \in Seq(Texts) /\ u # <<>> /\ Len(u) = Len(a) + 1
            /\ u[Len(a) + 1] = s /\ \A i \in 1..Len(a) : u[i] = a[i]
        BY <1>2, <4>2, AppendProperties
      <4>4. W(Append(p, c)) = Extend(u, <<c>>)
        BY <2>2, <2>6, <4>1, <4>2 DEF More, Gap
      <4>5. PICK e : e = Extend(u, <<c>>)
        OBVIOUS
      <4>6. /\ e \in Seq(Texts) /\ Len(e) = Len(u)
            /\ \A i \in 1..(Len(u) - 1) : e[i] = u[i]
            /\ e[Len(u)] = Append(u[Len(u)], c)
        BY <4>3, <4>5, ExtendWord
      <4>7. PICK d : d = Append(s, c)
        OBVIOUS
      <4>8. d \in Texts
        BY <2>4, <4>7
      <4>9. /\ Append(a, d) \in Seq(Texts) /\ Len(Append(a, d)) = Len(a) + 1
            /\ Append(a, d)[Len(a) + 1] = d /\ \A i \in 1..Len(a) : Append(a, d)[i] = a[i]
        BY <1>2, <4>8, AppendProperties
      <4>10. Len(a) \in Nat
        BY <1>2, LenProperties
      <4>11. \A i \in 1..Len(e) : e[i] = Append(a, d)[i]
        BY <4>3, <4>6, <4>7, <4>9, <4>10
      <4>12. e = Append(a, d)
        BY <4>3, <4>6, <4>9, <4>11, SeqEqual
      <4> QED
        BY <4>4, <4>5, <4>7, <4>12
    <3> QED
      BY <3>1, <3>2
  <2> QED
    BY <2>4, <2>5, <2>6, <2>8, <2>9
<1>5. \A s \in Texts : s \in T
  <2> HIDE DEF T
  <2> QED
    BY <1>3, <1>4, FromEmpty DEF Texts
<1> QED
  BY <1>1, <1>5

-----------------------------------------------------------------------------
(* Words put together again *)

(* The recursion of the library's FlattenSeq. *)
Flats(f, ss, n) == f = [i \in 1..n |-> IF i = 1 THEN ss[i] ELSE f[i - 1] \o ss[i]]

(* FlattenSeq's recursion has a function for each sequence.                *)
LEMMA FlatsExists ==
    ASSUME NEW ss
    PROVE  \A n \in Nat : \E f : Flats(f, ss, n)
<1> DEFINE T == {n \in Nat : \E f : Flats(f, ss, n)}
<1>1. 0 \in T
  <2>1. Flats([i \in 1..0 |-> <<>>], ss, 0)
    BY DEF Flats
  <2> QED
    BY <2>1
<1>2. ASSUME NEW n \in Nat, n \in T PROVE n + 1 \in T
  <2>1. PICK f : Flats(f, ss, n)
    BY <1>2
  <2>2. \A i \in 1..n : f[i] = IF i = 1 THEN ss[i] ELSE f[i - 1] \o ss[i]
    BY <2>1, Zenon DEF Flats
  <2> DEFINE last == IF n = 0 THEN ss[n + 1] ELSE f[n] \o ss[n + 1]
             g == [i \in 1..(n + 1) |-> IF i = n + 1 THEN last ELSE f[i]]
  <2>3. g[n + 1] = last /\ \A i \in 1..n : g[i] = f[i]
    <3> HIDE DEF last
    <3> QED
      OBVIOUS
  <2>a. n # 0 => n \in 1..n /\ n + 1 # 1
    OBVIOUS
  <2>4. \A i \in 1..(n + 1) : g[i] = IF i = 1 THEN ss[i] ELSE g[i - 1] \o ss[i]
    <3> HIDE DEF g
    <3> TAKE i \in 1..(n + 1)
    <3>1. CASE i = n + 1
      <4>1. CASE n = 0
        BY <2>3, <3>1, <4>1
      <4>2. CASE n # 0
        <5>1. last = f[n] \o ss[n + 1]
          BY <4>2
        <5> HIDE DEF last
        <5>2. i # 1 /\ i - 1 = n /\ g[n] = f[n] /\ g[i] = last
          BY <2>3, <2>a, <3>1, <4>2
        <5>3. g[i - 1] \o ss[i] = f[n] \o ss[n + 1]
          BY <3>1, <5>2
        <5> QED
          BY <5>1, <5>2, <5>3
      <4> QED
        BY <4>1, <4>2
    <3>2. CASE i # n + 1
      <4>1. i \in 1..n /\ (i = 1 \/ i - 1 \in 1..n)
        BY <3>2
      <4> QED
        BY <2>2, <2>3, <4>1
    <3> QED
      BY <3>1, <3>2
  <2>5. Flats(g, ss, n + 1)
    <3>1. g = [i \in 1..(n + 1) |-> g[i]]
      OBVIOUS
    <3> HIDE DEF g
    <3> QED
      BY <2>4, <3>1, Zenon DEF Flats
  <2> QED
    BY <2>5
<1>3. \A n \in Nat : n \in T
  <2> HIDE DEF T
  <2> QED
    BY <1>1, <1>2, FromZero
<1> QED
  BY <1>3

(* FlattenSeq takes its value from such a function.                        *)
LEMMA FlattenIs ==
    ASSUME NEW ss, NEW n \in Nat, n = Len(ss), n # 0
    PROVE  \E f : Flats(f, ss, n) /\ FlattenSeq(ss) = f[n]
<1> DEFINE f == CHOOSE f : Flats(f, ss, Len(ss))
<1>1. \E g : Flats(g, ss, Len(ss))
  BY FlatsExists
<1>2. Flats(f, ss, Len(ss))
  BY <1>1, Zenon
<1>3. Len(ss) # 0
  OBVIOUS
<1>4. FlattenSeq(ss) = f[Len(ss)]
  BY <1>3, Zenon DEF FlattenSeq, Flats
<1> QED
  BY <1>2, <1>4

SameUpTo(tt, ss, l) == \A i \in 1..l : ss[i] = tt[i]

(* Such functions agree as far as their sequences do.                      *)
LEMMA FlatsSame ==
    ASSUME NEW ss, NEW tt, NEW n \in Nat, NEW m \in Nat, NEW l \in Nat,
           l # 0, l <= n, l <= m, SameUpTo(tt, ss, l),
           NEW f, Flats(f, ss, n), NEW g, Flats(g, tt, m)
    PROVE  f[l] = g[l]
<1>c. \A i \in 1..l : ss[i] = tt[i]
  BY DEF SameUpTo
<1> DEFINE T == {j \in Nat : j \in 1..l => f[j] = g[j]}
<1>a. \A i \in 1..n : f[i] = IF i = 1 THEN ss[i] ELSE f[i - 1] \o ss[i]
  BY Zenon DEF Flats
<1>b. \A i \in 1..m : g[i] = IF i = 1 THEN tt[i] ELSE g[i - 1] \o tt[i]
  BY Zenon DEF Flats
<1>1. 0 \in T
  OBVIOUS
<1>2. ASSUME NEW j \in Nat, j \in T PROVE j + 1 \in T
  <2>1. SUFFICES ASSUME j + 1 <= l PROVE f[j + 1] = g[j + 1]
    OBVIOUS
  <2>2. j + 1 \in 1..n /\ j + 1 \in 1..m /\ (j + 1) - 1 = j /\ ss[j + 1] = tt[j + 1]
    BY <1>c, <2>1
  <2>3. CASE j = 0
    BY <1>a, <1>b, <2>2, <2>3
  <2>4. CASE j # 0
    <3>1. j + 1 # 1 /\ f[j] = g[j]
      BY <1>2, <2>1, <2>4
    <3> QED
      BY <1>a, <1>b, <2>2, <3>1
  <2> QED
    BY <2>3, <2>4
<1>3. \A j \in Nat : j \in T
  <2> HIDE DEF T
  <2> QED
    BY <1>1, <1>2, FromZero
<1> QED
  BY <1>3

(* FlattenSeq of one sequence more.                                        *)
LEMMA FlattenNext ==
    ASSUME NEW A, NEW ss \in Seq(Seq(A)), NEW s \in Seq(A),
           FlattenSeq(ss) \in Seq(A)
    PROVE  /\ FlattenSeq(Append(ss, s)) = Cat(FlattenSeq(ss), s)
           /\ FlattenSeq(Append(ss, s)) \in Seq(A)
<1>1. PICK tt : tt = Append(ss, s)
  OBVIOUS
<1>2. PICK n \in Nat : n = Len(ss)
  BY LenProperties
<1>3. /\ tt \in Seq(Seq(A)) /\ Len(tt) = n + 1 /\ tt[n + 1] = s
      /\ \A i \in 1..n : tt[i] = ss[i]
  BY <1>1, <1>2, AppendProperties
<1>4. n + 1 # 0 /\ n + 1 \in 1..(n + 1) /\ (n + 1) - 1 = n
  OBVIOUS
<1>5. PICK g : Flats(g, tt, n + 1) /\ FlattenSeq(tt) = g[n + 1]
  <2>1. n + 1 \in Nat /\ n + 1 = Len(tt) /\ n + 1 # 0
    BY <1>3, <1>4
  <2> QED
    BY <2>1, FlattenIs
<1>6. \A i \in 1..(n + 1) : g[i] = IF i = 1 THEN tt[i] ELSE g[i - 1] \o tt[i]
  BY <1>5, Zenon DEF Flats
<1>7. PICK r : r = FlattenSeq(ss)
  OBVIOUS
<1>8. FlattenSeq(tt) = r \o s
  <2>1. CASE n = 0
    <3>1. r = <<>>
      <4>1. ss = <<>>
        BY <1>2, <2>1, EmptySeq
      <4> QED
        BY <1>2, <1>7, <2>1, <4>1 DEF FlattenSeq
    <3>2. FlattenSeq(tt) = s
      BY <1>3, <1>4, <1>5, <1>6, <2>1
    <3>3. <<>> \o s = s
      BY ConcatEmptySeq
    <3> QED
      BY <3>1, <3>2, <3>3
  <2>2. CASE n # 0
    <3>1. PICK f : Flats(f, ss, n) /\ r = f[n]
      BY <1>2, <1>7, <2>2, FlattenIs
    <3>2. n <= n + 1 /\ n <= n /\ n \in 1..n /\ n + 1 \in Nat
      BY <2>2
    <3>a. \A i \in 1..n : ss[i] = tt[i]
      BY <1>3
    <3>3. f[n] = g[n]
      <4>1. Flats(f, ss, n) /\ Flats(g, tt, n + 1)
        BY <1>5, <3>1
      <4>2. PICK m \in Nat : m = n + 1
        OBVIOUS
      <4>3. n \in Nat /\ n # 0 /\ n <= n /\ n <= m
        BY <2>2, <4>2
      <4>4. Flats(f, ss, n) /\ Flats(g, tt, m)
        BY <4>1, <4>2
      <4>5. SameUpTo(tt, ss, n)
        BY <3>a DEF SameUpTo
      <4> QED
        BY <4>3, <4>4, <4>5, FlatsSame
    <3>4. g[n + 1] = g[n] \o tt[n + 1]
      <4>1. n + 1 # 1
        BY <2>2
      <4> QED
        BY <1>4, <1>6, <4>1
    <3> QED
      BY <1>3, <1>5, <3>1, <3>3, <3>4
  <2> QED
    BY <2>1, <2>2
<1>9. r \o s \in Seq(A)
  BY <1>7, ConcatProperties
<1>10. Cat(r, s) = r \o s
  BY Zenon DEF Cat
<1> QED
  BY <1>1, <1>7, <1>8, <1>9, <1>10

(* The same for texts.                                                     *)
LEMMA FlattenText ==
    /\ FlattenSeq(<<>>) = <<>>
    /\ \A ss \in Seq(Texts) : FlattenSeq(ss) \in Texts
    /\ \A ss \in Seq(Texts) : \A s \in Texts :
          FlattenSeq(Append(ss, s)) = Cat(FlattenSeq(ss), s)
<1>1. FlattenSeq(<<>>) = <<>>
  <2>1. Len(<<>>) = 0
    OBVIOUS
  <2> QED
    BY <2>1, Zenon DEF FlattenSeq
<1> DEFINE T == {ss \in Seq(Texts) : FlattenSeq(ss) \in Texts}
<1>2. <<>> \in T
  <2>1. <<>> \in Seq(Texts) /\ <<>> \in Texts
    BY Nothing
  <2> QED
    BY <1>1, <2>1
<1>3. ASSUME NEW ss \in Seq(Texts), ss \in T, NEW s \in Texts PROVE Append(ss, s) \in T
  <2>1. ss \in Seq(Seq(Letters)) /\ s \in Seq(Letters) /\ FlattenSeq(ss) \in Seq(Letters)
    BY <1>3 DEF Texts
  <2>2. FlattenSeq(Append(ss, s)) \in Seq(Letters)
    BY <2>1, FlattenNext
  <2>3. Append(ss, s) \in Seq(Texts)
    BY AppendProperties
  <2> QED
    BY <2>2, <2>3 DEF Texts
<1>4. \A ss \in Seq(Texts) : ss \in T
  <2> HIDE DEF T
  <2> QED
    BY <1>2, <1>3, FromEmpty
<1>5. ASSUME NEW ss \in Seq(Texts), NEW s \in Texts
      PROVE  FlattenSeq(Append(ss, s)) = Cat(FlattenSeq(ss), s)
  <2>1. ss \in Seq(Seq(Letters)) /\ s \in Seq(Letters) /\ FlattenSeq(ss) \in Seq(Letters)
    BY <1>4 DEF Texts
  <2> QED
    BY <2>1, FlattenNext
<1> QED
  BY <1>1, <1>4, <1>5

(* Something in front of every word, or behind it. *)
Fore(a, ws) == [j \in DOMAIN ws |-> a \o ws[j]]
Aft(ws, a) == [j \in DOMAIN ws |-> ws[j] \o a]

(* Fore and Aft of one word more.                                          *)
LEMMA MapAppend ==
    ASSUME NEW a \in Texts, NEW ws \in Seq(Texts), NEW w \in Texts
    PROVE  /\ Fore(a, ws) \in Seq(Texts) /\ Aft(ws, a) \in Seq(Texts)
           /\ Fore(a, Put(ws, w)) = Put(Fore(a, ws), Cat(a, w))
           /\ Aft(Put(ws, w), a) = Put(Aft(ws, a), Cat(w, a))
           /\ Cat(a, w) \in Texts /\ Cat(w, a) \in Texts
<1>1. PICK n \in Nat : n = Len(ws) /\ DOMAIN ws = 1..n
  BY LenProperties
<1>2. \A j \in 1..n : ws[j] \in Texts
  BY <1>1, ElementOfSeq
<1>3. \A j \in 1..n : a \o ws[j] \in Texts /\ ws[j] \o a \in Texts
  BY <1>2, ConcatProperties DEF Texts
<1>4. PICK f : f = Fore(a, ws)
  OBVIOUS
<1>5. PICK g : g = Aft(ws, a)
  OBVIOUS
<1>6. /\ f \in Seq(Texts) /\ Len(f) = n /\ g \in Seq(Texts) /\ Len(g) = n
      /\ \A j \in 1..n : f[j] = a \o ws[j] /\ g[j] = ws[j] \o a
  BY <1>1, <1>3, <1>4, <1>5 DEF Fore, Aft
<1>7. PICK u : u = Append(ws, w)
  OBVIOUS
<1>8. /\ u \in Seq(Texts) /\ Len(u) = n + 1 /\ DOMAIN u = 1..(n + 1)
      /\ u[n + 1] = w /\ \A j \in 1..n : u[j] = ws[j]
  <2>1. /\ u \in Seq(Texts) /\ Len(u) = n + 1
        /\ u[n + 1] = w /\ \A j \in 1..n : u[j] = ws[j]
    BY <1>1, <1>7, AppendProperties
  <2> QED
    BY <2>1, LenProperties
<1>9. Cat(a, w) = a \o w /\ Cat(w, a) = w \o a
  BY Zenon DEF Cat
<1>10. PICK x : x = Cat(a, w)
  OBVIOUS
<1>11. PICK y : y = Cat(w, a)
  OBVIOUS
<1>12. x \in Texts /\ y \in Texts
  <2>1. a \o w \in Texts /\ w \o a \in Texts
    BY ConcatProperties DEF Texts
  <2> QED
    BY <1>9, <1>10, <1>11, <2>1
<1>13. Fore(a, u) = Append(f, x)
  <2>1. /\ Append(f, x) \in Seq(Texts) /\ Len(Append(f, x)) = n + 1
        /\ Append(f, x)[n + 1] = x /\ \A j \in 1..n : Append(f, x)[j] = f[j]
    BY <1>6, <1>12, AppendProperties
  <2>2. PICK e : e = Fore(a, u)
    OBVIOUS
  <2>3. e = [j \in 1..(n + 1) |-> a \o u[j]]
    BY <1>8, <2>2 DEF Fore
  <2>4. \A j \in 1..(n + 1) : a \o u[j] \in Texts
    <3>1. \A j \in 1..(n + 1) : u[j] \in Texts
      BY <1>8, ElementOfSeq
    <3> QED
      BY <3>1, ConcatProperties DEF Texts
  <2>5. e \in Seq(Texts) /\ Len(e) = n + 1
    BY <2>3, <2>4
  <2>6. \A j \in 1..(n + 1) : e[j] = Append(f, x)[j]
    <3> TAKE j \in 1..(n + 1)
    <3>1. e[j] = a \o u[j]
      BY <2>3
    <3>2. CASE j = n + 1
      BY <1>8, <1>9, <1>10, <2>1, <3>1, <3>2
    <3>3. CASE j # n + 1
      <4>1. j \in 1..n
        BY <3>3
      <4> QED
        BY <1>6, <1>8, <2>1, <3>1, <4>1
    <3> QED
      BY <3>2, <3>3
  <2> QED
    BY <2>1, <2>2, <2>5, <2>6, SeqEqual
<1>14. Aft(u, a) = Append(g, y)
  <2>1. /\ Append(g, y) \in Seq(Texts) /\ Len(Append(g, y)) = n + 1
        /\ Append(g, y)[n + 1] = y /\ \A j \in 1..n : Append(g, y)[j] = g[j]
    BY <1>6, <1>12, AppendProperties
  <2>2. PICK e : e = Aft(u, a)
    OBVIOUS
  <2>3. e = [j \in 1..(n + 1) |-> u[j] \o a]
    BY <1>8, <2>2 DEF Aft
  <2>4. \A j \in 1..(n + 1) : u[j] \o a \in Texts
    <3>1. \A j \in 1..(n + 1) : u[j] \in Texts
      BY <1>8, ElementOfSeq
    <3> QED
      BY <3>1, ConcatProperties DEF Texts
  <2>5. e \in Seq(Texts) /\ Len(e) = n + 1
    BY <2>3, <2>4
  <2>6. \A j \in 1..(n + 1) : e[j] = Append(g, y)[j]
    <3> TAKE j \in 1..(n + 1)
    <3>1. e[j] = u[j] \o a
      BY <2>3
    <3>2. CASE j = n + 1
      BY <1>8, <1>9, <1>11, <2>1, <3>1, <3>2
    <3>3. CASE j # n + 1
      <4>1. j \in 1..n
        BY <3>3
      <4> QED
        BY <1>6, <1>8, <2>1, <3>1, <4>1
    <3> QED
      BY <3>2, <3>3
  <2> QED
    BY <2>1, <2>2, <2>5, <2>6, SeqEqual
<1>15. Fore(a, Put(ws, w)) = Put(Fore(a, ws), Cat(a, w))
  BY <1>4, <1>7, <1>10, <1>13, Zenon DEF Put
<1>16. Aft(Put(ws, w), a) = Put(Aft(ws, a), Cat(w, a))
  BY <1>5, <1>7, <1>11, <1>14, Zenon DEF Put
<1> QED
  BY <1>4, <1>5, <1>6, <1>10, <1>11, <1>12, <1>15, <1>16

(* What concatenation satisfies, with its name.                            *)
LEMMA CatIs ==
    ASSUME NEW S, NEW p \in Seq(S), NEW q \in Seq(S)
    PROVE  /\ Cat(p, q) \in Seq(S)
           /\ \A r \in Seq(S) : Cat(p, Cat(q, r)) = Cat(Cat(p, q), r)
           /\ \A c \in S : Cat(p, Put(q, c)) = Put(Cat(p, q), c)
           /\ Cat(p, <<>>) = p /\ Cat(<<>>, p) = p
<1>1. p \o q \in Seq(S) /\ p \o <<>> = p /\ <<>> \o p = p
  BY ConcatProperties, ConcatEmptySeq
<1>2. \A r \in Seq(S) : p \o (q \o r) = (p \o q) \o r
  BY ConcatAssociative
<1>3. \A c \in S : p \o Append(q, c) = Append(p \o q, c)
  BY ConcatAppend
<1> QED
  BY <1>1, <1>2, <1>3, Zenon DEF Cat, Put

(* A character between two texts belongs to either.                        *)
LEMMA ConcatThree ==
    ASSUME NEW p \in Texts, NEW c \in Letters, NEW w \in Texts
    PROVE  /\ Cat(p, Cat(<<c>>, w)) = Cat(Append(p, c), w)
           /\ Cat(p, Cat(w, <<c>>)) = Append(Cat(p, w), c)
           /\ Cat(p, w) \in Texts /\ Append(p, c) \in Texts
<1>1. <<c>> \in Seq(Letters) /\ p \in Seq(Letters) /\ w \in Seq(Letters)
  BY DEF Texts
<1>2. Append(p, c) = p \o <<c>> /\ Append(p \o w, c) = (p \o w) \o <<c>>
  BY <1>1, AppendIsConcat, ConcatProperties
<1>3. p \o (<<c>> \o w) = (p \o <<c>>) \o w /\ p \o (w \o <<c>>) = (p \o w) \o <<c>>
  BY <1>1, ConcatAssociative
<1>4. p \o w \in Seq(Letters) /\ Append(p, c) \in Seq(Letters)
  BY <1>1, ConcatProperties, AppendProperties
<1>5. p \o (<<c>> \o w) = Append(p, c) \o w /\ p \o (w \o <<c>>) = Append(p \o w, c)
  BY <1>2, <1>3
<1> QED
  BY <1>4, <1>5, Zenon DEF Cat, Texts

(* What Spaced and Closed make of one word more.                           *)
LEMMA Together ==
    /\ Spaced(<<>>) = <<>> /\ Closed(<<>>) = <<>>
    /\ \A ws \in Seq(Texts) : Spaced(ws) \in Texts /\ Closed(ws) \in Texts
    /\ \A ws \in Seq(Texts) : \A w \in Texts :
          /\ Spaced(Append(ws, w)) = Cat(Append(Spaced(ws), " "), w)
          /\ Closed(Append(ws, w)) = Append(Cat(Closed(ws), w), " ")
<1>1. PICK b : b = <<" ">>
  OBVIOUS
<1>2. " " \in Letters /\ b \in Texts
  BY <1>1, Single DEF Letters, Characters
<1>3. \A ws : Spaced(ws) = FlattenSeq(Fore(b, ws))
              /\ Closed(ws) = FlattenSeq(Aft(ws, b))
  BY <1>1, Zenon DEF Spaced, Closed, Fore, Aft
<1>4. Fore(b, <<>>) = <<>> /\ Aft(<<>>, b) = <<>>
  BY DEF Fore, Aft
<1>5. ASSUME NEW ws \in Seq(Texts)
      PROVE  Spaced(ws) \in Texts /\ Closed(ws) \in Texts
  <2>1. Fore(b, ws) \in Seq(Texts) /\ Aft(ws, b) \in Seq(Texts)
    BY <1>2, MapAppend
  <2> QED
    BY <1>3, <2>1, FlattenText
<1>6. ASSUME NEW ws \in Seq(Texts), NEW w \in Texts
      PROVE  /\ Spaced(Append(ws, w)) = Cat(Append(Spaced(ws), " "), w)
             /\ Closed(Append(ws, w)) = Append(Cat(Closed(ws), w), " ")
  <2>1. PICK f \in Seq(Texts) : f = Fore(b, ws)
    BY <1>2, MapAppend
  <2>2. PICK g \in Seq(Texts) : g = Aft(ws, b)
    BY <1>2, MapAppend
  <2>3. PICK x \in Texts : x = Cat(b, w)
    BY <1>2, MapAppend
  <2>4. PICK y \in Texts : y = Cat(w, b)
    BY <1>2, MapAppend
  <2>5. Fore(b, Append(ws, w)) = Append(f, x) /\ Aft(Append(ws, w), b) = Append(g, y)
    <3>a. b \in Texts
      BY <1>2
    <3>1. Fore(b, Put(ws, w)) = Put(Fore(b, ws), Cat(b, w))
      BY <3>a, MapAppend
    <3>2. Aft(Put(ws, w), b) = Put(Aft(ws, b), Cat(w, b))
      BY <3>a, MapAppend
    <3>3. Fore(b, Put(ws, w)) = Put(f, x) /\ Aft(Put(ws, w), b) = Put(g, y)
      BY <2>1, <2>2, <2>3, <2>4, <3>1, <3>2
    <3> QED
      BY <3>3, Zenon DEF Put
  <2>6. PICK s \in Texts : s = Spaced(ws)
    BY <1>5
  <2>7. PICK t \in Texts : t = Closed(ws)
    BY <1>5
  <2>8. FlattenSeq(f) = s /\ FlattenSeq(g) = t
    BY <1>3, <2>1, <2>2, <2>6, <2>7
  <2>9. FlattenSeq(Append(f, x)) = Cat(s, x)
    BY <2>8, FlattenText
  <2>10. FlattenSeq(Append(g, y)) = Cat(t, y)
    BY <2>8, FlattenText
  <2>11. Cat(s, Cat(<<" ">>, w)) = Cat(Append(s, " "), w)
    BY <1>2, ConcatThree
  <2>12. Cat(t, Cat(w, <<" ">>)) = Append(Cat(t, w), " ")
    BY <1>2, ConcatThree
  <2>13. Spaced(Append(ws, w)) = Cat(Append(s, " "), w)
    BY <1>1, <1>3, <2>3, <2>5, <2>9, <2>11
  <2>14. Closed(Append(ws, w)) = Append(Cat(t, w), " ")
    BY <1>1, <1>3, <2>4, <2>5, <2>10, <2>12
  <2> QED
    BY <2>6, <2>7, <2>13, <2>14
<1>7. Spaced(<<>>) = <<>> /\ Closed(<<>>) = <<>>
  BY <1>3, <1>4, FlattenText
<1> QED
  BY <1>5, <1>6, <1>7

(* Words that stand for themselves. *)
Whole(ws) == ws \in Seq(Texts) /\ AllClean(ws) /\ ~Holes(ws)

(* Whole of one word more.                                                 *)
LEMMA WholeAppend ==
    ASSUME NEW ws \in Seq(Texts), NEW w \in Texts
    PROVE  Whole(Append(ws, w)) <=> Whole(ws) /\ Clean(w) /\ w # <<>>
<1>1. /\ Append(ws, w) \in Seq(Texts)
      /\ AllClean(Append(ws, w)) <=> AllClean(ws) /\ Clean(w)
      /\ Holes(Append(ws, w)) <=> Holes(ws) \/ w = <<>>
  BY AppendWord
<1> QED
  BY <1>1 DEF Whole

(* Words with a blank before each are found again, behind any text.        *)
LEMMA WSpaced ==
    ASSUME NEW t \in Texts
    PROVE  \A ws \in Seq(Texts) : Whole(ws) =>
              /\ Cat(t, Spaced(ws)) \in Texts
              /\ W(Cat(t, Spaced(ws))) = Cat(W(t), ws)
              /\ ws # <<>> => G(Cat(t, Spaced(ws))) = "word"
<1> DEFINE Good(ws) == /\ Cat(t, Spaced(ws)) \in Texts
                       /\ W(Cat(t, Spaced(ws))) = Cat(W(t), ws)
                       /\ ws # <<>> => G(Cat(t, Spaced(ws))) = "word"
           T == {ws \in Seq(Texts) : Whole(ws) => Good(ws)}
<1>0. W(t) \in Seq(Texts)
  BY WordsAre DEF WordsOf
<1>1. <<>> \in T
  <2>1. Cat(t, <<>>) = t
    BY ConcatEmptySeq DEF Cat, Texts
  <2>2. PICK w \in Seq(Texts) : w = W(t)
    BY <1>0
  <2>3. Cat(w, <<>>) = w
    BY ConcatEmptySeq DEF Cat
  <2>4. <<>> \in Seq(Texts)
    OBVIOUS
  <2> QED
    BY <2>1, <2>2, <2>3, <2>4, Together
<1>2. ASSUME NEW ws \in Seq(Texts), ws \in T, NEW w \in Texts PROVE Append(ws, w) \in T
  <2>1. SUFFICES ASSUME Whole(Append(ws, w))
                 PROVE  Append(ws, w) \in Seq(Texts) /\ Good(Append(ws, w))
    BY AppendProperties
  <2>2. Whole(ws) /\ Clean(w) /\ w # <<>>
    BY <2>1, WholeAppend
  <2>3. PICK s \in Texts : s = Spaced(ws)
    BY Together
  <2>4. Good(ws)
    BY <1>2, <2>2
  <2>5. PICK p \in Texts : p = Cat(t, s)
    BY <2>3, <2>4
  <2>6. PICK a \in Seq(Texts) : a = W(t)
    BY <1>0
  <2>7. W(p) = Cat(a, ws)
    BY <2>3, <2>4, <2>5, <2>6
  <2>8. PICK q : q = Append(p, " ")
    OBVIOUS
  <2>9. q \in Texts /\ W(q) = Cat(a, ws) /\ G(q) = Gap
    <3>1. " " \in Letters
      BY DEF Letters, Characters
    <3>2. Append(p, " ") \in Texts
      BY <3>1, ConcatThree
    <3> QED
      BY <2>7, <2>8, <3>2, WBlank
  <2>10. q \o w \in Texts /\ W(q \o w) = Append(W(q), w) /\ G(q \o w) = "word"
    BY <2>2, <2>9, WWord
  <2>11. Cat(t, Spaced(Append(ws, w))) = q \o w
    <3>1. Spaced(Append(ws, w)) = Cat(Append(s, " "), w)
      BY <2>3, Together
    <3>2. " " \in Letters
      BY DEF Letters, Characters
    <3>3. PICK b : b = Append(s, " ")
      OBVIOUS
    <3>4. b \in Seq(Letters) /\ t \in Seq(Letters) /\ w \in Seq(Letters) /\ s \in Seq(Letters)
      BY <3>2, <3>3, AppendProperties DEF Texts
    <3>5. Cat(t, Cat(b, w)) = Cat(Cat(t, b), w)
      BY <3>4, CatIs
    <3>6. Cat(t, b) = Append(p, " ")
      <4>1. PICK c \in Letters : c = " "
        BY <3>2
      <4>2. Cat(t, Put(s, c)) = Put(Cat(t, s), c)
        BY <3>4, CatIs
      <4> QED
        BY <2>5, <3>3, <4>1, <4>2, Zenon DEF Put
    <3>7. Cat(q, w) = q \o w
      BY Zenon DEF Cat
    <3> QED
      BY <2>5, <2>8, <3>1, <3>3, <3>5, <3>6, <3>7
  <2>a. PICK e : e = Cat(a, ws)
    OBVIOUS
  <2>12. Append(e, w) = Cat(a, Append(ws, w))
    <3>1. Cat(a, Put(ws, w)) = Put(Cat(a, ws), w)
      BY CatIs
    <3> QED
      BY <2>a, <3>1, Zenon DEF Put
  <2>13. Append(ws, w) \in Seq(Texts)
    BY AppendProperties
  <2> QED
    BY <2>6, <2>9, <2>10, <2>11, <2>a, <2>12, <2>13
<1>3. \A ws \in Seq(Texts) : ws \in T
  <2> HIDE DEF T
  <2> QED
    BY <1>1, <1>2, FromEmpty
<1> QED
  BY <1>3

(* Words with a blank behind each are found again.                         *)
LEMMA WClosed ==
    \A ws \in Seq(Texts) : Whole(ws) =>
        /\ Closed(ws) \in Texts
        /\ W(Closed(ws)) = ws /\ G(Closed(ws)) = Gap
<1> DEFINE Good(ws) == /\ Closed(ws) \in Texts
                       /\ W(Closed(ws)) = ws /\ G(Closed(ws)) = Gap
           T == {ws \in Seq(Texts) : Whole(ws) => Good(ws)}
<1>1. <<>> \in T
  <2>1. <<>> \in Seq(Texts) /\ <<>> \in Texts
    BY Nothing
  <2> QED
    BY <2>1, Together, WEmpty
<1>2. ASSUME NEW ws \in Seq(Texts), ws \in T, NEW w \in Texts PROVE Append(ws, w) \in T
  <2>1. SUFFICES ASSUME Whole(Append(ws, w))
                 PROVE  Append(ws, w) \in Seq(Texts) /\ Good(Append(ws, w))
    BY AppendProperties
  <2>2. Whole(ws) /\ Clean(w) /\ w # <<>>
    BY <2>1, WholeAppend
  <2>3. PICK s \in Texts : s = Closed(ws)
    BY Together
  <2>4. W(s) = ws /\ G(s) = Gap
    BY <1>2, <2>2, <2>3
  <2>5. s \o w \in Texts /\ W(s \o w) = Append(W(s), w)
    BY <2>2, <2>4, WWord
  <2>6. PICK q \in Texts : q = s \o w
    BY <2>5
  <2>7. W(Append(q, " ")) = Append(ws, w) /\ G(Append(q, " ")) = Gap
    BY <2>4, <2>5, <2>6, WBlank
  <2>8. Closed(Append(ws, w)) = Append(q, " ")
    <3>1. Closed(Append(ws, w)) = Append(Cat(s, w), " ")
      BY <2>3, Together
    <3>2. Cat(s, w) = s \o w
      BY Zenon DEF Cat
    <3> QED
      BY <2>6, <3>1, <3>2
  <2>9. Append(ws, w) \in Seq(Texts)
    BY AppendProperties
  <2>10. Closed(Append(ws, w)) \in Texts
    BY <2>9, Together
  <2> QED
    BY <2>7, <2>8, <2>9, <2>10
<1>3. \A ws \in Seq(Texts) : ws \in T
  <2> HIDE DEF T
  <2> QED
    BY <1>1, <1>2, FromEmpty
<1> QED
  BY <1>3

-----------------------------------------------------------------------------
(* Where words begin *)

Space == " "

(* Of a text without "=": TokensAppend, for blanks only. *)
LEMMA PlainStep ==
    ASSUME NEW p \in Texts, NEW c \in Letters, c # "="
    PROVE  /\ c = Space => Ts(Append(p, c), Blank) = Ts(p, Blank) /\ At(Append(p, c), Blank) = Gap
           /\ c # Space => At(Append(p, c), Blank) = "word"
           /\ c # Space /\ At(p, Blank) = Gap =>
                 Ts(Append(p, c), Blank) = Append(Ts(p, Blank), <<c>>)
           /\ c # Space /\ At(p, Blank) # Gap =>
                 Ts(Append(p, c), Blank) = Extend(Ts(p, Blank), <<c>>)
<1>1. PICK at : at = At(p, Blank)
  OBVIOUS
<1>2. PICK ts : ts = Ts(p, Blank)
  OBVIOUS
<1>3. /\ At(Append(p, c), Blank) = Then(at, c, Blank)
      /\ Ts(Append(p, c), Blank) = More(ts, at, c, Blank)
  BY <1>1, <1>2, TokensAppend
<1>4. c = Space <=> c \in Blank
  BY DEF Blank, Space
<1>5. Then(at, c, Blank) = IF c = Space THEN Gap ELSE "word"
  BY <1>4 DEF Then, Space
<1>6. More(ts, at, c, Blank) = IF c = Space THEN ts
                               ELSE IF at = Gap THEN Append(ts, <<c>>) ELSE Extend(ts, <<c>>)
  BY <1>4 DEF More, Space
<1> QED
  BY <1>1, <1>2, <1>3, <1>5, <1>6

Begins(p, n) == {j \in 1..n : p[j] # Space /\ (j = 1 \/ p[j - 1] = Space)}
Index(p, n) == Cardinality(Begins(p, n))
Run(p, b, e) == \A j \in b..e : p[j] # Space

(* The token that begins at b. *)
Spelt(p, ts, b, e) ==
    /\ ts[Index(p, b)] = SubSeq(p, b, e) /\ Run(p, b, e)
    /\ e = Len(p) \/ p[e + 1] = Space

Spelled(p, ts, at) ==
    /\ at = Gap <=> p[Len(p)] = Space
    /\ Len(ts) = Index(p, Len(p))
    /\ \A b \in Begins(p, Len(p)) : \E e \in b..Len(p) : Spelt(p, ts, b, e)

(* Of the words counted up to where they begin, a later one has more.      *)
LEMMA IndexIs ==
    ASSUME NEW p, NEW n \in Nat
    PROVE  /\ Index(p, n) \in Nat
           /\ \A b \in Begins(p, n) :
                 /\ b \in 1..n /\ b \in Begins(p, b)
                 /\ Index(p, b) \in 1..Index(p, n)
                 /\ \A m \in Begins(p, n) : b < m => Index(p, b) < Index(p, m)
<1>1. ASSUME NEW i \in Nat PROVE IsFiniteSet(Begins(p, i)) /\ Index(p, i) \in Nat
  <2>1. IsFiniteSet(1..i)
    BY FS_Interval
  <2>2. Begins(p, i) \in SUBSET (1..i)
    BY DEF Begins
  <2>3. IsFiniteSet(Begins(p, i))
    BY <2>1, <2>2, FS_Subset
  <2> QED
    BY <2>3, FS_CardinalityType DEF Index
<1>2. ASSUME NEW i \in Nat, NEW j \in Nat, i <= j
      PROVE  Begins(p, i) \in SUBSET Begins(p, j) /\ Index(p, i) <= Index(p, j)
  <2>1. Begins(p, i) \in SUBSET Begins(p, j)
    BY <1>2 DEF Begins
  <2> QED
    BY <1>1, <2>1, FS_Subset DEF Index
<1>3. ASSUME NEW b \in Begins(p, n)
      PROVE  /\ b \in 1..n /\ b \in Begins(p, b) /\ b \in Nat
             /\ Index(p, b) \in 1..Index(p, n)
  <2>1. b \in 1..n /\ b \in Begins(p, b) /\ b \in Nat
    BY DEF Begins
  <2>2. Index(p, b) \in Nat /\ Index(p, b) # 0
    <3>1. IsFiniteSet(Begins(p, b)) /\ Begins(p, b) # {}
      BY <1>1, <2>1
    <3>2. Cardinality(Begins(p, b)) # 0
      BY <3>1, FS_EmptySet
    <3> QED
      BY <1>1, <2>1, <3>2 DEF Index
  <2>3. Index(p, b) <= Index(p, n) /\ Index(p, n) \in Nat
    BY <1>1, <1>2, <2>1
  <2> QED
    BY <2>1, <2>2, <2>3
<1>4. ASSUME NEW b \in Begins(p, n), NEW m \in Begins(p, n), b < m
      PROVE  Index(p, b) < Index(p, m)
  <2>1. b \in Nat /\ m \in Nat /\ m \in Begins(p, m)
    BY <1>3
  <2>2. m \notin Begins(p, b)
    BY <1>4, <2>1 DEF Begins
  <2>3. Begins(p, b) \in SUBSET Begins(p, m) /\ Index(p, b) <= Index(p, m)
    BY <1>2, <1>4, <2>1
  <2>4. Index(p, b) # Index(p, m)
    <3>1. IsFiniteSet(Begins(p, m))
      BY <1>1, <2>1
    <3>2. Cardinality(Begins(p, m)) = Cardinality(Begins(p, b)) => Begins(p, m) = Begins(p, b)
      BY <2>3, <3>1, FS_Subset
    <3> QED
      BY <2>1, <2>2, <3>2 DEF Index
  <2>5. Index(p, b) \in Nat /\ Index(p, m) \in Nat
    BY <1>1, <2>1
  <2> QED
    BY <2>3, <2>4, <2>5
<1> QED
  BY <1>1, <1>3, <1>4

(* Behind the last blank a word has begun. *)
LEMMA LastBegins ==
    ASSUME NEW p, NEW n \in Nat, n # 0, p[n] # Space
    PROVE  \E m \in Begins(p, n) : Run(p, m, n)
<1> DEFINE T == {j \in 1..n : Run(p, j, n)}
<1>1. n \in T
  BY DEF Run
<1>2. PICK m \in T : \A j \in T : m <= j
  <2>1. T \in SUBSET Nat /\ T # {}
    BY <1>1
  <2> HIDE DEF T
  <2> QED
    BY <2>1, LeastNatural
<1>3. m \in 1..n /\ Run(p, m, n)
  BY <1>2
<1>4. m = 1 \/ p[m - 1] = Space
  <2>1. SUFFICES ASSUME m # 1, p[m - 1] # Space PROVE FALSE
    OBVIOUS
  <2>2. m - 1 \in 1..n
    BY <1>3, <2>1
  <2>3. Run(p, m - 1, n)
    <3>1. \A j \in (m - 1)..n : j = m - 1 \/ j \in m..n
      BY <1>3
    <3> QED
      BY <1>3, <2>1, <3>1 DEF Run
  <2>4. m - 1 \in T
    BY <2>2, <2>3
  <2> QED
    BY <1>2, <1>3, <2>4
<1>5. p[m] # Space
  <2>1. m \in m..n
    BY <1>3
  <2> QED
    BY <1>3, <2>1 DEF Run
<1>6. m \in Begins(p, n)
  BY <1>3, <1>4, <1>5 DEF Begins
<1> QED
  BY <1>3, <1>6

(* Where words begin in a text that has one character more.                *)
LEMMA BeginsNext ==
    ASSUME NEW p \in Texts, p # <<>>, NEW c \in Letters
    PROVE  /\ \A n \in 0..Len(p) : Begins(Append(p, c), n) = Begins(p, n)
           /\ \A n \in 0..Len(p) : Index(Append(p, c), n) = Index(p, n)
           /\ c = Space \/ p[Len(p)] # Space =>
                 /\ Begins(Append(p, c), Len(p) + 1) = Begins(p, Len(p))
                 /\ Index(Append(p, c), Len(p) + 1) = Index(p, Len(p))
           /\ c # Space /\ p[Len(p)] = Space =>
                 /\ \A b : b \in Begins(Append(p, c), Len(p) + 1)
                       <=> b \in Begins(p, Len(p)) \/ b = Len(p) + 1
                 /\ Index(Append(p, c), Len(p) + 1) = Index(p, Len(p)) + 1
<1>1. PICK q : q = Append(p, c)
  OBVIOUS
<1>2. PICK n \in Nat : n = Len(p)
  BY TextBasics
<1>3. /\ n # 0 /\ Len(q) = n + 1 /\ q[n + 1] = c /\ \A i \in 1..n : q[i] = p[i]
  <2>1. n # 0
    BY <1>2, EmptySeq DEF Texts
  <2> QED
    BY <1>1, <1>2, <2>1, AppendProperties DEF Texts
<1>4. ASSUME NEW i \in 0..n PROVE Begins(q, i) = Begins(p, i)
  <2>1. \A j \in 1..i : q[j] = p[j] /\ (j = 1 \/ q[j - 1] = p[j - 1])
    BY <1>3
  <2> QED
    BY <2>1 DEF Begins
<1>5. q[(n + 1) - 1] = p[n] /\ n + 1 # 1
  BY <1>3
<1>6. \A b : b \in Begins(q, n + 1) <=>
         b \in Begins(p, n) \/ (b = n + 1 /\ c # Space /\ p[n] = Space)
  <2>1. \A b : b \in 1..(n + 1) <=> b \in 1..n \/ b = n + 1
    OBVIOUS
  <2>2. \A b : b \in Begins(q, n) <=> b \in Begins(p, n)
    BY <1>4
  <2>3. \A b : b \in Begins(q, n + 1) <=>
           b \in Begins(q, n) \/ (b = n + 1 /\ q[n + 1] # Space /\ q[(n + 1) - 1] = Space)
    BY <1>5, <2>1 DEF Begins
  <2> QED
    BY <1>3, <1>5, <2>2, <2>3
<1>7. ASSUME c = Space \/ p[n] # Space
      PROVE  Begins(q, n + 1) = Begins(p, n)
  BY <1>6, <1>7
<1>8. ASSUME c # Space, p[n] = Space
      PROVE  Index(q, n + 1) = Index(p, n) + 1
  <2>1. Begins(q, n + 1) = Begins(p, n) \cup {n + 1}
    BY <1>6, <1>8
  <2>2. n + 1 \notin Begins(p, n)
    BY DEF Begins
  <2>3. IsFiniteSet(Begins(p, n))
    <3>1. IsFiniteSet(1..n) /\ Begins(p, n) \in SUBSET (1..n)
      BY FS_Interval DEF Begins
    <3> QED
      BY <3>1, FS_Subset
  <2>4. Cardinality(Begins(p, n) \cup {n + 1}) = Cardinality(Begins(p, n)) + 1
    BY <2>2, <2>3, FS_AddElement
  <2> QED
    BY <2>1, <2>4 DEF Index
<1> QED
  BY <1>1, <1>2, <1>4, <1>6, <1>7, <1>8 DEF Index

(* A character keeps each token at the place of its word.                  *)
LEMMA SpelledNext ==
    ASSUME NEW p \in Texts, p # <<>>, NEW c \in Letters, NEW at \in {Gap, "word"},
           NEW ts \in Seq(Texts), Spelled(p, ts, at)
    PROVE  /\ c = Space => Spelled(Append(p, c), ts, Gap)
           /\ c # Space /\ at = Gap => Spelled(Append(p, c), Append(ts, <<c>>), "word")
           /\ c # Space /\ at # Gap => Spelled(Append(p, c), Extend(ts, <<c>>), "word")
<1>1. PICK q : q = Append(p, c)
  OBVIOUS
<1>2. PICK n \in Nat : n = Len(p)
  BY TextBasics
<1>3. /\ n # 0 /\ q \in Texts /\ Len(q) = n + 1 /\ q[n + 1] = c
      /\ \A i \in 1..n : q[i] = p[i] /\ p[i] \in Letters
  <2>1. n # 0
    BY <1>2, EmptySeq DEF Texts
  <2>2. \A i \in 1..n : p[i] \in Letters
    BY <1>2, TextBasics
  <2> QED
    BY <1>1, <1>2, <2>1, <2>2, AppendProperties DEF Texts
<1>4. /\ \A i \in 0..n : Begins(q, i) = Begins(p, i) /\ Index(q, i) = Index(p, i)
      /\ c = Space \/ p[n] # Space =>
            Begins(q, n + 1) = Begins(p, n) /\ Index(q, n + 1) = Index(p, n)
      /\ c # Space /\ p[n] = Space =>
            /\ \A b : b \in Begins(q, n + 1) <=> b \in Begins(p, n) \/ b = n + 1
            /\ Index(q, n + 1) = Index(p, n) + 1
  BY <1>1, <1>2, BeginsNext
<1>5. /\ at = Gap <=> p[n] = Space
      /\ Len(ts) = Index(p, n)
      /\ \A b \in Begins(p, n) : \E e \in b..n : Spelt(p, ts, b, e)
  BY <1>2 DEF Spelled
<1>6. /\ Len(ts) \in Nat
      /\ \A b \in Begins(p, n) : b \in 1..n /\ b \in 0..n /\ Index(p, b) \in 1..Len(ts)
  BY <1>5, IndexIs
<1>7. ASSUME NEW b \in 1..n, NEW e \in b..n PROVE SubSeq(q, b, e) = SubSeq(p, b, e)
  <2>1. \A i \in b..e : p[i] \in Letters /\ q[i] = p[i]
    BY <1>3
  <2> QED
    BY <2>1, SubSame
<1>8. ASSUME NEW b \in 1..n, NEW e \in b..n, Run(p, b, e) PROVE Run(q, b, e)
  <2>1. \A i \in b..e : q[i] = p[i]
    BY <1>3
  <2> QED
    BY <1>8, <2>1 DEF Run
(* A word that has ended, or ends now, stays as it is. *)
<1>9. ASSUME NEW b \in Begins(p, n), NEW e \in b..n, Spelt(p, ts, b, e),
             e # n \/ c = Space, NEW us, us[Index(p, b)] = ts[Index(p, b)]
      PROVE  e \in b..(n + 1) /\ Spelt(q, us, b, e)
  <2>1. b \in 1..n /\ Index(q, b) = Index(p, b)
    BY <1>4, <1>6
  <2>2. ts[Index(p, b)] = SubSeq(p, b, e) /\ Run(p, b, e) /\ (e = n \/ p[e + 1] = Space)
    BY <1>2, <1>9 DEF Spelt
  <2>3. us[Index(q, b)] = SubSeq(q, b, e) /\ Run(q, b, e)
    BY <1>7, <1>8, <1>9, <2>1, <2>2
  <2>4. q[e + 1] = Space
    <3>1. CASE e = n
      BY <1>3, <1>9, <3>1
    <3>2. CASE e # n
      <4>1. e + 1 \in 1..n
        BY <2>1, <3>2
      <4> QED
        BY <1>3, <2>2, <3>2, <4>1
    <3> QED
      BY <3>1, <3>2
  <2>5. e \in b..(n + 1)
    BY <2>1
  <2> QED
    BY <2>3, <2>4, <2>5 DEF Spelt
<1>10. ASSUME c = Space PROVE Spelled(q, ts, Gap)
  <2>1. Begins(q, n + 1) = Begins(p, n) /\ Index(q, n + 1) = Index(p, n)
    BY <1>4, <1>10
  <2>2. ASSUME NEW b \in Begins(p, n) PROVE \E e \in b..(n + 1) : Spelt(q, ts, b, e)
    <3>1. PICK e \in b..n : Spelt(p, ts, b, e)
      BY <1>5
    <3>2. e \in b..(n + 1) /\ Spelt(q, ts, b, e)
      BY <1>9, <1>10, <3>1
    <3> QED
      BY <3>2
  <2> QED
    BY <1>3, <1>5, <1>10, <2>1, <2>2 DEF Spelled
<1>11. ASSUME c # Space, at = Gap PROVE Spelled(q, Append(ts, <<c>>), "word")
  <2>1. PICK w : w = <<c>>
    OBVIOUS
  <2>2. w \in Texts
    BY <2>1, Single
  <2>3. PICK us : us = Append(ts, w)
    OBVIOUS
  <2>4. /\ us \in Seq(Texts) /\ Len(us) = Len(ts) + 1 /\ us[Len(ts) + 1] = w
        /\ \A h \in 1..Len(ts) : us[h] = ts[h]
    BY <2>2, <2>3, AppendProperties
  <2>5. /\ \A b : b \in Begins(q, n + 1) <=> b \in Begins(p, n) \/ b = n + 1
        /\ Index(q, n + 1) = Len(ts) + 1
    BY <1>4, <1>5, <1>11
  <2>6. ASSUME NEW b \in Begins(p, n) PROVE \E e \in b..(n + 1) : Spelt(q, us, b, e)
    <3>1. PICK e \in b..n : Spelt(p, ts, b, e)
      BY <1>5
    <3>2. e # n
      <4>1. SUFFICES ASSUME e = n PROVE FALSE
        OBVIOUS
      <4>2. Run(p, b, n) /\ n \in b..n
        BY <1>6, <3>1, <4>1 DEF Spelt
      <4> QED
        BY <1>5, <1>11, <4>2 DEF Run
    <3>3. us[Index(p, b)] = ts[Index(p, b)]
      BY <1>6, <2>4
    <3>4. e \in b..(n + 1) /\ Spelt(q, us, b, e)
      BY <1>9, <3>1, <3>2, <3>3
    <3> QED
      BY <3>4
  <2>7. Spelt(q, us, n + 1, n + 1) /\ n + 1 \in (n + 1)..(n + 1)
    <3>1. SubSeq(q, n + 1, n + 1) = <<c>>
      <4>1. /\ SubSeq(q, n + 1, n + 1) \in Seq(Letters) /\ Len(SubSeq(q, n + 1, n + 1)) = 1
            /\ SubSeq(q, n + 1, n + 1)[1] = c
        <5>1. n + 1 \in Int /\ \A i \in (n + 1)..(n + 1) : q[i] \in Letters
          BY <1>3
        <5>2. /\ SubSeq(q, n + 1, n + 1) \in Seq(Letters)
              /\ Len(SubSeq(q, n + 1, n + 1)) = IF n + 1 <= n + 1 THEN (n + 1) - (n + 1) + 1 ELSE 0
              /\ \A i \in 1..((n + 1) - (n + 1) + 1) :
                    SubSeq(q, n + 1, n + 1)[i] = q[(n + 1) + i - 1]
          BY <5>1, SubSeqProperties
        <5>3. SubSeq(q, n + 1, n + 1)[1] = q[(n + 1) + 1 - 1] /\ (n + 1) + 1 - 1 = n + 1
          BY <5>2
        <5> QED
          BY <1>3, <5>2, <5>3
      <4>2. PICK v : v = SubSeq(q, n + 1, n + 1)
        OBVIOUS
      <4>3. v \in Seq(Letters) /\ Len(v) = 1 /\ v[1] = c
        BY <4>1, <4>2
      <4>4. w \in Seq(Letters) /\ Len(w) = 1 /\ w[1] = c
        BY <2>1
      <4>5. v = w
        <5>1. \A i \in 1..Len(v) : v[i] = w[i]
          BY <4>3, <4>4
        <5> QED
          BY <4>3, <4>4, <5>1, SeqEqual
      <4> QED
        BY <2>1, <4>2, <4>5
    <3>2. Run(q, n + 1, n + 1)
      BY <1>3, <1>11 DEF Run
    <3> QED
      BY <1>3, <2>1, <2>4, <2>5, <3>1, <3>2 DEF Spelt
  <2>8. \A b \in Begins(q, n + 1) : \E e \in b..(n + 1) : Spelt(q, us, b, e)
    BY <2>5, <2>6, <2>7
  <2>9. Spelled(q, us, "word")
    BY <1>3, <1>11, <2>4, <2>5, <2>8 DEF Spelled, Gap
  <2> QED
    BY <2>1, <2>3, <2>9
<1>12. ASSUME c # Space, at # Gap PROVE Spelled(q, Extend(ts, <<c>>), "word")
  <2>1. PICK m \in Begins(p, n) : Run(p, m, n)
    BY <1>3, <1>5, <1>12, LastBegins
  <2>2. ts # <<>> /\ m \in 1..n
    BY <1>6, <2>1, EmptySeq
  <2>3. PICK us : us = Extend(ts, <<c>>)
    OBVIOUS
  <2>4. PICK l : l = Len(ts)
    OBVIOUS
  <2>5. /\ us \in Seq(Texts) /\ Len(us) = l /\ l \in 1..l
        /\ \A h \in 1..(l - 1) : us[h] = ts[h]
        /\ us[l] = Append(ts[l], c)
    BY <2>2, <2>3, <2>4, ExtendWord
  <2>6. Begins(q, n + 1) = Begins(p, n) /\ Index(q, n + 1) = l
    BY <1>4, <1>5, <1>12, <2>4
  <2>7. ASSUME NEW b \in Begins(p, n) PROVE b <= m
    <3>1. b \in 1..n /\ (b = 1 \/ p[b - 1] = Space)
      BY DEF Begins
    <3>2. b > m => b - 1 \in m..n
      BY <2>2, <3>1
    <3> QED
      BY <2>1, <2>2, <3>1, <3>2 DEF Run
  <2>8. Index(p, m) = l
    <3>1. Begins(p, n) = Begins(p, m)
      <4>1. m <= n /\ 1..m \subseteq 1..n
        BY <2>2
      <4>2. \A b \in Begins(p, n) : b \in 1..m
        BY <1>6, <2>2, <2>7
      <4> QED
        BY <4>1, <4>2 DEF Begins
    <3> QED
      BY <1>5, <2>4, <3>1 DEF Index
  <2>9. ASSUME NEW b \in Begins(p, n), b # m PROVE \E e \in b..(n + 1) : Spelt(q, us, b, e)
    <3>1. PICK e \in b..n : Spelt(p, ts, b, e)
      BY <1>5
    <3>2. b < m /\ b \in 1..n
      BY <1>6, <2>2, <2>7, <2>9
    <3>3. Index(p, b) < l /\ Index(p, b) \in 1..l
      <4>1. Index(p, b) < Index(p, m)
        BY <2>1, <2>9, <3>2, IndexIs
      <4> QED
        BY <1>6, <2>4, <2>8, <4>1
    <3>4. us[Index(p, b)] = ts[Index(p, b)]
      <4>1. Index(p, b) \in 1..(l - 1)
        BY <2>5, <3>3
      <4> QED
        BY <2>5, <4>1
    <3>5. e # n
      <4>1. SUFFICES ASSUME e = n PROVE FALSE
        OBVIOUS
      <4>2. m \in b..n /\ m - 1 \in b..n /\ m # 1
        BY <2>2, <3>2
      <4>3. p[m - 1] = Space
        BY <4>2 DEF Begins
      <4> QED
        BY <3>1, <4>1, <4>2, <4>3 DEF Spelt, Run
    <3>6. e \in b..(n + 1) /\ Spelt(q, us, b, e)
      BY <1>9, <3>1, <3>4, <3>5
    <3> QED
      BY <3>6
  <2>10. \E e \in m..(n + 1) : Spelt(q, us, m, e)
    <3>1. PICK e \in m..n : Spelt(p, ts, m, e)
      BY <1>5
    <3>2. e = n
      <4>1. SUFFICES ASSUME e # n PROVE FALSE
        OBVIOUS
      <4>2. p[e + 1] = Space /\ e + 1 \in m..n
        BY <1>2, <2>2, <3>1, <4>1 DEF Spelt
      <4> QED
        BY <2>1, <4>2 DEF Run
    <3>3. ts[l] = SubSeq(p, m, n)
      BY <2>8, <3>1, <3>2 DEF Spelt
    <3>4. us[l] = SubSeq(q, m, n + 1)
      <4>1. m \in 1..(Len(p) + 1)
        BY <1>2, <2>2
      <4>2. SubSeq(Append(p, c), m, Len(p) + 1) = SubSeq(p, m, Len(p)) \o <<c>>
        BY <4>1, LastToken
      <4>3. ts[l] \in Seq(Letters)
        BY <2>4, <2>5, ElementOfSeq DEF Texts
      <4>4. PICK w : w = ts[l]
        OBVIOUS
      <4>5. Append(w, c) = w \o <<c>>
        BY <4>3, <4>4, AppendIsConcat
      <4> QED
        BY <1>1, <1>2, <2>5, <3>3, <4>2, <4>4, <4>5
    <3>5. Run(q, m, n + 1)
      <4>1. \A j \in m..(n + 1) : j = n + 1 \/ (j \in m..n /\ j \in 1..n)
        BY <2>2
      <4> QED
        BY <1>3, <1>12, <2>1, <4>1 DEF Run
    <3>6. n + 1 \in m..(n + 1) /\ Index(q, m) = l
      BY <1>4, <2>2, <2>8
    <3>7. Spelt(q, us, m, n + 1)
      BY <1>3, <3>4, <3>5, <3>6 DEF Spelt
    <3> QED
      BY <3>6, <3>7
  <2>11. \A b \in Begins(q, n + 1) : \E e \in b..(n + 1) : Spelt(q, us, b, e)
    BY <2>6, <2>9, <2>10
  <2>12. Spelled(q, us, "word")
    BY <1>3, <1>12, <2>5, <2>6, <2>11 DEF Spelled, Gap
  <2> QED
    BY <2>3, <2>12
<1> QED
  BY <1>1, <1>10, <1>11, <1>12

(* The first character of a text.                                          *)
LEMMA SpelledFirst ==
    ASSUME NEW c \in Letters, c # Space, c # "="
    PROVE  Spelled(Append(<<>>, c), Ts(Append(<<>>, c), Blank), At(Append(<<>>, c), Blank))
<1>1. PICK q : q = Append(<<>>, c)
  OBVIOUS
<1>2. /\ q \in Texts /\ Len(q) = 1 /\ q[1] = c
  <2>1. <<>> \in Seq(Letters) /\ Len(<<>>) = 0
    OBVIOUS
  <2> QED
    BY <1>1, <2>1, AppendProperties DEF Texts
<1>3. PICK ts : ts = Ts(<<>>, Blank)
  OBVIOUS
<1>4. ts \in Seq(Texts) /\ Len(ts) = 1 /\ ts[1] = <<>> /\ At(<<>>, Blank) = "word" /\ <<>> \in Texts
  <2>1. ts = <<<<>>>>
    BY <1>3, TsEmpty
  <2> QED
    BY <2>1, TsEmpty
<1>5. ts # <<>> /\ At(<<>>, Blank) # Gap
  BY <1>4, EmptySeq DEF Gap
<1>6. Ts(q, Blank) = Extend(ts, <<c>>) /\ At(q, Blank) = "word"
  BY <1>1, <1>3, <1>4, <1>5, PlainStep
<1>7. PICK us : us = Extend(ts, <<c>>)
  OBVIOUS
<1>8. us \in Seq(Texts) /\ Len(us) = 1 /\ us[1] = Append(ts[1], c)
  BY <1>4, <1>5, <1>7, ExtendWord
<1>9. us[1] = q
  BY <1>1, <1>4, <1>8
<1>10. \A b : b \in Begins(q, 1) <=> b = 1
  BY <1>2 DEF Begins
<1>11. Index(q, 1) = 1
  <2>1. Begins(q, 1) = {1}
    BY <1>10
  <2> QED
    BY <2>1, FS_Singleton DEF Index
<1>12. SubSeq(q, 1, 1) = q
  BY <1>2, SubSeqFull DEF Texts
<1>13. Spelt(q, us, 1, 1)
  BY <1>2, <1>9, <1>11, <1>12 DEF Spelt, Run
<1>14. Spelled(q, us, "word")
  BY <1>2, <1>8, <1>10, <1>11, <1>13 DEF Spelled, Gap
<1> QED
  BY <1>1, <1>6, <1>7, <1>14

(* Texts in which the only separators are blanks, none of them in front. *)
OfWords(p) == p # <<>> /\ p[1] # Space /\ \A j \in 1..Len(p) : p[j] # "="

(* So each token is at the place of its word in every text of words.       *)
LEMMA AllSpelled ==
    \A p \in Texts : OfWords(p) => Spelled(p, Ts(p, Blank), At(p, Blank))
<1> DEFINE T == {p \in Texts : OfWords(p) => Spelled(p, Ts(p, Blank), At(p, Blank))}
<1>1. <<>> \in T
  BY Nothing DEF OfWords
<1>2. ASSUME NEW p \in Texts, p \in T, NEW c \in Letters PROVE Append(p, c) \in T
  <2>1. PICK q : q = Append(p, c)
    OBVIOUS
  <2>2. PICK n \in Nat : n = Len(p)
    BY TextBasics
  <2>3. q \in Texts /\ Len(q) = n + 1 /\ q[n + 1] = c /\ \A i \in 1..n : q[i] = p[i]
    BY <2>1, <2>2, AppendProperties DEF Texts
  <2>4. SUFFICES ASSUME OfWords(q) PROVE Spelled(q, Ts(q, Blank), At(q, Blank))
    BY <2>1, <2>3
  <2>5. c # "="
    <3>1. n + 1 \in 1..Len(q)
      BY <2>3
    <3> QED
      BY <2>3, <2>4, <3>1 DEF OfWords
  <2>6. CASE p = <<>>
    <3>1. n = 0
      BY <2>2, <2>6
    <3>2. c # Space
      BY <2>3, <2>4, <3>1 DEF OfWords
    <3> QED
      BY <2>1, <2>5, <2>6, <3>2, SpelledFirst
  <2>7. CASE p # <<>>
    <3>1. n # 0
      BY <2>2, <2>7, EmptySeq DEF Texts
    <3>2. OfWords(p)
      <4>1. p[1] # Space
        BY <2>3, <2>4, <3>1 DEF OfWords
      <4>2. \A j \in 1..n : p[j] # "="
        BY <2>3, <2>4 DEF OfWords
      <4> QED
        BY <2>2, <2>7, <4>1, <4>2 DEF OfWords
    <3>3. PICK ts : ts = Ts(p, Blank)
      OBVIOUS
    <3>4. PICK at : at = At(p, Blank)
      OBVIOUS
    <3>5. Spelled(p, ts, at)
      BY <1>2, <3>2, <3>3, <3>4
    <3>6. ts \in Seq(Texts) /\ at \in {Gap, "word"}
      BY <3>3, <3>4, TsIs, TokensAppend
    <3>7. /\ c = Space => Spelled(q, ts, Gap)
          /\ c # Space /\ at = Gap => Spelled(q, Append(ts, <<c>>), "word")
          /\ c # Space /\ at # Gap => Spelled(q, Extend(ts, <<c>>), "word")
      BY <2>1, <2>7, <3>5, <3>6, SpelledNext
    <3>8. /\ c = Space => Ts(q, Blank) = ts /\ At(q, Blank) = Gap
          /\ c # Space => At(q, Blank) = "word"
          /\ c # Space /\ at = Gap => Ts(q, Blank) = Append(ts, <<c>>)
          /\ c # Space /\ at # Gap => Ts(q, Blank) = Extend(ts, <<c>>)
      BY <2>1, <2>5, <3>3, <3>4, PlainStep
    <3> QED
      BY <3>7, <3>8
  <2> QED
    BY <2>6, <2>7
<1>3. \A p \in Texts : p \in T
  <2> HIDE DEF T
  <2> QED
    BY <1>1, <1>2, FromEmpty DEF Texts
<1> QED
  BY <1>3

-----------------------------------------------------------------------------
(* Requests' texts *)

Typing == text \in Seq(Characters)

(* What is typed are characters, whatever MaxLen.                          *)
LEMMA AlwaysTyping == TextSpec => []Typing
<1>1. TextInit => Typing
  BY DEF TextInit, Typing
<1>2. Typing /\ [TextNext]_(textVars) => Typing'
  <2> SUFFICES ASSUME Typing, [TextNext]_(textVars) PROVE Typing'
    OBVIOUS
  <2>1. ASSUME NEW c \in Characters, Type(c) PROVE Typing'
    <3>1. text' = Append(text, c) /\ text \in Seq(Characters)
      BY <2>1 DEF Type, Typing
    <3> QED
      BY <3>1, AppendProperties DEF Typing
  <2>2. CASE UNCHANGED textVars
    BY <2>2 DEF textVars, Typing
  <2> QED
    BY <2>1, <2>2 DEF TextNext
<1> QED
  BY <1>1, <1>2, PTL DEF TextSpec

(* The text as one of Texts, and its tokens.                               *)
LEMMA TypingText ==
    ASSUME Typing
    PROVE  /\ text \in Texts /\ Len(text) \in Nat /\ DOMAIN text = 1..Len(text)
           /\ str_tokenize(text) = Ts(text, Blank)
<1>1. text \in Texts
  <2>1. Characters \subseteq Letters
    BY DEF Letters
  <2> QED
    BY <2>1, SeqMonotonic DEF Typing, Texts
<1>2. str_tokenize(text) = Ts(text, Blank)
  BY Zenon DEF str_tokenize, Ts, Blank
<1> QED
  BY <1>1, <1>2, TextBasics

(* TokensAtBlanks, of every text.                                          *)
LEMMA AtBlanks ==
    ASSUME Typing
    PROVE  TokensAtBlanks
<1>1. PICK ts : ts = Ts(text, Blank)
  OBVIOUS
<1>2. /\ text \in Texts /\ Len(text) \in Nat /\ DOMAIN text = 1..Len(text)
      /\ str_tokenize(text) = ts
  BY <1>1, TypingText
<1>3. ASSUME NEW n
      PROVE  /\ WordsBegin(n) = Begins(text, n)
             /\ Cardinality(WordsBegin(n)) = Index(text, n)
  <2>1. WordsBegin(n) = Begins(text, n)
    BY Zenon DEF WordsBegin, Begins, Space
  <2> QED
    BY <2>1, Zenon DEF Index
<1>4. ASSUME text # <<>>, text[1] # Space, \A h \in DOMAIN text : text[h] # "="
      PROVE  /\ Len(ts) = Index(text, Len(text))
             /\ \A b \in Begins(text, Len(text)) : \E e \in b..Len(text) :
                   /\ ts[Index(text, b)] = SubSeq(text, b, e)
                   /\ \A h \in b..e : text[h] # Space
                   /\ e = Len(text) \/ text[e + 1] = Space
  <2>1. OfWords(text)
    BY <1>2, <1>4 DEF OfWords
  <2>2. Spelled(text, ts, At(text, Blank))
    BY <1>1, <1>2, <2>1, AllSpelled
  <2> QED
    BY <2>2 DEF Spelled, Spelt, Run
<1> QED
  BY <1>2, <1>3, <1>4, Zenon DEF TokensAtBlanks, Space

(* server_operations.cc:144-290: a text is what the client typed, and      *)
(* old names the buffers that nobody clears.                               *)
THEOREM TextTypeCorrect == TextSpec => []TextTypeOK
<1>1. TextInit => TextTypeOK
  <2>1. <<>> \in Seq(Characters) /\ Len(<<>>) = 0
    OBVIOUS
  <2> QED
    BY <2>1, MaxLenAssumption DEF TextInit, TextTypeOK
<1>2. TextTypeOK /\ [TextNext]_(textVars) => TextTypeOK'
  <2> SUFFICES ASSUME TextTypeOK, [TextNext]_(textVars) PROVE TextTypeOK'
    OBVIOUS
  <2>1. ASSUME NEW c \in Characters, Type(c) PROVE TextTypeOK'
    <3>1. text' = Append(text, c) /\ Len(text) < MaxLen /\ old' = old
      BY <2>1 DEF Type
    <3>2. text' \in Seq(Characters) /\ Len(text') = Len(text) + 1 /\ Len(text) \in Nat
      BY <3>1, AppendProperties DEF TextTypeOK
    <3>3. Len(text') <= MaxLen
      BY <3>1, <3>2, MaxLenAssumption
    <3> QED
      BY <3>1, <3>2, <3>3 DEF TextTypeOK
  <2>2. CASE TextNext
    BY <2>1, <2>2 DEF TextNext
  <2> QED
    BY <2>2 DEF textVars, TextTypeOK
<1> QED
  BY <1>1, <1>2, PTL DEF TextSpec

(* tokenize.cc, str_tokenize: it gives back the words of a text that has   *)
(* none of the other separators, each whole and in its place, however long *)
(* the text is.                                                            *)
THEOREM BlanksSeparate == TextSpec => []TokensAtBlanks
<1>1. Typing => TokensAtBlanks
  BY AtBlanks
<1> QED
  BY <1>1, AlwaysTyping, PTL

-----------------------------------------------------------------------------
(* WRITE *)

Tight(s) == \A j \in 1..Len(s) : s[j] = Space => j # Len(s) /\ s[j + 1] # Space
Loose(s) == \E j \in 1..Len(s) : s[j] = Space /\ (j = Len(s) \/ s[j + 1] = Space)

(* What a text of words with blanks before them tells of the words. *)
Shows(s, ws) ==
    /\ s \in Texts
    /\ ws = <<>> => Len(s) = 0
    /\ ws # <<>> => s # <<>> /\ s[1] = Space
    /\ AllClean(ws) => \A j \in 1..Len(s) : s[j] # "="
    /\ Whole(ws) => Tight(s)
    /\ Holes(ws) => Loose(s)

(* One word more in a message.                                             *)
LEMMA ShowsNext ==
    ASSUME NEW ws \in Seq(Texts), NEW w \in Texts, NEW s, Shows(s, ws)
    PROVE  Shows(Append(s, Space) \o w, Append(ws, w))
<1>1. s \in Texts /\ Space \in Letters /\ Space # "=" /\ Space \in Blank
  BY DEF Shows, Space, Letters, Characters, Blank
<1>2. PICK n \in Nat : n = Len(s)
  BY <1>1, TextBasics
<1>3. PICK a : a = Append(s, Space)
  OBVIOUS
<1>4. a \in Texts /\ Len(a) = n + 1 /\ a[n + 1] = Space /\ \A j \in 1..n : a[j] = s[j]
  BY <1>1, <1>2, <1>3, AppendProperties DEF Texts
<1>5. PICK r : r = a \o w
  OBVIOUS
<1>6. PICK l \in Nat : l = Len(w)
  BY TextBasics
<1>7. /\ r \in Texts /\ Len(r) = n + 1 + l
      /\ \A j \in 1..n : r[j] = s[j]
      /\ r[n + 1] = Space
      /\ \A j \in (n + 2)..(n + 1 + l) : r[j] = w[j - (n + 1)] /\ j - (n + 1) \in 1..l
  <2>1. r \in Seq(Letters) /\ Len(r) = (n + 1) + l
        /\ \A j \in 1..((n + 1) + l) : r[j] = IF j <= n + 1 THEN a[j] ELSE w[j - (n + 1)]
    <3>1. a \in Seq(Letters) /\ w \in Seq(Letters)
      BY <1>4 DEF Texts
    <3>2. /\ a \o w \in Seq(Letters) /\ Len(a \o w) = Len(a) + Len(w)
          /\ \A j \in 1..(Len(a) + Len(w)) :
                (a \o w)[j] = IF j <= Len(a) THEN a[j] ELSE w[j - Len(a)]
      BY <3>1, ConcatProperties
    <3> QED
      BY <1>4, <1>5, <1>6, <3>2
  <2>2. \A j \in 1..n : r[j] = s[j]
    BY <1>4, <2>1
  <2>3. r[n + 1] = Space
    BY <1>4, <2>1
  <2>4. \A j \in (n + 2)..(n + 1 + l) : r[j] = w[j - (n + 1)] /\ j - (n + 1) \in 1..l
    BY <2>1
  <2> QED
    BY <2>1, <2>2, <2>3, <2>4 DEF Texts
<1>8. \A j \in 1..Len(r) : j \in 1..n \/ j = n + 1 \/ j \in (n + 2)..(n + 1 + l)
  BY <1>7
<1>9. PICK u : u = Append(ws, w)
  OBVIOUS
<1>10. /\ AllClean(u) <=> AllClean(ws) /\ Clean(w)
       /\ Holes(u) <=> Holes(ws) \/ w = <<>>
       /\ Whole(u) <=> Whole(ws) /\ Clean(w) /\ w # <<>>
  BY <1>9, AppendWord, WholeAppend
<1>11. r # <<>> /\ r[1] = Space
  <2>1. r # <<>>
    BY <1>7, EmptySeq
  <2>2. CASE ws = <<>>
    <3>1. n = 0
      BY <1>2, <2>2 DEF Shows
    <3> QED
      BY <1>7, <2>1, <3>1
  <2>3. CASE ws # <<>>
    <3>1. s # <<>> /\ s[1] = Space
      BY <2>3 DEF Shows
    <3>2. 1 \in 1..n
      BY <1>1, <1>2, <3>1, EmptySeq DEF Texts
    <3> QED
      BY <1>7, <2>1, <3>1, <3>2
  <2> QED
    BY <2>2, <2>3
<1>12. ASSUME AllClean(u), NEW j \in 1..Len(r) PROVE r[j] # "="
  <2>1. \A i \in 1..n : s[i] # "="
    BY <1>2, <1>10, <1>12 DEF Shows
  <2>2. \A i \in 1..l : w[i] # "="
    BY <1>6, <1>10, <1>12 DEF Clean, Blank
  <2> QED
    BY <1>1, <1>7, <1>8, <2>1, <2>2
<1>13. ASSUME Whole(u), NEW j \in 1..Len(r), r[j] = Space
       PROVE  j # Len(r) /\ r[j + 1] # Space
  <2>1. Tight(s) /\ Clean(w) /\ l # 0
    <3>1. w # <<>>
      BY <1>10, <1>13
    <3> QED
      BY <1>6, <1>10, <1>13, <3>1, EmptySeq DEF Shows, Texts
  <2>2. \A i \in 1..l : w[i] # Space
    BY <1>1, <1>6, <2>1 DEF Clean
  <2>3. CASE j \in 1..n
    <3>1. s[j] = Space
      BY <1>7, <1>13, <2>3
    <3>2. j # n /\ s[j + 1] # Space
      BY <1>2, <2>1, <2>3, <3>1 DEF Tight
    <3>3. j + 1 \in 1..n
      BY <2>3, <3>2
    <3> QED
      BY <1>7, <2>3, <3>2, <3>3
  <2>4. CASE j = n + 1
    <3>1. n + 2 \in (n + 2)..(n + 1 + l) /\ (n + 2) - (n + 1) = 1 /\ 1 \in 1..l /\ j + 1 = n + 2
      BY <2>1, <2>4
    <3> QED
      BY <1>7, <2>1, <2>2, <2>4, <3>1
  <2>5. CASE j \in (n + 2)..(n + 1 + l)
    BY <1>7, <1>13, <2>2, <2>5
  <2> QED
    BY <1>8, <2>3, <2>4, <2>5
<1>14. ASSUME Holes(u)
       PROVE  \E j \in 1..Len(r) : r[j] = Space /\ (j = Len(r) \/ r[j + 1] = Space)
  <2>1. CASE w = <<>>
    <3>1. l = 0 /\ n + 1 \in 1..Len(r)
      <4>1. l = 0
        BY <1>6, <2>1, EmptySeq
      <4>2. Len(r) = n + 1 + l
        BY <1>7
      <4> QED
        BY <4>1, <4>2
    <3>2. r[n + 1] = Space /\ Len(r) = n + 1
      <4>1. Len(r) = n + 1 + l /\ r[n + 1] = Space
        BY <1>7
      <4> QED
        BY <3>1, <4>1
    <3> QED
      BY <3>1, <3>2
  <2>2. CASE Holes(ws)
    <3>1. PICK j \in 1..n : s[j] = Space /\ (j = n \/ s[j + 1] = Space)
      BY <1>2, <2>2 DEF Shows, Loose
    <3>2. j \in 1..Len(r) /\ r[j] = Space
      BY <1>7, <3>1
    <3>3. r[j + 1] = Space
      <4>1. CASE j = n
        BY <1>7, <4>1
      <4>2. CASE j # n
        <5>1. j + 1 \in 1..n
          BY <4>2
        <5> QED
          BY <1>7, <3>1, <4>2, <5>1
      <4> QED
        BY <4>1, <4>2
    <3> QED
      BY <3>2, <3>3
  <2> QED
    BY <1>10, <1>14, <2>1, <2>2
<1>a. u # <<>>
  BY <1>9, AppendProperties
<1>15. Shows(r, u)
  BY <1>a, <1>7, <1>11, <1>12, <1>13, <1>14 DEF Shows, Tight, Loose
<1> QED
  BY <1>3, <1>5, <1>9, <1>15

(* A message shows whether its words are whole.                            *)
LEMMA SpacedShows ==
    \A ws \in Seq(Texts) : Shows(Spaced(ws), ws)
<1> DEFINE T == {ws \in Seq(Texts) : Shows(Spaced(ws), ws)}
<1>1. <<>> \in T
  <2>1. PICK e : e = <<>>
    OBVIOUS
  <2>2. e \in Texts /\ e \in Seq(Texts) /\ Len(e) = 0 /\ 1..Len(e) = {}
    BY <2>1, Nothing, EmptySeq
  <2>3. Shows(e, e)
    BY <2>1, <2>2 DEF Shows, Tight, Holes
  <2> QED
    BY <2>1, <2>2, <2>3, Together
<1>2. ASSUME NEW ws \in Seq(Texts), ws \in T, NEW w \in Texts PROVE Append(ws, w) \in T
  <2>1. PICK s : s = Spaced(ws)
    OBVIOUS
  <2>2. Shows(s, ws)
    BY <1>2, <2>1
  <2>3. Shows(Append(s, Space) \o w, Append(ws, w))
    BY <2>2, ShowsNext
  <2>4. Spaced(Append(ws, w)) = Append(s, Space) \o w
    <3>1. Spaced(Append(ws, w)) = Cat(Append(s, " "), w)
      BY <2>1, Together, Zenon
    <3> QED
      BY <3>1, Zenon DEF Cat, Space
  <2>5. Append(ws, w) \in Seq(Texts)
    BY AppendProperties
  <2> QED
    BY <2>3, <2>4, <2>5
<1>3. \A ws \in Seq(Texts) : ws \in T
  <2> HIDE DEF T
  <2> QED
    BY <1>1, <1>2, FromEmpty
<1> QED
  BY <1>3

(* Something old in front of a message.                                    *)
LEMMA StaleFront ==
    ASSUME NEW s \in Texts
    PROVE  LET q == Cat(<<Stale>>, s)
           IN  /\ q \in Texts /\ Len(q) = Len(s) + 1 /\ q[1] = Stale
               /\ \A j \in 1..Len(s) : q[j + 1] = s[j]
<1>1. PICK f : f = <<Stale>>
  OBVIOUS
<1>2. f \in Seq(Letters) /\ Len(f) = 1 /\ f[1] = Stale
  <2>1. Stale \in Letters
    BY DEF Letters
  <2> QED
    BY <1>1, <2>1
<1>3. s \in Seq(Letters) /\ Len(s) \in Nat
  BY TextBasics DEF Texts
<1>4. PICK q : q = f \o s
  OBVIOUS
<1>5. /\ f \o s \in Seq(Letters) /\ Len(f \o s) = Len(f) + Len(s)
      /\ \A j \in 1..(Len(f) + Len(s)) :
            (f \o s)[j] = IF j <= Len(f) THEN f[j] ELSE s[j - Len(f)]
  BY <1>2, <1>3, ConcatProperties
<1>6. q \in Seq(Letters) /\ Len(q) = 1 + Len(s)
      /\ \A j \in 1..(1 + Len(s)) : q[j] = IF j <= 1 THEN f[j] ELSE s[j - 1]
  BY <1>2, <1>4, <1>5
<1>7. q[1] = Stale /\ \A j \in 1..Len(s) : q[j + 1] = s[j]
  BY <1>2, <1>3, <1>6
<1>8. q = Cat(<<Stale>>, s)
  BY <1>1, <1>4, Zenon DEF Cat
<1> QED
  BY <1>3, <1>6, <1>7, <1>8 DEF Texts

(* The message by the number of words and the memory it is built in.       *)
LEMMA MessageIs ==
    ASSUME NEW ws \in Seq(Texts), ws # <<>>, NEW who
    PROVE  LET m == MessageOf(ws, who)
           IN  /\ m \in Texts /\ Len(ws) \in Nat /\ Len(ws) # 0
               /\ Len(ws) = 1 => m = ws[1]
               /\ Len(ws) # 1 /\ who \notin old => m = Spaced(ws)
               /\ Len(ws) # 1 /\ who \in old => m = Cat(<<Stale>>, Spaced(ws))
<1>1. PICK m : m = MessageOf(ws, who)
  OBVIOUS
<1>2. PICK s \in Texts : s = Spaced(ws)
  BY Together
<1>3. Len(ws) \in Nat /\ Len(ws) # 0
  BY EmptySeq, LenProperties
<1>a. Len(ws) # 1 => Len(ws) > 1
  BY <1>3
<1>4. ASSUME Len(ws) = 1 PROVE m = ws[1] /\ m \in Texts
  <2>1. m = ws[1]
    BY <1>1, <1>4 DEF MessageOf
  <2>2. ws[1] \in Texts
    BY <1>4, ElementOfSeq
  <2> QED
    BY <2>1, <2>2
<1>5. ASSUME Len(ws) # 1, who \notin old PROVE m = s
  <2>a. Len(ws) > 1
    BY <1>a, <1>5, Zenon
  <2>b. m = (IF who \in old THEN <<Stale>> ELSE <<>>) \o Spaced(ws)
    BY <1>1, <2>a DEF MessageOf
  <2>c. (IF who \in old THEN <<Stale>> ELSE <<>>) = <<>>
    BY <1>5
  <2>1. m = <<>> \o s
    BY <1>2, <2>b, <2>c
  <2>2. <<>> \o s = s
    BY ConcatEmptySeq DEF Texts
  <2> QED
    BY <2>1, <2>2
<1>6. ASSUME Len(ws) # 1, who \in old PROVE m = Cat(<<Stale>>, s) /\ m \in Texts
  <2>a. Len(ws) > 1
    BY <1>a, <1>6, Zenon
  <2>b. m = (IF who \in old THEN <<Stale>> ELSE <<>>) \o Spaced(ws)
    BY <1>1, <2>a DEF MessageOf
  <2>c. (IF who \in old THEN <<Stale>> ELSE <<>>) = <<Stale>>
    BY <1>6
  <2>1. m = <<Stale>> \o s
    BY <1>2, <2>b, <2>c
  <2>2. m = Cat(<<Stale>>, s)
    BY <2>1, Zenon DEF Cat
  <2> QED
    BY <2>2, StaleFront
<1> QED
  BY <1>1, <1>2, <1>3, <1>4, <1>5, <1>6

(* What a message shows: how many words, and in what memory it was built.  *)
LEMMA MessageShows ==
    ASSUME NEW ws \in Seq(Texts), ws # <<>>, AllClean(ws), NEW who
    PROVE  LET m == MessageOf(ws, who)
           IN  /\ ~EmptyIn(m)
               /\ Len(ws) = 1 => Clean(m)
               /\ Len(ws) # 1 => ~Clean(m)
               /\ Len(ws) # 1 => (who \in old <=> m[1] # Space)
<1>1. PICK m : m = MessageOf(ws, who)
  OBVIOUS
<1>2. PICK s : s = Spaced(ws)
  OBVIOUS
<1>3. /\ m \in Texts /\ Len(ws) \in Nat /\ Len(ws) # 0
      /\ Len(ws) = 1 => m = ws[1]
      /\ Len(ws) # 1 /\ who \notin old => m = s
      /\ Len(ws) # 1 /\ who \in old => m = Cat(<<Stale>>, s)
  BY <1>1, <1>2, MessageIs
<1>4. Shows(s, ws)
  BY <1>2, SpacedShows
<1>5. s \in Texts /\ Len(s) \in Nat /\ Len(s) # 0 /\ s[1] = Space /\ \A j \in 1..Len(s) : s[j] # "="
  <2>1. s \in Texts /\ s # <<>> /\ s[1] = Space /\ \A j \in 1..Len(s) : s[j] # "="
    BY <1>4 DEF Shows
  <2> QED
    BY <2>1, TextBasics, EmptySeq DEF Texts
<1>6. Space \in Blank /\ Stale # Space /\ Stale # "="
  BY DEF Space, Blank, Stale
<1>7. CASE Len(ws) = 1
  <2>1. Clean(m)
    BY <1>3, <1>7 DEF AllClean
  <2>2. ~EmptyIn(m)
    BY <2>1 DEF Clean, EmptyIn, Blank
  <2> QED
    BY <1>1, <1>7, <2>1, <2>2
<1>8. CASE Len(ws) # 1 /\ who \notin old
  <2>1. m = s /\ 1 \in 1..Len(s)
    BY <1>3, <1>5, <1>8
  <2>2. ~EmptyIn(m) /\ ~Clean(m)
    BY <1>5, <1>6, <2>1 DEF EmptyIn, Clean
  <2> QED
    BY <1>1, <1>5, <1>8, <2>1, <2>2
<1>9. CASE Len(ws) # 1 /\ who \in old
  <2>1. m = Cat(<<Stale>>, s)
    BY <1>3, <1>9
  <2>2. Len(m) = Len(s) + 1 /\ m[1] = Stale /\ \A j \in 1..Len(s) : m[j + 1] = s[j]
    BY <1>5, <2>1, StaleFront
  <2>3. 1 \in 1..Len(s) /\ 2 \in 1..Len(m) /\ m[2] = Space
    <3>1. 1 \in 1..Len(s) /\ m[1 + 1] = s[1] /\ 2 \in 1..Len(m)
      BY <1>5, <2>2
    <3> QED
      BY <1>5, <3>1
  <2>4. \A j \in 1..Len(m) : m[j] # "="
    <3> TAKE j \in 1..Len(m)
    <3>1. CASE j = 1
      BY <1>6, <2>2, <3>1
    <3>2. CASE j # 1
      <4>1. j - 1 \in 1..Len(s) /\ m[(j - 1) + 1] = s[j - 1] /\ (j - 1) + 1 = j
        BY <1>5, <2>2, <3>2
      <4> QED
        BY <1>5, <4>1
    <3> QED
      BY <3>1, <3>2
  <2> QED
    BY <1>1, <1>6, <1>9, <2>2, <2>3, <2>4 DEF EmptyIn, Clean
<1> QED
  BY <1>7, <1>8, <1>9

(* A clean word is the one word of itself.                                 *)
LEMMA WOne ==
    ASSUME NEW w \in Texts, Clean(w), w # <<>>
    PROVE  W(w) = <<w>>
<1>1. W(<<>> \o w) = Append(W(<<>>), w)
  BY Nothing, WEmpty, WWord
<1>2. <<>> \o w = w
  BY ConcatEmptySeq DEF Texts
<1>3. Append(<<>>, w) = <<w>>
  OBVIOUS
<1> QED
  BY <1>1, <1>2, <1>3, WEmpty

(* Whole words, and no memory with something old in it: the peer has what  *)
(* the client's server has.                                                *)
LEMMA MessageKept ==
    ASSUME NEW ws \in Seq(Texts), ws # <<>>, Whole(ws),
           Len(ws) # 1 => "master" \notin old /\ "peer" \notin old
    PROVE  LET m == MessageOf(ws, "master")
           IN  W(m) # <<>> /\ MessageOf(W(m), "peer") = m
<1>1. PICK m : m = MessageOf(ws, "master")
  OBVIOUS
<1>2. /\ m \in Texts /\ Len(ws) \in Nat /\ Len(ws) # 0
      /\ Len(ws) = 1 => m = ws[1]
      /\ Len(ws) # 1 /\ "master" \notin old => m = Spaced(ws)
  BY <1>1, MessageIs
<1>3. CASE Len(ws) = 1
  <2>1. Clean(m) /\ m # <<>>
    BY <1>2, <1>3 DEF Whole, AllClean, Holes
  <2>2. PICK u : u = W(m)
    OBVIOUS
  <2>3. u = <<m>>
    BY <1>2, <2>1, <2>2, WOne
  <2>4. u \in Seq(Texts) /\ u # <<>> /\ Len(u) = 1 /\ u[1] = m
    BY <1>2, <2>3
  <2>5. MessageOf(u, "peer") = m
    BY <2>4, MessageIs
  <2> QED
    BY <1>1, <2>2, <2>4, <2>5
<1>4. CASE Len(ws) # 1
  <2>1. m = Spaced(ws)
    BY <1>2, <1>4
  <2>2. PICK e : e = <<>>
    OBVIOUS
  <2>3. e \in Texts /\ W(e) = e
    BY <2>2, Nothing, WEmpty
  <2>4. W(Cat(e, Spaced(ws))) = Cat(W(e), ws)
    BY <2>3, WSpaced
  <2>5. Cat(e, Spaced(ws)) = m
    BY <1>2, <2>1, <2>2, CatIs, Nothing DEF Texts
  <2>6. Cat(e, ws) = ws
    BY <2>2, CatIs
  <2>7. W(m) = ws
    BY <2>3, <2>4, <2>5, <2>6
  <2>8. MessageOf(ws, "peer") = Spaced(ws)
    BY <1>4, MessageIs
  <2> QED
    BY <1>1, <2>1, <2>7, <2>8
<1> QED
  BY <1>3, <1>4

(* Conversely, if the peer has the message, both were so.                  *)
LEMMA MessageLost ==
    ASSUME NEW ws \in Seq(Texts), ws # <<>>, AllClean(ws), NEW m,
           m = MessageOf(ws, "master"), W(m) # <<>>, MessageOf(W(m), "peer") = m
    PROVE  Whole(ws) /\ (Len(ws) # 1 => "master" \notin old /\ "peer" \notin old)
<1>1. /\ m \in Texts /\ Len(ws) \in Nat /\ Len(ws) # 0
      /\ Len(ws) = 1 => m = ws[1]
      /\ Len(ws) # 1 /\ "master" \notin old => m = Spaced(ws)
  BY MessageIs
<1>2. PICK u : u = W(m)
  OBVIOUS
<1>3. /\ ~EmptyIn(m)
      /\ Len(ws) = 1 => Clean(m)
      /\ Len(ws) # 1 => ~Clean(m)
      /\ Len(ws) # 1 => ("master" \in old <=> m[1] # Space)
  BY MessageShows
<1>4. u \in Seq(Texts) /\ u # <<>> /\ AllClean(u) /\ ~Holes(u)
  BY <1>1, <1>2, <1>3, WordsAre DEF WordsOf
<1>5. MessageOf(u, "peer") = m
  BY <1>2
<1>6. /\ Len(u) \in Nat /\ Len(u) # 0
      /\ Len(u) = 1 => m = u[1]
      /\ Len(u) # 1 /\ "peer" \notin old => m = Spaced(u)
      /\ Len(u) # 1 /\ "peer" \in old => m = Cat(<<Stale>>, Spaced(u))
  BY <1>4, <1>5, MessageIs
<1>7. Len(u) = 1 <=> Clean(m)
  BY <1>4, <1>5, MessageShows
<1>8. Len(u) # 1 => ("peer" \in old <=> m[1] # Space)
  BY <1>4, <1>5, MessageShows
<1>9. CASE Len(ws) = 1
  <2>1. Len(u) = 1
    BY <1>3, <1>7, <1>9
  <2>2. m = u[1] /\ m = ws[1]
    BY <1>1, <1>6, <1>9, <2>1
  <2>3. m # <<>>
    <3>1. 1 \in 1..Len(u)
      BY <2>1
    <3> QED
      BY <1>4, <2>2, <3>1 DEF Holes
  <2>4. ~Holes(ws)
    BY <1>9, <2>2, <2>3 DEF Holes
  <2> QED
    BY <1>9, <2>4 DEF Whole
<1>10. CASE Len(ws) # 1
  <2>1. Len(u) # 1
    BY <1>3, <1>7, <1>10
  <2>2. "peer" \notin old
    <3>1. SUFFICES ASSUME "peer" \in old PROVE FALSE
      OBVIOUS
    <3>2. m = Cat(<<Stale>>, Spaced(u))
      BY <1>6, <2>1, <3>1
    <3>3. PICK f : f = <<Stale>>
      OBVIOUS
    <3>4. f \in Texts /\ Clean(f) /\ f # <<>>
      <4>0. Stale \in Letters
        BY DEF Letters
      <4>1. Stale \notin Blank
        BY DEF Stale, Blank
      <4>2. f \in Texts /\ Len(f) = 1 /\ f[1] = Stale
        BY <3>3, <4>0, Single
      <4> QED
        BY <4>1, <4>2 DEF Clean
    <3>5. W(f) = <<f>>
      BY <3>4, WOne
    <3>6. Whole(u)
      BY <1>4 DEF Whole
    <3>7. W(Cat(f, Spaced(u))) = Cat(W(f), u)
      BY <1>4, <3>4, <3>6, WSpaced
    <3>8. PICK v : v = <<f>>
      OBVIOUS
    <3>9. u = Cat(v, u)
      BY <1>2, <3>2, <3>3, <3>5, <3>7, <3>8
    <3>10. Cat(v, u) = v \o u
      BY Zenon DEF Cat
    <3>11. v \in Seq(Texts) /\ Len(v) = 1
      BY <3>4, <3>8
    <3>12. Len(v \o u) = 1 + Len(u)
      <4>1. v \in Seq(Texts) /\ u \in Seq(Texts)
        BY <1>4, <3>11
      <4>2. Len(v \o u) = Len(v) + Len(u)
        BY <4>1, ConcatProperties
      <4> QED
        BY <3>11, <4>2
    <3> QED
      BY <1>6, <3>9, <3>10, <3>12
  <2>3. "master" \notin old
    BY <1>3, <1>8, <1>10, <2>1, <2>2
  <2>4. m = Spaced(ws) /\ m = Spaced(u)
    BY <1>1, <1>6, <1>10, <2>1, <2>2, <2>3
  <2>5. Shows(m, ws) /\ Shows(m, u)
    BY <1>4, <2>4, SpacedShows
  <2>6. Tight(m)
    BY <1>4, <2>5 DEF Shows, Whole
  <2>7. ~Loose(m)
    BY <2>6 DEF Tight, Loose
  <2>8. ~Holes(ws)
    BY <2>5, <2>7 DEF Shows
  <2> QED
    BY <2>2, <2>3, <2>8 DEF Whole
<1> QED
  BY <1>9, <1>10

(* The words in front of the peer's. *)
Worded(p) == (p \o Word) \o <<" ">>

(* A word and a blank more in front.                                       *)
LEMMA NextWord ==
    ASSUME NEW p \in Texts, At(p, Blank) = Gap
    PROVE  LET q == Worded(p)
           IN  /\ q \in Texts /\ At(q, Blank) = Gap
               /\ Ts(q, Blank) \in Seq(Texts) /\ Len(Ts(q, Blank)) = Len(Ts(p, Blank)) + 1
<1>1. PICK x : x = "x"
  OBVIOUS
<1>2. PICK c : c = Space
  OBVIOUS
<1>3. x \in Letters /\ c \in Letters /\ x # c /\ x # "=" /\ c # "="
  BY <1>1, <1>2 DEF Letters, Characters, Space
<1>4. Word = <<x>> /\ <<" ">> = <<c>>
  BY <1>1, <1>2, Zenon DEF Word, Space
<1>5. PICK r : r = Append(p, x)
  OBVIOUS
<1>6. PICK q : q = Append(r, c)
  OBVIOUS
<1>7. r \in Texts /\ q \in Texts
  BY <1>3, <1>5, <1>6, AppendProperties DEF Texts
<1>8. p \o <<x>> = r /\ r \o <<c>> = q
  BY <1>3, <1>5, <1>6, <1>7, AppendIsConcat DEF Texts
<1>9. Worded(p) = q
  BY <1>4, <1>8, Zenon DEF Worded
<1>10. PICK ts : ts = Ts(p, Blank)
  OBVIOUS
<1>11. ts \in Seq(Texts)
  BY <1>10, TsIs
<1>12. PICK w \in Texts : w = <<x>>
  BY <1>3, Single
<1>13. Ts(r, Blank) = Append(ts, w)
  BY <1>2, <1>3, <1>5, <1>10, <1>12, PlainStep
<1>14. Ts(q, Blank) = Ts(r, Blank) /\ At(q, Blank) = Gap
  BY <1>2, <1>3, <1>6, <1>7, PlainStep
<1>15. Append(ts, w) \in Seq(Texts) /\ Len(Append(ts, w)) = Len(ts) + 1
  BY <1>11, AppendProperties
<1> QED
  BY <1>7, <1>9, <1>10, <1>13, <1>14, <1>15

Two == Worded(X)
Three == Worded(Two)

(* Two words in front of a REPLACE's, three of a WRITE's.                  *)
LEMMA FrontWords ==
    /\ Two \in Texts /\ At(Two, Blank) = Gap /\ Ts(Two, Blank) \in Seq(Texts)
    /\ Len(Ts(Two, Blank)) = 2
    /\ Three \in Texts /\ At(Three, Blank) = Gap /\ Ts(Three, Blank) \in Seq(Texts)
    /\ Len(Ts(Three, Blank)) = 3
<1>1. PICK p \in Texts : p = X
  BY FirstWord
<1>2. At(p, Blank) = Gap /\ Len(Ts(p, Blank)) = 1
  <2>1. PICK ts : ts = Ts(p, Blank)
    OBVIOUS
  <2>2. ts = <<<<"x">>>>
    BY <1>1, <2>1, FirstWord
  <2>3. Len(ts) = 1
    BY <2>2
  <2> QED
    BY <1>1, <2>1, <2>3, FirstWord
<1>3. PICK q : q = Worded(p)
  OBVIOUS
<1>4. /\ q \in Texts /\ At(q, Blank) = Gap
      /\ Ts(q, Blank) \in Seq(Texts) /\ Len(Ts(q, Blank)) = Len(Ts(p, Blank)) + 1
  BY <1>2, <1>3, NextWord
<1>5. PICK r : r = Worded(q)
  OBVIOUS
<1>6. /\ r \in Texts /\ At(r, Blank) = Gap
      /\ Ts(r, Blank) \in Seq(Texts) /\ Len(Ts(r, Blank)) = Len(Ts(q, Blank)) + 1
  BY <1>4, <1>5, NextWord
<1>7. Len(Ts(q, Blank)) = 2 /\ Len(Ts(r, Blank)) = 3
  BY <1>2, <1>4, <1>6
<1>8. q = Two /\ r = Three
  BY <1>1, <1>3, <1>5, Zenon DEF Two, Three
<1> QED
  BY <1>4, <1>6, <1>7, <1>8

(* From cuts off what is in front.                                         *)
LEMMA FromBehind ==
    ASSUME NEW a \in Seq(Texts), NEW r \in Seq(Texts), NEW n \in Nat, n = Len(a) + 1
    PROVE  From(Cat(a, r), n) = r
<1>1. PICK s : s = a \o r
  OBVIOUS
<1>2. Len(a) \in Nat /\ Len(r) \in Nat
  BY LenProperties
<1>3. s \in Seq(Texts) /\ Len(s) = Len(a) + Len(r) /\ \A i \in 1..(Len(a) + Len(r)) :
         s[i] = IF i <= Len(a) THEN a[i] ELSE r[i - Len(a)]
  BY <1>1, ConcatProperties
<1>4. PICK l \in Nat : l = Len(s)
  BY <1>2, <1>3
<1>5. PICK v : v = SubSeq(s, n, l)
  OBVIOUS
<1>6. \A i \in n..l : s[i] \in Texts
  <2>1. s \in Seq(Texts)
    BY <1>3
  <2>2. \A i \in 1..Len(s) : s[i] \in Texts
    BY <2>1, ElementOfSeq
  <2> QED
    BY <1>2, <1>4, <2>2
<1>7. v \in Seq(Texts) /\ Len(v) = (IF n <= l THEN l - n + 1 ELSE 0)
      /\ \A i \in 1..(l - n + 1) : v[i] = s[n + i - 1]
  <2>1. n \in Int /\ l \in Int
    OBVIOUS
  <2>2. /\ SubSeq(s, n, l) \in Seq(Texts)
        /\ Len(SubSeq(s, n, l)) = IF n <= l THEN l - n + 1 ELSE 0
        /\ \A i \in 1..(l - n + 1) : SubSeq(s, n, l)[i] = s[n + i - 1]
    BY <1>6, <2>1, SubSeqProperties
  <2> QED
    BY <1>5, <2>2
<1>8. Len(v) = Len(r)
  BY <1>2, <1>3, <1>4, <1>7
<1>9. \A i \in 1..Len(r) : v[i] = r[i]
  <2> TAKE i \in 1..Len(r)
  <2>1. i \in 1..(l - n + 1) /\ n + i - 1 = Len(a) + i
    BY <1>2, <1>3, <1>4
  <2>2. Len(a) + i \in 1..(Len(a) + Len(r)) /\ ~(Len(a) + i <= Len(a)) /\ (Len(a) + i) - Len(a) = i
    BY <1>2
  <2> QED
    BY <1>3, <1>7, <2>1, <2>2
<1>10. v = r
  BY <1>7, <1>8, <1>9, SeqEqual
<1>11. Cat(a, r) = s
  BY <1>1, Zenon DEF Cat
<1> QED
  BY <1>4, <1>5, <1>10, <1>11 DEF From

(* What both servers find behind those words are the words of the rest.    *)
LEMMA WordsBehind ==
    ASSUME NEW t \in Texts
    PROVE  /\ From(str_tokenize(Two \o t), 3) = W(t)
           /\ From(str_tokenize(Three \o t), 4) = W(t)
           /\ Tail(str_tokenize(X \o t)) = W(t)
<1>1. \A p : str_tokenize(p) = Ts(p, Blank)
  BY Zenon DEF str_tokenize, Ts, Blank
<1>2. PICK w \in Seq(Texts) : w = W(t)
  BY WordsAre DEF WordsOf
<1>3. PICK a : a = Ts(Two, Blank)
  OBVIOUS
<1>4. PICK b : b = Ts(Three, Blank)
  OBVIOUS
<1>5. a \in Seq(Texts) /\ Len(a) = 2 /\ b \in Seq(Texts) /\ Len(b) = 3
  BY <1>3, <1>4, FrontWords
<1>6. Ts(Two \o t, Blank) = Cat(a, w) /\ Ts(Three \o t, Blank) = Cat(b, w)
  BY <1>2, <1>3, <1>4, FrontWords, Behind
<1>7. 3 = Len(a) + 1 /\ 4 = Len(b) + 1 /\ 3 \in Nat /\ 4 \in Nat
  BY <1>5
<1>8. From(Cat(a, w), 3) = w
  BY <1>5, <1>7, FromBehind
<1>9. From(Cat(b, w), 4) = w
  BY <1>5, <1>7, FromBehind
<1>10. Tail(str_tokenize(X \o t)) = W(t)
  BY <1>1, Zenon DEF W
<1> QED
  BY <1>1, <1>2, <1>6, <1>8, <1>9, <1>10

(* What the client typed, and when a word in it is empty.                  *)
LEMMA TypedIs ==
    ASSUME Typing
    PROVE  /\ Typed = W(text) /\ W(text) \in Seq(Texts) /\ AllClean(W(text))
           /\ EmptyWord <=> Holes(W(text))
<1>1. text \in Texts /\ DOMAIN text = 1..Len(text)
  BY TypingText
<1>2. Typed = Tail(str_tokenize(X \o text))
  BY Zenon DEF Typed, X
<1>3. Typed = W(text)
  BY <1>1, <1>2, WordsBehind
<1>4. WordsOf(text, W(text), G(text))
  BY <1>1, WordsAre
<1>5. EmptyWord <=> EmptyIn(text)
  BY <1>1, Zenon DEF EmptyWord, EmptyIn, Blank
<1> QED
  BY <1>3, <1>4, <1>5 DEF WordsOf

(* PeerWrite, by the words of the message.                                 *)
LEMMA PeerWriteIs ==
    ASSUME NEW m \in Texts
    PROVE  PeerWrite(m) =
             IF W(m) = <<>> THEN Refused
             ELSE Accepted(Word, MessageOf(W(m), "peer"))
<1>1. PeerWords(str_tokenize(Three \o m)) = W(m)
  BY WordsBehind, Zenon DEF PeerWords
<1> QED
  BY <1>1, Zenon DEF PeerWrite, Three, Two, Worded, X

(* WriteReplicated, of every text.                                         *)
LEMMA Written ==
    ASSUME Typing
    PROVE  WriteReplicated
<1>1. PICK ws : ws = W(text)
  OBVIOUS
<1>2. /\ Typed = ws /\ ws \in Seq(Texts) /\ AllClean(ws)
      /\ EmptyWord <=> Holes(ws)
  BY <1>1, TypedIs
<1>3. PICK m : m = MessageOf(ws, "master")
  OBVIOUS
<1>4. MasterWrite = IF ws = <<>> THEN Refused ELSE Accepted(Word, m)
  BY <1>2, <1>3, Zenon DEF MasterWrite
<1>5. CASE ws = <<>>
  <2>1. ~MasterWrite.accepted
    BY <1>4, <1>5 DEF Refused
  <2> QED
    BY <2>1, Zenon DEF WriteReplicated
<1>6. CASE ws # <<>>
  <2>1. m \in Texts /\ Len(ws) \in Nat /\ Len(ws) # 0
    BY <1>2, <1>3, <1>6, MessageIs
  <2>2. PICK u : u = W(m)
    OBVIOUS
  <2>3. PICK v : v = MessageOf(u, "peer")
    OBVIOUS
  <2>4. PeerWrite(m) = IF u = <<>> THEN Refused ELSE Accepted(Word, v)
    BY <2>1, <2>2, <2>3, PeerWriteIs
  <2>5. MasterWrite = Accepted(Word, m) /\ MasterWrite.message = m
    BY <1>4, <1>6 DEF Accepted
  <2>6. PeerWrite(m) = Accepted(Word, m) <=> u # <<>> /\ v = m
    <3>1. Accepted(Word, m).accepted /\ ~Refused.accepted
      BY DEF Accepted, Refused
    <3>2. Accepted(Word, m).message = m /\ Accepted(Word, v).message = v
      BY DEF Accepted
    <3>3. CASE u = <<>>
      BY <2>4, <3>1, <3>3, Zenon
    <3>4. CASE u # <<>>
      BY <2>4, <3>2, <3>4, Zenon
    <3> QED
      BY <3>3, <3>4
  <2>7. ASSUME u # <<>>, v = m
        PROVE  Whole(ws) /\ (Len(ws) # 1 => "master" \notin old /\ "peer" \notin old)
    BY <1>2, <1>3, <1>6, <2>2, <2>3, <2>7, MessageLost
  <2>8. ASSUME Whole(ws), Len(ws) # 1 => "master" \notin old /\ "peer" \notin old
        PROVE  u # <<>> /\ v = m
    BY <1>2, <1>3, <1>6, <2>2, <2>3, <2>8, MessageKept
  <2>9. Whole(ws) <=> ~EmptyWord
    BY <1>2 DEF Whole
  <2>10. (Len(ws) # 1 => "master" \notin old /\ "peer" \notin old)
           <=> (Len(ws) > 1 => old \cap {"master", "peer"} = {})
    <3>1. Len(ws) > 1 <=> Len(ws) # 1
      <4>1. PICK n \in Nat : n = Len(ws)
        BY <2>1
      <4>2. n # 0
        BY <2>1, <4>1
      <4>3. n > 1 <=> n # 1
        BY <4>2
      <4> QED
        BY <4>1, <4>3, Zenon
    <3>2. old \cap {"master", "peer"} = {} <=> "master" \notin old /\ "peer" \notin old
      OBVIOUS
    <3> QED
      BY <3>1, <3>2, Zenon
  <2>11. PeerWrite(MasterWrite.message) = MasterWrite
           <=> ~EmptyWord /\ (Len(Typed) > 1 => old \cap {"master", "peer"} = {})
    BY <1>2, <2>5, <2>6, <2>7, <2>8, <2>9, <2>10
  <2> QED
    BY <2>11, Zenon DEF WriteReplicated
<1> QED
  BY <1>5, <1>6

(* server_operations.cc:160-177, peer_operations.cc:201-215: a peer stores *)
(* for a WRITE what the client's server stores, whatever is typed, exactly *)
(* if no word is empty and the memory in which messages of several words   *)
(* are built is clean.                                                     *)
THEOREM WritesReplicated == TextSpec => []WriteReplicated
<1>1. Typing => WriteReplicated
  BY Written
<1> QED
  BY <1>1, AlwaysTyping, PTL

-----------------------------------------------------------------------------
(* REPLACE *)

Slash == "/"
Slashes == {Slash}

(* TokensAppend, for slashes and a character that is no blank.             *)
LEMMA SlashStep ==
    ASSUME NEW p \in Texts, NEW c \in Letters, c # Space
    PROVE  /\ At(Append(p, c), Slashes) = Gap <=> c = Slash
           /\ At(p, Slashes) = Gap =>
                 Ts(Append(p, c), Slashes) =
                     Append(Ts(p, Slashes), IF c = Slash THEN <<>> ELSE <<c>>)
           /\ At(p, Slashes) # Gap =>
                 Ts(Append(p, c), Slashes) =
                     IF c = Slash THEN Ts(p, Slashes) ELSE Extend(Ts(p, Slashes), <<c>>)
<1>1. PICK at : at = At(p, Slashes)
  OBVIOUS
<1>2. PICK ts : ts = Ts(p, Slashes)
  OBVIOUS
<1>3. /\ At(Append(p, c), Slashes) = Then(at, c, Slashes)
      /\ Ts(Append(p, c), Slashes) = More(ts, at, c, Slashes)
  BY <1>1, <1>2, TokensAppend
<1>4. c = Slash <=> c \in Slashes
  BY DEF Slashes
<1>5. Then(at, c, Slashes) = IF c = Slash THEN Gap ELSE "word"
  BY <1>4 DEF Then, Space
<1>6. More(ts, at, c, Slashes) = IF at = Gap THEN Append(ts, IF c = Slash THEN <<>> ELSE <<c>>)
                                 ELSE IF c = Slash THEN ts ELSE Extend(ts, <<c>>)
  BY <1>4 DEF More, Space
<1>7. Gap # "word"
  BY DEF Gap
<1> QED
  BY <1>1, <1>2, <1>3, <1>5, <1>6, <1>7

(* A slash is none of the other characters.                                *)
LEMMA SlashLetter == Slash \in Letters /\ Slash # Space /\ Slash # Stale /\ Slash # End
  BY DEF Slash, Letters, Characters, Space, Stale, End

(* Tokens, with a slash before each but the first. *)
LEMMA SlashedIs ==
    /\ \A w \in Texts : Slashed(<<w>>) = w
    /\ \A ws \in Seq(Texts) : \A w \in Texts : ws # <<>> =>
          /\ Slashed(ws) \in Texts
          /\ Slashed(Append(ws, w)) = Cat(Put(Slashed(ws), Slash), w)
<1>1. PICK b : b = <<Slash>>
  OBVIOUS
<1>2. b \in Texts
  BY <1>1, SlashLetter, Single
<1>3. \A ws : Slashed(ws) = Cat(Head(ws), FlattenSeq(Fore(b, Tail(ws))))
  BY <1>1, Zenon DEF Slashed, Fore, Cat, Slash
<1>4. Fore(b, <<>>) = <<>>
  BY DEF Fore
<1>5. ASSUME NEW w \in Texts PROVE Slashed(<<w>>) = w
  <2>1. Head(<<w>>) = w /\ Tail(<<w>>) = <<>>
    OBVIOUS
  <2>2. Cat(w, <<>>) = w
    BY CatIs DEF Texts
  <2> QED
    BY <1>3, <1>4, <2>1, <2>2, FlattenText
<1>6. ASSUME NEW ws \in Seq(Texts), NEW w \in Texts, ws # <<>>
      PROVE  /\ Slashed(ws) \in Texts
             /\ Slashed(Append(ws, w)) = Cat(Put(Slashed(ws), Slash), w)
  <2>1. PICK h \in Texts : h = Head(ws)
    BY <1>6, HeadTailProperties
  <2>2. PICK t \in Seq(Texts) : t = Tail(ws)
    BY <1>6, HeadTailProperties
  <2>3. Head(Append(ws, w)) = h /\ Tail(Append(ws, w)) = Append(t, w)
    BY <1>6, <2>1, <2>2, HeadTailAppend
  <2>4. PICK f \in Seq(Texts) : f = Fore(b, t)
    BY <1>2, MapAppend
  <2>5. PICK x \in Texts : x = Cat(b, w)
    BY <1>2, MapAppend
  <2>6. Fore(b, Append(t, w)) = Append(f, x)
    <3>1. Fore(b, Put(t, w)) = Put(Fore(b, t), Cat(b, w))
      BY <1>2, MapAppend
    <3>2. Fore(b, Put(t, w)) = Put(f, x)
      BY <2>4, <2>5, <3>1
    <3> QED
      BY <3>2, Zenon DEF Put
  <2>7. PICK g \in Texts : g = FlattenSeq(f)
    BY FlattenText
  <2>8. FlattenSeq(Append(f, x)) = Cat(g, x)
    BY <2>7, FlattenText
  <2>9. PICK s : s = Cat(h, g)
    OBVIOUS
  <2>10. s \in Texts /\ Slashed(ws) = s
    BY <1>3, <2>1, <2>2, <2>4, <2>7, <2>9, CatIs DEF Texts
  <2>11. Slashed(Append(ws, w)) = Cat(h, Cat(g, x))
    BY <1>3, <2>3, <2>6, <2>8
  <2>12. Cat(h, Cat(g, x)) = Cat(s, x)
    BY <2>9, CatIs DEF Texts
  <2>13. Cat(s, Cat(<<Slash>>, w)) = Cat(Append(s, Slash), w)
    BY <2>10, SlashLetter, ConcatThree
  <2>14. Slashed(Append(ws, w)) = Cat(Append(s, Slash), w)
    BY <1>1, <2>5, <2>11, <2>12, <2>13
  <2> QED
    BY <2>10, <2>14, Zenon DEF Put
<1> QED
  BY <1>5, <1>6

(* The first of several tokens, and the rest behind a slash.               *)
LEMMA SlashedBehind ==
    ASSUME NEW ts \in Seq(Texts), Len(ts) >= 2
    PROVE  /\ Tail(ts) \in Seq(Texts) /\ Tail(ts) # <<>> /\ ts # <<>> /\ ts[1] \in Texts
           /\ Slashed(Tail(ts)) \in Texts
           /\ Slashed(ts) = Cat(ts[1], Cat(<<Slash>>, Slashed(Tail(ts))))
<1>1. PICK b \in Texts : b = <<Slash>>
  BY SlashLetter, Single
<1>2. \A ws : Slashed(ws) = Cat(Head(ws), FlattenSeq(Fore(b, Tail(ws))))
  BY <1>1, Zenon DEF Slashed, Fore, Cat, Slash
<1> DEFINE Joined(ws) == FlattenSeq(Fore(b, ws))
           T == {ws \in Seq(Texts) : ws # <<>> => Joined(ws) = Cat(b, Slashed(ws))}
<1>3. <<>> \in T
  OBVIOUS
<1>4. ASSUME NEW ws \in Seq(Texts), ws \in T, NEW w \in Texts PROVE Append(ws, w) \in T
  <2>1. Append(ws, w) \in Seq(Texts)
    BY AppendProperties
  <2>2. PICK f \in Seq(Texts) : f = Fore(b, ws)
    BY MapAppend
  <2>3. PICK x \in Texts : x = Cat(b, w)
    BY MapAppend
  <2>4. Fore(b, Append(ws, w)) = Append(f, x)
    <3>1. Fore(b, Put(ws, w)) = Put(Fore(b, ws), Cat(b, w))
      BY MapAppend
    <3>2. Fore(b, Put(ws, w)) = Put(f, x)
      BY <2>2, <2>3, <3>1
    <3> QED
      BY <3>2, Zenon DEF Put
  <2>5. PICK g \in Texts : g = FlattenSeq(f)
    BY FlattenText
  <2>6. Joined(Append(ws, w)) = Cat(g, x)
    BY <2>4, <2>5, FlattenText
  <2>7. CASE ws = <<>>
    <3>1. f = <<>>
      BY <2>2, <2>7 DEF Fore
    <3>2. g = <<>>
      BY <2>5, <3>1, FlattenText
    <3>3. Cat(g, x) = x
      BY <3>2, CatIs DEF Texts
    <3>4. Slashed(Append(ws, w)) = w
      <4>1. Append(ws, w) = <<w>>
        BY <2>7
      <4> QED
        BY <4>1, SlashedIs
    <3> QED
      BY <2>1, <2>3, <2>6, <3>3, <3>4
  <2>8. CASE ws # <<>>
    <3>1. PICK s \in Texts : s = Slashed(ws)
      BY <2>8, SlashedIs
    <3>2. g = Cat(b, s)
      BY <1>4, <2>2, <2>5, <2>8, <3>1
    <3>3. Slashed(Append(ws, w)) = Cat(Put(s, Slash), w)
      BY <2>8, <3>1, SlashedIs
    <3>4. Cat(s, Cat(b, w)) = Cat(Put(s, Slash), w)
      <4>1. Cat(s, Cat(<<Slash>>, w)) = Cat(Append(s, Slash), w)
        BY SlashLetter, ConcatThree
      <4> QED
        BY <1>1, <4>1, Zenon DEF Put
    <3>5. Cat(b, Cat(s, x)) = Cat(Cat(b, s), x)
      BY CatIs DEF Texts
    <3> QED
      BY <2>1, <2>3, <2>6, <3>2, <3>3, <3>4, <3>5
  <2> QED
    BY <2>7, <2>8
<1>5. \A ws \in Seq(Texts) : ws \in T
  <2> HIDE DEF T
  <2> QED
    BY <1>3, <1>4, FromEmpty
<1>6. ts # <<>> /\ Tail(ts) # <<>> /\ Tail(ts) \in Seq(Texts) /\ Head(ts) = ts[1] /\ ts[1] \in Texts
  <2>1. ts # <<>>
    BY EmptySeq
  <2>2. PICK n \in Nat : n = Len(ts)
    BY LenProperties
  <2>3. Tail(ts) \in Seq(Texts) /\ Len(Tail(ts)) = n - 1 /\ n - 1 # 0
    BY <2>1, <2>2, HeadTailProperties
  <2>4. Tail(ts) # <<>>
    BY <2>3, EmptySeq
  <2>5. 1 \in 1..Len(ts)
    BY <2>2
  <2> QED
    BY <2>1, <2>3, <2>4, <2>5, ElementOfSeq
<1>7. Slashed(Tail(ts)) \in Texts
  BY <1>6, SlashedIs
<1>8. FlattenSeq(Fore(b, Tail(ts))) = Cat(b, Slashed(Tail(ts)))
  BY <1>5, <1>6
<1> QED
  BY <1>1, <1>2, <1>6, <1>7, <1>8

(* The last token's growth is that of the whole.                           *)
LEMMA SlashedExtend ==
    ASSUME NEW ts \in Seq(Texts), ts # <<>>, NEW r \in Texts
    PROVE  Slashed(Extend(ts, r)) = Cat(Slashed(ts), r)
<1>1. PICK n \in Nat : Len(ts) = n + 1
  <2>1. Len(ts) \in Nat /\ Len(ts) # 0
    BY LenProperties, EmptySeq
  <2>2. Len(ts) - 1 \in Nat /\ Len(ts) = (Len(ts) - 1) + 1
    BY <2>1
  <2> QED
    BY <2>2
<1>2. PICK f \in Seq(Texts), l \in Texts : ts = Append(f, l) /\ Len(f) = n
  BY <1>1, Shorter
<1>3. PICK x \in Texts : x = Cat(l, r)
  <2>1. Cat(l, r) \in Texts
    BY CatIs DEF Texts
  <2> QED
    BY <2>1
<1>4. x = l \o r
  BY <1>3, Zenon DEF Cat
<1>5. Extend(ts, r) = Append(f, x)
  <2>1. PICK e : e = Extend(ts, r)
    OBVIOUS
  <2>2. PICK a : a = Append(f, x)
    OBVIOUS
  <2>3. e \in Seq(Texts) /\ Len(e) = n + 1
        /\ \A h \in 1..(n + 1) : e[h] = IF h = n + 1 THEN ts[h] \o r ELSE ts[h]
    <3>1. /\ Extend(ts, r) \in Seq(Texts) /\ Len(Extend(ts, r)) = Len(ts)
          /\ \A h \in 1..Len(ts) :
                Extend(ts, r)[h] = IF h = Len(ts) THEN ts[h] \o r ELSE ts[h]
      BY ExtendIs
    <3> QED
      BY <1>1, <2>1, <3>1
  <2>4. a \in Seq(Texts) /\ Len(a) = n + 1 /\ a[n + 1] = x /\ \A h \in 1..n : a[h] = f[h]
    BY <1>2, <2>2, AppendProperties
  <2>5. ts[n + 1] = l /\ \A h \in 1..n : ts[h] = f[h]
    BY <1>2, AppendProperties
  <2>6. \A h \in 1..(n + 1) : e[h] = a[h]
    <3> TAKE h \in 1..(n + 1)
    <3>1. CASE h = n + 1
      <4>1. e[n + 1] = ts[n + 1] \o r
        BY <2>3
      <4>2. e[n + 1] = x
        BY <1>4, <2>5, <4>1
      <4> QED
        BY <2>4, <3>1, <4>2
    <3>2. CASE h # n + 1
      <4>1. e[h] = ts[h]
        BY <2>3, <3>2
      <4>2. h \in 1..n
        BY <3>2
      <4> QED
        BY <2>4, <2>5, <4>1, <4>2
    <3> QED
      BY <3>1, <3>2
  <2> QED
    BY <2>1, <2>2, <2>3, <2>4, <2>6, SeqEqual
<1>6. CASE f = <<>>
  <2>1. ts = <<l>> /\ Append(f, x) = <<x>>
    BY <1>2, <1>6
  <2> QED
    BY <1>3, <1>5, <2>1, SlashedIs
<1>7. CASE f # <<>>
  <2>1. PICK s \in Texts : s = Slashed(f)
    BY <1>7, SlashedIs
  <2>2. PICK y : y = Put(s, Slash)
    OBVIOUS
  <2>3. y \in Texts
    <3>1. Append(s, Slash) \in Texts
      BY SlashLetter, ConcatThree
    <3> QED
      BY <2>2, <3>1, Zenon DEF Put
  <2>4. Slashed(Append(f, l)) = Cat(y, l) /\ Slashed(Append(f, x)) = Cat(y, x)
    BY <1>7, <2>1, <2>2, SlashedIs
  <2>5. Cat(y, Cat(l, r)) = Cat(Cat(y, l), r)
    BY <2>3, CatIs DEF Texts
  <2> QED
    BY <1>2, <1>3, <1>5, <2>4, <2>5
<1> QED
  BY <1>6, <1>7
(* What the parts of a text tell of it, which has no blank: put together   *)
(* again they are the text, and the first of them has no slash.            *)
Bare(w) == \A j \in 1..Len(w) : w[j] # Slash
Solid(p) == \A j \in 1..Len(p) : p[j] # Space
PartsOf(p, ts, at) ==
    /\ ts \in Seq(Texts) /\ Len(ts) \in Nat /\ Len(ts) >= 1 /\ ts[1] \in Texts
    /\ at \in {Gap, "word"}
    /\ at = Gap <=> p # <<>> /\ p[Len(p)] = Slash
    /\ p = IF at = Gap THEN Put(Slashed(ts), Slash) ELSE Slashed(ts)
    /\ Bare(ts[1])

(* A character keeps what the parts tell of the text.                      *)
LEMMA PartsNext ==
    ASSUME NEW p \in Texts, NEW c \in Letters, c # Space,
           PartsOf(p, Ts(p, Slashes), At(p, Slashes))
    PROVE  PartsOf(Append(p, c), Ts(Append(p, c), Slashes), At(Append(p, c), Slashes))
<1>1. PICK ts : ts = Ts(p, Slashes)
  OBVIOUS
<1>2. PICK at : at = At(p, Slashes)
  OBVIOUS
<1>3. PICK q : q = Append(p, c)
  OBVIOUS
<1>4. PICK us : us = Ts(q, Slashes)
  OBVIOUS
<1>5. PICK bt : bt = At(q, Slashes)
  OBVIOUS
<1>6. /\ ts \in Seq(Texts) /\ Len(ts) \in Nat /\ Len(ts) >= 1 /\ ts[1] \in Texts
      /\ at \in {Gap, "word"}
      /\ Bare(ts[1])
      /\ p = IF at = Gap THEN Put(Slashed(ts), Slash) ELSE Slashed(ts)
  BY <1>1, <1>2, Zenon DEF PartsOf
<1>7. /\ bt = Gap <=> c = Slash
      /\ at = Gap => us = Append(ts, IF c = Slash THEN <<>> ELSE <<c>>)
      /\ at # Gap => us = IF c = Slash THEN ts ELSE Extend(ts, <<c>>)
  BY <1>1, <1>2, <1>3, <1>4, <1>5, SlashStep
<1>8. q \in Texts /\ q # <<>> /\ q[Len(q)] = c
  <2>1. p \in Seq(Letters)
    BY DEF Texts
  <2>2. Append(p, c) \in Seq(Letters) /\ Append(p, c) # <<>>
        /\ Len(Append(p, c)) = Len(p) + 1 /\ Append(p, c)[Len(p) + 1] = c
    BY <2>1, AppendProperties
  <2> QED
    BY <1>3, <2>2 DEF Texts
<1>9. bt \in {Gap, "word"} /\ us \in Seq(Texts) /\ Len(us) \in Nat /\ Len(us) >= 1 /\ us[1] \in Texts
  <2>1. bt \in {Gap, "word"}
    BY <1>5, <1>8, TokensAppend, SlashLetter
  <2>2. PICK s : s = Scan(q, Slashes, Len(q))
    OBVIOUS
  <2>3. us \in Seq(Texts) /\ Len(us) = Len(s.starts) /\ Len(s.starts) \in Nat /\ Len(s.starts) >= 1
    BY <1>4, <1>8, <2>2, TsIs
  <2>4. 1 \in 1..Len(us)
    BY <2>3
  <2> QED
    BY <2>1, <2>3, <2>4, ElementOfSeq
<1>a. ts # <<>>
  BY <1>6, EmptySeq
<1>b. PICK s \in Texts : s = Slashed(ts)
  BY <1>6, <1>a, SlashedIs
<1>10. CASE at = Gap
  <2>1. PICK w : w = IF c = Slash THEN <<>> ELSE <<c>>
    OBVIOUS
  <2>2. w \in Texts
    BY <2>1, Single
  <2>3. us = Append(ts, w)
    BY <1>7, <1>10, <2>1
  <2>4. us[1] = ts[1]
    BY <1>6, <2>2, <2>3, AppendProperties
  <2>5. Slashed(us) = Cat(p, w)
    <3>1. Slashed(Append(ts, w)) = Cat(Put(s, Slash), w)
      BY <1>6, <1>a, <1>b, <2>2, SlashedIs
    <3> QED
      BY <1>6, <1>10, <1>b, <2>3, <3>1
  <2>6. CASE c = Slash
    <3>1. Cat(p, w) = p
      BY <2>1, <2>6, CatIs DEF Texts
    <3>2. q = Put(p, Slash)
      BY <1>3, <2>6, Zenon DEF Put
    <3>3. bt = Gap
      BY <1>7, <2>6
    <3>4. q = Put(Slashed(us), Slash)
      BY <2>5, <3>1, <3>2
    <3> QED
      BY <1>3, <1>4, <1>5, <1>6, <1>8, <1>9, <2>4, <2>6, <3>3, <3>4, Zenon DEF PartsOf
  <2>7. CASE c # Slash
    <3>1. w = <<c>>
      BY <2>1, <2>7
    <3>2. Append(p, c) = p \o <<c>>
      BY AppendIsConcat DEF Texts
    <3>3. q = Cat(p, w)
      BY <1>3, <3>1, <3>2, Zenon DEF Cat
    <3>4. bt # Gap
      BY <1>7, <2>7
    <3>5. q = Slashed(us)
      BY <2>5, <3>3
    <3> QED
      BY <1>3, <1>4, <1>5, <1>6, <1>8, <1>9, <2>4, <2>7, <3>4, <3>5, Zenon DEF PartsOf
  <2> QED
    BY <2>6, <2>7
<1>11. CASE at # Gap
  <2>1. p = s
    BY <1>6, <1>11, <1>b
  <2>2. CASE c = Slash
    <3>1. us = ts /\ bt = Gap
      BY <1>7, <1>11, <2>2
    <3>2. q = Put(Slashed(us), Slash)
      BY <1>3, <1>b, <2>1, <2>2, <3>1, Zenon DEF Put
    <3> QED
      BY <1>3, <1>4, <1>5, <1>6, <1>8, <1>9, <2>2, <3>1, <3>2, Zenon DEF PartsOf
  <2>3. CASE c # Slash
    <3>1. us = Extend(ts, <<c>>) /\ bt # Gap
      BY <1>7, <1>11, <2>3
    <3>2. PICK w \in Texts : w = <<c>>
      BY Single
    <3>3. Slashed(us) = Cat(s, w)
      BY <1>6, <1>a, <1>b, <3>1, <3>2, SlashedExtend
    <3>4. Append(p, c) = p \o <<c>>
      BY AppendIsConcat DEF Texts
    <3>5. q = Slashed(us)
      BY <1>3, <2>1, <3>2, <3>3, <3>4, Zenon DEF Cat
    <3>6. Bare(us[1])
      <4>1. /\ Extend(ts, w) \in Seq(Texts) /\ Len(Extend(ts, w)) = Len(ts)
            /\ \A h \in 1..Len(ts) :
                  Extend(ts, w)[h] = IF h = Len(ts) THEN ts[h] \o w ELSE ts[h]
        BY <1>6, ExtendIs
      <4>2. 1 \in 1..Len(ts)
        BY <1>6
      <4>3. CASE Len(ts) # 1
        <5>1. us[1] = ts[1]
          BY <3>1, <3>2, <4>1, <4>2, <4>3
        <5> QED
          BY <1>6, <5>1
      <4>4. CASE Len(ts) = 1
        <5>1. PICK a \in Texts : a = ts[1]
          BY <1>6
        <5>2. us[1] = a \o w
          BY <3>1, <3>2, <4>1, <4>2, <4>4, <5>1
        <5>3. Append(a, c) = a \o <<c>>
          BY AppendIsConcat DEF Texts
        <5>4. PICK b : b = Append(a, c)
          OBVIOUS
        <5>5. us[1] = b
          BY <3>2, <5>2, <5>3, <5>4
        <5>6. a \in Seq(Letters) /\ Len(a) \in Nat
          BY TextBasics DEF Texts
        <5>7. Len(b) = Len(a) + 1 /\ b[Len(a) + 1] = c /\ \A j \in 1..Len(a) : b[j] = a[j]
          BY <5>4, <5>6, AppendProperties
        <5>8. \A j \in 1..Len(a) : a[j] # Slash
          BY <1>6, <5>1 DEF Bare
        <5>9. \A j \in 1..Len(b) : b[j] # Slash
          BY <2>3, <5>6, <5>7, <5>8
        <5> QED
          BY <5>5, <5>9 DEF Bare
      <4> QED
        BY <4>3, <4>4
    <3> QED
      BY <1>3, <1>4, <1>5, <1>8, <1>9, <2>3, <3>1, <3>5, <3>6, Zenon DEF PartsOf
  <2> QED
    BY <2>2, <2>3
<1> QED
  BY <1>10, <1>11

(* So they tell it of every text without a blank.                          *)
LEMMA PartsAre ==
    ASSUME NEW w \in Texts, Solid(w)
    PROVE  PartsOf(w, Ts(w, Slashes), At(w, Slashes))
<1> DEFINE T == {p \in Texts : Solid(p) => PartsOf(p, Ts(p, Slashes), At(p, Slashes))}
<1>1. <<>> \in T
  <2>1. PICK e \in Texts : e = <<>>
    BY TsEmpty
  <2>2. PICK ts : ts = <<e>>
    OBVIOUS
  <2>3. Ts(e, Slashes) = ts /\ At(e, Slashes) = "word" /\ Gap # "word"
    BY <2>1, <2>2, TsEmpty DEF Gap
  <2>4. Slashed(ts) = e
    BY <2>2, SlashedIs
  <2>5. ts \in Seq(Texts) /\ Len(ts) = 1 /\ ts[1] = e
    BY <2>2
  <2>6. Bare(e)
    BY <2>1 DEF Bare
  <2>7. PartsOf(e, ts, "word")
    BY <2>1, <2>3, <2>4, <2>5, <2>6 DEF PartsOf
  <2> QED
    BY <2>1, <2>3, <2>7
<1>2. ASSUME NEW p \in Texts, p \in T, NEW c \in Letters PROVE Append(p, c) \in T
  <2>1. PICK q : q = Append(p, c)
    OBVIOUS
  <2>2. Len(p) \in Nat
    BY TextBasics
  <2>3. q \in Texts /\ Len(q) = Len(p) + 1 /\ q[Len(p) + 1] = c
        /\ \A j \in 1..Len(p) : q[j] = p[j]
    BY <2>1, AppendProperties DEF Texts
  <2>4. ASSUME Solid(q) PROVE Solid(p) /\ c # Space
    BY <2>2, <2>3, <2>4 DEF Solid
  <2>5. ASSUME Solid(q) PROVE PartsOf(q, Ts(q, Slashes), At(q, Slashes))
    <3>1. PartsOf(p, Ts(p, Slashes), At(p, Slashes)) /\ c # Space
      BY <1>2, <2>4, <2>5
    <3> QED
      BY <2>1, <3>1, PartsNext
  <2> QED
    BY <2>1, <2>3, <2>5
<1>3. \A p \in Seq(Letters) : p \in T
  <2>1. \A p \in Seq(Letters) : p \in T => \A c \in Letters : Append(p, c) \in T
    BY <1>2 DEF Texts
  <2> HIDE DEF T
  <2> QED
    BY <1>1, <2>1, FromEmpty
<1> QED
  BY <1>3 DEF Texts
(* Elements of two texts in a row.                                         *)
LEMMA CatText ==
    ASSUME NEW p \in Texts, NEW r \in Texts
    PROVE  LET q == Cat(p, r)
           IN  /\ q \in Texts /\ Len(q) = Len(p) + Len(r)
               /\ Len(p) \in Nat /\ Len(r) \in Nat /\ Len(q) \in Nat
               /\ \A i \in 1..Len(p) : q[i] = p[i]
               /\ \A i \in 1..Len(r) : q[Len(p) + i] = r[i]
<1>1. PICK q : q = p \o r
  OBVIOUS
<1>2. Len(p) \in Nat /\ Len(r) \in Nat /\ p \in Seq(Letters) /\ r \in Seq(Letters)
  BY TextBasics DEF Texts
<1>3. /\ p \o r \in Seq(Letters) /\ Len(p \o r) = Len(p) + Len(r)
      /\ \A i \in 1..(Len(p) + Len(r)) :
            (p \o r)[i] = IF i <= Len(p) THEN p[i] ELSE r[i - Len(p)]
  BY <1>2, ConcatProperties
<1>4. q \in Seq(Letters) /\ Len(q) = Len(p) + Len(r)
      /\ \A i \in 1..(Len(p) + Len(r)) : q[i] = IF i <= Len(p) THEN p[i] ELSE r[i - Len(p)]
  BY <1>1, <1>3
<1>5. \A i \in 1..Len(p) : q[i] = p[i]
  BY <1>2, <1>4
<1>6. \A i \in 1..Len(r) : q[Len(p) + i] = r[i]
  <2> TAKE i \in 1..Len(r)
  <2>1. Len(p) + i \in 1..(Len(p) + Len(r)) /\ ~(Len(p) + i <= Len(p)) /\ (Len(p) + i) - Len(p) = i
    BY <1>2
  <2> QED
    BY <1>4, <2>1
<1>7. Cat(p, r) = q
  BY <1>1, Zenon DEF Cat
<1> QED
  BY <1>2, <1>4, <1>5, <1>6, <1>7 DEF Texts

(* A part that reaches to the end grows with the text.                     *)
LEMMA SubBehind ==
    ASSUME NEW p \in Texts, NEW r \in Texts, NEW q, q = Cat(p, r),
           NEW b \in 1..(Len(p) + 1)
    PROVE  SubSeq(q, b, Len(q)) = SubSeq(p, b, Len(p)) \o r
<1>1. /\ q \in Texts /\ Len(q) = Len(p) + Len(r)
      /\ Len(p) \in Nat /\ Len(r) \in Nat /\ Len(q) \in Nat
      /\ \A i \in 1..Len(p) : q[i] = p[i]
      /\ \A i \in 1..Len(r) : q[Len(p) + i] = r[i]
  BY CatText
<1>2. PICK n \in Nat : n = Len(p)
  BY <1>1
<1>3. PICK l \in Nat : l = Len(r)
  BY <1>1
<1>4. PICK u : u = SubSeq(q, b, n + l)
  OBVIOUS
<1>5. PICK v : v = SubSeq(p, b, n)
  OBVIOUS
<1>6. /\ v \in Seq(Letters) /\ Len(v) = n - b + 1
      /\ \A i \in 1..(n - b + 1) : v[i] = p[b + i - 1]
  <2>1. \A i \in b..n : p[i] \in Letters
    BY <1>2, TextBasics
  <2>2. /\ v \in Seq(Letters) /\ Len(v) = IF b <= n THEN n - b + 1 ELSE 0
        /\ \A i \in 1..(n - b + 1) : v[i] = p[b + i - 1]
    BY <1>2, <1>5, <2>1, SubSeqProperties
  <2> QED
    BY <1>2, <2>2
<1>7. /\ u \in Seq(Letters) /\ Len(u) = n + l - b + 1
      /\ \A i \in 1..(n + l - b + 1) : u[i] = q[b + i - 1]
  <2>1. \A i \in b..(n + l) : q[i] \in Letters
    <3>1. \A i \in 1..Len(q) : q[i] \in Letters
      BY <1>1, TextBasics
    <3> QED
      BY <1>1, <1>2, <1>3, <3>1
  <2>2. /\ u \in Seq(Letters) /\ Len(u) = IF b <= n + l THEN n + l - b + 1 ELSE 0
        /\ \A i \in 1..(n + l - b + 1) : u[i] = q[b + i - 1]
    BY <1>2, <1>3, <1>4, <2>1, SubSeqProperties
  <2> QED
    BY <1>2, <1>3, <2>2
<1>8. PICK x : x = v \o r
  OBVIOUS
<1>9. /\ x \in Seq(Letters) /\ Len(x) = Len(v) + l
      /\ \A i \in 1..(Len(v) + l) : x[i] = IF i <= Len(v) THEN v[i] ELSE r[i - Len(v)]
  BY <1>3, <1>6, <1>8, ConcatProperties DEF Texts
<1>10. Len(x) = Len(u)
  BY <1>2, <1>6, <1>7, <1>9
<1>11. \A i \in 1..Len(u) : u[i] = x[i]
  <2> TAKE i \in 1..Len(u)
  <2>1. i \in 1..(n + l - b + 1) /\ i \in 1..(Len(v) + l) /\ i \in Nat
    BY <1>2, <1>3, <1>6, <1>7
  <2>2. u[i] = q[b + i - 1]
    BY <1>7, <2>1
  <2>3. CASE i <= Len(v)
    <3>1. b + i - 1 \in 1..n /\ i \in 1..(n - b + 1)
      BY <1>2, <1>6, <2>1, <2>3
    <3>2. x[i] = v[i]
      BY <1>9, <2>1, <2>3
    <3> QED
      BY <1>1, <1>2, <1>6, <2>2, <3>1, <3>2
  <2>4. CASE ~(i <= Len(v))
    <3>1. PICK j : j = i - Len(v)
      OBVIOUS
    <3>2. j \in 1..l /\ b + i - 1 = n + j
      BY <1>2, <1>3, <1>6, <2>1, <2>4, <3>1
    <3>3. x[i] = r[j]
      BY <1>9, <2>1, <2>4, <3>1
    <3>4. q[n + j] = r[j]
      BY <1>1, <1>2, <1>3, <3>2
    <3> QED
      BY <2>2, <3>2, <3>3, <3>4
  <2> QED
    BY <2>3, <2>4
<1>12. u = x
  BY <1>7, <1>9, <1>10, <1>11, SeqEqual
<1> QED
  BY <1>1, <1>2, <1>3, <1>4, <1>5, <1>8, <1>12

(* Cut no further than p, a text that goes on keeps the rest with the last *)
(* of p's tokens.                                                          *)
LEMMA Window ==
    ASSUME NEW p \in Texts, NEW r \in Texts, NEW seps, At(p, seps) # Gap
    PROVE  Tokens(Cat(p, r), seps, Len(p)) = Extend(Ts(p, seps), r)
<1>1. PICK q : q = Cat(p, r)
  OBVIOUS
<1>2. /\ q \in Texts /\ Len(q) = Len(p) + Len(r)
      /\ Len(p) \in Nat /\ Len(r) \in Nat /\ Len(q) \in Nat
      /\ \A i \in 1..Len(p) : q[i] = p[i]
  BY <1>1, CatText
<1>3. Extends(q, p)
  BY <1>2 DEF Extends
<1>4. PICK s : s = Scan(p, seps, Len(p))
  OBVIOUS
<1>5. PICK st : st = s.starts
  OBVIOUS
<1>6. PICK zs : zs = s.zeros
  OBVIOUS
<1>7. Scan(q, seps, Len(p)) = s
  BY <1>2, <1>4, ScanLocal
<1>8. ~s.gap
  BY <1>4 DEF At
<1>9. Cut(s, Len(p))
  BY <1>2, <1>4, ScanCut
<1>10. /\ st \in Seq(1..(Len(p) + 1)) /\ Len(st) \in Nat /\ Len(st) >= 1 /\ DOMAIN st = 1..Len(st)
       /\ zs \subseteq 1..Len(p) /\ zs \subseteq Nat
       /\ \A h \in 1..Len(st) : st[h] \in 1..(Len(p) + 1)
  <2>1. st \in Seq(1..(Len(p) + 1)) /\ Len(st) >= 1 /\ zs \subseteq 1..Len(p)
    BY <1>9, <1>5, <1>6 DEF Cut
  <2>2. \A h \in 1..Len(st) : st[h] \in 1..(Len(p) + 1)
    BY <2>1, ElementOfSeq
  <2>3. \A z \in zs : z \in Nat
    BY <2>1
  <2> QED
    BY <2>1, <2>2, <2>3, LenProperties
<1>11. \A h \in 1..Len(st) : h # Len(st) => \E z \in zs : z >= st[h]
  BY <1>9, <1>5, <1>6 DEF Cut
<1>12. \A z \in zs : z < st[Len(st)]
  BY <1>8, <1>9, <1>5, <1>6 DEF Cut
<1>13. PICK ts : ts = Ts(p, seps)
  OBVIOUS
<1>14. /\ ts \in Seq(Texts) /\ Len(ts) = Len(st)
       /\ \A h \in 1..Len(ts) : ts[h] = Token(p, st[h], zs) /\ ts[h] \in Texts
  BY <1>4, <1>5, <1>6, <1>13, TsIs, ElementOfSeq
<1>15. PICK us : us = Tokens(q, seps, Len(p))
  OBVIOUS
<1>16. us = [h \in 1..Len(ts) |-> Token(q, st[h], zs)]
  <2>1. us = [h \in DOMAIN s.starts |-> Token(q, s.starts[h], s.zeros)]
    BY <1>7, <1>15 DEF Tokens
  <2> QED
    BY <1>5, <1>6, <1>10, <1>14, <2>1
<1>17. ASSUME NEW h \in 1..Len(ts)
       PROVE  Token(q, st[h], zs) = IF h = Len(ts) THEN ts[h] \o r ELSE ts[h]
  <2>1. st[h] \in Nat \ {0} /\ st[h] \in Nat /\ st[h] \in 1..(Len(p) + 1)
    BY <1>10, <1>14
  <2>2. CASE h # Len(ts)
    <3>1. \E z \in zs : z >= st[h]
      BY <1>11, <1>14, <2>2
    <3>2. {} \subseteq Nat /\ (\A y \in {} : y > Len(p)) /\ zs \cup {} = zs
      OBVIOUS
    <3>3. zs \subseteq 1..Len(p)
      BY <1>10
    <3>4. Closing(q, p, st[h], zs, {})
      BY <1>3, <2>1, <3>1, <3>2, <3>3 DEF Closing
    <3>5. Token(q, st[h], zs \cup {}) = Token(p, st[h], zs)
      BY <3>4, TokenStays
    <3> QED
      BY <1>14, <2>2, <3>2, <3>5
  <2>3. CASE h = Len(ts)
    <3>1. \A z \in zs : z < st[h]
      BY <1>12, <1>14, <2>3
    <3>2. zs \subseteq Nat
      BY <1>10
    <3>3. Token(q, st[h], zs) = SubSeq(q, st[h], Len(q))
      BY <1>2, <2>1, <3>1, <3>2, TokenOpen
    <3>4. Token(p, st[h], zs) = SubSeq(p, st[h], Len(p))
      BY <2>1, <3>1, <3>2, TokenOpen
    <3>5. SubSeq(q, st[h], Len(q)) = SubSeq(p, st[h], Len(p)) \o r
      BY <1>1, <2>1, SubBehind
    <3>6. ts[h] = SubSeq(p, st[h], Len(p))
      BY <1>14, <3>4
    <3> QED
      BY <2>3, <3>3, <3>5, <3>6
  <2> QED
    BY <2>2, <2>3
<1>18. us = Extend(ts, r)
  BY <1>16, <1>17 DEF Extend
<1> QED
  BY <1>1, <1>13, <1>15, <1>18
(* The line begins with its first word.                                    *)
LEMMA ClosedFront ==
    ASSUME NEW words \in Seq(Texts), words # <<>>
    PROVE  \E r \in Texts : Closed(words) = Cat(words[1], r)
<1> DEFINE Good(ws) == \E r \in Texts : Closed(ws) = Cat(ws[1], r)
           T == {ws \in Seq(Texts) : ws # <<>> => Good(ws)}
<1>1. PICK c \in Letters : c = Space
  BY DEF Space, Letters, Characters
<1>2. ASSUME NEW ws \in Seq(Texts), NEW w \in Texts
      PROVE  Closed(Append(ws, w)) = Put(Cat(Closed(ws), w), c)
  BY <1>1, Together, Zenon DEF Put, Space
<1>3. <<>> \in T
  OBVIOUS
<1>4. ASSUME NEW ws \in Seq(Texts), ws \in T, NEW w \in Texts PROVE Append(ws, w) \in T
  <2>1. PICK u \in Seq(Texts) : u = Append(ws, w)
    BY AppendProperties
  <2>2. PICK s \in Texts : s = Closed(ws)
    BY Together
  <2>3. Closed(u) = Put(Cat(s, w), c)
    BY <1>2, <2>1, <2>2
  <2>4. CASE ws = <<>>
    <3>1. s = <<>>
      BY <2>2, <2>4, Together
    <3>2. Cat(s, w) = w
      BY <3>1, CatIs DEF Texts
    <3>3. PICK r \in Texts : r = <<c>>
      BY Single
    <3>4. Append(w, c) = w \o <<c>>
      BY AppendIsConcat DEF Texts
    <3>5. Put(w, c) = Cat(w, r)
      BY <3>3, <3>4, Zenon DEF Put, Cat
    <3>6. u[1] = w
      BY <2>1, <2>4
    <3> QED
      BY <2>1, <2>3, <3>2, <3>5, <3>6
  <2>5. CASE ws # <<>>
    <3>1. PICK p \in Texts : p = ws[1] /\ u[1] = p
      <4>1. Len(ws) \in Nat /\ Len(ws) # 0
        BY <2>5, LenProperties, EmptySeq
      <4>2. 1 \in 1..Len(ws)
        BY <4>1
      <4>3. u[1] = ws[1]
        BY <2>1, <4>2, AppendProperties
      <4> QED
        BY <4>2, <4>3, ElementOfSeq
    <3>2. PICK r \in Texts : s = Cat(p, r)
      BY <1>4, <2>2, <2>5, <3>1
    <3>3. PICK x \in Texts : x = Cat(r, w)
      BY CatText
    <3>4. PICK y : y = Put(x, c)
      OBVIOUS
    <3>5. y \in Texts
      <4>1. Append(x, c) \in Texts
        BY AppendProperties DEF Texts
      <4> QED
        BY <3>4, <4>1, Zenon DEF Put
    <3>6. Cat(s, w) = Cat(p, x)
      BY <3>2, <3>3, CatIs DEF Texts
    <3>7. Cat(p, y) = Put(Cat(p, x), c)
      BY <3>4, CatIs DEF Texts
    <3>8. Closed(u) = Cat(u[1], y)
      BY <2>3, <3>1, <3>6, <3>7
    <3> QED
      BY <2>1, <3>5, <3>8
  <2> QED
    BY <2>4, <2>5
<1>5. \A ws \in Seq(Texts) : ws \in T
  <2> HIDE DEF T
  <2> QED
    BY <1>3, <1>4, FromEmpty
<1> QED
  BY <1>5

(* One slash in the window: two parts. *)
Mid(a) == [starts |-> <<1>>, zeros |-> {a}, gap |-> TRUE]
Fin(a) == [starts |-> <<1, a + 1>>, zeros |-> {a}, gap |-> FALSE]

(* What a character does to each of the three.                             *)
LEMMA TakePlain ==
    ASSUME NEW c, c # Slash, NEW i, NEW a \in Nat
    PROVE  /\ Take(Before, c, Slashes, i) = Before
           /\ Take(Fin(a), c, Slashes, i) = Fin(a)
           /\ c # Space => Take(Mid(a), c, Slashes, a + 1) = Fin(a)
           /\ Take(Before, Slash, Slashes, a) = Mid(a)
<1>1. (c \in Slashes) = FALSE /\ (Slash \in Slashes) = TRUE
  BY DEF Slashes
<1>2. Stays(c, FALSE) = FALSE /\ Stays(Slash, FALSE) = FALSE
  BY Zenon DEF Stays
<1>3. c # Space => Stays(c, TRUE) = FALSE
  BY Zenon DEF Stays, Space
<1>4. Append(<<1>>, a + 1) = <<1, a + 1>>
  <2>1. PICK n \in Nat : n = a + 1
    OBVIOUS
  <2>2. PICK s : s = <<1>>
    OBVIOUS
  <2>3. PICK t : t = <<1, n>>
    OBVIOUS
  <2>4. s \in Seq(Nat) /\ Len(s) = 1 /\ s[1] = 1
    BY <2>2
  <2>5. t \in Seq(Nat) /\ Len(t) = 2 /\ t[1] = 1 /\ t[2] = n
    BY <2>3
  <2>6. PICK u : u = Append(s, n)
    OBVIOUS
  <2>7. u \in Seq(Nat) /\ Len(u) = 2 /\ u[1] = 1 /\ u[2] = n
    <3>1. /\ Append(s, n) \in Seq(Nat) /\ Len(Append(s, n)) = Len(s) + 1
          /\ \A h \in 1..Len(s) : Append(s, n)[h] = s[h]
          /\ Append(s, n)[Len(s) + 1] = n
      <4>1. s \in Seq(Nat)
        BY <2>4
      <4> QED
        BY <4>1, AppendProperties
    <3> QED
      BY <2>4, <2>6, <3>1
  <2>8. \A h \in 1..Len(t) : t[h] = u[h]
    BY <2>5, <2>7
  <2>9. t = u
    BY <2>5, <2>7, <2>8, SeqEqual
  <2> QED
    BY <2>1, <2>2, <2>3, <2>6, <2>9
<1>5. Take(Before, c, Slashes, i) = Before
  BY <1>1, <1>2 DEF Take, Before
<1>6. Take(Fin(a), c, Slashes, i) = Fin(a)
  BY <1>1, <1>2 DEF Take, Fin
<1>7. c # Space => Take(Mid(a), c, Slashes, a + 1) = Fin(a)
  BY <1>1, <1>3, <1>4 DEF Take, Fin, Mid
<1>8. Take(Before, Slash, Slashes, a) = Mid(a)
  BY <1>1, <1>2 DEF Take, Before, Mid
<1> QED
  BY <1>5, <1>6, <1>7, <1>8

(* The scan of a window with one slash.                                    *)
LEMMA ScanTwo ==
    ASSUME NEW str, NEW a \in Nat \ {0}, NEW n \in Nat, a + 1 <= n,
           str[a] = Slash, \A i \in 1..n : i # a => str[i] # Slash,
           str[a + 1] # Space
    PROVE  Scan(str, Slashes, n) = Fin(a)
<1> DEFINE Seen(i) == Scan(str, Slashes, i)
           T == {i \in Nat : i < a => Seen(i) = Before}
           U == {i \in Nat : a + 1 + i <= n => Seen(a + 1 + i) = Fin(a)}
<1>1. \A i \in Nat : i \in T
  <2>1. 0 \in T
    BY ScanZero
  <2>2. ASSUME NEW i \in Nat, i \in T PROVE i + 1 \in T
    <3>1. SUFFICES ASSUME i + 1 < a PROVE Seen(i + 1) = Before
      OBVIOUS
    <3>2. Seen(i) = Before /\ str[i + 1] # Slash
      BY <2>2, <3>1
    <3>3. Seen(i + 1) = Take(Seen(i), str[i + 1], Slashes, i + 1)
      BY ScanNext
    <3> QED
      BY <3>2, <3>3, TakePlain
  <2> HIDE DEF T
  <2> QED
    BY <2>1, <2>2, FromZero
<1>2. PICK m \in Nat : a = m + 1
  <2>1. a - 1 \in Nat /\ a = (a - 1) + 1
    OBVIOUS
  <2> QED
    BY <2>1
<1>3. Seen(a) = Mid(a)
  <2>1. Seen(m) = Before
    BY <1>1, <1>2
  <2>2. Seen(m + 1) = Take(Seen(m), str[m + 1], Slashes, m + 1)
    BY ScanNext
  <2>3. Take(Before, Slash, Slashes, a) = Mid(a)
    BY SlashLetter, TakePlain
  <2> QED
    BY <1>2, <2>1, <2>2, <2>3
<1>4. Seen(a + 1) = Fin(a)
  <2>1. Seen(a + 1) = Take(Seen(a), str[a + 1], Slashes, a + 1)
    BY ScanNext
  <2>2. str[a + 1] # Slash
    OBVIOUS
  <2>3. Take(Mid(a), str[a + 1], Slashes, a + 1) = Fin(a)
    BY <2>2, TakePlain
  <2> QED
    BY <1>3, <2>1, <2>3
<1>5. \A i \in Nat : i \in U
  <2>1. 0 \in U
    BY <1>4
  <2>2. ASSUME NEW i \in Nat, i \in U PROVE i + 1 \in U
    <3>1. SUFFICES ASSUME a + 1 + (i + 1) <= n PROVE Seen(a + 1 + (i + 1)) = Fin(a)
      OBVIOUS
    <3>2. PICK h \in Nat : h = a + 1 + i
      OBVIOUS
    <3>3. Seen(h) = Fin(a) /\ str[h + 1] # Slash /\ h + 1 = a + 1 + (i + 1)
      BY <2>2, <3>1, <3>2
    <3>4. Seen(h + 1) = Take(Seen(h), str[h + 1], Slashes, h + 1)
      BY ScanNext
    <3>5. Take(Fin(a), str[h + 1], Slashes, h + 1) = Fin(a)
      BY <3>3, TakePlain
    <3> QED
      BY <3>3, <3>4, <3>5
  <2> HIDE DEF U
  <2> QED
    BY <2>1, <2>2, FromZero
<1>6. n - (a + 1) \in Nat /\ a + 1 + (n - (a + 1)) = n
  OBVIOUS
<1> QED
  BY <1>5, <1>6
(* A part of a string whose characters are known.                          *)
LEMMA CutOut ==
    ASSUME NEW w \in Texts, NEW str, NEW b \in Nat \ {0}, NEW e \in Nat, e + 1 = b + Len(w),
           \A j \in 1..Len(w) : str[b + j - 1] = w[j]
    PROVE  SubSeq(str, b, e) = w
<1>1. PICK n \in Nat : n = Len(w)
  BY TextBasics
<1>2. \A j \in 1..n : w[j] \in Letters
  BY <1>1, TextBasics
<1>3. \A i \in b..e : str[i] \in Letters
  <2> TAKE i \in b..e
  <2>1. PICK j : j = i - b + 1
    OBVIOUS
  <2>2. j \in 1..n /\ b + j - 1 = i
    BY <1>1, <2>1
  <2> QED
    BY <1>1, <1>2, <2>2
<1>4. PICK v : v = SubSeq(str, b, e)
  OBVIOUS
<1>5. v \in Seq(Letters) /\ Len(v) = (IF b <= e THEN e - b + 1 ELSE 0)
      /\ \A i \in 1..(e - b + 1) : v[i] = str[b + i - 1]
  BY <1>3, <1>4, SubSeqProperties
<1>6. Len(v) = n /\ e - b + 1 = n
  BY <1>1, <1>5
<1>7. \A i \in 1..Len(v) : v[i] = w[i]
  BY <1>1, <1>5, <1>6
<1> QED
  BY <1>1, <1>4, <1>5, <1>6, <1>7, SeqEqual DEF Texts

(* What the peer cuts: number, slash and message, with a \0 and what was   *)
(* in the buffer before.                                                   *)
Filled(c, rest) == c \o <<End>> \o rest

(* Elements of the peer's buffer.                                          *)
LEMMA FilledIs ==
    ASSUME NEW c \in Texts, NEW rest \in Texts
    PROVE  LET str == Filled(c, rest)
           IN  /\ Len(str) = Len(c) + 1 + Len(rest) /\ DOMAIN str = 1..Len(str) /\ Len(str) \in Nat
               /\ Len(c) \in Nat /\ Len(rest) \in Nat
               /\ \A i \in 1..Len(c) : str[i] = c[i]
               /\ str[Len(c) + 1] = End
               /\ \A i \in 1..Len(rest) : str[Len(c) + 1 + i] = rest[i]
<1> DEFINE S == Letters \cup {End}
<1>1. c \in Seq(S) /\ rest \in Seq(S)
  <2>1. Letters \subseteq S
    OBVIOUS
  <2> HIDE DEF S
  <2> QED
    BY <2>1, SeqMonotonic DEF Texts
<1>2. PICK z : z = <<End>>
  OBVIOUS
<1>3. z \in Seq(S) /\ Len(z) = 1 /\ z[1] = End
  BY <1>2
<1> HIDE DEF S
<1>4. PICK n \in Nat : n = Len(c)
  BY TextBasics
<1>5. PICK m \in Nat : m = Len(rest)
  BY TextBasics
<1>6. PICK d : d = c \o z
  OBVIOUS
<1>7. /\ d \in Seq(S) /\ Len(d) = n + 1
      /\ \A i \in 1..(n + 1) : d[i] = IF i <= n THEN c[i] ELSE z[i - n]
  <2>1. /\ c \o z \in Seq(S) /\ Len(c \o z) = Len(c) + Len(z)
        /\ \A i \in 1..(Len(c) + Len(z)) : (c \o z)[i] = IF i <= Len(c) THEN c[i] ELSE z[i - Len(c)]
    BY <1>1, <1>3, ConcatProperties
  <2> QED
    BY <1>3, <1>4, <1>6, <2>1
<1>8. d[n + 1] = End /\ \A i \in 1..n : d[i] = c[i]
  <2>1. n + 1 \in 1..(n + 1) /\ ~(n + 1 <= n) /\ (n + 1) - n = 1
    OBVIOUS
  <2>2. d[n + 1] = z[1]
    BY <1>7, <2>1
  <2> QED
    BY <1>3, <1>7, <2>2
<1>9. PICK str : str = d \o rest
  OBVIOUS
<1>10. /\ str \in Seq(S) /\ Len(str) = n + 1 + m
       /\ \A i \in 1..(n + 1 + m) : str[i] = IF i <= n + 1 THEN d[i] ELSE rest[i - (n + 1)]
  <2>1. /\ d \o rest \in Seq(S) /\ Len(d \o rest) = Len(d) + Len(rest)
        /\ \A i \in 1..(Len(d) + Len(rest)) :
              (d \o rest)[i] = IF i <= Len(d) THEN d[i] ELSE rest[i - Len(d)]
    BY <1>1, <1>7, ConcatProperties
  <2> QED
    BY <1>5, <1>7, <1>9, <2>1
<1>11. str[n + 1] = End /\ \A i \in 1..n : str[i] = c[i]
  BY <1>8, <1>10
<1>12. \A i \in 1..m : str[n + 1 + i] = rest[i]
  <2> TAKE i \in 1..m
  <2>1. n + 1 + i \in 1..(n + 1 + m) /\ ~(n + 1 + i <= n + 1) /\ (n + 1 + i) - (n + 1) = i
    OBVIOUS
  <2> QED
    BY <1>10, <2>1
<1>13. DOMAIN str = 1..Len(str) /\ Len(str) \in Nat
  BY <1>10, LenProperties
<1>14. Filled(c, rest) = str
  BY <1>2, <1>6, <1>9, Zenon DEF Filled
<1> QED
  BY <1>4, <1>5, <1>10, <1>11, <1>12, <1>13, <1>14

(* The number has at most five digits, no slash stands among the peer's    *)
(* seven characters but the one between number and message, and no blank   *)
(* begins the message.                                                     *)
Fits(num, msg) ==
    /\ num \in Texts /\ msg \in Texts
    /\ Len(num) \in 1..5 /\ msg # <<>> /\ msg[1] # Space
    /\ Bare(num) /\ \A j \in 1..Len(msg) : msg[j] = Slash => j + Len(num) + 1 > 7
Unused(rest) ==
    /\ rest \in Texts
    /\ \A i \in 1..Len(rest) : rest[i] = Stale
    /\ Len(rest) = 7

(* The peer's parts are number and message.                                *)
LEMMA PeerParts ==
    ASSUME NEW num, NEW msg, Fits(num, msg), NEW rest, Unused(rest)
    PROVE  bbline_tokenize(Filled(Cat(num, Cat(<<Slash>>, msg)), rest), 7) = <<num, msg>>
<1>1. /\ num \in Texts /\ msg \in Texts
      /\ Len(num) \in 1..5 /\ msg # <<>> /\ msg[1] # Space
      /\ \A j \in 1..Len(num) : num[j] # Slash
      /\ \A j \in 1..Len(msg) : msg[j] = Slash => j + Len(num) + 1 > 7
      /\ rest \in Texts /\ Len(rest) = 7
      /\ \A i \in 1..Len(rest) : rest[i] = Stale
  BY DEF Fits, Unused, Bare
<1>2. PICK b \in Texts : b = <<Slash>> /\ Len(b) = 1 /\ b[1] = Slash
  BY SlashLetter, Single
<1>3. PICK d : d = Cat(b, msg)
  OBVIOUS
<1>4. /\ d \in Texts /\ Len(d) = 1 + Len(msg) /\ Len(msg) \in Nat
      /\ d[1] = Slash /\ \A i \in 1..Len(msg) : d[1 + i] = msg[i]
  <2>1. msg \in Texts
    BY <1>1
  <2>2. /\ d \in Texts /\ Len(d) = Len(b) + Len(msg) /\ Len(msg) \in Nat
        /\ \A i \in 1..Len(b) : d[i] = b[i]
        /\ \A i \in 1..Len(msg) : d[Len(b) + i] = msg[i]
    BY <1>3, <2>1, CatText
  <2> QED
    BY <1>2, <2>2
<1>5. PICK c : c = Cat(num, d)
  OBVIOUS
<1>a. Len(num) \in 1..5
  BY <1>1
<1>6. PICK n \in Nat : n = Len(num) /\ n >= 1 /\ n <= 5
  <2>1. PICK h \in 1..5 : h = Len(num)
    BY <1>a
  <2>2. h \in Nat /\ h >= 1 /\ h <= 5
    OBVIOUS
  <2> QED
    BY <2>1, <2>2
<1>7. PICK m \in Nat : m = Len(msg) /\ m >= 1
  <2>1. Len(msg) # 0
    BY <1>1, EmptySeq
  <2> QED
    BY <1>4, <2>1
<1>8. /\ c \in Texts /\ Len(c) = n + 1 + m
      /\ \A i \in 1..n : c[i] = num[i]
      /\ c[n + 1] = Slash
      /\ \A i \in 1..m : c[n + 1 + i] = msg[i]
  <2>1. /\ c \in Texts /\ Len(c) = Len(num) + Len(d)
        /\ \A i \in 1..Len(num) : c[i] = num[i]
        /\ \A i \in 1..Len(d) : c[Len(num) + i] = d[i]
    <3>1. num \in Texts /\ d \in Texts
      BY <1>1, <1>4
    <3> QED
      BY <1>5, <3>1, CatText
  <2>2. \A i \in 1..(1 + m) : c[n + i] = d[i]
    BY <1>4, <1>6, <1>7, <2>1
  <2>3. c[n + 1] = Slash
    BY <1>4, <2>2
  <2>4. \A i \in 1..m : c[n + 1 + i] = msg[i]
    <3> TAKE i \in 1..m
    <3>1. c[n + (1 + i)] = d[1 + i]
      BY <2>2
    <3>2. n + (1 + i) = n + 1 + i
      OBVIOUS
    <3> QED
      BY <1>4, <1>7, <3>1, <3>2
  <2> QED
    BY <1>4, <1>6, <1>7, <2>1, <2>3, <2>4
<1>9. PICK str : str = Filled(c, rest)
  OBVIOUS
<1>10. /\ Len(str) = n + 1 + m + 1 + 7 /\ DOMAIN str = 1..Len(str) /\ Len(str) \in Nat
       /\ \A i \in 1..(n + 1 + m) : str[i] = c[i]
       /\ str[n + 1 + m + 1] = End
       /\ \A i \in 1..7 : str[n + 1 + m + 1 + i] = Stale
  <2>1. c \in Texts /\ rest \in Texts
    BY <1>1, <1>8
  <2>2. /\ Len(str) = Len(c) + 1 + Len(rest) /\ DOMAIN str = 1..Len(str) /\ Len(str) \in Nat
        /\ \A i \in 1..Len(c) : str[i] = c[i]
        /\ str[Len(c) + 1] = End
        /\ \A i \in 1..Len(rest) : str[Len(c) + 1 + i] = rest[i]
    BY <1>9, <2>1, FilledIs
  <2>3. Len(c) = n + 1 + m /\ Len(rest) = 7
    BY <1>1, <1>8
  <2>4. \A i \in 1..7 : rest[i] = Stale
    BY <1>1
  <2> QED
    BY <2>2, <2>3, <2>4
<1>11. /\ \A i \in 1..n : str[i] = num[i] /\ str[i] # Slash
       /\ str[n + 1] = Slash
       /\ \A i \in 1..m : str[n + 1 + i] = msg[i]
  <2>1. \A i \in 1..n : str[i] = num[i] /\ str[i] # Slash
    BY <1>1, <1>6, <1>8, <1>10
  <2>a. \A i \in 1..(n + 1 + m) : str[i] = c[i]
    BY <1>10
  <2>2. str[n + 1] = Slash
    <3>1. n + 1 \in 1..(n + 1 + m)
      OBVIOUS
    <3> QED
      BY <1>8, <2>a, <3>1
  <2>3. \A i \in 1..m : str[n + 1 + i] = msg[i]
    <3> TAKE i \in 1..m
    <3>1. n + 1 + i \in 1..(n + 1 + m)
      OBVIOUS
    <3>2. c[n + 1 + i] = msg[i]
      BY <1>8
    <3> QED
      BY <2>a, <3>1, <3>2
  <2> QED
    BY <2>1, <2>2, <2>3
<1>12. \A i \in 1..7 : i # n + 1 => str[i] # Slash
  <2> SUFFICES ASSUME NEW i \in 1..7, i # n + 1 PROVE str[i] # Slash
    OBVIOUS
  <2>1. CASE i <= n
    BY <1>11, <2>1
  <2>2. CASE i > n /\ i <= n + 1 + m
    <3>1. PICK j \in 1..m : i = n + 1 + j
      <4>1. i - (n + 1) \in 1..m /\ i = n + 1 + (i - (n + 1))
        BY <2>2
      <4> QED
        BY <4>1
    <3>2. str[i] = msg[j]
      BY <1>11, <3>1
    <3>3. ~(j + Len(num) + 1 > 7)
      BY <1>6, <3>1
    <3> QED
      BY <1>1, <1>7, <3>2, <3>3
  <2>3. CASE i = n + 1 + m + 1
    BY <1>10, <2>3, SlashLetter
  <2>4. CASE i > n + 1 + m + 1
    <3>1. PICK j \in 1..7 : i = n + 1 + m + 1 + j
      <4>1. i - (n + 1 + m + 1) \in 1..7 /\ i = n + 1 + m + 1 + (i - (n + 1 + m + 1))
        BY <2>4
      <4> QED
        BY <4>1
    <3> QED
      BY <1>10, <3>1, SlashLetter
  <2> QED
    BY <2>1, <2>2, <2>3, <2>4
<1>13. str[n + 1 + 1] # Space
  BY <1>1, <1>7, <1>11
<1>14. Scan(str, Slashes, 7) = Fin(n + 1)
  <2>1. n + 1 \in Nat \ {0} /\ 7 \in Nat /\ n + 1 + 1 <= 7
    BY <1>6
  <2> QED
    BY <1>11, <1>12, <1>13, <2>1, ScanTwo
<1>15. Token(str, 1, {n + 1}) = num
  <2>1. /\ 1 \in Nat /\ {n + 1} \subseteq Nat /\ n + 1 \in 1..(Len(str) + 1)
        /\ n + 1 >= 1 /\ n + 1 \in {n + 1}
        /\ \A z \in {n + 1} : z >= 1 => n + 1 <= z
    BY <1>10
  <2>2. \A z \in 1..Len(str) : z >= 1 /\ str[z] = End => n + 1 <= z
    <3>1. \A i \in 1..n : str[i] # End
      BY <1>1, <1>6, <1>11, TextBasics
    <3> QED
      BY <1>10, <3>1
  <2>3. Token(str, 1, {n + 1}) = SubSeq(str, 1, (n + 1) - 1)
    BY <1>10, <2>1, <2>2, TokenIs
  <2>4. (n + 1) - 1 = n /\ n + 1 = 1 + Len(num) /\ 1 \in Nat \ {0}
    BY <1>6
  <2>5. \A j \in 1..Len(num) : str[1 + j - 1] = num[j]
    BY <1>6, <1>11
  <2>6. SubSeq(str, 1, n) = num
    BY <1>1, <2>4, <2>5, CutOut
  <2> QED
    BY <2>3, <2>4, <2>6
<1>16. Token(str, n + 1 + 1, {n + 1}) = msg
  <2>1. PICK e \in Nat : e = n + 1 + m + 1
    OBVIOUS
  <2>2. /\ n + 1 + 1 \in Nat /\ {n + 1} \subseteq Nat /\ e \in 1..(Len(str) + 1)
        /\ e >= n + 1 + 1 /\ str[e] = End
        /\ \A z \in {n + 1} : z >= n + 1 + 1 => e <= z
    BY <1>10, <2>1
  <2>3. \A z \in 1..Len(str) : z >= n + 1 + 1 /\ str[z] = End => e <= z
    <3>1. SUFFICES ASSUME NEW z \in 1..Len(str), z >= n + 1 + 1, str[z] = End, ~(e <= z)
                   PROVE  FALSE
      OBVIOUS
    <3>2. PICK j \in 1..m : z = n + 1 + j
      <4>1. z - (n + 1) \in 1..m /\ z = n + 1 + (z - (n + 1))
        BY <1>10, <2>1, <3>1
      <4> QED
        BY <4>1
    <3>3. str[z] = msg[j] /\ msg[j] # End
      BY <1>1, <1>7, <1>11, <3>2, TextBasics
    <3> QED
      BY <3>1, <3>3
  <2>4. Token(str, n + 1 + 1, {n + 1}) = SubSeq(str, n + 1 + 1, e - 1)
    BY <1>10, <2>2, <2>3, TokenIs
  <2>5. e - 1 \in Nat /\ (e - 1) + 1 = (n + 1 + 1) + Len(msg) /\ n + 1 + 1 \in Nat \ {0}
    BY <1>7, <2>1
  <2>6. \A j \in 1..Len(msg) : str[(n + 1 + 1) + j - 1] = msg[j]
    <3> TAKE j \in 1..Len(msg)
    <3>1. (n + 1 + 1) + j - 1 = n + 1 + j /\ j \in 1..m
      BY <1>7
    <3> QED
      BY <1>11, <3>1
  <2>7. SubSeq(str, n + 1 + 1, e - 1) = msg
    BY <1>1, <2>5, <2>6, CutOut
  <2> QED
    BY <2>4, <2>7
<1>17. bbline_tokenize(str, 7) = <<num, msg>>
  <2>1. PICK s : s = Scan(str, Slashes, 7)
    OBVIOUS
  <2>2. PICK l \in Nat : l = n + 1 + 1
    OBVIOUS
  <2>3. PICK st : st = <<1, l>>
    OBVIOUS
  <2>4. s.starts = st /\ s.zeros = {n + 1}
    BY <1>14, <2>1, <2>2, <2>3 DEF Fin
  <2>5. DOMAIN st = 1..2 /\ st[1] = 1 /\ st[2] = l
    BY <2>3
  <2>6. bbline_tokenize(str, 7) = [h \in DOMAIN s.starts |-> Token(str, s.starts[h], s.zeros)]
    BY <2>1, Zenon DEF bbline_tokenize, Tokens, Slashes, Slash
  <2>7. PICK ts : ts = bbline_tokenize(str, 7)
    OBVIOUS
  <2>8. ts = [h \in 1..2 |-> Token(str, st[h], {n + 1})]
    BY <2>4, <2>5, <2>6, <2>7
  <2>9. ts[1] = num /\ ts[2] = msg
    BY <1>15, <1>16, <2>2, <2>5, <2>8
  <2>10. \A h \in 1..2 : ts[h] \in Texts
    <3>1. \A h \in 1..2 : h = 1 \/ h = 2
      OBVIOUS
    <3> QED
      BY <1>1, <2>9, <3>1
  <2>11. ts \in Seq(Texts) /\ Len(ts) = 2
    BY <2>8, <2>10
  <2>12. ts = <<num, msg>>
    BY <1>1, <2>9, <2>11
  <2> QED
    BY <2>7, <2>12
<1> QED
  BY <1>2, <1>3, <1>5, <1>9, <1>17
(* The parts of the client's server: number and message are the line       *)
(* again.                                                                  *)
LEMMA WindowParts ==
    ASSUME NEW ws \in Seq(Texts), ws # <<>>, Whole(ws), ws[1][Len(ws[1])] # Slash,
           NEW parts, parts = Tokens(Closed(ws), Slashes, Len(ws[1])),
           ~(Len(parts) < 2), Slashed(Tail(parts)) # <<>>
    PROVE  /\ parts \in Seq(Texts)
           /\ parts[1] \in Texts /\ Bare(parts[1])
           /\ Slashed(Tail(parts)) \in Texts
           /\ Slashed(Tail(parts))[1] # Space
           /\ Closed(ws) = Cat(parts[1], Cat(<<Slash>>, Slashed(Tail(parts))))
<1>1. PICK p \in Texts : p = ws[1] /\ Clean(p) /\ p # <<>>
  <2>1. Len(ws) \in Nat /\ Len(ws) # 0
    BY LenProperties, EmptySeq
  <2>2. 1 \in 1..Len(ws)
    BY <2>1
  <2> QED
    BY <2>2, ElementOfSeq DEF Whole, AllClean, Holes
<1>2. Solid(p)
  BY <1>1 DEF Clean, Solid, Blank, Space
<1>3. PICK ts : ts = Ts(p, Slashes)
  OBVIOUS
<1>4. PICK at : at = At(p, Slashes)
  OBVIOUS
<1>5. PartsOf(p, ts, at)
  BY <1>2, <1>3, <1>4, PartsAre
<1>6. /\ at # Gap /\ p = Slashed(ts) /\ ts \in Seq(Texts) /\ Len(ts) \in Nat
      /\ Len(ts) >= 1 /\ ts[1] \in Texts /\ Bare(ts[1])
  BY <1>1, <1>5, Zenon DEF PartsOf
<1>7. PICK r \in Texts : Closed(ws) = Cat(p, r)
  BY <1>1, ClosedFront
<1>8. parts = Extend(ts, r)
  BY <1>1, <1>3, <1>4, <1>6, <1>7, Window
<1>9. parts \in Seq(Texts) /\ Len(parts) = Len(ts) /\ Len(parts) >= 2 /\ parts[1] = ts[1]
  <2>1. /\ Extend(ts, r) \in Seq(Texts) /\ Len(Extend(ts, r)) = Len(ts)
        /\ \A h \in 1..Len(ts) :
              Extend(ts, r)[h] = IF h = Len(ts) THEN ts[h] \o r ELSE ts[h]
    BY <1>6, ExtendIs
  <2>2. 1 \in 1..Len(ts) /\ 1 # Len(ts) /\ Len(ts) >= 2
    BY <1>6, <1>8, <2>1
  <2> QED
    BY <1>8, <2>1, <2>2
<1>10. PICK num \in Texts : num = ts[1]
  BY <1>6
<1>11. PICK short \in Texts : p = Cat(num, Cat(<<Slash>>, short))
  <2>1. Len(ts) >= 2
    BY <1>9
  <2> QED
    BY <1>6, <1>10, <2>1, SlashedBehind
<1>12. PICK msg \in Texts : msg = Slashed(Tail(parts))
  BY <1>9, SlashedBehind
<1>13. Slashed(parts) = Cat(num, Cat(<<Slash>>, msg))
  BY <1>9, <1>10, <1>12, SlashedBehind
<1>14. PICK c : c = Cat(p, r)
  OBVIOUS
<1>15. Slashed(parts) = c
  <2>1. ts # <<>>
    BY <1>6, EmptySeq
  <2> QED
    BY <1>6, <1>8, <1>14, <2>1, SlashedExtend
<1>16. PICK b \in Texts : b = <<Slash>> /\ Len(b) = 1 /\ b[1] = Slash
  BY SlashLetter, Single
<1>17. ASSUME NEW s \in Texts
       PROVE  /\ Cat(num, Cat(b, s)) \in Texts
              /\ Len(Cat(num, Cat(b, s))) = Len(num) + 1 + Len(s)
              /\ Cat(num, Cat(b, s))[Len(num) + 1] = Slash
              /\ \A i \in 1..Len(s) : Cat(num, Cat(b, s))[Len(num) + 1 + i] = s[i]
  <2>1. PICK d : d = Cat(b, s)
    OBVIOUS
  <2>2. /\ d \in Texts /\ Len(d) = Len(b) + Len(s) /\ Len(s) \in Nat
        /\ \A i \in 1..Len(b) : d[i] = b[i]
        /\ \A i \in 1..Len(s) : d[Len(b) + i] = s[i]
    BY <2>1, CatText
  <2>3. PICK e : e = Cat(num, d)
    OBVIOUS
  <2>4. /\ e \in Texts /\ Len(e) = Len(num) + Len(d) /\ Len(num) \in Nat
        /\ \A i \in 1..Len(d) : e[Len(num) + i] = d[i]
    <3>1. d \in Texts
      BY <2>2
    <3> QED
      BY <2>3, <3>1, CatText
  <2>5. Len(d) = 1 + Len(s) /\ d[1] = Slash /\ \A i \in 1..Len(s) : d[1 + i] = s[i]
    BY <1>16, <2>2
  <2>6. e[Len(num) + 1] = Slash
    <3>1. 1 \in 1..Len(d)
      BY <2>2, <2>5
    <3> QED
      BY <2>4, <2>5, <3>1
  <2>7. \A i \in 1..Len(s) : e[Len(num) + 1 + i] = s[i]
    <3> TAKE i \in 1..Len(s)
    <3>1. 1 + i \in 1..Len(d) /\ Len(num) + (1 + i) = Len(num) + 1 + i
      BY <2>2, <2>4, <2>5
    <3>2. e[Len(num) + (1 + i)] = d[1 + i]
      BY <2>4, <3>1
    <3> QED
      BY <2>5, <3>1, <3>2
  <2>8. Len(e) = Len(num) + 1 + Len(s)
    <3>1. PICK i \in Nat : i = Len(num)
      BY <2>4
    <3>2. PICK j \in Nat : j = Len(s)
      BY <2>2
    <3>3. Len(e) = i + (1 + j)
      BY <2>4, <2>5, <3>1, <3>2
    <3> QED
      BY <3>1, <3>2, <3>3
  <2> QED
    BY <2>1, <2>3, <2>4, <2>6, <2>7, <2>8
<1>18. PICK n \in Nat : n = Len(num)
  BY TextBasics
<1>19. PICK m \in Nat : m = Len(short)
  BY TextBasics
<1>20. Len(p) = n + 1 + m /\ p[n + 1] = Slash /\ \A i \in 1..m : p[n + 1 + i] = short[i]
  BY <1>11, <1>16, <1>17, <1>18, <1>19
<1>21. m >= 1
  <2>1. p[Len(p)] # Slash
    BY <1>1
  <2>2. m # 0
    BY <1>20, <2>1
  <2> QED
    BY <2>2
<1>22. p[n + 1 + 1] # Space /\ n + 1 + 1 \in 1..Len(p)
  <2>1. n + 1 + 1 \in 1..Len(p)
    BY <1>20, <1>21
  <2> QED
    BY <1>2, <2>1 DEF Solid
<1>23. c[n + 1 + 1] = p[n + 1 + 1]
  <2>1. \A i \in 1..Len(p) : c[i] = p[i]
    BY <1>14, CatText
  <2> QED
    BY <1>22, <2>1
<1>24. c[n + 1 + 1] = msg[1]
  <2>1. PICK l \in Nat : l = Len(msg)
    BY TextBasics
  <2>2. l # 0
    BY <1>12, <2>1, EmptySeq
  <2>3. 1 \in 1..l
    BY <2>2
  <2>4. c = Cat(num, Cat(b, msg))
    BY <1>13, <1>15, <1>16
  <2>5. \A i \in 1..l : c[n + 1 + i] = msg[i]
    BY <1>17, <1>18, <2>1, <2>4
  <2> QED
    BY <2>3, <2>5
<1> QED
  BY <1>6, <1>7, <1>9, <1>10, <1>12, <1>13, <1>14, <1>15, <1>22, <1>23, <1>24

(* So the peer, which gets that line, accepts the same.                    *)
LEMMA PeerReplaceIs ==
    ASSUME NEW ws \in Seq(Texts), ws # <<>>, Whole(ws), "line" \notin old,
           NEW num \in Texts, NEW msg \in Texts,
           Closed(ws) = Cat(num, Cat(<<Slash>>, msg)),
           Fits(num, msg)
    PROVE  PeerReplace(num, msg) = Accepted(num, msg)
<1>1. PICK c \in Texts : c = Closed(ws)
  BY WClosed
<1>2. W(c) = ws
  BY <1>1, WClosed
<1>3. PICK line : line = Word \o <<" ">> \o Word \o <<" ">> \o num \o <<"/">> \o msg
  OBVIOUS
<1>4. line = Two \o c
  <2>1. PICK two \in Texts : two = Two
    BY FrontWords
  <2>2. PICK b \in Texts : b = <<Slash>>
    BY SlashLetter, Single
  <2>3. two \in Seq(Letters) /\ num \in Seq(Letters) /\ b \in Seq(Letters) /\ msg \in Seq(Letters)
    BY DEF Texts
  <2>4. line = Cat(Cat(Cat(two, num), b), msg)
    BY <1>3, <2>1, <2>2, Zenon DEF Cat, Two, Worded, X, Slash
  <2>5. PICK d \in Texts : d = Cat(b, msg)
    BY CatText
  <2>6. PICK f \in Texts : f = Cat(two, num)
    BY CatText
  <2>7. Cat(f, Cat(b, msg)) = Cat(Cat(f, b), msg)
    BY CatIs DEF Texts
  <2>8. Cat(two, Cat(num, d)) = Cat(Cat(two, num), d)
    BY CatIs DEF Texts
  <2>9. Cat(num, d) = c
    BY <1>1, <2>2, <2>5
  <2>10. line = Cat(two, c)
    BY <2>4, <2>5, <2>6, <2>7, <2>8, <2>9
  <2> QED
    BY <2>1, <2>10, Zenon DEF Cat
<1>5. From(str_tokenize(line), 3) = ws
  BY <1>2, <1>4, WordsBehind
<1>6. PICK rest : rest = [h \in 1..PeerWindow |-> IF "line" \in old /\ h = 1 THEN "/" ELSE Stale]
  OBVIOUS
<1>7. Unused(rest) /\ PeerWindow = 7
  <2>1. rest = [h \in 1..7 |-> Stale]
    BY <1>6 DEF PeerWindow
  <2>2. Stale \in Letters
    BY DEF Letters
  <2>3. rest \in Seq(Letters) /\ Len(rest) = 7 /\ \A i \in 1..7 : rest[i] = Stale
    BY <2>1, <2>2
  <2> QED
    BY <2>3 DEF Unused, Texts, PeerWindow
<1>8. PeerReplace(num, msg) =
        IF ws = <<>> THEN Refused
        ELSE Parsed(bbline_tokenize(Closed(ws) \o <<End>> \o rest, PeerWindow))
  BY <1>3, <1>5, <1>6, Zenon DEF PeerReplace
<1>9. PeerReplace(num, msg) = Parsed(bbline_tokenize(Filled(c, rest), 7))
  BY <1>1, <1>7, <1>8, Zenon DEF Filled
<1>10. bbline_tokenize(Filled(c, rest), 7) = <<num, msg>>
  BY <1>1, <1>7, PeerParts
<1>11. PICK ts : ts = <<num, msg>>
  OBVIOUS
<1>12. Len(ts) = 2 /\ ts[1] = num /\ Tail(ts) = <<msg>>
  BY <1>11
<1>13. Slashed(Tail(ts)) = msg
  BY <1>12, SlashedIs
<1>14. Parsed(ts) = Accepted(num, msg)
  <2>1. ~(Len(ts) < 2)
    BY <1>12
  <2> QED
    BY <1>12, <1>13, <2>1, Zenon DEF Parsed
<1> QED
  BY <1>9, <1>10, <1>11, <1>14

(* ReplaceReplicated, of every text.                                       *)
LEMMA Replaced ==
    ASSUME Typing
    PROVE  ReplaceReplicated
<1>1. PICK ws : ws = W(text)
  OBVIOUS
<1>2. /\ Typed = ws /\ ws \in Seq(Texts) /\ AllClean(ws)
      /\ EmptyWord <=> Holes(ws)
  BY <1>1, TypedIs
<1>3. PICK r : r = MasterReplace
  OBVIOUS
<1>4. PICK parts : parts = Tokens(Closed(ws), Slashes, Len(ws[1]))
  OBVIOUS
<1>5. r = IF ws = <<>> THEN Refused ELSE Parsed(parts)
  BY <1>2, <1>3, <1>4, Zenon DEF MasterReplace, bbline_tokenize,
     MasterWindow, Slashes, Slash
<1>6. PICK msg : msg = Slashed(Tail(parts))
  OBVIOUS
<1>7. Parsed(parts) = IF Len(parts) < 2 THEN Refused ELSE Accepted(parts[1], msg)
  BY <1>6, Zenon DEF Parsed
<1>8. ASSUME r.accepted, Plain(r), "line" \notin old
      PROVE  PeerReplace(r.number, r.message) = r
  <2>1. ~Refused.accepted
    BY DEF Refused
  <2>2. ws # <<>> /\ ~(Len(parts) < 2) /\ r = Accepted(parts[1], msg)
    BY <1>5, <1>7, <1>8, <2>1, Zenon
  <2>3. r.number = parts[1] /\ r.message = msg
    BY <2>2 DEF Accepted
  <2>4. /\ Len(parts[1]) \in 1..5 /\ msg # <<>> /\ ~EmptyWord
        /\ Last(ws[1]) # Slash
        /\ \A h \in DOMAIN msg : msg[h] = Slash => h + Len(parts[1]) + 1 > 7
    BY <1>2, <1>8, <2>3, Zenon DEF Plain, Slash
  <2>5. Whole(ws)
    BY <1>2, <2>4 DEF Whole
  <2>6. ws[1][Len(ws[1])] # Slash
    BY <2>4, Zenon DEF Last
  <2>8. /\ parts[1] \in Texts /\ Bare(parts[1]) /\ msg \in Texts /\ msg[1] # Space
        /\ Closed(ws) = Cat(parts[1], Cat(<<Slash>>, msg))
    BY <1>2, <1>4, <1>6, <2>2, <2>4, <2>5, <2>6, WindowParts
  <2>9. PICK num \in Texts : num = parts[1]
    BY <2>8
  <2>10. Fits(num, msg)
    <3>1. DOMAIN msg = 1..Len(msg)
      BY <2>8, TextBasics
    <3> QED
      BY <2>4, <2>8, <2>9, <3>1, Zenon DEF Fits
  <2>11. PeerReplace(num, msg) = Accepted(num, msg)
    BY <1>2, <1>8, <2>2, <2>5, <2>8, <2>9, <2>10, PeerReplaceIs
  <2> QED
    BY <2>2, <2>3, <2>9, <2>11
<1> QED
  BY <1>3, <1>8, Zenon DEF ReplaceReplicated

(* server_operations.cc:144-290, peer_operations.cc:193-320: a peer takes  *)
(* a REPLACE its master has taken and stores the same number and message,  *)
(* however long the text, if the number has one to five digits, there is a *)
(* message, no slash but the one between them stands in the peer's window  *)
(* of seven characters, no word is empty, the first one ends in no slash,  *)
(* and the buffer holds no old slash behind the line.                      *)
THEOREM ReplacesReplicated == TextSpec => []ReplaceReplicated
<1>1. Typing => ReplaceReplicated
  BY Replaced
<1> QED
  BY <1>1, AlwaysTyping, PTL
=============================================================================
