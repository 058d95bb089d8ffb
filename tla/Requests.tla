------------------------------ MODULE Requests ------------------------------
(***************************************************************************)
(* What becomes of the text of a WRITE or REPLACE: the client's server     *)
(* takes it apart (str_tokenize, bbline_tokenize, tokenize.cc), stores a   *)
(* message and sends a commit line to its peers, which take that apart     *)
(* with the same functions (server_operations.cc:144-290,                  *)
(* peer_operations.cc:193-320).  A replica is right if what it stores is   *)
(* what the client's server stores.                                        *)
(*                                                                         *)
(* A text is a sequence of characters; "x" stands for all that no function *)
(* tells apart.  The client types it one character at a time, so that each *)
(* text of at most MaxLen characters is a state.  The character behind it, *)
(* which both servers cut off (a telnet client's \r, the blank at the end  *)
(* of a commit line), is not written here.  Of the buffers nobody clears   *)
(* each may hold something old.                                            *)
(*                                                                         *)
(* The specification's names begin with Text, as InputProofs is about      *)
(* Config and this module.                                                 *)
(***************************************************************************)
EXTENDS Integers, Sequences, SequencesExt, FiniteSets

CONSTANT MaxLen
ASSUME MaxLenAssumption == MaxLen \in Nat

Characters == {"x", " ", "=", "/"}
End == "\\0"         \* of a string
Stale == "?"        \* what stands in the buffer behind it

VARIABLES
    text,      \* what follows "WRITE " or "REPLACE "
    old        \* buffers with something old in them: "master", "peer", where
               \* they build a message; "line", an old "/" behind the peer's line

textVars == <<text, old>>

TextTypeOK ==
    /\ text \in Seq(Characters) /\ Len(text) <= MaxLen
    /\ old \subseteq {"master", "peer", "line"}

TextInit == text = <<>> /\ old \in SUBSET {"master", "peer", "line"}

Type(c) ==
    /\ Len(text) < MaxLen
    /\ text' = Append(text, c)
    /\ UNCHANGED old

TextNext == \E c \in Characters : Type(c)

TextSpec == TextInit /\ [][TextNext]_textVars

-----------------------------------------------------------------------------
(* The tokenizers: one loop, with different separators. *)

(* After i characters: where tokens start, which characters have been      *)
(* overwritten with \0, and whether blanks behind a separator are being    *)
(* skipped.                                                                *)
StaysNever(c, gap) == FALSE
Stays(c, gap) == gap /\ c = " "

Scan(str, seps, n) ==
    LET after[i \in 0..n] ==
          IF i = 0 THEN [starts |-> <<1>>, zeros |-> {}, gap |-> FALSE]
          ELSE LET s == after[i - 1]
               IN  IF Stays(str[i], s.gap) THEN s
                   ELSE [starts |-> IF s.gap THEN Append(s.starts, i) ELSE s.starts,
                         zeros |-> IF str[i] \in seps THEN s.zeros \cup {i} ELSE s.zeros,
                         gap |-> str[i] \in seps]
    IN  after[n]

(* A token reaches to the next \0, which may be that of the string's end. *)
Token(str, start, zeros) ==
    LET ends == {z \in zeros \cup {k \in DOMAIN str : str[k] = End} : z >= start}
    IN  SubSeq(str, start, Min(ends \cup {Len(str) + 1}) - 1)

Tokens(str, seps, n) ==
    LET s == Scan(str, seps, n)
    IN  [k \in DOMAIN s.starts |-> Token(str, s.starts[k], s.zeros)]

str_tokenize(str) == Tokens(str, {" ", "="}, Len(str))

(* n may be less than the length, and the rest is left as it is, or it may *)
(* be more, and reach into what the buffer held before.                    *)
bbline_tokenize(buffer, n) == Tokens(buffer, {"/"}, n)

-----------------------------------------------------------------------------
(* How both servers put tokens together again. *)

From(s, k) == SubSeq(s, k, Len(s))

Spaced(tokens) == FlattenSeq([k \in DOMAIN tokens |-> <<" ">> \o tokens[k]])
Closed(tokens) == FlattenSeq([k \in DOMAIN tokens |-> tokens[k] \o <<" ">>])
Slashed(tokens) ==
    Head(tokens) \o FlattenSeq([k \in DOMAIN Tail(tokens) |-> <<"/">> \o Tail(tokens)[k]])

Word == <<"x">>     \* a command's name; only that it is a word matters

Refused == [number |-> <<>>, message |-> <<>>, accepted |-> FALSE]
Accepted(number, message) ==
    [number |-> number, message |-> message, accepted |-> TRUE]

(* WRITE: several words are written with a blank before each, behind what  *)
(* fresh memory happens to hold; one is copied.                            *)
MessageOf(words, who) ==
    IF Len(words) > 1 THEN (IF who \in old THEN <<Stale>> ELSE <<>>) \o Spaced(words)
    ELSE words[1]

Typed == Tail(str_tokenize(Word \o <<" ">> \o text))

MasterWrite ==
    LET words == Typed
    IN  IF words = <<>> THEN Refused ELSE Accepted(Word, MessageOf(words, "master"))

(* "commit write number message " *)
PeerWordsTooFew(tokens) == From(tokens, 5)
PeerWords(tokens) == From(tokens, 4)
PeerWrite(message) ==
    LET words == PeerWords(str_tokenize(Word \o <<" ">> \o Word \o <<" ">> \o Word
                                          \o <<" ">> \o message))
    IN  IF words = <<>> THEN Refused ELSE Accepted(Word, MessageOf(words, "peer"))

(* REPLACE: the request is cut at slashes, and the first part is the       *)
(* number; the message gets its own slashes back.                          *)
Parsed(parts) ==
    IF Len(parts) < 2 THEN Refused ELSE Accepted(parts[1], Slashed(Tail(parts)))

(* The client's server cuts the first word only. *)
MasterWindowWide(words) == Len(Closed(words))
MasterWindow(words) == Len(words[1])
MasterReplace ==
    LET words == Typed
    IN  IF words = <<>> THEN Refused
        ELSE Parsed(bbline_tokenize(Closed(words), MasterWindow(words)))

(* The peer cuts as many characters as its own command[1], "replace", has. *)
PeerWindow == 7
PeerReplace(number, message) ==
    LET line == Word \o <<" ">> \o Word \o <<" ">> \o number \o <<"/">> \o message
        words == From(str_tokenize(line), 3)
        rest == [k \in 1..PeerWindow |-> IF "line" \in old /\ k = 1 THEN "/" ELSE Stale]
    IN  IF words = <<>> THEN Refused
        ELSE Parsed(bbline_tokenize(Closed(words) \o <<End>> \o rest, PeerWindow))

-----------------------------------------------------------------------------
(* Properties *)

(* tokenize.h:17-20: "tokenize the string at blanks", several of them being *)
(* one: of a text that has no "=" and no blank in front the tokens are its  *)
(* words, in order: as many as words begin in it, and the token that stands *)
(* where a word begins is the text from there to the next blank, or its     *)
(* end.                                                                     *)
WordsBegin(n) == {k \in 1..n : text[k] # " " /\ (k = 1 \/ text[k - 1] = " ")}
TokensAtBlanks ==
    LET tokens == str_tokenize(text)
    IN  (text # <<>> /\ text[1] # " " /\ \A k \in DOMAIN text : text[k] # "=") =>
          /\ Len(tokens) = Cardinality(WordsBegin(Len(text)))
          /\ \A b \in WordsBegin(Len(text)) : \E e \in b..Len(text) :
                /\ tokens[Cardinality(WordsBegin(b))] = SubSeq(text, b, e)
                /\ \A k \in b..e : text[k] # " "
                /\ e = Len(text) \/ text[e + 1] = " "

(* README.md:188 has all servers keep the same board: what a peer stores   *)
(* for a WRITE is what the client's server stores, exactly if no word is   *)
(* empty, which one is that begins with "=", and a message of several      *)
(* words is built in memory that happens to be empty                       *)
(* (server_operations.cc:160-177, 903; peer_operations.cc:201-215).        *)
EmptyWord == \E k \in DOMAIN text :
    text[k] = "=" /\ (k = 1 \/ text[k - 1] \in {" ", "="})
WriteReplicated ==
    MasterWrite.accepted =>
        (PeerWrite(MasterWrite.message) = MasterWrite
           <=> ~EmptyWord /\ (Len(Typed) > 1 => old \cap {"master", "peer"} = {}))

(* A peer takes a REPLACE its master has taken, and stores the same        *)
(* message, if the number has at most five digits, the message is not      *)
(* empty, no other slash is among the seven characters the peer looks at   *)
(* (peer_operations.cc:286), the first word does not end in a slash,       *)
(* behind which the client's server cuts the message off, and the buffer   *)
(* was clean.                                                              *)
Plain(r) ==
    /\ Len(r.number) \in 1..5 /\ r.message # <<>> /\ ~EmptyWord
    /\ Last(Typed[1]) # "/"
    /\ \A k \in DOMAIN r.message : r.message[k] = "/" => k + Len(r.number) + 1 > 7
ReplaceReplicated ==
    LET r == MasterReplace
    IN  r.accepted /\ Plain(r) /\ "line" \notin old => PeerReplace(r.number, r.message) = r
=============================================================================
