------------------------- MODULE PeerSessionsProofs -------------------------
(***************************************************************************)
(* What a peer guarantees to any number of masters, with any number of     *)
(* receiver threads, any numbers and any interleaving of their sessions.   *)
(*                                                                         *)
(* The invariants, each of which needs those before it: the types, with    *)
(* the fact that a thread that has read client_t has a socket; NumberInv,  *)
(* that a thread about to write has either the number to itself or a race  *)
(* on record; SessionInv, which ties a master's place to the orders it has *)
(* sent, and the number a session has noted to undo to its line;           *)
(* ServedInv, that a master's socket is in one place, client_t, the queue  *)
(* or a thread, unless client_t was overwritten; and AbortInv, what of a   *)
(* master that aborts may still be in the file.                            *)
(***************************************************************************)
EXTENDS PeerSessions, SequenceTheorems, FiniteSetTheorems, TLAPS

Line == [num : Nat, by : Masters \cup {Nobody}]

InSession(r) == rpc[r] \in {"read", "check", "write"}

TypeInv ==
    /\ TypeOK
    /\ \A r \in Receivers : InSession(r) => sd[r] \in Masters
    /\ (lpc = "push" \/ Unread) => clnt \in Masters

LEMMA DeletedLines ==
    ASSUME TypeOK, NEW n \in Nat
    PROVE  /\ Deleted(n) \in Seq(Line)
           /\ DOMAIN Deleted(n) = DOMAIN file
<1>1. file \in Seq(Line)
  BY DEF TypeOK, Line
<1>2. \A k \in DOMAIN file : file[k] \in Line
  BY <1>1, ElementOfSeq
<1>3. DOMAIN file = 1..Len(file) /\ Len(file) \in Nat
  BY <1>1, LenProperties
<1>4. \A k \in DOMAIN file : Deleted(n)[k] \in Line
  BY <1>2 DEF Deleted, Blank, Line, NoNumber
<1>5. Deleted(n) \in [1..Len(file) -> Line]
  BY <1>3, <1>4 DEF Deleted
<1>6. Deleted(n) \in Seq(Line)
  BY <1>3, <1>5, SeqDef
<1> QED
  BY <1>3, <1>6 DEF Deleted

(* What an abort does to the file: it blanks lines with the number that    *)
(* this session has written, and others whose numbers go astray.           *)
LEMMA AbortBlanks ==
    ASSUME TypeOK, NEW r \in Receivers, Abort(r)
    PROVE  /\ file' \in Seq(Line) /\ DOMAIN file' = DOMAIN file
           /\ \A k \in DOMAIN file :
                 file'[k] = file[k]
                   \/ (file'[k] = Blank /\ file[k].num \in {undo[r]} \cup astray')
           /\ astray \subseteq astray' /\ astray' \subseteq Nat
<1> DEFINE n == Undoes(r)
<1>1. file \in Seq(Line) /\ undo[r] \in Nat /\ left[r] \in Nat /\ astray \subseteq Nat
  BY DEF TypeOK, Line
<1>2. /\ \A k \in DOMAIN file : file[k] \in Line
      /\ DOMAIN file = 1..Len(file) /\ Len(file) \in Nat
  BY <1>1, ElementOfSeq, LenProperties
<1>3. n \in Nat /\ (undo[r] # NoNumber => n = undo[r])
  BY <1>1 DEF Undoes
<1>4. Blank \in Line
  BY DEF Blank, Line, NoNumber
<1>5. CASE n = NoNumber /\ UNCHANGED <<file, astray>>
  BY <1>1, <1>5
<1>6. CASE /\ n # NoNumber /\ Taken(n)
           /\ file' = Deleted(n)
           /\ astray' = IF undo[r] = NoNumber THEN astray \cup {n} ELSE astray
  <2>1. file' \in Seq(Line) /\ DOMAIN file' = DOMAIN file
    BY <1>3, <1>6, DeletedLines
  <2>2. \A k \in DOMAIN file :
           file'[k] = file[k] \/ (file'[k] = Blank /\ file[k].num = n)
    BY <1>6 DEF Deleted
  <2>3. n \in {undo[r]} \cup astray' /\ astray \subseteq astray' /\ astray' \subseteq Nat
    BY <1>1, <1>3, <1>6
  <2> QED
    BY <2>1, <2>2, <2>3
<1>7. CASE \E last \in DOMAIN file :
              /\ file' = Wiped(last)
              /\ astray' = astray \cup {file[k].num : k \in 1..last}
  <2>1. PICK last \in DOMAIN file :
              /\ file' = Wiped(last)
              /\ astray' = astray \cup {file[k].num : k \in 1..last}
    BY <1>7
  <2>2. /\ DOMAIN file' = DOMAIN file
        /\ \A k \in DOMAIN file : file'[k] = IF k <= last THEN Blank ELSE file[k]
    BY <2>1 DEF Wiped
  <2>3. \A k \in DOMAIN file : file'[k] \in Line
    BY <1>2, <1>4, <2>2
  <2>4. file' = [k \in 1..Len(file) |-> IF k <= last THEN Blank ELSE file[k]]
    BY <1>2, <2>1 DEF Wiped
  <2>5. file' \in [1..Len(file) -> Line]
    BY <1>2, <2>3, <2>4
  <2>6. file' \in Seq(Line)
    BY <1>2, <2>5, SeqDef
  <2>7. \A k \in DOMAIN file : k <= last => file[k].num \in astray'
    BY <1>2, <2>1
  <2>8. \A k \in 1..last : file[k].num \in Nat
    BY <1>2, <2>1 DEF Line
  <2>9. astray \subseteq astray' /\ astray' \subseteq Nat
    BY <1>1, <2>1, <2>8
  <2> QED
    BY <2>2, <2>6, <2>7, <2>9
<1> QED
  BY <1>5, <1>6, <1>7 DEF Abort

LEMMA TypeInit == Init => TypeInv
  BY NobodyAssumption, NumberAssumption
  DEF Init, TypeInv, TypeOK, InSession, NoNumber, Unread

(* A new line goes at the end of the file, with the number of the session. *)
LEMMA WriteAppends ==
    ASSUME TypeInv, NEW r \in Receivers, Write(r)
    PROVE  /\ sd[r] \in Masters /\ Number[sd[r]] \in Nat \ {0}
           /\ file' \in Seq(Line)
           /\ DOMAIN file' = DOMAIN file \cup {Len(file) + 1}
           /\ Len(file) + 1 \notin DOMAIN file
           /\ \A k \in DOMAIN file : file'[k] = file[k]
           /\ file'[Len(file) + 1].num = Number[sd[r]]
<1>1. sd[r] \in Masters /\ Number[sd[r]] \in Nat \ {0}
  BY NumberAssumption DEF Write, TypeInv, InSession
<1> DEFINE e == [num |-> Number[sd[r]], by |-> user[r]]
<1>2. file \in Seq(Line) /\ e \in Line
  BY <1>1 DEF TypeInv, TypeOK, Line
<1>3. file' = Append(file, e)
  BY DEF Write
<1> HIDE DEF e
<1>4. /\ file' \in Seq(Line) /\ Len(file') = Len(file) + 1
      /\ \A k \in 1..Len(file) : file'[k] = file[k]
      /\ file'[Len(file) + 1] = e
  BY <1>2, <1>3, AppendProperties
<1>5. DOMAIN file = 1..Len(file) /\ DOMAIN file' = 1..Len(file') /\ Len(file) \in Nat
  BY <1>2, <1>4, LenProperties
<1> QED
  BY <1>1, <1>4, <1>5 DEF e

(* Orders that one master has sent. *)
LEMMA SendingTyped ==
    ASSUME TypeInv, NEW m \in Masters, NEW order \in Orders, Sends(m, order)
    PROVE  toPeer' \in [Masters -> Seq(Orders)]
<1>1. toPeer[m] \in Seq(Orders)
  BY DEF TypeInv, TypeOK
<1>2. Append(toPeer[m], order) \in Seq(Orders)
  BY <1>1, AppendProperties
<1> QED
  BY <1>2 DEF Sends, TypeInv, TypeOK

LEMMA ReadingTyped ==
    ASSUME TypeInv, NEW r \in Receivers, NEW order, Reads(r, order)
    PROVE  /\ toPeer' \in [Masters -> Seq(Orders)]
           /\ sd[r] \in Masters /\ rpc[r] = "read"
<1>1. sd[r] \in Masters
  BY DEF Reads, TypeInv, InSession
<1>2. toPeer[sd[r]] \in Seq(Orders) /\ toPeer[sd[r]] # <<>>
  BY <1>1 DEF Reads, TypeInv, TypeOK
<1>3. Tail(toPeer[sd[r]]) \in Seq(Orders)
  BY <1>2, HeadTailProperties
<1> QED
  BY <1>1, <1>3 DEF Reads, TypeInv, TypeOK

LEMMA TypeStep == TypeInv /\ [Next]_vars => TypeInv'
<1> SUFFICES ASSUME TypeInv, [Next]_vars PROVE TypeInv'
  OBVIOUS
<1> USE DEF TypeInv, TypeOK
<1>1. ASSUME NEW m \in Masters, Connect(m) PROVE TypeInv'
  <2>1. toPeer' \in [Masters -> Seq(Orders)]
    BY <1>1, SendingTyped DEF Connect, Orders
  <2> QED
    BY <1>1, <2>1 DEF Connect, Becomes, threads, history, InSession, Unread
<1>2. ASSUME NEW m \in Masters, SendCommit(m) PROVE TypeInv'
  <2>1. toPeer' \in [Masters -> Seq(Orders)]
    BY <1>2, SendingTyped DEF SendCommit, Orders
  <2> QED
    BY <1>2, <2>1 DEF SendCommit, Becomes, threads, history, listener, InSession, Unread
<1>3. ASSUME NEW m \in Masters, SendQuit(m) PROVE TypeInv'
  <2>1. toPeer' \in [Masters -> Seq(Orders)]
    BY <1>3, SendingTyped DEF SendQuit, Orders
  <2> QED
    BY <1>3, <2>1 DEF SendQuit, Becomes, threads, history, listener, InSession, Unread
<1>4. ASSUME NEW m \in Masters, SendAbort(m) PROVE TypeInv'
  <2>1. toPeer' \in [Masters -> Seq(Orders)]
    BY <1>4, SendingTyped DEF SendAbort, Orders
  <2> QED
    BY <1>4, <2>1 DEF SendAbort, Becomes, threads, history, listener, InSession, Unread
<1>5. ASSUME NEW m \in Masters, AcceptPeer(m) PROVE TypeInv'
  BY <1>5 DEF AcceptPeer, masters, threads, InSession, Unread
<1>6. ASSUME QueueJob PROVE TypeInv'
  BY <1>6 DEF QueueJob, masters, threads, history, InSession, Unread
<1>7. ASSUME NEW r \in Receivers, TakeJob(r) PROVE TypeInv'
  BY <1>7 DEF TakeJob, Goto, masters, history, InSession, Unread
<1>8. ASSUME NEW r \in Receivers, Begin(r) PROVE TypeInv'
  <2>1. clnt \in Masters
    BY <1>8 DEF Begin, Unread
  <2> QED
    BY <1>8, <2>1 DEF Begin, Goto, masters, listener, InSession, Unread, NoNumber, Undoes
<1>9. ASSUME NEW r \in Receivers, Precommit(r) PROVE TypeInv'
  <2>1. toPeer' \in [Masters -> Seq(Orders)] /\ sd[r] \in Masters
    BY <1>9, ReadingTyped DEF Precommit
  <2> QED
    BY <1>9, <2>1 DEF Precommit, Says, listener, history, InSession, Unread
<1>10. ASSUME NEW r \in Receivers, Commit(r) PROVE TypeInv'
  <2>1. toPeer' \in [Masters -> Seq(Orders)] /\ sd[r] \in Masters
    BY <1>10, ReadingTyped DEF Commit
  <2> QED
    BY <1>10, <2>1 DEF Commit, Goto, listener, history, InSession, Unread
<1>11. ASSUME NEW r \in Receivers, CheckFree(r) PROVE TypeInv'
  <2>1. Number[sd[r]] \in Nat
    BY <1>11, NumberAssumption DEF CheckFree, InSession
  <2> QED
    BY <1>11, <2>1 DEF CheckFree, Goto, listener, masters, InSession, Unread
<1>12. ASSUME NEW r \in Receivers, CheckTaken(r) PROVE TypeInv'
  BY <1>12 DEF CheckTaken, Goto, Says, listener, history, InSession, Unread
<1>13. ASSUME NEW r \in Receivers, Write(r) PROVE TypeInv'
  <2>1. sd[r] \in Masters /\ Number[sd[r]] \in Nat /\ file' \in Seq(Line)
    BY <1>13, WriteAppends
  <2> QED
    BY <1>13, <2>1 DEF Write, Goto, Says, listener, history, InSession, Unread, Line
<1>14. ASSUME NEW r \in Receivers, Abort(r) PROVE TypeInv'
  <2>1. toPeer' \in [Masters -> Seq(Orders)] /\ sd[r] \in Masters
    BY <1>14, ReadingTyped DEF Abort
  <2>2. file' \in Seq(Line) /\ astray' \subseteq Nat
    BY <1>14, AbortBlanks
  <2> QED
    BY <1>14, <2>1, <2>2 DEF Abort, Goto, listener, InSession, Unread, Line
<1>15. ASSUME NEW r \in Receivers, Quit(r) PROVE TypeInv'
  <2>1. toPeer' \in [Masters -> Seq(Orders)] /\ sd[r] \in Masters
    BY <1>15, ReadingTyped DEF Quit
  <2> QED
    BY <1>15, <2>1 DEF Quit, Goto, listener, history, InSession, Unread
<1>16. ASSUME NEW r \in Receivers, Hangup(r) PROVE TypeInv'
  BY <1>16 DEF Hangup, Goto, listener, masters, history, InSession, Unread
<1>17. CASE UNCHANGED vars
  BY <1>17 DEF vars, InSession, Unread
<1> QED
  BY <1>1, <1>2, <1>3, <1>4, <1>5, <1>6, <1>7, <1>8, <1>9, <1>10, <1>11, <1>12,
     <1>13, <1>14, <1>15, <1>16, <1>17
  DEF Next, Master, Listener, Receiver

(* peer_operations.cc:36-396: the state of the listener, its queue and its *)
(* receiver threads keeps its types, for any number of masters.            *)
THEOREM TypeCorrect == Spec => []TypeOK
<1>1. TypeInv => TypeOK
  BY DEF TypeInv
<1> QED
  BY <1>1, TypeInit, TypeStep, PTL DEF Spec

-----------------------------------------------------------------------------
(* Numbers *)

(* A thread about to append holds a number nobody else is about to append  *)
(* and no line has, unless the race is on record.                          *)
Alone(r) ==
    /\ ~Taken(Number[sd[r]])
    /\ \A q \in Receivers : q # r /\ rpc[q] = "write" => Number[sd[q]] # Number[sd[r]]

NumberInv ==
    /\ DuplicatesRaced
    /\ \A r \in Receivers : rpc[r] = "write" => Alone(r) \/ Number[sd[r]] \in raced

(* A step that leaves the file alone and sends no thread to append. *)
LEMMA QuietStep ==
    ASSUME NumberInv, file' = file, raced' = raced,
           \A r \in Receivers : rpc'[r] = "write" => rpc[r] = "write" /\ sd'[r] = sd[r]
    PROVE  NumberInv'
  BY DEF NumberInv, DuplicatesRaced, Alone, Taken

LEMMA NumberStep == TypeInv /\ NumberInv /\ [Next]_vars => NumberInv'
<1> SUFFICES ASSUME TypeInv, NumberInv, [Next]_vars PROVE NumberInv'
  OBVIOUS
<1>0. /\ rpc \in [Receivers -> {"idle", "begin", "read", "check", "write"}]
      /\ sd \in [Receivers -> Masters \cup {Nobody}]
  BY DEF TypeInv, TypeOK
<1>1. ASSUME NEW m \in Masters, Master(m) \/ AcceptPeer(m) PROVE NumberInv'
  BY <1>1, QuietStep DEF Master, Connect, SendCommit, SendQuit, SendAbort, AcceptPeer,
     threads, history
<1>2. ASSUME QueueJob PROVE NumberInv'
  BY <1>2, QuietStep DEF QueueJob, threads, history
<1>3. ASSUME NEW r \in Receivers,
             TakeJob(r) \/ Precommit(r) \/ Commit(r) \/ CheckTaken(r) \/ Quit(r) \/ Hangup(r)
      PROVE  NumberInv'
  BY <1>0, <1>3, QuietStep DEF TakeJob, Precommit, Commit, CheckTaken, Quit, Hangup,
     Reads, Goto, history
<1>4. ASSUME NEW r \in Receivers, Begin(r) PROVE NumberInv'
  BY <1>0, <1>4, QuietStep DEF Begin, Goto
<1>5. ASSUME NEW r \in Receivers, CheckFree(r) PROVE NumberInv'
  <2> DEFINE n == Number[sd[r]]
  <2>1. /\ ~Taken(n) /\ file' = file /\ sd' = sd
        /\ rpc'[r] = "write" /\ \A q \in Receivers \ {r} : rpc'[q] = rpc[q]
        /\ raced \subseteq raced'
        /\ (\E q \in Receivers \ {r} : rpc[q] = "write" /\ Number[sd[q]] = n)
              => n \in raced'
    BY <1>0, <1>5 DEF CheckFree, Goto
  <2>2. DuplicatesRaced'
    BY <2>1 DEF NumberInv, DuplicatesRaced
  <2>3. \A q \in Receivers : rpc'[q] = "write" => Alone(q)' \/ Number[sd'[q]] \in raced'
    BY <2>1 DEF NumberInv, Alone, Taken
  <2> QED
    BY <2>2, <2>3 DEF NumberInv
<1>6. ASSUME NEW r \in Receivers, Write(r) PROVE NumberInv'
  <2> DEFINE n == Number[sd[r]]
             end == Len(file) + 1
  <2>1. /\ DOMAIN file' = DOMAIN file \cup {end} /\ end \notin DOMAIN file
        /\ \A k \in DOMAIN file : file'[k] = file[k]
        /\ file'[end].num = n
    BY <1>6, WriteAppends
  <2>2. /\ rpc[r] = "write" /\ rpc'[r] = "read"
        /\ \A q \in Receivers \ {r} : rpc'[q] = rpc[q]
        /\ sd' = sd /\ raced' = raced
    BY <1>0, <1>6 DEF Write, Goto, history
  <2>3. ~Taken(n) \/ n \in raced
    BY <2>2 DEF NumberInv, Alone
  <2>4. DuplicatesRaced'
    BY <2>1, <2>2, <2>3 DEF NumberInv, DuplicatesRaced, Taken
  <2>5. ASSUME NEW q \in Receivers, rpc'[q] = "write", Number[sd[q]] \notin raced
        PROVE  Alone(q)'
    <3>1. q # r /\ rpc[q] = "write" /\ Alone(q) /\ Number[sd[q]] # n
      BY <2>2, <2>5 DEF NumberInv, Alone
    <3>2. ~Taken(Number[sd[q]])'
      BY <2>1, <2>2, <3>1 DEF Alone, Taken
    <3> QED
      BY <2>2, <3>1, <3>2 DEF Alone
  <2> QED
    BY <2>2, <2>4, <2>5 DEF NumberInv
<1>7. ASSUME NEW r \in Receivers, Abort(r) PROVE NumberInv'
  <2>1. /\ DOMAIN file' = DOMAIN file
        /\ \A k \in DOMAIN file : file'[k].num \in {file[k].num, NoNumber}
    BY <1>7, AbortBlanks DEF Blank, TypeInv
  <2>2. /\ \A q \in Receivers : rpc'[q] = "write" => rpc[q] = "write"
        /\ sd' = sd /\ raced' = raced
    BY <1>0, <1>7 DEF Abort, Goto
  <2>3. DuplicatesRaced'
    BY <2>1, <2>2 DEF NumberInv, DuplicatesRaced
  <2>4. ASSUME NEW q \in Receivers, rpc[q] = "write"
        PROVE  Number[sd[q]] # NoNumber
    BY <2>4, NumberAssumption DEF TypeInv, InSession, NoNumber
  <2> QED
    BY <2>1, <2>2, <2>3, <2>4 DEF NumberInv, Alone, Taken
<1>8. CASE UNCHANGED vars
  BY <1>8, QuietStep DEF vars
<1> QED
  BY <1>1, <1>2, <1>3, <1>4, <1>5, <1>6, <1>7, <1>8 DEF Next, Listener, Receiver

(* peer_operations.cc:220-225: a number is in a peer's file twice only if  *)
(* two threads found it free before either appended its line, whatever     *)
(* masters and receiver threads there are.                                 *)
THEOREM DuplicatesNeedRace == Spec => []DuplicatesRaced
<1>1. Init => NumberInv
  BY DEF Init, NumberInv, DuplicatesRaced
<1>2. NumberInv => DuplicatesRaced
  BY DEF NumberInv
<1> QED
  BY <1>1, <1>2, TypeInit, TypeStep, NumberStep, PTL DEF Spec

-----------------------------------------------------------------------------
(* Sessions *)

(* What a master has sent and nobody has read, by how far the master is. *)
OrdersInv ==
    \A m \in Masters :
        /\ mpc[m] = "new" => toPeer[m] = <<>> /\ answer[m] = "none"
        /\ mpc[m] = "connected" =>
             \/ toPeer[m] = <<"precommit">> /\ answer[m] # "positive"
             \/ toPeer[m] = <<>>
        /\ mpc[m] = "committing" =>
             \/ toPeer[m] = <<"commit">> /\ answer[m] = "none"
             \/ toPeer[m] = <<>>
        /\ mpc[m] = "quit" => toPeer[m] \in {<<"quit">>, <<>>}

CommitInv ==
    \A r \in Receivers :
        rpc[r] \in {"check", "write"} =>
            /\ mpc[sd[r]] \in {"committing", "quit", "aborted"}
            /\ mpc[sd[r]] = "committing" => toPeer[sd[r]] = <<>>

(* Numbers whose line another may have taken. *)
Excused == raced \cup astray

(* What a session has noted to undo is the number of its own master; it is *)
(* in the file, and no other session has noted it.                         *)
UndoInv ==
    \A r \in Receivers :
        InSession(r) /\ undo[r] # NoNumber =>
            /\ undo[r] = Number[sd[r]]
            /\ \/ undo[r] \in Excused
               \/ /\ Taken(undo[r])
                  /\ \A q \in Receivers : InSession(q) /\ undo[q] = undo[r] => q = r

Told(m) == mpc[m] = "quit" \/ (mpc[m] = "committing" /\ answer[m] = "positive")

(* A master that was told "positive" has its number in the file, and only  *)
(* a session of its own may undo it.                                       *)
ToldInv ==
    \A m \in Masters :
        Told(m) =>
            \/ Number[m] \in Excused
            \/ /\ Taken(Number[m])
               /\ \A r \in Receivers : InSession(r) /\ undo[r] = Number[m] => sd[r] = m

SessionInv == OrdersInv /\ CommitInv /\ UndoInv /\ ToldInv

(* A step that leaves file, numbers and what threads may undo alone. *)
LEMMA FileUntouched ==
    ASSUME TypeInv, SessionInv,
           file' = file, Excused \subseteq Excused', sd' = sd, undo' = undo,
           \A r \in Receivers : InSession(r)' => InSession(r),
           \A m \in Masters : Told(m)' => Told(m)
    PROVE  UndoInv' /\ ToldInv'
  BY DEF SessionInv, UndoInv, ToldInv, Taken

(* A thread takes the only order there is, unless the master has aborted. *)
LEMMA OrderRead ==
    ASSUME TypeInv, OrdersInv, NEW r \in Receivers, NEW order \in Orders, Reads(r, order)
    PROVE  /\ sd[r] \in Masters
           /\ \A m \in Masters : m # sd[r] => toPeer'[m] = toPeer[m]
           /\ mpc[sd[r]] # "new"
           /\ mpc[sd[r]] = "connected" => order = "precommit" /\ toPeer'[sd[r]] = <<>>
           /\ mpc[sd[r]] = "committing" => order = "commit" /\ toPeer'[sd[r]] = <<>>
           /\ mpc[sd[r]] = "quit" =>
                order = "quit" /\ toPeer'[sd[r]] = <<>>
<1>1. sd[r] \in Masters
  BY DEF Reads, TypeInv, InSession
<1>2. /\ toPeer[sd[r]] # <<>> /\ Head(toPeer[sd[r]]) = order
      /\ toPeer'[sd[r]] = Tail(toPeer[sd[r]])
      /\ \A m \in Masters : m # sd[r] => toPeer'[m] = toPeer[m]
  BY <1>1 DEF Reads, TypeInv, TypeOK
<1>3. /\ Head(<<"precommit">>) = "precommit" /\ Tail(<<"precommit">>) = <<>>
      /\ Head(<<"commit">>) = "commit" /\ Tail(<<"commit">>) = <<>>
      /\ Head(<<"quit">>) = "quit" /\ Tail(<<"quit">>) = <<>>
  OBVIOUS
<1> QED
  BY <1>1, <1>2, <1>3 DEF OrdersInv

LEMMA OrdersAppended ==
    /\ Append(<<>>, "precommit") = <<"precommit">>
    /\ Append(<<>>, "commit") = <<"commit">>
    /\ Append(<<>>, "quit") = <<"quit">>
  OBVIOUS

LEMMA SessionStep ==
    TypeInv /\ NumberInv /\ SessionInv /\ [Next]_vars => SessionInv'
<1> SUFFICES ASSUME TypeInv, NumberInv, SessionInv, [Next]_vars PROVE SessionInv'
  OBVIOUS
<1>0. /\ rpc \in [Receivers -> {"idle", "begin", "read", "check", "write"}]
      /\ sd \in [Receivers -> Masters \cup {Nobody}]
      /\ undo \in [Receivers -> Nat]
      /\ mpc \in [Masters -> {"new", "connected", "committing", "quit", "aborted"}]
      /\ toPeer \in [Masters -> Seq(Orders)]
      /\ answer \in [Masters -> {"none", "positive", "negative_exists"}]
      /\ \A r \in Receivers : rpc[r] \in {"check", "write"} => sd[r] \in Masters
      /\ OrdersInv /\ CommitInv /\ UndoInv /\ ToldInv
  BY DEF TypeInv, TypeOK, SessionInv, InSession
<1>1. ASSUME NEW m \in Masters, Connect(m) PROVE SessionInv'
  <2>1. /\ mpc[m] = "new" /\ toPeer[m] = <<>> /\ toPeer'[m] = <<"precommit">>
        /\ answer' = answer /\ answer[m] = "none" /\ mpc'[m] = "connected"
        /\ \A n \in Masters : n # m => mpc'[n] = mpc[n] /\ toPeer'[n] = toPeer[n]
    BY <1>0, <1>1, OrdersAppended DEF Connect, Becomes, Sends, OrdersInv
  <2>2. OrdersInv'
    BY <1>0, <2>1 DEF OrdersInv
  <2>3. CommitInv'
    BY <1>0, <1>1, <2>1 DEF CommitInv, Connect, threads, TypeInv, InSession
  <2>4. UndoInv' /\ ToldInv'
    BY <1>1, <2>1, FileUntouched DEF Connect, threads, history, Excused, InSession, Told
  <2> QED
    BY <2>2, <2>3, <2>4 DEF SessionInv
<1>2. ASSUME NEW m \in Masters, SendCommit(m) PROVE SessionInv'
  <2>1. /\ mpc[m] = "connected" /\ toPeer[m] = <<>> /\ toPeer'[m] = <<"commit">>
        /\ answer'[m] = "none" /\ mpc'[m] = "committing"
        /\ \A n \in Masters : n # m => /\ mpc'[n] = mpc[n] /\ toPeer'[n] = toPeer[n]
                                       /\ answer'[n] = answer[n]
    BY <1>0, <1>2, OrdersAppended DEF SendCommit, Becomes, Sends, OrdersInv
  <2>2. OrdersInv'
    BY <1>0, <2>1 DEF OrdersInv
  <2>3. CommitInv'
    BY <1>0, <1>2, <2>1 DEF CommitInv, SendCommit, threads, TypeInv, InSession
  <2>4. UndoInv' /\ ToldInv'
    BY <1>2, <2>1, FileUntouched DEF SendCommit, threads, history, Excused, InSession, Told
  <2> QED
    BY <2>2, <2>3, <2>4 DEF SessionInv
<1>3. ASSUME NEW m \in Masters, SendQuit(m) PROVE SessionInv'
  <2>1. /\ mpc[m] = "committing" /\ toPeer[m] = <<>> /\ toPeer'[m] = <<"quit">>
        /\ answer[m] = "positive" /\ answer' = answer /\ mpc'[m] = "quit"
        /\ \A n \in Masters : n # m => mpc'[n] = mpc[n] /\ toPeer'[n] = toPeer[n]
    BY <1>0, <1>3, OrdersAppended DEF SendQuit, Becomes, Sends, OrdersInv
  <2>2. OrdersInv'
    BY <1>0, <2>1 DEF OrdersInv
  <2>3. CommitInv'
    BY <1>0, <1>3, <2>1 DEF CommitInv, SendQuit, threads, TypeInv, InSession
  <2>4. UndoInv' /\ ToldInv'
    BY <1>3, <2>1, FileUntouched DEF SendQuit, threads, history, Excused, InSession, Told
  <2> QED
    BY <2>2, <2>3, <2>4 DEF SessionInv
<1>4. ASSUME NEW m \in Masters, SendAbort(m) PROVE SessionInv'
  <2>1. /\ mpc'[m] = "aborted" /\ answer' = answer
        /\ \A n \in Masters : n # m => mpc'[n] = mpc[n] /\ toPeer'[n] = toPeer[n]
    BY <1>0, <1>4 DEF SendAbort, Becomes, Sends
  <2>2. OrdersInv'
    BY <1>0, <2>1 DEF OrdersInv
  <2>3. CommitInv'
    BY <1>0, <1>4, <2>1 DEF CommitInv, SendAbort, threads, TypeInv, InSession
  <2>4. UndoInv' /\ ToldInv'
    BY <1>4, <2>1, FileUntouched DEF SendAbort, threads, history, Excused, InSession, Told
  <2> QED
    BY <2>2, <2>3, <2>4 DEF SessionInv
<1>5. ASSUME NEW m \in Masters, AcceptPeer(m) PROVE SessionInv'
  <2>1. UndoInv' /\ ToldInv'
    BY <1>5, FileUntouched DEF AcceptPeer, masters, threads, InSession, Told, Excused
  <2> QED
    BY <1>0, <1>5, <2>1 DEF SessionInv, OrdersInv, CommitInv, AcceptPeer, masters, threads
<1>6. ASSUME QueueJob PROVE SessionInv'
  <2>1. UndoInv' /\ ToldInv'
    BY <1>6, FileUntouched DEF QueueJob, masters, threads, history, Excused, InSession, Told
  <2> QED
    BY <1>0, <1>6, <2>1 DEF SessionInv, OrdersInv, CommitInv, QueueJob, masters, threads
<1>7. ASSUME NEW r \in Receivers, TakeJob(r) \/ Hangup(r) PROVE SessionInv'
  <2>1. /\ UNCHANGED <<file, Excused, sd, undo, mpc, toPeer, answer>>
        /\ rpc'[r] \in {"begin", "idle"}
        /\ \A q \in Receivers : q # r => rpc'[q] = rpc[q]
    BY <1>0, <1>7 DEF TakeJob, Hangup, Goto, masters, history, Excused
  <2>2. UndoInv' /\ ToldInv'
    BY <2>1, FileUntouched DEF InSession, Told
  <2> QED
    BY <1>0, <2>1, <2>2 DEF SessionInv, OrdersInv, CommitInv
<1>8. ASSUME NEW r \in Receivers, Begin(r) PROVE SessionInv'
  <2>1. /\ UNCHANGED <<file, Excused, mpc, toPeer, answer>>
        /\ rpc'[r] = "read" /\ undo'[r] = NoNumber
        /\ \A q \in Receivers : q # r =>
              rpc'[q] = rpc[q] /\ sd'[q] = sd[q] /\ undo'[q] = undo[q]
    BY <1>0, <1>8 DEF Begin, Goto, masters, Excused
  <2>2. \A m \in Masters : Number[m] # NoNumber
    BY NumberAssumption DEF NoNumber
  <2>3. UndoInv'
    <3> SUFFICES ASSUME NEW q \in Receivers, InSession(q)', undo'[q] # NoNumber
                 PROVE  /\ undo'[q] = Number[sd'[q]]
                        /\ \/ undo'[q] \in Excused
                           \/ /\ Taken(undo[q])'
                              /\ \A p \in Receivers :
                                   InSession(p)' /\ undo'[p] = undo'[q] => p = q
      BY <2>1 DEF UndoInv
    <3>1. /\ q # r /\ InSession(q) /\ undo'[q] = undo[q] /\ sd'[q] = sd[q]
      BY <2>1 DEF InSession
    <3>2. /\ undo[q] = Number[sd[q]]
          /\ \/ undo[q] \in Excused
             \/ /\ Taken(undo[q])
                /\ \A p \in Receivers : InSession(p) /\ undo[p] = undo[q] => p = q
      BY <1>0, <3>1 DEF UndoInv
    <3>3. \A p \in Receivers : InSession(p)' /\ undo'[p] = undo'[q]
             => InSession(p) /\ undo[p] = undo[q]
      BY <2>1 DEF InSession
    <3>4. Taken(undo[q]) => Taken(undo[q])'
      BY <2>1, <3>1 DEF Taken
    <3> QED
      BY <3>1, <3>2, <3>3, <3>4
  <2>4. ToldInv'
    BY <1>0, <2>1, <2>2 DEF ToldInv, Told, InSession, Taken
  <2> QED
    BY <1>0, <2>1, <2>3, <2>4 DEF SessionInv, OrdersInv, CommitInv
<1>9. ASSUME NEW r \in Receivers, Precommit(r) PROVE SessionInv'
  <2>1. /\ UNCHANGED <<file, Excused, mpc, rpc, sd, undo>>
        /\ sd[r] \in Masters
        /\ \A m \in Masters : m # sd[r] => toPeer'[m] = toPeer[m] /\ answer'[m] = answer[m]
        /\ mpc[sd[r]] \in {"connected", "aborted"}
        /\ mpc[sd[r]] = "connected" => toPeer'[sd[r]] = <<>>
    BY <1>0, <1>9, OrderRead DEF Precommit, Says, history, Excused, Orders
  <2>2. OrdersInv'
    BY <1>0, <2>1 DEF OrdersInv
  <2>3. UndoInv' /\ ToldInv'
    BY <2>1, FileUntouched DEF InSession, Told
  <2> QED
    BY <1>0, <2>1, <2>2, <2>3 DEF SessionInv, CommitInv
<1>10. ASSUME NEW r \in Receivers, Commit(r) PROVE SessionInv'
  <2>1. /\ UNCHANGED <<file, Excused, mpc, answer, sd, undo>>
        /\ sd[r] \in Masters /\ rpc[r] = "read" /\ rpc'[r] = "check"
        /\ \A q \in Receivers : q # r => rpc'[q] = rpc[q]
        /\ \A m \in Masters : m # sd[r] => toPeer'[m] = toPeer[m]
        /\ mpc[sd[r]] \in {"committing", "aborted"}
        /\ mpc[sd[r]] = "committing" => toPeer'[sd[r]] = <<>>
    BY <1>0, <1>10, OrderRead, ReadingTyped DEF Commit, Goto, history, Excused, Orders
  <2>2. OrdersInv'
    BY <1>0, <2>1 DEF OrdersInv
  <2>3. UndoInv' /\ ToldInv'
    BY <2>1, FileUntouched DEF InSession, Told
  <2> QED
    BY <1>0, <2>1, <2>2, <2>3 DEF SessionInv, CommitInv
<1>11. ASSUME NEW r \in Receivers, CheckFree(r) PROVE SessionInv'
  <2>1. /\ UNCHANGED <<file, mpc, toPeer, answer, sd, undo>>
        /\ Excused \subseteq Excused'
        /\ rpc[r] = "check" /\ rpc'[r] = "write"
        /\ \A q \in Receivers : q # r => rpc'[q] = rpc[q]
    BY <1>0, <1>11 DEF CheckFree, Goto, masters, Excused
  <2>2. UndoInv' /\ ToldInv'
    BY <2>1, FileUntouched DEF InSession, Told
  <2> QED
    BY <1>0, <2>1, <2>2 DEF SessionInv, OrdersInv, CommitInv
<1>12. ASSUME NEW r \in Receivers, CheckTaken(r) PROVE SessionInv'
  <2>1. /\ UNCHANGED <<file, Excused, mpc, toPeer, sd, undo>>
        /\ sd[r] \in Masters /\ rpc[r] = "check" /\ rpc'[r] = "idle"
        /\ mpc[sd[r]] \in {"committing", "quit", "aborted"}
        /\ mpc[sd[r]] = "committing" => toPeer[sd[r]] = <<>>
        /\ \A q \in Receivers : q # r => rpc'[q] = rpc[q]
        /\ answer'[sd[r]] = "negative_exists"
        /\ \A m \in Masters : m # sd[r] => answer'[m] = answer[m]
    BY <1>0, <1>12 DEF CheckTaken, Goto, Says, history, Excused, TypeInv, InSession, CommitInv
  <2>2. UndoInv' /\ ToldInv'
    BY <2>1, FileUntouched DEF InSession, Told
  <2> QED
    BY <1>0, <2>1, <2>2 DEF SessionInv, OrdersInv, CommitInv
<1>13. ASSUME NEW r \in Receivers, Write(r) PROVE SessionInv'
  <2> DEFINE n == Number[sd[r]]
             end == Len(file) + 1
  <2>1. /\ DOMAIN file' = DOMAIN file \cup {end}
        /\ \A k \in DOMAIN file : file'[k] = file[k]
        /\ file'[end].num = n
        /\ sd[r] \in Masters /\ n \in Nat \ {0}
    BY <1>13, WriteAppends
  <2>2. (\E k \in DOMAIN file' : file'[k].num = n) /\ \A u \in Nat : Taken(u) => Taken(u)'
    BY <2>1 DEF Taken
  <2>3. /\ UNCHANGED <<Excused, mpc, toPeer, sd>>
        /\ rpc[r] = "write" /\ rpc'[r] = "read" /\ undo'[r] = n
        /\ mpc[sd[r]] \in {"committing", "quit", "aborted"}
        /\ mpc[sd[r]] = "committing" => toPeer[sd[r]] = <<>>
        /\ \A q \in Receivers : q # r => rpc'[q] = rpc[q] /\ undo'[q] = undo[q]
        /\ \A m \in Masters : m # sd[r] => answer'[m] = answer[m]
    BY <1>0, <1>13, <2>1 DEF Write, Goto, Says, history, Excused, CommitInv
  <2>4. ~Taken(n) \/ n \in Excused
    BY <2>3 DEF NumberInv, Alone, Excused
  <2>5. OrdersInv' /\ CommitInv'
    BY <1>0, <2>3 DEF OrdersInv, CommitInv
  <2>6. \A q \in Receivers : q # r /\ InSession(q) /\ undo[q] = n => n \in Excused
    BY <1>0, <2>1, <2>4 DEF UndoInv, NoNumber
  <2>7. UndoInv'
    <3> SUFFICES ASSUME NEW q \in Receivers, InSession(q)', undo'[q] # NoNumber,
                        undo'[q] \notin Excused
                 PROVE  /\ Taken(undo[q])'
                        /\ \A p \in Receivers :
                              InSession(p)' /\ undo'[p] = undo'[q] => p = q
                        /\ undo'[q] = Number[sd'[q]]
      <4>1. \A q \in Receivers : InSession(q)' /\ undo'[q] # NoNumber
               => undo'[q] = Number[sd'[q]]
        BY <1>0, <2>3 DEF UndoInv, InSession
      <4> QED
        BY <4>1, <2>3 DEF UndoInv
    <3>1. CASE q = r
      <4>1. undo'[q] = n /\ n \notin Excused /\ Taken(undo[q])'
        BY <2>2, <2>3, <3>1 DEF Taken
      <4>2. ASSUME NEW p \in Receivers, InSession(p)', undo'[p] = n PROVE p = r
        BY <2>3, <2>6, <4>1, <4>2 DEF InSession
      <4> QED
        BY <2>3, <3>1, <4>1, <4>2
    <3>2. CASE q # r
      <4>1. /\ InSession(q) /\ undo[q] # NoNumber /\ undo[q] \notin Excused
            /\ undo'[q] = undo[q] /\ undo[q] \in Nat
        BY <1>0, <2>3, <3>2 DEF InSession
      <4>2. /\ undo[q] = Number[sd[q]] /\ Taken(undo[q])
            /\ \A p \in Receivers : InSession(p) /\ undo[p] = undo[q] => p = q
        BY <1>0, <4>1 DEF UndoInv
      <4>3. undo[q] # n
        BY <2>6, <3>2, <4>1
      <4>4. Taken(undo[q])'
        BY <2>2, <4>1, <4>2 DEF Taken
      <4>5. ASSUME NEW p \in Receivers, InSession(p)', undo'[p] = undo'[q] PROVE p = q
        <5>1. p # r
          BY <2>3, <4>1, <4>3, <4>5
        <5> QED
          BY <2>3, <4>1, <4>2, <4>5, <5>1 DEF InSession
      <4> QED
        BY <2>3, <4>1, <4>2, <4>4, <4>5
    <3> QED
      BY <3>1, <3>2
  <2>8. ToldInv'
    <3> SUFFICES ASSUME NEW m \in Masters, Told(m)', Number[m] \notin Excused
                 PROVE  /\ Taken(Number[m])'
                        /\ \A q \in Receivers :
                              InSession(q)' /\ undo'[q] = Number[m] => sd'[q] = m
      BY <2>3 DEF ToldInv
    <3>1. CASE m = sd[r]
      BY <2>2, <2>3, <2>6, <3>1 DEF InSession, Taken
    <3>2. CASE m # sd[r]
      <4>1. Told(m) /\ Taken(Number[m]) /\ Number[m] \in Nat
        BY <1>0, <2>3, <3>2, NumberAssumption DEF Told, ToldInv
      <4>2. Number[m] # n
        BY <2>4, <4>1
      <4>3. \A q \in Receivers : InSession(q) /\ undo[q] = Number[m] => sd[q] = m
        BY <1>0, <4>1 DEF ToldInv
      <4>4. ASSUME NEW q \in Receivers, InSession(q)', undo'[q] = Number[m]
            PROVE  sd'[q] = m
        <5>1. q # r
          BY <2>3, <4>2, <4>4
        <5> QED
          BY <2>3, <4>3, <4>4, <5>1 DEF InSession
      <4> QED
        BY <2>2, <4>1, <4>4
    <3> QED
      BY <3>1, <3>2
  <2> QED
    BY <2>5, <2>7, <2>8 DEF SessionInv
<1>14. ASSUME NEW r \in Receivers, Abort(r) PROVE SessionInv'
  <2> DEFINE n == undo[r]
  <2>1. /\ UNCHANGED <<mpc, answer, sd, undo>>
        /\ sd[r] \in Masters /\ rpc[r] = "read" /\ rpc'[r] = "idle" /\ n \in Nat
        /\ mpc[sd[r]] = "aborted"
        /\ \A q \in Receivers : q # r => rpc'[q] = rpc[q]
        /\ \A m \in Masters : m # sd[r] => toPeer'[m] = toPeer[m]
    BY <1>0, <1>14, OrderRead, ReadingTyped DEF Abort, Goto, Orders
  <2>2. OrdersInv' /\ CommitInv'
    BY <1>0, <2>1 DEF OrdersInv, CommitInv
  <2>3. raced' = raced
    BY <1>14 DEF Abort
  <2>4. /\ Excused \subseteq Excused'
        /\ \A u \in Nat : Taken(u) => Taken(u)' \/ u \in {n} \cup Excused'
    <3>1. /\ DOMAIN file' = DOMAIN file /\ astray \subseteq astray'
          /\ \A k \in DOMAIN file :
                file'[k] = file[k] \/ file[k].num \in {n} \cup astray'
      BY <1>14, AbortBlanks DEF TypeInv
    <3> QED
      BY <2>3, <3>1 DEF Taken, Excused
  <2>5. UndoInv'
    <3> SUFFICES ASSUME NEW q \in Receivers, InSession(q)', undo[q] # NoNumber
                 PROVE  /\ undo[q] = Number[sd[q]]
                        /\ \/ undo[q] \in Excused'
                           \/ /\ Taken(undo[q])'
                              /\ \A p \in Receivers :
                                   InSession(p)' /\ undo[p] = undo[q] => p = q
      BY <2>1 DEF UndoInv
    <3>1. q # r /\ InSession(q) /\ undo[q] \in Nat
      BY <1>0, <2>1 DEF InSession
    <3>2. undo[q] \in Excused \/ undo[q] # n
      BY <1>0, <2>1, <3>1 DEF UndoInv, InSession
    <3>3. \A p \in Receivers : InSession(p)' => InSession(p)
      BY <2>1 DEF InSession
    <3>4. /\ undo[q] = Number[sd[q]]
          /\ \/ undo[q] \in Excused
             \/ /\ Taken(undo[q])
                /\ \A p \in Receivers : InSession(p) /\ undo[p] = undo[q] => p = q
      BY <1>0, <3>1 DEF UndoInv
    <3>5. undo[q] \in Excused' \/ Taken(undo[q])'
      BY <2>1, <2>4, <3>1, <3>2, <3>4 DEF Taken
    <3> QED
      BY <2>1, <2>4, <3>3, <3>4, <3>5
  <2>6. ToldInv'
    <3> SUFFICES ASSUME NEW m \in Masters, Told(m), Number[m] \notin Excused'
                 PROVE  /\ Taken(Number[m])'
                        /\ \A q \in Receivers :
                              InSession(q)' /\ undo[q] = Number[m] => sd[q] = m
      BY <2>1 DEF ToldInv, Told
    <3>1. m # sd[r]
      BY <2>1 DEF Told
    <3>2. /\ Taken(Number[m]) /\ Number[m] \in Nat
          /\ \A q \in Receivers : InSession(q) /\ undo[q] = Number[m] => sd[q] = m
      BY <1>0, <2>4, NumberAssumption DEF ToldInv
    <3>3. Number[m] # n
      BY <2>1, <3>1, <3>2 DEF InSession
    <3>4. \A q \in Receivers : InSession(q)' => InSession(q)
      BY <2>1 DEF InSession
    <3> QED
      BY <2>4, <3>2, <3>3, <3>4
  <2> QED
    BY <2>2, <2>5, <2>6 DEF SessionInv
<1>15. ASSUME NEW r \in Receivers, Quit(r) PROVE SessionInv'
  <2>1. /\ UNCHANGED <<file, Excused, mpc, answer, sd, undo>>
        /\ sd[r] \in Masters /\ rpc'[r] = "idle"
        /\ \A q \in Receivers : q # r => rpc'[q] = rpc[q]
        /\ \A m \in Masters : m # sd[r] => toPeer'[m] = toPeer[m]
        /\ mpc[sd[r]] \in {"quit", "aborted"}
        /\ mpc[sd[r]] = "quit" => toPeer'[sd[r]] = <<>>
    BY <1>0, <1>15, OrderRead DEF Quit, Goto, history, Excused, Orders
  <2>2. UndoInv' /\ ToldInv'
    BY <2>1, FileUntouched DEF InSession, Told
  <2> QED
    BY <1>0, <2>1, <2>2 DEF SessionInv, OrdersInv, CommitInv
<1>16. CASE UNCHANGED vars
  <2>1. UndoInv' /\ ToldInv'
    BY <1>16, FileUntouched DEF vars, InSession, Told, Excused
  <2> QED
    BY <1>0, <1>16, <2>1 DEF vars, SessionInv, OrdersInv, CommitInv
<1> QED
  BY <1>1, <1>2, <1>3, <1>4, <1>5, <1>6, <1>7, <1>8, <1>9, <1>10, <1>11, <1>12,
     <1>13, <1>14, <1>15, <1>16
  DEF Next, Master, Listener, Receiver

(* peer_operations.cc:101, 130-152, 225-231: a master that has quit,       *)
(* having been told "positive", has its message in the file whatever other *)
(* masters abort, unless its number was raced for, or an abort of a        *)
(* session that had committed nothing blanked it: what such a session      *)
(* finds in undo_nmbr is of an earlier session of its thread.              *)
THEOREM QuitIsKept == Spec => []QuitStays
<1>1. Init => NumberInv
  BY DEF Init, NumberInv, DuplicatesRaced
<1>2. Init => SessionInv
  BY DEF Init, SessionInv, OrdersInv, CommitInv, UndoInv, ToldInv, Told, InSession
<1>3. SessionInv => QuitStays
  BY DEF SessionInv, ToldInv, Told, QuitStays, Taken, Excused
<1> QED
  BY <1>1, <1>2, <1>3, TypeInit, TypeStep, NumberStep, SessionStep, PTL DEF Spec

-----------------------------------------------------------------------------
(* Connections *)

Beginning == {r \in Receivers : rpc[r] = "begin"}

(* The one job of a connection that was accepted when no other was under   *)
(* way: about to be queued, in the queue, taken, or its thread has read    *)
(* the socket.                                                             *)
OneJob(m) ==
    \/ lpc = "push" /\ jobs = 0 /\ Beginning = {} /\ served[m] = {}
    \/ lpc = "accept" /\ jobs = 1 /\ Beginning = {} /\ served[m] = {}
    \/ /\ lpc = "accept" /\ jobs = 0 /\ served[m] = {}
       /\ \E r \in Receivers : Beginning = {r}
    \/ /\ lpc = "accept" /\ jobs = 0 /\ Beginning = {}
       /\ \E r \in Receivers : served[m] = {r}

(* A connection is in the backlog, then in client_t, then gone from there; *)
(* unless it clashed, it leaves with exactly one thread.                   *)
ServedInv ==
    \A m \in Masters :
        /\ mpc[m] = "new" => m \notin backlog /\ clnt # m
        /\ m \in backlog => clnt # m
        /\ mpc[m] = "new" \/ m \in backlog => served[m] = {}
        /\ m \notin clash =>
              /\ clnt = m => OneJob(m)
              /\ mpc[m] # "new" /\ m \notin backlog /\ clnt # m
                    => \E r \in Receivers : served[m] = {r}

(* Nothing that happens inside the sessions matters here. *)
LEMMA ServedKeeps ==
    ASSUME ServedInv, UNCHANGED <<backlog, clnt, lpc, jobs, served, clash>>,
           \A m \in Masters : mpc'[m] = "new" <=> mpc[m] = "new",
           \A r \in Receivers : rpc'[r] = "begin" <=> rpc[r] = "begin"
    PROVE  ServedInv'
<1>1. Beginning' = Beginning
  BY DEF Beginning
<1> QED
  BY <1>1 DEF ServedInv, OneJob

LEMMA ServedStep == TypeInv /\ ServedInv /\ [Next]_vars => ServedInv'
<1> SUFFICES ASSUME TypeInv, ServedInv, [Next]_vars PROVE ServedInv'
  OBVIOUS
<1>0. /\ rpc \in [Receivers -> {"idle", "begin", "read", "check", "write"}]
      /\ mpc \in [Masters -> {"new", "connected", "committing", "quit", "aborted"}]
      /\ served \in [Masters -> SUBSET Receivers]
      /\ jobs \in Nat /\ backlog \subseteq Masters
      /\ lpc = "push" \/ Unread => clnt \in Masters
  BY DEF TypeInv, TypeOK
<1>1. ASSUME NEW m \in Masters, Connect(m) PROVE ServedInv'
  <2>1. /\ UNCHANGED <<clnt, lpc, jobs, rpc, served, clash>>
        /\ mpc[m] = "new" /\ mpc'[m] = "connected" /\ backlog' = backlog \cup {m}
        /\ \A n \in Masters : n # m => mpc'[n] = mpc[n]
    BY <1>0, <1>1 DEF Connect, Becomes, threads, history
  <2> QED
    BY <2>1 DEF ServedInv, OneJob, Beginning
<1>2. ASSUME NEW m \in Masters, SendCommit(m) \/ SendQuit(m) \/ SendAbort(m)
      PROVE  ServedInv'
  <2>1. /\ UNCHANGED <<backlog, clnt, lpc, jobs, rpc, served, clash>>
        /\ \A n \in Masters : mpc'[n] = "new" <=> mpc[n] = "new"
    BY <1>0, <1>2 DEF SendCommit, SendQuit, SendAbort, Becomes, listener, threads, history
  <2> QED
    BY <2>1, ServedKeeps
<1>3. ASSUME NEW m \in Masters, AcceptPeer(m) PROVE ServedInv'
  <2>1. /\ UNCHANGED <<jobs, mpc, rpc, served>> /\ lpc = "accept" /\ lpc' = "push"
        /\ m \in backlog /\ backlog' = backlog \ {m} /\ clnt' = m
        /\ clash' = IF Unread THEN clash \cup {clnt, m} ELSE clash
    BY <1>3 DEF AcceptPeer, masters, threads
  <2>2. Beginning' = Beginning
    BY <2>1 DEF Beginning
  <2>3. ~Unread => jobs = 0 /\ Beginning = {}
    BY <1>0 DEF Unread, Beginning
  <2>4. mpc[m] # "new" /\ served[m] = {}
    BY <2>1 DEF ServedInv
  <2>5. m \notin clash' => OneJob(m)'
    BY <2>1, <2>2, <2>3, <2>4 DEF OneJob
  <2>6. clnt \in Masters /\ clnt \notin clash' => \E r \in Receivers : served[clnt] = {r}
    <3> SUFFICES ASSUME clnt \in Masters, clnt \notin clash'
                 PROVE  \E r \in Receivers : served[clnt] = {r}
      OBVIOUS
    <3>1. ~Unread /\ OneJob(clnt)
      BY <2>1 DEF ServedInv
    <3> QED
      BY <2>1, <2>3, <3>1 DEF OneJob, Unread, Beginning
  <2> QED
    BY <2>1, <2>4, <2>5, <2>6 DEF ServedInv
<1>4. ASSUME QueueJob PROVE ServedInv'
  <2>1. /\ UNCHANGED <<backlog, clnt, mpc, rpc, served, clash>>
        /\ lpc = "push" /\ lpc' = "accept" /\ jobs' = jobs + 1
    BY <1>4 DEF QueueJob, masters, threads, history
  <2>2. \A m \in Masters : OneJob(m) => OneJob(m)'
    BY <2>1 DEF OneJob, Beginning
  <2> QED
    BY <2>1, <2>2 DEF ServedInv
<1>5. ASSUME NEW r \in Receivers, TakeJob(r) PROVE ServedInv'
  <2>1. /\ UNCHANGED <<backlog, clnt, lpc, mpc, served, clash>>
        /\ jobs > 0 /\ jobs' = jobs - 1
        /\ Beginning' = Beginning \cup {r}
    BY <1>0, <1>5 DEF TakeJob, Goto, masters, history, Beginning
  <2>2. \A m \in Masters : OneJob(m) => OneJob(m)'
    BY <1>0, <2>1 DEF OneJob
  <2> QED
    BY <2>1, <2>2 DEF ServedInv
<1>6. ASSUME NEW r \in Receivers, Begin(r) PROVE ServedInv'
  <2>1. /\ UNCHANGED <<backlog, clnt, lpc, jobs, mpc, clash>>
        /\ r \in Beginning /\ Beginning' = Beginning \ {r}
        /\ clnt \in Masters /\ served' = [served EXCEPT ![clnt] = @ \cup {r}]
    BY <1>0, <1>6 DEF Begin, Goto, listener, masters, Beginning, Unread
  <2>2. /\ served'[clnt] = served[clnt] \cup {r}
        /\ \A m \in Masters : m # clnt => served'[m] = served[m]
    BY <1>0, <2>1
  <2>3. OneJob(clnt) => OneJob(clnt)'
    BY <2>1, <2>2 DEF OneJob
  <2> QED
    BY <2>1, <2>2, <2>3 DEF ServedInv
<1>7. ASSUME NEW r \in Receivers,
             \/ Precommit(r) \/ Commit(r) \/ CheckFree(r) \/ CheckTaken(r) \/ Write(r)
             \/ Abort(r) \/ Quit(r) \/ Hangup(r)
      PROVE  ServedInv'
  <2>1. UNCHANGED <<backlog, clnt, lpc, jobs, mpc, served, clash>>
    BY <1>7 DEF Precommit, Commit, CheckFree, CheckTaken, Write, Abort, Quit, Hangup,
       listener, masters, history
  <2>2. \A q \in Receivers : rpc'[q] = "begin" <=> rpc[q] = "begin"
    BY <1>0, <1>7 DEF Precommit, Commit, CheckFree, CheckTaken, Write, Abort, Quit, Hangup,
       Reads, Goto
  <2> QED
    BY <2>1, <2>2, ServedKeeps
<1>8. CASE UNCHANGED vars
  BY <1>8, ServedKeeps DEF vars
<1> QED
  BY <1>1, <1>2, <1>3, <1>4, <1>5, <1>6, <1>7, <1>8
  DEF Next, Master, Listener, Receiver

LEMMA ServedInit == Init => ServedInv
  BY NobodyAssumption DEF Init, ServedInv

(* peer_operations.cc:52-70, 88-92: a connection gets one thread, not two  *)
(* and not none, unless it was accepted before the job of another had read *)
(* client_t, or was overwritten there, for any number of connections and   *)
(* threads.                                                                *)
THEOREM OneThreadUnlessClash == Spec => []OneThreadEach
<1>1. ASSUME ServedInv PROVE OneThreadEach
  <2> SUFFICES ASSUME NEW m \in Masters, m \notin clash
               PROVE  /\ Cardinality(served[m]) <= 1
                      /\ (mpc[m] # "new" /\ m \notin backlog /\ served[m] = {})
                            => clnt = m
    BY DEF OneThreadEach
  <2>1. served[m] = {} \/ \E r \in Receivers : served[m] = {r}
    BY <1>1 DEF ServedInv, OneJob
  <2>2. Cardinality(served[m]) <= 1
    <3>1. Cardinality(served[m]) = 0 \/ Cardinality(served[m]) = 1
      BY <2>1, FS_EmptySet, FS_Singleton, Zenon
    <3> QED
      BY <3>1
  <2>3. (mpc[m] # "new" /\ m \notin backlog /\ served[m] = {}) => clnt = m
    BY <1>1 DEF ServedInv
  <2> QED
    BY <2>2, <2>3
<1> QED
  BY <1>1, ServedInit, ServedStep, TypeInit, TypeStep, PTL DEF Spec

-----------------------------------------------------------------------------
(* Aborts *)

(* A session signs with its own master or nobody, and is on record for it; *)
(* orders are read only by threads on record.                              *)
OwnInv ==
    /\ \A r \in Receivers : /\ user[r] \in {Nobody, sd[r]}
                            /\ sd[r] \in Masters => r \in served[sd[r]]
    /\ \A m \in Masters : served[m] = {} /\ mpc[m] # "new" => toPeer[m] # <<>>

(* A master sends one commit: once a session has read it, and also when it *)
(* has a line to undo, nothing is left to come but the last order.         *)
LastOrder(m) ==
    /\ toPeer[m] \in {<<"abort">>, <<"quit">>, <<>>}
    /\ mpc[m] \in {"committing", "quit", "aborted"}

OnceInv ==
    /\ \A m \in Masters :
          mpc[m] = "aborted" =>
             toPeer[m] \in {<<"precommit", "abort">>, <<"commit", "abort">>,
                            <<"abort">>, <<>>}
    /\ \A r \in Receivers :
          /\ rpc[r] \in {"check", "write"} => undo[r] = NoNumber /\ LastOrder(sd[r])
          /\ rpc[r] = "read" /\ undo[r] # NoNumber => LastOrder(sd[r])

(* Once the abort is read, no session of that master is left. *)
GoneInv ==
    \A m \in Masters \ clash :
        mpc[m] = "aborted" /\ toPeer[m] = <<>> =>
            \A r \in Receivers : InSession(r) => sd[r] # m

(* Who has a line in the file has quit, or a session that can undo it. *)
Answerable(m) ==
    \/ mpc[m] = "quit"
    \/ \E r \in Receivers : InSession(r) /\ sd[r] = m /\ undo[r] = Number[m]

LineInv ==
    \A m \in Masters \ clash : Number[m] \notin raced =>
        \A k \in DOMAIN file : file[k].by = m =>
            file[k].num = Number[m] /\ Answerable(m)

AbortInv == OwnInv /\ OnceInv /\ GoneInv /\ LineInv

(* Without a clash, one thread at most is on record. *)
LEMMA OneOnRecord ==
    ASSUME ServedInv, NEW m \in Masters \ clash,
           NEW r \in served[m], NEW q \in served[m]
    PROVE  r = q
BY DEF ServedInv, OneJob

LEMMA Sent ==
    ASSUME TypeInv, NEW m \in Masters, NEW order \in Orders, Sends(m, order)
    PROVE  /\ toPeer'[m] = Append(toPeer[m], order) /\ toPeer'[m] # <<>>
           /\ \A n \in Masters : n # m => toPeer'[n] = toPeer[n]
<1>1. toPeer[m] \in Seq(Orders)
  BY DEF TypeInv, TypeOK
<1>2. Append(toPeer[m], order) # <<>>
  BY <1>1
<1> QED
  BY <1>2 DEF Sends, TypeInv, TypeOK

(* What is read from a master that has aborted. *)
LEMMA AbortedRead ==
    ASSUME TypeInv, OnceInv, NEW r \in Receivers, NEW order \in Orders,
           Reads(r, order), mpc[sd[r]] = "aborted"
    PROVE  \/ order \in {"precommit", "commit"} /\ toPeer'[sd[r]] = <<"abort">>
           \/ order = "abort" /\ toPeer'[sd[r]] = <<>>
<1>1. sd[r] \in Masters
  BY DEF Reads, TypeInv, InSession
<1>2. /\ toPeer[sd[r]] # <<>> /\ Head(toPeer[sd[r]]) = order
      /\ toPeer'[sd[r]] = Tail(toPeer[sd[r]])
  BY <1>1 DEF Reads, TypeInv, TypeOK
<1>3. /\ Head(<<"precommit", "abort">>) = "precommit"
      /\ Tail(<<"precommit", "abort">>) = <<"abort">>
      /\ Head(<<"commit", "abort">>) = "commit"
      /\ Tail(<<"commit", "abort">>) = <<"abort">>
      /\ Head(<<"abort">>) = "abort" /\ Tail(<<"abort">>) = <<>>
  OBVIOUS
<1> QED
  BY <1>1, <1>2, <1>3 DEF OnceInv

(* All that a session may read, and what is left behind it. *)
LEMMA AnyRead ==
    ASSUME TypeInv, OrdersInv, OnceInv, NEW r \in Receivers, NEW order \in Orders,
           Reads(r, order)
    PROVE  /\ sd[r] \in Masters /\ rpc[r] = "read"
           /\ \A m \in Masters : m # sd[r] => toPeer'[m] = toPeer[m]
           /\ mpc[sd[r]] # "new"
           /\ order = "precommit" => ~LastOrder(sd[r]) /\ toPeer'[sd[r]] \in {<<"abort">>, <<>>}
           /\ order = "commit" => /\ ~LastOrder(sd[r])
                                  /\ toPeer'[sd[r]] \in {<<"abort">>, <<>>}
                                  /\ mpc[sd[r]] \in {"committing", "aborted"}
           /\ order = "abort" => mpc[sd[r]] = "aborted" /\ toPeer'[sd[r]] = <<>>
           /\ order = "quit" => mpc[sd[r]] = "quit" /\ toPeer'[sd[r]] = <<>>
           /\ mpc[sd[r]] = "aborted" /\ toPeer'[sd[r]] = <<>> => order = "abort"
<1>0. /\ sd[r] \in Masters
      /\ \A m \in Masters : m # sd[r] => toPeer'[m] = toPeer[m]
      /\ mpc[sd[r]] # "new"
  BY OrderRead
<1>1. /\ rpc[r] = "read"
      /\ mpc[sd[r]] \in {"connected", "committing", "quit", "aborted"}
      /\ toPeer[sd[r]] # <<>> /\ Head(toPeer[sd[r]]) = order
  BY <1>0 DEF Reads, TypeInv, TypeOK
<1>2. /\ mpc[sd[r]] = "connected" => order = "precommit" /\ toPeer'[sd[r]] = <<>>
      /\ mpc[sd[r]] = "committing" => order = "commit" /\ toPeer'[sd[r]] = <<>>
      /\ mpc[sd[r]] = "quit" => order = "quit" /\ toPeer'[sd[r]] = <<>>
  BY OrderRead
<1>3. mpc[sd[r]] = "aborted" =>
        \/ order \in {"precommit", "commit"} /\ toPeer'[sd[r]] = <<"abort">>
        \/ order = "abort" /\ toPeer'[sd[r]] = <<>>
  BY AbortedRead
<1>4. LastOrder(sd[r]) => order \in {"abort", "quit"}
  BY <1>1 DEF LastOrder
<1>5. <<"abort">> # <<>>
  OBVIOUS
<1> QED
  BY <1>0, <1>1, <1>2, <1>3, <1>4, <1>5

LEMMA OwnStep == TypeInv /\ OrdersInv /\ OnceInv /\ OwnInv /\ [Next]_vars => OwnInv'
<1> SUFFICES ASSUME TypeInv, OrdersInv, OnceInv, OwnInv, [Next]_vars PROVE OwnInv'
  OBVIOUS
<1>0. /\ sd \in [Receivers -> Masters \cup {Nobody}]
      /\ user \in [Receivers -> Masters \cup {Nobody}]
      /\ mpc \in [Masters -> {"new", "connected", "committing", "quit", "aborted"}]
      /\ served \in [Masters -> SUBSET Receivers]
  BY DEF TypeInv, TypeOK
<1>1. ASSUME NEW m \in Masters, Master(m) PROVE OwnInv'
  <2>1. /\ UNCHANGED <<sd, user, served>>
        /\ \A n \in Masters : n # m => mpc'[n] = mpc[n]
    BY <1>0, <1>1 DEF Master, Connect, SendCommit, SendQuit, SendAbort, Becomes, threads, history
  <2>2. toPeer'[m] # <<>> /\ \A n \in Masters : n # m => toPeer'[n] = toPeer[n]
    BY <1>1, Sent DEF Master, Connect, SendCommit, SendQuit, SendAbort, Orders
  <2> QED
    BY <2>1, <2>2 DEF OwnInv
<1>2. ASSUME NEW r \in Receivers, Begin(r) PROVE OwnInv'
  <2>1. /\ UNCHANGED <<mpc, toPeer>> /\ clnt \in Masters
        /\ sd'[r] = clnt /\ user'[r] = Nobody
        /\ \A q \in Receivers : q # r => sd'[q] = sd[q] /\ user'[q] = user[q]
    BY <1>0, <1>2 DEF Begin, masters, TypeInv, Unread
  <2>2. r \in served'[clnt] /\ \A m \in Masters : served[m] \subseteq served'[m]
    BY <1>0, <1>2, <2>1 DEF Begin
  <2> QED
    BY <1>0, <2>1, <2>2 DEF OwnInv
<1>3. ASSUME NEW r \in Receivers, NEW order \in Orders, Reads(r, order),
             UNCHANGED <<mpc, sd, served>>,
             user' = user \/ user' = [user EXCEPT ![r] = sd[r]]
      PROVE  OwnInv'
  <2>1. sd[r] \in Masters /\ \A m \in Masters : m # sd[r] => toPeer'[m] = toPeer[m]
    BY <1>3, AnyRead
  <2>2. served[sd[r]] # {}
    BY <2>1 DEF OwnInv
  <2> QED
    BY <1>0, <1>3, <2>1, <2>2 DEF OwnInv
<1>4. ASSUME NEW r \in Receivers, Precommit(r) \/ Commit(r) \/ Abort(r) \/ Quit(r)
      PROVE  OwnInv'
  BY <1>3, <1>4 DEF Precommit, Commit, Abort, Quit, history, Orders
<1>5. ASSUME UNCHANGED <<mpc, toPeer, sd, user, served>> PROVE OwnInv'
  BY <1>5 DEF OwnInv
<1>6. ASSUME Listener \/ UNCHANGED vars PROVE OwnInv'
  BY <1>5, <1>6 DEF Listener, AcceptPeer, QueueJob, masters, threads, history, vars
<1>7. ASSUME NEW r \in Receivers,
             TakeJob(r) \/ CheckFree(r) \/ CheckTaken(r) \/ Write(r) \/ Hangup(r)
      PROVE  OwnInv'
  BY <1>5, <1>7 DEF TakeJob, CheckFree, CheckTaken, Write, Hangup, masters, history
<1> QED
  BY <1>1, <1>2, <1>4, <1>6, <1>7 DEF Next, Receiver

LEMMA AppendedPair ==
    ASSUME NEW a, NEW b
    PROVE  Append(<<a>>, b) = <<a, b>>
<1> DEFINE S == {a, b}
<1>1. <<a>> \in Seq(S) /\ Len(<<a>>) = 1 /\ <<a>>[1] = a
  OBVIOUS
<1>2. /\ Append(<<a>>, b) \in Seq(S) /\ Len(Append(<<a>>, b)) = 2
      /\ Append(<<a>>, b)[1] = a /\ Append(<<a>>, b)[2] = b
  BY <1>1, AppendProperties
<1>3. <<a, b>> \in Seq(S) /\ Len(<<a, b>>) = 2 /\ <<a, b>>[1] = a /\ <<a, b>>[2] = b
  OBVIOUS
<1>4. \A i \in 1..2 : Append(<<a>>, b)[i] = <<a, b>>[i]
  BY <1>2, <1>3
<1> QED
  BY <1>2, <1>3, <1>4, SeqEqual

LEMMA OnceStep == TypeInv /\ SessionInv /\ OnceInv /\ [Next]_vars => OnceInv'
<1> SUFFICES ASSUME TypeInv, OrdersInv, CommitInv, OnceInv, [Next]_vars PROVE OnceInv'
  BY DEF SessionInv
<1>0. /\ rpc \in [Receivers -> {"idle", "begin", "read", "check", "write"}]
      /\ sd \in [Receivers -> Masters \cup {Nobody}]
      /\ undo \in [Receivers -> Nat]
      /\ mpc \in [Masters -> {"new", "connected", "committing", "quit", "aborted"}]
      /\ \A r \in Receivers : InSession(r) => sd[r] \in Masters
  BY DEF TypeInv, TypeOK
<1>1. ASSUME NEW m \in Masters, Connect(m) PROVE OnceInv'
  <2>1. /\ mpc[m] = "new" /\ mpc'[m] = "connected" /\ UNCHANGED <<rpc, sd, undo>>
        /\ \A n \in Masters : n # m => mpc'[n] = mpc[n] /\ toPeer'[n] = toPeer[n]
    BY <1>0, <1>1, Sent DEF Connect, Becomes, threads, Orders
  <2>2. \A n \in Masters : LastOrder(n) => LastOrder(n)'
    BY <2>1 DEF LastOrder
  <2> QED
    BY <1>0, <2>1, <2>2 DEF OnceInv, InSession
<1>2. ASSUME NEW m \in Masters, SendCommit(m) PROVE OnceInv'
  <2>1. /\ mpc[m] = "connected" /\ mpc'[m] = "committing" /\ UNCHANGED <<rpc, sd, undo>>
        /\ \A n \in Masters : n # m => mpc'[n] = mpc[n] /\ toPeer'[n] = toPeer[n]
    BY <1>0, <1>2, Sent DEF SendCommit, Becomes, threads, Orders
  <2>2. \A n \in Masters : LastOrder(n) => LastOrder(n)'
    BY <2>1 DEF LastOrder
  <2> QED
    BY <1>0, <2>1, <2>2 DEF OnceInv, InSession
<1>3. ASSUME NEW m \in Masters, SendQuit(m) PROVE OnceInv'
  <2>1. /\ mpc[m] = "committing" /\ mpc'[m] = "quit" /\ UNCHANGED <<rpc, sd, undo>>
        /\ toPeer'[m] = Append(toPeer[m], "quit")
        /\ \A n \in Masters : n # m => mpc'[n] = mpc[n] /\ toPeer'[n] = toPeer[n]
    BY <1>0, <1>3, Sent DEF SendQuit, Becomes, threads, Orders
  <2>2. toPeer'[m] = <<"quit">>
    BY <1>3, <2>1, OrdersAppended DEF SendQuit, OrdersInv
  <2>3. \A n \in Masters : LastOrder(n) => LastOrder(n)'
    BY <2>1, <2>2 DEF LastOrder
  <2> QED
    BY <1>0, <2>1, <2>3 DEF OnceInv, InSession
<1>4. ASSUME NEW m \in Masters, SendAbort(m) PROVE OnceInv'
  <2>1. /\ mpc[m] \in {"connected", "committing"} /\ mpc'[m] = "aborted"
        /\ UNCHANGED <<rpc, sd, undo>>
        /\ toPeer'[m] = Append(toPeer[m], "abort")
        /\ \A n \in Masters : n # m => mpc'[n] = mpc[n] /\ toPeer'[n] = toPeer[n]
    BY <1>0, <1>4, Sent DEF SendAbort, Becomes, threads, Orders
  <2>2. /\ Append(<<"precommit">>, "abort") = <<"precommit", "abort">>
        /\ Append(<<"commit">>, "abort") = <<"commit", "abort">>
        /\ Append(<<>>, "abort") = <<"abort">>
    BY AppendedPair
  <2>3. toPeer[m] \in {<<"precommit">>, <<"commit">>, <<>>}
    BY <2>1 DEF OrdersInv
  <2>4. toPeer'[m] \in {<<"precommit", "abort">>, <<"commit", "abort">>, <<"abort">>}
    BY <2>1, <2>2, <2>3
  <2>5. <<"commit">> \notin {<<"abort">>, <<"quit">>, <<>>}
    OBVIOUS
  <2>6. LastOrder(m) => toPeer[m] = <<>>
    BY <2>1, <2>5 DEF LastOrder, OrdersInv
  <2>7. \A n \in Masters : LastOrder(n) => LastOrder(n)'
    BY <2>1, <2>2, <2>6 DEF LastOrder
  <2> QED
    BY <1>0, <2>1, <2>4, <2>7 DEF OnceInv, InSession
<1>5. ASSUME NEW r \in Receivers, Precommit(r) PROVE OnceInv'
  <2>1. /\ sd[r] \in Masters /\ UNCHANGED <<mpc, rpc, sd, undo>>
        /\ \A m \in Masters : m # sd[r] => toPeer'[m] = toPeer[m]
        /\ ~LastOrder(sd[r]) /\ toPeer'[sd[r]] \in {<<"abort">>, <<>>}
    BY <1>5, AnyRead DEF Precommit, history, Orders
  <2>2. \A n \in Masters : LastOrder(n) => LastOrder(n)'
    BY <2>1 DEF LastOrder
  <2> QED
    BY <1>0, <2>1, <2>2 DEF OnceInv, InSession
<1>6. ASSUME NEW r \in Receivers, Commit(r) PROVE OnceInv'
  <2>1. /\ sd[r] \in Masters /\ UNCHANGED <<mpc, sd, undo>>
        /\ rpc[r] = "read" /\ rpc'[r] = "check"
        /\ \A q \in Receivers : q # r => rpc'[q] = rpc[q]
        /\ \A m \in Masters : m # sd[r] => toPeer'[m] = toPeer[m]
        /\ ~LastOrder(sd[r]) /\ toPeer'[sd[r]] \in {<<"abort">>, <<>>}
        /\ mpc[sd[r]] \in {"committing", "aborted"}
    BY <1>0, <1>6, AnyRead DEF Commit, Goto, history, Orders
  <2>2. LastOrder(sd[r])' /\ \A n \in Masters : LastOrder(n) => LastOrder(n)'
    BY <2>1 DEF LastOrder
  <2>3. undo[r] = NoNumber
    BY <2>1 DEF OnceInv
  <2>4. LastOrder(sd[r])'
    BY <2>2
  <2> QED
    BY <1>0, <2>1, <2>2, <2>3, <2>4 DEF OnceInv, InSession
<1>7. ASSUME NEW r \in Receivers, Abort(r) \/ Quit(r) PROVE OnceInv'
  <2>1. /\ sd[r] \in Masters /\ UNCHANGED <<mpc, sd, undo>>
        /\ rpc'[r] = "idle" /\ \A q \in Receivers : q # r => rpc'[q] = rpc[q]
        /\ \A m \in Masters : m # sd[r] => toPeer'[m] = toPeer[m]
        /\ toPeer'[sd[r]] = <<>>
    BY <1>0, <1>7, AnyRead DEF Abort, Quit, Goto, history, Orders
  <2>2. \A n \in Masters : LastOrder(n) => LastOrder(n)'
    BY <2>1 DEF LastOrder
  <2> QED
    BY <1>0, <2>1, <2>2 DEF OnceInv, InSession
<1>8. ASSUME NEW r \in Receivers, Write(r) PROVE OnceInv'
  <2>1. /\ UNCHANGED <<mpc, toPeer, sd>>
        /\ rpc[r] = "write" /\ rpc'[r] = "read"
        /\ \A q \in Receivers : q # r => rpc'[q] = rpc[q] /\ undo'[q] = undo[q]
    BY <1>0, <1>8 DEF Write, Goto
  <2>2. \A n \in Masters : LastOrder(n) => LastOrder(n)'
    BY <2>1 DEF LastOrder
  <2> QED
    BY <1>0, <2>1, <2>2 DEF OnceInv, InSession
<1>9. ASSUME NEW r \in Receivers, Begin(r) PROVE OnceInv'
  <2>1. /\ UNCHANGED <<mpc, toPeer>>
        /\ rpc'[r] = "read" /\ undo'[r] = NoNumber
        /\ \A q \in Receivers : q # r =>
              rpc'[q] = rpc[q] /\ undo'[q] = undo[q] /\ sd'[q] = sd[q]
    BY <1>0, <1>9 DEF Begin, Goto, masters
  <2>2. \A q \in Receivers : q # r /\ LastOrder(sd[q]) => LastOrder(sd[q])'
    BY <2>1 DEF LastOrder
  <2> QED
    BY <1>0, <2>1, <2>2 DEF OnceInv
<1>10. ASSUME NEW r \in Receivers,
              TakeJob(r) \/ CheckFree(r) \/ CheckTaken(r) \/ Hangup(r)
       PROVE  OnceInv'
  <2>1. /\ UNCHANGED <<mpc, toPeer, sd, undo>>
        /\ rpc'[r] \in {"begin", "idle"} \/ rpc[r] = "check"
        /\ \A q \in Receivers : q # r => rpc'[q] = rpc[q]
    BY <1>0, <1>10 DEF TakeJob, CheckFree, CheckTaken, Hangup, Goto, masters
  <2>2. \A q \in Receivers : LastOrder(sd[q]) => LastOrder(sd[q])'
    BY <2>1 DEF LastOrder
  <2> QED
    BY <1>0, <2>1, <2>2 DEF OnceInv
<1>11. ASSUME Listener \/ UNCHANGED vars PROVE OnceInv'
  <2>1. UNCHANGED <<mpc, toPeer, rpc, sd, undo>>
    BY <1>11 DEF Listener, AcceptPeer, QueueJob, masters, threads, vars
  <2>2. \A q \in Receivers : LastOrder(sd[q]) => LastOrder(sd[q])'
    BY <2>1 DEF LastOrder
  <2> QED
    BY <2>1, <2>2 DEF OnceInv
<1> QED
  BY <1>1, <1>2, <1>3, <1>4, <1>5, <1>6, <1>7, <1>8, <1>9, <1>10, <1>11
  DEF Next, Master, Receiver

LEMMA GoneStep ==
    TypeInv /\ ServedInv /\ OrdersInv /\ OwnInv /\ OnceInv /\ GoneInv /\ [Next]_vars
       => GoneInv'
<1> SUFFICES ASSUME TypeInv, ServedInv, OrdersInv, OwnInv, OnceInv, GoneInv, [Next]_vars,
                    NEW m \in Masters, m \notin clash', mpc'[m] = "aborted",
                    toPeer'[m] = <<>>, NEW q \in Receivers, InSession(q)', sd'[q] = m
             PROVE  FALSE
  BY DEF GoneInv
<1>0. /\ rpc \in [Receivers -> {"idle", "begin", "read", "check", "write"}]
      /\ sd \in [Receivers -> Masters \cup {Nobody}]
      /\ mpc \in [Masters -> {"new", "connected", "committing", "quit", "aborted"}]
  BY DEF TypeInv, TypeOK
<1>1. ~ (/\ m \notin clash /\ mpc[m] = "aborted" /\ toPeer[m] = <<>>
         /\ InSession(q) /\ sd[q] = m)
  BY DEF GoneInv
<1>2. ASSUME NEW n \in Masters, Master(n) PROVE FALSE
  <2>1. /\ UNCHANGED <<rpc, sd, clash>> /\ (n # m => mpc'[m] = mpc[m])
    BY <1>0, <1>2 DEF Master, Connect, SendCommit, SendQuit, SendAbort, Becomes, threads, history
  <2>2. toPeer'[n] # <<>> /\ (n # m => toPeer'[m] = toPeer[m])
    BY <1>2, Sent DEF Master, Connect, SendCommit, SendQuit, SendAbort, Orders
  <2> QED
    BY <1>1, <2>1, <2>2 DEF InSession
<1>3. ASSUME NEW r \in Receivers, Begin(r) PROVE FALSE
  <2>1. /\ UNCHANGED <<mpc, toPeer, clash>> /\ rpc[r] = "begin" /\ sd'[r] = clnt
        /\ q # r => rpc'[q] = rpc[q] /\ sd'[q] = sd[q]
    BY <1>0, <1>3 DEF Begin, Goto, masters
  <2>2. CASE q = r
    <3>1. served[m] # {}
      BY <2>1 DEF OwnInv
    <3>2. OneJob(m) /\ r \in Beginning
      BY <2>1, <2>2 DEF ServedInv, Beginning
    <3> QED
      BY <3>1, <3>2 DEF OneJob
  <2> QED
    BY <1>1, <2>1, <2>2 DEF InSession
<1>4. ASSUME NEW r \in Receivers, NEW order \in Orders, Reads(r, order),
             UNCHANGED <<mpc, sd, clash>>, order = "abort" => rpc'[r] = "idle",
             q # r => rpc'[q] = rpc[q]
      PROVE  FALSE
  <2>1. /\ sd[r] \in Masters /\ rpc[r] = "read"
        /\ \A n \in Masters : n # sd[r] => toPeer'[n] = toPeer[n]
        /\ mpc[sd[r]] = "aborted" /\ toPeer'[sd[r]] = <<>> => order = "abort"
    BY <1>4, AnyRead
  <2>2. CASE m # sd[r]
    BY <1>1, <1>4, <2>1, <2>2 DEF InSession
  <2>3. CASE m = sd[r]
    <3>1. q # r
      BY <1>4, <2>1, <2>3 DEF InSession
    <3>2. r \in served[m] /\ q \in served[m]
      BY <1>4, <2>3 DEF OwnInv
    <3> QED
      BY <1>4, <3>1, <3>2, OneOnRecord
  <2> QED
    BY <2>2, <2>3
<1>5. ASSUME NEW r \in Receivers, Precommit(r) \/ Commit(r) \/ Abort(r) \/ Quit(r)
      PROVE  FALSE
  <2>1. \E order \in Orders : Reads(r, order) /\ (order = "abort" => rpc'[r] = "idle")
    BY <1>0, <1>5 DEF Precommit, Commit, Abort, Quit, Goto, Orders
  <2>2. UNCHANGED <<mpc, sd, clash>> /\ (q # r => rpc'[q] = rpc[q])
    BY <1>0, <1>5 DEF Precommit, Commit, Abort, Quit, Goto, history
  <2> QED
    BY <1>4, <2>1, <2>2
<1>6. ASSUME NEW r \in Receivers,
             TakeJob(r) \/ CheckFree(r) \/ CheckTaken(r) \/ Write(r) \/ Hangup(r)
      PROVE  FALSE
  <2>1. UNCHANGED <<mpc, toPeer, sd, clash>> /\ (InSession(q)' => InSession(q))
    BY <1>0, <1>6 DEF TakeJob, CheckFree, CheckTaken, Write, Hangup, Goto, masters, history,
       InSession
  <2> QED
    BY <1>1, <2>1
<1>7. ASSUME Listener \/ UNCHANGED vars PROVE FALSE
  <2>1. UNCHANGED <<mpc, toPeer, rpc, sd>> /\ (m \notin clash)
    BY <1>7 DEF Listener, AcceptPeer, QueueJob, masters, threads, history, vars
  <2> QED
    BY <1>1, <2>1 DEF InSession
<1> QED
  BY <1>2, <1>3, <1>5, <1>6, <1>7 DEF Next, Receiver

(* delete_descriptor leaves a line with the number and a signature only    *)
(* behind another that has the number.                                     *)
LEMMA SignedStays ==
    ASSUME TypeOK, NEW k \in DOMAIN file, NEW m \in Masters,
           Deleted(file[k].num)[k] = file[k], file[k].by = m
    PROVE  \E j \in DOMAIN file : j # k /\ file[j].num = file[k].num
<1> DEFINE n == file[k].num
<1>1. DOMAIN file = 1..Len(file) /\ Len(file) \in Nat
  BY LenProperties DEF TypeOK
<1>2. Deleted(n)[k] = IF \A j \in 1..(k - 1) : file[j].num # n
                        THEN Blank ELSE file[k]
  BY DEF Deleted
<1>3. ~ \A j \in 1..(k - 1) : file[j].num # n
  BY <1>2, NobodyAssumption DEF Blank
<1> QED
  BY <1>1, <1>3

(* A step that leaves the file alone, and everybody's chance to undo. *)
LEMMA LinesKeep ==
    ASSUME LineInv, file' = file, raced \subseteq raced', clash \subseteq clash',
           \A m \in Masters \ clash' : Answerable(m) => Answerable(m)'
    PROVE  LineInv'
BY DEF LineInv

LEMMA LineStep ==
    TypeInv /\ NumberInv /\ SessionInv /\ ServedInv /\ AbortInv /\ [Next]_vars => LineInv'
<1> SUFFICES ASSUME TypeInv, NumberInv, SessionInv, ServedInv, AbortInv, [Next]_vars
             PROVE  LineInv'
  OBVIOUS
<1>0. /\ rpc \in [Receivers -> {"idle", "begin", "read", "check", "write"}]
      /\ sd \in [Receivers -> Masters \cup {Nobody}]
      /\ undo \in [Receivers -> Nat]
      /\ mpc \in [Masters -> {"new", "connected", "committing", "quit", "aborted"}]
      /\ \A m \in Masters : Number[m] # NoNumber /\ Number[m] \in Nat
      /\ OrdersInv /\ OwnInv /\ OnceInv /\ GoneInv /\ LineInv
  BY NumberAssumption DEF TypeInv, TypeOK, SessionInv, AbortInv, NoNumber
<1>1. ASSUME NEW n \in Masters, Master(n) PROVE LineInv'
  <2>1. /\ UNCHANGED <<file, raced, clash, rpc, sd, undo>>
        /\ \A m \in Masters : mpc[m] = "quit" => mpc'[m] = "quit"
    BY <1>0, <1>1 DEF Master, Connect, SendCommit, SendQuit, SendAbort, Becomes, threads, history
  <2> QED
    BY <1>0, <2>1, LinesKeep DEF Answerable, InSession
<1>2. ASSUME Listener \/ UNCHANGED vars PROVE LineInv'
  <2>1. UNCHANGED <<file, raced, mpc, rpc, sd, undo>> /\ clash \subseteq clash'
    BY <1>2 DEF Listener, AcceptPeer, QueueJob, masters, threads, history, vars
  <2> QED
    BY <1>0, <2>1, LinesKeep DEF Answerable, InSession
<1>3. ASSUME NEW r \in Receivers, TakeJob(r) \/ Begin(r) PROVE LineInv'
  <2>1. /\ UNCHANGED <<file, raced, clash, mpc>> /\ ~InSession(r)
        /\ \A q \in Receivers : q # r =>
              rpc'[q] = rpc[q] /\ sd'[q] = sd[q] /\ undo'[q] = undo[q]
    BY <1>0, <1>3 DEF TakeJob, Begin, Goto, masters, history, InSession
  <2> QED
    BY <1>0, <2>1, LinesKeep DEF Answerable, InSession
<1>4. ASSUME NEW r \in Receivers, Precommit(r) \/ Commit(r) \/ CheckFree(r)
      PROVE  LineInv'
  <2>1. /\ UNCHANGED <<file, clash, mpc, sd, undo>> /\ raced \subseteq raced'
        /\ \A q \in Receivers : InSession(q) => InSession(q)'
    BY <1>0, <1>4 DEF Precommit, Commit, CheckFree, Goto, masters, history, InSession
  <2> QED
    BY <1>0, <2>1, LinesKeep DEF Answerable
<1>5. ASSUME NEW r \in Receivers, CheckTaken(r) \/ Quit(r) \/ Hangup(r) PROVE LineInv'
  <2>1. /\ UNCHANGED <<file, raced, clash, mpc, sd, undo>>
        /\ \A q \in Receivers : q # r /\ InSession(q) => InSession(q)'
    BY <1>0, <1>5 DEF CheckTaken, Quit, Hangup, Goto, masters, history, InSession
  <2>2. CASE CheckTaken(r)
    <3>1. undo[r] = NoNumber
      BY <1>0, <2>2 DEF CheckTaken, OnceInv
    <3> QED
      BY <1>0, <2>1, <3>1, LinesKeep DEF Answerable
  <2>3. CASE Quit(r)
    <3>1. mpc[sd[r]] = "quit"
      BY <1>0, <2>3, AnyRead DEF Quit, Orders
    <3> QED
      BY <1>0, <2>1, <3>1, LinesKeep DEF Answerable
  <2>4. CASE Hangup(r)
    <3>1. sd[r] \in Masters \ clash => mpc[sd[r]] = "quit"
      BY <1>0, <2>4 DEF Hangup, GoneInv, InSession
    <3> QED
      BY <1>0, <2>1, <3>1, LinesKeep DEF Answerable
  <2> QED
    BY <1>5, <2>2, <2>3, <2>4
<1>6. ASSUME NEW r \in Receivers, Write(r) PROVE LineInv'
  <2> DEFINE end == Len(file) + 1
  <2>1. /\ sd[r] \in Masters /\ DOMAIN file' = DOMAIN file \cup {end}
        /\ \A k \in DOMAIN file : file'[k] = file[k]
        /\ file'[end].num = Number[sd[r]]
    BY <1>6, WriteAppends
  <2>2. file'[end].by = user[r]
    <3>1. file \in Seq(Line) /\ [num |-> Number[sd[r]], by |-> user[r]] \in Line
      BY <1>0, <2>1 DEF TypeInv, TypeOK, Line
    <3> QED
      BY <1>6, <3>1, AppendProperties DEF Write
  <2>3. /\ UNCHANGED <<raced, clash, mpc, sd>>
        /\ InSession(r) /\ InSession(r)' /\ undo'[r] = Number[sd[r]]
        /\ \A q \in Receivers : q # r => rpc'[q] = rpc[q] /\ undo'[q] = undo[q]
    BY <1>0, <1>6 DEF Write, Goto, history, InSession
  <2>4. \A m \in Masters : Answerable(m) => Answerable(m)'
    BY <2>3 DEF Answerable, InSession
  <2>5. Answerable(sd[r])'
    BY <2>3 DEF Answerable
  <2>6. user[r] \in {Nobody, sd[r]}
    BY <1>0 DEF OwnInv
  <2> SUFFICES ASSUME NEW m \in Masters \ clash, Number[m] \notin raced,
                      NEW k \in DOMAIN file', file'[k].by = m
               PROVE  file'[k].num = Number[m] /\ Answerable(m)'
    BY <2>3 DEF LineInv
  <2>7. CASE k \in DOMAIN file
    BY <1>0, <2>1, <2>4, <2>7 DEF LineInv
  <2>8. CASE k = end
    <3>1. m = sd[r]
      BY <2>2, <2>6, <2>8, NobodyAssumption
    <3>2. sd'[r] = sd[r]
      BY <2>3
    <3>3. Answerable(m)'
      BY <2>3, <3>1 DEF Answerable
    <3> QED
      BY <2>1, <2>8, <3>1, <3>3
  <2> QED
    BY <2>1, <2>7, <2>8
<1>7. ASSUME NEW r \in Receivers, Abort(r) PROVE LineInv'
  <2>1. /\ sd[r] \in Masters /\ rpc[r] = "read" /\ mpc[sd[r]] = "aborted"
        /\ UNCHANGED <<raced, clash, mpc, sd, undo>>
        /\ \A q \in Receivers : q # r => rpc'[q] = rpc[q]
    BY <1>0, <1>7, AnyRead DEF Abort, Goto, Orders
  <2>2. /\ DOMAIN file' = DOMAIN file
        /\ \A k \in DOMAIN file : file'[k] = file[k] \/ file'[k].by = Nobody
    BY <1>7, AbortBlanks DEF TypeInv, Blank
  <2> SUFFICES ASSUME NEW m \in Masters \ clash, Number[m] \notin raced,
                      NEW k \in DOMAIN file, file'[k].by = m
               PROVE  file'[k].num = Number[m] /\ Answerable(m)'
    BY <2>1, <2>2 DEF LineInv
  <2>3. file'[k] = file[k]
    BY <2>2, NobodyAssumption
  <2>4. file[k].num = Number[m] /\ Answerable(m)
    BY <1>0, <2>3 DEF LineInv
  <2>5. CASE m # sd[r]
    <3>1. Answerable(m)'
      BY <2>1, <2>4, <2>5 DEF Answerable, InSession
    <3> QED
      BY <2>3, <2>4, <3>1
  <2>6. CASE m = sd[r]
    <3>1. PICK q \in Receivers : InSession(q) /\ sd[q] = m /\ undo[q] = Number[m]
      BY <2>1, <2>4, <2>6 DEF Answerable
    <3>2. q \in served[m] /\ r \in served[m]
      BY <1>0, <2>6, <3>1 DEF OwnInv
    <3>3. q = r
      BY <3>2, OneOnRecord
    <3>4. Undoes(r) = Number[m] /\ Taken(Number[m])
      BY <1>0, <2>4, <3>1, <3>3 DEF Undoes, Taken
    <3>5. file' = Deleted(Number[m])
      BY <1>0, <1>7, <3>4 DEF Abort
    <3>6. \E j \in DOMAIN file : j # k /\ file[j].num = file[k].num
      BY <2>3, <2>4, <3>5, SignedStays DEF TypeInv
    <3>7. Number[m] \in raced \cup {NoNumber}
      BY <2>4, <3>6 DEF NumberInv, DuplicatesRaced
    <3> QED
      BY <1>0, <3>7
  <2> QED
    BY <2>5, <2>6
<1> QED
  BY <1>1, <1>2, <1>3, <1>4, <1>5, <1>6, <1>7 DEF Next, Receiver

LEMMA AbortStep ==
    /\ TypeInv /\ NumberInv /\ SessionInv /\ ServedInv /\ AbortInv /\ [Next]_vars
    => AbortInv'
BY OwnStep, OnceStep, GoneStep, LineStep DEF AbortInv, SessionInv

(* peer_operations.cc:130-152, 225-231: an abort that has been read leaves *)
(* no line of its master behind, also if the master sent it before it had  *)
(* the answer to its commit, for any number of masters and threads; unless *)
(* its connection clashed with another or its number was raced for.        *)
THEOREM AbortsAreClean == Spec => []AbortLeavesNothing
<1>1. Init => NumberInv /\ SessionInv
  BY DEF Init, NumberInv, DuplicatesRaced, SessionInv, OrdersInv, CommitInv, UndoInv,
         ToldInv, Told, InSession
<1>2. Init => AbortInv
  BY NobodyAssumption DEF Init, AbortInv, OwnInv, OnceInv, GoneInv, LineInv, InSession
<1>3. ASSUME AbortInv PROVE AbortLeavesNothing
  <2> SUFFICES ASSUME NEW m \in Masters \ clash, mpc[m] = "aborted",
                      Number[m] \notin raced,
                      \A r \in served[m] : sd[r] = m => rpc[r] = "idle",
                      NEW k \in DOMAIN file, file[k].by = m
               PROVE  FALSE
    BY DEF AbortLeavesNothing
  <2>1. PICK r \in Receivers : InSession(r) /\ sd[r] = m
    BY <1>3 DEF AbortInv, LineInv, Answerable
  <2>2. r \in served[m]
    BY <1>3, <2>1 DEF AbortInv, OwnInv
  <2> QED
    BY <2>1, <2>2 DEF InSession
<1> QED
  BY <1>1, <1>2, <1>3, TypeInit, TypeStep, NumberStep, SessionStep, ServedInit,
     ServedStep, AbortStep, PTL DEF Spec
=============================================================================
