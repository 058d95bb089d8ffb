-------------------------- MODULE ClientListProofs --------------------------
(***************************************************************************)
(* Theorems about ClientList.                                              *)
(*                                                                         *)
(* Everything rests on one picture: the nodes in the list are s[1], ...,   *)
(* s[listLength], each once, joined by prev, and they are the connections  *)
(* whose session has pushed and not yet pulled (IsChain).  Nth, which      *)
(* follows the pointers from first, is then that s (NthIsChain, by the     *)
(* least index at which they would differ); the socket a pull looks for is *)
(* in one node of s, because no descriptor is given out twice while it is  *)
(* open (OpenInv); a push appends to s and a pull removes one element,     *)
(* which is also what ClientSeq allows.                                    *)
(*                                                                         *)
(* The walk holds no mutex: it sees a second sequence, the nodes from      *)
(* temp_line on as their pointers stand (IsAhead), which may run through   *)
(* nodes that have left the list.  V are the i nodes it is done with, each *)
(* warned or gone.                                                         *)
(***************************************************************************)
EXTENDS ClientList, SequenceTheorems, FiniteSetTheorems, WellFoundedInduction, TLAPS

-----------------------------------------------------------------------------
(* The list as a sequence *)

LEMMA LeastNatural ==
    ASSUME NEW T \in SUBSET Nat, T # {}
    PROVE  \E m \in T : \A n \in T : m <= n
<1> DEFINE Less == OpToRel(<, Nat)
<1>1. PICK m \in T : \A n \in T : ~ (<<n, m>> \in Less)
  BY NatLessThanWellFounded, WFMin, Zenon
<1>2. \A n \in T : ~ (n < m)
  BY <1>1, Zenon DEF OpToRel
<1> QED
  BY <1>2

(* s is the chain of nodes from first to last. *)
IsChain(s) ==
    /\ \A j, k \in 1..listLength : j # k => s[j] # s[k]
    /\ \A c \in Conns : place[c] = "listed" <=> \E k \in 1..listLength : s[k] = c
    /\ listLength = 0 => first = NULL
    /\ listLength > 0 => first = s[1] /\ last = s[listLength] /\ prev[last] = NULL
    /\ \A k \in 1..(listLength - 1) : prev[s[k]] = s[k + 1]

ChainInv == \E s \in [1..listLength -> Conns] : IsChain(s)

(* Nth as its definition says it is. *)
Follows(f, m) ==
    f = [k \in 1..m |-> IF k = 1 THEN first
                        ELSE IF f[k - 1] = NULL THEN NULL ELSE prev[f[k - 1]]]

LEMMA FollowsExists ==
    ASSUME NEW m \in Nat
    PROVE  \E f : Follows(f, m)
<1> DEFINE None == {k \in Nat : ~ \E f : Follows(f, k)}
<1>1. SUFFICES ASSUME None # {} PROVE FALSE
  OBVIOUS
<1>2. PICK k \in None : \A j \in None : k <= j
  BY <1>1, LeastNatural
<1>3. CASE k = 0
  <2>1. Follows([j \in 1..0 |-> first], 0)
    BY DEF Follows
  <2> QED
    BY <1>2, <1>3, <2>1
<1>4. CASE k # 0
  <2>1. k - 1 \in Nat /\ k - 1 \notin None
    BY <1>2, <1>4
  <2>2. PICK f : Follows(f, k - 1)
    BY <2>1
  <2> DEFINE next == IF k = 1 THEN first ELSE IF f[k - 1] = NULL THEN NULL ELSE prev[f[k - 1]]
             g == [j \in 1..k |-> IF j = k THEN next ELSE f[j]]
  <2>3. \A j \in 1..(k - 1) : f[j] = IF j = 1 THEN first
                        ELSE IF f[j - 1] = NULL THEN NULL ELSE prev[f[j - 1]]
    BY <2>2, Zenon DEF Follows
  <2>4. g[k] = next /\ \A j \in 1..(k - 1) : g[j] = f[j]
    BY <1>4, <2>1
  <2>5. \A j \in 1..k : g[j] = IF j = 1 THEN first
                        ELSE IF g[j - 1] = NULL THEN NULL ELSE prev[g[j - 1]]
    <3> HIDE DEF g
    <3> TAKE j \in 1..k
    <3>1. CASE j = k
      <4>1. k = 1 \/ k - 1 \in 1..(k - 1)
        BY <1>4, <2>1
      <4> QED
        BY <2>4, <3>1, <4>1
    <3>2. CASE j # k
      <4>1. j \in 1..(k - 1) /\ (j = 1 \/ j - 1 \in 1..(k - 1))
        BY <1>4, <2>1, <3>2
      <4> QED
        BY <2>3, <2>4, <4>1
    <3> QED
      BY <3>1, <3>2
  <2>6. Follows(g, k)
    BY <2>5, Zenon DEF Follows
  <2> QED
    BY <1>2, <2>6
<1> QED
  BY <1>3, <1>4

LEMMA NthFollows ==
    ASSUME listLength \in Nat
    PROVE  Follows(Nth, listLength + 1)
<1>1. \E f : Follows(f, listLength + 1)
  BY FollowsExists
<1>2. Nth = CHOOSE f : Follows(f, listLength + 1)
  BY Zenon DEF Nth, Follows
<1> QED
  BY <1>1, <1>2, Zenon

LEMMA NthIsChain ==
    ASSUME listLength \in Nat, NULL \notin Conns,
           NEW s \in [1..listLength -> Conns], IsChain(s)
    PROVE  \A k \in 1..listLength : Nth[k] = s[k]
<1>1. \A k \in 1..(listLength + 1) :
        Nth[k] = IF k = 1 THEN first
                 ELSE IF Nth[k - 1] = NULL THEN NULL ELSE prev[Nth[k - 1]]
  BY NthFollows, Zenon DEF Follows
<1> DEFINE Wrong == {k \in 1..listLength : Nth[k] # s[k]}
<1>2. SUFFICES ASSUME Wrong # {} PROVE FALSE
  OBVIOUS
<1>3. PICK k \in Wrong : \A j \in Wrong : k <= j
  <2>1. Wrong \in SUBSET Nat
    OBVIOUS
  <2> QED
    BY <1>2, <2>1, LeastNatural
<1>4. k \in 1..listLength /\ Nth[k] # s[k] /\ listLength > 0
  BY <1>3
<1>5. k # 1
  BY <1>1, <1>4 DEF IsChain
<1>6. k - 1 \in 1..(listLength - 1) /\ k - 1 \in 1..listLength /\ k - 1 \notin Wrong
  BY <1>3, <1>4, <1>5
<1>7. Nth[k - 1] = s[k - 1] /\ s[k - 1] \in Conns /\ prev[s[k - 1]] = s[(k - 1) + 1]
  BY <1>6 DEF IsChain
<1>8. Nth[k] = prev[Nth[k - 1]]
  BY <1>1, <1>4, <1>5, <1>7
<1> QED
  BY <1>4, <1>7, <1>8

-----------------------------------------------------------------------------
(* Sockets are told apart *)

(* No descriptor is given out twice while it is open, and a session closes *)
(* its own only after its node is out of the list.                         *)
OpenInv ==
    /\ place \in [Conns -> {"out", "accepted", "started", "listed", "pulled", "closed"}]
    /\ sck_val \in [Conns -> Sockets \cup {NoSocket}]
    /\ \A c, d \in Open : c # d => sck_val[c] # sck_val[d]

(* A step that gives out no descriptor. *)
LEMMA NothingOpened ==
    ASSUME OpenInv, sck_val' = sck_val, Open' \subseteq Open,
           place' \in [Conns -> {"out", "accepted", "started", "listed", "pulled", "closed"}]
    PROVE  OpenInv'
  BY DEF OpenInv

LEMMA SessionMoves ==
    ASSUME OpenInv, NEW c \in Conns, c \in Open,
           NEW to \in {"accepted", "started", "listed", "pulled", "closed"},
           place' = [place EXCEPT ![c] = to], sck_val' = sck_val
    PROVE  OpenInv'
<1>1. Open' \subseteq Open
  BY DEF OpenInv, Open
<1> QED
  BY <1>1, NothingOpened DEF OpenInv

LEMMA OpenStep == OpenInv /\ [Next]_vars => OpenInv'
<1> SUFFICES ASSUME OpenInv, [Next]_vars PROVE OpenInv'
  OBVIOUS
<1>1. ASSUME NEW c \in Conns, Accept(c) PROVE OpenInv'
  <2>1. PICK v \in Sockets \ {sck_val[d] : d \in Open} :
          sck_val' = [sck_val EXCEPT ![c] = v]
    BY <1>1 DEF Accept
  <2>2. /\ place' = [place EXCEPT ![c] = "accepted"]
        /\ Open' = Open \cup {c}
    BY <1>1 DEF Accept, Open, OpenInv
  <2> QED
    BY <2>1, <2>2 DEF OpenInv, Open
<1>2. ASSUME NEW c \in Conns, Start(c) \/ PushVal(c) \/ PullSpec(c) \/ Close(c)
      PROVE  OpenInv'
  <2>1. /\ c \in Open /\ sck_val' = sck_val
        /\ \E to \in {"started", "listed", "pulled", "closed"} :
              place' = [place EXCEPT ![c] = to]
    BY <1>2 DEF Start, PushVal, PullSpec, Close, Open
  <2> QED
    BY <2>1, SessionMoves
<1>3. ASSUME UNCHANGED <<place, sck_val>> PROVE OpenInv'
  BY <1>3, NothingOpened DEF OpenInv, Open
<1>4. ASSUME NEW c \in Conns, ClientLeaves(c) PROVE UNCHANGED <<place, sck_val>>
  BY <1>4 DEF ClientLeaves
<1>5. ASSUME StopListening \/ Walk PROVE UNCHANGED <<place, sck_val>>
  BY <1>5 DEF StopListening, Walk, WalkFirst, WalkTest, WalkShut, WalkCrash, WalkNext
<1>6. CASE UNCHANGED vars
  BY <1>3, <1>6 DEF vars
<1> QED
  BY <1>1, <1>2, <1>3, <1>4, <1>5, <1>6 DEF Next, Session

LEMMA OpenDistinct == OpenInv => DistinctSockets
  BY DEF OpenInv, Open, DistinctSockets

-----------------------------------------------------------------------------
(* Pushes and pulls *)

With(s, n, c) == [j \in 1..(n + 1) |-> IF j = n + 1 THEN c ELSE s[j]]
Without(s, n, k) == [j \in 1..(n - 1) |-> IF j < k THEN s[j] ELSE s[j + 1]]

LEMMA PushMoves ==
    ASSUME TypeOK, NEW n, n = listLength, NEW s \in [1..n -> Conns], IsChain(s),
           NEW c \in Conns, PushVal(c)
    PROVE  /\ With(s, n, c) \in [1..listLength' -> Conns]
           /\ IsChain(With(s, n, c))'
           /\ \A k \in 1..n : s[k] # c
<1>1. /\ listLength \in Nat /\ listLength' = listLength + 1
      /\ prev \in [Conns -> Conns \cup {NULL}] /\ NULL \notin Conns
      /\ place' = [place EXCEPT ![c] = "listed"] /\ place[c] = "started"
      /\ place \in [Conns -> {"out", "accepted", "started", "listed", "pulled", "closed"}]
      /\ last' = c
  BY NullAssumption DEF PushVal, TypeOK
<1>2. \A k \in 1..listLength : s[k] # c /\ s[k] \in Conns
  BY <1>1 DEF IsChain
<1> DEFINE t == With(s, n, c)
<1>3. /\ t \in [1..(listLength + 1) -> Conns]
      /\ t[listLength + 1] = c /\ \A k \in 1..listLength : t[k] = s[k]
  BY <1>1 DEF With
<1> HIDE DEF t
<1>4. \A j, k \in 1..(listLength + 1) : j # k => t[j] # t[k]
  BY <1>1, <1>2, <1>3 DEF IsChain
<1>5. \A d \in Conns : place'[d] = "listed" <=> \E k \in 1..(listLength + 1) : t[k] = d
  <2> TAKE d \in Conns
  <2>1. CASE d = c
    BY <1>1, <1>3, <2>1
  <2>2. CASE d # c
    <3>1. place'[d] = place[d]
      BY <1>1, <2>2
    <3>2. \A k \in 1..(listLength + 1) : t[k] = d <=> k \in 1..listLength /\ s[k] = d
      BY <1>1, <1>3, <2>2
    <3> QED
      BY <1>1, <3>1, <3>2 DEF IsChain
  <2> QED
    BY <2>1, <2>2
<1>6. CASE listLength = 0
  <2>1. first' = c /\ prev' = [prev EXCEPT ![c] = NULL]
    BY <1>6 DEF PushVal
  <2>2. IsChain(t)'
    BY <1>1, <1>3, <1>4, <1>5, <1>6, <2>1 DEF IsChain
  <2> QED
    BY <1>1, <1>2, <1>3, <2>2 DEF t
<1>7. CASE listLength # 0
  <2>1. first' = first /\ prev' = [prev EXCEPT ![c] = NULL, ![last] = c]
    BY <1>7 DEF PushVal
  <2>2. last = s[listLength] /\ last # c /\ first = s[1] /\ last \in Conns
    BY <1>1, <1>2, <1>7 DEF IsChain
  <2>3. prev'[c] = NULL /\ prev'[last] = c /\ \A d \in Conns : d # c /\ d # last => prev'[d] = prev[d]
    BY <1>1, <2>1, <2>2
  <2>4. \A k \in 1..listLength : prev'[t[k]] = t[k + 1]
    <3> TAKE k \in 1..listLength
    <3>1. CASE k = listLength
      BY <1>1, <1>3, <2>2, <2>3, <3>1
    <3>2. CASE k # listLength
      <4>1. k \in 1..(listLength - 1) /\ k + 1 \in 1..listLength
        BY <1>1, <3>2
      <4>2. s[k] # last /\ s[k] # c /\ s[k] \in Conns
        BY <1>1, <1>2, <2>2, <3>2 DEF IsChain
      <4>3. prev'[s[k]] = s[k + 1]
        BY <2>3, <4>1, <4>2 DEF IsChain
      <4> QED
        BY <1>3, <4>1, <4>3
    <3> QED
      BY <3>1, <3>2
  <2>5. first' = t[1]
    BY <1>1, <1>3, <1>7, <2>1, <2>2
  <2>6. IsChain(t)'
    BY <1>1, <1>3, <1>4, <1>5, <2>3, <2>4, <2>5 DEF IsChain
  <2> QED
    BY <1>1, <1>2, <1>3, <2>6 DEF t
<1> QED
  BY <1>6, <1>7

(* The node found by its socket is that of the session, and what is done   *)
(* to the pointers depends on its place in the list alone.                 *)
LEMMA PullMoves ==
    ASSUME TypeOK, OpenInv, NEW s \in [1..listLength -> Conns], IsChain(s),
           NEW c \in Conns, PullSpec(c), NEW k \in 1..listLength, s[k] = c
    PROVE  /\ listLength' = listLength - 1
           /\ k = 1 => /\ prev' = prev
                       /\ first' = IF listLength = 1 THEN NULL ELSE s[2]
                       /\ last' = IF listLength = 1 THEN NULL ELSE last
           /\ k # 1 => /\ first' = first
                       /\ last' = IF k = listLength THEN s[k - 1] ELSE last
                       /\ prev' = [prev EXCEPT ![s[k - 1]] = prev[c]]
<1>1. /\ listLength \in Nat /\ NULL \notin Conns /\ place[c] = "listed"
      /\ DistinctSockets
  BY NullAssumption, OpenDistinct DEF PullSpec, TypeOK
<1>2. s[k] = c
  OBVIOUS
<1>3. \A j \in 1..listLength : Nth[j] = s[j]
  BY <1>1, NthIsChain
<1> DEFINE v == sck_val[c]
<1>4. \A j \in 1..listLength : sck_val[s[j]] = v <=> j = k
  <2> TAKE j \in 1..listLength
  <2>1. s[j] \in Conns /\ place[s[j]] = "listed"
    BY DEF IsChain
  <2>2. j # k => s[j] # c
    BY <1>2 DEF IsChain
  <2> QED
    BY <1>1, <1>2, <2>1, <2>2 DEF DistinctSockets
<1>5. Holding(v) = {k}
  BY <1>3, <1>4 DEF Holding
<1>6. FirstHolding(v) = k
  BY <1>5 DEF FirstHolding
<1>7. /\ listLength > 0 /\ first = s[1] /\ last = s[listLength]
      /\ 1 \in 1..listLength /\ listLength \in 1..listLength
  BY <1>1, <1>2 DEF IsChain
<1>8. (sck_val[first] = v <=> k = 1) /\ (sck_val[last] = v <=> k = listLength)
  BY <1>4, <1>7
<1>9. k # 1 => k - 1 \in 1..listLength /\ find_next(v) = s[k - 1]
  BY <1>1, <1>3, <1>6 DEF find_next
<1>10. Nth[FirstHolding(v)] = c
  BY <1>2, <1>3, <1>6
<1>11. /\ listLength' = listLength - 1
       /\ PullFirst(v) \/ PullLast(v) \/ PullInner(v)
  BY <1>5 DEF PullSpec
<1> HIDE DEF v
<1>12. CASE PullFirst(v)
  <2>1. k = 1 /\ (listLength # 1 => prev[first] = s[2])
    BY <1>1, <1>7, <1>8, <1>12 DEF PullFirst, IsChain
  <2> QED
    BY <1>2, <1>11, <1>12, <2>1 DEF PullFirst
<1>13. CASE PullLast(v)
  <2>1. k # 1 /\ k = listLength /\ prev[c] = NULL
    BY <1>2, <1>7, <1>8, <1>13 DEF PullLast, IsChain
  <2> QED
    BY <1>2, <1>9, <1>11, <1>13, <2>1 DEF PullLast
<1>14. CASE PullInner(v)
  <2>1. k # 1 /\ k # listLength
    BY <1>8, <1>14 DEF PullInner
  <2> QED
    BY <1>2, <1>9, <1>10, <1>11, <1>14, <2>1 DEF PullInner
<1> QED
  BY <1>11, <1>12, <1>13, <1>14

(* The same, the length a constant. *)
LEMMA PullMovesAt ==
    ASSUME TypeOK, OpenInv, NEW n, n = listLength, NEW s \in [1..n -> Conns], IsChain(s),
           NEW c \in Conns, PullSpec(c), NEW k \in 1..n, s[k] = c
    PROVE  /\ listLength' = listLength - 1
           /\ k = 1 => /\ prev' = prev
                       /\ first' = IF listLength = 1 THEN NULL ELSE s[2]
                       /\ last' = IF listLength = 1 THEN NULL ELSE last
           /\ k # 1 => /\ first' = first
                       /\ last' = IF k = listLength THEN s[k - 1] ELSE last
                       /\ prev' = [prev EXCEPT ![s[k - 1]] = prev[c]]
<1>1. k \in 1..listLength /\ s \in [1..listLength -> Conns]
  OBVIOUS
<1> QED
  BY <1>1, PullMoves, ZenonT(60)

LEMMA PullKeepsChain ==
    ASSUME TypeOK, OpenInv, NEW n, n = listLength, NEW s \in [1..n -> Conns], IsChain(s),
           NEW c \in Conns, PullSpec(c), NEW k \in 1..n, s[k] = c
    PROVE  /\ Without(s, n, k) \in [1..listLength' -> Conns]
           /\ IsChain(Without(s, n, k))'
<1>1. /\ listLength \in Nat /\ NULL \notin Conns
      /\ prev \in [Conns -> Conns \cup {NULL}]
      /\ place' = [place EXCEPT ![c] = "pulled"]
      /\ place \in [Conns -> {"out", "accepted", "started", "listed", "pulled", "closed"}]
  BY NullAssumption DEF PullSpec, TypeOK
<1>2. /\ listLength' = listLength - 1
      /\ k = 1 => /\ prev' = prev
                  /\ first' = IF listLength = 1 THEN NULL ELSE s[2]
                  /\ last' = IF listLength = 1 THEN NULL ELSE last
      /\ k # 1 => /\ first' = first
                  /\ last' = IF k = listLength THEN s[k - 1] ELSE last
                  /\ prev' = [prev EXCEPT ![s[k - 1]] = prev[c]]
  <2>1. k \in 1..listLength /\ s \in [1..listLength -> Conns]
    OBVIOUS
  <2> QED
    BY <2>1, PullMoves, ZenonT(60)
<1> DEFINE t == Without(s, n, k)
<1>3. /\ t \in [1..(listLength - 1) -> Conns]
      /\ \A j \in 1..(listLength - 1) : /\ j < k => t[j] = s[j] /\ j \in 1..listLength
                                        /\ j >= k => t[j] = s[j + 1] /\ j + 1 \in 1..listLength
  BY <1>1 DEF Without
<1> HIDE DEF t
<1>4. \A i1, j \in 1..(listLength - 1) : i1 # j => t[i1] # t[j]
  <2> TAKE i1, j \in 1..(listLength - 1)
  <2> DEFINE at(x) == IF x < k THEN x ELSE x + 1
  <2>1. /\ t[i1] = s[at(i1)] /\ t[j] = s[at(j)]
        /\ at(i1) \in 1..listLength /\ at(j) \in 1..listLength /\ (i1 # j => at(i1) # at(j))
    BY <1>1, <1>3
  <2> QED
    BY <2>1 DEF IsChain
<1>5. \A d \in Conns : place'[d] = "listed" <=> \E j \in 1..(listLength - 1) : t[j] = d
  <2> TAKE d \in Conns
  <2>1. CASE d = c
    <3>1. ASSUME NEW j \in 1..(listLength - 1) PROVE t[j] # c
      <4>1. j < k => t[j] = s[j] /\ j \in 1..listLength /\ j # k
        BY <1>1, <1>3
      <4>2. j >= k => t[j] = s[j + 1] /\ j + 1 \in 1..listLength /\ j + 1 # k
        BY <1>1, <1>3
      <4> QED
        BY <4>1, <4>2 DEF IsChain
    <3> QED
      BY <1>1, <2>1, <3>1
  <2>2. CASE d # c
    <3>1. place'[d] = place[d]
      BY <1>1, <2>2
    <3>2. ASSUME NEW j \in 1..listLength, s[j] = d PROVE \E x \in 1..(listLength - 1) : t[x] = d
      <4>1. j # k
        BY <2>2, <3>2
      <4>2. CASE j < k
        BY <1>1, <1>3, <3>2, <4>2
      <4>3. CASE j > k
        <5>1. j - 1 \in 1..(listLength - 1) /\ j - 1 >= k /\ (j - 1) + 1 = j
          BY <1>1, <4>3
        <5> QED
          BY <1>3, <3>2, <5>1
      <4> QED
        BY <4>1, <4>2, <4>3
    <3>3. ASSUME NEW j \in 1..(listLength - 1), t[j] = d PROVE \E x \in 1..listLength : s[x] = d
      BY <1>1, <1>3, <3>3
    <3> QED
      BY <3>1, <3>2, <3>3 DEF IsChain
  <2> QED
    BY <2>1, <2>2
<1>6. /\ \A d \in Conns : k # 1 /\ d = s[k - 1] => prev'[d] = prev[c]
      /\ \A d \in Conns : k = 1 \/ d # s[k - 1] => prev'[d] = prev[d]
  BY <1>1, <1>2
<1>7. /\ listLength - 1 = 0 => first' = NULL
      /\ listLength - 1 > 0 => first' = t[1] /\ last' = t[listLength - 1]
  <2>1. listLength = 1 => k = 1
    BY <1>1
  <2>2. listLength > 1 => first = s[1] /\ last = s[listLength]
    BY <1>1 DEF IsChain
  <2>3. listLength > 1 => /\ t[1] = IF k = 1 THEN s[2] ELSE s[1]
                          /\ t[listLength - 1] = IF k = listLength THEN s[k - 1] ELSE s[listLength]
    <3>1. CASE listLength > 1
      <4>1. 1 \in 1..(listLength - 1) /\ listLength - 1 \in 1..(listLength - 1)
        BY <1>1, <3>1
      <4>2. t[1] = IF k = 1 THEN s[2] ELSE s[1]
        BY <1>1, <1>3, <4>1
      <4>3. k = listLength => t[listLength - 1] = s[k - 1]
        BY <1>1, <1>3, <4>1
      <4>4. k # listLength => t[listLength - 1] = s[listLength]
        <5>1. k # listLength => listLength - 1 >= k /\ (listLength - 1) + 1 = listLength
          BY <1>1
        <5> QED
          BY <1>3, <4>1, <5>1
      <4> QED
        BY <4>2, <4>3, <4>4
    <3> QED
      BY <3>1
  <2> QED
    BY <1>1, <1>2, <2>1, <2>2, <2>3
<1>8. listLength - 1 > 0 => prev'[last'] = NULL
  <2> SUFFICES ASSUME listLength > 1 PROVE prev'[last'] = NULL
    BY <1>1
  <2>1. last = s[listLength] /\ prev[last] = NULL
    BY <1>1 DEF IsChain
  <2>2. CASE k = listLength
    BY <1>1, <1>2, <1>6, <2>1, <2>2
  <2>3. CASE k # listLength
    <3>1. last' = last /\ last \in Conns
      BY <1>1, <1>2, <2>1, <2>3
    <3>2. k # 1 => s[k - 1] # last
      BY <1>1, <2>1, <2>3 DEF IsChain
    <3> QED
      BY <1>6, <2>1, <3>1, <3>2
  <2> QED
    BY <2>2, <2>3
<1>9. \A j \in 1..((listLength - 1) - 1) : prev'[t[j]] = t[j + 1]
  <2> TAKE j \in 1..((listLength - 1) - 1)
  <2>1. /\ j \in 1..(listLength - 1) /\ j + 1 \in 1..(listLength - 1)
        /\ j \in 1..listLength /\ j + 1 \in 1..listLength /\ (j + 1) + 1 \in 1..listLength
    BY <1>1
  <2>2. prev[s[j]] = s[j + 1] /\ prev[s[j + 1]] = s[(j + 1) + 1]
    BY <2>1 DEF IsChain
  <2>3. CASE j + 1 < k
    <3>1. t[j] = s[j] /\ t[j + 1] = s[j + 1] /\ k # 1 /\ k - 1 # j /\ k - 1 \in 1..listLength
      BY <1>1, <1>3, <2>1, <2>3
    <3>2. s[j] # s[k - 1]
      BY <2>1, <3>1 DEF IsChain
    <3> QED
      BY <1>6, <2>1, <2>2, <3>1, <3>2
  <2>4. CASE j + 1 = k
    <3>1. t[j] = s[k - 1] /\ t[j + 1] = s[(j + 1) + 1] /\ k # 1 /\ s[k - 1] \in Conns
      BY <1>1, <1>3, <2>1, <2>4
    <3> QED
      BY <1>6, <2>2, <2>4, <3>1
  <2>5. CASE j + 1 > k
    <3>1. t[j] = s[j + 1] /\ t[j + 1] = s[(j + 1) + 1] /\ (k = 1 \/ k - 1 # j + 1)
      BY <1>1, <1>3, <2>1, <2>5
    <3>2. k # 1 => k - 1 \in 1..listLength /\ s[j + 1] # s[k - 1]
      BY <1>1, <2>1, <3>1 DEF IsChain
    <3> QED
      BY <1>6, <2>1, <2>2, <3>1, <3>2
  <2> QED
    BY <1>1, <2>3, <2>4, <2>5
<1>10. IsChain(t)'
  BY <1>1, <1>2, <1>3, <1>4, <1>5, <1>7, <1>8, <1>9 DEF IsChain
<1> QED
  BY <1>2, <1>3, <1>10 DEF t

-----------------------------------------------------------------------------
(* Types, and the chain *)

ListInv ==
    /\ TypeOK /\ (wpc = "next" => temp_line \in Conns)
    /\ OpenInv /\ ChainInv

LEMMA ChainQuiet ==
    ASSUME ChainInv, UNCHANGED list,
           \A c \in Conns : place'[c] = "listed" <=> place[c] = "listed"
    PROVE  ChainInv'
<1>1. PICK s \in [1..listLength -> Conns] : IsChain(s)
  BY DEF ChainInv
<1>2. IsChain(s)'
  BY <1>1 DEF IsChain, list
<1> QED
  BY <1>2 DEF ChainInv, list

LEMMA ChainPush ==
    ASSUME ListInv, NEW c \in Conns, PushVal(c)
    PROVE  ChainInv'
<1> DEFINE n == listLength
<1>1. PICK s \in [1..n -> Conns] : IsChain(s)
  BY DEF ListInv, ChainInv
<1>2. TypeOK
  BY DEF ListInv
<1> HIDE DEF n
<1>3. n = listLength
  BY DEF n
<1> QED
  BY <1>1, <1>2, <1>3, PushMoves DEF ChainInv

LEMMA ChainPull ==
    ASSUME ListInv, NEW c \in Conns, PullSpec(c)
    PROVE  ChainInv'
<1> DEFINE n == listLength
<1>1. PICK s \in [1..n -> Conns] : IsChain(s)
  BY DEF ListInv, ChainInv
<1>2. TypeOK /\ OpenInv
  BY DEF ListInv
<1>3. PICK k \in 1..n : s[k] = c
  BY <1>1, <1>2 DEF IsChain, PullSpec
<1> HIDE DEF n
<1>4. n = listLength
  BY DEF n
<1> QED
  BY <1>1, <1>2, <1>3, <1>4, PullKeepsChain DEF ChainInv

(* What a pull leaves of the pointers, for those who need no more. *)
LEMMA PullTyped ==
    ASSUME ListInv, NEW c \in Conns, PullSpec(c)
    PROVE  /\ listLength' \in Nat /\ prev' \in [Conns -> Conns \cup {NULL}]
           /\ first' \in Conns \cup {NULL} /\ last' \in Conns \cup {NULL}
<1>1. PICK s \in [1..listLength -> Conns] : IsChain(s)
  BY DEF ListInv, ChainInv
<1>2. TypeOK /\ OpenInv
  BY DEF ListInv
<1>3. PICK k \in 1..listLength : s[k] = c
  BY <1>1, <1>2 DEF IsChain, PullSpec
<1>4. /\ listLength' = listLength - 1
      /\ k = 1 => /\ prev' = prev
                  /\ first' = IF listLength = 1 THEN NULL ELSE s[2]
                  /\ last' = IF listLength = 1 THEN NULL ELSE last
      /\ k # 1 => /\ first' = first
                  /\ last' = IF k = listLength THEN s[k - 1] ELSE last
                  /\ prev' = [prev EXCEPT ![s[k - 1]] = prev[c]]
  BY <1>1, <1>2, <1>3, PullMoves, ZenonT(60)
<1>5. /\ listLength \in Nat /\ prev \in [Conns -> Conns \cup {NULL}]
      /\ first \in Conns \cup {NULL} /\ last \in Conns \cup {NULL}
  BY <1>2 DEF TypeOK
<1>6. CASE k = 1
  <2>1. listLength # 1 => s[2] \in Conns
    BY <1>5
  <2> QED
    BY <1>4, <1>5, <1>6, <2>1
<1>7. CASE k # 1
  <2>1. s[k - 1] \in Conns /\ prev[c] \in Conns \cup {NULL}
    BY <1>5, <1>7
  <2> QED
    BY <1>4, <1>5, <1>7, <2>1
<1> QED
  BY <1>6, <1>7

LEMMA TypeStep ==
    ASSUME ListInv, [Next]_vars
    PROVE  TypeOK' /\ (wpc = "next" => temp_line \in Conns)'
<1> USE DEF TypeOK, list, walk, history
<1>1. TypeOK /\ (wpc = "next" => temp_line \in Conns)
  BY DEF ListInv
<1>2. ASSUME NEW c \in Conns, Accept(c) PROVE TypeOK' /\ (wpc = "next" => temp_line \in Conns)'
  BY <1>1, <1>2 DEF Accept
<1>3. ASSUME NEW c \in Conns, ClientLeaves(c)
      PROVE  TypeOK' /\ (wpc = "next" => temp_line \in Conns)'
  BY <1>1, <1>3 DEF ClientLeaves
<1>4. ASSUME NEW c \in Conns, Start(c) \/ Close(c)
      PROVE  TypeOK' /\ (wpc = "next" => temp_line \in Conns)'
  BY <1>1, <1>4 DEF Start, Close
<1>5. ASSUME NEW c \in Conns, PushVal(c)
      PROVE  TypeOK' /\ (wpc = "next" => temp_line \in Conns)'
  <2>1. prev' \in [Conns -> Conns \cup {NULL}] /\ first' \in Conns \cup {NULL}
    BY <1>1, <1>5 DEF PushVal
  <2>2. listLength' \in Nat /\ pushed' \in SUBSET Conns
    BY <1>1, <1>5 DEF PushVal
  <2> QED
    BY <1>1, <1>5, <2>1, <2>2 DEF PushVal
<1>6. ASSUME NEW c \in Conns, PullSpec(c)
      PROVE  TypeOK' /\ (wpc = "next" => temp_line \in Conns)'
  <2>1. /\ listLength' \in Nat /\ prev' \in [Conns -> Conns \cup {NULL}]
        /\ first' \in Conns \cup {NULL} /\ last' \in Conns \cup {NULL}
    BY <1>6, PullTyped
  <2>2. /\ place' = [place EXCEPT ![c] = "pulled"] /\ pulled' \in SUBSET Conns
        /\ UNCHANGED <<sck_val, eof, walk, atStart, pushed>>
    BY <1>1, <1>6 DEF PullSpec
  <2> QED
    BY <1>1, <2>1, <2>2
<1>7. ASSUME StopListening \/ WalkFirst \/ WalkTest
      PROVE  TypeOK' /\ (wpc = "next" => temp_line \in Conns)'
  BY <1>1, <1>7 DEF StopListening, WalkFirst, WalkTest
<1>8. ASSUME WalkShut \/ WalkCrash \/ WalkNext
      PROVE  TypeOK' /\ (wpc = "next" => temp_line \in Conns)'
  BY <1>1, <1>8 DEF WalkShut, WalkCrash, WalkNext, Open
<1>9. CASE UNCHANGED vars
  BY <1>1, <1>9 DEF vars
<1> QED
  BY <1>2, <1>3, <1>4, <1>5, <1>6, <1>7, <1>8, <1>9 DEF Next, Session, Walk

LEMMA ListStep == ListInv /\ [Next]_vars => ListInv'
<1> SUFFICES ASSUME ListInv, [Next]_vars PROVE ListInv'
  OBVIOUS
<1>1. OpenInv' /\ TypeOK' /\ (wpc = "next" => temp_line \in Conns)'
  BY TypeStep, OpenStep DEF ListInv
<1>2. /\ ChainInv
      /\ place \in [Conns -> {"out", "accepted", "started", "listed", "pulled", "closed"}]
  BY DEF ListInv, TypeOK
<1>3. ASSUME NEW c \in Conns, PushVal(c) \/ PullSpec(c) PROVE ChainInv'
  BY <1>3, ChainPush, ChainPull
<1>4. ASSUME NEW c \in Conns, Accept(c) \/ Start(c) \/ Close(c) PROVE ChainInv'
  <2>1. /\ UNCHANGED list
        /\ \A d \in Conns : place'[d] = "listed" <=> place[d] = "listed"
    BY <1>2, <1>4 DEF Accept, Start, Close
  <2> QED
    BY <1>2, <2>1, ChainQuiet
<1>5. ASSUME UNCHANGED <<list, place>> PROVE ChainInv'
  BY <1>2, <1>5, ChainQuiet
<1>6. ASSUME NEW c \in Conns, ClientLeaves(c) PROVE UNCHANGED <<list, place>>
  BY <1>6 DEF ClientLeaves
<1>7. ASSUME StopListening \/ Walk \/ UNCHANGED vars PROVE UNCHANGED <<list, place>>
  BY <1>7 DEF StopListening, Walk, WalkFirst, WalkTest, WalkShut, WalkCrash, WalkNext,
              vars, list
<1>8. ChainInv'
  BY <1>3, <1>4, <1>5, <1>6, <1>7 DEF Next, Session
<1> QED
  BY <1>1, <1>8 DEF ListInv

LEMMA ListInit == Init => ListInv
<1> SUFFICES ASSUME Init PROVE ListInv
  OBVIOUS
<1>1. TypeOK /\ (wpc = "next" => temp_line \in Conns)
  BY DEF Init, TypeOK
<1>2. OpenInv
  BY DEF Init, OpenInv, Open
<1>3. [k \in 1..0 |-> NULL] \in [1..listLength -> Conns] /\ IsChain([k \in 1..0 |-> NULL])
  BY DEF Init, IsChain
<1> QED
  BY <1>1, <1>2, <1>3 DEF ListInv, ChainInv

(* linkedList.cc, bbserv.cc:72-78: the pointers and counters keep their    *)
(* types; in particular listLength does not go below zero.                 *)
THEOREM TypeCorrect == Spec => []TypeOK
<1>1. ListInv => TypeOK
  BY DEF ListInv
<1> QED
  BY <1>1, ListInit, ListStep, PTL DEF Spec

(* linkedList.cc:59-130, server_operations.cc:346-355: no descriptor is in *)
(* the list twice, so that pullSpec takes out the node of its own session. *)
THEOREM SocketsDistinct == Spec => []DistinctSockets
<1>1. ListInv => DistinctSockets
  BY OpenDistinct DEF ListInv
<1> QED
  BY <1>1, ListInit, ListStep, PTL DEF Spec

-----------------------------------------------------------------------------
(* The chain of nodes is the sequence of the sessions *)

Clients == [k \in 1..listLength |-> Nth[k]]

LEMMA ClientsChain ==
    \A s \in [1..listLength -> Conns] :
      listLength \in Nat /\ IsChain(s) => Clients = s
<1> SUFFICES ASSUME NEW s \in [1..listLength -> Conns], listLength \in Nat, IsChain(s)
             PROVE  Clients = s
  OBVIOUS
<1>1. \A k \in 1..listLength : Nth[k] = s[k]
  BY NullAssumption, NthIsChain
<1> QED
  BY <1>1 DEF Clients

LEMMA ClientsChainNext ==
    (\A s \in [1..listLength -> Conns] :
      listLength \in Nat /\ IsChain(s) => Clients = s)'
  BY ClientsChain, PTL

LEMMA ClientsPush ==
    ASSUME ListInv, ListInv', NEW c \in Conns, PushVal(c)
    PROVE  /\ Clients' = Append(Clients, c)
           /\ Clients \in Seq(Conns)
           /\ \A k \in DOMAIN Clients : Clients[k] # c
<1>1. PICK n : n = listLength
  OBVIOUS
<1>2. TypeOK /\ TypeOK' /\ n \in Nat
  BY <1>1 DEF ListInv, TypeOK
<1>3. PICK s \in [1..n -> Conns] : IsChain(s)
  BY <1>1 DEF ListInv, ChainInv
<1>4. /\ With(s, n, c) \in [1..listLength' -> Conns]
      /\ IsChain(With(s, n, c))'
      /\ \A k \in 1..n : s[k] # c
  BY <1>1, <1>2, <1>3, PushMoves
<1>5. Clients = s
  BY <1>1, <1>2, <1>3, ClientsChain
<1>6. Clients' = With(s, n, c)
  BY <1>2, <1>4, ClientsChainNext DEF TypeOK
<1>7. s \in Seq(Conns) /\ Len(s) = n
  BY <1>2, <1>3
<1>8. With(s, n, c) = Append(s, c)
  <2>1. /\ Append(s, c) \in Seq(Conns) /\ Len(Append(s, c)) = n + 1
        /\ \A j \in 1..n : Append(s, c)[j] = s[j]
        /\ Append(s, c)[n + 1] = c
    BY <1>2, <1>7
  <2>2. Append(s, c) = [j \in 1..(n + 1) |-> Append(s, c)[j]]
    BY <2>1, LenProperties
  <2>3. \A j \in 1..(n + 1) : Append(s, c)[j] = IF j = n + 1 THEN c ELSE s[j]
    BY <1>2, <2>1
  <2> QED
    BY <2>2, <2>3, Zenon DEF With
<1> QED
  BY <1>3, <1>4, <1>5, <1>6, <1>7, <1>8

LEMMA ClientsPull ==
    ASSUME ListInv, ListInv', NEW c \in Conns, PullSpec(c)
    PROVE  \E k \in DOMAIN Clients :
              Clients[k] = c /\ Clients' = ListSeq!RemoveAt(Clients, k)
<1>1. PICK n : n = listLength
  OBVIOUS
<1>2. TypeOK /\ TypeOK' /\ n \in Nat /\ OpenInv
  BY <1>1 DEF ListInv, TypeOK
<1>3. PICK s \in [1..n -> Conns] : IsChain(s)
  BY <1>1 DEF ListInv, ChainInv
<1>4. PICK k \in 1..n : s[k] = c
  BY <1>1, <1>3 DEF IsChain, PullSpec
<1>5. /\ Without(s, n, k) \in [1..listLength' -> Conns]
      /\ IsChain(Without(s, n, k))'
  BY <1>1, <1>2, <1>3, <1>4, PullKeepsChain
<1>6. Clients = s
  BY <1>1, <1>2, <1>3, ClientsChain
<1>7. Clients' = Without(s, n, k)
  BY <1>2, <1>5, ClientsChainNext DEF TypeOK
<1>8. s \in Seq(Conns) /\ Len(s) = n /\ DOMAIN s = 1..n
  BY <1>2, <1>3
<1>9. Without(s, n, k) = ListSeq!RemoveAt(s, k)
  <2> DEFINE l == SubSeq(s, 1, k - 1)
             r == SubSeq(s, k + 1, Len(s))
  <2>1. l \in Seq(Conns) /\ Len(l) = k - 1 /\ \A j \in 1..(k - 1) : l[j] = s[j]
    BY <1>2, <1>4, <1>8
  <2>2. r \in Seq(Conns) /\ Len(r) = n - k /\ \A j \in 1..(n - k) : r[j] = s[k + j]
    BY <1>2, <1>4, <1>8
  <2>3. ListSeq!RemoveAt(s, k) = l \o r
    BY DEF ListSeq!RemoveAt
  <2> HIDE DEF l, r
  <2>4. /\ l \o r \in Seq(Conns) /\ Len(l \o r) = n - 1
        /\ \A j \in 1..(n - 1) : (l \o r)[j] = IF j <= k - 1 THEN l[j] ELSE r[j - (k - 1)]
    <3>1. /\ l \o r \in Seq(Conns) /\ Len(l \o r) = Len(l) + Len(r)
          /\ \A j \in 1..(Len(l) + Len(r)) :
               (l \o r)[j] = IF j <= Len(l) THEN l[j] ELSE r[j - Len(l)]
      BY <2>1, <2>2, ConcatProperties, Zenon
    <3>2. Len(l) + Len(r) = n - 1
      BY <1>2, <1>4, <2>1, <2>2
    <3> QED
      BY <2>1, <3>1, <3>2, Zenon
  <2>5. ASSUME NEW j \in 1..(n - 1)
        PROVE  (l \o r)[j] = IF j < k THEN s[j] ELSE s[j + 1]
    <3>1. CASE j < k
      <4>1. j \in 1..(k - 1) /\ j <= k - 1
        BY <1>2, <1>4, <3>1
      <4> QED
        BY <2>1, <2>4, <3>1, <4>1
    <3>2. CASE ~(j < k)
      <4>1. j - (k - 1) \in 1..(n - k) /\ ~(j <= k - 1) /\ k + (j - (k - 1)) = j + 1
        BY <1>2, <1>4, <3>2
      <4> QED
        BY <2>2, <2>4, <3>2, <4>1
    <3> QED
      BY <3>1, <3>2
  <2>6. l \o r = [j \in 1..(n - 1) |-> (l \o r)[j]]
    BY <2>4, LenProperties
  <2> QED
    BY <2>3, <2>5, <2>6, Zenon DEF Without
<1> QED
  BY <1>4, <1>6, <1>7, <1>8, <1>9

(* A step that leaves the nodes alone leaves the sequence alone. *)
LEMMA ClientsQuiet ==
    ASSUME UNCHANGED list
    PROVE  Clients' = Clients
<1>1. Nth' = Nth
  BY DEF Nth, list
<1> QED
  BY <1>1 DEF Clients, list

(* linkedList.cc:59-190: seen through first, prev and listLength, a push   *)
(* puts the new session at the end, and a pull takes out the session that  *)
(* ends and leaves the others in their order, wherever in the list it was. *)
THEOREM ListImplemented == Spec => ListSpec
<1>1. Init => ListSeq!Init
  <2> SUFFICES ASSUME Init PROVE Clients = <<>>
    BY DEF ListSeq!Init, Clients
  <2> QED
    BY DEF Init, Clients
<1>2. ListInv /\ ListInv' /\ [Next]_vars => ListSeq!Next \/ Clients' = Clients
  <2> SUFFICES ASSUME ListInv, ListInv', [Next]_vars
               PROVE  ListSeq!Next \/ Clients' = Clients
    OBVIOUS
  <2>1. ASSUME NEW c \in Conns, PushVal(c) PROVE ListSeq!Next
    <3>1. ListSeq!Enter(c)
      BY <2>1, ClientsPush DEF ListSeq!Enter, ListSeq!ToSet, Clients
    <3> QED
      BY <3>1 DEF ListSeq!Next
  <2>2. ASSUME NEW c \in Conns, PullSpec(c) PROVE ListSeq!Next
    <3>1. ListSeq!Leave(c)
      BY <2>2, ClientsPull DEF ListSeq!Leave, Clients
    <3> QED
      BY <3>1 DEF ListSeq!Next
  <2>3. CASE UNCHANGED list
    BY <2>3, ClientsQuiet
  <2>4. ASSUME NEW c \in Conns, Accept(c) \/ ClientLeaves(c) \/ Start(c) \/ Close(c)
        PROVE  UNCHANGED list
    BY <2>4 DEF Accept, ClientLeaves, Start, Close
  <2>5. ASSUME StopListening \/ Walk \/ UNCHANGED vars PROVE UNCHANGED list
    BY <2>5 DEF StopListening, Walk, WalkFirst, WalkTest, WalkShut, WalkCrash, WalkNext,
                vars, list
  <2> QED
    BY <2>1, <2>2, <2>3, <2>4, <2>5 DEF Next, Session
<1>3. ListSeq!Next \/ Clients' = Clients => [ListSeq!Next]_[k \in 1..listLength |-> Nth[k]]
  BY DEF Clients
<1> QED
  BY <1>1, <1>2, <1>3, ListInit, ListStep, PTL DEF Spec, ListSpec, ListSeq!Spec

-----------------------------------------------------------------------------
(* The walk *)

(* t is a without its k-th element. *)
Skips(t, a, n, k) ==
    /\ t \in [1..(n - 1) -> Conns]
    /\ \A j \in 1..(n - 1) : /\ j < k => t[j] = a[j]
                             /\ j >= k => t[j] = a[j + 1]
    /\ \A j, m \in 1..(n - 1) : j # m => t[j] # t[m]
    /\ \A j \in 1..(n - 1) : t[j] # a[k] /\ \E m \in 1..n : t[j] = a[m]
    /\ \A m \in 1..n : m = k \/ \E j \in 1..(n - 1) : t[j] = a[m]

LEMMA WithoutOne ==
    ASSUME NEW n \in Nat, NEW a \in [1..n -> Conns], NEW k \in 1..n,
           \A j, m \in 1..n : j # m => a[j] # a[m]
    PROVE  Skips(Without(a, n, k), a, n, k)
<1> DEFINE t == Without(a, n, k)
<1>1. /\ t \in [1..(n - 1) -> Conns]
      /\ \A j \in 1..(n - 1) : /\ j < k => t[j] = a[j] /\ j \in 1..n /\ j # k
                               /\ j >= k => t[j] = a[j + 1] /\ j + 1 \in 1..n /\ j + 1 # k
  BY DEF Without
<1> HIDE DEF t
<1>2. ASSUME NEW j \in 1..(n - 1) PROVE t[j] # a[k] /\ \E m \in 1..n : t[j] = a[m]
  <2>1. CASE j < k
    BY <1>1, <2>1
  <2>2. CASE j >= k
    BY <1>1, <2>2
  <2> QED
    BY <2>1, <2>2
<1>3. ASSUME NEW j \in 1..(n - 1), NEW m \in 1..(n - 1), j # m PROVE t[j] # t[m]
  <2> DEFINE at(x) == IF x < k THEN x ELSE x + 1
  <2>1. /\ t[j] = a[at(j)] /\ t[m] = a[at(m)]
        /\ at(j) \in 1..n /\ at(m) \in 1..n /\ at(j) # at(m)
    BY <1>1, <1>3
  <2> QED
    BY <2>1
<1>4. ASSUME NEW m \in 1..n, m # k PROVE \E j \in 1..(n - 1) : t[j] = a[m]
  <2>1. CASE m < k
    BY <1>1, <2>1
  <2>2. CASE m > k
    <3>1. m - 1 \in 1..(n - 1) /\ m - 1 >= k /\ (m - 1) + 1 = m
      BY <2>2
    <3> QED
      BY <1>1, <3>1
  <2> QED
    BY <1>4, <2>1, <2>2
<1>5. Skips(t, a, n, k)
  BY <1>1, <1>2, <1>3, <1>4 DEF Skips
<1> QED
  BY <1>5 DEF t

Listed == {c \in Conns : place[c] = "listed"}
Unwarned == {c \in atStart : place[c] = "listed" /\ c \notin eof}

(* a: the nodes the walk would still meet if nothing were changed any      *)
(* more; V: those it has behind it, each warned or gone.                   *)
IsAhead(a, n, V) ==
    /\ IsFiniteSet(V) /\ Cardinality(V) = i
    /\ \A j, k \in 1..n : j # k => a[j] # a[k]
    /\ \A k \in 1..n : a[k] \notin V
    /\ temp_line = IF n = 0 THEN NULL ELSE a[1]
    /\ n > 0 => prev[a[n]] = NULL
    /\ \A k \in 1..(n - 1) : prev[a[k]] = a[k + 1]
    /\ \A c \in V : c \in pulled \/ (place[c] = "listed" /\ c \in eof)
    /\ \A k \in 1..n : a[k] \in pulled \/ place[a[k]] = "listed"
    /\ pushed = {} => \A c \in Listed : c \in V \/ \E k \in 1..n : a[k] = c
    /\ wpc = "next" => n > 0 /\ temp_line \in eof \cup pulled
    /\ wpc = "shut" /\ pushed = {} => n > 0

AheadInv == \E n \in Nat : \E a \in [1..n -> Conns], V \in SUBSET Conns : IsAhead(a, n, V)

PlaceInv ==
    /\ \A c \in pulled : place[c] \in {"pulled", "closed"}
    /\ \A c \in atStart : place[c] \in {"listed", "pulled", "closed"}
    /\ IsFiniteSet(pulled)
    /\ wpc \in {"serving", "first"} => pushed = {} /\ pulled = {}

WalkInv ==
    /\ PlaceInv
    /\ Walking => AheadInv
    /\ wpc = "done" => IsFiniteSet(Unwarned) /\ Cardinality(Unwarned) <= Cardinality(pulled)
    /\ wpc = "crashed" => pushed # {}

LEMMA ListedFinite ==
    ASSUME ListInv
    PROVE  IsFiniteSet(Listed) /\ Cardinality(Listed) = listLength
<1>1. PICK s \in [1..listLength -> Conns] : IsChain(s)
  BY DEF ListInv, ChainInv
<1>2. listLength \in Nat
  BY DEF ListInv, TypeOK
<1>3. IsFiniteSet(1..listLength) /\ Cardinality(1..listLength) = listLength
  BY <1>2, FS_Interval
<1>4. s \in Bijection(1..listLength, Listed)
  BY <1>1 DEF IsChain, Listed, Bijection, Injection, Surjection, IsInjective
<1> QED
  BY <1>3, <1>4, FS_Bijection DEF ExistsBijection

LEMMA PlaceStep ==
    ASSUME ListInv, PlaceInv, [Next]_vars
    PROVE  PlaceInv'
<1> USE DEF PlaceInv, list, walk, history
<1>1. TypeOK
  BY DEF ListInv
<1>2. ASSUME NEW c \in Conns, Accept(c) PROVE PlaceInv'
  BY <1>1, <1>2 DEF Accept, TypeOK
<1>3. ASSUME NEW c \in Conns, ClientLeaves(c) PROVE PlaceInv'
  BY <1>1, <1>3 DEF ClientLeaves, TypeOK
<1>4. ASSUME NEW c \in Conns, Start(c) \/ Close(c) PROVE PlaceInv'
  BY <1>1, <1>4 DEF Start, Close, TypeOK
<1>5. ASSUME NEW c \in Conns, PushVal(c) PROVE PlaceInv'
  <2>1. /\ place[c] = "started" /\ place' = [place EXCEPT ![c] = "listed"]
        /\ UNCHANGED <<wpc, pulled, atStart>>
        /\ pushed' = IF Walking THEN pushed \cup {c} ELSE pushed
    BY <1>5 DEF PushVal
  <2> QED
    BY <1>1, <2>1 DEF TypeOK, Walking
<1>6. ASSUME NEW c \in Conns, PullSpec(c) PROVE PlaceInv'
  <2>1. /\ place[c] = "listed" /\ place' = [place EXCEPT ![c] = "pulled"]
        /\ UNCHANGED <<wpc, pushed, atStart>>
        /\ pulled' = IF Walking THEN pulled \cup {c} ELSE pulled
    BY <1>6 DEF PullSpec
  <2>2. IsFiniteSet(pulled')
    BY <2>1, FS_AddElement
  <2> QED
    BY <1>1, <2>1, <2>2 DEF TypeOK, Walking
<1>7. ASSUME WalkFirst PROVE PlaceInv'
  BY <1>1, <1>7 DEF WalkFirst, TypeOK
<1>8. ASSUME StopListening \/ WalkTest \/ WalkShut \/ WalkCrash \/ WalkNext PROVE PlaceInv'
  BY <1>8 DEF StopListening, WalkTest, WalkShut, WalkCrash, WalkNext
<1>9. CASE UNCHANGED vars
  BY <1>9 DEF vars
<1> QED
  BY <1>2, <1>3, <1>4, <1>5, <1>6, <1>7, <1>8, <1>9 DEF Next, Session, Walk

(* A step that changes neither the nodes nor where the walk is, and takes  *)
(* nothing away of what was warned or gone.                                *)
LEMMA AheadQuiet ==
    ASSUME AheadInv, UNCHANGED <<list, walk, pulled, pushed>>, eof \subseteq eof',
           \A c \in Conns : place'[c] = "listed" <=> place[c] = "listed"
    PROVE  AheadInv'
<1>0. PICK n \in Nat : \E a \in [1..n -> Conns], V \in SUBSET Conns : IsAhead(a, n, V)
  BY Zenon DEF AheadInv
<1>1. PICK a \in [1..n -> Conns], V \in SUBSET Conns : IsAhead(a, n, V)
  BY <1>0
<1>2. IsAhead(a, n, V)'
  BY <1>1 DEF IsAhead, Listed, list, walk
<1> QED
  BY <1>1, <1>2 DEF AheadInv

LEMMA AheadPush ==
    ASSUME ListInv, PlaceInv, Walking, AheadInv, NEW c \in Conns, PushVal(c)
    PROVE  AheadInv'
<1>0. PICK n \in Nat : \E a \in [1..n -> Conns], V \in SUBSET Conns : IsAhead(a, n, V)
  BY DEF AheadInv
<1>1. PICK a \in [1..n -> Conns], V \in SUBSET Conns : IsAhead(a, n, V)
  BY <1>0
<1>2. PICK m : m = listLength
  OBVIOUS
<1>3. PICK s \in [1..m -> Conns] : IsChain(s)
  BY <1>2 DEF ListInv, ChainInv
<1>4. /\ listLength \in Nat /\ NULL \notin Conns
      /\ prev \in [Conns -> Conns \cup {NULL}]
      /\ place \in [Conns -> {"out", "accepted", "started", "listed", "pulled", "closed"}]
  BY NullAssumption DEF ListInv, TypeOK
<1>5. /\ place[c] = "started" /\ place' = [place EXCEPT ![c] = "listed"]
      /\ pushed' = pushed \cup {c} /\ pushed' # {}
      /\ UNCHANGED <<wpc, temp_line, i, pulled, eof>>
  BY DEF PushVal, walk
<1>6. \A k \in 1..n : a[k] # c /\ a[k] \in Conns
  BY <1>1, <1>5 DEF IsAhead, PlaceInv
<1>7. c \notin V
  BY <1>1, <1>5 DEF IsAhead, PlaceInv
<1>8. \A d \in Conns : d # c => place'[d] = place[d]
  BY <1>4, <1>5
<1>9. ASSUME \A k \in 1..n : prev'[a[k]] = prev[a[k]]
      PROVE  AheadInv'
  <2>1. IsAhead(a, n, V)'
    BY <1>1, <1>5, <1>6, <1>7, <1>8, <1>9, SMTT(30) DEF IsAhead
  <2> QED
    BY <2>1 DEF AheadInv
<1>10. CASE listLength = 0
  <2>1. prev' = [prev EXCEPT ![c] = NULL]
    BY <1>10 DEF PushVal
  <2> QED
    BY <1>4, <1>6, <1>9, <2>1
<1>11. CASE listLength # 0
  <2>1. prev' = [prev EXCEPT ![c] = NULL, ![last] = c]
    BY <1>11 DEF PushVal
  <2>2. last = s[listLength] /\ last \in Conns /\ last # c /\ prev[last] = NULL
    BY <1>2, <1>3, <1>4, <1>5, <1>11 DEF IsChain
  <2>3. /\ prev'[c] = NULL /\ prev'[last] = c
        /\ \A d \in Conns : d # c /\ d # last => prev'[d] = prev[d]
    BY <1>4, <2>1, <2>2
  <2>4. CASE n > 0 /\ last = a[n]
    <3> DEFINE t == With(a, n, c)
    <3>1. /\ t \in [1..(n + 1) -> Conns]
          /\ t[n + 1] = c /\ \A k \in 1..n : t[k] = a[k]
      BY DEF With
    <3> HIDE DEF t
    <3>2. \A j, k \in 1..(n + 1) : j # k => t[j] # t[k]
      BY <1>1, <1>6, <3>1 DEF IsAhead
    <3>3. \A k \in 1..(n + 1) : t[k] \notin V
      BY <1>1, <1>7, <3>1 DEF IsAhead
    <3>4. \A k \in 1..n : prev'[t[k]] = t[k + 1]
      <4> TAKE k \in 1..n
      <4>1. CASE k = n
        BY <2>3, <2>4, <3>1, <4>1
      <4>2. CASE k # n
        <5>1. a[k] # a[n] /\ k \in 1..(n - 1) /\ k + 1 \in 1..n
          BY <1>1, <4>2 DEF IsAhead
        <5>2. prev'[a[k]] = prev[a[k]] /\ prev[a[k]] = a[k + 1]
          BY <1>1, <1>6, <2>3, <2>4, <5>1 DEF IsAhead
        <5> QED
          BY <3>1, <5>1, <5>2
      <4> QED
        BY <4>1, <4>2
    <3>5. \A k \in 1..(n + 1) : t[k] \in pulled' \/ place'[t[k]] = "listed"
      BY <1>1, <1>4, <1>5, <1>6, <1>8, <3>1 DEF IsAhead
    <3>6. \A d \in V : d \in pulled' \/ (place'[d] = "listed" /\ d \in eof')
      BY <1>1, <1>5, <1>7, <1>8 DEF IsAhead
    <3>7. temp_line' = IF n + 1 = 0 THEN NULL ELSE t[1]
      BY <1>1, <1>5, <2>4, <3>1 DEF IsAhead
    <3>8. IsFiniteSet(V) /\ Cardinality(V) = i' /\ (wpc' = "next" => temp_line' \in eof' \cup pulled')
      BY <1>1, <1>5 DEF IsAhead
    <3>9. IsAhead(t, n + 1, V)'
      BY <1>5, <2>3, <3>1, <3>2, <3>3, <3>4, <3>5, <3>6, <3>7, <3>8 DEF IsAhead
    <3> QED
      BY <3>1, <3>9 DEF AheadInv
  <2>5. CASE ~ (n > 0 /\ last = a[n])
    <3>1. \A k \in 1..n : a[k] # last
      <4> TAKE k \in 1..n
      <4>1. CASE k = n
        BY <2>5, <4>1
      <4>2. CASE k # n
        <5>1. k \in 1..(n - 1) /\ k + 1 \in 1..n /\ prev[a[k]] = a[k + 1]
          BY <1>1, <4>2 DEF IsAhead
        <5> QED
          BY <1>4, <1>6, <2>2, <5>1
      <4> QED
        BY <4>1, <4>2
    <3> QED
      BY <1>6, <1>9, <2>3, <3>1
  <2> QED
    BY <2>4, <2>5
<1> QED
  BY <1>10, <1>11

LEMMA AheadPull ==
    ASSUME ListInv, PlaceInv, Walking, AheadInv, NEW c \in Conns, PullSpec(c)
    PROVE  AheadInv'
<1>0. PICK n \in Nat : \E a \in [1..n -> Conns], V \in SUBSET Conns : IsAhead(a, n, V)
  BY DEF AheadInv
<1>1. PICK a \in [1..n -> Conns], V \in SUBSET Conns : IsAhead(a, n, V)
  BY <1>0
<1>2. PICK m : m = listLength
  OBVIOUS
<1>3. PICK s \in [1..m -> Conns] : IsChain(s)
  BY <1>2 DEF ListInv, ChainInv
<1>4. /\ listLength \in Nat /\ NULL \notin Conns /\ TypeOK /\ OpenInv
      /\ prev \in [Conns -> Conns \cup {NULL}]
      /\ place \in [Conns -> {"out", "accepted", "started", "listed", "pulled", "closed"}]
  BY NullAssumption DEF ListInv, TypeOK
<1>5. /\ place[c] = "listed" /\ place' = [place EXCEPT ![c] = "pulled"]
      /\ pulled' = pulled \cup {c}
      /\ UNCHANGED <<wpc, temp_line, i, pushed, eof>>
  BY DEF PullSpec, walk
<1>6. PICK k \in 1..m : s[k] = c
  BY <1>2, <1>3, <1>5 DEF IsChain
<1>7. /\ k = 1 => prev' = prev
      /\ k # 1 => prev' = [prev EXCEPT ![s[k - 1]] = prev[c]]
  BY <1>2, <1>3, <1>4, <1>6, PullMovesAt
<1>8. /\ \A d \in Conns : d # c => place'[d] = place[d]
      /\ Listed' = Listed \ {c}
  BY <1>4, <1>5 DEF Listed
<1>9. \A d \in V : d \in pulled' \/ (place'[d] = "listed" /\ d \in eof')
  BY <1>1, <1>5, <1>8 DEF IsAhead
<1>10. \A j \in 1..n : a[j] \in Conns /\ (a[j] \in pulled' \/ place'[a[j]] = "listed")
  BY <1>1, <1>5, <1>8 DEF IsAhead
<1>11. ASSUME \A j \in 1..n : prev'[a[j]] = prev[a[j]]
       PROVE  AheadInv'
  <2>1. pushed' = {} => \A d \in Listed' : d \in V \/ \E j \in 1..n : a[j] = d
    BY <1>1, <1>5, <1>8 DEF IsAhead
  <2>2. /\ n > 0 => prev'[a[n]] = NULL
        /\ \A j \in 1..(n - 1) : prev'[a[j]] = a[j + 1]
    BY <1>1, <1>11 DEF IsAhead
  <2>3. IsAhead(a, n, V)'
    BY <1>1, <1>5, <1>9, <1>10, <2>1, <2>2 DEF IsAhead
  <2> QED
    BY <1>1, <2>3 DEF AheadInv
<1>12. CASE k = 1 \/ \A j \in 1..n : a[j] # s[k - 1]
  BY <1>4, <1>7, <1>10, <1>11, <1>12
<1>13. CASE k # 1 /\ \E j \in 1..n : a[j] = s[k - 1]
  <2>1. PICK j \in 1..n : a[j] = s[k - 1]
    BY <1>13
  <2>2. k - 1 \in 1..(listLength - 1) /\ (k - 1) + 1 = k
    BY <1>2, <1>4, <1>13
  <2>3. prev[a[j]] = c
    BY <1>3, <1>6, <2>1, <2>2 DEF IsChain
  <2>4. j # n
    BY <1>1, <1>4, <2>3 DEF IsAhead
  <2>5. j + 1 \in 1..n /\ a[j + 1] = c /\ j \in 1..(n - 1)
    BY <1>1, <2>3, <2>4 DEF IsAhead
  <2>6. /\ prev'[a[j]] = prev[c]
        /\ \A d \in Conns : d # a[j] => prev'[d] = prev[d]
    BY <1>4, <1>7, <1>10, <1>13, <2>1
  <2> DEFINE t == Without(a, n, j + 1)
  <2>7. /\ t \in [1..(n - 1) -> Conns]
        /\ \A x \in 1..(n - 1) : /\ x < j + 1 => t[x] = a[x]
                                 /\ x >= j + 1 => t[x] = a[x + 1]
        /\ \A x, y \in 1..(n - 1) : x # y => t[x] # t[y]
        /\ \A x \in 1..(n - 1) : t[x] # c /\ \E y \in 1..n : t[x] = a[y]
        /\ \A y \in 1..n : y = j + 1 \/ \E x \in 1..(n - 1) : t[x] = a[y]
    <3>1. \A x, y \in 1..n : x # y => a[x] # a[y]
      BY <1>1 DEF IsAhead
    <3>2. Skips(t, a, n, j + 1)
      BY <1>0, <1>1, <2>5, <3>1, WithoutOne
    <3> HIDE DEF t
    <3> QED
      BY <2>5, <3>2 DEF Skips
  <2> HIDE DEF t
  <2>8. \A x \in 1..((n - 1) - 1) : prev'[t[x]] = t[x + 1]
    <3> TAKE x \in 1..((n - 1) - 1)
    <3>1. x \in 1..(n - 1) /\ x + 1 \in 1..(n - 1) /\ x \in 1..n /\ x + 1 \in 1..n
      OBVIOUS
    <3>2. CASE x = j
      <4>1. t[x] = a[j] /\ t[x + 1] = a[(j + 1) + 1] /\ j + 1 \in 1..(n - 1)
        BY <2>7, <3>1, <3>2
      <4>2. prev[c] = a[(j + 1) + 1]
        BY <1>1, <2>5, <4>1 DEF IsAhead
      <4> QED
        BY <2>6, <4>1, <4>2
    <3>3. CASE x < j
      <4>1. t[x] = a[x] /\ t[x + 1] = a[x + 1] /\ a[x] # a[j]
        BY <1>1, <2>7, <3>1, <3>3 DEF IsAhead
      <4>2. prev'[a[x]] = a[x + 1]
        BY <1>1, <1>10, <2>6, <3>1, <4>1 DEF IsAhead
      <4> QED
        BY <4>1, <4>2
    <3>4. CASE x > j
      <4>0. x >= j + 1 /\ x + 1 >= j + 1 /\ x + 1 # j
        BY <3>4
      <4>1. t[x] = a[x + 1] /\ t[x + 1] = a[(x + 1) + 1] /\ a[x + 1] # a[j]
        BY <1>1, <2>7, <3>1, <4>0 DEF IsAhead
      <4>2. prev'[a[x + 1]] = a[(x + 1) + 1]
        BY <1>1, <1>10, <2>6, <3>1, <4>1 DEF IsAhead
      <4> QED
        BY <4>1, <4>2
    <3> QED
      BY <3>2, <3>3, <3>4
  <2>9. n - 1 > 0 /\ n - 1 \in Nat /\ t[1] = a[1] /\ prev'[t[n - 1]] = NULL
    <3>1. n - 1 \in 1..(n - 1) /\ 1 \in 1..(n - 1)
      BY <2>5
    <3>2. t[1] = a[1]
      BY <2>5, <2>7, <3>1
    <3>3. CASE j = n - 1
      <4>1. t[n - 1] = a[j] /\ j + 1 = n
        BY <2>7, <3>1, <3>3
      <4>2. prev[c] = NULL
        BY <1>1, <2>5, <4>1 DEF IsAhead
      <4> QED
        BY <2>5, <2>6, <3>1, <3>2, <4>1, <4>2
    <3>4. CASE j # n - 1
      <4>1. t[n - 1] = a[n] /\ a[n] # a[j] /\ prev[a[n]] = NULL /\ a[n] \in Conns
        BY <1>1, <1>10, <2>4, <2>5, <2>7, <3>1, <3>4 DEF IsAhead
      <4> QED
        BY <2>6, <3>1, <3>2, <4>1
    <3> QED
      BY <3>3, <3>4
  <2>10. /\ \A x \in 1..(n - 1) : t[x] \notin V
         /\ \A x \in 1..(n - 1) : t[x] \in pulled' \/ place'[t[x]] = "listed"
    BY <1>1, <1>10, <2>7 DEF IsAhead
  <2>11. pushed' = {} => \A d \in Listed' : d \in V \/ \E x \in 1..(n - 1) : t[x] = d
    <3> SUFFICES ASSUME pushed' = {}, NEW d \in Listed', d \notin V
                 PROVE  \E x \in 1..(n - 1) : t[x] = d
      OBVIOUS
    <3>1. d \in Listed /\ d # c /\ pushed = {}
      BY <1>5, <1>8
    <3>2. PICK y \in 1..n : a[y] = d
      BY <1>1, <3>1 DEF IsAhead
    <3>3. y # j + 1
      BY <2>5, <3>1, <3>2
    <3> QED
      BY <2>7, <3>2, <3>3
  <2>12. /\ IsFiniteSet(V) /\ Cardinality(V) = i'
         /\ temp_line' = t[1]
         /\ wpc' = "next" => temp_line' \in eof' \cup pulled'
    BY <1>1, <1>5, <2>9 DEF IsAhead
  <2>13. IsAhead(t, n - 1, V)'
    <3>1. n - 1 # 0 /\ (n - 1 > 0 => prev'[t[n - 1]] = NULL)
      BY <2>9
    <3>2. temp_line' = IF n - 1 = 0 THEN NULL ELSE t[1]
      BY <2>12, <3>1
    <3>3. \A x, y \in 1..(n - 1) : x # y => t[x] # t[y]
      BY <2>7
    <3>4. wpc' = "next" => n - 1 > 0
      BY <2>9
    <3>5. wpc' = "shut" /\ pushed' = {} => n - 1 > 0
      BY <2>9
    <3> QED
      BY <1>9, <2>8, <2>10, <2>11, <2>12, <3>1, <3>2, <3>3, <3>4, <3>5, Zenon DEF IsAhead
  <2> QED
    BY <2>7, <2>9, <2>13 DEF AheadInv
<1> QED
  BY <1>12, <1>13

LEMMA WalkBegins ==
    ASSUME ListInv, PlaceInv, WalkFirst, first # NULL
    PROVE  AheadInv'
<1>1. PICK n : n = listLength
  OBVIOUS
<1>2. PICK s \in [1..n -> Conns] : IsChain(s)
  BY <1>1 DEF ListInv, ChainInv
<1>3. /\ n \in Nat /\ n > 0
      /\ pushed = {} /\ pulled = {} /\ wpc' = "test"
      /\ temp_line' = first /\ i' = 0
      /\ UNCHANGED <<first, last, listLength, prev, place, eof, pushed, pulled>>
  BY <1>1, <1>2 DEF ListInv, TypeOK, WalkFirst, PlaceInv, IsChain, list
<1>4. IsFiniteSet({}) /\ Cardinality({}) = 0
  BY FS_EmptySet
<1>5. IsAhead(s, n, {})'
  BY <1>1, <1>2, <1>3, <1>4 DEF IsChain, IsAhead, Listed
<1> QED
  BY <1>2, <1>3, <1>5 DEF AheadInv

(* As long as nothing was pushed, the count ends the walk before its chain *)
(* does.                                                                   *)
LEMMA WalkGoesOn ==
    ASSUME ListInv, AheadInv, WalkTest
    PROVE  AheadInv'
<1>0. PICK n \in Nat : \E a \in [1..n -> Conns], V \in SUBSET Conns : IsAhead(a, n, V)
  BY DEF AheadInv
<1>1. PICK a \in [1..n -> Conns], V \in SUBSET Conns : IsAhead(a, n, V)
  BY <1>0
<1>2. /\ wpc' = IF i < listLength THEN "shut" ELSE "done"
      /\ UNCHANGED <<list, place, eof, temp_line, i, history>>
  BY DEF WalkTest
<1>3. ASSUME wpc' = "shut", pushed = {}, n = 0 PROVE FALSE
  <2>1. Listed \subseteq V
    BY <1>1, <1>3 DEF IsAhead
  <2>2. Cardinality(Listed) <= Cardinality(V)
    BY <1>1, <2>1, FS_Subset DEF IsAhead
  <2>3. i < listLength /\ listLength \in Nat /\ i \in Nat
    BY <1>2, <1>3 DEF ListInv, TypeOK
  <2>4. Cardinality(V) = i
    BY <1>1 DEF IsAhead
  <2> QED
    BY <2>2, <2>3, <2>4, ListedFinite
<1>4. IsAhead(a, n, V)'
  BY <1>1, <1>2, <1>3 DEF IsAhead, Listed, list, history
<1> QED
  BY <1>4 DEF AheadInv

LEMMA WalkWarns ==
    ASSUME ListInv, AheadInv, WalkShut
    PROVE  AheadInv'
<1>0. PICK n \in Nat : \E a \in [1..n -> Conns], V \in SUBSET Conns : IsAhead(a, n, V)
  BY DEF AheadInv
<1>1. PICK a \in [1..n -> Conns], V \in SUBSET Conns : IsAhead(a, n, V)
  BY <1>0
<1>2. /\ temp_line # NULL /\ wpc' = "next"
      /\ eof' = eof \cup {d \in Open : sck_val[d] = sck_val[temp_line]}
      /\ UNCHANGED <<list, place, temp_line, i, history>>
  BY DEF WalkShut
<1>3. n > 0 /\ temp_line = a[1] /\ temp_line \in Conns
  BY <1>1, <1>2 DEF IsAhead
<1>4. temp_line \in pulled \/ place[temp_line] = "listed"
  BY <1>1, <1>3 DEF IsAhead
<1>5. temp_line' \in eof' \cup pulled'
  BY <1>2, <1>3, <1>4 DEF Open, history
<1>6. IsAhead(a, n, V)'
  BY <1>1, <1>2, <1>3, <1>5 DEF IsAhead, Listed, list, history
<1> QED
  BY <1>6 DEF AheadInv

LEMMA WalkMoves ==
    ASSUME ListInv, AheadInv, WalkNext
    PROVE  AheadInv'
<1>0. PICK n \in Nat : \E a \in [1..n -> Conns], V \in SUBSET Conns : IsAhead(a, n, V)
  BY DEF AheadInv
<1>1. PICK a \in [1..n -> Conns], V \in SUBSET Conns : IsAhead(a, n, V)
  BY <1>0
<1>2. /\ wpc = "next" /\ wpc' = "test"
      /\ temp_line' = prev[temp_line] /\ i' = i + 1
      /\ UNCHANGED <<list, place, eof, history>>
  BY DEF WalkNext
<1>3. /\ n > 0 /\ temp_line = a[1] /\ temp_line \in Conns
      /\ temp_line \in eof \cup pulled
      /\ temp_line \in pulled \/ place[temp_line] = "listed"
  BY <1>1, <1>2 DEF IsAhead
<1> DEFINE t == Without(a, n, 1)
           W == V \cup {a[1]}
<1>4. /\ t \in [1..(n - 1) -> Conns]
      /\ \A x \in 1..(n - 1) : t[x] = a[x + 1]
      /\ \A x, y \in 1..(n - 1) : x # y => t[x] # t[y]
      /\ \A x \in 1..(n - 1) : t[x] # a[1] /\ \E y \in 1..n : t[x] = a[y]
      /\ \A y \in 1..n : y = 1 \/ \E x \in 1..(n - 1) : t[x] = a[y]
  <2>1. 1 \in 1..n /\ \A x \in 1..(n - 1) : x >= 1
    BY <1>3
  <2>2. \A x, y \in 1..n : x # y => a[x] # a[y]
    BY <1>1 DEF IsAhead
  <2>3. Skips(t, a, n, 1)
    BY <1>0, <1>1, <2>1, <2>2, WithoutOne
  <2> HIDE DEF t
  <2> QED
    BY <2>1, <2>3 DEF Skips
<1>5. IsFiniteSet(W) /\ Cardinality(W) = i + 1
  <2>1. IsFiniteSet(V) /\ Cardinality(V) = i /\ a[1] \notin V
    BY <1>1, <1>3 DEF IsAhead
  <2> QED
    BY <2>1, FS_AddElement
<1> HIDE DEF t
<1>6. \A x \in 1..(n - 1) : t[x] \notin W
  BY <1>1, <1>4 DEF IsAhead
<1>7. /\ temp_line' = IF n - 1 = 0 THEN NULL ELSE t[1]
      /\ n - 1 > 0 => prev[t[n - 1]] = NULL
  <2>1. CASE n = 1
    BY <1>1, <1>2, <1>3, <2>1 DEF IsAhead
  <2>2. CASE n # 1
    <3>1. /\ 1 \in 1..(n - 1) /\ n - 1 \in 1..(n - 1)
          /\ t[1] = a[1 + 1] /\ t[n - 1] = a[(n - 1) + 1] /\ (n - 1) + 1 = n
      BY <1>3, <1>4, <2>2
    <3>2. prev[a[1]] = a[1 + 1] /\ prev[a[n]] = NULL
      BY <1>1, <1>3, <3>1 DEF IsAhead
    <3> QED
      BY <1>2, <1>3, <3>1, <3>2
  <2> QED
    BY <2>1, <2>2
<1>8. \A x \in 1..((n - 1) - 1) : prev[t[x]] = t[x + 1]
  <2> TAKE x \in 1..((n - 1) - 1)
  <2>1. x \in 1..(n - 1) /\ x + 1 \in 1..(n - 1)
    OBVIOUS
  <2>2. t[x] = a[x + 1] /\ t[x + 1] = a[(x + 1) + 1]
    BY <1>4, <2>1
  <2> QED
    BY <1>1, <2>1, <2>2 DEF IsAhead
<1>9. /\ \A c \in W : c \in pulled \/ (place[c] = "listed" /\ c \in eof)
      /\ \A x \in 1..(n - 1) : t[x] \in pulled \/ place[t[x]] = "listed"
  BY <1>1, <1>3, <1>4 DEF IsAhead
<1>10. pushed = {} => \A c \in Listed : c \in W \/ \E x \in 1..(n - 1) : t[x] = c
  BY <1>1, <1>4 DEF IsAhead
<1>11. n - 1 \in Nat /\ W \in SUBSET Conns
  BY <1>3
<1> HIDE DEF W
<1>12. IsAhead(t, n - 1, W)'
  BY <1>2, <1>4, <1>5, <1>6, <1>7, <1>8, <1>9, <1>10 DEF IsAhead, Listed, list, history
<1> QED
  BY <1>4, <1>11, <1>12 DEF AheadInv

(* When the count ends the walk it has met as many nodes as are listed, so *)
(* that those it passed over are no more than those it met and that are    *)
(* gone.                                                                   *)
LEMMA WalkEnds ==
    ASSUME ListInv, PlaceInv, AheadInv, i >= listLength
    PROVE  IsFiniteSet(Unwarned) /\ Cardinality(Unwarned) <= Cardinality(pulled)
<1>0. PICK n \in Nat : \E a \in [1..n -> Conns], V \in SUBSET Conns : IsAhead(a, n, V)
  BY DEF AheadInv
<1>1. PICK a \in [1..n -> Conns], V \in SUBSET Conns : IsAhead(a, n, V)
  BY <1>0
<1>2. IsFiniteSet(V) /\ Cardinality(V) = i /\ V \subseteq (Listed \cap eof) \cup pulled
  BY <1>1 DEF IsAhead, Listed
<1>3. IsFiniteSet(Listed) /\ Cardinality(Listed) = listLength
  BY ListedFinite
<1>4. IsFiniteSet(pulled) /\ i \in Nat /\ listLength \in Nat /\ atStart \subseteq Conns
  BY DEF PlaceInv, ListInv, TypeOK
<1> DEFINE E == Listed \cap eof
           P == pulled
<1>5. /\ IsFiniteSet(E) /\ Cardinality(E) \in Nat
      /\ IsFiniteSet(Listed \ E) /\ Cardinality(Listed \ E) = Cardinality(Listed) - Cardinality(E)
  <2>1. E \in SUBSET Listed /\ Listed \cap E = E
    OBVIOUS
  <2>2. IsFiniteSet(E)
    BY <1>3, <2>1, FS_Subset
  <2> QED
    BY <1>3, <2>1, <2>2, FS_Difference, FS_CardinalityType
<1>6. /\ IsFiniteSet(E \cup P) /\ Cardinality(E \cup P) <= Cardinality(E) + Cardinality(P)
      /\ Cardinality(P) \in Nat /\ Cardinality(E \cup P) \in Nat
  <2>1. IsFiniteSet(E) /\ IsFiniteSet(P)
    BY <1>4, <1>5
  <2> HIDE DEF E, P
  <2>2. /\ IsFiniteSet(E \cup P)
        /\ Cardinality(E \cup P) = Cardinality(E) + Cardinality(P) - Cardinality(E \cap P)
    BY <2>1, FS_Union
  <2>3. IsFiniteSet(E \cap P)
    <3>1. E \cap P \in SUBSET E
      OBVIOUS
    <3> QED
      BY <2>1, <3>1, FS_Subset
  <2>4. Cardinality(E) \in Nat /\ Cardinality(P) \in Nat /\ Cardinality(E \cap P) \in Nat
    BY <2>1, <2>3, FS_CardinalityType
  <2>5. Cardinality(E \cup P) \in Nat
    BY <2>2, FS_CardinalityType
  <2>6. \A p, e, x \in Nat : e + p - x <= e + p
    OBVIOUS
  <2> QED
    BY <2>2, <2>4, <2>5, <2>6
<1>7. Cardinality(V) <= Cardinality(E \cup P)
  BY <1>2, <1>6, FS_Subset
<1>8. IsFiniteSet(Unwarned) /\ Cardinality(Unwarned) <= Cardinality(Listed \ E)
  <2>1. Unwarned \in SUBSET (Listed \ E)
    BY <1>4 DEF Unwarned, Listed
  <2> QED
    BY <1>5, <2>1, FS_Subset
<1>9. Cardinality(Unwarned) \in Nat /\ Cardinality(Listed \ E) \in Nat
  BY <1>5, <1>8, FS_CardinalityType
<1> QED
  BY <1>2, <1>3, <1>4, <1>5, <1>6, <1>7, <1>8, <1>9

LEMMA WalkStep == ListInv /\ WalkInv /\ [Next]_vars => WalkInv'
<1> SUFFICES ASSUME ListInv, WalkInv, [Next]_vars PROVE WalkInv'
  OBVIOUS
<1>1. PlaceInv /\ PlaceInv' /\ TypeOK
  BY PlaceStep DEF WalkInv, ListInv
<1> DEFINE DoneInv == wpc = "done" =>
                        IsFiniteSet(Unwarned) /\ Cardinality(Unwarned) <= Cardinality(pulled)
           CrashInv == wpc = "crashed" => pushed # {}
           AllInv == (Walking => AheadInv) /\ DoneInv /\ CrashInv
  (* Nobody who was not passed over at the end of the walk is so later. *)
<1>2. ASSUME UNCHANGED <<wpc, atStart, pulled>>, pushed \subseteq pushed', eof \subseteq eof',
             \A c \in atStart : place'[c] = "listed" => place[c] = "listed"
      PROVE  DoneInv' /\ CrashInv'
  <2>1. Unwarned' \in SUBSET Unwarned
    BY <1>2 DEF Unwarned
  <2>2. wpc = "done" => IsFiniteSet(Unwarned') /\ Cardinality(Unwarned') <= Cardinality(Unwarned)
    BY <2>1, FS_Subset DEF WalkInv
  <2>3. wpc = "done" => Cardinality(pulled) \in Nat /\ Cardinality(Unwarned) \in Nat
                        /\ Cardinality(Unwarned') \in Nat
    BY <1>1, <2>2, FS_CardinalityType DEF WalkInv, PlaceInv
  <2>4. DoneInv'
    <3> SUFFICES ASSUME wpc' = "done"
                 PROVE  IsFiniteSet(Unwarned') /\ Cardinality(Unwarned') <= Cardinality(pulled')
      OBVIOUS
    <3>1. wpc = "done" /\ pulled' = pulled
      BY <1>2
    <3>2. Cardinality(Unwarned) <= Cardinality(pulled)
      BY <3>1 DEF WalkInv
    <3> QED
      BY <2>2, <2>3, <3>1, <3>2
  <2> QED
    <3>1. CrashInv'
      BY <1>2 DEF WalkInv
    <3> HIDE DEF DoneInv, CrashInv
    <3> QED
      BY <2>4, <3>1
<1>3. ASSUME NEW c \in Conns, Accept(c) \/ ClientLeaves(c) \/ Start(c) \/ Close(c) PROVE AllInv'
  <2>1. /\ UNCHANGED <<list, wpc, temp_line, i, atStart, pulled, pushed>> /\ eof \subseteq eof'
        /\ \A d \in Conns : place'[d] = "listed" <=> place[d] = "listed"
    BY <1>1, <1>3 DEF Accept, ClientLeaves, Start, Close, TypeOK, walk, history
  <2>2. DoneInv' /\ CrashInv'
    BY <1>1, <1>2, <2>1 DEF TypeOK
  <2>3. Walking' => AheadInv'
    BY <2>1, AheadQuiet DEF Walking, WalkInv, walk
  <2> QED
    BY <2>2, <2>3
<1>4. ASSUME NEW c \in Conns, PushVal(c), wpc # "crashed" PROVE AllInv'
  <2>1. /\ UNCHANGED <<wpc, atStart, pulled, eof>>
        /\ place[c] = "started" /\ place' = [place EXCEPT ![c] = "listed"]
        /\ pushed \subseteq pushed'
    BY <1>4 DEF PushVal, walk
  <2>2. \A d \in atStart : place'[d] = "listed" => place[d] = "listed"
    BY <1>1, <2>1 DEF TypeOK, PlaceInv
  <2>3. DoneInv' /\ CrashInv'
    BY <1>2, <1>4, <2>1, <2>2
  <2>4. Walking' => AheadInv'
    BY <1>1, <1>4, <2>1, AheadPush DEF Walking, WalkInv
  <2> QED
    BY <2>3, <2>4
<1>5. ASSUME NEW c \in Conns, PullSpec(c), wpc # "crashed" PROVE AllInv'
  <2>1. /\ UNCHANGED <<wpc, atStart, pushed, eof>>
        /\ place[c] = "listed" /\ place' = [place EXCEPT ![c] = "pulled"]
        /\ wpc = "done" => pulled' = pulled
    BY <1>5 DEF PullSpec, walk, Walking
  <2>2. \A d \in atStart : place'[d] = "listed" => place[d] = "listed"
    BY <1>1, <2>1 DEF TypeOK
  <2>3. DoneInv' /\ CrashInv'
    <3>1. CASE wpc = "done"
      BY <1>2, <2>1, <2>2, <3>1
    <3>2. CASE wpc # "done"
      BY <1>5, <2>1, <3>2
    <3> QED
      BY <3>1, <3>2
  <2>4. Walking' => AheadInv'
    BY <1>1, <1>5, <2>1, AheadPull DEF Walking, WalkInv
  <2> QED
    BY <2>3, <2>4
<1>6. ASSUME StopListening PROVE AllInv'
  BY <1>6 DEF StopListening, Walking
<1>7. ASSUME WalkFirst PROVE AllInv'
  <2>1. CASE first # NULL
    <3>1. wpc' = "test"
      BY <1>7, <2>1 DEF WalkFirst
    <3> QED
      BY <1>1, <1>7, <2>1, <3>1, WalkBegins
  <2>2. CASE first = NULL
    <3>1. wpc' = "done" /\ UNCHANGED <<place, eof, pulled>>
      BY <1>7, <2>2 DEF WalkFirst
    <3>2. listLength = 0
      <4>1. PICK s \in [1..listLength -> Conns] : IsChain(s)
        BY DEF ListInv, ChainInv
      <4>2. listLength > 0 => s[1] \in Conns
        BY <1>1 DEF TypeOK
      <4> QED
        BY <1>1, <2>2, <4>1, <4>2, NullAssumption DEF IsChain, TypeOK
    <3>3. Listed = {}
      BY <3>2, ListedFinite, FS_EmptySet
    <3>4. Unwarned' = {}
      BY <1>7, <3>1, <3>3 DEF Unwarned, Listed, WalkFirst
    <3>5. Cardinality(pulled) \in Nat
      BY <1>1, FS_CardinalityType DEF PlaceInv
    <3>6. IsFiniteSet({}) /\ Cardinality({}) = 0
      BY FS_EmptySet
    <3>7. DoneInv'
      BY <3>1, <3>4, <3>5, <3>6
    <3> QED
      BY <3>1, <3>7 DEF Walking
  <2> QED
    BY <2>1, <2>2
<1>8. ASSUME WalkTest PROVE AllInv'
  <2>1. /\ wpc = "test" /\ wpc' = IF i < listLength THEN "shut" ELSE "done"
        /\ UNCHANGED <<place, eof, atStart, pulled>>
    BY <1>8 DEF WalkTest, history
  <2>2. AheadInv
    BY <2>1 DEF WalkInv, Walking
  <2>3. AheadInv'
    BY <1>8, <2>2, WalkGoesOn
  <2>4. wpc' = "done" => i >= listLength
    BY <1>1, <2>1 DEF TypeOK
  <2>5. Unwarned' = Unwarned
    BY <2>1 DEF Unwarned
  <2>6. DoneInv'
    BY <1>1, <2>1, <2>2, <2>4, <2>5, WalkEnds
  <2> QED
    BY <2>1, <2>3, <2>6
<1>9. ASSUME WalkShut \/ WalkNext PROVE AllInv'
  <2>1. AheadInv /\ wpc' \in {"next", "test"}
    BY <1>9 DEF WalkShut, WalkNext, WalkInv, Walking
  <2> QED
    BY <1>9, <2>1, WalkWarns, WalkMoves
<1>10. ASSUME WalkCrash PROVE AllInv'
  <2>1. wpc = "shut" /\ temp_line = NULL /\ wpc' = "crashed" /\ pushed' = pushed /\ AheadInv
    BY <1>10 DEF WalkCrash, history, WalkInv, Walking
  <2>2a. PICK n \in Nat : \E a \in [1..n -> Conns], V \in SUBSET Conns : IsAhead(a, n, V)
    BY <2>1 DEF AheadInv
  <2>2. PICK a \in [1..n -> Conns], V \in SUBSET Conns : IsAhead(a, n, V)
    BY <2>2a
  <2>3. pushed # {}
    BY <2>1, <2>2, NullAssumption DEF IsAhead
  <2> QED
    BY <2>1, <2>3 DEF Walking
<1>11. ASSUME UNCHANGED vars PROVE AllInv'
  <2>1. /\ UNCHANGED <<list, wpc, temp_line, i, atStart, pulled, pushed, eof, place>>
    BY <1>11 DEF vars, list
  <2>2. DoneInv' /\ CrashInv'
    BY <1>2, <2>1
  <2>3. Walking' => AheadInv'
    BY <2>1, AheadQuiet DEF Walking, WalkInv, walk
  <2> QED
    BY <2>2, <2>3
<1>12. AllInv'
  BY <1>3, <1>4, <1>5, <1>6, <1>7, <1>8, <1>9, <1>10, <1>11 DEF Next, Session, Walk
<1> QED
  BY <1>1, <1>12 DEF WalkInv

(* linkedList.cc:198-215, bbserv.cc:72-78: the walk reads the list while   *)
(* sessions change it; it passes over no more clients of before than leave *)
(* during it, and follows a null pointer only if a session was begun.      *)
THEOREM WalkIsBounded == Spec => []WalkBounded
<1>1. Init => WalkInv
  <2> SUFFICES ASSUME Init PROVE WalkInv
    OBVIOUS
  <2>1. IsFiniteSet({})
    BY FS_EmptySet
  <2> QED
    BY <2>1 DEF Init, WalkInv, PlaceInv, Walking
<1>2. WalkInv => WalkBounded
  BY DEF WalkInv, WalkBounded, Unwarned
<1> QED
  BY <1>1, <1>2, ListInit, ListStep, WalkStep, PTL DEF Spec
=============================================================================
