------------------------ MODULE NotifyServiceProofs ------------------------
(***************************************************************************)
(* What every subclass of NetConnection may rely on: proofs about          *)
(* NotifyService that the proofs of those built on it cite, and of         *)
(* recursion up to a number, which is how these work off a packet.         *)
(***************************************************************************)
EXTENDS NotifyService, TLAPS, NaturalsInduction, WellFoundedInduction

LEMMA ServiceInitInv == ServiceInit => ServiceInv
BY ServiceAssumption DEF ServiceInit, ServiceInv

LEMMA WriteInv ==
  ASSUME ServiceInv, Write
  PROVE  ServiceInv' /\ sent' = sent + 1 /\ sent' \in Nat
BY DEF Write, ServiceInv

LEMMA ReadInv ==
  ASSUME ServiceInv, NEW k \in (floor + 1) .. sent, Read(k)
  PROVE  /\ ServiceInv' /\ k \notin read /\ k > notified /\ k \in Nat
         /\ read' = read \cup {k}
BY DEF Read, ServiceInv

LEMMA SkipInv ==
  ASSUME ServiceInv, NEW k \in (floor + 1) .. sent, Skip(k)
  PROVE  ServiceInv'
BY DEF Skip, ServiceInv

\* The next packet is notified as it was: received if it was read, and, on a
\* faithful service, only then.
LEMMA NotifyInv ==
  ASSUME ServiceInv, Notify(notified + 1)
  PROVE  /\ ServiceInv'
         /\ notified' = notified + 1 /\ notified + 1 <= floor
         /\ Faithful => (notified + 1 \in received' => notified + 1 \in read)
         /\ notified + 1 \in dropped' => notified + 1 \notin read
         /\ notified + 1 \in received' \/ notified + 1 \in dropped'
<1> DEFINE n == notified + 1
           New == n .. n
<1>1. PICK acks \in SUBSET New :
        /\ read \cap New \subseteq acks
        /\ Faithful => acks \subseteq read
        /\ received' = received \cup acks
        /\ dropped' = dropped \cup (New \ acks)
  BY DEF Notify
<1>2. /\ n \in Nat /\ n <= floor /\ notified' = n /\ New = {n}
      /\ UNCHANGED <<sent, floor, read>>
      /\ n \notin (First + 1) .. notified
      /\ (First + 1) .. n = ((First + 1) .. notified) \cup {n}
  BY DEF ServiceInv, Notify
<1> HIDE DEF New
<1>3. n \notin received /\ n \notin dropped
  BY <1>2 DEF ServiceInv
<1> DEFINE Old == (First + 1) .. notified
<1>4. (First + 1) .. notified' = Old \cup {n}
  BY <1>2
<1>5. /\ received \cup dropped = Old /\ received \cap dropped = {}
      /\ read \cap Old \subseteq received
      /\ Faithful => received \subseteq read
  BY DEF ServiceInv
<1>6. /\ First <= notified' /\ notified' <= floor' /\ floor' <= sent'
      /\ First \in Nat /\ notified' \in Nat /\ floor' \in Nat /\ sent' \in Nat
      /\ read' \subseteq (First + 1) .. floor'
  BY <1>2 DEF ServiceInv
<1>7. ServiceInv'
  <2> HIDE DEF Old, n
  <2>1. /\ received' \cup dropped' = (First + 1) .. notified'
        /\ received' \cap dropped' = {}
    BY ZenonT(40), <1>1, <1>2, <1>3, <1>4, <1>5
  <2>2. read' \cap ((First + 1) .. notified') \subseteq received'
    BY <1>1, <1>2, <1>4, <1>5
  <2>3. Faithful => received' \subseteq read'
    BY <1>1, <1>2, <1>5
  <2> QED BY <1>6, <2>1, <2>2, <2>3 DEF ServiceInv
<1> QED BY <1>1, <1>2, <1>3, <1>7

LEMMA CloseInv == ASSUME ServiceInv, Close PROVE ServiceInv'
BY DEF Close, ServiceInv

\* Packets are notified in the order of writing, each once, as received if it was
\* read and, unless news of packets overtakes them, only if it was.
THEOREM ServiceCorrect == ServiceSpec => []ServiceInv
<1>1. ServiceInv /\ [ServiceNext]_serviceVars => ServiceInv'
  <2> SUFFICES ASSUME ServiceInv, [ServiceNext]_serviceVars PROVE ServiceInv'
    OBVIOUS
  <2>1. ASSUME NEW k \in (notified + 1) .. floor, Notify(k) PROVE ServiceInv'
    <3>1. PICK acks \in SUBSET ((notified + 1) .. k) :
            /\ read \cap ((notified + 1) .. k) \subseteq acks
            /\ Faithful => acks \subseteq read
            /\ received' = received \cup acks
            /\ dropped' = dropped \cup (((notified + 1) .. k) \ acks)
      BY <2>1 DEF Notify
    <3>2. /\ k \in Nat /\ k <= floor /\ notified' = k /\ First <= notified
          /\ UNCHANGED <<sent, floor, read>>
          /\ (First + 1) .. k = ((First + 1) .. notified) \cup ((notified + 1) .. k)
          /\ ((First + 1) .. notified) \cap ((notified + 1) .. k) = {}
      BY <2>1 DEF ServiceInv, Notify
    <3>3. First <= notified' /\ notified' <= floor'
      BY <3>2 DEF ServiceInv
    <3> QED BY <3>1, <3>2, <3>3 DEF ServiceInv
  <2>2. CASE UNCHANGED serviceVars
    BY <2>2 DEF serviceVars, ServiceInv
  <2> QED BY <2>1, <2>2, WriteInv, ReadInv, SkipInv, CloseInv DEF ServiceNext
<1> QED BY <1>1, ServiceInitInv, PTL DEF ServiceSpec

-----------------------------------------------------------------------------
(* Numbers, and functions defined by recursion up to a number.             *)

Less == OpToRel(<, Nat)

LEMMA LessWellFounded == IsWellFoundedOn(Less, Nat)
BY Zenon, NatLessThanWellFounded DEF Less

LEMMA LessPairs == \A x, y \in Nat : <<x, y>> \in Less <=> x < y
<1>1. Less = {ss \in Nat \X Nat : ss[1] < ss[2]}
  BY Zenon DEF Less, OpToRel
<1> QED BY <1>1

LEMMA LeastExists ==
  ASSUME NEW S \in SUBSET Nat, S # {}
  PROVE  \E m \in S : \A k \in S : m <= k
<1>1. PICK m \in S : \A k \in S : ~(<<k, m>> \in Less)
  BY LessWellFounded, WFMin, Zenon
<1>2. \A k \in S : ~(k < m)
  BY <1>1, LessPairs
<1> QED BY <1>2

LEMMA UpTo ==
  ASSUME NEW n \in Nat, NEW S, 0 \in S, \A i \in 1 .. n : i - 1 \in S => i \in S
  PROVE  \A i \in 0 .. n : i \in S
<1> DEFINE T == {i \in 0 .. n : i \notin S}
<1> SUFFICES ASSUME T # {} PROVE FALSE
  OBVIOUS
<1>1. PICK m \in T : \A k \in T : m <= k
  <2>1. T \in SUBSET Nat
    OBVIOUS
  <2> QED BY <2>1, LeastExists, Zenon
<1>2. m \in 1 .. n /\ m - 1 \in 0 .. n /\ m \notin S
  OBVIOUS
<1>3. m - 1 \in S
  BY <1>1, <1>2
<1> QED BY <1>2, <1>3

\* The steps of a recursion on 0 .. n, and its function.
Steps(n, S) == [1 .. n -> [S -> S]]
Recurses(q, n, S, base, F) ==
    /\ q \in [0 .. n -> S] /\ q[0] = base
    /\ \A i \in 1 .. n : q[i] = F[i][q[i - 1]]

\* A function defined by recursion on 0 .. n exists.
LEMMA RecursionExists ==
  ASSUME NEW n \in Nat, NEW S, NEW base \in S, NEW F \in Steps(n, S)
  PROVE  \E q : Recurses(q, n, S, base, F)
<1> DEFINE Ok(q, m) == /\ q \in [0 .. m -> S] /\ q[0] = base
                       /\ \A i \in 1 .. m : q[i] = F[i][q[i - 1]]
           T == {m \in 0 .. n : \E q : Ok(q, m)}
<1>0. F \in [1 .. n -> [S -> S]]
  BY DEF Steps
<1>1. 0 \in T
  <2> DEFINE r == [i \in 0 .. 0 |-> base]
  <2>1. r \in [0 .. 0 -> S] /\ r[0] = base
    OBVIOUS
  <2>2. \A i \in 1 .. 0 : r[i] = F[i][r[i - 1]]
    OBVIOUS
  <2> HIDE DEF r
  <2>3. Ok(r, 0) /\ 0 \in 0 .. n
    BY <2>1, <2>2
  <2> QED BY <2>3, Zenon
<1>2. ASSUME NEW m \in 1 .. n, m - 1 \in T PROVE m \in T
  <2>1. PICK q : Ok(q, m - 1)
    BY <1>2
  <2> DEFINE r == [i \in 0 .. m |-> IF i = m THEN F[m][q[m - 1]] ELSE q[i]]
  <2>2. q[m - 1] \in S /\ F[m][q[m - 1]] \in S
    BY <1>0, <2>1
  <2>3. r \in [0 .. m -> S] /\ r[0] = base
    BY <2>1, <2>2
  <2>4. ASSUME NEW i \in 1 .. m PROVE r[i] = F[i][r[i - 1]]
    <3>1. CASE i = m
      BY <2>1, <3>1
    <3>2. CASE i # m
      BY <2>1, <3>2
    <3> QED BY <3>1, <3>2
  <2>5. Ok(r, m)
    BY <2>3, <2>4
  <2> HIDE DEF Ok, r
  <2> QED BY <2>5
<1> HIDE DEF T
<1>3. \A m \in 0 .. n : m \in T
  BY <1>1, <1>2, UpTo
<1>4. PICK q : Ok(q, n)
  BY <1>3 DEF T
<1> QED BY <1>4, Zenon DEF Recurses
=============================================================================
