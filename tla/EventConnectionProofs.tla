----------------------- MODULE EventConnectionProofs -----------------------
(***************************************************************************)
(* Proofs about EventConnection, on a service that notifies nothing as     *)
(* received that was not read: EventIInv is an invariant, and with it the  *)
(* safety properties of the runs.                                          *)
(*                                                                         *)
(* The first lemmas are about lists: how they are split, extended and      *)
(* inserted into, and what the walks of packetDropped and readPacket make  *)
(* of them.  Each action is then treated for the ordered and for the       *)
(* unordered events on its own.                                            *)
(***************************************************************************)
EXTENDS EventConnection, NotifyServiceProofs

-----------------------------------------------------------------------------
(* Lists.                                                                  *)

LEMMA ListElements ==
  ASSUME NEW S, NEW s \in Seq(S)
  PROVE  /\ Len(s) \in Nat /\ DOMAIN s = 1 .. Len(s)
         /\ \A i \in DOMAIN s : s[i] \in S /\ s[i] \in ToSet(s)
         /\ \A x \in ToSet(s) : x \in S /\ \E i \in DOMAIN s : s[i] = x
BY DEF ToSet

LEMMA AppendElements ==
  ASSUME NEW S, NEW s \in Seq(S), NEW x \in S
  PROVE  /\ Append(s, x) \in Seq(S)
         /\ DOMAIN Append(s, x) = 1 .. (Len(s) + 1)
         /\ \A i \in DOMAIN s : Append(s, x)[i] = s[i]
         /\ Append(s, x)[Len(s) + 1] = x
         /\ ToSet(Append(s, x)) = ToSet(s) \cup {x}
<1> DEFINE t == Append(s, x)
<1>1. /\ t \in Seq(S) /\ DOMAIN t = 1 .. (Len(s) + 1) /\ Len(s) \in Nat
      /\ DOMAIN s = 1 .. Len(s)
      /\ \A i \in DOMAIN s : t[i] = s[i]
      /\ t[Len(s) + 1] = x
  OBVIOUS
<1> HIDE DEF t
<1>2. ToSet(t) = ToSet(s) \cup {x}
  BY <1>1 DEF ToSet
<1> QED BY <1>1, <1>2 DEF t

LEMMA ConcatElements ==
  ASSUME NEW S, NEW s \in Seq(S), NEW t \in Seq(S)
  PROVE  /\ s \o t \in Seq(S)
         /\ Len(s \o t) = Len(s) + Len(t)
         /\ DOMAIN (s \o t) = 1 .. (Len(s) + Len(t))
         /\ \A i \in DOMAIN s : (s \o t)[i] = s[i]
         /\ \A i \in DOMAIN t : (s \o t)[Len(s) + i] = t[i]
         /\ \A i \in (Len(s) + 1) .. (Len(s) + Len(t)) :
              i - Len(s) \in DOMAIN t /\ (s \o t)[i] = t[i - Len(s)]
         /\ ToSet(s \o t) = ToSet(s) \cup ToSet(t)
<1> DEFINE u == s \o t
<1>1. /\ u \in Seq(S) /\ Len(u) = Len(s) + Len(t) /\ DOMAIN u = 1 .. (Len(s) + Len(t))
      /\ Len(s) \in Nat /\ Len(t) \in Nat
      /\ DOMAIN s = 1 .. Len(s) /\ DOMAIN t = 1 .. Len(t)
      /\ \A i \in DOMAIN s : u[i] = s[i]
      /\ \A i \in (Len(s) + 1) .. (Len(s) + Len(t)) : u[i] = t[i - Len(s)]
  OBVIOUS
<1> HIDE DEF u
<1>2. \A i \in DOMAIN t : u[Len(s) + i] = t[i]
  BY <1>1
<1>3. \A i \in (Len(s) + 1) .. (Len(s) + Len(t)) : i - Len(s) \in DOMAIN t
  BY <1>1
<1>4. ToSet(u) \subseteq ToSet(s) \cup ToSet(t)
  <2> SUFFICES ASSUME NEW i \in DOMAIN u PROVE u[i] \in ToSet(s) \cup ToSet(t)
    BY DEF ToSet
  <2>1. CASE i \in DOMAIN s
    BY <1>1, <2>1 DEF ToSet
  <2>2. CASE i \in (Len(s) + 1) .. (Len(s) + Len(t))
    BY <1>1, <1>3, <2>2 DEF ToSet
  <2> QED BY <1>1, <2>1, <2>2
<1>5. ToSet(s) \subseteq ToSet(u)
  BY <1>1 DEF ToSet
<1>6. ToSet(t) \subseteq ToSet(u)
  <2> SUFFICES ASSUME NEW i \in DOMAIN t PROVE t[i] \in ToSet(u)
    BY DEF ToSet
  <2>1. Len(s) + i \in DOMAIN u
    BY <1>1
  <2> QED BY <1>2, <2>1 DEF ToSet
<1> QED BY <1>1, <1>2, <1>3, <1>4, <1>5, <1>6 DEF u

LEMMA SplitElements ==
  ASSUME NEW S, NEW s \in Seq(S), NEW k \in 0 .. Len(s)
  PROVE  /\ Initial(s, k) \in Seq(S) /\ Len(Initial(s, k)) = k
         /\ DOMAIN Initial(s, k) = 1 .. k
         /\ \A i \in DOMAIN Initial(s, k) : i \in DOMAIN s /\ Initial(s, k)[i] = s[i]
         /\ Remaining(s, k) \in Seq(S) /\ Len(Remaining(s, k)) = Len(s) - k
         /\ DOMAIN Remaining(s, k) = 1 .. (Len(s) - k)
         /\ \A i \in DOMAIN Remaining(s, k) :
              k + i \in DOMAIN s /\ Remaining(s, k)[i] = s[k + i]
         /\ ToSet(s) = ToSet(Initial(s, k)) \cup ToSet(Remaining(s, k))
<1> DEFINE a == Initial(s, k)
           b == Remaining(s, k)
<1>0. Len(s) \in Nat /\ k \in Nat /\ k <= Len(s) /\ DOMAIN s = 1 .. Len(s)
  OBVIOUS
<1>1. /\ a \in Seq(S) /\ Len(a) = k /\ DOMAIN a = 1 .. k
      /\ \A i \in DOMAIN a : i \in DOMAIN s /\ a[i] = s[i]
  BY DEF Initial
<1>2. /\ b \in Seq(S) /\ Len(b) = Len(s) - k /\ DOMAIN b = 1 .. (Len(s) - k)
      /\ \A i \in DOMAIN b : k + i \in DOMAIN s /\ b[i] = s[k + i]
  BY DEF Remaining
<1> HIDE DEF a, b
<1>3. \A i \in DOMAIN s : i \in DOMAIN a \/ i - k \in DOMAIN b
  BY <1>0, <1>1, <1>2
<1>4. ToSet(s) \subseteq ToSet(a) \cup ToSet(b)
  <2> SUFFICES ASSUME NEW i \in DOMAIN s PROVE s[i] \in ToSet(a) \cup ToSet(b)
    BY DEF ToSet
  <2>1. CASE i \in DOMAIN a
    BY <1>1, <2>1 DEF ToSet
  <2>2. CASE i - k \in DOMAIN b
    <3>1. b[i - k] = s[i]
      BY <1>0, <1>2, <2>2
    <3> QED BY <2>2, <3>1 DEF ToSet
  <2> QED BY <1>3, <2>1, <2>2
<1>5. ToSet(a) \subseteq ToSet(s) /\ ToSet(b) \subseteq ToSet(s)
  BY <1>1, <1>2 DEF ToSet
<1> QED BY <1>1, <1>2, <1>4, <1>5 DEF a, b

\* The list t is s with x after its first p elements.
IsInsertion(t, s, p, x) ==
    /\ Len(t) = Len(s) + 1 /\ DOMAIN t = 1 .. (Len(s) + 1)
    /\ \A i \in 1 .. p : t[i] = s[i]
    /\ t[p + 1] = x
    /\ \A i \in (p + 2) .. (Len(s) + 1) : t[i] = s[i - 1]
    /\ ToSet(t) = ToSet(s) \cup {x}

LEMMA InsertElements ==
  ASSUME NEW S, NEW s \in Seq(S), NEW p \in 0 .. Len(s), NEW x \in S
  PROVE  /\ InsertedAfter(s, p, x) \in Seq(S)
         /\ IsInsertion(InsertedAfter(s, p, x), s, p, x)
<1> DEFINE a == Initial(s, p)
           b == Remaining(s, p)
           c == a \o <<x>>
<1>1. /\ a \in Seq(S) /\ Len(a) = p /\ DOMAIN a = 1 .. p
      /\ \A i \in DOMAIN a : i \in DOMAIN s /\ a[i] = s[i]
      /\ b \in Seq(S) /\ Len(b) = Len(s) - p /\ DOMAIN b = 1 .. (Len(s) - p)
      /\ \A i \in DOMAIN b : p + i \in DOMAIN s /\ b[i] = s[p + i]
      /\ ToSet(s) = ToSet(a) \cup ToSet(b)
  BY SplitElements
<1> HIDE DEF a, b
<1>2. <<x>> \in Seq(S) /\ DOMAIN <<x>> = 1 .. 1 /\ Len(<<x>>) = 1 /\ <<x>>[1] = x
      /\ ToSet(<<x>>) = {x}
  BY DEF ToSet
<1>3. /\ c \in Seq(S) /\ Len(c) = p + 1 /\ DOMAIN c = 1 .. (p + 1)
      /\ \A i \in 1 .. p : c[i] = a[i]
      /\ c[p + 1] = x
      /\ ToSet(c) = ToSet(a) \cup {x}
  <2> DEFINE o == <<x>>
  <2> HIDE DEF o
  <2>0. a \in Seq(S) /\ o \in Seq(S)
    BY <1>1, <1>2 DEF o
  <2>1. /\ a \o o \in Seq(S)
        /\ Len(a \o o) = Len(a) + Len(o)
        /\ DOMAIN (a \o o) = 1 .. (Len(a) + Len(o))
        /\ \A i \in DOMAIN a : (a \o o)[i] = a[i]
        /\ \A i \in DOMAIN o : (a \o o)[Len(a) + i] = o[i]
        /\ ToSet(a \o o) = ToSet(a) \cup ToSet(o)
    BY <2>0, ConcatElements
  <2>2. c = a \o o
    BY DEF o
  <2>3. Len(o) = 1 /\ o[1] = x /\ ToSet(o) = {x} /\ DOMAIN o = 1 .. 1
    BY <1>2 DEF o
  <2> HIDE DEF c
  <2> QED BY <1>1, <2>1, <2>2, <2>3
<1> DEFINE t == c \o b
<1> HIDE DEF c
<1>4. /\ t \in Seq(S) /\ Len(t) = Len(c) + Len(b) /\ DOMAIN t = 1 .. (Len(c) + Len(b))
      /\ \A i \in DOMAIN c : t[i] = c[i]
      /\ \A i \in (Len(c) + 1) .. (Len(c) + Len(b)) :
           i - Len(c) \in DOMAIN b /\ t[i] = b[i - Len(c)]
      /\ ToSet(t) = ToSet(c) \cup ToSet(b)
  <2>1. b \in Seq(S) /\ c \in Seq(S)
    BY <1>1, <1>3
  <2> QED BY <2>1, ConcatElements
<1>5. t = InsertedAfter(s, p, x)
  BY Zenon DEF InsertedAfter, a, b, c
<1> HIDE DEF t
<1>6. Len(s) \in Nat /\ p \in Nat /\ p <= Len(s)
  OBVIOUS
<1>7. \A i \in (p + 2) .. (Len(s) + 1) : t[i] = s[i - 1]
  <2> TAKE i \in (p + 2) .. (Len(s) + 1)
  <2>1. i - (p + 1) \in DOMAIN b /\ t[i] = b[i - (p + 1)]
    BY <1>1, <1>3, <1>4, <1>6
  <2>2. b[i - (p + 1)] = s[p + (i - (p + 1))]
    BY <1>1, <2>1
  <2>3. p + (i - (p + 1)) = i - 1
    BY <1>6
  <2> QED BY <2>1, <2>2, <2>3
<1>8. Len(t) = Len(s) + 1 /\ DOMAIN t = 1 .. (Len(s) + 1)
  BY <1>1, <1>3, <1>4, <1>6
<1>9. \A i \in 1 .. p : t[i] = s[i]
  <2> TAKE i \in 1 .. p
  <2>1. i \in DOMAIN c /\ i \in DOMAIN a
    BY <1>1, <1>3, <1>6
  <2> QED BY <1>1, <1>3, <1>4, <2>1
<1>10. t[p + 1] = x
  <2>1. p + 1 \in DOMAIN c
    BY <1>3, <1>6
  <2> QED BY <1>3, <1>4, <2>1
<1>11. ToSet(t) = ToSet(s) \cup {x}
  BY <1>1, <1>3, <1>4
<1>12. IsInsertion(t, s, p, x)
  BY <1>7, <1>8, <1>9, <1>10, <1>11 DEF IsInsertion
<1> QED BY <1>4, <1>5, <1>12

-----------------------------------------------------------------------------
(* Sorted lists.                                                           *)

\* The walk along a list stops.
LEMMA WalkExists ==
  ASSUME NEW keys \in Seq(Nat), NEW at \in 0 .. Len(keys), NEW seq \in Nat
  PROVE  /\ WalkTo(keys, at, seq) \in at .. Len(keys)
         /\ \A i \in (at + 1) .. WalkTo(keys, at, seq) : keys[i] < seq
         /\ WalkTo(keys, at, seq) < Len(keys) => keys[WalkTo(keys, at, seq) + 1] >= seq
<1> DEFINE len == Len(keys)
           Stop == {p \in at .. len : p < len => keys[p + 1] >= seq}
<1>0. len \in Nat /\ at \in Nat /\ DOMAIN keys = 1 .. len
      /\ \A i \in 1 .. len : keys[i] \in Nat
  OBVIOUS
<1>1. len \in Stop /\ Stop \in SUBSET Nat
  BY <1>0
<1>2. PICK m \in Stop : \A p \in Stop : m <= p
  BY <1>1, LeastExists, Zenon
<1>3. ASSUME NEW i \in (at + 1) .. m PROVE keys[i] < seq
  <2> HIDE DEF len
  <2>1. i - 1 \in at .. len /\ m \in at .. len /\ ~(m <= i - 1)
    BY <1>0, <1>2, <1>3
  <2>3. i - 1 \notin Stop
    BY <1>2, <2>1
  <2>2. i - 1 < len /\ ~(keys[(i - 1) + 1] >= seq) /\ (i - 1) + 1 = i
    BY <1>0, <2>1, <2>3
  <2> QED BY <1>0, <2>2
<1> DEFINE Halt(p) == /\ \A i \in (at + 1) .. p : keys[i] < seq
                      /\ p < len => keys[p + 1] >= seq
           w == CHOOSE p \in at .. len : Halt(p)
<1>4. m \in at .. len /\ Halt(m)
  BY <1>2, <1>3
<1>5. w \in at .. len /\ Halt(w)
  <2> HIDE DEF Halt
  <2> QED BY <1>4, Zenon
<1>6. w = WalkTo(keys, at, seq)
  BY Zenon DEF WalkTo
<1> HIDE DEF w
<1> QED BY <1>5, <1>6

\* In a sorted list it stops between the smaller and the greater numbers.
LEMMA WalkStops ==
  ASSUME NEW keys \in Seq(Nat), Ascending(keys), NEW at \in 0 .. Len(keys),
         NEW seq \in Nat, \A i \in DOMAIN keys : keys[i] # seq,
         \A i \in 1 .. at : keys[i] < seq
  PROVE  /\ WalkTo(keys, at, seq) \in 0 .. Len(keys)
         /\ \A i \in 1 .. WalkTo(keys, at, seq) : keys[i] < seq
         /\ \A i \in (WalkTo(keys, at, seq) + 1) .. Len(keys) : keys[i] > seq
<1> DEFINE len == Len(keys)
           w == WalkTo(keys, at, seq)
<1>0. len \in Nat /\ at \in Nat /\ DOMAIN keys = 1 .. len
      /\ \A i \in 1 .. len : keys[i] \in Nat
  OBVIOUS
<1>5. /\ w \in at .. len
      /\ \A i \in (at + 1) .. w : keys[i] < seq
      /\ w < len => keys[w + 1] >= seq
  BY WalkExists
<1> HIDE DEF w
<1>7. \A i \in 1 .. w : keys[i] < seq
  BY <1>0, <1>5
<1>8. ASSUME NEW i \in (w + 1) .. len PROVE keys[i] > seq
  <2>0. w < len /\ w + 1 \in 1 .. len /\ i \in 1 .. len
    BY <1>0, <1>5
  <2>1. /\ w + 1 \in DOMAIN keys /\ i \in DOMAIN keys
        /\ keys[w + 1] >= seq /\ keys[w + 1] # seq
    BY <1>0, <1>5, <2>0
  <2>2. keys[w + 1] > seq
    BY <1>0, <2>1
  <2>3. CASE i = w + 1
    BY <2>2, <2>3
  <2>4. CASE w + 1 < i
    <3>1. keys[w + 1] < keys[i]
      BY <2>1, <2>4 DEF Ascending
    <3> QED BY <1>0, <2>1, <2>2, <3>1
  <2> QED BY <1>0, <1>5, <2>3, <2>4
<1> QED BY <1>0, <1>5, <1>7, <1>8 DEF w

LEMMA AscendingDistinct ==
  ASSUME NEW s \in Seq(Nat), Ascending(s)
  PROVE  IsInjective(s)
<1> SUFFICES ASSUME NEW i \in DOMAIN s, NEW j \in DOMAIN s, s[i] = s[j], i # j
             PROVE  FALSE
  BY DEF IsInjective
<1>1. i \in Nat /\ j \in Nat /\ s[i] \in Nat /\ s[j] \in Nat
  OBVIOUS
<1>2. i < j \/ j < i
  BY <1>1
<1> QED BY <1>1, <1>2 DEF Ascending

LEMMA AscendingSplit ==
  ASSUME NEW s \in Seq(Nat), Ascending(s), NEW k \in 0 .. Len(s)
  PROVE  /\ Ascending(Initial(s, k)) /\ Ascending(Remaining(s, k))
         /\ \A x \in ToSet(Initial(s, k)) : x \notin ToSet(Remaining(s, k))
<1> DEFINE a == Initial(s, k)
           b == Remaining(s, k)
<1>1. /\ DOMAIN a = 1 .. k
      /\ \A i \in DOMAIN a : i \in DOMAIN s /\ a[i] = s[i]
      /\ DOMAIN b = 1 .. (Len(s) - k)
      /\ \A i \in DOMAIN b : k + i \in DOMAIN s /\ b[i] = s[k + i]
  BY SplitElements
<1>2. Len(s) \in Nat /\ k \in Nat /\ DOMAIN s = 1 .. Len(s)
      /\ \A i \in DOMAIN s : s[i] \in Nat
  OBVIOUS
<1> HIDE DEF a, b
<1>3. Ascending(a)
  BY <1>1, <1>2 DEF Ascending
<1>4. Ascending(b)
  <2> SUFFICES ASSUME NEW i \in DOMAIN b, NEW j \in DOMAIN b, i < j
               PROVE  b[i] < b[j]
    BY DEF Ascending
  <2>1. k + i < k + j
    BY <1>1, <1>2
  <2> QED BY <1>1, <2>1 DEF Ascending
<1>5. ASSUME NEW i \in DOMAIN a, NEW j \in DOMAIN b PROVE a[i] # b[j]
  <2>1. i < k + j
    BY <1>1, <1>2
  <2>2. s[i] < s[k + j]
    BY <1>1, <2>1 DEF Ascending
  <2> QED BY <1>1, <1>2, <2>2
<1> QED BY <1>3, <1>4, <1>5 DEF ToSet, a, b

LEMMA AscendingAppend ==
  ASSUME NEW s \in Seq(Nat), Ascending(s), NEW x \in Nat, \A y \in ToSet(s) : y < x
  PROVE  Ascending(Append(s, x))
<1>1. /\ Len(s) \in Nat /\ DOMAIN s = 1 .. Len(s)
      /\ \A i \in DOMAIN s : s[i] < x
  BY DEF ToSet
<1>2. /\ DOMAIN Append(s, x) = 1 .. (Len(s) + 1)
      /\ \A i \in DOMAIN s : Append(s, x)[i] = s[i]
      /\ Append(s, x)[Len(s) + 1] = x
  BY AppendElements
<1> DEFINE t == Append(s, x)
<1> HIDE DEF t
<1> SUFFICES ASSUME NEW i \in 1 .. (Len(s) + 1), NEW j \in 1 .. (Len(s) + 1), i < j
             PROVE  t[i] < t[j]
  BY <1>2 DEF Ascending, t
<1>3. i \in DOMAIN s
  BY <1>1
<1>4. j \in DOMAIN s \/ j = Len(s) + 1
  BY <1>1
<1> QED BY <1>1, <1>2, <1>3, <1>4 DEF Ascending, t

-----------------------------------------------------------------------------
(* packetDropped: the ordered events go back to their places.              *)

QueueWalk == {w \in [list : Seq(Nat), at : Nat] : w.at <= Len(w.list)}

LEMMA WalkElements ==
  ASSUME NEW w \in QueueWalk
  PROVE  /\ w.list \in Seq(Nat) /\ Len(w.list) \in Nat
         /\ w.at \in Nat /\ w.at <= Len(w.list)
         /\ \A j \in 1 .. Len(w.list) : w.list[j] \in Nat
BY DEF QueueWalk

LEMMA ReinsertedWalk ==
  ASSUME NEW w \in QueueWalk, NEW seq \in Nat
  PROVE  LET r == Reinserted(w, seq)
             p == WalkTo(w.list, w.at, seq)
         IN  /\ r \in QueueWalk /\ r.list = InsertedAfter(w.list, p, seq)
             /\ r.at = p + 1 /\ p \in 0 .. Len(w.list)
<1> DEFINE p == WalkTo(w.list, w.at, seq)
           t == InsertedAfter(w.list, p, seq)
<1>1. w.list \in Seq(Nat) /\ w.at \in 0 .. Len(w.list) /\ Len(w.list) \in Nat
  BY DEF QueueWalk
<1>2. p \in w.at .. Len(w.list)
  BY <1>1, WalkExists
<1> HIDE DEF p
<1>3. p \in 0 .. Len(w.list)
  BY <1>1, <1>2
<1>4. t \in Seq(Nat) /\ Len(t) = Len(w.list) + 1
  <2>1. t \in Seq(Nat) /\ IsInsertion(t, w.list, p, seq)
    BY <1>1, <1>3, InsertElements
  <2> HIDE DEF t
  <2> QED BY <2>1 DEF IsInsertion
<1>5. Reinserted(w, seq) = [list |-> t, at |-> p + 1]
  BY DEF Reinserted, p
<1> HIDE DEF t
<1> QED BY <1>1, <1>3, <1>4, <1>5 DEF QueueWalk, p, t

\* One event goes back to its place.
LEMMA ReinsertedOne ==
  ASSUME NEW w \in QueueWalk, Ascending(w.list), NEW seq \in Nat,
         seq \notin ToSet(w.list), \A i \in 1 .. w.at : w.list[i] < seq
  PROVE  LET r == Reinserted(w, seq)
         IN  /\ r \in QueueWalk /\ Ascending(r.list)
             /\ ToSet(r.list) = ToSet(w.list) \cup {seq}
             /\ \A i \in 1 .. r.at : r.list[i] <= seq
<1> DEFINE s == w.list
           p == WalkTo(s, w.at, seq)
           r == Reinserted(w, seq)
<1>1. /\ Ascending(s) /\ s \in Seq(Nat) /\ w.at \in 0 .. Len(s) /\ Len(s) \in Nat
      /\ DOMAIN s = 1 .. Len(s) /\ \A i \in DOMAIN s : s[i] \in Nat
  BY DEF QueueWalk
<1>2. r \in QueueWalk /\ r.list = InsertedAfter(s, p, seq) /\ r.at = p + 1
  BY ReinsertedWalk
<1> HIDE DEF r
<1>3. /\ p \in 0 .. Len(s) /\ \A i \in 1 .. p : s[i] < seq
      /\ \A i \in (p + 1) .. Len(s) : s[i] > seq
  <2> HIDE DEF s
  <2>1. \A i \in DOMAIN s : s[i] # seq
    BY DEF ToSet, s
  <2>2. Ascending(s) /\ \A i \in 1 .. w.at : s[i] < seq
    BY DEF s
  <2> QED BY <1>1, <2>1, <2>2, WalkStops
<1> HIDE DEF p
<1>4. PICK t :
        /\ t = InsertedAfter(s, p, seq)
        /\ DOMAIN t = 1 .. (Len(s) + 1)
        /\ \A i \in 1 .. p : t[i] = s[i]
        /\ t[p + 1] = seq
        /\ \A i \in (p + 2) .. (Len(s) + 1) : t[i] = s[i - 1]
        /\ ToSet(t) = ToSet(s) \cup {seq}
  <2> HIDE DEF s
  <2>1. seq \in Nat /\ p \in 0 .. Len(s) /\ s \in Seq(Nat)
    BY <1>1, <1>3
  <2>2. IsInsertion(InsertedAfter(s, p, seq), s, p, seq)
    BY <2>1, InsertElements
  <2> QED BY <2>2, Zenon DEF IsInsertion
<1>0. r.list = t
  BY <1>2, <1>4 DEF p
<1> HIDE DEF s
<1>5. Ascending(t)
  <2> SUFFICES ASSUME NEW i \in 1 .. (Len(s) + 1), NEW j \in 1 .. (Len(s) + 1), i < j
               PROVE  t[i] < t[j]
    BY <1>4 DEF Ascending
  <2>1. CASE j <= p
    <3>1. i \in 1 .. p /\ j \in 1 .. p /\ i \in DOMAIN s /\ j \in DOMAIN s
      BY <1>1, <1>3, <2>1
    <3> QED BY <1>1, <1>4, <3>1 DEF Ascending
  <2>2. CASE j = p + 1
    <3>1. i \in 1 .. p
      BY <1>3, <2>2
    <3> QED BY <1>3, <1>4, <2>2, <3>1
  <2>3. CASE j >= p + 2
    <3>1. j \in (p + 2) .. (Len(s) + 1) /\ j - 1 \in (p + 1) .. Len(s) /\ j - 1 \in DOMAIN s
      BY <1>1, <1>3, <2>3
    <3>2. t[j] = s[j - 1] /\ s[j - 1] > seq /\ s[j - 1] \in Nat
      BY <1>1, <1>3, <1>4, <3>1
    <3>3. CASE i <= p
      <4>1. i \in 1 .. p /\ i \in DOMAIN s
        BY <1>1, <1>3, <3>3
      <4>2. t[i] = s[i] /\ s[i] < seq /\ s[i] \in Nat
        BY <1>1, <1>3, <1>4, <4>1
      <4> QED BY <3>2, <4>2
    <3>4. CASE i = p + 1
      BY <1>4, <3>2, <3>4
    <3>5. CASE i >= p + 2
      <4>1. i \in (p + 2) .. (Len(s) + 1) /\ i - 1 \in DOMAIN s /\ i - 1 < j - 1
        BY <1>1, <1>3, <3>5
      <4>2. t[i] = s[i - 1] /\ s[i - 1] < s[j - 1]
        BY <1>1, <1>4, <3>1, <4>1, Zenon DEF Ascending
      <4> QED BY <3>2, <4>2
    <3>6. i <= p \/ i = p + 1 \/ i >= p + 2
      BY <1>1, <1>3
    <3> QED BY <3>3, <3>4, <3>5, <3>6, Zenon
  <2>4. j <= p \/ j = p + 1 \/ j >= p + 2
    BY <1>1, <1>3
  <2> QED BY <2>1, <2>2, <2>3, <2>4, Zenon
<1>6. \A i \in 1 .. (p + 1) : t[i] <= seq
  <2> TAKE i \in 1 .. (p + 1)
  <2>1. CASE i = p + 1
    BY <1>4, <2>1
  <2>2. CASE i \in 1 .. p
    <3>1. i \in DOMAIN s /\ t[i] = s[i] /\ s[i] < seq
      BY <1>1, <1>3, <1>4, <2>2
    <3> QED BY <1>1, <3>1
  <2> QED BY <1>1, <1>3, <2>1, <2>2
<1> QED BY <1>0, <1>2, <1>4, <1>5, <1>6 DEF r, s

\* All events of the packet go back to their places.
LEMMA ReinsertedAll ==
  ASSUME sendQueue \in Seq(Nat), Ascending(sendQueue),
         NEW events \in Seq(Nat), Ascending(events),
         \A n \in ToSet(events) : n \notin ToSet(sendQueue)
  PROVE  /\ AllReinserted(events) \in Seq(Nat)
         /\ Ascending(AllReinserted(events))
         /\ ToSet(AllReinserted(events)) = ToSet(sendQueue) \cup ToSet(events)
<1> DEFINE n == Len(events)
           base == [list |-> sendQueue, at |-> 0]
           Walks(q) == q = [i \in 0 .. n |->
                              IF i = 0 THEN [list |-> sendQueue, at |-> 0]
                              ELSE Reinserted(q[i - 1], events[i])]
<1>1. n \in Nat /\ base \in QueueWalk /\ \A i \in 1 .. n : events[i] \in Nat
      /\ DOMAIN events = 1 .. n
  BY DEF QueueWalk
<1>2. \E r : Walks(r)
  <2> DEFINE F == [i \in 1 .. n |-> [w \in QueueWalk |-> Reinserted(w, events[i])]]
  <2>1. \A i \in 1 .. n : \A w \in QueueWalk : Reinserted(w, events[i]) \in QueueWalk
    BY <1>1, ReinsertedWalk
  <2>2. F \in [1 .. n -> [QueueWalk -> QueueWalk]]
    BY <2>1
  <2> HIDE DEF F, base
  <2>3. PICK r \in [0 .. n -> QueueWalk] :
          r[0] = base /\ \A i \in 1 .. n : r[i] = F[i][r[i - 1]]
    <3> DEFINE m == n
    <3> HIDE DEF m
    <3>1. m \in Nat /\ F \in Steps(m, QueueWalk) /\ base \in QueueWalk
      BY <1>1, <2>2 DEF m, Steps
    <3>2. PICK r : Recurses(r, m, QueueWalk, base, F)
      BY <3>1, RecursionExists
    <3> QED BY <3>2, Zenon DEF m, Recurses
  <2>4. ASSUME NEW i \in 1 .. n PROVE r[i] = Reinserted(r[i - 1], events[i])
    <3>1. i - 1 \in 0 .. n
      BY <1>1
    <3> QED BY <2>3, <3>1 DEF F
  <2>5. r = [i \in 0 .. n |-> IF i = 0 THEN base ELSE Reinserted(r[i - 1], events[i])]
    BY <1>1, <2>3, <2>4
  <2> QED BY <2>5 DEF base
<1>3. PICK q : q = (CHOOSE r : Walks(r)) /\ Walks(q)
  <2> HIDE DEF Walks
  <2> QED BY <1>2, Zenon
<1>4. AllReinserted(events) = q[n].list
  BY <1>3, Zenon DEF AllReinserted
<1>5. q[0] = base /\ \A i \in 1 .. n : q[i] = Reinserted(q[i - 1], events[i])
  <2>1. q = [i \in 0 .. n |-> IF i = 0 THEN base ELSE Reinserted(q[i - 1], events[i])]
    BY <1>3
  <2> HIDE DEF base, n
  <2>2. 0 \in 0 .. n /\ \A i \in 1 .. n : i \in 0 .. n /\ i # 0
    BY <1>1
  <2> QED BY <2>1, <2>2
<1> HIDE DEF base, Walks
<1> DEFINE Good(i) == /\ q[i] \in QueueWalk /\ Ascending(q[i].list)
                      /\ ToSet(q[i].list)
                           = ToSet(sendQueue) \cup {events[j] : j \in 1 .. i}
                      /\ \A j \in 1 .. q[i].at : i > 0 /\ q[i].list[j] <= events[i]
           Goods == {i \in 0 .. n : Good(i)}
<1>6. 0 \in Goods
  BY <1>1, <1>5 DEF base
<1>7. ASSUME NEW i \in 1 .. n, i - 1 \in Goods PROVE i \in Goods
  <2> DEFINE w == q[i - 1]
             x == events[i]
  <2>1. Good(i - 1) /\ q[i] = Reinserted(w, x) /\ x \in Nat
    BY <1>1, <1>5, <1>7
  <2>2. \A j \in 1 .. w.at : w.list[j] < x
    <3> TAKE j \in 1 .. w.at
    <3>1. i - 1 > 0 /\ w.list[j] <= events[i - 1]
      BY <2>1
    <3>2. i - 1 \in DOMAIN events /\ i \in DOMAIN events /\ i - 1 < i
      BY <1>1, <3>1
    <3>3. events[i - 1] < x /\ events[i - 1] \in Nat
      BY <1>1, <3>2 DEF Ascending
    <3>4. w.list[j] \in Nat
      <4> HIDE DEF w
      <4>1. w \in QueueWalk
        BY <2>1 DEF w
      <4>2. j \in 1 .. Len(w.list)
        BY <4>1, WalkElements
      <4> QED BY <4>1, <4>2, WalkElements
    <3> QED BY <2>1, <3>1, <3>3, <3>4
  <2>3. x \notin ToSet(w.list)
    <3>1. \A j \in 1 .. (i - 1) : events[j] # x
      <4> TAKE j \in 1 .. (i - 1)
      <4>1. j \in DOMAIN events /\ i \in DOMAIN events /\ j < i
        BY <1>1
      <4> QED BY <1>1, <4>1 DEF Ascending
    <3>2. x \notin ToSet(sendQueue)
      BY <1>1 DEF ToSet
    <3> QED BY <2>1, <3>1, <3>2
  <2>4. /\ q[i] \in QueueWalk /\ Ascending(q[i].list)
        /\ ToSet(q[i].list) = ToSet(w.list) \cup {x}
        /\ \A j \in 1 .. q[i].at : q[i].list[j] <= x
    <3> HIDE DEF w, x
    <3>1. w \in QueueWalk /\ Ascending(w.list)
      BY <2>1 DEF w
    <3>2. q[i] = Reinserted(w, x) /\ x \in Nat
      BY <2>1 DEF w, x
    <3> QED BY <2>2, <2>3, <3>1, <3>2, ReinsertedOne, Zenon
  <2>5. {events[j] : j \in 1 .. i} = {events[j] : j \in 1 .. (i - 1)} \cup {x}
    BY <1>1
  <2>6. Good(i)
    BY <2>1, <2>4, <2>5
  <2> QED BY <2>6
<1> HIDE DEF Goods
<1>8. \A i \in 0 .. n : i \in Goods
  BY <1>1, <1>6, <1>7, UpTo
<1>9. Good(n)
  <2> HIDE DEF Good
  <2>1. n \in Goods
    BY <1>1, <1>8
  <2> QED BY <2>1 DEF Goods
<1>10. {events[j] : j \in 1 .. n} = ToSet(events)
  BY <1>1 DEF ToSet
<1> QED BY <1>4, <1>9, <1>10 DEF QueueWalk

-----------------------------------------------------------------------------
(* readPacket: the numbers on the wire, and the wait list.                 *)

LEMMA DivMod ==
  ASSUME NEW n \in Nat, NEW m \in Nat, m > 0
  PROVE  /\ n % m \in 0 .. (m - 1) /\ n \div m \in Nat
         /\ n = m * (n \div m) + (n % m)
BY Z3

LEMMA MultApart ==
  ASSUME NEW m \in Nat, m > 0, NEW k \in Nat, NEW l \in Nat
  PROVE  /\ m * k \in Nat
         /\ k < l => m * l >= m * k + m
         /\ k = l + 1 => m * k = m * l + m
         /\ k > l + 1 => m * k >= m * l + m + m
BY Z3

\* Seven bits tell numbers apart that are less than EventSeqSpace apart.
LEMMA DecodedExactly ==
  ASSUME NEW n \in Nat, NEW next \in Nat, next <= n, n < next + EventSeqSpace
  PROVE  Decode(n % EventSeqSpace, next) = n
<1> DEFINE m == EventSeqSpace
<1>0. m \in Nat /\ m > 0
  BY EventAssumption
<1> HIDE DEF m
<1> DEFINE a == n \div m
           r == n % m
           b == next \div m
           t == next % m
<1>1. a \in Nat /\ r \in 0 .. (m - 1) /\ n = m * a + r
  BY <1>0, DivMod
<1>2. b \in Nat /\ t \in 0 .. (m - 1) /\ next = m * b + t
  BY <1>0, DivMod
<1>6. Decode(r, next) = IF next - t + r < next THEN next - t + r + m ELSE next - t + r
  BY DEF Decode, m
<1> HIDE DEF a, b, r, t
<1>3. a = b \/ a = b + 1
  <2>1. a < b => m * b >= m * a + m
    BY <1>0, <1>1, <1>2, MultApart
  <2>2. a > b + 1 => m * a >= m * b + m + m
    BY <1>0, <1>1, <1>2, MultApart
  <2>3. m * a \in Nat /\ m * b \in Nat
    BY <1>0, <1>1, <1>2, MultApart
  <2> QED BY <1>0, <1>1, <1>2, <2>1, <2>2, <2>3 DEF m
<1>4. CASE a = b
  <2>1. next - t + r = n /\ n >= next
    BY <1>0, <1>1, <1>2, <1>4
  <2> QED BY <1>0, <1>1, <1>2, <1>6, <2>1 DEF r, m
<1>5. CASE a = b + 1
  <2>1. m * a = m * b + m /\ m * b \in Nat
    BY <1>0, <1>1, <1>2, <1>5, MultApart
  <2>2. next - t + r + m = n
    BY <1>0, <1>1, <1>2, <2>1
  <2>3. next - t + r < next
    BY <1>0, <1>1, <1>2, <2>1, <2>2 DEF m
  <2> QED BY <1>0, <1>1, <1>2, <1>6, <2>2, <2>3 DEF r, m
<1> QED BY <1>3, <1>4, <1>5

LEMMA DecodedNumber ==
  ASSUME NEW n \in Nat, NEW next \in Nat
  PROVE  Decode(n % EventSeqSpace, next) \in Nat
<1> DEFINE m == EventSeqSpace
           r == n % m
           b == next \div m
           t == next % m
<1>0. m \in Nat /\ m > 0
  BY EventAssumption
<1>1. r \in 0 .. (m - 1)
  BY <1>0, DivMod
<1>2. b \in Nat /\ t \in 0 .. (m - 1) /\ next = m * b + t /\ m * b \in Nat
  <2>1. b \in Nat /\ t \in 0 .. (m - 1) /\ next = m * b + t
    BY <1>0, DivMod
  <2> QED BY <1>0, <2>1, MultApart
<1>3. Decode(r, next) = IF next - t + r < next THEN next - t + r + m ELSE next - t + r
  BY DEF Decode
<1> HIDE DEF b, r, t, m
<1>4. next - t + r \in Nat
  BY <1>0, <1>1, <1>2
<1>5. Decode(r, next) \in Nat
  BY <1>0, <1>1, <1>2, <1>3, <1>4
<1> QED BY <1>5 DEF r, m

Wait == [seq : Nat, event : Event]

WaitWalk == {w \in [list : Seq(Wait), at : Nat] : w.at <= Len(w.list)}

Keys(list) == [i \in DOMAIN list |-> list[i].seq]
Seqs(list) == {list[i].seq : i \in DOMAIN list}

SortedWaits(list) ==
    \A i, j \in DOMAIN list : i < j => list[i].seq < list[j].seq
ExactWaits(list) ==
    \A i \in DOMAIN list : list[i].event = Ordered(list[i].seq)

LEMMA OrderedEvent ==
  ASSUME NEW n \in Nat
  PROVE  /\ Ordered(n) \in Event /\ IsOrdered(Ordered(n))
         /\ Ordered(n).type = "GuaranteedOrdered" /\ Ordered(n).n = n
BY DEF Ordered, Event, Guarantee, IsOrdered

LEMMA WaitWalkElements ==
  ASSUME NEW w \in WaitWalk
  PROVE  /\ w.list \in Seq(Wait) /\ Len(w.list) \in Nat
         /\ DOMAIN w.list = 1 .. Len(w.list)
         /\ w.at \in 0 .. Len(w.list)
         /\ \A i \in DOMAIN w.list : w.list[i] \in Wait /\ w.list[i].seq \in Nat
         /\ Keys(w.list) \in Seq(Nat) /\ Len(Keys(w.list)) = Len(w.list)
         /\ DOMAIN Keys(w.list) = 1 .. Len(w.list)
         /\ \A i \in 1 .. Len(w.list) : Keys(w.list)[i] = w.list[i].seq
<1> DEFINE s == w.list
<1>1. s \in Seq(Wait) /\ w.at \in Nat /\ w.at <= Len(s)
  BY DEF WaitWalk
<1> HIDE DEF s
<1>2. /\ Len(s) \in Nat /\ DOMAIN s = 1 .. Len(s)
      /\ \A i \in DOMAIN s : s[i] \in Wait
  BY <1>1
<1>3. \A i \in DOMAIN s : s[i].seq \in Nat
  BY <1>2 DEF Wait
<1>4. Keys(s) \in [1 .. Len(s) -> Nat] /\ \A i \in 1 .. Len(s) : Keys(s)[i] = s[i].seq
  BY <1>2, <1>3 DEF Keys
<1>5. Keys(s) \in Seq(Nat) /\ Len(Keys(s)) = Len(s) /\ DOMAIN Keys(s) = 1 .. Len(s)
  BY <1>2, <1>4
<1> QED BY <1>1, <1>2, <1>3, <1>4, <1>5 DEF s

LEMMA AwaitedWalk ==
  ASSUME NEW w \in WaitWalk, NEW n \in Nat, nextRecvEventSeq \in Nat
  PROVE  LET seq == Decode(n % EventSeqSpace, nextRecvEventSeq)
             p == WalkTo(Keys(w.list), w.at, seq)
         IN  /\ Awaited(w, n) \in WaitWalk
             /\ Awaited(w, n).list
                  = InsertedAfter(w.list, p, [seq |-> seq, event |-> Ordered(n)])
             /\ Awaited(w, n).at = p + 1
<1> DEFINE seq == Decode(n % EventSeqSpace, nextRecvEventSeq)
           p == WalkTo(Keys(w.list), w.at, seq)
           x == [seq |-> seq, event |-> Ordered(n)]
           t == InsertedAfter(w.list, p, x)
<1>1. Awaited(w, n) = [list |-> t, at |-> p + 1]
  BY Zenon DEF Awaited, Keys
<1>2. seq \in Nat
  BY DecodedNumber
<1> HIDE DEF seq
<1>3. x \in Wait
  BY <1>2, OrderedEvent DEF Wait
<1> HIDE DEF x
<1>4. p \in w.at .. Len(w.list)
  <2>1. Keys(w.list) \in Seq(Nat) /\ w.at \in 0 .. Len(Keys(w.list))
        /\ Len(Keys(w.list)) = Len(w.list)
    BY WaitWalkElements
  <2> QED BY <1>2, <2>1, WalkExists
<1> HIDE DEF p
<1>5. p \in 0 .. Len(w.list) /\ w.list \in Seq(Wait) /\ Len(w.list) \in Nat
  BY <1>4, WaitWalkElements
<1>6. t \in Seq(Wait) /\ IsInsertion(t, w.list, p, x)
  BY <1>3, <1>5, InsertElements
<1> HIDE DEF t
<1>7. Len(t) = Len(w.list) + 1
  BY <1>6 DEF IsInsertion
<1> QED BY <1>1, <1>5, <1>6, <1>7 DEF WaitWalk, t, p, x, seq

\* One event is put into the wait list.
LEMMA AwaitedOne ==
  ASSUME NEW w \in WaitWalk, SortedWaits(w.list), ExactWaits(w.list),
         NEW n \in Nat, nextRecvEventSeq \in Nat,
         nextRecvEventSeq <= n, n < nextRecvEventSeq + EventSeqSpace,
         n \notin Seqs(w.list), \A i \in 1 .. w.at : w.list[i].seq < n
  PROVE  LET r == Awaited(w, n)
         IN  /\ r \in WaitWalk /\ SortedWaits(r.list) /\ ExactWaits(r.list)
             /\ Seqs(r.list) = Seqs(w.list) \cup {n}
             /\ \A i \in 1 .. r.at : r.list[i].seq <= n
<1> DEFINE s == w.list
           p == WalkTo(Keys(s), w.at, n)
           x == [seq |-> n, event |-> Ordered(n)]
           r == Awaited(w, n)
<1>0. Decode(n % EventSeqSpace, nextRecvEventSeq) = n
  BY DecodedExactly
<1>1. /\ s \in Seq(Wait) /\ Len(s) \in Nat /\ DOMAIN s = 1 .. Len(s)
      /\ w.at \in 0 .. Len(s)
      /\ \A i \in 1 .. Len(s) : s[i].seq \in Nat
      /\ Keys(s) \in Seq(Nat) /\ Len(Keys(s)) = Len(s)
      /\ DOMAIN Keys(s) = 1 .. Len(s)
      /\ \A i \in 1 .. Len(s) : Keys(s)[i] = s[i].seq
      /\ \A i \in 1 .. Len(s) : s[i].event = Ordered(s[i].seq)
  BY WaitWalkElements DEF ExactWaits
<1>2. r \in WaitWalk /\ r.list = InsertedAfter(s, p, x) /\ r.at = p + 1
  BY <1>0, AwaitedWalk
<1> HIDE DEF r
<1>a. SortedWaits(s) /\ n \notin Seqs(s) /\ \A i \in 1 .. w.at : s[i].seq < n
  OBVIOUS
<1>b. x \in Wait /\ x.seq = n /\ x.event = Ordered(n)
  BY OrderedEvent DEF Wait
<1> HIDE DEF s, x
<1>3. /\ p \in 0 .. Len(s) /\ \A i \in 1 .. p : s[i].seq < n
      /\ \A i \in (p + 1) .. Len(s) : s[i].seq > n
  <2> DEFINE k == Keys(s)
  <2>1. Ascending(k)
    BY <1>1, <1>a DEF SortedWaits, Ascending
  <2>2. \A i \in DOMAIN k : k[i] # n
    BY <1>1, <1>a DEF Seqs
  <2>3. \A i \in 1 .. w.at : k[i] < n
    BY <1>1, <1>a
  <2>4. k \in Seq(Nat) /\ w.at \in 0 .. Len(k)
    BY <1>1
  <2> HIDE DEF k
  <2>5. /\ WalkTo(k, w.at, n) \in 0 .. Len(k)
        /\ \A i \in 1 .. WalkTo(k, w.at, n) : k[i] < n
        /\ \A i \in (WalkTo(k, w.at, n) + 1) .. Len(k) : k[i] > n
    BY <2>1, <2>2, <2>3, <2>4, WalkStops
  <2>6. p = WalkTo(k, w.at, n)
    BY DEF k
  <2> HIDE DEF p
  <2>7. /\ p \in 0 .. Len(s) /\ \A i \in 1 .. p : k[i] < n
        /\ \A i \in (p + 1) .. Len(s) : k[i] > n
    BY <1>1, <2>5, <2>6 DEF k
  <2>8. \A i \in 1 .. Len(s) : k[i] = s[i].seq
    BY <1>1 DEF k
  <2>9. \A i \in 1 .. p : i \in 1 .. Len(s)
    BY <1>1, <2>7
  <2>10. \A i \in (p + 1) .. Len(s) : i \in 1 .. Len(s)
    BY <1>1, <2>7
  <2> QED BY <2>7, <2>8, <2>9, <2>10
<1> HIDE DEF p
<1>4. PICK t :
        /\ t = InsertedAfter(s, p, x)
        /\ DOMAIN t = 1 .. (Len(s) + 1)
        /\ \A i \in 1 .. p : t[i] = s[i]
        /\ t[p + 1] = x
        /\ \A i \in (p + 2) .. (Len(s) + 1) : t[i] = s[i - 1]
        /\ ToSet(t) = ToSet(s) \cup {x}
  <2>1. IsInsertion(InsertedAfter(s, p, x), s, p, x)
    BY <1>1, <1>3, <1>b, InsertElements
  <2> QED BY <2>1, Zenon DEF IsInsertion
<1>c. r.list = t
  BY <1>2, <1>4 DEF p
<1>d. \A i \in 1 .. (Len(s) + 1) : i <= p \/ i = p + 1 \/ i >= p + 2
  BY <1>1, <1>3
<1>e. \A i \in 1 .. p : i \in DOMAIN s /\ t[i] = s[i] /\ s[i].seq < n
  BY <1>1, <1>3, <1>4
<1>f. \A i \in (p + 2) .. (Len(s) + 1) :
        i - 1 \in DOMAIN s /\ t[i] = s[i - 1] /\ s[i - 1].seq > n
  <2> TAKE i \in (p + 2) .. (Len(s) + 1)
  <2>1. i - 1 \in DOMAIN s /\ i - 1 \in (p + 1) .. Len(s)
    BY <1>1, <1>3
  <2> QED BY <1>3, <1>4, <2>1
<1>5. SortedWaits(t)
  <2> SUFFICES ASSUME NEW i \in 1 .. (Len(s) + 1), NEW j \in 1 .. (Len(s) + 1), i < j
               PROVE  t[i].seq < t[j].seq
    BY <1>4 DEF SortedWaits
  <2>1. CASE j <= p
    <3>1. i \in 1 .. p /\ j \in 1 .. p
      BY <1>1, <1>3, <2>1
    <3> QED BY <1>a, <1>e, <3>1 DEF SortedWaits
  <2>2. CASE j = p + 1
    <3>1. i \in 1 .. p
      BY <1>3, <2>2
    <3> QED BY <1>4, <1>b, <1>e, <2>2, <3>1
  <2>3. CASE j >= p + 2
    <3>1. j \in (p + 2) .. (Len(s) + 1)
      BY <1>1, <1>3, <2>3
    <3>2. t[j] = s[j - 1] /\ s[j - 1].seq > n /\ j - 1 \in DOMAIN s /\ s[j - 1].seq \in Nat
      BY <1>1, <1>f, <3>1
    <3>3. CASE i <= p
      <4>1. i \in 1 .. p /\ i \in DOMAIN s
        BY <1>1, <1>3, <3>3
      <4>2. t[i] = s[i] /\ s[i].seq < n /\ s[i].seq \in Nat
        BY <1>1, <1>e, <4>1
      <4> QED BY <3>2, <4>2
    <3>4. CASE i = p + 1
      BY <1>4, <1>b, <3>2, <3>4
    <3>5. CASE i >= p + 2
      <4>1. i \in (p + 2) .. (Len(s) + 1) /\ i - 1 < j - 1
        BY <1>1, <1>3, <3>5
      <4>2. t[i] = s[i - 1] /\ i - 1 \in DOMAIN s
        BY <1>f, <4>1
      <4>3. s[i - 1].seq < s[j - 1].seq
        BY <1>a, <3>2, <4>1, <4>2 DEF SortedWaits
      <4> QED BY <3>2, <4>2, <4>3
    <3> QED BY <1>d, <3>3, <3>4, <3>5, Zenon
  <2> QED BY <1>d, <2>1, <2>2, <2>3, Zenon
<1>6. \A i \in 1 .. (p + 1) : t[i].seq <= n
  <2> TAKE i \in 1 .. (p + 1)
  <2>1. CASE i = p + 1
    BY <1>4, <1>b, <2>1
  <2>2. CASE i \in 1 .. p
    BY <1>1, <1>e, <2>2
  <2> QED BY <1>1, <1>3, <2>1, <2>2
<1>7. ExactWaits(t) /\ Seqs(t) = Seqs(s) \cup {n}
  <2>1. \A y \in ToSet(s) : y.event = Ordered(y.seq)
    BY <1>1 DEF ToSet
  <2>2. \A y \in ToSet(t) : y.event = Ordered(y.seq)
    BY <1>4, <1>b, <2>1
  <2>3. \A l : Seqs(l) = {y.seq : y \in ToSet(l)}
    BY DEF Seqs, ToSet
  <2>4. ExactWaits(t)
    BY <2>2, Zenon DEF ExactWaits, ToSet
  <2>5. Seqs(t) = {y.seq : y \in ToSet(s) \cup {x}}
    BY <1>4, <2>3
  <2>6. Seqs(t) = {y.seq : y \in ToSet(s)} \cup {n}
    BY <1>b, <2>5
  <2> QED BY <2>3, <2>4, <2>6
<1> QED BY <1>2, <1>c, <1>5, <1>6, <1>7 DEF r, s

\* All ordered events of a packet are put into the wait list.
LEMMA AwaitedAll ==
  ASSUME waitSeqEvents \in Seq(Wait), SortedWaits(waitSeqEvents),
         ExactWaits(waitSeqEvents), nextRecvEventSeq \in Nat,
         NEW events \in Seq(Nat), Ascending(events),
         \A n \in ToSet(events) :
           /\ nextRecvEventSeq <= n /\ n < nextRecvEventSeq + EventSeqSpace
           /\ n \notin Seqs(waitSeqEvents)
  PROVE  /\ AllAwaited(events) \in Seq(Wait)
         /\ SortedWaits(AllAwaited(events)) /\ ExactWaits(AllAwaited(events))
         /\ Seqs(AllAwaited(events)) = Seqs(waitSeqEvents) \cup ToSet(events)
<1> DEFINE n == Len(events)
           base == [list |-> waitSeqEvents, at |-> 0]
           Walks(q) == q = [i \in 0 .. n |->
                              IF i = 0 THEN [list |-> waitSeqEvents, at |-> 0]
                              ELSE Awaited(q[i - 1], events[i])]
<1>1. n \in Nat /\ base \in WaitWalk /\ \A i \in 1 .. n : events[i] \in Nat
      /\ DOMAIN events = 1 .. n
  BY DEF WaitWalk
<1>2. \E r : Walks(r)
  <2> DEFINE F == [i \in 1 .. n |-> [w \in WaitWalk |-> Awaited(w, events[i])]]
  <2>1. \A i \in 1 .. n : \A w \in WaitWalk : Awaited(w, events[i]) \in WaitWalk
    BY <1>1, AwaitedWalk
  <2>2. F \in [1 .. n -> [WaitWalk -> WaitWalk]]
    BY <2>1
  <2> HIDE DEF F, base
  <2>3. PICK r \in [0 .. n -> WaitWalk] :
          r[0] = base /\ \A i \in 1 .. n : r[i] = F[i][r[i - 1]]
    <3> DEFINE m == n
    <3> HIDE DEF m
    <3>1. m \in Nat /\ F \in Steps(m, WaitWalk) /\ base \in WaitWalk
      BY <1>1, <2>2 DEF m, Steps
    <3>2. PICK r : Recurses(r, m, WaitWalk, base, F)
      BY <3>1, RecursionExists
    <3> QED BY <3>2, Zenon DEF m, Recurses
  <2>4. ASSUME NEW i \in 1 .. n PROVE r[i] = Awaited(r[i - 1], events[i])
    <3>1. i - 1 \in 0 .. n
      BY <1>1
    <3> QED BY <2>3, <3>1 DEF F
  <2>5. r = [i \in 0 .. n |-> IF i = 0 THEN base ELSE Awaited(r[i - 1], events[i])]
    BY <1>1, <2>3, <2>4
  <2> QED BY <2>5 DEF base
<1>3. PICK q : q = (CHOOSE r : Walks(r)) /\ Walks(q)
  <2> HIDE DEF Walks
  <2> QED BY <1>2, Zenon
<1>4. AllAwaited(events) = q[n].list
  BY <1>3, Zenon DEF AllAwaited
<1>5. q[0] = base /\ \A i \in 1 .. n : q[i] = Awaited(q[i - 1], events[i])
  <2>1. q = [i \in 0 .. n |-> IF i = 0 THEN base ELSE Awaited(q[i - 1], events[i])]
    BY <1>3
  <2> HIDE DEF base, n
  <2>2. 0 \in 0 .. n /\ \A i \in 1 .. n : i \in 0 .. n /\ i # 0
    BY <1>1
  <2> QED BY <2>1, <2>2
<1> HIDE DEF base, Walks
<1> DEFINE Good(i) == /\ q[i] \in WaitWalk /\ SortedWaits(q[i].list)
                      /\ ExactWaits(q[i].list)
                      /\ Seqs(q[i].list)
                           = Seqs(waitSeqEvents) \cup {events[j] : j \in 1 .. i}
                      /\ \A j \in 1 .. q[i].at : i > 0 /\ q[i].list[j].seq <= events[i]
           Goods == {i \in 0 .. n : Good(i)}
<1>6. 0 \in Goods
  BY <1>1, <1>5 DEF base
<1>7. ASSUME NEW i \in 1 .. n, i - 1 \in Goods PROVE i \in Goods
  <2> DEFINE w == q[i - 1]
             x == events[i]
  <2>1. Good(i - 1) /\ q[i] = Awaited(w, x) /\ x \in Nat
    BY <1>1, <1>5, <1>7
  <2>2. \A j \in 1 .. w.at : w.list[j].seq < x
    <3> TAKE j \in 1 .. w.at
    <3>1. i - 1 > 0 /\ w.list[j].seq <= events[i - 1]
      BY <2>1
    <3>2. i - 1 \in DOMAIN events /\ i \in DOMAIN events /\ i - 1 < i
      BY <1>1, <3>1
    <3>3. events[i - 1] < x /\ events[i - 1] \in Nat
      BY <1>1, <3>2 DEF Ascending
    <3>4. w.list[j].seq \in Nat
      <4> HIDE DEF w
      <4>1. w \in WaitWalk
        BY <2>1 DEF w
      <4>2. j \in DOMAIN w.list
        BY <4>1, WaitWalkElements
      <4> QED BY <4>1, <4>2, WaitWalkElements
    <3>5. x \in Nat
      BY <2>1
    <3> HIDE DEF w, x
    <3>6. \A a, b, c \in Nat : a <= b /\ b < c => a < c
      OBVIOUS
    <3> QED BY <3>1, <3>3, <3>4, <3>5, <3>6, Zenon
  <2>3. x \notin Seqs(w.list) /\ nextRecvEventSeq <= x
        /\ x < nextRecvEventSeq + EventSeqSpace
    <3>1. \A j \in 1 .. (i - 1) : events[j] # x
      <4> TAKE j \in 1 .. (i - 1)
      <4>1. j \in DOMAIN events /\ i \in DOMAIN events /\ j < i
        BY <1>1
      <4> QED BY <1>1, <4>1 DEF Ascending
    <3>2. x \in ToSet(events)
      BY <1>1 DEF ToSet
    <3> QED BY <2>1, <3>1, <3>2
  <2>4. /\ q[i] \in WaitWalk /\ SortedWaits(q[i].list) /\ ExactWaits(q[i].list)
        /\ Seqs(q[i].list) = Seqs(w.list) \cup {x}
        /\ \A j \in 1 .. q[i].at : q[i].list[j].seq <= x
    <3> HIDE DEF w, x
    <3>1. w \in WaitWalk /\ SortedWaits(w.list) /\ ExactWaits(w.list)
      BY <2>1 DEF w
    <3>2. q[i] = Awaited(w, x) /\ x \in Nat
      BY <2>1 DEF w, x
    <3> QED BY <2>2, <2>3, <3>1, <3>2, AwaitedOne
  <2>5. {events[j] : j \in 1 .. i} = {events[j] : j \in 1 .. (i - 1)} \cup {x}
    BY <1>1
  <2>6. Good(i)
    BY <2>1, <2>4, <2>5
  <2> HIDE DEF Good
  <2>7. i \in 0 .. n
    BY <1>1
  <2> QED BY <2>6, <2>7
<1> HIDE DEF Goods
<1>8. \A i \in 0 .. n : i \in Goods
  BY <1>1, <1>6, <1>7, UpTo
<1>9. Good(n)
  <2> HIDE DEF Good
  <2>1. n \in Goods
    BY <1>1, <1>8
  <2> QED BY <2>1 DEF Goods
<1>10. {events[j] : j \in 1 .. n} = ToSet(events)
  BY <1>1 DEF ToSet
<1> QED BY <1>4, <1>9, <1>10, WaitWalkElements

\* The events that are next are those of consecutive numbers.
LEMMA ReadyRun ==
  ASSUME NEW list \in Seq(Wait), SortedWaits(list), nextRecvEventSeq \in Nat,
         \A i \in DOMAIN list : nextRecvEventSeq <= list[i].seq
  PROVE  /\ ReadyCount(list) \in 0 .. Len(list)
         /\ \A i \in 1 .. ReadyCount(list) : list[i].seq = nextRecvEventSeq + i - 1
         /\ \A i \in (ReadyCount(list) + 1) .. Len(list) :
              nextRecvEventSeq + ReadyCount(list) < list[i].seq
<1> DEFINE len == Len(list)
           next == nextRecvEventSeq
           Stop == {k \in 0 .. len : k < len => list[k + 1].seq # next + k}
           Run(k) == /\ \A i \in 1 .. k : list[i].seq = next + i - 1
                     /\ k < len => list[k + 1].seq # next + k
           r == CHOOSE k \in 0 .. len : Run(k)
<1>0. len \in Nat /\ DOMAIN list = 1 .. len /\ next \in Nat
      /\ \A i \in 1 .. len : list[i].seq \in Nat /\ next <= list[i].seq
  <2>1. len \in Nat /\ DOMAIN list = 1 .. len /\ \A i \in 1 .. len : list[i] \in Wait
    OBVIOUS
  <2>2. \A i \in 1 .. len : list[i].seq \in Nat
    BY <2>1 DEF Wait
  <2> QED BY <2>1, <2>2
<1> HIDE DEF len, next
<1>1. len \in Stop /\ Stop \in SUBSET Nat
  BY <1>0
<1>2. PICK m \in Stop : \A k \in Stop : m <= k
  BY <1>1, LeastExists, Zenon
<1>3. ASSUME NEW i \in 1 .. m PROVE list[i].seq = next + i - 1
  <2>1. i - 1 \in 0 .. len /\ i - 1 < len /\ ~(m <= i - 1) /\ (i - 1) + 1 = i
    BY <1>0, <1>2
  <2>2. i - 1 \notin Stop
    BY <1>2, <2>1
  <2>3. list[(i - 1) + 1].seq = next + (i - 1)
    BY <2>1, <2>2
  <2> QED BY <1>0, <2>1, <2>3
<1>4. m \in 0 .. len /\ Run(m)
  BY <1>2, <1>3
<1>5. r \in 0 .. len /\ Run(r)
  <2> HIDE DEF Run
  <2> QED BY <1>4, Zenon
<1>6. ReadyCount(list) = r
  BY Zenon DEF ReadyCount, len, next
<1> HIDE DEF r
<1>7. ASSUME NEW i \in (r + 1) .. len PROVE next + r < list[i].seq
  <2>1. r + 1 \in 1 .. len /\ i \in 1 .. len /\ r < len
    BY <1>0, <1>5
  <2>2. list[r + 1].seq > next + r
    <3>1. list[r + 1].seq \in Nat /\ list[r + 1].seq # next + r /\ next <= list[r + 1].seq
      BY <1>0, <1>5, <2>1
    <3>2. CASE r = 0
      BY <1>0, <3>1, <3>2
    <3>3. CASE r > 0
      <4>1. r \in 1 .. r /\ r \in 1 .. len /\ list[r].seq = next + r - 1 /\ r < r + 1
        BY <1>0, <1>5, <3>3
      <4>2. list[r].seq < list[r + 1].seq
        BY <1>0, <2>1, <4>1 DEF SortedWaits
      <4>3. list[r].seq \in Nat /\ r \in Nat
        BY <1>0, <1>5, <4>1
      <4> HIDE DEF Run
      <4> QED BY <1>0, <3>1, <4>1, <4>2, <4>3
    <3> QED BY <1>5, <3>2, <3>3
  <2>3. CASE i = r + 1
    BY <2>2, <2>3
  <2>4. CASE i > r + 1
    <3>1. list[r + 1].seq < list[i].seq
      BY <1>0, <2>1, <2>4 DEF SortedWaits
    <3>2. list[i].seq \in Nat /\ list[r + 1].seq \in Nat
      BY <1>0, <2>1
    <3> QED BY <1>0, <1>5, <2>2, <3>1, <3>2
  <2> QED BY <1>0, <1>5, <2>3, <2>4
<1> QED BY <1>5, <1>6, <1>7 DEF len, next

-----------------------------------------------------------------------------
(* Lists of unordered events.                                              *)

LEMMA DistinctSplit ==
  ASSUME NEW s \in Seq(Event), IsInjective(s), InOrder(s), NEW k \in 0 .. Len(s)
  PROVE  /\ IsInjective(Initial(s, k)) /\ IsInjective(Remaining(s, k))
         /\ InOrder(Initial(s, k)) /\ InOrder(Remaining(s, k))
         /\ \A e \in ToSet(Initial(s, k)) : e \notin ToSet(Remaining(s, k))
         /\ Before(Initial(s, k), Remaining(s, k))
<1> DEFINE a == Initial(s, k)
           b == Remaining(s, k)
<1>1. /\ DOMAIN a = 1 .. k
      /\ \A i \in DOMAIN a : i \in DOMAIN s /\ a[i] = s[i]
      /\ DOMAIN b = 1 .. (Len(s) - k)
      /\ \A i \in DOMAIN b : k + i \in DOMAIN s /\ b[i] = s[k + i]
  BY SplitElements
<1>2. Len(s) \in Nat /\ k \in Nat /\ DOMAIN s = 1 .. Len(s)
  OBVIOUS
<1> HIDE DEF a, b
<1>3. IsInjective(a)
  BY <1>1, Zenon DEF IsInjective
<1>4. IsInjective(b)
  <2> SUFFICES ASSUME NEW i \in DOMAIN b, NEW j \in DOMAIN b, b[i] = b[j]
               PROVE  i = j
    BY DEF IsInjective
  <2>1. k + i = k + j
    BY <1>1 DEF IsInjective
  <2> QED BY <1>1, <1>2, <2>1
<1>5. InOrder(a)
  BY <1>1 DEF InOrder
<1>6. InOrder(b)
  <2> SUFFICES ASSUME NEW i \in DOMAIN b, NEW j \in DOMAIN b, i < j,
                      b[i].type = "Unguaranteed", b[j].type = "Unguaranteed"
               PROVE  b[i].n < b[j].n
    BY DEF InOrder
  <2>1. k + i < k + j
    BY <1>1, <1>2
  <2> QED BY <1>1, <2>1 DEF InOrder
<1>7. ASSUME NEW i \in DOMAIN a, NEW j \in DOMAIN b
      PROVE  /\ a[i] # b[j]
             /\ (a[i].type = "Unguaranteed" /\ b[j].type = "Unguaranteed")
                  => a[i].n < b[j].n
  <2>1. i < k + j /\ i # k + j
    BY <1>1, <1>2
  <2>2. a[i] = s[i] /\ b[j] = s[k + j] /\ i \in DOMAIN s /\ k + j \in DOMAIN s
    BY <1>1
  <2>3. s[i] # s[k + j]
    BY <2>1, <2>2 DEF IsInjective
  <2>4. (s[i].type = "Unguaranteed" /\ s[k + j].type = "Unguaranteed")
          => s[i].n < s[k + j].n
    BY <2>1, <2>2 DEF InOrder
  <2> QED BY <2>2, <2>3, <2>4
<1>8. \A e \in ToSet(a) : e \notin ToSet(b)
  BY <1>7 DEF ToSet
<1>9. Before(a, b)
  BY <1>7 DEF ToSet, Before
<1> QED BY <1>3, <1>4, <1>5, <1>6, <1>8, <1>9 DEF a, b

LEMMA DistinctAppend ==
  ASSUME NEW s \in Seq(Event), IsInjective(s), InOrder(s), NEW x \in Event,
         x \notin ToSet(s),
         \A e \in ToSet(s) :
           (e.type = "Unguaranteed" /\ x.type = "Unguaranteed") => e.n < x.n
  PROVE  IsInjective(Append(s, x)) /\ InOrder(Append(s, x))
<1> DEFINE t == Append(s, x)
<1>1. /\ Len(s) \in Nat /\ DOMAIN s = 1 .. Len(s)
      /\ DOMAIN t = 1 .. (Len(s) + 1)
      /\ \A i \in DOMAIN s : t[i] = s[i] /\ t[i] \in ToSet(s)
      /\ t[Len(s) + 1] = x
  BY AppendElements, ListElements
<1> HIDE DEF t
<1>2. \A i \in DOMAIN t : i \in DOMAIN s \/ i = Len(s) + 1
  BY <1>1
<1>3. IsInjective(t)
  <2> SUFFICES ASSUME NEW i \in DOMAIN t, NEW j \in DOMAIN t, t[i] = t[j], i # j
               PROVE  FALSE
    BY DEF IsInjective
  <2>1. i \in DOMAIN s /\ j \in DOMAIN s
    BY <1>1, <1>2
  <2> QED BY <1>1, <2>1 DEF IsInjective
<1>4. InOrder(t)
  <2> SUFFICES ASSUME NEW i \in DOMAIN t, NEW j \in DOMAIN t, i < j,
                      t[i].type = "Unguaranteed", t[j].type = "Unguaranteed"
               PROVE  t[i].n < t[j].n
    BY DEF InOrder
  <2>1. i \in DOMAIN s
    BY <1>1, <1>2
  <2>2. CASE j \in DOMAIN s
    BY <1>1, <2>1, <2>2 DEF InOrder
  <2>3. CASE j = Len(s) + 1
    BY <1>1, <2>1, <2>3
  <2> QED BY <1>2, <2>2, <2>3
<1> QED BY <1>3, <1>4 DEF t

\* A guaranteed event put first keeps a list in order.
LEMMA DistinctFirst ==
  ASSUME NEW s \in Seq(Event), IsInjective(s), InOrder(s), NEW x \in Event,
         x.type # "Unguaranteed", x \notin ToSet(s)
  PROVE  /\ <<x>> \o s \in Seq(Event)
         /\ IsInjective(<<x>> \o s) /\ InOrder(<<x>> \o s)
         /\ ToSet(<<x>> \o s) = ToSet(s) \cup {x}
<1> DEFINE o == <<x>>
           t == o \o s
<1>1. o \in Seq(Event) /\ DOMAIN o = 1 .. 1 /\ Len(o) = 1 /\ o[1] = x /\ ToSet(o) = {x}
  BY DEF ToSet
<1> HIDE DEF o
<1>2. /\ t \in Seq(Event)
      /\ DOMAIN t = 1 .. (Len(o) + Len(s))
      /\ \A i \in DOMAIN o : t[i] = o[i]
      /\ \A i \in (Len(o) + 1) .. (Len(o) + Len(s)) :
           i - Len(o) \in DOMAIN s /\ t[i] = s[i - Len(o)]
      /\ ToSet(t) = ToSet(o) \cup ToSet(s)
  <2>1. o \in Seq(Event)
    BY <1>1
  <2> QED BY <2>1, ConcatElements
<1> HIDE DEF t
<1>3. /\ Len(s) \in Nat /\ DOMAIN s = 1 .. Len(s) /\ DOMAIN t = 1 .. (Len(s) + 1)
      /\ \A i \in DOMAIN s : s[i] \in ToSet(s)
  BY <1>1, <1>2, ListElements
<1>4. t[1] = x
  BY <1>1, <1>2
<1>5. \A i \in DOMAIN t : i = 1 \/ (i > 1 /\ i - 1 \in DOMAIN s /\ t[i] = s[i - 1])
  <2> TAKE i \in DOMAIN t
  <2>1. i = 1 \/ i \in (Len(o) + 1) .. (Len(o) + Len(s))
    BY <1>1, <1>3
  <2> QED BY <1>1, <1>2, <1>3, <2>1
<1>6. IsInjective(t)
  <2> SUFFICES ASSUME NEW i \in DOMAIN t, NEW j \in DOMAIN t, t[i] = t[j], i # j
               PROVE  FALSE
    BY DEF IsInjective
  <2>1. i # 1 /\ j # 1
    BY <1>3, <1>4, <1>5
  <2>2. i - 1 \in DOMAIN s /\ j - 1 \in DOMAIN s /\ s[i - 1] = s[j - 1]
    BY <1>5, <2>1
  <2>3. i - 1 = j - 1
    BY <2>2 DEF IsInjective
  <2> QED BY <1>3, <2>3
<1>7. InOrder(t)
  <2> SUFFICES ASSUME NEW i \in DOMAIN t, NEW j \in DOMAIN t, i < j,
                      t[i].type = "Unguaranteed", t[j].type = "Unguaranteed"
               PROVE  t[i].n < t[j].n
    BY DEF InOrder
  <2>1. i # 1 /\ j # 1
    BY <1>3, <1>4
  <2>2. /\ i - 1 \in DOMAIN s /\ j - 1 \in DOMAIN s /\ i - 1 < j - 1
        /\ t[i] = s[i - 1] /\ t[j] = s[j - 1]
    BY <1>3, <1>5, <2>1
  <2> QED BY <2>2 DEF InOrder
<1>8. ToSet(t) = ToSet(s) \cup {x}
  BY <1>1, <1>2
<1> QED BY <1>2, <1>6, <1>7, <1>8 DEF t, o

\* packetDropped: the guaranteed unordered events of a packet go back.
LEMMA RequeuedAll ==
  ASSUME unorderedQueue \in Seq(Event), IsInjective(unorderedQueue),
         InOrder(unorderedQueue),
         NEW events \in Seq(Event), IsInjective(events),
         \A e \in ToSet(events) : e \notin ToSet(unorderedQueue)
  PROVE  /\ AllRequeued(events) \in Seq(Event)
         /\ IsInjective(AllRequeued(events)) /\ InOrder(AllRequeued(events))
         /\ ToSet(AllRequeued(events))
              = ToSet(unorderedQueue) \cup {e \in ToSet(events) : e.type = "Guaranteed"}
<1> DEFINE n == Len(events)
           S == Seq(Event)
           Queues(q) == q = [i \in 0 .. n |->
                               IF i = 0 THEN unorderedQueue
                               ELSE Requeued(q[i - 1], events[i])]
<1>1. n \in Nat /\ \A i \in 1 .. n : events[i] \in Event
      /\ DOMAIN events = 1 .. n
  OBVIOUS
<1>2. \E r : Queues(r)
  <2> DEFINE F == [i \in 1 .. n |-> [s \in S |-> Requeued(s, events[i])]]
  <2>1. \A i \in 1 .. n : \A s \in S : Requeued(s, events[i]) \in S
    <3> SUFFICES ASSUME NEW i \in 1 .. n, NEW s \in S PROVE Requeued(s, events[i]) \in S
      OBVIOUS
    <3>1. <<events[i]>> \in Seq(Event)
      BY <1>1
    <3>2. <<events[i]>> \o s \in Seq(Event)
      BY <3>1
    <3> QED BY <3>2 DEF Requeued
  <2> HIDE DEF S
  <2>2. F \in [1 .. n -> [S -> S]]
    BY <2>1
  <2> HIDE DEF F
  <2>3. PICK r \in [0 .. n -> S] :
          r[0] = unorderedQueue /\ \A i \in 1 .. n : r[i] = F[i][r[i - 1]]
    <3> DEFINE m == n
    <3> HIDE DEF m
    <3>1. m \in Nat /\ F \in Steps(m, S) /\ unorderedQueue \in S
      BY <1>1, <2>2 DEF m, Steps, S
    <3>2. PICK r : Recurses(r, m, S, unorderedQueue, F)
      BY <3>1, RecursionExists
    <3> QED BY <3>2, Zenon DEF m, Recurses
  <2>4. ASSUME NEW i \in 1 .. n PROVE r[i] = Requeued(r[i - 1], events[i])
    <3>1. i - 1 \in 0 .. n
      BY <1>1
    <3> QED BY <2>3, <3>1 DEF F
  <2>5. r = [i \in 0 .. n |->
               IF i = 0 THEN unorderedQueue ELSE Requeued(r[i - 1], events[i])]
    BY <1>1, <2>3, <2>4
  <2> QED BY <2>5
<1> HIDE DEF S
<1>3. PICK q : q = (CHOOSE r : Queues(r)) /\ Queues(q)
  <2> HIDE DEF Queues
  <2> QED BY <1>2, Zenon
<1>4. AllRequeued(events) = q[n]
  BY <1>3, Zenon DEF AllRequeued
<1>5. q[0] = unorderedQueue /\ \A i \in 1 .. n : q[i] = Requeued(q[i - 1], events[i])
  <2>1. q = [i \in 0 .. n |->
               IF i = 0 THEN unorderedQueue ELSE Requeued(q[i - 1], events[i])]
    BY <1>3
  <2> HIDE DEF n
  <2>2. 0 \in 0 .. n /\ \A i \in 1 .. n : i \in 0 .. n /\ i # 0
    BY <1>1
  <2> QED BY <2>1, <2>2
<1> HIDE DEF Queues
<1> DEFINE Put(i) == {events[j] : j \in {j \in 1 .. i : events[j].type = "Guaranteed"}}
           Good(i) == /\ q[i] \in Seq(Event) /\ IsInjective(q[i]) /\ InOrder(q[i])
                      /\ ToSet(q[i]) = ToSet(unorderedQueue) \cup Put(i)
           Goods == {i \in 0 .. n : Good(i)}
<1>6. 0 \in Goods
  BY <1>1, <1>5
<1>7. ASSUME NEW i \in 1 .. n, i - 1 \in Goods PROVE i \in Goods
  <2> DEFINE s == q[i - 1]
             x == events[i]
  <2>1. /\ s \in Seq(Event) /\ IsInjective(s) /\ InOrder(s)
        /\ ToSet(s) = ToSet(unorderedQueue) \cup Put(i - 1)
        /\ q[i] = Requeued(s, x) /\ x \in Event
    BY <1>1, <1>5, <1>7
  <2>2. x \notin ToSet(s)
    <3>1. \A j \in 1 .. (i - 1) : events[j] # x
      <4> TAKE j \in 1 .. (i - 1)
      <4>1. j \in DOMAIN events /\ i \in DOMAIN events /\ j # i
        BY <1>1
      <4> QED BY <4>1 DEF IsInjective
    <3>2. x \notin ToSet(unorderedQueue)
      BY <1>1 DEF ToSet
    <3> QED BY <2>1, <3>1, <3>2
  <2>3. CASE x.type = "Guaranteed"
    <3>1. q[i] = <<x>> \o s /\ x.type # "Unguaranteed"
      BY <2>1, <2>3 DEF Requeued
    <3>2. Put(i) = Put(i - 1) \cup {x}
      BY <1>1, <2>3
    <3> HIDE DEF s, x
    <3>3. /\ q[i] \in Seq(Event) /\ IsInjective(q[i]) /\ InOrder(q[i])
          /\ ToSet(q[i]) = ToSet(s) \cup {x}
      BY <2>1, <2>2, <3>1, DistinctFirst
    <3> HIDE DEF Put
    <3>4. Good(i)
      BY <2>1, <3>2, <3>3
    <3> QED BY <3>4
  <2>4. CASE x.type # "Guaranteed"
    <3>1. q[i] = s
      BY <2>1, <2>4 DEF Requeued
    <3>2. Put(i) = Put(i - 1)
      BY <1>1, <2>4
    <3> HIDE DEF s, x, Put
    <3>3. Good(i)
      BY <2>1, <3>1, <3>2
    <3> QED BY <3>3
  <2> QED BY <2>3, <2>4
<1> HIDE DEF Goods
<1>8. \A i \in 0 .. n : i \in Goods
  BY <1>1, <1>6, <1>7, UpTo
<1>9. Good(n)
  <2> HIDE DEF Good
  <2>1. n \in Goods
    BY <1>1, <1>8
  <2> QED BY <2>1 DEF Goods
<1>10. Put(n) = {e \in ToSet(events) : e.type = "Guaranteed"}
  BY <1>1 DEF ToSet
<1> QED BY <1>4, <1>9, <1>10

-----------------------------------------------------------------------------
(* packetReceived: the run of consecutive acks.                            *)

LEMMA AckedRun ==
  ASSUME lastAckedEventSeq \in Nat \cup {-1}, NEW m \in Nat, NEW list \in SUBSET Nat,
         \A l \in list : lastAckedEventSeq < l /\ l < m
  PROVE  /\ AckedUpTo(list) \in list \cup {lastAckedEventSeq}
         /\ (lastAckedEventSeq + 1) .. AckedUpTo(list) \subseteq list
         /\ AckedUpTo(list) + 1 \notin list
<1> DEFINE last == lastAckedEventSeq
           Gap == {k \in Nat : last + 1 + k \notin list}
           Run(x) == (last + 1) .. x \subseteq list
           r == CHOOSE x \in list \cup {last} : Run(x) /\ x + 1 \notin list
<1>0. last \in Int /\ last >= -1
  OBVIOUS
<1>1. m + 1 \in Gap
  BY <1>0
<1>2. PICK k \in Gap : \A j \in Gap : k <= j
  <2>1. Gap # {} /\ Gap \in SUBSET Nat
    BY <1>1
  <2> HIDE DEF Gap
  <2> QED BY <2>1, LeastExists
<1> DEFINE x == last + k
<1>3. \A l \in (last + 1) .. x : l \in list
  <2> TAKE l \in (last + 1) .. x
  <2>1. l - last - 1 \in Nat /\ ~(k <= l - last - 1) /\ last + 1 + (l - last - 1) = l
    BY <1>0, <1>2
  <2>2. l - last - 1 \notin Gap
    BY <1>2, <2>1
  <2> QED BY <2>1, <2>2
<1>4. x \in list \cup {last}
  <2>1. CASE k = 0
    BY <1>0, <2>1
  <2>2. CASE k > 0
    <3>1. x \in (last + 1) .. x
      BY <1>0, <1>2, <2>2
    <3> QED BY <1>3, <3>1
  <2> QED BY <1>2, <2>1, <2>2
<1>5. x + 1 \notin list
  <2>1. x + 1 = last + 1 + k
    BY <1>0, <1>2
  <2> QED BY <1>2, <2>1
<1>6. Run(x)
  BY <1>3
<1> HIDE DEF Run, x
<1>7. r \in list \cup {last} /\ Run(r) /\ r + 1 \notin list
  BY <1>4, <1>5, <1>6, Zenon
<1>8. AckedUpTo(list) = r
  BY Zenon DEF AckedUpTo, Run
<1> QED BY <1>7, <1>8 DEF Run

-----------------------------------------------------------------------------
(* What the invariant says about the state, in the form the steps use.     *)

OrderedState == OrderedPlaced /\ WaitSorted /\ OrderedRead /\ OrderedInOrder
UnorderedState ==
    PostedInOrder /\ UnorderedPlaced /\ UnorderedRead /\ UnguaranteedInOrder

LEMMA EventTypes ==
  ASSUME EventTypeOK
  PROVE  /\ sendQueue \in Seq(Nat) /\ unorderedQueue \in Seq(Event)
         /\ notifyList \in SUBSET Nat /\ nextSendEventSeq \in Nat
         /\ lastAckedEventSeq \in Nat \cup {-1} /\ lastAckedEventSeq \in Int
         /\ DOMAIN eventList = (notified + 1) .. sent
         /\ \A k \in DOMAIN eventList :
              eventList[k].unordered \in Seq(Event) /\ eventList[k].ordered \in Seq(Nat)
         /\ waitSeqEvents \in Seq(Wait) /\ nextRecvEventSeq \in Nat
         /\ posted \in Seq(Event) /\ processed \in Seq(Event)
         /\ ToSet(sendQueue) \in SUBSET Nat
         /\ \A k \in DOMAIN eventList :
              OrderedIn(k) \in SUBSET Nat /\ UnorderedIn(k) \in SUBSET Event
<1>1. /\ sendQueue \in Seq(Nat) /\ unorderedQueue \in Seq(Event)
      /\ notifyList \in SUBSET Nat /\ nextSendEventSeq \in Nat
      /\ lastAckedEventSeq \in Nat \cup {-1} /\ lastAckedEventSeq \in Int
      /\ DOMAIN eventList = (notified + 1) .. sent
      /\ nextRecvEventSeq \in Nat
      /\ posted \in Seq(Event) /\ processed \in Seq(Event)
  BY DEF EventTypeOK
<1>2. waitSeqEvents \in Seq(Wait)
  BY DEF EventTypeOK, Wait
<1>3. \A k \in DOMAIN eventList :
        eventList[k] \in [unordered : Seq(Event), ordered : Seq(Nat)]
  BY DEF EventTypeOK
<1>4. ASSUME NEW k \in DOMAIN eventList
      PROVE  eventList[k].unordered \in Seq(Event) /\ eventList[k].ordered \in Seq(Nat)
  BY <1>3
<1>5. \A k \in DOMAIN eventList :
        OrderedIn(k) \in SUBSET Nat /\ UnorderedIn(k) \in SUBSET Event
  BY <1>4, ListElements DEF OrderedIn, UnorderedIn
<1>6. ToSet(sendQueue) \in SUBSET Nat
  BY <1>1, ListElements
<1> QED BY <1>1, <1>2, <1>4, <1>5, <1>6

LEMMA UnorderedPosted ==
  ASSUME EventTypeOK, PostedInOrder
  PROVE  \A e \in ToSet(posted) :
           e \in Event /\ ~IsOrdered(e) /\ e.n \in Nat /\ e.n < Len(posted)
<1>1. posted \in Seq(Event)
  BY DEF EventTypeOK
<1> SUFFICES ASSUME NEW i \in DOMAIN posted
             PROVE  /\ posted[i] \in Event /\ ~IsOrdered(posted[i])
                    /\ posted[i].n \in Nat /\ posted[i].n < Len(posted)
  BY DEF ToSet
<1>2. posted[i] \in Event /\ i \in 1 .. Len(posted) /\ Len(posted) \in Nat
  BY <1>1
<1> QED BY <1>2 DEF PostedInOrder, Event

\* The ordered events that are acked have been processed.
LEMMA AckedBehind ==
  ASSUME EventTypeOK, WaitSorted, OrderedRead
  PROVE  /\ lastAckedEventSeq < nextRecvEventSeq
         /\ \A n \in Known : n \in Nat
         /\ nextRecvEventSeq \notin Known
<1>1. /\ lastAckedEventSeq \in Nat \cup {-1} /\ nextRecvEventSeq \in Nat
      /\ waitSeqEvents \in Seq(Wait)
  BY EventTypes
<1>2. \A i \in DOMAIN waitSeqEvents :
        waitSeqEvents[i].seq \in Nat /\ nextRecvEventSeq < waitSeqEvents[i].seq
  <2> TAKE i \in DOMAIN waitSeqEvents
  <2>1. waitSeqEvents[i] \in Wait
    BY <1>1, ListElements
  <2> QED BY <2>1 DEF WaitSorted, Wait
<1>3. nextRecvEventSeq \notin Known /\ \A n \in Known : n \in Nat
  BY <1>1, <1>2 DEF Known, Awaiting
<1>4. ~(nextRecvEventSeq \in 0 .. lastAckedEventSeq)
  BY <1>3 DEF OrderedRead
<1>5. lastAckedEventSeq < nextRecvEventSeq
  BY <1>1, <1>4
<1> QED BY <1>3, <1>5

-----------------------------------------------------------------------------
(* The initial state, and the steps that touch few lists.                  *)

LEMMA EventInitInv == EventInit => EventIInv
<1> SUFFICES ASSUME EventInit PROVE EventIInv
  OBVIOUS
<1> DEFINE z == <<>>
<1>1. z \in Seq(Nat) /\ z \in Seq(Event) /\ z \in Seq(Wait) /\ DOMAIN z = {}
      /\ Len(z) = 0
  OBVIOUS
<1>2. /\ sendQueue = z /\ unorderedQueue = z /\ notifyList = {}
      /\ nextSendEventSeq = 0 /\ lastAckedEventSeq = -1 /\ DOMAIN eventList = {}
      /\ waitSeqEvents = z /\ nextRecvEventSeq = 0 /\ posted = z /\ processed = z
      /\ told = {} /\ sent = notified
  BY DEF EventInit, ServiceInit
<1> HIDE DEF z
<1>3. ToSet(z) = {}
  BY <1>1 DEF ToSet
<1>4. ServiceInv
  BY ServiceInitInv DEF EventInit
<1>5. EventTypeOK
  <2>1. (notified + 1) .. sent = {}
    BY <1>2, <1>4 DEF ServiceInv
  <2> QED BY <1>1, <1>2, <2>1 DEF EventTypeOK, Wait
<1>6. Known = {}
  BY <1>1, <1>2 DEF Known, Awaiting
<1>7. OrderedPlaced
  BY <1>1, <1>2, <1>3 DEF OrderedPlaced, Ascending
<1>8. WaitSorted
  BY <1>1, <1>2 DEF WaitSorted
<1>9. OrderedRead
  BY <1>2, <1>3, <1>6 DEF OrderedRead
<1>10. OrderedInOrder
  BY <1>1, <1>2, <1>3 DEF OrderedInOrder
<1>11. PostedInOrder /\ UnguaranteedInOrder
  BY <1>1, <1>2 DEF PostedInOrder, UnguaranteedInOrder
<1>12. UnorderedPlaced
  BY <1>1, <1>2, <1>3 DEF UnorderedPlaced, IsInjective, InOrder
<1>13. UnorderedRead
  BY <1>1, <1>2, <1>3 DEF UnorderedRead, Before
<1>14. OrderedTold /\ UnorderedTold
  BY <1>2, <1>3 DEF OrderedTold, UnorderedTold
<1> QED BY <1>4, <1>5, <1>7, <1>8, <1>9, <1>10, <1>11, <1>12, <1>13, <1>14
        DEF EventIInv

LEMMA PostOrderedInv ==
  ASSUME EventIInv, PostOrdered
  PROVE  EventIInv'
<1> DEFINE n == nextSendEventSeq
           q == Append(sendQueue, n)
<1>0. ServiceInv /\ EventTypeOK
  BY DEF EventIInv
<1>1. /\ UNCHANGED <<unorderedQueue, notifyList, lastAckedEventSeq, eventList,
                     waitSeqEvents, nextRecvEventSeq, processed, posted, told>>
      /\ UNCHANGED serviceVars /\ UNCHANGED <<floor, read, open>>
      /\ nextSendEventSeq' = nextSendEventSeq + 1 /\ sendQueue' = q
  BY DEF PostOrdered, receiverVars, serviceVars
<1>2. /\ n \in Nat /\ sendQueue \in Seq(Nat) /\ ToSet(sendQueue) \in SUBSET Nat
      /\ \A x \in ToSet(sendQueue) : x < n
      /\ \A x \in notifyList : x < n
      /\ \A k \in DOMAIN eventList : \A x \in OrderedIn(k) : x < n
      /\ lastAckedEventSeq \in Int /\ lastAckedEventSeq < n
      /\ Ascending(sendQueue)
  BY <1>0, EventTypes DEF EventIInv, OrderedPlaced
<1>3. q \in Seq(Nat) /\ ToSet(q) = ToSet(sendQueue) \cup {n} /\ Ascending(q)
  BY <1>2, AppendElements, AscendingAppend
<1> HIDE DEF q
<1>4. ServiceInv'
  BY <1>0, <1>1 DEF serviceVars, ServiceInv
<1>5. EventTypeOK'
  <2>1. sent' = sent /\ notified' = notified
    BY <1>1 DEF serviceVars
  <2> QED BY <1>0, <1>1, <1>2, <1>3, <2>1 DEF EventTypeOK
<1>6. \A k : OrderedIn(k)' = OrderedIn(k) /\ UnorderedIn(k)' = UnorderedIn(k)
  BY <1>1 DEF OrderedIn, UnorderedIn
<1>7. Known' = Known
  BY <1>1 DEF Known, Awaiting
<1>8. OrderedPlaced'
  <2>1. n \notin notifyList /\ \A k \in DOMAIN eventList : n \notin OrderedIn(k)
    BY <1>2
  <2>2. \A x \in ToSet(sendQueue) : lastAckedEventSeq < x /\ x < n + 1 /\ x \notin notifyList
    BY <1>0, <1>2, EventTypes DEF EventIInv, OrderedPlaced
  <2>3. \A x \in ToSet(q) : lastAckedEventSeq < x /\ x < n + 1 /\ x \notin notifyList
    BY <1>2, <1>3, <2>1, <2>2
  <2>4. \A x \in notifyList : lastAckedEventSeq + 1 < x /\ x < n + 1
    BY <1>0, <1>2, EventTypes DEF EventIInv, OrderedPlaced
  <2>5. ASSUME NEW k \in DOMAIN eventList
        PROVE  /\ Ascending(eventList[k].ordered)
               /\ \A x \in OrderedIn(k) :
                    /\ lastAckedEventSeq < x /\ x < n + 1 /\ InEventWindow(x)
                    /\ x \notin notifyList /\ x \notin ToSet(q)
                    /\ \A l \in DOMAIN eventList : x \in OrderedIn(l) => l = k
    <3>1. OrderedIn(k) \in SUBSET Nat
      BY <1>0, EventTypes
    <3> QED BY <1>2, <1>3, <2>1, <3>1 DEF EventIInv, OrderedPlaced
  <2>6. \A x \in (lastAckedEventSeq + 1) .. ((n + 1) - 1) :
          \/ x \in ToSet(q) \/ x \in notifyList
          \/ \E k \in DOMAIN eventList : x \in OrderedIn(k)
    <3> TAKE x \in (lastAckedEventSeq + 1) .. ((n + 1) - 1)
    <3>1. x = n \/ x \in (lastAckedEventSeq + 1) .. (n - 1)
      BY <1>2
    <3> QED BY <1>3, <3>1 DEF EventIInv, OrderedPlaced
  <2>7. \A x : InEventWindow(x)' = InEventWindow(x)
    BY <1>1 DEF InEventWindow
  <2>8. lastAckedEventSeq < n + 1
    BY <1>2
  <2> QED BY <1>1, <1>3, <1>6, <2>3, <2>4, <2>5, <2>6, <2>7, <2>8 DEF OrderedPlaced
<1>9. WaitSorted' /\ OrderedInOrder'
  BY <1>1 DEF EventIInv, WaitSorted, OrderedInOrder
<1>10. OrderedRead'
  <2>1. \A x \in Known : x \in Nat /\ x < n
    BY <1>0, AckedBehind DEF EventIInv, OrderedRead
  <2>2. n \notin Known /\ \A x \in Known : x < n + 1
    BY <1>2, <2>1
  <2> QED BY <1>1, <1>3, <1>6, <1>7, <2>2 DEF EventIInv, OrderedRead
<1>11. UnorderedState'
  BY <1>1, <1>6
     DEF EventIInv, UnorderedState, PostedInOrder, UnorderedPlaced, UnorderedRead,
         UnguaranteedInOrder
<1>12. open' => OrderedTold' /\ UnorderedTold'
  BY <1>1, <1>6 DEF EventIInv, OrderedTold, UnorderedTold
<1> QED BY <1>4, <1>5, <1>8, <1>9, <1>10, <1>11, <1>12 DEF EventIInv, UnorderedState

LEMMA LosePacketInv ==
  ASSUME EventIInv, NEW k \in (floor + 1) .. sent, LosePacket(k)
  PROVE  EventIInv'
<1>0. ServiceInv /\ EventTypeOK
  BY DEF EventIInv
<1>1. /\ UNCHANGED <<sendQueue, unorderedQueue, notifyList, nextSendEventSeq,
                     lastAckedEventSeq, eventList, waitSeqEvents, nextRecvEventSeq,
                     processed, posted, told, read, open, sent, notified>>
      /\ floor' = k
  BY DEF LosePacket, Skip, eventVars, senderVars, receiverVars
<1>2. ServiceInv'
  BY <1>0, SkipInv DEF LosePacket
<1>3. EventTypeOK'
  BY <1>0, <1>1 DEF EventTypeOK
<1>4. /\ \A l : OrderedIn(l)' = OrderedIn(l) /\ UnorderedIn(l)' = UnorderedIn(l)
      /\ Known' = Known /\ \A x : InEventWindow(x)' = InEventWindow(x)
  BY <1>1 DEF OrderedIn, UnorderedIn, Known, Awaiting, InEventWindow
<1>5. OrderedPlaced' /\ WaitSorted' /\ OrderedRead' /\ OrderedInOrder'
  BY <1>1, <1>4 DEF EventIInv, OrderedPlaced, WaitSorted, OrderedRead, OrderedInOrder
<1>6. PostedInOrder' /\ UnorderedPlaced' /\ UnguaranteedInOrder'
  BY <1>1, <1>4 DEF EventIInv, PostedInOrder, UnorderedPlaced, UnguaranteedInOrder
<1>7. UnorderedRead'
  <2>1. \A l \in DOMAIN eventList : l > floor' => l > floor
    <3>1. /\ \A l \in DOMAIN eventList : l \in Nat
          /\ floor \in Nat /\ k \in Nat /\ floor < k
      BY <1>0, EventTypes DEF ServiceInv
    <3> QED BY <1>1, <3>1
  <2> QED BY <1>1, <1>4, <2>1 DEF EventIInv, UnorderedRead
<1>8. open' => OrderedTold' /\ UnorderedTold'
  BY <1>1, <1>4 DEF EventIInv, OrderedTold, UnorderedTold
<1> QED BY <1>2, <1>3, <1>5, <1>6, <1>7, <1>8 DEF EventIInv

LEMMA DestroyInv ==
  ASSUME EventIInv, Destroy
  PROVE  EventIInv'
<1>0. ServiceInv /\ EventTypeOK
  BY DEF EventIInv
<1>1. /\ UNCHANGED <<sendQueue, unorderedQueue, notifyList, nextSendEventSeq,
                     lastAckedEventSeq, eventList, waitSeqEvents, nextRecvEventSeq,
                     processed, posted, read, floor, sent, notified>>
      /\ open' = FALSE
  BY DEF Destroy, Close, senderVars, receiverVars
<1>2. ServiceInv'
  BY <1>0, CloseInv DEF Destroy
<1>3. EventTypeOK'
  <2>1. Dropped \subseteq Event
    <3>1. (notified + 1) .. sent = DOMAIN eventList
      BY <1>0, EventTypes
    <3>2. \A k \in (notified + 1) .. sent : ToSet(eventList[k].unordered) \subseteq Event
      BY <1>0, <3>1, EventTypes DEF UnorderedIn
    <3> QED BY <3>2 DEF Dropped
  <2>2. LeftInLists \subseteq Event
    <3>1. (notified + 1) .. sent = DOMAIN eventList
      BY <1>0, EventTypes
    <3>2. \A k \in (notified + 1) .. sent : ToSet(eventList[k].ordered) \subseteq Nat
      BY <1>0, <3>1, EventTypes DEF OrderedIn
    <3>3. notifyList \subseteq Nat /\ ToSet(sendQueue) \subseteq Nat
      BY <1>0, EventTypes
    <3>4. ToSet(unorderedQueue) \subseteq Event
      <4>1. unorderedQueue \in Seq(Event)
        BY <1>0, EventTypes
      <4> QED BY <4>1, ListElements
    <3> DEFINE Numbers == notifyList \cup ToSet(sendQueue)
                            \cup (IF Ghosting
                                  THEN UNION {ToSet(eventList[k].ordered)
                                                : k \in (notified + 1) .. sent}
                                  ELSE {})
    <3>5. Numbers \subseteq Nat
      BY <3>2, <3>3
    <3>6. LeftInLists = {Ordered(n) : n \in Numbers} \cup ToSet(unorderedQueue)
                          \cup {e \in Dropped : e.type = "Guaranteed"}
      BY DEF LeftInLists
    <3> HIDE DEF Numbers
    <3>7. {Ordered(n) : n \in Numbers} \subseteq Event
      BY <3>5, OrderedEvent
    <3> QED BY <2>1, <3>4, <3>6, <3>7
  <2>3. told' \in SUBSET [event : Event, madeIt : BOOLEAN]
    <3>1. told \in SUBSET [event : Event, madeIt : BOOLEAN]
      BY <1>0 DEF EventTypeOK
    <3>2. told' = told \cup Tell({e \in Dropped : e.type = "Unguaranteed"}, FALSE)
                    \cup Tell(LeftInLists, TRUE)
      BY DEF Destroy
    <3>3. ASSUME NEW S \in SUBSET Event, NEW b \in BOOLEAN
          PROVE  Tell(S, b) \subseteq [event : Event, madeIt : BOOLEAN]
      BY DEF Tell
    <3>4. {e \in Dropped : e.type = "Unguaranteed"} \in SUBSET Event
      BY <2>1
    <3>5. /\ Tell({e \in Dropped : e.type = "Unguaranteed"}, FALSE)
               \subseteq [event : Event, madeIt : BOOLEAN]
          /\ Tell(LeftInLists, TRUE) \subseteq [event : Event, madeIt : BOOLEAN]
      BY <2>2, <3>3, <3>4
    <3> QED BY <3>1, <3>2, <3>5
  <2> QED BY <1>0, <1>1, <2>3 DEF EventTypeOK
<1>4. /\ \A l : OrderedIn(l)' = OrderedIn(l) /\ UnorderedIn(l)' = UnorderedIn(l)
      /\ Known' = Known /\ \A x : InEventWindow(x)' = InEventWindow(x)
  BY <1>1 DEF OrderedIn, UnorderedIn, Known, Awaiting, InEventWindow
<1>5. OrderedPlaced' /\ WaitSorted' /\ OrderedRead' /\ OrderedInOrder'
  BY <1>1, <1>4 DEF EventIInv, OrderedPlaced, WaitSorted, OrderedRead, OrderedInOrder
<1>6. PostedInOrder' /\ UnorderedPlaced' /\ UnorderedRead' /\ UnguaranteedInOrder'
  BY <1>1, <1>4
     DEF EventIInv, PostedInOrder, UnorderedPlaced, UnorderedRead, UnguaranteedInOrder
<1> QED BY <1>1, <1>2, <1>3, <1>5, <1>6 DEF EventIInv

LEMMA PostUnorderedInv ==
  ASSUME EventIInv, NEW type \in Guarantee \ {"GuaranteedOrdered"}, PostUnordered(type)
  PROVE  EventIInv'
<1> DEFINE x == [type |-> type, n |-> Len(posted)]
           q == Append(unorderedQueue, x)
           p == Append(posted, x)
<1>0. ServiceInv /\ EventTypeOK /\ PostedInOrder
  BY DEF EventIInv
<1>1. /\ UNCHANGED <<sendQueue, notifyList, nextSendEventSeq, lastAckedEventSeq,
                     eventList, waitSeqEvents, nextRecvEventSeq, processed, told>>
      /\ UNCHANGED serviceVars /\ UNCHANGED <<floor, read, open, sent, notified>>
      /\ posted' = p /\ unorderedQueue' = q
  BY DEF PostUnordered, receiverVars, serviceVars
<1>2. /\ posted \in Seq(Event) /\ unorderedQueue \in Seq(Event) /\ Len(posted) \in Nat
      /\ processed \in Seq(Event)
      /\ \A k \in DOMAIN eventList : UnorderedIn(k) \in SUBSET Event
      /\ DOMAIN posted = 1 .. Len(posted)
  BY <1>0, EventTypes, ListElements
<1>3. x \in Event /\ ~IsOrdered(x) /\ x.n = Len(posted)
  BY <1>2 DEF Event, IsOrdered, Guarantee
<1>4. \A e \in ToSet(posted) : e \in Event /\ e.n < x.n /\ e # x
  BY <1>0, <1>2, <1>3, UnorderedPosted
<1> HIDE DEF x
<1>5. /\ p \in Seq(Event) /\ ToSet(p) = ToSet(posted) \cup {x}
      /\ DOMAIN p = 1 .. (Len(posted) + 1)
      /\ \A i \in DOMAIN posted : p[i] = posted[i]
      /\ p[Len(posted) + 1] = x
  BY <1>2, <1>3, AppendElements
<1>6. /\ ToSet(unorderedQueue) \subseteq ToSet(posted)
      /\ \A k \in DOMAIN eventList : UnorderedIn(k) \subseteq ToSet(posted)
      /\ \A e \in ToSet(processed) : IsOrdered(e) \/ e \in ToSet(posted)
      /\ IsInjective(unorderedQueue) /\ InOrder(unorderedQueue)
  BY DEF EventIInv, UnorderedPlaced, UnorderedRead
<1>7. /\ q \in Seq(Event) /\ ToSet(q) = ToSet(unorderedQueue) \cup {x}
      /\ IsInjective(q) /\ InOrder(q)
  <2>1. x \notin ToSet(unorderedQueue) /\ \A e \in ToSet(unorderedQueue) : e.n < x.n
    BY <1>4, <1>6
  <2> QED BY <1>2, <1>3, <1>6, <2>1, AppendElements, DistinctAppend
<1> HIDE DEF p, q
<1>8. ServiceInv'
  BY <1>0, <1>1 DEF serviceVars, ServiceInv
<1>9. EventTypeOK'
  BY <1>0, <1>1, <1>5, <1>7 DEF EventTypeOK
<1>10. /\ \A k : OrderedIn(k)' = OrderedIn(k) /\ UnorderedIn(k)' = UnorderedIn(k)
       /\ Known' = Known /\ \A n : InEventWindow(n)' = InEventWindow(n)
  BY <1>1 DEF OrderedIn, UnorderedIn, Known, Awaiting, InEventWindow
<1>11. OrderedPlaced' /\ WaitSorted' /\ OrderedRead' /\ OrderedInOrder'
  BY <1>1, <1>10 DEF EventIInv, OrderedPlaced, WaitSorted, OrderedRead, OrderedInOrder
<1>12. PostedInOrder'
  <2>1. \A i \in DOMAIN p : p[i].n = i - 1 /\ ~IsOrdered(p[i])
    <3> TAKE i \in DOMAIN p
    <3>1. i \in DOMAIN posted \/ i = Len(posted) + 1
      BY <1>2, <1>5
    <3>2. CASE i \in DOMAIN posted
      BY <1>0, <1>5, <3>2 DEF PostedInOrder
    <3>3. CASE i = Len(posted) + 1
      BY <1>2, <1>3, <1>5, <3>3
    <3> QED BY <3>1, <3>2, <3>3
  <2> QED BY <1>1, <2>1 DEF PostedInOrder
<1>13. UnguaranteedInOrder'
  BY <1>1 DEF EventIInv, UnguaranteedInOrder
<1>14. \A s : Before(s, unorderedQueue)
                /\ (\A e \in ToSet(s) : IsOrdered(e) \/ e \in ToSet(posted))
              => Before(s, q)
  BY <1>4, <1>7 DEF Before, IsOrdered
<1>15. UnorderedPlaced'
  <2>1. ASSUME NEW k \in DOMAIN eventList
        PROVE  /\ IsInjective(eventList[k].unordered) /\ InOrder(eventList[k].unordered)
               /\ Before(eventList[k].unordered, q)
               /\ \A l \in DOMAIN eventList :
                    k < l => Before(eventList[k].unordered, eventList[l].unordered)
               /\ \A e \in UnorderedIn(k) :
                    /\ e \in ToSet(p) /\ e \notin ToSet(q)
                    /\ \A l \in DOMAIN eventList : e \in UnorderedIn(l) => l = k
    <3>1. /\ IsInjective(eventList[k].unordered) /\ InOrder(eventList[k].unordered)
          /\ Before(eventList[k].unordered, unorderedQueue)
          /\ \A l \in DOMAIN eventList :
               k < l => Before(eventList[k].unordered, eventList[l].unordered)
          /\ \A e \in UnorderedIn(k) :
               /\ e \in ToSet(posted) /\ e \notin ToSet(unorderedQueue)
               /\ \A l \in DOMAIN eventList : e \in UnorderedIn(l) => l = k
      BY DEF EventIInv, UnorderedPlaced
    <3>2. Before(eventList[k].unordered, q)
      BY <1>6, <1>14, <3>1 DEF UnorderedIn
    <3>3. \A e \in UnorderedIn(k) : e # x
      BY <1>4, <3>1
    <3> QED BY <1>5, <1>7, <3>1, <3>2, <3>3
  <2>2. ToSet(q) \subseteq ToSet(p)
    BY <1>5, <1>6, <1>7
  <2> QED BY <1>1, <1>7, <1>10, <2>1, <2>2 DEF UnorderedPlaced
<1>16. x \notin ToSet(processed)
  BY <1>3, <1>4, <1>6
<1>17. UnorderedRead'
  <2>1. /\ ToSet(processed) \cap ToSet(unorderedQueue) = {}
        /\ Before(processed, unorderedQueue)
        /\ \A k \in DOMAIN eventList :
             /\ k > floor => Before(processed, eventList[k].unordered)
             /\ IF k \in read THEN UnorderedIn(k) \subseteq ToSet(processed)
                ELSE UnorderedIn(k) \cap ToSet(processed) = {}
    BY DEF EventIInv, UnorderedRead
  <2>2. Before(processed, q)
    BY <1>6, <1>14, <2>1
  <2>3. \A e \in ToSet(processed) : IsOrdered(e) \/ e \in ToSet(p)
    BY <1>5, <1>6
  <2>4. ToSet(processed) \cap ToSet(q) = {}
    BY <1>7, <1>16, <2>1
  <2> QED BY <1>1, <1>10, <2>1, <2>2, <2>3, <2>4 DEF UnorderedRead
<1>18. ASSUME open' PROVE OrderedTold' /\ UnorderedTold'
  <2>1. OrderedTold /\ UnorderedTold
    BY <1>1, <1>18 DEF EventIInv
  <2>2. OrderedTold'
    BY <1>1, <2>1 DEF OrderedTold
  <2>3. \A t \in told :
          IsOrdered(t.event) \/
            /\ t.event \in ToSet(p) /\ t.event \notin ToSet(q)
            /\ \A k \in DOMAIN eventList : t.event \notin UnorderedIn(k)
            /\ t.madeIt <=> (t.event \in ToSet(processed))
    <3> TAKE t \in told
    <3>1. IsOrdered(t.event) \/
            /\ t.event \in ToSet(posted) /\ t.event \notin ToSet(unorderedQueue)
            /\ \A k \in DOMAIN eventList : t.event \notin UnorderedIn(k)
            /\ t.madeIt <=> (t.event \in ToSet(processed))
      BY <2>1 DEF UnorderedTold
    <3>2. t.event \in ToSet(posted) => t.event # x
      BY <1>4
    <3> QED BY <1>5, <1>7, <3>1, <3>2, Zenon
  <2>4. \A e \in ToSet(p) :
          \/ e \in ToSet(q)
          \/ \E k \in DOMAIN eventList : e \in UnorderedIn(k)
          \/ \E t \in told : t.event = e
    BY <1>5, <1>7, <2>1 DEF UnorderedTold
  <2>5. UnorderedTold'
    BY <1>1, <1>10, <2>3, <2>4 DEF UnorderedTold
  <2> QED BY <2>2, <2>5
<1> QED BY <1>8, <1>9, <1>11, <1>12, <1>13, <1>15, <1>17, <1>18 DEF EventIInv

LEMMA WritePacketInv ==
  ASSUME EventIInv, WritePacket
  PROVE  EventIInv'
<1>m. PICK m : m = sent + 1
  OBVIOUS
<1>0. ServiceInv /\ EventTypeOK /\ OrderedPlaced /\ OrderedRead /\ UnorderedPlaced
      /\ UnorderedRead
  BY DEF EventIInv
<1>1. /\ UNCHANGED <<notifyList, nextSendEventSeq, lastAckedEventSeq, waitSeqEvents,
                     nextRecvEventSeq, posted, processed, told, notified, floor, read,
                     open>>
      /\ sent' = m
  BY <1>m DEF WritePacket, Write, receiverVars
<1>2. PICK i \in 0 .. Len(unorderedQueue), j \in 0 .. Len(sendQueue) :
        /\ \A k \in 1 .. j : InEventWindow(sendQueue[k])
        /\ eventList' = [k \in DOMAIN eventList \cup {m} |->
                           IF k \in DOMAIN eventList THEN eventList[k]
                           ELSE [unordered |-> Initial(unorderedQueue, i),
                                 ordered |-> Initial(sendQueue, j)]]
        /\ unorderedQueue' = Remaining(unorderedQueue, i)
        /\ sendQueue' = Remaining(sendQueue, j)
  BY <1>m DEF WritePacket
<1> DEFINE a == Initial(unorderedQueue, i)
           b == Remaining(unorderedQueue, i)
           c == Initial(sendQueue, j)
           d == Remaining(sendQueue, j)
           K == DOMAIN eventList
<1>3. /\ sendQueue \in Seq(Nat) /\ unorderedQueue \in Seq(Event)
      /\ K = (notified + 1) .. sent
      /\ \A k \in K : eventList[k].unordered \in Seq(Event)
                      /\ eventList[k].ordered \in Seq(Nat)
  BY <1>0, EventTypes
<1>4. /\ m \notin K /\ m \notin read /\ m > floor /\ \A k \in K : k < m
      /\ K \cup {m} = (notified + 1) .. m
      /\ \A k \in K : k > floor => k > floor'
  <2>1. /\ notified \in Nat /\ floor \in Nat /\ sent \in Nat
        /\ notified <= floor /\ floor <= sent /\ read \subseteq (First + 1) .. floor
        /\ First \in Nat
    BY <1>0 DEF ServiceInv
  <2>2. m \notin read
    BY <1>m, <2>1
  <2> QED BY <1>m, <1>1, <1>3, <2>1, <2>2
<1> HIDE DEF K
<1>5. /\ DOMAIN eventList' = K \cup {m}
      /\ \A k \in K : eventList'[k] = eventList[k]
      /\ eventList'[m] = [unordered |-> a, ordered |-> c]
      /\ eventList'[m].unordered = a /\ eventList'[m].ordered = c
      /\ unorderedQueue' = b /\ sendQueue' = d
  BY <1>2, <1>4 DEF K
<1>6. /\ Ascending(sendQueue) /\ IsInjective(unorderedQueue) /\ InOrder(unorderedQueue)
  BY <1>0 DEF OrderedPlaced, UnorderedPlaced
<1>7. /\ c \in Seq(Nat) /\ d \in Seq(Nat) /\ Ascending(c) /\ Ascending(d)
      /\ ToSet(sendQueue) = ToSet(c) \cup ToSet(d)
      /\ \A x \in ToSet(c) : x \notin ToSet(d)
  BY <1>2, <1>3, <1>6, SplitElements, AscendingSplit
<1>8. \A x \in ToSet(c) : InEventWindow(x)
  <2>1. /\ DOMAIN c = 1 .. j /\ \A l \in DOMAIN c : c[l] = sendQueue[l]
    BY <1>2, <1>3, SplitElements
  <2> HIDE DEF c
  <2> QED BY <1>2, <2>1 DEF ToSet
<1>9. /\ a \in Seq(Event) /\ b \in Seq(Event)
      /\ ToSet(unorderedQueue) = ToSet(a) \cup ToSet(b)
  BY <1>2, <1>3, SplitElements
<1>10. /\ IsInjective(a) /\ InOrder(a) /\ IsInjective(b) /\ InOrder(b)
       /\ \A e \in ToSet(a) : e \notin ToSet(b)
       /\ Before(a, b)
  BY <1>2, <1>3, <1>6, DistinctSplit
<1> HIDE DEF a, b, c, d
<1>11. /\ \A k \in K : OrderedIn(k)' = OrderedIn(k) /\ UnorderedIn(k)' = UnorderedIn(k)
       /\ OrderedIn(m)' = ToSet(c) /\ UnorderedIn(m)' = ToSet(a)
       /\ Known' = Known /\ \A n : InEventWindow(n)' = InEventWindow(n)
  BY <1>1, <1>5 DEF OrderedIn, UnorderedIn, Known, Awaiting, InEventWindow
<1>12. \A s : Before(s, unorderedQueue) => Before(s, a) /\ Before(s, b)
  BY <1>9 DEF Before
<1>13. ServiceInv'
  BY <1>0, WriteInv DEF WritePacket
<1>14. EventTypeOK'
  <2>1. DOMAIN eventList' = (notified' + 1) .. sent'
    BY <1>1, <1>4, <1>5
  <2>2. \A k \in DOMAIN eventList' :
          eventList'[k] \in [unordered : Seq(Event), ordered : Seq(Nat)]
    <3> TAKE k \in DOMAIN eventList'
    <3>1. CASE k \in K
      BY <1>0, <1>5, <3>1 DEF EventTypeOK, K
    <3>2. CASE k = m
      BY <1>5, <1>7, <1>9, <3>2
    <3> QED BY <1>5, <3>1, <3>2
  <2> QED BY <1>0, <1>1, <1>5, <1>7, <1>9, <2>1, <2>2 DEF EventTypeOK
<1>15. OrderedPlaced'
  <2>1. \A n \in ToSet(d) :
          lastAckedEventSeq < n /\ n < nextSendEventSeq /\ n \notin notifyList
    BY <1>0, <1>7 DEF OrderedPlaced
  <2>2. \A n \in notifyList : lastAckedEventSeq + 1 < n /\ n < nextSendEventSeq
    BY <1>0 DEF OrderedPlaced
  <2>3. ASSUME NEW k \in K \cup {m}
        PROVE  /\ Ascending(eventList'[k].ordered)
               /\ \A n \in OrderedIn(k)' :
                    /\ lastAckedEventSeq < n /\ n < nextSendEventSeq /\ InEventWindow(n)
                    /\ n \notin notifyList /\ n \notin ToSet(d)
                    /\ \A l \in K \cup {m} : n \in OrderedIn(l)' => l = k
    <3>1. CASE k \in K
      <4>1. /\ Ascending(eventList[k].ordered)
            /\ \A n \in OrderedIn(k) :
                 /\ lastAckedEventSeq < n /\ n < nextSendEventSeq /\ InEventWindow(n)
                 /\ n \notin notifyList /\ n \notin ToSet(sendQueue)
                 /\ \A l \in K : n \in OrderedIn(l) => l = k
        BY <1>0, <3>1 DEF OrderedPlaced, K
      <4> QED BY <1>5, <1>7, <1>11, <3>1, <4>1
    <3>2. CASE k = m
      <4>1. ASSUME NEW n \in ToSet(c)
            PROVE  /\ lastAckedEventSeq < n /\ n < nextSendEventSeq /\ InEventWindow(n)
                   /\ n \notin notifyList /\ n \notin ToSet(d)
        BY <1>0, <1>7, <1>8 DEF OrderedPlaced
      <4>2. ASSUME NEW n \in ToSet(c), NEW l \in K
            PROVE  n \notin OrderedIn(l)
        BY <1>0, <1>7 DEF OrderedPlaced, K
      <4> QED BY <1>5, <1>7, <1>11, <3>2, <4>1, <4>2
    <3> QED BY <3>1, <3>2
  <2>4. \A n \in (lastAckedEventSeq + 1) .. (nextSendEventSeq - 1) :
          \/ n \in ToSet(d) \/ n \in notifyList
          \/ \E k \in K \cup {m} : n \in OrderedIn(k)'
    <3> TAKE n \in (lastAckedEventSeq + 1) .. (nextSendEventSeq - 1)
    <3>1. \/ n \in ToSet(sendQueue) \/ n \in notifyList
          \/ \E k \in K : n \in OrderedIn(k)
      BY <1>0 DEF OrderedPlaced, K
    <3> QED BY <1>7, <1>11, <3>1
  <2>5. lastAckedEventSeq < nextSendEventSeq
    BY <1>0 DEF OrderedPlaced
  <2> QED BY <1>1, <1>5, <1>7, <1>11, <2>1, <2>2, <2>3, <2>4, <2>5 DEF OrderedPlaced
<1>16. WaitSorted' /\ OrderedInOrder' /\ PostedInOrder' /\ UnguaranteedInOrder'
  BY <1>1 DEF EventIInv, WaitSorted, OrderedInOrder, PostedInOrder, UnguaranteedInOrder
<1>17. OrderedRead'
  <2>1. /\ \A n \in Known : n < nextSendEventSeq
        /\ Known \cap ToSet(sendQueue) = {}
        /\ notifyList \subseteq Known /\ 0 .. lastAckedEventSeq \subseteq Known
        /\ \A k \in K : IF k \in read THEN OrderedIn(k) \subseteq Known
                        ELSE OrderedIn(k) \cap Known = {}
    BY <1>0 DEF OrderedRead, K
  <2>2. Known \cap ToSet(d) = {} /\ ToSet(c) \cap Known = {}
    BY <1>7, <2>1
  <2> QED BY <1>1, <1>4, <1>5, <1>11, <2>1, <2>2 DEF OrderedRead
<1>18. UnorderedPlaced'
  <2>1. ToSet(a) \subseteq ToSet(posted) /\ ToSet(b) \subseteq ToSet(posted)
    BY <1>0, <1>9 DEF UnorderedPlaced
  <2>2. ASSUME NEW k \in K \cup {m}
        PROVE  /\ IsInjective(eventList'[k].unordered) /\ InOrder(eventList'[k].unordered)
               /\ Before(eventList'[k].unordered, b)
               /\ \A l \in K \cup {m} :
                    k < l => Before(eventList'[k].unordered, eventList'[l].unordered)
               /\ \A e \in UnorderedIn(k)' :
                    /\ e \in ToSet(posted) /\ e \notin ToSet(b)
                    /\ \A l \in K \cup {m} : e \in UnorderedIn(l)' => l = k
    <3>1. CASE k \in K
      <4>1. /\ IsInjective(eventList[k].unordered) /\ InOrder(eventList[k].unordered)
            /\ Before(eventList[k].unordered, unorderedQueue)
            /\ \A l \in K : k < l => Before(eventList[k].unordered, eventList[l].unordered)
            /\ \A e \in UnorderedIn(k) :
                 /\ e \in ToSet(posted) /\ e \notin ToSet(unorderedQueue)
                 /\ \A l \in K : e \in UnorderedIn(l) => l = k
        BY <1>0, <3>1 DEF UnorderedPlaced, K
      <4> QED BY <1>5, <1>9, <1>11, <1>12, <3>1, <4>1
    <3>2. CASE k = m
      <4>1. \A l \in K : ~(m < l)
        <5>1. \A l \in K : l \in Nat /\ l < m
          BY <1>0, <1>3, <1>4 DEF ServiceInv
        <5> QED BY <1>m, <1>0, <5>1 DEF ServiceInv
      <4>2. ~(m < m)
        BY <1>m, <1>0 DEF ServiceInv
      <4>3. \A e \in ToSet(a) : \A l \in K : e \notin UnorderedIn(l)
        BY <1>0, <1>9 DEF UnorderedPlaced, K
      <4> QED BY <1>5, <1>10, <1>11, <2>1, <3>2, <4>1, <4>2, <4>3
    <3> QED BY <3>1, <3>2
  <2> QED BY <1>1, <1>5, <1>10, <2>1, <2>2 DEF UnorderedPlaced
<1>19. UnorderedRead'
  <2>1. /\ \A e \in ToSet(processed) : IsOrdered(e) \/ e \in ToSet(posted)
        /\ ToSet(processed) \cap ToSet(unorderedQueue) = {}
        /\ Before(processed, unorderedQueue)
        /\ \A k \in K :
             /\ k > floor => Before(processed, eventList[k].unordered)
             /\ IF k \in read THEN UnorderedIn(k) \subseteq ToSet(processed)
                ELSE UnorderedIn(k) \cap ToSet(processed) = {}
    BY <1>0 DEF UnorderedRead, K
  <2>2. /\ ToSet(processed) \cap ToSet(b) = {} /\ ToSet(a) \cap ToSet(processed) = {}
        /\ Before(processed, a) /\ Before(processed, b)
    BY <1>9, <1>12, <2>1
  <2> QED BY <1>1, <1>4, <1>5, <1>11, <2>1, <2>2 DEF UnorderedRead
<1>20. ASSUME open' PROVE OrderedTold' /\ UnorderedTold'
  <2>1. OrderedTold /\ UnorderedTold
    BY <1>1, <1>20 DEF EventIInv
  <2>2. OrderedTold'
    BY <1>1, <2>1 DEF OrderedTold
  <2>3. \A t \in told :
          IsOrdered(t.event) \/
            /\ t.event \in ToSet(posted) /\ t.event \notin ToSet(b)
            /\ \A k \in K \cup {m} : t.event \notin UnorderedIn(k)'
            /\ t.madeIt <=> (t.event \in ToSet(processed))
    <3> TAKE t \in told
    <3>1. IsOrdered(t.event) \/
            /\ t.event \in ToSet(posted) /\ t.event \notin ToSet(unorderedQueue)
            /\ \A k \in K : t.event \notin UnorderedIn(k)
            /\ t.madeIt <=> (t.event \in ToSet(processed))
      BY <2>1 DEF UnorderedTold, K
    <3> QED BY <1>9, <1>11, <3>1
  <2>4. \A e \in ToSet(posted) :
          \/ e \in ToSet(b)
          \/ \E k \in K \cup {m} : e \in UnorderedIn(k)'
          \/ \E t \in told : t.event = e
    <3> TAKE e \in ToSet(posted)
    <3>1. \/ e \in ToSet(unorderedQueue)
          \/ \E k \in K : e \in UnorderedIn(k)
          \/ \E t \in told : t.event = e
      BY <2>1 DEF UnorderedTold, K
    <3> QED BY <1>9, <1>11, <3>1
  <2>5. UnorderedTold'
    BY <1>1, <1>5, <2>3, <2>4 DEF UnorderedTold
  <2> QED BY <2>2, <2>5
<1> QED BY <1>13, <1>14, <1>15, <1>16, <1>17, <1>18, <1>19, <1>20 DEF EventIInv

-----------------------------------------------------------------------------
(* readPacket.                                                             *)

\* x comes before y in the list.
Precedes(list, x, y) == \E i, j \in DOMAIN list : i < j /\ list[i] = x /\ list[j] = y

LEMMA ConcatPrecedes ==
  ASSUME NEW S, NEW s \in Seq(S), NEW t \in Seq(S), NEW x, NEW y,
         Precedes(s \o t, x, y)
  PROVE  \/ Precedes(s, x, y) \/ Precedes(t, x, y)
         \/ x \in ToSet(s) /\ y \in ToSet(t)
<1> DEFINE u == s \o t
<1>1. /\ Len(s) \in Nat /\ Len(t) \in Nat
      /\ DOMAIN s = 1 .. Len(s) /\ DOMAIN t = 1 .. Len(t)
      /\ DOMAIN u = 1 .. (Len(s) + Len(t))
      /\ \A i \in DOMAIN s : u[i] = s[i]
      /\ \A i \in (Len(s) + 1) .. (Len(s) + Len(t)) :
           i - Len(s) \in DOMAIN t /\ u[i] = t[i - Len(s)]
  BY ConcatElements
<1>2. PICK i \in DOMAIN u, j \in DOMAIN u : i < j /\ u[i] = x /\ u[j] = y
  BY DEF Precedes
<1> HIDE DEF u
<1>3. CASE j <= Len(s)
  <2>1. i \in DOMAIN s /\ j \in DOMAIN s
    BY <1>1, <1>2, <1>3
  <2>2. s[i] = x /\ s[j] = y
    BY <1>1, <1>2, <2>1
  <2> QED BY <1>2, <2>1, <2>2 DEF Precedes
<1>4. CASE i > Len(s)
  <2>1. /\ i \in (Len(s) + 1) .. (Len(s) + Len(t))
        /\ j \in (Len(s) + 1) .. (Len(s) + Len(t))
        /\ i - Len(s) < j - Len(s)
    BY <1>1, <1>2, <1>4
  <2>2. /\ i - Len(s) \in DOMAIN t /\ t[i - Len(s)] = x
        /\ j - Len(s) \in DOMAIN t /\ t[j - Len(s)] = y
    BY <1>1, <1>2, <2>1
  <2> QED BY <2>1, <2>2 DEF Precedes
<1>5. CASE i <= Len(s) /\ j > Len(s)
  <2>1. i \in DOMAIN s /\ j \in (Len(s) + 1) .. (Len(s) + Len(t))
    BY <1>1, <1>2, <1>5
  <2>2. s[i] = x /\ j - Len(s) \in DOMAIN t /\ t[j - Len(s)] = y
    BY <1>1, <1>2, <2>1
  <2> QED BY <2>1, <2>2 DEF ToSet
<1> QED BY <1>1, <1>2, <1>3, <1>4, <1>5

\* The order of the events processed, in terms of Precedes.
OrderedRise(s) ==
    \A x, y : (Precedes(s, x, y) /\ IsOrdered(x) /\ IsOrdered(y)) => x.n < y.n
OthersRise(s) ==
    \A x, y : (Precedes(s, x, y) /\ ~IsOrdered(x) /\ ~IsOrdered(y)) =>
                 /\ x # y
                 /\ (x.type = "Unguaranteed" /\ y.type = "Unguaranteed") => x.n < y.n
OrderedNumbers(s) == {e.n : e \in {e \in ToSet(s) : IsOrdered(e)}}

LEMMA InOrderPrecedes ==
  ASSUME NEW s \in Seq(Event)
  PROVE  /\ (\A i, j \in 1 .. Len(s) :
               (i < j /\ IsOrdered(s[i]) /\ IsOrdered(s[j])) => s[i].n < s[j].n)
              <=> OrderedRise(s)
         /\ (\A i, j \in 1 .. Len(s) :
               (i < j /\ ~IsOrdered(s[i]) /\ ~IsOrdered(s[j])) =>
                  /\ s[i] # s[j]
                  /\ (s[i].type = "Unguaranteed" /\ s[j].type = "Unguaranteed")
                       => s[i].n < s[j].n)
              <=> OthersRise(s)
<1>1. DOMAIN s = 1 .. Len(s)
  OBVIOUS
<1> QED BY <1>1, Zenon DEF Precedes, OrderedRise, OthersRise

LEMMA DistinctPrecedes ==
  ASSUME NEW s \in Seq(Event), IsInjective(s), InOrder(s), NEW x, NEW y,
         Precedes(s, x, y)
  PROVE  /\ x # y /\ x \in ToSet(s) /\ y \in ToSet(s)
         /\ (x.type = "Unguaranteed" /\ y.type = "Unguaranteed") => x.n < y.n
<1>1. DOMAIN s = 1 .. Len(s) /\ Len(s) \in Nat
  BY ListElements
<1>2. PICK i \in DOMAIN s, j \in DOMAIN s : i < j /\ s[i] = x /\ s[j] = y
  BY DEF Precedes
<1>3. i # j
  BY <1>1, <1>2
<1> QED BY <1>2, <1>3 DEF IsInjective, InOrder, ToSet

\* The ordered events of a packet read, in the wait list.
LEMMA ReadWaits ==
  ASSUME EventIInv, NEW k \in DOMAIN eventList, k \notin read,
         NEW list, list = AllAwaited(eventList[k].ordered),
         NEW ready, ready = ReadyCount(list)
  PROVE  /\ list \in Seq(Wait) /\ ready \in 0 .. Len(list)
         /\ Remaining(list, ready) \in Seq(Wait)
         /\ SortedWaits(Remaining(list, ready)) /\ ExactWaits(Remaining(list, ready))
         /\ \A i \in DOMAIN Remaining(list, ready) :
              nextRecvEventSeq + ready < Remaining(list, ready)[i].seq
         /\ 0 .. (nextRecvEventSeq + ready - 1) \cup Seqs(Remaining(list, ready))
              = Known \cup OrderedIn(k)
         /\ \A i \in 1 .. ready : list[i].event = Ordered(nextRecvEventSeq + i - 1)
<1> DEFINE next == nextRecvEventSeq
           es == eventList[k].ordered
<1>0. EventTypeOK /\ OrderedPlaced /\ WaitSorted /\ OrderedRead
  BY DEF EventIInv
<1>1. /\ waitSeqEvents \in Seq(Wait) /\ next \in Nat /\ es \in Seq(Nat)
      /\ lastAckedEventSeq \in Int /\ OrderedIn(k) = ToSet(es)
      /\ OrderedIn(k) \in SUBSET Nat
  BY <1>0, EventTypes DEF OrderedIn
<1>2. /\ SortedWaits(waitSeqEvents) /\ ExactWaits(waitSeqEvents)
      /\ \A i \in DOMAIN waitSeqEvents : next < waitSeqEvents[i].seq
      /\ Ascending(es)
      /\ \A n \in OrderedIn(k) : InEventWindow(n)
      /\ OrderedIn(k) \cap Known = {}
  BY <1>0 DEF WaitSorted, SortedWaits, ExactWaits, OrderedPlaced, OrderedRead
<1>3. Known = 0 .. (next - 1) \cup Seqs(waitSeqEvents)
  BY DEF Known, Awaiting, Seqs
<1>4. lastAckedEventSeq < next
  BY <1>0, AckedBehind
<1>5. \A n \in OrderedIn(k) :
        next <= n /\ n < next + EventSeqSpace /\ n \notin Seqs(waitSeqEvents)
  <2> TAKE n \in OrderedIn(k)
  <2>1. n \in Nat /\ n \notin 0 .. (next - 1) /\ n \notin Seqs(waitSeqEvents)
    BY <1>1, <1>2, <1>3
  <2>2. n <= lastAckedEventSeq + EventWindow
    BY <1>2 DEF InEventWindow
  <2> QED BY <1>1, <1>4, <2>1, <2>2, EventAssumption
<1> HIDE DEF es, next
<1>6. /\ list \in Seq(Wait) /\ SortedWaits(list) /\ ExactWaits(list)
      /\ Seqs(list) = Seqs(waitSeqEvents) \cup OrderedIn(k)
  <2>1. \A n \in ToSet(es) :
          next <= n /\ n < next + EventSeqSpace /\ n \notin Seqs(waitSeqEvents)
    BY <1>1, <1>5
  <2> QED BY <1>1, <1>2, <2>1, AwaitedAll DEF es, next
<1>7. /\ Len(list) \in Nat /\ DOMAIN list = 1 .. Len(list)
      /\ \A i \in DOMAIN list : list[i].seq \in Nat
      /\ \A i \in DOMAIN waitSeqEvents : waitSeqEvents[i].seq \in Nat
  <2>1. ASSUME NEW s \in Seq(Wait)
        PROVE  /\ Len(s) \in Nat /\ DOMAIN s = 1 .. Len(s)
               /\ \A i \in DOMAIN s : s[i].seq \in Nat
    <3>1. \A i \in DOMAIN s : s[i] \in Wait
      BY ListElements
    <3> QED BY <3>1 DEF Wait
  <2> QED BY <1>1, <1>6, <2>1
<1>8. \A n \in Seqs(list) : next <= n
  BY <1>1, <1>2, <1>5, <1>6, <1>7 DEF Seqs
<1>9. \A i \in DOMAIN list : next <= list[i].seq
  BY <1>8 DEF Seqs
<1>10. /\ ready \in 0 .. Len(list)
       /\ \A i \in 1 .. ready : list[i].seq = next + i - 1
       /\ \A i \in (ready + 1) .. Len(list) : next + ready < list[i].seq
  BY <1>1, <1>6, <1>9, ReadyRun DEF next
<1> DEFINE rest == Remaining(list, ready)
<1>11. /\ rest \in Seq(Wait) /\ DOMAIN rest = 1 .. (Len(list) - ready)
       /\ \A i \in DOMAIN rest : ready + i \in DOMAIN list /\ rest[i] = list[ready + i]
  BY <1>6, <1>10, SplitElements
<1> HIDE DEF rest
<1>12. SortedWaits(rest) /\ ExactWaits(rest)
  <2>1. ASSUME NEW i \in DOMAIN rest, NEW j \in DOMAIN rest, i < j
        PROVE  rest[i].seq < rest[j].seq
    <3>1. /\ ready + i \in DOMAIN list /\ ready + j \in DOMAIN list /\ ready + i < ready + j
          /\ rest[i] = list[ready + i] /\ rest[j] = list[ready + j]
      BY <1>7, <1>10, <1>11, <2>1
    <3> QED BY <1>6, <3>1 DEF SortedWaits
  <2> QED BY <1>6, <1>11, <2>1 DEF SortedWaits, ExactWaits
<1>13. \A i \in DOMAIN rest : next + ready < rest[i].seq
  <2> TAKE i \in DOMAIN rest
  <2>1. ready + i \in (ready + 1) .. Len(list) /\ rest[i] = list[ready + i]
    BY <1>7, <1>10, <1>11
  <2> QED BY <1>10, <2>1
<1>14. Seqs(list) = next .. (next + ready - 1) \cup Seqs(rest)
  <2>1. ASSUME NEW n \in Seqs(list) PROVE n \in next .. (next + ready - 1) \cup Seqs(rest)
    <3>1. PICK i \in DOMAIN list : n = list[i].seq
      BY DEF Seqs
    <3>2. CASE i <= ready
      <4>1. n = next + i - 1
        BY <1>7, <1>10, <3>1, <3>2
      <4> QED BY <1>1, <1>7, <1>10, <3>2, <4>1
    <3>3. CASE i > ready
      <4>1. i - ready \in DOMAIN rest /\ ready + (i - ready) = i
        BY <1>7, <1>10, <1>11, <3>3
      <4>2. rest[i - ready].seq = n
        BY <1>11, <3>1, <4>1
      <4> QED BY <4>1, <4>2 DEF Seqs
    <3> QED BY <1>7, <1>10, <3>2, <3>3
  <2>2. ASSUME NEW n \in next .. (next + ready - 1) PROVE n \in Seqs(list)
    <3>1. n - next + 1 \in 1 .. ready /\ next + (n - next + 1) - 1 = n
          /\ n - next + 1 \in DOMAIN list
      BY <1>1, <1>7, <1>10
    <3>2. list[n - next + 1].seq = n
      BY <1>10, <3>1
    <3> QED BY <3>1, <3>2 DEF Seqs
  <2>3. Seqs(rest) \subseteq Seqs(list)
    BY <1>11 DEF Seqs
  <2> QED BY <2>1, <2>2, <2>3
<1>15. 0 .. (next + ready - 1) \cup Seqs(rest) = Known \cup OrderedIn(k)
  <2>1. 0 .. (next + ready - 1) = 0 .. (next - 1) \cup next .. (next + ready - 1)
    BY <1>1, <1>10
  <2> QED BY <1>3, <1>6, <1>14, <2>1
<1>16. \A i \in 1 .. ready : list[i].event = Ordered(next + i - 1)
  <2> TAKE i \in 1 .. ready
  <2>1. i \in DOMAIN list
    BY <1>7, <1>10
  <2>2. list[i].event = Ordered(list[i].seq) /\ list[i].seq = next + i - 1
    BY <1>6, <1>10, <2>1 DEF ExactWaits
  <2> QED BY <2>2
<1> QED BY <1>6, <1>10, <1>11, <1>12, <1>13, <1>15, <1>16 DEF rest, next

\* The next ordered events.
IsReadyRun(r, ready) ==
    /\ r \in Seq(Event) /\ DOMAIN r = 1 .. ready
    /\ \A i \in 1 .. ready : r[i] = Ordered(nextRecvEventSeq + i - 1)

\* The events processed after packet k and the ready ordered events.
LEMMA ReadProcessed ==
  ASSUME EventIInv, NEW k \in DOMAIN eventList, k \notin read, k > floor,
         NEW ready \in Nat, NEW r, IsReadyRun(r, ready),
         NEW p, p = processed \o eventList[k].unordered \o r
  PROVE  /\ p \in Seq(Event)
         /\ ToSet(p) = ToSet(processed) \cup UnorderedIn(k) \cup ToSet(r)
         /\ \A e \in ToSet(r) : IsOrdered(e)
         /\ OrderedRise(p) /\ OthersRise(p)
         /\ OrderedNumbers(p) = 0 .. (nextRecvEventSeq + ready - 1)
<1> DEFINE next == nextRecvEventSeq
           u == eventList[k].unordered
           s == processed \o u
<1>0. EventTypeOK /\ PostedInOrder
  BY DEF EventIInv
<1>r. /\ r \in Seq(Event) /\ DOMAIN r = 1 .. ready
      /\ \A i \in 1 .. ready : r[i] = Ordered(next + i - 1)
  BY Zenon DEF IsReadyRun
<1>1. /\ next \in Nat /\ processed \in Seq(Event) /\ u \in Seq(Event)
      /\ UnorderedIn(k) = ToSet(u)
  BY <1>0, EventTypes DEF UnorderedIn
<1>2. \A i \in 1 .. ready : next + i - 1 \in Nat
  BY <1>1
<1>3. /\ \A e \in ToSet(u) : ~IsOrdered(e)
      /\ IsInjective(u) /\ InOrder(u)
      /\ ToSet(u) \cap ToSet(processed) = {} /\ Before(processed, u)
  <2>1. /\ IsInjective(u) /\ InOrder(u) /\ UnorderedIn(k) \subseteq ToSet(posted)
    BY DEF EventIInv, UnorderedPlaced
  <2>2. /\ UnorderedIn(k) \cap ToSet(processed) = {} /\ Before(processed, u)
    BY DEF EventIInv, UnorderedRead
  <2> QED BY <1>0, <1>1, <2>1, <2>2, UnorderedPosted
<1>4. ASSUME NEW e \in ToSet(r)
      PROVE  IsOrdered(e) /\ e.n \in Nat /\ e.n >= next /\ e.n < next + ready
  <2>1. PICK i \in 1 .. ready : e = Ordered(next + i - 1)
    BY <1>r DEF ToSet
  <2>2. e.n = next + i - 1 /\ IsOrdered(e)
    BY <1>2, <2>1, OrderedEvent
  <2> QED BY <1>1, <2>2
<1>5. \A e \in ToSet(processed) : IsOrdered(e) => e.n \in Nat /\ e.n < next
  <2> TAKE e \in ToSet(processed)
  <2>1. IsOrdered(e) => e.n \in 0 .. (next - 1)
    BY DEF EventIInv, OrderedInOrder
  <2> QED BY <1>1, <2>1
<1> HIDE DEF u
<1>6. s \in Seq(Event) /\ ToSet(s) = ToSet(processed) \cup ToSet(u)
  BY <1>1, ConcatElements
<1>7. p \in Seq(Event) /\ ToSet(p) = ToSet(s) \cup ToSet(r)
  <2> HIDE DEF s
  <2>1. p = s \o r
    BY DEF s, u
  <2> QED BY <1>r, <1>6, <2>1, ConcatElements
<1>8. ASSUME NEW x, NEW y, Precedes(p, x, y)
      PROVE  \/ Precedes(processed, x, y) \/ Precedes(u, x, y) \/ Precedes(r, x, y)
             \/ x \in ToSet(processed) /\ y \in ToSet(u)
             \/ x \in ToSet(processed) \cup ToSet(u) /\ y \in ToSet(r)
  <2> HIDE DEF s
  <2>1. p = s \o r
    BY DEF s, u
  <2>2. Precedes(s, x, y) \/ Precedes(r, x, y) \/ (x \in ToSet(s) /\ y \in ToSet(r))
    BY <1>r, <1>6, <1>8, <2>1, ConcatPrecedes
  <2>3. Precedes(s, x, y) => \/ Precedes(processed, x, y) \/ Precedes(u, x, y)
                             \/ x \in ToSet(processed) /\ y \in ToSet(u)
    BY <1>1, ConcatPrecedes DEF s
  <2> QED BY <1>6, <2>2, <2>3
<1> HIDE DEF s
<1>9. \A q, x, y : Precedes(q, x, y) => x \in ToSet(q) /\ y \in ToSet(q)
  BY DEF Precedes, ToSet
<1>10. ASSUME NEW x, NEW y, Precedes(r, x, y) PROVE x.n < y.n
  <2>1. PICK i \in 1 .. ready, j \in 1 .. ready : i < j /\ r[i] = x /\ r[j] = y
    BY <1>r, <1>10 DEF Precedes
  <2>2. x.n = next + i - 1 /\ y.n = next + j - 1
    BY <1>r, <1>2, <2>1, OrderedEvent
  <2> QED BY <1>1, <2>1, <2>2
<1>11. ASSUME NEW x, NEW y, Precedes(p, x, y), IsOrdered(x), IsOrdered(y)
       PROVE  x.n < y.n
  <2>1. x \notin ToSet(u) /\ y \notin ToSet(u)
    BY <1>3, <1>11
  <2>2. CASE Precedes(processed, x, y)
    <3>1. OrderedRise(processed)
      BY <1>1, InOrderPrecedes DEF EventIInv, OrderedInOrder
    <3> QED BY <1>11, <2>2, <3>1 DEF OrderedRise
  <2>3. CASE Precedes(r, x, y)
    BY <1>10, <2>3
  <2>4. CASE x \in ToSet(processed) /\ y \in ToSet(r)
    <3>1. x.n \in Nat /\ x.n < next /\ y.n \in Nat /\ y.n >= next
      BY <1>4, <1>5, <1>11, <2>4
    <3> QED BY <1>1, <3>1
  <2> QED BY <1>8, <1>9, <1>11, <2>1, <2>2, <2>3, <2>4
<1>12. ASSUME NEW x, NEW y, Precedes(p, x, y), ~IsOrdered(x), ~IsOrdered(y)
       PROVE  /\ x # y
              /\ (x.type = "Unguaranteed" /\ y.type = "Unguaranteed") => x.n < y.n
  <2>1. y \notin ToSet(r)
    BY <1>4, <1>12
  <2>2. CASE Precedes(processed, x, y)
    <3>1. OthersRise(processed)
      BY <1>1, InOrderPrecedes DEF EventIInv, UnguaranteedInOrder
    <3> QED BY <1>12, <2>2, <3>1 DEF OthersRise
  <2>3. CASE Precedes(u, x, y)
    BY <1>1, <1>3, <2>3, DistinctPrecedes
  <2>4. CASE x \in ToSet(processed) /\ y \in ToSet(u)
    BY <1>3, <2>4 DEF Before
  <2> QED BY <1>8, <1>9, <1>12, <2>1, <2>2, <2>3, <2>4
<1>13. OrderedNumbers(p) = 0 .. (next + ready - 1)
  <2> DEFINE N == {e.n : e \in {e \in ToSet(processed) : IsOrdered(e)}}
             M == {e.n : e \in ToSet(r)}
  <2>1. N = 0 .. (next - 1)
    BY DEF EventIInv, OrderedInOrder
  <2>2. M = next .. (next + ready - 1)
    <3>1. \A e \in ToSet(r) : e.n \in next .. (next + ready - 1)
      BY <1>1, <1>4
    <3>2. ASSUME NEW n \in next .. (next + ready - 1) PROVE \E e \in ToSet(r) : e.n = n
      <4>1. n - next + 1 \in 1 .. ready /\ next + (n - next + 1) - 1 = n /\ n \in Nat
        BY <1>1
      <4>2. r[n - next + 1] = Ordered(n)
        BY <1>r, <4>1
      <4> QED BY <1>r, <4>1, <4>2, OrderedEvent DEF ToSet
    <3> QED BY <3>1, <3>2
  <2>3. {e \in ToSet(p) : IsOrdered(e)}
          = {e \in ToSet(processed) : IsOrdered(e)} \cup ToSet(r)
    BY <1>3, <1>4, <1>6, <1>7
  <2>4. OrderedNumbers(p) = N \cup M
    BY <2>3 DEF OrderedNumbers
  <2> HIDE DEF N, M
  <2> QED BY <1>1, <2>1, <2>2, <2>4
<1>14. OrderedRise(p) /\ OthersRise(p)
  BY <1>11, <1>12, Zenon DEF OrderedRise, OthersRise
<1> QED BY <1>1, <1>4, <1>6, <1>7, <1>13, <1>14

LEMMA ReadPacketInv ==
  ASSUME EventIInv, NEW k \in (floor + 1) .. sent, ReadPacket(k)
  PROVE  EventIInv'
<1> DEFINE next == nextRecvEventSeq
           K == DOMAIN eventList
<1>0. /\ ServiceInv /\ EventTypeOK /\ PostedInOrder /\ OrderedPlaced /\ OrderedRead
      /\ UnorderedPlaced /\ UnorderedRead
  BY DEF EventIInv
<1>1. /\ UNCHANGED <<sendQueue, unorderedQueue, notifyList, nextSendEventSeq,
                     lastAckedEventSeq, eventList, posted, told, sent, notified, open>>
      /\ floor' = k /\ k \in K /\ k > floor
      /\ ServiceInv' /\ k \notin read /\ read' = read \cup {k}
      /\ \A l \in K : l > k => l > floor
  <2>1. /\ UNCHANGED <<sendQueue, unorderedQueue, notifyList, nextSendEventSeq,
                       lastAckedEventSeq, eventList, posted, told, sent, notified, open>>
        /\ floor' = k
    BY DEF ReadPacket, Read, senderVars
  <2>2. /\ ServiceInv' /\ k \notin read /\ k > notified /\ k \in Nat
        /\ read' = read \cup {k}
    BY <1>0, ReadInv DEF ReadPacket
  <2>3. K = (notified + 1) .. sent /\ floor \in Nat /\ notified \in Nat /\ sent \in Nat
    BY <1>0, EventTypes DEF ServiceInv
  <2> QED BY <2>1, <2>2, <2>3
<1>2. PICK list, ready :
        /\ list = AllAwaited(eventList[k].ordered) /\ ready = ReadyCount(list)
        /\ processed' = processed \o eventList[k].unordered
                          \o [i \in 1 .. ready |-> list[i].event]
        /\ waitSeqEvents' = Remaining(list, ready)
        /\ nextRecvEventSeq' = next + ready
  BY DEF ReadPacket
<1>r. PICK r : r = [i \in 1 .. ready |-> list[i].event]
  OBVIOUS
<1>s. PICK rest : rest = Remaining(list, ready)
  OBVIOUS
<1>3. /\ list \in Seq(Wait) /\ ready \in 0 .. Len(list)
      /\ rest \in Seq(Wait) /\ SortedWaits(rest) /\ ExactWaits(rest)
      /\ \A i \in DOMAIN rest : next + ready < rest[i].seq
      /\ 0 .. (next + ready - 1) \cup Seqs(rest) = Known \cup OrderedIn(k)
      /\ \A i \in 1 .. ready : list[i].event = Ordered(next + i - 1)
  BY <1>s, <1>1, <1>2, ReadWaits
<1>4. /\ next \in Nat /\ ready \in Nat /\ next + ready \in Nat
  BY <1>0, <1>3, EventTypes, ListElements
<1>5. /\ r \in Seq(Event) /\ DOMAIN r = 1 .. ready
      /\ \A i \in 1 .. ready : r[i] = Ordered(next + i - 1)
  <2>1. \A i \in 1 .. ready : next + i - 1 \in Nat
    BY <1>4
  <2>2. \A i \in 1 .. ready : list[i].event \in Event
    BY <1>3, <2>1, OrderedEvent
  <2>3. r \in [1 .. ready -> Event] /\ \A i \in 1 .. ready : r[i] = list[i].event
    BY <1>r, <2>2
  <2>4. r \in Seq(Event) /\ DOMAIN r = 1 .. ready
    BY <1>4, <2>3
  <2> QED BY <1>3, <2>3, <2>4, Zenon
<1>6. PICK p : p = processed \o eventList[k].unordered \o r
  OBVIOUS
<1>7. processed' = p /\ waitSeqEvents' = rest
  BY <1>r, <1>s, <1>2, <1>6
<1>8. /\ p \in Seq(Event)
      /\ ToSet(p) = ToSet(processed) \cup UnorderedIn(k) \cup ToSet(r)
      /\ \A e \in ToSet(r) : IsOrdered(e)
      /\ OrderedRise(p) /\ OthersRise(p)
      /\ OrderedNumbers(p) = 0 .. (next + ready - 1)
  <2>1. /\ k \in DOMAIN eventList /\ k \notin read /\ k > floor
        /\ ready \in Nat /\ IsReadyRun(r, ready)
        /\ p = processed \o eventList[k].unordered \o r
    BY <1>1, <1>4, <1>5, <1>6 DEF IsReadyRun
  <2> QED BY <2>1, ReadProcessed
<1>9. EventTypeOK'
  BY <1>0, <1>1, <1>2, <1>3, <1>4, <1>7, <1>8 DEF EventTypeOK, Wait
<1>10. /\ \A l : OrderedIn(l)' = OrderedIn(l) /\ UnorderedIn(l)' = UnorderedIn(l)
       /\ \A x : InEventWindow(x)' = InEventWindow(x)
  BY <1>1 DEF OrderedIn, UnorderedIn, InEventWindow
<1>11. Known' = Known \cup OrderedIn(k)
  <2>1. Known' = 0 .. (nextRecvEventSeq' - 1) \cup Seqs(waitSeqEvents')
    BY Zenon DEF Known, Awaiting, Seqs
  <2>2. nextRecvEventSeq' - 1 = next + ready - 1
    BY <1>2, <1>4
  <2>3. Known' = 0 .. (next + ready - 1) \cup Seqs(rest)
    BY <1>7, <2>1, <2>2, Zenon
  <2> QED BY <1>3, <2>3, Zenon
<1>12. OrderedPlaced' /\ PostedInOrder' /\ UnorderedPlaced'
  BY <1>0, <1>1, <1>10 DEF OrderedPlaced, PostedInOrder, UnorderedPlaced
<1>13. WaitSorted'
  BY <1>2, <1>3, <1>7 DEF WaitSorted, SortedWaits, ExactWaits
<1>14. OrderedInOrder'
  <2>1. (\A i, j \in 1 .. Len(p) :
           (i < j /\ IsOrdered(p[i]) /\ IsOrdered(p[j])) => p[i].n < p[j].n)
    BY <1>8, InOrderPrecedes
  <2>2. /\ \A i, j \in 1 .. Len(processed') :
             (i < j /\ IsOrdered(processed'[i]) /\ IsOrdered(processed'[j])) =>
                processed'[i].n < processed'[j].n
        /\ OrderedNumbers(processed') = 0 .. (nextRecvEventSeq' - 1)
    <3>1. nextRecvEventSeq' - 1 = next + ready - 1
      BY <1>2, <1>4
    <3> QED BY <1>7, <1>8, <2>1, <3>1, Zenon
  <2> QED BY <2>2, Zenon DEF OrderedInOrder, OrderedNumbers, IsOrdered
<1>15. UnguaranteedInOrder'
  <2>1. \A i, j \in 1 .. Len(p) :
           (i < j /\ ~IsOrdered(p[i]) /\ ~IsOrdered(p[j])) =>
              /\ p[i] # p[j]
              /\ (p[i].type = "Unguaranteed" /\ p[j].type = "Unguaranteed")
                   => p[i].n < p[j].n
    BY <1>8, InOrderPrecedes
  <2> QED BY <1>7, <2>1 DEF UnguaranteedInOrder
<1>16. OrderedRead'
  <2>1. /\ \A n \in Known : n < nextSendEventSeq
        /\ Known \cap ToSet(sendQueue) = {}
        /\ notifyList \subseteq Known /\ 0 .. lastAckedEventSeq \subseteq Known
        /\ \A l \in K : IF l \in read THEN OrderedIn(l) \subseteq Known
                        ELSE OrderedIn(l) \cap Known = {}
    BY <1>0 DEF OrderedRead
  <2>2. /\ \A n \in OrderedIn(k) : n < nextSendEventSeq /\ n \notin ToSet(sendQueue)
        /\ \A l \in K : l # k => OrderedIn(l) \cap OrderedIn(k) = {}
    BY <1>0, <1>1 DEF OrderedPlaced
  <2>3. \A l \in K : IF l \in read \cup {k} THEN OrderedIn(l) \subseteq Known \cup OrderedIn(k)
                     ELSE OrderedIn(l) \cap (Known \cup OrderedIn(k)) = {}
    BY <2>1, <2>2
  <2>4. /\ \A n \in Known \cup OrderedIn(k) : n < nextSendEventSeq
        /\ (Known \cup OrderedIn(k)) \cap ToSet(sendQueue) = {}
        /\ notifyList \subseteq Known \cup OrderedIn(k)
        /\ 0 .. lastAckedEventSeq \subseteq Known \cup OrderedIn(k)
    BY <2>1, <2>2
  <2> QED BY <1>1, <1>10, <1>11, <2>3, <2>4 DEF OrderedRead
<1>17. /\ \A l \in K : \A e \in UnorderedIn(l) :
             /\ ~IsOrdered(e) /\ e \in ToSet(posted) /\ e \notin ToSet(unorderedQueue)
             /\ e \notin ToSet(r) /\ (l # k => e \notin UnorderedIn(k))
       /\ \A e \in ToSet(unorderedQueue) : ~IsOrdered(e) /\ e \notin ToSet(r)
  BY <1>0, <1>1, <1>8, UnorderedPosted DEF UnorderedPlaced
<1>18. UnorderedRead'
  <2>1. /\ \A e \in ToSet(processed) : IsOrdered(e) \/ e \in ToSet(posted)
        /\ ToSet(processed) \cap ToSet(unorderedQueue) = {}
        /\ Before(processed, unorderedQueue)
        /\ \A l \in K :
             /\ l > floor => Before(processed, eventList[l].unordered)
             /\ IF l \in read THEN UnorderedIn(l) \subseteq ToSet(processed)
                ELSE UnorderedIn(l) \cap ToSet(processed) = {}
    BY <1>0 DEF UnorderedRead
  <2>2. \A e \in ToSet(r) : e.type # "Unguaranteed"
    BY <1>8 DEF IsOrdered
  <2>3. \A s : Before(processed, s) /\ Before(eventList[k].unordered, s)
                 => Before(p, s)
    BY <1>8, <2>2 DEF Before, UnorderedIn
  <2>4. /\ Before(eventList[k].unordered, unorderedQueue)
        /\ \A l \in K : k < l => Before(eventList[k].unordered, eventList[l].unordered)
    BY <1>0, <1>1 DEF UnorderedPlaced
  <2>5. Before(p, unorderedQueue)
    BY <2>1, <2>3, <2>4
  <2>6. ASSUME NEW l \in K
        PROVE  /\ l > k => Before(p, eventList[l].unordered)
               /\ IF l \in read \cup {k} THEN UnorderedIn(l) \subseteq ToSet(p)
                  ELSE UnorderedIn(l) \cap ToSet(p) = {}
    <3>1. ASSUME l > k PROVE Before(p, eventList[l].unordered)
      <4>1. k < l /\ l > floor
        <5>1. l \in Nat /\ k \in Nat
          BY <1>0, <1>1, EventTypes DEF ServiceInv
        <5> QED BY <1>1, <3>1, <5>1
      <4> QED BY <2>1, <2>3, <2>4, <4>1
    <3> QED BY <1>8, <1>17, <2>1, <3>1
  <2>7. \A e \in ToSet(p) : IsOrdered(e) \/ e \in ToSet(posted)
    BY <1>1, <1>8, <1>17, <2>1
  <2>8. ToSet(p) \cap ToSet(unorderedQueue) = {}
    BY <1>1, <1>8, <1>17, <2>1
  <2> QED BY <1>1, <1>7, <1>10, <2>5, <2>6, <2>7, <2>8 DEF UnorderedRead
<1>19. ASSUME open' PROVE OrderedTold' /\ UnorderedTold'
  <2>1. OrderedTold /\ UnorderedTold
    BY <1>1, <1>19 DEF EventIInv
  <2>2. OrderedTold'
    BY <1>1, <2>1 DEF OrderedTold
  <2>3. \A t \in told :
          IsOrdered(t.event) \/
            /\ t.event \in ToSet(posted) /\ t.event \notin ToSet(unorderedQueue)
            /\ \A l \in K : t.event \notin UnorderedIn(l)
            /\ t.madeIt <=> (t.event \in ToSet(p))
    <3> TAKE t \in told
    <3>1. IsOrdered(t.event) \/
            /\ t.event \in ToSet(posted) /\ t.event \notin ToSet(unorderedQueue)
            /\ \A l \in K : t.event \notin UnorderedIn(l)
            /\ t.madeIt <=> (t.event \in ToSet(processed))
      BY <2>1 DEF UnorderedTold
    <3> QED BY <1>1, <1>8, <3>1
  <2>4. UnorderedTold'
    BY <1>1, <1>7, <1>10, <2>1, <2>3 DEF UnorderedTold
  <2> QED BY <2>2, <2>4
<1> QED BY <1>1, <1>9, <1>12, <1>13, <1>14, <1>15, <1>16, <1>18, <1>19 DEF EventIInv

-----------------------------------------------------------------------------
(* packetReceived and packetDropped.                                       *)

LEMMA NotifiedPacket ==
  ASSUME ServiceInv, EventTypeOK, Notify(notified + 1), eventList' = Forgotten,
         NEW m, m = notified + 1
  PROVE  /\ UNCHANGED <<sent, floor, read, open>>
         /\ open /\ m \in DOMAIN eventList
         /\ DOMAIN eventList' = DOMAIN eventList \ {m}
         /\ DOMAIN eventList' = (notified' + 1) .. sent'
         /\ \A k \in DOMAIN eventList' :
              /\ k \in DOMAIN eventList /\ k # m /\ eventList'[k] = eventList[k]
              /\ OrderedIn(k)' = OrderedIn(k) /\ UnorderedIn(k)' = UnorderedIn(k)
<1>1. UNCHANGED <<sent, floor, read, open>> /\ notified' = m /\ open
  BY DEF Notify
<1>2. /\ notified \in Nat /\ floor \in Nat /\ sent \in Nat /\ m <= floor
      /\ floor <= sent /\ DOMAIN eventList = (notified + 1) .. sent
  BY NotifyInv, EventTypes DEF ServiceInv
<1>3. m \in DOMAIN eventList /\ DOMAIN eventList \ {m} = (m + 1) .. sent
  BY <1>2
<1>4. /\ DOMAIN eventList' = DOMAIN eventList \ {m}
      /\ \A k \in DOMAIN eventList \ {m} : eventList'[k] = eventList[k]
  BY DEF Forgotten
<1>5. ASSUME NEW k \in DOMAIN eventList'
      PROVE  /\ k \in DOMAIN eventList /\ k # m /\ eventList'[k] = eventList[k]
             /\ OrderedIn(k)' = OrderedIn(k) /\ UnorderedIn(k)' = UnorderedIn(k)
  BY <1>4, <1>5 DEF OrderedIn, UnorderedIn
<1> QED BY <1>1, <1>3, <1>4, <1>5

\* What a notification leaves as it was in the lists of packets.
LEMMA NotifiedUnordered ==
  ASSUME EventIInv, Notify(notified + 1), eventList' = Forgotten,
         UNCHANGED <<unorderedQueue, posted, processed>>
  PROVE  UnorderedPlaced' /\ UnorderedRead'
<1> DEFINE K == DOMAIN eventList'
<1>0. ServiceInv /\ EventTypeOK /\ UnorderedPlaced /\ UnorderedRead
  BY DEF EventIInv
<1>1. /\ UNCHANGED <<floor, read>>
      /\ \A k \in K :
           /\ k \in DOMAIN eventList /\ eventList'[k] = eventList[k]
           /\ UnorderedIn(k)' = UnorderedIn(k)
  BY <1>0, NotifiedPacket
<1>2. UnorderedPlaced'
  BY <1>0, <1>1 DEF UnorderedPlaced
<1>3. UnorderedRead'
  BY <1>0, <1>1 DEF UnorderedRead
<1> QED BY <1>2, <1>3

LEMMA TellElements ==
  ASSUME NEW S, NEW b \in BOOLEAN
  PROVE  /\ \A t \in Tell(S, b) :
              t.event \in S /\ t.madeIt = b /\ t = [event |-> t.event, madeIt |-> b]
         /\ \A e \in S : [event |-> e, madeIt |-> b] \in Tell(S, b)
         /\ \A E : S \subseteq E => Tell(S, b) \subseteq [event : E, madeIt : BOOLEAN]
<1>1. \A t \in Tell(S, b) :
        t.event \in S /\ t.madeIt = b /\ t = [event |-> t.event, madeIt |-> b]
  BY DEF Tell
<1>2. \A e \in S : [event |-> e, madeIt |-> b] \in Tell(S, b)
  BY DEF Tell
<1> QED BY <1>1, <1>2

LEMMA PacketReceivedInv ==
  ASSUME Faithful, EventIInv, PacketReceived
  PROVE  EventIInv'
<1> DEFINE K == DOMAIN eventList
<1>0. /\ ServiceInv /\ EventTypeOK /\ PostedInOrder /\ OrderedPlaced /\ OrderedRead
      /\ UnorderedPlaced /\ UnorderedRead /\ WaitSorted
  BY DEF EventIInv
<1>m. PICK m : m = notified + 1
  OBVIOUS
<1>1. PICK list, last :
        /\ list = notifyList \cup ToSet(eventList[m].ordered)
        /\ last = AckedUpTo(list)
        /\ lastAckedEventSeq' = last
        /\ notifyList' = list \ ((lastAckedEventSeq + 1) .. last)
        /\ told' = told \cup Tell(ToSet(eventList[m].unordered), TRUE)
                     \cup Tell({Ordered(n) : n \in (lastAckedEventSeq + 1) .. last}, TRUE)
  BY <1>m DEF PacketReceived
<1>2. /\ UNCHANGED <<sendQueue, unorderedQueue, nextSendEventSeq, waitSeqEvents,
                     nextRecvEventSeq, processed, posted>>
      /\ eventList' = Forgotten /\ Notify(notified + 1)
      /\ m \in received'
  BY <1>m DEF PacketReceived, receiverVars
<1>3. /\ UNCHANGED <<sent, floor, read, open>> /\ open /\ m \in K
      /\ DOMAIN eventList' = K \ {m}
      /\ DOMAIN eventList' = (notified' + 1) .. sent'
      /\ \A k \in K \ {m} :
           /\ eventList'[k] = eventList[k]
           /\ OrderedIn(k)' = OrderedIn(k) /\ UnorderedIn(k)' = UnorderedIn(k)
  BY <1>0, <1>2, <1>m, NotifiedPacket
<1>4. ServiceInv' /\ m \in read
  BY <1>0, <1>2, <1>m, NotifyInv
<1>5. /\ list = notifyList \cup OrderedIn(m)
      /\ ToSet(eventList[m].unordered) = UnorderedIn(m)
  BY <1>1 DEF OrderedIn, UnorderedIn
<1> DEFINE old == lastAckedEventSeq
           acked == (old + 1) .. last
<1>6. /\ old \in Nat \cup {-1} /\ old \in Int /\ nextSendEventSeq \in Nat
      /\ list \in SUBSET Nat /\ UnorderedIn(m) \in SUBSET Event
      /\ ToSet(sendQueue) \in SUBSET Nat
      /\ \A k \in K : OrderedIn(k) \in SUBSET Nat
  BY <1>0, <1>3, <1>5, EventTypes
<1>7. \A n \in list : old < n /\ n < nextSendEventSeq
  <2>1. \A n \in OrderedIn(m) : old < n /\ n < nextSendEventSeq
    BY <1>0, <1>3 DEF OrderedPlaced
  <2>2. \A n \in notifyList : old + 1 < n /\ n < nextSendEventSeq
    BY <1>0 DEF OrderedPlaced
  <2>3. \A n \in notifyList : old < n
    BY <1>5, <1>6, <2>2
  <2> QED BY <1>5, <2>1, <2>2, <2>3
<1>8. last \in list \cup {old} /\ acked \subseteq list /\ last + 1 \notin list
  BY <1>1, <1>6, <1>7, AckedRun
<1>9. /\ last \in Nat \cup {-1} /\ last \in Int /\ old <= last
      /\ last < nextSendEventSeq
      /\ acked \in SUBSET Nat
  <2>1. old < nextSendEventSeq
    BY <1>0 DEF OrderedPlaced
  <2> QED BY <1>6, <1>7, <1>8, <2>1
<1> HIDE DEF K
<1>10. \A n \in Nat : (old < n /\ n \notin list) => last < n
  <2> TAKE n \in Nat
  <2>1. (old < n /\ ~(last < n)) => n \in acked
    BY <1>6, <1>9
  <2> QED BY <1>8, <2>1
<1>11. \A n \in notifyList' : n \in list /\ last + 1 < n
  <2> TAKE n \in notifyList'
  <2>1. n \in list /\ n \notin acked
    BY <1>1
  <2>2. n \in Nat /\ old < n /\ n # last + 1
    BY <1>6, <1>7, <1>8, <2>1
  <2>3. last < n
    BY <1>6, <1>9, <2>1, <2>2
  <2> QED BY <1>9, <2>1, <2>2, <2>3
<1>12. /\ \A e \in UnorderedIn(m) :
            /\ ~IsOrdered(e) /\ e \in ToSet(posted) /\ e \in ToSet(processed)
            /\ e \notin ToSet(unorderedQueue)
            /\ \A k \in K \ {m} : e \notin UnorderedIn(k)
       /\ OrderedIn(m) \subseteq Known
  <2>1. \A e \in UnorderedIn(m) :
            /\ e \in ToSet(posted) /\ e \notin ToSet(unorderedQueue)
            /\ \A k \in K \ {m} : e \notin UnorderedIn(k)
    BY <1>0, <1>3 DEF UnorderedPlaced, K
  <2>2. UnorderedIn(m) \subseteq ToSet(processed)
    BY <1>0, <1>3, <1>4 DEF UnorderedRead, K
  <2>3. OrderedIn(m) \subseteq Known
    BY <1>0, <1>3, <1>4 DEF OrderedRead, K
  <2> QED BY <1>0, <2>1, <2>2, <2>3, UnorderedPosted
<1>13. \A n \in acked : n \in Nat /\ Ordered(n) \in Event /\ IsOrdered(Ordered(n))
                        /\ Ordered(n).n = n
  BY <1>9, OrderedEvent
<1>a. PICK A : A = {Ordered(n) : n \in acked}
  OBVIOUS
<1>t. told' = told \cup Tell(UnorderedIn(m), TRUE) \cup Tell(A, TRUE)
  BY <1>1, <1>5, <1>a
<1>14. \A t \in told' :
         \/ t \in told
         \/ t.event \in UnorderedIn(m) /\ t.madeIt = TRUE
         \/ \E n \in acked : t = [event |-> Ordered(n), madeIt |-> TRUE]
  <2> TAKE t \in told'
  <2>1. CASE t \in Tell(UnorderedIn(m), TRUE)
    BY <2>1, TellElements
  <2>2. CASE t \in Tell(A, TRUE)
    <3>1. t.event \in A /\ t = [event |-> t.event, madeIt |-> TRUE]
      BY <2>2, TellElements
    <3> QED BY <1>a, <3>1
  <2> QED BY <1>t, <2>1, <2>2
<1>15. /\ told \subseteq told'
       /\ \A e \in UnorderedIn(m) : [event |-> e, madeIt |-> TRUE] \in told'
       /\ \A n \in acked : [event |-> Ordered(n), madeIt |-> TRUE] \in told'
  <2>1. \A n \in acked : Ordered(n) \in A
    BY <1>a
  <2>2. /\ \A e \in UnorderedIn(m) : [event |-> e, madeIt |-> TRUE] \in Tell(UnorderedIn(m), TRUE)
        /\ \A e \in A : [event |-> e, madeIt |-> TRUE] \in Tell(A, TRUE)
    BY TellElements
  <2> QED BY <1>t, <2>1, <2>2
<1>16. EventTypeOK'
  <2>1. told' \in SUBSET [event : Event, madeIt : BOOLEAN]
    <3>1. told \in SUBSET [event : Event, madeIt : BOOLEAN]
      BY <1>0 DEF EventTypeOK
    <3>2. UnorderedIn(m) \subseteq Event /\ A \subseteq Event
      BY <1>6, <1>13, <1>a
    <3>3. /\ Tell(UnorderedIn(m), TRUE) \subseteq [event : Event, madeIt : BOOLEAN]
          /\ Tell(A, TRUE) \subseteq [event : Event, madeIt : BOOLEAN]
      BY <3>2, TellElements
    <3> QED BY <1>t, <3>1, <3>3
  <2>2. notifyList' \in SUBSET Nat
    BY <1>1, <1>6
  <2>3. \A k \in DOMAIN eventList' :
          eventList'[k] \in [unordered : Seq(Event), ordered : Seq(Nat)]
    BY <1>0, <1>3 DEF EventTypeOK, K
  <2> QED BY <1>0, <1>1, <1>2, <1>3, <1>9, <2>1, <2>2, <2>3 DEF EventTypeOK
<1>17. Known' = Known
  BY <1>2 DEF Known, Awaiting
<1>18. OrderedPlaced'
  <2>1. \A n \in ToSet(sendQueue) :
          last < n /\ n < nextSendEventSeq /\ n \notin notifyList'
    <3> TAKE n \in ToSet(sendQueue)
    <3>1. /\ old < n /\ n < nextSendEventSeq /\ n \notin list
      BY <1>0, <1>3, <1>5 DEF OrderedPlaced, K
    <3> QED BY <1>6, <1>10, <1>11, <3>1
  <2>2. \A n \in notifyList' : last + 1 < n /\ n < nextSendEventSeq
    BY <1>7, <1>11
  <2>3. ASSUME NEW k \in K \ {m}
        PROVE  /\ Ascending(eventList[k].ordered)
               /\ \A n \in OrderedIn(k) :
                    /\ last < n /\ n < nextSendEventSeq /\ n <= last + EventWindow
                    /\ n \notin notifyList' /\ n \notin ToSet(sendQueue)
                    /\ \A l \in K \ {m} : n \in OrderedIn(l) => l = k
    <3>1. /\ Ascending(eventList[k].ordered)
          /\ \A n \in OrderedIn(k) :
               /\ old < n /\ n < nextSendEventSeq /\ InEventWindow(n)
               /\ n \notin notifyList /\ n \notin ToSet(sendQueue)
               /\ \A l \in K : n \in OrderedIn(l) => l = k
      BY <1>0 DEF OrderedPlaced, K
    <3>2. ASSUME NEW n \in OrderedIn(k)
          PROVE  last < n /\ n \notin notifyList' /\ n <= last + EventWindow
      <4>1. n \in Nat /\ n \notin list /\ old < n
        BY <1>3, <1>5, <1>6, <3>1
      <4>2. n <= old + EventWindow
        BY <3>1 DEF InEventWindow
      <4>3. n <= last + EventWindow
        BY <1>6, <1>9, <4>1, <4>2, EventAssumption
      <4> QED BY <1>10, <1>11, <4>1, <4>3
    <3> QED BY <3>1, <3>2
  <2>4. \A n \in (last + 1) .. (nextSendEventSeq - 1) :
          \/ n \in ToSet(sendQueue) \/ n \in notifyList'
          \/ \E k \in K \ {m} : n \in OrderedIn(k)
    <3> TAKE n \in (last + 1) .. (nextSendEventSeq - 1)
    <3>1. n \in (old + 1) .. (nextSendEventSeq - 1) /\ n \notin acked
      BY <1>6, <1>9
    <3>2. \/ n \in ToSet(sendQueue) \/ n \in notifyList
          \/ \E k \in K : n \in OrderedIn(k)
      BY <1>0, <3>1 DEF OrderedPlaced, K
    <3>3. \/ n \in ToSet(sendQueue) \/ n \in list
          \/ \E k \in K \ {m} : n \in OrderedIn(k)
      BY <1>5, <3>2
    <3> QED BY <1>1, <3>1, <3>3
  <2>5. \A n : InEventWindow(n)' <=> n <= last + EventWindow
    BY <1>1 DEF InEventWindow
  <2>6. Ascending(sendQueue)
    BY <1>0 DEF OrderedPlaced
  <2>a. /\ lastAckedEventSeq' = last /\ nextSendEventSeq' = nextSendEventSeq
        /\ sendQueue' = sendQueue /\ DOMAIN eventList' = K \ {m}
    BY <1>1, <1>2, <1>3
  <2>b. \A k \in K \ {m} :
          eventList'[k] = eventList[k] /\ OrderedIn(k)' = OrderedIn(k)
    BY <1>3
  <2>7. \A k \in DOMAIN eventList' :
          /\ Ascending(eventList'[k].ordered)
          /\ \A n \in OrderedIn(k)' :
               /\ lastAckedEventSeq' < n /\ n < nextSendEventSeq' /\ InEventWindow(n)'
               /\ n \notin notifyList' /\ n \notin ToSet(sendQueue')
               /\ \A l \in DOMAIN eventList' : n \in OrderedIn(l)' => l = k
    <3> TAKE k \in DOMAIN eventList'
    <3>1. k \in K \ {m} /\ eventList'[k] = eventList[k] /\ OrderedIn(k)' = OrderedIn(k)
      BY <2>a, <2>b
    <3>2. Ascending(eventList'[k].ordered)
      BY <2>3, <3>1
    <3>3. ASSUME NEW n \in OrderedIn(k)'
          PROVE  /\ lastAckedEventSeq' < n /\ n < nextSendEventSeq'
                 /\ InEventWindow(n)' /\ n \notin notifyList' /\ n \notin ToSet(sendQueue')
      <4>1. /\ last < n /\ n < nextSendEventSeq /\ n <= last + EventWindow
            /\ n \notin notifyList' /\ n \notin ToSet(sendQueue)
        BY <2>3, <3>1, <3>3
      <4> QED BY <2>a, <2>5, <4>1
    <3>4. ASSUME NEW n \in OrderedIn(k)', NEW l \in DOMAIN eventList', n \in OrderedIn(l)'
          PROVE  l = k
      <4>1. l \in K \ {m} /\ n \in OrderedIn(l) /\ n \in OrderedIn(k)
        BY <2>a, <2>b, <3>1, <3>4
      <4> QED BY <2>3, <3>1, <4>1
    <3> QED BY <3>2, <3>3, <3>4
  <2>8. \A n \in (lastAckedEventSeq' + 1) .. (nextSendEventSeq' - 1) :
          \/ n \in ToSet(sendQueue') \/ n \in notifyList'
          \/ \E k \in DOMAIN eventList' : n \in OrderedIn(k)'
    BY <2>a, <2>b, <2>4
  <2>9. /\ Ascending(sendQueue')
        /\ \A n \in ToSet(sendQueue') :
             lastAckedEventSeq' < n /\ n < nextSendEventSeq' /\ n \notin notifyList'
        /\ \A n \in notifyList' : lastAckedEventSeq' + 1 < n /\ n < nextSendEventSeq'
        /\ lastAckedEventSeq' < nextSendEventSeq'
    BY <1>1, <1>2, <1>9, <2>1, <2>2, <2>6
  <2> QED BY <2>7, <2>8, <2>9, Zenon DEF OrderedPlaced, Ascending
<1>19. WaitSorted' /\ OrderedInOrder' /\ PostedInOrder' /\ UnguaranteedInOrder'
  BY <1>2 DEF EventIInv, WaitSorted, OrderedInOrder, PostedInOrder, UnguaranteedInOrder
<1>20. OrderedRead'
  <2>1. /\ \A n \in Known : n < nextSendEventSeq
        /\ Known \cap ToSet(sendQueue) = {}
        /\ notifyList \subseteq Known /\ 0 .. old \subseteq Known
        /\ \A k \in K : IF k \in read THEN OrderedIn(k) \subseteq Known
                        ELSE OrderedIn(k) \cap Known = {}
    BY <1>0 DEF OrderedRead, K
  <2>2. list \subseteq Known
    BY <1>5, <1>12, <2>1
  <2>3. 0 .. last \subseteq Known
    <3>1. 0 .. last \subseteq 0 .. old \cup acked
      BY <1>6, <1>9
    <3> QED BY <1>8, <2>1, <2>2, <3>1
  <2>4. notifyList' \subseteq Known
    BY <1>11, <2>2
  <2> QED BY <1>1, <1>2, <1>3, <1>17, <2>1, <2>3, <2>4 DEF OrderedRead
<1>21. UnorderedPlaced' /\ UnorderedRead'
  BY <1>2, NotifiedUnordered
<1>22. OrderedTold'
  <2>1. OrderedTold
    BY <1>3 DEF EventIInv
  <2>2. \A n \in 0 .. last : [event |-> Ordered(n), madeIt |-> TRUE] \in told'
    <3> TAKE n \in 0 .. last
    <3>1. n \in 0 .. old \/ n \in acked
      BY <1>6, <1>9
    <3> QED BY <1>15, <2>1, <3>1 DEF OrderedTold
  <2>3. \A t \in told' :
          IsOrdered(t.event) => /\ t.madeIt
                                /\ t.event = Ordered(t.event.n)
                                /\ t.event.n <= last
    <3> SUFFICES ASSUME NEW t \in told', IsOrdered(t.event)
                 PROVE  t.madeIt /\ t.event = Ordered(t.event.n) /\ t.event.n <= last
      OBVIOUS
    <3>1. CASE t \in told
      <4>1. t.madeIt /\ t.event = Ordered(t.event.n) /\ t.event.n <= old
        BY <2>1, <3>1 DEF OrderedTold
      <4>2. t.event.n \in Nat
        BY <1>0, <3>1 DEF EventTypeOK, Event
      <4> QED BY <1>6, <1>9, <4>1, <4>2
    <3>2. CASE t.event \in UnorderedIn(m)
      BY <1>12, <3>2
    <3>3. CASE \E n \in acked : t = [event |-> Ordered(n), madeIt |-> TRUE]
      <4>1. PICK n \in acked : t = [event |-> Ordered(n), madeIt |-> TRUE]
        BY <3>3
      <4>2. t.event = Ordered(n) /\ t.madeIt /\ t.event.n = n /\ n <= last
        BY <1>6, <1>9, <1>13, <4>1
      <4> QED BY <4>2
    <3> QED BY <1>14, <3>1, <3>2, <3>3
  <2> QED BY <1>1, <2>2, <2>3 DEF OrderedTold
<1>23. UnorderedTold'
  <2>1. UnorderedTold
    BY <1>3 DEF EventIInv
  <2>2. \A t \in told' :
          IsOrdered(t.event) \/
            /\ t.event \in ToSet(posted) /\ t.event \notin ToSet(unorderedQueue)
            /\ \A k \in K \ {m} : t.event \notin UnorderedIn(k)
            /\ t.madeIt <=> (t.event \in ToSet(processed))
    <3> TAKE t \in told'
    <3>1. CASE t \in told
      BY <2>1, <3>1 DEF UnorderedTold, K
    <3>2. CASE t.event \in UnorderedIn(m) /\ t.madeIt = TRUE
      BY <1>12, <3>2
    <3>3. CASE \E n \in acked : t = [event |-> Ordered(n), madeIt |-> TRUE]
      <4>1. PICK n \in acked : t = [event |-> Ordered(n), madeIt |-> TRUE]
        BY <3>3
      <4> QED BY <1>13, <4>1
    <3> QED BY <1>14, <3>1, <3>2, <3>3
  <2>3. \A e \in ToSet(posted) :
          \/ e \in ToSet(unorderedQueue)
          \/ \E k \in K \ {m} : e \in UnorderedIn(k)
          \/ \E t \in told' : t.event = e
    <3> TAKE e \in ToSet(posted)
    <3>1. \/ e \in ToSet(unorderedQueue)
          \/ \E k \in K : e \in UnorderedIn(k)
          \/ \E t \in told : t.event = e
      BY <2>1 DEF UnorderedTold, K
    <3>2. e \in UnorderedIn(m) => \E t \in told' : t.event = e
      <4>1. [event |-> e, madeIt |-> TRUE].event = e
        OBVIOUS
      <4> QED BY <1>15, <4>1
    <3> QED BY <1>15, <3>1, <3>2
  <2> QED BY <1>2, <1>3, <2>2, <2>3 DEF UnorderedTold
<1> QED BY <1>4, <1>16, <1>18, <1>19, <1>20, <1>21, <1>22, <1>23 DEF EventIInv

LEMMA PacketDroppedInv ==
  ASSUME EventIInv, PacketDropped
  PROVE  EventIInv'
<1> DEFINE K == DOMAIN eventList
<1>0. /\ ServiceInv /\ EventTypeOK /\ PostedInOrder /\ OrderedPlaced /\ OrderedRead
      /\ UnorderedPlaced /\ UnorderedRead
  BY DEF EventIInv
<1>m. PICK m : m = notified + 1
  OBVIOUS
<1>1. PICK d, q, L :
        /\ d = AllReinserted(eventList[m].ordered)
        /\ q = AllRequeued(eventList[m].unordered)
        /\ L = {e \in UnorderedIn(m) : e.type = "Unguaranteed"}
        /\ sendQueue' = d /\ unorderedQueue' = q /\ told' = told \cup Tell(L, FALSE)
  BY <1>m DEF PacketDropped, UnorderedIn
<1>2. /\ UNCHANGED <<notifyList, nextSendEventSeq, lastAckedEventSeq, waitSeqEvents,
                     nextRecvEventSeq, processed, posted>>
      /\ eventList' = Forgotten /\ Notify(notified + 1)
      /\ m \in dropped'
  BY <1>m DEF PacketDropped, receiverVars
<1>3. /\ UNCHANGED <<sent, floor, read, open>> /\ open /\ m \in K
      /\ DOMAIN eventList' = K \ {m}
      /\ DOMAIN eventList' = (notified' + 1) .. sent'
      /\ \A k \in K \ {m} :
           /\ eventList'[k] = eventList[k]
           /\ OrderedIn(k)' = OrderedIn(k) /\ UnorderedIn(k)' = UnorderedIn(k)
  BY <1>0, <1>2, <1>m, NotifiedPacket
<1>4. ServiceInv' /\ m \notin read
  BY <1>0, <1>2, <1>m, NotifyInv
<1>5. /\ sendQueue \in Seq(Nat) /\ unorderedQueue \in Seq(Event)
      /\ eventList[m].ordered \in Seq(Nat) /\ eventList[m].unordered \in Seq(Event)
      /\ OrderedIn(m) = ToSet(eventList[m].ordered)
      /\ UnorderedIn(m) = ToSet(eventList[m].unordered)
      /\ UnorderedIn(m) \in SUBSET Event
      /\ lastAckedEventSeq \in Int /\ nextSendEventSeq \in Nat
  BY <1>0, <1>3, EventTypes DEF OrderedIn, UnorderedIn
<1> HIDE DEF K
<1>6. /\ Ascending(sendQueue) /\ Ascending(eventList[m].ordered)
      /\ \A n \in OrderedIn(m) :
           /\ lastAckedEventSeq < n /\ n < nextSendEventSeq /\ n \notin notifyList
           /\ n \notin ToSet(sendQueue)
           /\ \A k \in K \ {m} : n \notin OrderedIn(k)
      /\ OrderedIn(m) \cap Known = {}
  <2>1. /\ Ascending(sendQueue) /\ Ascending(eventList[m].ordered)
        /\ \A n \in OrderedIn(m) :
             /\ lastAckedEventSeq < n /\ n < nextSendEventSeq /\ n \notin notifyList
             /\ n \notin ToSet(sendQueue)
             /\ \A k \in K \ {m} : n \notin OrderedIn(k)
    BY <1>0, <1>3 DEF OrderedPlaced, K
  <2>2. OrderedIn(m) \cap Known = {}
    BY <1>0, <1>3, <1>4 DEF OrderedRead, K
  <2> QED BY <2>1, <2>2
<1>7. /\ IsInjective(unorderedQueue) /\ InOrder(unorderedQueue)
      /\ IsInjective(eventList[m].unordered)
      /\ \A e \in UnorderedIn(m) :
           /\ ~IsOrdered(e) /\ e \in ToSet(posted) /\ e \notin ToSet(processed)
           /\ e \notin ToSet(unorderedQueue)
           /\ \A k \in K \ {m} : e \notin UnorderedIn(k)
  <2>1. /\ IsInjective(unorderedQueue) /\ InOrder(unorderedQueue)
        /\ IsInjective(eventList[m].unordered)
        /\ \A e \in UnorderedIn(m) :
             /\ e \in ToSet(posted) /\ e \notin ToSet(unorderedQueue)
             /\ \A k \in K \ {m} : e \notin UnorderedIn(k)
    BY <1>0, <1>3 DEF UnorderedPlaced, K
  <2>2. UnorderedIn(m) \cap ToSet(processed) = {}
    BY <1>0, <1>3, <1>4 DEF UnorderedRead, K
  <2> QED BY <1>0, <2>1, <2>2, UnorderedPosted
<1>8. /\ d \in Seq(Nat) /\ Ascending(d) /\ ToSet(d) = ToSet(sendQueue) \cup OrderedIn(m)
  <2>1. \A n \in ToSet(eventList[m].ordered) : n \notin ToSet(sendQueue)
    BY <1>5, <1>6
  <2> QED BY <1>1, <1>5, <1>6, <2>1, ReinsertedAll
<1>9. /\ q \in Seq(Event) /\ IsInjective(q) /\ InOrder(q)
      /\ ToSet(q) = ToSet(unorderedQueue)
                      \cup {e \in UnorderedIn(m) : e.type = "Guaranteed"}
  <2>1. \A e \in ToSet(eventList[m].unordered) : e \notin ToSet(unorderedQueue)
    BY <1>5, <1>7
  <2> QED BY <1>1, <1>5, <1>7, <2>1, RequeuedAll
<1>10. \A e \in UnorderedIn(m) : e \in ToSet(q) \/ (e \in L /\ e \notin ToSet(q))
  <2> TAKE e \in UnorderedIn(m)
  <2>1. e \in Event /\ ~IsOrdered(e)
    BY <1>5, <1>7
  <2>2. e.type \in {"Guaranteed", "Unguaranteed"}
    BY <2>1 DEF Event, Guarantee, IsOrdered
  <2> QED BY <1>1, <1>7, <1>9, <2>2
<1>11. /\ told \subseteq told'
       /\ \A e \in L : [event |-> e, madeIt |-> FALSE] \in told'
       /\ \A t \in told' :
            t \in told \/ (t.event \in L /\ t.event \in UnorderedIn(m) /\ t.madeIt = FALSE
                           /\ t.event \notin ToSet(q))
  <2>1. \A t \in Tell(L, FALSE) : t.event \in L /\ t.madeIt = FALSE
    BY TellElements
  <2>2. \A e \in L : [event |-> e, madeIt |-> FALSE] \in Tell(L, FALSE)
    BY TellElements
  <2>3. \A e \in L : e \in UnorderedIn(m) /\ e \notin ToSet(q)
    BY <1>1, <1>7, <1>9
  <2> QED BY <1>1, <2>1, <2>2, <2>3
<1>12. EventTypeOK'
  <2>1. told' \in SUBSET [event : Event, madeIt : BOOLEAN]
    <3>1. told \in SUBSET [event : Event, madeIt : BOOLEAN]
      BY <1>0 DEF EventTypeOK
    <3>2. L \subseteq Event
      BY <1>1, <1>5
    <3>3. Tell(L, FALSE) \subseteq [event : Event, madeIt : BOOLEAN]
      BY <3>2, TellElements
    <3> QED BY <1>1, <3>1, <3>3
  <2>2. \A k \in DOMAIN eventList' :
          eventList'[k] \in [unordered : Seq(Event), ordered : Seq(Nat)]
    BY <1>0, <1>3 DEF EventTypeOK, K
  <2> QED BY <1>0, <1>1, <1>2, <1>3, <1>8, <1>9, <2>1, <2>2 DEF EventTypeOK
<1>13. Known' = Known /\ \A n : InEventWindow(n)' = InEventWindow(n)
  BY <1>2 DEF Known, Awaiting, InEventWindow
<1>14. OrderedPlaced'
  <2>1. \A n \in ToSet(d) :
          lastAckedEventSeq < n /\ n < nextSendEventSeq /\ n \notin notifyList
    BY <1>0, <1>6, <1>8 DEF OrderedPlaced
  <2>2. /\ \A n \in notifyList : lastAckedEventSeq + 1 < n /\ n < nextSendEventSeq
        /\ lastAckedEventSeq < nextSendEventSeq
    BY <1>0 DEF OrderedPlaced
  <2>3. ASSUME NEW k \in K \ {m}
        PROVE  /\ Ascending(eventList'[k].ordered)
               /\ \A n \in OrderedIn(k)' :
                    /\ lastAckedEventSeq < n /\ n < nextSendEventSeq /\ InEventWindow(n)
                    /\ n \notin notifyList /\ n \notin ToSet(d)
                    /\ \A l \in K \ {m} : n \in OrderedIn(l)' => l = k
    <3>1. /\ Ascending(eventList[k].ordered)
          /\ \A n \in OrderedIn(k) :
               /\ lastAckedEventSeq < n /\ n < nextSendEventSeq /\ InEventWindow(n)
               /\ n \notin notifyList /\ n \notin ToSet(sendQueue)
               /\ \A l \in K : n \in OrderedIn(l) => l = k
      BY <1>0 DEF OrderedPlaced, K
    <3> QED BY <1>3, <1>6, <1>8, <3>1
  <2>4. \A n \in (lastAckedEventSeq + 1) .. (nextSendEventSeq - 1) :
          \/ n \in ToSet(d) \/ n \in notifyList
          \/ \E k \in K \ {m} : n \in OrderedIn(k)'
    <3> TAKE n \in (lastAckedEventSeq + 1) .. (nextSendEventSeq - 1)
    <3>1. \/ n \in ToSet(sendQueue) \/ n \in notifyList
          \/ \E k \in K : n \in OrderedIn(k)
      BY <1>0 DEF OrderedPlaced, K
    <3> QED BY <1>3, <1>8, <3>1
  <2> QED BY <1>1, <1>2, <1>3, <1>8, <1>13, <2>1, <2>2, <2>3, <2>4 DEF OrderedPlaced
<1>15. WaitSorted' /\ OrderedInOrder' /\ PostedInOrder' /\ UnguaranteedInOrder'
  BY <1>2 DEF EventIInv, WaitSorted, OrderedInOrder, PostedInOrder, UnguaranteedInOrder
<1>16. OrderedRead'
  <2>1. /\ \A n \in Known : n < nextSendEventSeq
        /\ Known \cap ToSet(sendQueue) = {}
        /\ notifyList \subseteq Known /\ 0 .. lastAckedEventSeq \subseteq Known
        /\ \A k \in K : IF k \in read THEN OrderedIn(k) \subseteq Known
                        ELSE OrderedIn(k) \cap Known = {}
    BY <1>0 DEF OrderedRead, K
  <2>2. Known \cap ToSet(d) = {}
    BY <1>6, <1>8, <2>1
  <2> QED BY <1>1, <1>2, <1>3, <1>13, <2>1, <2>2 DEF OrderedRead
<1>17. \A s : Before(s, unorderedQueue) => Before(s, q)
  <2>1. \A e \in ToSet(q) : e.type = "Unguaranteed" => e \in ToSet(unorderedQueue)
    BY <1>9
  <2> QED BY <2>1 DEF Before
<1>18. UnorderedPlaced'
  <2>1. ToSet(q) \subseteq ToSet(posted)
    BY <1>0, <1>7, <1>9 DEF UnorderedPlaced
  <2>2. ASSUME NEW k \in K \ {m}
        PROVE  /\ IsInjective(eventList'[k].unordered) /\ InOrder(eventList'[k].unordered)
               /\ Before(eventList'[k].unordered, q)
               /\ \A l \in K \ {m} :
                    k < l => Before(eventList'[k].unordered, eventList'[l].unordered)
               /\ \A e \in UnorderedIn(k)' :
                    /\ e \in ToSet(posted) /\ e \notin ToSet(q)
                    /\ \A l \in K \ {m} : e \in UnorderedIn(l)' => l = k
    <3>1. /\ IsInjective(eventList[k].unordered) /\ InOrder(eventList[k].unordered)
          /\ Before(eventList[k].unordered, unorderedQueue)
          /\ \A l \in K : k < l => Before(eventList[k].unordered, eventList[l].unordered)
          /\ \A e \in UnorderedIn(k) :
               /\ e \in ToSet(posted) /\ e \notin ToSet(unorderedQueue)
               /\ \A l \in K : e \in UnorderedIn(l) => l = k
      BY <1>0 DEF UnorderedPlaced, K
    <3>2. \A e \in UnorderedIn(k) : e \notin ToSet(q)
      BY <1>7, <1>9, <3>1
    <3> QED BY <1>3, <1>17, <3>1, <3>2
  <2> QED BY <1>1, <1>2, <1>3, <1>9, <2>1, <2>2 DEF UnorderedPlaced
<1>19. UnorderedRead'
  <2>1. /\ \A e \in ToSet(processed) : IsOrdered(e) \/ e \in ToSet(posted)
        /\ ToSet(processed) \cap ToSet(unorderedQueue) = {}
        /\ Before(processed, unorderedQueue)
        /\ \A k \in K :
             /\ k > floor => Before(processed, eventList[k].unordered)
             /\ IF k \in read THEN UnorderedIn(k) \subseteq ToSet(processed)
                ELSE UnorderedIn(k) \cap ToSet(processed) = {}
    BY <1>0 DEF UnorderedRead, K
  <2>2. ToSet(processed) \cap ToSet(q) = {} /\ Before(processed, q)
    BY <1>7, <1>9, <1>17, <2>1
  <2> QED BY <1>1, <1>2, <1>3, <2>1, <2>2 DEF UnorderedRead
<1>20. OrderedTold /\ UnorderedTold
  BY <1>3 DEF EventIInv
<1>21. OrderedTold'
  <2>1. \A n \in 0 .. lastAckedEventSeq : [event |-> Ordered(n), madeIt |-> TRUE] \in told'
    BY <1>11, <1>20 DEF OrderedTold
  <2>2. \A t \in told' :
          IsOrdered(t.event) => /\ t.madeIt
                                /\ t.event = Ordered(t.event.n)
                                /\ t.event.n <= lastAckedEventSeq
    BY <1>7, <1>11, <1>20 DEF OrderedTold
  <2> QED BY <1>2, <2>1, <2>2 DEF OrderedTold
<1>22. UnorderedTold'
  <2>1. \A t \in told' :
          IsOrdered(t.event) \/
            /\ t.event \in ToSet(posted) /\ t.event \notin ToSet(q)
            /\ \A k \in K \ {m} : t.event \notin UnorderedIn(k)
            /\ t.madeIt <=> (t.event \in ToSet(processed))
    <3> TAKE t \in told'
    <3>1. CASE t \in told
      <4>1. IsOrdered(t.event) \/
              /\ t.event \in ToSet(posted) /\ t.event \notin ToSet(unorderedQueue)
              /\ \A k \in K : t.event \notin UnorderedIn(k)
              /\ t.madeIt <=> (t.event \in ToSet(processed))
        BY <1>20, <3>1 DEF UnorderedTold, K
      <4> QED BY <1>3, <1>9, <4>1
    <3>2. CASE t.event \in UnorderedIn(m) /\ t.madeIt = FALSE /\ t.event \notin ToSet(q)
      BY <1>7, <3>2
    <3> QED BY <1>11, <3>1, <3>2
  <2>2. \A e \in ToSet(posted) :
          \/ e \in ToSet(q)
          \/ \E k \in K \ {m} : e \in UnorderedIn(k)
          \/ \E t \in told' : t.event = e
    <3> TAKE e \in ToSet(posted)
    <3>1. \/ e \in ToSet(unorderedQueue)
          \/ \E k \in K : e \in UnorderedIn(k)
          \/ \E t \in told : t.event = e
      BY <1>20 DEF UnorderedTold, K
    <3>2. e \in L => \E t \in told' : t.event = e
      <4>1. [event |-> e, madeIt |-> FALSE].event = e
        OBVIOUS
      <4> QED BY <1>11, <4>1
    <3> QED BY <1>9, <1>10, <1>11, <3>1, <3>2
  <2>3. /\ unorderedQueue' = q /\ posted' = posted /\ processed' = processed
        /\ DOMAIN eventList' = K \ {m}
        /\ \A k \in K \ {m} : UnorderedIn(k)' = UnorderedIn(k)
    BY <1>1, <1>2, <1>3
  <2> QED BY <2>1, <2>2, <2>3 DEF UnorderedTold
<1> QED BY <1>4, <1>12, <1>14, <1>15, <1>16, <1>18, <1>19, <1>21, <1>22 DEF EventIInv

-----------------------------------------------------------------------------
(* The theorems.                                                           *)

LEMMA EventNextInv ==
  ASSUME Faithful, EventIInv, [EventNext]_vars PROVE EventIInv'
<1>1. CASE UNCHANGED vars
  <2>1. /\ UNCHANGED <<sendQueue, unorderedQueue, notifyList, nextSendEventSeq,
                       lastAckedEventSeq, eventList, waitSeqEvents, nextRecvEventSeq,
                       posted, processed, told>>
        /\ UNCHANGED <<sent, notified, floor, read, received, dropped, open>>
    BY <1>1 DEF vars, serviceVars, eventVars, senderVars, receiverVars
  <2>2. /\ \A l : OrderedIn(l)' = OrderedIn(l) /\ UnorderedIn(l)' = UnorderedIn(l)
        /\ Known' = Known /\ \A x : InEventWindow(x)' = InEventWindow(x)
    BY <2>1 DEF OrderedIn, UnorderedIn, Known, Awaiting, InEventWindow
  <2>3. ServiceInv' /\ EventTypeOK'
    BY <2>1 DEF EventIInv, ServiceInv, EventTypeOK
  <2>4. OrderedPlaced' /\ WaitSorted' /\ OrderedRead' /\ OrderedInOrder'
    BY <2>1, <2>2 DEF EventIInv, OrderedPlaced, WaitSorted, OrderedRead, OrderedInOrder
  <2>5. PostedInOrder' /\ UnorderedPlaced' /\ UnorderedRead' /\ UnguaranteedInOrder'
    BY <2>1, <2>2
       DEF EventIInv, PostedInOrder, UnorderedPlaced, UnorderedRead, UnguaranteedInOrder
  <2>6. open' => OrderedTold' /\ UnorderedTold'
    BY <2>1, <2>2 DEF EventIInv, OrderedTold, UnorderedTold
  <2> QED BY <2>3, <2>4, <2>5, <2>6 DEF EventIInv
<1>2. CASE EventNext
  <2>1. CASE PostOrdered
    BY <2>1, PostOrderedInv
  <2>2. CASE \E type \in Guarantee \ {"GuaranteedOrdered"} : PostUnordered(type)
    BY <2>2, PostUnorderedInv
  <2>3. CASE WritePacket
    BY <2>3, WritePacketInv
  <2>4. CASE \E k \in (floor + 1) .. sent : ReadPacket(k) \/ LosePacket(k)
    BY <2>4, ReadPacketInv, LosePacketInv
  <2>5. CASE PacketReceived
    BY <2>5, PacketReceivedInv
  <2>6. CASE PacketDropped
    BY <2>6, PacketDroppedInv
  <2>7. CASE Destroy
    BY <2>7, DestroyInv
  <2> QED BY <1>2, <2>1, <2>2, <2>3, <2>4, <2>5, <2>6, <2>7 DEF EventNext
<1> QED BY <1>1, <1>2

\* The inductive invariant: where each event is, which of them each end knows,
\* and in what order they are, as long as nothing is notified as received that
\* was not read.
THEOREM EventInvariant == Faithful => (EventSpec => []EventIInv)
<1> SUFFICES ASSUME Faithful PROVE EventSpec => []EventIInv
  OBVIOUS
<1>1. EventInit => EventIInv
  BY EventInitInv
<1>2. EventIInv /\ [EventNext]_vars => EventIInv'
  BY EventNextInv
<1> QED BY <1>1, <1>2, PTL DEF EventSpec

\* The queues and lists stay well formed, postNetEvent's queue sorted also when
\* packetDropped puts events back, and mLastAckedEventSeq behind the receiver.
THEOREM EventStateHolds == Faithful => (EventSpec => []EventStateOK)
<1> SUFFICES ASSUME Faithful PROVE EventSpec => []EventStateOK
  OBVIOUS
<1>1. EventIInv => EventStateOK
  <2> SUFFICES ASSUME EventIInv PROVE EventStateOK
    OBVIOUS
  <2>1. EventTypeOK /\ OrderedPlaced /\ WaitSorted /\ OrderedRead
    BY DEF EventIInv
  <2>2. sendQueue \in Seq(Nat)
    BY <2>1, EventTypes
  <2>3. QueueSorted
    BY <2>1, <2>2 DEF OrderedPlaced, Ascending, QueueSorted
  <2>4. AckedWasProcessed
    BY <2>1, AckedBehind DEF AckedWasProcessed
  <2> QED BY <2>1, <2>3, <2>4 DEF EventStateOK
<1> QED BY <1>1, EventInvariant, PTL

\* However packets are lost and events sent again, readPacket processes the
\* ordered events exactly once, in the order of postNetEvent, with no gap.
THEOREM OrderedOnceInOrder == Faithful => (EventSpec => []OrderedInOrder)
<1> SUFFICES ASSUME Faithful PROVE EventSpec => []OrderedInOrder
  OBVIOUS
<1>1. EventIInv => OrderedInOrder
  BY DEF EventIInv
<1> QED BY <1>1, EventInvariant, PTL

\* Unguaranteed events are processed in the order of posting, and no unordered
\* event twice, although packetDropped queues guaranteed ones again.
THEOREM UnguaranteedKeepOrder == Faithful => (EventSpec => []UnguaranteedInOrder)
<1> SUFFICES ASSUME Faithful PROVE EventSpec => []UnguaranteedInOrder
  OBVIOUS
<1>1. EventIInv => UnguaranteedInOrder
  BY DEF EventIInv
<1> QED BY <1>1, EventInvariant, PTL

\* With fewer events in writePacket's window than numbers on the wire, readPacket
\* decodes every sequence number to the one of the sender.
THEOREM NumbersExact == Faithful => (EventSpec => []NumberedExactly)
<1> SUFFICES ASSUME Faithful PROVE EventSpec => []NumberedExactly
  OBVIOUS
<1>1. EventIInv => NumberedExactly
  <2> SUFFICES ASSUME EventIInv PROVE NumberedExactly
    OBVIOUS
  <2>1. waitSeqEvents \in Seq(Wait)
    BY EventTypes DEF EventIInv
  <2>2. WaitSorted
    BY DEF EventIInv
  <2> QED BY <2>1, <2>2 DEF WaitSorted, NumberedExactly
<1> QED BY <1>1, EventInvariant, PTL

\* An ordered event up to the last one that is acked has been processed.
LEMMA AckedProcessed ==
  ASSUME EventIInv, NEW n \in Nat, n <= lastAckedEventSeq
  PROVE  Ordered(n) \in ToSet(processed)
<1>1. /\ lastAckedEventSeq < nextRecvEventSeq /\ lastAckedEventSeq \in Int
      /\ nextRecvEventSeq \in Nat /\ processed \in Seq(Event)
  BY AckedBehind, EventTypes DEF EventIInv
<1>2. n \in 0 .. (nextRecvEventSeq - 1)
  BY <1>1
<1>3. PICK e \in ToSet(processed) : IsOrdered(e) /\ e.n = n
  BY <1>2 DEF EventIInv, OrderedInOrder
<1>4. e \in Event
  BY <1>1, ListElements
<1>5. e = Ordered(n)
  BY <1>3, <1>4 DEF Event, IsOrdered, Ordered
<1> QED BY <1>3, <1>5

\* As long as the connection exists, notifyDelivered tells that an event made it
\* if and only if the other side has processed it.
THEOREM ToldTruthfully == Faithful => (EventSpec => []ToldTruth)
<1> SUFFICES ASSUME Faithful PROVE EventSpec => []ToldTruth
  OBVIOUS
<1>1. EventIInv => ToldTruth
  <2> SUFFICES ASSUME EventIInv, open, NEW t \in told
               PROVE  t.madeIt <=> t.event \in ToSet(processed)
    BY DEF ToldTruth
  <2>1. OrderedTold /\ UnorderedTold /\ EventTypeOK
    BY DEF EventIInv
  <2>2. CASE IsOrdered(t.event)
    <3>1. t.madeIt /\ t.event = Ordered(t.event.n) /\ t.event.n <= lastAckedEventSeq
      BY <2>1, <2>2 DEF OrderedTold
    <3>2. t.event.n \in Nat
      BY <2>1 DEF EventTypeOK, Event
    <3>3. Ordered(t.event.n) \in ToSet(processed)
      BY <3>1, <3>2, AckedProcessed
    <3> QED BY <3>1, <3>3
  <2>3. CASE ~IsOrdered(t.event)
    BY <2>1, <2>3 DEF UnorderedTold
  <2> QED BY <2>2, <2>3
<1> QED BY <1>1, EventInvariant, PTL

\* No event is lost or duplicated between postNetEvent and notifyDelivered: it is
\* in exactly one queue, packet, notify list or among those told.
THEOREM NoEventLost == Faithful => (EventSpec => []EventConserved)
<1> SUFFICES ASSUME Faithful PROVE EventSpec => []EventConserved
  OBVIOUS
<1>1. EventIInv => EventConserved
  <2> SUFFICES ASSUME EventIInv, open
               PROVE  /\ Posted = Queued \cup Acked \cup Told
                                    \cup UNION {Carried(k) : k \in DOMAIN eventList}
                      /\ Queued \cap Acked = {} /\ Queued \cap Told = {}
                      /\ Acked \cap Told = {}
                      /\ IsInjective(unorderedQueue) /\ IsInjective(sendQueue)
                      /\ \A k \in DOMAIN eventList :
                           /\ Carried(k) \cap (Queued \cup Acked \cup Told) = {}
                           /\ IsInjective(eventList[k].unordered)
                           /\ IsInjective(eventList[k].ordered)
                           /\ \A l \in DOMAIN eventList \ {k} :
                                Carried(k) \cap Carried(l) = {}
    BY DEF EventConserved
  <2>0. /\ EventTypeOK /\ OrderedPlaced /\ PostedInOrder /\ UnorderedPlaced
        /\ OrderedTold /\ UnorderedTold
    BY DEF EventIInv
  <2> DEFINE K == DOMAIN eventList
             Q == ToSet(sendQueue)
             U == ToSet(unorderedQueue)
             N == 0 .. (nextSendEventSeq - 1)
  <2>1. /\ Q \in SUBSET Nat /\ notifyList \in SUBSET Nat /\ nextSendEventSeq \in Nat
        /\ lastAckedEventSeq \in Int /\ lastAckedEventSeq >= -1
        /\ \A k \in K : OrderedIn(k) \in SUBSET Nat /\ UnorderedIn(k) \in SUBSET Event
        /\ sendQueue \in Seq(Nat)
        /\ \A k \in K : eventList[k].ordered \in Seq(Nat)
        /\ lastAckedEventSeq < nextSendEventSeq
    BY <2>0, EventTypes DEF OrderedPlaced
  <2>2. \A n \in Nat : \A m \in Nat : Ordered(n) = Ordered(m) => n = m
    BY OrderedEvent
  <2>3. /\ \A e \in ToSet(posted) : ~IsOrdered(e)
        /\ U \subseteq ToSet(posted)
        /\ \A k \in K : UnorderedIn(k) \subseteq ToSet(posted)
        /\ \A n \in Nat : IsOrdered(Ordered(n))
    BY <2>0, UnorderedPosted, OrderedEvent DEF UnorderedPlaced
  <2>4. ASSUME NEW e
        PROVE  /\ e \in Queued <=> e \in U \/ \E n \in Q : e = Ordered(n)
               /\ e \in Acked <=> \E n \in notifyList : e = Ordered(n)
               /\ e \in Told <=> \E t \in told : t.event = e
               /\ e \in Posted <=> e \in ToSet(posted) \/ \E n \in N : e = Ordered(n)
               /\ \A k : e \in Carried(k) <=>
                           (e \in UnorderedIn(k) \/ \E n \in OrderedIn(k) : e = Ordered(n))
    BY DEF Queued, Acked, Told, Posted, Carried, UnorderedIn, OrderedIn
  <2>5. ASSUME NEW e, IsOrdered(e)
        PROVE  e \in Told <=> \E n \in 0 .. lastAckedEventSeq : e = Ordered(n)
    <3>1. ASSUME NEW t \in told, t.event = e
          PROVE  e.n \in 0 .. lastAckedEventSeq /\ e = Ordered(e.n)
      <4>1. t.event = Ordered(t.event.n) /\ t.event.n <= lastAckedEventSeq
        BY <2>0, <2>5, <3>1 DEF OrderedTold
      <4>2. t.event.n \in Nat
        BY <2>0 DEF EventTypeOK, Event
      <4> QED BY <2>1, <3>1, <4>1, <4>2
    <3>2. ASSUME NEW n \in 0 .. lastAckedEventSeq, e = Ordered(n)
          PROVE  \E t \in told : t.event = e
      <4>1. [event |-> Ordered(n), madeIt |-> TRUE] \in told
        BY <2>0 DEF OrderedTold
      <4>2. [event |-> Ordered(n), madeIt |-> TRUE].event = Ordered(n)
        OBVIOUS
      <4> QED BY <3>2, <4>1, <4>2
    <3> QED BY <2>4, <3>1, <3>2
  <2>6. ASSUME NEW e, ~IsOrdered(e)
        PROVE  /\ e \in Told => e \in ToSet(posted) /\ e \notin U
                                /\ \A k \in K : e \notin UnorderedIn(k)
               /\ e \in ToSet(posted) =>
                    e \in U \/ e \in Told \/ \E k \in K : e \in UnorderedIn(k)
    BY <2>0, <2>4, <2>6 DEF UnorderedTold
  <2>7. /\ \A n \in Q : lastAckedEventSeq < n /\ n < nextSendEventSeq /\ n \notin notifyList
        /\ \A n \in notifyList : lastAckedEventSeq < n /\ n < nextSendEventSeq
        /\ \A k \in K : \A n \in OrderedIn(k) :
             /\ lastAckedEventSeq < n /\ n < nextSendEventSeq
             /\ n \notin notifyList /\ n \notin Q
             /\ \A l \in K : n \in OrderedIn(l) => l = k
        /\ \A n \in (lastAckedEventSeq + 1) .. (nextSendEventSeq - 1) :
             n \in Q \/ n \in notifyList \/ \E k \in K : n \in OrderedIn(k)
    <3>1. \A n \in notifyList : lastAckedEventSeq + 1 < n /\ n < nextSendEventSeq
      BY <2>0 DEF OrderedPlaced
    <3>2. \A n \in notifyList : lastAckedEventSeq < n
      BY <2>1, <3>1
    <3> QED BY <2>0, <3>1, <3>2 DEF OrderedPlaced
  <2>8. \A k \in K : \A e \in UnorderedIn(k) :
          e \notin U /\ \A l \in K : e \in UnorderedIn(l) => l = k
    BY <2>0 DEF UnorderedPlaced
  <2> HIDE DEF K, Q, U, N
  <2>9. ASSUME NEW e
        PROVE  e \in Posted <=> \/ e \in Queued \/ e \in Acked \/ e \in Told
                                \/ \E k \in K : e \in Carried(k)
    <3>1. CASE IsOrdered(e)
      <4>1. \A n : n \in N <=> n \in 0 .. lastAckedEventSeq
                               \/ n \in (lastAckedEventSeq + 1) .. (nextSendEventSeq - 1)
        BY <2>1 DEF N
      <4>2. \A n \in Q : n \in N
        BY <2>1, <2>7 DEF N
      <4>3. \A n \in notifyList : n \in N
        BY <2>1, <2>7 DEF N
      <4>4. \A k \in K : \A n \in OrderedIn(k) : n \in N
        BY <2>1, <2>7 DEF N
      <4>5. \A n \in N : n \in 0 .. lastAckedEventSeq \/ n \in Q \/ n \in notifyList
                         \/ \E k \in K : n \in OrderedIn(k)
        BY <2>7, <4>1
      <4>6. e \notin ToSet(posted) /\ e \notin U /\ \A k \in K : e \notin UnorderedIn(k)
        BY <2>3, <3>1
      <4> QED BY <2>4, <2>5, <3>1, <4>1, <4>2, <4>3, <4>4, <4>5, <4>6
    <3>2. CASE ~IsOrdered(e)
      <4>1. /\ \A n \in Q : e # Ordered(n)
            /\ \A n \in notifyList : e # Ordered(n)
            /\ \A n \in N : e # Ordered(n)
            /\ \A k \in K : \A n \in OrderedIn(k) : e # Ordered(n)
        <5>1. N \subseteq Nat
          BY DEF N
        <5> QED BY <2>1, <2>3, <3>2, <5>1
      <4> QED BY <2>3, <2>4, <2>6, <3>2, <4>1
    <3> QED BY <3>1, <3>2
  <2>10. ASSUME NEW e, IsOrdered(e)
         PROVE  /\ ~(e \in Queued /\ e \in Acked) /\ ~(e \in Queued /\ e \in Told)
                /\ ~(e \in Acked /\ e \in Told)
                /\ \A k \in K : e \in Carried(k) =>
                     /\ e \notin Queued /\ e \notin Acked /\ e \notin Told
                     /\ \A l \in K : e \in Carried(l) => l = k
    <3>1. e \notin ToSet(posted) /\ e \notin U /\ \A k \in K : e \notin UnorderedIn(k)
      BY <2>3, <2>10
    <3>2. /\ e \in Queued => \E n \in Q : e = Ordered(n)
          /\ e \in Acked => \E n \in notifyList : e = Ordered(n)
          /\ e \in Told => \E n \in 0 .. lastAckedEventSeq : e = Ordered(n)
          /\ \A k \in K : e \in Carried(k) => \E n \in OrderedIn(k) : e = Ordered(n)
      BY <2>4, <2>5, <2>10, <3>1
    <3>3. \A n \in 0 .. lastAckedEventSeq :
            /\ n \in Nat /\ n \notin Q /\ n \notin notifyList
            /\ \A k \in K : n \notin OrderedIn(k)
      BY <2>1, <2>7
    <3> QED BY <2>1, <2>2, <2>7, <3>2, <3>3
  <2>11. ASSUME NEW e, ~IsOrdered(e)
         PROVE  /\ ~(e \in Queued /\ e \in Acked) /\ ~(e \in Queued /\ e \in Told)
                /\ ~(e \in Acked /\ e \in Told)
                /\ \A k \in K : e \in Carried(k) =>
                     /\ e \notin Queued /\ e \notin Acked /\ e \notin Told
                     /\ \A l \in K : e \in Carried(l) => l = k
    <3>1. /\ \A n \in Q : e # Ordered(n)
          /\ \A n \in notifyList : e # Ordered(n)
          /\ \A k \in K : \A n \in OrderedIn(k) : e # Ordered(n)
      BY <2>1, <2>3, <2>11
    <3>2. /\ e \in Queued => e \in U
          /\ e \notin Acked
          /\ \A k \in K : e \in Carried(k) => e \in UnorderedIn(k)
      BY <2>4, <3>1
    <3> QED BY <2>6, <2>8, <2>11, <3>2
  <2>12. /\ IsInjective(unorderedQueue) /\ IsInjective(sendQueue)
         /\ \A k \in K : /\ IsInjective(eventList[k].unordered)
                         /\ IsInjective(eventList[k].ordered)
    <3>1. Ascending(sendQueue) /\ \A k \in K : Ascending(eventList[k].ordered)
      BY <2>0 DEF OrderedPlaced, K
    <3>2. /\ IsInjective(unorderedQueue)
          /\ \A k \in K : IsInjective(eventList[k].unordered)
      BY <2>0 DEF UnorderedPlaced, K
    <3> QED BY <2>1, <3>1, <3>2, AscendingDistinct
  <2>13. Posted = Queued \cup Acked \cup Told \cup UNION {Carried(k) : k \in K}
    BY <2>9
  <2>14. /\ Queued \cap Acked = {} /\ Queued \cap Told = {} /\ Acked \cap Told = {}
         /\ \A k \in K : /\ Carried(k) \cap (Queued \cup Acked \cup Told) = {}
                         /\ \A l \in K \ {k} : Carried(k) \cap Carried(l) = {}
    BY <2>10, <2>11
  <2> QED BY <2>12, <2>13, <2>14 DEF K
<1> QED BY <1>1, EventInvariant, PTL
=============================================================================
