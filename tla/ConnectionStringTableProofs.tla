--------------------- MODULE ConnectionStringTableProofs ---------------------
(***************************************************************************)
(* Proofs about ConnectionStringTable, on a service that notifies nothing  *)
(* as received that was not read, when no string is taken back and the     *)
(* packets under way carry at most twice as many strings as there are      *)
(* entries: StringIInv is an invariant, and with it the safety properties  *)
(* of the runs.                                                            *)
(***************************************************************************)
EXTENDS ConnectionStringTable, NotifyServiceProofs, FiniteSetTheorems

-----------------------------------------------------------------------------
(* The LRU list.                                                           *)

LEMMA IndexCount == IsFiniteSet(Index) /\ Cardinality(Index) = EntryCount
<1>1. EntryCount \in Nat \ {0}
  BY StringAssumption
<1> QED BY <1>1, FS_Interval DEF Index

LEMMA PushedBackElements ==
  ASSUME NEW list, LruComplete(list), NEW i \in Index
  PROVE  \E p \in 1 .. EntryCount :
           /\ list[p] = i
           /\ PushedBack(list, i) \in Seq(Index) /\ Len(PushedBack(list, i)) = EntryCount
           /\ \A n \in 1 .. (p - 1) : PushedBack(list, i)[n] = list[n]
           /\ \A n \in p .. (EntryCount - 1) : PushedBack(list, i)[n] = list[n + 1]
           /\ PushedBack(list, i)[EntryCount] = i
<1>1. /\ list \in Seq(Index) /\ Len(list) = EntryCount /\ DOMAIN list = 1 .. EntryCount
      /\ EntryCount \in Nat
  BY StringAssumption DEF LruComplete
<1>2. PICK p \in DOMAIN list : p = (CHOOSE n \in DOMAIN list : list[n] = i) /\ list[p] = i
  BY DEF LruComplete
<1> DEFINE a == SubSeq(list, 1, p - 1)
           b == SubSeq(list, p + 1, EntryCount)
           t == Append(a \o b, i)
<1>3. PushedBack(list, i) = t
  BY <1>1, <1>2 DEF PushedBack, RemoveAt
<1>4. /\ a \in Seq(Index) /\ Len(a) = p - 1
      /\ \A n \in 1 .. (p - 1) : a[n] = list[n]
  BY <1>1, <1>2
<1>5. /\ b \in Seq(Index) /\ Len(b) = EntryCount - p
      /\ \A n \in 1 .. (EntryCount - p) : b[n] = list[p + n]
  BY <1>1, <1>2
<1>6. p \in Nat /\ 1 <= p /\ p <= EntryCount
  BY <1>1, <1>2
<1> HIDE DEF a, b
<1> DEFINE c == a \o b
<1>7. /\ c \in Seq(Index) /\ Len(c) = EntryCount - 1
      /\ \A n \in 1 .. (p - 1) : c[n] = list[n]
      /\ \A n \in p .. (EntryCount - 1) : c[n] = list[n + 1]
  <2>1. c \in Seq(Index) /\ Len(c) = EntryCount - 1
    <3>1. c \in Seq(Index) /\ Len(c) = Len(a) + Len(b)
      BY <1>4, <1>5
    <3> HIDE DEF c
    <3> QED BY <1>1, <1>4, <1>5, <1>6, <3>1
  <2>2. \A n \in 1 .. (p - 1) : c[n] = list[n]
    BY <1>1, <1>4, <1>5, <1>6
  <2>3. ASSUME NEW n \in p .. (EntryCount - 1) PROVE c[n] = list[n + 1]
    <3>1. n \in (Len(a) + 1) .. (Len(a) + Len(b)) /\ n - Len(a) \in 1 .. (EntryCount - p)
      BY <1>1, <1>4, <1>5, <1>6
    <3>2. c[n] = b[n - Len(a)]
      BY <1>4, <1>5, <3>1
    <3>3. p + (n - Len(a)) = n + 1
      BY <1>1, <1>4, <1>6
    <3> QED BY <1>5, <3>1, <3>2, <3>3
  <2> QED BY <2>1, <2>2, <2>3
<1> HIDE DEF c
<1>8. /\ t \in Seq(Index) /\ Len(t) = EntryCount
      /\ \A n \in 1 .. (p - 1) : t[n] = list[n]
      /\ \A n \in p .. (EntryCount - 1) : t[n] = list[n + 1]
      /\ t[EntryCount] = i
  <2>1. t = Append(c, i)
    BY DEF c
  <2> QED BY <1>1, <1>6, <1>7, <2>1
<1> QED BY <1>1, <1>2, <1>3, <1>8

\* pushBack keeps the entries and the order of the others.
LEMMA PushedBackLast ==
  ASSUME NEW list, LruComplete(list), NEW i \in Index
  PROVE  /\ LruComplete(PushedBack(list, i))
         /\ \A p, q \in DOMAIN PushedBack(list, i) :
              p < q => /\ PushedBack(list, i)[p] # i
                       /\ \/ PushedBack(list, i)[q] = i
                          \/ \E m, n \in DOMAIN list :
                               /\ m < n /\ list[m] = PushedBack(list, i)[p]
                               /\ list[n] = PushedBack(list, i)[q]
<1>1. /\ list \in Seq(Index) /\ Len(list) = EntryCount /\ DOMAIN list = 1 .. EntryCount
      /\ EntryCount \in Nat /\ EntryCount > 0
      /\ \A p, q \in DOMAIN list : list[p] = list[q] => p = q
      /\ \A j \in Index : \E p \in DOMAIN list : list[p] = j
  BY StringAssumption DEF LruComplete
<1> DEFINE t == PushedBack(list, i)
<1>2. PICK s \in 1 .. EntryCount :
        /\ list[s] = i
        /\ t \in Seq(Index) /\ Len(t) = EntryCount
        /\ \A n \in 1 .. (s - 1) : t[n] = list[n]
        /\ \A n \in s .. (EntryCount - 1) : t[n] = list[n + 1]
        /\ t[EntryCount] = i
  BY PushedBackElements
<1> HIDE DEF t
<1>3. DOMAIN t = 1 .. EntryCount
  BY <1>1, <1>2
<1> DEFINE from(n) == IF n < s THEN n ELSE n + 1
<1>4. \A n \in 1 .. (EntryCount - 1) :
        from(n) \in DOMAIN list /\ t[n] = list[from(n)] /\ from(n) # s
  BY <1>1, <1>2
<1>5. \A m, n \in 1 .. (EntryCount - 1) :
        (m < n => from(m) < from(n)) /\ (from(m) = from(n) => m = n)
  BY <1>1, <1>2
<1>6. \A m \in DOMAIN list : m # s => \E n \in 1 .. (EntryCount - 1) : from(n) = m
  <2> TAKE m \in DOMAIN list
  <2> HAVE m # s
  <2>1. CASE m < s
    <3>1. m \in 1 .. (EntryCount - 1) /\ from(m) = m
      BY <1>1, <2>1
    <3> QED BY <3>1
  <2>2. CASE m > s
    <3>1. m - 1 \in 1 .. (EntryCount - 1) /\ from(m - 1) = m
      BY <1>1, <2>2
    <3> QED BY <3>1
  <2> QED BY <1>1, <2>1, <2>2
<1> HIDE DEF from
<1>7. \A n \in 1 .. (EntryCount - 1) : t[n] # i
  <2>1. s \in DOMAIN list /\ list[s] = i /\ \A p \in DOMAIN list : list[p] = i => p = s
    BY <1>1, <1>2
  <2> QED BY <1>4, <2>1, Zenon
<1>8. \A j \in Index : \E p \in DOMAIN t : t[p] = j
  <2> TAKE j \in Index
  <2>1. CASE j = i
    <3>1. EntryCount \in DOMAIN t /\ t[EntryCount] = j
      BY <1>2, <1>3, <2>1
    <3> QED BY <3>1
  <2>2. CASE j # i
    <3>1. PICK m \in DOMAIN list : list[m] = j
      BY <1>1
    <3>2. m # s
      BY <1>2, <2>2, <3>1
    <3>3. PICK n \in 1 .. (EntryCount - 1) : from(n) = m
      BY <1>6, <3>2
    <3>4. n \in DOMAIN t /\ t[n] = j
      BY <1>1, <1>3, <1>4, <3>1, <3>3
    <3> QED BY <3>4
  <2> QED BY <2>1, <2>2
<1>9. ASSUME NEW p \in DOMAIN t, NEW q \in DOMAIN t, t[p] = t[q] PROVE p = q
  <2>1. CASE p = EntryCount \/ q = EntryCount
    <3>1. \A n \in DOMAIN t : t[n] = i => n = EntryCount
      <4>1. \A n \in DOMAIN t : n = EntryCount \/ n \in 1 .. (EntryCount - 1)
        BY <1>1, <1>3
      <4> QED BY <1>7, <4>1
    <3> QED BY <1>2, <1>9, <2>1, <3>1
  <2>2. CASE p # EntryCount /\ q # EntryCount
    <3>1. p \in 1 .. (EntryCount - 1) /\ q \in 1 .. (EntryCount - 1)
      BY <1>1, <1>3, <2>2
    <3>2. list[from(p)] = list[from(q)]
      BY <1>4, <1>9, <3>1, Zenon
    <3>3. from(p) = from(q)
      BY <1>1, <1>4, <3>1, <3>2, Zenon
    <3> QED BY <1>5, <3>1, <3>3, Zenon
  <2> QED BY <2>1, <2>2
<1>10. LruComplete(t)
  BY <1>2, <1>8, <1>9 DEF LruComplete
<1>11. ASSUME NEW p \in DOMAIN t, NEW q \in DOMAIN t, p < q
       PROVE  /\ t[p] # i
              /\ \/ t[q] = i
                 \/ \E m, n \in DOMAIN list : m < n /\ list[m] = t[p] /\ list[n] = t[q]
  <2>1. p \in 1 .. (EntryCount - 1)
    BY <1>1, <1>3, <1>11
  <2>2. CASE q = EntryCount
    BY <1>2, <1>7, <2>1, <2>2
  <2>3. CASE q # EntryCount
    <3>1. q \in 1 .. (EntryCount - 1)
      BY <1>1, <1>3, <2>3
    <3>2. from(p) < from(q) /\ from(p) \in DOMAIN list /\ from(q) \in DOMAIN list
          /\ list[from(p)] = t[p] /\ list[from(q)] = t[q]
      BY <1>4, <1>5, <1>11, <2>1, <3>1
    <3> QED BY <1>7, <2>1, <3>2
  <2> QED BY <2>2, <2>3
<1> QED BY <1>10, <1>11 DEF t

\* Every other entry is behind the head.
LEMMA HeadFirst ==
  ASSUME NEW list, LruComplete(list)
  PROVE  /\ Head(list) \in Index /\ 1 \in DOMAIN list /\ list[1] = Head(list)
         /\ \A i \in Index \ {Head(list)} : \E q \in DOMAIN list : 1 < q /\ list[q] = i
<1>1. /\ list \in Seq(Index) /\ Len(list) = EntryCount /\ DOMAIN list = 1 .. EntryCount
      /\ EntryCount \in Nat /\ EntryCount > 0
      /\ \A j \in Index : \E p \in DOMAIN list : list[p] = j
  BY StringAssumption DEF LruComplete
<1>2. Head(list) = list[1] /\ list[1] \in Index
  BY <1>1
<1> QED BY <1>1, <1>2

-----------------------------------------------------------------------------
(* Places.                                                                 *)

LEMMA PlaceElements ==
  ASSUME NEW P, PendingItems(P), NEW x \in Places(P)
  PROVE  /\ x[1] \in DOMAIN P /\ x[1] \in Nat
         /\ x[2] \in DOMAIN P[x[1]] /\ x[2] \in Nat /\ x[2] \in 1 .. MaxPerPacket
         /\ x = <<x[1], x[2]>>
         /\ At(P, x) \in Item /\ At(P, x).index \in Index
         /\ At(P, x).meant \in String /\ At(P, x).meant # NoString
         /\ At(P, x).string \in {NoString, At(P, x).meant}
<1>1. /\ x \in (DOMAIN P) \X (1 .. MaxPerPacket) /\ x[2] \in DOMAIN P[x[1]]
      /\ x[1] \in DOMAIN P /\ x[2] \in 1 .. MaxPerPacket /\ x = <<x[1], x[2]>>
  BY DEF Places
<1>2. x[1] \in Nat /\ P[x[1]] \in Seq(Item) /\ x[2] \in Nat
  BY <1>1, StringAssumption DEF PendingItems
<1>3. At(P, x) \in Item
  BY <1>1, <1>2 DEF At
<1>4. At(P, x).index \in Index /\ At(P, x).meant \in String
  BY <1>3 DEF Item
<1>5. At(P, x).meant # NoString
  BY <1>4, StringAssumption
<1>6. At(P, x).string \in {NoString, At(P, x).meant}
  BY DEF PendingItems
<1> QED BY <1>1, <1>2, <1>3, <1>4, <1>5, <1>6

LEMMA PlaceOf ==
  ASSUME NEW P, PendingItems(P), NEW k \in DOMAIN P, NEW j \in DOMAIN P[k]
  PROVE  /\ <<k, j>> \in Places(P) /\ <<k, j>>[1] = k /\ <<k, j>>[2] = j
         /\ At(P, <<k, j>>) = P[k][j]
<1>1. P[k] \in Seq(Item) /\ Len(P[k]) <= MaxPerPacket /\ MaxPerPacket \in Nat
  BY StringAssumption DEF PendingItems
<1>2. j \in 1 .. MaxPerPacket
  BY <1>1
<1> QED BY <1>2 DEF Places, At

LEMMA EarlierOrder ==
  ASSUME NEW P, PendingItems(P),
         NEW x \in Places(P), NEW y \in Places(P), NEW z \in Places(P)
  PROVE  /\ ~Earlier(x, x)
         /\ Earlier(x, y) => ~Earlier(y, x) /\ x # y
         /\ Earlier(x, y) /\ Earlier(y, z) => Earlier(x, z)
         /\ x = y \/ Earlier(x, y) \/ Earlier(y, x)
<1>1. /\ x[1] \in Nat /\ x[2] \in Nat /\ y[1] \in Nat /\ y[2] \in Nat
      /\ z[1] \in Nat /\ z[2] \in Nat
      /\ x = <<x[1], x[2]>> /\ y = <<y[1], y[2]>>
  BY PlaceElements
<1>2. x[1] = y[1] /\ x[2] = y[2] => x = y
  BY <1>1
<1> QED BY <1>1, <1>2 DEF Earlier

\* The places between two of the same entry that mean different strings, and at
\* other entries.
Between(P, x, y) ==
    {z \in Places(P) : /\ Earlier(x, z) /\ Earlier(z, y)
                       /\ At(P, z).index # At(P, x).index}

LEMMA BetweenCount ==
  ASSUME NEW P, PendingItems(P), IsFiniteSet(Places(P)), ChangesApart(P),
         NEW x \in Places(P), NEW y \in Places(P),
         Earlier(x, y), SameEntry(P, x, y), ~SameString(P, x, y)
  PROVE  /\ IsFiniteSet(Between(P, x, y))
         /\ Cardinality(Between(P, x, y)) \in Nat
         /\ Cardinality(Between(P, x, y)) >= EntryCount - 1
<1> DEFINE S == Between(P, x, y)
           i == At(P, x).index
           T == Index \ {i}
           f == [z \in S |-> At(P, z).index]
<1>1. IsFiniteSet(S) /\ Cardinality(S) \in Nat
  <2>1. S \in SUBSET Places(P)
    BY DEF Between
  <2> QED BY <2>1, FS_Subset, FS_CardinalityType
<1>2. \A z \in S : At(P, z).index \in T
  BY PlaceElements DEF Between
<1>3. \A j \in T : \E z \in S : At(P, z).index = j
  BY DEF ChangesApart, Between
<1>4. f \in Surjection(S, T)
  <2>1. f \in [S -> T]
    BY <1>2
  <2>2. \A j \in T : \E z \in S : f[z] = j
    BY <1>3
  <2> HIDE DEF f, S, T
  <2> QED BY <2>1, <2>2 DEF Surjection
<1>5. i \in Index
  BY PlaceElements
<1>6. Cardinality(T) = EntryCount - 1
  BY <1>5, IndexCount, FS_RemoveElement
<1>7. Cardinality(T) <= Cardinality(S)
  BY <1>1, <1>4, FS_Surjection
<1> QED BY <1>1, <1>6, <1>7

\* Few enough strings are under way.
Few(P) ==
    /\ IsFiniteSet(Places(P)) /\ Cardinality(Places(P)) \in Nat
    /\ Cardinality(Places(P)) <= 2 * EntryCount

LEMMA FewUnderWay ==
  ASSUME NEW P, PendingItems(P), NEW n \in Nat, NEW m \in Nat,
         DOMAIN P \subseteq (n + 1) .. m, m - n <= Window,
         Window * MaxPerPacket <= 2 * EntryCount
  PROVE  Few(P)
<1> DEFINE A == (n + 1) .. (n + Window)
           B == 1 .. MaxPerPacket
<1>1. Window \in Nat /\ MaxPerPacket \in Nat /\ EntryCount \in Nat
  BY StringAssumption, ServiceAssumption
<1>2. IsFiniteSet(A) /\ Cardinality(A) = Window
  BY <1>1, FS_Interval
<1>3. IsFiniteSet(B) /\ Cardinality(B) = MaxPerPacket
  BY <1>1, FS_Interval
<1>4. Places(P) \in SUBSET (A \X B)
  <2>1. DOMAIN P \subseteq A
    BY <1>1
  <2> QED BY <2>1 DEF Places
<1> HIDE DEF A, B
<1>5. IsFiniteSet(A \X B) /\ Cardinality(A \X B) = Window * MaxPerPacket
  BY <1>2, <1>3, FS_Product
<1>6. IsFiniteSet(Places(P)) /\ Cardinality(Places(P)) <= Cardinality(A \X B)
  BY <1>4, <1>5, FS_Subset
<1>7. Cardinality(Places(P)) \in Nat
  BY <1>6, FS_CardinalityType
<1>8. Window * MaxPerPacket \in Nat
  BY <1>1
<1> QED BY <1>1, <1>5, <1>6, <1>7, <1>8 DEF Few

\* An entry does not return to an earlier string within the packets under way.
LEMMA NoReturn ==
  ASSUME NEW P, PendingItems(P), Few(P), ChangesApart(P),
         NEW x \in Places(P), NEW y \in Places(P), NEW z \in Places(P),
         Earlier(x, y), Earlier(y, z), SameEntry(P, x, y), SameEntry(P, y, z),
         ~SameString(P, x, y), ~SameString(P, y, z)
  PROVE  FALSE
<1> DEFINE A == Between(P, x, y)
           B == Between(P, y, z)
           C == A \cup B
<1>1. /\ IsFiniteSet(A) /\ Cardinality(A) \in Nat /\ Cardinality(A) >= EntryCount - 1
      /\ IsFiniteSet(B) /\ Cardinality(B) \in Nat /\ Cardinality(B) >= EntryCount - 1
  BY BetweenCount DEF Few
<1>2. A \cap B = {}
  BY EarlierOrder DEF Between
<1>3. x \notin C /\ y \notin C /\ z \notin C
  BY DEF Between, SameEntry
<1>4. x # y /\ y # z /\ x # z
  BY EarlierOrder
<1>5. C \subseteq Places(P)
  BY DEF Between
<1> HIDE DEF A, B
<1>6. IsFiniteSet(C) /\ Cardinality(C) = Cardinality(A) + Cardinality(B)
  <2>1. Cardinality(A \cap B) = 0
    BY <1>2, FS_EmptySet
  <2>2. IsFiniteSet(C)
        /\ Cardinality(C) = Cardinality(A) + Cardinality(B) - Cardinality(A \cap B)
    BY <1>1, FS_Union
  <2> QED BY <1>1, <2>1, <2>2
<1> HIDE DEF C
<1>7. IsFiniteSet(C \cup {x}) /\ Cardinality(C \cup {x}) = Cardinality(C) + 1
  BY <1>3, <1>6, FS_AddElement
<1> DEFINE D == C \cup {x}
<1>8. y \notin D /\ z \notin D
  BY <1>3, <1>4
<1>9. IsFiniteSet(D) /\ Cardinality(D) = Cardinality(C) + 1
  BY <1>7
<1> HIDE DEF D
<1>10. IsFiniteSet(D \cup {y}) /\ Cardinality(D \cup {y}) = Cardinality(D) + 1
  BY <1>8, <1>9, FS_AddElement
<1> DEFINE E == D \cup {y}
<1>11. z \notin E /\ IsFiniteSet(E) /\ Cardinality(E) = Cardinality(D) + 1
  BY <1>4, <1>8, <1>10
<1> HIDE DEF E
<1>12. IsFiniteSet(E \cup {z}) /\ Cardinality(E \cup {z}) = Cardinality(E) + 1
  BY <1>11, FS_AddElement
<1>13. E \cup {z} \in SUBSET Places(P)
  BY <1>5 DEF D, E
<1>14. Cardinality(E \cup {z}) <= Cardinality(Places(P))
  BY <1>13, FS_Subset DEF Few
<1>15. EntryCount \in Nat
  BY StringAssumption
<1> QED BY <1>1, <1>6, <1>9, <1>11, <1>12, <1>14, <1>15 DEF Few

-----------------------------------------------------------------------------
(* writeStringTableEntry: one more string in the packet being written.     *)

Adds(P, Q, x, item) ==
    /\ x \notin Places(P) /\ Places(Q) = Places(P) \cup {x} /\ At(Q, x) = item
    /\ \A y \in Places(P) : At(Q, y) = At(P, y) /\ Earlier(y, x)

LEMMA AddsUsed ==
  ASSUME NEW P, NEW Q, NEW x, NEW item, Adds(P, Q, x, item),
         NEW list, LruComplete(list), item.index \in Index, UsedSince(P, list)
  PROVE  UsedSince(Q, PushedBack(list, item.index))
<1> DEFINE i == item.index
           new == PushedBack(list, i)
<1> SUFFICES ASSUME NEW y \in Places(Q), NEW p \in DOMAIN new, NEW q \in DOMAIN new,
                    p < q, new[p] = At(Q, y).index
             PROVE  \E z \in Places(Q) : Earlier(y, z) /\ At(Q, z).index = new[q]
  BY DEF UsedSince
<1>1. /\ new[p] # i
      /\ \/ new[q] = i
         \/ \E m, n \in DOMAIN list : m < n /\ list[m] = new[p] /\ list[n] = new[q]
  BY PushedBackLast
<1> HIDE DEF new
<1>2. y \in Places(P) /\ At(Q, y) = At(P, y) /\ Earlier(y, x) /\ x \in Places(Q)
  BY <1>1 DEF Adds
<1>3. CASE new[q] = i
  BY <1>2, <1>3 DEF Adds
<1>4. CASE \E m, n \in DOMAIN list : m < n /\ list[m] = new[p] /\ list[n] = new[q]
  <2>1. PICK z \in Places(P) : Earlier(y, z) /\ At(P, z).index = new[q]
    BY <1>2, <1>4 DEF UsedSince
  <2> QED BY <2>1 DEF Adds
<1> QED BY <1>1, <1>3, <1>4

LEMMA AddsChanges ==
  ASSUME NEW P, NEW Q, NEW x, NEW item, Adds(P, Q, x, item), PendingItems(Q),
         NEW list, LruComplete(list), NEW entries, item.index \in Index,
         UsedSince(P, list), ChangesApart(P), LastIsEntry(P, entries),
         entries[item.index] = item.meant \/ item.index = Head(list)
  PROVE  ChangesApart(Q)
<1> DEFINE i == item.index
<1> SUFFICES ASSUME NEW u \in Places(Q), NEW v \in Places(Q), Earlier(u, v),
                    SameEntry(Q, u, v), ~SameString(Q, u, v),
                    NEW j \in Index \ {At(Q, u).index}
             PROVE  \E z \in Places(Q) :
                      Earlier(u, z) /\ Earlier(z, v) /\ At(Q, z).index = j
  BY DEF ChangesApart
<1>1. /\ u \in Places(P)
      /\ \A y \in Places(P) : y \in Places(Q) /\ At(Q, y) = At(P, y) /\ Earlier(y, x)
  <2>1. \A y \in Places(P) : y \in Places(Q) /\ At(Q, y) = At(P, y) /\ Earlier(y, x)
    BY DEF Adds
  <2>2. u # x
    <3> SUFFICES ASSUME u = x PROVE FALSE
      OBVIOUS
    <3>1. v \in Places(P) \/ v = x
      BY DEF Adds
    <3>2. Earlier(v, x) \/ v = x
      BY <2>1, <3>1
    <3> QED BY <3>2, EarlierOrder
  <2> QED BY <2>1, <2>2 DEF Adds
<1>2. CASE v = x
  <2>1. At(Q, v) = item /\ At(P, u).index = i /\ At(P, u).meant # item.meant
    BY <1>1, <1>2 DEF Adds, SameEntry, SameString
  <2>2. CASE entries[i] = item.meant
    <3>1. PICK w \in Places(P) :
            /\ w = u \/ Earlier(u, w)
            /\ SameEntry(P, u, w) /\ At(P, w).meant = entries[At(P, w).index]
      BY <1>1 DEF LastIsEntry
    <3>2. At(P, w).meant = item.meant
      BY <2>1, <2>2, <3>1 DEF SameEntry
    <3>3. Earlier(u, w) /\ ~SameString(P, u, w)
      BY <2>1, <3>1, <3>2 DEF SameString
    <3>4. j \in Index \ {At(P, u).index}
      BY <1>1
    <3>5. PICK z \in Places(P) : Earlier(u, z) /\ Earlier(z, w) /\ At(P, z).index = j
      BY <1>1, <3>1, <3>3, <3>4 DEF ChangesApart
    <3> QED BY <1>1, <1>2, <3>5
  <2>3. CASE i = Head(list)
    <3>1. PICK q \in DOMAIN list : 1 < q /\ list[q] = j
      BY <1>1, <2>1, <2>3, HeadFirst
    <3>2. 1 \in DOMAIN list /\ list[1] = At(P, u).index
      BY <2>1, <2>3, HeadFirst
    <3>3. PICK z \in Places(P) : Earlier(u, z) /\ At(P, z).index = j
      BY <1>1, <3>1, <3>2 DEF UsedSince
    <3> QED BY <1>1, <1>2, <3>3
  <2> QED BY <2>2, <2>3
<1>3. CASE v \in Places(P)
  <2>1. /\ SameEntry(P, u, v) /\ ~SameString(P, u, v) /\ j \in Index \ {At(P, u).index}
    BY <1>1, <1>3 DEF SameEntry, SameString
  <2>2. PICK z \in Places(P) : Earlier(u, z) /\ Earlier(z, v) /\ At(P, z).index = j
    BY <1>1, <1>3, <2>1 DEF ChangesApart
  <2> QED BY <1>1, <2>2
<1> QED BY <1>2, <1>3 DEF Adds

LEMMA AddsLast ==
  ASSUME NEW P, NEW Q, NEW x, NEW item, Adds(P, Q, x, item),
         NEW entries, NEW new, LastIsEntry(P, entries),
         new[item.index] = item.meant,
         \A y \in Places(P) : At(P, y).index # item.index =>
                                new[At(P, y).index] = entries[At(P, y).index]
  PROVE  LastIsEntry(Q, new)
<1> SUFFICES ASSUME NEW y \in Places(Q)
             PROVE  \E z \in Places(Q) :
                      /\ z = y \/ Earlier(y, z)
                      /\ SameEntry(Q, y, z) /\ At(Q, z).meant = new[At(Q, z).index]
  BY DEF LastIsEntry
<1>1. x \in Places(Q) /\ At(Q, x) = item
  BY DEF Adds
<1>2. CASE At(Q, y).index = item.index
  <2>1. y = x \/ Earlier(y, x)
    BY DEF Adds
  <2> QED BY <1>1, <1>2, <2>1 DEF SameEntry
<1>3. CASE At(Q, y).index # item.index
  <2>1. y \in Places(P) /\ At(Q, y) = At(P, y)
    BY <1>1, <1>3 DEF Adds
  <2>2. PICK z \in Places(P) :
          /\ z = y \/ Earlier(y, z)
          /\ SameEntry(P, y, z) /\ At(P, z).meant = entries[At(P, z).index]
    BY <2>1 DEF LastIsEntry
  <2>3. z \in Places(Q) /\ At(Q, z) = At(P, z)
    BY DEF Adds
  <2>4. At(P, z).index # item.index
    BY <1>3, <2>1, <2>2 DEF SameEntry
  <2> QED BY <2>1, <2>2, <2>3, <2>4 DEF SameEntry
<1> QED BY <1>2, <1>3

LEMMA AddsConfirmed ==
  ASSUME NEW P, NEW Q, NEW x, NEW item, Adds(P, Q, x, item),
         NEW entries, NEW new, NEW confirmed, NEW still \in SUBSET confirmed,
         ConfirmedStays(P, entries, confirmed),
         new[item.index] = item.meant,
         \A i \in still : new[i] = entries[i]
  PROVE  ConfirmedStays(Q, new, still)
<1> SUFFICES ASSUME NEW i \in still
             PROVE  /\ remoteStringTable[i] = new[i]
                    /\ \A y \in Places(Q) : Unread(y) /\ At(Q, y).index = i =>
                                              At(Q, y).meant = new[i]
  BY DEF ConfirmedStays
<1>1. /\ remoteStringTable[i] = entries[i] /\ new[i] = entries[i]
      /\ \A y \in Places(P) : Unread(y) /\ At(P, y).index = i => At(P, y).meant = entries[i]
  BY DEF ConfirmedStays
<1>2. ASSUME NEW y \in Places(Q), Unread(y), At(Q, y).index = i
      PROVE  At(Q, y).meant = new[i]
  <2>1. CASE y = x
    BY <1>2, <2>1 DEF Adds
  <2>2. CASE y \in Places(P)
    BY <1>1, <1>2, <2>2 DEF Adds
  <2> QED BY <2>1, <2>2 DEF Adds
<1> QED BY <1>1, <1>2

LEMMA AddsOmitted ==
  ASSUME NEW P, NEW Q, NEW x, NEW item, Adds(P, Q, x, item), PendingItems(Q),
         OmittedKnown(P), NEW entries, NEW confirmed,
         ConfirmedStays(P, entries, confirmed),
         item.string = NoString => /\ item.index \in confirmed
                                   /\ entries[item.index] = item.meant
  PROVE  OmittedKnown(Q)
<1> SUFFICES ASSUME NEW u \in Places(Q), Unread(u), At(Q, u).string = NoString
             PROVE  /\ remoteStringTable[At(Q, u).index] = At(Q, u).meant
                    /\ \A y \in Places(Q) :
                         Unread(y) /\ Earlier(y, u) /\ SameEntry(Q, y, u) =>
                           SameString(Q, y, u)
  BY DEF OmittedKnown
<1>1. \A y \in Places(P) : At(Q, y) = At(P, y) /\ Earlier(y, x)
  BY DEF Adds
<1>2. \A y \in Places(Q) : y \in Places(P) \/ y = x
  BY DEF Adds
<1>3. CASE u = x
  <2>1. /\ At(Q, u) = item
        /\ item.index \in confirmed /\ entries[item.index] = item.meant
    BY <1>3 DEF Adds
  <2>2. remoteStringTable[item.index] = item.meant
    BY <2>1 DEF ConfirmedStays
  <2>3. ASSUME NEW y \in Places(Q), Unread(y), Earlier(y, u), SameEntry(Q, y, u)
        PROVE  SameString(Q, y, u)
    <3>1. y \in Places(P)
      BY <1>2, <1>3, <2>3, EarlierOrder
    <3>2. At(P, y).index = item.index
      BY <1>1, <2>1, <2>3, <3>1 DEF SameEntry
    <3>3. At(P, y).meant = item.meant
      BY <2>1, <2>3, <3>1, <3>2 DEF ConfirmedStays
    <3> QED BY <1>1, <2>1, <3>1, <3>3 DEF SameString
  <2> QED BY <2>1, <2>2, <2>3
<1>4. CASE u \in Places(P)
  <2>1. At(Q, u) = At(P, u)
    BY <1>1, <1>4
  <2>2. /\ remoteStringTable[At(P, u).index] = At(P, u).meant
        /\ \A y \in Places(P) :
             Unread(y) /\ Earlier(y, u) /\ SameEntry(P, y, u) => SameString(P, y, u)
    BY <1>4, <2>1 DEF OmittedKnown
  <2>3. ASSUME NEW y \in Places(Q), Unread(y), Earlier(y, u), SameEntry(Q, y, u)
        PROVE  SameString(Q, y, u)
    <3>1. y # x
      <4>1. Earlier(u, x)
        BY <1>1, <1>4
      <4> QED BY <2>3, <4>1, EarlierOrder
    <3>2. y \in Places(P) /\ At(Q, y) = At(P, y)
      BY <1>1, <1>2, <3>1
    <3>3. SameString(P, y, u)
      BY <2>1, <2>2, <2>3, <3>2 DEF SameEntry
    <3> QED BY <2>1, <3>2, <3>3 DEF SameString
  <2> QED BY <2>1, <2>2, <2>3
<1> QED BY <1>2, <1>3, <1>4

LEMMA AddsRead ==
  ASSUME NEW P, NEW Q, NEW x, NEW item, Adds(P, Q, x, item), ReadKnown(P),
         x[1] \notin read
  PROVE  ReadKnown(Q)
<1> SUFFICES ASSUME NEW u \in Places(Q), u[1] \in read
             PROVE  \/ remoteStringTable[At(Q, u).index] = At(Q, u).meant
                    \/ \E y \in Places(Q) :
                         Earlier(u, y) /\ SameEntry(Q, u, y) /\ ~SameString(Q, u, y)
  BY DEF ReadKnown
<1>1. u \in Places(P) /\ At(Q, u) = At(P, u)
  BY DEF Adds
<1>2. CASE remoteStringTable[At(P, u).index] = At(P, u).meant
  BY <1>1, <1>2
<1>3. CASE \E y \in Places(P) :
             Earlier(u, y) /\ SameEntry(P, u, y) /\ ~SameString(P, u, y)
  <2>1. PICK y \in Places(P) :
          Earlier(u, y) /\ SameEntry(P, u, y) /\ ~SameString(P, u, y)
    BY <1>3
  <2>2. y \in Places(Q) /\ At(Q, y) = At(P, y)
    BY DEF Adds
  <2> QED BY <1>1, <2>1, <2>2 DEF SameEntry, SameString
<1> QED BY <1>1, <1>2, <1>3 DEF ReadKnown

\* A table while a packet is written.
Tables ==
    {t \in [entries : [Index -> String \cup {NoString}], confirmed : SUBSET Index,
            lru : Seq(Index), list : SUBSET [index : Index, string : String],
            items : Seq(Item)] : LruComplete(t.lru)}

ItemOf(t, s) ==
    [index |-> EntryOf(t, s), meant |-> s,
     string |-> IF EntryOf(t, s) \in StillConfirmed(t, EntryOf(t, s), s) THEN NoString
                ELSE s]

LEMMA EntryFound ==
  ASSUME NEW t \in Tables, NEW s \in String
  PROVE  /\ EntryOf(t, s) \in Index
         /\ t.entries[EntryOf(t, s)] = s \/ EntryOf(t, s) = Head(t.lru)
<1>1. LruComplete(t.lru)
  BY DEF Tables
<1>2. Head(t.lru) \in Index
  BY <1>1, HeadFirst
<1>3. CASE \E i \in Index : t.entries[i] = s
  <2>1. EntryOf(t, s) = CHOOSE i \in Index : t.entries[i] = s
    BY <1>3 DEF EntryOf
  <2> QED BY <1>3, <2>1
<1>4. CASE ~\E i \in Index : t.entries[i] = s
  BY <1>2, <1>4 DEF EntryOf
<1> QED BY <1>3, <1>4

LEMMA WriteFields ==
  ASSUME NEW t \in Tables, NEW s \in String
  PROVE  LET r == WriteString(t, s)
             i == EntryOf(t, s)
         IN  /\ r \in Tables
             /\ r.entries = [t.entries EXCEPT ![i] = s]
             /\ r.confirmed = StillConfirmed(t, i, s)
             /\ r.lru = PushedBack(t.lru, i)
             /\ r.list = IF i \in r.confirmed THEN t.list
                         ELSE t.list \cup {PacketEntry(i, s)}
             /\ r.items = Append(t.items, ItemOf(t, s))
             /\ ItemOf(t, s) \in Item
<1> DEFINE i == EntryOf(t, s)
           c == StillConfirmed(t, i, s)
           l == PushedBack(t.lru, i)
           item == ItemOf(t, s)
<1>1. i \in Index
  BY EntryFound
<1> HIDE DEF i
<1>2. /\ t.entries \in [Index -> String \cup {NoString}] /\ t.confirmed \in SUBSET Index
      /\ t.lru \in Seq(Index) /\ t.list \in SUBSET [index : Index, string : String]
      /\ t.items \in Seq(Item) /\ LruComplete(t.lru)
  BY DEF Tables
<1>3. c \in SUBSET Index
  BY <1>2 DEF StillConfirmed
<1> HIDE DEF c
<1>4. LruComplete(l) /\ l \in Seq(Index)
  <2>1. LruComplete(l)
    BY <1>1, <1>2, PushedBackLast
  <2> HIDE DEF l
  <2> QED BY <2>1 DEF LruComplete
<1> HIDE DEF l
<1>5. item = [index |-> i, meant |-> s, string |-> IF i \in c THEN NoString ELSE s]
  BY DEF ItemOf, i, c
<1>6. item \in Item
  BY <1>1, <1>5 DEF Item
<1>7. WriteString(t, s) =
        [entries |-> [t.entries EXCEPT ![i] = s], confirmed |-> c, lru |-> l,
         list |-> IF i \in c THEN t.list ELSE t.list \cup {PacketEntry(i, s)},
         items |-> Append(t.items, item)]
  BY <1>5 DEF WriteString, i, c, l
<1> HIDE DEF item
<1>8. [t.entries EXCEPT ![i] = s] \in [Index -> String \cup {NoString}]
  BY <1>2
<1>9. (IF i \in c THEN t.list ELSE t.list \cup {PacketEntry(i, s)})
        \in SUBSET [index : Index, string : String]
  BY <1>1, <1>2 DEF PacketEntry
<1>10. Append(t.items, item) \in Seq(Item)
  BY <1>2, <1>6
<1>11. WriteString(t, s) \in Tables
  BY <1>3, <1>4, <1>7, <1>8, <1>9, <1>10 DEF Tables
<1> QED BY <1>6, <1>7, <1>11 DEF i, c, l, item

\* The packet being written gets one more string.
LEMMA ExtendedPlaces ==
  ASSUME NEW W, PendingItems(W), NEW k \in Nat, \A n \in DOMAIN W : n < k,
         NEW items \in Seq(Item), Len(items) < MaxPerPacket, NEW item \in Item,
         item.string \in {NoString, item.meant},
         PendingItems(Extended(W, k, items))
  PROVE  LET x == <<k, Len(items) + 1>>
         IN  /\ PendingItems(Extended(W, k, Append(items, item)))
             /\ Adds(Extended(W, k, items), Extended(W, k, Append(items, item)), x, item)
             /\ x[1] = k
<1> DEFINE P == Extended(W, k, items)
           more == Append(items, item)
           Q == Extended(W, k, more)
           n == Len(items) + 1
           x == <<k, n>>
<1>1. /\ DOMAIN P = DOMAIN W \cup {k} /\ DOMAIN Q = DOMAIN W \cup {k}
      /\ P[k] = items /\ Q[k] = more
      /\ \A j \in DOMAIN W : j # k /\ P[j] = W[j] /\ Q[j] = W[j]
  <2>1. k \notin DOMAIN W
    BY DEF PendingItems
  <2> QED BY <2>1 DEF Extended
<1>2. /\ n \in Nat /\ n \in 1 .. MaxPerPacket /\ DOMAIN items = 1 .. (n - 1)
      /\ more \in Seq(Item) /\ Len(more) = n /\ DOMAIN more = 1 .. n
      /\ more[n] = item /\ \A j \in 1 .. (n - 1) : more[j] = items[j]
      /\ MaxPerPacket \in Nat
  BY StringAssumption
<1> HIDE DEF P, Q, more, n
<1>3. PendingItems(P)
  BY DEF P
<1>4. /\ x \in Places(Q) /\ At(Q, x) = item /\ x \notin Places(P)
      /\ x[1] = k /\ x[2] = n
  <2>1. x[1] = k /\ x[2] = n
    OBVIOUS
  <2>2. x \in (DOMAIN Q) \X (1 .. MaxPerPacket)
    BY <1>1, <1>2
  <2>3. n \in DOMAIN more /\ n \notin DOMAIN items
    BY <1>2
  <2> HIDE DEF x
  <2> QED BY <1>1, <1>2, <2>1, <2>2, <2>3 DEF Places, At
<1>5. ASSUME NEW y \in Places(P)
      PROVE  y \in Places(Q) /\ At(Q, y) = At(P, y) /\ Earlier(y, x)
  <2>1. /\ y \in (DOMAIN P) \X (1 .. MaxPerPacket) /\ y[2] \in DOMAIN P[y[1]]
        /\ y[1] \in DOMAIN P /\ y[1] \in Nat /\ y[2] \in Nat
    BY <1>3, PlaceElements DEF Places
  <2>2. y \in (DOMAIN Q) \X (1 .. MaxPerPacket)
    BY <1>1, <2>1
  <2>3. CASE y[1] = k
    <3>1. y[2] \in 1 .. (n - 1)
      BY <1>1, <1>2, <2>1, <2>3
    <3>2. y[2] \in DOMAIN more /\ more[y[2]] = items[y[2]] /\ y[2] < n
      BY <1>2, <3>1
    <3> QED BY <1>1, <1>4, <2>2, <2>3, <3>2 DEF Places, At, Earlier
  <2>4. CASE y[1] # k
    <3>1. y[1] \in DOMAIN W /\ y[1] < k
      BY <1>1, <2>1, <2>4
    <3> QED BY <1>1, <1>4, <2>1, <2>2, <3>1 DEF Places, At, Earlier
  <2> QED BY <2>3, <2>4
<1>6. ASSUME NEW y \in Places(Q), y # x PROVE y \in Places(P)
  <2>1. /\ y \in (DOMAIN Q) \X (1 .. MaxPerPacket) /\ y[2] \in DOMAIN Q[y[1]]
        /\ y[1] \in DOMAIN Q /\ y[2] \in 1 .. MaxPerPacket /\ y = <<y[1], y[2]>>
    BY DEF Places
  <2>2. y \in (DOMAIN P) \X (1 .. MaxPerPacket)
    BY <1>1, <2>1
  <2>3. CASE y[1] = k
    <3>1. y[2] # n /\ y[2] \in 1 .. n
      BY <1>1, <1>2, <1>6, <2>1, <2>3
    <3>2. y[2] \in DOMAIN items
      BY <1>2, <3>1
    <3> QED BY <1>1, <2>2, <2>3, <3>2 DEF Places
  <2>4. CASE y[1] # k
    BY <1>1, <2>1, <2>2, <2>4 DEF Places
  <2> QED BY <2>3, <2>4
<1>7. Adds(P, Q, x, item)
  <2> HIDE DEF x
  <2>1. Places(Q) = Places(P) \cup {x}
    BY <1>4, <1>5, <1>6
  <2> QED BY <1>4, <1>5, <2>1 DEF Adds
<1>8. PendingItems(Q)
  <2>1. \A j \in DOMAIN Q : Q[j] \in Seq(Item) /\ Len(Q[j]) <= MaxPerPacket
    BY <1>1, <1>2 DEF PendingItems
  <2>2. DOMAIN Q \subseteq Nat
    BY <1>1 DEF PendingItems
  <2>3. ASSUME NEW y \in Places(Q) PROVE At(Q, y).string \in {NoString, At(Q, y).meant}
    <3>1. CASE y = x
      BY <1>4, <3>1
    <3>2. CASE y # x
      <4>1. y \in Places(P) /\ At(Q, y) = At(P, y)
        BY <1>5, <1>6, <3>2
      <4> QED BY <1>3, <4>1 DEF PendingItems
    <3> QED BY <3>1, <3>2
  <2> QED BY <2>1, <2>2, <2>3 DEF PendingItems
<1> QED BY <1>4, <1>7, <1>8 DEF P, Q, more, x, n

\* An empty packet has no places.
LEMMA ExtendedEmpty ==
  ASSUME NEW W, PendingItems(W), NEW k \in Nat, \A n \in DOMAIN W : n < k
  PROVE  LET P == Extended(W, k, <<>>)
         IN  /\ PendingItems(P) /\ Places(P) = Places(W)
             /\ \A x \in Places(P) : At(P, x) = At(W, x)
<1> DEFINE P == Extended(W, k, <<>>)
<1>1. /\ DOMAIN P = DOMAIN W \cup {k} /\ P[k] = <<>>
      /\ \A j \in DOMAIN W : j # k /\ P[j] = W[j]
  <2>1. k \notin DOMAIN W
    BY DEF PendingItems
  <2> QED BY <2>1 DEF Extended
<1>2. <<>> \in Seq(Item) /\ Len(<<>>) = 0 /\ DOMAIN <<>> = {} /\ MaxPerPacket \in Nat
  BY StringAssumption
<1> DEFINE e == <<>>
<1> HIDE DEF P
<1>3. Places(P) = Places(W)
  <2>1. ASSUME NEW x \in Places(P) PROVE x \in Places(W)
    <3>1. /\ x[2] \in DOMAIN P[x[1]] /\ x[1] \in DOMAIN P
          /\ x[2] \in 1 .. MaxPerPacket /\ x = <<x[1], x[2]>>
      BY DEF Places
    <3>2. x[1] # k
      BY <1>1, <1>2, <3>1
    <3>3. x[1] \in DOMAIN W /\ x[2] \in DOMAIN W[x[1]]
      BY <1>1, <3>1, <3>2
    <3> QED BY <3>1, <3>3 DEF Places
  <2>2. ASSUME NEW x \in Places(W) PROVE x \in Places(P)
    <3>1. /\ x[2] \in DOMAIN W[x[1]] /\ x[1] \in DOMAIN W
          /\ x[2] \in 1 .. MaxPerPacket /\ x = <<x[1], x[2]>>
      BY DEF Places
    <3>2. x[1] \in DOMAIN P /\ x[2] \in DOMAIN P[x[1]]
      BY <1>1, <3>1
    <3> QED BY <3>1, <3>2 DEF Places
  <2> QED BY <2>1, <2>2
<1>4. ASSUME NEW x \in Places(P) PROVE At(P, x) = At(W, x)
  <2>1. x[1] \in DOMAIN W
    BY <1>3, PlaceElements
  <2> QED BY <1>1, <2>1 DEF At
<1>5. PendingItems(P)
  <2>1. ASSUME NEW j \in DOMAIN P PROVE P[j] \in Seq(Item) /\ Len(P[j]) <= MaxPerPacket
    <3>1. CASE j = k
      <4>1. 0 <= MaxPerPacket
        BY <1>2
      <4> QED BY <1>1, <1>2, <3>1, <4>1
    <3>2. CASE j # k
      <4>1. j \in DOMAIN W
        BY <1>1, <3>2
      <4> QED BY <1>1, <4>1 DEF PendingItems
    <3> QED BY <3>1, <3>2
  <2>2. DOMAIN P \subseteq Nat
    BY <1>1 DEF PendingItems
  <2>3. \A x \in Places(P) : At(P, x).string \in {NoString, At(P, x).meant}
    BY <1>3, <1>4 DEF PendingItems
  <2> QED BY <2>1, <2>2, <2>3 DEF PendingItems
<1> QED BY <1>3, <1>4, <1>5 DEF P

\* What holds of the strings under way, with those of packet k, and the table.
WrittenInv(k, t) ==
    LET P == Extended(wire, k, t.items)
    IN  /\ PendingItems(P)
        /\ UsedSince(P, t.lru) /\ ChangesApart(P) /\ LastIsEntry(P, t.entries)
        /\ ConfirmedStays(P, t.entries, t.confirmed) /\ OmittedKnown(P) /\ ReadKnown(P)
        /\ \A e \in t.list :
             \E x \in Places(P) :
               x[1] = k /\ At(P, x).index = e.index /\ At(P, x).meant = e.string

LEMMA WrittenOne ==
  ASSUME PendingItems(wire), NEW k \in Nat, k \notin read, \A n \in DOMAIN wire : n < k,
         NEW t \in Tables, WrittenInv(k, t), Len(t.items) < MaxPerPacket,
         NEW s \in String
  PROVE  WrittenInv(k, WriteString(t, s))
<1> DEFINE P == Extended(wire, k, t.items)
           r == WriteString(t, s)
           Q == Extended(wire, k, r.items)
           i == EntryOf(t, s)
           item == ItemOf(t, s)
           x == <<k, Len(t.items) + 1>>
<1>1. /\ PendingItems(P)
      /\ UsedSince(P, t.lru) /\ ChangesApart(P) /\ LastIsEntry(P, t.entries)
      /\ ConfirmedStays(P, t.entries, t.confirmed) /\ OmittedKnown(P) /\ ReadKnown(P)
      /\ \A e \in t.list :
           \E y \in Places(P) :
             y[1] = k /\ At(P, y).index = e.index /\ At(P, y).meant = e.string
  BY DEF WrittenInv
<1>2. /\ t.entries \in [Index -> String \cup {NoString}] /\ LruComplete(t.lru)
      /\ t.items \in Seq(Item)
  BY DEF Tables
<1>3. /\ r.entries = [t.entries EXCEPT ![i] = s]
      /\ r.confirmed = StillConfirmed(t, i, s)
      /\ r.lru = PushedBack(t.lru, i)
      /\ r.list = IF i \in r.confirmed THEN t.list ELSE t.list \cup {PacketEntry(i, s)}
      /\ r.items = Append(t.items, item) /\ item \in Item
  BY WriteFields
<1>4. i \in Index /\ (t.entries[i] = s \/ i = Head(t.lru))
  BY EntryFound
<1>5. /\ item.index = i /\ item.meant = s
      /\ item.string = IF i \in r.confirmed THEN NoString ELSE s
  BY <1>3 DEF ItemOf
<1>6. r.confirmed = IF t.entries[i] = s THEN t.confirmed ELSE t.confirmed \ {i}
  BY <1>3 DEF StillConfirmed
<1> HIDE DEF i, item, r
<1>7. PendingItems(Q) /\ Adds(P, Q, x, item) /\ x[1] = k
  <2>1. item.string \in {NoString, item.meant}
    BY <1>5
  <2>2. Q = Extended(wire, k, Append(t.items, item))
    BY <1>3
  <2> DEFINE R == Extended(wire, k, Append(t.items, item))
  <2>3. PendingItems(R) /\ Adds(P, R, x, item)
    <3>1. PendingItems(Extended(wire, k, t.items))
      BY <1>1
    <3> QED BY <1>2, <1>3, <2>1, <3>1, ExtendedPlaces
  <2>4. x[1] = k
    OBVIOUS
  <2> HIDE DEF P, Q, R, x
  <2> QED BY <2>2, <2>3, <2>4 DEF R
<1> HIDE DEF P, Q, x
<1>8. UsedSince(Q, r.lru)
  BY <1>1, <1>2, <1>3, <1>4, <1>5, <1>7, AddsUsed
<1>9. ChangesApart(Q)
  BY <1>1, <1>2, <1>4, <1>5, <1>7, AddsChanges
<1>10. LastIsEntry(Q, r.entries)
  <2>1. r.entries[i] = s /\ \A j \in Index : j # i => r.entries[j] = t.entries[j]
    BY <1>2, <1>3, <1>4
  <2>2. \A y \in Places(P) : At(P, y).index \in Index
    BY <1>1, PlaceElements
  <2> QED BY <1>1, <1>5, <1>7, <2>1, <2>2, AddsLast
<1>11. ConfirmedStays(Q, r.entries, r.confirmed)
  <2>1. r.confirmed \in SUBSET t.confirmed /\ t.confirmed \in SUBSET Index
    BY <1>6 DEF Tables
  <2>2. r.entries[i] = s
    BY <1>2, <1>3, <1>4
  <2>3. \A j \in r.confirmed : r.entries[j] = t.entries[j]
    BY <1>2, <1>3, <1>4, <1>6, <2>1
  <2> QED BY <1>1, <1>5, <1>7, <2>1, <2>2, <2>3, AddsConfirmed
<1>12. OmittedKnown(Q)
  <2>1. ASSUME item.string = NoString
        PROVE  item.index \in t.confirmed /\ t.entries[item.index] = item.meant
    <3>1. s # NoString
      BY StringAssumption
    <3>2. i \in r.confirmed
      BY <1>5, <2>1, <3>1
    <3> QED BY <1>5, <1>6, <3>2
  <2> QED BY <1>1, <1>7, <2>1, AddsOmitted
<1>13. ReadKnown(Q)
  BY <1>1, <1>7, AddsRead
<1>14. ASSUME NEW e \in r.list
       PROVE  \E y \in Places(Q) :
                y[1] = k /\ At(Q, y).index = e.index /\ At(Q, y).meant = e.string
  <2>1. CASE e \in t.list
    <3>1. PICK y \in Places(P) :
            y[1] = k /\ At(P, y).index = e.index /\ At(P, y).meant = e.string
      BY <1>1, <2>1
    <3> QED BY <1>7, <3>1 DEF Adds
  <2>2. CASE e = PacketEntry(i, s)
    <3>1. x \in Places(Q) /\ At(Q, x) = item
      BY <1>7 DEF Adds
    <3>2. e.index = i /\ e.string = s
      BY <2>2 DEF PacketEntry
    <3> QED BY <1>5, <1>7, <3>1, <3>2
  <2> QED BY <1>3, <2>1, <2>2
<1> QED BY <1>7, <1>8, <1>9, <1>10, <1>11, <1>12, <1>13, <1>14 DEF WrittenInv, Q, r

BeforePacket ==
    [entries |-> entryTable, confirmed |-> receiveConfirmed, lru |-> lru,
     list |-> {}, items |-> <<>>]

\* The strings of a packet one after the other.
LEMMA WrittenAll ==
  ASSUME StringTypeOK, LruComplete(lru), PendingItems(wire), NEW k \in Nat, k \notin read,
         \A n \in DOMAIN wire : n < k, WrittenInv(k, BeforePacket),
         NEW strings \in Seq(String), Len(strings) <= MaxPerPacket
  PROVE  AllWritten(strings) \in Tables /\ WrittenInv(k, AllWritten(strings))
<1> DEFINE n == Len(strings)
           base == BeforePacket
           Step(w, i) == WriteString(w, strings[i])
           Writes(q) == q = [i \in 0 .. n |->
                               IF i = 0 THEN [entries |-> entryTable,
                                              confirmed |-> receiveConfirmed,
                                              lru |-> lru, list |-> {}, items |-> <<>>]
                               ELSE WriteString(q[i - 1], strings[i])]
<1>1. /\ n \in Nat /\ \A i \in 1 .. n : strings[i] \in String
      /\ MaxPerPacket \in Nat
  BY StringAssumption
<1>2. base \in Tables /\ base.items = <<>>
  <2>1. <<>> \in Seq(Item) /\ lru \in Seq(Index)
    BY DEF LruComplete
  <2> QED BY <2>1 DEF BeforePacket, Tables, StringTypeOK
<1>3. \E r : Writes(r)
  <2> DEFINE F == [i \in 1 .. n |-> [w \in Tables |-> WriteString(w, strings[i])]]
  <2>1. \A i \in 1 .. n : \A w \in Tables : WriteString(w, strings[i]) \in Tables
    BY <1>1, WriteFields
  <2>2. F \in [1 .. n -> [Tables -> Tables]]
    BY <2>1
  <2> HIDE DEF F, base
  <2>3. PICK r \in [0 .. n -> Tables] :
          r[0] = base /\ \A i \in 1 .. n : r[i] = F[i][r[i - 1]]
    <3> DEFINE m == n
    <3> HIDE DEF m
    <3>1. m \in Nat /\ F \in Steps(m, Tables) /\ base \in Tables
      BY <1>1, <1>2, <2>2 DEF m, Steps
    <3>2. PICK r : Recurses(r, m, Tables, base, F)
      BY <3>1, RecursionExists
    <3> QED BY <3>2, Zenon DEF m, Recurses
  <2>4. ASSUME NEW i \in 1 .. n PROVE r[i] = WriteString(r[i - 1], strings[i])
    <3>1. i - 1 \in 0 .. n
      BY <1>1
    <3> QED BY <2>3, <3>1 DEF F
  <2>5. r = [i \in 0 .. n |-> IF i = 0 THEN base ELSE WriteString(r[i - 1], strings[i])]
    BY <1>1, <2>3, <2>4
  <2> QED BY <2>5 DEF base, BeforePacket
<1>4. PICK q : q = (CHOOSE r : Writes(r)) /\ Writes(q)
  <2> HIDE DEF Writes
  <2> QED BY <1>3, Zenon
<1>5. AllWritten(strings) = q[n]
  BY <1>4, Zenon DEF AllWritten
<1>6. q[0] = base /\ \A i \in 1 .. n : q[i] = WriteString(q[i - 1], strings[i])
  <2>1. q = [i \in 0 .. n |-> IF i = 0 THEN base ELSE WriteString(q[i - 1], strings[i])]
    BY <1>4 DEF BeforePacket
  <2> HIDE DEF base, n
  <2>2. 0 \in 0 .. n /\ \A i \in 1 .. n : i \in 0 .. n /\ i # 0
    BY <1>1
  <2> QED BY <2>1, <2>2
<1> HIDE DEF base, Writes
<1> DEFINE Good(i) == q[i] \in Tables /\ Len(q[i].items) = i /\ WrittenInv(k, q[i])
           Goods == {i \in 0 .. n : Good(i)}
<1>7. 0 \in Goods
  <2>1. Len(<<>>) = 0 /\ 0 \in 0 .. n
    BY <1>1
  <2> QED BY <1>2, <1>6, <2>1 DEF base
<1>8. ASSUME NEW i \in 1 .. n, i - 1 \in Goods PROVE i \in Goods
  <2>1. /\ q[i - 1] \in Tables /\ Len(q[i - 1].items) = i - 1 /\ WrittenInv(k, q[i - 1])
        /\ q[i] = WriteString(q[i - 1], strings[i]) /\ strings[i] \in String
    BY <1>1, <1>6, <1>8
  <2>2. i - 1 < MaxPerPacket
    BY <1>1
  <2> DEFINE w == q[i - 1]
             x == strings[i]
  <2> HIDE DEF w, x
  <2>3. w \in Tables /\ x \in String /\ WrittenInv(k, w) /\ Len(w.items) < MaxPerPacket
    BY <2>1, <2>2 DEF w, x
  <2>4. q[i] = WriteString(w, x)
    BY <2>1 DEF w, x
  <2>5. q[i] \in Tables /\ q[i].items = Append(w.items, ItemOf(w, x))
        /\ ItemOf(w, x) \in Item
    BY <2>3, <2>4, WriteFields
  <2>6. WrittenInv(k, q[i])
    BY <2>3, <2>4, WrittenOne
  <2>7. Len(q[i].items) = i
    <3>1. w.items \in Seq(Item) /\ Len(w.items) = i - 1
      BY <2>1, <2>3 DEF Tables, w
    <3> QED BY <2>5, <3>1
  <2> QED BY <2>5, <2>6, <2>7
<1> HIDE DEF Goods
<1>9. \A i \in 0 .. n : i \in Goods
  BY <1>1, <1>7, <1>8, UpTo
<1>10. Good(n)
  <2> HIDE DEF Good
  <2>1. n \in Goods
    BY <1>1, <1>9
  <2> QED BY <2>1 DEF Goods
<1> QED BY <1>5, <1>10

-----------------------------------------------------------------------------
(* WritePacket.                                                            *)

LEMMA KeptAll == ASSUME NEW items \in Seq(Item) PROVE Kept(items, {}) = items
<1> DEFINE n == Len(items)
           D == DOMAIN items \ {}
           count(j) == Cardinality({m \in D : m <= j})
<1>1. n \in Nat /\ D = 1 .. n
  OBVIOUS
<1>2. ASSUME NEW j \in 1 .. n PROVE count(j) = j
  <2>1. {m \in D : m <= j} = 1 .. j
    BY <1>1
  <2>2. Cardinality(1 .. j) = j
    BY FS_Interval
  <2> QED BY <2>1, <2>2
<1>3. Cardinality({}) = 0
  BY FS_EmptySet
<1>4. Kept(items, {}) = [j \in 1 .. n |-> items[CHOOSE m \in D : count(m) = j]]
  BY <1>1, <1>3 DEF Kept
<1> HIDE DEF count, D
<1>5. ASSUME NEW j \in 1 .. n PROVE (CHOOSE m \in D : count(m) = j) = j
  BY <1>1, <1>2
<1>6. Kept(items, {}) = [j \in 1 .. n |-> items[j]]
  BY <1>4, <1>5
<1> QED BY <1>1, <1>6

LEMMA LruWhole ==
  ASSUME NEW list, LruComplete(list)
  PROVE  ToSet(list) = Index /\ Len(list) = EntryCount
BY DEF LruComplete, ToSet

LEMMA ExtendedOld ==
  ASSUME NEW W, PendingItems(W), NEW k, k \notin DOMAIN W, NEW items,
         NEW x \in Places(W)
  PROVE  x \in Places(Extended(W, k, items)) /\ At(Extended(W, k, items), x) = At(W, x)
<1> DEFINE P == Extended(W, k, items)
<1>1. DOMAIN P = DOMAIN W \cup {k} /\ \A j \in DOMAIN W : P[j] = W[j]
  BY DEF Extended
<1> HIDE DEF P
<1>2. /\ x[2] \in DOMAIN W[x[1]] /\ x[1] \in DOMAIN W
      /\ x[2] \in 1 .. MaxPerPacket /\ x = <<x[1], x[2]>>
  BY DEF Places
<1>3. x[1] \in DOMAIN P /\ P[x[1]] = W[x[1]]
  BY <1>1, <1>2
<1>4. x \in (DOMAIN P) \X (1 .. MaxPerPacket)
  BY <1>2, <1>3
<1>5. x \in Places(P)
  BY <1>2, <1>3, <1>4 DEF Places
<1> QED BY <1>3, <1>5 DEF At, P

\* The parts of the invariant that only the writer's variables change.
LEMMA WriterNext ==
  ASSUME NEW W, NEW list, NEW entries,
         wire' = W, lru' = list, entryTable' = entries,
         PendingItems(W), LruComplete(list), UsedSince(W, list), ChangesApart(W),
         LastIsEntry(W, entries)
  PROVE  /\ PendingItems(wire)' /\ LruComplete(lru)' /\ UsedSince(wire, lru)'
         /\ ChangesApart(wire)' /\ LastIsEntry(wire, entryTable)'
<1>1. wire' = W /\ PendingItems(W)
  OBVIOUS
<1>2. PendingItems(wire)'
  BY <1>1 DEF PendingItems, Places, At
<1>3. lru' = list /\ LruComplete(list)
  OBVIOUS
<1>4. LruComplete(lru)'
  BY <1>3 DEF LruComplete
<1>5. wire' = W /\ lru' = list /\ UsedSince(W, list)
  OBVIOUS
<1>6. UsedSince(wire, lru)'
  BY ONLY <1>5 DEF UsedSince, Places, At, Earlier
<1>7. wire' = W /\ ChangesApart(W)
  OBVIOUS
<1>8. ChangesApart(wire)'
  BY ONLY <1>7 DEF ChangesApart, Places, At, Earlier, SameEntry, SameString
<1>9. wire' = W /\ entryTable' = entries /\ LastIsEntry(W, entries)
  OBVIOUS
<1>10. LastIsEntry(wire, entryTable)'
  BY ONLY <1>9 DEF LastIsEntry, Places, At, Earlier, SameEntry
<1> QED BY <1>2, <1>4, <1>6, <1>8, <1>10

LEMMA BeforePacketInv ==
  ASSUME StringIInv, NEW k \in Nat, \A n \in DOMAIN wire : n < k
  PROVE  WrittenInv(k, BeforePacket)
<1> DEFINE P == Extended(wire, k, <<>>)
           W == wire
<1>1. /\ PendingItems(W)
      /\ UsedSince(W, lru) /\ ChangesApart(W) /\ LastIsEntry(W, entryTable)
      /\ ConfirmedStays(W, entryTable, receiveConfirmed) /\ OmittedKnown(W)
      /\ ReadKnown(W)
  BY DEF StringIInv
<1>2. PendingItems(P) /\ Places(P) = Places(W) /\ \A x \in Places(W) : At(P, x) = At(W, x)
  BY <1>1, ExtendedEmpty
<1> HIDE DEF P, W
<1>3. UsedSince(P, lru)
  BY <1>1, <1>2 DEF UsedSince
<1>4. ChangesApart(P)
  <2> SUFFICES ASSUME NEW x \in Places(W), NEW y \in Places(W), Earlier(x, y),
                      SameEntry(P, x, y), ~SameString(P, x, y),
                      NEW i \in Index \ {At(P, x).index}
               PROVE  \E z \in Places(W) :
                        Earlier(x, z) /\ Earlier(z, y) /\ At(P, z).index = i
    BY <1>2 DEF ChangesApart
  <2>1. /\ SameEntry(W, x, y) /\ ~SameString(W, x, y)
        /\ i \in Index \ {At(W, x).index}
    BY <1>2 DEF SameEntry, SameString
  <2>2. PICK z \in Places(W) : Earlier(x, z) /\ Earlier(z, y) /\ At(W, z).index = i
    BY <1>1, <2>1 DEF ChangesApart
  <2> QED BY <1>2, <2>2
<1>5. LastIsEntry(P, entryTable)
  BY <1>1, <1>2 DEF LastIsEntry, SameEntry
<1>6. ConfirmedStays(P, entryTable, receiveConfirmed)
  BY <1>1, <1>2 DEF ConfirmedStays
<1>7. OmittedKnown(P)
  BY <1>1, <1>2 DEF OmittedKnown, SameEntry, SameString
<1>8. ReadKnown(P)
  BY <1>1, <1>2 DEF ReadKnown, SameEntry, SameString
<1> QED BY <1>2, <1>3, <1>4, <1>5, <1>6, <1>7, <1>8 DEF WrittenInv, BeforePacket, P

LEMMA WritePacketInv ==
  ASSUME StringIInv, MaxRewound = 0, WritePacket
  PROVE  StringIInv'
<1> DEFINE k == sent + 1
<1>0. PICK strings \in SeqOf(String, MaxPerPacket) :
        \E rewound \in SUBSET (DOMAIN strings) :
          /\ Cardinality(rewound) <= MaxRewound
          /\ LET table == AllWritten(strings)
             IN  /\ entryTable' = table.entries
                 /\ receiveConfirmed' = table.confirmed
                 /\ lru' = table.lru
                 /\ stringList' = Extended(stringList, sent + 1, table.list)
                 /\ wire' = Extended(wire, sent + 1, Kept(table.items, rewound))
  BY Zenon DEF WritePacket
<1>1. PICK rewound \in SUBSET (DOMAIN strings) :
        /\ Cardinality(rewound) <= MaxRewound
        /\ LET table == AllWritten(strings)
           IN  /\ entryTable' = table.entries
               /\ receiveConfirmed' = table.confirmed
               /\ lru' = table.lru
               /\ stringList' = Extended(stringList, sent + 1, table.list)
               /\ wire' = Extended(wire, sent + 1, Kept(table.items, rewound))
  BY <1>0, Zenon
<1> DEFINE table == AllWritten(strings)
<1>2. /\ Write /\ sent < First + MaxSent
      /\ UNCHANGED <<remoteStringTable, notified, floor, read>>
      /\ sent' = sent + 1 /\ sent - notified < Window
  BY DEF WritePacket, Write
<1>3. /\ ServiceInv /\ StringTypeOK /\ PendingItems(wire) /\ LruComplete(lru)
      /\ ListedSent
  BY DEF StringIInv
<1>4. /\ k \in Nat /\ sent \in Nat /\ notified \in Nat /\ notified <= sent /\ k \notin read
      /\ floor \in Nat /\ floor <= sent /\ Window \in Nat
      /\ DOMAIN wire = (notified + 1) .. sent /\ DOMAIN stringList = (notified + 1) .. sent
  BY <1>3, ServiceAssumption DEF ServiceInv, StringTypeOK
<1>5. \A n \in DOMAIN wire : n < k
  BY <1>4
<1>6. strings \in Seq(String) /\ Len(strings) \in Nat /\ Len(strings) <= MaxPerPacket
  <2>1. MaxPerPacket \in Nat
    BY StringAssumption
  <2>2. PICK m \in 0 .. MaxPerPacket : strings \in [1 .. m -> String]
    BY DEF SeqOf
  <2> QED BY <2>1, <2>2
<1>7. rewound = {}
  <2>1. IsFiniteSet(DOMAIN strings)
    BY <1>6, FS_Interval
  <2>2. IsFiniteSet(rewound) /\ Cardinality(rewound) \in Nat
    BY <2>1, FS_Subset, FS_CardinalityType
  <2> QED BY <1>1, <2>2, FS_EmptySet
<1>8. WrittenInv(k, BeforePacket)
  BY <1>4, <1>5, BeforePacketInv
<1> HIDE DEF k
<1>9. table \in Tables /\ WrittenInv(k, table)
  BY <1>3, <1>4, <1>5, <1>6, <1>8, WrittenAll
<1> HIDE DEF table
<1>10. table.items \in Seq(Item) /\ LruComplete(table.lru)
       /\ table.entries \in [Index -> String \cup {NoString}]
       /\ table.confirmed \in SUBSET Index
       /\ table.list \in SUBSET [index : Index, string : String]
  BY <1>9 DEF Tables
<1>11. /\ entryTable' = table.entries /\ receiveConfirmed' = table.confirmed
       /\ lru' = table.lru /\ stringList' = Extended(stringList, k, table.list)
       /\ wire' = Extended(wire, k, table.items)
  <2>1. Kept(table.items, rewound) = table.items
    BY <1>7, <1>10, KeptAll
  <2> QED BY <1>1, <2>1, Zenon DEF table, k
<1>12. ServiceInv' /\ sent' - notified' <= Window
  <2>1. ServiceInv'
    BY <1>2, <1>3, WriteInv
  <2> QED BY <1>2, <1>4, <2>1
<1>13. StringTypeOK'
  <2>1. (notified + 1) .. sent' = ((notified + 1) .. sent) \cup {k}
    BY <1>2, <1>4 DEF k
  <2>2. DOMAIN stringList' = (notified' + 1) .. sent' /\ DOMAIN wire' = (notified' + 1) .. sent'
    BY <1>2, <1>4, <1>11, <2>1 DEF Extended
  <2>3. ASSUME NEW n \in DOMAIN stringList'
        PROVE  stringList'[n] \subseteq [index : Index, string : String]
    <3>1. CASE n = k
      <4>1. stringList'[n] = table.list
        BY <1>11, <3>1 DEF Extended
      <4> QED BY <1>10, <4>1
    <3>2. CASE n # k
      <4>1. n \in DOMAIN stringList /\ stringList'[n] = stringList[n]
        BY <1>11, <3>2 DEF Extended
      <4> QED BY <1>3, <4>1 DEF StringTypeOK
    <3> QED BY <3>1, <3>2
  <2>4. entryTable' \in [Index -> String \cup {NoString}] /\ receiveConfirmed' \subseteq Index
    BY <1>10, <1>11
  <2>5. ToSet(lru') = Index /\ Len(lru') = EntryCount
    BY <1>10, <1>11, LruWhole
  <2>6. remoteStringTable' \in [Index -> String \cup {NoString}]
    BY <1>2, <1>3 DEF StringTypeOK
  <2> QED BY <2>2, <2>3, <2>4, <2>5, <2>6 DEF StringTypeOK
<1>14. /\ PendingItems(wire)' /\ LruComplete(lru)' /\ UsedSince(wire, lru)'
       /\ ChangesApart(wire)' /\ LastIsEntry(wire, entryTable)'
       /\ ConfirmedStays(wire, entryTable, receiveConfirmed)' /\ OmittedKnown(wire)'
       /\ ReadKnown(wire)'
  <2> DEFINE P == Extended(wire, k, table.items)
  <2>1. /\ PendingItems(P) /\ UsedSince(P, table.lru) /\ ChangesApart(P)
        /\ LastIsEntry(P, table.entries)
        /\ ConfirmedStays(P, table.entries, table.confirmed) /\ OmittedKnown(P)
        /\ ReadKnown(P)
    BY <1>9 DEF WrittenInv
  <2>2. PICK Q : Q = P
    OBVIOUS
  <2>3. PICK t : t = table
    OBVIOUS
  <2>4. wire' = Q /\ lru' = t.lru /\ entryTable' = t.entries /\ receiveConfirmed' = t.confirmed
    BY <1>11, <2>2, <2>3
  <2>5. /\ PendingItems(Q) /\ UsedSince(Q, t.lru) /\ ChangesApart(Q)
        /\ LastIsEntry(Q, t.entries) /\ LruComplete(t.lru)
        /\ ConfirmedStays(Q, t.entries, t.confirmed) /\ OmittedKnown(Q)
        /\ ReadKnown(Q)
    BY <1>10, <2>1, <2>2, <2>3
  <2> HIDE DEF P
  <2>6. /\ PendingItems(wire)' /\ LruComplete(lru)' /\ UsedSince(wire, lru)'
        /\ ChangesApart(wire)' /\ LastIsEntry(wire, entryTable)'
    BY <2>4, <2>5, WriterNext
  <2>11. ConfirmedStays(wire, entryTable, receiveConfirmed)'
    BY <1>2, <2>4, <2>5 DEF ConfirmedStays, Places, At, Unread
  <2>12. OmittedKnown(wire)'
    BY <1>2, <2>4, <2>5 DEF OmittedKnown, Places, At, Unread, Earlier, SameEntry, SameString
  <2>13. ReadKnown(wire)'
    BY <1>2, <2>4, <2>5 DEF ReadKnown, Places, At, Earlier, SameEntry, SameString
  <2> QED BY <2>6, <2>11, <2>12, <2>13
<1>15. ListedSent'
  <2> DEFINE P == Extended(wire, k, table.items)
  <2>1. ASSUME NEW n \in DOMAIN stringList', NEW e \in stringList'[n]
        PROVE  \E x \in Places(P) :
                 x[1] = n /\ At(P, x).index = e.index /\ At(P, x).meant = e.string
    <3>1. CASE n = k
      <4>1. e \in table.list
        BY <1>11, <2>1, <3>1 DEF Extended
      <4> QED BY <1>9, <3>1, <4>1 DEF WrittenInv
    <3>2. CASE n # k
      <4>1. n \in DOMAIN stringList /\ e \in stringList[n]
        BY <1>11, <2>1, <3>2 DEF Extended
      <4>2. PICK x \in Places(wire) :
              x[1] = n /\ At(wire, x).index = e.index /\ At(wire, x).meant = e.string
        BY <1>3, <4>1 DEF ListedSent
      <4>3. k \notin DOMAIN wire
        BY <1>4, <1>5
      <4>4. x \in Places(P) /\ At(P, x) = At(wire, x)
        BY <1>3, <4>3, ExtendedOld
      <4> QED BY <4>2, <4>4
    <3> QED BY <3>1, <3>2
  <2>2. PICK Q : Q = P
    OBVIOUS
  <2> HIDE DEF P
  <2>3. wire' = Q
    BY <1>11, <2>2 DEF P
  <2>4. \A n \in DOMAIN stringList' : \A e \in stringList'[n] :
          \E x \in Places(Q) :
            x[1] = n /\ At(Q, x).index = e.index /\ At(Q, x).meant = e.string
    BY <2>1, <2>2
  <2> QED BY <2>3, <2>4 DEF ListedSent, Places, At
<1> QED BY <1>12, <1>13, <1>14, <1>15 DEF StringIInv

-----------------------------------------------------------------------------
(* readStringTableEntry.                                                   *)

Remotes == [Index -> String \cup {NoString}]

LEMMA ReadStep ==
  ASSUME NEW remote \in Remotes, NEW item \in Item
  PROVE  /\ ReadString(remote, item) \in Remotes
         /\ item.string = NoString => ReadString(remote, item) = remote
         /\ item.string # NoString =>
              /\ ReadString(remote, item)[item.index] = item.string
              /\ \A i \in Index : i # item.index => ReadString(remote, item)[i] = remote[i]
<1>1. item.index \in Index /\ item.string \in String \cup {NoString}
  BY DEF Item
<1> QED BY <1>1 DEF ReadString, Remotes

LEMMA ReadUpToSteps ==
  ASSUME remoteStringTable \in Remotes, NEW items \in Seq(Item)
  PROVE  /\ ReadUpTo(items, 0) = remoteStringTable
         /\ \A j \in 0 .. Len(items) : ReadUpTo(items, j) \in Remotes
         /\ \A j \in 1 .. Len(items) :
              ReadUpTo(items, j) = ReadString(ReadUpTo(items, j - 1), items[j])
<1> DEFINE n == Len(items)
           base == remoteStringTable
           Reads(q) == q = [i \in 0 .. n |-> IF i = 0 THEN remoteStringTable
                                             ELSE ReadString(q[i - 1], items[i])]
<1>1. n \in Nat /\ \A i \in 1 .. n : items[i] \in Item
  OBVIOUS
<1>2. PICK r \in [0 .. n -> Remotes] :
        r[0] = base /\ \A i \in 1 .. n : r[i] = ReadString(r[i - 1], items[i])
  <2> DEFINE F == [i \in 1 .. n |-> [w \in Remotes |-> ReadString(w, items[i])]]
  <2>1. \A i \in 1 .. n : \A w \in Remotes : ReadString(w, items[i]) \in Remotes
    BY <1>1, ReadStep
  <2>2. F \in [1 .. n -> [Remotes -> Remotes]]
    BY <2>1
  <2> HIDE DEF F
  <2>3. PICK r \in [0 .. n -> Remotes] :
          r[0] = base /\ \A i \in 1 .. n : r[i] = F[i][r[i - 1]]
    <3> DEFINE m == n
    <3> HIDE DEF m
    <3>1. m \in Nat /\ F \in Steps(m, Remotes) /\ base \in Remotes
      BY <1>1, <2>2 DEF m, Steps
    <3>2. PICK r : Recurses(r, m, Remotes, base, F)
      BY <3>1, RecursionExists
    <3> QED BY <3>2, Zenon DEF m, Recurses
  <2>4. ASSUME NEW i \in 1 .. n PROVE r[i] = ReadString(r[i - 1], items[i])
    <3>1. i - 1 \in 0 .. n
      BY <1>1
    <3> QED BY <2>3, <3>1 DEF F
  <2> QED BY <2>3, <2>4
<1>3. Reads(r)
  BY <1>1, <1>2
<1>4. \A q : Reads(q) => q = r
  <2> SUFFICES ASSUME NEW q, Reads(q) PROVE q = r
    OBVIOUS
  <2> DEFINE T == {i \in 0 .. n : q[i] = r[i]}
  <2>0. /\ DOMAIN q = 0 .. n /\ q[0] = base
        /\ \A i \in 1 .. n : q[i] = ReadString(q[i - 1], items[i])
    <3>1. 0 \in 0 .. n /\ \A i \in 1 .. n : i \in 0 .. n /\ i # 0
      BY <1>1
    <3> QED BY <3>1
  <2>1. 0 \in T
    BY <1>1, <1>2, <2>0
  <2>2. ASSUME NEW i \in 1 .. n, i - 1 \in T PROVE i \in T
    BY <1>1, <1>2, <2>0, <2>2
  <2>3. \A i \in 0 .. n : i \in T
    <3> HIDE DEF T
    <3> QED BY <1>1, <2>1, <2>2, UpTo
  <2>4. \A i \in 0 .. n : q[i] = r[i]
    BY <2>3
  <2>5. q = [i \in 0 .. n |-> q[i]] /\ r = [i \in 0 .. n |-> r[i]]
    BY <1>2
  <2> QED BY <2>4, <2>5
<1>5. \A j : ReadUpTo(items, j) = r[j]
  <2> TAKE j
  <2>1. (CHOOSE q : Reads(q)) = r
    <3> HIDE DEF Reads
    <3> QED BY <1>3, <1>4, Zenon
  <2>2. ReadUpTo(items, j) = (CHOOSE q : Reads(q))[j]
    BY Zenon DEF ReadUpTo
  <2> QED BY <2>1, <2>2, Zenon
<1>6. 0 \in 0 .. n /\ \A j \in 1 .. n : j - 1 \in 0 .. n
  BY <1>1
<1> QED BY <1>2, <1>5, <1>6

\* After j strings of a packet the receiver has, at an entry that is among them, the
\* string that the last of them means, and elsewhere what it had.
LastRead(items, remote, j) ==
    \A i \in Index :
       \/ remote[i] = remoteStringTable[i] /\ \A m \in 1 .. j : items[m].index # i
       \/ \E m \in 1 .. j :
            /\ items[m].index = i /\ remote[i] = items[m].meant
            /\ \A l \in (m + 1) .. j : items[l].index # i

LEMMA ReadsLast ==
  ASSUME remoteStringTable \in Remotes, NEW items \in Seq(Item),
         \A m \in 1 .. Len(items) : items[m].string \in {NoString, items[m].meant},
         \A m \in 1 .. Len(items) : items[m].string = NoString =>
            /\ remoteStringTable[items[m].index] = items[m].meant
            /\ \A l \in 1 .. (m - 1) :
                 items[l].index = items[m].index => items[l].meant = items[m].meant
  PROVE  \A j \in 0 .. Len(items) : LastRead(items, ReadUpTo(items, j), j)
<1> DEFINE n == Len(items)
           T == {j \in 0 .. n : LastRead(items, ReadUpTo(items, j), j)}
<1>1. n \in Nat /\ \A m \in 1 .. n : items[m] \in Item /\ items[m].index \in Index
  <2>1. n \in Nat /\ \A m \in 1 .. n : items[m] \in Item
    OBVIOUS
  <2>2. \A y \in Item : y.index \in Index
    BY DEF Item
  <2> QED BY <2>1, <2>2
<1>2. /\ ReadUpTo(items, 0) = remoteStringTable
      /\ \A j \in 0 .. n : ReadUpTo(items, j) \in Remotes
      /\ \A j \in 1 .. n : ReadUpTo(items, j) = ReadString(ReadUpTo(items, j - 1), items[j])
  BY ReadUpToSteps
<1>3. 0 \in T
  BY <1>1, <1>2 DEF LastRead
<1>4. ASSUME NEW j \in 1 .. n, j - 1 \in T PROVE j \in T
  <2> DEFINE w == ReadUpTo(items, j - 1)
             v == ReadUpTo(items, j)
             x == items[j]
  <2>1. /\ LastRead(items, w, j - 1) /\ w \in Remotes /\ v = ReadString(w, x)
        /\ x \in Item /\ x.index \in Index /\ j \in 0 .. n
        /\ x.string \in {NoString, x.meant}
    BY <1>1, <1>2, <1>4
  <2>2. /\ x.string = NoString => v = w
        /\ x.string # NoString =>
             /\ v[x.index] = x.string
             /\ \A i \in Index : i # x.index => v[i] = w[i]
    <3> HIDE DEF w, v, x
    <3> QED BY <2>1, ReadStep
  <2>3. x.string = NoString =>
          /\ remoteStringTable[x.index] = x.meant
          /\ \A l \in 1 .. (j - 1) :
               items[l].index = x.index => items[l].meant = x.meant
    OBVIOUS
  <2> HIDE DEF w, v
  <2>4. v[x.index] = x.meant
    <3>1. CASE x.string # NoString
      BY <2>1, <2>2, <3>1
    <3>2. CASE x.string = NoString
      <4>1. CASE w[x.index] = remoteStringTable[x.index]
        BY <2>2, <2>3, <3>2, <4>1
      <4>2. CASE \E m \in 1 .. (j - 1) :
                   items[m].index = x.index /\ w[x.index] = items[m].meant
        BY <2>2, <2>3, <3>2, <4>2
      <4> QED BY <2>1, <4>1, <4>2 DEF LastRead
    <3> QED BY <3>1, <3>2
  <2>5. \A i \in Index : i # x.index => v[i] = w[i]
    BY <2>2
  <2>6. LastRead(items, v, j)
    <3> SUFFICES ASSUME NEW i \in Index
                 PROVE  \/ v[i] = remoteStringTable[i] /\ \A m \in 1 .. j : items[m].index # i
                        \/ \E m \in 1 .. j :
                             /\ items[m].index = i /\ v[i] = items[m].meant
                             /\ \A l \in (m + 1) .. j : items[l].index # i
      BY DEF LastRead
    <3>1. CASE i = x.index
      <4>1. j \in 1 .. j /\ \A l \in (j + 1) .. j : FALSE
        BY <1>1
      <4> QED BY <2>4, <3>1, <4>1
    <3>2. CASE i # x.index
      <4>1. v[i] = w[i]
        BY <2>5, <3>2
      <4>2. \A m \in 1 .. j : m \in 1 .. (j - 1) \/ items[m].index # i
        BY <1>1, <3>2
      <4>3. CASE w[i] = remoteStringTable[i] /\ \A m \in 1 .. (j - 1) : items[m].index # i
        BY <4>1, <4>2, <4>3
      <4>4. CASE \E m \in 1 .. (j - 1) :
                   /\ items[m].index = i /\ w[i] = items[m].meant
                   /\ \A l \in (m + 1) .. (j - 1) : items[l].index # i
        <5>1. PICK m \in 1 .. (j - 1) :
                /\ items[m].index = i /\ w[i] = items[m].meant
                /\ \A l \in (m + 1) .. (j - 1) : items[l].index # i
          BY <4>4
        <5>2. m \in 1 .. j
          BY <1>1
        <5>3. ASSUME NEW l \in (m + 1) .. j PROVE items[l].index # i
          <6>1. l = j \/ l \in (m + 1) .. (j - 1)
            BY <1>1
          <6> QED BY <3>2, <5>1, <6>1
        <5> QED BY <4>1, <5>1, <5>2, <5>3
      <4> QED BY <2>1, <4>3, <4>4 DEF LastRead
    <3> QED BY <3>1, <3>2
  <2> QED BY <2>1, <2>6 DEF v
<1> HIDE DEF T
<1>5. \A j \in 0 .. n : j \in T
  BY <1>1, <1>3, <1>4, UpTo
<1> QED BY <1>5 DEF T

-----------------------------------------------------------------------------
(* ReadPacket and LosePacket.                                              *)

LEMMA PacketRead ==
  ASSUME StringIInv, NEW k \in (floor + 1) .. sent
  PROVE  /\ k \in DOMAIN wire /\ k \in Nat /\ k > floor /\ wire[k] \in Seq(Item)
         /\ remoteStringTable \in Remotes
         /\ \A j \in 0 .. Len(wire[k]) : LastRead(wire[k], ReadUpTo(wire[k], j), j)
<1> DEFINE K == wire[k]
<1>1. /\ ServiceInv /\ StringTypeOK /\ PendingItems(wire) /\ OmittedKnown(wire)
  BY DEF StringIInv
<1>2. k \in DOMAIN wire /\ k \in Nat /\ k > floor
  BY <1>1 DEF ServiceInv, StringTypeOK
<1>3. K \in Seq(Item) /\ remoteStringTable \in Remotes
  BY <1>1, <1>2 DEF PendingItems, StringTypeOK, Remotes
<1>4. \A m \in 1 .. Len(K) :
        /\ <<k, m>> \in Places(wire) /\ <<k, m>>[1] = k /\ <<k, m>>[2] = m
        /\ At(wire, <<k, m>>) = K[m]
  <2>1. DOMAIN K = 1 .. Len(K)
    BY <1>3
  <2> QED BY <1>1, <1>2, <2>1, PlaceOf
<1>5. \A m \in 1 .. Len(K) : K[m].string \in {NoString, K[m].meant}
  BY <1>1, <1>4 DEF PendingItems
<1>6. ASSUME NEW m \in 1 .. Len(K), K[m].string = NoString
      PROVE  /\ remoteStringTable[K[m].index] = K[m].meant
             /\ \A l \in 1 .. (m - 1) : K[l].index = K[m].index => K[l].meant = K[m].meant
  <2>1. <<k, m>> \in Places(wire) /\ Unread(<<k, m>>) /\ At(wire, <<k, m>>) = K[m]
    BY <1>2, <1>4 DEF Unread
  <2>2. remoteStringTable[K[m].index] = K[m].meant
    BY <1>1, <1>6, <2>1 DEF OmittedKnown
  <2>3. ASSUME NEW l \in 1 .. (m - 1), K[l].index = K[m].index
        PROVE  K[l].meant = K[m].meant
    <3>1. l \in 1 .. Len(K) /\ l < m
      BY <1>3
    <3>2. /\ <<k, l>> \in Places(wire) /\ Unread(<<k, l>>) /\ At(wire, <<k, l>>) = K[l]
      BY <1>2, <1>4, <3>1 DEF Unread
    <3>3. Earlier(<<k, l>>, <<k, m>>)
      BY <3>1 DEF Earlier
    <3>4. SameEntry(wire, <<k, l>>, <<k, m>>)
      BY <2>1, <2>3, <3>2 DEF SameEntry
    <3>5. SameString(wire, <<k, l>>, <<k, m>>)
      BY <1>1, <1>6, <2>1, <3>2, <3>3, <3>4 DEF OmittedKnown
    <3> QED BY <2>1, <3>2, <3>5 DEF SameString
  <2> QED BY <2>2, <2>3
<1> HIDE DEF K
<1>7. \A j \in 0 .. Len(K) : LastRead(K, ReadUpTo(K, j), j)
  BY <1>3, <1>5, <1>6, ReadsLast
<1> QED BY <1>2, <1>3, <1>7 DEF K

\* LastRead, of places.
ReadAt(k, remote) ==
    \A i \in Index :
       \/ /\ remote[i] = remoteStringTable[i]
          /\ \A x \in Places(wire) : x[1] = k => At(wire, x).index # i
       \/ \E y \in Places(wire) :
            /\ y[1] = k /\ At(wire, y).index = i /\ remote[i] = At(wire, y).meant
            /\ \A z \in Places(wire) :
                 z[1] = k /\ Earlier(y, z) => At(wire, z).index # i

LEMMA PacketReadAt ==
  ASSUME StringIInv, NEW k \in (floor + 1) .. sent
  PROVE  /\ ReadUpTo(wire[k], Len(wire[k])) \in Remotes
         /\ ReadAt(k, ReadUpTo(wire[k], Len(wire[k])))
<1> DEFINE K == wire[k]
           n == Len(K)
           R == ReadUpTo(K, n)
<1>1. /\ k \in DOMAIN wire /\ K \in Seq(Item) /\ remoteStringTable \in Remotes
      /\ \A j \in 0 .. n : LastRead(K, ReadUpTo(K, j), j)
      /\ PendingItems(wire)
  BY PacketRead DEF StringIInv
<1>2. n \in Nat /\ n \in 0 .. n /\ DOMAIN K = 1 .. n
  BY <1>1
<1>3. R \in Remotes
  <2> HIDE DEF K
  <2> QED BY <1>1, <1>2, ReadUpToSteps
<1>4. LastRead(K, R, n)
  BY <1>1, <1>2
<1>5. \A m \in 1 .. n :
        /\ <<k, m>> \in Places(wire) /\ <<k, m>>[1] = k /\ <<k, m>>[2] = m
        /\ At(wire, <<k, m>>) = K[m]
  BY <1>1, <1>2, PlaceOf
<1>6. ASSUME NEW x \in Places(wire), x[1] = k
      PROVE  x[2] \in 1 .. n /\ At(wire, x) = K[x[2]] /\ x[2] \in Nat
  BY <1>1, <1>2, <1>6, PlaceElements DEF At
<1> HIDE DEF K, n, R
<1>7. ReadAt(k, R)
  <2> SUFFICES ASSUME NEW i \in Index
               PROVE  \/ /\ R[i] = remoteStringTable[i]
                         /\ \A x \in Places(wire) : x[1] = k => At(wire, x).index # i
                      \/ \E y \in Places(wire) :
                           /\ y[1] = k /\ At(wire, y).index = i /\ R[i] = At(wire, y).meant
                           /\ \A z \in Places(wire) :
                                z[1] = k /\ Earlier(y, z) => At(wire, z).index # i
    BY DEF ReadAt
  <2>1. CASE R[i] = remoteStringTable[i] /\ \A m \in 1 .. n : K[m].index # i
    BY <1>6, <2>1
  <2>2. CASE \E m \in 1 .. n :
               /\ K[m].index = i /\ R[i] = K[m].meant
               /\ \A l \in (m + 1) .. n : K[l].index # i
    <3>1. PICK m \in 1 .. n :
            /\ K[m].index = i /\ R[i] = K[m].meant
            /\ \A l \in (m + 1) .. n : K[l].index # i
      BY <2>2
    <3> DEFINE y == <<k, m>>
    <3>2. y \in Places(wire) /\ y[1] = k /\ y[2] = m /\ At(wire, y) = K[m]
      BY <1>5
    <3> HIDE DEF y
    <3>3. ASSUME NEW z \in Places(wire), z[1] = k, Earlier(y, z)
          PROVE  At(wire, z).index # i
      <4>1. z[2] \in 1 .. n /\ At(wire, z) = K[z[2]] /\ z[2] \in Nat
        BY <1>6, <3>3
      <4>2. m < z[2]
        <5>1. k \in Nat
          BY PacketRead
        <5> QED BY <3>2, <3>3, <5>1 DEF Earlier
      <4>3. z[2] \in (m + 1) .. n
        BY <1>2, <4>1, <4>2
      <4> QED BY <3>1, <4>1, <4>3
    <3> QED BY <3>1, <3>2, <3>3
  <2> QED BY <1>4, <2>1, <2>2 DEF LastRead
<1> QED BY <1>3, <1>7 DEF K, n, R

LEMMA ReadPacketInv ==
  ASSUME StringIInv, NEW k \in (floor + 1) .. sent, ReadPacket(k)
  PROVE  StringIInv'
<1> DEFINE R == ReadUpTo(wire[k], Len(wire[k]))
<1>1. /\ Read(k) /\ remoteStringTable' = R
      /\ UNCHANGED <<entryTable, receiveConfirmed, lru, stringList, wire>>
  BY DEF ReadPacket, tableVars
<1>2. /\ floor' = k /\ read' = read \cup {k} /\ UNCHANGED <<sent, notified>>
  BY <1>1 DEF Read
<1>3. /\ ServiceInv /\ StringTypeOK /\ PendingItems(wire) /\ LruComplete(lru)
      /\ sent - notified <= Window
      /\ UsedSince(wire, lru) /\ ChangesApart(wire) /\ LastIsEntry(wire, entryTable)
      /\ ConfirmedStays(wire, entryTable, receiveConfirmed) /\ OmittedKnown(wire)
      /\ ReadKnown(wire) /\ ListedSent
  BY DEF StringIInv
<1>4. /\ R \in Remotes /\ ReadAt(k, R)
  BY PacketReadAt
<1>5. k \in Nat /\ floor \in Nat /\ k > floor /\ \A n \in read : n < k
  <2>1. \A n \in read : n \in (First + 1) .. floor
    BY <1>3 DEF ServiceInv
  <2> QED BY <1>3, <2>1 DEF ServiceInv
<1> HIDE DEF R
<1>6. PICK S : S = R
  OBVIOUS
<1>7. remoteStringTable' = S /\ S \in Remotes /\ ReadAt(k, S)
  BY <1>1, <1>4, <1>6
<1>8. \A x \in Places(wire) : At(wire, x).index \in Index /\ x[1] \in Nat
  BY <1>3, PlaceElements
<1>9. \A x, y \in Places(wire) : x[1] < y[1] => Earlier(x, y)
  BY DEF Earlier
<1>10. ConfirmedStays(wire, entryTable, receiveConfirmed)'
  <2>1. \A i \in receiveConfirmed : S[i] = entryTable[i]
    <3> TAKE i \in receiveConfirmed
    <3>1. /\ remoteStringTable[i] = entryTable[i] /\ i \in Index
          /\ \A x \in Places(wire) :
               Unread(x) /\ At(wire, x).index = i => At(wire, x).meant = entryTable[i]
      BY <1>3 DEF ConfirmedStays, StringTypeOK
    <3>2. \A x \in Places(wire) : x[1] = k => Unread(x)
      BY <1>5 DEF Unread
    <3> QED BY <1>7, <3>1, <3>2 DEF ReadAt
  <2>2. \A x \in Places(wire) : x[1] > k => Unread(x)
    BY <1>5, <1>8 DEF Unread
  <2> QED BY <1>1, <1>2, <1>3, <1>7, <2>1, <2>2 DEF ConfirmedStays, Places, At, Unread
<1>11. OmittedKnown(wire)'
  <2>1. ASSUME NEW x \in Places(wire), x[1] > k, At(wire, x).string = NoString
        PROVE  /\ S[At(wire, x).index] = At(wire, x).meant
               /\ \A y \in Places(wire) :
                    y[1] > k /\ Earlier(y, x) /\ SameEntry(wire, y, x) =>
                      SameString(wire, y, x)
    <3>1. \A y \in Places(wire) : y[1] > k => Unread(y)
      BY <1>5, <1>8 DEF Unread
    <3>2. /\ remoteStringTable[At(wire, x).index] = At(wire, x).meant
          /\ \A y \in Places(wire) :
               Unread(y) /\ Earlier(y, x) /\ SameEntry(wire, y, x) => SameString(wire, y, x)
      BY <1>3, <2>1, <3>1 DEF OmittedKnown
    <3>3. \A y \in Places(wire) : y[1] = k => Unread(y) /\ Earlier(y, x)
      BY <1>5, <1>8, <1>9, <2>1 DEF Unread
    <3>4. S[At(wire, x).index] = At(wire, x).meant
      <4> DEFINE i == At(wire, x).index
      <4>1. CASE S[i] = remoteStringTable[i]
        BY <3>2, <4>1
      <4>2. CASE \E y \in Places(wire) :
                   y[1] = k /\ At(wire, y).index = i /\ S[i] = At(wire, y).meant
        <5>1. PICK y \in Places(wire) :
                y[1] = k /\ At(wire, y).index = i /\ S[i] = At(wire, y).meant
          BY <4>2
        <5>2. SameEntry(wire, y, x)
          BY <5>1 DEF SameEntry
        <5>3. SameString(wire, y, x)
          BY <3>2, <3>3, <5>1, <5>2
        <5> QED BY <5>1, <5>3 DEF SameString
      <4> QED BY <1>7, <1>8, <4>1, <4>2 DEF ReadAt
    <3> QED BY <3>1, <3>2, <3>4
  <2> QED BY <1>1, <1>2, <1>7, <2>1
          DEF OmittedKnown, Places, At, Unread, Earlier, SameEntry, SameString
<1>12. ReadKnown(wire)'
  <2>1. ASSUME NEW x \in Places(wire), x[1] \in read \cup {k}
        PROVE  \/ S[At(wire, x).index] = At(wire, x).meant
               \/ \E y \in Places(wire) :
                    Earlier(x, y) /\ SameEntry(wire, x, y) /\ ~SameString(wire, x, y)
    <3> DEFINE i == At(wire, x).index
    <3>1. i \in Index
      BY <1>8
    <3>2. CASE S[i] = remoteStringTable[i]
               /\ \A y \in Places(wire) : y[1] = k => At(wire, y).index # i
      <4>1. x[1] # k
        BY <3>2
      <4> QED BY <1>3, <2>1, <3>2, <4>1 DEF ReadKnown
    <3>3. CASE \E y \in Places(wire) :
                 /\ y[1] = k /\ At(wire, y).index = i /\ S[i] = At(wire, y).meant
                 /\ \A z \in Places(wire) :
                      z[1] = k /\ Earlier(y, z) => At(wire, z).index # i
      <4>1. PICK y \in Places(wire) :
                 /\ y[1] = k /\ At(wire, y).index = i /\ S[i] = At(wire, y).meant
                 /\ \A z \in Places(wire) :
                      z[1] = k /\ Earlier(y, z) => At(wire, z).index # i
        BY <3>3
      <4>2. SameEntry(wire, x, y)
        BY <4>1 DEF SameEntry
      <4>3. x = y \/ Earlier(x, y)
        <5>1. CASE x[1] = k
          BY <1>3, <4>1, <5>1, EarlierOrder
        <5>2. CASE x[1] # k
          <6>1. x[1] < y[1]
            BY <1>5, <2>1, <4>1, <5>2
          <6> QED BY <1>9, <6>1
        <5> QED BY <5>1, <5>2
      <4>4. CASE SameString(wire, x, y)
        BY <4>1, <4>4 DEF SameString
      <4>5. CASE ~SameString(wire, x, y)
        <5>1. x # y
          BY <4>5 DEF SameString
        <5> QED BY <4>2, <4>3, <4>5, <5>1
      <4> QED BY <4>4, <4>5
    <3> QED BY <1>7, <3>1, <3>2, <3>3 DEF ReadAt
  <2> QED BY <1>1, <1>2, <1>7, <2>1
          DEF ReadKnown, Places, At, Earlier, SameEntry, SameString
<1>13. StringTypeOK'
  BY <1>1, <1>2, <1>3, <1>7 DEF StringTypeOK, Remotes
<1>14. ServiceInv' /\ (sent - notified <= Window)'
  BY <1>1, <1>2, <1>3, ReadInv
<1>15. /\ PendingItems(wire)' /\ LruComplete(lru)' /\ UsedSince(wire, lru)'
       /\ ChangesApart(wire)' /\ LastIsEntry(wire, entryTable)' /\ ListedSent'
  <2>1. PICK W, list, entries : W = wire /\ list = lru /\ entries = entryTable
    OBVIOUS
  <2>2. /\ PendingItems(wire)' /\ LruComplete(lru)' /\ UsedSince(wire, lru)'
        /\ ChangesApart(wire)' /\ LastIsEntry(wire, entryTable)'
    BY <1>1, <1>3, <2>1, WriterNext
  <2>3. ListedSent'
    BY <1>1, <1>3 DEF ListedSent, Places, At
  <2> QED BY <2>2, <2>3
<1> QED BY <1>10, <1>11, <1>12, <1>13, <1>14, <1>15 DEF StringIInv

LEMMA LosePacketInv ==
  ASSUME StringIInv, NEW k \in (floor + 1) .. sent, LosePacket(k)
  PROVE  StringIInv'
<1>1. /\ Skip(k) /\ floor' = k
      /\ UNCHANGED <<entryTable, receiveConfirmed, lru, stringList, wire,
                     remoteStringTable, read, sent, notified>>
  BY DEF LosePacket, Skip, stringVars, tableVars
<1>2. /\ ServiceInv /\ StringTypeOK /\ PendingItems(wire) /\ LruComplete(lru)
      /\ sent - notified <= Window
      /\ UsedSince(wire, lru) /\ ChangesApart(wire) /\ LastIsEntry(wire, entryTable)
      /\ ConfirmedStays(wire, entryTable, receiveConfirmed) /\ OmittedKnown(wire)
      /\ ReadKnown(wire) /\ ListedSent
  BY DEF StringIInv
<1>3. \A x \in Places(wire) : x[1] > k => Unread(x)
  <2>1. \A x \in Places(wire) : x[1] \in Nat
    BY <1>2, PlaceElements
  <2>2. k \in Nat /\ floor \in Nat /\ k > floor
    BY <1>2 DEF ServiceInv
  <2> QED BY <2>1, <2>2 DEF Unread
<1>4. ConfirmedStays(wire, entryTable, receiveConfirmed)'
  BY <1>1, <1>2, <1>3 DEF ConfirmedStays, Places, At, Unread
<1>5. OmittedKnown(wire)'
  BY <1>1, <1>2, <1>3 DEF OmittedKnown, Places, At, Unread, Earlier, SameEntry, SameString
<1>6. ServiceInv' /\ (sent - notified <= Window)'
  BY <1>1, <1>2, SkipInv
<1>7. StringTypeOK' /\ ReadKnown(wire)'
  <2>1. StringTypeOK'
    BY <1>1, <1>2 DEF StringTypeOK
  <2>2. ReadKnown(wire)'
    BY <1>1, <1>2 DEF ReadKnown, Places, At, Earlier, SameEntry, SameString
  <2> QED BY <2>1, <2>2
<1>8. /\ PendingItems(wire)' /\ LruComplete(lru)' /\ UsedSince(wire, lru)'
       /\ ChangesApart(wire)' /\ LastIsEntry(wire, entryTable)' /\ ListedSent'
  <2>1. PICK W, list, entries : W = wire /\ list = lru /\ entries = entryTable
    OBVIOUS
  <2>2. /\ PendingItems(wire)' /\ LruComplete(lru)' /\ UsedSince(wire, lru)'
        /\ ChangesApart(wire)' /\ LastIsEntry(wire, entryTable)'
    BY <1>1, <1>2, <2>1, WriterNext
  <2>3. ListedSent'
    BY <1>1, <1>2 DEF ListedSent, Places, At
  <2> QED BY <2>2, <2>3
<1> QED BY <1>4, <1>5, <1>6, <1>7, <1>8 DEF StringIInv

-----------------------------------------------------------------------------
(* PacketReceived and PacketDropped.                                       *)

LEMMA ForgottenPlaces ==
  ASSUME PendingItems(wire), DOMAIN wire = (notified + 1) .. sent,
         notified \in Nat, sent \in Nat
  PROVE  /\ PendingItems(Forgotten(wire))
         /\ Places(Forgotten(wire)) = {x \in Places(wire) : x[1] # notified + 1}
         /\ \A x \in Places(Forgotten(wire)) : At(Forgotten(wire), x) = At(wire, x)
         /\ \A x \in Places(Forgotten(wire)) : \A y \in Places(wire) :
              Earlier(x, y) => y \in Places(Forgotten(wire))
<1> DEFINE P == Forgotten(wire)
           n == notified + 1
<1>1. DOMAIN P = DOMAIN wire \ {n} /\ \A k \in DOMAIN P : P[k] = wire[k]
  BY DEF Forgotten
<1> HIDE DEF P
<1>2. Places(P) = {x \in Places(wire) : x[1] # n}
  <2>1. ASSUME NEW x \in Places(P) PROVE x \in Places(wire) /\ x[1] # n
    BY <1>1 DEF Places
  <2>2. ASSUME NEW x \in Places(wire), x[1] # n PROVE x \in Places(P)
    BY <1>1, <2>2 DEF Places
  <2> QED BY <2>1, <2>2
<1>3. ASSUME NEW x \in Places(P) PROVE At(P, x) = At(wire, x)
  <2>1. x[1] \in DOMAIN P
    BY DEF Places
  <2> QED BY <1>1, <2>1 DEF At
<1>4. PendingItems(P)
  BY <1>1, <1>2, <1>3 DEF PendingItems
<1>5. ASSUME NEW x \in Places(P), NEW y \in Places(wire), Earlier(x, y)
      PROVE  y \in Places(P)
  <2>1. x \in Places(wire) /\ x[1] # n
    BY <1>2
  <2>2. x[1] \in (notified + 1) .. sent /\ y[1] \in (notified + 1) .. sent
    BY <2>1, PlaceElements
  <2>3. x[1] <= y[1]
    BY <1>5, <2>2 DEF Earlier
  <2>4. y[1] # n
    BY <2>1, <2>2, <2>3
  <2> QED BY <1>2, <2>4
<1> QED BY <1>2, <1>3, <1>4, <1>5 DEF P

LEMMA ForgottenInv ==
  ASSUME StringIInv
  PROVE  /\ PendingItems(Forgotten(wire)) /\ UsedSince(Forgotten(wire), lru)
         /\ ChangesApart(Forgotten(wire)) /\ LastIsEntry(Forgotten(wire), entryTable)
         /\ OmittedKnown(Forgotten(wire)) /\ ReadKnown(Forgotten(wire))
         /\ \A confirmed : ConfirmedStays(wire, entryTable, confirmed) =>
              ConfirmedStays(Forgotten(wire), entryTable, confirmed)
<1> DEFINE P == Forgotten(wire)
           W == wire
<1>1. /\ PendingItems(W) /\ UsedSince(W, lru) /\ ChangesApart(W)
      /\ LastIsEntry(W, entryTable) /\ OmittedKnown(W) /\ ReadKnown(W)
      /\ DOMAIN W = (notified + 1) .. sent /\ notified \in Nat /\ sent \in Nat
  BY DEF StringIInv, StringTypeOK, ServiceInv
<1>2. /\ PendingItems(P)
      /\ Places(P) = {x \in Places(W) : x[1] # notified + 1}
      /\ \A x \in Places(P) : At(P, x) = At(W, x)
      /\ \A x \in Places(P) : \A y \in Places(W) : Earlier(x, y) => y \in Places(P)
  BY <1>1, ForgottenPlaces
<1> HIDE DEF P, W
<1>3. \A x \in Places(P) : x \in Places(W)
  BY <1>2
<1>4. UsedSince(P, lru)
  <2> SUFFICES ASSUME NEW x \in Places(P), NEW p \in DOMAIN lru, NEW q \in DOMAIN lru,
                      p < q, lru[p] = At(P, x).index
               PROVE  \E y \in Places(P) : Earlier(x, y) /\ At(P, y).index = lru[q]
    BY DEF UsedSince
  <2>1. PICK y \in Places(W) : Earlier(x, y) /\ At(W, y).index = lru[q]
    BY <1>1, <1>2, <1>3 DEF UsedSince
  <2> QED BY <1>2, <2>1
<1>5. ChangesApart(P)
  <2> SUFFICES ASSUME NEW x \in Places(P), NEW y \in Places(P), Earlier(x, y),
                      SameEntry(P, x, y), ~SameString(P, x, y),
                      NEW i \in Index \ {At(P, x).index}
               PROVE  \E z \in Places(P) :
                        Earlier(x, z) /\ Earlier(z, y) /\ At(P, z).index = i
    BY DEF ChangesApart
  <2>1. /\ SameEntry(W, x, y) /\ ~SameString(W, x, y)
        /\ i \in Index \ {At(W, x).index} /\ x \in Places(W) /\ y \in Places(W)
    BY <1>2, <1>3 DEF SameEntry, SameString
  <2>2. PICK z \in Places(W) : Earlier(x, z) /\ Earlier(z, y) /\ At(W, z).index = i
    BY <1>1, <2>1 DEF ChangesApart
  <2> QED BY <1>2, <2>2
<1>6. LastIsEntry(P, entryTable)
  <2> SUFFICES ASSUME NEW x \in Places(P)
               PROVE  \E y \in Places(P) :
                        /\ y = x \/ Earlier(x, y)
                        /\ SameEntry(P, x, y)
                        /\ At(P, y).meant = entryTable[At(P, y).index]
    BY DEF LastIsEntry
  <2>1. PICK y \in Places(W) :
          /\ y = x \/ Earlier(x, y)
          /\ SameEntry(W, x, y)
          /\ At(W, y).meant = entryTable[At(W, y).index]
    BY <1>1, <1>3 DEF LastIsEntry
  <2>2. y \in Places(P)
    BY <1>2, <2>1
  <2> QED BY <1>2, <2>1, <2>2 DEF SameEntry
<1>7. ASSUME NEW confirmed, ConfirmedStays(W, entryTable, confirmed)
      PROVE  ConfirmedStays(P, entryTable, confirmed)
  BY <1>2, <1>3, <1>7 DEF ConfirmedStays
<1>8. OmittedKnown(P)
  BY <1>1, <1>2, <1>3 DEF OmittedKnown, SameEntry, SameString
<1>9. ReadKnown(P)
  <2> SUFFICES ASSUME NEW x \in Places(P), x[1] \in read,
                      remoteStringTable[At(P, x).index] # At(P, x).meant
               PROVE  \E y \in Places(P) :
                        Earlier(x, y) /\ SameEntry(P, x, y) /\ ~SameString(P, x, y)
    BY DEF ReadKnown
  <2>1. PICK y \in Places(W) :
          Earlier(x, y) /\ SameEntry(W, x, y) /\ ~SameString(W, x, y)
    BY <1>1, <1>2, <1>3 DEF ReadKnown
  <2>2. y \in Places(P)
    BY <1>2, <2>1
  <2> QED BY <1>2, <2>1, <2>2 DEF SameEntry, SameString
<1> QED BY <1>2, <1>4, <1>5, <1>6, <1>7, <1>8, <1>9 DEF P, W

\* What a notification does, given that what it confirms is known and stays so.
LEMMA NotifiedInv ==
  ASSUME StringIInv, Notify(notified + 1),
         wire' = Forgotten(wire), stringList' = Forgotten(stringList),
         UNCHANGED <<entryTable, lru, remoteStringTable>>,
         NEW confirmed \in SUBSET Index, receiveConfirmed' = confirmed,
         ConfirmedStays(wire, entryTable, confirmed)
  PROVE  StringIInv'
<1>1. /\ ServiceInv /\ StringTypeOK /\ PendingItems(wire) /\ LruComplete(lru)
      /\ sent - notified <= Window /\ ListedSent
      /\ DOMAIN wire = (notified + 1) .. sent /\ DOMAIN stringList = (notified + 1) .. sent
      /\ notified \in Nat /\ sent \in Nat
  BY DEF StringIInv, StringTypeOK, ServiceInv
<1>2. /\ UNCHANGED <<sent, floor, read>> /\ notified' = notified + 1
      /\ ServiceInv' /\ notified + 1 <= sent
  <2>1. /\ ServiceInv' /\ notified' = notified + 1 /\ notified + 1 <= floor
    BY <1>1, NotifyInv
  <2> QED BY <1>1, <2>1 DEF Notify, ServiceInv
<1>3. (sent - notified <= Window)'
  <2>1. Window \in Nat
    BY ServiceAssumption
  <2> QED BY <1>1, <1>2, <2>1
<1>4. /\ DOMAIN wire' = DOMAIN wire \ {notified + 1}
      /\ DOMAIN stringList' = DOMAIN stringList \ {notified + 1}
      /\ \A k \in DOMAIN stringList' : stringList'[k] = stringList[k]
  BY DEF Forgotten
<1>5. StringTypeOK'
  <2>1. (notified' + 1) .. sent' = ((notified + 1) .. sent) \ {notified + 1}
    BY <1>1, <1>2
  <2> QED BY <1>1, <1>4, <2>1 DEF StringTypeOK
<1>6. PICK Q : Q = Forgotten(wire)
  OBVIOUS
<1>7. /\ wire' = Q /\ PendingItems(Q) /\ UsedSince(Q, lru)
      /\ ChangesApart(Q) /\ LastIsEntry(Q, entryTable)
      /\ OmittedKnown(Q) /\ ReadKnown(Q) /\ ConfirmedStays(Q, entryTable, confirmed)
  BY <1>6, ForgottenInv
<1>8. /\ PendingItems(wire)' /\ LruComplete(lru)' /\ UsedSince(wire, lru)'
      /\ ChangesApart(wire)' /\ LastIsEntry(wire, entryTable)'
  <2>1. PICK list, entries : list = lru /\ entries = entryTable
    OBVIOUS
  <2> QED BY <1>1, <1>7, <2>1, WriterNext
<1>12. ConfirmedStays(wire, entryTable, receiveConfirmed)'
  BY <1>2, <1>7 DEF ConfirmedStays, Places, At, Unread
<1>13. OmittedKnown(wire)'
  BY <1>2, <1>7 DEF OmittedKnown, Places, At, Unread, Earlier, SameEntry, SameString
<1>14. ReadKnown(wire)'
  BY <1>2, <1>7 DEF ReadKnown, Places, At, Earlier, SameEntry, SameString
<1>15. ListedSent'
  <2>1. /\ Places(Q) = {x \in Places(wire) : x[1] # notified + 1}
        /\ \A x \in Places(Q) : At(Q, x) = At(wire, x)
    BY <1>1, <1>6, ForgottenPlaces
  <2>2. ASSUME NEW k \in DOMAIN stringList', NEW e \in stringList'[k]
        PROVE  \E x \in Places(Q) :
                 x[1] = k /\ At(Q, x).index = e.index /\ At(Q, x).meant = e.string
    <3>1. k \in DOMAIN stringList /\ e \in stringList[k] /\ k # notified + 1
      BY <1>4, <2>2
    <3>2. PICK x \in Places(wire) :
            x[1] = k /\ At(wire, x).index = e.index /\ At(wire, x).meant = e.string
      BY <1>1, <3>1 DEF ListedSent
    <3> QED BY <2>1, <3>1, <3>2
  <2> QED BY <1>7, <2>2 DEF ListedSent, Places, At
<1> QED BY <1>2, <1>3, <1>5, <1>8, <1>12, <1>13, <1>14, <1>15
        DEF StringIInv

LEMMA PacketDroppedInv == ASSUME StringIInv, PacketDropped PROVE StringIInv'
<1>1. /\ Notify(notified + 1) /\ wire' = Forgotten(wire)
      /\ stringList' = Forgotten(stringList) /\ receiveConfirmed' = receiveConfirmed
      /\ UNCHANGED <<entryTable, lru, remoteStringTable>>
  BY DEF PacketDropped, tableVars
<1>2. receiveConfirmed \in SUBSET Index
      /\ ConfirmedStays(wire, entryTable, receiveConfirmed)
  BY DEF StringIInv, StringTypeOK
<1>3. PICK confirmed : confirmed = receiveConfirmed
  OBVIOUS
<1>4. /\ confirmed \in SUBSET Index /\ receiveConfirmed' = confirmed
      /\ ConfirmedStays(wire, entryTable, confirmed)
  BY <1>1, <1>2, <1>3
<1> QED BY <1>1, <1>4, NotifiedInv

\* What the notification of a packet confirms is known to the receiver and stays so.
LEMMA ConfirmedKnown ==
  ASSUME StringIInv, Faithful, Few(wire), notified + 1 \in read,
         notified + 1 \in DOMAIN stringList
  PROVE  /\ Confirmed(stringList[notified + 1]) \in SUBSET Index
         /\ ConfirmedStays(wire, entryTable, Confirmed(stringList[notified + 1]))
<1> DEFINE n == notified + 1
           list == stringList[n]
<1>1. /\ ServiceInv /\ StringTypeOK /\ PendingItems(wire) /\ ChangesApart(wire)
      /\ LastIsEntry(wire, entryTable) /\ ReadKnown(wire) /\ ListedSent
      /\ ConfirmedStays(wire, entryTable, receiveConfirmed)
      /\ floor \in Nat /\ n \in Nat
  BY DEF StringIInv, ServiceInv
<1>2. n <= floor
  BY <1>1 DEF ServiceInv
<1>3. list \subseteq [index : Index, string : String] /\ receiveConfirmed \subseteq Index
  BY <1>1 DEF StringTypeOK
<1>4. Confirmed(list) = receiveConfirmed
        \cup {e.index : e \in {e \in list : entryTable[e.index] = e.string}}
  BY DEF Confirmed
<1>5. ASSUME NEW e \in list, entryTable[e.index] = e.string
      PROVE  /\ remoteStringTable[e.index] = entryTable[e.index]
             /\ \A x \in Places(wire) :
                  Unread(x) /\ At(wire, x).index = e.index =>
                    At(wire, x).meant = entryTable[e.index]
  <2>1. PICK x \in Places(wire) :
          x[1] = n /\ At(wire, x).index = e.index /\ At(wire, x).meant = e.string
    BY <1>1 DEF ListedSent
  <2>2. ASSUME NEW y \in Places(wire), Earlier(x, y), SameEntry(wire, x, y)
        PROVE  SameString(wire, x, y)
    <3> SUFFICES ASSUME ~SameString(wire, x, y) PROVE FALSE
      OBVIOUS
    <3>1. PICK z \in Places(wire) :
            /\ z = y \/ Earlier(y, z)
            /\ SameEntry(wire, y, z)
            /\ At(wire, z).meant = entryTable[At(wire, z).index]
      BY <1>1 DEF LastIsEntry
    <3>2. At(wire, z).meant = At(wire, x).meant
      BY <1>5, <2>1, <2>2, <3>1 DEF SameEntry
    <3>3. ~SameString(wire, y, z) /\ z # y
      BY <3>2 DEF SameString
    <3>4. Earlier(y, z)
      BY <3>1, <3>3
    <3> QED BY <1>1, <2>2, <3>1, <3>3, <3>4, NoReturn
  <2>3. remoteStringTable[At(wire, x).index] = At(wire, x).meant
    BY <1>1, <2>1, <2>2 DEF ReadKnown
  <2>4. ASSUME NEW y \in Places(wire), Unread(y), At(wire, y).index = e.index
        PROVE  At(wire, y).meant = entryTable[e.index]
    <3>1. Earlier(x, y)
      <4>1. y[1] \in Nat /\ y[1] > floor
        BY <1>1, <2>4, PlaceElements DEF Unread
      <4> QED BY <1>1, <1>2, <2>1, <4>1 DEF Earlier
    <3>2. SameEntry(wire, x, y)
      BY <2>1, <2>4 DEF SameEntry
    <3>3. SameString(wire, x, y)
      BY <2>2, <3>1, <3>2
    <3> QED BY <1>5, <2>1, <3>3 DEF SameString
  <2> QED BY <1>5, <2>1, <2>3, <2>4
<1>6. ASSUME NEW i \in Confirmed(list)
      PROVE  i \in receiveConfirmed
             \/ \E e \in list : entryTable[e.index] = e.string /\ i = e.index
  BY <1>4, <1>6
<1>7. Confirmed(list) \in SUBSET Index
  BY <1>3, <1>6
<1>8. ConfirmedStays(wire, entryTable, Confirmed(list))
  <2> SUFFICES ASSUME NEW i \in Confirmed(list)
               PROVE  /\ remoteStringTable[i] = entryTable[i]
                      /\ \A x \in Places(wire) :
                           Unread(x) /\ At(wire, x).index = i =>
                             At(wire, x).meant = entryTable[i]
    BY DEF ConfirmedStays
  <2>1. CASE i \in receiveConfirmed
    BY <1>1, <2>1 DEF ConfirmedStays
  <2>2. CASE \E e \in list : entryTable[e.index] = e.string /\ i = e.index
    BY <1>5, <2>2
  <2> QED BY <1>6, <2>1, <2>2
<1> QED BY <1>7, <1>8

\* At most twice as many strings are under way as there are entries.
FewStrings == Window * MaxPerPacket <= 2 * EntryCount

LEMMA PacketReceivedInv ==
  ASSUME StringIInv, Faithful, FewStrings, PacketReceived
  PROVE  StringIInv'
<1>1. /\ Notify(notified + 1) /\ wire' = Forgotten(wire)
      /\ stringList' = Forgotten(stringList)
      /\ receiveConfirmed' = Confirmed(stringList[notified + 1])
      /\ UNCHANGED <<entryTable, lru, remoteStringTable>>
      /\ notified + 1 \in received'
  BY DEF PacketReceived
<1>2. /\ ServiceInv /\ PendingItems(wire) /\ sent - notified <= Window
      /\ notified \in Nat /\ sent \in Nat /\ floor \in Nat /\ floor <= sent
      /\ DOMAIN wire = (notified + 1) .. sent /\ DOMAIN stringList = (notified + 1) .. sent
  BY DEF StringIInv, StringTypeOK, ServiceInv
<1>3. notified + 1 \in read /\ notified + 1 <= floor
  BY <1>1, <1>2, NotifyInv
<1>4. notified + 1 \in DOMAIN stringList
  BY <1>2, <1>3
<1>5. Few(wire)
  <2>1. DOMAIN wire \subseteq (notified + 1) .. sent
    BY <1>2
  <2> QED BY <1>2, <2>1, FewUnderWay DEF FewStrings
<1>6. PICK confirmed : confirmed = Confirmed(stringList[notified + 1])
  OBVIOUS
<1>7. /\ confirmed \in SUBSET Index /\ receiveConfirmed' = confirmed
      /\ ConfirmedStays(wire, entryTable, confirmed)
  BY <1>1, <1>3, <1>4, <1>5, <1>6, ConfirmedKnown
<1> QED BY <1>1, <1>7, NotifiedInv

-----------------------------------------------------------------------------
(* The specification.                                                      *)

LEMMA StringInitInv == StringInit => StringIInv
<1> SUFFICES ASSUME StringInit PROVE StringIInv
  OBVIOUS
<1>1. /\ ServiceInit /\ entryTable = [i \in Index |-> NoString] /\ receiveConfirmed = {}
      /\ lru = [j \in 1 .. EntryCount |-> j - 1] /\ DOMAIN stringList = {}
      /\ remoteStringTable = [i \in Index |-> NoString] /\ DOMAIN wire = {}
  BY DEF StringInit
<1>2. EntryCount \in Nat \ {0} /\ Index = 0 .. (EntryCount - 1)
  BY StringAssumption DEF Index
<1>3. ServiceInv /\ sent - notified <= Window /\ (notified + 1) .. sent = {}
  <2>1. First \in Nat /\ Window \in Nat /\ sent = First /\ notified = First
    BY <1>1, ServiceAssumption DEF ServiceInit
  <2> QED BY <1>1, <2>1, ServiceInitInv
<1>4. LruComplete(lru)
  <2>1. DOMAIN lru = 1 .. EntryCount /\ \A j \in 1 .. EntryCount : lru[j] = j - 1
    BY <1>1
  <2>2. \A j \in 1 .. EntryCount : j - 1 \in Index
    BY <1>2
  <2>3. lru \in Seq(Index) /\ Len(lru) = EntryCount
    BY <1>1, <1>2, <2>2
  <2>4. \A i \in Index : i + 1 \in DOMAIN lru /\ lru[i + 1] = i
    BY <1>2, <2>1
  <2>5. \A p, q \in DOMAIN lru : lru[p] = lru[q] => p = q
    BY <1>2, <2>1
  <2> QED BY <2>3, <2>4, <2>5 DEF LruComplete
<1>5. Places(wire) = {} /\ PendingItems(wire)
  BY <1>1 DEF Places, PendingItems
<1>6. StringTypeOK
  BY <1>1, <1>3, <1>4, LruWhole DEF StringTypeOK
<1>7. /\ UsedSince(wire, lru) /\ ChangesApart(wire) /\ LastIsEntry(wire, entryTable)
      /\ ConfirmedStays(wire, entryTable, receiveConfirmed) /\ OmittedKnown(wire)
      /\ ReadKnown(wire) /\ ListedSent
  BY <1>1, <1>5 DEF UsedSince, ChangesApart, LastIsEntry, ConfirmedStays, OmittedKnown,
                    ReadKnown, ListedSent
<1> QED BY <1>3, <1>4, <1>5, <1>6, <1>7 DEF StringIInv

LEMMA StringStutterInv == ASSUME StringIInv, UNCHANGED vars PROVE StringIInv'
<1>1. /\ UNCHANGED <<sent, notified, floor, read, received, dropped, open>>
      /\ UNCHANGED <<entryTable, receiveConfirmed, lru, stringList, remoteStringTable, wire>>
  BY DEF vars, stringVars, tableVars, serviceVars
<1>2. /\ ServiceInv /\ StringTypeOK /\ PendingItems(wire) /\ LruComplete(lru)
      /\ sent - notified <= Window
      /\ UsedSince(wire, lru) /\ ChangesApart(wire) /\ LastIsEntry(wire, entryTable)
      /\ ConfirmedStays(wire, entryTable, receiveConfirmed) /\ OmittedKnown(wire)
      /\ ReadKnown(wire) /\ ListedSent
  BY DEF StringIInv
<1>3. (ServiceInv /\ StringTypeOK /\ sent - notified <= Window)'
  BY <1>1, <1>2 DEF ServiceInv, StringTypeOK
<1>4. /\ PendingItems(wire)' /\ LruComplete(lru)' /\ UsedSince(wire, lru)'
       /\ ChangesApart(wire)' /\ LastIsEntry(wire, entryTable)' /\ ListedSent'
  <2>1. PICK W, list, entries : W = wire /\ list = lru /\ entries = entryTable
    OBVIOUS
  <2>2. /\ PendingItems(wire)' /\ LruComplete(lru)' /\ UsedSince(wire, lru)'
        /\ ChangesApart(wire)' /\ LastIsEntry(wire, entryTable)'
    BY <1>1, <1>2, <2>1, WriterNext
  <2>3. ListedSent'
    BY <1>1, <1>2 DEF ListedSent, Places, At
  <2> QED BY <2>2, <2>3
<1>5. /\ ConfirmedStays(wire, entryTable, receiveConfirmed)' /\ OmittedKnown(wire)'
      /\ ReadKnown(wire)'
  <2>1. ConfirmedStays(wire, entryTable, receiveConfirmed)'
    BY <1>1, <1>2 DEF ConfirmedStays, Places, At, Unread
  <2>2. OmittedKnown(wire)'
    BY <1>1, <1>2 DEF OmittedKnown, Places, At, Unread, Earlier, SameEntry, SameString
  <2>3. ReadKnown(wire)'
    BY <1>1, <1>2 DEF ReadKnown, Places, At, Earlier, SameEntry, SameString
  <2> QED BY <2>1, <2>2, <2>3
<1> QED BY <1>3, <1>4, <1>5 DEF StringIInv

\* The inductive invariant: the strings under way, the LRU list, the confirmed entries
\* and the receiver's table agree.
THEOREM StringInvariant ==
  Faithful /\ FewStrings /\ MaxRewound = 0 => (StringSpec => []StringIInv)
<1> SUFFICES ASSUME Faithful, FewStrings, MaxRewound = 0
             PROVE  StringSpec => []StringIInv
  OBVIOUS
<1>1. StringIInv /\ [StringNext]_vars => StringIInv'
  <2> SUFFICES ASSUME StringIInv, [StringNext]_vars PROVE StringIInv'
    OBVIOUS
  <2>1. CASE WritePacket
    BY <2>1, WritePacketInv
  <2>2. ASSUME NEW k \in (floor + 1) .. sent, ReadPacket(k) PROVE StringIInv'
    BY <2>2, ReadPacketInv
  <2>3. ASSUME NEW k \in (floor + 1) .. sent, LosePacket(k) PROVE StringIInv'
    BY <2>3, LosePacketInv
  <2>4. CASE PacketReceived
    BY <2>4, PacketReceivedInv
  <2>5. CASE PacketDropped
    BY <2>5, PacketDroppedInv
  <2>6. CASE UNCHANGED vars
    BY <2>6, StringStutterInv
  <2> QED BY <2>1, <2>2, <2>3, <2>4, <2>5, <2>6, Zenon DEF StringNext
<1>2. StringInit => StringIInv
  BY StringInitInv
<1> QED BY <1>1, <1>2, PTL DEF StringSpec

\* The LRU list stays a permutation of the entries, and a list is kept for exactly the
\* packets that are not notified yet.
THEOREM StringTypes ==
  Faithful /\ FewStrings /\ MaxRewound = 0 => (StringSpec => []StringTypeOK)
<1>1. StringIInv => StringTypeOK
  BY DEF StringIInv
<1> QED BY <1>1, StringInvariant, PTL

\* An entry with receiveConfirmed names the string that the other side has there: an
\* ack never confirms an entry that was reused since (packetReceived).
THEOREM ConfirmedKnownToReceiver ==
  Faithful /\ FewStrings /\ MaxRewound = 0 => (StringSpec => []ConfirmedIsKnown)
<1>1. StringIInv => ConfirmedIsKnown
  BY DEF StringIInv, ConfirmedStays, ConfirmedIsKnown
<1> QED BY <1>1, StringInvariant, PTL

LEMMA ReadsWritten == StringIInv => ReadAsWritten
<1> SUFFICES ASSUME StringIInv, NEW k \in (floor + 1) .. sent, NEW j \in DOMAIN wire[k]
             PROVE  ReadUpTo(wire[k], j)[wire[k][j].index] = wire[k][j].meant
  BY DEF ReadAsWritten
<1> DEFINE K == wire[k]
<1>1. K \in Seq(Item) /\ \A m \in 0 .. Len(K) : LastRead(K, ReadUpTo(K, m), m)
  BY PacketRead
<1>2. Len(K) \in Nat /\ j \in 1 .. Len(K) /\ K[j] \in Item
  BY <1>1
<1>3. j \in 0 .. Len(K) /\ j \in 1 .. j /\ K[j].index \in Index
  BY <1>2 DEF Item
<1> HIDE DEF K
<1>4. PICK m \in 1 .. j :
        /\ K[m].index = K[j].index /\ ReadUpTo(K, j)[K[j].index] = K[m].meant
        /\ \A l \in (m + 1) .. j : K[l].index # K[j].index
  BY <1>1, <1>3 DEF LastRead
<1>5. m = j
  <2>1. m # j => j \in (m + 1) .. j
    BY <1>2
  <2> QED BY <1>4, <2>1
<1> QED BY <1>4, <1>5 DEF K

\* Every string is read as the one that was written, whichever packets are lost and
\* however entries are reused while packets are under way.
THEOREM StringsReadAsWritten ==
  Faithful /\ FewStrings /\ MaxRewound = 0 => (StringSpec => []ReadAsWritten)
BY ReadsWritten, StringInvariant, PTL
=============================================================================
