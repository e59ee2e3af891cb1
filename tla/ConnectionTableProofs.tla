------------------------ MODULE ConnectionTableProofs ------------------------
(***************************************************************************)
(* Proofs about ConnectionTable, for every set of connections and every    *)
(* hash: TableIInv is an invariant, and with it the safety properties of   *)
(* the runs.                                                               *)
(***************************************************************************)
EXTENDS ConnectionTable, TLAPS, FiniteSetTheorems, NaturalsInduction,
        WellFoundedInduction

-----------------------------------------------------------------------------
(* Numbers, and functions defined by recursion up to a number.             *)

Less == OpToRel(<, Nat)

LEMMA LessWellFounded == IsWellFoundedOn(Less, Nat)
BY Zenon, NatLessThanWellFounded DEF Less

LEMMA LessPairs == \A x, y \in Nat : <<x, y>> \in Less <=> x < y
<1>1. Less = {ss \in Nat \X Nat : ss[1] < ss[2]}
  BY Zenon DEF Less, OpToRel
<1> QED BY <1>1

LEMMA LeastExists ==
  ASSUME NEW S \in SUBSET Nat, S # {}
  PROVE  \E m \in S : \A k \in S : m <= k
<1>1. PICK m \in S : \A k \in S : ~(<<k, m>> \in Less)
  BY LessWellFounded, WFMin, Zenon
<1>2. \A k \in S : ~(k < m)
  BY <1>1, LessPairs
<1> QED BY <1>2

LEMMA UpTo ==
  ASSUME NEW n \in Nat, NEW S, 0 \in S, \A i \in 1 .. n : i - 1 \in S => i \in S
  PROVE  \A i \in 0 .. n : i \in S
<1> DEFINE T == {i \in 0 .. n : i \notin S}
<1> SUFFICES ASSUME T # {} PROVE FALSE
  OBVIOUS
<1>1. PICK m \in T : \A k \in T : m <= k
  <2>1. T \in SUBSET Nat
    OBVIOUS
  <2> QED BY <2>1, LeastExists, Zenon
<1>2. m \in 1 .. n /\ m - 1 \in 0 .. n /\ m \notin S
  OBVIOUS
<1>3. m - 1 \in S
  BY <1>1, <1>2
<1> QED BY <1>2, <1>3

\* The steps of a recursion on 0 .. n, and its function.
StepsOf(n, S) == [1 .. n -> [S -> S]]
Recurses(q, n, S, base, F) ==
    /\ q \in [0 .. n -> S] /\ q[0] = base
    /\ \A i \in 1 .. n : q[i] = F[i][q[i - 1]]

\* A function defined by recursion on 0 .. n exists.
LEMMA RecursionExists ==
  ASSUME NEW n \in Nat, NEW S, NEW base \in S, NEW F \in StepsOf(n, S)
  PROVE  \E q : Recurses(q, n, S, base, F)
<1> DEFINE Ok(q, m) == /\ q \in [0 .. m -> S] /\ q[0] = base
                       /\ \A i \in 1 .. m : q[i] = F[i][q[i - 1]]
           T == {m \in 0 .. n : \E q : Ok(q, m)}
<1>0. F \in [1 .. n -> [S -> S]]
  BY DEF StepsOf
<1>1. 0 \in T
  <2> DEFINE r == [i \in 0 .. 0 |-> base]
  <2>1. r \in [0 .. 0 -> S] /\ r[0] = base
    OBVIOUS
  <2>2. \A i \in 1 .. 0 : r[i] = F[i][r[i - 1]]
    OBVIOUS
  <2> HIDE DEF r
  <2>3. Ok(r, 0) /\ 0 \in 0 .. n
    BY <2>1, <2>2
  <2> QED BY <2>3, Zenon
<1>2. ASSUME NEW m \in 1 .. n, m - 1 \in T PROVE m \in T
  <2>1. PICK q : Ok(q, m - 1)
    BY <1>2
  <2> DEFINE r == [i \in 0 .. m |-> IF i = m THEN F[m][q[m - 1]] ELSE q[i]]
  <2>2. q[m - 1] \in S /\ F[m][q[m - 1]] \in S
    BY <1>0, <2>1
  <2>3. r \in [0 .. m -> S] /\ r[0] = base
    BY <2>1, <2>2
  <2>4. ASSUME NEW i \in 1 .. m PROVE r[i] = F[i][r[i - 1]]
    <3>1. CASE i = m
      BY <2>1, <3>1
    <3>2. CASE i # m
      BY <2>1, <3>2
    <3> QED BY <3>1, <3>2
  <2>5. Ok(r, m)
    BY <2>3, <2>4
  <2> HIDE DEF Ok, r
  <2> QED BY <2>5
<1> HIDE DEF T
<1>3. \A m \in 0 .. n : m \in T
  BY <1>1, <1>2, UpTo
<1>4. PICK q : Ok(q, n)
  BY <1>3 DEF T
<1> QED BY <1>4, Zenon DEF Recurses

-----------------------------------------------------------------------------
(* Slots, counted around the table.                                        *)

LEMMA Remainder ==
  ASSUME NEW n \in Nat \ {0}, NEW a \in Int, 0 - n <= a, a < 2 * n
  PROVE  a % n = IF a < 0 THEN a + n ELSE IF a < n THEN a ELSE a - n
<1> DEFINE q == a \div n
           r == a % n
<1>1. q \in Int /\ r \in 0 .. (n - 1) /\ a = n * q + r
  OBVIOUS
<1> HIDE DEF q, r
<1>2. ASSUME q <= 0 - 2 PROVE FALSE
  <2>1. n * q <= n * (0 - 2)
    BY <1>1, <1>2
  <2> QED BY <1>1, <2>1
<1>3. ASSUME q >= 2 PROVE FALSE
  <2>1. n * q >= n * 2
    BY <1>1, <1>3
  <2> QED BY <1>1, <2>1
<1>4. q \in {0 - 1, 0, 1}
  BY <1>1, <1>2, <1>3
<1>5. CASE q = 0 - 1
  BY <1>1, <1>5 DEF r
<1>6. CASE q = 0
  BY <1>1, <1>6 DEF r
<1>7. CASE q = 1
  BY <1>1, <1>7 DEF r
<1> QED BY <1>4, <1>5, <1>6, <1>7

Tables(size) == [0 .. (size - 1) -> Connection \cup {NoConnection}]

\* Steps in a table of a size.
Distance(size, i, j) == IF i <= j THEN j - i ELSE j - i + size

HomeIn(size, a) == HashOf[a] % size

LEMMA SlotFacts ==
  ASSUME NEW size \in Nat \ {0}, NEW t \in Tables(size)
  PROVE  /\ Slots(t) = 0 .. (size - 1) /\ Cardinality(Slots(t)) = size
         /\ \A i, j \in 0 .. (size - 1) : Steps(t, i, j) = Distance(size, i, j)
         /\ \A c \in Connection :
              /\ Home(t, AddressOf[c]) = HomeIn(size, AddressOf[c])
              /\ HomeIn(size, AddressOf[c]) \in 0 .. (size - 1)
<1>1. Slots(t) = 0 .. (size - 1)
  BY DEF Slots, Tables
<1>2. Cardinality(Slots(t)) = size
  BY <1>1, FS_Interval
<1>3. ASSUME NEW i \in 0 .. (size - 1), NEW j \in 0 .. (size - 1)
      PROVE  Steps(t, i, j) = Distance(size, i, j)
  <2>1. j - i \in Int /\ 0 - size <= j - i /\ j - i < 2 * size /\ j - i < size
    OBVIOUS
  <2>2. (j - i) % size = IF j - i < 0 THEN j - i + size ELSE j - i
    BY <2>1, Remainder
  <2> QED BY <1>2, <2>2 DEF Steps, Distance
<1>4. ASSUME NEW c \in Connection
      PROVE  /\ Home(t, AddressOf[c]) = HomeIn(size, AddressOf[c])
             /\ HomeIn(size, AddressOf[c]) \in 0 .. (size - 1)
  <2>1. HashOf[AddressOf[c]] \in Nat
    BY TableAssumption
  <2> QED BY <1>2, <2>1 DEF Home, HomeIn
<1> QED BY <1>1, <1>2, <1>3, <1>4

LEMMA FirstFromFacts ==
  ASSUME NEW size \in Nat \ {0}, NEW t \in Tables(size),
         NEW i \in 0 .. (size - 1), NEW S \in SUBSET (0 .. (size - 1)), S # {}
  PROVE  /\ FirstFrom(t, i, S) \in S
         /\ \A k \in S : Distance(size, i, FirstFrom(t, i, S)) <= Distance(size, i, k)
<1> DEFINE D == {Distance(size, i, k) : k \in S}
<1>1. D \in SUBSET Nat /\ D # {}
  <2>1. \A k \in S : Distance(size, i, k) \in Nat
    BY DEF Distance
  <2> QED BY <2>1
<1>2. PICK m \in D : \A k \in D : m <= k
  BY <1>1, LeastExists, Zenon
<1>3. PICK j \in S : m = Distance(size, i, j)
  BY <1>2
<1>4. \A k \in S : Steps(t, i, j) <= Steps(t, i, k)
  BY <1>2, <1>3, SlotFacts
<1>5. FirstFrom(t, i, S) \in S
      /\ \A k \in S : Steps(t, i, FirstFrom(t, i, S)) <= Steps(t, i, k)
  BY <1>4 DEF FirstFrom
<1>6. \A k \in S : Steps(t, i, k) = Distance(size, i, k)
  BY SlotFacts
<1> QED BY <1>5, <1>6

\* In terms of distances, Reached.
LEMMA ReachedAs ==
  ASSUME NEW size \in Nat \ {0}, NEW t \in Tables(size), NEW i \in 0 .. (size - 1),
         t[i] # NoConnection
  PROVE  /\ t[i] \in Connection
         /\ HomeIn(size, AddressOf[t[i]]) \in 0 .. (size - 1)
         /\ Reached(t, i) <=>
              \A k \in 0 .. (size - 1) :
                 Distance(size, HomeIn(size, AddressOf[t[i]]), k)
                   < Distance(size, HomeIn(size, AddressOf[t[i]]), i)
                 => t[k] # NoConnection
<1> DEFINE h == HomeIn(size, AddressOf[t[i]])
<1>1. t[i] \in Connection
  BY DEF Tables
<1>2. /\ Home(t, AddressOf[t[i]]) = h /\ h \in 0 .. (size - 1)
      /\ Slots(t) = 0 .. (size - 1)
  BY <1>1, SlotFacts
<1> HIDE DEF h
<1>3. \A k \in 0 .. (size - 1) : Steps(t, h, k) = Distance(size, h, k)
  BY <1>2, SlotFacts
<1>4. Reached(t, i) <=>
        \A k \in 0 .. (size - 1) :
           Steps(t, h, k) < Steps(t, h, i) => t[k] # NoConnection
  BY <1>2 DEF Reached
<1>5. Reached(t, i) <=>
        \A k \in 0 .. (size - 1) :
           Distance(size, h, k) < Distance(size, h, i) => t[k] # NoConnection
  BY <1>3, <1>4
<1> QED BY <1>1, <1>2, <1>5 DEF h

\* A connection goes to the first free slot from where its address starts.
LEMMA InsertFacts ==
  ASSUME NEW size \in Nat \ {0}, NEW t \in Tables(size), FreeSlots(t) # {},
         NEW c \in Connection
  PROVE  \E j \in FreeSlots(t) :
           /\ j \in 0 .. (size - 1)
           /\ Insert(t, c) = [t EXCEPT ![j] = c]
           /\ \A k \in FreeSlots(t) :
                Distance(size, HomeIn(size, AddressOf[c]), j)
                  <= Distance(size, HomeIn(size, AddressOf[c]), k)
<1> DEFINE h == HomeIn(size, AddressOf[c])
           S == FreeSlots(t)
           j == FirstFrom(t, h, S)
<1>1. Home(t, AddressOf[c]) = h /\ h \in 0 .. (size - 1)
  BY SlotFacts
<1>2. S \in SUBSET (0 .. (size - 1))
  BY SlotFacts DEF FreeSlots
<1>3. j \in S /\ \A k \in S : Distance(size, h, j) <= Distance(size, h, k)
  <2> HIDE DEF h, S
  <2> QED BY <1>1, <1>2, FirstFromFacts DEF S
<1>4. Insert(t, c) = [t EXCEPT ![j] = c]
  BY <1>1 DEF Insert
<1> QED BY <1>2, <1>3, <1>4

\* An insertion adds to the table what it inserts, and keeps the rest reached.
LEMMA InsertInv ==
  ASSUME NEW size \in Nat \ {0}, NEW t \in Tables(size), FreeSlots(t) # {},
         NEW c \in Connection, NEW S \in SUBSET Connection, c \notin S,
         Holds(t, S), AllReached(t)
  PROVE  /\ Insert(t, c) \in Tables(size) /\ Holds(Insert(t, c), S \cup {c})
         /\ AllReached(Insert(t, c))
<1> DEFINE h == HomeIn(size, AddressOf[c])
           N == 0 .. (size - 1)
<1>1. PICK j \in FreeSlots(t) :
        /\ j \in N
        /\ Insert(t, c) = [t EXCEPT ![j] = c]
        /\ \A k \in FreeSlots(t) : Distance(size, h, j) <= Distance(size, h, k)
  BY InsertFacts
<1>2. PICK u : u = Insert(t, c)
  OBVIOUS
<1>3. /\ t[j] = NoConnection /\ c # NoConnection /\ Slots(t) = N
      /\ \A k \in N : t[k] = NoConnection => k \in FreeSlots(t)
  BY TableAssumption, SlotFacts DEF FreeSlots
<1>4. /\ u \in Tables(size) /\ u[j] = c /\ \A k \in N : k # j => u[k] = t[k]
  BY <1>1, <1>2 DEF Tables
<1>5. Slots(u) = N
  BY <1>4, SlotFacts
<1>6. Holds(u, S \cup {c})
  <2>1. \A k \in N : t[k] # NoConnection => t[k] \in S /\ t[k] # c
    BY <1>3 DEF Holds
  <2>2. \A i, k \in N : u[i] # NoConnection /\ u[i] = u[k] => i = k
    BY <1>3, <1>4, <2>1 DEF Holds
  <2>3. \A i \in N : u[i] # NoConnection => u[i] \in S \cup {c}
    BY <1>4, <2>1
  <2>4. ASSUME NEW d \in S \cup {c} PROVE \E i \in N : u[i] = d
    <3>1. CASE d = c
      BY <1>1, <1>4, <3>1
    <3>2. CASE d \in S
      <4>1. PICK i \in N : t[i] = d
        BY <1>3, <3>2 DEF Holds
      <4>2. CASE i = j
        BY TableAssumption, <1>3, <3>2, <4>1, <4>2
      <4>3. CASE i # j
        BY <1>4, <4>1, <4>3
      <4> QED BY <4>2, <4>3
    <3> QED BY <3>1, <3>2
  <2> QED BY <1>5, <2>2, <2>3, <2>4 DEF Holds
<1>7. ASSUME NEW i \in N, u[i] # NoConnection PROVE Reached(u, i)
  <2> DEFINE g == HomeIn(size, AddressOf[u[i]])
  <2> SUFFICES ASSUME NEW k \in N, Distance(size, g, k) < Distance(size, g, i)
               PROVE  u[k] # NoConnection
    BY <1>4, <1>7, ReachedAs
  <2>1. CASE i = j
    <3>1. g = h
      BY <1>4, <2>1
    <3>2. k \notin FreeSlots(t)
      <4>1. Distance(size, h, k) \in Int /\ Distance(size, h, j) \in Int
        <5>1. h \in N
          BY SlotFacts
        <5> QED BY <1>1, <5>1 DEF Distance
      <4>2. Distance(size, h, k) < Distance(size, h, j)
        BY <2>1, <3>1
      <4> HIDE DEF h
      <4> QED BY <1>1, <4>1, <4>2
    <3> QED BY <1>3, <1>4, <3>2
  <2>2. CASE i # j
    <3>1. u[i] = t[i] /\ t[i] # NoConnection
      BY <1>4, <1>7, <2>2
    <3>2. Reached(t, i)
      BY <1>3, <3>1 DEF AllReached
    <3>3. t[k] # NoConnection
      BY <3>1, <3>2, ReachedAs
    <3> QED BY <1>3, <1>4, <3>3
  <2> QED BY <2>1, <2>2
<1>8. AllReached(u)
  BY <1>5, <1>7 DEF AllReached
<1> QED BY <1>2, <1>4, <1>6, <1>8

\* The slots that hold no connection are free.
LEMMA CountFree ==
  ASSUME NEW size \in Nat \ {0}, NEW t \in Tables(size),
         NEW S \in SUBSET Connection, IsFiniteSet(S), Holds(t, S)
  PROVE  /\ Cardinality(S) \in Nat
         /\ Cardinality(FreeSlots(t)) = size - Cardinality(S)
         /\ Cardinality(S) < size => FreeSlots(t) # {}
<1> DEFINE N == 0 .. (size - 1)
           U == {i \in N : t[i] # NoConnection}
           f == [i \in U |-> t[i]]
<1>1. Slots(t) = N /\ Cardinality(N) = size /\ IsFiniteSet(N)
  BY SlotFacts, FS_Interval
<1>2. IsFiniteSet(U)
  <2>1. U \in SUBSET N
    OBVIOUS
  <2> HIDE DEF N, U
  <2> QED BY <1>1, <2>1, FS_Subset
<1>3. f \in Surjection(U, S) /\ f \in Injection(U, S)
  <2>1. \A i \in U : t[i] \in S
    BY <1>1 DEF Holds
  <2>2. f \in [U -> S]
    BY <2>1
  <2>3. \A c \in S : \E i \in U : f[i] = c
    <3> TAKE c \in S
    <3>1. PICK i \in N : t[i] = c
      BY <1>1 DEF Holds
    <3>2. i \in U
      BY <3>1, TableAssumption
    <3> QED BY <3>1, <3>2
  <2>4. \A i, j \in U : f[i] = f[j] => i = j
    BY <1>1 DEF Holds
  <2> HIDE DEF f, U
  <2> QED BY <2>2, <2>3, <2>4 DEF Surjection, Injection, IsInjective
<1>4. Cardinality(S) = Cardinality(U) /\ Cardinality(U) \in Nat
  <2> HIDE DEF f, U
  <2> QED BY <1>2, <1>3, FS_Surjection, FS_CardinalityType
<1>5. FreeSlots(t) = N \ U /\ N \cap U = U
  BY <1>1 DEF FreeSlots
<1>6. Cardinality(N \ U) = size - Cardinality(U) /\ IsFiniteSet(N \ U)
  <2> HIDE DEF N, U
  <2> QED BY <1>1, <1>5, FS_Difference
<1>7. Cardinality(S) < size => FreeSlots(t) # {}
  <2>1. Cardinality(S) < size => Cardinality(FreeSlots(t)) # 0
    BY <1>4, <1>5, <1>6
  <2> QED BY <2>1, FS_EmptySet
<1> QED BY <1>4, <1>5, <1>6, <1>7

-----------------------------------------------------------------------------
(* Growing.                                                                *)

LEMMA FirstsCount ==
  ASSUME NEW n \in Nat
  PROVE  IsFiniteSet(1 .. n) /\ Cardinality(1 .. n) = n
BY FS_Interval

LEMMA InsertType ==
  ASSUME NEW size \in Nat \ {0}, NEW t \in Tables(size),
         NEW c \in Connection \cup {NoConnection}
  PROVE  Insert(t, c) \in Tables(size)
BY DEF Insert, Tables

LEMMA EmptyTableFacts ==
  ASSUME NEW size \in Nat \ {0}
  PROVE  /\ EmptyTable(size) \in Tables(size) /\ Holds(EmptyTable(size), {})
         /\ AllReached(EmptyTable(size))
<1> DEFINE t == EmptyTable(size)
<1>1. t \in Tables(size) /\ \A i \in 0 .. (size - 1) : t[i] = NoConnection
  BY DEF EmptyTable, Tables
<1>2. Slots(t) = 0 .. (size - 1)
  BY <1>1, SlotFacts
<1> HIDE DEF t
<1>3. Holds(t, {}) /\ AllReached(t)
  BY <1>1, <1>2 DEF Holds, AllReached
<1> QED BY <1>1, <1>3 DEF t

\* The first n connections of a list.
Firsts(list, n) == {list[j] : j \in 1 .. n}

LEMMA FilledInv ==
  ASSUME NEW size \in Nat \ {0}, NEW list \in Seq(Connection), Len(list) < size,
         \A j, k \in DOMAIN list : list[j] = list[k] => j = k
  PROVE  /\ Filled(list, size) \in Tables(size) /\ AllReached(Filled(list, size))
         /\ Holds(Filled(list, size), Firsts(list, Len(list)))
<1> DEFINE n == Len(list)
           T == Tables(size)
           base == EmptyTable(size)
           Fills(q) == q = [i \in 0 .. n |-> IF i = 0 THEN EmptyTable(size)
                                             ELSE Insert(q[i - 1], list[i])]
           Ok(t, i) == Holds(t, Firsts(list, i)) /\ AllReached(t)
<1>1. n \in Nat /\ DOMAIN list = 1 .. n /\ \A i \in 1 .. n : list[i] \in Connection
  OBVIOUS
<1>2. base \in T /\ Ok(base, 0)
  <2>1. Firsts(list, 0) = {}
    BY DEF Firsts
  <2> QED BY <2>1, EmptyTableFacts
<1>3. ASSUME NEW i \in 1 .. n, NEW t \in T, Ok(t, i - 1)
      PROVE  Insert(t, list[i]) \in T /\ Ok(Insert(t, list[i]), i)
  <2> DEFINE S == Firsts(list, i - 1)
             c == list[i]
  <2>1. S \in SUBSET Connection /\ c \in Connection /\ c \notin S
    BY <1>1 DEF Firsts
  <2>2. Firsts(list, i) = S \cup {c}
    <3>1. 1 .. i = (1 .. (i - 1)) \cup {i}
      BY <1>1
    <3> QED BY <3>1 DEF Firsts
  <2>3. IsFiniteSet(S) /\ Cardinality(S) <= i - 1
    <3> DEFINE g == [j \in 1 .. (i - 1) |-> list[j]]
               A == 1 .. (i - 1)
    <3>1. IsFiniteSet(A) /\ Cardinality(A) = i - 1
      <4>1. i - 1 \in Nat
        BY <1>1
      <4> QED BY <4>1, FirstsCount, Zenon
    <3>2. g \in Surjection(A, S)
      BY DEF Surjection, Firsts
    <3> HIDE DEF g, A, S
    <3> QED BY <3>1, <3>2, FS_Surjection
  <2>4. Holds(t, S) /\ AllReached(t)
    BY <1>3
  <2> HIDE DEF S, c
  <2>5. FreeSlots(t) # {}
    <3>1. Cardinality(S) \in Nat /\ (Cardinality(S) < size => FreeSlots(t) # {})
      BY <2>1, <2>3, <2>4, CountFree
    <3> QED BY <1>1, <2>3, <3>1
  <2>6. /\ Insert(t, c) \in Tables(size) /\ Holds(Insert(t, c), S \cup {c})
        /\ AllReached(Insert(t, c))
    BY <2>1, <2>4, <2>5, InsertInv
  <2> QED BY <2>2, <2>6 DEF c
<1> HIDE DEF Ok
<1>4. PICK r \in [0 .. n -> T] :
        r[0] = base /\ \A i \in 1 .. n : r[i] = Insert(r[i - 1], list[i])
  <2> DEFINE F == [i \in 1 .. n |-> [w \in T |-> Insert(w, list[i])]]
  <2>1. \A i \in 1 .. n : \A w \in T : Insert(w, list[i]) \in T
    BY <1>1, InsertType
  <2>2. F \in [1 .. n -> [T -> T]]
    BY <2>1
  <2> HIDE DEF F
  <2>3. PICK r \in [0 .. n -> T] :
          r[0] = base /\ \A i \in 1 .. n : r[i] = F[i][r[i - 1]]
    <3> DEFINE m == n
    <3> HIDE DEF m, T, base
    <3>1. m \in Nat /\ F \in StepsOf(m, T) /\ base \in T
      BY <1>1, <1>2, <2>2 DEF m, StepsOf
    <3>2. PICK r : Recurses(r, m, T, base, F)
      BY <3>1, RecursionExists
    <3> QED BY <3>2, Zenon DEF m, Recurses
  <2>4. ASSUME NEW i \in 1 .. n PROVE r[i] = Insert(r[i - 1], list[i])
    <3>1. i - 1 \in 0 .. n
      BY <1>1
    <3> QED BY <2>3, <3>1 DEF F
  <2> QED BY <2>3, <2>4
<1>5. Fills(r)
  BY <1>1, <1>4
<1>6. \A q : Fills(q) => q = r
  <2> SUFFICES ASSUME NEW q, Fills(q) PROVE q = r
    OBVIOUS
  <2> DEFINE A == {i \in 0 .. n : q[i] = r[i]}
  <2>0. /\ DOMAIN q = 0 .. n /\ q[0] = base
        /\ \A i \in 1 .. n : q[i] = Insert(q[i - 1], list[i])
    <3>1. 0 \in 0 .. n /\ \A i \in 1 .. n : i \in 0 .. n /\ i # 0
      BY <1>1
    <3> QED BY <3>1
  <2>1. 0 \in A
    BY <1>1, <1>4, <2>0
  <2>2. ASSUME NEW i \in 1 .. n, i - 1 \in A PROVE i \in A
    BY <1>1, <1>4, <2>0, <2>2
  <2>3. \A i \in 0 .. n : i \in A
    <3> HIDE DEF A
    <3> QED BY <1>1, <2>1, <2>2, UpTo
  <2>4. \A i \in 0 .. n : q[i] = r[i]
    BY <2>3
  <2>5. q = [i \in 0 .. n |-> q[i]] /\ r = [i \in 0 .. n |-> r[i]]
    BY <1>4, <2>0
  <2> QED BY <2>4, <2>5
<1>7. Filled(list, size) = r[n]
  <2>1. (CHOOSE q : Fills(q)) = r
    <3> HIDE DEF Fills
    <3> QED BY <1>5, <1>6, Zenon
  <2>2. Filled(list, size) = (CHOOSE q : Fills(q))[n]
    BY Zenon DEF Filled
  <2> QED BY <2>1, <2>2, Zenon
<1>8. \A i \in 0 .. n : r[i] \in T /\ Ok(r[i], i)
  <2> DEFINE A == {i \in 0 .. n : Ok(r[i], i)}
  <2>1. 0 \in A
    BY <1>1, <1>2, <1>4
  <2>2. ASSUME NEW i \in 1 .. n, i - 1 \in A PROVE i \in A
    <3>1. i - 1 \in 0 .. n /\ i \in 0 .. n /\ r[i - 1] \in T /\ Ok(r[i - 1], i - 1)
      BY <1>1, <1>4, <2>2
    <3>2. Ok(Insert(r[i - 1], list[i]), i)
      BY <1>3, <3>1
    <3> QED BY <1>4, <3>1, <3>2
  <2> HIDE DEF A
  <2>3. \A i \in 0 .. n : i \in A
    BY <1>1, <2>1, <2>2, UpTo
  <2> QED BY <1>4, <2>3 DEF A
<1> QED BY <1>1, <1>7, <1>8 DEF Ok

-----------------------------------------------------------------------------
(* The rehash after a removal.  A slot f that stays free cuts the table: no *)
(* way from where an address starts to its connection leads over it, so     *)
(* slots are ordered by their distance from f.                              *)

LEMMA CutOrder ==
  ASSUME NEW size \in Nat \ {0}, NEW f \in 0 .. (size - 1), NEW h \in 0 .. (size - 1),
         NEW x \in 0 .. (size - 1), NEW k \in 0 .. (size - 1),
         Distance(size, h, x) < Distance(size, h, f)
  PROVE  /\ Distance(size, h, k) <= Distance(size, h, x) =>
              Distance(size, f, k) <= Distance(size, f, x) /\ k # f
         /\ Distance(size, h, k) < Distance(size, h, x) =>
              Distance(size, f, k) < Distance(size, f, x)
BY DEF Distance

LEMMA MovedInv ==
  ASSUME NEW size \in Nat \ {0}, NEW u \in Tables(size),
         NEW S \in SUBSET Connection, Holds(u, S),
         NEW f \in 0 .. (size - 1), u[f] = NoConnection,
         NEW n \in 0 .. (size - 1), u[n] # NoConnection,
         Distance(size, HomeIn(size, AddressOf[u[n]]), n)
           < Distance(size, HomeIn(size, AddressOf[u[n]]), f),
         \A i \in 0 .. (size - 1) :
            u[i] # NoConnection /\ Distance(size, f, i) < Distance(size, f, n) =>
              Reached(u, i)
  PROVE  /\ Moved(u, n) \in Tables(size) /\ Holds(Moved(u, n), S)
         /\ Moved(u, n)[f] = NoConnection
         /\ \A i \in 0 .. (size - 1) :
              /\ Distance(size, f, i) > Distance(size, f, n) => Moved(u, n)[i] = u[i]
              /\ Moved(u, n)[i] # NoConnection
                   /\ Distance(size, f, i) <= Distance(size, f, n) =>
                   Reached(Moved(u, n), i)
<1> DEFINE N == 0 .. (size - 1)
           c == u[n]
           h == HomeIn(size, AddressOf[c])
           w == [u EXCEPT ![n] = NoConnection]
<1>1. /\ c \in Connection /\ c # NoConnection /\ h \in N
      /\ \A i, j \in N : Distance(size, i, j) \in Nat
  <2>1. c \in Connection
    BY DEF Tables
  <2>2. h \in N
    BY <2>1, SlotFacts
  <2>3. \A i, j \in N : Distance(size, i, j) \in Nat
    BY DEF Distance
  <2> QED BY <2>1, <2>2, <2>3, TableAssumption
<1>2. /\ w \in Tables(size) /\ w[n] = NoConnection
      /\ \A i \in N : i # n => w[i] = u[i]
  BY DEF Tables
<1> HIDE DEF w
<1>3. /\ Slots(u) = N /\ Slots(w) = N
      /\ FreeSlots(w) = {i \in N : w[i] = NoConnection} /\ n \in FreeSlots(w)
  BY <1>2, SlotFacts DEF FreeSlots
<1>4. PICK j \in FreeSlots(w) :
        /\ j \in N
        /\ Insert(w, c) = [w EXCEPT ![j] = c]
        /\ \A k \in FreeSlots(w) : Distance(size, h, j) <= Distance(size, h, k)
  BY <1>1, <1>2, <1>3, InsertFacts
<1>5. PICK v : v = Moved(u, n)
  OBVIOUS
<1>6. /\ v \in Tables(size) /\ v[j] = c /\ \A i \in N : i # j => v[i] = w[i]
  <2>1. v = [w EXCEPT ![j] = c]
    BY <1>4, <1>5 DEF Moved, w
  <2> QED BY <1>1, <1>2, <1>4, <2>1 DEF Tables
<1>7. Slots(v) = N
  BY <1>6, SlotFacts
<1>8. Distance(size, f, j) <= Distance(size, f, n) /\ j # f /\ f # n
  <2>1. Distance(size, h, j) <= Distance(size, h, n)
    BY <1>3, <1>4
  <2> HIDE DEF h
  <2> QED BY <1>1, <1>4, <2>1, CutOrder DEF h
<1>9. v[f] = NoConnection
  BY <1>2, <1>6, <1>8
<1>10. \A i \in N : Distance(size, f, i) > Distance(size, f, n) => v[i] = u[i]
  <2> TAKE i \in N
  <2> HAVE Distance(size, f, i) > Distance(size, f, n)
  <2>1. i # n /\ i # j
    BY <1>1, <1>4, <1>8
  <2> QED BY <1>2, <1>6, <2>1
<1>11. Holds(v, S)
  <2>1. w[j] = NoConnection /\ \A i \in N : w[i] # NoConnection => w[i] # c /\ w[i] \in S
    BY <1>2, <1>3, <1>4 DEF Holds
  <2>2. c \in S
    BY <1>1, <1>3 DEF Holds
  <2>3. \A i \in N : v[i] # NoConnection => v[i] \in S
    BY <1>6, <2>1, <2>2
  <2>4. \A i, k \in N : w[i] # NoConnection /\ w[i] = w[k] => i = k
    BY <1>2, <1>3 DEF Holds
  <2>5. \A i, k \in N : v[i] # NoConnection /\ v[i] = v[k] => i = k
    <3> SUFFICES ASSUME NEW i \in N, NEW k \in N, v[i] # NoConnection, v[i] = v[k]
                 PROVE  i = k
      OBVIOUS
    <3>1. CASE i = j
      BY <1>1, <1>6, <2>1, <3>1
    <3>2. CASE k = j
      BY <1>1, <1>6, <2>1, <3>2
    <3>3. CASE i # j /\ k # j
      BY <1>6, <2>4, <3>3
    <3> QED BY <3>1, <3>2, <3>3
  <2>6. ASSUME NEW d \in S PROVE \E i \in N : v[i] = d
    <3>1. PICK i \in N : u[i] = d
      BY <1>3 DEF Holds
    <3>2. CASE d = c
      BY <1>4, <1>6, <3>2
    <3>3. CASE d # c
      <4>1. w[i] = d /\ d # NoConnection
        BY <1>2, <3>1, <3>3, TableAssumption
      <4>2. v[i] = d
        BY <1>6, <2>1, <4>1
      <4> QED BY <4>2
    <3> QED BY <3>2, <3>3
  <2> QED BY <1>7, <2>3, <2>5, <2>6 DEF Holds
<1>12. ASSUME NEW i \in N, v[i] # NoConnection,
              Distance(size, f, i) <= Distance(size, f, n)
       PROVE  Reached(v, i)
  <2> DEFINE g == HomeIn(size, AddressOf[v[i]])
  <2>0. g \in N
    BY <1>6, <1>12, ReachedAs
  <2> SUFFICES ASSUME NEW k \in N, Distance(size, g, k) < Distance(size, g, i)
               PROVE  v[k] # NoConnection
    BY <1>6, <1>12, ReachedAs
  <2>1. CASE i = j
    <3>1. Distance(size, h, k) < Distance(size, h, j)
      BY <1>6, <2>1
    <3>2. k \notin FreeSlots(w)
      <4> HIDE DEF h
      <4> QED BY <1>1, <1>4, <3>1
    <3> QED BY <1>3, <1>1, <1>6, <3>2
  <2>2. CASE i # j
    <3>1. v[i] = u[i] /\ u[i] # NoConnection /\ i # n
      BY <1>2, <1>6, <1>12, <2>2
    <3>2. Distance(size, f, i) < Distance(size, f, n)
      <4>1. Distance(size, f, i) # Distance(size, f, n)
        BY <3>1 DEF Distance
      <4> QED BY <1>1, <1>12, <4>1
    <3>3. Reached(u, i)
      BY <3>1, <3>2
    <3>4. \A m \in N : Distance(size, g, m) < Distance(size, g, i) => u[m] # NoConnection
      BY <3>1, <3>3, ReachedAs
    <3> HIDE DEF g
    <3>5. u[k] # NoConnection
      BY <3>4
    <3>6. Distance(size, g, i) < Distance(size, g, f)
      <4>1. ~(Distance(size, g, f) < Distance(size, g, i))
        BY <3>4
      <4>2. i # f
        BY <3>1
      <4>3. Distance(size, g, f) # Distance(size, g, i)
        BY <2>0, <4>2 DEF Distance
      <4> QED BY <1>1, <2>0, <4>1, <4>3
    <3>7. Distance(size, f, k) < Distance(size, f, i)
      BY <2>0, <3>6, CutOrder
    <3>8. k # n
      BY <1>1, <3>2, <3>7
    <3> QED BY <1>1, <1>2, <1>6, <3>5, <3>8
  <2> QED BY <2>1, <2>2
<1> QED BY <1>5, <1>6, <1>9, <1>10, <1>11, <1>12

LEMMA MovedType ==
  ASSUME NEW size \in Nat \ {0}, NEW t \in Tables(size), NEW n \in 0 .. (size - 1)
  PROVE  Moved(t, n) \in Tables(size)
<1>1. [t EXCEPT ![n] = NoConnection] \in Tables(size) /\ t[n] \in Connection \cup {NoConnection}
  BY DEF Tables
<1> QED BY <1>1, InsertType DEF Moved

\* The slots to rehash are those from the freed one, i, up to the next free one, f.
RunsTo(size, t, i, f) ==
    /\ f # i /\ t[f] = NoConnection
    /\ Run(t, i) \in Seq(0 .. (size - 1))
    /\ Len(Run(t, i)) = size - 1 - Distance(size, f, i)
    /\ \A n \in 1 .. Len(Run(t, i)) :
         /\ Distance(size, f, Run(t, i)[n]) = Distance(size, f, i) + n
         /\ t[Run(t, i)[n]] # NoConnection

LEMMA RunFacts ==
  ASSUME NEW size \in Nat \ {0}, NEW t \in Tables(size), NEW i \in 0 .. (size - 1),
         NEW g \in 0 .. (size - 1), g # i, t[g] = NoConnection
  PROVE  \E f \in 0 .. (size - 1) : RunsTo(size, t, i, f)
<1> DEFINE N == 0 .. (size - 1)
           b == (i + 1) % size
           f == FirstFrom(t, b, FreeSlots(t))
           L == size - 1 - Distance(size, f, i)
<1>1. /\ Slots(t) = N /\ Cardinality(Slots(t)) = size
      /\ FreeSlots(t) = {k \in N : t[k] = NoConnection} /\ g \in FreeSlots(t)
  BY SlotFacts DEF FreeSlots
<1>2. b = (IF i + 1 = size THEN 0 ELSE i + 1) /\ b \in N
  <2>1. /\ i + 1 \in Int /\ 0 - size <= i + 1 /\ i + 1 < 2 * size
    OBVIOUS
  <2>2. (i + 1) % size = IF i + 1 < 0 THEN (i + 1) + size
                         ELSE IF i + 1 < size THEN i + 1 ELSE (i + 1) - size
    BY ONLY <2>1, Remainder, size \in Nat \ {0}
  <2> QED BY <2>2
<1>3. f \in FreeSlots(t)
      /\ \A k \in FreeSlots(t) : Distance(size, b, f) <= Distance(size, b, k)
  <2> DEFINE F == FreeSlots(t)
  <2>1. F \in SUBSET N /\ F # {}
    BY <1>1
  <2> HIDE DEF b, F
  <2> QED BY <1>2, <2>1, FirstFromFacts DEF F
<1>4. f \in N /\ t[f] = NoConnection
  BY <1>1, <1>3
<1> HIDE DEF f
<1>5. f # i
  <2>1. Distance(size, b, f) <= Distance(size, b, g)
    BY <1>1, <1>3
  <2> QED BY <1>2, <2>1 DEF Distance
<1>6. L \in 0 .. (size - 1) /\ Distance(size, b, f) = L
  BY <1>2, <1>4, <1>5 DEF Distance
<1>7. Steps(t, i + 1, f) = L
  <2>1. /\ f - (i + 1) \in Int /\ 0 - size <= f - (i + 1) /\ f - (i + 1) < 2 * size
    BY <1>4
  <2>2. (f - (i + 1)) % size = IF f - (i + 1) < 0 THEN f - (i + 1) + size
                               ELSE IF f - (i + 1) < size THEN f - (i + 1)
                               ELSE f - (i + 1) - size
    BY <2>1, Remainder
  <2> QED BY <1>1, <1>4, <1>5, <2>2 DEF Steps, Distance
<1>8. Run(t, i) = [n \in 1 .. L |-> (i + n) % size]
  BY <1>1, <1>7 DEF Run, f
<1>9. ASSUME NEW n \in 1 .. L
      PROVE  /\ (i + n) % size = (IF i + n < size THEN i + n ELSE i + n - size)
             /\ (i + n) % size \in N
  <2>1. i + n \in Int /\ 0 - size <= i + n /\ i + n < 2 * size /\ ~(i + n < 0)
    BY <1>6
  <2>2. (i + n) % size = IF i + n < 0 THEN (i + n) + size
                         ELSE IF i + n < size THEN i + n ELSE (i + n) - size
    BY ONLY <2>1, Remainder, size \in Nat \ {0}
  <2> QED BY <2>1, <2>2
<1> DEFINE r == Run(t, i)
<1>10. r \in Seq(N) /\ Len(r) = L /\ \A n \in 1 .. L : r[n] = (i + n) % size
  <2>1. L \in Nat /\ \A n \in 1 .. L : (i + n) % size \in N
    BY <1>6, <1>9
  <2> HIDE DEF L, N
  <2> QED BY ONLY <1>8, <2>1
<1>11. ASSUME NEW n \in 1 .. L
       PROVE  Distance(size, f, r[n]) = Distance(size, f, i) + n /\ t[r[n]] # NoConnection
  <2>1. r[n] = (IF i + n < size THEN i + n ELSE i + n - size) /\ r[n] \in N
    BY <1>9, <1>10
  <2> HIDE DEF r
  <2>2. Distance(size, f, r[n]) = Distance(size, f, i) + n
    BY <1>4, <1>5, <1>6, <2>1 DEF Distance
  <2>3. Distance(size, b, r[n]) < Distance(size, b, f)
    BY <1>2, <1>4, <1>5, <1>6, <2>1 DEF Distance
  <2>4. r[n] \notin FreeSlots(t)
    <3>1. Distance(size, b, r[n]) \in Int /\ Distance(size, b, f) \in Int
      BY <1>2, <1>4, <2>1 DEF Distance
    <3> HIDE DEF b
    <3> QED BY <1>3, <2>3, <3>1
  <2> QED BY <1>1, <2>1, <2>2, <2>4
<1> QED BY <1>4, <1>5, <1>10, <1>11 DEF RunsTo

\* No way from where an address starts to its connection leads over a free slot.
LEMMA NotOverFree ==
  ASSUME NEW size \in Nat \ {0}, NEW t \in Tables(size),
         NEW x \in 0 .. (size - 1), t[x] # NoConnection, Reached(t, x),
         NEW f \in 0 .. (size - 1), t[f] = NoConnection
  PROVE  Distance(size, HomeIn(size, AddressOf[t[x]]), x)
           < Distance(size, HomeIn(size, AddressOf[t[x]]), f)
<1> DEFINE h == HomeIn(size, AddressOf[t[x]])
<1>1. /\ h \in 0 .. (size - 1)
      /\ \A k \in 0 .. (size - 1) :
           Distance(size, h, k) < Distance(size, h, x) => t[k] # NoConnection
  BY ReachedAs
<1> HIDE DEF h
<1>2. x # f /\ ~(Distance(size, h, f) < Distance(size, h, x))
  BY <1>1
<1>3. Distance(size, h, x) < Distance(size, h, f)
  BY <1>1, <1>2 DEF Distance
<1> QED BY <1>3 DEF h

LEMMA RehashedInv ==
  ASSUME NEW size \in Nat \ {0}, NEW old \in Tables(size),
         NEW S \in SUBSET Connection, Holds(old, S), AllReached(old),
         NEW i \in 0 .. (size - 1), old[i] # NoConnection,
         NEW g \in 0 .. (size - 1), old[g] = NoConnection,
         NEW t, t = [old EXCEPT ![i] = NoConnection]
  PROVE  /\ Rehashed(t, i) \in Tables(size) /\ AllReached(Rehashed(t, i))
         /\ Holds(Rehashed(t, i), S \ {old[i]})
<1> DEFINE N == 0 .. (size - 1)
           T == Tables(size)
           R == S \ {old[i]}
<1>1. /\ t \in T /\ t[i] = NoConnection /\ g # i /\ t[g] = NoConnection
      /\ \A x \in N : x # i => t[x] = old[x]
      /\ Slots(t) = N /\ Slots(old) = N
  <2>1. t \in T /\ t[i] = NoConnection /\ \A x \in N : x # i => t[x] = old[x]
    BY DEF Tables
  <2> QED BY <2>1, SlotFacts
<1>2. PICK f \in N : RunsTo(size, t, i, f)
  <2>1. t \in Tables(size) /\ g # i /\ t[g] = NoConnection
    BY <1>1
  <2> QED BY <2>1, RunFacts
<1> DEFINE run == Run(t, i)
<1>4. PICK d \in 0 .. (size - 1) : d = Distance(size, f, i)
  BY DEF Distance
<1> DEFINE L == Len(run)
<1>5. /\ run \in Seq(N) /\ L = size - 1 - d /\ L \in Nat /\ f # i /\ t[f] = NoConnection
      /\ \A n \in 1 .. L : /\ run[n] \in N /\ Distance(size, f, run[n]) = d + n
                           /\ t[run[n]] # NoConnection
  <2>1. /\ run \in Seq(N) /\ L = size - 1 - d
        /\ \A n \in 1 .. L : Distance(size, f, run[n]) = d + n /\ t[run[n]] # NoConnection
        /\ f # i /\ t[f] = NoConnection
    BY <1>2, <1>4 DEF RunsTo
  <2> HIDE DEF run
  <2>2. L \in Nat /\ \A n \in 1 .. L : run[n] \in N
    BY ONLY <2>1
  <2> QED BY <2>1, <2>2
<1> HIDE DEF run
<1>6. old[f] = NoConnection /\ \A x \in N : old[x] # NoConnection => Reached(old, x)
  BY <1>1, <1>5 DEF AllReached
<1>7. \A x \in N : Distance(size, f, x) \in Nat /\ Distance(size, f, x) <= size - 1
  BY DEF Distance
<1> DEFINE Ok(u, m) ==
             /\ Holds(u, R) /\ u[f] = NoConnection
             /\ \A x \in N : Distance(size, f, x) > d + m => u[x] = t[x]
             /\ \A x \in N : u[x] # NoConnection /\ Distance(size, f, x) <= d + m =>
                  Reached(u, x)
<1>8. Ok(t, 0)
  <2>1. Holds(t, R)
    <3>1. \A x \in N : t[x] # NoConnection => t[x] \in R
      BY <1>1 DEF Holds
    <3>2. \A x, y \in N : t[x] # NoConnection /\ t[x] = t[y] => x = y
      BY <1>1 DEF Holds
    <3>3. \A c \in R : \E x \in N : t[x] = c
      <4> TAKE c \in R
      <4>1. PICK x \in N : old[x] = c
        BY <1>1 DEF Holds
      <4> QED BY <1>1, <4>1
    <3> HIDE DEF R
    <3> QED BY ONLY <1>1, <3>1, <3>2, <3>3 DEF Holds
  <2>2. ASSUME NEW x \in N, t[x] # NoConnection, Distance(size, f, x) <= d
        PROVE  Reached(t, x)
    <3> DEFINE h == HomeIn(size, AddressOf[t[x]])
    <3>1. x # i /\ t[x] = old[x] /\ Reached(old, x) /\ h \in N
      BY <1>1, <1>6, <2>2, ReachedAs
    <3>2. Distance(size, h, x) < Distance(size, h, f)
      BY <1>6, <2>2, <3>1, NotOverFree
    <3>3. \A k \in N : Distance(size, h, k) < Distance(size, h, x) => old[k] # NoConnection
      BY <2>2, <3>1, ReachedAs
    <3> SUFFICES ASSUME NEW k \in N, Distance(size, h, k) < Distance(size, h, x)
                 PROVE  t[k] # NoConnection
      BY <1>1, <2>2, ReachedAs
    <3> HIDE DEF h
    <3>4. Distance(size, f, k) < Distance(size, f, x)
      BY <3>1, <3>2, CutOrder
    <3>5. k # i
      BY <1>4, <1>7, <2>2, <3>4
    <3> QED BY <1>1, <3>3, <3>5
  <2>3. d + 0 = d
    OBVIOUS
  <2>4. t[f] = NoConnection
    BY <1>5
  <2> QED BY ONLY <2>1, <2>2, <2>3, <2>4, Zenon
<1>9. ASSUME NEW m \in 1 .. L, NEW u \in T, Ok(u, m - 1)
      PROVE  Moved(u, run[m]) \in T /\ Ok(Moved(u, run[m]), m)
  <2> DEFINE n == run[m]
  <2>1. n \in N /\ Distance(size, f, n) = d + m /\ t[n] # NoConnection
    BY <1>5
  <2> HIDE DEF n
  <2>2. u[n] = t[n] /\ t[n] = old[n] /\ u[n] # NoConnection
    <3>1. d + m > d + (m - 1) /\ n # i
      BY <1>1, <2>1
    <3> QED BY <1>1, <1>9, <2>1, <3>1
  <2>3. Distance(size, HomeIn(size, AddressOf[u[n]]), n)
          < Distance(size, HomeIn(size, AddressOf[u[n]]), f)
    BY <1>6, <2>1, <2>2, NotOverFree
  <2>4. \A x \in N : u[x] # NoConnection /\ Distance(size, f, x) < Distance(size, f, n) =>
                       Reached(u, x)
    <3> TAKE x \in N
    <3> HAVE u[x] # NoConnection /\ Distance(size, f, x) < Distance(size, f, n)
    <3>1. Distance(size, f, x) <= d + (m - 1)
      BY <1>7, <2>1
    <3> QED BY <1>9, <3>1
  <2>5. Holds(u, R) /\ u[f] = NoConnection /\ R \in SUBSET Connection
    BY <1>9
  <2>6. PICK v : v = Moved(u, n)
    OBVIOUS
  <2>7. /\ v \in T /\ Holds(v, R) /\ v[f] = NoConnection
        /\ \A x \in N :
             /\ Distance(size, f, x) > Distance(size, f, n) => v[x] = u[x]
             /\ v[x] # NoConnection /\ Distance(size, f, x) <= Distance(size, f, n) =>
                  Reached(v, x)
    BY <2>1, <2>2, <2>3, <2>4, <2>5, <2>6, MovedInv
  <2>8. \A x \in N : Distance(size, f, x) > d + m => v[x] = t[x]
    <3> TAKE x \in N
    <3> HAVE Distance(size, f, x) > d + m
    <3>1. Distance(size, f, x) > d + (m - 1)
      BY <1>7
    <3> QED BY <1>9, <2>1, <2>7, <3>1
  <2>9. Ok(v, m)
    BY <2>1, <2>7, <2>8
  <2> QED BY <2>6, <2>7, <2>9 DEF n
<1> HIDE DEF Ok
<1> DEFINE Walks(q) == q = [m \in 0 .. L |-> IF m = 0 THEN t ELSE Moved(q[m - 1], run[m])]
<1>10. PICK r \in [0 .. L -> T] :
         r[0] = t /\ \A m \in 1 .. L : r[m] = Moved(r[m - 1], run[m])
  <2> DEFINE F == [m \in 1 .. L |-> [w \in T |-> Moved(w, run[m])]]
  <2>1. \A m \in 1 .. L : \A w \in T : Moved(w, run[m]) \in T
    BY <1>5, MovedType
  <2>2. F \in [1 .. L -> [T -> T]]
    BY <2>1
  <2> HIDE DEF F
  <2>3. PICK r \in [0 .. L -> T] :
          r[0] = t /\ \A m \in 1 .. L : r[m] = F[m][r[m - 1]]
    <3> DEFINE n == L
    <3> HIDE DEF n, T
    <3>1. n \in Nat /\ F \in StepsOf(n, T) /\ t \in T
      BY <1>1, <1>5, <2>2 DEF n, StepsOf
    <3>2. PICK r : Recurses(r, n, T, t, F)
      BY <3>1, RecursionExists
    <3> QED BY <3>2, Zenon DEF n, Recurses
  <2>4. ASSUME NEW m \in 1 .. L PROVE r[m] = Moved(r[m - 1], run[m])
    <3>1. m - 1 \in 0 .. L
      BY <1>5
    <3> QED BY <2>3, <3>1 DEF F
  <2> QED BY <2>3, <2>4
<1>11. Walks(r)
  <2>1. \A m \in 0 .. L : m = 0 \/ m \in 1 .. L
    BY <1>5
  <2>2. \A m \in 0 .. L :
          r[m] = IF m = 0 THEN t ELSE Moved(r[m - 1], run[m])
    BY <1>10, <2>1
  <2>3. r = [m \in 0 .. L |-> r[m]]
    BY <1>10
  <2> QED BY <2>2, <2>3
<1>12. \A q : Walks(q) => q = r
  <2> SUFFICES ASSUME NEW q, Walks(q) PROVE q = r
    OBVIOUS
  <2> DEFINE A == {m \in 0 .. L : q[m] = r[m]}
  <2>0. /\ DOMAIN q = 0 .. L /\ q[0] = t
        /\ \A m \in 1 .. L : q[m] = Moved(q[m - 1], run[m])
    <3>1. 0 \in 0 .. L /\ \A m \in 1 .. L : m \in 0 .. L /\ m # 0
      BY <1>5
    <3> QED BY <3>1
  <2>1. 0 \in A
    BY <1>5, <1>10, <2>0
  <2>2. ASSUME NEW m \in 1 .. L, m - 1 \in A PROVE m \in A
    <3>1. m - 1 \in 0 .. L /\ m \in 0 .. L
      BY <1>5
    <3>2. q[m - 1] = r[m - 1]
      BY <2>2
    <3>3. q[m] = Moved(q[m - 1], run[m]) /\ r[m] = Moved(r[m - 1], run[m])
      BY <1>10, <2>0
    <3> QED BY <3>1, <3>2, <3>3
  <2>3. \A m \in 0 .. L : m \in A
    <3> HIDE DEF A
    <3> QED BY <1>5, <2>1, <2>2, UpTo
  <2>4. \A m \in 0 .. L : q[m] = r[m]
    BY <2>3
  <2>5. q = [m \in 0 .. L |-> q[m]] /\ r = [m \in 0 .. L |-> r[m]]
    BY <1>10, <2>0
  <2> QED BY <2>4, <2>5
<1>13. Rehashed(t, i) = r[L]
  <2>1. (CHOOSE q : Walks(q)) = r
    <3> HIDE DEF Walks
    <3> QED BY <1>11, <1>12, Zenon
  <2>2. Rehashed(t, i) = (CHOOSE q : Walks(q))[L]
    BY Zenon DEF Rehashed, run
  <2> QED BY <2>1, <2>2, Zenon
<1>14. \A m \in 0 .. L : Ok(r[m], m)
  <2> DEFINE A == {m \in 0 .. L : Ok(r[m], m)}
  <2>1. 0 \in A
    <3>1. 0 \in 0 .. L /\ r[0] = t
      BY <1>5, <1>10
    <3> QED BY <1>8, <3>1
  <2>2. ASSUME NEW m \in 1 .. L, m - 1 \in A PROVE m \in A
    <3>1. m - 1 \in 0 .. L /\ m \in 0 .. L /\ r[m - 1] \in T /\ Ok(r[m - 1], m - 1)
      BY <1>5, <1>10, <2>2
    <3>2. Ok(Moved(r[m - 1], run[m]), m)
      BY <1>9, <3>1
    <3> QED BY <1>10, <3>1, <3>2
  <2> HIDE DEF A
  <2>3. \A m \in 0 .. L : m \in A
    BY <1>5, <2>1, <2>2, UpTo
  <2> QED BY <2>3 DEF A
<1>15. r[L] \in T /\ Ok(r[L], L)
  BY <1>5, <1>10, <1>14
<1>16. AllReached(r[L])
  <2>1. Slots(r[L]) = N
    BY <1>15, SlotFacts
  <2>2. \A x \in N : Distance(size, f, x) <= d + L
    BY <1>5, <1>7
  <2> QED BY <1>15, <2>1, <2>2 DEF Ok, AllReached
<1> QED BY <1>13, <1>15, <1>16 DEF Ok

-----------------------------------------------------------------------------
(* The list.                                                               *)

Apart(list) == \A j, k \in DOMAIN list : list[j] = list[k] => j = k

LEMMA ListFacts ==
  ASSUME NEW list \in Seq(Connection), Apart(list)
  PROVE  /\ ToSet(list) \in SUBSET Connection /\ ToSet(list) = Firsts(list, Len(list))
         /\ IsFiniteSet(ToSet(list)) /\ Cardinality(ToSet(list)) = Len(list)
<1> DEFINE A == 1 .. Len(list)
           S == ToSet(list)
<1>1. DOMAIN list = A /\ Len(list) \in Nat
  OBVIOUS
<1>2. S \in SUBSET Connection /\ S = Firsts(list, Len(list))
  BY <1>1 DEF ToSet, Firsts
<1>3. IsFiniteSet(A) /\ Cardinality(A) = Len(list)
  BY <1>1, FirstsCount, Zenon
<1>4. list \in Surjection(A, S) /\ list \in Injection(A, S)
  <2>1. list \in [A -> S]
    BY <1>1 DEF ToSet
  <2>2. \A c \in S : \E j \in A : list[j] = c
    BY <1>1 DEF ToSet
  <2>3. \A j, k \in DOMAIN list : list[j] = list[k] => j = k
    BY DEF Apart
  <2> HIDE DEF A, S
  <2> QED BY ONLY <2>1, <2>2, <2>3 DEF Surjection, Injection, IsInjective
<1> HIDE DEF A, S
<1>5. IsFiniteSet(S) /\ Cardinality(S) = Len(list)
  BY <1>3, <1>4, FS_Surjection
<1> QED BY <1>2, <1>5 DEF S

LEMMA AppendFacts ==
  ASSUME NEW list \in Seq(Connection), Apart(list), NEW c \in Connection,
         c \notin ToSet(list)
  PROVE  /\ Append(list, c) \in Seq(Connection) /\ Apart(Append(list, c))
         /\ Len(Append(list, c)) = Len(list) + 1
         /\ ToSet(Append(list, c)) = ToSet(list) \cup {c}
<1> DEFINE new == Append(list, c)
<1>1. /\ new \in Seq(Connection) /\ Len(new) = Len(list) + 1 /\ Len(list) \in Nat
      /\ DOMAIN list = 1 .. Len(list) /\ DOMAIN new = 1 .. (Len(list) + 1)
      /\ new[Len(list) + 1] = c
      /\ \A j \in 1 .. Len(list) : new[j] = list[j]
  OBVIOUS
<1> HIDE DEF new
<1>2. \A j \in 1 .. Len(list) : list[j] # c
  BY <1>1 DEF ToSet
<1>3. \A j \in DOMAIN new : j \in 1 .. Len(list) \/ j = Len(list) + 1
  BY <1>1
<1>4. Apart(new)
  <2> SUFFICES ASSUME NEW j \in DOMAIN new, NEW k \in DOMAIN new, new[j] = new[k]
               PROVE  j = k
    BY DEF Apart
  <2>1. CASE j = Len(list) + 1
    BY <1>1, <1>2, <1>3, <2>1
  <2>2. CASE k = Len(list) + 1
    BY <1>1, <1>2, <1>3, <2>2
  <2>3. CASE j \in 1 .. Len(list) /\ k \in 1 .. Len(list)
    BY <1>1, <2>3 DEF Apart
  <2> QED BY <1>3, <2>1, <2>2, <2>3
<1>5. ToSet(new) = ToSet(list) \cup {c}
  <2>1. \A d \in ToSet(new) : d \in ToSet(list) \cup {c}
    BY <1>1, <1>3 DEF ToSet
  <2>2. \A d \in ToSet(list) : d \in ToSet(new)
    <3>1. \A j \in DOMAIN list : j \in DOMAIN new /\ new[j] = list[j]
      BY <1>1
    <3> QED BY <3>1 DEF ToSet
  <2>3. c \in ToSet(new)
    <3>1. Len(list) + 1 \in DOMAIN new
      BY <1>1
    <3> QED BY <1>1, <3>1 DEF ToSet
  <2> QED BY <2>1, <2>2, <2>3
<1> QED BY <1>1, <1>4, <1>5 DEF new

\* erase_fast takes out one connection and keeps the others, in another order.
LEMMA EraseFacts ==
  ASSUME NEW list \in Seq(Connection), Apart(list), NEW i \in DOMAIN list
  PROVE  /\ EraseFast(list, i) \in Seq(Connection) /\ Apart(EraseFast(list, i))
         /\ Len(EraseFast(list, i)) = Len(list) - 1
         /\ ToSet(EraseFast(list, i)) = ToSet(list) \ {list[i]}
<1> DEFINE new == EraseFast(list, i)
<1>0. PICK n \in Nat : n = Len(list)
  OBVIOUS
<1>1. n \in Nat /\ n > 0 /\ DOMAIN list = 1 .. n /\ i \in 1 .. n
  BY <1>0
<1>2. PICK m : m = [list EXCEPT ![i] = list[n]]
  OBVIOUS
<1>3. /\ m \in Seq(Connection) /\ Len(m) = n
      /\ \A j \in 1 .. n : m[j] = IF j = i THEN list[n] ELSE list[j]
  BY <1>0, <1>1, <1>2
<1>4. new = SubSeq(m, 1, n - 1)
  BY <1>2, <1>3 DEF EraseFast, Front, Last
<1>5. /\ new \in Seq(Connection) /\ Len(new) = n - 1 /\ DOMAIN new = 1 .. (n - 1)
      /\ \A j \in 1 .. (n - 1) : new[j] = m[j]
  BY <1>1, <1>3, <1>4
<1> HIDE DEF new
<1>6. \A j \in 1 .. (n - 1) :
        /\ j \in 1 .. n /\ j # n
        /\ new[j] = IF j = i THEN list[n] ELSE list[j]
  <2>1. \A j \in 1 .. (n - 1) : j \in 1 .. n /\ j # n
    BY <1>1
  <2> QED BY <1>3, <1>5, <2>1
<1>7. \A j, k \in 1 .. n : list[j] = list[k] => j = k
  BY <1>1 DEF Apart
<1>8. Apart(new)
  <2> SUFFICES ASSUME NEW j \in 1 .. (n - 1), NEW k \in 1 .. (n - 1), new[j] = new[k]
               PROVE  j = k
    BY <1>5 DEF Apart
  <2>1. n \in 1 .. n
    BY <1>1
  <2> QED BY <1>6, <1>7, <2>1
<1>9. ToSet(new) = ToSet(list) \ {list[i]}
  <2>1. ASSUME NEW j \in 1 .. (n - 1)
        PROVE  \E k \in 1 .. n : k # i /\ new[j] = list[k]
    <3>1. CASE j = i
      BY <1>1, <1>6, <3>1
    <3>2. CASE j # i
      BY <1>6, <3>2
    <3> QED BY <3>1, <3>2
  <2>2. ASSUME NEW k \in 1 .. n, k # i
        PROVE  \E j \in 1 .. (n - 1) : new[j] = list[k]
    <3>1. CASE k = n
      <4>1. i \in 1 .. (n - 1)
        BY <1>1, <2>2, <3>1
      <4> QED BY <1>6, <3>1, <4>1
    <3>2. CASE k # n
      <4>1. k \in 1 .. (n - 1)
        BY <1>1, <3>2
      <4> QED BY <1>6, <2>2, <4>1
    <3> QED BY <3>1, <3>2
  <2>3. ToSet(new) = {new[j] : j \in 1 .. (n - 1)}
    BY <1>5 DEF ToSet
  <2>4. ToSet(list) = {list[j] : j \in 1 .. n}
    BY <1>1 DEF ToSet
  <2>5. \A d \in ToSet(new) : d \in ToSet(list) /\ d # list[i]
    BY <1>1, <1>7, <2>1, <2>3, <2>4
  <2>6. \A d \in ToSet(list) \ {list[i]} : d \in ToSet(new)
    BY <2>2, <2>3, <2>4
  <2> QED BY <2>5, <2>6
<1> QED BY <1>0, <1>5, <1>8, <1>9 DEF new

-----------------------------------------------------------------------------
(* The specification.                                                      *)

\* What the invariant says of a list and a table of a size.
Agree(size, list, t) ==
    /\ size \in Nat \ {0} /\ t \in Tables(size)
    /\ list \in Seq(Connection) /\ Apart(list)
    /\ Holds(t, ToSet(list)) /\ AllReached(t)
    /\ Len(list) <= size \div 2

LEMMA InvAgrees ==
  ASSUME TableIInv
  PROVE  Agree(Cardinality(Slots(table)), connectionList, table)
BY DEF TableIInv, TableTypeOK, Agree, Tables, Apart

LEMMA AgreesInv ==
  ASSUME NEW size, NEW list, NEW t, Agree(size, list, t),
         connectionList' = list, table' = t
  PROVE  TableIInv'
<1>1. /\ size \in Nat \ {0} /\ t \in Tables(size)
      /\ list \in Seq(Connection) /\ Apart(list)
      /\ Holds(t, ToSet(list)) /\ AllReached(t)
      /\ Len(list) <= size \div 2
  BY DEF Agree
<1>2. Cardinality(DOMAIN t) = size
  BY <1>1, SlotFacts DEF Slots
<1>3. TableTypeOK'
  BY <1>1, <1>2 DEF TableTypeOK, Slots, Tables, Apart
<1>4. Holds(table, ToSet(connectionList))'
  BY <1>1 DEF Holds, Slots, ToSet
<1>5. AllReached(table)'
  BY <1>1 DEF AllReached, Reached, Slots, Home, Steps
<1>6. /\ Cardinality(Slots(table))' \in Nat \ {0}
      /\ (Len(connectionList) <= Cardinality(Slots(table)) \div 2)'
  BY <1>1, <1>2 DEF Slots
<1> QED BY <1>3, <1>4, <1>5, <1>6 DEF TableIInv

LEMMA Halves ==
  ASSUME NEW size \in Nat \ {0}
  PROVE  /\ size \div 2 \in Nat /\ 2 * (size \div 2) <= size
         /\ \A n \in Nat \ {0} : 4 * n - 1 \in Nat \ {0} /\ n <= (4 * n - 1) \div 2
OBVIOUS

LEMMA AddConnectionInv ==
  ASSUME TableIInv, NEW c \in Connection, AddConnection(c)
  PROVE  TableIInv'
<1>1. PICK size, list, t :
        /\ size = Cardinality(Slots(table)) /\ list = connectionList /\ t = table
  OBVIOUS
<1>2. /\ size \in Nat \ {0} /\ t \in Tables(size)
      /\ list \in Seq(Connection) /\ Apart(list)
      /\ Holds(t, ToSet(list)) /\ AllReached(t)
      /\ Len(list) <= size \div 2
  BY <1>1, InvAgrees DEF Agree
<1>3. PICK new : new = Append(list, c)
  OBVIOUS
<1>4. /\ c \notin ToSet(list) /\ connectionList' = new
      /\ table' = IF MustGrow(Len(new), t) THEN Filled(new, Len(new) * 4 - 1)
                  ELSE Insert(t, c)
  BY <1>1, <1>3 DEF AddConnection
<1>5. /\ new \in Seq(Connection) /\ Apart(new) /\ Len(new) = Len(list) + 1
      /\ ToSet(new) = ToSet(list) \cup {c} /\ Len(list) \in Nat
  BY <1>2, <1>3, <1>4, AppendFacts
<1>6. CASE MustGrow(Len(new), t)
  <2>1. PICK n \in Nat \ {0} : n = Len(new)
    BY <1>5
  <2>2. PICK big \in Nat \ {0} : big = n * 4 - 1 /\ n < big /\ n <= big \div 2
    <3>1. 4 * n - 1 \in Nat \ {0} /\ n <= (4 * n - 1) \div 2
      BY Halves
    <3>2. 4 * n - 1 = n * 4 - 1 /\ n < 4 * n - 1
      BY <2>1
    <3> QED BY <3>1, <3>2
  <2>3. PICK u : u = Filled(new, big)
    OBVIOUS
  <2>4. table' = u
    BY <1>4, <1>6, <2>1, <2>2, <2>3
  <2>5. u \in Tables(big) /\ AllReached(u) /\ Holds(u, Firsts(new, Len(new)))
    <3>1. \A j, k \in DOMAIN new : new[j] = new[k] => j = k
      BY <1>5 DEF Apart
    <3>2. Len(new) < big
      BY <2>1, <2>2
    <3> QED BY <1>5, <2>3, <3>1, <3>2, FilledInv
  <2>6. Firsts(new, Len(new)) = ToSet(new)
    BY <1>5, ListFacts
  <2>7. Agree(big, new, u)
    BY <1>5, <2>1, <2>2, <2>5, <2>6 DEF Agree
  <2> QED BY <1>4, <2>4, <2>7, AgreesInv
<1>7. CASE ~MustGrow(Len(new), t)
  <2>1. Len(new) <= size \div 2
    BY <1>1, <1>2, <1>5, <1>7, Halves DEF MustGrow
  <2>2. FreeSlots(t) # {}
    <3>1. /\ ToSet(list) \in SUBSET Connection /\ IsFiniteSet(ToSet(list))
          /\ Cardinality(ToSet(list)) = Len(list)
      BY <1>2, ListFacts
    <3>2. Len(list) < size
      BY <1>2, <1>5, <2>1, Halves
    <3> QED BY <1>2, <3>1, <3>2, CountFree
  <2>3. PICK u : u = Insert(t, c)
    OBVIOUS
  <2>4. u \in Tables(size) /\ Holds(u, ToSet(new)) /\ AllReached(u)
    <3>1. ToSet(list) \in SUBSET Connection
      BY <1>2, ListFacts
    <3>2. /\ Insert(t, c) \in Tables(size) /\ Holds(Insert(t, c), ToSet(list) \cup {c})
          /\ AllReached(Insert(t, c))
      BY <1>2, <1>4, <2>2, <3>1, InsertInv
    <3> QED BY <1>5, <2>3, <3>2
  <2>5. Agree(size, new, u)
    BY <1>2, <1>5, <2>1, <2>4 DEF Agree
  <2> QED BY <1>4, <1>7, <2>3, <2>5, AgreesInv
<1> QED BY <1>6, <1>7

LEMMA RemoveConnectionInv ==
  ASSUME TableIInv, NEW c \in Connection, RemoveConnection(c)
  PROVE  TableIInv'
<1>1. PICK size, list, old :
        /\ size = Cardinality(Slots(table)) /\ list = connectionList /\ old = table
  OBVIOUS
<1>2. /\ size \in Nat \ {0} /\ old \in Tables(size)
      /\ list \in Seq(Connection) /\ Apart(list)
      /\ Holds(old, ToSet(list)) /\ AllReached(old)
      /\ Len(list) <= size \div 2
  BY <1>1, InvAgrees DEF Agree
<1>3. PICK j \in DOMAIN list : list[j] = c /\ connectionList' = EraseFast(list, j)
  <2>1. c \in ToSet(list)
    BY <1>1 DEF RemoveConnection
  <2>2. \E j \in DOMAIN list : list[j] = c
    BY <2>1 DEF ToSet
  <2>3. connectionList' = EraseFast(list, CHOOSE j \in DOMAIN list : list[j] = c)
    BY <1>1 DEF RemoveConnection
  <2> QED BY <2>2, <2>3
<1>4. PICK new : new = EraseFast(list, j)
  OBVIOUS
<1>5. /\ new \in Seq(Connection) /\ Apart(new) /\ Len(new) = Len(list) - 1
      /\ ToSet(new) = ToSet(list) \ {c} /\ Len(list) \in Nat
  BY <1>2, <1>3, <1>4, EraseFacts
<1>6. PICK i \in 0 .. (size - 1) :
        /\ old[i] = c
        /\ table' = Rehashed([old EXCEPT ![i] = NoConnection], i)
  <2>1. Slots(old) = 0 .. (size - 1)
    BY <1>2, SlotFacts
  <2>2. PICK i \in Slots(old) :
          /\ old[i] = c
          /\ table' = Rehashed([old EXCEPT ![i] = NoConnection], i)
    BY <1>1 DEF RemoveConnection
  <2> QED BY <2>1, <2>2
<1>7. c # NoConnection
  BY TableAssumption
<1>8. /\ ToSet(list) \in SUBSET Connection /\ IsFiniteSet(ToSet(list))
      /\ Cardinality(ToSet(list)) = Len(list)
  BY <1>2, ListFacts
<1>9. PICK g \in 0 .. (size - 1) : old[g] = NoConnection
  <2>1. Len(list) < size
    BY <1>2, <1>5, Halves
  <2>2. FreeSlots(old) # {}
    BY <1>2, <1>8, <2>1, CountFree
  <2> QED BY <1>2, <2>2, SlotFacts DEF FreeSlots
<1>10. PICK t : t = [old EXCEPT ![i] = NoConnection]
  OBVIOUS
<1>11. PICK u : u = Rehashed(t, i)
  OBVIOUS
<1>12. u \in Tables(size) /\ AllReached(u) /\ Holds(u, ToSet(new))
  <2>1. old[i] # NoConnection
    BY <1>6, <1>7
  <2>2. /\ Rehashed(t, i) \in Tables(size) /\ AllReached(Rehashed(t, i))
        /\ Holds(Rehashed(t, i), ToSet(list) \ {old[i]})
    BY <1>2, <1>8, <1>9, <1>10, <2>1, RehashedInv
  <2> QED BY <1>5, <1>6, <1>11, <2>2
<1>13. Agree(size, new, u)
  <2>1. Len(new) <= size \div 2
    BY <1>2, <1>5, Halves
  <2> QED BY <1>2, <1>5, <1>12, <2>1 DEF Agree
<1>14. connectionList' = new /\ table' = u
  BY <1>3, <1>4, <1>6, <1>10, <1>11
<1> QED BY <1>13, <1>14, AgreesInv

LEMMA TableInitInv == Init => TableIInv
<1> SUFFICES ASSUME Init PROVE TableIInv
  OBVIOUS
<1> DEFINE size == InitialSize
           t == EmptyTable(size)
<1>1. size \in Nat \ {0} /\ connectionList = <<>> /\ table = t
  BY TableAssumption DEF Init
<1>2. t \in Tables(size) /\ Holds(t, {}) /\ AllReached(t) /\ Cardinality(Slots(t)) = size
  BY <1>1, EmptyTableFacts, SlotFacts
<1> HIDE DEF t, size
<1>3. /\ connectionList \in Seq(Connection) /\ Len(connectionList) = 0
      /\ DOMAIN connectionList = {} /\ ToSet(connectionList) = {}
  BY <1>1 DEF ToSet
<1>4. TableTypeOK
  BY <1>1, <1>2, <1>3 DEF TableTypeOK, Tables
<1>5. Len(connectionList) <= Cardinality(Slots(table)) \div 2
  BY <1>1, <1>2, <1>3, Halves
<1> QED BY <1>1, <1>2, <1>3, <1>4, <1>5 DEF TableIInv

\* The inductive invariant: list and table hold the same connections, each of them
\* reached from where its address starts to be searched, and half of the slots are free.
THEOREM TableInvariant == Spec => []TableIInv
<1>1. TableIInv /\ [Next]_vars => TableIInv'
  <2> SUFFICES ASSUME TableIInv, [Next]_vars PROVE TableIInv'
    OBVIOUS
  <2>1. ASSUME NEW c \in Connection, AddConnection(c) PROVE TableIInv'
    BY <2>1, AddConnectionInv
  <2>2. ASSUME NEW c \in Connection, RemoveConnection(c) PROVE TableIInv'
    BY <2>2, RemoveConnectionInv
  <2>3. CASE UNCHANGED vars
    <3>1. PICK size, list, t :
            /\ size = Cardinality(Slots(table)) /\ list = connectionList /\ t = table
      OBVIOUS
    <3>2. Agree(size, list, t) /\ connectionList' = list /\ table' = t
      BY <2>3, <3>1, InvAgrees DEF vars
    <3> QED BY <3>2, AgreesInv
  <2> QED BY <2>1, <2>2, <2>3 DEF Next
<1> QED BY <1>1, TableInitInv, PTL DEF Spec

LEMMA InvState == TableIInv => TableStateOK
<1> SUFFICES ASSUME TableIInv PROVE TableStateOK
  OBVIOUS
<1> DEFINE size == Cardinality(Slots(table))
           S == ToSet(connectionList)
<1>1. /\ size \in Nat \ {0} /\ table \in Tables(size)
      /\ connectionList \in Seq(Connection) /\ Apart(connectionList)
      /\ Holds(table, S) /\ AllReached(table)
      /\ Len(connectionList) <= size \div 2 /\ TableTypeOK
  BY InvAgrees DEF Agree, TableIInv
<1>2. /\ S \in SUBSET Connection /\ IsFiniteSet(S)
      /\ Cardinality(S) = Len(connectionList)
  BY <1>1, ListFacts
<1>3. TableHoldsList
  <2> SUFFICES ASSUME NEW c \in Connection
               PROVE  Cardinality({i \in Slots(table) : table[i] = c})
                        = IF c \in S THEN 1 ELSE 0
    BY DEF TableHoldsList
  <2>1. c # NoConnection
    BY TableAssumption
  <2>2. CASE c \in S
    <3>1. PICK i \in Slots(table) : table[i] = c
      BY <1>1, <2>2 DEF Holds
    <3>2. {k \in Slots(table) : table[k] = c} = {i}
      BY <1>1, <2>1, <3>1 DEF Holds
    <3> QED BY <2>2, <3>2, FS_Singleton
  <2>3. CASE c \notin S
    <3>1. {k \in Slots(table) : table[k] = c} = {}
      BY <1>1, <2>1, <2>3 DEF Holds
    <3> QED BY <2>3, <3>1, FS_EmptySet
  <2> QED BY <2>2, <2>3
<1>4. HalfFree
  <2> HIDE DEF size, S
  <2>1. Cardinality(FreeSlots(table)) = size - Cardinality(S) /\ Cardinality(S) \in Nat
    BY <1>1, <1>2, CountFree
  <2>2. 2 * (size - Cardinality(S)) >= size
    BY <1>1, <1>2, <2>1, Halves
  <2> QED BY <2>1, <2>2 DEF HalfFree, size
<1> QED BY <1>1, <1>3, <1>4 DEF TableStateOK

\* However often the table grows and is rehashed, it holds every connection of the
\* list exactly once and nothing else, and at least half of its slots are free, so that
\* every search of it ends.
THEOREM TableHolds == Spec => []TableStateOK
BY TableInvariant, InvState, PTL

LEMMA InvFound == TableIInv => FoundByAddress
<1> SUFFICES ASSUME TableIInv, NEW a \in DOMAIN HashOf
             PROVE  IF \E d \in ToSet(connectionList) : AddressOf[d] = a
                    THEN /\ FindConnection(table, a) \in ToSet(connectionList)
                         /\ AddressOf[FindConnection(table, a)] = a
                    ELSE FindConnection(table, a) = NoConnection
  BY DEF FoundByAddress
<1> DEFINE size == Cardinality(Slots(table))
           N == 0 .. (size - 1)
           S == ToSet(connectionList)
           h == HomeIn(size, a)
           C == FreeSlots(table) \cup SlotsOf(table, a)
           j == FirstFrom(table, h, C)
<1>1. /\ size \in Nat \ {0} /\ table \in Tables(size)
      /\ connectionList \in Seq(Connection) /\ Apart(connectionList)
      /\ Holds(table, S) /\ AllReached(table)
      /\ Len(connectionList) <= size \div 2
  BY InvAgrees DEF Agree
<1>2. /\ S \in SUBSET Connection /\ IsFiniteSet(S)
      /\ Cardinality(S) = Len(connectionList)
  BY <1>1, ListFacts
<1> HIDE DEF size, S
<1>3. Slots(table) = N /\ FreeSlots(table) = {i \in N : table[i] = NoConnection}
  BY <1>1, SlotFacts DEF FreeSlots
<1>4. FreeSlots(table) # {}
  <2>1. Cardinality(S) \in Nat /\ (Cardinality(S) < size => FreeSlots(table) # {})
    BY <1>1, <1>2, CountFree
  <2>2. Cardinality(S) < size
    BY <1>1, <1>2, <2>1, Halves
  <2> QED BY <2>1, <2>2
<1>5. Home(table, a) = h /\ h \in N
  <2>1. PICK c \in Connection : a = AddressOf[c]
    BY TableAssumption
  <2> QED BY <1>1, <2>1, SlotFacts
<1>6. SlotsOf(table, a) = {i \in N : table[i] # NoConnection /\ AddressOf[table[i]] = a}
  BY <1>3 DEF SlotsOf
<1>7. C \in SUBSET N /\ C # {}
  BY <1>3, <1>4, <1>6
<1>8. /\ j \in C /\ \A k \in C : Distance(size, h, j) <= Distance(size, h, k)
      /\ FindConnection(table, a) = table[j]
  <2>1. FindConnection(table, a) = table[j]
    BY <1>5 DEF FindConnection
  <2> HIDE DEF C, h
  <2>2. j \in C /\ \A k \in C : Distance(size, h, j) <= Distance(size, h, k)
    BY <1>1, <1>5, <1>7, FirstFromFacts
  <2> QED BY <2>1, <2>2
<1> HIDE DEF j
<1>9. CASE \E d \in S : AddressOf[d] = a
  <2>1. PICK i \in N : table[i] \in S /\ AddressOf[table[i]] = a
    BY <1>1, <1>3, <1>9 DEF Holds
  <2>2. table[i] # NoConnection
    BY <1>2, <2>1, TableAssumption
  <2>3. i \in C
    BY <1>6, <2>1, <2>2
  <2>4. Reached(table, i)
    BY <1>1, <1>3, <2>2 DEF AllReached
  <2>5. j \in N /\ Distance(size, h, j) <= Distance(size, h, i)
    BY <1>7, <1>8, <2>3
  <2>6. table[j] # NoConnection
    <3> SUFFICES ASSUME table[j] = NoConnection PROVE FALSE
      OBVIOUS
    <3>1. Distance(size, h, i) < Distance(size, h, j)
      BY <1>1, <2>1, <2>2, <2>4, <2>5, NotOverFree
    <3>2. Distance(size, h, i) \in Int /\ Distance(size, h, j) \in Int
      BY <1>1, <1>5, <2>1, <2>5 DEF Distance
    <3> HIDE DEF h
    <3> QED BY <2>5, <3>1, <3>2
  <2>7. AddressOf[table[j]] = a /\ table[j] \in S
    BY <1>1, <1>3, <1>6, <1>8, <2>5, <2>6 DEF Holds
  <2> QED BY <1>8, <1>9, <2>7 DEF S
<1>10. CASE ~\E d \in S : AddressOf[d] = a
  <2>1. SlotsOf(table, a) = {}
    BY <1>1, <1>3, <1>6, <1>10 DEF Holds
  <2>2. table[j] = NoConnection
    BY <1>3, <1>8, <2>1
  <2> QED BY <1>8, <1>10, <2>2 DEF S
<1> QED BY <1>9, <1>10

\* findConnection finds a connection of the address exactly if there is one: no
\* sequence of additions, growth and removals leaves one behind a free slot.
THEOREM ConnectionFound == Spec => []FoundByAddress
BY TableInvariant, InvFound, PTL
=============================================================================
