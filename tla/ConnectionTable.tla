--------------------------- MODULE ConnectionTable ---------------------------
(***************************************************************************)
(* The connections of a NetInterface by address (tnl/netInterface.cpp):    *)
(* mConnectionList, and mConnectionHashTable with open addressing that     *)
(* findConnection looks up.  A removal rehashes what follows it.           *)
(***************************************************************************)
EXTENDS Integers, Sequences, FiniteSets, FiniteSetsExt, SequencesExt

CONSTANTS
    Connection,     \* the connection objects
    NoConnection,   \* NULL
    AddressOf,      \* getNetAddress; two connections may have the same address
    HashOf,         \* Address::hash
    InitialSize     \* 129

ASSUME TableAssumption ==
    /\ NoConnection \notin Connection
    /\ HashOf \in [{AddressOf[c] : c \in Connection} -> Nat]
    /\ InitialSize \in Nat \ {0, 1}

VARIABLES
    connectionList,     \* mConnectionList
    table               \* mConnectionHashTable

vars == <<connectionList, table>>

-----------------------------------------------------------------------------
Slots(t) == DOMAIN t

EmptyTable(size) == [i \in 0 .. (size - 1) |-> NoConnection]

FreeSlots(t) == {i \in Slots(t) : t[i] = NoConnection}

SlotsOf(t, a) == {i \in Slots(t) \ FreeSlots(t) : AddressOf[t[i]] = a}

\* Where an address starts to be searched.
Home(t, a) == HashOf[a] % Cardinality(Slots(t))

\* How many slots after slot i, wrapping around, slot j is.
Steps(t, i, j) == (j - i) % Cardinality(Slots(t))

\* The first of the slots S at or after slot i.
FirstFrom(t, i, S) == CHOOSE j \in S : \A k \in S : Steps(t, i, j) <= Steps(t, i, k)

\* findConnection.
FindConnection(t, a) == t[FirstFrom(t, Home(t, a), FreeSlots(t) \cup SlotsOf(t, a))]

Insert(t, c) ==
    [t EXCEPT ![FirstFrom(t, Home(t, AddressOf[c]), FreeSlots(t))] = c]

\* The slots after slot i up to a free one.
Run(t, i) ==
    LET size == Cardinality(Slots(t))
        length == Steps(t, i + 1, FirstFrom(t, (i + 1) % size, FreeSlots(t)))
    IN  [n \in 1 .. length |-> (i + n) % size]

RehashedNothingFault(t, i) == t

MovedTwiceFault(t, n) == Insert(t, t[n])

\* The connection in slot n is taken out and inserted again.
Moved(t, n) == Insert([t EXCEPT ![n] = NoConnection], t[n])

\* What follows the freed slot i is moved, one by one.
Rehashed(t, i) ==
    LET run == Run(t, i)
        u[n \in 0 .. Len(run)] == IF n = 0 THEN t ELSE Moved(u[n - 1], run[n])
    IN  u[Len(run)]

\* A new table of a size, with every connection of a list.
Filled(list, size) ==
    LET t[n \in 0 .. Len(list)] ==
          IF n = 0 THEN EmptyTable(size) ELSE Insert(t[n - 1], list[n])
    IN  t[Len(list)]

\* The table would be more than half full.
MustGrow(n, t) == n > Cardinality(Slots(t)) \div 2

\* erase_fast: the last element fills the hole.
EraseFast(list, j) == Front([list EXCEPT ![j] = Last(list)])

-----------------------------------------------------------------------------
Init ==
    /\ connectionList = <<>>
    /\ table = EmptyTable(InitialSize)

\* addConnection: the table grows, or not, and is never more than half full.
AddConnection(c) ==
    /\ c \notin ToSet(connectionList)
    /\ connectionList' = Append(connectionList, c)
    /\ LET n == Len(connectionList')
       IN  table' = IF MustGrow(n, table)
                    THEN Filled(connectionList', n * 4 - 1)
                    ELSE Insert(table, c)

\* removeConnection.
RemoveConnection(c) ==
    /\ c \in ToSet(connectionList)
    /\ connectionList' =
         EraseFast(connectionList, CHOOSE j \in DOMAIN connectionList : connectionList[j] = c)
    /\ \E i \in Slots(table) :
         /\ table[i] = c
         /\ table' = Rehashed([table EXCEPT ![i] = NoConnection], i)

Next == \E c \in Connection : AddConnection(c) \/ RemoveConnection(c)

Spec == Init /\ [][Next]_vars

-----------------------------------------------------------------------------
TableTypeOK ==
    /\ connectionList \in Seq(Connection)
    /\ \A j, k \in DOMAIN connectionList : connectionList[j] = connectionList[k] => j = k
    /\ table \in [0 .. (Cardinality(Slots(table)) - 1) -> Connection \cup {NoConnection}]

\* The table holds every connection of the list, once, and nothing else: growing
\* from the list loses none, and removeConnection finds its own.
TableHoldsList ==
    \A c \in Connection :
       Cardinality({i \in Slots(table) : table[i] = c})
     = IF c \in ToSet(connectionList) THEN 1 ELSE 0

\* findConnection finds a connection of the address exactly if there is one: after
\* any sequence of additions, growth and removals no connection is behind a free
\* slot.
FoundByAddress ==
    \A a \in DOMAIN HashOf :
       LET c == FindConnection(table, a)
       IN  IF \E d \in ToSet(connectionList) : AddressOf[d] = a
           THEN c \in ToSet(connectionList) /\ AddressOf[c] = a
           ELSE c = NoConnection

\* Half of the slots are free: the searches of findConnection, addConnection and the
\* rehash, which go on to a free slot, end.
HalfFree == 2 * Cardinality(FreeSlots(table)) >= Cardinality(Slots(table))

\* The list and the table are well formed and hold the same connections.
TableStateOK == TableTypeOK /\ TableHoldsList /\ HalfFree

-----------------------------------------------------------------------------
\* Between the slot where its address starts to be searched and the slot of a
\* connection there is no free one.
Reached(t, i) ==
    LET home == Home(t, AddressOf[t[i]])
    IN  \A k \in Slots(t) : Steps(t, home, k) < Steps(t, home, i) => t[k] # NoConnection

AllReached(t) == \A i \in Slots(t) : t[i] # NoConnection => Reached(t, i)

\* The table holds the connections of a set, each once.
Holds(t, conns) ==
    /\ \A i, j \in Slots(t) : t[i] # NoConnection /\ t[i] = t[j] => i = j
    /\ \A i \in Slots(t) : t[i] # NoConnection => t[i] \in conns
    /\ \A c \in conns : \E i \in Slots(t) : t[i] = c

\* The inductive invariant.
TableIInv ==
    /\ TableTypeOK /\ Cardinality(Slots(table)) \in Nat \ {0}
    /\ Holds(table, ToSet(connectionList)) /\ AllReached(table)
    /\ Len(connectionList) <= Cardinality(Slots(table)) \div 2
=============================================================================
