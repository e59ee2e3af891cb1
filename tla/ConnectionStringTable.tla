------------------------ MODULE ConnectionStringTable ------------------------
(***************************************************************************)
(* The string compression of a connection (tnl/connectionStringTable.cpp): *)
(* a string that the other side is known to have is sent as the index of   *)
(* its entry in a table of limited size, whose entries are reused in the   *)
(* order of their last use.  The strings of a packet travel over the       *)
(* packet service of NetConnection (NotifyService).                        *)
(***************************************************************************)
EXTENDS NotifyService, FiniteSets, SequencesExt

CONSTANTS
    EntryCount,     \* entries of the table, 1024
    String,         \* the strings that are sent
    NoString,       \* the empty string of an entry not used yet
    MaxPerPacket,   \* bound: strings written for one packet
    MaxSent,        \* bound: packets written
    MaxRewound      \* strings of a packet that may be of updates rewound

ASSUME StringAssumption ==
    /\ EntryCount \in Nat \ {0}
    /\ NoString \notin String
    /\ MaxPerPacket \in Nat /\ MaxSent \in Nat /\ MaxRewound \in Nat

Index == 0 .. (EntryCount - 1)

VARIABLES
    entryTable,         \* mEntryTable[i].string
    receiveConfirmed,   \* the indices with receiveConfirmed
    lru,                \* the list from mLRUHead to mLRUTail
    stringList,         \* notify->stringList of the packets not notified yet
    remoteStringTable,  \* mRemoteStringTable of the receiver
    wire                \* the strings in the packets not notified yet

tableVars == <<entryTable, receiveConfirmed, lru>>
stringVars == <<tableVars, stringList, remoteStringTable, wire>>
vars == <<serviceVars, stringVars>>

-----------------------------------------------------------------------------
PacketEntry(i, s) == [index |-> i, string |-> s]

\* The entry that is used for a string: its own, or the one not used longest.
EntryOf(table, s) ==
    IF \E i \in Index : table.entries[i] = s
    THEN CHOOSE i \in Index : table.entries[i] = s
    ELSE Head(table.lru)

ReusedStillConfirmedFault(table, i, s) == table.confirmed

\* The confirmed entries when entry i is about to be sent for string s.
StillConfirmed(table, i, s) ==
    IF table.entries[i] = s THEN table.confirmed ELSE table.confirmed \ {i}

\* pushBack: the entry is the one used last.
PushedBack(list, i) == Append(RemoveAt(list, CHOOSE p \in DOMAIN list : list[p] = i), i)

\* writeStringTableEntry.  The packet carries the index, and the string unless
\* it is confirmed; "meant" is the string itself, for the properties.
WriteString(table, s) ==
    LET i == EntryOf(table, s)
        confirmed == StillConfirmed(table, i, s)
    IN  [entries |-> [table.entries EXCEPT ![i] = s],
         confirmed |-> confirmed,
         lru |-> PushedBack(table.lru, i),
         list |-> IF i \in confirmed THEN table.list
                  ELSE table.list \cup {PacketEntry(i, s)},
         items |-> Append(table.items,
                          [index |-> i, meant |-> s,
                           string |-> IF i \in confirmed THEN NoString ELSE s])]

\* The table after the strings of a packet, which starts with an empty list.
AllWritten(strings) ==
    LET t[n \in 0 .. Len(strings)] ==
          IF n = 0 THEN [entries |-> entryTable, confirmed |-> receiveConfirmed,
                         lru |-> lru, list |-> {}, items |-> <<>>]
          ELSE WriteString(t[n - 1], strings[n])
    IN  t[Len(strings)]

\* readStringTableEntry: the receiver's table after one string of a packet.
ReadString(remote, item) ==
    IF item.string = NoString THEN remote
    ELSE [remote EXCEPT ![item.index] = item.string]

\* The receiver's table after the first j strings of a packet.
ReadUpTo(items, j) ==
    LET r[n \in 0 .. Len(items)] ==
          IF n = 0 THEN remoteStringTable ELSE ReadString(r[n - 1], items[n])
    IN  r[j]

ConfirmedAnyFault(list) == receiveConfirmed \cup {e.index : e \in list}

\* packetReceived: an entry reused for another string meanwhile stays as it is.
Confirmed(list) ==
    receiveConfirmed
      \cup {e.index : e \in {e \in list : entryTable[e.index] = e.string}}

\* What is left when the items of updates that did not fit have been rewound.
Kept(items, rewound) ==
    [j \in 1 .. (Len(items) - Cardinality(rewound)) |->
       items[CHOOSE n \in DOMAIN items \ rewound :
               Cardinality({m \in DOMAIN items \ rewound : m <= n}) = j]]

-----------------------------------------------------------------------------
StringInit ==
    /\ ServiceInit
    /\ entryTable = [i \in Index |-> NoString]
    /\ receiveConfirmed = {}
    /\ lru = [j \in 1 .. EntryCount |-> j - 1]
    /\ stringList = [k \in {} |-> {}]
    /\ remoteStringTable = [i \in Index |-> NoString]
    /\ wire = [k \in {} |-> <<>>]

Extended(f, k, value) ==
    [j \in DOMAIN f \cup {k} |-> IF j = k THEN value ELSE f[j]]

\* A packet with strings in its events and updates.  When an update does not fit
\* the stream is rewound, the table and the list of the packet are not.
WritePacket ==
    /\ sent < First + MaxSent
    /\ Write
    /\ \E strings \in SeqOf(String, MaxPerPacket) :
       \E rewound \in SUBSET (DOMAIN strings) :
         /\ Cardinality(rewound) <= MaxRewound
         /\ LET table == AllWritten(strings)
            IN  /\ entryTable' = table.entries
                /\ receiveConfirmed' = table.confirmed
                /\ lru' = table.lru
                /\ stringList' = Extended(stringList, sent + 1, table.list)
                /\ wire' = Extended(wire, sent + 1, Kept(table.items, rewound))
    /\ UNCHANGED remoteStringTable

ReadPacket(k) ==
    /\ Read(k)
    /\ remoteStringTable' = ReadUpTo(wire[k], Len(wire[k]))
    /\ UNCHANGED <<tableVars, stringList, wire>>

LosePacket(k) == Skip(k) /\ UNCHANGED stringVars

ForgottenNoneFault(f) == f

Forgotten(f) == [k \in DOMAIN f \ {notified + 1} |-> f[k]]

PacketReceived ==
    /\ Notify(notified + 1)
    /\ notified + 1 \in received'
    /\ receiveConfirmed' = Confirmed(stringList[notified + 1])
    /\ stringList' = Forgotten(stringList)
    /\ wire' = Forgotten(wire)
    /\ UNCHANGED <<entryTable, lru, remoteStringTable>>

\* packetDropped only frees the list: the string is sent in full again.
PacketDropped ==
    /\ Notify(notified + 1)
    /\ notified + 1 \in dropped'
    /\ stringList' = Forgotten(stringList)
    /\ wire' = Forgotten(wire)
    /\ UNCHANGED <<tableVars, remoteStringTable>>

StringNext ==
    \/ WritePacket
    \/ \E k \in (floor + 1) .. sent : ReadPacket(k) \/ LosePacket(k)
    \/ PacketReceived
    \/ PacketDropped

StringSpec == StringInit /\ [][StringNext]_vars

-----------------------------------------------------------------------------
StringTypeOK ==
    /\ entryTable \in [Index -> String \cup {NoString}]
    /\ receiveConfirmed \subseteq Index
    /\ ToSet(lru) = Index /\ Len(lru) = EntryCount
    /\ DOMAIN stringList = (notified + 1) .. sent
    /\ \A k \in DOMAIN stringList :
         stringList[k] \subseteq [index : Index, string : String]
    /\ DOMAIN wire = (notified + 1) .. sent
    /\ remoteStringTable \in [Index -> String \cup {NoString}]

\* "Does the other side now have this string?" (tnlConnectionStringTable.h): an
\* entry with receiveConfirmed names the string that the other side has there.
ConfirmedIsKnown ==
    \A i \in receiveConfirmed : remoteStringTable[i] = entryTable[i]

\* Every string is read as the one that was written, whichever of the packets
\* before it are lost and however entries are reused while they are under way.
ReadAsWritten ==
    \A k \in (floor + 1) .. sent : \A j \in DOMAIN wire[k] :
       ReadUpTo(wire[k], j)[wire[k][j].index] = wire[k][j].meant

-----------------------------------------------------------------------------
(* The inductive invariant, for packets from which nothing is rewound and  *)
(* which carry at most twice as many strings as there are entries.  Its    *)
(* parts speak of the strings under way, pending, each at a place: its     *)
(* packet and its position there.                                          *)

Item == [index : Index, meant : String, string : String \cup {NoString}]

Places(pending) ==
    {x \in (DOMAIN pending) \X (1 .. MaxPerPacket) : x[2] \in DOMAIN pending[x[1]]}

At(pending, x) == pending[x[1]][x[2]]

Earlier(x, y) == x[1] < y[1] \/ (x[1] = y[1] /\ x[2] < y[2])

Unread(x) == x[1] > floor

PendingItems(pending) ==
    /\ DOMAIN pending \subseteq Nat
    /\ \A k \in DOMAIN pending :
         pending[k] \in Seq(Item) /\ Len(pending[k]) <= MaxPerPacket
    /\ \A x \in Places(pending) :
         At(pending, x).string \in {NoString, At(pending, x).meant}

\* The list is a permutation of the entries.
LruComplete(list) ==
    /\ list \in Seq(Index) /\ Len(list) = EntryCount
    /\ \A i \in Index : \E p \in DOMAIN list : list[p] = i
    /\ \A p, q \in DOMAIN list : list[p] = list[q] => p = q

\* What is behind an entry in the LRU list was used since.
UsedSince(pending, list) ==
    \A x \in Places(pending) : \A p, q \in DOMAIN list :
       p < q /\ list[p] = At(pending, x).index =>
         \E y \in Places(pending) : Earlier(x, y) /\ At(pending, y).index = list[q]

SameEntry(pending, x, y) == At(pending, x).index = At(pending, y).index
SameString(pending, x, y) == At(pending, x).meant = At(pending, y).meant

\* An entry is given another string only when all others were used in between.
ChangesApart(pending) ==
    \A x, y \in Places(pending) :
       Earlier(x, y) /\ SameEntry(pending, x, y) /\ ~SameString(pending, x, y) =>
         \A i \in Index \ {At(pending, x).index} :
           \E z \in Places(pending) :
             Earlier(x, z) /\ Earlier(z, y) /\ At(pending, z).index = i

\* The last use of an entry was for the string that it has.
LastIsEntry(pending, entries) ==
    \A x \in Places(pending) :
       \E y \in Places(pending) :
         /\ y = x \/ Earlier(x, y)
         /\ SameEntry(pending, x, y)
         /\ At(pending, y).meant = entries[At(pending, y).index]

\* The receiver has the string of a confirmed entry, and nothing under way changes
\* that.
ConfirmedStays(pending, entries, confirmed) ==
    \A i \in confirmed :
       /\ remoteStringTable[i] = entries[i]
       /\ \A x \in Places(pending) :
            Unread(x) /\ At(pending, x).index = i =>
              At(pending, x).meant = entries[i]

\* So it is for an entry that was sent without its string.
OmittedKnown(pending) ==
    \A x \in Places(pending) :
       Unread(x) /\ At(pending, x).string = NoString =>
         /\ remoteStringTable[At(pending, x).index] = At(pending, x).meant
         /\ \A y \in Places(pending) :
              Unread(y) /\ Earlier(y, x) /\ SameEntry(pending, y, x) =>
                SameString(pending, y, x)

\* What was read is known, unless the entry was used for another string later.
ReadKnown(pending) ==
    \A x \in Places(pending) :
       x[1] \in read =>
         \/ remoteStringTable[At(pending, x).index] = At(pending, x).meant
         \/ \E y \in Places(pending) :
              /\ Earlier(x, y) /\ SameEntry(pending, x, y)
              /\ ~SameString(pending, x, y)

\* What a packet will confirm is in it.
ListedSent ==
    \A k \in DOMAIN stringList : \A e \in stringList[k] :
       \E x \in Places(wire) :
         x[1] = k /\ At(wire, x).index = e.index /\ At(wire, x).meant = e.string

StringIInv ==
    /\ ServiceInv /\ sent - notified <= Window
    /\ StringTypeOK
    /\ PendingItems(wire) /\ LruComplete(lru)
    /\ UsedSince(wire, lru) /\ ChangesApart(wire) /\ LastIsEntry(wire, entryTable)
    /\ ConfirmedStays(wire, entryTable, receiveConfirmed) /\ OmittedKnown(wire)
    /\ ReadKnown(wire) /\ ListedSent
=============================================================================
