# OpenTNL: specifications and proofs

A TLA+ development of the Torque Network Library in `src/tnl`, and of the programs in `src/master`
and `src/zap` that arrange connections with it: models of their protocols, the TLC runs that
check small instances of them, and TLAPS proofs that most of their safety properties hold for
every value of the constants.
A line number below is one of the file named, under `src/tnl` if no directory is given.

1. [The system](#1-the-system)
2. [The modules](#2-the-modules)
3. [The runs](#3-the-runs)
4. [Fairness](#4-fairness)
5. [What is proved](#5-what-is-proved)
6. [Where the code differs from what it says](#6-where-the-code-differs-from-what-it-says)
7. [What is not modelled](#7-what-is-not-modelled)
8. [Plan](#8-plan)

## 1. The system

TNL connects programs over UDP. One thread calls `NetInterface::checkIncomingPackets` and
`NetInterface::processConnections` in turn; nothing in the core runs in parallel. What makes it
hard is the network between the hosts, which loses, duplicates, delays and reorders packets, and
that all layers learn of the fate of a packet late, through two callbacks.

    application: scope, setMaskBits          postNetEvent, RPCs
          |                                       |
    GhostConnection  --- events about ghosts ---> EventConnection
          |            \                        /     |
          |             ConnectionStringTable --      |
          |  writePacket / readPacket / packetReceived / packetDropped
    NetConnection: sequence numbers, ack masks, windows, pings
          |
    NetInterface: handshake, punches, connection table, time-outs
          |
    Socket (UDP)

    master server: RPCs over a connection of its own to each client and game server

`GhostConnection` is a subclass of `EventConnection`, which is one of `NetConnection`. Each layer
adds its part to a packet in `writePacket`, hangs what it needs to remember on the packet's
`PacketNotify`, and is told of its fate by `packetReceived` or `packetDropped`. All of them rely
on one promise: every packet is notified once, in order, and truthfully.

### NetConnection, the packet notification protocol (`netConnection.cpp`)

- **State**: `mLastSendSeq`, `mHighestAckedSeq`, `mLastSeqRecvd`, `mLastRecvAckAck`, `mAckMask`
  (a 32-bit word), `mLastSeqRecvdAtSend` (indexed modulo the window), the notify queue,
  `mPingSendCount`; rates and congestion windows.
- **Operations**: `writePacketHeader`, `readPacketHeader`, `handleNotify`, `sendPingPacket`,
  `sendAckPacket`, `checkTimeout`, `clearAllPacketNotifies`, rate negotiation.
- **Hard**: partial sequence numbers (11 bits, and 10 of the ack), masks cut off at a byte, the
  slot of a packet overwritten by that of a later one, acks lost and late; pings and acks, which
  carry the number of the last data packet.
- **Correct if** a packet is read at most once and in order; a packet is notified exactly once,
  in order, as dropped only if it is never read and as received only if it was; the notify queue
  is never found empty; nobody waits for a notification for ever.

### EventConnection (`eventConnection.cpp`)

- **State**: the queues of ordered and unordered events to send, the list of ordered events that
  wait for the acks of those before them, `mNextSendEventSeq`, `mLastAckedEventSeq`; on the other
  side the events that wait for their turn and `mNextRecvEventSeq`.
- **Operations**: `postNetEvent`, the four callbacks of a packet, the destructor.
- **Hard**: events of three guarantees in a packet that is lost; dropped events return among
  later ones; seven bits of a sequence number, and a window of 126.
- **Correct if** ordered events are processed once and in order, guaranteed ones once, nothing is
  lost or in two places, `notifyDelivered` tells the truth, everything guaranteed arrives.

### ConnectionStringTable (`connectionStringTable.cpp`)

- **State**: a table of entries with an LRU list and `receiveConfirmed`; the list of the strings
  in each packet; the table of the reader.
- **Hard**: entries are reused while packets with their old string are under way.
- **Correct if** the reader reads the string that was written.

### GhostConnection and NetObject (`ghostConnection.cpp`, `netObject.cpp`)

- **State**: the scope object; `mGhostRefs` with masks and flags, `mGhostArray` in three segments (something to
  update, nothing, free), the chain of updates of each ghost in packets under way; dirty masks and
  the dirty list of objects; `mLocalGhosts` of the client.
- **Operations**: `setMaskBits`, `clearMaskBits`, `collapseDirtyList`, deletion of an object, `setScopeObject`,
  `performScopeQuery` and `objectInScope`, the four callbacks.
- **Hard**: creation, update and destruction in packets of which any may be lost; partial updates;
  ghost ids reused; objects deleted at any time, also the scope object, without which nothing is written of any ghost.
- **Correct if** both sides mean the same object by an id, no change is forgotten, the segments
  hold what they say, and the client is up to date in the end as long as there is a scope object.

### Ghosting sessions (`ghostConnection.cpp`, `netObject.cpp`)

- **State**: `mGhosting`, `mScoping`, `mGhostingSequence` on the server; the RPCs under way between
  the hosts.
- **Operations**: `activateGhosting`, `resetGhosting` with `clearGhostInfo`, `rpcStartGhosting`,
  `rpcReadyForNormalGhosts`, `rpcEndGhosting`; calls of a ghost to its parent.
- **Hard**: a session ends and the next begins while packets, RPCs, answers and calls of the first
  are under way; ghost ids mean other objects from then on.
- **Correct if** no update, answer or notification of a former session is taken for one of the
  current, calls reach the object their ghost stands for, and a session gets under way.

### NetInterface and ClientPuzzleManager (`netInterface.cpp`, `clientPuzzle.cpp`)

- **State**: pending connections with their state and nonces, established connections (a list and
  a hash table), two generations of server nonces with the client nonces seen for each.
- **Operations**: a handler for each packet of the handshake (challenge request and response,
  connect request, accept, reject, disconnect), `startConnection`, `disconnect`, retries and
  time-outs in `processConnections`, `tick` of the puzzle manager.
- **Hard**: any packet of an earlier attempt may arrive now; requests are sent again while they
  are answered; nonces are refreshed in between.
- **Correct if** a request makes one connection, the two ends of a connection mean the same
  attempt and know each other's first sequence number, an attempt is told once how it ended and
  does not stay pending.

### The connection table (`netInterface.cpp`)

- **State**: `mConnectionList` and `mConnectionHashTable`, open addressing with linear probing.
- **Operations**: `findConnection`, `addConnection` with growth, `removeConnection` with a rehash
  of what follows.
- **Hard**: collisions that wrap around the end, and removals in the middle of a run.
- **Correct if** list and table hold the same, and an address is found exactly if it is there.

### Arranged connections (`netInterface.cpp`, `master/main.cpp`, `zap/masterConnection.cpp`)

- **State**: at the master a list of requests for each connection (`mConnectList`) and a counter of
  query ids; at a client `mCurrentQueryId` and the connection to the server; at both ends pending
  connections with the addresses to punch, a nonce, and how often was sent.
- **Operations**: `c2mRequestArrangedConnection` and the RPCs that answer it, `joinGame`, `endGame`,
  `startArrangedConnection`, `handlePunch`, `handleArrangedConnectRequest`, then accept, reject,
  disconnect, retries and time-outs as above.
- **Hard**: three hosts; answers that come when the user has left or joined another game; either
  connection to the master lost; punches through translators that change the port.
- **Correct if** an answer reaches who asked, the lists agree, an introduction makes one connection
  whose ends mean each other, and no attempt stays pending.

### The rest

RPC marshalling, `BitStream`, the
journal, `ThreadQueue`, `StringTable`, reference counts, sockets, cryptography, and the programs
that use the library: see [section 7](#7-what-is-not-modelled).

## 2. The modules

| module | models | composes |
|---|---|---|
| `NotifyService` | what NetConnection promises of one direction (`tnlNetConnection.h`, `packetReceived`, `packetDropped`) | |
| `NotifyProtocol` | NetConnection, two hosts and the network | implements `NotifyService` twice, once for each direction |
| `NotifyProtocolProofs`, `NotifyServiceProofs` | theorems about these two; the second also has the lemmas on recursion that others cite | |
| `EventConnection` | events, sender and receiver | `NotifyService` |
| `EventConnectionProofs` | theorems about `EventConnection` | the lemmas of `NotifyServiceProofs` |
| `ConnectionStringTable` | string compression, writer and reader | `NotifyService` |
| `ConnectionStringTableProofs` | theorems about `ConnectionStringTable` | the lemmas of `NotifyServiceProofs` |
| `GhostConnection` | ghosts and dirty masks, server and client | `NotifyService` |
| `GhostSession` | ghosting sessions, their RPCs, and calls to parents | extends `GhostConnection` |
| `GhostProofs` | theorems about `GhostConnection` and `GhostSession` | the lemmas of `NotifyServiceProofs` |
| `NetInterface` | handshake and puzzle tables, hosts and network | |
| `NetInterfaceProofs` | theorems about `NetInterface` | |
| `ArrangedConnection` | master, clients, game servers, and the network between the latter | |
| `ArrangedConnectionProofs` | theorems about `ArrangedConnection` | |
| `ConnectionTable` | the hash table behind `findConnection` | |
| `ConnectionTableProofs` | theorems about `ConnectionTable` | |
| `MC...` | small instances of each | |

The upper layers extend `NotifyService` and conjoin its actions: `WritePacket` of a layer is
`Write` of the service and what the layer does in `writePacket`. This is the structure of the
code, and `Implementation` (section 5) is what justifies it. They use the service with
`Faithful = TRUE`; section 6 says when the network does not give that.

**NotifyProtocol.** A full sequence number is a natural number here and a U32 in the code; the
differences of two numbers agree, and the only comparison that does not, `readPacketHeader`'s of
the ack number with `mLastSendSeq`, is made on numbers modulo `Word`. `ackMask` is the set of the
positions of one bits. A header keeps the full numbers (`seq`, `ack`), because `setupCounter`
mixes them into the cipher; `FullSeq` and `FullAck` use nothing but their low bits. `SendData` is
`writeRawPacket`, `Receive` is `readRawPacket` with `readPacketHeader`, `handleNotify` and the ack
that answers, `SendPing` and `TimeOut` are the two outcomes of `checkTimeout`. What the network
may do is in `Send`, `Lose` and `Deliverable`: it never delivers a packet so late that the partial
numbers have come round (the code cannot tell such a packet from a new one and neither a test nor
a comment speaks of it). `Overtaking` says whether a ping or an ack may arrive before a data
packet that was sent before it.

**EventConnection.** An event is its guarantee and its number. How many events fit in a packet
is chosen freely, at least one. `ReadPacket` is `readPacket` with the processing of what became
due. `Reinserted` and `Awaited` put one number in its place in a sorted list, from a cursor on that the
events of a packet share (`insertList`, `waitInsert`); `AllReinserted`, `AllAwaited` and `AllRequeued` are the
loops over a packet, as recursive functions. `Ghosting` chooses between the two destructors: `~GhostConnection` notifies the packets
outstanding first, those of a plain EventConnection find no subclass any more.

**ConnectionStringTable.** `WriteString` is `writeStringTableEntry`; `AllWritten` applies it to
the strings of a packet, one after the other, and `ReadUpTo` does so with `readStringTableEntry`. `MaxRewound` says
how many of them belong to updates that did not fit and were taken back from the stream, though not from the table.

**GhostConnection.** A ghost is a record with the segment of `mGhostArray` it is in; the order
within a segment is the order of priorities, which is left open, as is how many updates fit.
`InScope` is set anew before it is read and is not kept. `scopeObject` is a `SafePtr`: it is null at first and again when
the object is deleted. Then `prepareWritePacket` asks nobody what is in scope (`Scoped`), and packets carry no update, not even the
destruction of a ghost (`WriteNoUpdates`), until `SetScopeObject`. With a scope object a packet may still carry none, if events have filled it. `Resent` is the walk along
`updateChain` in `packetDropped`. `PrepareWritePacket` is the call by `checkPacketSend` that ends
without a packet, and `WritePacket` begins with the same. `clearMaskBits` and `setMaskBits` act on
the dirty mask and on the ghosts as in the code.

**GhostSession.** Every action of `GhostConnection` becomes one of a session: `WriteGhosts` is its
`WritePacket` with the RPCs that travel in the same packet, `WriteWithoutGhosts` a packet of a
connection that does not ghost yet or has no scope object (`WritesGhosts`), and so on. The RPCs of the server are ordered events with numbers of
their own. The other direction of the connection is not modelled: the answers of the client (`ready`)
arrive in the order of their sequences, being ordered events as well, and a call (`calls`) when the
packets that its own packet acks have been notified. `ClearedNotes` is the emptying
of the notes of all packets in `clearGhostInfo`. A note is in the module what hangs on a packet; what the packet
itself carries is in `wire`, and `SessionStateOK` relates the two.

**ArrangedConnection.** The RPCs to and from the master are queues, one for each direction: they are
guaranteed ordered events. A host that loses the master stays without it. `number` and
`misdirected` follow a request around to its answer; no handler reads them. `SeenPort` stands for
the address translators: the port at which the others see a host, which may differ from what the
master sees. `mNonce` and `mServerNonce` are one number, as they are drawn, sent and compared
together. The user interface is modelled by whether the game is shown (`inGame`), since that
decides what the user can call.

**ConnectionTable.** A connection is an object with an address, and an address has a hash. The
searches are the first slot from the home slot on that is free or fits (`FirstFrom`); `Rehashed` moves
the slots of the run that follows the freed slot, one after the other. The code finds the end of the run as it
goes and the module beforehand; it is the same, as the slots still to come are not touched and the free one at
the end stays free (`MovedInv` in the proofs). `TableStateOK` and `FoundByAddress` justify the sets that
`NetInterface` and `ArrangedConnection` use instead.

**NetInterface.** Each handler is an action with the name of the handler, whose parameter is the
packet. Random numbers come from a counter, so they never repeat; the first sequence number of
a connection also stands for the connection object. `Lookups` makes `findConnection` return one
connection to an address, which is what the hash table gives. The two states of puzzle solution
are one action when the puzzle is solved at once and two when it is not (`solved`).
A time-out of an established connection is `Disconnect` with its packet lost.

The operators named `...Fault` in the modules are slips of the operator that follows each: what
it would be with a guard dropped, a bound off by one or a step forgotten. Every property of
every passing run is shown to fail under at least one of them.

## 3. The runs

| run | instance | checks |
|---|---|---|
| `notify_protocol` | both hosts send, 4 and 1 data packets, a ping; a network that duplicates and reorders but does not let acks overtake data | `TypeOK` `DroppedNeverProcessed` `ReceivedWasProcessed` `ProcessedOnceInOrder` `HeaderDecodedExactly` `AckMaskCoversNotifies` `ImplementsService` |
| `notify_liveness` | 1 and 2 packets, pings from both, time-outs, a cipher, 32-bit counters that wrap around | `NotifyQueueNotEmpty` `EventuallyNotified` |
| `events` | 4 ordered events through a window of 2, one guaranteed, 2 unguaranteed, shared packets, a loss, destruction | `EventStateOK` `OrderedInOrder` `UnguaranteedInOrder` `NumberedExactly` `ToldTruth` `EventConserved` `EventuallyProcessed` |
| `strings` | 4 strings for 2 entries, 5 packets | `StringTypeOK` `ConfirmedIsKnown` `ReadAsWritten` |
| `ghosts` | 2 objects, 2 ids, 2 mask bits, partial updates, changes, scope changes, deletion, a loss | `GhostStateOK` `GhostIdsAgree` `AvailableIsThere` `NothingForgotten` `EventuallyUpToDate` |
| `sessions` | 2 sessions, 2 objects for one id, a call, a loss, deletion | `SessionStateOK` `GhostIdsAgree` `CallsReachParent` `EventuallyGhosting` |
| `handshake` | a client makes two attempts, a retry for each request, the server refuses or accepts, one puzzle refresh | `InterfaceStateOK` `AtMostOnce` `ConnectionsAgree` `ToldOnce` `EventuallyDecided` |
| `arranged` | 2 clients, a server, 2 calls of `joinGame`, ends of games, losses of the master, bans, a translator that changes ports | `ArrangedStateOK` `ArrangedAgree` `NoGameLeft` `AcceptedOnce` `EventuallyDecided` |
| `connection_table` | 6 connections, 5 addresses, a table of 5 slots that grows to 11 | `TableStateOK` `FoundByAddress` |
| `notify_overtaken_ack`, `strings_rewound`, `arranged_query_ids` | section 6 | one property each, violated |

The `...StateOK` properties are the type invariant of their module together with what its data
structures have to keep up: sorted queues and windows in step (`EventStateOK`), the segments of the ghost array and
ids that are free only when nothing speaks of them (`GhostStateOK`), notes of former sessions (`SessionStateOK`),
one connection to an address (`InterfaceStateOK`), the two lists a request is in (`ArrangedStateOK`),
list against table and half of the slots free (`TableStateOK`).

**Bounds.** Only what a bound limits is left out of a run; they are chosen so that every boundary
of the protocol is crossed.

- `NotifyProtocol`: a window of 4 (32 in the code), partial numbers modulo 8 (2048 and 1024), 2 ack
  bits in a byte (8), so that a mask takes one or two bytes. The initial numbers 6 and 7 make
  the partial numbers of both sides wrap around. 4 packets exceed what may be outstanding (2), so
  slots of `mLastSeqRecvdAtSend` are overwritten. The
  theorems hold for any such numbers, the real ones included. In `notify_liveness` the counters themselves,
  of 4 bits (32), wrap around at both ends after one or two packets, while old acks of `b` are still under way: the test of
  netConnection.cpp:372 then refuses good acks and lets old ones pass, which the cipher refuses. It is the
  only run that gets there; in the others `Word` is out of reach.
- `EventConnection`: a window of 2 and numbers modulo 3, the smallest that 126 and 128 stand
  for (the code has one number to spare where the model has none). Four ordered events wrap around.
- `ConnectionStringTable`: 2 entries, 2 strings for a packet, 2 packets outstanding: 4 strings under
  way, twice the entries, so entries are reused twice within a window. This is as far as it goes:
  with a fifth string under way `ConfirmedIsKnown` fails in TLC, since an entry given to B and to A again
  is confirmed by the ack of the first A. In the code 1024 entries stand against 30 packets of
  at most 1500 bytes; a packet of more than 68 strings is needed to get there.
- `GhostConnection`: with two ids and two objects an object that returns finds no id while its
  old ghost is being killed. One loss, one update to a packet and one change (`MaxChanges`: a call of `setMaskBits` or
  `clearMaskBits`, a change of the scope or of a scope object that is there), besides the deletion of any objects at any time and one packet that carries no
  update though there are some (`MaxEmptyPackets`), already make creation, update, destruction and reuse overlap:
  a deleted object leaves the scope while its change is under way, and takes the scope object with it if it is that. Setting
  a scope object when there is none is not bounded. Only one object leaves bits for later packets. The theorems hold for any bounds.
- `GhostSession`: one ghost id for two objects, so that every session may give it to another object; two
  sessions, so that all that is under way of the first meets the second; the objects do not change
  within a session, which is what the run `ghosts` is about, but may be deleted, the scope object among them. `resetGhosting` may be
  called as often as `activateGhosting`, in a session or outside of one.
- `NetInterface`: one retry of each request instead of 4; two attempts, so that packets of the first
  meet the second; one refresh, so that both generations of the puzzle table are used; one retry
  after a wrong puzzle solution, as in the code. The network keeps every packet for ever, which is
  duplication, delay and reordering at once; losing one is never receiving it.
- `ArrangedConnection`: two requests, of one client or of two, so that answers cross; one retry of the punches
  and none of the request, 6 and 4 in the code; 3 addresses instead of 5, the two the master proposes
  and one that is learned. One client sits behind a translator that changes its port, so that its punches
  arrive and those to it do not until the server has learned its port. In `arranged` the counters of query ids
  start apart, so that no two requests share an id; `arranged_query_ids` starts them anywhere, with three requests.
- `ConnectionTable`: 5 slots instead of 129, and hashes that collide in tables of 5, 11 and 23 slots
  and run over their end. All sequences of additions and removals of six connections are covered, as nothing bounds their length.

All passing configurations but that of `connection_table` say `CHECK_DEADLOCK FALSE`: the bounds make the models stop, and
so may the systems, when everything is sent or the connection is closed.

## 4. Fairness

- `NotifyProtocol!FairSpec`: weak fairness of `SendPing` and `TimeOut`, since `processConnections`
  runs for ever and `checkTimeout` with it; strong fairness of the arrival of a ping for the
  last packet and of news: a network that delivers some of what is sent again and again. Nothing
  is assumed of data packets and of any single ack. With the pings used up, `TimeOut` decides.
- `EventConnection!FairEventSpec`, `GhostConnection!FairGhostSpec`: the application keeps sending
  (`WritePacket`, which `processConnections` calls), events do not fill every packet (`MaxEmptyPackets`), packets under way are read in the end, except for
  the `MaxLost` that are lost, and all are notified: what `EventuallyNotified` says of the layer
  below. Nothing is assumed of the application's own calls: `EventuallyUpToDate` speaks of a connection that has
  a scope object in the end and does not say that it will.
- `GhostSession!FairSessionSpec`: the same for the actions of a session, and weak fairness of the arrival of
  `rpcReadyForNormalGhosts`, a guaranteed event (`EventuallyProcessed`).
- `NetInterface!FairSpec`, `ArrangedConnection!FairSpec`: weak fairness of `Retry` only. Attempts end
  without any help of the network, the master or the user.

## 5. What is proved

Eight modules hold theorems. The last column of their tables is the property of a run that the
theorem states, where there is one: the run checks it on a small instance, the theorem for every
value of the constants that the `ASSUME`s of the module allow, the bounds included.

### The notification protocol

`NotifyProtocolProofs` proves of `NotifyProtocol`, for all hosts, windows, numbers of bits,
bounds and initial numbers that the assumptions of the module allow:

| theorem | says |
|---|---|
| `Invariant` | `IInv` always holds |
| `TypeCorrect` | every field stays in its range |
| `DroppedSound` | what is notified as dropped is never read |
| `ReceivedSound` | what is notified as received was read, unless acks overtake data |
| `NotifyQueueSound` | `handleNotify` never finds the notify queue empty: with a cipher also while the counters wrap around, without one until they do |
| `WindowsSound` | what has to be acked fits in the mask; the sending window holds |
| `NotifiedOnceSound` | every packet is notified exactly once, in order |
| `DecodingSound` | the partial numbers of accepted packets are decoded as they were meant |
| `ProcessedSound` | packets are read once, in order |
| `CoverSound` | no ack bit is read that the sender did not write |
| `Implementation` | each direction implements `NotifyService` |

Assumptions: `WrapHarmless`, that the connection has a cipher or the 32-bit counters do not reach 2^32 within the
bounds (with neither the statements are false, section 6); that the window is more than 2 and at most half of the
sequence numbers, and at most the ack numbers; and, in the model, that the network does not keep a
packet until the partial numbers come round. `ReceivedSound`, and the faithfulness of the service in
`Implementation`, need `~Overtaking`.

None of the properties is inductive. What a notification says depends on a mask, which was copied
from the state of the other host at some earlier time, and on a cut: a header carries only as many
bits as `mLastSeqRecvd - mLastRecvAckAck` needs. `IInv` therefore says, of every packet in the network,
what it still means now:

- `SendWindow`, `AckWindow`: the order
  `highestAckedSeq[h] <= lastSeqRecvd[Peer(h)] <= lastSendSeq[h]`, and that a host gives up acking
  only what its peer has been notified of.
- `Told`: what `mLastSeqRecvdAtSend` is for. When packet `s` is acked, the acks it carried have been read:
  the slot of `s` holds the number up to which they went.
- `AckMaskExact`, `PacketExact`: a bit of the mask, in a host or in a packet under way, is set for
  every packet processed in its range, and (unless acks overtake data) for no other; and what the cut
  removed has been notified already.
- `NotifiesExact`: the notifications made so far.

The proof has a lemma for each action (`SendDataIInv`, `SendPingIInv`, `TimeOutIInv`, `LoseIInv`, `ReceiveIInv`).
`ReceiveFacts` carries the weight: a packet that passes the tests of `readPacketHeader` is decoded as
meant, using `ReconstructExact` for new packets and `ReconstructStale` for the others, which the
tests refuse; near the wrap around of the counters the test of the ack number does not, and the cipher has to (`<1>8` of its proof). `AckAckFacts` shows that `mLastRecvAckAck` never passes what the peer was told,
also after the correction "the other side knows more about its window than we do". `Implementation`
maps `Receive` to `Read` or `Skip` of the one direction and to `Notify` of the other, `SendData` to
`Write`, `TimeOut` to `Close` and everything else to a stutter.

### The service

`ServiceCorrect`: under `NotifyService` packets are read in order, each is notified once in the order
of writing, as dropped only if it was not read, and as received if it was read and, when
`Faithful`, only then (`ServiceInv`). It is what the layers above rely on, and with `Implementation` it is what
`NotifyProtocol` gives them. The lemma of each action (`WriteInv`, `ReadInv`, `SkipInv`, `NotifyInv`) is cited by
the proofs about the layers.

### Events

Of `EventConnection`, for any numbers of events, windows, packets outstanding and losses, and both destructors:

| theorem | says | property |
|---|---|---|
| `EventInvariant` | `EventIInv` always holds | |
| `EventStateHolds` | the ordered queue stays sorted; what is acked has been processed, so the window never outruns the receiver | `EventStateOK` |
| `OrderedOnceInOrder` | ordered events are processed once, in order, with no gap | `OrderedInOrder` |
| `UnguaranteedKeepOrder` | unguaranteed events keep their order, no unordered event is processed twice | `UnguaranteedInOrder` |
| `NumbersExact` | the receiver awaits an event under the number its sender gave it | `NumberedExactly` |
| `ToldTruthfully` | while the connection is open, `notifyDelivered` tells the truth | `ToldTruth` |
| `NoEventLost` | while the connection is open, an event posted is in exactly one queue, packet or list, or it has been told | `EventConserved` |

Assumptions: `Faithful`, and of the constants that the window is smaller than the numbers on the wire
(`EventAssumption`; 126 and 128 in the code).

No property says where an event may be. `EventIInv` does: every ordered number above `lastAckedEventSeq` is
in the queue, with one packet and then within the window, or in `notifyList` (`OrderedPlaced`); the receiver
knows it, as processed or awaited, exactly if its packet was read or acked (`OrderedRead`); what is awaited is
sorted and lies beyond the next number (`WaitSorted`). From these follows `AckedBehind`: the sender's last acked
number is below `nextRecvEventSeq`. With the window this bounds how far ahead of the receiver a number
can be, so that seven bits decode it. `UnorderedPlaced` and `UnorderedRead` say the same of unordered
events, with the order of the unguaranteed ones across the packets under way and the queue (`Before`);
guaranteed events that return to the head of the queue do not disturb it. `OrderedTold` and `UnorderedTold` hold
only while the connection is open, as the destructor tells whatever it finds as delivered.

The loops over a packet need induction over its events. The theorems of the library that take a predicate
cannot be used (see below), those that take a relation or a set can: `LeastExists` gives the first index at which
a claim fails, `UpTo` induction over a set of indices, and `RecursionExists` the function that a recursion
defines. The lemmas about the loops then say what each returns: a sorted list with the numbers of both.

### Strings

Of `ConnectionStringTable`, for any numbers of entries, strings, packets outstanding and losses:

| theorem | says | property |
|---|---|---|
| `StringInvariant` | `StringIInv` always holds | |
| `StringTypes` | the LRU list stays a permutation of the entries; the lists are those of the packets outstanding | `StringTypeOK` |
| `ConfirmedKnownToReceiver` | a confirmed entry names the string that the other side has there | `ConfirmedIsKnown` |
| `StringsReadAsWritten` | a string is read as the one written | `ReadAsWritten` |

Assumptions, each a conjunct of the hypothesis of every theorem:

- `Faithful`;
- `MaxRewound = 0`, that no update is taken back from a packet after it wrote a string; without it `ConfirmedIsKnown` is
  false (section 6);
- `FewStrings`, that the packets outstanding carry at most `2 * EntryCount` strings. Nothing in the code enforces
  this. It is an assumption on the application: 30 packets of 68 strings, where a packet of 1500 bytes could
  carry more of them if most are sent as an index. Beyond it the statement is false as well (section 3).

What could go wrong is that the ack of the first use of an entry for A confirms a later use for A, while B was sent under the same
entry in between and may have overwritten A at the reader. The list in order of use forbids it: an entry gets another
string only when it is the one not used longest, so all others were used since its last use (`UsedSince`), and
a use for A and one for B of the same entry have all other entries in between (`ChangesApart`). A, then B, then A again is at least
`2 * EntryCount + 1` strings, which with `FewStrings` are never under way at once (`NoReturn`). So what is acked and still
in its entry was read and has not been overwritten (`ReadKnown`), what is confirmed stays known (`ConfirmedStays`), and for a
string that was left out the reader has the right one, and nothing unread before it changes that (`OmittedKnown`).

### Ghosting

Of `GhostConnection`, for any objects, ghost ids, mask bits, packets outstanding, changes and losses:

| theorem | says | property |
|---|---|---|
| `GhostInvariant` | `GhostIInv` always holds | |
| `GhostIdsHold` | in every packet that may still be read an id means the same to both hosts | `GhostIdsAgree` |
| `AvailableGhostsThere` | a ghost whose id `getGhostIndex` gives out is there on the client | `AvailableIsThere` |
| `NoChangeForgotten` | a bit that differs on the client is dirty, marked, under way or was cleared | `NothingForgotten` |
| `GhostArrayHolds` | the segments hold what they say; an id is free only when nothing under way speaks of it | `GhostStateOK` |

Assumptions: `Faithful` (the service notifies nothing as received that was not read; it is
`Implementation` with `~Overtaking`, and section 6 says what happens otherwise); `GhostArrayHolds` also `SafeClears`,
without which it is false (section 6).

The properties speak of one moment, and none of them says which packets there may be. `GhostIInv` says of
every ghost id at which stage of its life it is (`Unused`, `NotCreated`, `BeingCreated`, `Created`,
`BeingKilled`): the flags and the segment on the server, the packets under way that have an update of it, in which
order, and what the client has, depending on which of these were read. An action takes a ghost from
one stage to another or leaves it there; `ReceivedAccounted` and `DroppedAccounted` do so for the notification
of a packet, where `freeGhostInfo` needs that no other packet under way mentions the id. `BitAccounted` is the
same for a bit of a mask: it is marked, or the last packet under way that carries it has the
object's present value, or nothing carries it and the client has it. With "the last" in it, it is inductive: a dropped
packet marks exactly the bits that no later packet carries (`DroppedBit`), which is what `updateChain` is for.

### Ghosting sessions

Of `GhostSession`, in addition for any number of sessions, RPCs and calls, assuming `Faithful`:

| theorem | says | property |
|---|---|---|
| `SessionInvariant` | `SessionIInv` always holds | |
| `SessionIdsHold` | ids mean the same to both hosts across sessions | `GhostIdsAgree` |
| `SessionGhostsThere` | so do those that `getGhostIndex` gives out | |
| `SessionStateHolds` | notes of a former session say nothing about the ghosts of the present one | `SessionStateOK` |
| `CallsFindParent` | a call reaches the object of its ghost or none, unless its session has ended | `CallsReachParent` |

`SessionIInv` splits on `ghosting`. In a session (`InSession`) the client has processed all RPCs of the server and
every ghost is `GhostAccounted`, so that the lemmas about `GhostConnection` carry over. Between sessions
(`BetweenSessions`) nothing was written of any ghost of the server (`Waiting`) and the client either has no
ghosts and will read none (`ClientCleared`) or is yet to process an `rpcEndGhosting` that comes after every
update that it may still read (`EndAwaited`): this is why an answer that is
not `IsCurrent` must not start the updates, and why an RPC that is sent again after a loss still comes in time. That the client's
updates make sense to it (`ClientAgrees`) is kept through the end of a session although the server
has forgotten the ghosts by then. For a call under way, `StillThere` says that what the server has done to the ghost since
could not have been known to the client when it called.

### The handshake

Of `NetInterface`, for any hosts, attempts, retries and refreshes of the puzzle:

| theorem | says | property |
|---|---|---|
| `HandshakeInvariant`, `HandshakeTypes` | `IInv`, and the types, always hold | |
| `AcceptedAtMostOnce` | a request makes at most one connection | `AtMostOnce` |
| `BothSidesAgree` | the ends of a connection mean the same attempt and know each other's first sequence number | `ConnectionsAgree` |
| `EndIsToldOnce` | an attempt is told once how it ended | `ToldOnce` |
| `OneConnectionPerAddress` | one connection to an address, if no two hosts start connections to each other (`OneSided`) | `InterfaceStateOK` |

`OneSided` is how the programs use the library: a client connects to a server and both connect to the master, so a game server accepts
connections (zap/game.cpp:191) and starts one (zap/game.cpp:108), but never with the same host. That requests go only to
hosts that do not connect back is carried by `AttemptsToTargets` and `RequestsToTargets`; section 6 says what two initiators come to. As the network keeps every
packet, `IInv` ties each packet to what it is about: a connect request to the one attempt that may
send it (`OneRequestPerNonce`, `RequestsOfAttempts`), an accept to a connection that was accepted
(`AcceptsAccepted`), and an accepted request to the table of its puzzle for as long as the puzzle is in force
(`AcceptedRequested`). The last is what makes `AtMostOnce` inductive: a repetition finds its nonce in the table, or
a puzzle that is refused.

### Arranged connections

Of `ArrangedConnection`, for any clients, game servers, address translators, games, bans and losses of the master:

| theorem | says | property |
|---|---|---|
| `ArrangedInvariant` | `ArrangedInv` always holds | |
| `ArrangedListsHold` | a request is in the list of its server exactly if it is in that of its client | `ArrangedStateOK` |
| `ArrangedSidesAgree` | the ends of an arranged connection are the client and the server of one request and know each other's first sequence number | `ArrangedAgree` |
| `NoGameIsLeft` | a client that takes an acceptance has no connection left, unless it ended an attempt that was punching | `NoGameLeft` |
| `AcceptedOnlyOnce` | a nonce makes one connection of a server, ever (an action property) | `AcceptedOnce` |

`MaxAddresses >= 2` is the one assumption that the code does not state; the master always proposes two addresses and a host learns more.
`ArrangedInv` is in three parts, each with its lemma for every action. `MasterInv`: a query is in one place on
its way round, asked, then kept in the two lists, then answered. `PeersInv`: a nonce is as well, offered by a server, then granted to
one client, then used for one attempt; what was accepted was requested, and an accept is of what was accepted.
`GamesInv` relates both to the user interface: a client that is not in `ignored` has at most one attempt, for the
game it shows, and none while its present query is on its way.

### Connection table

Of `ConnectionTable`, for any connections, addresses, hashes and initial size of at least two; nothing else is assumed:

| theorem | says | property |
|---|---|---|
| `TableInvariant` | `TableIInv` always holds | |
| `TableHolds` | the table holds the connections of the list, each once, and nothing else; half of its slots are free | `TableStateOK` |
| `ConnectionFound` | `findConnection` finds a connection of the address exactly if there is one | `FoundByAddress` |

`AllReached` is the strengthening: no slot is free between the slot where the address of a connection starts to be searched and its own. It
does not hold in the middle of a removal. The slot `f` where the run ends stays free all the while and cuts the circle
of slots open: with the slots ordered by their distance from `f` no connection has its home behind it (`CutOrder`,
`NotOverFree`), and the invariant of the loop is that everything up to the
slot moved last is reached, and everything after it is as it was (`MovedInv`, `RehashedInv`). Growth is induction over the list (`FilledInv`), and the free slots are counted by the injection of the connections into the slots (`CountFree`).

### Only model-checked

- Liveness (`EventuallyNotified`, `EventuallyProcessed`, `EventuallyUpToDate`, `EventuallyGhosting`,
  `EventuallyDecided`): beyond the prover, as is everything with `ENABLED`.

Every invariant and every action property of the passing runs is stated by a theorem. Some have a hypothesis that the
code does not establish (`WrapHarmless`, `~Overtaking` or `Faithful`, `SafeClears`, `FewStrings` with `MaxRewound = 0`, and `OneSided`); the sections
above and section 6 say what happens without.

## 6. Where the code differs from what it says

- **An ack or a ping that overtakes a data packet** (`notify_overtaken_ack`,
  `ReceivedWasProcessed`). Acks and pings carry the number of the last data packet. If one arrives
  first, `mLastSeqRecvd` reaches that number; the data packet then is taken for a repetition, is
  not given to `readPacket`, and its bit in the ack mask is set all the same (netConnection.cpp:419 to 491).
  Its sender is told that it was received, and its events are lost though guaranteed.
- **Strings of updates taken back** (`strings_rewound`, `ConfirmedIsKnown`). An update that does not
  fit is rewound in the stream; the strings it wrote stay in the list of the packet and are
  confirmed with it though never sent.
- **Ids of arranged connection requests** (`arranged_query_ids`, `AnswersReachRequester`). The id by which a
  game server names a request comes from a counter of the client's connection (master/main.cpp:386),
  which the constructor leaves uninitialised. Requests of two clients to one server may have the same id;
  `findAndRemoveRequest` then takes the first in a list whose order `erase_fast` changes, and the
  acceptance of one, with its nonces, is sent to the client of the other.

Met while modelling and not kept as runs. The property named fails in TLC when the restriction that is
mentioned is lifted; the request for an unknown host is an action of the model:

- **Wrap-around of the send sequence** (`NotifyQueueNotEmpty`). The test "if the
  ack number is greater than the last sequence number sent" (netConnection.cpp:372) compares U32s. Shortly before they
  wrap around, the number made of an old ack is past 2^32, small again, and passes. A cipher that is set up with other numbers than the
  sender's does not verify, and the packet is discarded after all: that is what `notify_liveness` checks and
  `NotifyQueueSound` proves. Without one, `handleNotify` is called more often than packets are outstanding and runs
  into its assertion: with `Encrypted = FALSE` in `NotifyLiveness.cfg` TLC shows it in seven states. The
  counters start at a random number, so this is a matter of chance and not of 2^32 packets.
- **clearMaskBits with further bits** (`SegmentsHold`). A ghost whose mask becomes empty without
  being equal to the argument stays in the segment of those to be updated (netObject.cpp:103).
  `SafeClears = FALSE` shows it; no program of the repository calls `clearMaskBits`.
- **All bits cleared before the creation** (`EventuallyUpToDate`, which excepts it). `clearMaskBits` of all bits of a ghost that is not
  on the client yet moves it to the ghosts without updates, and it is not created until it changes.
- **No scope object** (`EventuallyUpToDate`, which is stated of connections with one). When the scope object is deleted, objects that
  are deleted from then on stay on the client until another is set (ghostConnection.cpp:251).
- **Calls of a former session** (`CallsReachParent`, which speaks of the current session only). `resolveGhostParent`
  returns whatever object has the ghost id now (ghostConnection.cpp:811); a call of a ghost that is under
  way during `resetGhosting` and `activateGhosting` reaches another object. Neither the id nor the call carries
  the ghosting sequence.
- **A game left while punching** (`NoGameLeft`, which excepts the clients in `ignored`). `disconnect` does nothing to a
  connection that sends punch packets (netInterface.cpp:1260), though tnlNetInterface.h:319 says it disconnects
  and removes the connection. When the user ends the game then and joins another, the first attempt still is there
  and zap/game.cpp:400 asserts "Error, a connection already exists here."
- **A request for an unknown host** (master/main.cpp:377, 565). The master answers with
  `c2mRejectArrangedConnection`, an RPC that only clients may send, instead of `m2cArrangedConnectionRejected`. The
  client takes it for an invalid packet and drops its connection to the master (`ClientInvalidPacket`).
- **Two initiators** (`OnePerAddress`, which holds if one side initiates). Two hosts that connect to each other at the
  same time, against `OneSided`, end up with two connections for an address (netInterface.cpp:859).

Read in the code, not shown by a model: `~EventConnection` tells undelivered
events as delivered (eventConnection.cpp:64, `ToldTruth` is stated of an open connection for that reason); a
pending connection that is replaced is not told (netInterface.cpp:148); the
journal reads an entry index in another range than it was written in (journal.cpp:305);
`mTypeFlags` keeps `ConnectionRemoteAdaptive` once the remote host was adaptive (`readPacketRateInfo` never clears it).

## 7. What is not modelled

- Rate negotiation and adaptive windows: the congestion window is floating point; which rates are agreed on
  does not affect what is modelled, as `NotifyService` leaves open when a packet is sent.
- Errors in packets, and the size of things in bits.
- Key exchange and certificates, the simulated delay of packets, info packets.
  Encryption is modelled in `NotifyProtocol` only by what it adds to the protocol: a packet whose
  numbers are decoded wrongly does not verify. Only `notify_liveness` has it, for the wrap around; elsewhere its
  absence is the harder case. The theorems cover both.
- `ScopeLocalAlways`; the destructor of GhostConnection beyond what `EventConnection` needs of it.
- Of the master server everything but arranged connections: queries for servers and game types, status, strikes
  for too many requests (a client that is thrown out is one that loses the master), and `checkConnectTimeouts`,
  which nothing calls.
- `StringTable`, the journal and `ThreadQueue`: planned.
- RPC marshalling, `BitStream`, Huffman coding, containers, sockets, cryptography: data, I/O or
  vendored code, without protocol state.
- The programs in the repository but for arranged connections: users of the library.

## 8. Plan

Built so far, in this order: `NotifyProtocol` with its abstract service and proofs, the three users of
the service, the handshake; then ghosting sessions, the connection table and arranged connections; then the proofs about
the service, events, the handshake, ghosting, sessions, arranged connections, strings and the connection table. Next:

1. The data packets of an earlier connection that meet a later one (`NetInterface` with `NotifyProtocol`); a
   disconnect in the middle of a packet; each host's `told` against the comment at tnlNetConnection.h:232.
2. Rate negotiation over `NotifyService`: both ends agree on the rates in the end.
3. `StringTable`, `ThreadQueue` and `Journal`.
