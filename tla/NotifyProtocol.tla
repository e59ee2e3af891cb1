--------------------------- MODULE NotifyProtocol ---------------------------
(***************************************************************************)
(* The packet notification protocol of NetConnection                       *)
(* (tnl/netConnection.cpp, tnl/tnlNetConnection.h): two connected hosts    *)
(* over a network that loses, duplicates, delays and reorders datagrams.   *)
(* Every data packet gets the next sequence number; every packet, data,    *)
(* ping or ack, carries the number of the last packet received and a mask  *)
(* of acks; every data packet sent is notified, in order, as received or   *)
(* dropped.                                                                *)
(*                                                                         *)
(* A full sequence number is a natural number here and a U32 in the code.  *)
(* Differences of two numbers agree; the one comparison that does not is   *)
(* made on the truncated values (U32 below).                               *)
(***************************************************************************)
EXTENDS Integers, FiniteSets

CONSTANTS
    Host,                       \* the two ends of the connection
    MaxPacketWindowSize,        \* packets in the window, bits in the ack mask
    SequenceNumberWindowSize,   \* 2^SequenceNumberBitSize
    AckSequenceNumberWindowSize,\* 2^AckSequenceNumberBitSize
    AckBits,                    \* ack mask bits in a byte of the header
    Word,                       \* 2^32: where a U32 wraps around
    InitialSendSeq,             \* mInitialSendSeq of each host
    MaxSend,                    \* bound: data packets each host sends
    PingRetryCount,             \* mPingRetryCount of each host
    InFlight,                   \* bound: packets of a host the network holds
    Encrypted,                  \* the connection has a symmetric cipher
    Overtaking,                 \* a ping or an ack may overtake a data packet
    Duplicating                 \* the network may deliver a packet repeatedly

ASSUME HostAssumption ==
    /\ Host # {}
    /\ \A h \in Host : \E g \in Host : g # h /\ Host = {g, h}

ASSUME WindowAssumption ==
    /\ MaxPacketWindowSize \in Nat /\ MaxPacketWindowSize > 2
    /\ AckBits \in Nat /\ AckBits > 0
    /\ SequenceNumberWindowSize \in Nat
    /\ SequenceNumberWindowSize >= 2 * MaxPacketWindowSize
    /\ AckSequenceNumberWindowSize \in Nat
    /\ AckSequenceNumberWindowSize >= MaxPacketWindowSize
    /\ Word \in Nat /\ Word > 0

ASSUME BoundAssumption ==
    /\ InitialSendSeq \in [Host -> Nat]
    /\ MaxSend \in [Host -> Nat]
    /\ PingRetryCount \in [Host -> Nat]
    /\ InFlight \in [Host -> Nat \ {0}]
    /\ {Encrypted, Overtaking, Duplicating} \subseteq BOOLEAN

VARIABLES
    state,              \* is the connection object open
    lastSendSeq,        \* mLastSendSeq
    highestAckedSeq,    \* mHighestAckedSeq; the notify queue holds the
                        \* notes of highestAckedSeq + 1 .. lastSendSeq
    lastSeqRecvd,       \* mLastSeqRecvd
    lastRecvAckAck,     \* mLastRecvAckAck
    ackMask,            \* mAckMask, the set of the positions of its one bits
    lastSeqRecvdAtSend, \* mLastSeqRecvdAtSend
    pingSendCount,      \* mPingSendCount
    net,                \* the packets the network holds
    processed,          \* history: packets of the peer given to readPacket
    acked,              \* history: own packets notified as received
    nacked,             \* history: own packets notified as dropped
    abandoned           \* history: own packets notified as dropped by the
                        \* destructor (clearAllPacketNotifies)

protocolVars == <<lastSendSeq, highestAckedSeq, lastSeqRecvd, lastRecvAckAck,
                  ackMask, lastSeqRecvdAtSend, pingSendCount>>
historyVars == <<processed, acked, nacked, abandoned>>
vars == <<state, protocolVars, net, historyVars>>

-----------------------------------------------------------------------------
Peer(h) == CHOOSE g \in Host : g # h

U32(n) == n % Word

\* The notes of handleNotify: packets sent and not notified yet.
Outstanding(h) == (highestAckedSeq[h] + 1) .. lastSendSeq[h]

\* MaxPacketWindowSize - 2 packets may be unacknowledged.
windowFull(h) == lastSendSeq[h] - highestAckedSeq[h] >= MaxPacketWindowSize - 2

\* Number of header bytes that carry the acks of a packet.
AckByteCount(recvd, ackAck) == (recvd - ackAck + AckBits - 1) \div AckBits

\* writePacketHeader.  The receiver sees only the low bits of seq and ack; the
\* full numbers are what setupCounter mixes into the cipher of the packet.
Packet(h, type, seq, recvd, ackAck, mask) ==
    [src |-> h, type |-> type, seq |-> seq, ack |-> recvd,
     covered |-> AckBits * AckByteCount(recvd, ackAck),
     mask |-> {b \in mask : b < AckBits * AckByteCount(recvd, ackAck)}]

\* The first number from ref on whose low bits are those of n: how
\* readPacketHeader recovers a full number from the partial one.
Reconstruct(n, ref, window) ==
    LET candidate == ref - (ref % window) + (n % window)
    IN  IF candidate < ref THEN candidate + window ELSE candidate

FullSeq(h, p) == Reconstruct(p.seq, lastSeqRecvd[h], SequenceNumberWindowSize)
FullAck(h, p) == Reconstruct(p.ack, highestAckedSeq[h],
                             AckSequenceNumberWindowSize)

\* (Faulty variants, named ...Fault, are what a slip in the operator that
\* follows would make of it; a property that no such slip breaks says nothing.)
AcceptsAnyAckFault(h, p) ==
    FullSeq(h, p) - lastSeqRecvd[h] <= MaxPacketWindowSize - 1

AcceptsUnverifiedFault(h, p) ==
    /\ FullSeq(h, p) - lastSeqRecvd[h] <= MaxPacketWindowSize - 1
    /\ U32(FullAck(h, p)) <= U32(lastSendSeq[h])

\* The early returns of readPacketHeader.  A cipher set up with other numbers
\* than the sender's does not verify.
Accepts(h, p) ==
    /\ FullSeq(h, p) - lastSeqRecvd[h] <= MaxPacketWindowSize - 1
    /\ U32(FullAck(h, p)) <= U32(lastSendSeq[h])
    /\ Encrypted => FullSeq(h, p) = p.seq /\ FullAck(h, p) = p.ack

ProcessesRepeatsFault(h, p) == p.type = "Data"

\* readRawPacket goes on to readPacket only for a new data packet.
Processes(h, p) == p.type = "Data" /\ FullSeq(h, p) # lastSeqRecvd[h]

AckMaskAllTypesFault(h, p) ==
    LET shift == FullSeq(h, p) - lastSeqRecvd[h]
    IN  {b \in 0 .. (MaxPacketWindowSize - 1) : b - shift \in ackMask[h]} \cup {0}

AckMaskUnshiftedFault(h, p) ==
    ackMask[h] \cup (IF p.type = "Data" THEN {0} ELSE {})

\* The ack mask after a packet: one position for every number skipped, the low
\* bit set by a data packet.  The mask is one word of MaxPacketWindowSize bits.
ShiftedMask(h, p) ==
    LET shift == FullSeq(h, p) - lastSeqRecvd[h]
    IN  {b \in 0 .. (MaxPacketWindowSize - 1) : b - shift \in ackMask[h]}
        \cup (IF p.type = "Data" THEN {0} ELSE {})

\* The notifications a packet brings, and those of them that are acks.
Notified(h, p) == (highestAckedSeq[h] + 1) .. FullAck(h, p)
Delivered(h, p) == {s \in Notified(h, p) : FullAck(h, p) - s \in p.mask}

AckAckAtReceiptFault(h, p) ==
    IF Delivered(h, p) = {} THEN lastRecvAckAck[h] ELSE lastSeqRecvd[h]

\* mLastRecvAckAck after the notifications, and after the correction "the other
\* side knows more about its window than we do".
AckAckAfter(h, p) ==
    LET new == Delivered(h, p)
        last == CHOOSE s \in new : \A t \in new : t <= s
        told == IF new = {} THEN lastRecvAckAck[h]
                ELSE lastSeqRecvdAtSend[h][last % MaxPacketWindowSize]
    IN  IF FullSeq(h, p) - told > MaxPacketWindowSize
        THEN FullSeq(h, p) - MaxPacketWindowSize
        ELSE told

\* A ping is answered, and so is any packet when half of the window is unacked.
AnswersWithAck(h, p) ==
    \/ p.type = "Ping"
    \/ FullSeq(h, p) - AckAckAfter(h, p) > MaxPacketWindowSize \div 2

-----------------------------------------------------------------------------
\* sendPacket, with the network holding the packets in inFlight: it has room for
\* InFlight packets of a host and loses one of them to make room.
Send(p, inFlight) ==
    LET mine == {q \in inFlight : q.src = p.src} IN
    IF p \in mine \/ Cardinality(mine) < InFlight[p.src]
    THEN net' = inFlight \cup {p}
    ELSE \E q \in mine : net' = (inFlight \ {q}) \cup {p}

Init ==
    /\ state = [h \in Host |-> "open"]
    /\ lastSendSeq = InitialSendSeq
    /\ highestAckedSeq = InitialSendSeq
    /\ lastSeqRecvd = [h \in Host |-> InitialSendSeq[Peer(h)]]
    /\ lastRecvAckAck = [h \in Host |-> InitialSendSeq[Peer(h)]]
    /\ ackMask = [h \in Host |-> {}]
    /\ lastSeqRecvdAtSend =
         [h \in Host |-> [i \in 0 .. (MaxPacketWindowSize - 1) |-> 0]]
    /\ pingSendCount = [h \in Host |-> 0]
    /\ net = {}
    /\ processed = [h \in Host |-> {}]
    /\ acked = [h \in Host |-> {}]
    /\ nacked = [h \in Host |-> {}]
    /\ abandoned = [h \in Host |-> {}]

\* checkPacketSend with something to transmit: writeRawPacket and sendPacket.
SendData(h) ==
    /\ state[h] = "open"
    /\ lastSendSeq[h] < InitialSendSeq[h] + MaxSend[h]
    /\ ~windowFull(h)
    /\ LET seq == lastSendSeq[h] + 1 IN
         /\ lastSendSeq' = [lastSendSeq EXCEPT ![h] = seq]
         /\ lastSeqRecvdAtSend' =
              [lastSeqRecvdAtSend EXCEPT
                 ![h][seq % MaxPacketWindowSize] = lastSeqRecvd[h]]
         /\ Send(Packet(h, "Data", seq, lastSeqRecvd[h],
                        lastRecvAckAck[h], ackMask[h]), net)
    /\ UNCHANGED <<state, highestAckedSeq, lastSeqRecvd, lastRecvAckAck,
                   ackMask, pingSendCount, historyVars>>

SendPingOnceMoreFault(h) ==
    /\ state[h] = "open"
    /\ pingSendCount[h] <= PingRetryCount[h]
    /\ pingSendCount' = [pingSendCount EXCEPT ![h] = @ + 1]
    /\ Send(Packet(h, "Ping", lastSendSeq[h], lastSeqRecvd[h],
                   lastRecvAckAck[h], ackMask[h]), net)
    /\ UNCHANGED <<state, lastSendSeq, highestAckedSeq, lastSeqRecvd,
                   lastRecvAckAck, ackMask, lastSeqRecvdAtSend, historyVars>>

\* checkTimeout when nothing was heard for a ping timeout.
SendPing(h) ==
    /\ state[h] = "open"
    /\ pingSendCount[h] < PingRetryCount[h]
    /\ pingSendCount' = [pingSendCount EXCEPT ![h] = @ + 1]
    /\ Send(Packet(h, "Ping", lastSendSeq[h], lastSeqRecvd[h],
                   lastRecvAckAck[h], ackMask[h]), net)
    /\ UNCHANGED <<state, lastSendSeq, highestAckedSeq, lastSeqRecvd,
                   lastRecvAckAck, ackMask, lastSeqRecvdAtSend, historyVars>>

TimeOutOffByOneFault(h) ==
    /\ state[h] = "open"
    /\ pingSendCount[h] > PingRetryCount[h]
    /\ state' = [state EXCEPT ![h] = "closed"]
    /\ abandoned' = [abandoned EXCEPT ![h] = Outstanding(h)]
    /\ UNCHANGED <<protocolVars, net, processed, acked, nacked>>

\* checkTimeout when the pings are used up: processConnections removes the
\* connection, whose destructor notifies everything outstanding as dropped.
TimeOut(h) ==
    /\ state[h] = "open"
    /\ pingSendCount[h] >= PingRetryCount[h]
    /\ state' = [state EXCEPT ![h] = "closed"]
    /\ abandoned' = [abandoned EXCEPT ![h] = Outstanding(h)]
    /\ UNCHANGED <<protocolVars, net, processed, acked, nacked>>

\* What the network may do with a packet: it does not keep one for as long as
\* the partial numbers take to come round, and unless Overtaking it does not
\* deliver a data packet for the first time after a ping or an ack sent later.
Deliverable(h, p) ==
    /\ p.src # h
    /\ lastSeqRecvd[h] - p.seq <= SequenceNumberWindowSize - MaxPacketWindowSize
    /\ lastSendSeq[h] - p.ack < AckSequenceNumberWindowSize
    /\ \/ Overtaking
       \/ p.type = "Data" /\ p.seq = lastSeqRecvd[h] => p.seq \in processed[h]

\* The network loses a packet, or at last one that it delivers repeatedly.
Lose(p) ==
    /\ net' = net \ {p}
    /\ UNCHANGED <<state, protocolVars, historyVars>>

\* readRawPacket and readPacketHeader.
Receive(h, p) ==
    /\ state[h] = "open"
    /\ Deliverable(h, p)
    /\ Accepts(h, p)
    /\ LET new == Delivered(h, p)
           seq == FullSeq(h, p)
           left == IF Duplicating THEN net ELSE net \ {p}
       IN
         /\ ackMask' = [ackMask EXCEPT ![h] = ShiftedMask(h, p)]
         /\ acked' = [acked EXCEPT ![h] = @ \cup new]
         /\ nacked' = [nacked EXCEPT ![h] = @ \cup (Notified(h, p) \ new)]
         /\ lastRecvAckAck' = [lastRecvAckAck EXCEPT ![h] = AckAckAfter(h, p)]
         /\ highestAckedSeq' = [highestAckedSeq EXCEPT ![h] = FullAck(h, p)]
         /\ pingSendCount' = [pingSendCount EXCEPT ![h] = 0]
         /\ lastSeqRecvd' = [lastSeqRecvd EXCEPT ![h] = seq]
         /\ IF AnswersWithAck(h, p)
            THEN Send(Packet(h, "Ack", lastSendSeq[h], seq,
                             AckAckAfter(h, p), ShiftedMask(h, p)), left)
            ELSE net' = left
         /\ processed' = IF Processes(h, p)
                         THEN [processed EXCEPT ![h] = @ \cup {p.seq}]
                         ELSE processed
    \* handleNotify dereferences the head of an empty notify queue.
    /\ state' = IF FullAck(h, p) <= lastSendSeq[h] THEN state
                ELSE [state EXCEPT ![h] = "crashed"]
    /\ UNCHANGED <<lastSendSeq, lastSeqRecvdAtSend, abandoned>>

Next ==
    \/ \E h \in Host : SendData(h) \/ SendPing(h) \/ TimeOut(h)
    \/ \E h \in Host : \E p \in net : Receive(h, p)
    \/ \E p \in net : Lose(p)

Spec == Init /\ [][Next]_vars

\* checkTimeout runs on every tick (processConnections).  Of the network: pings
\* that keep being sent do arrive in the end, and so does news of packets.
PingArrives(h) ==
    \E p \in net : /\ p.type = "Ping" /\ p.seq = lastSendSeq[p.src]
                   /\ Receive(h, p)
AckArrives(h) ==
    \E p \in net : p.ack > highestAckedSeq[h] /\ Receive(h, p)

FairSpec ==
    /\ Spec
    /\ \A h \in Host :
         /\ WF_vars(SendPing(h)) /\ WF_vars(TimeOut(h))
         /\ SF_vars(PingArrives(h)) /\ SF_vars(AckArrives(h))

-----------------------------------------------------------------------------
PacketType == {"Data", "Ping", "Ack"}

TypeOK ==
    /\ state \in [Host -> {"open", "closed", "crashed"}]
    /\ lastSendSeq \in [Host -> Nat]
    /\ highestAckedSeq \in [Host -> Nat]
    /\ lastSeqRecvd \in [Host -> Nat]
    /\ lastRecvAckAck \in [Host -> Int]
    /\ ackMask \in [Host -> SUBSET (0 .. (MaxPacketWindowSize - 1))]
    /\ lastSeqRecvdAtSend \in
         [Host -> [0 .. (MaxPacketWindowSize - 1) -> Nat]]
    /\ pingSendCount \in [Host -> Nat]
    /\ \A h \in Host : pingSendCount[h] <= PingRetryCount[h]
    /\ net \subseteq [src : Host, type : PacketType, seq : Nat, ack : Nat,
                      covered : Int,
                      mask : SUBSET (0 .. (MaxPacketWindowSize - 1))]
    /\ processed \in [Host -> SUBSET Nat]
    /\ acked \in [Host -> SUBSET Nat]
    /\ nacked \in [Host -> SUBSET Nat]
    /\ abandoned \in [Host -> SUBSET Nat]

\* packetDropped is called only for a packet that the remote host has not
\* processed, and never will: what a subclass sends again is not seen twice.
DroppedNeverProcessed ==
    \A h \in Host : nacked[h] \cap processed[Peer(h)] = {}

\* packetReceived is called only for a packet that the remote host gave to
\* readPacket ("known to have been received by the remote host").
ReceivedWasProcessed ==
    \A h \in Host : acked[h] \subseteq processed[Peer(h)]

\* A packet is read at most once and never after a later one, whatever the
\* network does: a packet about to be read is above all those read before.
ProcessedOnceInOrder ==
    \A h \in Host : \A p \in net :
       (Deliverable(h, p) /\ Accepts(h, p) /\ Processes(h, p))
         => \A s \in processed[h] : s < p.seq

\* The partial numbers of a header are recovered as the numbers the sender
\* meant, across their wrap around, for every packet that is not discarded.
HeaderDecodedExactly ==
    \A h \in Host : \A p \in net :
       (Deliverable(h, p) /\ Accepts(h, p))
         => FullSeq(h, p) = p.seq /\ FullAck(h, p) = p.ack

\* readPacketHeader never looks for an ack bit the sender did not write: the
\* header covers every packet that it newly notifies, so nothing received is
\* taken for dropped because its bit was cut off.
AckMaskCoversNotifies ==
    \A h \in Host : \A p \in net :
       (state[h] = "open" /\ Deliverable(h, p) /\ Accepts(h, p))
         => FullAck(h, p) - highestAckedSeq[h] <= p.covered

\* handleNotify's assertion "got a notify with a null notify head": it is never
\* called more often than packets are outstanding, although the header compares
\* 32-bit numbers as if they did not wrap around (with a cipher the signature
\* is what turns away the numbers that this lets pass).
NotifyQueueNotEmpty == \A h \in Host : state[h] # "crashed"

\* The assertion of writePacketHeader, ackByteCount <= MaxAckByteCount: what
\* has to be acked fits in the mask although only data packets move
\* mLastRecvAckAck; and the sending window holds.
WindowsHold ==
    \A h \in Host :
       /\ lastSeqRecvd[h] - lastRecvAckAck[h] \in 0 .. MaxPacketWindowSize
       /\ lastSendSeq[h] - highestAckedSeq[h] \in 0 .. (MaxPacketWindowSize - 2)

\* Every packet sent is notified exactly once and in the order of sending, by
\* an ack, a nack or the destructor; after the connection is gone nothing is
\* left un-notified.
NotifiedOnce ==
    \A h \in Host :
       /\ acked[h] \cap nacked[h] = {}
       /\ (acked[h] \cup nacked[h]) \cap abandoned[h] = {}
       /\ acked[h] \cup nacked[h]
            = (InitialSendSeq[h] + 1) .. highestAckedSeq[h]
       /\ state[h] = "closed" => abandoned[h] = Outstanding(h)

\* Every packet sent is notified in the end, by the remote host's acks or by the
\* time-out of the connection.
EventuallyNotified ==
    \A h \in Host : \A k \in 1 .. MaxSend[h] :
       (lastSendSeq[h] = InitialSendSeq[h] + k)
         ~> (highestAckedSeq[h] >= InitialSendSeq[h] + k \/ state[h] # "open")

-----------------------------------------------------------------------------
(* The inductive invariant of the safety properties. *)

\* What has been sent, received and notified in the direction from h.
SendWindow(h) ==
    /\ InitialSendSeq[h] <= highestAckedSeq[h]
    /\ highestAckedSeq[h] <= lastSeqRecvd[Peer(h)]
    /\ lastSeqRecvd[Peer(h)] <= lastSendSeq[h]
    /\ lastSendSeq[h] - highestAckedSeq[h] <= MaxPacketWindowSize - 2
    /\ lastSendSeq[h] <= InitialSendSeq[h] + MaxSend[h]

\* A host stops acking only what the other side has been notified of, and never
\* falls behind by more than its mask.
AckWindow(h) ==
    /\ lastRecvAckAck[h] >= 0
    /\ lastRecvAckAck[h] <= highestAckedSeq[Peer(h)]
    /\ lastSeqRecvd[h] - lastRecvAckAck[h] <= MaxPacketWindowSize

\* h was notified of all that packet s of its peer carried acks of.
Told(h, s) ==
    s > highestAckedSeq[Peer(h)] =>
      lastSeqRecvdAtSend[Peer(h)][s % MaxPacketWindowSize] <= highestAckedSeq[h]

\* The ack mask against the packets that were processed.
AckMaskExact(h) ==
    /\ \A n \in ackMask[h] : Told(h, lastSeqRecvd[h] - n)
    /\ \A s \in processed[h] :
         /\ s <= lastSeqRecvd[h]
         /\ lastSeqRecvd[h] - s < MaxPacketWindowSize
              => lastSeqRecvd[h] - s \in ackMask[h]
    /\ ~Overtaking => \A n \in ackMask[h] : lastSeqRecvd[h] - n \in processed[h]

\* The same of the mask that a packet carries, for the rest of its life.
PacketExact(p) ==
    /\ p.seq <= lastSendSeq[p.src]
    /\ p.ack <= lastSeqRecvd[p.src]
    /\ p.ack - p.covered <= highestAckedSeq[Peer(p.src)]
    /\ (p.type = "Data" /\ p.seq > highestAckedSeq[p.src])
         => lastSeqRecvdAtSend[p.src][p.seq % MaxPacketWindowSize] = p.ack
    /\ \A n \in p.mask : Told(p.src, p.ack - n)
    /\ \A s \in processed[p.src] :
         (s <= p.ack /\ p.ack - s < p.covered /\ p.ack - s < MaxPacketWindowSize)
           => p.ack - s \in p.mask
    /\ ~Overtaking => \A n \in p.mask : p.ack - n \in processed[p.src]

\* The notifications against the packets that were processed.
NotifiesExact(h) ==
    /\ acked[h] \cup nacked[h] = (InitialSendSeq[h] + 1) .. highestAckedSeq[h]
    /\ acked[h] \cap nacked[h] = {}
    /\ nacked[h] \cap processed[Peer(h)] = {}
    /\ ~Overtaking => acked[h] \subseteq processed[Peer(h)]
    /\ state[h] # "crashed"
    /\ abandoned[h] = IF state[h] = "open" THEN {} ELSE Outstanding(h)

IInv ==
    /\ TypeOK
    /\ \A h \in Host : /\ SendWindow(h)
                       /\ AckWindow(h)
                       /\ AckMaskExact(h)
                       /\ NotifiesExact(h)
    /\ \A p \in net : PacketExact(p)

\* The counters do not wrap around in the bounds given.
NoWrap ==
    \A h \in Host :
       InitialSendSeq[h] + MaxSend[h] + AckSequenceNumberWindowSize < Word

\* They may when the connection has a cipher: an old ack number that wraps around
\* in Reconstruct, and so passes the comparison with a mLastSendSeq that has not
\* yet, is not the one with which the sender set up its cipher.
WrapHarmless == NoWrap \/ Encrypted

-----------------------------------------------------------------------------
\* Each direction of the connection is the service that the subclasses of
\* NetConnection are written against.
Direction(h) == INSTANCE NotifyService WITH
    First <- InitialSendSeq[h],
    Window <- MaxPacketWindowSize - 2,
    Faithful <- ~Overtaking,
    sent <- lastSendSeq[h],
    notified <- highestAckedSeq[h],
    floor <- lastSeqRecvd[Peer(h)],
    read <- processed[Peer(h)],
    received <- acked[h],
    dropped <- nacked[h],
    open <- state[h] = "open"

ImplementsService ==
    /\ \A h \in Host : Direction(h)!ServiceInit
    /\ [][\A h \in Host : \/ Direction(h)!ServiceNext
                          \/ UNCHANGED Direction(h)!serviceVars]_vars
=============================================================================
