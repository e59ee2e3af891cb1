---------------------------- MODULE EventConnection ----------------------------
(***************************************************************************)
(* Events over one direction of a connection (tnl/eventConnection.cpp):    *)
(* the events posted on one host, the packets that carry them, and the     *)
(* other host's processing of them, over the packet service of             *)
(* NetConnection (NotifyService).                                          *)
(*                                                                         *)
(* An event is a record of its guarantee and its number among the events   *)
(* posted with the same ordering; the number of an ordered event is its    *)
(* sequence number.                                                        *)
(***************************************************************************)
EXTENDS NotifyService, FiniteSets, SequencesExt

CONSTANTS
    EventWindow,        \* ordered events beyond the last acked one, 126
    EventSeqSpace,      \* 2^7: sequence numbers on the wire
    Ghosting,           \* the connection is a GhostConnection
    MaxPost,            \* bound: events posted of each guarantee
    MaxPerPacket,       \* bound: events that fit in a packet
    MaxLost             \* bound: packets that are not read

Guarantee == {"GuaranteedOrdered", "Guaranteed", "Unguaranteed"}

ASSUME EventAssumption ==
    /\ EventWindow \in Nat \ {0}
    /\ EventSeqSpace \in Nat /\ EventSeqSpace > EventWindow
    /\ Ghosting \in BOOLEAN
    /\ MaxPost \in [Guarantee -> Nat]
    /\ MaxPerPacket \in Nat \ {0}
    /\ MaxLost \in Nat

VARIABLES
    sendQueue,          \* mSendEventQueueHead
    unorderedQueue,     \* mUnorderedSendEventQueueHead
    notifyList,         \* mNotifyEventList, as the set of its numbers
    nextSendEventSeq,   \* mNextSendEventSeq
    lastAckedEventSeq,  \* mLastAckedEventSeq
    eventList,          \* the events of the packets not notified yet, as
                        \* written; eventList of their EventPacketNotify
    waitSeqEvents,      \* mWaitSeqEvents of the receiver
    nextRecvEventSeq,   \* mNextRecvEventSeq of the receiver
    posted,             \* history: unordered events posted, in their order
    processed,          \* history: events processed, in their order
    told                \* history: the notifyDelivered calls

senderVars == <<sendQueue, unorderedQueue, notifyList, nextSendEventSeq,
                lastAckedEventSeq>>
receiverVars == <<waitSeqEvents, nextRecvEventSeq, processed>>
eventVars == <<senderVars, eventList, receiverVars, posted, told>>
vars == <<serviceVars, eventVars>>

-----------------------------------------------------------------------------
Ordered(n) == [type |-> "GuaranteedOrdered", n |-> n]

IsOrdered(e) == e.type = "GuaranteedOrdered"

AckedAnyFault(list) == CHOOSE m \in list \cup {lastAckedEventSeq} :
                          \A l \in list : l <= m

\* The numbers that a run of consecutive acks from the last one on reaches.
AckedUpTo(list) ==
    LET run(m) == (lastAckedEventSeq + 1) .. m \subseteq list
    IN  CHOOSE m \in list \cup {lastAckedEventSeq} :
          /\ run(m)
          /\ m + 1 \notin list

\* How far a walk along a list goes for the number seq: from position at on,
\* while the numbers, keys, are smaller.
WalkTo(keys, at, seq) ==
    CHOOSE p \in at .. Len(keys) :
      /\ \A i \in (at + 1) .. p : keys[i] < seq
      /\ p < Len(keys) => keys[p + 1] >= seq

\* The first i elements of a list, and the others.
Initial(list, i) == SubSeq(list, 1, i)
Remaining(list, i) == SubSeq(list, i + 1, Len(list))

InsertedAfter(list, p, x) == Initial(list, p) \o <<x>> \o Remaining(list, p)

ReinsertedAtHeadFault(walk, seq) == [list |-> <<seq>> \o walk.list, at |-> 1]

\* Put the dropped number seq back into the queue, at its place; walk.at is
\* insertList, which the events of one packet share.
Reinserted(walk, seq) ==
    LET p == WalkTo(walk.list, walk.at, seq)
    IN  [list |-> InsertedAfter(walk.list, p, seq), at |-> p + 1]

\* The queue after all ordered events of a dropped packet.
AllReinserted(events) ==
    LET q[i \in 0 .. Len(events)] ==
          IF i = 0 THEN [list |-> sendQueue, at |-> 0]
          ELSE Reinserted(q[i - 1], events[i])
    IN  q[Len(events)].list

\* readPacket: the number that seven bits on the wire stand for.
Decode(wire, next) ==
    LET seq == next - (next % EventSeqSpace) + wire
    IN  IF seq < next THEN seq + EventSeqSpace ELSE seq

\* The wait list after an ordered event, sorted by the decoded numbers; walk.at
\* is waitInsert.
Awaited(walk, n) ==
    LET seq == Decode(n % EventSeqSpace, nextRecvEventSeq)
        p == WalkTo([i \in DOMAIN walk.list |-> walk.list[i].seq], walk.at, seq)
    IN  [list |-> InsertedAfter(walk.list, p, [seq |-> seq, event |-> Ordered(n)]),
         at |-> p + 1]

\* The wait list after all ordered events of a packet.
AllAwaited(events) ==
    LET w[i \in 0 .. Len(events)] ==
          IF i = 0 THEN [list |-> waitSeqEvents, at |-> 0]
          ELSE Awaited(w[i - 1], events[i])
    IN  w[Len(events)].list

ReadyAllFault(list) == Len(list)

\* How many of the awaited events are next.
ReadyCount(list) ==
    CHOOSE k \in 0 .. Len(list) :
      /\ \A i \in 1 .. k : list[i].seq = nextRecvEventSeq + i - 1
      /\ k < Len(list) => list[k + 1].seq # nextRecvEventSeq + k

InEventWindowWideFault(seq) == seq <= lastAckedEventSeq + EventSeqSpace + 1

\* The window of writePacket.
InEventWindow(seq) == seq <= lastAckedEventSeq + EventWindow

RequeuedAllFault(queue, event) == <<event>> \o queue

RequeuedNoneFault(queue, event) == queue

\* packetDropped puts a guaranteed event before the unordered queue.
Requeued(queue, event) ==
    IF event.type = "Guaranteed" THEN <<event>> \o queue ELSE queue

\* The unordered queue after all unordered events of a dropped packet.
AllRequeued(events) ==
    LET q[i \in 0 .. Len(events)] ==
          IF i = 0 THEN unorderedQueue ELSE Requeued(q[i - 1], events[i])
    IN  q[Len(events)]

isDataToTransmit == unorderedQueue # <<>> \/ sendQueue # <<>>

-----------------------------------------------------------------------------
EventInit ==
    /\ ServiceInit
    /\ sendQueue = <<>>
    /\ unorderedQueue = <<>>
    /\ notifyList = {}
    /\ nextSendEventSeq = 0
    /\ lastAckedEventSeq = -1
    /\ eventList = [k \in {} |-> [unordered |-> <<>>, ordered |-> <<>>]]
    /\ waitSeqEvents = <<>>
    /\ nextRecvEventSeq = 0
    /\ posted = <<>>
    /\ processed = <<>>
    /\ told = {}

\* postNetEvent.
PostOrdered ==
    /\ open
    /\ nextSendEventSeq < MaxPost["GuaranteedOrdered"]
    /\ nextSendEventSeq' = nextSendEventSeq + 1
    /\ sendQueue' = Append(sendQueue, nextSendEventSeq)
    /\ UNCHANGED <<serviceVars, unorderedQueue, notifyList, lastAckedEventSeq,
                   eventList, receiverVars, posted, told>>

PostUnordered(type) ==
    /\ open
    /\ Cardinality({i \in DOMAIN posted : posted[i].type = type}) < MaxPost[type]
    /\ LET event == [type |-> type, n |-> Len(posted)] IN
         /\ posted' = Append(posted, event)
         /\ unorderedQueue' = Append(unorderedQueue, event)
    /\ UNCHANGED <<serviceVars, sendQueue, notifyList, nextSendEventSeq,
                   lastAckedEventSeq, eventList, receiverVars, told>>

\* writePacket: events from the head of the unordered queue and then of the
\* ordered one, as many as fit.  The next event is rewound if it does not; one
\* fits in an empty packet.
WritePacket ==
    /\ isDataToTransmit
    /\ Write
    /\ \E i \in 0 .. Len(unorderedQueue), j \in 0 .. Len(sendQueue) :
         /\ i + j <= MaxPerPacket
         /\ \A k \in 1 .. j : InEventWindow(sendQueue[k])
         /\ i + j = 0 => /\ unorderedQueue = <<>>
                         /\ ~InEventWindow(Head(sendQueue))
         /\ eventList' = [k \in DOMAIN eventList \cup {sent + 1} |->
                            IF k \in DOMAIN eventList THEN eventList[k]
                            ELSE [unordered |-> Initial(unorderedQueue, i),
                                  ordered |-> Initial(sendQueue, j)]]
         /\ unorderedQueue' = Remaining(unorderedQueue, i)
         /\ sendQueue' = Remaining(sendQueue, j)
    /\ UNCHANGED <<notifyList, nextSendEventSeq, lastAckedEventSeq,
                   receiverVars, posted, told>>

\* readPacket: the unordered events are processed as they are read, the ordered
\* ones when all those before them have been.
ReadPacket(k) ==
    /\ Cardinality(((First + 1) .. (k - 1)) \ read) <= MaxLost
    /\ Read(k)
    /\ \E list \in {AllAwaited(eventList[k].ordered)} :
       \E ready \in {ReadyCount(list)} :
         /\ processed' = processed \o eventList[k].unordered
                           \o [i \in 1 .. ready |-> list[i].event]
         /\ waitSeqEvents' = Remaining(list, ready)
         /\ nextRecvEventSeq' = nextRecvEventSeq + ready
    /\ UNCHANGED <<senderVars, eventList, posted, told>>

\* The packets up to k will not be read.
LosePacket(k) ==
    /\ Cardinality(((First + 1) .. k) \ read) <= MaxLost
    /\ Skip(k)
    /\ UNCHANGED eventVars

Tell(events, madeIt) == {[event |-> e, madeIt |-> madeIt] : e \in events}

Forgotten == [k \in DOMAIN eventList \ {notified + 1} |-> eventList[k]]

\* packetReceived, for the next packet to be notified.
PacketReceived ==
    /\ Notify(notified + 1)
    /\ notified + 1 \in received'
    /\ LET events == eventList[notified + 1]
           list == notifyList \cup ToSet(events.ordered)
           last == AckedUpTo(list)
           acked == (lastAckedEventSeq + 1) .. last
       IN  /\ lastAckedEventSeq' = last
           /\ notifyList' = list \ acked
           /\ told' = told \cup Tell(ToSet(events.unordered), TRUE)
                           \cup Tell({Ordered(n) : n \in acked}, TRUE)
    /\ eventList' = Forgotten
    /\ UNCHANGED <<sendQueue, unorderedQueue, nextSendEventSeq, receiverVars,
                   posted>>

\* packetDropped: the guaranteed events go back to the head of their queue, the
\* ordered ones to their places.
PacketDropped ==
    /\ Notify(notified + 1)
    /\ notified + 1 \in dropped'
    /\ LET events == eventList[notified + 1]
       IN  /\ sendQueue' = AllReinserted(events.ordered)
           /\ unorderedQueue' = AllRequeued(events.unordered)
           /\ told' = told \cup Tell({e \in ToSet(events.unordered) :
                                        e.type = "Unguaranteed"}, FALSE)
    /\ eventList' = Forgotten
    /\ UNCHANGED <<notifyList, nextSendEventSeq, lastAckedEventSeq,
                   receiverVars, posted>>

\* The events that the destructor finds in the lists of the connection, after
\* ~GhostConnection has notified the packets outstanding as dropped.
Dropped ==
    IF Ghosting THEN UNION {ToSet(eventList[k].unordered)
                              : k \in (notified + 1) .. sent}
    ELSE {}
LeftInLists ==
    {Ordered(n) : n \in notifyList \cup ToSet(sendQueue)
         \cup (IF Ghosting THEN UNION {ToSet(eventList[k].ordered)
                                         : k \in (notified + 1) .. sent}
               ELSE {})}
      \cup ToSet(unorderedQueue)
      \cup {e \in Dropped : e.type = "Guaranteed"}

\* ~EventConnection.  The packets outstanding of a connection that is no
\* GhostConnection are notified only when its part of the object is gone.
Destroy ==
    /\ Close
    /\ told' = told \cup Tell({e \in Dropped : e.type = "Unguaranteed"}, FALSE)
                    \cup Tell(LeftInLists, TRUE)
    /\ UNCHANGED <<senderVars, eventList, receiverVars, posted>>

EventNext ==
    \/ PostOrdered
    \/ \E type \in Guarantee \ {"GuaranteedOrdered"} : PostUnordered(type)
    \/ WritePacket
    \/ \E k \in (floor + 1) .. sent : ReadPacket(k) \/ LosePacket(k)
    \/ PacketReceived
    \/ PacketDropped
    \/ Destroy

EventSpec == EventInit /\ [][EventNext]_vars

\* The application sends packets and the network does not lose them for ever
\* (MaxLost); news of their fate gets through (NotifyProtocol).
FairEventSpec ==
    /\ EventSpec
    /\ WF_vars(WritePacket)
    /\ WF_vars(\E k \in (floor + 1) .. sent : ReadPacket(k))
    /\ WF_vars(PacketReceived) /\ WF_vars(PacketDropped)

-----------------------------------------------------------------------------
Event == [type : Guarantee, n : Nat]

EventTypeOK ==
    /\ sendQueue \in Seq(Nat)
    /\ unorderedQueue \in Seq(Event)
    /\ notifyList \in SUBSET Nat
    /\ nextSendEventSeq \in Nat
    /\ lastAckedEventSeq \in Nat \cup {-1}
    /\ DOMAIN eventList = (notified + 1) .. sent
    /\ \A k \in DOMAIN eventList :
         eventList[k] \in [unordered : Seq(Event), ordered : Seq(Nat)]
    /\ waitSeqEvents \in Seq([seq : Nat, event : Event])
    /\ nextRecvEventSeq \in Nat
    /\ posted \in Seq(Event)
    /\ processed \in Seq(Event)
    /\ told \in SUBSET [event : Event, madeIt : BOOLEAN]

\* Ordered events are processed exactly once and in the order of posting, none
\* left out, however their packets are lost and their events sent again.
OrderedInOrder ==
    /\ \A i, j \in 1 .. Len(processed) :
         (i < j /\ IsOrdered(processed[i]) /\ IsOrdered(processed[j])) =>
            processed[i].n < processed[j].n
    /\ {e.n : e \in {e \in ToSet(processed) : IsOrdered(e)}}
         = 0 .. (nextRecvEventSeq - 1)

\* Unguaranteed events stay in order relative to each other (tnlNetEvent.h), and
\* no unordered event is processed twice.
UnguaranteedInOrder ==
    \A i, j \in 1 .. Len(processed) :
       (i < j /\ ~IsOrdered(processed[i]) /\ ~IsOrdered(processed[j])) =>
          /\ processed[i] # processed[j]
          /\ processed[i].type = "Unguaranteed" /\ processed[j].type = "Unguaranteed"
               => processed[i].n < processed[j].n

\* Seven bits are enough: the receiver awaits every event under the number that
\* its sender gave it, however far the sender is ahead.
NumberedExactly ==
    \A i \in 1 .. Len(waitSeqEvents) :
       waitSeqEvents[i].event = Ordered(waitSeqEvents[i].seq)

\* As long as the connection object exists, an event told as delivered has been
\* processed by the other side, and one told as not delivered is never processed.
ToldTruth ==
    open => \A t \in told : t.madeIt <=> t.event \in ToSet(processed)

\* mLastAckedEventSeq is "the last event the remote host is known to have
\* processed": the window that moves with it never outruns the receiver.
AckedWasProcessed == lastAckedEventSeq < nextRecvEventSeq

\* The ordered queue is sorted, which writePacket's look at its head alone
\* relies on, also when dropped events come back while others were posted.
QueueSorted ==
    \A i, j \in 1 .. Len(sendQueue) : i < j => sendQueue[i] < sendQueue[j]

\* The lists of both ends are well formed, sorted, and the windows in step.
EventStateOK == EventTypeOK /\ QueueSorted /\ AckedWasProcessed

\* An event posted is in one place until it is told: in a queue, with a packet
\* outstanding or waiting for the acks of those before it.  None is lost and
\* none is sent in two packets at a time.
Posted == ToSet(posted) \cup {Ordered(n) : n \in 0 .. (nextSendEventSeq - 1)}
Queued == ToSet(unorderedQueue) \cup {Ordered(n) : n \in ToSet(sendQueue)}
Carried(k) ==
    ToSet(eventList[k].unordered)
      \cup {Ordered(n) : n \in ToSet(eventList[k].ordered)}
Acked == {Ordered(n) : n \in notifyList}
Told == {t.event : t \in told}

EventConserved ==
    open =>
      /\ Posted = Queued \cup Acked \cup Told
                    \cup UNION {Carried(k) : k \in DOMAIN eventList}
      /\ Queued \cap Acked = {} /\ Queued \cap Told = {} /\ Acked \cap Told = {}
      /\ IsInjective(unorderedQueue) /\ IsInjective(sendQueue)
      /\ \A k \in DOMAIN eventList :
           /\ Carried(k) \cap (Queued \cup Acked \cup Told) = {}
           /\ IsInjective(eventList[k].unordered) /\ IsInjective(eventList[k].ordered)
           /\ \A l \in DOMAIN eventList \ {k} : Carried(k) \cap Carried(l) = {}

\* Every guaranteed event is processed in the end unless the connection goes
\* away; events are posted only for so long (MaxPost).
GuaranteedPosted ==
    {Ordered(n) : n \in 0 .. (nextSendEventSeq - 1)}
      \cup {e \in ToSet(posted) : e.type = "Guaranteed"}
EventuallyProcessed ==
    <>[](open => GuaranteedPosted \subseteq ToSet(processed))

-----------------------------------------------------------------------------
(* The inductive invariant of EventConnection, part by part.               *)

\* The ordered events of packet k.
OrderedIn(k) == ToSet(eventList[k].ordered)

\* The unordered events of packet k.
UnorderedIn(k) == ToSet(eventList[k].unordered)

\* The numbers of the events awaited by the receiver, and of all ordered events
\* that it has read.
Awaiting == {waitSeqEvents[i].seq : i \in DOMAIN waitSeqEvents}
Known == 0 .. (nextRecvEventSeq - 1) \cup Awaiting

Ascending(list) == \A i, j \in DOMAIN list : i < j => list[i] < list[j]

\* Every ordered event is acked or in one place, and with a packet only within
\* the window.
OrderedPlaced ==
    /\ Ascending(sendQueue)
    /\ \A n \in ToSet(sendQueue) :
         lastAckedEventSeq < n /\ n < nextSendEventSeq /\ n \notin notifyList
    /\ \A n \in notifyList : lastAckedEventSeq + 1 < n /\ n < nextSendEventSeq
    /\ \A k \in DOMAIN eventList :
         /\ Ascending(eventList[k].ordered)
         /\ \A n \in OrderedIn(k) :
              /\ lastAckedEventSeq < n /\ n < nextSendEventSeq /\ InEventWindow(n)
              /\ n \notin notifyList /\ n \notin ToSet(sendQueue)
              /\ \A l \in DOMAIN eventList : n \in OrderedIn(l) => l = k
    /\ lastAckedEventSeq < nextSendEventSeq
    /\ \A n \in (lastAckedEventSeq + 1) .. (nextSendEventSeq - 1) :
         \/ n \in ToSet(sendQueue) \/ n \in notifyList
         \/ \E k \in DOMAIN eventList : n \in OrderedIn(k)

WaitSorted ==
    /\ \A i, j \in DOMAIN waitSeqEvents :
         i < j => waitSeqEvents[i].seq < waitSeqEvents[j].seq
    /\ \A i \in DOMAIN waitSeqEvents :
         /\ waitSeqEvents[i].event = Ordered(waitSeqEvents[i].seq)
         /\ nextRecvEventSeq < waitSeqEvents[i].seq

\* What is acked or in a packet read is known to the receiver, and nothing else.
OrderedRead ==
    /\ \A n \in Known : n < nextSendEventSeq
    /\ Known \cap ToSet(sendQueue) = {}
    /\ notifyList \subseteq Known /\ 0 .. lastAckedEventSeq \subseteq Known
    /\ \A k \in DOMAIN eventList :
         IF k \in read THEN OrderedIn(k) \subseteq Known
         ELSE OrderedIn(k) \cap Known = {}

\* The ordered events up to the last acked one have been told, as delivered.
OrderedTold ==
    /\ \A n \in 0 .. lastAckedEventSeq :
         [event |-> Ordered(n), madeIt |-> TRUE] \in told
    /\ \A t \in told :
         IsOrdered(t.event) => /\ t.madeIt
                               /\ t.event = Ordered(t.event.n)
                               /\ t.event.n <= lastAckedEventSeq

\* The unguaranteed events of a list are in the order of posting, and before
\* those of another.
InOrder(list) ==
    \A i, j \in DOMAIN list :
       (i < j /\ list[i].type = "Unguaranteed" /\ list[j].type = "Unguaranteed") =>
          list[i].n < list[j].n
Before(first, second) ==
    \A e \in ToSet(first), f \in ToSet(second) :
       (e.type = "Unguaranteed" /\ f.type = "Unguaranteed") => e.n < f.n

PostedInOrder ==
    \A i \in DOMAIN posted : posted[i].n = i - 1 /\ ~IsOrdered(posted[i])

\* An unordered event is at most once in the queue or with a packet, and the
\* unguaranteed ones are in order.
UnorderedPlaced ==
    /\ IsInjective(unorderedQueue) /\ InOrder(unorderedQueue)
    /\ ToSet(unorderedQueue) \subseteq ToSet(posted)
    /\ \A k \in DOMAIN eventList :
         /\ IsInjective(eventList[k].unordered) /\ InOrder(eventList[k].unordered)
         /\ Before(eventList[k].unordered, unorderedQueue)
         /\ \A l \in DOMAIN eventList :
              k < l => Before(eventList[k].unordered, eventList[l].unordered)
         /\ \A e \in UnorderedIn(k) :
              /\ e \in ToSet(posted) /\ e \notin ToSet(unorderedQueue)
              /\ \A l \in DOMAIN eventList : e \in UnorderedIn(l) => l = k

\* The unordered events processed are those of packets read.
UnorderedRead ==
    /\ \A e \in ToSet(processed) : IsOrdered(e) \/ e \in ToSet(posted)
    /\ ToSet(processed) \cap ToSet(unorderedQueue) = {}
    /\ Before(processed, unorderedQueue)
    /\ \A k \in DOMAIN eventList :
         /\ k > floor => Before(processed, eventList[k].unordered)
         /\ IF k \in read THEN UnorderedIn(k) \subseteq ToSet(processed)
            ELSE UnorderedIn(k) \cap ToSet(processed) = {}

\* An unordered event is told when it is in no place any more, and truthfully.
UnorderedTold ==
    /\ \A t \in told :
         IsOrdered(t.event) \/
           /\ t.event \in ToSet(posted) /\ t.event \notin ToSet(unorderedQueue)
           /\ \A k \in DOMAIN eventList : t.event \notin UnorderedIn(k)
           /\ t.madeIt <=> t.event \in ToSet(processed)
    /\ \A e \in ToSet(posted) :
         \/ e \in ToSet(unorderedQueue)
         \/ \E k \in DOMAIN eventList : e \in UnorderedIn(k)
         \/ \E t \in told : t.event = e

EventIInv ==
    /\ ServiceInv /\ EventTypeOK
    /\ OrderedPlaced /\ WaitSorted /\ OrderedRead /\ OrderedInOrder
    /\ PostedInOrder /\ UnorderedPlaced /\ UnorderedRead /\ UnguaranteedInOrder
    /\ open => OrderedTold /\ UnorderedTold
=============================================================================
