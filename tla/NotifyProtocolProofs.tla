------------------------ MODULE NotifyProtocolProofs ------------------------
(***************************************************************************)
(* Proofs about NotifyProtocol for every window, every size of the partial *)
(* sequence numbers and every number of packets, as long as the 32-bit     *)
(* counters do not wrap around (WrapHarmless).                                   *)
(***************************************************************************)
EXTENDS NotifyProtocol, TLAPS, WellFoundedInduction

-----------------------------------------------------------------------------
(* Arithmetic of the partial numbers, of the mask and of the slots. *)

LEMMA DivMod ==
  ASSUME NEW n \in Nat, NEW w \in Nat, w > 0
  PROVE  /\ n % w \in 0 .. (w - 1)
         /\ n \div w \in Nat
         /\ n = w * (n \div w) + (n % w)
BY Z3

LEMMA MultApart ==
  ASSUME NEW w \in Nat, w > 0, NEW k \in Int, NEW l \in Int
  PROVE  /\ k < l => w * l >= w * k + w
         /\ k = l => w * l = w * k
BY Z3

\* Two numbers less than a window apart that have the same remainder are equal.
LEMMA SameResidue ==
  ASSUME NEW m \in Nat, NEW n \in Nat, NEW w \in Nat, w > 0,
         m % w = n % w, m - n < w, n - m < w
  PROVE  m = n
<1>1. /\ m = w * (m \div w) + (m % w) /\ m \div w \in Nat
      /\ n = w * (n \div w) + (n % w) /\ n \div w \in Nat
      /\ m % w \in Nat
  BY DivMod
<1>2. CASE m \div w < n \div w
  BY <1>1, <1>2, MultApart
<1>3. CASE n \div w < m \div w
  BY <1>1, <1>3, MultApart
<1>4. CASE m \div w = n \div w
  BY <1>1, <1>4
<1> QED BY <1>1, <1>2, <1>3, <1>4

LEMMA ResidueShift ==
  ASSUME NEW n \in Nat, NEW w \in Nat, w > 0
  PROVE  (n + w) % w = n % w
<1> DEFINE q == n \div w
           r == n % w
           q2 == (n + w) \div w
           r2 == (n + w) % w
<1>1. /\ r \in 0 .. (w - 1) /\ r2 \in 0 .. (w - 1) /\ q \in Nat /\ q2 \in Nat
      /\ n = w * q + r /\ n + w = w * q2 + r2
  BY DivMod
<1> HIDE DEF q, r, q2, r2
<1>2. w * (q + 1) = w * q + w
  BY <1>1, Z3
<1>3. CASE q2 < q + 1
  BY <1>1, <1>2, <1>3, MultApart
<1>4. CASE q + 1 < q2
  BY <1>1, <1>2, <1>4, MultApart
<1>5. CASE q2 = q + 1
  BY <1>1, <1>2, <1>5
<1>6. r2 = r
  BY <1>1, <1>3, <1>4, <1>5
<1> QED BY <1>6 DEF r, r2

\* A number that is not behind by a window is recovered from its low bits.
LEMMA ReconstructExact ==
  ASSUME NEW n \in Nat, NEW ref \in Nat, NEW w \in Nat, w > 0,
         ref <= n, n - ref < w
  PROVE  Reconstruct(n, ref, w) = n
<1> DEFINE R == Reconstruct(n, ref, w)
<1>1. /\ n % w \in 0 .. (w - 1) /\ ref % w \in 0 .. (w - 1)
      /\ n = w * (n \div w) + (n % w) /\ n \div w \in Nat
      /\ ref = w * (ref \div w) + (ref % w) /\ ref \div w \in Nat
  BY DivMod
<1>2. CASE n \div w = ref \div w
  BY <1>1, <1>2 DEF Reconstruct
<1>3. CASE n \div w = (ref \div w) + 1
  <2>1. w * (n \div w) = w * (ref \div w) + w
    BY <1>1, <1>3, Z3
  <2> QED BY <1>1, <2>1 DEF Reconstruct
<1>4. CASE n \div w < ref \div w
  BY <1>1, <1>4, MultApart
<1>5. CASE n \div w > (ref \div w) + 1
  <2>1. w * (n \div w) >= w * ((ref \div w) + 1) + w
    BY <1>1, <1>5, MultApart
  <2>2. w * ((ref \div w) + 1) = w * (ref \div w) + w
    BY <1>1, Z3
  <2> QED BY <1>1, <2>1, <2>2
<1> QED BY <1>1, <1>2, <1>3, <1>4, <1>5

\* One that is behind is taken for the number a whole window further.
LEMMA ReconstructStale ==
  ASSUME NEW n \in Nat, NEW ref \in Nat, NEW w \in Nat, w > 0,
         n < ref, ref - n <= w
  PROVE  Reconstruct(n, ref, w) = n + w
<1>1. (n + w) % w = n % w
  BY ResidueShift
<1>2. Reconstruct(n + w, ref, w) = n + w
  BY ReconstructExact
<1> QED BY <1>1, <1>2 DEF Reconstruct

\* The bytes of a header hold all the acks that are due.
LEMMA CoveredEnough ==
  ASSUME NEW recvd \in Nat, NEW ackAck \in Nat, ackAck <= recvd
  PROVE  /\ AckBits * AckByteCount(recvd, ackAck) >= recvd - ackAck
         /\ AckBits * AckByteCount(recvd, ackAck) \in Int
<1> DEFINE n == recvd - ackAck + AckBits - 1
<1>1. n \in Nat /\ AckBits \in Nat /\ AckBits > 0
  BY WindowAssumption
<1>2. /\ n = AckBits * (n \div AckBits) + (n % AckBits)
      /\ n % AckBits \in 0 .. (AckBits - 1) /\ n \div AckBits \in Nat
  BY <1>1, DivMod
<1>3. AckBits * (n \div AckBits) \in Int
  BY <1>1, <1>2
<1> QED BY <1>1, <1>2, <1>3 DEF AckByteCount

-----------------------------------------------------------------------------
(* The greatest element of a bounded set, by well-foundedness of < on Nat. *)

Less == OpToRel(<, Nat)

LEMMA LessWellFounded == IsWellFoundedOn(Less, Nat)
BY Zenon, NatLessThanWellFounded DEF Less

LEMMA LessPairs == \A x, y \in Nat : <<x, y>> \in Less <=> x < y
<1>1. Less = {ss \in Nat \X Nat : ss[1] < ss[2]}
  BY Zenon DEF Less, OpToRel
<1> QED BY <1>1

LEMMA MaxExists ==
  ASSUME NEW T \in SUBSET Nat, NEW m \in Nat, T # {}, \A t \in T : t <= m
  PROVE  \E s \in T : \A t \in T : t <= s
<1> DEFINE D == {n \in Nat : m - n \in T}
<1>1. D # {}
  <2>1. PICK t \in T : TRUE
    OBVIOUS
  <2>2. m - t \in D
    BY <2>1
  <2> QED BY <2>2
<1>2. PICK d \in D : \A e \in D : ~(<<e, d>> \in Less)
  BY <1>1, LessWellFounded, WFMin, Zenon
<1>3. \A t \in T : t <= m - d
  <2> TAKE t \in T
  <2>1. m - t \in D
    OBVIOUS
  <2>2. ~(m - t < d)
    BY <1>2, <2>1, LessPairs
  <2> QED BY <2>2
<1> QED BY <1>3

-----------------------------------------------------------------------------
LEMMA PeerFacts ==
  ASSUME NEW h \in Host
  PROVE  /\ Peer(h) \in Host /\ Peer(h) # h /\ Peer(Peer(h)) = h
         /\ \A g \in Host : g = h \/ g = Peer(h)
<1>1. PICK g \in Host : g # h /\ Host = {g, h}
  BY HostAssumption
<1>2. Peer(h) = g
  BY <1>1 DEF Peer
<1>3. Peer(g) = h
  BY <1>1 DEF Peer
<1> QED BY <1>1, <1>2, <1>3

PacketSet == [src : Host, type : PacketType, seq : Nat, ack : Nat, covered : Int,
              mask : SUBSET (0 .. (MaxPacketWindowSize - 1))]

LEMMA SendAdds ==
  ASSUME NEW p, NEW S, Send(p, S)
  PROVE  net' \subseteq S \cup {p}
BY DEF Send

LEMMA PacketType_ ==
  ASSUME NEW h \in Host, NEW type \in PacketType, NEW seq \in Nat,
         NEW recvd \in Nat, NEW ackAck \in Nat, ackAck <= recvd,
         NEW mask \in SUBSET (0 .. (MaxPacketWindowSize - 1))
  PROVE  /\ Packet(h, type, seq, recvd, ackAck, mask) \in PacketSet
         /\ Packet(h, type, seq, recvd, ackAck, mask).covered >= recvd - ackAck
BY CoveredEnough DEF Packet, PacketSet

LEMMA U32Identity ==
  ASSUME NEW n \in Nat, n < Word
  PROVE  U32(n) = n
<1>1. /\ n = Word * (n \div Word) + (n % Word)
      /\ n % Word \in 0 .. (Word - 1) /\ n \div Word \in Nat
  BY DivMod, WindowAssumption
<1>2. CASE n \div Word = 0
  BY <1>1, <1>2, WindowAssumption DEF U32
<1>3. CASE n \div Word > 0
  <2>1. Word * (n \div Word) >= Word * 0 + Word
    BY <1>1, <1>3, MultApart, WindowAssumption
  <2>2. Word * 0 = 0
    BY WindowAssumption
  <2> QED BY <1>1, <2>1, <2>2, WindowAssumption
<1> QED BY <1>1, <1>2, <1>3

\* What a packet that is not discarded says: its numbers are decoded as they
\* were meant, and it is news.
LEMMA ReceiveFacts ==
  ASSUME IInv, WrapHarmless, NEW h \in Host, NEW p \in net,
         Deliverable(h, p), Accepts(h, p)
  PROVE  /\ p \in PacketSet /\ p.src = Peer(h)
         /\ FullSeq(h, p) = p.seq /\ FullAck(h, p) = p.ack
         /\ lastSeqRecvd[h] <= p.seq /\ p.seq <= lastSendSeq[Peer(h)]
         /\ highestAckedSeq[h] <= p.ack /\ p.ack <= lastSeqRecvd[Peer(h)]
<1> DEFINE g == Peer(h)
<1>1. /\ p \in PacketSet /\ p.seq \in Nat /\ p.ack \in Nat
      /\ lastSeqRecvd \in [Host -> Nat] /\ lastSendSeq \in [Host -> Nat]
      /\ highestAckedSeq \in [Host -> Nat]
  BY DEF IInv, TypeOK, PacketSet
<1>2. p.src = g /\ g \in Host /\ Peer(g) = h
  BY <1>1, PeerFacts DEF Deliverable, PacketSet
<1>3. /\ SendWindow(g) /\ SendWindow(h) /\ PacketExact(p)
  BY <1>2 DEF IInv
<1>4. p.seq <= lastSendSeq[g] /\ p.ack <= lastSeqRecvd[g]
  BY <1>2, <1>3 DEF PacketExact
<1>5. /\ highestAckedSeq[g] <= lastSeqRecvd[h] /\ lastSeqRecvd[h] <= lastSendSeq[g]
      /\ highestAckedSeq[h] <= lastSeqRecvd[g] /\ lastSeqRecvd[g] <= lastSendSeq[h]
      /\ lastSendSeq[g] - highestAckedSeq[g] <= MaxPacketWindowSize - 2
      /\ lastSendSeq[h] - highestAckedSeq[h] <= MaxPacketWindowSize - 2
      /\ lastSendSeq[h] <= InitialSendSeq[h] + MaxSend[h]
  BY <1>2, <1>3 DEF SendWindow
<1>6. /\ lastSeqRecvd[h] \in Nat /\ lastSendSeq[h] \in Nat
      /\ highestAckedSeq[h] \in Nat /\ lastSendSeq[g] \in Nat
      /\ lastSeqRecvd[g] \in Nat /\ highestAckedSeq[g] \in Nat
      /\ InitialSendSeq[h] \in Nat /\ MaxSend[h] \in Nat
  BY <1>1, <1>2, BoundAssumption
<1>7. FullSeq(h, p) = p.seq /\ lastSeqRecvd[h] <= p.seq
  <2>1. CASE p.seq < lastSeqRecvd[h]
    <3>1. FullSeq(h, p) = p.seq + SequenceNumberWindowSize
      BY <1>1, <1>6, <2>1, ReconstructStale, WindowAssumption DEF FullSeq, Deliverable
    <3> QED BY <1>1, <1>6, <3>1, WindowAssumption DEF Accepts, Deliverable
  <2>2. CASE p.seq >= lastSeqRecvd[h]
    <3>1. p.seq - lastSeqRecvd[h] < SequenceNumberWindowSize
      BY <1>1, <1>4, <1>5, <1>6, WindowAssumption
    <3> QED BY <1>1, <1>6, <2>2, <3>1, ReconstructExact, WindowAssumption DEF FullSeq
  <2> QED BY <1>1, <1>6, <2>1, <2>2
<1>8. FullAck(h, p) = p.ack /\ highestAckedSeq[h] <= p.ack
  <2>1. ASSUME p.ack < highestAckedSeq[h] PROVE FALSE
    <3>. highestAckedSeq[h] - p.ack <= AckSequenceNumberWindowSize
      BY <1>1, <1>5, <1>6, WindowAssumption DEF Deliverable
    <3>1. FullAck(h, p) = p.ack + AckSequenceNumberWindowSize
      BY <1>1, <1>6, <2>1, ReconstructStale, WindowAssumption DEF FullAck
    \* With a cipher the packet does not verify, whatever the comparison says.
    <3>2. CASE Encrypted
      BY <1>1, <3>1, <3>2, WindowAssumption DEF Accepts
    <3>3. CASE NoWrap
      <4>1. p.ack + AckSequenceNumberWindowSize > lastSendSeq[h]
        BY <1>1, <1>6, WindowAssumption DEF Deliverable
      <4>2. /\ p.ack + AckSequenceNumberWindowSize < Word /\ lastSendSeq[h] < Word
            /\ p.ack + AckSequenceNumberWindowSize \in Nat
        BY <1>1, <1>4, <1>5, <1>6, <2>1, <3>3, WindowAssumption DEF NoWrap
      <4>3. /\ U32(FullAck(h, p)) = FullAck(h, p)
            /\ U32(lastSendSeq[h]) = lastSendSeq[h]
        BY <1>6, <3>1, <4>2, U32Identity
      <4> QED BY <1>1, <1>6, <3>1, <4>1, <4>2, <4>3, WindowAssumption DEF Accepts
    <3> QED BY <3>2, <3>3 DEF WrapHarmless
  <2>2. CASE p.ack >= highestAckedSeq[h]
    <3>1. p.ack - highestAckedSeq[h] < AckSequenceNumberWindowSize
      BY <1>1, <1>4, <1>5, <1>6, WindowAssumption
    <3> QED BY <1>1, <1>6, <2>2, <3>1, ReconstructExact, WindowAssumption DEF FullAck
  <2> QED BY <1>1, <1>6, <2>1, <2>2
<1> QED BY <1>1, <1>2, <1>4, <1>7, <1>8

\* What mLastRecvAckAck becomes is something the peer has been told, and within
\* a window of the packet received.
LEMMA AckAckFacts ==
  ASSUME IInv, WrapHarmless, NEW h \in Host, NEW p \in net,
         Deliverable(h, p), Accepts(h, p)
  PROVE  /\ AckAckAfter(h, p) \in Nat
         /\ AckAckAfter(h, p) <= highestAckedSeq[Peer(h)]
         /\ p.seq - AckAckAfter(h, p) <= MaxPacketWindowSize
<1> DEFINE g == Peer(h)
           new == Delivered(h, p)
           last == CHOOSE s \in new : \A t \in new : t <= s
           told == IF new = {} THEN lastRecvAckAck[h]
                   ELSE lastSeqRecvdAtSend[h][last % MaxPacketWindowSize]
<1>1. /\ p \in PacketSet /\ p.src = g /\ FullSeq(h, p) = p.seq
      /\ FullAck(h, p) = p.ack /\ lastSeqRecvd[h] <= p.seq
      /\ p.seq <= lastSendSeq[g] /\ p.seq \in Nat /\ p.ack \in Nat
      /\ g \in Host /\ Peer(g) = h
  BY ReceiveFacts, PeerFacts DEF PacketSet
<1>2. /\ lastSendSeq[g] \in Nat /\ highestAckedSeq[g] \in Nat
      /\ highestAckedSeq[h] \in Nat /\ lastRecvAckAck[h] \in Int
      /\ lastSeqRecvdAtSend[h] \in [0 .. (MaxPacketWindowSize - 1) -> Nat]
      /\ MaxPacketWindowSize \in Nat
  BY <1>1, WindowAssumption DEF IInv, TypeOK
<1>3. /\ lastSendSeq[g] - highestAckedSeq[g] <= MaxPacketWindowSize - 2
      /\ lastRecvAckAck[h] >= 0 /\ lastRecvAckAck[h] <= highestAckedSeq[g]
  BY <1>1 DEF IInv, SendWindow, AckWindow
<1>4. told \in Nat /\ told <= highestAckedSeq[g]
  <2>1. CASE new = {}
    BY <1>2, <1>3, <2>1
  <2>2. CASE new # {}
    <3>1. /\ new \in SUBSET Nat /\ \A t \in new : t <= p.ack
          /\ \A t \in new : t > highestAckedSeq[h] /\ p.ack - t \in p.mask
      BY <1>1, <1>2 DEF Delivered, Notified
    <3>2. \E s \in new : \A t \in new : t <= s
      BY <1>1, <2>2, <3>1, MaxExists
    <3>3. last \in new
      BY <3>2
    <3> HIDE DEF last, new
    <3>4. last \in Nat /\ last > highestAckedSeq[h] /\ p.ack - last \in p.mask
      BY <3>1, <3>3
    <3>5. Told(g, p.ack - (p.ack - last))
      BY <1>1, <3>4 DEF IInv, PacketExact
    <3>6. p.ack - (p.ack - last) = last
      BY <1>1, <3>4
    <3>7. lastSeqRecvdAtSend[h][last % MaxPacketWindowSize] <= highestAckedSeq[g]
      BY <1>1, <3>4, <3>5, <3>6 DEF Told
    <3>8. last % MaxPacketWindowSize \in 0 .. (MaxPacketWindowSize - 1)
      BY <3>4, DivMod, WindowAssumption
    <3>9. lastSeqRecvdAtSend[h][last % MaxPacketWindowSize] \in Nat
      BY <1>2, <3>8
    <3> QED BY <2>2, <3>7, <3>9
  <2> QED BY <2>1, <2>2
<1>5. AckAckAfter(h, p) = IF p.seq - told > MaxPacketWindowSize
                          THEN p.seq - MaxPacketWindowSize ELSE told
  BY <1>1 DEF AckAckAfter
<1> HIDE DEF told, new, last
<1> QED BY SMTT(30), <1>1, <1>2, <1>3, <1>4, <1>5

-----------------------------------------------------------------------------
(* The invariant holds at first and is preserved by every step. *)

LEMMA InitIInv == Init => IInv
<1> SUFFICES ASSUME Init PROVE IInv
  OBVIOUS
<1>1. TypeOK
  <2>1. \A h \in Host : Peer(h) \in Host /\ InitialSendSeq[Peer(h)] \in Nat
    BY PeerFacts, BoundAssumption
  <2> QED BY <2>1, BoundAssumption DEF Init, TypeOK
<1>2. \A h \in Host : SendWindow(h) /\ AckWindow(h) /\ AckMaskExact(h)
  <2> TAKE h \in Host
  <2>1. Peer(h) \in Host /\ Peer(Peer(h)) = h
    BY PeerFacts
  <2> QED BY <2>1, BoundAssumption, WindowAssumption
          DEF Init, SendWindow, AckWindow, AckMaskExact
<1>3. \A h \in Host : NotifiesExact(h)
  BY PeerFacts, BoundAssumption DEF Init, NotifiesExact
<1>4. \A p \in net : PacketExact(p)
  BY DEF Init
<1> QED BY <1>1, <1>2, <1>3, <1>4 DEF IInv

LEMMA TimeOutIInv ==
  ASSUME IInv, NEW h \in Host, TimeOut(h)
  PROVE  IInv'
<1> USE DEF TimeOut, protocolVars
<1>1. TypeOK'
  BY SMTT(30) DEF IInv, TypeOK, Outstanding
<1>2. \A g \in Host : SendWindow(g)' /\ AckWindow(g)' /\ AckMaskExact(g)'
  BY DEF IInv, SendWindow, AckWindow, AckMaskExact, Told
<1>3. \A g \in Host : NotifiesExact(g)'
  BY DEF IInv, TypeOK, NotifiesExact, Outstanding
<1>4. \A p \in net' : PacketExact(p)'
  BY DEF IInv, PacketExact, Told
<1> QED BY <1>1, <1>2, <1>3, <1>4 DEF IInv

LEMMA LoseIInv ==
  ASSUME IInv, NEW p \in net, Lose(p)
  PROVE  IInv'
<1> USE DEF Lose, protocolVars, historyVars
<1>1. TypeOK'
  BY DEF IInv, TypeOK
<1>2. \A g \in Host : /\ SendWindow(g)' /\ AckWindow(g)' /\ AckMaskExact(g)'
                      /\ NotifiesExact(g)'
  BY DEF IInv, SendWindow, AckWindow, AckMaskExact, Told, NotifiesExact, Outstanding
<1>3. \A q \in net' : PacketExact(q)'
  BY DEF IInv, PacketExact, Told
<1> QED BY <1>1, <1>2, <1>3 DEF IInv

\* The acks that a host has to send at any time are as exact as its own state.
LEMMA AcksExact ==
  ASSUME IInv, NEW h \in Host, NEW type \in PacketType, NEW seq \in Nat,
         NEW q, q = Packet(h, type, seq, lastSeqRecvd[h], lastRecvAckAck[h], ackMask[h])
  PROVE  /\ q \in PacketSet
         /\ q.src = h /\ q.type = type /\ q.seq = seq /\ q.ack = lastSeqRecvd[h]
         /\ q.ack - q.covered <= highestAckedSeq[Peer(h)]
         /\ q.mask \subseteq ackMask[h]
         /\ \A s \in processed[h] :
              (s <= q.ack /\ q.ack - s < q.covered /\ q.ack - s < MaxPacketWindowSize)
                => q.ack - s \in q.mask
<1>1. /\ lastSeqRecvd[h] \in Nat /\ lastRecvAckAck[h] \in Nat
      /\ highestAckedSeq[Peer(h)] \in Nat /\ Peer(h) \in Host
      /\ ackMask[h] \in SUBSET (0 .. (MaxPacketWindowSize - 1))
      /\ processed[h] \in SUBSET Nat
  BY PeerFacts DEF IInv, TypeOK, AckWindow
<1>2. /\ lastRecvAckAck[h] <= highestAckedSeq[Peer(h)]
      /\ highestAckedSeq[Peer(h)] <= lastSeqRecvd[h]
  <2>1. Peer(Peer(h)) = h
    BY PeerFacts
  <2> QED BY <1>1, <2>1 DEF IInv, AckWindow, SendWindow
<1>3. q \in PacketSet /\ q.covered >= lastSeqRecvd[h] - lastRecvAckAck[h]
  BY <1>1, <1>2, PacketType_
<1>4. /\ q.src = h /\ q.type = type /\ q.seq = seq /\ q.ack = lastSeqRecvd[h]
      /\ q.mask = {n \in ackMask[h] : n < q.covered}
  BY DEF Packet
<1>5. \A s \in processed[h] :
        (s <= q.ack /\ q.ack - s < q.covered /\ q.ack - s < MaxPacketWindowSize)
          => q.ack - s \in q.mask
  BY <1>1, <1>4 DEF IInv, AckMaskExact
<1>6. q.covered \in Int
  BY <1>3 DEF PacketSet
<1> QED BY <1>1, <1>2, <1>3, <1>4, <1>5, <1>6

LEMMA SendPingIInv ==
  ASSUME IInv, NEW h \in Host, SendPing(h)
  PROVE  IInv'
<1> USE DEF historyVars
<1>q. PICK q : q = Packet(h, "Ping", lastSendSeq[h], lastSeqRecvd[h],
                          lastRecvAckAck[h], ackMask[h])
  OBVIOUS
<1>1. net' \subseteq net \cup {q}
  BY <1>q, SendAdds DEF SendPing
<1>2. /\ lastSendSeq[h] \in Nat /\ lastSeqRecvd[h] \in Nat /\ "Ping" \in PacketType
      /\ net \subseteq PacketSet
  BY DEF IInv, TypeOK, PacketType, PacketSet
<1>3. /\ q \in PacketSet
      /\ q.src = h /\ q.type = "Ping" /\ q.seq = lastSendSeq[h] /\ q.ack = lastSeqRecvd[h]
      /\ q.ack - q.covered <= highestAckedSeq[Peer(h)]
      /\ q.mask \subseteq ackMask[h]
      /\ \A s \in processed[h] :
           (s <= q.ack /\ q.ack - s < q.covered /\ q.ack - s < MaxPacketWindowSize)
             => q.ack - s \in q.mask
  BY <1>q, <1>2, AcksExact
<1>4. PacketExact(q)
  BY <1>2, <1>3 DEF PacketExact, IInv, AckMaskExact
<1>5. TypeOK'
  <2>1. net' \subseteq PacketSet
    BY <1>1, <1>2, <1>3
  <2>2. /\ pingSendCount' \in [Host -> Nat]
        /\ \A g \in Host : pingSendCount'[g] <= PingRetryCount[g]
    <3>1. /\ pingSendCount \in [Host -> Nat]
          /\ \A g \in Host : pingSendCount[g] <= PingRetryCount[g]
      BY DEF IInv, TypeOK
    <3>2. /\ pingSendCount[h] < PingRetryCount[h]
          /\ pingSendCount' = [pingSendCount EXCEPT ![h] = @ + 1]
      BY DEF SendPing
    <3>3. \A g \in Host : pingSendCount[g] \in Nat /\ PingRetryCount[g] \in Nat
      BY <3>1, BoundAssumption
    <3>4. pingSendCount[h] + 1 \in Nat /\ pingSendCount[h] + 1 <= PingRetryCount[h]
      BY <3>2, <3>3
    <3>5. pingSendCount' = [g \in Host |-> IF g = h THEN pingSendCount[h] + 1
                                          ELSE pingSendCount[g]]
      BY <3>1, <3>2
    <3> HIDE <3>2
    <3> QED BY <3>1, <3>3, <3>4, <3>5
  <2> QED BY <2>1, <2>2 DEF SendPing, IInv, TypeOK, PacketSet
<1>6. \A g \in Host : /\ SendWindow(g)' /\ AckWindow(g)' /\ AckMaskExact(g)'
                      /\ NotifiesExact(g)'
  BY DEF SendPing, IInv, SendWindow, AckWindow, AckMaskExact, Told, NotifiesExact,
         Outstanding
<1>7. \A p \in net' : PacketExact(p)'
  BY <1>1, <1>4 DEF SendPing, IInv, PacketExact, Told
<1> QED BY <1>5, <1>6, <1>7 DEF IInv

LEMMA SendDataIInv ==
  ASSUME IInv, NEW h \in Host, SendData(h)
  PROVE  IInv'
<1> DEFINE g == Peer(h)
<1> USE DEF historyVars
<1>s. PICK seq : seq = lastSendSeq[h] + 1
  OBVIOUS
<1>q. PICK q : q = Packet(h, "Data", seq, lastSeqRecvd[h], lastRecvAckAck[h], ackMask[h])
  OBVIOUS
<1>1. /\ lastSendSeq' = [lastSendSeq EXCEPT ![h] = seq]
      /\ lastSeqRecvdAtSend' =
           [lastSeqRecvdAtSend EXCEPT ![h][seq % MaxPacketWindowSize] = lastSeqRecvd[h]]
      /\ net' \subseteq net \cup {q}
      /\ UNCHANGED <<state, highestAckedSeq, lastSeqRecvd, lastRecvAckAck,
                     ackMask, pingSendCount, historyVars>>
      /\ state[h] = "open" /\ ~windowFull(h)
      /\ lastSendSeq[h] < InitialSendSeq[h] + MaxSend[h]
  BY <1>s, <1>q, SendAdds DEF SendData
<1>n. /\ lastSendSeq[h] \in Nat /\ highestAckedSeq[h] \in Nat /\ seq \in Nat
      /\ seq = lastSendSeq[h] + 1
      /\ MaxPacketWindowSize \in Nat /\ MaxPacketWindowSize > 2
      /\ InitialSendSeq[h] \in Nat /\ MaxSend[h] \in Nat
  BY SMTT(30), <1>s, WindowAssumption, BoundAssumption DEF IInv, TypeOK
<1>2. /\ lastSeqRecvd[h] \in Nat /\ lastSeqRecvd[g] \in Nat
      /\ g \in Host /\ Peer(g) = h /\ g # h
      /\ lastSendSeq \in [Host -> Nat]
      /\ lastSeqRecvdAtSend \in [Host -> [0 .. (MaxPacketWindowSize - 1) -> Nat]]
      /\ net \subseteq PacketSet
      /\ "Data" \in PacketType
  BY PeerFacts DEF IInv, TypeOK, PacketSet, PacketType
<1>3. seq % MaxPacketWindowSize \in 0 .. (MaxPacketWindowSize - 1)
  BY <1>n, DivMod
<1>4. /\ q \in PacketSet
      /\ q.src = h /\ q.type = "Data" /\ q.seq = seq /\ q.ack = lastSeqRecvd[h]
      /\ q.ack - q.covered <= highestAckedSeq[g]
      /\ q.mask \subseteq ackMask[h]
      /\ \A s \in processed[h] :
           (s <= q.ack /\ q.ack - s < q.covered /\ q.ack - s < MaxPacketWindowSize)
             => q.ack - s \in q.mask
  <2>1. seq \in Nat /\ "Data" \in PacketType
    BY <1>n, <1>2
  <2> QED BY <1>q, <2>1, AcksExact
\* The slot written is that of no other packet waiting for its notification.
<1>5. ASSUME NEW s \in Nat, s > highestAckedSeq[h], s <= lastSendSeq[h]
      PROVE  lastSeqRecvdAtSend'[h][s % MaxPacketWindowSize]
               = lastSeqRecvdAtSend[h][s % MaxPacketWindowSize]
  <2>1. lastSendSeq[h] - highestAckedSeq[h] <= MaxPacketWindowSize - 2
    BY DEF IInv, SendWindow
  <2>2. s # seq /\ s - seq < MaxPacketWindowSize /\ seq - s < MaxPacketWindowSize
    BY <1>n, <1>5, <2>1
  <2>3. s % MaxPacketWindowSize # seq % MaxPacketWindowSize
    <3>1. /\ s \in Nat /\ seq \in Nat /\ MaxPacketWindowSize \in Nat
          /\ MaxPacketWindowSize > 0
      BY <1>n, <1>5
    <3> QED BY <2>2, <3>1, SameResidue
  <2>4. s % MaxPacketWindowSize \in 0 .. (MaxPacketWindowSize - 1)
    BY <1>n, DivMod
  <2> QED BY <1>1, <1>2, <1>3, <2>3, <2>4
<1>6. /\ lastSeqRecvdAtSend'[h][seq % MaxPacketWindowSize] = lastSeqRecvd[h]
      /\ lastSeqRecvdAtSend'[g] = lastSeqRecvdAtSend[g]
  BY <1>1, <1>2, <1>3
<1>7. TypeOK'
  <2>1. net' \subseteq PacketSet
    BY <1>1, <1>2, <1>4
  <2>2. /\ lastSendSeq' \in [Host -> Nat]
        /\ lastSeqRecvdAtSend' \in [Host -> [0 .. (MaxPacketWindowSize - 1) -> Nat]]
    BY <1>1, <1>n, <1>2, <1>3
  <2> QED BY <1>1, <2>1, <2>2 DEF IInv, TypeOK, PacketSet
<1>8. \A x \in Host : SendWindow(x)' /\ AckWindow(x)'
  <2> TAKE x \in Host
  <2>1. AckWindow(x)'
    BY <1>1 DEF IInv, AckWindow
  <2>2. CASE x = h
    <3>1. SendWindow(h) /\ lastSendSeq'[h] = seq
      BY <1>1, <1>n, <1>2 DEF IInv
    <3>2. lastSendSeq[h] - highestAckedSeq[h] < MaxPacketWindowSize - 2
      BY <1>1, <1>n DEF windowFull
    <3>3. /\ seq - highestAckedSeq[h] <= MaxPacketWindowSize - 2
          /\ seq <= InitialSendSeq[h] + MaxSend[h]
          /\ lastSeqRecvd[g] <= lastSendSeq[h] => lastSeqRecvd[g] <= seq
      <4>1. lastSendSeq[h] < InitialSendSeq[h] + MaxSend[h] /\ lastSeqRecvd[g] \in Nat
        BY <1>1, <1>2
      <4> QED BY <1>n, <3>2, <4>1
    <3> QED BY <1>1, <2>1, <2>2, <3>1, <3>3 DEF SendWindow
  <2>3. CASE x = g
    <3>1. SendWindow(g) /\ lastSendSeq'[g] = lastSendSeq[g]
      BY <1>1, <1>2 DEF IInv
    <3> QED BY <1>1, <2>1, <2>3, <3>1 DEF SendWindow
  <2> QED BY <2>2, <2>3, PeerFacts
\* What is known of an old packet stays known: it is none that is sent now.
<1>9. ASSUME NEW x \in Host, NEW s \in Int, s <= lastSeqRecvd[x], Told(x, s)
      PROVE  Told(x, s)'
  <2>1. CASE x = h
    BY <1>1, <1>2, <1>6, <1>9, <2>1 DEF Told
  <2>2. CASE x = g
    <3>1. lastSeqRecvd[g] <= lastSendSeq[h]
      BY DEF IInv, SendWindow
    <3>2. s <= lastSendSeq[h]
      BY <1>n, <1>2, <1>9, <2>2, <3>1
    <3>3. CASE s > highestAckedSeq[h]
      <4>1. s \in Nat
        BY <1>n, <1>9, <3>3
      <4>2. /\ lastSeqRecvdAtSend'[h][s % MaxPacketWindowSize]
                 = lastSeqRecvdAtSend[h][s % MaxPacketWindowSize]
        BY <1>5, <3>2, <3>3, <4>1
      <4> QED BY <1>1, <1>2, <1>9, <2>2, <3>3, <4>2 DEF Told
    <3>4. CASE ~(s > highestAckedSeq[h])
      BY <1>1, <1>2, <2>2, <3>4 DEF Told
    <3> QED BY <3>3, <3>4
  <2> QED BY <2>1, <2>2, PeerFacts
<1>10. \A x \in Host : AckMaskExact(x)'
  <2> TAKE x \in Host
  <2>1. ASSUME NEW n \in ackMask[x]
        PROVE  Told(x, lastSeqRecvd[x] - n)'
    <3>1. PICK s : s = lastSeqRecvd[x] - n
      OBVIOUS
    <3>2. /\ n \in Nat /\ lastSeqRecvd[x] \in Nat /\ Told(x, s)
      BY <2>1, <3>1 DEF IInv, TypeOK, AckMaskExact
    <3>3. Told(x, s)'
      BY <1>9, <3>1, <3>2
    <3>4. (lastSeqRecvd[x] - n)' = s
      BY <1>1, <3>1
    <3> QED BY <3>3, <3>4 DEF Told
  <2> QED BY <1>1, <2>1 DEF IInv, AckMaskExact
<1>11. \A x \in Host : NotifiesExact(x)'
  BY <1>1, <1>n, <1>2 DEF IInv, TypeOK, NotifiesExact, Outstanding
<1>12. ASSUME NEW p \in net
       PROVE  PacketExact(p)'
  <2>1. /\ PacketExact(p) /\ p \in PacketSet
        /\ p.src \in Host /\ p.seq \in Nat /\ p.ack \in Nat
        /\ lastSeqRecvd[p.src] \in Nat /\ p.mask \subseteq Nat
        /\ highestAckedSeq[Peer(p.src)] \in Nat
    BY SMTT(30), <1>12, PeerFacts DEF IInv, TypeOK, PacketSet
  <2>2. \A n \in p.mask : Told(p.src, p.ack - n)'
    <3> TAKE n \in p.mask
    <3>1. Told(p.src, p.ack - n) /\ p.ack <= lastSeqRecvd[p.src] /\ n \in Nat
      BY <2>1 DEF PacketExact
    <3> QED BY <1>9, <2>1, <3>1
  <2>3. (p.type = "Data" /\ p.seq > highestAckedSeq[p.src])
          => lastSeqRecvdAtSend'[p.src][p.seq % MaxPacketWindowSize] = p.ack
    <3>1. CASE p.src = h
      BY <1>5, <2>1, <3>1 DEF PacketExact
    <3>2. CASE p.src = g
      BY <1>6, <2>1, <3>2 DEF PacketExact
    <3> QED BY <2>1, <3>1, <3>2, PeerFacts
  <2>4. p.seq <= lastSendSeq'[p.src]
    <3>1. p.seq <= lastSendSeq[p.src] /\ lastSendSeq[p.src] \in Nat
      BY <1>2, <2>1 DEF PacketExact
    <3>2. lastSendSeq'[p.src] = lastSendSeq[p.src] \/ lastSendSeq'[p.src] = lastSendSeq[p.src] + 1
      BY <1>n, <1>1, <1>2, <2>1
    <3> QED BY <2>1, <3>1, <3>2
  <2> QED BY <1>1, <2>1, <2>2, <2>3, <2>4 DEF PacketExact
<1>13. PacketExact(q)'
  <2>1. \A n \in q.mask : Told(h, q.ack - n)'
    <3> TAKE n \in q.mask
    <3>1. n \in ackMask'[h] /\ lastSeqRecvd'[h] = q.ack
      BY <1>1, <1>4
    <3>2. Told(h, lastSeqRecvd[h] - n)'
      BY <1>10, <3>1 DEF AckMaskExact
    <3> QED BY <3>1, <3>2 DEF Told
  <2>2. q.seq = lastSendSeq'[h]
    BY <1>1, <1>n, <1>2, <1>4
  <2>3. lastSeqRecvdAtSend'[h][q.seq % MaxPacketWindowSize] = q.ack
    BY <1>4, <1>6
  <2>4. q.seq <= lastSendSeq'[h] /\ q.ack <= lastSeqRecvd'[h]
    <3>1. q.seq = seq /\ q.ack = lastSeqRecvd'[h]
      BY <1>1, <1>4
    <3>2. seq \in Nat /\ lastSeqRecvd[h] \in Nat /\ lastSeqRecvd'[h] = lastSeqRecvd[h]
      BY <1>1, <1>n, <1>2
    <3> QED BY <2>2, <3>1, <3>2
  <2>5. ~Overtaking => \A n \in q.mask : q.ack - n \in processed[h]
    BY <1>4 DEF IInv, AckMaskExact
  <2> QED BY <1>1, <1>4, <2>1, <2>3, <2>4, <2>5 DEF PacketExact
<1> QED BY <1>1, <1>7, <1>8, <1>10, <1>11, <1>12, <1>13 DEF IInv

LEMMA ReceiveIInv ==
  ASSUME IInv, WrapHarmless, NEW h \in Host, NEW p \in net, Receive(h, p)
  PROVE  IInv'
<1> DEFINE g == Peer(h)
           M == MaxPacketWindowSize
<1>a. PICK aa : aa = AckAckAfter(h, p)
  OBVIOUS
<1>d. PICK new : new = Delivered(h, p)
  OBVIOUS
<1>m. PICK mask : mask = ShiftedMask(h, p)
  OBVIOUS
<1>q. PICK q : q = Packet(h, "Ack", lastSendSeq[h], p.seq, aa, mask)
  OBVIOUS
<1>1. /\ p \in PacketSet /\ p.src = g
      /\ FullSeq(h, p) = p.seq /\ FullAck(h, p) = p.ack
      /\ lastSeqRecvd[h] <= p.seq /\ p.seq <= lastSendSeq[g]
      /\ highestAckedSeq[h] <= p.ack /\ p.ack <= lastSeqRecvd[g]
  BY ReceiveFacts DEF Receive
<1>2. aa \in Nat /\ aa <= highestAckedSeq[g] /\ p.seq - aa <= M
  BY <1>a, AckAckFacts DEF Receive
<1>3. /\ p.seq \in Nat /\ p.ack \in Nat /\ p.covered \in Int /\ p.mask \subseteq 0 .. (M - 1)
      /\ g \in Host /\ Peer(g) = h /\ g # h /\ PacketExact(p)
  BY <1>1, PeerFacts DEF PacketSet, IInv
<1>n. /\ lastSendSeq[h] \in Nat /\ highestAckedSeq[h] \in Nat /\ lastSeqRecvd[h] \in Nat
      /\ lastSendSeq[g] \in Nat /\ highestAckedSeq[g] \in Nat /\ lastSeqRecvd[g] \in Nat
      /\ InitialSendSeq[h] \in Nat /\ InitialSendSeq[g] \in Nat
      /\ M \in Nat /\ M > 2
  BY <1>3, WindowAssumption, BoundAssumption DEF IInv, TypeOK
<1>w. /\ InitialSendSeq[h] <= highestAckedSeq[h]
      /\ lastSeqRecvd[g] <= lastSendSeq[h]
      /\ lastSendSeq[h] - highestAckedSeq[h] <= M - 2
      /\ highestAckedSeq[g] <= lastSeqRecvd[h]
  BY <1>3 DEF IInv, SendWindow
<1>4. /\ mask = {b \in 0 .. (M - 1) : b - (p.seq - lastSeqRecvd[h]) \in ackMask[h]}
                \cup (IF p.type = "Data" THEN {0} ELSE {})
      /\ mask \in SUBSET (0 .. (M - 1))
      /\ new = {s \in (highestAckedSeq[h] + 1) .. p.ack : p.ack - s \in p.mask}
      /\ Notified(h, p) = (highestAckedSeq[h] + 1) .. p.ack
      /\ new \in SUBSET Nat
  BY <1>m, <1>d, <1>1, <1>3, <1>n DEF ShiftedMask, Delivered, Notified
\* The steps of Receive, with the numbers of the header decoded.
<1>5. /\ state[h] = "open" /\ Deliverable(h, p)
      /\ ackMask' = [ackMask EXCEPT ![h] = mask]
      /\ acked' = [acked EXCEPT ![h] = @ \cup new]
      /\ nacked' = [nacked EXCEPT ![h] = @ \cup (Notified(h, p) \ new)]
      /\ lastRecvAckAck' = [lastRecvAckAck EXCEPT ![h] = aa]
      /\ highestAckedSeq' = [highestAckedSeq EXCEPT ![h] = p.ack]
      /\ pingSendCount' = [pingSendCount EXCEPT ![h] = 0]
      /\ lastSeqRecvd' = [lastSeqRecvd EXCEPT ![h] = p.seq]
      /\ processed' = IF p.type = "Data" /\ p.seq # lastSeqRecvd[h]
                      THEN [processed EXCEPT ![h] = @ \cup {p.seq}]
                      ELSE processed
      /\ UNCHANGED <<lastSendSeq, lastSeqRecvdAtSend, abandoned>>
  BY <1>a, <1>d, <1>m, <1>1, Zenon DEF Receive, Processes
<1>6. UNCHANGED state
  <2>1. p.ack <= lastSendSeq[h]
    BY <1>1, <1>3, <1>n, <1>w
  <2> QED BY <1>1, <2>1 DEF Receive
<1>7. net' \subseteq net \cup {q}
  <2>1. PICK left : /\ left \subseteq net
                    /\ Send(q, left) \/ net' = left
    BY <1>a, <1>m, <1>q, <1>1 DEF Receive
  <2> QED BY <2>1, SendAdds
<1>8. /\ ackMask'[h] = mask /\ ackMask'[g] = ackMask[g]
      /\ acked'[h] = acked[h] \cup new /\ acked'[g] = acked[g]
      /\ nacked'[h] = nacked[h] \cup (Notified(h, p) \ new) /\ nacked'[g] = nacked[g]
      /\ lastRecvAckAck'[h] = aa /\ lastRecvAckAck'[g] = lastRecvAckAck[g]
      /\ highestAckedSeq'[h] = p.ack /\ highestAckedSeq'[g] = highestAckedSeq[g]
      /\ lastSeqRecvd'[h] = p.seq /\ lastSeqRecvd'[g] = lastSeqRecvd[g]
      /\ processed'[g] = processed[g]
      /\ processed'[h] = IF p.type = "Data" /\ p.seq # lastSeqRecvd[h]
                         THEN processed[h] \cup {p.seq} ELSE processed[h]
  BY <1>3, <1>5 DEF IInv, TypeOK
<1>9. /\ q \in PacketSet /\ q.covered >= p.seq - aa
      /\ q.src = h /\ q.type = "Ack" /\ q.seq = lastSendSeq[h] /\ q.ack = p.seq
      /\ q.mask = {n \in mask : n < q.covered}
  <2>1. aa <= p.seq
    BY <1>1, <1>2, <1>3, <1>n, <1>w
  <2>2. "Ack" \in PacketType
    BY DEF PacketType
  <2>3. q \in PacketSet /\ q.covered >= p.seq - aa
    BY <1>q, <1>n, <1>2, <1>3, <1>4, <2>1, <2>2, PacketType_
  <2> QED BY <1>q, <2>3 DEF Packet
<1> HIDE DEF M
<1>10. TypeOK'
  <2>1. net' \subseteq PacketSet
    BY <1>7, <1>9 DEF IInv, TypeOK, PacketSet
  <2>2. /\ ackMask' \in [Host -> SUBSET (0 .. (M - 1))]
        /\ acked' \in [Host -> SUBSET Nat]
    BY <1>4, <1>5 DEF IInv, TypeOK, M
  <2>3. nacked' \in [Host -> SUBSET Nat]
    <3>1. Notified(h, p) \in SUBSET Nat
      BY <1>3, <1>4, <1>n
    <3> QED BY <1>5, <3>1 DEF IInv, TypeOK
  <2>4. /\ lastRecvAckAck' \in [Host -> Int]
        /\ highestAckedSeq' \in [Host -> Nat]
        /\ lastSeqRecvd' \in [Host -> Nat]
        /\ pingSendCount' \in [Host -> Nat]
        /\ \A x \in Host : pingSendCount'[x] <= PingRetryCount[x]
    <3>1. aa \in Int /\ p.ack \in Nat /\ p.seq \in Nat
      BY <1>2, <1>3
    <3>2. /\ lastRecvAckAck \in [Host -> Int] /\ highestAckedSeq \in [Host -> Nat]
          /\ lastSeqRecvd \in [Host -> Nat] /\ pingSendCount \in [Host -> Nat]
          /\ \A x \in Host : pingSendCount[x] <= PingRetryCount[x]
      BY DEF IInv, TypeOK
    <3> QED BY <1>5, <3>1, <3>2, BoundAssumption
  <2>5. processed' \in [Host -> SUBSET Nat]
    BY <1>3, <1>5 DEF IInv, TypeOK
  <2> QED BY <1>5, <1>6, <2>1, <2>2, <2>3, <2>4, <2>5 DEF IInv, TypeOK, PacketSet, M
<1>11. \A x \in Host : SendWindow(x)' /\ AckWindow(x)'
  <2>1. SendWindow(h)'
    BY <1>1, <1>3, <1>5, <1>8, <1>n, <1>w DEF IInv, SendWindow, M
  <2>2. SendWindow(g)'
    BY <1>1, <1>3, <1>5, <1>8, <1>n, <1>w DEF IInv, SendWindow, M
  <2>3. AckWindow(h)'
    BY <1>2, <1>3, <1>8 DEF AckWindow, M
  <2>4. AckWindow(g)'
    <3>1. lastRecvAckAck[g] \in Int /\ AckWindow(g)
      BY <1>3 DEF IInv, TypeOK
    <3> QED BY <1>1, <1>3, <1>8, <1>n, <3>1 DEF AckWindow
  <2> QED BY <2>1, <2>2, <2>3, <2>4, PeerFacts
\* The peer of x is told no less than before.
<1>12. ASSUME NEW x \in Host, NEW s \in Int, Told(x, s)
       PROVE  Told(x, s)'
  <2>1. /\ highestAckedSeq[x] <= highestAckedSeq'[x]
        /\ highestAckedSeq[Peer(x)] <= highestAckedSeq'[Peer(x)]
        /\ highestAckedSeq[x] \in Nat /\ highestAckedSeq'[x] \in Nat
        /\ highestAckedSeq[Peer(x)] \in Nat /\ highestAckedSeq'[Peer(x)] \in Nat
    BY <1>1, <1>3, <1>8, <1>n, PeerFacts
  <2>2. CASE s > highestAckedSeq[Peer(x)]
    <3>1. s \in Nat
      BY <2>1, <2>2
    <3>2. s % MaxPacketWindowSize \in 0 .. (MaxPacketWindowSize - 1)
      BY <1>n, <3>1, DivMod DEF M
    <3>3. lastSeqRecvdAtSend[Peer(x)][s % MaxPacketWindowSize] \in Nat
      <4>1. lastSeqRecvdAtSend[Peer(x)] \in [0 .. (MaxPacketWindowSize - 1) -> Nat]
        BY PeerFacts DEF IInv, TypeOK
      <4> QED BY <3>2, <4>1
    <3>4. lastSeqRecvdAtSend[Peer(x)][s % MaxPacketWindowSize] <= highestAckedSeq[x]
      BY <1>12, <2>2 DEF Told
    <3>5. lastSeqRecvdAtSend[Peer(x)][s % MaxPacketWindowSize] <= highestAckedSeq'[x]
      BY <2>1, <3>3, <3>4
    <3> QED BY <1>5, <3>5 DEF Told
  <2>3. CASE ~(s > highestAckedSeq[Peer(x)])
    <3>1. ~(s > highestAckedSeq'[Peer(x)])
      BY <2>1, <2>3
    <3> QED BY <3>1 DEF Told
  <2> QED BY <2>2, <2>3
<1>13. AckMaskExact(h)'
  <2> DEFINE shift == p.seq - lastSeqRecvd[h]
  <2>1. shift \in Nat
    BY <1>1, <1>3, <1>n
  <2>2. ASSUME NEW n \in mask, n - shift \in ackMask[h]
        PROVE  /\ Told(h, p.seq - n)'
               /\ ~Overtaking => p.seq - n \in processed'[h]
    <3>1. n \in Nat /\ lastSeqRecvd[h] - (n - shift) = p.seq - n /\ p.seq - n \in Int
      <4>1. n \in Nat
        BY <1>4, <1>n, <2>2
      <4> QED BY <1>3, <1>n, <4>1
    <3>2. /\ Told(h, lastSeqRecvd[h] - (n - shift))
          /\ ~Overtaking => lastSeqRecvd[h] - (n - shift) \in processed[h]
      BY <2>2 DEF IInv, AckMaskExact
    <3>3. Told(h, p.seq - n)
      BY <3>1, <3>2
    <3>4. Told(h, p.seq - n)'
      BY <1>12, <3>1, <3>3
    <3> QED BY <1>8, <3>1, <3>2, <3>4
  <2>3. ASSUME p.type = "Data"
        PROVE  /\ Told(h, p.seq)'
               /\ ~Overtaking => p.seq \in processed'[h]
    <3>1. p.seq > highestAckedSeq[g]
            => lastSeqRecvdAtSend[g][p.seq % MaxPacketWindowSize] = p.ack
      BY <1>1, <1>3, <2>3 DEF PacketExact
    <3>2. Told(h, p.seq)'
      BY <1>3, <1>5, <1>8, <3>1 DEF Told
    <3>3. ~Overtaking => p.seq \in processed'[h]
      BY <1>5, <1>8, <2>3 DEF Deliverable
    <3> QED BY <3>2, <3>3
  <2>4. ASSUME NEW n \in mask
        PROVE  /\ Told(h, p.seq - n)'
               /\ ~Overtaking => p.seq - n \in processed'[h]
    <3>1. CASE n - shift \in ackMask[h]
      BY <2>2, <3>1
    <3>2. CASE n = 0 /\ p.type = "Data"
      <4>1. p.seq - n = p.seq
        BY <1>3, <3>2
      <4> QED BY <2>3, <3>2, <4>1
    <3> QED BY <1>4, <3>1, <3>2
  <2>5. ASSUME NEW s \in processed'[h]
        PROVE  /\ s <= p.seq
               /\ p.seq - s < M => p.seq - s \in mask
    <3>1. CASE s \in processed[h]
      <4>1. /\ s \in Nat /\ s <= lastSeqRecvd[h]
            /\ lastSeqRecvd[h] - s < M => lastSeqRecvd[h] - s \in ackMask[h]
        BY <3>1 DEF IInv, TypeOK, AckMaskExact, M
      <4>2. ASSUME p.seq - s < M
            PROVE  p.seq - s \in mask
        <5>1. p.seq - s \in 0 .. (M - 1) /\ lastSeqRecvd[h] - s < M
          BY <1>1, <1>3, <1>n, <4>1, <4>2
        <5>2. (p.seq - s) - shift = lastSeqRecvd[h] - s
          BY <1>3, <1>n, <4>1
        <5>3. (p.seq - s) - shift \in ackMask[h]
          BY <4>1, <5>1, <5>2
        <5> QED BY <1>4, <5>1, <5>3 DEF M
      <4>3. s <= p.seq
        BY <1>1, <1>3, <1>n, <4>1
      <4> QED BY <4>2, <4>3
    <3>2. CASE s = p.seq /\ p.type = "Data"
      BY <1>3, <1>4, <3>2
    <3> QED BY <1>8, <3>1, <3>2
  <2> QED BY <1>8, <2>4, <2>5 DEF AckMaskExact, M
<1>14. AckMaskExact(g)'
  <2>1. ASSUME NEW n \in ackMask[g]
        PROVE  Told(g, lastSeqRecvd[g] - n)'
    <3>1. PICK s : s = lastSeqRecvd[g] - n
      OBVIOUS
    <3>2. Told(g, s) /\ s \in Int
      <4>1. AckMaskExact(g) /\ n \in Nat
        BY <1>3, <2>1 DEF IInv, TypeOK
      <4> QED BY <1>n, <2>1, <3>1, <4>1 DEF AckMaskExact
    <3>3. Told(g, s)'
      BY <1>3, <1>12, <3>2
    <3>4. (lastSeqRecvd[g] - n)' = s
      BY <1>8, <3>1
    <3> QED BY <3>3, <3>4 DEF Told
  <2> QED BY <1>3, <1>8, <2>1 DEF IInv, AckMaskExact
\* The packet read is newer than all that any packet in the network tells of.
<1>15. ASSUME NEW r \in net
       PROVE  PacketExact(r)'
  <2>1. /\ PacketExact(r) /\ r.src \in Host
        /\ r.seq \in Nat /\ r.ack \in Nat /\ r.covered \in Int /\ r.mask \subseteq Nat
    <3>1. r \in PacketSet /\ PacketExact(r)
      BY <1>15 DEF IInv, TypeOK, PacketSet
    <3> QED BY <3>1 DEF PacketSet
  <2>2. CASE r.src = h
    <3>1. r.ack <= lastSeqRecvd[h] /\ r.seq <= lastSendSeq'[h]
      BY <1>5, <2>1, <2>2 DEF PacketExact
    <3>2. r.ack <= lastSeqRecvd'[h]
      BY <1>1, <1>3, <1>8, <1>n, <2>1, <3>1
    <3>3. r.ack - r.covered <= highestAckedSeq'[g]
      BY <1>8, <2>1, <2>2 DEF PacketExact
    <3>4. (r.type = "Data" /\ r.seq > highestAckedSeq'[h])
            => lastSeqRecvdAtSend'[h][r.seq % MaxPacketWindowSize] = r.ack
      <4>1. r.seq > highestAckedSeq'[h] => r.seq > highestAckedSeq[h]
        BY <1>1, <1>3, <1>8, <1>n, <2>1
      <4> QED BY <1>5, <2>1, <2>2, <4>1 DEF PacketExact
    <3>5. \A n \in r.mask : Told(h, r.ack - n)'
      <4> TAKE n \in r.mask
      <4>1. Told(h, r.ack - n) /\ r.ack - n \in Int
        BY <2>1, <2>2 DEF PacketExact
      <4> QED BY <1>12, <4>1
    <3>6. ASSUME NEW s \in processed'[h], s <= r.ack, r.ack - s < r.covered, r.ack - s < M
          PROVE  r.ack - s \in r.mask
      <4>1. ~(s = p.seq /\ p.seq # lastSeqRecvd[h])
        BY <1>1, <1>3, <1>n, <2>1, <3>1, <3>6
      <4>2. s \in processed[h]
        BY <1>8, <4>1
      <4> QED BY <2>1, <2>2, <3>6, <4>2 DEF PacketExact, M
    <3>7. ~Overtaking => \A n \in r.mask : r.ack - n \in processed'[h]
      BY <1>8, <2>1, <2>2 DEF PacketExact
    <3> QED BY <2>2, <3>1, <3>2, <3>3, <3>4, <3>5, <3>6, <3>7 DEF PacketExact, M
  <2>3. CASE r.src = g
    <3>1. r.ack - r.covered <= highestAckedSeq'[h]
      <4>1. r.ack - r.covered <= highestAckedSeq[h] /\ r.ack - r.covered \in Int
        BY <1>3, <2>1, <2>3 DEF PacketExact
      <4> QED BY <1>1, <1>3, <1>8, <1>n, <4>1
    <3>2. \A n \in r.mask : Told(g, r.ack - n)'
      <4> TAKE n \in r.mask
      <4>1. Told(g, r.ack - n) /\ r.ack - n \in Int
        BY <2>1, <2>3 DEF PacketExact
      <4> QED BY <1>3, <1>12, <4>1
    <3> QED BY <1>3, <1>5, <1>8, <2>1, <2>3, <3>1, <3>2 DEF PacketExact
  <2> QED BY <2>1, <2>2, <2>3, PeerFacts
<1>16. PacketExact(q)'
  <2>1. q.covered \in Int
    BY <1>9 DEF PacketSet
  <2>2. q.ack - q.covered <= highestAckedSeq'[g]
    BY <1>2, <1>3, <1>8, <1>9, <1>n, <2>1
  <2>3. q.seq <= lastSendSeq'[h] /\ q.ack <= lastSeqRecvd'[h]
    BY <1>3, <1>5, <1>8, <1>9, <1>n
  <2>4. \A n \in q.mask : /\ Told(h, q.ack - n)'
                          /\ ~Overtaking => q.ack - n \in processed'[h]
    <3> TAKE n \in q.mask
    <3>1. n \in ackMask'[h] /\ lastSeqRecvd'[h] = q.ack
      BY <1>8, <1>9
    <3>2. /\ Told(h, lastSeqRecvd[h] - n)'
          /\ ~Overtaking => lastSeqRecvd'[h] - n \in processed'[h]
      BY <1>13, <3>1 DEF AckMaskExact
    <3> QED BY <3>1, <3>2 DEF Told
  <2>5. \A s \in processed'[h] :
          (s <= q.ack /\ q.ack - s < q.covered /\ q.ack - s < MaxPacketWindowSize)
            => q.ack - s \in q.mask
    <3> TAKE s \in processed'[h]
    <3>1. q.ack - s < MaxPacketWindowSize => q.ack - s \in mask
      BY <1>8, <1>9, <1>13 DEF AckMaskExact
    <3> QED BY <1>9, <3>1
  <2> QED BY <1>9, <2>2, <2>3, <2>4, <2>5 DEF PacketExact
<1>17. NotifiesExact(h)'
  <2>1. /\ NotifiesExact(h) /\ acked[h] \in SUBSET Nat /\ nacked[h] \in SUBSET Nat
        /\ processed[g] \in SUBSET Nat
    BY <1>3 DEF IInv, TypeOK
  <2>2. acked'[h] \cup nacked'[h] = (InitialSendSeq[h] + 1) .. p.ack
    <3>1. new \cup (Notified(h, p) \ new) = (highestAckedSeq[h] + 1) .. p.ack
      BY <1>4
    <3>2. ((InitialSendSeq[h] + 1) .. highestAckedSeq[h])
            \cup ((highestAckedSeq[h] + 1) .. p.ack) = (InitialSendSeq[h] + 1) .. p.ack
      BY <1>1, <1>3, <1>n, <1>w
    <3>3. acked[h] \cup nacked[h] = (InitialSendSeq[h] + 1) .. highestAckedSeq[h]
      BY <2>1 DEF NotifiesExact
    <3> QED BY <1>8, <3>1, <3>2, <3>3
  <2>3. acked'[h] \cap nacked'[h] = {}
    <3>1. \A s \in acked[h] \cup nacked[h] : s <= highestAckedSeq[h] /\ s \in Nat
      BY <1>n, <2>1 DEF NotifiesExact
    <3>2. \A s \in Notified(h, p) : s > highestAckedSeq[h] /\ s \in Nat
      BY SMTT(30), <1>3, <1>4, <1>n
    <3>3. (acked[h] \cup nacked[h]) \cap Notified(h, p) = {}
      BY <1>n, <3>1, <3>2
    <3>4. new \subseteq Notified(h, p) /\ acked[h] \cap nacked[h] = {}
      BY <1>4, <2>1 DEF NotifiesExact
    <3> QED BY <1>8, <3>3, <3>4
  <2>4. nacked'[h] \cap processed'[g] = {}
    <3>1. ASSUME NEW s \in Notified(h, p) \ new, s \in processed[g]
          PROVE  FALSE
      <4>1. /\ s \in Nat /\ s > highestAckedSeq[h] /\ s <= p.ack /\ p.ack - s \notin p.mask
        BY SMTT(30), <1>3, <1>4, <1>n, <3>1
      <4>2. p.ack - p.covered <= highestAckedSeq[h]
        BY <1>1, <1>3 DEF PacketExact
      <4>3. p.ack - s < p.covered /\ p.ack - s < MaxPacketWindowSize
        BY <1>1, <1>3, <1>n, <1>w, <4>1, <4>2 DEF M
      <4> QED BY <1>1, <1>3, <3>1, <4>1, <4>3 DEF PacketExact
    <3> QED BY <1>8, <2>1, <3>1 DEF NotifiesExact
  <2>5. ~Overtaking => acked'[h] \subseteq processed'[g]
    <3>1. ASSUME NEW s \in new, ~Overtaking
          PROVE  s \in processed[g]
      <4>1. s \in Nat /\ p.ack - s \in p.mask
        BY <1>3, <1>4, <1>n
      <4>2. p.ack - (p.ack - s) = s
        BY <1>3, <4>1
      <4> QED BY <1>1, <1>3, <3>1, <4>1, <4>2 DEF PacketExact
    <3> QED BY <1>8, <2>1, <3>1 DEF NotifiesExact
  <2> QED BY <1>3, <1>5, <1>6, <1>8, <2>1, <2>2, <2>3, <2>4, <2>5
          DEF NotifiesExact, Outstanding
<1>18. NotifiesExact(g)'
  <2>1. NotifiesExact(g)
    BY <1>3 DEF IInv
  <2>2. \A s \in nacked[g] : s <= highestAckedSeq[g] /\ s \in Nat
    BY <1>3, <1>n, <2>1 DEF IInv, TypeOK, NotifiesExact
  <2>3. p.seq # lastSeqRecvd[h] => p.seq \notin nacked[g]
    BY <1>1, <1>3, <1>n, <1>w, <2>2
  <2>4. nacked'[g] \cap processed'[h] = {}
    BY <1>3, <1>8, <2>1, <2>3 DEF NotifiesExact
  <2>5. ~Overtaking => acked'[g] \subseteq processed'[h]
    BY <1>3, <1>8, <2>1 DEF NotifiesExact
  <2> QED BY <1>3, <1>5, <1>6, <1>8, <2>1, <2>4, <2>5 DEF NotifiesExact, Outstanding
<1> QED
  <2>1. \A r \in net' : PacketExact(r)'
    BY <1>7, <1>15, <1>16
  <2>2. \A x \in Host : AckMaskExact(x)' /\ NotifiesExact(x)'
    BY <1>13, <1>14, <1>17, <1>18, PeerFacts
  <2> QED BY <1>10, <1>11, <2>1, <2>2 DEF IInv

LEMMA NextIInv ==
  ASSUME IInv, WrapHarmless, [Next]_vars
  PROVE  IInv'
<1>1. CASE UNCHANGED vars
  <2> USE <1>1 DEF vars, protocolVars, historyVars
  <2>1. TypeOK'
    BY DEF IInv, TypeOK
  <2>2. \A g \in Host : /\ SendWindow(g)' /\ AckWindow(g)' /\ AckMaskExact(g)'
                        /\ NotifiesExact(g)'
    BY DEF IInv, SendWindow, AckWindow, AckMaskExact, Told, NotifiesExact, Outstanding
  <2>3. \A q \in net' : PacketExact(q)'
    BY DEF IInv, PacketExact, Told
  <2> QED BY <2>1, <2>2, <2>3 DEF IInv
<1>2. ASSUME NEW h \in Host, SendData(h) \/ SendPing(h) \/ TimeOut(h)
      PROVE  IInv'
  BY <1>2, SendDataIInv, SendPingIInv, TimeOutIInv
<1>3. ASSUME NEW h \in Host, NEW p \in net, Receive(h, p)
      PROVE  IInv'
  BY <1>3, ReceiveIInv
<1>4. ASSUME NEW p \in net, Lose(p)
      PROVE  IInv'
  BY <1>4, LoseIInv
<1> QED BY <1>1, <1>2, <1>3, <1>4 DEF Next

\* The inductive invariant, from which the theorems below follow.
THEOREM Invariant == WrapHarmless => (Spec => []IInv)
<1> SUFFICES ASSUME WrapHarmless PROVE Spec => []IInv
  OBVIOUS
<1>1. Init => IInv
  BY InitIInv
<1>2. IInv /\ [Next]_vars => IInv'
  BY NextIInv
<1> QED BY <1>1, <1>2, PTL DEF Spec

-----------------------------------------------------------------------------
(* What the invariant says in the terms of the properties that TLC checks. *)

\* Every field of the connection stays in its range.
THEOREM TypeCorrect == WrapHarmless => (Spec => []TypeOK)
<1> SUFFICES ASSUME WrapHarmless PROVE Spec => []TypeOK
  OBVIOUS
<1>1. IInv => TypeOK
  BY DEF IInv
<1> QED BY <1>1, Invariant, PTL

\* packetDropped is never called for a packet that the remote host has read or
\* will read, whatever the network loses, repeats and reorders.
THEOREM DroppedSound == WrapHarmless => (Spec => []DroppedNeverProcessed)
<1> SUFFICES ASSUME WrapHarmless PROVE Spec => []DroppedNeverProcessed
  OBVIOUS
<1>1. IInv => DroppedNeverProcessed
  BY DEF IInv, NotifiesExact, DroppedNeverProcessed
<1> QED BY <1>1, Invariant, PTL

\* packetReceived is called only for a packet that was read, as long as no ping
\* or ack overtakes a data packet.
THEOREM ReceivedSound ==
  WrapHarmless /\ ~Overtaking => (Spec => []ReceivedWasProcessed)
<1> SUFFICES ASSUME WrapHarmless, ~Overtaking
             PROVE  Spec => []ReceivedWasProcessed
  OBVIOUS
<1>1. IInv => ReceivedWasProcessed
  BY DEF IInv, NotifiesExact, ReceivedWasProcessed
<1> QED BY <1>1, Invariant, PTL

\* handleNotify never runs out of notes: on a connection with a cipher wherever
\* the 32-bit counters start and although they wrap around, on one without a
\* cipher as long as they do not.  The comparison of the ack number with
\* mLastSendSeq alone does not give it: up to a window before mLastSendSeq wraps
\* around, the number made of an old ack has wrapped around and passes.
THEOREM NotifyQueueSound == WrapHarmless => (Spec => []NotifyQueueNotEmpty)
<1> SUFFICES ASSUME WrapHarmless PROVE Spec => []NotifyQueueNotEmpty
  OBVIOUS
<1>1. IInv => NotifyQueueNotEmpty
  BY DEF IInv, NotifiesExact, NotifyQueueNotEmpty
<1> QED BY <1>1, Invariant, PTL

\* The acks owed fit in the ack mask, and the sending window is respected.
THEOREM WindowsSound == WrapHarmless => (Spec => []WindowsHold)
<1> SUFFICES ASSUME WrapHarmless PROVE Spec => []WindowsHold
  OBVIOUS
<1>1. ASSUME IInv
      PROVE  WindowsHold
  <2> SUFFICES ASSUME NEW h \in Host
               PROVE  /\ lastSeqRecvd[h] - lastRecvAckAck[h] \in 0 .. MaxPacketWindowSize
                      /\ lastSendSeq[h] - highestAckedSeq[h]
                           \in 0 .. (MaxPacketWindowSize - 2)
    BY DEF WindowsHold
  <2>1. /\ lastSendSeq[h] \in Nat /\ highestAckedSeq[h] \in Nat
        /\ lastSeqRecvd[h] \in Nat /\ lastRecvAckAck[h] \in Int
        /\ highestAckedSeq[Peer(h)] \in Nat /\ lastSeqRecvd[Peer(h)] \in Nat
        /\ Peer(h) \in Host /\ Peer(Peer(h)) = h /\ MaxPacketWindowSize \in Nat
    BY <1>1, PeerFacts, WindowAssumption DEF IInv, TypeOK
  <2>2. /\ highestAckedSeq[h] <= lastSeqRecvd[Peer(h)]
        /\ lastSeqRecvd[Peer(h)] <= lastSendSeq[h]
        /\ lastSendSeq[h] - highestAckedSeq[h] <= MaxPacketWindowSize - 2
        /\ highestAckedSeq[Peer(h)] <= lastSeqRecvd[h]
        /\ lastRecvAckAck[h] <= highestAckedSeq[Peer(h)]
        /\ lastSeqRecvd[h] - lastRecvAckAck[h] <= MaxPacketWindowSize
    BY <1>1, <2>1 DEF IInv, SendWindow, AckWindow
  <2> QED BY <2>1, <2>2, WindowAssumption
<1> QED BY <1>1, Invariant, PTL

\* No packet is notified twice, none is left out, and the destructor notifies
\* what is left.
THEOREM NotifiedOnceSound == WrapHarmless => (Spec => []NotifiedOnce)
<1> SUFFICES ASSUME WrapHarmless PROVE Spec => []NotifiedOnce
  OBVIOUS
<1>1. ASSUME IInv
      PROVE  NotifiedOnce
  <2> SUFFICES ASSUME NEW h \in Host
               PROVE  /\ acked[h] \cap nacked[h] = {}
                      /\ (acked[h] \cup nacked[h]) \cap abandoned[h] = {}
                      /\ acked[h] \cup nacked[h]
                           = (InitialSendSeq[h] + 1) .. highestAckedSeq[h]
                      /\ state[h] = "closed" => abandoned[h] = Outstanding(h)
    BY DEF NotifiedOnce
  <2>1. NotifiesExact(h)
    BY <1>1 DEF IInv
  <2>2. /\ highestAckedSeq[h] \in Nat /\ lastSendSeq[h] \in Nat
        /\ InitialSendSeq[h] \in Nat
    BY <1>1, BoundAssumption DEF IInv, TypeOK
  <2>3. ((InitialSendSeq[h] + 1) .. highestAckedSeq[h]) \cap Outstanding(h) = {}
    BY <2>2 DEF Outstanding
  <2> QED BY <2>1, <2>3 DEF NotifiesExact
<1> QED BY <1>1, Invariant, PTL

\* The low bits in a header stand for the numbers that the sender meant.
THEOREM DecodingSound == WrapHarmless => (Spec => []HeaderDecodedExactly)
<1> SUFFICES ASSUME WrapHarmless PROVE Spec => []HeaderDecodedExactly
  OBVIOUS
<1>1. IInv => HeaderDecodedExactly
  BY ReceiveFacts DEF HeaderDecodedExactly
<1> QED BY <1>1, Invariant, PTL

\* A packet about to be read is newer than every packet read before.
THEOREM ProcessedSound == WrapHarmless => (Spec => []ProcessedOnceInOrder)
<1> SUFFICES ASSUME WrapHarmless PROVE Spec => []ProcessedOnceInOrder
  OBVIOUS
<1>1. ASSUME IInv
      PROVE  ProcessedOnceInOrder
  <2> SUFFICES ASSUME NEW h \in Host, NEW p \in net, Deliverable(h, p),
                      Accepts(h, p), Processes(h, p), NEW s \in processed[h]
               PROVE  s < p.seq
    BY DEF ProcessedOnceInOrder
  <2>1. FullSeq(h, p) = p.seq /\ lastSeqRecvd[h] <= p.seq /\ p.seq \in Nat
    BY <1>1, ReceiveFacts DEF PacketSet
  <2>2. s \in Nat /\ lastSeqRecvd[h] \in Nat /\ s <= lastSeqRecvd[h]
    BY <1>1 DEF IInv, TypeOK, AckMaskExact
  <2>3. p.seq # lastSeqRecvd[h]
    BY <2>1 DEF Processes
  <2> QED BY <2>1, <2>2, <2>3
<1> QED BY <1>1, Invariant, PTL

\* The header of a packet carries an ack bit for every packet it notifies.
THEOREM CoverSound == WrapHarmless => (Spec => []AckMaskCoversNotifies)
<1> SUFFICES ASSUME WrapHarmless PROVE Spec => []AckMaskCoversNotifies
  OBVIOUS
<1>1. ASSUME IInv
      PROVE  AckMaskCoversNotifies
  <2> SUFFICES ASSUME NEW h \in Host, NEW p \in net, Deliverable(h, p), Accepts(h, p)
               PROVE  FullAck(h, p) - highestAckedSeq[h] <= p.covered
    BY DEF AckMaskCoversNotifies
  <2>1. FullAck(h, p) = p.ack /\ p.src = Peer(h) /\ p \in PacketSet
    BY <1>1, ReceiveFacts
  <2>2. /\ p.ack \in Nat /\ p.covered \in Int /\ highestAckedSeq[h] \in Nat
        /\ Peer(Peer(h)) = h
    BY <1>1, <2>1, PeerFacts DEF PacketSet, IInv, TypeOK
  <2>3. p.ack - p.covered <= highestAckedSeq[h]
    BY <1>1, <2>1, <2>2 DEF IInv, PacketExact
  <2> QED BY <2>1, <2>2, <2>3
<1> QED BY <1>1, Invariant, PTL
-----------------------------------------------------------------------------
(* Each direction of the connection implements NotifyService. *)

\* A packet received is read or skipped by the service of the peer's direction,
\* and notifies packets of the service of the host's own.
LEMMA ReceiveRefines ==
  ASSUME IInv, WrapHarmless, NEW h \in Host, NEW p \in net, Receive(h, p)
  PROVE  \A x \in Host : \/ Direction(x)!ServiceNext
                         \/ UNCHANGED Direction(x)!serviceVars
<1> DEFINE g == Peer(h)
<1>1. /\ p \in PacketSet /\ p.src = g
      /\ FullSeq(h, p) = p.seq /\ FullAck(h, p) = p.ack
      /\ lastSeqRecvd[h] <= p.seq /\ p.seq <= lastSendSeq[g]
      /\ highestAckedSeq[h] <= p.ack /\ p.ack <= lastSeqRecvd[g]
      /\ g \in Host /\ Peer(g) = h /\ g # h
  BY ReceiveFacts, PeerFacts DEF Receive
<1>2. /\ p.seq \in Nat /\ p.ack \in Nat /\ p.covered \in Int /\ p.mask \subseteq Nat
      /\ lastSendSeq[h] \in Nat /\ highestAckedSeq[h] \in Nat /\ lastSeqRecvd[h] \in Nat
      /\ lastSendSeq[g] \in Nat /\ lastSeqRecvd[g] \in Nat /\ MaxPacketWindowSize \in Nat
  BY <1>1, WindowAssumption DEF PacketSet, IInv, TypeOK
<1>3. PICK new : new = Delivered(h, p)
  OBVIOUS
<1>4. /\ acked' = [acked EXCEPT ![h] = @ \cup new]
      /\ nacked' = [nacked EXCEPT ![h] = @ \cup (((highestAckedSeq[h] + 1) .. p.ack) \ new)]
      /\ highestAckedSeq' = [highestAckedSeq EXCEPT ![h] = p.ack]
      /\ lastSeqRecvd' = [lastSeqRecvd EXCEPT ![h] = p.seq]
      /\ processed' = IF p.type = "Data" /\ p.seq # lastSeqRecvd[h]
                      THEN [processed EXCEPT ![h] = @ \cup {p.seq}]
                      ELSE processed
      /\ UNCHANGED lastSendSeq
  BY <1>1, <1>3, Zenon DEF Receive, Processes, Notified
<1>5. state' = state /\ state[h] = "open"
  <2>1. p.ack <= lastSendSeq[h] /\ state[h] = "open"
    BY <1>1, <1>2 DEF IInv, SendWindow, Receive
  <2> QED BY <1>1, <2>1 DEF Receive
<1>6. /\ acked'[h] = acked[h] \cup new /\ acked'[g] = acked[g]
      /\ nacked'[h] = nacked[h] \cup (((highestAckedSeq[h] + 1) .. p.ack) \ new)
      /\ nacked'[g] = nacked[g]
      /\ highestAckedSeq'[h] = p.ack /\ highestAckedSeq'[g] = highestAckedSeq[g]
      /\ lastSeqRecvd'[h] = p.seq /\ lastSeqRecvd'[g] = lastSeqRecvd[g]
      /\ processed'[g] = processed[g]
      /\ processed'[h] = IF p.type = "Data" /\ p.seq # lastSeqRecvd[h]
                         THEN processed[h] \cup {p.seq} ELSE processed[h]
  BY <1>1, <1>4 DEF IInv, TypeOK
\* Every packet that was read has its ack bit, and no other one has if nothing
\* is overtaken.
<1>7. /\ new \in SUBSET ((highestAckedSeq[h] + 1) .. p.ack)
      /\ processed[g] \cap ((highestAckedSeq[h] + 1) .. p.ack) \subseteq new
      /\ ~Overtaking => new \subseteq processed[g]
  <2>1. new = {s \in (highestAckedSeq[h] + 1) .. p.ack : p.ack - s \in p.mask}
    BY <1>1, <1>3 DEF Delivered, Notified
  <2>2. ASSUME NEW s \in (highestAckedSeq[h] + 1) .. p.ack
        PROVE  /\ s \in processed[g] => p.ack - s \in p.mask
               /\ ~Overtaking /\ p.ack - s \in p.mask => s \in processed[g]
    <3>1. /\ s \in Nat /\ s > highestAckedSeq[h] /\ s <= p.ack /\ p.ack - (p.ack - s) = s
      BY <1>2
    <3>2. /\ p.ack - p.covered <= highestAckedSeq[h]
          /\ lastSendSeq[h] - highestAckedSeq[h] <= MaxPacketWindowSize - 2
          /\ lastSeqRecvd[g] <= lastSendSeq[h]
      BY <1>1 DEF IInv, PacketExact, SendWindow
    <3>3. p.ack - s < p.covered /\ p.ack - s < MaxPacketWindowSize
      BY <1>1, <1>2, <3>1, <3>2
    <3>4. ~Overtaking /\ p.ack - s \in p.mask => p.ack - (p.ack - s) \in processed[g]
      BY <1>1 DEF IInv, PacketExact
    <3>5. s \in processed[g] => p.ack - s \in p.mask
      BY <1>1, <3>1, <3>3 DEF IInv, PacketExact
    <3> QED BY <3>1, <3>4, <3>5
  <2> QED BY <2>1, <2>2
<1>8. \/ Direction(h)!ServiceNext
      \/ UNCHANGED Direction(h)!serviceVars
  <2>1. CASE p.ack = highestAckedSeq[h]
    <3>1. (highestAckedSeq[h] + 1) .. p.ack = {}
      BY <1>2, <2>1
    <3> QED BY <1>1, <1>4, <1>5, <1>6, <1>7, <2>1, <3>1 DEF Direction!serviceVars
  <2>2. CASE p.ack # highestAckedSeq[h]
    <3>1. p.ack \in (highestAckedSeq[h] + 1) .. lastSeqRecvd[g]
      BY <1>1, <1>2, <2>2
    <3>2. Direction(h)!Notify(p.ack)
      BY <1>1, <1>4, <1>5, <1>6, <1>7, <3>1 DEF Direction!Notify
    <3> QED BY <3>1, <3>2 DEF Direction!ServiceNext
  <2> QED BY <2>1, <2>2
<1>9. \/ Direction(g)!ServiceNext
      \/ UNCHANGED Direction(g)!serviceVars
  <2>1. CASE p.seq = lastSeqRecvd[h]
    BY <1>1, <1>4, <1>5, <1>6, <2>1 DEF Direction!serviceVars
  <2>2. CASE p.seq # lastSeqRecvd[h]
    <3>1. p.seq \in (lastSeqRecvd[h] + 1) .. lastSendSeq[g]
      BY <1>1, <1>2, <2>2
    <3>2. Direction(g)!Read(p.seq) \/ Direction(g)!Skip(p.seq)
      BY <1>1, <1>4, <1>5, <1>6, <2>2, <3>1 DEF Direction!Read, Direction!Skip
    <3> QED BY <1>1, <3>1, <3>2 DEF Direction!ServiceNext
  <2> QED BY <2>1, <2>2
<1> QED BY <1>8, <1>9, PeerFacts

LEMMA SendDataRefines ==
  ASSUME IInv, NEW h \in Host, SendData(h)
  PROVE  \A x \in Host : \/ Direction(x)!ServiceNext
                         \/ UNCHANGED Direction(x)!serviceVars
<1> DEFINE g == Peer(h)
<1>1. /\ g \in Host /\ g # h /\ Peer(g) = h
      /\ lastSendSeq \in [Host -> Nat] /\ lastSendSeq[h] \in Nat
      /\ highestAckedSeq[h] \in Nat /\ MaxPacketWindowSize \in Nat
  BY PeerFacts, WindowAssumption DEF IInv, TypeOK
<1>2. /\ state[h] = "open" /\ ~windowFull(h)
      /\ lastSendSeq' = [lastSendSeq EXCEPT ![h] = lastSendSeq[h] + 1]
      /\ UNCHANGED <<state, highestAckedSeq, lastSeqRecvd, processed, acked, nacked>>
  BY DEF SendData, historyVars
<1>3. lastSendSeq'[h] = lastSendSeq[h] + 1 /\ lastSendSeq'[g] = lastSendSeq[g]
  BY <1>1, <1>2
<1>4. lastSendSeq[h] - highestAckedSeq[h] < MaxPacketWindowSize - 2
  BY <1>1, <1>2 DEF windowFull
<1>5. Direction(h)!Write
  BY <1>2, <1>3, <1>4 DEF Direction!Write
<1>6. UNCHANGED Direction(g)!serviceVars
  BY <1>2, <1>3 DEF Direction!serviceVars
<1> QED BY <1>5, <1>6, PeerFacts DEF Direction!ServiceNext

LEMMA TimeOutRefines ==
  ASSUME IInv, NEW h \in Host, TimeOut(h)
  PROVE  \A x \in Host : \/ Direction(x)!ServiceNext
                         \/ UNCHANGED Direction(x)!serviceVars
<1> DEFINE g == Peer(h)
<1>1. /\ g \in Host /\ g # h
      /\ state \in [Host -> {"open", "closed", "crashed"}]
  BY PeerFacts DEF IInv, TypeOK
<1>2. /\ state[h] = "open"
      /\ state'[h] = "closed" /\ state'[g] = state[g]
      /\ UNCHANGED <<lastSendSeq, highestAckedSeq, lastSeqRecvd, processed, acked, nacked>>
  BY <1>1 DEF TimeOut, protocolVars
<1>3. Direction(h)!Close
  BY <1>2 DEF Direction!Close
<1>4. UNCHANGED Direction(g)!serviceVars
  BY <1>2 DEF Direction!serviceVars
<1> QED BY <1>3, <1>4, PeerFacts DEF Direction!ServiceNext

\* Each direction of a connection is a NotifyService: what the subclasses of
\* NetConnection are written against.  It is a faithful one on a network in
\* which no ping or ack overtakes a data packet.
THEOREM Implementation == WrapHarmless => (Spec => ImplementsService)
<1> SUFFICES ASSUME WrapHarmless PROVE Spec => ImplementsService
  OBVIOUS
<1>1. Init => \A h \in Host : Direction(h)!ServiceInit
  <2> SUFFICES ASSUME Init, NEW h \in Host PROVE Direction(h)!ServiceInit
    OBVIOUS
  <2>1. Peer(h) \in Host /\ Peer(Peer(h)) = h
    BY PeerFacts
  <2> QED BY <2>1 DEF Init, Direction!ServiceInit
<1>2. ASSUME IInv, Next
      PROVE  \A h \in Host : \/ Direction(h)!ServiceNext
                             \/ UNCHANGED Direction(h)!serviceVars
  <2>1. ASSUME NEW h \in Host, SendData(h) \/ TimeOut(h)
        PROVE  \A x \in Host : \/ Direction(x)!ServiceNext
                               \/ UNCHANGED Direction(x)!serviceVars
    BY <1>2, <2>1, SendDataRefines, TimeOutRefines
  <2>2. ASSUME NEW h \in Host, NEW p \in net, Receive(h, p)
        PROVE  \A x \in Host : \/ Direction(x)!ServiceNext
                               \/ UNCHANGED Direction(x)!serviceVars
    BY <1>2, <2>2, ReceiveRefines
  <2>3. ASSUME NEW h \in Host, SendPing(h)
        PROVE  \A x \in Host : UNCHANGED Direction(x)!serviceVars
    BY <2>3 DEF SendPing, historyVars, Direction!serviceVars
  <2>4. ASSUME NEW p \in net, Lose(p)
        PROVE  \A x \in Host : UNCHANGED Direction(x)!serviceVars
    BY <2>4 DEF Lose, protocolVars, historyVars, Direction!serviceVars
  <2> QED BY <1>2, <2>1, <2>2, <2>3, <2>4 DEF Next
<1>3. IInv /\ [Next]_vars
        => [\A h \in Host : \/ Direction(h)!ServiceNext
                            \/ UNCHANGED Direction(h)!serviceVars]_vars
  BY <1>2
<1> QED BY <1>1, <1>3, Invariant, PTL DEF Spec, ImplementsService
=============================================================================
