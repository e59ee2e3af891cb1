---------------------------- MODULE NotifyService ----------------------------
(***************************************************************************)
(* What NetConnection promises to its subclasses about one direction of a  *)
(* connection (the comments of packetReceived and packetDropped in         *)
(* tnl/tnlNetConnection.h): every packet written is notified, in the order *)
(* of writing, as received if the remote host has read it and as dropped   *)
(* if it never will.  Packets are read in order, each at most once.  Only  *)
(* on a network where pings and acks may overtake data packets can a       *)
(* packet that was never read be notified as received.                     *)
(***************************************************************************)
EXTENDS Integers

CONSTANTS
    First,      \* the number before the first packet
    Window,     \* packets that may be waiting for their notification
    Faithful    \* nothing is notified as received that was not read

ASSUME ServiceAssumption ==
    First \in Nat /\ Window \in Nat /\ Faithful \in BOOLEAN

VARIABLES
    sent,       \* number of the last packet written
    notified,   \* number of the last packet notified
    floor,      \* packets up to this number were read or never will be
    read,       \* the packets the remote host has read
    received,   \* the packets notified as received
    dropped,    \* the packets notified as dropped
    open        \* the writing end of the connection exists

serviceVars == <<sent, notified, floor, read, received, dropped, open>>

ServiceInit ==
    /\ sent = First
    /\ notified = First
    /\ floor = First
    /\ read = {} /\ received = {} /\ dropped = {}
    /\ open = TRUE

\* A packet is written and sent.
Write ==
    /\ open
    /\ sent - notified < Window
    /\ sent' = sent + 1
    /\ UNCHANGED <<notified, floor, read, received, dropped, open>>

\* Packet k is read by the remote host.
Read(k) ==
    /\ k \in (floor + 1) .. sent
    /\ floor' = k
    /\ read' = read \cup {k}
    /\ UNCHANGED <<sent, notified, received, dropped, open>>

\* The remote host learns that packet k was written without reading it.
Skip(k) ==
    /\ k \in (floor + 1) .. sent
    /\ floor' = k
    /\ UNCHANGED <<sent, notified, read, received, dropped, open>>

\* The packets up to k are notified.
Notify(k) ==
    /\ open
    /\ k \in (notified + 1) .. floor
    /\ notified' = k
    /\ \E acks \in SUBSET ((notified + 1) .. k) :
         /\ read \cap ((notified + 1) .. k) \subseteq acks
         /\ Faithful => acks \subseteq read
         /\ received' = received \cup acks
         /\ dropped' = dropped \cup (((notified + 1) .. k) \ acks)
    /\ UNCHANGED <<sent, floor, read, open>>

\* The writing end goes away.
Close ==
    /\ open
    /\ open' = FALSE
    /\ UNCHANGED <<sent, notified, floor, read, received, dropped>>

ServiceNext ==
    \/ Write
    \/ \E k \in (floor + 1) .. sent : Read(k) \/ Skip(k)
    \/ \E k \in (notified + 1) .. floor : Notify(k)
    \/ Close

ServiceSpec == ServiceInit /\ [][ServiceNext]_serviceVars

-----------------------------------------------------------------------------
\* Packets are read, lost and notified in order, each in one way.
ServiceInv ==
    /\ First \in Nat /\ notified \in Nat /\ floor \in Nat /\ sent \in Nat
    /\ First <= notified /\ notified <= floor /\ floor <= sent
    /\ read \subseteq (First + 1) .. floor
    /\ received \cup dropped = (First + 1) .. notified
    /\ received \cap dropped = {}
    /\ read \cap ((First + 1) .. notified) \subseteq received
    /\ Faithful => received \subseteq read
=============================================================================
