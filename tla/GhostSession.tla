----------------------------- MODULE GhostSession -----------------------------
(***************************************************************************)
(* The ghosting sessions of a GhostConnection (tnl/ghostConnection.cpp):   *)
(* activateGhosting and resetGhosting on the server, the RPCs by which the *)
(* two hosts agree on where a session starts and ends, and the calls of a  *)
(* ghost to its parent (tnl/netObject.cpp), around GhostConnection.        *)
(*                                                                         *)
(* The RPCs are guaranteed ordered events (EventConnection): numbered,     *)
(* sent in packets, sent again when the packet is dropped and processed in *)
(* their order.                                                            *)
(***************************************************************************)
EXTENDS GhostConnection, Sequences

CONSTANTS
    MaxSessions,    \* bound: calls of activateGhosting, and of resetGhosting
    MaxCalls        \* bound: RPCs from ghosts to their parents

ASSUME SessionAssumption == {MaxSessions, MaxCalls} \subseteq Nat

VARIABLES
    ghosting,           \* mGhosting
    scoping,            \* mScoping
    ghostingSequence,   \* mGhostingSequence
    rpcs,               \* history: the RPCs of the server in their order
    rpcQueue,           \* the numbers of those to be sent
    rpcsIn,             \* the numbers of those in the packets not notified
    rpcsRead,           \* the numbers of those read by the client
    ready,              \* the rpcReadyForNormalGhosts under way to the server, by
                        \* their sequences, which rise in the order of the calls
    calls,              \* the RPCs to parents under way to the server
    misdirected         \* history: the sessions of calls that reached another object

rpcVars == <<rpcs, rpcQueue, rpcsIn, rpcsRead, ready>>
callVars == <<calls, misdirected>>
sessionVars == <<ghosting, scoping, ghostingSequence, rpcVars, callVars>>
allVars == <<vars, sessionVars>>

-----------------------------------------------------------------------------
StartGhosting(sequence) == [name |-> "rpcStartGhosting", sequence |-> sequence]
EndGhosting == [name |-> "rpcEndGhosting"]

Post(rpc) ==
    /\ rpcs' = Append(rpcs, rpc)
    /\ rpcQueue' = rpcQueue \cup {Len(rpcs) + 1}

\* The numbers of the RPCs that start sessions, and of those that end them.
Starts == {n \in DOMAIN rpcs : rpcs[n] # EndGhosting}
Ends == DOMAIN rpcs \ Starts

\* The RPCs that the client can process when it has read those of the set.
ProcessedOf(set) == {n \in set : 1 .. n \subseteq set}

\* The ghosts of the client after it has processed the RPCs.
AfterRpcs(new) ==
    IF \E n \in new : rpcs[n] = EndGhosting
    THEN [i \in Index |-> NoGhost] ELSE localGhosts

\* The session that the client is in: the sequence of the last start processed.
ClientSession ==
    LET starts == {n \in ProcessedOf(rpcsRead) : rpcs[n] # EndGhosting}
    IN  IF starts = {} THEN 0 ELSE rpcs[Max(starts)].sequence

\* rpcStartGhosting is answered with its sequence.
Answers(new) == {rpcs[n].sequence : n \in {n \in new : rpcs[n] # EndGhosting}}

AnySessionFault(sequence) == TRUE

IsCurrent(sequence) == sequence = ghostingSequence

NotesKeptFault == ghostList

\* clearGhostInfo empties the lists of the packets not notified yet.
ClearedNotes == [k \in DOMAIN ghostList |-> <<>>]

StartsFormerFault == StartGhosting(ghostingSequence)

\* The RPC that activateGhosting posts after it has incremented the sequence.
StartRpc == StartGhosting(ghostingSequence + 1)

-----------------------------------------------------------------------------
SessionInit ==
    /\ GhostInit
    /\ ghosting = FALSE
    /\ scoping = FALSE
    /\ ghostingSequence = 0
    /\ rpcs = <<>>
    /\ rpcQueue = {}
    /\ rpcsIn = [k \in {} |-> {}]
    /\ rpcsRead = {}
    /\ ready = {}
    /\ calls = {}
    /\ misdirected = {}

\* The application activates ghosting only when there are no ghosts in the list
\* (its assertion).
ActivateGhosting ==
    /\ ~scoping
    /\ Cardinality(Starts) < MaxSessions
    /\ ghostingSequence' = ghostingSequence + 1
    /\ scoping' = TRUE
    /\ Post(StartRpc)
    /\ UNCHANGED <<vars, ghosting, rpcsIn, rpcsRead, ready, callVars>>

\* The application may reset ghosting whether it is active or not.
ResetGhosting ==
    /\ Cardinality(Ends) < MaxSessions
    /\ ghosting' = FALSE
    /\ scoping' = FALSE
    /\ Post(EndGhosting)
    /\ ghostingSequence' = ghostingSequence + 1
    /\ ghostList' = ClearedNotes
    /\ ghostRefs' = [i \in Index |-> FreeGhost]
    /\ UNCHANGED <<serviceVars, objectVars, dirtyMaskBits, wire, emptyPackets,
                   localGhosts, rpcsIn, rpcsRead, ready, callVars>>

\* The first rpcReadyForNormalGhosts under way arrives.
ReadyForNormalGhosts ==
    /\ \E sequence \in ready :
         /\ \A other \in ready : sequence <= other
         /\ ready' = ready \ {sequence}
         /\ ghosting' = (ghosting \/ IsCurrent(sequence))
    /\ UNCHANGED <<vars, scoping, ghostingSequence, rpcs, rpcQueue, rpcsIn,
                   rpcsRead, callVars>>

\* objectInScope finds nothing to do outside of a session.
ScopedIfScoping == IF scoping THEN Scoped ELSE {Collapsed}

\* A change of the objects or of the scope.
ObjectsChange ==
    /\ \/ \E o \in Object : \/ \E b \in MaskBit : SetMaskBits(o, b)
                           \/ Delete(o) \/ SetScopeObject(o)
       \/ ChangeScope
    /\ UNCHANGED sessionVars

\* writePacket writes no ghosts before the client is ready for them, nor without a
\* scope object.
WritesGhosts == ghosting /\ scopeObject # NoObject

\* A tick that sends no packet, because the window is full or nothing is to be sent.
Tick ==
    /\ dirtyMaskBits' = [o \in Object |-> {}]
    /\ ghostRefs' \in ScopedIfScoping
    /\ \/ sent - notified >= Window
       \/ /\ rpcQueue = {}
          /\ \/ NonZero(ghostRefs') = {}
             \/ ~WritesGhosts /\ emptyPackets = MaxEmptyPackets
    /\ UNCHANGED <<serviceVars, objectVars, packetVars, localGhosts, sessionVars>>

\* writePacket with the events that fit, one at least.
SendRpcs ==
    \E n \in 0 .. Len(rpcs) :
      LET new == rpcQueue \cap (1 .. n) IN
      /\ new = {} => rpcQueue = {}
      /\ rpcQueue' = rpcQueue \ new
      /\ rpcsIn' = Extended(rpcsIn, new)

\* A packet with the RPCs to be sent, or with nothing: ghosts that have something to
\* update are reason enough to send it (isDataToTransmit).
WriteWithoutGhosts ==
    /\ ~WritesGhosts
    /\ Write
    /\ dirtyMaskBits' = [o \in Object |-> {}]
    /\ ghostRefs' \in ScopedIfScoping
    /\ IF rpcQueue # {} THEN UNCHANGED emptyPackets
       ELSE /\ NonZero(ghostRefs') # {} /\ emptyPackets < MaxEmptyPackets
            /\ emptyPackets' = emptyPackets + 1
    /\ ghostList' = Extended(ghostList, <<>>)
    /\ wire' = Extended(wire, <<>>)
    /\ SendRpcs
    /\ UNCHANGED <<objectVars, localGhosts, ghosting, scoping, ghostingSequence,
                   rpcs, rpcsRead, ready, callVars>>

WriteGhosts ==
    /\ ghosting
    /\ WritePacket
    /\ SendRpcs
    /\ UNCHANGED <<ghosting, scoping, ghostingSequence, rpcs, rpcsRead, ready,
                   callVars>>

\* readPacket: the events come before the updates.
ReadSessionPacket(k) ==
    LET known == rpcsRead \cup rpcsIn[k]
        new == ProcessedOf(known) \ ProcessedOf(rpcsRead)
        ghosts == AfterRpcs(new)
    IN  /\ Cardinality(((First + 1) .. (k - 1)) \ read) <= MaxLost
        /\ Read(k)
        /\ rpcsRead' = known
        /\ ready' = ready \cup Answers(new)
        /\ localGhosts' = [i \in Index |->
             IF i \in DOMAIN wire[k] THEN Unpacked(ghosts[i], wire[k][i])
             ELSE ghosts[i]]
        /\ UNCHANGED <<objectVars, dirtyMaskBits, ghostRefs, packetVars, ghosting,
                       scoping, ghostingSequence, rpcs, rpcQueue, rpcsIn, callVars>>

SessionPacketLost(k) ==
    /\ LosePacket(k)
    /\ UNCHANGED sessionVars

\* The calls that may still be read when the next packet has been notified: the
\* packet that tells of it is read, and acks more than those of the others.
UnderWay == {call \in calls : call.ack > notified}

SessionPacketReceived ==
    /\ PacketReceived
    /\ rpcsIn' = Forgotten(rpcsIn)
    /\ calls' = UnderWay
    /\ UNCHANGED <<ghosting, scoping, ghostingSequence, rpcs, rpcQueue, rpcsRead,
                   ready, misdirected>>

SessionPacketDropped ==
    /\ PacketDropped
    /\ rpcQueue' = rpcQueue \cup rpcsIn[notified + 1]
    /\ rpcsIn' = Forgotten(rpcsIn)
    /\ calls' = UnderWay
    /\ UNCHANGED <<ghosting, scoping, ghostingSequence, rpcs, rpcsRead, ready,
                   misdirected>>

\* A ghost of the client calls its parent; the packet acks what the client has
\* read, and so is read before any that acks more.
CallParent(i) ==
    /\ localGhosts[i] # NoGhost
    /\ Cardinality(calls) < MaxCalls
    /\ calls' = calls \cup {[index |-> i, obj |-> localGhosts[i].obj,
                             session |-> ClientSession, ack |-> floor]}
    /\ UNCHANGED <<vars, ghosting, scoping, ghostingSequence, rpcVars, misdirected>>

\* The object that NetObjectRPCEvent finds for a ghost id: resolveGhostParent.
ParentOf(call) == ghostRefs[call.index].obj

\* The packet with the call is read, after what it acks was notified.
ParentCalled(call) ==
    /\ call.ack = notified
    /\ misdirected' = IF ParentOf(call) \in {call.obj, NoObject} THEN misdirected
                      ELSE misdirected \cup {call.session}
    /\ calls' = calls \ {call}
    /\ UNCHANGED <<vars, ghosting, scoping, ghostingSequence, rpcVars>>

SessionNext ==
    \/ ActivateGhosting
    \/ ResetGhosting
    \/ ReadyForNormalGhosts
    \/ ObjectsChange
    \/ Tick
    \/ WriteWithoutGhosts
    \/ WriteGhosts
    \/ \E k \in (floor + 1) .. sent : ReadSessionPacket(k) \/ SessionPacketLost(k)
    \/ SessionPacketReceived
    \/ SessionPacketDropped
    \/ \E i \in Index : CallParent(i)
    \/ \E call \in calls : ParentCalled(call)

SessionSpec == SessionInit /\ [][SessionNext]_allVars

\* As for GhostConnection; the answers of the client get through.
FairSessionSpec ==
    /\ SessionSpec
    /\ WF_allVars(WriteWithoutGhosts) /\ WF_allVars(WriteGhosts)
    /\ WF_allVars(\E k \in (floor + 1) .. sent : ReadSessionPacket(k))
    /\ WF_allVars(SessionPacketReceived) /\ WF_allVars(SessionPacketDropped)
    /\ WF_allVars(ReadyForNormalGhosts)

-----------------------------------------------------------------------------
SessionTypeOK ==
    /\ GhostTypeOK
    /\ {ghosting, scoping} \subseteq BOOLEAN
    /\ ghostingSequence \in Nat
    /\ rpcs \in Seq([name : {"rpcStartGhosting"}, sequence : Nat]
                      \cup [name : {"rpcEndGhosting"}])
    /\ rpcQueue \subseteq DOMAIN rpcs /\ rpcsRead \subseteq DOMAIN rpcs
    /\ DOMAIN rpcsIn = (notified + 1) .. sent
    /\ \A k \in DOMAIN rpcsIn : rpcsIn[k] \subseteq DOMAIN rpcs \ rpcQueue
    /\ ready \subseteq Nat
    /\ calls \subseteq [index : Index, obj : Object, session : Nat, ack : Nat]
    /\ misdirected \subseteq Nat

\* GhostIdsAgree and AvailableIsThere are to hold across sessions as well: no
\* update of one session is read in another, however the RPCs of the sessions
\* and their answers cross, and what the server takes for available is there.

\* A packet that is notified after the session it was written in has ended says
\* nothing about the ghosts of the next one (clearGhostInfo): what is under way
\* of a ghost id is what its notes say.
NotesOfSession ==
    \A i \in Index : \A k \in DOMAIN ghostList :
       i \in DOMAIN ghostList[k] =>
          /\ ghostRefs[i].segment # "free"
          /\ i \in DOMAIN wire[k]
          /\ wire[k][i].kind = ghostList[k][i].ghostInfoFlags
          /\ wire[k][i].kind # "KillingGhost" =>
               ghostRefs[i].obj \in {wire[k][i].obj, NoObject}

\* The state of both ends is well formed across sessions.
SessionStateOK == SessionTypeOK /\ NotesOfSession

\* A call of a ghost reaches the object that the ghost is of, or none, if the
\* session it was made in is the current one.  (Calls of a former session may reach
\* any object that has the ghost id by then.)
CallsReachParent == ghostingSequence \notin misdirected

\* The client gets the ghosts of the last session unless it has ended or has no
\* scope object: no crossing of RPCs leaves the server waiting for an answer.
EventuallyGhosting ==
    <>[](scoping => /\ ghosting
                    /\ scopeObject # NoObject /\ scope # {} =>
                         \E i \in Index : localGhosts[i].obj \in scope)
-----------------------------------------------------------------------------
(* The inductive invariant behind the properties.  While the client is ready *)
(* for ghosts, GhostConnection's account of every ghost holds; before that,  *)
(* nothing was written about any of them, and the client has either given up *)
(* the ghosts of the former session, and will read no more of them, or will  *)
(* do so at an rpcEndGhosting that comes after all that it may still read.   *)

Unread == (floor + 1) .. sent

\* The ids of both ends count the RPCs of the server, which start and end
\* sessions; a start is answered once it is processed.
RpcsInOrder ==
    /\ ghostingSequence = Len(rpcs)
    /\ \A n \in DOMAIN rpcs : rpcs[n] # EndGhosting => rpcs[n].sequence = n
    /\ scoping <=> (rpcs # <<>> /\ rpcs[Len(rpcs)] # EndGhosting)
    /\ \A n \in ready : /\ n \in ProcessedOf(rpcsRead) /\ rpcs[n] # EndGhosting

\* Each RPC is to be sent, or in one packet under way, or notified.
RpcsApart ==
    \A j, k \in DOMAIN rpcsIn : j # k => rpcsIn[j] \cap rpcsIn[k] = {}

\* The client can read what is under way.
Readable(update) ==
    update.kind # "KillingGhost" =>
       update.obj \in Object /\ \E m \in SUBSET MaskBit : update.value \in [m -> Nat]

NotesRemembered ==
    /\ \A k \in DOMAIN ghostList : \A i \in DOMAIN ghostList[k] :
         i \in Index /\ i \in DOMAIN wire[k] /\ Remembers(ghostList[k][i], wire[k][i])
    /\ \A k \in Unread : \A i \in DOMAIN wire[k] :
         i \in Index /\ Readable(wire[k][i])

\* A ghost of the server of which nothing was written.
Waiting(g) ==
    /\ g \in GhostInfo /\ (SafeClears => SegmentHolds(g))
    /\ \/ g = FreeGhost
       \/ /\ "NotYetGhosted" \in g.flags
          /\ g.flags \subseteq {"NotYetGhosted", "KillGhost"}
          /\ g.segment # "free"
          /\ "KillGhost" \in g.flags => g.segment = "nonzero"
          /\ \E o \in Object : KnownAs(g, o)

\* The packets with an update of ghost i that may still be read.
Incoming(i) == {k \in Unread : i \in DOMAIN wire[k]}

\* They create the ghost, or update and at last destroy the one that is there.
ClientAgrees(i) ==
    \/ /\ localGhosts[i] = NoGhost
       /\ \A k \in Incoming(i) : Incoming(i) = {k} /\ wire[k][i].kind = "Ghosting"
    \/ /\ localGhosts[i].obj \in Object
       /\ \A k \in Incoming(i) :
            \/ wire[k][i].kind = "Update" /\ wire[k][i].obj = localGhosts[i].obj
            \/ wire[k][i].kind = "KillingGhost" /\ \A j \in Incoming(i) : j <= k

\* The client has no ghosts, and gets none.
ClientCleared ==
    /\ \A i \in Index : localGhosts[i] = NoGhost
    /\ \A k \in Unread : DOMAIN wire[k] = {}

\* RPC n, which the client is to process next, ends the session of all ghosts that
\* it has or gets before.
EndAwaited(n) ==
    /\ n \in DOMAIN rpcs /\ rpcs[n] = EndGhosting
    /\ n \notin rpcsRead /\ 1 .. (n - 1) \subseteq rpcsRead
    /\ \A j, k \in Unread : (n \in rpcsIn[j] /\ DOMAIN wire[k] # {}) => k < j

InSession ==
    /\ scoping /\ DOMAIN rpcs \subseteq rpcsRead
    /\ \A i \in Index : GhostAccounted(ghostRefs[i], i)
    /\ \A k \in Unread : DOMAIN wire[k] = DOMAIN ghostList[k]

BetweenSessions ==
    /\ \A k \in DOMAIN ghostList : DOMAIN ghostList[k] = {}
    /\ \A i \in Index : /\ Waiting(ghostRefs[i])
                        /\ ~scoping => ghostRefs[i] = FreeGhost
    /\ \A i \in Index : ClientAgrees(i)
    /\ ClientCleared \/ \E n \in DOMAIN rpcs : EndAwaited(n)

\* g, as ghost i, is still the one that the client had of object o when it had read
\* the packets up to ack.
StillThere(g, i, o, ack) ==
    /\ g.obj \in {o, NoObject} /\ g.segment # "free" /\ "NotYetGhosted" \notin g.flags
    /\ \A k \in Mentions(i) :
         /\ wire[k][i].kind = "Ghosting" => k \in read
         /\ wire[k][i].kind = "KillingGhost" /\ k \in read => k > ack

CallsUnderWay ==
    \A call \in calls :
       /\ call.session <= ghostingSequence /\ call.ack <= floor
       /\ call.session = ghostingSequence =>
            /\ ghosting
            /\ call.ack >= notified =>
                 StillThere(ghostRefs[call.index], call.index, call.obj, call.ack)

MisdirectedFormer == \A session \in misdirected : session < ghostingSequence

SessionIInv ==
    /\ SessionTypeOK /\ ServiceInv /\ RpcsInOrder /\ RpcsApart /\ NotesRemembered
    /\ IF ghosting THEN InSession ELSE BetweenSessions
    /\ CallsUnderWay /\ MisdirectedFormer
=============================================================================
