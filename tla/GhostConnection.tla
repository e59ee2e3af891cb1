---------------------------- MODULE GhostConnection ----------------------------
(***************************************************************************)
(* The ghosts of one direction of a connection (tnl/ghostConnection.cpp,   *)
(* tnl/netObject.cpp): objects of the server that are in scope get a ghost *)
(* id, are created on the client, kept up to date and destroyed there,     *)
(* over the packet service of NetConnection (NotifyService), once ghosting *)
(* has been activated.                                                     *)
(*                                                                         *)
(* An object's state is a number for each of its mask bits.                *)
(***************************************************************************)
EXTENDS NotifyService, FiniteSets, FiniteSetsExt

CONSTANTS
    Object,         \* the NetObjects of the server
    NoObject,       \* the null pointer
    MaxGhostCount,  \* ghost ids, 1024
    MaskBit,        \* the bits of an update mask, 32
    PartialUpdates, \* objects whose packUpdate may leave bits for a later packet
    MaxPerPacket,   \* bound: updates that fit in a packet
    MaxLost,        \* bound: packets that are not read
    MaxChanges,     \* bound: calls of setMaskBits and clearMaskBits, changes of the
                    \* scope and of a scope object that is there
    MaxEmptyPackets,\* bound: packets without updates though ghosts have some, for
                    \* want of a scope object or filled by events
    SafeClears      \* clearMaskBits never gets more bits than a mask has

ASSUME GhostAssumption ==
    /\ NoObject \notin Object
    /\ IsFiniteSet(Object) /\ IsFiniteSet(MaskBit) /\ MaskBit # {}
    /\ PartialUpdates \subseteq Object
    /\ SafeClears \in BOOLEAN
    /\ {MaxGhostCount, MaxPerPacket} \subseteq Nat \ {0}
    /\ {MaxLost, MaxChanges, MaxEmptyPackets} \subseteq Nat

Index == 0 .. (MaxGhostCount - 1)

VARIABLES
    alive,          \* the objects that exist
    value,          \* the state of the objects
    dirtyMaskBits,  \* mDirtyMaskBits of the objects
    scope,          \* the objects that performScopeQuery finds
    scopeObject,    \* mScopeObject, a SafePtr: it is asked what is in scope
    ghostRefs,      \* mGhostRefs, each with its segment of mGhostArray
    ghostList,      \* notify->ghostList of the packets not notified yet
    wire,           \* the updates in those packets
    localGhosts,    \* mLocalGhosts of the client
    cleared,        \* history: the bits of objects that were cleared
    changes, emptyPackets   \* history: for the bounds

objectVars == <<alive, value, scope, scopeObject, cleared, changes>>
packetVars == <<ghostList, wire, emptyPackets>>
ghostVars == <<objectVars, dirtyMaskBits, ghostRefs, packetVars, localGhosts>>
vars == <<serviceVars, ghostVars>>

-----------------------------------------------------------------------------
(* GhostInfo: the flags are those of GhostInfo::Flags but InScope, which is *)
(* set anew before it is read; the segment is the one that arrayIndex is in. *)
FreeGhost == [obj |-> NoObject, mask |-> {}, flags |-> {}, segment |-> "free"]

NewGhost(o) == [obj |-> o, mask |-> MaskBit, flags |-> {"NotYetGhosted"},
                segment |-> "nonzero"]

MarkedUnpushedFault(g, bits) == [g EXCEPT !.mask = @ \cup bits]

\* The mask of a ghost gets more bits; ghostPushNonZero when it had none.
Marked(g, bits) ==
    IF bits = {} THEN g
    ELSE [g EXCEPT !.mask = @ \cup bits, !.segment = "nonzero"]

\* clearMaskBits: the ghost is moved only when its mask is exactly the argument.
Cleared(g, bits) ==
    IF g.mask # {} /\ g.mask = bits
    THEN [g EXCEPT !.mask = {}, !.segment = "zero"]
    ELSE [g EXCEPT !.mask = @ \ bits]

\* detachObject.
Detached(g) ==
    [g EXCEPT !.obj = NoObject, !.flags = @ \cup {"KillGhost"},
              !.mask = IF @ = {} THEN MaskBit ELSE @, !.segment = "nonzero"]

\* collapseDirtyList.
Collapsed == [i \in Index |->
    IF ghostRefs[i].obj = NoObject THEN ghostRefs[i]
    ELSE Marked(ghostRefs[i], dirtyMaskBits[ghostRefs[i].obj])]

\* objectInScope for the objects in scope: those without a ghost get a free one
\* as long as there is one.
ScopeResults(ghosts) ==
    LET new == scope \ {ghosts[i].obj : i \in Index}
        free == {i \in Index : ghosts[i].segment = "free"}
        used == {u \in SUBSET free :
                   Cardinality(u) = Min({Cardinality(new), Cardinality(free)})}
    IN  {[i \in Index |-> IF i \in DOMAIN f THEN NewGhost(f[i]) ELSE ghosts[i]]
           : f \in {f \in UNION {[u -> new] : u \in used} :
                      \A i, j \in DOMAIN f : i # j => f[i] # f[j]}}

\* prepareWritePacket: only a scope object says what is in scope.
Scoped == IF scopeObject = NoObject THEN {Collapsed} ELSE ScopeResults(Collapsed)

NonZero(ghosts) == {i \in Index : ghosts[i].segment = "nonzero"}

KilledAtOnceFault(ghosts) ==
    [i \in Index |->
       LET g == ghosts[i]
       IN  IF g.segment # "nonzero" \/ g.obj \in scope THEN g
           ELSE IF g.flags \cap {"NotYetGhosted", "Ghosting"} # {} THEN FreeGhost
           ELSE Detached(g)]

\* writePacket detaches what went out of scope, and frees what the client never
\* got to know.
Descoped(ghosts) ==
    [i \in Index |->
       LET g == ghosts[i]
       IN  IF g.segment # "nonzero" \/ g.obj \in scope THEN g
           ELSE IF "NotYetGhosted" \in g.flags THEN FreeGhost
           ELSE Detached(g)]

ReadyAnyFault(ghosts) ==
    {i \in NonZero(ghosts) : "KillingGhost" \notin ghosts[i].flags}

\* The ghosts that may be updated, not being created or destroyed by a packet
\* under way.
Ready(ghosts) ==
    {i \in NonZero(ghosts) :
       ghosts[i].flags \cap {"Ghosting", "KillingGhost"} = {}}

\* What an update is, and the ghost after it is written: packUpdate left the
\* bits of retMask for later.
Kind(g) == CASE "KillGhost" \in g.flags -> "KillingGhost"
             [] "NotYetGhosted" \in g.flags -> "Ghosting"
             [] OTHER -> "Update"

WrittenAtOnceFault(g, retMask) ==
    [g EXCEPT !.flags = IF "KillGhost" \in @ THEN {"KillingGhost"} ELSE {},
              !.mask = retMask,
              !.segment = IF retMask = {} THEN "zero" ELSE "nonzero"]

Written(g, retMask) ==
    [g EXCEPT !.flags = CASE Kind(g) = "KillingGhost" ->
                               (@ \ {"KillGhost"}) \cup {"KillingGhost"}
                          [] Kind(g) = "Ghosting" -> {"Ghosting"}
                          [] OTHER -> @,
              !.mask = retMask,
              !.segment = IF retMask = {} THEN "zero" ELSE "nonzero"]

GhostRef(g, retMask) ==
    [mask |-> g.mask \ retMask, ghostInfoFlags |-> Kind(g)]

Update(g, retMask) ==
    [kind |-> Kind(g), obj |-> g.obj,
     value |-> IF Kind(g) = "KillingGhost" THEN <<>>
               ELSE [b \in g.mask \ retMask |-> value[g.obj][b]]]

RetMasks(g) ==
    IF g.obj \in PartialUpdates /\ Kind(g) # "KillingGhost"
    THEN SUBSET g.mask \ {g.mask} ELSE {{}}

\* readPacket: what becomes of the client's ghost.
NoGhost == [obj |-> NoObject, value |-> [b \in MaskBit |-> 0]]

Unpacked(ghost, update) ==
    IF update.kind = "KillingGhost" THEN NoGhost
    ELSE [obj |-> IF ghost = NoGhost THEN update.obj ELSE ghost.obj,
          value |-> [b \in MaskBit |-> IF b \in DOMAIN update.value
                                       THEN update.value[b] ELSE ghost.value[b]]]

\* The updates of ghost i in the packets sent after packet k.
UpdateChain(i, k) ==
    UNION {ghostList[j][i].mask : j \in {j \in DOMAIN ghostList :
                                           j > k /\ i \in DOMAIN ghostList[j]}}

ResentNewestFault(i, k) ==
    IF UpdateChain(i, k) = {} THEN ghostList[k][i].mask ELSE {}

\* packetDropped: the bits that no later packet has updated.
Resent(i, k) == ghostList[k][i].mask \ UpdateChain(i, k)

-----------------------------------------------------------------------------
GhostInit ==
    /\ ServiceInit
    /\ alive = Object
    /\ value = [o \in Object |-> [b \in MaskBit |-> 0]]
    /\ dirtyMaskBits = [o \in Object |-> {}]
    /\ scope = Object
    /\ scopeObject = NoObject
    /\ ghostRefs = [i \in Index |-> FreeGhost]
    /\ ghostList = [k \in {} |-> {}]
    /\ wire = [k \in {} |-> {}]
    /\ localGhosts = [i \in Index |-> NoGhost]
    /\ changes = 0
    /\ emptyPackets = 0
    /\ cleared = {}

\* The state of an object changes: setMaskBits.
SetMaskBits(o, b) ==
    /\ o \in alive
    /\ changes < MaxChanges
    /\ changes' = changes + 1
    /\ value' = [value EXCEPT ![o][b] = @ + 1]
    /\ dirtyMaskBits' = [dirtyMaskBits EXCEPT ![o] = @ \cup {b}]
    /\ UNCHANGED <<serviceVars, alive, scope, scopeObject, cleared, ghostRefs,
                   packetVars, localGhosts>>

ClearMaskBits(o, bits) ==
    /\ o \in alive
    /\ SafeClears => \A i \in Index : ghostRefs[i].obj = o =>
         \/ ghostRefs[i].mask = {}
         \/ ghostRefs[i].mask = bits
         \/ ~(ghostRefs[i].mask \subseteq bits)
    /\ changes < MaxChanges
    /\ changes' = changes + 1
    /\ cleared' = cleared \cup ({o} \X bits)
    /\ dirtyMaskBits' = [dirtyMaskBits EXCEPT ![o] = @ \ bits]
    /\ ghostRefs' = [i \in Index |->
         IF ghostRefs[i].obj = o THEN Cleared(ghostRefs[i], bits)
         ELSE ghostRefs[i]]
    /\ UNCHANGED <<serviceVars, alive, value, scope, scopeObject, packetVars,
                   localGhosts>>

\* ~NetObject; a SafePtr to the object is null from then on.
Delete(o) ==
    /\ o \in alive
    /\ alive' = alive \ {o}
    /\ scope' = scope \ {o}
    /\ scopeObject' = IF scopeObject = o THEN NoObject ELSE scopeObject
    /\ dirtyMaskBits' = [dirtyMaskBits EXCEPT ![o] = {}]
    /\ ghostRefs' = [i \in Index |->
         IF ghostRefs[i].obj = o THEN Detached(ghostRefs[i]) ELSE ghostRefs[i]]
    /\ UNCHANGED <<serviceVars, value, cleared, changes, packetVars,
                   localGhosts>>

\* What performScopeQuery will find changes.
ChangeScope ==
    /\ changes < MaxChanges
    /\ changes' = changes + 1
    /\ scope' \in SUBSET alive \ {scope}
    /\ UNCHANGED <<serviceVars, alive, value, scopeObject, cleared, dirtyMaskBits,
                   ghostRefs, packetVars, localGhosts>>

\* The application gives the connection a scope object, the first or another.
SetScopeObject(o) ==
    /\ o \in alive \ {scopeObject}
    /\ scopeObject # NoObject => changes < MaxChanges
    /\ scopeObject' = o
    /\ changes' = IF scopeObject = NoObject THEN changes ELSE changes + 1
    /\ UNCHANGED <<serviceVars, alive, value, scope, cleared, dirtyMaskBits,
                   ghostRefs, packetVars, localGhosts>>

\* processConnections collapses the dirty list on every tick.
CollapseDirtyList ==
    /\ \E o \in Object : dirtyMaskBits[o] # {}
    /\ dirtyMaskBits' = [o \in Object |-> {}]
    /\ ghostRefs' = Collapsed
    /\ UNCHANGED <<serviceVars, objectVars, packetVars, localGhosts>>

\* The same tick when a packet is due but cannot be sent, or has nothing to carry
\* (isDataToTransmit): prepareWritePacket.
PrepareWritePacket ==
    /\ dirtyMaskBits' = [o \in Object |-> {}]
    /\ ghostRefs' \in Scoped
    /\ \/ sent - notified >= Window
       \/ NonZero(ghostRefs') = {}
       \/ scopeObject = NoObject /\ emptyPackets = MaxEmptyPackets
    /\ UNCHANGED <<serviceVars, objectVars, packetVars, localGhosts>>

\* What belongs to the packets not notified, with the packet being written and
\* without the one being notified.
Extended(f, new) ==
    [k \in DOMAIN f \cup {sent + 1} |-> IF k \in DOMAIN f THEN f[k] ELSE new]

Forgotten(f) == [k \in DOMAIN f \ {notified + 1} |-> f[k]]

\* The same tick when it is sent: prepareWritePacket and writePacket, with the
\* updates that fit; one fits unless events have filled the packet.
WritePacket ==
    /\ Write
    /\ scopeObject # NoObject
    /\ dirtyMaskBits' = [o \in Object |-> {}]
    /\ \E scoped \in ScopeResults(Collapsed) :
       LET ghosts == Descoped(scoped) IN
       /\ NonZero(scoped) # {}
       /\ \E chosen \in SUBSET Ready(ghosts) :
            /\ Cardinality(chosen) <= MaxPerPacket
            /\ IF chosen = {} /\ Ready(ghosts) # {}
               THEN /\ emptyPackets < MaxEmptyPackets
                    /\ emptyPackets' = emptyPackets + 1
               ELSE UNCHANGED emptyPackets
            /\ \E retMask \in [chosen -> SUBSET MaskBit] :
                 /\ \A i \in chosen : retMask[i] \in RetMasks(ghosts[i])
                 /\ ghostRefs' = [i \in Index |-> IF i \in chosen
                      THEN Written(ghosts[i], retMask[i]) ELSE ghosts[i]]
                 /\ ghostList' = Extended(ghostList,
                      [i \in chosen |-> GhostRef(ghosts[i], retMask[i])])
                 /\ wire' = Extended(wire,
                      [i \in chosen |-> Update(ghosts[i], retMask[i])])
    /\ UNCHANGED <<objectVars, localGhosts>>

\* The same tick without a scope object: no ghost is written, not even destroyed.
WriteNoUpdates ==
    /\ Write
    /\ scopeObject = NoObject
    /\ dirtyMaskBits' = [o \in Object |-> {}]
    /\ ghostRefs' = Collapsed
    /\ NonZero(Collapsed) # {}
    /\ emptyPackets < MaxEmptyPackets
    /\ emptyPackets' = emptyPackets + 1
    /\ ghostList' = Extended(ghostList, <<>>)
    /\ wire' = Extended(wire, <<>>)
    /\ UNCHANGED <<objectVars, localGhosts>>

ReadPacket(k) ==
    /\ Cardinality(((First + 1) .. (k - 1)) \ read) <= MaxLost
    /\ Read(k)
    /\ localGhosts' = [i \in Index |->
         IF i \in DOMAIN wire[k] THEN Unpacked(localGhosts[i], wire[k][i])
         ELSE localGhosts[i]]
    /\ UNCHANGED <<objectVars, dirtyMaskBits, ghostRefs, packetVars>>

LosePacket(k) ==
    /\ Cardinality(((First + 1) .. k) \ read) <= MaxLost
    /\ Skip(k)
    /\ UNCHANGED ghostVars

PacketReceived ==
    /\ Notify(notified + 1)
    /\ notified + 1 \in received'
    /\ LET list == ghostList[notified + 1] IN
       ghostRefs' = [i \in Index |->
         IF i \notin DOMAIN list THEN ghostRefs[i]
         ELSE CASE list[i].ghostInfoFlags = "Ghosting" ->
                     [ghostRefs[i] EXCEPT !.flags = @ \ {"Ghosting"}]
                [] list[i].ghostInfoFlags = "KillingGhost" -> FreeGhost
                [] OTHER -> ghostRefs[i]]
    /\ ghostList' = Forgotten(ghostList)
    /\ wire' = Forgotten(wire)
    /\ UNCHANGED <<objectVars, dirtyMaskBits, emptyPackets, localGhosts>>

\* packetDropped: what the packet did is to be done again.
Restored(g, ref) ==
    CASE ref.ghostInfoFlags = "Ghosting" ->
           [g EXCEPT !.flags = (@ \ {"Ghosting"}) \cup {"NotYetGhosted"}]
      [] ref.ghostInfoFlags = "KillingGhost" ->
           [g EXCEPT !.flags = (@ \ {"KillingGhost"}) \cup {"KillGhost"}]
      [] OTHER -> g

PacketDropped ==
    /\ Notify(notified + 1)
    /\ notified + 1 \in dropped'
    /\ LET list == ghostList[notified + 1] IN
       ghostRefs' = [i \in Index |->
         IF i \notin DOMAIN list THEN ghostRefs[i]
         ELSE Restored(Marked(ghostRefs[i], Resent(i, notified + 1)), list[i])]
    /\ ghostList' = Forgotten(ghostList)
    /\ wire' = Forgotten(wire)
    /\ UNCHANGED <<objectVars, dirtyMaskBits, emptyPackets, localGhosts>>

GhostNext ==
    \/ \E o \in Object : \/ \E b \in MaskBit : SetMaskBits(o, b)
                         \/ Delete(o)
                         \/ SetScopeObject(o)
    \/ \E o \in Object : \E bits \in SUBSET MaskBit \ {{}} : ClearMaskBits(o, bits)
    \/ ChangeScope
    \/ CollapseDirtyList
    \/ PrepareWritePacket
    \/ WritePacket
    \/ WriteNoUpdates
    \/ \E k \in (floor + 1) .. sent : ReadPacket(k) \/ LosePacket(k)
    \/ PacketReceived
    \/ PacketDropped

GhostSpec == GhostInit /\ [][GhostNext]_vars

\* processConnections runs for ever, the network does not lose packets for ever
\* (MaxLost) and news of their fate gets through (NotifyProtocol).
FairGhostSpec ==
    /\ GhostSpec
    /\ WF_vars(WritePacket)
    /\ WF_vars(\E k \in (floor + 1) .. sent : ReadPacket(k))
    /\ WF_vars(PacketReceived) /\ WF_vars(PacketDropped)

-----------------------------------------------------------------------------
GhostInfo ==
    [obj : Object \cup {NoObject}, mask : SUBSET MaskBit,
     flags : SUBSET {"NotYetGhosted", "Ghosting", "KillGhost", "KillingGhost"},
     segment : {"nonzero", "zero", "free"}]

GhostTypeOK ==
    /\ alive \subseteq Object
    /\ scope \subseteq alive
    /\ scopeObject \in alive \cup {NoObject}
    /\ value \in [Object -> [MaskBit -> Nat]]
    /\ dirtyMaskBits \in [Object -> SUBSET MaskBit]
    /\ ghostRefs \in [Index -> GhostInfo]
    /\ DOMAIN ghostList = (notified + 1) .. sent
    /\ DOMAIN wire = (notified + 1) .. sent
    /\ localGhosts \in [Index ->
         [obj : Object \cup {NoObject}, value : [MaskBit -> Nat]]]

\* Server and client agree on what a ghost id stands for in every packet that
\* may still be read, whatever is lost before it: a ghost is created where the
\* client has none, updated or destroyed where it has that one (readPacket's
\* assertion "NULL ghost encountered"; a class id is read only for a new one).
GhostIdsAgree ==
    \A k \in (floor + 1) .. sent : \A i \in DOMAIN wire[k] :
       CASE wire[k][i].kind = "Ghosting" -> localGhosts[i] = NoGhost
         [] wire[k][i].kind = "Update" -> localGhosts[i].obj = wire[k][i].obj
         [] wire[k][i].kind = "KillingGhost" -> localGhosts[i] # NoGhost

\* A ghost that getGhostIndex gives out is there on the client, for the same
\* object: events about it find it.
AvailableIsThere ==
    \A i \in Index :
       (ghostRefs[i].obj # NoObject /\ ghostRefs[i].flags = {})
         => localGhosts[i].obj = ghostRefs[i].obj

\* No change is forgotten: where a client's ghost differs from its object, the
\* bit is dirty, in the mask of the ghost or in a packet not notified yet,
\* unless clearMaskBits was called for it.
NothingForgotten ==
    \A i \in Index :
       (ghostRefs[i].obj # NoObject /\ localGhosts[i].obj = ghostRefs[i].obj) =>
         \A b \in MaskBit :
           \/ localGhosts[i].value[b] = value[ghostRefs[i].obj][b]
           \/ b \in dirtyMaskBits[ghostRefs[i].obj] \cup ghostRefs[i].mask
           \/ b \in UpdateChain(i, notified)
           \/ <<ghostRefs[i].obj, b>> \in cleared

\* validateGhostArray and freeGhostInfo ("Invalid ghost mask."): the ghosts in
\* the first segment of mGhostArray are those that have something to update.
SegmentHolds(g) == g.segment = "nonzero" <=> g.mask # {}

SegmentsHold == \A i \in Index : SegmentHolds(ghostRefs[i])

\* freeGhostInfo ("Ack!"): a ghost id is free again only when no packet under way
\* speaks of it.
FreeUnreferenced ==
    \A i \in Index : ghostRefs[i].segment = "free" =>
       \A k \in DOMAIN ghostList : i \notin DOMAIN ghostList[k]

\* The ghost array and what is under way of its ghosts agree, whatever is changed,
\* deleted or lost.
GhostStateOK == GhostTypeOK /\ SegmentsHold /\ FreeUnreferenced

\* The client has ghosts of all objects in scope in the end, up to date where
\* clearMaskBits was not called, and those of deleted objects are gone, as long as
\* the connection has a scope object: when that was deleted the client hears of no
\* ghost until the application sets another.
EventuallyUpToDate ==
    <>[](scopeObject # NoObject =>
         /\ \A o \in scope :
              \/ {o} \X MaskBit \subseteq cleared
              \/ \E i \in Index :
                   /\ localGhosts[i].obj = o
                   /\ \A b \in MaskBit : localGhosts[i].value[b] = value[o][b]
                                          \/ <<o, b>> \in cleared
         /\ \A i \in Index : localGhosts[i].obj \in alive \cup {NoObject})
-----------------------------------------------------------------------------
(* The inductive invariant behind the properties: what the packets under way *)
(* say about a ghost, and what the client has of it, at every stage of its   *)
(* life.                                                                     *)

\* The packets not notified yet that have an update of ghost i.
Mentions(i) == {k \in DOMAIN ghostList : i \in DOMAIN ghostList[k]}

\* The server remembers what it wrote.
Remembers(ref, update) ==
    /\ ref.mask \subseteq MaskBit /\ update.kind = ref.ghostInfoFlags
    /\ update.kind # "KillingGhost"
         => update.obj \in Object /\ update.value \in [ref.mask -> Nat]

WrittenRemembered ==
    \A k \in DOMAIN ghostList :
       /\ DOMAIN ghostList[k] = DOMAIN wire[k] /\ DOMAIN wire[k] \subseteq Index
       /\ \A i \in DOMAIN wire[k] : Remembers(ghostList[k][i], wire[k][i])

\* g is free, as ghost i.
Unused(g, i) == g = FreeGhost /\ Mentions(i) = {} /\ localGhosts[i] = NoGhost

\* g stands for object o, or was detached from it.
KnownAs(g, o) == g.obj = (IF "KillGhost" \in g.flags THEN NoObject ELSE o)

NotCreated(g, i) ==
    /\ "NotYetGhosted" \in g.flags /\ g.flags \subseteq {"NotYetGhosted", "KillGhost"}
    /\ g.segment # "free"
    /\ "KillGhost" \in g.flags => g.segment = "nonzero"
    /\ \E o \in Object : KnownAs(g, o)
    /\ Mentions(i) = {} /\ localGhosts[i] = NoGhost

BeingCreated(g, i) ==
    /\ "Ghosting" \in g.flags /\ g.flags \subseteq {"Ghosting", "KillGhost"}
    /\ g.segment # "free"
    /\ "KillGhost" \in g.flags => g.segment = "nonzero"
    /\ \E k \in Mentions(i) :
         /\ Mentions(i) = {k} /\ wire[k][i].kind = "Ghosting"
         /\ KnownAs(g, wire[k][i].obj)
         /\ IF k \in read THEN localGhosts[i].obj = wire[k][i].obj
            ELSE localGhosts[i] = NoGhost

\* The client has the ghost, and what is under way are updates of it.
Created(g, i) ==
    /\ g.flags \subseteq {"KillGhost"} /\ g.segment # "free"
    /\ localGhosts[i].obj \in Object /\ KnownAs(g, localGhosts[i].obj)
    /\ \A k \in Mentions(i) :
         wire[k][i].kind = "Update" /\ wire[k][i].obj = localGhosts[i].obj

\* The last packet about the ghost destroys it.
BeingKilled(g, i) ==
    /\ "KillingGhost" \in g.flags /\ g.flags \subseteq {"KillingGhost", "KillGhost"}
    /\ g.segment # "free" /\ g.obj = NoObject
    /\ \E k \in Mentions(i) :
         /\ wire[k][i].kind = "KillingGhost"
         /\ k \in read => localGhosts[i] = NoGhost
         /\ k \notin read => localGhosts[i].obj \in Object
         /\ \A j \in Mentions(i) \ {k} :
              /\ j < k /\ wire[j][i].kind = "Update"
              /\ k \notin read => wire[j][i].obj = localGhosts[i].obj

Stage(g, i) == \/ Unused(g, i) \/ NotCreated(g, i) \/ BeingCreated(g, i)
               \/ Created(g, i) \/ BeingKilled(g, i)

\* Packet k has bit b of ghost i, and no later one has.
Carries(k, i, b) == k \in Mentions(i) /\ b \in ghostList[k][i].mask

LastWith(k, i, b) ==
    Carries(k, i, b) /\ \A j \in Mentions(i) : Carries(j, i, b) => j <= k

\* A bit that is not marked has reached the client or is under way in its present
\* value; a bit under way that was read is there.
BitAccounted(g, i, b) ==
    \/ g.obj = NoObject
    \/ b \in g.mask
    \/ <<g.obj, b>> \in cleared
    \/ \E k \in Mentions(i) :
         /\ LastWith(k, i, b) /\ wire[k][i].value[b] = value[g.obj][b]
         /\ k \in read => localGhosts[i].value[b] = value[g.obj][b]
    \/ /\ \A k \in Mentions(i) : ~Carries(k, i, b)
       /\ localGhosts[i].obj = g.obj /\ localGhosts[i].value[b] = value[g.obj][b]

\* g may be ghost i of the server as far as the packets and the client go.
GhostAccounted(g, i) ==
    /\ g \in GhostInfo
    /\ Stage(g, i)
    /\ SafeClears => SegmentHolds(g)

GhostsAccounted == \A i \in Index : GhostAccounted(ghostRefs[i], i)

\* What is not accounted for is dirty.
BitsAccounted ==
    \A i \in Index : \A b \in MaskBit :
       \/ ghostRefs[i].obj # NoObject /\ b \in dirtyMaskBits[ghostRefs[i].obj]
       \/ BitAccounted(ghostRefs[i], i, b)

GhostIInv ==
    /\ GhostTypeOK /\ ServiceInv /\ WrittenRemembered
    /\ GhostsAccounted /\ BitsAccounted
=============================================================================
