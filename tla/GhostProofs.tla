----------------------------- MODULE GhostProofs -----------------------------
(***************************************************************************)
(* Proofs about GhostConnection and GhostSession, on a service that        *)
(* notifies nothing as received that was not read: GhostIInv and           *)
(* SessionIInv are invariants, and with them the safety properties of the  *)
(* runs.                                                                   *)
(*                                                                         *)
(* In the first half the lemmas about one ghost say that what the          *)
(* functions of the code do to its GhostInfo leaves it accounted for       *)
(* (GhostAccounted, BitAccounted) in an unchanged state.  The actions that *)
(* leave the packets and the client alone follow from them; those that     *)
(* write, read and notify packets are treated one by one.                  *)
(*                                                                         *)
(* In the second half, that of sessions, the lemmas are about the ghosts   *)
(* of the server while the client is not ready for them, the ghosts of the *)
(* client whatever the server has, and the order of the RPCs.              *)
(***************************************************************************)
EXTENDS GhostSession, NotifyServiceProofs, SequenceTheorems

-----------------------------------------------------------------------------
(* One ghost.                                                              *)

LEMMA FreeGhostInfo == FreeGhost \in GhostInfo /\ SegmentHolds(FreeGhost)
BY DEF FreeGhost, GhostInfo, SegmentHolds

LEMMA NotFree ==
  ASSUME NEW i, NEW g, Stage(g, i), g.obj # NoObject \/ g.segment # "free"
  PROVE  g.segment # "free" /\ ~Unused(g, i)
BY DEF Stage, Unused, NotCreated, BeingCreated, Created, BeingKilled, FreeGhost

\* A ghost keeps its stage as long as it keeps its object and flags.
LEMMA StageKept ==
  ASSUME NEW i, NEW g \in GhostInfo, Stage(g, i), g.segment # "free",
         NEW h \in GhostInfo, h.obj = g.obj, h.flags = g.flags, h.segment # "free",
         "KillGhost" \in g.flags /\ g.segment = "nonzero" => h.segment = "nonzero"
  PROVE  Stage(h, i)
<1>1. \A o : KnownAs(g, o) => KnownAs(h, o)
  BY DEF KnownAs
<1>2. ~Unused(g, i)
  BY DEF Unused, FreeGhost
<1>3. CASE NotCreated(g, i)
  BY <1>1, <1>3 DEF Stage, NotCreated
<1>4. CASE BeingCreated(g, i)
  BY <1>1, <1>4 DEF Stage, BeingCreated
<1>5. CASE Created(g, i)
  BY <1>1, <1>5 DEF Stage, Created
<1>6. CASE BeingKilled(g, i)
  BY <1>6 DEF Stage, BeingKilled
<1> QED BY <1>2, <1>3, <1>4, <1>5, <1>6 DEF Stage

\* More bits are marked.
LEMMA MarkedGhost ==
  ASSUME NEW i, NEW g \in GhostInfo, GhostAccounted(g, i), g.segment # "free",
         NEW bits \in SUBSET MaskBit
  PROVE  /\ GhostAccounted(Marked(g, bits), i)
         /\ Marked(g, bits).obj = g.obj /\ Marked(g, bits).flags = g.flags
         /\ Marked(g, bits).mask = g.mask \cup bits
         /\ Marked(g, bits).segment # "free"
<1> DEFINE h == Marked(g, bits)
<1>1. /\ h \in GhostInfo /\ h.obj = g.obj /\ h.flags = g.flags
      /\ h.mask = g.mask \cup bits
      /\ h.segment = IF bits = {} THEN g.segment ELSE "nonzero"
  BY DEF Marked, GhostInfo
<1> HIDE DEF h
<1>2. Stage(h, i)
  BY <1>1, StageKept DEF GhostAccounted
<1>3. GhostAccounted(h, i)
  BY <1>1, <1>2 DEF GhostAccounted, SegmentHolds
<1> QED BY <1>1, <1>3 DEF h

\* Bits are cleared, in a way that SafeClears allows.
LEMMA ClearedGhost ==
  ASSUME NEW i, NEW g \in GhostInfo, GhostAccounted(g, i), g.obj # NoObject,
         NEW bits \in SUBSET MaskBit,
         SafeClears => \/ g.mask = {} \/ g.mask = bits \/ ~(g.mask \subseteq bits)
  PROVE  /\ GhostAccounted(Cleared(g, bits), i)
         /\ Cleared(g, bits).obj = g.obj
         /\ Cleared(g, bits).mask = g.mask \ bits
<1> DEFINE h == Cleared(g, bits)
<1>0. g.segment # "free" /\ "KillGhost" \notin g.flags
  <2>1. g.segment # "free" /\ ~Unused(g, i)
    BY NotFree DEF GhostAccounted
  <2>2. "KillGhost" \in g.flags => g.obj = NoObject
    BY <2>1 DEF GhostAccounted, Stage, KnownAs, NotCreated, BeingCreated, Created,
                BeingKilled
  <2> QED BY <2>1, <2>2
<1>1. /\ h \in GhostInfo /\ h.obj = g.obj /\ h.flags = g.flags
      /\ h.mask = g.mask \ bits
      /\ h.segment = IF g.mask # {} /\ g.mask = bits THEN "zero" ELSE g.segment
  BY DEF Cleared, GhostInfo
<1> HIDE DEF h
<1>2. Stage(h, i)
  BY <1>0, <1>1, StageKept DEF GhostAccounted
<1>3. GhostAccounted(h, i)
  BY <1>1, <1>2 DEF GhostAccounted, SegmentHolds
<1> QED BY <1>1, <1>3 DEF h

LEMMA DetachedGhost ==
  ASSUME NEW i, NEW g \in GhostInfo, GhostAccounted(g, i), g.segment # "free"
  PROVE  GhostAccounted(Detached(g), i) /\ Detached(g).obj = NoObject
<1> DEFINE h == Detached(g)
<1>1. /\ h \in GhostInfo /\ h.obj = NoObject /\ h.flags = g.flags \cup {"KillGhost"}
      /\ h.segment = "nonzero" /\ SegmentHolds(h)
  BY GhostAssumption DEF Detached, GhostInfo, SegmentHolds
<1> HIDE DEF h
<1>2. \A o : KnownAs(h, o)
  BY <1>1 DEF KnownAs
<1>3. Stage(h, i)
  <2>1. CASE NotCreated(g, i)
    BY <1>1, <1>2, <2>1 DEF Stage, NotCreated
  <2>2. CASE BeingCreated(g, i)
    BY <1>1, <1>2, <2>2 DEF Stage, BeingCreated
  <2>3. CASE Created(g, i)
    BY <1>1, <1>2, <2>3 DEF Stage, Created
  <2>4. CASE BeingKilled(g, i)
    BY <1>1, <2>4 DEF Stage, BeingKilled
  <2>5. ~Unused(g, i)
    BY DEF Unused, FreeGhost
  <2> QED BY <2>1, <2>2, <2>3, <2>4, <2>5 DEF GhostAccounted, Stage
<1> QED BY <1>1, <1>3 DEF GhostAccounted, h

LEMMA AllocatedGhost ==
  ASSUME NEW i, NEW g \in GhostInfo, GhostAccounted(g, i), g.segment = "free",
         NEW o \in Object
  PROVE  /\ GhostAccounted(NewGhost(o), i)
         /\ NewGhost(o).obj = o /\ NewGhost(o).mask = MaskBit
<1>1. NewGhost(o) \in GhostInfo /\ SegmentHolds(NewGhost(o))
  BY GhostAssumption DEF NewGhost, GhostInfo, SegmentHolds
<1>2. Unused(g, i)
  BY DEF GhostAccounted, Stage, NotCreated, BeingCreated, Created, BeingKilled
<1>3. Stage(NewGhost(o), i)
  BY <1>2 DEF Stage, Unused, NotCreated, NewGhost, KnownAs
<1> QED BY <1>1, <1>3 DEF GhostAccounted, NewGhost

LEMMA FreedGhost ==
  ASSUME NEW i, NEW g \in GhostInfo, GhostAccounted(g, i), "NotYetGhosted" \in g.flags
  PROVE  GhostAccounted(FreeGhost, i)
<1>1. NotCreated(g, i)
  BY DEF GhostAccounted, Stage, Unused, BeingCreated, Created, BeingKilled, FreeGhost
<1>2. Stage(FreeGhost, i)
  BY <1>1 DEF NotCreated, Unused, Stage
<1> QED BY <1>2, FreeGhostInfo DEF GhostAccounted

\* What is left when only the bits and the object of a ghost changed.
LEMMA DetachedBit ==
  ASSUME NEW i, NEW b, NEW g, g.obj = NoObject PROVE BitAccounted(g, i, b)
BY DEF BitAccounted

LEMMA MarkedBit ==
  ASSUME NEW i, NEW b, NEW g, BitAccounted(g, i, b), NEW h, h.obj = g.obj,
         g.mask \subseteq h.mask
  PROVE  BitAccounted(h, i, b)
BY DEF BitAccounted

-----------------------------------------------------------------------------
(* All ghosts of the server, while it prepares a packet.                   *)

Accounted(ghosts) ==
    /\ ghosts \in [Index -> GhostInfo]
    /\ \A i \in Index : GhostAccounted(ghosts[i], i)
    /\ \A i \in Index : \A b \in MaskBit : BitAccounted(ghosts[i], i, b)

LEMMA CollapsedAccounted == ASSUME GhostIInv PROVE Accounted(Collapsed)
<1> SUFFICES ASSUME NEW i \in Index
             PROVE  /\ Collapsed[i] \in GhostInfo
                    /\ GhostAccounted(Collapsed[i], i)
                    /\ \A b \in MaskBit : BitAccounted(Collapsed[i], i, b)
  BY DEF Accounted, Collapsed
<1> DEFINE g == ghostRefs[i]
           bits == dirtyMaskBits[g.obj]
<1>1. g \in GhostInfo /\ GhostAccounted(g, i)
  BY DEF GhostIInv, GhostTypeOK, GhostsAccounted
<1>2. \A b \in MaskBit : (g.obj # NoObject /\ b \in bits) \/ BitAccounted(g, i, b)
  BY DEF GhostIInv, BitsAccounted
<1>3. CASE g.obj = NoObject
  BY <1>1, <1>2, <1>3 DEF Collapsed
<1>4. CASE g.obj # NoObject
  <2>1. g.obj \in Object /\ bits \in SUBSET MaskBit
    BY <1>1, <1>4 DEF GhostIInv, GhostTypeOK, GhostInfo
  <2>2. Collapsed[i] = Marked(g, bits)
    BY <1>4 DEF Collapsed
  <2> HIDE DEF g, bits
  <2>3. g.segment # "free"
    BY <1>1, <1>4, NotFree DEF GhostAccounted
  <2> DEFINE h == Marked(g, bits)
  <2>4. /\ GhostAccounted(h, i) /\ h.obj = g.obj /\ h.mask = g.mask \cup bits
    BY <1>1, <2>1, <2>3, MarkedGhost
  <2>5. \A b \in MaskBit : BitAccounted(h, i, b)
    <3> HIDE DEF h
    <3> TAKE b \in MaskBit
    <3>1. CASE b \in bits
      BY <2>4, <3>1 DEF BitAccounted
    <3>2. CASE BitAccounted(g, i, b)
      BY <2>4, <3>2, MarkedBit
    <3> QED BY <1>2, <3>1, <3>2
  <2> QED BY <2>2, <2>4, <2>5 DEF GhostAccounted
<1> QED BY <1>3, <1>4

LEMMA ScopedAccounted ==
  ASSUME GhostTypeOK, NEW ghosts, Accounted(ghosts), NEW scoped \in ScopeResults(ghosts)
  PROVE  Accounted(scoped)
<1>1. PICK f : /\ scoped = [i \in Index |-> IF i \in DOMAIN f THEN NewGhost(f[i])
                                            ELSE ghosts[i]]
               /\ \A i \in DOMAIN f : ghosts[i].segment = "free" /\ f[i] \in scope
  <2> DEFINE new == scope \ {ghosts[i].obj : i \in Index}
             free == {i \in Index : ghosts[i].segment = "free"}
             used == {u \in SUBSET free :
                        Cardinality(u) = Min({Cardinality(new), Cardinality(free)})}
             maps == UNION {[u -> new] : u \in used}
             given(f) == [i \in Index |-> IF i \in DOMAIN f THEN NewGhost(f[i])
                                          ELSE ghosts[i]]
  <2>1. scoped \in {given(f) : f \in {f \in maps :
                       \A i, j \in DOMAIN f : i # j => f[i] # f[j]}}
    BY DEF ScopeResults
  <2> HIDE DEF maps
  <2>2. PICK f \in maps : scoped = given(f)
    BY <2>1
  <2>3. PICK u \in SUBSET free : f \in [u -> new]
    BY DEF maps
  <2> QED BY <2>2, <2>3
<1> SUFFICES ASSUME NEW i \in Index
             PROVE  /\ scoped[i] \in GhostInfo
                    /\ GhostAccounted(scoped[i], i)
                    /\ \A b \in MaskBit : BitAccounted(scoped[i], i, b)
  BY <1>1 DEF Accounted
<1>2. CASE i \notin DOMAIN f
  BY <1>1, <1>2 DEF Accounted
<1>3. CASE i \in DOMAIN f
  <2> DEFINE g == ghosts[i]
             o == f[i]
  <2>1. o \in Object /\ g.segment = "free"
    BY <1>1, <1>3 DEF GhostTypeOK
  <2>2. g \in GhostInfo /\ GhostAccounted(g, i) /\ scoped[i] = NewGhost(o)
    BY <1>1, <1>3 DEF Accounted
  <2> HIDE DEF g, o
  <2>3. GhostAccounted(NewGhost(o), i) /\ NewGhost(o).mask = MaskBit
    BY <2>1, <2>2, AllocatedGhost
  <2> QED BY <2>2, <2>3 DEF BitAccounted, GhostAccounted
<1> QED BY <1>2, <1>3

LEMMA DescopedAccounted ==
  ASSUME NEW ghosts, Accounted(ghosts) PROVE Accounted(Descoped(ghosts))
<1> SUFFICES ASSUME NEW i \in Index
             PROVE  /\ Descoped(ghosts)[i] \in GhostInfo
                    /\ GhostAccounted(Descoped(ghosts)[i], i)
                    /\ \A b \in MaskBit : BitAccounted(Descoped(ghosts)[i], i, b)
  BY DEF Accounted, Descoped
<1> DEFINE g == ghosts[i]
           h == Descoped(ghosts)[i]
<1>1. /\ g \in GhostInfo /\ GhostAccounted(g, i)
      /\ \A b \in MaskBit : BitAccounted(g, i, b)
  BY DEF Accounted
<1>2. \/ h = g
      \/ h = FreeGhost /\ "NotYetGhosted" \in g.flags
      \/ h = Detached(g) /\ g.segment # "free"
  BY DEF Descoped
<1> HIDE DEF g, h
<1>3. CASE h = g
  BY <1>1, <1>3 DEF h
<1>4. CASE h = FreeGhost /\ "NotYetGhosted" \in g.flags
  <2>1. GhostAccounted(FreeGhost, i)
    BY <1>1, <1>4, FreedGhost
  <2> QED BY <1>4, <2>1 DEF GhostAccounted, BitAccounted, FreeGhost, h
<1>5. CASE h = Detached(g) /\ g.segment # "free"
  <2>1. GhostAccounted(h, i) /\ h.obj = NoObject
    BY <1>1, <1>5, DetachedGhost
  <2> QED BY <2>1 DEF GhostAccounted, BitAccounted, h
<1> QED BY <1>2, <1>3, <1>4, <1>5

-----------------------------------------------------------------------------
(* What does not change with a ghost in a step.                            *)

PacketsKept(i) ==
    /\ Mentions(i)' = Mentions(i)
    /\ \A k \in Mentions(i) : /\ wire'[k][i] = wire[k][i]
                              /\ ghostList'[k][i] = ghostList[k][i]
                              /\ k \in read' <=> k \in read
    /\ localGhosts'[i] = localGhosts[i]

LEMMA AccountedKept ==
  ASSUME NEW i \in Index, NEW g, GhostAccounted(g, i), PacketsKept(i), ghostRefs'[i] = g
  PROVE  GhostAccounted(ghostRefs[i], i)'
<1>1. CASE Unused(g, i)
  BY <1>1 DEF PacketsKept, GhostAccounted, Stage, Unused, SegmentHolds
<1>2. CASE NotCreated(g, i)
  BY <1>2 DEF PacketsKept, GhostAccounted, Stage, NotCreated, SegmentHolds, KnownAs
<1>3. CASE BeingCreated(g, i)
  BY <1>3 DEF PacketsKept, GhostAccounted, Stage, BeingCreated, SegmentHolds, KnownAs
<1>4. CASE Created(g, i)
  BY <1>4 DEF PacketsKept, GhostAccounted, Stage, Created, SegmentHolds, KnownAs
<1>5. CASE BeingKilled(g, i)
  BY <1>5 DEF PacketsKept, GhostAccounted, Stage, BeingKilled, SegmentHolds
<1> QED BY <1>1, <1>2, <1>3, <1>4, <1>5 DEF GhostAccounted, Stage

LEMMA BitKept ==
  ASSUME NEW i \in Index, NEW b \in MaskBit, NEW g, BitAccounted(g, i, b),
         PacketsKept(i), ghostRefs'[i] = g, cleared \subseteq cleared',
         g.obj # NoObject => value'[g.obj][b] = value[g.obj][b]
  PROVE  BitAccounted(ghostRefs[i], i, b)'
<1>1. \A k \in Mentions(i) : Carries(k, i, b)' <=> Carries(k, i, b)
  BY DEF PacketsKept, Carries
<1>2. \A k \in Mentions(i) : LastWith(k, i, b)' <=> LastWith(k, i, b)
  BY <1>1 DEF PacketsKept, LastWith
<1> QED BY <1>1, <1>2 DEF BitAccounted, PacketsKept

-----------------------------------------------------------------------------
(* The actions of the server that write no packet.                         *)

LEMMA GhostInitIInv == GhostInit => GhostIInv
<1> SUFFICES ASSUME GhostInit PROVE GhostIInv
  OBVIOUS
<1>1. ServiceInv
  BY ServiceInitInv DEF GhostInit
<1>2. GhostTypeOK /\ WrittenRemembered
  BY ServiceAssumption, FreeGhostInfo
     DEF GhostInit, ServiceInit, GhostTypeOK, WrittenRemembered, NoGhost
<1>3. ASSUME NEW i \in Index PROVE Unused(ghostRefs[i], i)
  BY DEF GhostInit, Unused, Mentions
<1>4. GhostsAccounted
  BY <1>3, FreeGhostInfo DEF GhostsAccounted, GhostAccounted, Stage, Unused
<1>5. BitsAccounted
  BY <1>3 DEF BitsAccounted, BitAccounted, Unused, FreeGhost
<1> QED BY <1>1, <1>2, <1>4, <1>5 DEF GhostIInv

LEMMA ServerIInv ==
  ASSUME GhostIInv, NEW ghosts \in [Index -> GhostInfo], ghostRefs' = ghosts,
         \A i \in Index : GhostAccounted(ghosts[i], i),
         \A i \in Index : \A b \in MaskBit :
            \/ ghosts[i].obj # NoObject /\ b \in dirtyMaskBits'[ghosts[i].obj]
            \/ /\ BitAccounted(ghosts[i], i, b)
               /\ ghosts[i].obj # NoObject =>
                    value'[ghosts[i].obj][b] = value[ghosts[i].obj][b],
         alive' \subseteq Object, scope' \subseteq alive',
         scopeObject' \in alive' \cup {NoObject},
         value' \in [Object -> [MaskBit -> Nat]],
         dirtyMaskBits' \in [Object -> SUBSET MaskBit],
         cleared \subseteq cleared',
         UNCHANGED <<serviceVars, packetVars, localGhosts>>
  PROVE  GhostIInv'
<1>1. ServiceInv'
  BY DEF GhostIInv, ServiceInv, serviceVars
<1>2. GhostTypeOK'
  BY DEF GhostIInv, GhostTypeOK, serviceVars, packetVars
<1>3. WrittenRemembered'
  BY DEF GhostIInv, WrittenRemembered, packetVars
<1>4. \A i \in Index : PacketsKept(i)
  BY DEF PacketsKept, Mentions, serviceVars, packetVars
<1>5. GhostsAccounted'
  BY <1>4, AccountedKept DEF GhostsAccounted
<1>6. BitsAccounted'
  <2> SUFFICES ASSUME NEW i \in Index, NEW b \in MaskBit
               PROVE  \/ ghosts[i].obj # NoObject /\ b \in dirtyMaskBits'[ghosts[i].obj]
                      \/ BitAccounted(ghostRefs[i], i, b)'
    BY DEF BitsAccounted
  <2> QED BY <1>4, BitKept
<1> QED BY <1>1, <1>2, <1>3, <1>5, <1>6 DEF GhostIInv

LEMMA SetMaskBitsIInv ==
  ASSUME GhostIInv, NEW o \in Object, NEW b \in MaskBit, SetMaskBits(o, b)
  PROVE  GhostIInv'
<1>1. /\ ghostRefs \in [Index -> GhostInfo] /\ ghostRefs' = ghostRefs
      /\ \A i \in Index : GhostAccounted(ghostRefs[i], i)
      /\ alive' \subseteq Object /\ scope' \subseteq alive'
      /\ scopeObject' \in alive' \cup {NoObject} /\ cleared \subseteq cleared'
      /\ UNCHANGED <<serviceVars, packetVars, localGhosts>>
  BY DEF GhostIInv, GhostTypeOK, GhostsAccounted, SetMaskBits
<1>2. /\ value' \in [Object -> [MaskBit -> Nat]]
      /\ dirtyMaskBits' \in [Object -> SUBSET MaskBit]
      /\ b \in dirtyMaskBits'[o]
      /\ \A p \in Object : \A c \in MaskBit :
           /\ c \in dirtyMaskBits[p] => c \in dirtyMaskBits'[p]
           /\ p # o \/ c # b => value'[p][c] = value[p][c]
  BY DEF GhostIInv, GhostTypeOK, SetMaskBits
<1>3. \A i \in Index : \A c \in MaskBit :
        \/ ghostRefs[i].obj # NoObject /\ c \in dirtyMaskBits'[ghostRefs[i].obj]
        \/ /\ BitAccounted(ghostRefs[i], i, c)
           /\ ghostRefs[i].obj # NoObject =>
                value'[ghostRefs[i].obj][c] = value[ghostRefs[i].obj][c]
  <2> SUFFICES ASSUME NEW i \in Index, NEW c \in MaskBit
               PROVE  \/ ghostRefs[i].obj # NoObject /\ c \in dirtyMaskBits'[ghostRefs[i].obj]
                      \/ /\ BitAccounted(ghostRefs[i], i, c)
                         /\ ghostRefs[i].obj # NoObject =>
                              value'[ghostRefs[i].obj][c] = value[ghostRefs[i].obj][c]
    OBVIOUS
  <2>1. \/ ghostRefs[i].obj # NoObject /\ c \in dirtyMaskBits[ghostRefs[i].obj]
        \/ BitAccounted(ghostRefs[i], i, c)
    BY DEF GhostIInv, BitsAccounted
  <2>2. ghostRefs[i].obj = NoObject \/ ghostRefs[i].obj \in Object
    BY <1>1 DEF GhostInfo
  <2> QED BY <1>2, <2>1, <2>2
<1> QED BY <1>1, <1>2, <1>3, ServerIInv

LEMMA ClearMaskBitsIInv ==
  ASSUME GhostIInv, NEW o \in Object, NEW bits \in SUBSET MaskBit, ClearMaskBits(o, bits)
  PROVE  GhostIInv'
<1> DEFINE ghosts == [i \in Index |-> IF ghostRefs[i].obj = o
                                      THEN Cleared(ghostRefs[i], bits) ELSE ghostRefs[i]]
<1>1. /\ ghostRefs' = ghosts /\ alive' \subseteq Object
      /\ scope' \subseteq alive' /\ scopeObject' \in alive' \cup {NoObject}
      /\ value' \in [Object -> [MaskBit -> Nat]] /\ value' = value
      /\ cleared \subseteq cleared' /\ \A b \in bits : <<o, b>> \in cleared'
      /\ UNCHANGED <<serviceVars, packetVars, localGhosts>>
  BY DEF GhostIInv, GhostTypeOK, ClearMaskBits
<1>2. /\ dirtyMaskBits' \in [Object -> SUBSET MaskBit]
      /\ \A p \in Object : dirtyMaskBits'[p] = IF p = o THEN dirtyMaskBits[p] \ bits
                                               ELSE dirtyMaskBits[p]
  BY DEF GhostIInv, GhostTypeOK, ClearMaskBits
<1>3. ASSUME NEW i \in Index
      PROVE  /\ ghosts[i] \in GhostInfo /\ GhostAccounted(ghosts[i], i)
             /\ ghosts[i].obj = ghostRefs[i].obj
             /\ ghosts[i].mask = IF ghostRefs[i].obj = o THEN ghostRefs[i].mask \ bits
                                 ELSE ghostRefs[i].mask
  <2> DEFINE g == ghostRefs[i]
  <2>1. g \in GhostInfo /\ GhostAccounted(g, i)
    BY DEF GhostIInv, GhostTypeOK, GhostsAccounted
  <2>2. CASE g.obj # o
    BY <2>1, <2>2
  <2>3. CASE g.obj = o
    <3>1. /\ g.obj # NoObject /\ ghosts[i] = Cleared(g, bits)
          /\ SafeClears => \/ g.mask = {} \/ g.mask = bits \/ ~(g.mask \subseteq bits)
      BY <2>3, GhostAssumption DEF ClearMaskBits
    <3> HIDE DEF ghosts, g
    <3>2. /\ GhostAccounted(Cleared(g, bits), i) /\ Cleared(g, bits).obj = g.obj
          /\ Cleared(g, bits).mask = g.mask \ bits
      BY <2>1, <3>1, ClearedGhost
    <3>3. ghosts[i] \in GhostInfo
      BY <3>1, <3>2 DEF GhostAccounted
    <3> QED BY <2>3, <3>1, <3>2, <3>3 DEF g
  <2> QED BY <2>2, <2>3
<1>4. ghosts \in [Index -> GhostInfo] /\ \A i \in Index : GhostAccounted(ghosts[i], i)
  BY <1>3
<1> HIDE DEF ghosts
<1>5. BitsAccounted'
  <2> SUFFICES ASSUME NEW i \in Index, NEW b \in MaskBit
               PROVE  \/ /\ ghosts[i].obj # NoObject
                         /\ b \in dirtyMaskBits'[ghosts[i].obj]
                      \/ BitAccounted(ghostRefs[i], i, b)'
    BY <1>1 DEF BitsAccounted
  <2> DEFINE g == ghostRefs[i]
             h == ghosts[i]
  <2>1. \/ g.obj # NoObject /\ b \in dirtyMaskBits[g.obj]
        \/ BitAccounted(g, i, b)
    BY DEF GhostIInv, BitsAccounted
  <2>2. /\ h.obj = g.obj /\ ghostRefs'[i] = h
        /\ g.obj = NoObject \/ g.obj \in Object
        /\ h.mask = IF g.obj = o THEN g.mask \ bits ELSE g.mask
    BY <1>1, <1>3 DEF GhostIInv, GhostTypeOK, GhostInfo
  <2>3. PacketsKept(i)
    BY <1>1 DEF PacketsKept, Mentions, serviceVars, packetVars
  <2> HIDE DEF g, h
  <2>4. CASE g.obj = o /\ b \in bits
    BY <1>1, <2>2, <2>4 DEF BitAccounted
  <2>5. CASE ~(g.obj = o /\ b \in bits) /\ BitAccounted(g, i, b)
    <3>1. BitAccounted(h, i, b)
      <4>1. b \in g.mask => b \in h.mask
        BY <2>2, <2>5
      <4> QED BY <2>2, <2>5, <4>1 DEF BitAccounted
    <3> QED BY <1>1, <2>2, <2>3, <3>1, BitKept
  <2>6. CASE /\ ~(g.obj = o /\ b \in bits)
             /\ g.obj # NoObject /\ b \in dirtyMaskBits[g.obj]
    BY <1>2, <2>2, <2>6 DEF h
  <2> QED BY <2>1, <2>4, <2>5, <2>6 DEF g, h
<1>6. ServiceInv' /\ GhostTypeOK' /\ WrittenRemembered'
  BY <1>1, <1>2, <1>4
     DEF GhostIInv, ServiceInv, GhostTypeOK, WrittenRemembered, serviceVars, packetVars
<1>7. GhostsAccounted'
  <2>1. \A i \in Index : PacketsKept(i)
    BY <1>1 DEF PacketsKept, Mentions, serviceVars, packetVars
  <2> QED BY <1>1, <1>4, <2>1, AccountedKept DEF GhostsAccounted
<1> QED BY <1>5, <1>6, <1>7 DEF GhostIInv

LEMMA DeleteIInv ==
  ASSUME GhostIInv, NEW o \in Object, Delete(o)
  PROVE  GhostIInv'
<1> DEFINE ghosts == [i \in Index |-> IF ghostRefs[i].obj = o THEN Detached(ghostRefs[i])
                                      ELSE ghostRefs[i]]
<1>1. /\ ghostRefs' = ghosts /\ alive' \subseteq Object
      /\ scope' \subseteq alive' /\ scopeObject' \in alive' \cup {NoObject}
      /\ value' \in [Object -> [MaskBit -> Nat]] /\ value' = value
      /\ cleared \subseteq cleared'
      /\ UNCHANGED <<serviceVars, packetVars, localGhosts>>
  BY DEF GhostIInv, GhostTypeOK, Delete, objectVars
<1>2. /\ dirtyMaskBits' \in [Object -> SUBSET MaskBit]
      /\ \A p \in Object : p # o => dirtyMaskBits'[p] = dirtyMaskBits[p]
  BY DEF GhostIInv, GhostTypeOK, Delete
<1>3. ASSUME NEW i \in Index
      PROVE  /\ ghosts[i] \in GhostInfo /\ GhostAccounted(ghosts[i], i)
             /\ ghosts[i].obj = NoObject \/ (ghosts[i] = ghostRefs[i] /\ ghosts[i].obj # o)
  <2> DEFINE g == ghostRefs[i]
  <2>1. g \in GhostInfo /\ GhostAccounted(g, i)
    BY DEF GhostIInv, GhostTypeOK, GhostsAccounted
  <2>2. CASE g.obj # o
    BY <2>1, <2>2
  <2>3. CASE g.obj = o
    <3>1. g.obj # NoObject /\ ghosts[i] = Detached(g)
      BY <2>3, GhostAssumption
    <3> HIDE DEF ghosts, g
    <3>2. g.segment # "free"
      BY <2>1, <3>1, NotFree DEF GhostAccounted
    <3>3. GhostAccounted(Detached(g), i) /\ Detached(g).obj = NoObject
      BY <2>1, <3>2, DetachedGhost
    <3> QED BY <3>1, <3>3 DEF GhostAccounted
  <2> QED BY <2>2, <2>3
<1>4. ghosts \in [Index -> GhostInfo] /\ \A i \in Index : GhostAccounted(ghosts[i], i)
  BY <1>3
<1> HIDE DEF ghosts
<1>5. \A i \in Index : \A b \in MaskBit :
        \/ ghosts[i].obj # NoObject /\ b \in dirtyMaskBits'[ghosts[i].obj]
        \/ /\ BitAccounted(ghosts[i], i, b)
           /\ ghosts[i].obj # NoObject =>
                value'[ghosts[i].obj][b] = value[ghosts[i].obj][b]
  <2> SUFFICES ASSUME NEW i \in Index, NEW b \in MaskBit
               PROVE  \/ ghosts[i].obj # NoObject /\ b \in dirtyMaskBits'[ghosts[i].obj]
                      \/ BitAccounted(ghosts[i], i, b)
    BY <1>1
  <2>1. CASE ghosts[i].obj = NoObject
    BY <2>1, DetachedBit
  <2>2. CASE ghosts[i] = ghostRefs[i] /\ ghosts[i].obj # o /\ ghosts[i].obj # NoObject
    <3>1. ghosts[i].obj \in Object
      BY <1>4, <2>2 DEF GhostInfo
    <3> QED BY <1>2, <2>2, <3>1 DEF GhostIInv, BitsAccounted
  <2> QED BY <1>3, <2>1, <2>2
<1> QED BY <1>1, <1>2, <1>4, <1>5, ServerIInv

LEMMA ChangeScopeIInv == ASSUME GhostIInv, ChangeScope PROVE GhostIInv'
<1>1. /\ ghostRefs \in [Index -> GhostInfo] /\ ghostRefs' = ghostRefs
      /\ \A i \in Index : GhostAccounted(ghostRefs[i], i)
      /\ alive' \subseteq Object /\ scope' \subseteq alive'
      /\ scopeObject' \in alive' \cup {NoObject} /\ cleared \subseteq cleared'
      /\ value' \in [Object -> [MaskBit -> Nat]] /\ value' = value
      /\ dirtyMaskBits' \in [Object -> SUBSET MaskBit] /\ dirtyMaskBits' = dirtyMaskBits
      /\ UNCHANGED <<serviceVars, packetVars, localGhosts>>
  BY DEF GhostIInv, GhostTypeOK, GhostsAccounted, ChangeScope
<1>2. \A i \in Index : \A b \in MaskBit :
        \/ ghostRefs[i].obj # NoObject /\ b \in dirtyMaskBits'[ghostRefs[i].obj]
        \/ /\ BitAccounted(ghostRefs[i], i, b)
           /\ ghostRefs[i].obj # NoObject =>
                value'[ghostRefs[i].obj][b] = value[ghostRefs[i].obj][b]
  BY <1>1 DEF GhostIInv, BitsAccounted
<1> QED BY <1>1, <1>2, ServerIInv

LEMMA SetScopeObjectIInv ==
  ASSUME GhostIInv, NEW o \in Object, SetScopeObject(o) PROVE GhostIInv'
<1>1. /\ ghostRefs \in [Index -> GhostInfo] /\ ghostRefs' = ghostRefs
      /\ \A i \in Index : GhostAccounted(ghostRefs[i], i)
      /\ alive' \subseteq Object /\ scope' \subseteq alive'
      /\ scopeObject' \in alive' \cup {NoObject} /\ cleared \subseteq cleared'
      /\ value' \in [Object -> [MaskBit -> Nat]] /\ value' = value
      /\ dirtyMaskBits' \in [Object -> SUBSET MaskBit] /\ dirtyMaskBits' = dirtyMaskBits
      /\ UNCHANGED <<serviceVars, packetVars, localGhosts>>
  BY DEF GhostIInv, GhostTypeOK, GhostsAccounted, SetScopeObject
<1>2. \A i \in Index : \A b \in MaskBit :
        \/ ghostRefs[i].obj # NoObject /\ b \in dirtyMaskBits'[ghostRefs[i].obj]
        \/ /\ BitAccounted(ghostRefs[i], i, b)
           /\ ghostRefs[i].obj # NoObject =>
                value'[ghostRefs[i].obj][b] = value[ghostRefs[i].obj][b]
  BY <1>1 DEF GhostIInv, BitsAccounted
<1> QED BY <1>1, <1>2, ServerIInv

\* A tick of processConnections that sends nothing.
LEMMA TickIInv ==
  ASSUME GhostIInv, NEW ghosts, Accounted(ghosts), ghostRefs' = ghosts,
         dirtyMaskBits' = [o \in Object |-> {}],
         UNCHANGED <<serviceVars, objectVars, packetVars, localGhosts>>
  PROVE  GhostIInv'
<1>1. /\ ghosts \in [Index -> GhostInfo]
      /\ \A i \in Index : GhostAccounted(ghosts[i], i)
      /\ \A i \in Index : \A b \in MaskBit : BitAccounted(ghosts[i], i, b)
  BY DEF Accounted
<1>2. /\ alive' \subseteq Object /\ scope' \subseteq alive'
      /\ scopeObject' \in alive' \cup {NoObject} /\ cleared \subseteq cleared'
      /\ value' \in [Object -> [MaskBit -> Nat]] /\ value' = value
      /\ dirtyMaskBits' \in [Object -> SUBSET MaskBit]
  BY DEF GhostIInv, GhostTypeOK, objectVars
<1>3. \A i \in Index : \A b \in MaskBit :
        \/ ghosts[i].obj # NoObject /\ b \in dirtyMaskBits'[ghosts[i].obj]
        \/ /\ BitAccounted(ghosts[i], i, b)
           /\ ghosts[i].obj # NoObject =>
                value'[ghosts[i].obj][b] = value[ghosts[i].obj][b]
  BY <1>1, <1>2
<1> QED BY <1>1, <1>2, <1>3, ServerIInv

LEMMA CollapseDirtyListIInv == ASSUME GhostIInv, CollapseDirtyList PROVE GhostIInv'
BY CollapsedAccounted, TickIInv DEF CollapseDirtyList

LEMMA PrepareWritePacketIInv == ASSUME GhostIInv, PrepareWritePacket PROVE GhostIInv'
<1>1. Accounted(Collapsed) /\ GhostTypeOK
  BY CollapsedAccounted DEF GhostIInv
<1>2. PICK ghosts \in Scoped : ghostRefs' = ghosts
  BY DEF PrepareWritePacket
<1>3. Accounted(ghosts)
  BY <1>1, <1>2, ScopedAccounted DEF Scoped
<1> QED BY <1>2, <1>3, TickIInv DEF PrepareWritePacket

-----------------------------------------------------------------------------
(* Writing a packet.                                                       *)

\* What can be written about a ghost.
ReadyGhost(g) ==
    /\ g.segment = "nonzero"
    /\ g.flags \cap {"Ghosting", "KillingGhost"} = {}
    /\ ~({"NotYetGhosted", "KillGhost"} \subseteq g.flags)

LEMMA ReadyStage ==
  ASSUME NEW i, NEW g \in GhostInfo, Stage(g, i), ReadyGhost(g)
  PROVE  \/ /\ NotCreated(g, i) /\ g.flags = {"NotYetGhosted"}
            /\ Kind(g) = "Ghosting" /\ g.obj \in Object
         \/ /\ Created(g, i) /\ g.flags = {}
            /\ Kind(g) = "Update" /\ g.obj \in Object /\ g.obj = localGhosts[i].obj
         \/ /\ Created(g, i) /\ g.flags = {"KillGhost"}
            /\ Kind(g) = "KillingGhost" /\ g.obj = NoObject
<1>1. ~Unused(g, i) /\ ~BeingCreated(g, i) /\ ~BeingKilled(g, i)
  BY DEF ReadyGhost, Unused, FreeGhost, BeingCreated, BeingKilled
<1>2. CASE NotCreated(g, i)
  <2>1. g.flags = {"NotYetGhosted"}
    BY <1>2 DEF NotCreated, ReadyGhost
  <2>2. Kind(g) = "Ghosting"
    BY <2>1 DEF Kind
  <2> QED BY <1>2, <2>1, <2>2 DEF NotCreated, KnownAs
<1>3. CASE Created(g, i)
  <2>1. g.flags = {} \/ g.flags = {"KillGhost"}
    BY <1>3 DEF Created
  <2>2. Kind(g) = IF g.flags = {} THEN "Update" ELSE "KillingGhost"
    BY <2>1 DEF Kind
  <2> QED BY <1>3, <2>1, <2>2 DEF Created, KnownAs
<1> QED BY <1>1, <1>2, <1>3 DEF Stage

\* Packet n is written with the update of ghost i, g before it.
UpdateWritten(i, g, retMask, n) ==
    /\ n \in Nat /\ n \notin read /\ read' = read /\ localGhosts' = localGhosts
    /\ \A k \in Mentions(i) : k \in Nat /\ k < n
    /\ Mentions(i)' = Mentions(i) \cup {n}
    /\ \A k \in Mentions(i) : /\ wire'[k][i] = wire[k][i]
                              /\ ghostList'[k][i] = ghostList[k][i]
    /\ wire'[n][i] = Update(g, retMask)
    /\ ghostList'[n][i] = GhostRef(g, retMask)
    /\ ghostRefs'[i] = Written(g, retMask)

LEMMA WrittenAccounted ==
  ASSUME NEW i \in Index, NEW g \in GhostInfo, GhostAccounted(g, i), ReadyGhost(g),
         NEW retMask \in SUBSET MaskBit, NEW n, UpdateWritten(i, g, retMask, n)
  PROVE  GhostAccounted(ghostRefs[i], i)'
<1> DEFINE h == Written(g, retMask)
<1>1. /\ h.obj = g.obj /\ h.segment # "free"
      /\ h.flags = CASE Kind(g) = "KillingGhost" ->
                          (g.flags \ {"KillGhost"}) \cup {"KillingGhost"}
                     [] Kind(g) = "Ghosting" -> {"Ghosting"}
                     [] OTHER -> g.flags
  BY DEF Written, GhostInfo
<1>2. h \in GhostInfo /\ SegmentHolds(h)
  BY DEF Written, GhostInfo, SegmentHolds
<1> HIDE DEF h
<1>3. ghostRefs'[i] = h /\ wire'[n][i].kind = Kind(g) /\ wire'[n][i].obj = g.obj
  BY DEF UpdateWritten, Update, h
<1>4. CASE /\ NotCreated(g, i) /\ g.flags = {"NotYetGhosted"}
           /\ Kind(g) = "Ghosting" /\ g.obj \in Object
  <2>1. h.flags = {"Ghosting"} /\ Mentions(i)' = {n} /\ localGhosts'[i] = NoGhost
    BY <1>1, <1>4 DEF NotCreated, UpdateWritten
  <2>2. BeingCreated(ghostRefs[i], i)'
    BY <1>1, <1>3, <1>4, <2>1 DEF BeingCreated, KnownAs, UpdateWritten
  <2> QED BY <1>2, <1>3, <2>2 DEF GhostAccounted, Stage, SegmentHolds
<1>5. CASE /\ Created(g, i) /\ g.flags = {}
           /\ Kind(g) = "Update" /\ g.obj \in Object /\ g.obj = localGhosts[i].obj
  <2>1. h.flags = {}
    BY <1>1, <1>5
  <2>2. Created(ghostRefs[i], i)'
    BY <1>1, <1>3, <1>5, <2>1 DEF Created, KnownAs, UpdateWritten
  <2> QED BY <1>2, <1>3, <2>2 DEF GhostAccounted, Stage, SegmentHolds
<1>6. CASE /\ Created(g, i) /\ g.flags = {"KillGhost"}
           /\ Kind(g) = "KillingGhost" /\ g.obj = NoObject
  <2>1. h.flags = {"KillingGhost"}
    BY <1>1, <1>6
  <2>2. BeingKilled(ghostRefs[i], i)'
    BY <1>1, <1>3, <1>6, <2>1 DEF Created, BeingKilled, UpdateWritten
  <2> QED BY <1>2, <1>3, <2>2 DEF GhostAccounted, Stage, SegmentHolds
<1> QED BY <1>4, <1>5, <1>6, ReadyStage DEF GhostAccounted

LEMMA WrittenBit ==
  ASSUME NEW i \in Index, NEW b \in MaskBit, NEW g \in GhostInfo, GhostAccounted(g, i),
         ReadyGhost(g), BitAccounted(g, i, b),
         NEW retMask \in SUBSET MaskBit, NEW n, UpdateWritten(i, g, retMask, n),
         value' = value, cleared' = cleared
  PROVE  BitAccounted(ghostRefs[i], i, b)'
<1> DEFINE h == ghostRefs'[i]
<1>1. h.obj = g.obj /\ h.mask = retMask
  BY DEF UpdateWritten, Written, GhostInfo
<1>2. Kind(g) = "KillingGhost" => g.obj = NoObject
  BY ReadyStage DEF GhostAccounted
<1>3. /\ Carries(n, i, b)' <=> b \in g.mask \ retMask
      /\ \A k \in Mentions(i) : Carries(k, i, b)' <=> Carries(k, i, b)
  BY DEF UpdateWritten, GhostRef, Carries
<1>4. CASE g.obj = NoObject \/ <<g.obj, b>> \in cleared \/ b \in retMask
  BY <1>1, <1>4 DEF BitAccounted
<1>5. CASE b \in g.mask \ retMask /\ g.obj # NoObject
  <2>1. LastWith(n, i, b)'
    BY <1>3, <1>5 DEF LastWith, UpdateWritten
  <2>2. wire'[n][i].value[b] = value[g.obj][b]
    BY <1>2, <1>5 DEF UpdateWritten, Update
  <2>3. n \in Mentions(i)' /\ n \notin read'
    BY DEF UpdateWritten
  <2> QED BY <1>1, <2>1, <2>2, <2>3 DEF BitAccounted
<1>6. CASE b \notin g.mask /\ g.obj # NoObject /\ <<g.obj, b>> \notin cleared
  <2>1. \A k \in Mentions(i) : LastWith(k, i, b) => LastWith(k, i, b)'
    BY <1>3, <1>6 DEF LastWith, UpdateWritten
  <2>2. (\A k \in Mentions(i) : ~Carries(k, i, b))
          => (\A k \in Mentions(i)' : ~Carries(k, i, b)')
    BY <1>3, <1>6 DEF UpdateWritten
  <2> QED BY <1>1, <1>6, <2>1, <2>2 DEF BitAccounted, UpdateWritten
<1> QED BY <1>4, <1>5, <1>6

LEMMA DescopedReady ==
  ASSUME GhostTypeOK, NEW ghosts, \A j \in Index : GhostAccounted(ghosts[j], j),
         NEW i \in Ready(Descoped(ghosts))
  PROVE  i \in Index /\ ReadyGhost(Descoped(ghosts)[i])
<1> DEFINE g == ghosts[i]
           h == Descoped(ghosts)[i]
<1>1. /\ i \in Index /\ h.segment = "nonzero"
      /\ h.flags \cap {"Ghosting", "KillingGhost"} = {}
  BY DEF Ready, NonZero
<1>2. ASSUME {"NotYetGhosted", "KillGhost"} \subseteq h.flags PROVE FALSE
  <2>1. g \in GhostInfo /\ Stage(g, i)
    BY <1>1 DEF GhostAccounted
  <2>2. h = IF g.segment # "nonzero" \/ g.obj \in scope THEN g
            ELSE IF "NotYetGhosted" \in g.flags THEN FreeGhost ELSE Detached(g)
    BY <1>1 DEF Descoped
  <2>3. CASE h = g /\ (g.segment # "nonzero" \/ g.obj \in scope)
    <3>1. NotCreated(g, i)
      BY <1>2, <2>1, <2>3
         DEF Stage, Unused, FreeGhost, BeingCreated, Created, BeingKilled
    <3>2. g.obj = NoObject
      BY <1>2, <2>3, <3>1 DEF NotCreated, KnownAs
    <3> QED BY <1>1, <2>3, <3>2, GhostAssumption DEF GhostTypeOK
  <2>4. CASE h = FreeGhost
    BY <1>2, <2>4 DEF FreeGhost
  <2>5. CASE "NotYetGhosted" \notin g.flags /\ h = Detached(g)
    BY <1>2, <2>1, <2>5 DEF Detached, GhostInfo
  <2> QED BY <2>2, <2>3, <2>4, <2>5
<1> QED BY <1>1, <1>2 DEF ReadyGhost

LEMMA RetMaskType ==
  ASSUME NEW g \in GhostInfo, NEW retMask \in RetMasks(g)
  PROVE  retMask \in SUBSET MaskBit
BY DEF RetMasks, GhostInfo

\* What is written about a ghost is remembered.
LEMMA WrittenRemembers ==
  ASSUME GhostTypeOK, NEW i, NEW g \in GhostInfo, Stage(g, i), ReadyGhost(g),
         NEW retMask \in SUBSET MaskBit
  PROVE  Remembers(GhostRef(g, retMask), Update(g, retMask))
<1>1. Kind(g) # "KillingGhost" => g.obj \in Object
  BY ReadyStage
<1>2. g.mask \subseteq MaskBit
  BY DEF GhostInfo
<1>3. Kind(g) # "KillingGhost" =>
        [b \in g.mask \ retMask |-> value[g.obj][b]] \in [g.mask \ retMask -> Nat]
  BY <1>1, <1>2 DEF GhostTypeOK
<1> QED BY <1>1, <1>2, <1>3 DEF Remembers, GhostRef, Update

LEMMA PacketNumbers ==
  ASSUME GhostIInv
  PROVE  /\ sent \in Nat /\ notified \in Nat /\ floor \in Nat
         /\ \A k \in DOMAIN ghostList : k \in Nat /\ notified < k /\ k <= sent
         /\ \A k \in read : k \in Nat /\ k <= floor
         /\ floor <= sent /\ DOMAIN ghostList = DOMAIN wire
BY ServiceAssumption DEF GhostIInv, ServiceInv, GhostTypeOK

\* A packet is written with updates of the chosen ghosts.
LEMMA WrittenIInv ==
  ASSUME GhostIInv, Write, NEW ghosts, Accounted(ghosts), NEW chosen,
         \A i \in chosen : i \in Index /\ ReadyGhost(ghosts[i]),
         NEW retMask, \A i \in chosen : retMask[i] \in SUBSET MaskBit,
         NEW notes, DOMAIN notes = chosen, NEW updates, DOMAIN updates = chosen,
         \A i \in chosen : /\ notes[i] = GhostRef(ghosts[i], retMask[i])
                           /\ updates[i] = Update(ghosts[i], retMask[i]),
         ghostRefs' = [i \in Index |-> IF i \in chosen
                         THEN Written(ghosts[i], retMask[i]) ELSE ghosts[i]],
         ghostList' = Extended(ghostList, notes), wire' = Extended(wire, updates),
         dirtyMaskBits' = [o \in Object |-> {}], UNCHANGED <<objectVars, localGhosts>>
  PROVE  GhostIInv'
<1> DEFINE n == sent + 1
<1>1. /\ ServiceInv' /\ sent' = n /\ n \in Nat
      /\ UNCHANGED <<notified, floor, read, objectVars, localGhosts>>
      /\ dirtyMaskBits' = [o \in Object |-> {}]
  <2>1. ServiceInv
    BY DEF GhostIInv
  <2> QED BY <2>1, WriteInv DEF Write, ServiceInv
<1>2. /\ \A k \in DOMAIN ghostList : k \in Nat /\ k < n
      /\ n \notin DOMAIN ghostList /\ n \notin read
      /\ DOMAIN ghostList = DOMAIN wire
      /\ DOMAIN ghostList \cup {n} = (notified + 1) .. n
  BY PacketNumbers DEF GhostIInv, GhostTypeOK, ServiceInv
<1>3. /\ DOMAIN ghostList' = DOMAIN ghostList \cup {n}
      /\ DOMAIN wire' = DOMAIN ghostList \cup {n}
      /\ \A k \in DOMAIN ghostList : ghostList'[k] = ghostList[k] /\ wire'[k] = wire[k]
      /\ DOMAIN ghostList'[n] = chosen /\ DOMAIN wire'[n] = chosen
      /\ \A i \in chosen : /\ ghostList'[n][i] = GhostRef(ghosts[i], retMask[i])
                           /\ wire'[n][i] = Update(ghosts[i], retMask[i])
  BY <1>2 DEF Extended
<1>4. \A i \in chosen : /\ i \in Index /\ ReadyGhost(ghosts[i])
                        /\ ghosts[i] \in GhostInfo /\ GhostAccounted(ghosts[i], i)
                        /\ retMask[i] \in SUBSET MaskBit
  BY DEF Accounted
<1> HIDE DEF n
<1>5. ASSUME NEW i \in Index
       PROVE  /\ GhostAccounted(ghostRefs[i], i)'
              /\ \A b \in MaskBit : BitAccounted(ghostRefs[i], i, b)'
  <2> DEFINE g == ghosts[i]
  <2>1. /\ GhostAccounted(g, i) /\ g \in GhostInfo
        /\ \A b \in MaskBit : BitAccounted(g, i, b)
    BY DEF Accounted
  <2>2. value' = value /\ cleared' = cleared
    BY <1>1 DEF objectVars
  <2>3. CASE i \in chosen
    <3> DEFINE ret == retMask[i]
    <3>1. UpdateWritten(i, g, ret, n)
      <4>1. Mentions(i)' = Mentions(i) \cup {n} /\ \A k \in Mentions(i) : k \in Nat /\ k < n
        BY <1>2, <1>3, <2>3 DEF Mentions
      <4>2. \A k \in Mentions(i) : wire'[k][i] = wire[k][i] /\ ghostList'[k][i] = ghostList[k][i]
        BY <1>3 DEF Mentions
      <4>3. /\ wire'[n][i] = Update(g, ret) /\ ghostList'[n][i] = GhostRef(g, ret)
            /\ ghostRefs'[i] = Written(g, ret)
        BY <1>3, <2>3
      <4> QED BY <1>1, <1>2, <4>1, <4>2, <4>3 DEF UpdateWritten
    <3>2. ret \in SUBSET MaskBit /\ ReadyGhost(g)
      BY <1>4, <2>3
    <3> HIDE DEF g, ret
    <3> QED BY <2>1, <2>2, <3>1, <3>2, WrittenAccounted, WrittenBit
  <2>4. CASE i \notin chosen
    <3>1. ghostRefs'[i] = g
      BY <2>4
    <3>2. PacketsKept(i)
      BY <1>1, <1>3, <2>4 DEF PacketsKept, Mentions
    <3> QED BY <2>1, <2>2, <3>1, <3>2, AccountedKept, BitKept
  <2> QED BY <2>3, <2>4
<1>6. WrittenRemembered'
  <2> SUFFICES ASSUME NEW k \in DOMAIN ghostList'
               PROVE  /\ DOMAIN ghostList'[k] = DOMAIN wire'[k]
                      /\ DOMAIN wire'[k] \subseteq Index
                      /\ \A i \in DOMAIN wire'[k] : Remembers(ghostList'[k][i], wire'[k][i])
    BY DEF WrittenRemembered, Remembers
  <2>1. CASE k \in DOMAIN ghostList
    BY <1>3, <2>1 DEF GhostIInv, WrittenRemembered
  <2>2. CASE k = n
    <3>1. ASSUME NEW i \in chosen
          PROVE  Remembers(GhostRef(ghosts[i], retMask[i]), Update(ghosts[i], retMask[i]))
      <4> DEFINE g == ghosts[i]
                 ret == retMask[i]
      <4>1. g \in GhostInfo /\ ret \in SUBSET MaskBit /\ Stage(g, i) /\ ReadyGhost(g)
        BY <1>4 DEF GhostAccounted
      <4> HIDE DEF g, ret
      <4>2. Remembers(GhostRef(g, ret), Update(g, ret))
        BY <4>1, WrittenRemembers DEF GhostIInv
      <4> QED BY <4>2 DEF g, ret
    <3> QED BY <1>3, <1>4, <2>2, <3>1
  <2> QED BY <1>3, <2>1, <2>2
<1>7. GhostTypeOK'
  <2>1. ghostRefs' \in [Index -> GhostInfo]
    BY <1>5 DEF GhostAccounted
  <2> QED BY <1>1, <1>2, <1>3, <2>1 DEF GhostIInv, GhostTypeOK, objectVars
<1> QED BY <1>1, <1>5, <1>6, <1>7 DEF GhostIInv, GhostsAccounted, BitsAccounted

LEMMA WritePacketIInv == ASSUME GhostIInv, WritePacket PROVE GhostIInv'
<1>1. PICK scoped \in ScopeResults(Collapsed) :
        \E chosen \in SUBSET Ready(Descoped(scoped)) :
        \E retMask \in [chosen -> SUBSET MaskBit] :
             /\ \A i \in chosen : retMask[i] \in RetMasks(Descoped(scoped)[i])
             /\ ghostRefs' = [i \in Index |-> IF i \in chosen
                  THEN Written(Descoped(scoped)[i], retMask[i]) ELSE Descoped(scoped)[i]]
             /\ ghostList' = Extended(ghostList,
                  [i \in chosen |-> GhostRef(Descoped(scoped)[i], retMask[i])])
             /\ wire' = Extended(wire,
                  [i \in chosen |-> Update(Descoped(scoped)[i], retMask[i])])
  BY DEF WritePacket
<1> DEFINE ghosts == Descoped(scoped)
<1>2. Accounted(scoped) /\ GhostTypeOK
  BY CollapsedAccounted, ScopedAccounted DEF GhostIInv
<1>3. Accounted(ghosts) /\ \A i \in Ready(ghosts) : i \in Index /\ ReadyGhost(ghosts[i])
  BY <1>2, DescopedAccounted, DescopedReady DEF Accounted
<1> HIDE DEF ghosts
<1>4. PICK chosen \in SUBSET Ready(ghosts) : \E retMask \in [chosen -> SUBSET MaskBit] :
             /\ \A i \in chosen : retMask[i] \in RetMasks(ghosts[i])
             /\ ghostRefs' = [i \in Index |-> IF i \in chosen
                  THEN Written(ghosts[i], retMask[i]) ELSE ghosts[i]]
             /\ ghostList' = Extended(ghostList,
                  [i \in chosen |-> GhostRef(ghosts[i], retMask[i])])
             /\ wire' = Extended(wire,
                  [i \in chosen |-> Update(ghosts[i], retMask[i])])
  BY <1>1 DEF ghosts
<1>5. PICK retMask \in [chosen -> SUBSET MaskBit] :
             /\ \A i \in chosen : retMask[i] \in RetMasks(ghosts[i])
             /\ ghostRefs' = [i \in Index |-> IF i \in chosen
                  THEN Written(ghosts[i], retMask[i]) ELSE ghosts[i]]
             /\ ghostList' = Extended(ghostList,
                  [i \in chosen |-> GhostRef(ghosts[i], retMask[i])])
             /\ wire' = Extended(wire,
                  [i \in chosen |-> Update(ghosts[i], retMask[i])])
  BY <1>4
<1> QED
  <2> DEFINE notes == [i \in chosen |-> GhostRef(ghosts[i], retMask[i])]
             updates == [i \in chosen |-> Update(ghosts[i], retMask[i])]
  <2>1. /\ DOMAIN notes = chosen /\ DOMAIN updates = chosen
        /\ \A i \in chosen : /\ notes[i] = GhostRef(ghosts[i], retMask[i])
                             /\ updates[i] = Update(ghosts[i], retMask[i])
        /\ ghostList' = Extended(ghostList, notes) /\ wire' = Extended(wire, updates)
        /\ ghostRefs' = [i \in Index |-> IF i \in chosen
             THEN Written(ghosts[i], retMask[i]) ELSE ghosts[i]]
    BY <1>5
  <2>2. /\ Write /\ dirtyMaskBits' = [o \in Object |-> {}]
        /\ UNCHANGED <<objectVars, localGhosts>>
    BY DEF WritePacket
  <2>3. /\ \A i \in chosen : i \in Index /\ ReadyGhost(ghosts[i])
        /\ \A i \in chosen : retMask[i] \in SUBSET MaskBit
    BY <1>3
  <2> HIDE DEF notes, updates
  <2> QED BY <1>3, <2>1, <2>2, <2>3, WrittenIInv

\* A packet without updates.
LEMMA WriteNoUpdatesIInv == ASSUME GhostIInv, WriteNoUpdates PROVE GhostIInv'
<1> DEFINE ghosts == Collapsed
           none == <<>>
<1>1. Accounted(ghosts)
  BY CollapsedAccounted
<1>2. /\ Write /\ dirtyMaskBits' = [o \in Object |-> {}]
      /\ UNCHANGED <<objectVars, localGhosts>>
      /\ ghostList' = Extended(ghostList, none) /\ wire' = Extended(wire, none)
  BY DEF WriteNoUpdates
<1>3. ghostRefs' = [i \in Index |-> IF i \in {} THEN Written(ghosts[i], none[i])
                                    ELSE ghosts[i]]
  BY DEF WriteNoUpdates, Collapsed
<1>4. DOMAIN none = {}
  OBVIOUS
<1> HIDE DEF ghosts, none
<1> QED BY <1>1, <1>2, <1>3, <1>4, WrittenIInv

-----------------------------------------------------------------------------
(* Reading a packet.                                                       *)

LEMMA UnpackedGhost ==
  ASSUME NEW ghost, NEW ref, NEW update, Remembers(ref, update),
         update.kind # "KillingGhost"
  PROVE  /\ Unpacked(ghost, update).obj = IF ghost = NoGhost THEN update.obj ELSE ghost.obj
         /\ \A b \in MaskBit : Unpacked(ghost, update).value[b] =
              IF b \in ref.mask THEN update.value[b] ELSE ghost.value[b]
BY DEF Remembers, Unpacked

\* Packet k is read, with an update of ghost i.
UpdateRead(i, k) ==
    /\ k \in Mentions(i) /\ k \notin read /\ read' = read \cup {k}
    /\ \A j \in Mentions(i) : j \in Nat
    /\ \A j \in read : j < k
    /\ ghostRefs' = ghostRefs /\ ghostList' = ghostList /\ wire' = wire
    /\ localGhosts'[i] = Unpacked(localGhosts[i], wire[k][i])
    /\ Remembers(ghostList[k][i], wire[k][i])

LEMMA ReadAccounted ==
  ASSUME NEW i \in Index, GhostAccounted(ghostRefs[i], i), NEW k, UpdateRead(i, k)
  PROVE  GhostAccounted(ghostRefs[i], i)'
<1> DEFINE g == ghostRefs[i]
           local == localGhosts[i]
<1>1. ghostRefs'[i] = g /\ Mentions(i)' = Mentions(i) /\ Mentions(i) # {}
  BY DEF UpdateRead, Mentions
<1>2. wire[k][i].kind # "KillingGhost" =>
        localGhosts'[i].obj = IF local = NoGhost THEN wire[k][i].obj ELSE local.obj
  BY UnpackedGhost DEF UpdateRead
<1>3. local.obj \in Object => local # NoGhost
  BY GhostAssumption DEF NoGhost
<1>4. CASE BeingCreated(g, i)
  <2>1. /\ Mentions(i) = {k} /\ wire[k][i].kind = "Ghosting" /\ local = NoGhost
    BY <1>4 DEF BeingCreated, UpdateRead
  <2>2. BeingCreated(ghostRefs[i], i)'
    BY <1>1, <1>2, <1>4, <2>1 DEF BeingCreated, UpdateRead, KnownAs
  <2> QED BY <1>1, <2>2 DEF GhostAccounted, Stage, SegmentHolds
<1>5. CASE Created(g, i)
  <2>1. localGhosts'[i].obj = local.obj
    BY <1>2, <1>3, <1>5 DEF Created, UpdateRead
  <2>2. Created(ghostRefs[i], i)'
    BY <1>1, <1>5, <2>1 DEF Created, UpdateRead, KnownAs
  <2> QED BY <1>1, <2>2 DEF GhostAccounted, Stage, SegmentHolds
<1>6. CASE BeingKilled(g, i)
  <2>1. PICK n \in Mentions(i) :
         /\ wire[n][i].kind = "KillingGhost"
         /\ n \in read => local = NoGhost
         /\ n \notin read => local.obj \in Object
         /\ \A j \in Mentions(i) \ {n} :
              /\ j < n /\ wire[j][i].kind = "Update"
              /\ n \notin read => wire[j][i].obj = local.obj
    BY <1>6 DEF BeingKilled
  <2>2. CASE n = k
    <3>1. localGhosts'[i] = NoGhost /\ n \in read'
      BY <2>1, <2>2 DEF UpdateRead, Unpacked
    <3>2. BeingKilled(ghostRefs[i], i)'
      BY <1>1, <1>6, <2>1, <3>1 DEF BeingKilled, UpdateRead
    <3> QED BY <1>1, <3>2 DEF GhostAccounted, Stage, SegmentHolds
  <2>3. CASE n # k
    <3>1. n \notin read /\ n \notin read' /\ wire[k][i].kind = "Update"
      BY <2>1, <2>3 DEF UpdateRead
    <3>2. localGhosts'[i].obj = local.obj
      BY <1>2, <1>3, <2>1, <3>1
    <3>3. BeingKilled(ghostRefs[i], i)'
      BY <1>1, <1>6, <2>1, <3>1, <3>2 DEF BeingKilled, UpdateRead
    <3> QED BY <1>1, <3>3 DEF GhostAccounted, Stage, SegmentHolds
  <2> QED BY <2>2, <2>3
<1>7. ~Unused(g, i) /\ ~NotCreated(g, i)
  BY <1>1 DEF Unused, NotCreated
<1> QED BY <1>4, <1>5, <1>6, <1>7 DEF GhostAccounted, Stage

LEMMA ReadBit ==
  ASSUME NEW i \in Index, NEW b \in MaskBit, GhostAccounted(ghostRefs[i], i),
         BitAccounted(ghostRefs[i], i, b), NEW k, UpdateRead(i, k),
         value' = value, cleared' = cleared
  PROVE  BitAccounted(ghostRefs[i], i, b)'
<1> DEFINE g == ghostRefs[i]
           local == localGhosts[i]
           v == value[g.obj][b]
<1>1. /\ ghostRefs'[i] = g /\ value'[g.obj][b] = v /\ Mentions(i)' = Mentions(i)
      /\ \A j : Carries(j, i, b)' <=> Carries(j, i, b)
      /\ \A j : LastWith(j, i, b)' <=> LastWith(j, i, b)
  BY DEF UpdateRead, Mentions, Carries, LastWith
<1>2. CASE g.obj = NoObject \/ b \in g.mask \/ <<g.obj, b>> \in cleared
  BY <1>1, <1>2 DEF BitAccounted
<1>3. CASE g.obj # NoObject
  <2>1. wire[k][i].kind # "KillingGhost"
    BY <1>3 DEF GhostAccounted, Stage, Unused, NotCreated, BeingCreated, Created,
                BeingKilled, UpdateRead
  <2>2. /\ localGhosts'[i].obj = IF local = NoGhost THEN wire[k][i].obj ELSE local.obj
        /\ localGhosts'[i].value[b] = IF Carries(k, i, b) THEN wire[k][i].value[b]
                                      ELSE local.value[b]
    BY <2>1, UnpackedGhost DEF UpdateRead, Carries
  <2>3. ASSUME NEW j \in Mentions(i), LastWith(j, i, b), wire[j][i].value[b] = v,
               j \in read => local.value[b] = v
        PROVE  BitAccounted(ghostRefs[i], i, b)'
    <3>1. j \in read' => localGhosts'[i].value[b] = v
      <4>1. CASE j = k
        BY <2>2, <2>3, <4>1 DEF LastWith
      <4>2. CASE j # k /\ j \in read
        <5>1. ~Carries(k, i, b)
          BY <2>3, <4>2 DEF LastWith, UpdateRead
        <5> QED BY <2>2, <2>3, <4>2, <5>1
      <4> QED BY <4>1, <4>2 DEF UpdateRead
    <3>2. wire'[j][i].value[b] = v
      BY <2>3 DEF UpdateRead
    <3> QED BY <1>1, <2>3, <3>1, <3>2 DEF BitAccounted
  <2>4. CASE /\ \A j \in Mentions(i) : ~Carries(j, i, b)
             /\ local.obj = g.obj /\ local.value[b] = v
    <3>1. local # NoGhost /\ ~Carries(k, i, b)
      BY <1>3, <2>4 DEF NoGhost, UpdateRead
    <3> QED BY <1>1, <2>2, <2>4, <3>1 DEF BitAccounted
  <2> QED BY <1>2, <2>3, <2>4 DEF BitAccounted
<1> QED BY <1>2, <1>3

LEMMA ReadPacketIInv ==
  ASSUME GhostIInv, NEW k \in (floor + 1) .. sent, ReadPacket(k)
  PROVE  GhostIInv'
<1>1. /\ ServiceInv' /\ k \notin read /\ k > notified /\ k \in Nat
      /\ read' = read \cup {k}
  BY ReadInv DEF GhostIInv, ReadPacket
<1>2. /\ UNCHANGED <<sent, notified, objectVars, dirtyMaskBits, ghostRefs, packetVars>>
      /\ localGhosts' = [i \in Index |->
            IF i \in DOMAIN wire[k] THEN Unpacked(localGhosts[i], wire[k][i])
            ELSE localGhosts[i]]
  BY DEF ReadPacket, Read
<1>3. /\ k \in DOMAIN ghostList /\ DOMAIN ghostList[k] = DOMAIN wire[k]
      /\ \A i \in DOMAIN wire[k] : Remembers(ghostList[k][i], wire[k][i])
      /\ \A j \in read : j < k
      /\ \A j \in DOMAIN ghostList : j \in Nat
  <2>1. /\ \A j \in read : j < k
        /\ \A j \in DOMAIN ghostList : j \in Nat
    BY PacketNumbers
  <2>2. k \in DOMAIN ghostList
    BY <1>1, PacketNumbers DEF GhostIInv, GhostTypeOK
  <2> QED BY <2>1, <2>2 DEF GhostIInv, WrittenRemembered
<1>4. ASSUME NEW i \in Index
      PROVE  /\ GhostAccounted(ghostRefs[i], i)'
             /\ \A b \in MaskBit :
                  \/ ghostRefs'[i].obj # NoObject /\ b \in dirtyMaskBits'[ghostRefs'[i].obj]
                  \/ BitAccounted(ghostRefs[i], i, b)'
  <2> DEFINE g == ghostRefs[i]
  <2>1. /\ GhostAccounted(g, i) /\ ghostRefs'[i] = g /\ dirtyMaskBits' = dirtyMaskBits
        /\ value' = value /\ cleared' = cleared
        /\ \A b \in MaskBit : \/ g.obj # NoObject /\ b \in dirtyMaskBits[g.obj]
                              \/ BitAccounted(g, i, b)
    BY <1>2 DEF GhostIInv, GhostsAccounted, BitsAccounted, objectVars
  <2>2. CASE i \in DOMAIN wire[k]
    <3>1. UpdateRead(i, k)
      BY <1>1, <1>2, <1>3, <2>2 DEF UpdateRead, Mentions, packetVars
    <3> QED BY <2>1, <3>1, ReadAccounted, ReadBit
  <2>3. CASE i \notin DOMAIN wire[k]
    <3>1. PacketsKept(i)
      BY <1>1, <1>2, <1>3, <2>3 DEF PacketsKept, Mentions, packetVars
    <3>2. GhostAccounted(ghostRefs[i], i)'
      BY <2>1, <3>1, AccountedKept
    <3>3. \A b \in MaskBit : BitAccounted(g, i, b) => BitAccounted(ghostRefs[i], i, b)'
      <4> HIDE DEF g
      <4> QED BY <2>1, <3>1, BitKept
    <3> QED BY <2>1, <3>2, <3>3
  <2> QED BY <2>2, <2>3
<1>5. localGhosts' \in [Index -> [obj : Object \cup {NoObject}, value : [MaskBit -> Nat]]]
  <2> SUFFICES ASSUME NEW i \in Index, i \in DOMAIN wire[k]
               PROVE  Unpacked(localGhosts[i], wire[k][i])
                        \in [obj : Object \cup {NoObject}, value : [MaskBit -> Nat]]
    BY <1>2 DEF GhostIInv, GhostTypeOK
  <2> DEFINE update == wire[k][i]
             ghost == localGhosts[i]
  <2>1. /\ ghost \in [obj : Object \cup {NoObject}, value : [MaskBit -> Nat]]
        /\ update.kind # "KillingGhost" =>
             /\ update.obj \in Object
             /\ \A b \in DOMAIN update.value : update.value[b] \in Nat
    BY <1>3 DEF GhostIInv, GhostTypeOK, Remembers
  <2> HIDE DEF update, ghost
  <2>2. CASE update.kind = "KillingGhost"
    BY <2>2 DEF Unpacked, NoGhost, update
  <2>3. CASE update.kind # "KillingGhost"
    BY <2>1, <2>3 DEF Unpacked, update, ghost
  <2> QED BY <2>2, <2>3
<1>6. GhostTypeOK' /\ WrittenRemembered'
  BY <1>2, <1>5 DEF GhostIInv, GhostTypeOK, WrittenRemembered, objectVars, packetVars
<1> QED BY <1>1, <1>4, <1>6 DEF GhostIInv, GhostsAccounted, BitsAccounted

LEMMA LosePacketIInv ==
  ASSUME GhostIInv, NEW k \in (floor + 1) .. sent, LosePacket(k)
  PROVE  GhostIInv'
<1>1. /\ ServiceInv' /\ UNCHANGED <<sent, notified, read, ghostVars>>
  BY SkipInv DEF GhostIInv, LosePacket, Skip
<1>2. GhostTypeOK' /\ WrittenRemembered'
  BY <1>1 DEF GhostIInv, GhostTypeOK, WrittenRemembered, ghostVars, objectVars, packetVars
<1>3. \A i \in Index : PacketsKept(i) /\ ghostRefs'[i] = ghostRefs[i]
  BY <1>1 DEF PacketsKept, Mentions, ghostVars, packetVars
<1>4. GhostsAccounted'
  BY <1>3, AccountedKept DEF GhostIInv, GhostsAccounted
<1>5. BitsAccounted'
  <2> SUFFICES ASSUME NEW i \in Index, NEW b \in MaskBit
               PROVE  \/ ghostRefs'[i].obj # NoObject /\ b \in dirtyMaskBits'[ghostRefs'[i].obj]
                      \/ BitAccounted(ghostRefs[i], i, b)'
    BY DEF BitsAccounted
  <2> DEFINE g == ghostRefs[i]
  <2>1. \/ g.obj # NoObject /\ b \in dirtyMaskBits[g.obj]
        \/ BitAccounted(g, i, b)
    BY DEF GhostIInv, BitsAccounted
  <2>2. /\ ghostRefs'[i] = g /\ dirtyMaskBits' = dirtyMaskBits
        /\ value' = value /\ cleared' = cleared
    BY <1>1 DEF ghostVars, objectVars
  <2> HIDE DEF g
  <2> QED BY <1>3, <2>1, <2>2, BitKept
<1> QED BY <1>1, <1>2, <1>4, <1>5 DEF GhostIInv

-----------------------------------------------------------------------------
(* The notification of a packet.                                           *)

\* Packet n is notified, with an update of ghost i.
UpdateNotified(i, n) ==
    /\ n \in Mentions(i) /\ \A k \in Mentions(i) : k \in Nat /\ n <= k
    /\ Mentions(i)' = Mentions(i) \ {n}
    /\ \A k \in Mentions(i) \ {n} : /\ wire'[k][i] = wire[k][i]
                                    /\ ghostList'[k][i] = ghostList[k][i]
    /\ read' = read /\ localGhosts' = localGhosts
    /\ Remembers(ghostList[n][i], wire[n][i])

\* Ghost i when packet n, which was about it, was received.
AfterReceived(i, n) ==
    CASE ghostList[n][i].ghostInfoFlags = "Ghosting" ->
           [ghostRefs[i] EXCEPT !.flags = @ \ {"Ghosting"}]
      [] ghostList[n][i].ghostInfoFlags = "KillingGhost" -> FreeGhost
      [] OTHER -> ghostRefs[i]

LEMMA ReceivedAccounted ==
  ASSUME NEW i \in Index, GhostAccounted(ghostRefs[i], i), NEW n, UpdateNotified(i, n),
         n \in read, ghostRefs'[i] = AfterReceived(i, n)
  PROVE  GhostAccounted(ghostRefs[i], i)'
<1> DEFINE g == ghostRefs[i]
           h == ghostRefs'[i]
<1>1. /\ g \in GhostInfo /\ Mentions(i) # {} /\ wire[n][i].kind = ghostList[n][i].ghostInfoFlags
      /\ wire[n][i].kind # "KillingGhost" => wire[n][i].obj \in Object
  BY DEF GhostAccounted, UpdateNotified, Remembers
<1>2. CASE BeingCreated(g, i)
  <2>1. /\ Mentions(i) = {n} /\ wire[n][i].kind = "Ghosting"
        /\ localGhosts[i].obj = wire[n][i].obj /\ KnownAs(g, wire[n][i].obj)
        /\ g.flags \subseteq {"Ghosting", "KillGhost"} /\ g.segment # "free"
    BY <1>2 DEF BeingCreated, UpdateNotified
  <2>2. h = [g EXCEPT !.flags = @ \ {"Ghosting"}]
    BY <1>1, <2>1 DEF AfterReceived
  <2>3. /\ h.flags = g.flags \ {"Ghosting"} /\ h.obj = g.obj /\ h.segment = g.segment
        /\ h.mask = g.mask /\ h \in GhostInfo
    BY <1>1, <2>2 DEF GhostInfo
  <2>4. Mentions(i)' = {} /\ localGhosts' = localGhosts
    BY <2>1 DEF UpdateNotified
  <2> HIDE DEF g, h
  <2>5. h.flags \subseteq {"KillGhost"} /\ KnownAs(h, localGhosts[i].obj)
    BY <2>1, <2>3 DEF KnownAs
  <2> USE DEF g, h
  <2>6. Created(ghostRefs[i], i)'
    BY <1>1, <2>1, <2>3, <2>4, <2>5 DEF Created, KnownAs
  <2> QED BY <2>3, <2>6 DEF GhostAccounted, Stage, SegmentHolds
<1>3. CASE Created(g, i)
  <2>1. wire[n][i].kind = "Update" /\ h = g
    BY <1>1, <1>3 DEF Created, UpdateNotified, AfterReceived
  <2>2. Created(ghostRefs[i], i)'
    BY <1>3, <2>1 DEF Created, UpdateNotified, KnownAs
  <2> QED BY <2>1, <2>2 DEF GhostAccounted, Stage, SegmentHolds
<1>4. CASE BeingKilled(g, i)
  <2>1. PICK k \in Mentions(i) :
         /\ wire[k][i].kind = "KillingGhost"
         /\ k \in read => localGhosts[i] = NoGhost
         /\ k \notin read => localGhosts[i].obj \in Object
         /\ \A j \in Mentions(i) \ {k} :
              /\ j < k /\ wire[j][i].kind = "Update"
              /\ k \notin read => wire[j][i].obj = localGhosts[i].obj
    BY <1>4 DEF BeingKilled
  <2>2. CASE k = n
    <3>1. Mentions(i)' = {}
      <4>1. \A j \in Mentions(i) : j = n
        BY <2>1, <2>2 DEF UpdateNotified
      <4> QED BY <4>1 DEF UpdateNotified
    <3>2. h = FreeGhost
      BY <1>1, <2>1, <2>2 DEF AfterReceived
    <3>3. Unused(ghostRefs[i], i)'
      BY <2>1, <2>2, <3>1, <3>2 DEF Unused, UpdateNotified
    <3> QED BY <3>2, <3>3, FreeGhostInfo DEF GhostAccounted, Stage, SegmentHolds
  <2>3. CASE k # n
    <3>1. wire[n][i].kind = "Update" /\ h = g
      BY <1>1, <2>1, <2>3 DEF UpdateNotified, AfterReceived
    <3>2. BeingKilled(ghostRefs[i], i)'
      BY <1>4, <2>1, <2>3, <3>1 DEF BeingKilled, UpdateNotified
    <3> QED BY <3>1, <3>2 DEF GhostAccounted, Stage, SegmentHolds
  <2> QED BY <2>2, <2>3
<1>5. ~Unused(g, i) /\ ~NotCreated(g, i)
  BY <1>1 DEF Unused, NotCreated
<1> QED BY <1>2, <1>3, <1>4, <1>5 DEF GhostAccounted, Stage

LEMMA ReceivedBit ==
  ASSUME NEW i \in Index, NEW b \in MaskBit, GhostAccounted(ghostRefs[i], i),
         BitAccounted(ghostRefs[i], i, b), NEW n, UpdateNotified(i, n),
         n \in read, ghostRefs'[i] = AfterReceived(i, n),
         value' = value, cleared' = cleared
  PROVE  BitAccounted(ghostRefs[i], i, b)'
<1> DEFINE g == ghostRefs[i]
           h == ghostRefs'[i]
           v == value[g.obj][b]
<1>1. h.obj = NoObject \/ (h.obj = g.obj /\ h.mask = g.mask)
  BY DEF AfterReceived, FreeGhost, GhostAccounted, GhostInfo
<1>2. CASE h.obj = NoObject \/ b \in g.mask \/ <<g.obj, b>> \in cleared
  BY <1>1, <1>2 DEF BitAccounted
<1>3. CASE h.obj # NoObject
  <2>1. h.obj = g.obj /\ h.mask = g.mask
    BY <1>1, <1>3
  <2>2. \A k \in Mentions(i) \ {n} : Carries(k, i, b)' <=> Carries(k, i, b)
    BY DEF UpdateNotified, Carries
  <2>3. ASSUME NEW k \in Mentions(i), LastWith(k, i, b), wire[k][i].value[b] = v,
               k \in read => localGhosts[i].value[b] = v
        PROVE  BitAccounted(ghostRefs[i], i, b)'
    <3>1. CASE k = n
      <4>1. \A j \in Mentions(i)' : ~Carries(j, i, b)'
        BY <2>2, <2>3, <3>1 DEF LastWith, UpdateNotified
      <4>2. localGhosts[i].obj = g.obj
        BY <1>3, <2>1 DEF GhostAccounted, Stage, Unused, NotCreated, BeingCreated,
             Created, BeingKilled, KnownAs, UpdateNotified
      <4>3. localGhosts'[i].obj = g.obj /\ localGhosts'[i].value[b] = v
        BY <2>3, <3>1, <4>2 DEF UpdateNotified
      <4> QED BY <2>1, <4>1, <4>3 DEF BitAccounted
    <3>2. CASE k # n
      <4>1. LastWith(k, i, b)' /\ k \in Mentions(i)'
        BY <2>2, <2>3, <3>2 DEF LastWith, UpdateNotified
      <4> QED BY <2>1, <2>3, <3>2, <4>1 DEF BitAccounted, UpdateNotified
    <3> QED BY <3>1, <3>2
  <2>4. CASE /\ \A k \in Mentions(i) : ~Carries(k, i, b)
             /\ localGhosts[i].obj = g.obj /\ localGhosts[i].value[b] = v
    BY <2>1, <2>2, <2>4 DEF BitAccounted, UpdateNotified
  <2> QED BY <1>2, <2>1, <2>3, <2>4 DEF BitAccounted
<1> QED BY <1>2, <1>3

\* packetDropped: the marks and flags of ghost i when packet n was about it.
AfterDropped(i, n) ==
    Restored(Marked(ghostRefs[i], Resent(i, n)), ghostList[n][i])

LEMMA RestoredGhost ==
  ASSUME NEW g \in GhostInfo, NEW ref
  PROVE  /\ Restored(g, ref) \in GhostInfo /\ Restored(g, ref).obj = g.obj
         /\ Restored(g, ref).mask = g.mask /\ Restored(g, ref).segment = g.segment
         /\ ref.ghostInfoFlags = "Ghosting" =>
              Restored(g, ref).flags = (g.flags \ {"Ghosting"}) \cup {"NotYetGhosted"}
         /\ ref.ghostInfoFlags = "KillingGhost" =>
              Restored(g, ref).flags = (g.flags \ {"KillingGhost"}) \cup {"KillGhost"}
         /\ ref.ghostInfoFlags = "Update" => Restored(g, ref) = g
<1>1. CASE ref.ghostInfoFlags = "Ghosting"
  BY <1>1 DEF Restored, GhostInfo
<1>2. CASE ref.ghostInfoFlags = "KillingGhost"
  BY <1>2 DEF Restored, GhostInfo
<1>3. CASE ref.ghostInfoFlags \notin {"Ghosting", "KillingGhost"}
  BY <1>3 DEF Restored
<1> QED BY <1>1, <1>2, <1>3

LEMMA DroppedMarks ==
  ASSUME NEW i \in Index, GhostAccounted(ghostRefs[i], i), NEW n, UpdateNotified(i, n)
  PROVE  LET g == ghostRefs[i]
             m == Marked(g, Resent(i, n))
         IN  /\ m \in GhostInfo /\ GhostAccounted(m, i)
             /\ m.obj = g.obj /\ m.mask = g.mask \cup Resent(i, n)
             /\ m.segment # "free"
<1>1. ghostRefs[i] \in GhostInfo /\ Mentions(i) # {}
  BY DEF GhostAccounted, UpdateNotified
<1>2. ghostRefs[i].segment # "free"
  BY <1>1 DEF GhostAccounted, Stage, Unused, NotCreated, BeingCreated, Created, BeingKilled
<1>3. Resent(i, n) \in SUBSET MaskBit
  BY DEF Resent, UpdateNotified, Remembers
<1> QED BY <1>1, <1>2, <1>3, MarkedGhost DEF GhostAccounted

LEMMA DroppedAccounted ==
  ASSUME NEW i \in Index, GhostAccounted(ghostRefs[i], i), NEW n, UpdateNotified(i, n),
         n \notin read, ghostRefs'[i] = AfterDropped(i, n)
  PROVE  GhostAccounted(ghostRefs[i], i)'
<1> DEFINE m == Marked(ghostRefs[i], Resent(i, n))
           ref == ghostList[n][i]
           h == ghostRefs'[i]
<1>1. /\ wire[n][i].kind = ref.ghostInfoFlags /\ Mentions(i) # {}
      /\ wire[n][i].kind # "KillingGhost" => wire[n][i].obj \in Object
  BY DEF UpdateNotified, Remembers
<1>2. m \in GhostInfo /\ GhostAccounted(m, i) /\ m.segment # "free"
  BY DroppedMarks
<1>3. h = Restored(m, ref)
  BY DEF AfterDropped
<1> HIDE DEF m
<1>4. /\ h \in GhostInfo /\ h.obj = m.obj /\ h.segment # "free" /\ h.segment = m.segment
      /\ SafeClears => SegmentHolds(h)
      /\ ref.ghostInfoFlags = "Ghosting" =>
           h.flags = (m.flags \ {"Ghosting"}) \cup {"NotYetGhosted"}
      /\ ref.ghostInfoFlags = "KillingGhost" =>
           h.flags = (m.flags \ {"KillingGhost"}) \cup {"KillGhost"}
      /\ ref.ghostInfoFlags = "Update" => h = m
  <2> HIDE DEF ref, h
  <2>1. /\ Restored(m, ref) \in GhostInfo /\ Restored(m, ref).obj = m.obj
        /\ Restored(m, ref).mask = m.mask /\ Restored(m, ref).segment = m.segment
        /\ ref.ghostInfoFlags = "Ghosting" =>
             Restored(m, ref).flags = (m.flags \ {"Ghosting"}) \cup {"NotYetGhosted"}
        /\ ref.ghostInfoFlags = "KillingGhost" =>
             Restored(m, ref).flags = (m.flags \ {"KillingGhost"}) \cup {"KillGhost"}
        /\ ref.ghostInfoFlags = "Update" => Restored(m, ref) = m
    BY <1>2, RestoredGhost
  <2>2. SafeClears => SegmentHolds(h)
    BY <1>2, <1>3, <2>1 DEF GhostAccounted, SegmentHolds
  <2> QED BY <1>2, <1>3, <2>1, <2>2
<1>5. CASE BeingCreated(m, i)
  <2>1. /\ Mentions(i) = {n} /\ wire[n][i].kind = "Ghosting" /\ localGhosts[i] = NoGhost
        /\ KnownAs(m, wire[n][i].obj) /\ m.flags \subseteq {"Ghosting", "KillGhost"}
        /\ "KillGhost" \in m.flags => m.segment = "nonzero"
    BY <1>5 DEF BeingCreated, UpdateNotified
  <2>2. h.flags = (m.flags \ {"Ghosting"}) \cup {"NotYetGhosted"}
    BY <1>1, <1>4, <2>1
  <2>3. Mentions(i)' = {} /\ localGhosts' = localGhosts
    BY <2>1 DEF UpdateNotified
  <2>4. NotCreated(ghostRefs[i], i)'
    BY <1>1, <1>4, <2>1, <2>2, <2>3 DEF NotCreated, KnownAs
  <2> QED BY <1>4, <2>4 DEF GhostAccounted, Stage, SegmentHolds
<1>6. CASE Created(m, i)
  <2>1. h = m
    BY <1>1, <1>4, <1>6 DEF Created, UpdateNotified
  <2>2. Created(ghostRefs[i], i)'
    BY <1>6, <2>1 DEF Created, UpdateNotified, KnownAs
  <2> QED BY <1>4, <2>2 DEF GhostAccounted, Stage, SegmentHolds
<1>7. CASE BeingKilled(m, i)
  <2>1. PICK k \in Mentions(i) :
         /\ wire[k][i].kind = "KillingGhost"
         /\ k \in read => localGhosts[i] = NoGhost
         /\ k \notin read => localGhosts[i].obj \in Object
         /\ \A j \in Mentions(i) \ {k} :
              /\ j < k /\ wire[j][i].kind = "Update"
              /\ k \notin read => wire[j][i].obj = localGhosts[i].obj
    BY <1>7 DEF BeingKilled
  <2>2. CASE k = n
    <3>1. Mentions(i)' = {}
      <4>1. \A j \in Mentions(i) : j = n
        BY <2>1, <2>2 DEF UpdateNotified
      <4> QED BY <4>1 DEF UpdateNotified
    <3>2. h.flags = {"KillGhost"} /\ h.obj = NoObject
      BY <1>1, <1>4, <1>7, <2>1, <2>2 DEF BeingKilled
    <3>3. Created(ghostRefs[i], i)'
      BY <1>4, <2>1, <2>2, <3>1, <3>2 DEF Created, KnownAs, UpdateNotified
    <3> QED BY <1>4, <3>3 DEF GhostAccounted, Stage, SegmentHolds
  <2>3. CASE k # n
    <3>1. h = m
      BY <1>1, <1>4, <2>1, <2>3 DEF UpdateNotified
    <3>2. BeingKilled(ghostRefs[i], i)'
      BY <1>7, <2>1, <2>3, <3>1 DEF BeingKilled, UpdateNotified
    <3> QED BY <1>4, <3>2 DEF GhostAccounted, Stage, SegmentHolds
  <2> QED BY <2>2, <2>3
<1>8. ~Unused(m, i) /\ ~NotCreated(m, i)
  BY <1>1 DEF Unused, NotCreated
<1> QED BY <1>2, <1>5, <1>6, <1>7, <1>8 DEF GhostAccounted, Stage

LEMMA DroppedBit ==
  ASSUME NEW i \in Index, NEW b \in MaskBit, GhostAccounted(ghostRefs[i], i),
         BitAccounted(ghostRefs[i], i, b), NEW n, UpdateNotified(i, n),
         n \notin read, ghostRefs'[i] = AfterDropped(i, n),
         value' = value, cleared' = cleared
  PROVE  BitAccounted(ghostRefs[i], i, b)'
<1> DEFINE g == ghostRefs[i]
           h == ghostRefs'[i]
           v == value[g.obj][b]
<1>1. h.obj = g.obj /\ h.mask = g.mask \cup Resent(i, n)
  <2> DEFINE m == Marked(g, Resent(i, n))
  <2>1. m \in GhostInfo /\ m.obj = g.obj /\ m.mask = g.mask \cup Resent(i, n)
    BY DroppedMarks
  <2>2. h = Restored(m, ghostList[n][i])
    BY DEF AfterDropped
  <2> HIDE DEF m, g, h
  <2> QED BY <2>1, <2>2, RestoredGhost
<1>2. CASE h.obj = NoObject \/ b \in h.mask \/ <<g.obj, b>> \in cleared
  BY <1>1, <1>2 DEF BitAccounted
<1>3. CASE h.obj # NoObject /\ b \notin h.mask
  <2>1. \A k \in Mentions(i) \ {n} : Carries(k, i, b)' <=> Carries(k, i, b)
    BY DEF UpdateNotified, Carries
  <2>2. ~LastWith(n, i, b)
    BY <1>1, <1>3 DEF LastWith, Carries, Resent, UpdateChain, Mentions, UpdateNotified
  <2>3. ASSUME NEW k \in Mentions(i), LastWith(k, i, b), wire[k][i].value[b] = v,
               k \in read => localGhosts[i].value[b] = v
        PROVE  BitAccounted(ghostRefs[i], i, b)'
    <3>1. LastWith(k, i, b)' /\ k \in Mentions(i)' /\ k # n
      BY <2>1, <2>2, <2>3 DEF LastWith, UpdateNotified
    <3> QED BY <1>1, <2>3, <3>1 DEF BitAccounted, UpdateNotified
  <2>4. CASE /\ \A k \in Mentions(i) : ~Carries(k, i, b)
             /\ localGhosts[i].obj = g.obj /\ localGhosts[i].value[b] = v
    BY <1>1, <2>1, <2>4 DEF BitAccounted, UpdateNotified
  <2> QED BY <1>1, <1>2, <2>3, <2>4 DEF BitAccounted
<1> QED BY <1>2, <1>3

\* What the two notifications have in common.
LEMMA NotifiedIInv ==
  ASSUME GhostIInv, Notify(notified + 1),
         ghostList' = Forgotten(ghostList), wire' = Forgotten(wire),
         UNCHANGED <<objectVars, dirtyMaskBits, localGhosts>>,
         \A i \in Index : i \notin DOMAIN ghostList[notified + 1]
                            => ghostRefs'[i] = ghostRefs[i],
         \A i \in Index : UpdateNotified(i, notified + 1) =>
           /\ GhostAccounted(ghostRefs[i], i)'
           /\ \A b \in MaskBit :
                BitAccounted(ghostRefs[i], i, b) => BitAccounted(ghostRefs[i], i, b)',
         \A i \in Index : ghostRefs'[i].obj \in {ghostRefs[i].obj, NoObject},
         ghostRefs' \in [Index -> GhostInfo]
  PROVE  GhostIInv'
<1> DEFINE n == notified + 1
<1>1. /\ ServiceInv' /\ notified' = n /\ n <= floor /\ UNCHANGED <<sent, read>>
  <2>1. UNCHANGED <<sent, read>>
    BY DEF Notify
  <2> QED BY <2>1, NotifyInv DEF GhostIInv
<1>2. /\ n \in DOMAIN ghostList /\ DOMAIN wire = DOMAIN ghostList
      /\ \A k \in DOMAIN ghostList : k \in Nat /\ n <= k
      /\ DOMAIN ghostList \ {n} = (n + 1) .. sent
  BY <1>1, PacketNumbers DEF GhostIInv, GhostTypeOK
<1>3. /\ DOMAIN ghostList' = DOMAIN ghostList \ {n} /\ DOMAIN wire' = DOMAIN ghostList \ {n}
      /\ \A k \in DOMAIN ghostList \ {n} : ghostList'[k] = ghostList[k] /\ wire'[k] = wire[k]
  BY <1>2 DEF Forgotten
<1> HIDE DEF n
<1>4. GhostTypeOK'
  <2>1. /\ DOMAIN ghostList' = (notified' + 1) .. sent'
        /\ DOMAIN wire' = (notified' + 1) .. sent'
    BY <1>1, <1>2, <1>3
  <2> QED BY <2>1 DEF GhostIInv, GhostTypeOK, objectVars
<1>5. WrittenRemembered'
  BY <1>3 DEF GhostIInv, WrittenRemembered
<1>6. ASSUME NEW i \in Index
      PROVE  /\ GhostAccounted(ghostRefs[i], i)'
             /\ \A b \in MaskBit :
                  BitAccounted(ghostRefs[i], i, b) => BitAccounted(ghostRefs[i], i, b)'
  <2>1. CASE i \in DOMAIN ghostList[n]
    <3>1. Remembers(ghostList[n][i], wire[n][i])
      BY <1>2, <2>1 DEF GhostIInv, WrittenRemembered
    <3>2. UpdateNotified(i, n)
      BY <1>1, <1>2, <1>3, <2>1, <3>1 DEF UpdateNotified, Mentions
    <3> QED BY <3>2 DEF n
  <2>2. CASE i \notin DOMAIN ghostList[n]
    <3> DEFINE g == ghostRefs[i]
    <3>1. PacketsKept(i)
      BY <1>1, <1>3, <2>2 DEF PacketsKept, Mentions
    <3>2. /\ ghostRefs'[i] = g /\ GhostAccounted(g, i)
          /\ value' = value /\ cleared' = cleared
      BY <2>2 DEF GhostIInv, GhostsAccounted, objectVars, n
    <3>3. GhostAccounted(ghostRefs[i], i)'
      BY <3>1, <3>2, AccountedKept
    <3>4. ASSUME NEW b \in MaskBit, BitAccounted(g, i, b)
          PROVE  BitAccounted(ghostRefs[i], i, b)'
      <4> HIDE DEF g
      <4> QED BY <3>1, <3>2, <3>4, BitKept
    <3> QED BY <3>3, <3>4
  <2> QED BY <2>1, <2>2
<1>7. BitsAccounted'
  <2> SUFFICES ASSUME NEW i \in Index, NEW b \in MaskBit
               PROVE  \/ ghostRefs'[i].obj # NoObject /\ b \in dirtyMaskBits'[ghostRefs'[i].obj]
                      \/ BitAccounted(ghostRefs[i], i, b)'
    BY DEF BitsAccounted
  <2>1. \/ ghostRefs[i].obj # NoObject /\ b \in dirtyMaskBits[ghostRefs[i].obj]
        \/ BitAccounted(ghostRefs[i], i, b)
    BY DEF GhostIInv, BitsAccounted
  <2>2. CASE ghostRefs'[i].obj = NoObject
    BY <2>2 DEF BitAccounted
  <2> QED BY <1>6, <2>1, <2>2
<1> QED BY <1>1, <1>4, <1>5, <1>6, <1>7 DEF GhostIInv, GhostsAccounted

LEMMA PacketReceivedIInv ==
  ASSUME Faithful, GhostIInv, PacketReceived PROVE GhostIInv'
<1> DEFINE n == notified + 1
<1>1. /\ Notify(notified + 1) /\ n \in received'
      /\ ghostRefs' = [i \in Index |-> IF i \notin DOMAIN ghostList[n] THEN ghostRefs[i]
                                       ELSE AfterReceived(i, n)]
      /\ ghostList' = Forgotten(ghostList) /\ wire' = Forgotten(wire)
      /\ UNCHANGED <<objectVars, dirtyMaskBits, localGhosts>>
  BY DEF PacketReceived, AfterReceived
<1>2. n \in read
  BY <1>1, NotifyInv DEF GhostIInv
<1>3. ASSUME NEW i \in Index
      PROVE  AfterReceived(i, n) \in GhostInfo
             /\ AfterReceived(i, n).obj \in {ghostRefs[i].obj, NoObject}
  BY FreeGhostInfo DEF GhostIInv, GhostTypeOK, GhostInfo, AfterReceived, FreeGhost
<1>4. /\ ghostRefs' \in [Index -> GhostInfo]
      /\ \A i \in Index : ghostRefs'[i].obj \in {ghostRefs[i].obj, NoObject}
      /\ \A i \in Index : i \notin DOMAIN ghostList[n] => ghostRefs'[i] = ghostRefs[i]
  BY <1>1, <1>3 DEF GhostIInv, GhostTypeOK
<1>5. ASSUME NEW i \in Index, UpdateNotified(i, n)
      PROVE  /\ GhostAccounted(ghostRefs[i], i)'
             /\ \A b \in MaskBit :
                  BitAccounted(ghostRefs[i], i, b) => BitAccounted(ghostRefs[i], i, b)'
  <2>1. ghostRefs'[i] = AfterReceived(i, n)
    BY <1>1, <1>5 DEF UpdateNotified, Mentions
  <2>2. GhostAccounted(ghostRefs[i], i) /\ value' = value /\ cleared' = cleared
    BY <1>1 DEF GhostIInv, GhostsAccounted, objectVars
  <2> HIDE DEF n
  <2> QED BY <1>2, <1>5, <2>1, <2>2, ReceivedAccounted, ReceivedBit
<1> QED BY <1>1, <1>4, <1>5, NotifiedIInv

LEMMA PacketDroppedIInv ==
  ASSUME GhostIInv, PacketDropped PROVE GhostIInv'
<1> DEFINE n == notified + 1
<1>1. /\ Notify(notified + 1) /\ n \in dropped'
      /\ ghostRefs' = [i \in Index |-> IF i \notin DOMAIN ghostList[n] THEN ghostRefs[i]
                                       ELSE AfterDropped(i, n)]
      /\ ghostList' = Forgotten(ghostList) /\ wire' = Forgotten(wire)
      /\ UNCHANGED <<objectVars, dirtyMaskBits, localGhosts>>
  BY DEF PacketDropped, AfterDropped
<1>2. n \notin read
  BY <1>1, NotifyInv DEF GhostIInv
<1>3. ASSUME NEW i \in Index, i \in DOMAIN ghostList[n]
      PROVE  AfterDropped(i, n) \in GhostInfo /\ AfterDropped(i, n).obj = ghostRefs[i].obj
  <2> DEFINE g == ghostRefs[i]
             bits == Resent(i, n)
  <2>1. g \in GhostInfo /\ bits \in SUBSET MaskBit
    <3>1. n \in DOMAIN ghostList
      BY <1>1, PacketNumbers DEF Notify, GhostIInv, GhostTypeOK
    <3>2. Remembers(ghostList[n][i], wire[n][i])
      BY <1>3, <3>1 DEF GhostIInv, WrittenRemembered
    <3> QED BY <3>2 DEF GhostIInv, GhostTypeOK, Remembers, Resent
  <2>2. AfterDropped(i, n) = Restored(Marked(g, bits), ghostList[n][i])
    BY DEF AfterDropped
  <2> HIDE DEF g, bits
  <2>3. Marked(g, bits) \in GhostInfo /\ Marked(g, bits).obj = g.obj
    BY <2>1 DEF Marked, GhostInfo
  <2> DEFINE m == Marked(g, bits)
  <2> HIDE DEF m
  <2>4. m \in GhostInfo /\ m.obj = g.obj
    BY <2>3 DEF m
  <2>5. AfterDropped(i, n) = Restored(m, ghostList[n][i])
    BY <2>2 DEF m
  <2>6. Restored(m, ghostList[n][i]) \in GhostInfo /\ Restored(m, ghostList[n][i]).obj = m.obj
    BY <2>4, RestoredGhost
  <2>7. AfterDropped(i, n) \in GhostInfo /\ AfterDropped(i, n).obj = g.obj
    BY <2>4, <2>5, <2>6
  <2> QED BY <2>7 DEF g
<1>4. /\ ghostRefs' \in [Index -> GhostInfo]
      /\ \A i \in Index : ghostRefs'[i].obj \in {ghostRefs[i].obj, NoObject}
      /\ \A i \in Index : i \notin DOMAIN ghostList[n] => ghostRefs'[i] = ghostRefs[i]
  BY <1>1, <1>3 DEF GhostIInv, GhostTypeOK
<1>5. ASSUME NEW i \in Index, UpdateNotified(i, n)
      PROVE  /\ GhostAccounted(ghostRefs[i], i)'
             /\ \A b \in MaskBit :
                  BitAccounted(ghostRefs[i], i, b) => BitAccounted(ghostRefs[i], i, b)'
  <2>1. ghostRefs'[i] = AfterDropped(i, n)
    BY <1>1, <1>5 DEF UpdateNotified, Mentions
  <2>2. GhostAccounted(ghostRefs[i], i) /\ value' = value /\ cleared' = cleared
    BY <1>1 DEF GhostIInv, GhostsAccounted, objectVars
  <2> HIDE DEF n
  <2> QED BY <1>2, <1>5, <2>1, <2>2, DroppedAccounted, DroppedBit
<1> QED BY <1>1, <1>4, <1>5, NotifiedIInv

-----------------------------------------------------------------------------
(* The invariant and what follows from it.                                 *)

LEMMA GhostNextIInv ==
  ASSUME Faithful, GhostIInv, [GhostNext]_vars PROVE GhostIInv'
<1>1. CASE GhostNext
  BY <1>1, SetMaskBitsIInv, DeleteIInv, ClearMaskBitsIInv, ChangeScopeIInv,
     SetScopeObjectIInv, CollapseDirtyListIInv, PrepareWritePacketIInv,
     WritePacketIInv, WriteNoUpdatesIInv, ReadPacketIInv, LosePacketIInv,
     PacketReceivedIInv, PacketDroppedIInv DEF GhostNext
<1>2. CASE UNCHANGED vars
  <2>1. /\ ghostRefs \in [Index -> GhostInfo] /\ ghostRefs' = ghostRefs
        /\ \A i \in Index : GhostAccounted(ghostRefs[i], i)
        /\ alive' \subseteq Object /\ scope' \subseteq alive'
        /\ scopeObject' \in alive' \cup {NoObject} /\ cleared \subseteq cleared'
        /\ value' \in [Object -> [MaskBit -> Nat]] /\ value' = value
        /\ dirtyMaskBits' \in [Object -> SUBSET MaskBit] /\ dirtyMaskBits' = dirtyMaskBits
        /\ UNCHANGED <<serviceVars, packetVars, localGhosts>>
    BY <1>2 DEF GhostIInv, GhostTypeOK, GhostsAccounted, vars, ghostVars, objectVars
  <2>2. \A i \in Index : \A b \in MaskBit :
          \/ ghostRefs[i].obj # NoObject /\ b \in dirtyMaskBits'[ghostRefs[i].obj]
          \/ /\ BitAccounted(ghostRefs[i], i, b)
             /\ ghostRefs[i].obj # NoObject =>
                  value'[ghostRefs[i].obj][b] = value[ghostRefs[i].obj][b]
    BY <2>1 DEF GhostIInv, BitsAccounted
  <2> QED BY <2>1, <2>2, ServerIInv
<1> QED BY <1>1, <1>2

\* What is true of a ghost at every stage of its life, and where every bit of it is.
THEOREM GhostInvariant == Faithful => (GhostSpec => []GhostIInv)
<1> SUFFICES ASSUME Faithful PROVE GhostSpec => []GhostIInv
  OBVIOUS
<1>1. GhostIInv /\ [GhostNext]_vars => GhostIInv'
  BY GhostNextIInv
<1> QED BY <1>1, GhostInitIInv, PTL DEF GhostSpec

\* The ghost array of the server is well formed, and a ghost id is free again only
\* when no packet under way speaks of it.
THEOREM GhostArrayHolds == Faithful /\ SafeClears => (GhostSpec => []GhostStateOK)
<1> SUFFICES ASSUME Faithful, SafeClears PROVE GhostSpec => []GhostStateOK
  OBVIOUS
<1>1. GhostIInv => GhostStateOK
  <2> SUFFICES ASSUME GhostIInv PROVE GhostStateOK
    OBVIOUS
  <2>1. SegmentsHold
    BY DEF GhostIInv, GhostsAccounted, GhostAccounted, SegmentsHold
  <2>2. ASSUME NEW i \in Index, ghostRefs[i].segment = "free"
        PROVE  \A k \in DOMAIN ghostList : i \notin DOMAIN ghostList[k]
    <3>1. Mentions(i) = {}
      BY <2>2 DEF GhostIInv, GhostsAccounted, GhostAccounted, Stage, Unused, NotCreated,
                  BeingCreated, Created, BeingKilled
    <3> QED BY <3>1 DEF Mentions
  <2> QED BY <2>1, <2>2 DEF GhostStateOK, FreeUnreferenced, GhostIInv
<1>2. GhostSpec => []GhostIInv
  BY GhostInvariant
<1> QED BY <1>1, <1>2, PTL

\* Server and client agree on what the ghost ids in the packets stand for.
THEOREM GhostIdsHold == Faithful => (GhostSpec => []GhostIdsAgree)
<1> SUFFICES ASSUME Faithful PROVE GhostSpec => []GhostIdsAgree
  OBVIOUS
<1>1. GhostIInv => GhostIdsAgree
  <2> SUFFICES ASSUME GhostIInv, NEW k \in (floor + 1) .. sent, NEW i \in DOMAIN wire[k]
               PROVE  CASE wire[k][i].kind = "Ghosting" -> localGhosts[i] = NoGhost
                        [] wire[k][i].kind = "Update" -> localGhosts[i].obj = wire[k][i].obj
                        [] wire[k][i].kind = "KillingGhost" -> localGhosts[i] # NoGhost
    BY DEF GhostIdsAgree
  <2>1. /\ \A j \in read : j < k
        /\ k \notin read /\ k \in DOMAIN ghostList /\ k \in Nat
        /\ \A j \in DOMAIN ghostList : j \in Nat
    <3>1. \A j \in read : j \in Nat /\ j < k
      BY PacketNumbers
    <3>2. k \in DOMAIN ghostList /\ k \in Nat
      BY PacketNumbers DEF GhostIInv, GhostTypeOK, ServiceInv
    <3> QED BY <3>1, <3>2, PacketNumbers
  <2>2. i \in Index /\ k \in Mentions(i) /\ \A j \in Mentions(i) : j \in Nat
    BY <2>1 DEF GhostIInv, WrittenRemembered, Mentions
  <2>3. CASE BeingCreated(ghostRefs[i], i)
    <3>1. wire[k][i].kind = "Ghosting" /\ localGhosts[i] = NoGhost
      BY <2>1, <2>2, <2>3 DEF BeingCreated
    <3> QED BY <3>1
  <2>4. CASE Created(ghostRefs[i], i)
    <3>1. wire[k][i].kind = "Update" /\ localGhosts[i].obj = wire[k][i].obj
      BY <2>2, <2>4 DEF Created
    <3> QED BY <3>1
  <2>5. CASE BeingKilled(ghostRefs[i], i)
    <3>1. PICK n \in Mentions(i) :
           /\ wire[n][i].kind = "KillingGhost"
           /\ n \in read => localGhosts[i] = NoGhost
           /\ n \notin read => localGhosts[i].obj \in Object
           /\ \A j \in Mentions(i) \ {n} :
                /\ j < n /\ wire[j][i].kind = "Update"
                /\ n \notin read => wire[j][i].obj = localGhosts[i].obj
      BY <2>5 DEF BeingKilled
    <3>2. n \notin read
      BY <2>1, <2>2, <3>1
    <3>3. localGhosts[i] # NoGhost
      BY <3>1, <3>2, GhostAssumption DEF NoGhost
    <3>4. CASE k = n
      BY <3>1, <3>3, <3>4
    <3>5. CASE k # n
      <4>1. wire[k][i].kind = "Update" /\ localGhosts[i].obj = wire[k][i].obj
        BY <2>2, <3>1, <3>2, <3>5
      <4> QED BY <4>1
    <3> QED BY <3>4, <3>5
  <2>6. Stage(ghostRefs[i], i) /\ ~Unused(ghostRefs[i], i) /\ ~NotCreated(ghostRefs[i], i)
    BY <2>2 DEF GhostIInv, GhostsAccounted, GhostAccounted, Unused, NotCreated
  <2> QED BY <2>3, <2>4, <2>5, <2>6 DEF Stage
<1>2. GhostSpec => []GhostIInv
  BY GhostInvariant
<1> QED BY <1>1, <1>2, PTL

\* The client has every ghost whose id getGhostIndex gives out.
THEOREM AvailableGhostsThere == Faithful => (GhostSpec => []AvailableIsThere)
<1> SUFFICES ASSUME Faithful PROVE GhostSpec => []AvailableIsThere
  OBVIOUS
<1>1. GhostIInv => AvailableIsThere
  <2> SUFFICES ASSUME GhostIInv, NEW i \in Index, ghostRefs[i].obj # NoObject,
                      ghostRefs[i].flags = {}
               PROVE  localGhosts[i].obj = ghostRefs[i].obj
    BY DEF AvailableIsThere
  <2>1. Created(ghostRefs[i], i)
    BY DEF GhostIInv, GhostsAccounted, GhostAccounted, Stage, Unused, FreeGhost,
           NotCreated, BeingCreated, BeingKilled
  <2> QED BY <2>1 DEF Created, KnownAs
<1>2. GhostSpec => []GhostIInv
  BY GhostInvariant
<1> QED BY <1>1, <1>2, PTL

\* Where a client's ghost differs from its object, the server still knows of it.
THEOREM NoChangeForgotten == Faithful => (GhostSpec => []NothingForgotten)
<1> SUFFICES ASSUME Faithful PROVE GhostSpec => []NothingForgotten
  OBVIOUS
<1>1. GhostIInv => NothingForgotten
  <2> SUFFICES ASSUME GhostIInv, NEW i \in Index, ghostRefs[i].obj # NoObject,
                      NEW b \in MaskBit
               PROVE  \/ localGhosts[i].value[b] = value[ghostRefs[i].obj][b]
                      \/ b \in dirtyMaskBits[ghostRefs[i].obj] \cup ghostRefs[i].mask
                      \/ b \in UpdateChain(i, notified)
                      \/ <<ghostRefs[i].obj, b>> \in cleared
    BY DEF NothingForgotten
  <2>1. \/ b \in dirtyMaskBits[ghostRefs[i].obj] \/ BitAccounted(ghostRefs[i], i, b)
    BY DEF GhostIInv, BitsAccounted
  <2>2. ASSUME NEW k \in Mentions(i), LastWith(k, i, b)
        PROVE  b \in UpdateChain(i, notified)
    <3>1. k > notified
      BY PacketNumbers DEF Mentions
    <3> QED BY <2>2, <3>1 DEF LastWith, Carries, Mentions, UpdateChain
  <2> QED BY <2>1, <2>2 DEF BitAccounted
<1>2. GhostSpec => []GhostIInv
  BY GhostInvariant
<1> QED BY <1>1, <1>2, PTL


-----------------------------------------------------------------------------
(* The client's ghosts and what it may still read.                         *)

LEMMA NoGhostObject == NoGhost.obj = NoObject /\ NoObject \notin Object
BY GhostAssumption DEF NoGhost

LEMMA UnreadNumbers ==
  ASSUME ServiceInv
  PROVE  \A k \in Unread : k \in Nat /\ k > floor /\ k <= sent /\ k > notified /\ k \notin read
BY ServiceAssumption DEF ServiceInv, Unread

\* The notes hold as long as nothing is written.
LEMMA NotesKept ==
  ASSUME NotesRemembered, ghostList' = ghostList, wire' = wire, Unread' \subseteq Unread
  PROVE  NotesRemembered'
<1>1. \A k \in DOMAIN ghostList' : \A i \in DOMAIN ghostList'[k] :
        i \in Index /\ i \in DOMAIN wire'[k] /\ Remembers(ghostList'[k][i], wire'[k][i])
  BY DEF NotesRemembered
<1>2. \A k \in Unread' : \A i \in DOMAIN wire'[k] : i \in Index /\ Readable(wire'[k][i])
  BY DEF NotesRemembered
<1> QED BY <1>1, <1>2 DEF NotesRemembered, Remembers, Readable

\* The server's account of a ghost is the client's.
LEMMA StageAgrees ==
  ASSUME ServiceInv, NEW i \in Index, GhostAccounted(ghostRefs[i], i),
         \A k \in Mentions(i) : k \in Nat /\ Remembers(ghostList[k][i], wire[k][i]),
         \A k \in Incoming(i) : k \in Mentions(i)
  PROVE  ClientAgrees(i)
<1> DEFINE g == ghostRefs[i]
<1>0. \A k \in Incoming(i) : k \in Nat /\ k > floor /\ k \notin read
  BY UnreadNumbers DEF Incoming
<1>1. CASE Unused(g, i) \/ NotCreated(g, i)
  BY <1>1 DEF Unused, NotCreated, ClientAgrees
<1>2. CASE BeingCreated(g, i)
  <2>1. PICK k \in Mentions(i) :
         /\ Mentions(i) = {k} /\ wire[k][i].kind = "Ghosting"
         /\ IF k \in read THEN localGhosts[i].obj = wire[k][i].obj
            ELSE localGhosts[i] = NoGhost
    BY <1>2 DEF BeingCreated
  <2>2. Incoming(i) \subseteq {k} /\ (k \in read => Incoming(i) = {})
    BY <1>0, <2>1
  <2>3. CASE k \in read
    <3>1. wire[k][i].obj \in Object
      BY <2>1 DEF Remembers
    <3> QED BY <2>1, <2>2, <2>3, <3>1 DEF ClientAgrees
  <2>4. CASE k \notin read
    BY <2>1, <2>2, <2>4 DEF ClientAgrees
  <2> QED BY <2>3, <2>4
<1>3. CASE Created(g, i)
  BY <1>3 DEF Created, ClientAgrees
<1>4. CASE BeingKilled(g, i)
  <2>1. PICK k \in Mentions(i) :
         /\ wire[k][i].kind = "KillingGhost"
         /\ k \in read => localGhosts[i] = NoGhost
         /\ k \notin read => localGhosts[i].obj \in Object
         /\ \A j \in Mentions(i) \ {k} :
              /\ j < k /\ wire[j][i].kind = "Update"
              /\ k \notin read => wire[j][i].obj = localGhosts[i].obj
    BY <1>4 DEF BeingKilled
  <2>2. CASE k \in read
    <3>1. k \in Nat /\ k <= floor /\ floor \in Nat
      BY <2>2, ServiceAssumption DEF ServiceInv
    <3>2. Incoming(i) = {}
      BY <1>0, <2>1, <2>2, <3>1
    <3> QED BY <2>1, <2>2, <3>2 DEF ClientAgrees
  <2>3. CASE k \notin read
    <3>1. \A j \in Incoming(i) : j <= k
      BY <1>0, <2>1
    <3> QED BY <2>1, <2>3, <3>1 DEF ClientAgrees
  <2> QED BY <2>2, <2>3
<1> QED BY <1>1, <1>2, <1>3, <1>4 DEF GhostAccounted, Stage

\* The packets that may still be read make sense to the client.
LEMMA AgreedIds ==
  ASSUME \A i \in Index : ClientAgrees(i),
         \A k \in Unread : DOMAIN wire[k] \subseteq Index
  PROVE  GhostIdsAgree
<1> SUFFICES ASSUME NEW k \in Unread, NEW i \in DOMAIN wire[k]
             PROVE  CASE wire[k][i].kind = "Ghosting" -> localGhosts[i] = NoGhost
                      [] wire[k][i].kind = "Update" -> localGhosts[i].obj = wire[k][i].obj
                      [] wire[k][i].kind = "KillingGhost" -> localGhosts[i] # NoGhost
  BY DEF GhostIdsAgree, Unread
<1>1. ClientAgrees(i) /\ k \in Incoming(i)
  BY DEF Incoming
<1> QED BY <1>1, NoGhostObject DEF ClientAgrees

\* Less may be read.
LEMMA AgreesKept ==
  ASSUME NEW i \in Index, ClientAgrees(i), Incoming(i)' \subseteq Incoming(i),
         \A k \in Incoming(i)' : wire'[k][i] = wire[k][i],
         localGhosts'[i] = localGhosts[i]
  PROVE  ClientAgrees(i)'
BY DEF ClientAgrees

\* Packet k is read.
LEMMA AgreesRead ==
  ASSUME ServiceInv, NEW i \in Index, ClientAgrees(i), NEW k \in Unread,
         floor' = k, sent' = sent, wire' = wire,
         i \in DOMAIN wire[k] => Readable(wire[k][i]),
         localGhosts'[i] = IF i \in DOMAIN wire[k] THEN Unpacked(localGhosts[i], wire[k][i])
                           ELSE localGhosts[i]
  PROVE  ClientAgrees(i)'
<1>1. \A j \in Incoming(i)' : j \in Incoming(i) /\ j \in Nat /\ k \in Nat /\ j > k
  BY UnreadNumbers DEF Incoming, Unread, ServiceInv
<1>2. CASE i \notin DOMAIN wire[k]
  BY <1>1, <1>2, AgreesKept
<1>3. CASE i \in DOMAIN wire[k]
  <2>0. k \in Incoming(i)
    BY <1>3 DEF Incoming
  <2>1. CASE wire[k][i].kind = "Ghosting"
    <3>1. localGhosts[i] = NoGhost /\ Incoming(i) = {k}
      BY <2>0, <2>1 DEF ClientAgrees
    <3>2. localGhosts'[i].obj = wire[k][i].obj /\ wire[k][i].obj \in Object
      BY <1>3, <2>1, <3>1 DEF Unpacked, Readable
    <3> QED BY <1>1, <3>1, <3>2 DEF ClientAgrees
  <2>2. CASE wire[k][i].kind = "Update"
    <3>1. /\ localGhosts[i].obj \in Object
          /\ \A j \in Incoming(i) :
               \/ wire[j][i].kind = "Update" /\ wire[j][i].obj = localGhosts[i].obj
               \/ wire[j][i].kind = "KillingGhost" /\ \A m \in Incoming(i) : m <= j
      BY <2>0, <2>2 DEF ClientAgrees
    <3>2. localGhosts'[i].obj = localGhosts[i].obj
      BY <1>3, <2>2, <3>1, NoGhostObject DEF Unpacked
    <3> QED BY <1>1, <3>1, <3>2 DEF ClientAgrees
  <2>3. CASE wire[k][i].kind = "KillingGhost"
    <3>1. \A j \in Incoming(i) : j <= k
      BY <2>0, <2>3 DEF ClientAgrees
    <3>2. localGhosts'[i] = NoGhost
      BY <1>3, <2>3 DEF Unpacked
    <3>3. Incoming(i)' = {}
      BY <1>1, <3>1
    <3> QED BY <3>2, <3>3 DEF ClientAgrees
  <2> QED BY <2>0, <2>1, <2>2, <2>3 DEF ClientAgrees
<1> QED BY <1>2, <1>3

-----------------------------------------------------------------------------
(* The ghosts of the server in either state of the session.                *)

\* g may be ghost i of the server now.
Serves(g, i) ==
    IF ghosting THEN GhostAccounted(g, i)
    ELSE Waiting(g) /\ (~scoping => g = FreeGhost)

\* A ghost that the client may know of is not given to another object.
Keeps(g, h) ==
    g.segment # "free" /\ "NotYetGhosted" \notin g.flags =>
       /\ h.segment # "free" /\ "NotYetGhosted" \notin h.flags
       /\ h.obj \in {g.obj, NoObject}

LEMMA KeepsSame ==
  ASSUME NEW g, NEW h, h.obj = g.obj, h.flags = g.flags, h.segment = g.segment
  PROVE  Keeps(g, h)
BY DEF Keeps

LEMMA KeepsTwice ==
  ASSUME NEW g, NEW h, NEW d, Keeps(g, h), Keeps(h, d)
  PROVE  Keeps(g, d)
BY DEF Keeps

LEMMA ServesType == ASSUME NEW i, NEW g, Serves(g, i) PROVE g \in GhostInfo
BY DEF Serves, GhostAccounted, Waiting

LEMMA ServesFree ==
  ASSUME NEW i, NEW g, Serves(g, i), g.segment = "free" PROVE g.obj = NoObject
<1>1. CASE ghosting
  <2>1. Stage(g, i)
    BY <1>1 DEF Serves, GhostAccounted
  <2> QED BY <2>1, NotFree
<1>2. CASE ~ghosting
  BY <1>2 DEF Serves, Waiting, FreeGhost
<1> QED BY <1>1, <1>2

\* Bits of an object are marked.
LEMMA ServesMarked ==
  ASSUME NEW i, NEW g, Serves(g, i), g.obj # NoObject, NEW bits \in SUBSET MaskBit
  PROVE  Serves(Marked(g, bits), i) /\ Keeps(g, Marked(g, bits))
<1> DEFINE h == Marked(g, bits)
<1>0. g \in GhostInfo /\ g.segment # "free"
  BY ServesType, ServesFree
<1>1. CASE ghosting
  <2>1. GhostAccounted(g, i)
    BY <1>1 DEF Serves
  <2>2. /\ GhostAccounted(h, i) /\ h.obj = g.obj /\ h.flags = g.flags
        /\ h.segment # "free"
    BY <1>0, <2>1, MarkedGhost
  <2> HIDE DEF h
  <2> QED BY <1>1, <2>2 DEF Serves, Keeps, h
<1>2. CASE ~ghosting
  <2>1. /\ h \in GhostInfo /\ h.obj = g.obj /\ h.flags = g.flags
        /\ h.mask = g.mask \cup bits
        /\ h.segment = IF bits = {} THEN g.segment ELSE "nonzero"
    BY <1>0 DEF Marked, GhostInfo
  <2> HIDE DEF h
  <2>2. Waiting(g) /\ scoping /\ g # FreeGhost
    BY <1>0, <1>2 DEF Serves, FreeGhost
  <2>3. \A o : KnownAs(g, o) => KnownAs(h, o)
    BY <2>1 DEF KnownAs
  <2>4. Waiting(h)
    BY <1>0, <2>1, <2>2, <2>3 DEF Waiting, SegmentHolds
  <2> QED BY <1>0, <1>2, <2>1, <2>2, <2>4 DEF Serves, Keeps, h
<1> QED BY <1>1, <1>2

LEMMA ServesDetached ==
  ASSUME NEW i, NEW g, Serves(g, i), g.segment # "free"
  PROVE  Serves(Detached(g), i) /\ Keeps(g, Detached(g))
<1> DEFINE h == Detached(g)
<1>0. g \in GhostInfo
  BY ServesType
<1>1. /\ h \in GhostInfo /\ h.obj = NoObject /\ h.flags = g.flags \cup {"KillGhost"}
      /\ h.segment = "nonzero" /\ SegmentHolds(h)
  BY <1>0, GhostAssumption DEF Detached, GhostInfo, SegmentHolds
<1>2. CASE ghosting
  <2>1. GhostAccounted(h, i)
    BY <1>0, <1>2, DetachedGhost DEF Serves
  <2> HIDE DEF h
  <2> QED BY <1>1, <1>2, <2>1 DEF Serves, Keeps, h
<1>3. CASE ~ghosting
  <2> HIDE DEF h
  <2>1. Waiting(g) /\ scoping /\ g # FreeGhost
    BY <1>3 DEF Serves, FreeGhost
  <2>2. \A o : KnownAs(h, o)
    BY <1>1 DEF KnownAs
  <2>3. Waiting(h)
    BY <1>1, <2>1, <2>2 DEF Waiting
  <2> QED BY <1>1, <1>3, <2>1, <2>3 DEF Serves, Keeps, h
<1> QED BY <1>2, <1>3

LEMMA ServesNew ==
  ASSUME NEW i, NEW g, Serves(g, i), g.segment = "free", NEW o \in Object, scoping
  PROVE  Serves(NewGhost(o), i) /\ Keeps(g, NewGhost(o))
<1>0. g \in GhostInfo /\ Keeps(g, NewGhost(o))
  BY ServesType DEF Keeps
<1>1. CASE ghosting
  BY <1>0, <1>1, AllocatedGhost DEF Serves
<1>2. CASE ~ghosting
  <2>1. /\ NewGhost(o) \in GhostInfo /\ SegmentHolds(NewGhost(o))
        /\ NewGhost(o).obj = o /\ NewGhost(o).flags = {"NotYetGhosted"}
        /\ NewGhost(o).segment = "nonzero"
    BY GhostAssumption DEF NewGhost, GhostInfo, SegmentHolds
  <2>2. Waiting(NewGhost(o))
    BY <2>1 DEF Waiting, KnownAs
  <2> QED BY <1>0, <1>2, <2>2 DEF Serves
<1> QED BY <1>1, <1>2

\* A tick: the dirty bits are marked, and ghosts made for the objects in scope.
LEMMA ServesCollapsed ==
  ASSUME GhostTypeOK, \A i \in Index : Serves(ghostRefs[i], i), NEW i \in Index
  PROVE  Serves(Collapsed[i], i) /\ Keeps(ghostRefs[i], Collapsed[i])
<1> DEFINE g == ghostRefs[i]
<1>1. Serves(g, i) /\ g \in GhostInfo
  BY ServesType
<1>2. CASE g.obj = NoObject
  BY <1>1, <1>2, KeepsSame DEF Collapsed
<1>3. CASE g.obj # NoObject
  <2> DEFINE bits == dirtyMaskBits[g.obj]
  <2>1. bits \in SUBSET MaskBit /\ Collapsed[i] = Marked(g, bits)
    BY <1>1, <1>3 DEF GhostTypeOK, GhostInfo, Collapsed
  <2> HIDE DEF g, bits
  <2>2. Serves(Marked(g, bits), i) /\ Keeps(g, Marked(g, bits))
    BY <1>1, <1>3, <2>1, ServesMarked
  <2> QED BY <2>1, <2>2 DEF g
<1> QED BY <1>2, <1>3

LEMMA ServesScoped ==
  ASSUME GhostTypeOK, \A i \in Index : Serves(ghostRefs[i], i),
         NEW scoped \in ScopedIfScoping
  PROVE  /\ scoped \in [Index -> GhostInfo]
         /\ \A i \in Index : Serves(scoped[i], i) /\ Keeps(ghostRefs[i], scoped[i])
<1>1. CASE ~scoping \/ scopeObject = NoObject
  <2>1. scoped = Collapsed
    BY <1>1 DEF ScopedIfScoping, Scoped
  <2>2. \A i \in Index : Collapsed[i] \in GhostInfo
    BY ServesCollapsed, ServesType
  <2> QED BY <2>1, <2>2, ServesCollapsed DEF Collapsed
<1>2. CASE scoping /\ scopeObject # NoObject
  <2> DEFINE ghosts == Collapsed
             new == scope \ {ghosts[i].obj : i \in Index}
             free == {i \in Index : ghosts[i].segment = "free"}
             used == {u \in SUBSET free :
                        Cardinality(u) = Min({Cardinality(new), Cardinality(free)})}
             maps == UNION {[u -> new] : u \in used}
             given(f) == [i \in Index |-> IF i \in DOMAIN f THEN NewGhost(f[i])
                                          ELSE ghosts[i]]
  <2>1. scoped \in {given(f) : f \in {f \in maps :
                       \A i, j \in DOMAIN f : i # j => f[i] # f[j]}}
    BY <1>2 DEF ScopeResults, ScopedIfScoping, Scoped
  <2> HIDE DEF maps, ghosts
  <2>2. PICK f \in maps : scoped = given(f)
    BY <2>1
  <2>3. PICK u \in SUBSET free : f \in [u -> new]
    BY DEF maps
  <2>4. ASSUME NEW i \in Index
        PROVE  Serves(scoped[i], i) /\ Keeps(ghostRefs[i], scoped[i])
    <3>1. Serves(ghosts[i], i) /\ Keeps(ghostRefs[i], ghosts[i])
      BY ServesCollapsed DEF ghosts
    <3>2. CASE i \notin DOMAIN f
      BY <2>2, <3>1, <3>2
    <3>3. CASE i \in DOMAIN f
      <4> DEFINE o == f[i]
      <4>1. o \in Object /\ ghosts[i].segment = "free" /\ scoped[i] = NewGhost(o)
        BY <2>2, <2>3, <3>3 DEF GhostTypeOK
      <4> HIDE DEF o
      <4>2. Serves(NewGhost(o), i) /\ Keeps(ghosts[i], NewGhost(o))
        BY <1>2, <3>1, <4>1, ServesNew
      <4> QED BY <3>1, <4>1, <4>2, KeepsTwice
    <3> QED BY <3>2, <3>3
  <2>5. \A i \in Index : scoped[i] \in GhostInfo
    BY <2>4, ServesType
  <2> QED BY <2>2, <2>4, <2>5
<1> QED BY <1>1, <1>2

LEMMA ServesDescoped ==
  ASSUME ghosting, NEW ghosts, NEW i \in Index, Serves(ghosts[i], i)
  PROVE  LET h == Descoped(ghosts)[i]
         IN  Serves(h, i) /\ Keeps(ghosts[i], h)
<1> DEFINE g == ghosts[i]
           h == Descoped(ghosts)[i]
<1>1. \/ h = g
      \/ h = FreeGhost /\ "NotYetGhosted" \in g.flags
      \/ h = Detached(g) /\ g.segment # "free"
  BY DEF Descoped
<1> SUFFICES Serves(h, i) /\ Keeps(g, h)
  OBVIOUS
<1>2. Serves(g, i)
  OBVIOUS
<1> HIDE DEF g, h
<1>3. CASE h = g
  BY <1>2, <1>3, KeepsSame
<1>4. CASE h = FreeGhost /\ "NotYetGhosted" \in g.flags
  <2>1. g \in GhostInfo /\ GhostAccounted(g, i)
    BY <1>2, ServesType DEF Serves
  <2>2. GhostAccounted(FreeGhost, i)
    BY <1>4, <2>1, FreedGhost
  <2> QED BY <1>4, <2>2 DEF Serves, Keeps
<1>5. CASE h = Detached(g) /\ g.segment # "free"
  BY <1>2, <1>5, ServesDetached
<1> QED BY <1>1, <1>3, <1>4, <1>5

-----------------------------------------------------------------------------
(* The calls under way.                                                    *)

LEMMA StillKept ==
  ASSUME NEW i, NEW o, NEW ack, StillThere(ghostRefs[i], i, o, ack),
         Keeps(ghostRefs[i], ghostRefs'[i]),
         \A k \in Mentions(i)' : /\ k \in Mentions(i) /\ wire'[k][i] = wire[k][i]
                                 /\ k \in read' <=> k \in read
  PROVE  StillThere(ghostRefs[i], i, o, ack)'
BY DEF StillThere, Keeps

\* The calls hold as long as the session lasts and the ghosts that they are of stay.
LEMMA CallsKept ==
  ASSUME SessionTypeOK, ServiceInv, CallsUnderWay, calls' \subseteq calls,
         ghostingSequence' = ghostingSequence, ghosting => ghosting',
         floor <= floor' /\ floor' \in Nat, notified <= notified' /\ notified' \in Nat,
         \A i \in Index : \A o \in Object : \A ack \in Nat :
            ack <= floor /\ ack >= notified' /\ StillThere(ghostRefs[i], i, o, ack)
              => StillThere(ghostRefs[i], i, o, ack)'
  PROVE  CallsUnderWay'
<1> SUFFICES ASSUME NEW call \in calls
             PROVE  /\ call.session <= ghostingSequence /\ call.ack <= floor'
                    /\ call.session = ghostingSequence =>
                         /\ ghosting'
                         /\ call.ack >= notified' =>
                              StillThere(ghostRefs[call.index], call.index, call.obj,
                                         call.ack)'
  BY DEF CallsUnderWay
<1>1. /\ call.session <= ghostingSequence /\ call.ack <= floor
      /\ call.session = ghostingSequence =>
           /\ ghosting
           /\ call.ack >= notified =>
                StillThere(ghostRefs[call.index], call.index, call.obj, call.ack)
  BY DEF CallsUnderWay
<1>2. /\ call.index \in Index /\ call.obj \in Object /\ call.ack \in Nat
      /\ floor \in Nat /\ notified \in Nat
  BY DEF SessionTypeOK, ServiceInv
<1> QED BY <1>1, <1>2

-----------------------------------------------------------------------------
(* The actions of the server that write no packet.                         *)

LEMMA SessionInitIInv == SessionInit => SessionIInv
<1> SUFFICES ASSUME SessionInit PROVE SessionIInv
  OBVIOUS
<1>1. GhostIInv
  BY GhostInitIInv DEF SessionInit
<1>2. GhostTypeOK /\ ServiceInv
  BY <1>1 DEF GhostIInv
<1>3. /\ rpcs = <<>> /\ Len(rpcs) = 0 /\ DOMAIN rpcs = {}
      /\ rpcs \in Seq([name : {"rpcStartGhosting"}, sequence : Nat]
                        \cup [name : {"rpcEndGhosting"}])
  BY DEF SessionInit
<1>4. /\ sent = First /\ notified = First /\ floor = First /\ First \in Nat
  BY ServiceAssumption DEF SessionInit, GhostInit, ServiceInit
<1>5. SessionTypeOK
  <2>1. DOMAIN rpcsIn = (notified + 1) .. sent /\ DOMAIN rpcsIn = {}
    BY <1>4 DEF SessionInit
  <2> QED BY <1>2, <1>3, <2>1 DEF SessionTypeOK, SessionInit
<1>6. RpcsInOrder /\ RpcsApart
  BY <1>3 DEF RpcsInOrder, RpcsApart, SessionInit
<1>7. /\ Unread = {} /\ DOMAIN ghostList = {}
      /\ \A i \in Index : /\ ghostRefs[i] = FreeGhost /\ localGhosts[i] = NoGhost
                          /\ Incoming(i) = {}
  BY <1>4 DEF Unread, SessionInit, GhostInit, Incoming
<1>8. NotesRemembered
  BY <1>7 DEF NotesRemembered
<1>9. BetweenSessions /\ ~ghosting
  BY <1>7, FreeGhostInfo DEF BetweenSessions, SessionInit, Waiting, ClientAgrees,
                             ClientCleared
<1>10. CallsUnderWay /\ MisdirectedFormer
  BY DEF CallsUnderWay, MisdirectedFormer, SessionInit
<1> QED BY <1>2, <1>5, <1>6, <1>8, <1>9, <1>10 DEF SessionIInv

\* What SessionIInv says of the server's ghosts.
LEMMA SessionServes ==
  ASSUME SessionIInv PROVE \A i \in Index : Serves(ghostRefs[i], i)
BY DEF SessionIInv, InSession, BetweenSessions, Serves

\* The ghosts of the server change, and neither the packets nor the session do.
LEMMA ServerStep ==
  ASSUME SessionIInv, NEW ghosts \in [Index -> GhostInfo], ghostRefs' = ghosts,
         \A i \in Index : Serves(ghosts[i], i) /\ Keeps(ghostRefs[i], ghosts[i]),
         alive' \subseteq Object, scope' \subseteq alive',
         scopeObject' \in alive' \cup {NoObject},
         value' \in [Object -> [MaskBit -> Nat]],
         dirtyMaskBits' \in [Object -> SUBSET MaskBit],
         UNCHANGED <<serviceVars, packetVars, localGhosts, sessionVars>>
  PROVE  SessionIInv'
<1>0. /\ UNCHANGED serviceVars /\ UNCHANGED <<ghostList, wire, localGhosts>>
      /\ UNCHANGED <<sent, notified, floor, read>>
      /\ UNCHANGED <<ghosting, scoping, ghostingSequence, rpcs, rpcQueue, rpcsIn>>
      /\ UNCHANGED <<rpcsRead, ready, calls, misdirected>>
  BY DEF packetVars, sessionVars, rpcVars, callVars, serviceVars
<1>1. ServiceInv' /\ SessionTypeOK /\ ServiceInv
  BY <1>0 DEF SessionIInv, ServiceInv, serviceVars
<1>2. SessionTypeOK'
  <2>1. GhostTypeOK'
    BY <1>0, <1>1 DEF SessionTypeOK, GhostTypeOK
  <2> QED BY <1>0, <1>1, <2>1 DEF SessionTypeOK
<1>3. /\ Unread' = Unread
      /\ \A i : /\ Mentions(i)' = Mentions(i) /\ Incoming(i)' = Incoming(i)
                /\ PacketsKept(i)
  BY <1>0 DEF Unread, Mentions, Incoming, PacketsKept
<1>4. RpcsInOrder' /\ RpcsApart' /\ NotesRemembered' /\ MisdirectedFormer'
  <2>1. RpcsInOrder'
    BY <1>0 DEF SessionIInv, RpcsInOrder, ProcessedOf
  <2>2. RpcsApart' /\ MisdirectedFormer'
    BY <1>0 DEF SessionIInv, RpcsApart, MisdirectedFormer
  <2>3. NotesRemembered'
    BY <1>0, <1>3, NotesKept DEF SessionIInv
  <2> QED BY <2>1, <2>2, <2>3
<1>5. ASSUME ghosting PROVE InSession'
  <2>1. ASSUME NEW i \in Index PROVE GhostAccounted(ghostRefs[i], i)'
    <3> DEFINE g == ghosts[i]
    <3>1. GhostAccounted(g, i) /\ ghostRefs'[i] = g
      BY <1>5 DEF Serves
    <3> HIDE DEF g
    <3> QED BY <1>3, <3>1, AccountedKept
  <2>2. InSession
    BY <1>5 DEF SessionIInv
  <2> QED BY <1>0, <1>3, <2>1, <2>2 DEF InSession
<1>6. ASSUME ~ghosting PROVE BetweenSessions'
  <2>1. BetweenSessions
    BY <1>6 DEF SessionIInv
  <2>2. \A i \in Index : /\ Waiting(ghostRefs[i])'
                         /\ (~scoping => ghostRefs[i] = FreeGhost)'
    BY <1>0, <1>6 DEF Serves, Waiting, SegmentHolds, KnownAs, FreeGhost
  <2>3. \A i \in Index : ClientAgrees(i)'
    BY <1>0, <1>3, <2>1 DEF BetweenSessions, ClientAgrees
  <2>4. ClientCleared' <=> ClientCleared
    BY <1>0, <1>3 DEF ClientCleared
  <2>5. \A n : EndAwaited(n) => EndAwaited(n)'
    BY <1>0, <1>3 DEF EndAwaited
  <2> QED BY <1>0, <2>1, <2>2, <2>3, <2>4, <2>5 DEF BetweenSessions
<1>7. CallsUnderWay'
  <2>1. \A i \in Index : \A o : \A ack : StillThere(ghostRefs[i], i, o, ack)
                                           => StillThere(ghostRefs[i], i, o, ack)'
    BY <1>0, <1>3, StillKept
  <2> QED BY <1>0, <1>1, <2>1, CallsKept DEF SessionIInv, ServiceInv
<1> QED BY <1>0, <1>1, <1>2, <1>4, <1>5, <1>6, <1>7 DEF SessionIInv

LEMMA SessionAgrees ==
  ASSUME SessionIInv, NEW i \in Index PROVE ClientAgrees(i)
<1>1. CASE ghosting
  <2>1. InSession /\ NotesRemembered /\ ServiceInv /\ SessionTypeOK
    BY <1>1 DEF SessionIInv
  <2>2. DOMAIN ghostList = (notified + 1) .. sent
    BY <2>1 DEF SessionTypeOK, GhostTypeOK
  <2>3. Unread \subseteq DOMAIN ghostList /\ DOMAIN ghostList \subseteq Nat
    BY <2>1, <2>2 DEF ServiceInv, Unread
  <2>4. \A k \in Mentions(i) : k \in Nat /\ Remembers(ghostList[k][i], wire[k][i])
    BY <2>1, <2>3 DEF NotesRemembered, Mentions
  <2>5. \A k \in Incoming(i) : k \in Mentions(i)
    BY <2>1, <2>3 DEF InSession, Incoming, Mentions
  <2>6. GhostAccounted(ghostRefs[i], i)
    BY <2>1 DEF InSession
  <2> QED BY <2>1, <2>4, <2>5, <2>6, StageAgrees
<1>2. CASE ~ghosting
  BY <1>2 DEF SessionIInv, BetweenSessions
<1> QED BY <1>1, <1>2

SessionRpc == [name : {"rpcStartGhosting"}, sequence : Nat]
                \cup [name : {"rpcEndGhosting"}]

\* An RPC is the next in order.
LEMMA PostedRpc ==
  ASSUME SessionTypeOK, NEW rpc \in SessionRpc, Post(rpc)
  PROVE  LET n == Len(rpcs) + 1
         IN  /\ n \in Nat /\ n \notin DOMAIN rpcs /\ DOMAIN rpcs = 1 .. Len(rpcs)
             /\ rpcs' \in Seq(SessionRpc) /\ Len(rpcs') = n /\ DOMAIN rpcs' = 1 .. n
             /\ \A m \in DOMAIN rpcs : m \in DOMAIN rpcs' /\ rpcs'[m] = rpcs[m]
             /\ rpcs'[n] = rpc /\ rpcs' # <<>>
             /\ rpcQueue' = rpcQueue \cup {n}
BY DEF SessionTypeOK, Post, SessionRpc

LEMMA ActivateGhostingIInv == ASSUME SessionIInv, ActivateGhosting PROVE SessionIInv'
<1> DEFINE n == Len(rpcs) + 1
<1>0. /\ UNCHANGED vars /\ UNCHANGED <<ghosting, rpcsIn, rpcsRead>>
      /\ UNCHANGED <<ready, calls, misdirected>>
      /\ ~scoping /\ scoping' /\ ghostingSequence' = ghostingSequence + 1
      /\ Post(StartGhosting(ghostingSequence + 1))
      /\ UNCHANGED <<sent, notified, floor, read>>
      /\ UNCHANGED <<ghostList, wire, localGhosts, ghostRefs>>
  BY DEF ActivateGhosting, StartRpc, callVars, vars, serviceVars, ghostVars, packetVars
<1>1. SessionTypeOK /\ RpcsInOrder /\ ghostingSequence \in Nat /\ ServiceInv
  BY DEF SessionIInv, SessionTypeOK
<1>2. StartGhosting(ghostingSequence + 1) \in SessionRpc
  BY <1>1 DEF StartGhosting, SessionRpc
<1>3. /\ n \in Nat /\ n \notin DOMAIN rpcs /\ DOMAIN rpcs = 1 .. Len(rpcs)
      /\ rpcs' \in Seq(SessionRpc) /\ Len(rpcs') = n /\ DOMAIN rpcs' = 1 .. n
      /\ \A m \in DOMAIN rpcs : m \in DOMAIN rpcs' /\ rpcs'[m] = rpcs[m]
      /\ rpcs'[n] = StartGhosting(ghostingSequence + 1) /\ rpcs' # <<>>
      /\ rpcQueue' = rpcQueue \cup {n}
  BY <1>0, <1>1, <1>2, PostedRpc
<1>4. ~ghosting /\ BetweenSessions
  BY <1>0 DEF SessionIInv, InSession
<1>5. SessionTypeOK'
  <2>1. GhostTypeOK'
    BY <1>0, <1>1 DEF SessionTypeOK, GhostTypeOK, vars, serviceVars, ghostVars, objectVars
  <2> QED BY <1>0, <1>1, <1>3, <2>1 DEF SessionTypeOK, SessionRpc
<1>6. RpcsInOrder'
  <2>1. StartGhosting(ghostingSequence + 1) # EndGhosting
        /\ StartGhosting(ghostingSequence + 1).sequence = ghostingSequence + 1
    BY DEF StartGhosting, EndGhosting
  <2>2. \A m \in ready : m \in ProcessedOf(rpcsRead) /\ rpcs'[m] # EndGhosting
    BY <1>1, <1>3 DEF RpcsInOrder, ProcessedOf, SessionTypeOK
  <2>3. \A m \in DOMAIN rpcs' : rpcs'[m] # EndGhosting => rpcs'[m].sequence = m
    <3>1. \A m \in DOMAIN rpcs' : m \in DOMAIN rpcs \/ m = n
      BY <1>1, <1>3
    <3> QED BY <1>1, <1>3, <2>1, <3>1 DEF RpcsInOrder
  <2> QED BY <1>0, <1>1, <1>3, <2>1, <2>2, <2>3 DEF RpcsInOrder, ProcessedOf
<1>7. /\ Unread' = Unread
      /\ \A i : Mentions(i)' = Mentions(i) /\ Incoming(i)' = Incoming(i)
  BY <1>0 DEF Unread, Mentions, Incoming
<1>8. RpcsApart' /\ NotesRemembered' /\ ServiceInv'
  <2>1. ghostList' = ghostList /\ wire' = wire /\ UNCHANGED serviceVars
    BY <1>0 DEF vars, ghostVars, packetVars
  <2>2. NotesRemembered'
    BY <1>7, <2>1, NotesKept DEF SessionIInv
  <2> QED BY <1>0, <1>1, <2>1, <2>2 DEF SessionIInv, RpcsApart, ServiceInv, serviceVars
<1>9. BetweenSessions'
  <2>1. \A i \in Index : /\ Waiting(ghostRefs[i])'
                         /\ (~scoping => ghostRefs[i] = FreeGhost)'
    BY <1>0, <1>4 DEF BetweenSessions, Waiting, SegmentHolds, KnownAs, FreeGhost
  <2>2. \A i \in Index : ClientAgrees(i)'
    BY <1>0, <1>4, <1>7 DEF BetweenSessions, ClientAgrees
  <2>3. ClientCleared => ClientCleared'
    BY <1>0, <1>7 DEF ClientCleared
  <2>4. \A m \in DOMAIN rpcs : EndAwaited(m) => EndAwaited(m)'
    BY <1>0, <1>3, <1>7 DEF EndAwaited
  <2> QED BY <1>0, <1>3, <1>4, <2>1, <2>2, <2>3, <2>4 DEF BetweenSessions
<1>10. CallsUnderWay' /\ MisdirectedFormer'
  <2>1. /\ \A call \in calls : call.session \in Nat
        /\ \A session \in misdirected : session \in Nat
    BY <1>1 DEF SessionTypeOK
  <2> QED BY <1>0, <1>1, <2>1 DEF SessionIInv, CallsUnderWay, MisdirectedFormer
<1> QED BY <1>0, <1>4, <1>5, <1>6, <1>8, <1>9, <1>10 DEF SessionIInv

LEMMA ResetGhostingIInv == ASSUME SessionIInv, ResetGhosting PROVE SessionIInv'
<1>n. PICK n : n = Len(rpcs) + 1
  OBVIOUS
<1>0. /\ UNCHANGED serviceVars /\ UNCHANGED <<alive, value, dirtyMaskBits, scope, scopeObject>>
      /\ UNCHANGED <<wire, localGhosts>> /\ UNCHANGED <<rpcsIn, rpcsRead>>
      /\ UNCHANGED <<ready, calls, misdirected>>
      /\ scoping' = FALSE /\ ghosting' = FALSE
      /\ ghostingSequence' = ghostingSequence + 1
      /\ Post(EndGhosting)
      /\ UNCHANGED <<sent, notified, floor, read>>
      /\ ghostList' = [k \in DOMAIN ghostList |-> <<>>]
      /\ ghostRefs' = [i \in Index |-> FreeGhost]
  BY DEF ResetGhosting, ClearedNotes, callVars, serviceVars, objectVars
<1>1. SessionTypeOK /\ RpcsInOrder /\ ghostingSequence \in Nat /\ ServiceInv
  BY DEF SessionIInv, SessionTypeOK
<1>2. EndGhosting \in SessionRpc
  BY <1>1 DEF EndGhosting, SessionRpc
<1>3. /\ n \in Nat /\ n \notin DOMAIN rpcs /\ DOMAIN rpcs = 1 .. Len(rpcs)
      /\ rpcs' \in Seq(SessionRpc) /\ Len(rpcs') = n /\ DOMAIN rpcs' = 1 .. n
      /\ \A m \in DOMAIN rpcs : m \in DOMAIN rpcs' /\ rpcs'[m] = rpcs[m]
      /\ rpcs'[n] = EndGhosting /\ rpcs' # <<>>
      /\ rpcQueue' = rpcQueue \cup {n}
  BY <1>n, <1>0, <1>1, <1>2, PostedRpc
<1>4. /\ DOMAIN ghostList' = DOMAIN ghostList
      /\ \A k \in DOMAIN ghostList' : DOMAIN ghostList'[k] = {}
  BY <1>0
<1>5. SessionTypeOK'
  <2>1. GhostTypeOK'
    BY <1>0, <1>1, <1>4, FreeGhostInfo DEF SessionTypeOK, GhostTypeOK
  <2>2. /\ rpcQueue' \subseteq DOMAIN rpcs' /\ rpcsRead' \subseteq DOMAIN rpcs'
        /\ DOMAIN rpcsIn' = (notified' + 1) .. sent'
        /\ \A k \in DOMAIN rpcsIn' : rpcsIn'[k] \subseteq DOMAIN rpcs' \ rpcQueue'
    BY <1>0, <1>1, <1>3 DEF SessionTypeOK
  <2>3. {ghosting', scoping'} \subseteq BOOLEAN
    BY <1>0, Zenon
  <2>4. /\ ghostingSequence' \in Nat /\ ready' \subseteq Nat
        /\ calls' \subseteq [index : Index, obj : Object, session : Nat, ack : Nat]
        /\ misdirected' \subseteq Nat
    BY <1>0, <1>1 DEF SessionTypeOK
  <2> QED BY <1>3, <2>1, <2>2, <2>3, <2>4 DEF SessionTypeOK, SessionRpc
<1>6. RpcsInOrder'
  <2>1. \A m \in ready : m \in ProcessedOf(rpcsRead) /\ rpcs'[m] # EndGhosting
    BY <1>1, <1>3 DEF RpcsInOrder, ProcessedOf, SessionTypeOK
  <2>2. \A m \in DOMAIN rpcs' : rpcs'[m] # EndGhosting => rpcs'[m].sequence = m
    <3>1. \A m \in DOMAIN rpcs' : m \in DOMAIN rpcs \/ m = n
      BY <1>n, <1>1, <1>3
    <3> QED BY <1>1, <1>3, <3>1 DEF RpcsInOrder
  <2> QED BY <1>n, <1>0, <1>1, <1>3, <2>1, <2>2 DEF RpcsInOrder, ProcessedOf
<1>7. Unread' = Unread /\ \A i : Incoming(i)' = Incoming(i)
  BY <1>0 DEF Unread, Incoming
<1>8. RpcsApart' /\ NotesRemembered' /\ ServiceInv'
  BY <1>0, <1>1, <1>4, <1>7 DEF SessionIInv, RpcsApart, NotesRemembered, Readable,
                               ServiceInv, serviceVars
<1>9. BetweenSessions'
  <2>1. \A i \in Index : Waiting(ghostRefs[i])' /\ ghostRefs'[i] = FreeGhost
    BY <1>0, FreeGhostInfo DEF Waiting, SegmentHolds, KnownAs, FreeGhost
  <2>2. ASSUME NEW i \in Index PROVE ClientAgrees(i)'
    <3>1. ClientAgrees(i)
      BY SessionAgrees
    <3> QED BY <1>0, <1>7, <3>1 DEF ClientAgrees
  <2>3. ClientCleared => ClientCleared'
    BY <1>0, <1>7 DEF ClientCleared
  <2>4. \A m \in DOMAIN rpcs : EndAwaited(m) => EndAwaited(m)'
    BY <1>0, <1>3, <1>7 DEF EndAwaited
  <2>5. CASE ghosting
    <3>1. 1 .. (n - 1) \subseteq rpcsRead /\ n \in DOMAIN rpcs'
      BY <1>n, <1>1, <1>3, <2>5 DEF SessionIInv, InSession
    <3>2. n \notin rpcsRead' /\ \A j \in Unread' : n \notin rpcsIn'[j]
      <4>1. Unread \subseteq DOMAIN rpcsIn
        BY <1>1 DEF ServiceInv, Unread, SessionTypeOK
      <4> QED BY <1>0, <1>1, <1>3, <1>7, <4>1 DEF SessionTypeOK
    <3>3. EndAwaited(n)'
      BY <1>0, <1>3, <3>1, <3>2 DEF EndAwaited
    <3> QED BY <1>4, <2>1, <2>2, <3>1, <3>3 DEF BetweenSessions
  <2>6. CASE ~ghosting
    <3>1. BetweenSessions
      BY <2>6 DEF SessionIInv
    <3> QED BY <1>3, <1>4, <2>1, <2>2, <2>3, <2>4, <3>1 DEF BetweenSessions
  <2> QED BY <2>5, <2>6
<1>10. CallsUnderWay' /\ MisdirectedFormer'
  <2>1. /\ \A call \in calls : call.session \in Nat
        /\ \A session \in misdirected : session \in Nat
    BY <1>1 DEF SessionTypeOK
  <2> QED BY <1>0, <1>1, <2>1 DEF SessionIInv, CallsUnderWay, MisdirectedFormer
<1> QED BY <1>0, <1>5, <1>6, <1>8, <1>9, <1>10 DEF SessionIInv

LEMMA WaitingKept ==
  ASSUME NEW i, Waiting(ghostRefs[i]), ghostRefs'[i] = ghostRefs[i]
  PROVE  Waiting(ghostRefs[i])'
<1>1. Waiting(ghostRefs'[i])
  OBVIOUS
<1> QED BY <1>1 DEF Waiting, SegmentHolds, KnownAs, FreeGhost

LEMMA WaitingAccounted ==
  ASSUME NEW i, NEW g, Waiting(g), Mentions(i) = {}, localGhosts[i] = NoGhost
  PROVE  GhostAccounted(g, i)
<1>1. CASE g = FreeGhost
  BY <1>1 DEF Waiting, GhostAccounted, Stage, Unused
<1>2. CASE g # FreeGhost
  <2>1. NotCreated(g, i)
    BY <1>2 DEF Waiting, NotCreated
  <2> QED BY <2>1 DEF Waiting, GhostAccounted, Stage
<1> QED BY <1>1, <1>2

\* The client is ready for the ghosts of the session: it has nothing of another.
LEMMA SessionStarts ==
  ASSUME SessionIInv, ~ghosting, scoping, DOMAIN rpcs \subseteq rpcsRead
  PROVE  InSession
<1>1. /\ BetweenSessions /\ SessionTypeOK /\ ServiceInv
  BY DEF SessionIInv
<1>2. ClientCleared
  BY <1>1 DEF BetweenSessions, EndAwaited
<1>3. \A i \in Index : Mentions(i) = {} /\ localGhosts[i] = NoGhost /\ Waiting(ghostRefs[i])
  BY <1>1, <1>2 DEF BetweenSessions, Mentions, ClientCleared
<1>4. \A i \in Index : GhostAccounted(ghostRefs[i], i)
  BY <1>3, WaitingAccounted
<1>5. \A k \in Unread : DOMAIN wire[k] = DOMAIN ghostList[k]
  <2>1. Unread \subseteq DOMAIN ghostList
    BY <1>1 DEF SessionTypeOK, GhostTypeOK, ServiceInv, Unread
  <2> QED BY <1>1, <1>2, <2>1 DEF BetweenSessions, ClientCleared
<1> QED BY <1>4, <1>5 DEF InSession

LEMMA ReadyForNormalGhostsIInv ==
  ASSUME SessionIInv, ReadyForNormalGhosts PROVE SessionIInv'
<1>1. PICK n \in ready : /\ ready' = ready \ {n}
                         /\ ghosting' = (ghosting \/ IsCurrent(n))
  BY DEF ReadyForNormalGhosts
<1>2. /\ UNCHANGED vars /\ UNCHANGED <<scoping, ghostingSequence, rpcs, rpcQueue, rpcsIn>>
      /\ UNCHANGED <<rpcsRead, calls, misdirected>>
      /\ UNCHANGED <<sent, notified, floor, read>> /\ UNCHANGED serviceVars
      /\ UNCHANGED <<ghostList, wire, localGhosts, ghostRefs>>
      /\ UNCHANGED <<alive, value, scope, scopeObject, dirtyMaskBits>>
  BY DEF ReadyForNormalGhosts, callVars, vars, ghostVars, packetVars, serviceVars, objectVars
<1>3. SessionTypeOK /\ RpcsInOrder /\ ServiceInv
  BY DEF SessionIInv
<1>4. ghosting' \in BOOLEAN /\ (ghosting => ghosting')
  BY <1>1
<1>5. SessionTypeOK' /\ ServiceInv'
  <2>1. GhostTypeOK'
    BY <1>2, <1>3 DEF SessionTypeOK, GhostTypeOK
  <2>2. /\ ready' \subseteq Nat /\ {ghosting', scoping'} \subseteq BOOLEAN
    BY <1>1, <1>2, <1>3, <1>4 DEF SessionTypeOK
  <2>3. ServiceInv'
    BY <1>2, <1>3 DEF ServiceInv, serviceVars
  <2> QED BY <1>2, <1>3, <2>1, <2>2, <2>3 DEF SessionTypeOK
<1>6. /\ Unread' = Unread
      /\ \A i : Mentions(i)' = Mentions(i) /\ Incoming(i)' = Incoming(i)
  BY <1>2 DEF Unread, Mentions, Incoming
<1>7. RpcsInOrder' /\ RpcsApart' /\ NotesRemembered' /\ MisdirectedFormer'
  <2>1. RpcsInOrder'
    BY <1>1, <1>2, <1>3 DEF RpcsInOrder, ProcessedOf
  <2>2. NotesRemembered'
    BY <1>2, <1>6, NotesKept DEF SessionIInv
  <2> QED BY <1>2, <2>1, <2>2 DEF SessionIInv, RpcsApart, MisdirectedFormer
<1>8. ASSUME ghosting' PROVE InSession'
  <2>1. InSession
    <3>1. CASE ghosting
      BY <3>1 DEF SessionIInv
    <3>2. CASE ~ghosting
      <4>1. n = Len(rpcs) /\ n \in ProcessedOf(rpcsRead) /\ rpcs[n] # EndGhosting
        BY <1>1, <1>3, <1>8, <3>2 DEF IsCurrent, RpcsInOrder
      <4>2. rpcs # <<>> /\ DOMAIN rpcs = 1 .. Len(rpcs)
        BY <1>3, <4>1 DEF SessionTypeOK, ProcessedOf
      <4>3. scoping /\ DOMAIN rpcs \subseteq rpcsRead
        BY <1>3, <4>1, <4>2 DEF RpcsInOrder, ProcessedOf
      <4> QED BY <3>2, <4>3, SessionStarts
    <3> QED BY <3>1, <3>2
  <2>2. ASSUME NEW i \in Index PROVE GhostAccounted(ghostRefs[i], i)'
    <3>1. PacketsKept(i) /\ ghostRefs'[i] = ghostRefs[i] /\ GhostAccounted(ghostRefs[i], i)
      BY <1>2, <1>6, <2>1 DEF InSession, PacketsKept
    <3> DEFINE g == ghostRefs[i]
    <3>2. PacketsKept(i) /\ ghostRefs'[i] = g /\ GhostAccounted(g, i)
      BY <3>1
    <3> HIDE DEF g
    <3> QED BY <3>2, AccountedKept
  <2> QED BY <1>2, <1>6, <2>1, <2>2 DEF InSession
<1>9. ASSUME ~ghosting' PROVE BetweenSessions'
  <2>1. BetweenSessions
    BY <1>4, <1>9 DEF SessionIInv
  <2>2. \A i \in Index : /\ Waiting(ghostRefs[i])'
                         /\ (~scoping => ghostRefs[i] = FreeGhost)'
    BY <1>2, <2>1 DEF BetweenSessions, Waiting, SegmentHolds, KnownAs, FreeGhost
  <2>3. \A i \in Index : ClientAgrees(i)'
    BY <1>2, <1>6, <2>1 DEF BetweenSessions, ClientAgrees
  <2>4. ClientCleared' <=> ClientCleared
    BY <1>2, <1>6 DEF ClientCleared
  <2>5. \A m : EndAwaited(m) => EndAwaited(m)'
    BY <1>2, <1>6 DEF EndAwaited
  <2> QED BY <1>2, <2>1, <2>2, <2>3, <2>4, <2>5 DEF BetweenSessions
<1>10. CallsUnderWay'
  <2>1. \A i : \A o : \A ack : StillThere(ghostRefs[i], i, o, ack)
                                 => StillThere(ghostRefs[i], i, o, ack)'
    BY <1>2, <1>6 DEF StillThere
  <2> QED BY <1>2, <1>3, <1>4, <2>1, CallsKept DEF SessionIInv, ServiceInv
<1> QED BY <1>5, <1>7, <1>8, <1>9, <1>10 DEF SessionIInv

LEMMA ObjectsChangeIInv == ASSUME SessionIInv, ObjectsChange PROVE SessionIInv'
<1>1. SessionTypeOK /\ GhostTypeOK /\ \A i \in Index : Serves(ghostRefs[i], i)
  BY SessionServes DEF SessionIInv, SessionTypeOK
<1>2. UNCHANGED sessionVars
  BY DEF ObjectsChange
<1>3. ghostRefs \in [Index -> GhostInfo] /\ \A i \in Index : Keeps(ghostRefs[i], ghostRefs[i])
  BY <1>1, KeepsSame DEF GhostTypeOK
<1>4. ASSUME NEW o \in Object, NEW b \in MaskBit, SetMaskBits(o, b) PROVE SessionIInv'
  <2>1. /\ value' \in [Object -> [MaskBit -> Nat]]
        /\ dirtyMaskBits' \in [Object -> SUBSET MaskBit]
    BY <1>1, <1>4 DEF SetMaskBits, GhostTypeOK
  <2>2. /\ ghostRefs' = ghostRefs /\ alive' \subseteq Object
        /\ scope' \subseteq alive' /\ scopeObject' \in alive' \cup {NoObject}
        /\ UNCHANGED <<serviceVars, packetVars, localGhosts, sessionVars>>
    BY <1>1, <1>2, <1>4 DEF SetMaskBits, GhostTypeOK
  <2> DEFINE ghosts == ghostRefs
  <2>3. /\ ghosts \in [Index -> GhostInfo] /\ ghostRefs' = ghosts
        /\ \A i \in Index : Serves(ghosts[i], i) /\ Keeps(ghostRefs[i], ghosts[i])
    BY <1>1, <1>3, <2>2
  <2> HIDE DEF ghosts
  <2> QED BY <2>1, <2>2, <2>3, ServerStep
<1>5. ASSUME NEW o \in Object, Delete(o) PROVE SessionIInv'
  <2>1. /\ alive' \subseteq Object /\ scope' \subseteq alive'
        /\ scopeObject' \in alive' \cup {NoObject}
        /\ value' \in [Object -> [MaskBit -> Nat]]
        /\ dirtyMaskBits' \in [Object -> SUBSET MaskBit]
        /\ UNCHANGED <<serviceVars, packetVars, localGhosts, sessionVars>>
    BY <1>1, <1>2, <1>5 DEF Delete, GhostTypeOK
  <2> DEFINE ghosts == [i \in Index |-> IF ghostRefs[i].obj = o THEN Detached(ghostRefs[i])
                                        ELSE ghostRefs[i]]
  <2>2. ghostRefs' = ghosts
    BY <1>5 DEF Delete
  <2>3. ASSUME NEW i \in Index
        PROVE  Serves(ghosts[i], i) /\ Keeps(ghostRefs[i], ghosts[i])
    <3>1. CASE ghostRefs[i].obj = o
      <4> DEFINE g == ghostRefs[i]
      <4>1. Serves(g, i) /\ g.segment # "free"
        BY <1>1, <3>1, ServesFree, GhostAssumption
      <4> HIDE DEF g
      <4>2. Serves(Detached(g), i) /\ Keeps(g, Detached(g))
        BY <4>1, ServesDetached
      <4> QED BY <3>1, <4>2 DEF g
    <3>2. CASE ghostRefs[i].obj # o
      BY <1>1, <1>3, <3>2
    <3> QED BY <3>1, <3>2
  <2>4. ghosts \in [Index -> GhostInfo]
    BY <2>3, ServesType
  <2> HIDE DEF ghosts
  <2> QED BY <2>1, <2>2, <2>3, <2>4, ServerStep
<1>6. ASSUME ChangeScope PROVE SessionIInv'
  <2>1. /\ ghostRefs' = ghostRefs /\ alive' \subseteq Object
        /\ scope' \subseteq alive' /\ scopeObject' \in alive' \cup {NoObject}
        /\ value' \in [Object -> [MaskBit -> Nat]]
        /\ dirtyMaskBits' \in [Object -> SUBSET MaskBit]
        /\ UNCHANGED <<serviceVars, packetVars, localGhosts, sessionVars>>
    BY <1>1, <1>2, <1>6 DEF ChangeScope, GhostTypeOK
  <2> DEFINE ghosts == ghostRefs
  <2>2. /\ ghosts \in [Index -> GhostInfo] /\ ghostRefs' = ghosts
        /\ \A i \in Index : Serves(ghosts[i], i) /\ Keeps(ghostRefs[i], ghosts[i])
    BY <1>1, <1>3, <2>1
  <2> HIDE DEF ghosts
  <2> QED BY <2>1, <2>2, ServerStep
<1>7. ASSUME NEW o \in Object, SetScopeObject(o) PROVE SessionIInv'
  <2>1. /\ ghostRefs' = ghostRefs /\ alive' \subseteq Object
        /\ scope' \subseteq alive' /\ scopeObject' \in alive' \cup {NoObject}
        /\ value' \in [Object -> [MaskBit -> Nat]]
        /\ dirtyMaskBits' \in [Object -> SUBSET MaskBit]
        /\ UNCHANGED <<serviceVars, packetVars, localGhosts, sessionVars>>
    BY <1>1, <1>2, <1>7 DEF SetScopeObject, GhostTypeOK
  <2> DEFINE ghosts == ghostRefs
  <2>2. /\ ghosts \in [Index -> GhostInfo] /\ ghostRefs' = ghosts
        /\ \A i \in Index : Serves(ghosts[i], i) /\ Keeps(ghostRefs[i], ghosts[i])
    BY <1>1, <1>3, <2>1
  <2> HIDE DEF ghosts
  <2> QED BY <2>1, <2>2, ServerStep
<1> QED BY <1>4, <1>5, <1>6, <1>7 DEF ObjectsChange

LEMMA TickSessionIInv == ASSUME SessionIInv, Tick PROVE SessionIInv'
<1>1. GhostTypeOK /\ \A i \in Index : Serves(ghostRefs[i], i)
  BY SessionServes DEF SessionIInv, SessionTypeOK
<1>2. /\ dirtyMaskBits' = [o \in Object |-> {}] /\ ghostRefs' \in ScopedIfScoping
      /\ UNCHANGED <<serviceVars, objectVars, packetVars, localGhosts, sessionVars>>
  BY DEF Tick
<1>3. PICK ghosts \in ScopedIfScoping : ghostRefs' = ghosts
  BY <1>2
<1>4. /\ ghosts \in [Index -> GhostInfo]
      /\ \A i \in Index : Serves(ghosts[i], i) /\ Keeps(ghostRefs[i], ghosts[i])
  BY <1>1, ServesScoped
<1>5. /\ dirtyMaskBits' \in [Object -> SUBSET MaskBit]
      /\ alive' \subseteq Object /\ scope' \subseteq alive'
      /\ scopeObject' \in alive' \cup {NoObject}
      /\ value' \in [Object -> [MaskBit -> Nat]]
  BY <1>1, <1>2 DEF GhostTypeOK, objectVars
<1> QED BY <1>2, <1>3, <1>4, <1>5, ServerStep

-----------------------------------------------------------------------------
(* Writing a packet.                                                       *)

\* Packet n is the next, with the update new of nothing or something.
Extends(f, n) ==
    /\ DOMAIN f' = DOMAIN f \cup {n} /\ n \notin DOMAIN f
    /\ \A k \in DOMAIN f : f'[k] = f[k]

LEMMA SessionPackets ==
  ASSUME SessionTypeOK, ServiceInv
  PROVE  /\ sent \in Nat /\ notified \in Nat /\ floor \in Nat /\ notified <= floor
         /\ floor <= sent
         /\ \A k \in DOMAIN ghostList : k \in Nat /\ notified < k /\ k <= sent
         /\ DOMAIN wire = DOMAIN ghostList /\ DOMAIN rpcsIn = DOMAIN ghostList
         /\ Unread \subseteq DOMAIN ghostList
         /\ \A k \in Unread : k \in Nat /\ floor < k /\ k <= sent
         /\ \A k \in read : k \in Nat /\ k <= floor
BY ServiceAssumption DEF ServiceInv, SessionTypeOK, GhostTypeOK, Unread

LEMMA RpcsSent ==
  ASSUME SessionTypeOK, ServiceInv, RpcsApart, SendRpcs, sent' = sent + 1,
         notified' = notified, rpcs' = rpcs
  PROVE  /\ RpcsApart' /\ Extends(rpcsIn, sent + 1)
         /\ rpcQueue' \subseteq DOMAIN rpcs
         /\ DOMAIN rpcsIn' = (notified' + 1) .. sent'
         /\ \A k \in DOMAIN rpcsIn' : rpcsIn'[k] \subseteq DOMAIN rpcs \ rpcQueue'
<1>1. PICK last \in 0 .. Len(rpcs) :
        LET new == rpcQueue \cap (1 .. last)
        IN  rpcQueue' = rpcQueue \ new /\ rpcsIn' = Extended(rpcsIn, new)
  BY DEF SendRpcs
<1> DEFINE new == rpcQueue \cap (1 .. last)
           n == sent + 1
<1>2. new \subseteq rpcQueue /\ rpcQueue' = rpcQueue \ new
  BY <1>1
<1>3. /\ DOMAIN rpcsIn' = DOMAIN rpcsIn \cup {n} /\ n \notin DOMAIN rpcsIn
      /\ rpcsIn'[n] = new /\ \A k \in DOMAIN rpcsIn : rpcsIn'[k] = rpcsIn[k]
  <2>1. n \notin DOMAIN rpcsIn
    BY SessionPackets
  <2> QED BY <1>1, <2>1 DEF Extended
<1> HIDE DEF new
<1>4. DOMAIN rpcsIn' = (notified' + 1) .. sent'
  <2>1. DOMAIN rpcsIn = (notified + 1) .. sent /\ sent \in Nat /\ notified \in Nat
        /\ notified <= sent
    BY SessionPackets DEF SessionTypeOK
  <2> QED BY <1>3, <2>1
<1>5. RpcsApart' /\ \A k \in DOMAIN rpcsIn' : rpcsIn'[k] \subseteq DOMAIN rpcs \ rpcQueue'
  <2>1. /\ rpcQueue \subseteq DOMAIN rpcs
        /\ \A k \in DOMAIN rpcsIn : rpcsIn[k] \subseteq DOMAIN rpcs \ rpcQueue
    BY DEF SessionTypeOK
  <2>2. RpcsApart'
    <3> SUFFICES ASSUME NEW j \in DOMAIN rpcsIn', NEW k \in DOMAIN rpcsIn', j # k
                 PROVE  rpcsIn'[j] \cap rpcsIn'[k] = {}
      BY DEF RpcsApart
    <3> HIDE DEF n
    <3>1. CASE j # n /\ k # n
      BY <1>3, <3>1 DEF RpcsApart
    <3>2. CASE j = n /\ k # n
      BY <1>2, <1>3, <2>1, <3>2
    <3>3. CASE j # n /\ k = n
      BY <1>2, <1>3, <2>1, <3>3
    <3> QED BY <3>1, <3>2, <3>3
  <2> HIDE DEF n
  <2>3. \A k \in DOMAIN rpcsIn' : rpcsIn'[k] \subseteq DOMAIN rpcs \ rpcQueue'
    BY <1>2, <1>3, <2>1
  <2> QED BY <2>2, <2>3
<1>6. rpcQueue' \subseteq DOMAIN rpcs
  BY <1>2 DEF SessionTypeOK
<1> QED BY <1>3, <1>4, <1>5, <1>6 DEF Extends

\* What a packet that is written leaves of the invariant, and what is to be shown.
LEMMA WriteStep ==
  ASSUME SessionIInv, Write, SendRpcs, dirtyMaskBits' = [o \in Object |-> {}],
         ghostRefs' \in [Index -> GhostInfo],
         Extends(ghostList, sent + 1), Extends(wire, sent + 1),
         \A i \in DOMAIN ghostList'[sent + 1] :
            /\ i \in Index /\ i \in DOMAIN wire'[sent + 1]
            /\ Remembers(ghostList'[sent + 1][i], wire'[sent + 1][i]),
         DOMAIN wire'[sent + 1] = DOMAIN ghostList'[sent + 1],
         UNCHANGED <<objectVars, localGhosts, ghosting, scoping, ghostingSequence, rpcs,
                     rpcsRead, ready, callVars>>,
         IF ghosting THEN InSession' ELSE BetweenSessions',
         \A i \in Index : \A o : \A ack : StillThere(ghostRefs[i], i, o, ack)
                                            => StillThere(ghostRefs[i], i, o, ack)'
  PROVE  SessionIInv'
<1>0. /\ UNCHANGED <<alive, value, scope, scopeObject>> /\ UNCHANGED localGhosts
      /\ UNCHANGED <<ghosting, scoping, ghostingSequence, rpcs, rpcsRead>>
      /\ UNCHANGED <<ready, calls, misdirected>>
      /\ UNCHANGED <<notified, floor, read>> /\ sent' = sent + 1
  BY DEF objectVars, callVars, Write
<1>1. /\ SessionTypeOK /\ ServiceInv /\ RpcsInOrder /\ RpcsApart /\ NotesRemembered
      /\ CallsUnderWay /\ MisdirectedFormer
  BY DEF SessionIInv
<1>2. /\ RpcsApart' /\ Extends(rpcsIn, sent + 1)
      /\ rpcQueue' \subseteq DOMAIN rpcs
      /\ DOMAIN rpcsIn' = (notified' + 1) .. sent'
      /\ \A k \in DOMAIN rpcsIn' : rpcsIn'[k] \subseteq DOMAIN rpcs \ rpcQueue'
  BY <1>0, <1>1, RpcsSent
<1>3. ServiceInv'
  BY <1>1, WriteInv
<1> DEFINE n == sent + 1
<1>4. /\ DOMAIN ghostList' = DOMAIN ghostList \cup {n}
      /\ DOMAIN wire' = DOMAIN ghostList \cup {n}
      /\ \A k \in DOMAIN ghostList : ghostList'[k] = ghostList[k] /\ wire'[k] = wire[k]
      /\ Unread' = Unread \cup {n}
      /\ DOMAIN ghostList \cup {n} = (notified' + 1) .. sent'
  <2>1. DOMAIN wire = DOMAIN ghostList /\ DOMAIN ghostList = (notified + 1) .. sent
    BY <1>1 DEF SessionTypeOK, GhostTypeOK
  <2>2. /\ sent \in Nat /\ notified \in Nat /\ floor \in Nat /\ notified <= floor
        /\ floor <= sent
    BY <1>1, SessionPackets
  <2>3. Unread' = Unread \cup {n} /\ DOMAIN ghostList \cup {n} = (notified' + 1) .. sent'
    BY <1>0, <2>1, <2>2 DEF Unread
  <2> QED BY <2>1, <2>3 DEF Extends
<1>5. SessionTypeOK'
  <2>1. dirtyMaskBits' \in [Object -> SUBSET MaskBit]
    OBVIOUS
  <2>2. GhostTypeOK'
    BY <1>0, <1>1, <1>4, <2>1 DEF SessionTypeOK, GhostTypeOK
  <2> QED BY <1>0, <1>1, <1>2, <2>2 DEF SessionTypeOK
<1>6. RpcsInOrder' /\ MisdirectedFormer'
  BY <1>0, <1>1 DEF RpcsInOrder, ProcessedOf, MisdirectedFormer
<1>7. NotesRemembered'
  <2> HIDE DEF n
  <2>1. ASSUME NEW k \in DOMAIN ghostList', NEW i \in DOMAIN ghostList'[k]
        PROVE  /\ i \in Index /\ i \in DOMAIN wire'[k]
               /\ Remembers(ghostList'[k][i], wire'[k][i])
    <3>1. CASE k \in DOMAIN ghostList
      <4>1. ghostList'[k] = ghostList[k] /\ wire'[k] = wire[k]
        BY <1>4, <3>1
      <4>2. /\ i \in Index /\ i \in DOMAIN wire[k]
            /\ Remembers(ghostList[k][i], wire[k][i])
        BY <1>1, <3>1, <4>1 DEF NotesRemembered
      <4> QED BY <4>1, <4>2
    <3>2. CASE k = n
      BY <3>2 DEF n
    <3> QED BY <1>4, <3>1, <3>2
  <2>2. ASSUME NEW k \in Unread', NEW i \in DOMAIN wire'[k]
        PROVE  i \in Index /\ Readable(wire'[k][i])
    <3>1. CASE k \in Unread
      <4>1. wire'[k] = wire[k]
        BY <1>1, <1>4, <3>1, SessionPackets
      <4> QED BY <1>1, <3>1, <4>1 DEF NotesRemembered
    <3>2. CASE k = n
      <4>1. i \in Index /\ Remembers(ghostList'[k][i], wire'[k][i])
        BY <3>2 DEF n
      <4> QED BY <4>1 DEF Remembers, Readable
    <3> QED BY <1>4, <3>1, <3>2
  <2> QED BY <2>1, <2>2 DEF NotesRemembered, Remembers, Readable
<1>8. CallsUnderWay'
  BY <1>0, <1>1, CallsKept DEF ServiceInv
<1> QED BY <1>0, <1>2, <1>3, <1>5, <1>6, <1>7, <1>8 DEF SessionIInv

LEMMA StillWritten ==
  ASSUME NEW i, NEW o, NEW ack, StillThere(ghostRefs[i], i, o, ack),
         Keeps(ghostRefs[i], ghostRefs'[i]), NEW n, n \notin read', read' = read,
         \A k \in Mentions(i) : wire'[k][i] = wire[k][i],
         \/ Mentions(i)' = Mentions(i)
         \/ Mentions(i)' = Mentions(i) \cup {n} /\ wire'[n][i].kind # "Ghosting"
  PROVE  StillThere(ghostRefs[i], i, o, ack)'
BY DEF StillThere, Keeps

LEMMA WriteWithoutGhostsIInv == ASSUME SessionIInv, WriteWithoutGhosts PROVE SessionIInv'
<1> DEFINE n == sent + 1
<1>1. SessionTypeOK /\ ServiceInv /\ GhostTypeOK /\ RpcsApart
  BY DEF SessionIInv, SessionTypeOK
<1>2. /\ Write /\ SendRpcs /\ dirtyMaskBits' = [o \in Object |-> {}]
      /\ ghostRefs' \in ScopedIfScoping
      /\ ghostList' = Extended(ghostList, <<>>) /\ wire' = Extended(wire, <<>>)
      /\ UNCHANGED <<objectVars, localGhosts, ghosting, scoping, ghostingSequence, rpcs,
                     rpcsRead, ready, callVars>>
  BY DEF WriteWithoutGhosts
<1>3. /\ sent' = n /\ UNCHANGED <<notified, floor, read>> /\ UNCHANGED localGhosts
      /\ UNCHANGED <<ghosting, scoping, rpcs, rpcsRead>>
  BY <1>2 DEF Write
<1>4. /\ sent \in Nat /\ floor \in Nat /\ floor <= sent /\ notified \in Nat
      /\ \A k \in DOMAIN ghostList : k \in Nat /\ notified < k /\ k <= sent
      /\ DOMAIN wire = DOMAIN ghostList /\ DOMAIN rpcsIn = DOMAIN ghostList
      /\ Unread \subseteq DOMAIN ghostList
      /\ \A k \in Unread : k \in Nat /\ floor < k /\ k <= sent
      /\ \A k \in read : k \in Nat /\ k <= floor
  BY <1>1, SessionPackets
<1>5. /\ Extends(ghostList, n) /\ Extends(wire, n)
      /\ DOMAIN ghostList'[n] = {} /\ DOMAIN wire'[n] = {}
  <2>1. n \notin DOMAIN ghostList
    BY <1>4
  <2> QED BY <1>2, <1>4, <2>1 DEF Extends, Extended
<1>6. PICK ghosts \in ScopedIfScoping : ghostRefs' = ghosts
  BY <1>2
<1>7. /\ ghosts \in [Index -> GhostInfo]
      /\ \A i \in Index : Serves(ghosts[i], i) /\ Keeps(ghostRefs[i], ghosts[i])
  <2>1. \A i \in Index : Serves(ghostRefs[i], i)
    BY SessionServes
  <2> QED BY <1>1, <2>1, ServesScoped
<1>8. /\ Unread' = Unread \cup {n}
      /\ \A i : Incoming(i)' = Incoming(i) /\ Mentions(i)' = Mentions(i)
      /\ \A k \in DOMAIN ghostList : ghostList'[k] = ghostList[k] /\ wire'[k] = wire[k]
  <2>1. Unread' = Unread \cup {n}
    BY <1>3, <1>4 DEF Unread
  <2>2. \A k \in DOMAIN ghostList : ghostList'[k] = ghostList[k] /\ wire'[k] = wire[k]
    BY <1>4, <1>5 DEF Extends
  <2>3. ASSUME NEW i PROVE Incoming(i)' = Incoming(i) /\ Mentions(i)' = Mentions(i)
    BY <1>4, <1>5, <2>1, <2>2 DEF Extends, Incoming, Mentions
  <2> QED BY <2>1, <2>2, <2>3
<1>9. ASSUME ~ghosting PROVE BetweenSessions'
  <2>0. BetweenSessions
    BY <1>9 DEF SessionIInv
  <2>1. \A k \in DOMAIN ghostList' : DOMAIN ghostList'[k] = {}
    BY <1>5, <1>8, <2>0 DEF BetweenSessions, Extends
  <2>2. \A i \in Index : /\ Waiting(ghostRefs[i])'
                         /\ (~scoping => ghostRefs[i] = FreeGhost)'
    BY <1>3, <1>6, <1>7, <1>9, <2>0 DEF BetweenSessions, Serves, Waiting, SegmentHolds, KnownAs, FreeGhost
  <2>3. ASSUME NEW i \in Index PROVE ClientAgrees(i)'
    <3>1. \A k \in Incoming(i) : wire'[k][i] = wire[k][i]
      BY <1>4, <1>8 DEF Incoming
    <3> QED BY <1>3, <1>8, <2>0, <3>1, AgreesKept DEF BetweenSessions
  <2>4. ClientCleared => ClientCleared'
    BY <1>3, <1>4, <1>5, <1>8 DEF ClientCleared
  <2>5. ASSUME NEW m \in DOMAIN rpcs, EndAwaited(m) PROVE EndAwaited(m)'
    <3>1. Extends(rpcsIn, n)
      BY <1>1, <1>2, <1>3, RpcsSent
    <3>2. ASSUME NEW j \in Unread', NEW k \in Unread', m \in rpcsIn'[j],
                 DOMAIN wire'[k] # {}
          PROVE  k < j
      <4> HIDE DEF n
      <4>1. k \in Unread /\ DOMAIN wire[k] # {}
        BY <1>4, <1>5, <1>8, <3>2
      <4>2. CASE j \in Unread
        BY <1>4, <2>5, <3>1, <3>2, <4>1, <4>2 DEF EndAwaited, Extends
      <4>3. CASE j = n
        BY <1>4, <4>1, <4>3 DEF n
      <4> QED BY <1>8, <4>2, <4>3
    <3> QED BY <1>3, <2>5, <3>2 DEF EndAwaited
  <2> QED BY <1>3, <2>0, <2>1, <2>2, <2>3, <2>4, <2>5 DEF BetweenSessions
<1>10. ASSUME NEW i \in Index, NEW o, NEW ack, StillThere(ghostRefs[i], i, o, ack)
       PROVE  StillThere(ghostRefs[i], i, o, ack)'
  <2>1. Keeps(ghostRefs[i], ghostRefs'[i])
    BY <1>6, <1>7
  <2>2. \A k \in Mentions(i) : wire'[k][i] = wire[k][i]
    BY <1>8 DEF Mentions
  <2> QED BY <1>3, <1>8, <1>10, <2>1, <2>2, StillKept
<1>11. ASSUME ghosting PROVE InSession'
  <2>1. InSession
    BY <1>11 DEF SessionIInv
  <2>2. ASSUME NEW i \in Index PROVE GhostAccounted(ghostRefs[i], i)'
    <3> DEFINE g == ghosts[i]
    <3>1. GhostAccounted(g, i) /\ ghostRefs'[i] = g
      BY <1>6, <1>7, <1>11 DEF Serves
    <3>2. PacketsKept(i)
      BY <1>3, <1>4, <1>8 DEF PacketsKept, Mentions
    <3> HIDE DEF g
    <3> QED BY <3>1, <3>2, AccountedKept
  <2>3. \A k \in Unread' : DOMAIN wire'[k] = DOMAIN ghostList'[k]
    BY <1>4, <1>5, <1>8, <2>1 DEF InSession, Extends
  <2> QED BY <1>3, <2>1, <2>2, <2>3 DEF InSession
<1> QED BY <1>1, <1>2, <1>5, <1>6, <1>7, <1>9, <1>10, <1>11, WriteStep

LEMMA WriteGhostsIInv == ASSUME SessionIInv, WriteGhosts PROVE SessionIInv'
<1>1. /\ SessionTypeOK /\ ServiceInv /\ GhostTypeOK /\ ghosting /\ InSession /\ scoping
  BY DEF SessionIInv, SessionTypeOK, WriteGhosts, InSession
<1>2. /\ Write /\ SendRpcs /\ dirtyMaskBits' = [o \in Object |-> {}]
      /\ scopeObject # NoObject
      /\ UNCHANGED <<objectVars, localGhosts, ghosting, scoping, ghostingSequence, rpcs,
                     rpcsRead, ready, callVars>>
  BY DEF WriteGhosts, WritePacket
<1>3. PICK scoped \in ScopeResults(Collapsed) :
        \E chosen \in SUBSET Ready(Descoped(scoped)) :
        \E retMask \in [chosen -> SUBSET MaskBit] :
             /\ \A i \in chosen : retMask[i] \in RetMasks(Descoped(scoped)[i])
             /\ ghostRefs' = [i \in Index |-> IF i \in chosen
                  THEN Written(Descoped(scoped)[i], retMask[i]) ELSE Descoped(scoped)[i]]
             /\ ghostList' = Extended(ghostList,
                  [i \in chosen |-> GhostRef(Descoped(scoped)[i], retMask[i])])
             /\ wire' = Extended(wire,
                  [i \in chosen |-> Update(Descoped(scoped)[i], retMask[i])])
  BY DEF WriteGhosts, WritePacket
<1> DEFINE ghosts == Descoped(scoped)
<1>4. ASSUME NEW i \in Index
      PROVE  /\ ghosts[i] \in GhostInfo /\ GhostAccounted(ghosts[i], i)
             /\ Keeps(ghostRefs[i], ghosts[i])
             /\ GhostAccounted(scoped[i], i)
  <2>1. \A j \in Index : Serves(ghostRefs[j], j)
    BY SessionServes
  <2>2. scoped \in ScopedIfScoping
    BY <1>1, <1>2 DEF ScopedIfScoping, Scoped
  <2>3. Serves(scoped[i], i) /\ Keeps(ghostRefs[i], scoped[i])
    BY <1>1, <2>1, <2>2, ServesScoped
  <2>4. Serves(ghosts[i], i) /\ Keeps(scoped[i], ghosts[i])
    BY <1>1, <2>3, ServesDescoped
  <2> HIDE DEF ghosts
  <2>5. Keeps(ghostRefs[i], ghosts[i])
    BY <2>3, <2>4, KeepsTwice
  <2> QED BY <1>1, <2>3, <2>4, <2>5, ServesType DEF Serves
<1>5. \A i \in Ready(ghosts) : i \in Index /\ ReadyGhost(ghosts[i])
  BY <1>1, <1>4, DescopedReady
<1> HIDE DEF ghosts
<1>6. PICK chosen \in SUBSET Ready(ghosts) : \E retMask \in [chosen -> SUBSET MaskBit] :
             /\ \A i \in chosen : retMask[i] \in RetMasks(ghosts[i])
             /\ ghostRefs' = [i \in Index |-> IF i \in chosen
                  THEN Written(ghosts[i], retMask[i]) ELSE ghosts[i]]
             /\ ghostList' = Extended(ghostList,
                  [i \in chosen |-> GhostRef(ghosts[i], retMask[i])])
             /\ wire' = Extended(wire,
                  [i \in chosen |-> Update(ghosts[i], retMask[i])])
  BY <1>3 DEF ghosts
<1>7. PICK retMask \in [chosen -> SUBSET MaskBit] :
             /\ ghostRefs' = [i \in Index |-> IF i \in chosen
                  THEN Written(ghosts[i], retMask[i]) ELSE ghosts[i]]
             /\ ghostList' = Extended(ghostList,
                  [i \in chosen |-> GhostRef(ghosts[i], retMask[i])])
             /\ wire' = Extended(wire,
                  [i \in chosen |-> Update(ghosts[i], retMask[i])])
  BY <1>6
<1> DEFINE n == sent + 1
<1>8. /\ sent \in Nat /\ floor \in Nat /\ floor <= sent /\ notified \in Nat
      /\ \A k \in DOMAIN ghostList : k \in Nat /\ notified < k /\ k <= sent
      /\ DOMAIN wire = DOMAIN ghostList /\ Unread \subseteq DOMAIN ghostList
      /\ \A k \in read : k \in Nat /\ k <= floor
  BY <1>1, SessionPackets
<1>9. /\ n \in Nat /\ n \notin DOMAIN ghostList /\ n \notin read
      /\ \A k \in DOMAIN ghostList : k \in Nat /\ k < n
  BY <1>8
<1>10. /\ sent' = n /\ UNCHANGED <<notified, floor, read>> /\ UNCHANGED localGhosts
       /\ UNCHANGED <<ghosting, scoping, rpcs, rpcsRead>>
  BY <1>2 DEF Write
<1>11. /\ Extends(ghostList, n) /\ Extends(wire, n)
       /\ ghostList'[n] = [i \in chosen |-> GhostRef(ghosts[i], retMask[i])]
       /\ wire'[n] = [i \in chosen |-> Update(ghosts[i], retMask[i])]
       /\ DOMAIN ghostList'[n] = chosen /\ DOMAIN wire'[n] = chosen
  BY <1>7, <1>8, <1>9 DEF Extends, Extended
<1>12. \A i \in chosen : /\ i \in Index /\ ReadyGhost(ghosts[i])
                         /\ ghosts[i] \in GhostInfo /\ GhostAccounted(ghosts[i], i)
                         /\ retMask[i] \in SUBSET MaskBit
  BY <1>4, <1>5
<1>13. Unread' = Unread \cup {n}
  BY <1>8, <1>10 DEF Unread
<1> HIDE DEF n
<1>14. ASSUME NEW i \in Index
       PROVE  /\ GhostAccounted(ghostRefs[i], i)'
              /\ \A o : \A ack : StillThere(ghostRefs[i], i, o, ack)
                                   => StillThere(ghostRefs[i], i, o, ack)'
  <2> DEFINE g == ghosts[i]
  <2>1. GhostAccounted(g, i) /\ g \in GhostInfo /\ Keeps(ghostRefs[i], g)
    BY <1>4
  <2>2. /\ \A k \in Mentions(i) : k \in Nat /\ k < n
        /\ \A k \in Mentions(i) : wire'[k][i] = wire[k][i] /\ ghostList'[k][i] = ghostList[k][i]
    BY <1>8, <1>9, <1>11 DEF Mentions, Extends
  <2>3. CASE i \in chosen
    <3> DEFINE ret == retMask[i]
    <3>0. Mentions(i)' = Mentions(i) \cup {n}
      BY <1>11, <2>3 DEF Mentions, Extends
    <3>1. /\ wire'[n][i] = Update(g, ret) /\ ghostList'[n][i] = GhostRef(g, ret)
          /\ ghostRefs'[i] = Written(g, ret)
      BY <1>7, <1>11, <2>3
    <3>2. UpdateWritten(i, g, ret, n)
      BY <1>9, <1>10, <2>2, <3>0, <3>1 DEF UpdateWritten
    <3>3. ret \in SUBSET MaskBit /\ ReadyGhost(g)
      BY <1>12, <2>3
    <3> HIDE DEF g, ret
    <3>4. GhostAccounted(ghostRefs[i], i)'
      BY <2>1, <3>2, <3>3, WrittenAccounted
    <3>5. ASSUME NEW o, NEW ack, StillThere(ghostRefs[i], i, o, ack)
          PROVE  StillThere(ghostRefs[i], i, o, ack)'
      <4>1. /\ g.segment # "free" /\ "NotYetGhosted" \notin g.flags
            /\ g.obj \in {ghostRefs[i].obj, NoObject}
        BY <2>1, <3>5 DEF StillThere, Keeps
      <4>2. Kind(g) # "Ghosting"
        BY <4>1 DEF Kind
      <4>3. /\ ghostRefs'[i].obj = g.obj /\ ghostRefs'[i].segment # "free"
            /\ "NotYetGhosted" \notin ghostRefs'[i].flags
        BY <2>1, <3>1, <4>1, <4>2 DEF Written, GhostInfo
      <4>4. Keeps(ghostRefs[i], ghostRefs'[i])
        BY <4>1, <4>3 DEF Keeps
      <4>5. wire'[n][i].kind # "Ghosting"
        BY <3>1, <4>2 DEF Update
      <4> QED BY <1>9, <1>10, <2>2, <3>0, <3>5, <4>4, <4>5, StillWritten
    <3> QED BY <3>4, <3>5
  <2>4. CASE i \notin chosen
    <3>1. ghostRefs'[i] = g /\ Mentions(i)' = Mentions(i)
      BY <1>7, <1>11, <2>4 DEF Mentions, Extends
    <3>2. PacketsKept(i)
      BY <1>10, <2>2, <3>1 DEF PacketsKept
    <3> HIDE DEF g
    <3>3. GhostAccounted(ghostRefs[i], i)'
      BY <2>1, <3>1, <3>2, AccountedKept
    <3>4. ASSUME NEW o, NEW ack, StillThere(ghostRefs[i], i, o, ack)
          PROVE  StillThere(ghostRefs[i], i, o, ack)'
      BY <1>10, <2>1, <2>2, <3>1, <3>4, StillKept
    <3> QED BY <3>3, <3>4
  <2> QED BY <2>3, <2>4
<1>15. ghostRefs' \in [Index -> GhostInfo]
  BY <1>7, <1>14 DEF GhostAccounted
<1>16. \A i \in DOMAIN ghostList'[n] :
            /\ i \in Index /\ i \in DOMAIN wire'[n]
            /\ Remembers(ghostList'[n][i], wire'[n][i])
  <2> SUFFICES ASSUME NEW i \in chosen
               PROVE  i \in Index /\ Remembers(ghostList'[n][i], wire'[n][i])
    BY <1>11
  <2> DEFINE g == ghosts[i]
             ret == retMask[i]
  <2>1. g \in GhostInfo /\ ret \in SUBSET MaskBit /\ Stage(g, i) /\ ReadyGhost(g)
    BY <1>12 DEF GhostAccounted
  <2>2. /\ i \in Index /\ ghostList'[n][i] = GhostRef(g, ret)
        /\ wire'[n][i] = Update(g, ret)
    BY <1>11, <1>12
  <2> HIDE DEF g, ret
  <2>3. Remembers(GhostRef(g, ret), Update(g, ret))
    BY <1>1, <2>1, WrittenRemembers
  <2> QED BY <2>2, <2>3
<1>17. InSession'
  <2>1. \A k \in Unread' : DOMAIN wire'[k] = DOMAIN ghostList'[k]
    BY <1>1, <1>8, <1>11, <1>13 DEF InSession, Extends
  <2> QED BY <1>1, <1>10, <1>14, <2>1 DEF InSession
<1> QED BY <1>1, <1>2, <1>11, <1>14, <1>15, <1>16, <1>17, WriteStep DEF n

-----------------------------------------------------------------------------
(* Reading a packet.                                                       *)

\* The RPCs that the client has processed, and those that it processes when it reads
\* more.
LEMMA Processed ==
  ASSUME NEW set, NEW more, set \subseteq more
  PROVE  ProcessedOf(set) \subseteq ProcessedOf(more) /\ ProcessedOf(more) \subseteq more
BY DEF ProcessedOf

LEMMA EndNotReached ==
  ASSUME SessionTypeOK, NEW n, EndAwaited(n), NEW known, rpcsRead \subseteq known,
         known \subseteq DOMAIN rpcs, n \notin known
  PROVE  ProcessedOf(known) = ProcessedOf(rpcsRead)
<1>1. DOMAIN rpcs = 1 .. Len(rpcs) /\ Len(rpcs) \in Nat
  BY DEF SessionTypeOK
<1>2. n \in DOMAIN rpcs /\ 1 .. (n - 1) \subseteq rpcsRead
  BY DEF EndAwaited
<1>3. ASSUME NEW m \in ProcessedOf(known) PROVE m \in ProcessedOf(rpcsRead)
  <2>1. m \in 1 .. Len(rpcs) /\ 1 .. m \subseteq known
    BY <1>1 DEF ProcessedOf
  <2>2. m < n
    BY <1>1, <1>2, <2>1
  <2> QED BY <1>1, <1>2, <2>1, <2>2 DEF ProcessedOf
<1> QED BY <1>3, Processed

\* The client clears its ghosts when it processes the end of the session.
LEMMA EndReached ==
  ASSUME SessionTypeOK, NEW n, EndAwaited(n), NEW known, rpcsRead \subseteq known, n \in known
  PROVE  AfterRpcs(ProcessedOf(known) \ ProcessedOf(rpcsRead)) = [i \in Index |-> NoGhost]
<1>1. DOMAIN rpcs = 1 .. Len(rpcs) /\ Len(rpcs) \in Nat
  BY DEF SessionTypeOK
<1>2. /\ n \in DOMAIN rpcs /\ rpcs[n] = EndGhosting /\ n \notin rpcsRead
      /\ 1 .. (n - 1) \subseteq rpcsRead
  BY DEF EndAwaited
<1>3. 1 .. n \subseteq known
  BY <1>1, <1>2
<1>4. n \in ProcessedOf(known) \ ProcessedOf(rpcsRead)
  BY <1>2, <1>3 DEF ProcessedOf
<1> QED BY <1>2, <1>4 DEF AfterRpcs

LEMMA UnpackedType ==
  ASSUME NEW ghost \in [obj : Object \cup {NoObject}, value : [MaskBit -> Nat]],
         NEW update, Readable(update)
  PROVE  Unpacked(ghost, update) \in [obj : Object \cup {NoObject}, value : [MaskBit -> Nat]]
<1>1. CASE update.kind = "KillingGhost"
  BY <1>1 DEF Unpacked, NoGhost
<1>2. CASE update.kind # "KillingGhost"
  <2>1. PICK m \in SUBSET MaskBit : update.value \in [m -> Nat]
    BY <1>2 DEF Readable
  <2> DEFINE values == [b \in MaskBit |-> IF b \in DOMAIN update.value
                                          THEN update.value[b] ELSE ghost.value[b]]
  <2>2. values \in [MaskBit -> Nat]
    BY <2>1
  <2>3. update.obj \in Object
    BY <1>2 DEF Readable
  <2> HIDE DEF values
  <2>4. Unpacked(ghost, update) =
          [obj |-> IF ghost = NoGhost THEN update.obj ELSE ghost.obj, value |-> values]
    BY <1>2 DEF Unpacked, values
  <2> QED BY <2>2, <2>3, <2>4
<1> QED BY <1>1, <1>2

LEMMA ReadSessionPacketIInv ==
  ASSUME SessionIInv, NEW k \in Unread, ReadSessionPacket(k) PROVE SessionIInv'
<1>1. /\ SessionTypeOK /\ ServiceInv /\ GhostTypeOK /\ RpcsInOrder /\ RpcsApart
      /\ NotesRemembered /\ CallsUnderWay /\ MisdirectedFormer
  BY DEF SessionIInv, SessionTypeOK
<1> DEFINE known == rpcsRead \cup rpcsIn[k]
           new == ProcessedOf(known) \ ProcessedOf(rpcsRead)
           ghosts == AfterRpcs(new)
<1>2. /\ Read(k) /\ rpcsRead' = known /\ ready' = ready \cup Answers(new)
      /\ localGhosts' = [i \in Index |-> IF i \in DOMAIN wire[k]
                                         THEN Unpacked(ghosts[i], wire[k][i]) ELSE ghosts[i]]
      /\ UNCHANGED <<alive, value, scope, scopeObject, dirtyMaskBits>>
      /\ UNCHANGED <<ghostRefs, ghostList, wire>>
      /\ UNCHANGED <<ghosting, scoping, ghostingSequence, rpcs, rpcQueue, rpcsIn>>
      /\ UNCHANGED <<calls, misdirected>>
  BY DEF ReadSessionPacket, objectVars, packetVars, callVars
<1>3. /\ ServiceInv' /\ k \notin read /\ k > notified /\ k \in Nat
      /\ read' = read \cup {k} /\ floor' = k /\ sent' = sent /\ notified' = notified
  BY <1>1, <1>2, ReadInv DEF Read, Unread
<1>4. /\ sent \in Nat /\ floor \in Nat /\ floor < k /\ notified \in Nat
      /\ notified <= floor
      /\ \A j \in DOMAIN ghostList : j \in Nat
      /\ DOMAIN rpcsIn = DOMAIN ghostList
      /\ Unread \subseteq DOMAIN ghostList
      /\ \A j \in read : j \in Nat /\ j <= floor
  BY <1>1, SessionPackets
<1>5. known \subseteq DOMAIN rpcs /\ rpcsRead \subseteq known
  BY <1>1, <1>4 DEF SessionTypeOK
<1>6. new \subseteq ProcessedOf(known) /\ new \subseteq DOMAIN rpcs
  BY <1>5, Processed
<1>7. \A m \in Answers(new) : m \in new /\ rpcs[m] # EndGhosting
  BY <1>1, <1>6 DEF Answers, RpcsInOrder
<1>8. /\ \A j \in Unread' : j \in Unread /\ j > k
      /\ \A i : Mentions(i)' = Mentions(i) /\ Incoming(i)' \subseteq Incoming(i)
  <2>1. \A j \in Unread' : j \in Unread /\ j > k
    BY <1>3, <1>4 DEF Unread
  <2> QED BY <1>2, <2>1 DEF Mentions, Incoming
<1>9. \A i \in DOMAIN wire[k] : i \in Index /\ Readable(wire[k][i])
  BY <1>1 DEF NotesRemembered
<1>10. \A i \in Index : ghosts[i] \in {NoGhost, localGhosts[i]}
  BY DEF AfterRpcs
<1> HIDE DEF known, new, ghosts
<1>11. SessionTypeOK'
  <2>1. localGhosts' \in [Index -> [obj : Object \cup {NoObject}, value : [MaskBit -> Nat]]]
    <3> SUFFICES ASSUME NEW i \in Index
                 PROVE  localGhosts'[i] \in [obj : Object \cup {NoObject},
                                             value : [MaskBit -> Nat]]
      BY <1>2
    <3>1. NoGhost \in [obj : Object \cup {NoObject}, value : [MaskBit -> Nat]]
      BY DEF NoGhost
    <3>2. ghosts[i] \in [obj : Object \cup {NoObject}, value : [MaskBit -> Nat]]
      BY <1>1, <1>10, <3>1 DEF GhostTypeOK
    <3> DEFINE ghost == ghosts[i]
               update == wire[k][i]
    <3>3. CASE i \in DOMAIN wire[k]
      <4>1. /\ Readable(update) /\ localGhosts'[i] = Unpacked(ghost, update)
            /\ ghost \in [obj : Object \cup {NoObject}, value : [MaskBit -> Nat]]
        BY <1>2, <1>9, <3>2, <3>3
      <4> HIDE DEF ghost, update
      <4> QED BY <4>1, UnpackedType
    <3>4. CASE i \notin DOMAIN wire[k]
      BY <1>2, <3>2, <3>4
    <3> QED BY <3>3, <3>4
  <2>2. GhostTypeOK'
    BY <1>1, <1>2, <1>3, <2>1 DEF GhostTypeOK
  <2>3. ready' \subseteq Nat /\ rpcsRead' \subseteq DOMAIN rpcs'
    <3>1. DOMAIN rpcs \subseteq Nat /\ ready \subseteq Nat
      BY <1>1 DEF SessionTypeOK
    <3> QED BY <1>2, <1>5, <1>6, <1>7, <3>1
  <2> QED BY <1>1, <1>2, <1>3, <2>2, <2>3 DEF SessionTypeOK
<1>12. RpcsInOrder'
  <2>1. ProcessedOf(rpcsRead) \subseteq ProcessedOf(known)
    BY <1>5, Processed
  <2>2. \A m \in ready' : m \in ProcessedOf(known) /\ rpcs[m] # EndGhosting
    BY <1>1, <1>2, <1>6, <1>7, <2>1 DEF RpcsInOrder
  <2>3. \A m \in ready' : m \in ProcessedOf(rpcsRead)' /\ rpcs'[m] # EndGhosting
    BY <1>2, <2>2 DEF ProcessedOf
  <2> QED BY <1>1, <1>2, <2>3 DEF RpcsInOrder
<1>13. RpcsApart' /\ NotesRemembered' /\ MisdirectedFormer'
  <2>1. NotesRemembered'
    BY <1>1, <1>2, <1>8, NotesKept
  <2> QED BY <1>1, <1>2, <2>1 DEF RpcsApart, MisdirectedFormer
<1>14. ASSUME ghosting PROVE InSession'
  <2>1. InSession
    BY <1>14 DEF SessionIInv
  <2>2. known = rpcsRead /\ ghosts = localGhosts
    <3>1. known = rpcsRead
      BY <1>1, <1>5, <2>1 DEF InSession, SessionTypeOK
    <3> QED BY <3>1 DEF ghosts, new, AfterRpcs
  <2>3. ASSUME NEW i \in Index PROVE GhostAccounted(ghostRefs[i], i)'
    <3>1. GhostAccounted(ghostRefs[i], i)
      BY <2>1 DEF InSession
    <3>2. CASE i \in DOMAIN wire[k]
      <4>1. i \in DOMAIN ghostList[k] /\ k \in DOMAIN ghostList
        BY <1>4, <2>1, <3>2 DEF InSession
      <4>2. Remembers(ghostList[k][i], wire[k][i])
        BY <1>1, <4>1 DEF NotesRemembered
      <4>3. /\ k \in Mentions(i) /\ \A j \in Mentions(i) : j \in Nat
            /\ \A j \in read : j < k
        BY <1>3, <1>4, <4>1 DEF Mentions
      <4>4. UpdateRead(i, k)
        BY <1>2, <1>3, <2>2, <3>2, <4>2, <4>3 DEF UpdateRead
      <4> QED BY <3>1, <4>4, ReadAccounted
    <3>3. CASE i \notin DOMAIN wire[k]
      <4>1. k \notin Mentions(i)
        BY <2>1, <3>3 DEF InSession, Mentions
      <4>2. PacketsKept(i)
        BY <1>2, <1>3, <1>8, <2>2, <3>3, <4>1 DEF PacketsKept
      <4> DEFINE g == ghostRefs[i]
      <4>3. GhostAccounted(g, i) /\ ghostRefs'[i] = g
        BY <1>2, <3>1
      <4> HIDE DEF g
      <4> QED BY <4>2, <4>3, AccountedKept
    <3> QED BY <3>2, <3>3
  <2> QED BY <1>2, <1>5, <1>8, <2>1, <2>2, <2>3 DEF InSession
<1>15. ASSUME ~ghosting PROVE BetweenSessions'
  <2>1. BetweenSessions
    BY <1>15 DEF SessionIInv
  <2>2. \A i \in Index : /\ Waiting(ghostRefs[i])'
                         /\ (~scoping => ghostRefs[i] = FreeGhost)'
    BY <1>2, <2>1 DEF BetweenSessions, Waiting, SegmentHolds, KnownAs, FreeGhost
  <2>3. \A j \in DOMAIN ghostList' : DOMAIN ghostList'[j] = {}
    BY <1>2, <2>1 DEF BetweenSessions
  <2>4. ASSUME \A i \in Index : ghosts[i] = NoGhost, DOMAIN wire[k] = {},
               \A j \in Unread' : DOMAIN wire[j] = {}
        PROVE  ClientCleared' /\ \A i \in Index : ClientAgrees(i)'
    <3>1. \A i \in Index : localGhosts'[i] = NoGhost /\ Incoming(i)' = {}
      BY <1>2, <2>4 DEF Incoming
    <3> QED BY <1>2, <2>4, <3>1 DEF ClientCleared, ClientAgrees
  <2>5. CASE ClientCleared
    <3>1. /\ \A i \in Index : ghosts[i] = NoGhost
          /\ DOMAIN wire[k] = {} /\ \A j \in Unread' : DOMAIN wire[j] = {}
      BY <1>8, <1>10, <2>5 DEF ClientCleared
    <3> QED BY <2>2, <2>3, <2>4, <3>1 DEF BetweenSessions
  <2>6. ASSUME NEW n \in DOMAIN rpcs, EndAwaited(n)
        PROVE  /\ \A i \in Index : ClientAgrees(i)'
               /\ ClientCleared' \/ EndAwaited(n)'
    <3>1. CASE n \in known
      <4>1. n \in rpcsIn[k]
        BY <2>6, <3>1 DEF known, EndAwaited
      <4>2. \A j \in Unread : DOMAIN wire[j] # {} => j < k
        BY <2>6, <4>1 DEF EndAwaited
      <4>3. DOMAIN wire[k] = {}
        BY <1>3, <4>2
      <4>4. ASSUME NEW j \in Unread' PROVE DOMAIN wire[j] = {}
        <5>1. j \in Unread /\ j > k /\ j \in Nat
          BY <1>4, <1>8
        <5> QED BY <1>3, <4>2, <5>1
      <4>5. \A i \in Index : ghosts[i] = NoGhost
        BY <1>1, <1>5, <2>6, <3>1, EndReached DEF ghosts, new
      <4> QED BY <2>4, <4>3, <4>4, <4>5
    <3>2. CASE n \notin known
      <4>1. ghosts = localGhosts
        <5>1. ProcessedOf(known) = ProcessedOf(rpcsRead)
          BY <1>1, <1>5, <2>6, <3>2, EndNotReached
        <5> QED BY <5>1 DEF ghosts, new, AfterRpcs
      <4>2. ASSUME NEW i \in Index PROVE ClientAgrees(i)'
        <5>1. ClientAgrees(i)
          BY <2>1 DEF BetweenSessions
        <5> QED BY <1>1, <1>2, <1>3, <1>9, <4>1, <5>1, AgreesRead
      <4>3. EndAwaited(n)'
        BY <1>2, <1>5, <1>8, <2>6, <3>2 DEF EndAwaited
      <4> QED BY <4>2, <4>3
    <3> QED BY <3>1, <3>2
  <2> QED BY <1>2, <2>1, <2>2, <2>3, <2>5, <2>6 DEF BetweenSessions
<1>16. CallsUnderWay'
  <2>1. \A i : \A o : \A ack \in Nat :
          ack <= floor /\ StillThere(ghostRefs[i], i, o, ack)
            => StillThere(ghostRefs[i], i, o, ack)'
    BY <1>2, <1>3, <1>4, <1>8 DEF StillThere
  <2>2. floor <= floor' /\ floor' \in Nat /\ notified <= notified' /\ notified' \in Nat
    BY <1>3, <1>4
  <2>3. calls' \subseteq calls /\ ghostingSequence' = ghostingSequence /\ (ghosting => ghosting')
    BY <1>2
  <2> QED BY <1>1, <2>1, <2>2, <2>3, CallsKept
<1> QED BY <1>2, <1>3, <1>11, <1>12, <1>13, <1>14, <1>15, <1>16 DEF SessionIInv

-----------------------------------------------------------------------------
(* The fate of a packet.                                                   *)

LEMMA SessionPacketLostIInv ==
  ASSUME SessionIInv, NEW k \in Unread, SessionPacketLost(k) PROVE SessionIInv'
<1>1. /\ SessionTypeOK /\ ServiceInv /\ GhostTypeOK /\ RpcsInOrder /\ RpcsApart
      /\ NotesRemembered /\ CallsUnderWay /\ MisdirectedFormer
  BY DEF SessionIInv, SessionTypeOK
<1>2. /\ Skip(k) /\ UNCHANGED <<alive, value, scope, scopeObject, dirtyMaskBits>>
      /\ UNCHANGED <<ghostRefs, ghostList, wire, localGhosts>>
      /\ UNCHANGED <<ghosting, scoping, ghostingSequence, rpcs, rpcQueue, rpcsIn>>
      /\ UNCHANGED <<rpcsRead, ready, calls, misdirected>>
  BY DEF SessionPacketLost, LosePacket, ghostVars, objectVars, packetVars, sessionVars,
         rpcVars, callVars
<1>3. ServiceInv' /\ floor' = k /\ UNCHANGED <<sent, notified, read>>
  BY <1>1, <1>2, SkipInv DEF Skip, Unread
<1>4. /\ sent \in Nat /\ floor \in Nat /\ floor < k /\ k \in Nat /\ notified \in Nat
  BY <1>1, SessionPackets
<1>5. /\ Unread' \subseteq Unread
      /\ \A i : Mentions(i)' = Mentions(i) /\ Incoming(i)' \subseteq Incoming(i)
  <2>1. Unread' \subseteq Unread
    BY <1>3, <1>4 DEF Unread
  <2> QED BY <1>2, <2>1 DEF Mentions, Incoming
<1>6. SessionTypeOK'
  <2>1. GhostTypeOK'
    BY <1>1, <1>2, <1>3 DEF GhostTypeOK
  <2> QED BY <1>1, <1>2, <1>3, <2>1 DEF SessionTypeOK
<1>7. RpcsInOrder' /\ RpcsApart' /\ NotesRemembered' /\ MisdirectedFormer'
  <2>1. RpcsInOrder'
    BY <1>1, <1>2 DEF RpcsInOrder, ProcessedOf
  <2>2. NotesRemembered'
    BY <1>1, <1>2, <1>5, NotesKept
  <2> QED BY <1>1, <1>2, <2>1, <2>2 DEF RpcsApart, MisdirectedFormer
<1>8. ASSUME ghosting PROVE InSession'
  <2>1. InSession
    BY <1>8 DEF SessionIInv
  <2>2. ASSUME NEW i \in Index PROVE GhostAccounted(ghostRefs[i], i)'
    <3> DEFINE g == ghostRefs[i]
    <3>1. PacketsKept(i) /\ GhostAccounted(g, i) /\ ghostRefs'[i] = g
      BY <1>2, <1>3, <1>5, <2>1 DEF InSession, PacketsKept
    <3> HIDE DEF g
    <3> QED BY <3>1, AccountedKept
  <2> QED BY <1>2, <1>5, <2>1, <2>2 DEF InSession
<1>9. ASSUME ~ghosting PROVE BetweenSessions'
  <2>1. BetweenSessions
    BY <1>9 DEF SessionIInv
  <2>2. \A i \in Index : /\ Waiting(ghostRefs[i])'
                         /\ (~scoping => ghostRefs[i] = FreeGhost)'
    BY <1>2, <2>1 DEF BetweenSessions, Waiting, SegmentHolds, KnownAs, FreeGhost
  <2>3. ASSUME NEW i \in Index PROVE ClientAgrees(i)'
    BY <1>2, <1>5, <2>1, AgreesKept DEF BetweenSessions
  <2>4. ClientCleared => ClientCleared'
    BY <1>2, <1>5 DEF ClientCleared
  <2>5. \A m : EndAwaited(m) => EndAwaited(m)'
    BY <1>2, <1>5 DEF EndAwaited
  <2> QED BY <1>2, <2>1, <2>2, <2>3, <2>4, <2>5 DEF BetweenSessions
<1>10. CallsUnderWay'
  <2>1. \A i : \A o : \A ack : StillThere(ghostRefs[i], i, o, ack)
                                 => StillThere(ghostRefs[i], i, o, ack)'
    BY <1>2, <1>3, <1>5 DEF StillThere
  <2>2. floor <= floor' /\ floor' \in Nat /\ notified <= notified' /\ notified' \in Nat
    BY <1>3, <1>4
  <2>3. calls' \subseteq calls /\ ghostingSequence' = ghostingSequence /\ (ghosting => ghosting')
    BY <1>2
  <2> QED BY <1>1, <2>1, <2>2, <2>3, CallsKept
<1> QED BY <1>2, <1>3, <1>6, <1>7, <1>8, <1>9, <1>10 DEF SessionIInv

\* The notification of packet n, up to the ghosts that it was about.
LEMMA NotifiedStep ==
  ASSUME SessionIInv, NEW n, n = notified + 1, Notify(n),
         ghostList' = Forgotten(ghostList), wire' = Forgotten(wire),
         rpcsIn' = Forgotten(rpcsIn),
         UNCHANGED <<objectVars, dirtyMaskBits, localGhosts>>,
         UNCHANGED <<ghosting, scoping, ghostingSequence, rpcs, rpcsRead, ready,
                     misdirected>>,
         calls' \subseteq calls,
         rpcQueue' \in {rpcQueue, rpcQueue \cup rpcsIn[n]},
         ghostRefs' \in [Index -> GhostInfo],
         \A i \in Index : i \notin DOMAIN ghostList[n] => ghostRefs'[i] = ghostRefs[i],
         \A i \in Index : GhostAccounted(ghostRefs[i], i) /\ UpdateNotified(i, n) =>
           /\ GhostAccounted(ghostRefs[i], i)'
           /\ \A o : \A ack \in Nat : n <= ack /\ StillThere(ghostRefs[i], i, o, ack)
                                        => StillThere(ghostRefs[i], i, o, ack)'
  PROVE  SessionIInv'
<1>1. /\ SessionTypeOK /\ ServiceInv /\ GhostTypeOK /\ RpcsInOrder /\ RpcsApart
      /\ NotesRemembered /\ CallsUnderWay /\ MisdirectedFormer
  BY DEF SessionIInv, SessionTypeOK
<1>2. /\ UNCHANGED <<alive, value, scope, scopeObject, dirtyMaskBits>> /\ UNCHANGED localGhosts
      /\ UNCHANGED <<ghosting, scoping, ghostingSequence, rpcs>>
      /\ UNCHANGED <<rpcsRead, ready, misdirected>> /\ calls' \subseteq calls
      /\ UNCHANGED <<sent, read, floor>>
  BY DEF objectVars, Notify
<1>3. /\ ServiceInv' /\ notified' = n /\ n <= floor
  BY <1>1, NotifyInv
<1>4. /\ sent \in Nat /\ notified \in Nat /\ floor \in Nat /\ notified <= floor
      /\ floor <= sent /\ n \in Nat
      /\ \A k \in DOMAIN ghostList : k \in Nat /\ notified < k /\ k <= sent
      /\ DOMAIN wire = DOMAIN ghostList /\ DOMAIN rpcsIn = DOMAIN ghostList
      /\ Unread \subseteq DOMAIN ghostList
      /\ \A k \in Unread : k \in Nat /\ floor < k
  BY <1>1, SessionPackets
<1>5. /\ n \in DOMAIN ghostList /\ \A k \in DOMAIN ghostList : n <= k
      /\ DOMAIN ghostList \ {n} = (notified' + 1) .. sent'
  <2>1. DOMAIN ghostList = (notified + 1) .. sent
    BY <1>1 DEF GhostTypeOK
  <2> QED BY <1>2, <1>3, <1>4, <2>1
<1>6. /\ DOMAIN ghostList' = DOMAIN ghostList \ {n} /\ DOMAIN wire' = DOMAIN ghostList \ {n}
      /\ DOMAIN rpcsIn' = DOMAIN ghostList \ {n}
      /\ \A k \in DOMAIN ghostList \ {n} : /\ ghostList'[k] = ghostList[k]
                                           /\ wire'[k] = wire[k] /\ rpcsIn'[k] = rpcsIn[k]
  BY <1>4 DEF Forgotten
<1>7. /\ Unread' = Unread /\ n \notin Unread
      /\ \A i : Mentions(i)' = Mentions(i) \ {n} /\ Incoming(i)' = Incoming(i)
  <2>1. Unread' = Unread /\ n \notin Unread
    BY <1>2, <1>3, <1>4 DEF Unread
  <2>2. ASSUME NEW i PROVE Mentions(i)' = Mentions(i) \ {n}
    BY <1>6 DEF Mentions
  <2>3. ASSUME NEW i PROVE Incoming(i)' = Incoming(i)
    BY <1>4, <1>6, <2>1 DEF Incoming
  <2> QED BY <2>1, <2>2, <2>3
<1>8. /\ RpcsApart' /\ rpcQueue' \subseteq DOMAIN rpcs
      /\ \A k \in DOMAIN rpcsIn' : rpcsIn'[k] \subseteq DOMAIN rpcs \ rpcQueue'
  <2>1. \A k \in DOMAIN rpcsIn : rpcsIn[k] \subseteq DOMAIN rpcs \ rpcQueue
    BY <1>1 DEF SessionTypeOK
  <2>2. \A k \in DOMAIN rpcsIn \ {n} : rpcsIn[n] \cap rpcsIn[k] = {}
    BY <1>1, <1>4, <1>5 DEF RpcsApart
  <2>3. RpcsApart'
    BY <1>1, <1>4, <1>6 DEF RpcsApart
  <2>4. rpcQueue' \subseteq DOMAIN rpcs
    BY <1>1, <1>4, <1>5, <2>1 DEF SessionTypeOK
  <2> QED BY <1>4, <1>6, <2>1, <2>2, <2>3, <2>4
<1>9. SessionTypeOK'
  <2>1. GhostTypeOK'
    BY <1>1, <1>2, <1>5, <1>6 DEF GhostTypeOK
  <2> QED BY <1>1, <1>2, <1>5, <1>6, <1>8, <2>1 DEF SessionTypeOK
<1>10. RpcsInOrder' /\ NotesRemembered' /\ MisdirectedFormer'
  <2>1. RpcsInOrder' /\ MisdirectedFormer'
    BY <1>1, <1>2 DEF RpcsInOrder, ProcessedOf, MisdirectedFormer
  <2>2. \A k \in Unread : wire'[k] = wire[k]
    BY <1>4, <1>6, <1>7
  <2>3. \A k \in Unread' : \A i \in DOMAIN wire'[k] : i \in Index /\ Readable(wire'[k][i])
    BY <1>1, <1>7, <2>2 DEF NotesRemembered
  <2>4. \A k \in DOMAIN ghostList' : \A i \in DOMAIN ghostList'[k] :
          /\ i \in Index /\ i \in DOMAIN wire'[k]
          /\ Remembers(ghostList'[k][i], wire'[k][i])
    BY <1>1, <1>6 DEF NotesRemembered
  <2> QED BY <2>1, <2>3, <2>4 DEF NotesRemembered, Remembers, Readable
<1>11. ASSUME NEW i \in Index
       PROVE  i \in DOMAIN ghostList[n] => UpdateNotified(i, n)
  <2> SUFFICES ASSUME i \in DOMAIN ghostList[n] PROVE UpdateNotified(i, n)
    OBVIOUS
  <2>1. Remembers(ghostList[n][i], wire[n][i])
    BY <1>1, <1>5 DEF NotesRemembered
  <2>2. n \in Mentions(i) /\ \A k \in Mentions(i) : k \in Nat /\ n <= k
    BY <1>4, <1>5 DEF Mentions
  <2>3. \A k \in Mentions(i) \ {n} : /\ wire'[k][i] = wire[k][i]
                                     /\ ghostList'[k][i] = ghostList[k][i]
    BY <1>6 DEF Mentions
  <2> QED BY <1>2, <1>7, <2>1, <2>2, <2>3 DEF UpdateNotified
<1>12. ASSUME NEW i \in Index, i \notin DOMAIN ghostList[n]
       PROVE  /\ PacketsKept(i) /\ ghostRefs'[i] = ghostRefs[i]
              /\ \A o : \A ack : StillThere(ghostRefs[i], i, o, ack)
                                   => StillThere(ghostRefs[i], i, o, ack)'
  <2>1. Mentions(i)' = Mentions(i) /\ ghostRefs'[i] = ghostRefs[i]
    BY <1>7, <1>12 DEF Mentions
  <2>2. PacketsKept(i)
    BY <1>2, <1>6, <1>12, <2>1 DEF PacketsKept, Mentions
  <2>3. \A o : \A ack : StillThere(ghostRefs[i], i, o, ack)
                          => StillThere(ghostRefs[i], i, o, ack)'
    BY <2>1, <2>2 DEF PacketsKept, StillThere
  <2> QED BY <2>1, <2>2, <2>3
<1>13. ASSUME ghosting PROVE InSession'
  <2>1. InSession
    BY <1>13 DEF SessionIInv
  <2>2. ASSUME NEW i \in Index PROVE GhostAccounted(ghostRefs[i], i)'
    <3>1. GhostAccounted(ghostRefs[i], i)
      BY <2>1 DEF InSession
    <3>2. CASE i \in DOMAIN ghostList[n]
      BY <1>11, <3>1, <3>2
    <3>3. CASE i \notin DOMAIN ghostList[n]
      <4> DEFINE g == ghostRefs[i]
      <4>1. PacketsKept(i) /\ GhostAccounted(g, i) /\ ghostRefs'[i] = g
        BY <1>12, <3>1, <3>3
      <4> HIDE DEF g
      <4> QED BY <4>1, AccountedKept
    <3> QED BY <3>2, <3>3
  <2>3. \A k \in Unread' : DOMAIN wire'[k] = DOMAIN ghostList'[k]
    BY <1>4, <1>6, <1>7, <2>1 DEF InSession
  <2> QED BY <1>2, <2>1, <2>2, <2>3 DEF InSession
<1>14. ASSUME ~ghosting PROVE BetweenSessions'
  <2>1. BetweenSessions
    BY <1>14 DEF SessionIInv
  <2>2. \A i \in Index : ghostRefs'[i] = ghostRefs[i]
    BY <1>5, <2>1 DEF BetweenSessions
  <2>3. \A i \in Index : /\ Waiting(ghostRefs[i])'
                         /\ (~scoping => ghostRefs[i] = FreeGhost)'
    BY <1>2, <2>1, <2>2 DEF BetweenSessions, Waiting, SegmentHolds, KnownAs, FreeGhost
  <2>4. \A k \in Unread : wire'[k] = wire[k] /\ rpcsIn'[k] = rpcsIn[k]
    BY <1>4, <1>6, <1>7
  <2>5. ASSUME NEW i \in Index PROVE ClientAgrees(i)'
    <3>1. \A k \in Incoming(i)' : wire'[k][i] = wire[k][i]
      BY <1>7, <2>4 DEF Incoming
    <3> QED BY <1>2, <1>7, <2>1, <3>1, AgreesKept DEF BetweenSessions
  <2>6. ClientCleared => ClientCleared'
    BY <1>2, <1>7, <2>4 DEF ClientCleared
  <2>7. \A m : EndAwaited(m) => EndAwaited(m)'
    BY <1>2, <1>7, <2>4 DEF EndAwaited
  <2>8. \A k \in DOMAIN ghostList' : DOMAIN ghostList'[k] = {}
    BY <1>6, <2>1 DEF BetweenSessions
  <2> QED BY <1>2, <2>1, <2>3, <2>5, <2>6, <2>7, <2>8 DEF BetweenSessions
<1>15. CallsUnderWay'
  <2>1. ASSUME ghosting, NEW i \in Index, NEW o, NEW ack \in Nat, n <= ack,
               StillThere(ghostRefs[i], i, o, ack)
        PROVE  StillThere(ghostRefs[i], i, o, ack)'
    <3>1. GhostAccounted(ghostRefs[i], i)
      BY <2>1 DEF SessionIInv, InSession
    <3> QED BY <1>11, <1>12, <2>1, <3>1
  <2>2. CASE ghosting
    <3>1. floor <= floor' /\ floor' \in Nat /\ notified <= notified' /\ notified' \in Nat
      BY <1>2, <1>3, <1>4
    <3>2. calls' \subseteq calls /\ ghostingSequence' = ghostingSequence /\ (ghosting => ghosting')
      BY <1>2
    <3>3. \A i \in Index : \A o \in Object : \A ack \in Nat :
            ack <= floor /\ ack >= notified' /\ StillThere(ghostRefs[i], i, o, ack)
              => StillThere(ghostRefs[i], i, o, ack)'
      BY <1>3, <1>4, <2>1, <2>2
    <3> QED BY <1>1, <3>1, <3>2, <3>3, CallsKept
  <2>3. CASE ~ghosting
    BY <1>1, <1>2, <2>3 DEF CallsUnderWay
  <2> QED BY <2>2, <2>3
<1> QED BY <1>2, <1>3, <1>8, <1>9, <1>10, <1>13, <1>14, <1>15 DEF SessionIInv

\* A ghost that the client had of an object when it had read packet n and more is
\* still the same after the notification of n.
LEMMA StillReceived ==
  ASSUME NEW i \in Index, NEW o, NEW n \in Nat, NEW ack \in Nat, n <= ack,
         StillThere(ghostRefs[i], i, o, ack), UpdateNotified(i, n), n \in read,
         ghostRefs'[i] = AfterReceived(i, n), ghostRefs[i] \in GhostInfo
  PROVE  StillThere(ghostRefs[i], i, o, ack)'
<1>1. wire[n][i].kind = ghostList[n][i].ghostInfoFlags /\ n \in Mentions(i)
  BY DEF UpdateNotified, Remembers
<1>2. wire[n][i].kind # "KillingGhost"
  BY <1>1 DEF StillThere
<1>3. /\ ghostRefs'[i].obj = ghostRefs[i].obj /\ ghostRefs'[i].segment = ghostRefs[i].segment
      /\ ghostRefs'[i].flags \subseteq ghostRefs[i].flags
  BY <1>1, <1>2 DEF AfterReceived, GhostInfo
<1> QED BY <1>3 DEF StillThere, UpdateNotified

LEMMA SessionPacketReceivedIInv ==
  ASSUME Faithful, SessionIInv, SessionPacketReceived PROVE SessionIInv'
<1>1. PICK n : n = notified + 1
  OBVIOUS
<1>2. /\ Notify(n) /\ n \in received'
      /\ ghostRefs' = [i \in Index |-> IF i \notin DOMAIN ghostList[n] THEN ghostRefs[i]
                                       ELSE AfterReceived(i, n)]
      /\ ghostList' = Forgotten(ghostList) /\ wire' = Forgotten(wire)
      /\ UNCHANGED <<objectVars, dirtyMaskBits, localGhosts>>
  BY <1>1 DEF SessionPacketReceived, PacketReceived, AfterReceived
<1>3. /\ rpcsIn' = Forgotten(rpcsIn) /\ rpcQueue' = rpcQueue
      /\ UNCHANGED <<ghosting, scoping, ghostingSequence, rpcs, rpcsRead, ready,
                     misdirected>>
      /\ calls' \subseteq calls
  BY DEF SessionPacketReceived, UnderWay
<1>4. GhostTypeOK /\ ServiceInv
  BY DEF SessionIInv, SessionTypeOK
<1>5. n \in read /\ n \in Nat
  BY <1>1, <1>2, <1>4, NotifyInv DEF ServiceInv
<1>6. ghostRefs' \in [Index -> GhostInfo]
  <2>1. ASSUME NEW i \in Index PROVE AfterReceived(i, n) \in GhostInfo
    BY <1>4, FreeGhostInfo DEF GhostTypeOK, GhostInfo, AfterReceived, FreeGhost
  <2> QED BY <1>2, <1>4, <2>1 DEF GhostTypeOK
<1>7. \A i \in Index : i \notin DOMAIN ghostList[n] => ghostRefs'[i] = ghostRefs[i]
  BY <1>2
<1>8. ASSUME NEW i \in Index, GhostAccounted(ghostRefs[i], i), UpdateNotified(i, n)
      PROVE  /\ GhostAccounted(ghostRefs[i], i)'
             /\ \A o : \A ack \in Nat : n <= ack /\ StillThere(ghostRefs[i], i, o, ack)
                                          => StillThere(ghostRefs[i], i, o, ack)'
  <2>1. ghostRefs'[i] = AfterReceived(i, n)
    BY <1>2, <1>8 DEF UpdateNotified, Mentions
  <2>2. GhostAccounted(ghostRefs[i], i)'
    BY <1>5, <1>8, <2>1, ReceivedAccounted
  <2>3. ghostRefs[i] \in GhostInfo
    BY <1>4 DEF GhostTypeOK
  <2> QED BY <1>5, <1>8, <2>1, <2>2, <2>3, StillReceived
<1> QED BY <1>1, <1>2, <1>3, <1>6, <1>7, <1>8, NotifiedStep

\* A packet that was not read had told nothing that the client's call relies on.
LEMMA StillDropped ==
  ASSUME NEW i \in Index, NEW o, NEW ack, NEW n, StillThere(ghostRefs[i], i, o, ack),
         GhostAccounted(ghostRefs[i], i), UpdateNotified(i, n), n \notin read,
         ghostRefs'[i] = AfterDropped(i, n)
  PROVE  StillThere(ghostRefs[i], i, o, ack)'
<1> DEFINE g == ghostRefs[i]
           ref == ghostList[n][i]
           m == Marked(g, Resent(i, n))
           h == ghostRefs'[i]
<1>1. wire[n][i].kind = ref.ghostInfoFlags /\ n \in Mentions(i)
  BY DEF UpdateNotified, Remembers
<1>2. wire[n][i].kind # "Ghosting"
  BY <1>1 DEF StillThere
<1>3. m \in GhostInfo /\ m.obj = g.obj /\ m.segment # "free" /\ m.flags = g.flags
  <2>1. m.flags = g.flags
    BY DEF Marked, GhostAccounted, GhostInfo
  <2> HIDE DEF m, g
  <2> QED BY <2>1, DroppedMarks DEF m, g
<1>4. h = Restored(m, ref)
  BY DEF AfterDropped
<1>5. g.obj \in {o, NoObject} /\ "NotYetGhosted" \notin g.flags
  BY DEF StillThere
<1> HIDE DEF m, g, h, ref
<1>6. /\ h.obj = m.obj /\ h.segment = m.segment
      /\ ref.ghostInfoFlags = "KillingGhost" =>
           h.flags = (m.flags \ {"KillingGhost"}) \cup {"KillGhost"}
      /\ ref.ghostInfoFlags \notin {"KillingGhost", "Ghosting"} => h = m
  <2>1. ref.ghostInfoFlags \notin {"KillingGhost", "Ghosting"} => Restored(m, ref) = m
    BY DEF Restored
  <2> QED BY <1>3, <1>4, <2>1, RestoredGhost
<1>7. "NotYetGhosted" \notin h.flags
  BY <1>1, <1>2, <1>3, <1>5, <1>6
<1>8. h.obj \in {o, NoObject} /\ h.segment # "free"
  BY <1>3, <1>5, <1>6
<1> QED BY <1>7, <1>8 DEF StillThere, UpdateNotified, h

LEMMA SessionPacketDroppedIInv ==
  ASSUME SessionIInv, SessionPacketDropped PROVE SessionIInv'
<1>1. PICK n : n = notified + 1
  OBVIOUS
<1>2. /\ Notify(n) /\ n \in dropped'
      /\ ghostRefs' = [i \in Index |-> IF i \notin DOMAIN ghostList[n] THEN ghostRefs[i]
                                       ELSE AfterDropped(i, n)]
      /\ ghostList' = Forgotten(ghostList) /\ wire' = Forgotten(wire)
      /\ UNCHANGED <<objectVars, dirtyMaskBits, localGhosts>>
  BY <1>1 DEF SessionPacketDropped, PacketDropped, AfterDropped
<1>3. /\ rpcsIn' = Forgotten(rpcsIn) /\ rpcQueue' = rpcQueue \cup rpcsIn[n]
      /\ UNCHANGED <<ghosting, scoping, ghostingSequence, rpcs, rpcsRead, ready,
                     misdirected>>
      /\ calls' \subseteq calls
  BY <1>1 DEF SessionPacketDropped, UnderWay
<1>4. GhostTypeOK /\ ServiceInv /\ NotesRemembered
  BY DEF SessionIInv, SessionTypeOK
<1>5. n \notin read
  BY <1>1, <1>2, <1>4, NotifyInv
<1>6. ASSUME NEW i \in Index, i \in DOMAIN ghostList[n]
      PROVE  AfterDropped(i, n) \in GhostInfo
  <2> DEFINE g == ghostRefs[i]
             bits == Resent(i, n)
             m == Marked(g, bits)
  <2>1. g \in GhostInfo /\ bits \in SUBSET MaskBit
    <3>1. n \in DOMAIN ghostList
      BY <1>1, <1>2, <1>4 DEF Notify, GhostTypeOK, ServiceInv
    <3>2. Remembers(ghostList[n][i], wire[n][i])
      BY <1>4, <1>6, <3>1 DEF NotesRemembered
    <3> QED BY <1>4, <3>2 DEF GhostTypeOK, Remembers, Resent
  <2>2. AfterDropped(i, n) = Restored(m, ghostList[n][i])
    BY DEF AfterDropped
  <2> HIDE DEF g, bits
  <2>3. m \in GhostInfo
    BY <2>1 DEF Marked, GhostInfo
  <2> HIDE DEF m
  <2>4. Restored(m, ghostList[n][i]) \in GhostInfo
    BY <2>3, RestoredGhost
  <2> QED BY <2>2, <2>4
<1>7. /\ ghostRefs' \in [Index -> GhostInfo]
      /\ \A i \in Index : i \notin DOMAIN ghostList[n] => ghostRefs'[i] = ghostRefs[i]
  BY <1>2, <1>4, <1>6 DEF GhostTypeOK
<1>8. ASSUME NEW i \in Index, GhostAccounted(ghostRefs[i], i), UpdateNotified(i, n)
      PROVE  /\ GhostAccounted(ghostRefs[i], i)'
             /\ \A o : \A ack \in Nat : n <= ack /\ StillThere(ghostRefs[i], i, o, ack)
                                          => StillThere(ghostRefs[i], i, o, ack)'
  <2>1. ghostRefs'[i] = AfterDropped(i, n)
    BY <1>2, <1>8 DEF UpdateNotified, Mentions
  <2>2. GhostAccounted(ghostRefs[i], i)'
    BY <1>5, <1>8, <2>1, DroppedAccounted
  <2> QED BY <1>5, <1>8, <2>1, <2>2, StillDropped
<1> QED BY <1>1, <1>2, <1>3, <1>7, <1>8, NotifiedStep

-----------------------------------------------------------------------------
(* The greatest element of a bounded set, by well-foundedness of < on Nat. *)

LEMMA MaxOfBounded ==
  ASSUME NEW T \in SUBSET Nat, NEW m \in Nat, T # {}, \A t \in T : t <= m
  PROVE  Max(T) \in T /\ \A t \in T : t <= Max(T)
<1> DEFINE D == {n \in Nat : m - n \in T}
<1>1. D # {}
  <2>1. PICK t \in T : TRUE
    OBVIOUS
  <2>2. m - t \in D
    BY <2>1
  <2> QED BY <2>2
<1>2. PICK d \in D : \A e \in D : ~(<<e, d>> \in Less)
  BY <1>1, LessWellFounded, WFMin, Zenon
<1>3. \A t \in T : m - d >= t
  <2> TAKE t \in T
  <2>1. m - t \in D
    OBVIOUS
  <2>2. ~(m - t < d)
    BY <1>2, <2>1, LessPairs
  <2> QED BY <2>2
<1>4. \E s \in T : \A t \in T : s >= t
  BY <1>3
<1>5. Max(T) \in T /\ \A t \in T : Max(T) >= t
  BY <1>4 DEF Max
<1> QED BY <1>5

-----------------------------------------------------------------------------
(* The calls of ghosts to their parents.                                   *)

\* The client is in the last session only if it has processed all the RPCs.
LEMMA SessionOfClient ==
  ASSUME SessionTypeOK, RpcsInOrder
  PROVE  /\ ClientSession \in Nat /\ ClientSession <= ghostingSequence
         /\ ClientSession = ghostingSequence /\ rpcs # <<>> =>
              scoping /\ DOMAIN rpcs \subseteq rpcsRead
<1> DEFINE starts == {n \in ProcessedOf(rpcsRead) : rpcs[n] # EndGhosting}
           last == Max(starts)
<1>1. /\ DOMAIN rpcs = 1 .. Len(rpcs) /\ Len(rpcs) \in Nat /\ ghostingSequence = Len(rpcs)
      /\ rpcsRead \subseteq DOMAIN rpcs
      /\ \A n \in DOMAIN rpcs : rpcs[n] # EndGhosting => rpcs[n].sequence = n
      /\ scoping <=> (rpcs # <<>> /\ rpcs[Len(rpcs)] # EndGhosting)
      /\ rpcs # <<>> => Len(rpcs) > 0
  BY DEF SessionTypeOK, RpcsInOrder
<1>2. ClientSession = IF starts = {} THEN 0 ELSE rpcs[last].sequence
  BY DEF ClientSession
<1>3. \A n \in starts : /\ n \in rpcsRead /\ 1 .. n \subseteq rpcsRead
                        /\ n \in 1 .. Len(rpcs) /\ rpcs[n] # EndGhosting
  BY <1>1 DEF ProcessedOf
<1>4. CASE starts = {}
  BY <1>1, <1>2, <1>4
<1>5. CASE starts # {}
  <2>1. starts \in SUBSET Nat /\ \A n \in starts : n <= Len(rpcs)
    BY <1>1, <1>3
  <2>2. last \in starts
    <3> HIDE DEF starts
    <3> QED BY <1>1, <1>5, <2>1, MaxOfBounded
  <2> HIDE DEF starts, last
  <2>3. ClientSession = last /\ last \in 1 .. Len(rpcs) /\ 1 .. last \subseteq rpcsRead
        /\ rpcs[last] # EndGhosting
    BY <1>1, <1>2, <1>3, <1>5, <2>2
  <2>4. last \in Nat /\ last <= Len(rpcs) /\ Len(rpcs) \in Nat
    BY <1>1, <2>3
  <2>5. ASSUME last = Len(rpcs) PROVE scoping /\ DOMAIN rpcs \subseteq rpcsRead
    BY <1>1, <2>3, <2>5
  <2> QED BY <1>1, <2>3, <2>4, <2>5
<1> QED BY <1>4, <1>5

\* The ghosts of a client that is in the last session are those of the server.
LEMMA CallerThere ==
  ASSUME SessionIInv, NEW i \in Index, localGhosts[i] # NoGhost,
         ClientSession = ghostingSequence
  PROVE  ghosting /\ StillThere(ghostRefs[i], i, localGhosts[i].obj, floor)
<1>1. SessionTypeOK /\ RpcsInOrder /\ ServiceInv
  BY DEF SessionIInv
<1>2. ghosting
  <2> SUFFICES ASSUME ~ghosting PROVE FALSE
    OBVIOUS
  <2>1. BetweenSessions
    BY DEF SessionIInv
  <2>2. ~ClientCleared
    BY DEF ClientCleared
  <2>3. PICK n \in DOMAIN rpcs : EndAwaited(n)
    BY <2>1, <2>2 DEF BetweenSessions
  <2>4. rpcs # <<>> /\ n \notin rpcsRead
    BY <2>3 DEF EndAwaited
  <2> QED BY <1>1, <2>3, <2>4, SessionOfClient
<1>3. Stage(ghostRefs[i], i)
  BY <1>2 DEF SessionIInv, InSession, GhostAccounted
<1>4. localGhosts[i].obj \in Object
  BY SessionAgrees DEF ClientAgrees
<1> DEFINE g == ghostRefs[i]
           o == localGhosts[i].obj
<1>5. CASE Unused(g, i) \/ NotCreated(g, i)
  BY <1>5 DEF Unused, NotCreated
<1>6. CASE BeingCreated(g, i)
  <2>1. PICK k \in Mentions(i) : /\ Mentions(i) = {k} /\ wire[k][i].kind = "Ghosting"
                                 /\ KnownAs(g, wire[k][i].obj)
                                 /\ k \in read /\ localGhosts[i].obj = wire[k][i].obj
    BY <1>6 DEF BeingCreated
  <2>2. /\ g.obj \in {o, NoObject} /\ g.segment # "free" /\ "NotYetGhosted" \notin g.flags
    BY <1>6, <2>1 DEF BeingCreated, KnownAs
  <2> QED BY <1>2, <2>1, <2>2 DEF StillThere
<1>7. CASE Created(g, i)
  <2>1. /\ g.obj \in {o, NoObject} /\ g.segment # "free" /\ "NotYetGhosted" \notin g.flags
        /\ \A k \in Mentions(i) : wire[k][i].kind = "Update"
    BY <1>7 DEF Created, KnownAs
  <2> QED BY <1>2, <2>1 DEF StillThere
<1>8. CASE BeingKilled(g, i)
  <2>1. PICK k \in Mentions(i) : /\ wire[k][i].kind = "KillingGhost" /\ k \notin read
                                 /\ \A j \in Mentions(i) \ {k} : wire[j][i].kind = "Update"
    BY <1>8 DEF BeingKilled
  <2>2. /\ g.obj = NoObject /\ g.segment # "free" /\ "NotYetGhosted" \notin g.flags
    BY <1>8 DEF BeingKilled
  <2> QED BY <1>2, <2>1, <2>2 DEF StillThere
<1> QED BY <1>3, <1>5, <1>6, <1>7, <1>8 DEF Stage

\* Only the calls change.
LEMMA CallStep ==
  ASSUME SessionIInv, UNCHANGED vars,
         UNCHANGED <<ghosting, scoping, ghostingSequence, rpcVars>>,
         calls' \subseteq [index : Index, obj : Object, session : Nat, ack : Nat],
         misdirected' \subseteq Nat,
         \A call \in calls' \ calls :
           /\ call.session <= ghostingSequence /\ call.ack <= floor
           /\ call.session = ghostingSequence =>
                ghosting /\ StillThere(ghostRefs[call.index], call.index, call.obj, call.ack),
         \A session \in misdirected' \ misdirected : session < ghostingSequence
  PROVE  SessionIInv'
<1>1. /\ UNCHANGED serviceVars /\ UNCHANGED <<sent, notified, floor, read>>
      /\ UNCHANGED <<alive, value, scope, scopeObject, dirtyMaskBits>>
      /\ UNCHANGED <<ghostRefs, ghostList, wire, localGhosts>>
      /\ UNCHANGED <<ghosting, scoping, ghostingSequence>>
      /\ UNCHANGED <<rpcs, rpcQueue, rpcsIn, rpcsRead, ready>>
  BY DEF vars, ghostVars, objectVars, packetVars, serviceVars, rpcVars
<1>2. /\ SessionTypeOK /\ ServiceInv /\ GhostTypeOK /\ RpcsInOrder /\ RpcsApart
      /\ NotesRemembered /\ CallsUnderWay /\ MisdirectedFormer
  BY DEF SessionIInv, SessionTypeOK
<1>3. ServiceInv'
  BY <1>1, <1>2 DEF ServiceInv, serviceVars
<1>4. SessionTypeOK'
  <2>1. GhostTypeOK'
    BY <1>1, <1>2 DEF GhostTypeOK
  <2> QED BY <1>1, <1>2, <2>1 DEF SessionTypeOK
<1>5. Unread' = Unread /\ \A i : Mentions(i)' = Mentions(i) /\ Incoming(i)' = Incoming(i)
  BY <1>1 DEF Unread, Mentions, Incoming
<1>6. RpcsInOrder' /\ RpcsApart' /\ NotesRemembered'
  <2>1. RpcsInOrder'
    BY <1>1, <1>2 DEF RpcsInOrder, ProcessedOf
  <2>2. NotesRemembered'
    BY <1>1, <1>2, <1>5, NotesKept
  <2> QED BY <1>1, <1>2, <2>1, <2>2 DEF RpcsApart
<1>7. ASSUME ghosting PROVE InSession'
  <2>1. InSession
    BY <1>7 DEF SessionIInv
  <2>2. ASSUME NEW i \in Index PROVE GhostAccounted(ghostRefs[i], i)'
    <3> DEFINE g == ghostRefs[i]
    <3>1. PacketsKept(i) /\ GhostAccounted(g, i) /\ ghostRefs'[i] = g
      BY <1>1, <1>5, <2>1 DEF InSession, PacketsKept
    <3> HIDE DEF g
    <3> QED BY <3>1, AccountedKept
  <2> QED BY <1>1, <1>5, <2>1, <2>2 DEF InSession
<1>8. ASSUME ~ghosting PROVE BetweenSessions'
  <2>1. BetweenSessions
    BY <1>8 DEF SessionIInv
  <2>2. \A i \in Index : /\ Waiting(ghostRefs[i])'
                         /\ (~scoping => ghostRefs[i] = FreeGhost)'
    <3>1. ghostRefs' = ghostRefs /\ scoping' = scoping
      BY <1>1
    <3>2. \A i \in Index : /\ Waiting(ghostRefs[i])
                           /\ ~scoping => ghostRefs[i] = FreeGhost
      BY <2>1 DEF BetweenSessions
    <3>3. ASSUME NEW i \in Index PROVE Waiting(ghostRefs[i])'
      BY <3>1, <3>2, WaitingKept
    <3>4. ASSUME NEW i \in Index, ~scoping' PROVE ghostRefs'[i] = FreeGhost
      <4>1. ghostRefs[i] = FreeGhost
        BY <3>1, <3>2, <3>4
      <4> QED BY <3>1, <4>1
    <3> QED BY <3>3, <3>4 DEF FreeGhost
  <2>3. ASSUME NEW i \in Index PROVE ClientAgrees(i)'
    <3>1. ClientAgrees(i) /\ Incoming(i)' \subseteq Incoming(i)
      BY <1>5, <2>1 DEF BetweenSessions
    <3>2. wire' = wire /\ localGhosts' = localGhosts
      BY <1>1
    <3> QED BY <3>1, <3>2, AgreesKept
  <2>4. ClientCleared => ClientCleared'
    BY <1>1, <1>5 DEF ClientCleared
  <2>5. \A m : EndAwaited(m) => EndAwaited(m)'
    BY <1>1, <1>5 DEF EndAwaited
  <2> QED BY <1>1, <2>1, <2>2, <2>3, <2>4, <2>5 DEF BetweenSessions
<1>9. CallsUnderWay'
  <2>1. \A i : \A o : \A ack : StillThere(ghostRefs[i], i, o, ack)
                                 => StillThere(ghostRefs[i], i, o, ack)'
    BY <1>1, <1>5 DEF StillThere
  <2> SUFFICES ASSUME NEW call \in calls'
               PROVE  /\ call.session <= ghostingSequence /\ call.ack <= floor
                      /\ call.session = ghostingSequence =>
                           /\ ghosting
                           /\ call.ack >= notified =>
                                StillThere(ghostRefs[call.index], call.index, call.obj,
                                           call.ack)'
    BY <1>1 DEF CallsUnderWay
  <2>2. CASE call \in calls
    BY <1>2, <2>1, <2>2 DEF CallsUnderWay
  <2>3. CASE call \notin calls
    BY <2>1, <2>3
  <2> QED BY <2>2, <2>3
<1>10. MisdirectedFormer'
  BY <1>1, <1>2 DEF MisdirectedFormer
<1> QED BY <1>1, <1>3, <1>4, <1>6, <1>7, <1>8, <1>9, <1>10 DEF SessionIInv

LEMMA CallParentIInv ==
  ASSUME SessionIInv, NEW i \in Index, CallParent(i) PROVE SessionIInv'
<1> DEFINE new == [index |-> i, obj |-> localGhosts[i].obj,
                   session |-> ClientSession, ack |-> floor]
<1>1. /\ localGhosts[i] # NoGhost /\ calls' = calls \cup {new}
      /\ UNCHANGED vars /\ UNCHANGED <<ghosting, scoping, ghostingSequence, rpcVars>>
      /\ misdirected' = misdirected
  BY DEF CallParent
<1>2. SessionTypeOK /\ RpcsInOrder /\ ServiceInv
  BY DEF SessionIInv
<1>3. localGhosts[i].obj \in Object
  BY <1>1, SessionAgrees DEF ClientAgrees
<1>4. ClientSession \in Nat /\ ClientSession <= ghostingSequence /\ floor \in Nat
  BY <1>2, SessionOfClient DEF ServiceInv
<1>5. /\ new \in [index : Index, obj : Object, session : Nat, ack : Nat]
      /\ new.index = i /\ new.obj = localGhosts[i].obj /\ new.session = ClientSession
      /\ new.ack = floor
  BY <1>3, <1>4
<1> HIDE DEF new
<1>6. /\ calls' \subseteq [index : Index, obj : Object, session : Nat, ack : Nat]
      /\ misdirected' \subseteq Nat
  BY <1>1, <1>2, <1>5 DEF SessionTypeOK
<1>7. new.session = ghostingSequence =>
        ghosting /\ StillThere(ghostRefs[i], i, new.obj, new.ack)
  BY <1>1, <1>5, CallerThere
<1>8. \A call \in calls' \ calls :
        /\ call.session <= ghostingSequence /\ call.ack <= floor
        /\ call.session = ghostingSequence =>
             ghosting /\ StillThere(ghostRefs[call.index], call.index, call.obj, call.ack)
  BY <1>1, <1>4, <1>5, <1>7
<1> QED BY <1>1, <1>6, <1>8, CallStep

LEMMA ParentCalledIInv ==
  ASSUME SessionIInv, NEW call \in calls, ParentCalled(call) PROVE SessionIInv'
<1>1. /\ call.ack = notified /\ calls' = calls \ {call}
      /\ UNCHANGED vars /\ UNCHANGED <<ghosting, scoping, ghostingSequence, rpcVars>>
      /\ misdirected' \subseteq misdirected \cup {call.session}
      /\ ParentOf(call) \in {call.obj, NoObject} => misdirected' = misdirected
  BY DEF ParentCalled
<1>2. SessionTypeOK /\ CallsUnderWay /\ ServiceInv
  BY DEF SessionIInv
<1>3. /\ call \in [index : Index, obj : Object, session : Nat, ack : Nat]
      /\ ghostingSequence \in Nat /\ notified \in Nat
  BY <1>2 DEF SessionTypeOK, ServiceInv
<1>4. call.session = ghostingSequence => ParentOf(call) \in {call.obj, NoObject}
  BY <1>1, <1>2, <1>3 DEF CallsUnderWay, StillThere, ParentOf
<1>5. \A other \in misdirected' \ misdirected : other < ghostingSequence
  BY <1>1, <1>2, <1>3, <1>4 DEF CallsUnderWay
<1>6. /\ calls' \subseteq [index : Index, obj : Object, session : Nat, ack : Nat]
      /\ misdirected' \subseteq Nat
  BY <1>1, <1>2, <1>3 DEF SessionTypeOK
<1> QED BY <1>1, <1>5, <1>6, CallStep

-----------------------------------------------------------------------------
(* The invariant and what follows from it.                                 *)

LEMMA SessionNextIInv ==
  ASSUME Faithful, SessionIInv, [SessionNext]_allVars PROVE SessionIInv'
<1>1. CASE \E k \in (floor + 1) .. sent : ReadSessionPacket(k) \/ SessionPacketLost(k)
  BY <1>1, ReadSessionPacketIInv, SessionPacketLostIInv DEF Unread
<1>2. CASE SessionPacketReceived \/ SessionPacketDropped
  BY <1>2, SessionPacketReceivedIInv, SessionPacketDroppedIInv
<1>3. CASE (\E i \in Index : CallParent(i)) \/ \E call \in calls : ParentCalled(call)
  BY <1>3, CallParentIInv, ParentCalledIInv
<1>4. CASE WriteWithoutGhosts \/ WriteGhosts
  BY <1>4, WriteWithoutGhostsIInv, WriteGhostsIInv
<1>5. CASE ActivateGhosting \/ ResetGhosting \/ ReadyForNormalGhosts
  BY <1>5, ActivateGhostingIInv, ResetGhostingIInv, ReadyForNormalGhostsIInv
<1>6. CASE ObjectsChange \/ Tick
  BY <1>6, ObjectsChangeIInv, TickSessionIInv
<1>7. CASE UNCHANGED allVars
  <2>1. UNCHANGED vars /\ UNCHANGED <<ghosting, scoping, ghostingSequence, rpcVars>>
        /\ calls' = calls /\ misdirected' = misdirected
    BY <1>7 DEF allVars, sessionVars, callVars
  <2>2. SessionTypeOK
    BY DEF SessionIInv
  <2>3. /\ calls' \subseteq [index : Index, obj : Object, session : Nat, ack : Nat]
        /\ misdirected' \subseteq Nat
    BY <2>1, <2>2 DEF SessionTypeOK
  <2> QED BY <2>1, <2>3, CallStep
<1> QED BY <1>1, <1>2, <1>3, <1>4, <1>5, <1>6, <1>7 DEF SessionNext

\* In a session the ghosts of both ends are accounted for as in GhostConnection;
\* between sessions the client has none, or is still to end the former one.
THEOREM SessionInvariant == Faithful => (SessionSpec => []SessionIInv)
<1> SUFFICES ASSUME Faithful PROVE SessionSpec => []SessionIInv
  OBVIOUS
<1>1. SessionIInv /\ [SessionNext]_allVars => SessionIInv'
  BY SessionNextIInv
<1> QED BY <1>1, SessionInitIInv, PTL DEF SessionSpec

\* Server and client agree on what the ghost ids in the packets stand for across
\* the ends and starts of sessions (activateGhosting, resetGhosting).
THEOREM SessionIdsHold == Faithful => (SessionSpec => []GhostIdsAgree)
<1> SUFFICES ASSUME Faithful PROVE SessionSpec => []GhostIdsAgree
  OBVIOUS
<1>1. SessionIInv => GhostIdsAgree
  <2> SUFFICES ASSUME SessionIInv PROVE GhostIdsAgree
    OBVIOUS
  <2>1. \A i \in Index : ClientAgrees(i)
    BY SessionAgrees
  <2>2. \A k \in Unread : DOMAIN wire[k] \subseteq Index
    BY DEF SessionIInv, NotesRemembered
  <2> QED BY <2>1, <2>2, AgreedIds
<1>2. SessionSpec => []SessionIInv
  BY SessionInvariant
<1> QED BY <1>1, <1>2, PTL

\* The client has every ghost whose id getGhostIndex gives out, in any session.
THEOREM SessionGhostsThere == Faithful => (SessionSpec => []AvailableIsThere)
<1> SUFFICES ASSUME Faithful PROVE SessionSpec => []AvailableIsThere
  OBVIOUS
<1>1. SessionIInv => AvailableIsThere
  <2> SUFFICES ASSUME SessionIInv, NEW i \in Index, ghostRefs[i].obj # NoObject,
                      ghostRefs[i].flags = {}
               PROVE  localGhosts[i].obj = ghostRefs[i].obj
    BY DEF AvailableIsThere
  <2>1. CASE ghosting
    <3>1. Stage(ghostRefs[i], i)
      BY <2>1 DEF SessionIInv, InSession, GhostAccounted
    <3>2. Created(ghostRefs[i], i)
      BY <3>1 DEF Stage, Unused, FreeGhost, NotCreated, BeingCreated, BeingKilled
    <3> QED BY <3>2 DEF Created, KnownAs
  <2>2. CASE ~ghosting
    BY <2>2 DEF SessionIInv, BetweenSessions, Waiting, FreeGhost
  <2> QED BY <2>1, <2>2
<1>2. SessionSpec => []SessionIInv
  BY SessionInvariant
<1> QED BY <1>1, <1>2, PTL

\* The state of both ends is well formed, and a packet under way says nothing of
\* ghosts that are not in the list of the server (clearGhostInfo).
THEOREM SessionStateHolds == Faithful => (SessionSpec => []SessionStateOK)
<1> SUFFICES ASSUME Faithful PROVE SessionSpec => []SessionStateOK
  OBVIOUS
<1>1. SessionIInv => SessionStateOK
  <2> SUFFICES ASSUME SessionIInv, NEW i \in Index, NEW k \in DOMAIN ghostList,
                      i \in DOMAIN ghostList[k]
               PROVE  /\ ghostRefs[i].segment # "free"
                      /\ i \in DOMAIN wire[k]
                      /\ wire[k][i].kind = ghostList[k][i].ghostInfoFlags
                      /\ wire[k][i].kind # "KillingGhost" =>
                           ghostRefs[i].obj \in {wire[k][i].obj, NoObject}
    BY DEF SessionIInv, SessionStateOK, NotesOfSession
  <2>1. ghosting
    BY DEF SessionIInv, BetweenSessions
  <2>2. GhostAccounted(ghostRefs[i], i) /\ k \in Mentions(i)
    BY <2>1 DEF SessionIInv, InSession, Mentions
  <2>3. /\ i \in DOMAIN wire[k] /\ Remembers(ghostList[k][i], wire[k][i])
    BY DEF SessionIInv, NotesRemembered
  <2>4. /\ ghostRefs[i].segment # "free"
        /\ wire[k][i].kind # "KillingGhost" => ghostRefs[i].obj \in {wire[k][i].obj, NoObject}
    BY <2>2 DEF GhostAccounted, Stage, Unused, NotCreated, BeingCreated, Created,
                BeingKilled, KnownAs
  <2> QED BY <2>3, <2>4 DEF Remembers
<1>2. SessionSpec => []SessionIInv
  BY SessionInvariant
<1> QED BY <1>1, <1>2, PTL

\* A call that a ghost makes in a session that has not ended reaches the object of
\* the ghost, or none (resolveGhostParent).
THEOREM CallsFindParent == Faithful => (SessionSpec => []CallsReachParent)
<1> SUFFICES ASSUME Faithful PROVE SessionSpec => []CallsReachParent
  OBVIOUS
<1>1. SessionIInv => CallsReachParent
  BY DEF SessionIInv, SessionTypeOK, MisdirectedFormer, CallsReachParent
<1>2. SessionSpec => []SessionIInv
  BY SessionInvariant
<1> QED BY <1>1, <1>2, PTL
=============================================================================
