------------------------- MODULE NetInterfaceProofs -------------------------
(***************************************************************************)
(* Proofs about NetInterface for every set of hosts, every limit of the    *)
(* retries and any number of attempts and of puzzles.                      *)
(***************************************************************************)
EXTENDS NetInterface, TLAPS

-----------------------------------------------------------------------------
LEMMA ConstantTypes ==
  /\ MaxRefreshes \in Nat /\ MaxAttempts \in Nat
  /\ ChallengeRetryCount \in Nat /\ ConnectRetryCount \in Nat
BY Zenon, InterfaceAssumption

\* What the proofs below use of the types of the state.
LEMMA TypesOfIInv ==
  ASSUME IInv
  PROVE  /\ fresh \in Nat /\ attempts \in 0 .. MaxAttempts
         /\ pending \in [Host -> SUBSET PendingSet]
         /\ connections \in [Host -> SUBSET ConnectionSet]
         /\ \A h \in Host : \A c \in pending[h] :
              /\ c \in PendingSet
              /\ c.id \in Nat /\ c.nonce \in Nat /\ c.id <= fresh /\ c.nonce <= fresh
              /\ c.address \in Host /\ c.address # h
         /\ \A m \in network :
              /\ m.nonce \in Nat /\ m.nonce <= fresh
              /\ m.from \in Host /\ m.to \in Host /\ m.from # m.to
<1>1. fresh \in Nat /\ attempts \in 0 .. MaxAttempts
  BY DEF IInv, InterfaceTypeOK
<1>2. /\ pending \in [Host -> SUBSET PendingSet]
      /\ connections \in [Host -> SUBSET ConnectionSet]
  BY DEF IInv, Shapes
<1>3. \A h \in Host : \A c \in pending[h] :
        /\ c \in PendingSet
        /\ c.id \in Nat /\ c.nonce \in Nat /\ c.id <= fresh /\ c.nonce <= fresh
        /\ c.address \in Host /\ c.address # h
  BY <1>1, <1>2 DEF IInv, InterfaceTypeOK, Number
<1>4. \A m \in network : /\ m.nonce \in Nat /\ m.nonce <= fresh
                         /\ m.from \in Host /\ m.to \in Host /\ m.from # m.to
  BY <1>1 DEF IInv, PacketsDrawn, Number
<1> QED BY <1>1, <1>2, <1>3, <1>4

LEMMA InitIInv == Init => IInv
<1> SUFFICES ASSUME Init PROVE IInv
  OBVIOUS
<1> USE DEF Init
<1>1. InterfaceTypeOK
  BY ConstantTypes DEF InterfaceTypeOK, Number
<1>2. Shapes
  BY DEF Shapes
<1>3. PuzzlesInForce
  BY ConstantTypes DEF PuzzlesInForce, NonceRange
<1>4. /\ PacketsDrawn /\ AttemptsApart /\ OneRequestPerNonce /\ RequestsOfAttempts
      /\ AcceptedRequested /\ AcceptsAccepted /\ AtMostOnce /\ ConnectionsAgree
      /\ ToldOnce
  BY DEF PacketsDrawn, AttemptsApart, OneRequestPerNonce, RequestsOfAttempts,
         AcceptedRequested, AcceptsAccepted, AtMostOnce, ConnectionsAgree, ToldOnce
<1> QED BY <1>1, <1>2, <1>3, <1>4 DEF IInv

-----------------------------------------------------------------------------
(* Four kinds of steps that several handlers take. *)

\* The tables of the puzzles in force only grow.
TablesGrow ==
    /\ puzzle' \in [Host -> [currentNonce : Nat, lastNonce : Nat,
                             currentTable : SUBSET Nat, lastTable : SUBSET Nat]]
    /\ \A h \in Host :
         /\ puzzle'[h].currentNonce = puzzle[h].currentNonce
         /\ puzzle'[h].lastNonce = puzzle[h].lastNonce
         /\ puzzle[h].currentTable \subseteq puzzle'[h].currentTable
         /\ puzzle[h].lastTable \subseteq puzzle'[h].lastTable

LEMMA SameTables == ASSUME IInv, UNCHANGED puzzle PROVE TablesGrow
BY DEF IInv, Shapes, TablesGrow

\* Packets other than requests are sent, and connections are closed.
LEMMA AnsweredIInv ==
  ASSUME IInv, NEW S, network' = network \cup S,
         connections' \in [Host -> SUBSET ConnectionSet],
         \A h \in Host : connections'[h] \subseteq connections[h],
         TablesGrow, UNCHANGED <<pending, fresh, accepted, told, attempts>>,
         \A m \in S :
            /\ m.from \in Host /\ m.to \in Host /\ m.from # m.to
            /\ m.nonce \in Number
            /\ m.type \notin {"ConnectRequest", "ConnectChallengeRequest"}
            /\ m.serverNonce \in NonceRange
            /\ m.type = "ConnectAccept"
               => /\ m.value \in Number
                  /\ \E x \in accepted :
                        /\ x.host = m.from /\ x.connection.address = m.to
                        /\ SameNonces(x.connection, m) /\ x.connection.id = m.value
  PROVE  IInv'
<1>1. InterfaceTypeOK'
  <2>1. /\ fresh' \in Nat /\ attempts' \in 0 .. MaxAttempts
        /\ DOMAIN told' \subseteq Number'
        /\ \A id \in DOMAIN told' : told'[id] \in Seq({"Established", "ConnectTerminated"})
    BY DEF IInv, InterfaceTypeOK, Number
  <2>2. \A h \in Host : connections'[h] \subseteq
          [id : Number', address : Host \ {h}, nonce : Number',
           serverNonce : 1 .. (2 + MaxRefreshes), recvSequence : Number']
    BY DEF IInv, InterfaceTypeOK, Number
  <2>3. \A h \in Host : \A c \in pending'[h] :
          /\ c.id \in Number' /\ c.nonce \in Number'
          /\ c.address \in Host \ {h}
          /\ c.state \in {"AwaitingChallengeResponse", "ComputingPuzzleSolution",
                          "AwaitingConnectResponse"}
          /\ c.sendCount \in 0 .. (RetryCount(c) + 1)
    BY DEF IInv, InterfaceTypeOK, Number
  <2> QED BY <2>1, <2>2, <2>3 DEF InterfaceTypeOK
<1>2. Shapes' /\ PuzzlesInForce'
  BY DEF IInv, Shapes, PuzzlesInForce, TablesGrow
<1>3. PacketsDrawn'
  BY DEF IInv, PacketsDrawn, Number
<1>4. AttemptsApart' /\ ToldOnce' /\ AtMostOnce'
  BY DEF IInv, AttemptsApart, ToldOnce, AtMostOnce
<1>5. OneRequestPerNonce'
  BY DEF IInv, OneRequestPerNonce
<1>6. RequestsOfAttempts'
  BY DEF IInv, RequestsOfAttempts
<1>7. AcceptedRequested'
  <2>1. \A x \in accepted : x.host \in Host
    BY DEF IInv, Shapes
  <2> QED BY <2>1 DEF IInv, AcceptedRequested, TablesGrow
<1>8. AcceptsAccepted'
  BY DEF IInv, AcceptsAccepted
<1>9. ConnectionsAgree'
  BY DEF IInv, ConnectionsAgree
<1> QED BY <1>1, <1>2, <1>3, <1>4, <1>5, <1>6, <1>7, <1>8, <1>9 DEF IInv

\* What is told to the application is told of an attempt that was not told before.
LEMMA TellOnce ==
  ASSUME IInv, NEW c, c.id \in Nat, c.id \notin DOMAIN told,
         NEW what \in {"Established", "ConnectTerminated"}, told' = Tell(c, what)
  PROVE  /\ DOMAIN told' = DOMAIN told \cup {c.id}
         /\ \A id \in DOMAIN told' :
              /\ told'[id] \in Seq({"Established", "ConnectTerminated"})
              /\ Len(told'[id]) = 1
<1>1. /\ DOMAIN told' = DOMAIN told \cup {c.id}
      /\ \A id \in DOMAIN told : told'[id] = told[id]
      /\ told'[c.id] = Append(<<>>, what)
  BY DEF Tell, ToldOf
<1>2. /\ \A id \in DOMAIN told : told[id] \in Seq({"Established", "ConnectTerminated"})
      /\ \A id \in DOMAIN told : Len(told[id]) = 1
  BY DEF IInv, InterfaceTypeOK, ToldOnce
<1>3. Append(<<>>, what) = <<what>>
  OBVIOUS
<1>4. <<what>> \in Seq({"Established", "ConnectTerminated"}) /\ Len(<<what>>) = 1
  OBVIOUS
<1> QED BY <1>1, <1>2, <1>3, <1>4

\* A connection is not pending any more: given up or established.
LEMMA EndedIInv ==
  ASSUME IInv, NEW h \in Host, NEW c \in pending[h], pending' = Removed(h, c),
         NEW what \in {"Established", "ConnectTerminated"},
         told' = Tell(c, what) \/ UNCHANGED told,
         connections' \in [Host -> SUBSET ConnectionSet],
         \A g \in Host : \A d \in connections'[g] :
            \/ d \in connections[g]
            \/ /\ d.id \in Number /\ d.address \in Host \ {g} /\ d.nonce \in Number
               /\ d.serverNonce \in NonceRange /\ d.recvSequence \in Number
               /\ \E x \in accepted : AcceptedBy(g, d, x),
         UNCHANGED <<puzzle, network, fresh, accepted, attempts>>
  PROVE  IInv'
<1>1. /\ \A g \in Host : pending'[g] \subseteq pending[g]
      /\ c \notin pending'[h]
      /\ pending' \in [Host -> SUBSET PendingSet]
  BY TypesOfIInv DEF Removed
<1>2. c.id \in Nat /\ c.id <= fresh /\ c.id \notin DOMAIN told
  BY TypesOfIInv DEF IInv, ToldOnce
<1>3. /\ DOMAIN told' \subseteq DOMAIN told \cup {c.id}
      /\ \A id \in DOMAIN told' : told'[id] \in Seq({"Established", "ConnectTerminated"})
      /\ \A id \in DOMAIN told' : Len(told'[id]) = 1
  <2>1. CASE told' = Tell(c, what)
    BY <1>2, <2>1, TellOnce
  <2>2. CASE UNCHANGED told
    BY <2>2 DEF IInv, InterfaceTypeOK, ToldOnce
  <2> QED BY <2>1, <2>2
<1>4. InterfaceTypeOK'
  <2>1. fresh' \in Nat /\ attempts' \in 0 .. MaxAttempts /\ DOMAIN told' \subseteq Number'
    BY <1>2, <1>3 DEF IInv, InterfaceTypeOK, Number
  <2>2. \A g \in Host : connections'[g] \subseteq
          [id : Number', address : Host \ {g}, nonce : Number',
           serverNonce : 1 .. (2 + MaxRefreshes), recvSequence : Number']
    BY DEF IInv, InterfaceTypeOK, Number, ConnectionSet, NonceRange
  <2>3. \A g \in Host : \A d \in pending'[g] :
          /\ d.id \in Number' /\ d.nonce \in Number'
          /\ d.address \in Host \ {g}
          /\ d.state \in {"AwaitingChallengeResponse", "ComputingPuzzleSolution",
                          "AwaitingConnectResponse"}
          /\ d.sendCount \in 0 .. (RetryCount(d) + 1)
    BY <1>1 DEF IInv, InterfaceTypeOK, Number
  <2> QED BY <1>3, <2>1, <2>2, <2>3 DEF InterfaceTypeOK
<1>5. Shapes' /\ PuzzlesInForce' /\ PacketsDrawn'
  BY <1>1, <1>2, <1>3 DEF IInv, Shapes, PuzzlesInForce, PacketsDrawn, Number
<1>6. AttemptsApart'
  BY <1>1 DEF IInv, AttemptsApart
<1>7. RequestsOfAttempts'
  BY <1>1 DEF IInv, RequestsOfAttempts
<1>8. OneRequestPerNonce' /\ AcceptedRequested' /\ AcceptsAccepted' /\ AtMostOnce'
  BY DEF IInv, OneRequestPerNonce, AcceptedRequested, AcceptsAccepted, AtMostOnce
<1>9. ConnectionsAgree'
  BY DEF IInv, ConnectionsAgree
<1>10. ToldOnce'
  <2>1. ASSUME NEW g \in Host, NEW d \in pending'[g]
        PROVE  d.id \notin DOMAIN told'
    BY <1>1, <1>3, <2>1 DEF IInv, ToldOnce, AttemptsApart
  <2> QED BY <1>3, <2>1 DEF ToldOnce
<1> QED BY <1>4, <1>5, <1>6, <1>7, <1>8, <1>9, <1>10 DEF IInv

\* A pending connection is given up, and the application is told.
LEMMA TerminatedIInv ==
  ASSUME IInv, NEW h \in Host, NEW c \in pending[h],
         pending' = Removed(h, c), told' = Tell(c, "ConnectTerminated"),
         UNCHANGED <<connections, puzzle, network, fresh, accepted, attempts>>
  PROVE  IInv'
<1>1. /\ connections' \in [Host -> SUBSET ConnectionSet]
      /\ \A g \in Host : \A d \in connections'[g] : d \in connections[g]
  BY TypesOfIInv
<1> QED BY <1>1, EndedIInv

\* A pending connection goes on under its number and its nonce.
LEMMA AdvancedIInv ==
  ASSUME IInv, NEW h \in Host, NEW c \in pending[h], NEW e \in PendingSet, NEW S,
         pending' = [pending EXCEPT ![h] = (@ \ {c}) \cup {e}],
         network' = network \cup S,
         e.id = c.id, e.nonce = c.nonce, e.address = c.address,
         e.sendCount \in 0 .. (RetryCount(e) + 1),
         e.state # "AwaitingChallengeResponse" => e.serverNonce \in NonceRange,
         c.state = "AwaitingConnectResponse"
           => e.state = c.state /\ e.serverNonce = c.serverNonce,
         \A m \in S :
            /\ m.from = h /\ m.to = c.address /\ m.nonce = c.nonce
            /\ \/ m.type = "ConnectChallengeRequest"
               \/ /\ m.type = "ConnectRequest" /\ e.state = "AwaitingConnectResponse"
                  /\ m.serverNonce = e.serverNonce /\ m.value = e.id,
         UNCHANGED <<connections, puzzle, fresh, accepted, told, attempts>>
  PROVE  IInv'
<1>1. /\ \A g \in Host : \A d \in pending'[g] :
           (d \in pending[g] /\ (g = h => d # c)) \/ (g = h /\ d = e)
      /\ pending' \in [Host -> SUBSET PendingSet]
  BY TypesOfIInv
<1>2. /\ c.id \in Number /\ c.nonce \in Number /\ c.address \in Host /\ c.address # h
      /\ c.id \notin DOMAIN told
  BY TypesOfIInv DEF Number, IInv, ToldOnce
<1>3. InterfaceTypeOK'
  <2>1. /\ fresh' \in Nat /\ attempts' \in 0 .. MaxAttempts
        /\ DOMAIN told' \subseteq Number'
        /\ \A id \in DOMAIN told' : told'[id] \in Seq({"Established", "ConnectTerminated"})
    BY DEF IInv, InterfaceTypeOK, Number
  <2>2. \A g \in Host : connections'[g] \subseteq
          [id : Number', address : Host \ {g}, nonce : Number',
           serverNonce : 1 .. (2 + MaxRefreshes), recvSequence : Number']
    BY DEF IInv, InterfaceTypeOK, Number
  <2>3. \A g \in Host : \A d \in pending'[g] :
          /\ d.id \in Number' /\ d.nonce \in Number'
          /\ d.address \in Host \ {g}
          /\ d.state \in {"AwaitingChallengeResponse", "ComputingPuzzleSolution",
                          "AwaitingConnectResponse"}
          /\ d.sendCount \in 0 .. (RetryCount(d) + 1)
    BY <1>1, <1>2 DEF IInv, InterfaceTypeOK, Number, PendingSet
  <2> QED BY <2>1, <2>2, <2>3 DEF InterfaceTypeOK
<1>4. Shapes' /\ PuzzlesInForce'
  BY <1>1 DEF IInv, Shapes, PuzzlesInForce
<1>5. c.state = "AwaitingConnectResponse" => c.serverNonce \in NonceRange
  BY DEF IInv, RequestsOfAttempts
<1>6. PacketsDrawn'
  BY <1>2, <1>5 DEF IInv, PacketsDrawn, Number
<1>7. AttemptsApart'
  BY <1>1 DEF IInv, AttemptsApart
<1>8. \A m \in network : m.type = "ConnectRequest" /\ m.nonce = c.nonce
        => /\ c.state = "AwaitingConnectResponse"
           /\ m.from = h /\ m.to = c.address
           /\ m.serverNonce = c.serverNonce /\ m.value = c.id
  BY DEF IInv, RequestsOfAttempts
<1>9. OneRequestPerNonce'
  BY <1>8 DEF IInv, OneRequestPerNonce
<1>10. RequestsOfAttempts'
  <2> SUFFICES ASSUME NEW g \in Host, NEW d \in pending'[g]
               PROVE  /\ d.state # "AwaitingChallengeResponse"
                           => d.serverNonce \in NonceRange
                      /\ \A m \in network' :
                           m.type = "ConnectRequest" /\ m.nonce = d.nonce
                           => /\ d.state = "AwaitingConnectResponse"
                              /\ m.from = g /\ m.to = d.address
                              /\ m.serverNonce = d.serverNonce /\ m.value = d.id
    BY DEF RequestsOfAttempts
  <2>1. CASE g = h /\ d = e
    BY <1>8, <2>1
  <2>2. CASE d \in pending[g] /\ (g = h => d # c)
    BY <2>2 DEF IInv, RequestsOfAttempts, AttemptsApart
  <2> QED BY <1>1, <2>1, <2>2
<1>11. AcceptedRequested' /\ AcceptsAccepted'
  BY DEF IInv, AcceptedRequested, AcceptsAccepted
<1>12. AtMostOnce' /\ ConnectionsAgree'
  BY DEF IInv, AtMostOnce, ConnectionsAgree
<1>13. ToldOnce'
  BY <1>1, <1>2 DEF IInv, ToldOnce
<1> QED BY <1>3, <1>4, <1>6, <1>7, <1>9, <1>10, <1>11, <1>12, <1>13 DEF IInv

\* A connection is pending under a nonce just drawn: a new attempt, or one that
\* tries another puzzle.
LEMMA RenewedIInv ==
  ASSUME IInv, NEW h \in Host, NEW e \in PendingSet, NEW gone \in SUBSET pending[h], NEW S,
         pending' = [pending EXCEPT ![h] = (@ \ gone) \cup {e}],
         network' = network \cup S, fresh' = fresh + 1,
         connections' \in [Host -> SUBSET ConnectionSet],
         \A g \in Host : connections'[g] \subseteq connections[g],
         attempts' \in 0 .. MaxAttempts,
         \/ e.id = fresh + 1
         \/ \E c \in gone : e.id = c.id,
         e.nonce = fresh + 1, e.address \in Host, e.address # h,
         e.state = "AwaitingChallengeResponse", e.sendCount = 1,
         \A m \in S :
            /\ m.from = h /\ m.to = e.address
            /\ \/ m.type = "ConnectChallengeRequest" /\ m.nonce = e.nonce
               \/ /\ m.type = "Disconnect" /\ m.nonce \in Number
                  /\ m.serverNonce \in NonceRange,
         UNCHANGED <<puzzle, accepted, told>>
  PROVE  IInv'
<1>1. /\ \A g \in Host : \A d \in pending'[g] :
           (d \in pending[g] /\ (g = h => d \notin gone)) \/ (g = h /\ d = e)
      /\ pending' \in [Host -> SUBSET PendingSet]
  BY TypesOfIInv
<1>2. /\ fresh \in Nat /\ fresh' \in Nat /\ attempts' \in Nat
      /\ e.id \in Number' /\ e.nonce \in Number' /\ e.id \notin DOMAIN told
  BY TypesOfIInv, ConstantTypes DEF Number, IInv, ToldOnce, InterfaceTypeOK
<1>3. \A n \in Number : n \in Number' /\ n # fresh + 1
  BY <1>2 DEF Number
<1>4. InterfaceTypeOK'
  <2>1. /\ fresh' \in Nat /\ attempts' \in 0 .. MaxAttempts
        /\ DOMAIN told' \subseteq Number'
        /\ \A id \in DOMAIN told' : told'[id] \in Seq({"Established", "ConnectTerminated"})
    BY <1>2, <1>3 DEF IInv, InterfaceTypeOK
  <2>2. \A g \in Host : connections'[g] \subseteq
          [id : Number', address : Host \ {g}, nonce : Number',
           serverNonce : 1 .. (2 + MaxRefreshes), recvSequence : Number']
    BY <1>3 DEF IInv, InterfaceTypeOK
  <2>3. \A g \in Host : \A d \in pending'[g] :
          /\ d.id \in Number' /\ d.nonce \in Number'
          /\ d.address \in Host \ {g}
          /\ d.state \in {"AwaitingChallengeResponse", "ComputingPuzzleSolution",
                          "AwaitingConnectResponse"}
          /\ d.sendCount \in 0 .. (RetryCount(d) + 1)
    <3>1. e.sendCount \in 0 .. (RetryCount(e) + 1)
      BY ConstantTypes DEF RetryCount
    <3> QED BY <1>1, <1>2, <1>3, <3>1 DEF IInv, InterfaceTypeOK
  <2> QED BY <2>1, <2>2, <2>3 DEF InterfaceTypeOK
<1>5. Shapes' /\ PuzzlesInForce'
  BY <1>1, <1>2 DEF IInv, Shapes, PuzzlesInForce
<1>6. PacketsDrawn'
  BY <1>2, <1>3 DEF IInv, PacketsDrawn
<1>7. AttemptsApart'
  <2>1. ASSUME NEW g \in Host, NEW d \in pending[g], g = h => d \notin gone
        PROVE  d.id # e.id /\ d.nonce # e.nonce
    BY <2>1, <1>2, TypesOfIInv DEF IInv, AttemptsApart
  <2> QED BY <1>1, <2>1 DEF IInv, AttemptsApart
<1>8. OneRequestPerNonce'
  BY DEF IInv, OneRequestPerNonce
<1>9. \A m \in network' : m.type = "ConnectRequest" => m \in network /\ m.nonce # e.nonce
  BY <1>3 DEF IInv, PacketsDrawn
<1>10. RequestsOfAttempts'
  BY <1>1, <1>9 DEF IInv, RequestsOfAttempts
<1>11. AcceptedRequested' /\ AcceptsAccepted'
  BY DEF IInv, AcceptedRequested, AcceptsAccepted
<1>12. AtMostOnce' /\ ConnectionsAgree'
  BY DEF IInv, AtMostOnce, ConnectionsAgree
<1>13. ToldOnce'
  BY <1>1, <1>2 DEF IInv, ToldOnce
<1> QED BY <1>4, <1>5, <1>6, <1>7, <1>8, <1>10, <1>11, <1>12, <1>13 DEF IInv

-----------------------------------------------------------------------------
(* The handlers. *)

\* A connection that disconnects has a nonce that was drawn.
LEMMA DisconnectsDrawn ==
  ASSUME IInv, NEW h \in Host, NEW closed \in SUBSET connections[h],
         NEW m \in Disconnects(h, closed)
  PROVE  /\ m.type = "Disconnect" /\ m.from = h /\ m.to \in Host /\ m.to # h
         /\ m.nonce \in Number /\ m.serverNonce \in NonceRange
         /\ \E c \in closed : m.to = c.address
<1>1. PICK c \in closed : m = Packet("Disconnect", h, c.address, c, 0)
  BY DEF Disconnects
<1>2. /\ c.address \in Host \ {h} /\ c.nonce \in Number
      /\ c.serverNonce \in 1 .. (2 + MaxRefreshes)
  BY DEF IInv, InterfaceTypeOK
<1> QED BY <1>1, <1>2 DEF Packet, NonceRange

LEMMA StartConnectionIInv ==
  ASSUME IInv, NEW h \in Host, NEW p \in Host, h # p, StartConnection(h, p)
  PROVE  IInv'
<1> DEFINE c == [id |-> fresh + 1, address |-> p, state |-> "AwaitingChallengeResponse",
                 nonce |-> fresh + 1, serverNonce |-> 0, sendCount |-> 1,
                 puzzleRetried |-> FALSE]
           m == ChallengeRequest(h, c)
           gone == Found(pending, h, p)
           Sent(old) == Disconnects(h, old) \cup {m}
<1>1. /\ fresh \in Nat /\ fresh' = fresh + 1
      /\ UNCHANGED <<puzzle, accepted, told>>
      /\ attempts' \in 0 .. MaxAttempts
  BY TypesOfIInv, ConstantTypes DEF StartConnection
<1>2. PICK old \in Lookups(h, p) :
        /\ pending' = [pending EXCEPT ![h] = (@ \ gone) \cup {c}]
        /\ connections' = [connections EXCEPT ![h] = @ \ old]
        /\ network' = network \cup Disconnects(h, old) \cup {m}
  BY <1>1 DEF StartConnection
<1>3. old \in SUBSET connections[h] /\ \A o \in old : o.address = p
  BY <1>2 DEF Lookups, Found
<1>4. /\ c \in PendingSet /\ c.id = fresh + 1 /\ c.nonce = fresh + 1 /\ c.address = p
      /\ c.state = "AwaitingChallengeResponse" /\ c.sendCount = 1
  BY <1>1 DEF PendingSet
<1>5. /\ m.type = "ConnectChallengeRequest" /\ m.from = h /\ m.to = p
      /\ m.nonce = c.nonce
  BY <1>4 DEF ChallengeRequest, Packet
<1>6. gone \in SUBSET pending[h]
  BY DEF Found
<1> HIDE DEF c, m, gone
<1>7. \A k \in Sent(old) :
        /\ k.from = h /\ k.to = c.address
        /\ \/ k.type = "ConnectChallengeRequest" /\ k.nonce = c.nonce
           \/ k.type = "Disconnect" /\ k.nonce \in Number /\ k.serverNonce \in NonceRange
  BY <1>3, <1>4, <1>5, DisconnectsDrawn
<1>8. /\ connections' \in [Host -> SUBSET ConnectionSet]
      /\ \A g \in Host : connections'[g] \subseteq connections[g]
  BY <1>2, TypesOfIInv
<1>9. network' = network \cup Sent(old)
  BY <1>2
<1> HIDE DEF Sent
<1>10. /\ pending' = [pending EXCEPT ![h] = (@ \ gone) \cup {c}]
       /\ c.address \in Host /\ c.address # h
  BY <1>2, <1>4
<1> QED BY <1>1, <1>4, <1>6, <1>7, <1>8, <1>9, <1>10, RenewedIInv

LEMMA HandleChallengeRequestIInv ==
  ASSUME IInv, NEW m \in network, HandleChallengeRequest(m)
  PROVE  IInv'
<1> DEFINE r == [m EXCEPT !.type = "ConnectChallengeResponse", !.from = m.to,
                          !.to = m.from, !.serverNonce = puzzle[m.to].currentNonce]
<1>1. /\ network' = network \cup {r}
      /\ UNCHANGED <<pending, connections, puzzle, fresh, accepted, told, attempts>>
  BY DEF HandleChallengeRequest
<1>2. m.from \in Host /\ m.to \in Host /\ m.from # m.to /\ m.nonce \in Number
  BY DEF IInv, PacketsDrawn
<1>3. puzzle[m.to].currentNonce \in NonceRange
  BY <1>2 DEF IInv, PuzzlesInForce
<1>4. /\ r.type = "ConnectChallengeResponse" /\ r.from = m.to /\ r.to = m.from
      /\ r.nonce = m.nonce /\ r.serverNonce = puzzle[m.to].currentNonce
  OBVIOUS
<1> DEFINE S == {r}
<1>5. network' = network \cup S
  BY <1>1
<1>6. \A k \in S :
        /\ k.from \in Host /\ k.to \in Host /\ k.from # k.to /\ k.nonce \in Number
        /\ k.type = "ConnectChallengeResponse" /\ k.serverNonce \in NonceRange
  BY <1>2, <1>3, <1>4
<1>7. /\ connections' \in [Host -> SUBSET ConnectionSet]
      /\ \A h \in Host : connections'[h] \subseteq connections[h]
  BY <1>1, TypesOfIInv
<1> HIDE DEF r, S
<1> QED BY <1>1, <1>5, <1>6, <1>7, SameTables, AnsweredIInv

LEMMA HandleChallengeResponseIInv ==
  ASSUME IInv, NEW m \in network, HandleChallengeResponse(m)
  PROVE  IInv'
<1> DEFINE h == m.to
           D(c) == [c EXCEPT !.state = "ComputingPuzzleSolution", !.sendCount = 0,
                             !.serverNonce = m.serverNonce]
           E(c, solved) == IF solved THEN Solved(D(c)) ELSE D(c)
           S(c, solved) == IF solved THEN {ConnectRequest(h, E(c, solved))} ELSE {}
<1>1. PICK c \in Found(pending, h, m.from), solved \in BOOLEAN :
        /\ c.state = "AwaitingChallengeResponse"
        /\ pending' = [pending EXCEPT ![h] = (@ \ {c}) \cup {E(c, solved)}]
        /\ network' = network \cup S(c, solved)
  BY DEF HandleChallengeResponse
<1>2. /\ h \in Host /\ c \in pending[h] /\ c \in PendingSet
      /\ m.serverNonce \in NonceRange /\ m.serverNonce \in Nat
  BY <1>1, TypesOfIInv, ConstantTypes
     DEF IInv, PacketsDrawn, Found, HandleChallengeResponse, NonceRange
<1>3. E(c, solved) \in PendingSet
  BY <1>2 DEF PendingSet, Solved
<1>4. /\ E(c, solved).id = c.id /\ E(c, solved).nonce = c.nonce
      /\ E(c, solved).address = c.address /\ E(c, solved).serverNonce = m.serverNonce
      /\ E(c, solved).sendCount \in {0, 1}
      /\ solved => E(c, solved).state = "AwaitingConnectResponse"
  BY <1>2 DEF PendingSet, Solved
<1>5. \A k \in S(c, solved) :
        /\ k.from = h /\ k.to = c.address /\ k.nonce = c.nonce
        /\ k.type = "ConnectRequest" /\ E(c, solved).state = "AwaitingConnectResponse"
        /\ k.serverNonce = E(c, solved).serverNonce /\ k.value = E(c, solved).id
  BY <1>4 DEF ConnectRequest, Packet
<1>6. UNCHANGED <<connections, puzzle, fresh, accepted, told, attempts>>
  BY DEF HandleChallengeResponse
<1> HIDE DEF E, S
<1>7. E(c, solved).sendCount \in 0 .. (RetryCount(E(c, solved)) + 1)
  BY <1>4, ConstantTypes DEF RetryCount
<1>8. c.state # "AwaitingConnectResponse"
  BY <1>1
<1> DEFINE e == E(c, solved)
           T == S(c, solved)
<1> HIDE DEF e, T, h
<1> QED BY ZenonT(40), <1>1, <1>2, <1>3, <1>4, <1>5, <1>6, <1>7, <1>8, AdvancedIInv DEF e, T

LEMMA ContinuePuzzleSolutionIInv ==
  ASSUME IInv, NEW h \in Host, ContinuePuzzleSolution(h)
  PROVE  IInv'
<1>1. PICK c \in pending[h] :
        /\ c.state = "ComputingPuzzleSolution"
        /\ pending' = [pending EXCEPT ![h] = (@ \ {c}) \cup {Solved(c)}]
        /\ network' = network \cup {ConnectRequest(h, Solved(c))}
  BY DEF ContinuePuzzleSolution
<1> DEFINE e == Solved(c)
           S == {ConnectRequest(h, e)}
<1>2. /\ e \in PendingSet /\ e.id = c.id /\ e.nonce = c.nonce
      /\ e.address = c.address /\ e.serverNonce = c.serverNonce
      /\ e.sendCount = 1 /\ e.state = "AwaitingConnectResponse"
      /\ c.serverNonce \in NonceRange
  <2>1. c \in PendingSet
    BY TypesOfIInv
  <2>2. c.serverNonce \in NonceRange
    BY <1>1 DEF IInv, RequestsOfAttempts
  <2> QED BY <2>1, <2>2 DEF PendingSet, Solved
<1>3. \A k \in S :
        /\ k.from = h /\ k.to = c.address /\ k.nonce = c.nonce
        /\ k.type = "ConnectRequest"
        /\ k.serverNonce = e.serverNonce /\ k.value = e.id
  BY <1>2 DEF ConnectRequest, Packet
<1>4. UNCHANGED <<connections, puzzle, fresh, accepted, told, attempts>>
  BY DEF ContinuePuzzleSolution
<1>5. /\ pending' = [pending EXCEPT ![h] = (@ \ {c}) \cup {e}]
      /\ network' = network \cup S
  BY <1>1
<1> HIDE DEF e, S
<1>6. e.sendCount \in 0 .. (RetryCount(e) + 1) /\ c.state # "AwaitingConnectResponse"
  BY <1>1, <1>2, ConstantTypes DEF RetryCount
<1> QED BY <1>2, <1>3, <1>4, <1>5, <1>6, AdvancedIInv

LEMMA RetryIInv ==
  ASSUME IInv, NEW h \in Host, Retry(h)
  PROVE  IInv'
<1>1. PICK c \in pending[h] :
         IF c.state = "ComputingPuzzleSolution" \/ Exhausted(c)
         THEN /\ pending' = Removed(h, c)
              /\ told' = Tell(c, "ConnectTerminated")
              /\ UNCHANGED network
         ELSE /\ pending' = [pending EXCEPT ![h] = (@ \ {c}) \cup {Resent(c)}]
              /\ network' = network \cup {IF c.state = "AwaitingChallengeResponse"
                                          THEN ChallengeRequest(h, c)
                                          ELSE ConnectRequest(h, c)}
              /\ UNCHANGED told
  BY DEF Retry
<1>2. UNCHANGED <<connections, puzzle, fresh, accepted, attempts>>
  BY DEF Retry
<1>3. CASE c.state = "ComputingPuzzleSolution" \/ Exhausted(c)
  BY <1>1, <1>2, <1>3, TerminatedIInv
<1>4. CASE ~(c.state = "ComputingPuzzleSolution" \/ Exhausted(c))
  <2> DEFINE e == Resent(c)
             S == {IF c.state = "AwaitingChallengeResponse"
                   THEN ChallengeRequest(h, c) ELSE ConnectRequest(h, c)}
  <2>1. /\ e \in PendingSet /\ e.id = c.id /\ e.nonce = c.nonce
        /\ e.address = c.address /\ e.serverNonce = c.serverNonce
        /\ e.sendCount = c.sendCount + 1 /\ e.state = c.state
    BY TypesOfIInv DEF PendingSet, Resent
  <2>2. /\ c.state \in {"AwaitingChallengeResponse", "AwaitingConnectResponse"}
        /\ c.sendCount \in Nat /\ c.sendCount <= RetryCount(c)
        /\ RetryCount(c) \in Nat /\ RetryCount(e) = RetryCount(c)
        /\ c.state # "AwaitingChallengeResponse" => c.serverNonce \in NonceRange
    BY <1>4, <2>1, TypesOfIInv, ConstantTypes
       DEF PendingSet, Exhausted, RetryCount, IInv, RequestsOfAttempts
  <2>3. \A k \in S :
          /\ k.from = h /\ k.to = c.address /\ k.nonce = c.nonce
          /\ \/ k.type = "ConnectChallengeRequest"
             \/ /\ k.type = "ConnectRequest" /\ e.state = "AwaitingConnectResponse"
                /\ k.serverNonce = e.serverNonce /\ k.value = e.id
    <3>1. CASE c.state = "AwaitingChallengeResponse"
      BY <3>1, TypesOfIInv DEF ChallengeRequest, Packet, PendingSet
    <3>2. CASE c.state = "AwaitingConnectResponse"
      BY <3>2, <2>1 DEF ConnectRequest, Packet
    <3> QED BY <2>2, <3>1, <3>2
  <2>4. /\ pending' = [pending EXCEPT ![h] = (@ \ {c}) \cup {e}]
        /\ network' = network \cup S
        /\ UNCHANGED <<connections, puzzle, fresh, accepted, told, attempts>>
    BY <1>1, <1>2, <1>4
  <2> HIDE DEF e, S
  <2>5. e.sendCount \in 0 .. (RetryCount(e) + 1)
    BY <2>1, <2>2
  <2> QED BY ZenonT(40), <2>1, <2>2, <2>3, <2>4, <2>5, AdvancedIInv
<1> QED BY <1>3, <1>4

LEMMA DisconnectIInv ==
  ASSUME IInv, NEW h \in Host, Disconnect(h)
  PROVE  IInv'
<1>1. UNCHANGED <<puzzle, fresh, accepted, attempts>>
  BY DEF Disconnect
<1>2. ASSUME NEW c \in pending[h], pending' = Removed(h, c),
             told' = Tell(c, "ConnectTerminated"), UNCHANGED <<connections, network>>
      PROVE  IInv'
  BY <1>1, <1>2, TerminatedIInv
<1>3. ASSUME NEW c \in connections[h],
             connections' = [connections EXCEPT ![h] = @ \ {c}],
             network' = network \cup Disconnects(h, {c}), UNCHANGED <<pending, told>>
      PROVE  IInv'
  <2> DEFINE S == Disconnects(h, {c})
  <2>1. \A m \in S :
          /\ m.from \in Host /\ m.to \in Host /\ m.from # m.to /\ m.nonce \in Number
          /\ m.type = "Disconnect" /\ m.serverNonce \in NonceRange
    BY DisconnectsDrawn
  <2>2. /\ connections' \in [Host -> SUBSET ConnectionSet]
        /\ \A g \in Host : connections'[g] \subseteq connections[g]
    BY <1>3, TypesOfIInv
  <2>3. network' = network \cup S
    BY <1>3
  <2> HIDE DEF S
  <2> QED BY <1>1, <1>3, <2>1, <2>2, <2>3, SameTables, AnsweredIInv
<1> QED BY <1>2, <1>3 DEF Disconnect

LEMMA HandleDisconnectIInv ==
  ASSUME IInv, NEW m \in network, HandleDisconnect(m)
  PROVE  IInv'
<1>1. /\ \E c : connections' = [connections EXCEPT ![m.to] = @ \ {c}]
      /\ UNCHANGED <<pending, puzzle, network, fresh, accepted, told, attempts>>
  BY DEF HandleDisconnect
<1> DEFINE S == {}
<1>2. /\ connections' \in [Host -> SUBSET ConnectionSet]
      /\ \A g \in Host : connections'[g] \subseteq connections[g]
  BY <1>1, TypesOfIInv
<1>3. network' = network \cup S /\ \A k \in S : FALSE
  BY <1>1
<1> HIDE DEF S
<1> QED BY <1>1, <1>2, <1>3, SameTables, AnsweredIInv

\* A request that a connection of the host answers to was accepted by that host.
LEMMA AcceptAgainIInv ==
  ASSUME IInv, NEW m \in network, m.type = "ConnectRequest",
         NEW c \in connections[m.to], c.address = m.from, AcceptAgain(m, c)
  PROVE  IInv'
<1> DEFINE h == m.to
           S == {ConnectAccept(h, c)}
<1>1. /\ m.from \in Host /\ h \in Host /\ m.from # h
      /\ m.nonce \in Number /\ m.serverNonce \in NonceRange
      /\ SameNonces(c, m)
  BY DEF IInv, PacketsDrawn, AcceptAgain
<1>2. \E x \in accepted : /\ x.host = h /\ x.connection.address = m.from
                          /\ SameNonces(x.connection, c) /\ x.connection.id = c.id
  <2>1. CASE [host |-> h, connection |-> c] \in accepted
    BY <2>1 DEF SameNonces
  <2>2. ASSUME NEW x \in accepted, AcceptedBy(h, c, x)
        PROVE  FALSE
    <3>1. PICK n \in network :
             /\ n.type = "ConnectRequest" /\ n.to = x.host
             /\ n.from = x.connection.address /\ SameNonces(x.connection, n)
      BY DEF IInv, AcceptedRequested
    <3>2. n.nonce = m.nonce /\ n.from = h
      BY <1>1, <2>2, <3>1 DEF AcceptedBy, SameNonces
    <3>3. m.from = n.from
      BY <3>1, <3>2 DEF IInv, OneRequestPerNonce
    <3> QED BY <1>1, <3>2, <3>3
  <2> QED BY <1>1, <2>1, <2>2 DEF IInv, ConnectionsAgree
<1>3. c.id \in Number /\ c.nonce = m.nonce /\ c.serverNonce = m.serverNonce
  BY <1>1 DEF IInv, InterfaceTypeOK, SameNonces
<1>4. \A k \in S :
        /\ k.type = "ConnectAccept" /\ k.from = h /\ k.to = m.from
        /\ k.nonce = c.nonce /\ k.serverNonce = c.serverNonce /\ k.value = c.id
  BY DEF ConnectAccept, Packet
<1>5. \A k \in S : \E x \in accepted :
        /\ x.host = k.from /\ x.connection.address = k.to
        /\ SameNonces(x.connection, k) /\ x.connection.id = k.value
  BY <1>2, <1>4 DEF SameNonces
<1>6. /\ network' = network \cup S
      /\ UNCHANGED <<pending, connections, puzzle, fresh, accepted, told, attempts>>
  BY DEF AcceptAgain
<1>7. /\ connections' \in [Host -> SUBSET ConnectionSet]
      /\ \A g \in Host : connections'[g] \subseteq connections[g]
  BY <1>6, TypesOfIInv
<1>8. \A k \in S : /\ k.from \in Host /\ k.to \in Host /\ k.from # k.to
                   /\ k.nonce \in Number
                   /\ k.type = "ConnectAccept"
                   /\ k.serverNonce \in NonceRange /\ k.value \in Number
  BY <1>1, <1>3, <1>4
<1> HIDE DEF S
<1> QED BY <1>5, <1>6, <1>7, <1>8, SameTables, AnsweredIInv

LEMMA RejectPuzzleIInv ==
  ASSUME IInv, NEW m \in network, m.type = "ConnectRequest", RejectPuzzle(m)
  PROVE  IInv'
<1> DEFINE S == {Packet("ConnectReject", m.to, m.from, m, "Puzzle")}
<1>1. /\ m.from \in Host /\ m.to \in Host /\ m.from # m.to
      /\ m.nonce \in Number /\ m.serverNonce \in NonceRange
  BY DEF IInv, PacketsDrawn
<1>2. /\ network' = network \cup S
      /\ UNCHANGED <<pending, connections, puzzle, fresh, accepted, told, attempts>>
  BY DEF RejectPuzzle
<1>3. \A k \in S : /\ k.from \in Host /\ k.to \in Host /\ k.from # k.to
                   /\ k.nonce \in Number
                   /\ k.type = "ConnectReject" /\ k.serverNonce \in NonceRange
  BY <1>1 DEF Packet
<1>4. /\ connections' \in [Host -> SUBSET ConnectionSet]
      /\ \A g \in Host : connections'[g] \subseteq connections[g]
  BY <1>2, TypesOfIInv
<1> HIDE DEF S
<1> QED BY <1>2, <1>3, <1>4, SameTables, AnsweredIInv

\* A nonce enters the table of its puzzle.
LEMMA CheckAddTable ==
  ASSUME IInv, NEW m \in network, m.type = "ConnectRequest",
         CheckSolution(puzzle[m.to], m),
         puzzle' = [puzzle EXCEPT ![m.to] = CheckAdd(@, m)]
  PROVE  /\ TablesGrow
         /\ m.serverNonce <= puzzle'[m.to].currentNonce
         /\ m.serverNonce = puzzle'[m.to].currentNonce
              => /\ m.nonce \in puzzle'[m.to].currentTable
                 /\ m.nonce \notin puzzle[m.to].currentTable
         /\ m.serverNonce = puzzle'[m.to].lastNonce
              => /\ m.nonce \in puzzle'[m.to].lastTable
                 /\ m.nonce \notin puzzle[m.to].lastTable
<1> DEFINE z == puzzle[m.to]
           Tables == [currentNonce : Nat, lastNonce : Nat,
                      currentTable : SUBSET Nat, lastTable : SUBSET Nat]
<1>1. m.to \in Host /\ m.nonce \in Nat /\ z \in Tables /\ puzzle \in [Host -> Tables]
  BY TypesOfIInv DEF IInv, Shapes
<1>2. z.currentNonce \in Nat /\ z.lastNonce = z.currentNonce - 1
  BY <1>1 DEF IInv, PuzzlesInForce
<1>3. puzzle'[m.to] = CheckAdd(z, m) /\ \A g \in Host \ {m.to} : puzzle'[g] = puzzle[g]
  BY <1>1
<1> HIDE DEF z
<1>4. CASE m.serverNonce = z.currentNonce
  <2>1. PuzzleTable(z, m) = "currentTable"
    BY <1>4 DEF PuzzleTable
  <2>2. /\ m.nonce \notin z.currentTable
        /\ CheckAdd(z, m) = [z EXCEPT !.currentTable = @ \cup {m.nonce}]
    BY <2>1 DEF CheckAdd, CheckSolution, z
  <2> DEFINE y == CheckAdd(z, m)
  <2>3. /\ y \in Tables /\ y.currentNonce = z.currentNonce
        /\ y.lastNonce = z.lastNonce /\ y.lastTable = z.lastTable
        /\ y.currentTable = z.currentTable \cup {m.nonce}
    BY <1>1, <2>2
  <2> HIDE DEF y
  <2>4. puzzle' = [puzzle EXCEPT ![m.to] = y]
    BY DEF y, z
  <2> QED BY <1>1, <1>2, <1>4, <2>2, <2>3, <2>4 DEF TablesGrow, z
<1>5. CASE m.serverNonce # z.currentNonce
  <2>1. PuzzleTable(z, m) = "lastTable" /\ m.serverNonce = z.lastNonce
    BY <1>5 DEF PuzzleTable, CheckSolution, z
  <2>2. /\ m.nonce \notin z.lastTable
        /\ CheckAdd(z, m) = [z EXCEPT !.lastTable = @ \cup {m.nonce}]
    BY <2>1 DEF CheckAdd, CheckSolution, z
  <2> DEFINE y == CheckAdd(z, m)
  <2>3. /\ y \in Tables /\ y.currentNonce = z.currentNonce
        /\ y.lastNonce = z.lastNonce /\ y.currentTable = z.currentTable
        /\ y.lastTable = z.lastTable \cup {m.nonce}
    BY <1>1, <2>2
  <2> HIDE DEF y
  <2>4. puzzle' = [puzzle EXCEPT ![m.to] = y]
    BY DEF y, z
  <2> QED BY <1>1, <1>2, <1>5, <2>1, <2>2, <2>3, <2>4 DEF TablesGrow, z
<1> QED BY <1>4, <1>5

\* A new connection is made of a request whose nonce is in no table of its puzzle.
LEMMA AcceptIInv ==
  ASSUME IInv, NEW m \in network, m.type = "ConnectRequest",
         NEW closed \in SUBSET connections[m.to], NEW c,
         CheckSolution(puzzle[m.to], m),
         puzzle' = [puzzle EXCEPT ![m.to] = CheckAdd(@, m)],
         c = [id |-> fresh + 1, address |-> m.from, nonce |-> m.nonce,
              serverNonce |-> m.serverNonce, recvSequence |-> m.value],
         connections' = [connections EXCEPT ![m.to] = (@ \ closed) \cup {c}],
         accepted' = accepted \cup {[host |-> m.to, connection |-> c]},
         fresh' = fresh + 1,
         told' = Tell(c, "Established"),
         network' = network \cup Disconnects(m.to, closed) \cup {ConnectAccept(m.to, c)},
         UNCHANGED <<pending, attempts>>
  PROVE  IInv'
<1> DEFINE h == m.to
           y == [host |-> h, connection |-> c]
           a == ConnectAccept(h, c)
<1>1. /\ h \in Host /\ m.from \in Host /\ m.from # h /\ m.nonce \in Number
      /\ m.serverNonce \in NonceRange /\ m.value \in Number
      /\ Number \subseteq Nat /\ fresh \in Nat /\ fresh + 1 \in Nat
      /\ m.nonce \in Nat /\ m.serverNonce \in Nat /\ m.value \in Nat
  BY TypesOfIInv, ConstantTypes DEF IInv, PacketsDrawn, Number, NonceRange
<1>2. /\ fresh' \in Nat /\ fresh + 1 \in Number' /\ fresh + 1 \notin Number
      /\ Number \subseteq Number'
  BY <1>1 DEF Number
<1>3. /\ c \in ConnectionSet /\ c.id = fresh + 1 /\ c.address = m.from
      /\ c.nonce = m.nonce /\ c.serverNonce = m.serverNonce /\ c.recvSequence = m.value
  BY <1>1 DEF ConnectionSet
<1>4. y.host = h /\ y.connection = c
  OBVIOUS
<1>5. /\ a.type = "ConnectAccept" /\ a.from = h /\ a.to = m.from /\ a.nonce = m.nonce
      /\ a.serverNonce = m.serverNonce /\ a.value = fresh + 1
  BY <1>3 DEF ConnectAccept, Packet
<1>6. \A k \in Disconnects(h, closed) :
        /\ k.type = "Disconnect" /\ k.from = h /\ k.to \in Host /\ k.to # h
        /\ k.nonce \in Number /\ k.serverNonce \in NonceRange
  BY <1>1, DisconnectsDrawn
<1>7. fresh + 1 \notin DOMAIN told /\ c.id \in Nat
  BY <1>1, <1>2, <1>3 DEF IInv, InterfaceTypeOK
<1>8. /\ DOMAIN told' = DOMAIN told \cup {fresh + 1}
      /\ \A id \in DOMAIN told' : told'[id] \in Seq({"Established", "ConnectTerminated"})
      /\ \A id \in DOMAIN told' : Len(told'[id]) = 1
  BY <1>3, <1>7, TellOnce
<1>9. /\ TablesGrow
      /\ m.serverNonce <= puzzle'[h].currentNonce
      /\ m.serverNonce = puzzle'[h].currentNonce => m.nonce \in puzzle'[h].currentTable
      /\ m.serverNonce = puzzle'[h].lastNonce => m.nonce \in puzzle'[h].lastTable
  BY CheckAddTable
<1>10. /\ \A g \in Host : \A d \in connections'[g] :
             d \in connections[g] \/ (g = h /\ d = c)
       /\ connections' \in [Host -> SUBSET ConnectionSet]
  BY <1>1, <1>3, TypesOfIInv
<1>11. \A k \in network' : k \in network \/ k = a \/ k \in Disconnects(h, closed)
  OBVIOUS
<1>12. accepted' = accepted \cup {y} /\ network \subseteq network'
  OBVIOUS
<1> HIDE DEF y, a, h
<1>13. InterfaceTypeOK'
  <2>1. /\ fresh' \in Nat /\ attempts' \in 0 .. MaxAttempts
        /\ DOMAIN told' \subseteq Number'
    BY <1>2, <1>8 DEF IInv, InterfaceTypeOK
  <2>2. \A g \in Host : connections'[g] \subseteq
          [id : Number', address : Host \ {g}, nonce : Number',
           serverNonce : 1 .. (2 + MaxRefreshes), recvSequence : Number']
    <3> SUFFICES ASSUME NEW g \in Host, NEW d \in connections'[g]
                 PROVE  d \in [id : Number', address : Host \ {g}, nonce : Number',
                               serverNonce : 1 .. (2 + MaxRefreshes),
                               recvSequence : Number']
      OBVIOUS
    <3>1. CASE d \in connections[g]
      BY <1>2, <3>1 DEF IInv, InterfaceTypeOK
    <3>2. CASE g = h /\ d = c
      BY <1>1, <1>2, <1>3, <3>2 DEF NonceRange, ConnectionSet
    <3> QED BY <1>10, <3>1, <3>2
  <2>3. \A g \in Host : \A d \in pending'[g] :
          /\ d.id \in Number' /\ d.nonce \in Number'
          /\ d.address \in Host \ {g}
          /\ d.state \in {"AwaitingChallengeResponse", "ComputingPuzzleSolution",
                          "AwaitingConnectResponse"}
          /\ d.sendCount \in 0 .. (RetryCount(d) + 1)
    BY <1>2 DEF IInv, InterfaceTypeOK
  <2> QED BY <1>8, <2>1, <2>2, <2>3 DEF InterfaceTypeOK
<1>14. Shapes'
  <2>1. DOMAIN told' \subseteq Nat
    BY <1>1, <1>8 DEF IInv, Shapes
  <2>2. y \in [host : Host, connection : ConnectionSet]
    BY <1>1, <1>3 DEF y
  <2> QED BY <1>2, <1>9, <1>10, <1>12, <2>1, <2>2 DEF IInv, Shapes, TablesGrow
<1>15. PuzzlesInForce'
  BY <1>9 DEF IInv, PuzzlesInForce, TablesGrow
<1>16. PacketsDrawn'
  BY <1>1, <1>2, <1>5, <1>6, <1>11 DEF IInv, PacketsDrawn
<1>17. AttemptsApart'
  BY DEF IInv, AttemptsApart
<1>18. \A k \in network' : k.type = "ConnectRequest" => k \in network
  BY <1>5, <1>6, <1>11
<1>19. OneRequestPerNonce'
  BY <1>18 DEF IInv, OneRequestPerNonce
<1>20. RequestsOfAttempts'
  BY <1>18 DEF IInv, RequestsOfAttempts
<1>21. AcceptedRequested'
  <2> SUFFICES ASSUME NEW x \in accepted'
               PROVE  /\ \E n \in network' :
                           /\ n.type = "ConnectRequest" /\ n.to = x.host
                           /\ n.from = x.connection.address /\ SameNonces(x.connection, n)
                           /\ n.value = x.connection.recvSequence
                      /\ x.connection.serverNonce <= puzzle'[x.host].currentNonce
                      /\ x.connection.serverNonce = puzzle'[x.host].currentNonce
                         => x.connection.nonce \in puzzle'[x.host].currentTable
                      /\ x.connection.serverNonce = puzzle'[x.host].lastNonce
                         => x.connection.nonce \in puzzle'[x.host].lastTable
    BY DEF AcceptedRequested
  <2>1. CASE x \in accepted
    <3>1. x.host \in Host
      BY <2>1 DEF IInv, Shapes
    <3> QED BY <1>9, <1>12, <2>1, <3>1 DEF IInv, AcceptedRequested, TablesGrow
  <2>2. CASE x = y
    <3>1. SameNonces(c, m) /\ m \in network'
      BY <1>3, <1>12 DEF SameNonces
    <3> QED BY <1>3, <1>4, <1>9, <2>2, <3>1 DEF h
  <2> QED BY <1>12, <2>1, <2>2
<1>22. AcceptsAccepted'
  <2>1. SameNonces(c, a)
    BY <1>3, <1>5 DEF SameNonces
  <2>2. y \in accepted' /\ accepted \subseteq accepted'
    BY <1>12
  <2> SUFFICES ASSUME NEW k \in network', k.type = "ConnectAccept"
               PROVE  \E x \in accepted' :
                        /\ x.host = k.from /\ x.connection.address = k.to
                        /\ SameNonces(x.connection, k) /\ x.connection.id = k.value
    BY DEF AcceptsAccepted
  <2>3. CASE k \in network
    BY <2>2, <2>3 DEF IInv, AcceptsAccepted
  <2>4. CASE k = a
    BY <1>3, <1>4, <1>5, <2>1, <2>2, <2>4
  <2> QED BY <1>6, <1>11, <2>3, <2>4
<1>23. AtMostOnce'
  <2>1. ASSUME NEW x \in accepted, x.host = h, x.connection.nonce = m.nonce
        PROVE  FALSE
    <3>1. PICK n \in network : /\ n.type = "ConnectRequest"
                               /\ SameNonces(x.connection, n)
      BY DEF IInv, AcceptedRequested
    <3>2. x.connection.serverNonce = m.serverNonce
      BY <2>1, <3>1 DEF IInv, OneRequestPerNonce, SameNonces
    <3>3. /\ m.serverNonce = puzzle[h].currentNonce => m.nonce \in puzzle[h].currentTable
          /\ m.serverNonce = puzzle[h].lastNonce => m.nonce \in puzzle[h].lastTable
      BY <2>1, <3>2 DEF IInv, AcceptedRequested
    <3> QED BY <3>3 DEF CheckSolution, PuzzleTable, h
  <2> QED BY <1>3, <1>4, <1>12, <2>1 DEF IInv, AtMostOnce
<1>24. ConnectionsAgree'
  <2>1. ASSUME NEW g \in Host, NEW d \in connections[g]
        PROVE  \/ [host |-> g, connection |-> d] \in accepted'
               \/ \E x \in accepted' : AcceptedBy(g, d, x)
    BY <1>12 DEF IInv, ConnectionsAgree
  <2>2. [host |-> h, connection |-> c] \in accepted'
    BY <1>12 DEF y
  <2> QED BY <1>10, <2>1, <2>2 DEF ConnectionsAgree
<1>25. ToldOnce'
  <2>1. \A g \in Host : \A d \in pending[g] : d.id \notin DOMAIN told /\ d.id # fresh + 1
    BY <1>1, TypesOfIInv DEF IInv, ToldOnce
  <2> QED BY <1>8, <2>1 DEF ToldOnce
<1> QED BY <1>13, <1>14, <1>15, <1>16, <1>17, <1>19, <1>20, <1>21, <1>22, <1>23,
           <1>24, <1>25 DEF IInv

LEMMA RefuseIInv ==
  ASSUME IInv, NEW m \in network, m.type = "ConnectRequest",
         NEW closed \in SUBSET connections[m.to], NEW R,
         CheckSolution(puzzle[m.to], m),
         puzzle' = [puzzle EXCEPT ![m.to] = CheckAdd(@, m)],
         \A k \in R : \E reason : k = Packet("ConnectReject", m.to, m.from, m, reason),
         network' = network \cup Disconnects(m.to, closed) \cup R,
         connections' = [connections EXCEPT ![m.to] = @ \ closed],
         UNCHANGED <<fresh, accepted, told, pending, attempts>>
  PROVE  IInv'
<1> DEFINE S == Disconnects(m.to, closed) \cup R
<1>1. /\ m.to \in Host /\ m.from \in Host /\ m.from # m.to /\ m.nonce \in Number
      /\ m.serverNonce \in NonceRange
  BY DEF IInv, PacketsDrawn
<1>2. \A k \in S : /\ k.from \in Host /\ k.to \in Host /\ k.from # k.to
                   /\ k.nonce \in Number /\ k.serverNonce \in NonceRange
                   /\ k.type \in {"Disconnect", "ConnectReject"}
  <2>1. \A k \in R : /\ k.type = "ConnectReject" /\ k.from = m.to /\ k.to = m.from
                     /\ k.nonce = m.nonce /\ k.serverNonce = m.serverNonce
    BY DEF Packet
  <2> QED BY <1>1, <2>1, DisconnectsDrawn
<1>3. /\ connections' \in [Host -> SUBSET ConnectionSet]
      /\ \A g \in Host : connections'[g] \subseteq connections[g]
  BY <1>1, TypesOfIInv
<1>4. TablesGrow
  BY CheckAddTable
<1>5. network' = network \cup S
  OBVIOUS
<1> HIDE DEF S
<1> QED BY <1>2, <1>3, <1>4, <1>5, AnsweredIInv

LEMMA HandleConnectRequestIInv ==
  ASSUME IInv, NEW m \in network, HandleConnectRequest(m)
  PROVE  IInv'
<1>1. PICK found \in Lookups(m.to, m.from) :
         \/ \E c \in found : AcceptAgain(m, c)
         \/ RejectPuzzle(m) \/ TakeRequest(m, found)
  BY DEF HandleConnectRequest
<1>2. /\ m.type = "ConnectRequest"
      /\ found \in SUBSET connections[m.to] /\ \A c \in found : c.address = m.from
  BY DEF HandleConnectRequest, Lookups, Found
<1>3. CASE \E c \in found : AcceptAgain(m, c)
  BY <1>2, <1>3, AcceptAgainIInv
<1>4. CASE RejectPuzzle(m)
  BY <1>2, <1>4, RejectPuzzleIInv
<1>5. CASE TakeRequest(m, found)
  <2> DEFINE c == [id |-> fresh + 1, address |-> m.from, nonce |-> m.nonce,
                   serverNonce |-> m.serverNonce, recvSequence |-> m.value]
             R(reason) == IF reason = "" THEN {} ELSE
                            {Packet("ConnectReject", m.to, m.from, m, reason)}
  <2>1. /\ CheckSolution(puzzle[m.to], m)
        /\ puzzle' = [puzzle EXCEPT ![m.to] = CheckAdd(@, m)]
        /\ UNCHANGED <<pending, attempts>>
    BY <1>5 DEF TakeRequest
  <2>2. \/ /\ connections' = [connections EXCEPT ![m.to] = (@ \ found) \cup {c}]
           /\ accepted' = accepted \cup {[host |-> m.to, connection |-> c]}
           /\ fresh' = fresh + 1
           /\ told' = Tell(c, "Established")
           /\ network' = network \cup Disconnects(m.to, found) \cup {ConnectAccept(m.to, c)}
        \/ /\ \E reason : network' = network \cup Disconnects(m.to, found) \cup R(reason)
           /\ connections' = [connections EXCEPT ![m.to] = @ \ found]
           /\ UNCHANGED <<fresh, accepted, told>>
    BY <1>5, Zenon DEF TakeRequest, Displaced
  <2>3. \A reason : \A k \in R(reason) :
           \E why : k = Packet("ConnectReject", m.to, m.from, m, why)
    OBVIOUS
  <2> DEFINE d == c
  <2>4. d = [id |-> fresh + 1, address |-> m.from, nonce |-> m.nonce,
             serverNonce |-> m.serverNonce, recvSequence |-> m.value]
    OBVIOUS
  <2> HIDE DEF R, c
  <2>5. CASE /\ connections' = [connections EXCEPT ![m.to] = (@ \ found) \cup {c}]
             /\ accepted' = accepted \cup {[host |-> m.to, connection |-> c]}
             /\ fresh' = fresh + 1
             /\ told' = Tell(c, "Established")
             /\ network' = network \cup Disconnects(m.to, found)
                             \cup {ConnectAccept(m.to, c)}
    BY <1>2, <2>1, <2>4, <2>5, AcceptIInv
  <2>6. CASE /\ \E reason : network' = network \cup Disconnects(m.to, found) \cup R(reason)
             /\ connections' = [connections EXCEPT ![m.to] = @ \ found]
             /\ UNCHANGED <<fresh, accepted, told>>
    <3>1. PICK reason : network' = network \cup Disconnects(m.to, found) \cup R(reason)
      BY <2>6
    <3> DEFINE T == R(reason)
    <3>2. /\ network' = network \cup Disconnects(m.to, found) \cup T
          /\ \A k \in T : \E why : k = Packet("ConnectReject", m.to, m.from, m, why)
      BY <2>3, <3>1
    <3> HIDE DEF T
    <3> QED BY <1>2, <2>1, <2>6, <3>2, RefuseIInv
  <2> QED BY <2>2, <2>5, <2>6
<1> QED BY <1>1, <1>3, <1>4, <1>5

\* The connection was accepted by the other side for this very attempt: its nonce
\* is in no other request.
LEMMA HandleConnectAcceptIInv ==
  ASSUME IInv, NEW m \in network, HandleConnectAccept(m)
  PROVE  IInv'
<1> DEFINE h == m.to
           New(c) == [id |-> c.id, address |-> c.address, nonce |-> c.nonce,
                      serverNonce |-> c.serverNonce, recvSequence |-> m.value]
<1>1. PICK c \in Found(pending, h, m.from) :
         /\ IsAccepted(c, m)
         /\ pending' = Removed(h, c)
         /\ \/ /\ connections' = [connections EXCEPT ![h] = @ \cup {New(c)}]
               /\ told' = Tell(c, "Established")
            \/ UNCHANGED <<connections, told>>
  BY DEF HandleConnectAccept
<1>2. /\ UNCHANGED <<puzzle, network, fresh, accepted, attempts>>
      /\ m.type = "ConnectAccept"
      /\ h \in Host /\ m.from \in Host /\ m.from # h /\ m.value \in Number
      /\ c \in pending[h] /\ c.address = m.from /\ c.state = "AwaitingConnectResponse"
      /\ c.nonce = m.nonce /\ c.serverNonce = m.serverNonce
  BY <1>1 DEF HandleConnectAccept, Found, IsAccepted, SameNonces, IInv, PacketsDrawn
<1> DEFINE d == New(c)
<1>3. /\ d.id = c.id /\ d.address = c.address /\ d.nonce = c.nonce
      /\ d.serverNonce = c.serverNonce /\ d.recvSequence = m.value
  OBVIOUS
<1>4. /\ c.id \in Number /\ c.nonce \in Number /\ c.serverNonce \in NonceRange
  BY <1>2 DEF IInv, InterfaceTypeOK, PacketsDrawn
<1>5. \E x \in accepted : AcceptedBy(h, d, x)
  <2>1. PICK x \in accepted :
           /\ x.host = m.from /\ x.connection.address = h
           /\ SameNonces(x.connection, m) /\ x.connection.id = m.value
    BY <1>2 DEF IInv, AcceptsAccepted
  <2>2. PICK n \in network :
           /\ n.type = "ConnectRequest" /\ SameNonces(x.connection, n)
           /\ n.value = x.connection.recvSequence
    BY DEF IInv, AcceptedRequested
  <2>3. n.value = c.id
    BY <1>2, <2>1, <2>2 DEF IInv, RequestsOfAttempts, SameNonces
  <2> HIDE DEF d
  <2> QED BY <1>2, <1>3, <2>1, <2>2, <2>3 DEF AcceptedBy, SameNonces
<1>6. d \in ConnectionSet
  <2>1. c.id \in Nat /\ c.nonce \in Nat /\ c.serverNonce \in Nat /\ m.value \in Nat
    BY <1>2, <1>4, TypesOfIInv, ConstantTypes DEF Number, NonceRange
  <2> QED BY <1>2, <2>1 DEF ConnectionSet
<1>7. CASE /\ connections' = [connections EXCEPT ![h] = @ \cup {d}]
           /\ told' = Tell(c, "Established")
  <2> HIDE DEF d
  <2>1. /\ connections' \in [Host -> SUBSET ConnectionSet]
        /\ \A g \in Host : \A e \in connections'[g] : e \in connections[g] \/ (g = h /\ e = d)
    BY <1>2, <1>6, <1>7, TypesOfIInv
  <2>2. \A g \in Host : \A e \in connections'[g] :
            \/ e \in connections[g]
            \/ /\ e.id \in Number /\ e.address \in Host \ {g} /\ e.nonce \in Number
               /\ e.serverNonce \in NonceRange /\ e.recvSequence \in Number
               /\ \E x \in accepted : AcceptedBy(g, e, x)
    BY <1>2, <1>3, <1>4, <1>5, <2>1
  <2> QED BY <1>1, <1>2, <1>7, <2>1, <2>2, EndedIInv
<1>8. CASE UNCHANGED <<connections, told>>
  <2>1. /\ connections' \in [Host -> SUBSET ConnectionSet]
        /\ \A g \in Host : \A e \in connections'[g] : e \in connections[g]
    BY <1>8, TypesOfIInv
  <2> QED BY <1>1, <1>2, <1>8, <2>1, EndedIInv
<1> QED BY <1>1, <1>7, <1>8

LEMMA HandleConnectRejectIInv ==
  ASSUME IInv, NEW m \in network, HandleConnectReject(m)
  PROVE  IInv'
<1> DEFINE h == m.to
           D(c) == [c EXCEPT !.state = "AwaitingChallengeResponse",
                             !.puzzleRetried = TRUE, !.nonce = fresh + 1,
                             !.sendCount = 1]
<1>1. PICK c \in Found(pending, h, m.from) :
         \/ /\ pending' = [pending EXCEPT ![h] = (@ \ {c}) \cup {D(c)}]
            /\ fresh' = fresh + 1
            /\ UNCHANGED told
            /\ network' = network \cup {ChallengeRequest(h, D(c))}
         \/ /\ pending' = Removed(h, c)
            /\ told' = Tell(c, "ConnectTerminated")
            /\ UNCHANGED <<fresh, network>>
  BY DEF HandleConnectReject
<1>2. /\ UNCHANGED <<connections, puzzle, accepted, attempts>>
      /\ h \in Host /\ c \in pending[h]
  BY <1>1, TypesOfIInv DEF HandleConnectReject, Found
<1>3. CASE /\ pending' = Removed(h, c)
           /\ told' = Tell(c, "ConnectTerminated")
           /\ UNCHANGED <<fresh, network>>
  BY <1>2, <1>3, TerminatedIInv
<1>4. CASE /\ pending' = [pending EXCEPT ![h] = (@ \ {c}) \cup {D(c)}]
           /\ fresh' = fresh + 1
           /\ UNCHANGED told
           /\ network' = network \cup {ChallengeRequest(h, D(c))}
  <2> DEFINE e == D(c)
             S == {ChallengeRequest(h, e)}
             gone == {c}
  <2>1. c \in PendingSet /\ fresh + 1 \in Nat /\ c.address \in Host /\ c.address # h
    BY <1>2, TypesOfIInv
  <2>2. /\ e \in PendingSet /\ e.id = c.id /\ e.nonce = fresh + 1
        /\ e.address = c.address /\ e.state = "AwaitingChallengeResponse"
        /\ e.sendCount = 1
    BY <2>1 DEF PendingSet
  <2>3. \A k \in S : /\ k.type = "ConnectChallengeRequest" /\ k.from = h
                     /\ k.to = e.address /\ k.nonce = e.nonce
    BY <2>2 DEF ChallengeRequest, Packet, PendingSet
  <2>4. /\ pending' = [pending EXCEPT ![h] = (@ \ gone) \cup {e}]
        /\ network' = network \cup S
        /\ gone \in SUBSET pending[h]
        /\ e.id = fresh + 1 \/ \E b \in gone : e.id = b.id
        /\ fresh' = fresh + 1
    BY <1>2, <1>4, <2>2
  <2> HIDE DEF e, S, gone
  <2>5. /\ connections' \in [Host -> SUBSET ConnectionSet]
        /\ \A g \in Host : connections'[g] \subseteq connections[g]
        /\ attempts' \in 0 .. MaxAttempts
    BY <1>2, TypesOfIInv
  <2>6. /\ e.address \in Host /\ e.address # h
        /\ UNCHANGED <<puzzle, accepted, told>>
    BY <1>2, <1>4, <2>1, <2>2
  <2>7. \A k \in S : /\ k.from = h /\ k.to = e.address
                     /\ \/ k.type = "ConnectChallengeRequest" /\ k.nonce = e.nonce
                        \/ /\ k.type = "Disconnect" /\ k.nonce \in Number
                           /\ k.serverNonce \in NonceRange
    BY <2>3
  <2> HIDE DEF h, D
  <2> QED BY <1>2, <2>2, <2>4, <2>5, <2>6, <2>7, RenewedIInv
<1> QED BY <1>1, <1>3, <1>4

\* The puzzle that goes out of force takes its nonces with it: only requests for the
\* two puzzles left are taken.
LEMMA TickIInv ==
  ASSUME IInv, NEW h \in Host, Tick(h)
  PROVE  IInv'
<1> DEFINE z == Refreshed(puzzle[h])
<1>1. /\ puzzle' = [puzzle EXCEPT ![h] = z]
      /\ puzzle[h].currentNonce < 2 + MaxRefreshes
      /\ UNCHANGED <<pending, connections, network, fresh, accepted, told, attempts>>
  BY DEF Tick
<1>2. /\ puzzle[h].currentNonce \in NonceRange /\ puzzle[h].currentNonce \in Nat
      /\ puzzle[h] \in [currentNonce : Nat, lastNonce : Nat,
                        currentTable : SUBSET Nat, lastTable : SUBSET Nat]
  BY DEF IInv, PuzzlesInForce, Shapes
<1>3. /\ z \in [currentNonce : Nat, lastNonce : Nat,
                currentTable : SUBSET Nat, lastTable : SUBSET Nat]
      /\ z.currentNonce = puzzle[h].currentNonce + 1 /\ z.lastNonce = puzzle[h].currentNonce
      /\ z.lastTable = puzzle[h].currentTable
  BY <1>2 DEF Refreshed
<1> HIDE DEF z
<1>4. z.currentNonce \in NonceRange /\ z.lastNonce = z.currentNonce - 1
  BY <1>1, <1>2, <1>3, ConstantTypes DEF NonceRange
<1>5. puzzle'[h] = z /\ \A g \in Host \ {h} : puzzle'[g] = puzzle[g]
  BY <1>1 DEF IInv, Shapes
<1>6. PuzzlesInForce'
  BY <1>4, <1>5 DEF IInv, PuzzlesInForce
<1>7. Shapes'
  BY <1>1, <1>3 DEF IInv, Shapes
<1>8. AcceptedRequested'
  <2> SUFFICES ASSUME NEW x \in accepted
               PROVE  /\ x.connection.serverNonce <= puzzle'[x.host].currentNonce
                      /\ x.connection.serverNonce = puzzle'[x.host].currentNonce
                         => x.connection.nonce \in puzzle'[x.host].currentTable
                      /\ x.connection.serverNonce = puzzle'[x.host].lastNonce
                         => x.connection.nonce \in puzzle'[x.host].lastTable
    BY <1>1 DEF IInv, AcceptedRequested
  <2>1. /\ x.host \in Host /\ x.connection.serverNonce \in Nat
        /\ x.connection.serverNonce <= puzzle[x.host].currentNonce
        /\ x.connection.serverNonce = puzzle[x.host].currentNonce
           => x.connection.nonce \in puzzle[x.host].currentTable
        /\ x.connection.serverNonce = puzzle[x.host].lastNonce
           => x.connection.nonce \in puzzle[x.host].lastTable
    BY DEF IInv, AcceptedRequested, Shapes, ConnectionSet
  <2>2. CASE x.host = h
    BY <1>2, <1>3, <1>5, <2>1, <2>2
  <2>3. CASE x.host # h
    BY <1>5, <2>1, <2>3
  <2> QED BY <2>2, <2>3
<1>9. InterfaceTypeOK' /\ PacketsDrawn'
  BY <1>1 DEF IInv, InterfaceTypeOK, PacketsDrawn, Number
<1>10. /\ AttemptsApart' /\ OneRequestPerNonce' /\ RequestsOfAttempts'
       /\ AcceptsAccepted' /\ AtMostOnce' /\ ConnectionsAgree' /\ ToldOnce'
  BY <1>1 DEF IInv, AttemptsApart, OneRequestPerNonce, RequestsOfAttempts,
              AcceptsAccepted, AtMostOnce, ConnectionsAgree, ToldOnce
<1> QED BY <1>6, <1>7, <1>8, <1>9, <1>10 DEF IInv

LEMMA NextIInv == IInv /\ [Next]_vars => IInv'
<1> SUFFICES ASSUME IInv, [Next]_vars PROVE IInv'
  OBVIOUS
<1>1. ASSUME NEW h \in Host, NEW p \in Target[h] \ {h}, StartConnection(h, p)
      PROVE  IInv'
  <2>1. p \in Host /\ h # p
    BY InterfaceAssumption
  <2> QED BY <1>1, <2>1, StartConnectionIInv
<1>2. ASSUME NEW m \in network,
             \/ HandleChallengeRequest(m)
             \/ HandleChallengeResponse(m)
             \/ HandleConnectRequest(m)
             \/ HandleConnectAccept(m)
             \/ HandleConnectReject(m)
             \/ HandleDisconnect(m)
      PROVE  IInv'
  BY <1>2, HandleChallengeRequestIInv, HandleChallengeResponseIInv,
     HandleConnectRequestIInv, HandleConnectAcceptIInv, HandleConnectRejectIInv,
     HandleDisconnectIInv
<1>3. ASSUME NEW h \in Host,
             ContinuePuzzleSolution(h) \/ Disconnect(h) \/ Retry(h) \/ Tick(h)
      PROVE  IInv'
  BY <1>3, ContinuePuzzleSolutionIInv, DisconnectIInv, RetryIInv, TickIInv
<1>4. CASE UNCHANGED vars
  <2>1. UNCHANGED <<pending, connections, puzzle, network, fresh, accepted, told, attempts>>
    BY <1>4 DEF vars
  <2>2. InterfaceTypeOK' /\ Shapes' /\ PuzzlesInForce' /\ PacketsDrawn'
    BY <2>1 DEF IInv, InterfaceTypeOK, Shapes, PuzzlesInForce, PacketsDrawn, Number
  <2> QED BY <2>1, <2>2
          DEF IInv, AttemptsApart, OneRequestPerNonce, RequestsOfAttempts,
              AcceptedRequested, AcceptsAccepted, AtMostOnce, ConnectionsAgree, ToldOnce
<1> QED BY <1>1, <1>2, <1>3, <1>4 DEF Next

-----------------------------------------------------------------------------
\* The state of the handshake keeps to IInv whatever the network does.
THEOREM HandshakeInvariant == Spec => []IInv
BY InitIInv, NextIInv, PTL DEF Spec

\* The connections, pending or established, and what was told are well formed.
THEOREM HandshakeTypes == Spec => []InterfaceTypeOK
<1>1. IInv => InterfaceTypeOK
  BY DEF IInv
<1> QED BY <1>1, HandshakeInvariant, PTL

\* A nonce makes at most one connection of a host, over any number of resent and
\* duplicated requests and of refreshes of the puzzle (checkAdd).
THEOREM AcceptedAtMostOnce == Spec => []AtMostOnce
<1>1. IInv => AtMostOnce
  BY DEF IInv
<1> QED BY <1>1, HandshakeInvariant, PTL

\* Both sides of an established connection mean the same attempt and know each
\* other's first sequence number, whatever late accepts arrive.
THEOREM BothSidesAgree == Spec => []ConnectionsAgree
<1>1. IInv => ConnectionsAgree
  BY DEF IInv
<1> QED BY <1>1, HandshakeInvariant, PTL

\* An attempt is told once how it ended, over timeouts, late accepts and rejects.
THEOREM EndIsToldOnce == Spec => []ToldOnce
<1>1. IInv => ToldOnce
  BY DEF IInv
<1> QED BY <1>1, HandshakeInvariant, PTL

-----------------------------------------------------------------------------
(* One connection to an address, when no two hosts initiate with each other. *)

\* A step takes connections from a host, or puts d in the place of all that had
\* its address, pending only if it goes to a target.
Shrinks(h) == pending'[h] \subseteq pending[h] /\ connections'[h] \subseteq connections[h]

Replaces(h, d) ==
    /\ \A c \in pending'[h] \cup connections'[h] :
         c = d \/ (c \in pending[h] \cup connections[h] /\ c.address # d.address)
    /\ \A c \in pending'[h] : c.address \in Target[h]

LEMMA ReplacedInv ==
  ASSUME OneSidedInv, \A h \in Host : Shrinks(h) \/ \E d : Replaces(h, d)
  PROVE  OnePerAddress' /\ AttemptsToTargets'
<1>1. ASSUME NEW h \in Host
      PROVE  /\ \A c, d \in pending'[h] \cup connections'[h] :
                  c.address = d.address => c = d
             /\ \A c \in pending'[h] : c.address \in Target[h]
  <2>1. CASE Shrinks(h)
    BY <2>1 DEF OneSidedInv, OnePerAddress, AttemptsToTargets, Shrinks
  <2>2. ASSUME NEW d, Replaces(h, d)
        PROVE  /\ \A b, c \in pending'[h] \cup connections'[h] :
                    b.address = c.address => b = c
               /\ \A c \in pending'[h] : c.address \in Target[h]
    BY <2>2 DEF OneSidedInv, OnePerAddress, Replaces
  <2> QED BY <2>1, <2>2
<1> QED BY <1>1 DEF OnePerAddress, AttemptsToTargets

\* A connection is pending or established, not both.
LEMMA PendingApart == ASSUME NEW c \in PendingSet PROVE c \notin ConnectionSet
<1>1. "state" \in DOMAIN c
  BY DEF PendingSet
<1>2. SUFFICES ASSUME c \in ConnectionSet PROVE FALSE
  OBVIOUS
<1>3. "state" \notin DOMAIN c
  BY <1>2 DEF ConnectionSet
<1> QED BY <1>1, <1>3

\* A pending connection that changes is still the only one to its address.
LEMMA OneChanges ==
  ASSUME IInv, OneSidedInv, NEW h \in Host, NEW c \in pending[h], NEW d,
         d.address = c.address, pending'[h] \subseteq pending[h] \cup {d},
         \A b \in pending'[h] \cup connections'[h] :
            b = d \/ (b \in pending[h] \cup connections[h] /\ b # c)
  PROVE  Replaces(h, d)
<1>1. \A b \in pending[h] : b.address \in Target[h]
  BY DEF OneSidedInv, AttemptsToTargets
<1> QED BY <1>1 DEF OneSidedInv, OnePerAddress, Replaces

\* What Lookups finds is all that there is.
LEMMA LookupsAll ==
  ASSUME OneSidedInv, NEW h \in Host, NEW p, NEW found \in Lookups(h, p),
         NEW c \in connections[h] \ found
  PROVE  c.address # p
BY DEF Lookups, Found, OneSidedInv, OnePerAddress

LEMMA NextOneSided ==
  ASSUME IInv, OneSided, OneSidedInv, [Next]_vars
  PROVE  OnePerAddress' /\ AttemptsToTargets'
<1> SUFFICES \A h \in Host : Shrinks(h) \/ \E d : Replaces(h, d)
  BY ReplacedInv
<1> USE TypesOfIInv
<1>1. ASSUME NEW g \in Host,
             \A h \in Host \ {g} : pending'[h] = pending[h] /\ connections'[h] = connections[h],
             Shrinks(g) \/ \E d : Replaces(g, d)
      PROVE  \A h \in Host : Shrinks(h) \/ \E d : Replaces(h, d)
  BY <1>1 DEF Shrinks
<1>2. ASSUME NEW h \in Host, NEW p \in Target[h] \ {h}, StartConnection(h, p)
      PROVE  \A g \in Host : Shrinks(g) \/ \E d : Replaces(g, d)
  <2> DEFINE c == [id |-> fresh', address |-> p, state |-> "AwaitingChallengeResponse",
                   nonce |-> fresh', serverNonce |-> 0, sendCount |-> 1,
                   puzzleRetried |-> FALSE]
  <2>1. p \in Host
    BY InterfaceAssumption
  <2>2. PICK old \in Lookups(h, p) :
          /\ pending' = [pending EXCEPT ![h] = (@ \ Found(pending, h, p)) \cup {c}]
          /\ connections' = [connections EXCEPT ![h] = @ \ old]
    BY <1>2 DEF StartConnection
  <2>3. c.address = p
    OBVIOUS
  <2> HIDE DEF c
  <2>4. Replaces(h, c)
    <3>1. \A b \in pending'[h] : b = c \/ (b \in pending[h] /\ b.address # p)
      BY <2>1, <2>2 DEF Found
    <3>2. \A b \in connections'[h] : b \in connections[h] /\ b.address # p
      BY <2>1, <2>2, LookupsAll
    <3>3. \A b \in pending[h] : b.address \in Target[h]
      BY DEF OneSidedInv, AttemptsToTargets
    <3> QED BY <2>3, <3>1, <3>2, <3>3 DEF Replaces
  <2>5. \A g \in Host \ {h} : pending'[g] = pending[g] /\ connections'[g] = connections[g]
    BY <2>2
  <2> QED BY <1>1, <2>1, <2>4, <2>5
<1>3. ASSUME NEW h \in Host, NEW c \in pending[h], NEW d, d.address = c.address,
             pending' = [pending EXCEPT ![h] = (@ \ {c}) \cup {d}], UNCHANGED connections
      PROVE  \A g \in Host : Shrinks(g) \/ \E e : Replaces(g, e)
  <2>1. c \notin connections[h]
    BY PendingApart
  <2>2. Replaces(h, d)
    BY <1>3, <2>1, OneChanges
  <2> QED BY <1>1, <1>3, <2>2
<1>4. ASSUME NEW h \in Host, NEW c, pending' = Removed(h, c), UNCHANGED connections
      PROVE  \A g \in Host : Shrinks(g) \/ \E e : Replaces(g, e)
  BY <1>4 DEF Removed, Shrinks
<1>5. ASSUME NEW h, NEW closed, UNCHANGED pending,
             connections' = [connections EXCEPT ![h] = @ \ closed]
      PROVE  \A g \in Host : Shrinks(g) \/ \E e : Replaces(g, e)
  BY <1>5 DEF Shrinks
<1>6. ASSUME UNCHANGED <<pending, connections>>
      PROVE  \A g \in Host : Shrinks(g) \/ \E e : Replaces(g, e)
  BY <1>6 DEF Shrinks
<1>7. ASSUME NEW m \in network, HandleChallengeResponse(m)
      PROVE  \A g \in Host : Shrinks(g) \/ \E e : Replaces(g, e)
  <2> DEFINE D(c) == [c EXCEPT !.state = "ComputingPuzzleSolution", !.sendCount = 0,
                               !.serverNonce = m.serverNonce]
             E(c, solved) == IF solved THEN Solved(D(c)) ELSE D(c)
  <2>1. PICK c \in Found(pending, m.to, m.from), solved \in BOOLEAN :
           pending' = [pending EXCEPT ![m.to] = (@ \ {c}) \cup {E(c, solved)}]
    BY <1>7 DEF HandleChallengeResponse
  <2>2. c \in pending[m.to] /\ m.to \in Host /\ UNCHANGED connections
    BY <1>7, <2>1 DEF Found, HandleChallengeResponse
  <2>3. E(c, solved).address = c.address
    BY <2>2 DEF Solved, PendingSet
  <2> HIDE DEF E
  <2> QED BY <1>3, <2>1, <2>2, <2>3
<1>8. ASSUME NEW h \in Host, ContinuePuzzleSolution(h) \/ Retry(h)
      PROVE  \A g \in Host : Shrinks(g) \/ \E e : Replaces(g, e)
  <2>1. PICK c \in pending[h] :
           \/ pending' = Removed(h, c)
           \/ pending' = [pending EXCEPT ![h] = (@ \ {c}) \cup {Solved(c)}]
           \/ pending' = [pending EXCEPT ![h] = (@ \ {c}) \cup {Resent(c)}]
    BY <1>8 DEF ContinuePuzzleSolution, Retry
  <2>2. Solved(c).address = c.address /\ Resent(c).address = c.address
    BY DEF Solved, Resent, PendingSet
  <2>3. UNCHANGED connections
    BY <1>8 DEF ContinuePuzzleSolution, Retry
  <2> QED BY <1>3, <1>4, <2>1, <2>2, <2>3
<1>9. ASSUME NEW m \in network, HandleConnectReject(m)
      PROVE  \A g \in Host : Shrinks(g) \/ \E e : Replaces(g, e)
  <2> DEFINE D(c) == [c EXCEPT !.state = "AwaitingChallengeResponse",
                               !.puzzleRetried = TRUE, !.nonce = fresh + 1,
                               !.sendCount = 1]
  <2>1. PICK c \in Found(pending, m.to, m.from) :
           \/ pending' = Removed(m.to, c)
           \/ pending' = [pending EXCEPT ![m.to] = (@ \ {c}) \cup {D(c)}]
    BY <1>9 DEF HandleConnectReject
  <2>2. c \in pending[m.to] /\ m.to \in Host /\ UNCHANGED connections
    BY <1>9, <2>1 DEF Found, HandleConnectReject
  <2>3. D(c).address = c.address
    BY <2>2 DEF PendingSet
  <2> HIDE DEF D
  <2> QED BY <1>3, <1>4, <2>1, <2>2, <2>3
<1>10. ASSUME NEW m \in network, HandleConnectAccept(m)
       PROVE  \A g \in Host : Shrinks(g) \/ \E e : Replaces(g, e)
  <2> DEFINE New(c) == [id |-> c.id, address |-> c.address, nonce |-> c.nonce,
                        serverNonce |-> c.serverNonce, recvSequence |-> m.value]
             h == m.to
  <2>1. PICK c \in Found(pending, h, m.from) :
           /\ pending' = Removed(h, c)
           /\ \/ connections' = [connections EXCEPT ![h] = @ \cup {New(c)}]
              \/ UNCHANGED connections
    BY <1>10 DEF HandleConnectAccept
  <2>2. c \in pending[h] /\ h \in Host
    BY <2>1 DEF Found
  <2> DEFINE d == New(c)
  <2>3. d.address = c.address
    OBVIOUS
  <2> HIDE DEF New, h, d
  <2>4. CASE connections' = [connections EXCEPT ![h] = @ \cup {d}]
    <3>1. c \notin connections[h]
      BY <2>2, PendingApart
    <3>2. \A b \in pending'[h] \cup connections'[h] :
             b = d \/ (b \in pending[h] \cup connections[h] /\ b # c)
      BY <2>1, <2>2, <2>4, <3>1 DEF Removed
    <3>3. pending'[h] \subseteq pending[h] \cup {d}
      BY <2>1, <2>2 DEF Removed
    <3>4. Replaces(h, d)
      BY <2>2, <2>3, <3>2, <3>3, OneChanges
    <3> QED BY <1>1, <2>1, <2>2, <2>4, <3>4 DEF Removed
  <2>5. CASE UNCHANGED connections
    BY <1>4, <2>1, <2>2, <2>5
  <2> QED BY <2>1, <2>4, <2>5 DEF d
<1>11. ASSUME NEW m \in network, HandleConnectRequest(m)
       PROVE  \A g \in Host : Shrinks(g) \/ \E e : Replaces(g, e)
  <2>1. PICK found \in Lookups(m.to, m.from) :
           \/ \E c \in found : AcceptAgain(m, c)
           \/ RejectPuzzle(m) \/ TakeRequest(m, found)
    BY <1>11 DEF HandleConnectRequest
  <2>2. CASE (\E c \in found : AcceptAgain(m, c)) \/ RejectPuzzle(m)
    BY <1>6, <2>2 DEF AcceptAgain, RejectPuzzle
  <2>3. CASE TakeRequest(m, found)
    <3> DEFINE c == [id |-> fresh + 1, address |-> m.from, nonce |-> m.nonce,
                     serverNonce |-> m.serverNonce, recvSequence |-> m.value]
               h == m.to
    <3>1. /\ \/ connections' = [connections EXCEPT ![h] = (@ \ found) \cup {c}]
             \/ connections' = [connections EXCEPT ![h] = @ \ found]
          /\ UNCHANGED pending
          /\ c.address = m.from
      BY <2>3, Zenon DEF TakeRequest, Displaced
    \* The host that sends a request to h is none that h connects to.
    <3>2. /\ h \in Host
          /\ \A b \in pending[h] : b.address \in Target[h] /\ b.address # m.from
      <4>1. h \in Host /\ m.from \in Host /\ h \in Target[m.from]
        BY <1>11 DEF HandleConnectRequest, IInv, PacketsDrawn, OneSidedInv, RequestsToTargets
      <4>2. m.from \notin Target[h]
        BY <4>1 DEF OneSided
      <4> QED BY <4>1, <4>2 DEF OneSidedInv, AttemptsToTargets
    <3>3. CASE connections' = [connections EXCEPT ![h] = (@ \ found) \cup {c}]
      <4> HIDE DEF c
      <4>1. \A b \in connections'[h] :
               b = c \/ (b \in connections[h] /\ b.address # m.from)
        BY <2>1, <3>2, <3>3, LookupsAll
      <4>2. Replaces(h, c)
        BY <3>1, <3>2, <4>1 DEF Replaces
      <4> QED BY <1>1, <3>1, <3>2, <3>3, <4>2
    <3>4. CASE connections' = [connections EXCEPT ![h] = @ \ found]
      BY <1>5, <3>1, <3>4
    <3> QED BY <3>1, <3>3, <3>4
  <2> QED BY <2>1, <2>2, <2>3
<1>12. ASSUME NEW h \in Host, Disconnect(h)
       PROVE  \A g \in Host : Shrinks(g) \/ \E e : Replaces(g, e)
  BY <1>4, <1>5, <1>12 DEF Disconnect
<1>13. ASSUME NEW m \in network, HandleChallengeRequest(m) \/ HandleDisconnect(m)
       PROVE  \A g \in Host : Shrinks(g) \/ \E e : Replaces(g, e)
  <2>1. CASE HandleChallengeRequest(m)
    BY <1>6, <2>1 DEF HandleChallengeRequest
  <2>2. CASE HandleDisconnect(m)
    BY <1>5, <2>2 DEF HandleDisconnect
  <2> QED BY <1>13, <2>1, <2>2
<1>14. ASSUME NEW h \in Host, Tick(h)
       PROVE  \A g \in Host : Shrinks(g) \/ \E e : Replaces(g, e)
  BY <1>6, <1>14 DEF Tick
<1>15. CASE UNCHANGED vars
  BY <1>6, <1>15 DEF vars
<1> QED BY <1>2, <1>7, <1>8, <1>9, <1>10, <1>11, <1>12, <1>13, <1>14, <1>15 DEF Next

\* A packet that a step sends is no connect request, or one of an attempt of its
\* sender.
LEMMA RequestsOfPending ==
  ASSUME IInv, [Next]_vars, NEW n \in network', n.type = "ConnectRequest"
  PROVE  \/ n \in network
         \/ n.from \in Host /\ \E c \in pending[n.from] : n.to = c.address
<1> USE TypesOfIInv
<1> SUFFICES ASSUME n \notin network
             PROVE  n.from \in Host /\ \E c \in pending[n.from] : n.to = c.address
  OBVIOUS
<1>1. \A h \in Host : \A closed : \A k \in Disconnects(h, closed) : k.type = "Disconnect"
  BY DEF Disconnects, Packet
<1>2. \A h \in Host : \A c : ChallengeRequest(h, c).type = "ConnectChallengeRequest"
  BY DEF ChallengeRequest, Packet
<1>3. \A h : \A c : /\ ConnectRequest(h, c).from = h
                    /\ ConnectRequest(h, c).to = c.address
  BY DEF ConnectRequest, Packet
<1>4. ASSUME NEW h \in Host, NEW p \in Target[h] \ {h}, StartConnection(h, p)
      PROVE  FALSE
  <2>1. PICK old, c : network' = network \cup Disconnects(h, old) \cup {ChallengeRequest(h, c)}
    BY <1>4 DEF StartConnection
  <2> QED BY <1>1, <1>2, <2>1
<1>5. ASSUME NEW m \in network, HandleChallengeRequest(m)
      PROVE  FALSE
  <2> DEFINE r == [m EXCEPT !.type = "ConnectChallengeResponse", !.from = m.to,
                            !.to = m.from, !.serverNonce = puzzle[m.to].currentNonce]
  <2>1. network' = network \cup {r}
    BY <1>5 DEF HandleChallengeRequest
  <2>2. r.type = "ConnectChallengeResponse"
    OBVIOUS
  <2> HIDE DEF r
  <2> QED BY <2>1, <2>2
<1>6. ASSUME NEW m \in network, HandleChallengeResponse(m)
      PROVE  n.from \in Host /\ \E c \in pending[n.from] : n.to = c.address
  <2> DEFINE D(c) == [c EXCEPT !.state = "ComputingPuzzleSolution", !.sendCount = 0,
                               !.serverNonce = m.serverNonce]
             E(c, solved) == IF solved THEN Solved(D(c)) ELSE D(c)
  <2>1. PICK c \in Found(pending, m.to, m.from), solved \in BOOLEAN :
           network' = network \cup
              (IF solved THEN {ConnectRequest(m.to, E(c, solved))} ELSE {})
    BY <1>6 DEF HandleChallengeResponse
  <2>2. c \in pending[m.to] /\ m.to \in Host
    BY <2>1 DEF Found
  <2>3. E(c, solved).address = c.address
    BY <2>2 DEF Solved, PendingSet
  <2> HIDE DEF E
  <2>4. n = ConnectRequest(m.to, E(c, solved))
    BY <2>1
  <2> QED BY <1>3, <2>2, <2>3, <2>4
<1>7. ASSUME NEW m \in network, HandleConnectRequest(m)
      PROVE  FALSE
  <2>1. PICK found \in Lookups(m.to, m.from) :
           \/ \E c \in found : AcceptAgain(m, c)
           \/ RejectPuzzle(m) \/ TakeRequest(m, found)
    BY <1>7 DEF HandleConnectRequest
  <2>2. CASE \E c \in found : AcceptAgain(m, c)
    BY <2>2 DEF AcceptAgain, ConnectAccept, Packet
  <2>3. CASE RejectPuzzle(m)
    BY <2>3 DEF RejectPuzzle, Packet
  <2>4. CASE TakeRequest(m, found)
    <3>1. PICK closed, c, reason :
             network' \subseteq network \cup Disconnects(m.to, closed)
               \cup {ConnectAccept(m.to, c)}
               \cup {Packet("ConnectReject", m.to, m.from, m, reason)}
      BY <2>4, Zenon DEF TakeRequest
    <3>2. /\ ConnectAccept(m.to, c).type = "ConnectAccept"
          /\ Packet("ConnectReject", m.to, m.from, m, reason).type = "ConnectReject"
      BY DEF ConnectAccept, Packet
    <3> QED BY <1>1, <3>1, <3>2
  <2> QED BY <2>1, <2>2, <2>3, <2>4
<1>8. ASSUME NEW m \in network, HandleConnectReject(m)
      PROVE  FALSE
  <2>1. \/ network' = network
        \/ \E d : network' = network \cup {ChallengeRequest(m.to, d)}
    BY <1>8 DEF HandleConnectReject
  <2> QED BY <1>2, <2>1
<1>9. ASSUME NEW h \in Host, ContinuePuzzleSolution(h) \/ Retry(h)
      PROVE  n.from \in Host /\ \E c \in pending[n.from] : n.to = c.address
  <2>1. PICK c \in pending[h] :
           network' \subseteq network \cup {ChallengeRequest(h, c), ConnectRequest(h, c),
                                         ConnectRequest(h, Solved(c))}
    BY <1>9 DEF ContinuePuzzleSolution, Retry
  <2>2. Solved(c).address = c.address
    BY DEF Solved, PendingSet
  <2> QED BY <1>2, <1>3, <2>1, <2>2
<1>10. ASSUME NEW h \in Host, Disconnect(h)
       PROVE  FALSE
  BY <1>1, <1>10 DEF Disconnect
<1>11. ASSUME NEW m \in network, HandleConnectAccept(m) \/ HandleDisconnect(m)
       PROVE  FALSE
  BY <1>11 DEF HandleConnectAccept, HandleDisconnect
<1>12. ASSUME NEW h \in Host, Tick(h)
       PROVE  FALSE
  BY <1>12 DEF Tick
<1>13. CASE UNCHANGED vars
  BY <1>13 DEF vars
<1> QED BY <1>4, <1>5, <1>6, <1>7, <1>8, <1>9, <1>10, <1>11, <1>12, <1>13 DEF Next

LEMMA NextRequestsToTargets ==
  ASSUME IInv, OneSidedInv, [Next]_vars
  PROVE  RequestsToTargets'
<1> SUFFICES ASSUME NEW n \in network', n.type = "ConnectRequest"
             PROVE  n.to \in Target[n.from]
  BY DEF RequestsToTargets
<1>1. CASE n \in network
  BY <1>1 DEF OneSidedInv, RequestsToTargets
<1>2. ASSUME n.from \in Host, NEW c \in pending[n.from], n.to = c.address
      PROVE  n.to \in Target[n.from]
  BY <1>2 DEF OneSidedInv, AttemptsToTargets
<1> QED BY <1>1, <1>2, RequestsOfPending

\* A host has one connection to an address, pending or not, and the lists of
\* connections are well formed, if no two hosts start connections to each other.
THEOREM OneConnectionPerAddress == OneSided => (Spec => []InterfaceStateOK)
<1> SUFFICES ASSUME OneSided PROVE Spec => []InterfaceStateOK
  OBVIOUS
<1>1. Init => OneSidedInv
  BY DEF Init, OneSidedInv, OnePerAddress, AttemptsToTargets, RequestsToTargets
<1>2. IInv /\ OneSidedInv /\ [Next]_vars => OneSidedInv'
  BY NextOneSided, NextRequestsToTargets DEF OneSidedInv
<1>3. IInv /\ OneSidedInv => InterfaceStateOK
  BY DEF IInv, OneSidedInv, InterfaceStateOK
<1> QED BY <1>1, <1>2, <1>3, HandshakeInvariant, PTL DEF Spec
=============================================================================
