----------------------- MODULE ArrangedConnectionProofs -----------------------
(***************************************************************************)
(* Proofs about ArrangedConnection for every set of clients and of game    *)
(* servers, every address translator and any number of queries.            *)
(***************************************************************************)
EXTENDS ArrangedConnection, TLAPS, FiniteSetTheorems, SequenceTheorems

-----------------------------------------------------------------------------
(* Queues and lists. *)

\* A queue stays, is emptied, or loses its head.
Shrinks(p, q) == p = q \/ p = <<>> \/ (q # <<>> /\ p = Tail(q))

\* What is left in p was in q, at the same place or one further back.
KeptIn(p, q) ==
    \E f \in {0, 1} : \A j \in DOMAIN p : j \in Nat /\ j + f \in DOMAIN q /\ p[j] = q[j + f]

LEMMA Shrunk ==
  ASSUME NEW S, NEW q \in Seq(S), NEW p, Shrinks(p, q)
  PROVE  p \in Seq(S) /\ KeptIn(p, q)
<1>1. CASE p = q
  <2>1. \A j \in DOMAIN p : j \in Nat /\ j + 0 \in DOMAIN q /\ p[j] = q[j + 0]
    BY <1>1, LenProperties
  <2> QED BY <1>1, <2>1 DEF KeptIn
<1>2. CASE p = <<>>
  BY <1>2, EmptySeq DEF KeptIn
<1>3. CASE q # <<>> /\ p = Tail(q)
  <2>1. p \in Seq(S) /\ Len(p) = Len(q) - 1 /\ Len(q) \in Nat
    BY <1>3, HeadTailProperties, LenProperties
  <2>2. \A j \in DOMAIN p : j \in Nat /\ j + 1 \in DOMAIN q /\ p[j] = q[j + 1]
    BY <1>3, <2>1, HeadTailProperties, LenProperties
  <2> QED BY <2>1, <2>2 DEF KeptIn
<1> QED BY <1>1, <1>2, <1>3 DEF Shrinks

LEMMA HeadAndTail ==
  ASSUME NEW S, NEW q \in Seq(S), q # <<>>
  PROVE  /\ Head(q) = q[1] /\ 1 \in DOMAIN q /\ q[1] \in S
         /\ Tail(q) \in Seq(S)
         /\ \A j \in DOMAIN Tail(q) :
              /\ j \in Nat /\ j + 1 \in DOMAIN q /\ j + 1 # 1 /\ Tail(q)[j] = q[j + 1]
<1>1. Len(q) \in Nat \ {0} /\ Head(q) = q[1] /\ Tail(q) \in Seq(S)
      /\ Len(Tail(q)) = Len(q) - 1
  BY HeadTailProperties, EmptySeq
<1>2. DOMAIN q = 1 .. Len(q) /\ DOMAIN Tail(q) = 1 .. Len(Tail(q))
      /\ q \in [1 .. Len(q) -> S]
  BY <1>1, LenProperties
<1>3. \A j \in DOMAIN Tail(q) : j + 1 \in DOMAIN q /\ Tail(q)[j] = q[j + 1]
  BY <1>1, <1>2, HeadTailProperties
<1> QED BY <1>1, <1>2, <1>3

LEMMA Appended ==
  ASSUME NEW S, NEW q \in Seq(S), NEW e \in S
  PROVE  /\ Append(q, e) \in Seq(S)
         /\ \A j \in DOMAIN Append(q, e) :
              \/ j \in DOMAIN q /\ Append(q, e)[j] = q[j]
              \/ j \notin DOMAIN q /\ j = Len(q) + 1 /\ Append(q, e)[j] = e
         /\ ToSet(Append(q, e)) = ToSet(q) \cup {e}
<1>1. /\ Append(q, e) \in Seq(S) /\ Len(Append(q, e)) = Len(q) + 1 /\ Len(q) \in Nat
      /\ \A i \in 1 .. Len(q) : Append(q, e)[i] = q[i]
      /\ Append(q, e)[Len(q) + 1] = e
  BY AppendProperties, LenProperties
<1>2. DOMAIN q = 1 .. Len(q) /\ DOMAIN Append(q, e) = 1 .. (Len(q) + 1)
  BY <1>1, LenProperties
<1>3. \A j \in DOMAIN Append(q, e) :
              \/ j \in DOMAIN q /\ Append(q, e)[j] = q[j]
              \/ j \notin DOMAIN q /\ j = Len(q) + 1 /\ Append(q, e)[j] = e
  BY <1>1, <1>2
<1>4. \A j \in DOMAIN q : j \in DOMAIN Append(q, e) /\ Append(q, e)[j] = q[j]
  BY <1>1, <1>2
<1>5. Len(q) + 1 \in DOMAIN Append(q, e) /\ Append(q, e)[Len(q) + 1] = e
  BY <1>1, <1>2
<1>6. ToSet(Append(q, e)) = ToSet(q) \cup {e}
  BY <1>3, <1>4, <1>5 DEF ToSet
<1> QED BY <1>1, <1>3, <1>6

\* Without what a list has once: what it was, but for that.
LEMMA Erased ==
  ASSUME NEW S, NEW list \in Seq(S), NEW j \in DOMAIN list, IsInjective(list)
  PROVE  /\ EraseFast(list, j) \in Seq(S)
         /\ IsInjective(EraseFast(list, j))
         /\ ToSet(EraseFast(list, j)) = ToSet(list) \ {list[j]}
<1> DEFINE n == Len(list)
           filled == [list EXCEPT ![j] = Last(list)]
           rest == EraseFast(list, j)
<1>1. n \in Nat /\ n >= 1 /\ DOMAIN list = 1 .. n /\ list \in [1 .. n -> S] /\ j \in 1 .. n
  BY LenProperties
<1>2. Last(list) = list[n] /\ Last(list) \in S
  BY <1>1 DEF Last
<1>3. /\ filled \in Seq(S) /\ Len(filled) = n
      /\ \A k \in 1 .. n : filled[k] = IF k = j THEN list[n] ELSE list[k]
  BY <1>1, <1>2, ExceptSeq
<1>4. rest = SubSeq(filled, 1, n - 1)
  BY <1>3 DEF EraseFast, Front
<1> HIDE DEF n, filled, rest
<1>5. /\ rest \in Seq(S) /\ Len(rest) = n - 1
      /\ \A k \in 1 .. (n - 1) : rest[k] = IF k = j THEN list[n] ELSE list[k]
  <2>1. \A k \in 1 .. n : filled[k] \in S
    BY <1>3, LenProperties
  <2>2. rest \in Seq(S) /\ Len(rest) = n - 1 /\ \A k \in 1 .. (n - 1) : rest[k] = filled[k]
    BY <1>1, <1>3, <1>4, <2>1, SubSeqProperties
  <2> QED BY <1>1, <1>3, <2>2
<1>6. DOMAIN rest = 1 .. (n - 1)
  BY <1>5, LenProperties
<1>7. IsInjective(rest)
  BY <1>1, <1>5, <1>6 DEF IsInjective
<1>8. ASSUME NEW x \in ToSet(rest) PROVE x \in ToSet(list) \ {list[j]}
  <2>1. PICK k \in 1 .. (n - 1) : x = rest[k]
    BY <1>6 DEF ToSet
  <2>2. k \in DOMAIN list /\ n \in DOMAIN list /\ k # n
    BY <1>1
  <2> QED BY <1>1, <1>5, <2>1, <2>2 DEF ToSet, IsInjective
<1>9. ASSUME NEW x \in ToSet(list) \ {list[j]} PROVE x \in ToSet(rest)
  <2>1. PICK k \in 1 .. n : x = list[k] /\ k # j
    BY <1>1 DEF ToSet
  <2>2. CASE k = n
    <3>1. j \in 1 .. (n - 1) /\ rest[j] = x
      BY <1>1, <1>5, <2>1, <2>2
    <3> QED BY <3>1, <1>6 DEF ToSet
  <2>3. CASE k # n
    <3>1. k \in 1 .. (n - 1) /\ rest[k] = x
      BY <1>1, <1>5, <2>1, <2>3
    <3> QED BY <3>1, <1>6 DEF ToSet
  <2> QED BY <2>2, <2>3
<1>10. rest \in Seq(S) /\ ToSet(rest) = ToSet(list) \ {list[j]}
  BY <1>5, <1>8, <1>9
<1> QED BY <1>7, <1>10 DEF rest

-----------------------------------------------------------------------------
(* The master. *)

LEMMA Sides == /\ Client \subseteq Host /\ GameServer \subseteq Host
               /\ \A h \in Host : h \in Client <=> h \notin GameServer
BY ArrangedAssumption DEF Host

\* A queue of a client is empty if it is not connected.
LEMMA QueueOfConnected ==
  ASSUME QueuesOK, NEW h \in Host, toMaster[h] # <<>> \/ fromMaster[h] # <<>>
  PROVE  h \in connected
BY DEF QueuesOK

LEMMA NothingListed ==
  /\ ToSet(<<>>) = {} /\ IsInjective(<<>>)
  /\ \A S : <<>> \in Seq(S)
BY DEF ToSet, IsInjective

\* What is under way between the clients and the master only gets less.
MasterShrinks ==
    /\ connected' \subseteq connected /\ UNCHANGED <<lastQueryId, joins>>
    /\ currentQueryId' \in [Client -> Nat]
    /\ \A c \in Client : /\ currentQueryId[c] <= currentQueryId'[c]
                         /\ Shrinks(toMaster'[c], toMaster[c])
                         /\ Shrinks(fromMaster'[c], fromMaster[c])
    /\ \A h \in Host : ToSet(connectList'[h]) \subseteq ToSet(connectList[h])

\* What the proofs below use of the types of the queues and the lists.
LEMMA QueueTypes ==
  ASSUME QueuesOK, NEW c \in Client
  PROVE  /\ toMaster[c] \in Seq(RequestCall) /\ fromMaster[c] \in Seq(ClientCall)
         /\ \A j \in DOMAIN toMaster[c] : /\ toMaster[c][j] \in RequestCall
                                          /\ toMaster[c][j].requestId \in Nat
         /\ \A j \in DOMAIN fromMaster[c] :
              /\ fromMaster[c][j] \in ClientCall
              /\ IsAnswer(fromMaster[c][j]) => fromMaster[c][j].requestId \in Nat
<1>1. toMaster[c] \in Seq(RequestCall) /\ fromMaster[c] \in Seq(ClientCall)
  BY DEF QueuesOK
<1>2. /\ \A j \in DOMAIN toMaster[c] : toMaster[c][j] \in RequestCall
      /\ \A j \in DOMAIN fromMaster[c] : fromMaster[c][j] \in ClientCall
  BY <1>1, LenProperties
<1> QED BY <1>1, <1>2 DEF RequestCall, ClientCall, IsAnswer

LEMMA ListTypes ==
  ASSUME ListsOK, NEW h \in Host, NEW r \in ToSet(connectList[h])
  PROVE  /\ r \in ArrangedRequest /\ r.initiator \in Client /\ r.host \in GameServer
         /\ r.initiatorQueryId \in Nat
<1>1. connectList[h] \in Seq(ArrangedRequest)
  BY DEF ListsOK
<1>2. r \in ArrangedRequest
  BY <1>1, LenProperties DEF ToSet
<1> QED BY <1>2 DEF ArrangedRequest

LEMMA MasterShrinksInv ==
  ASSUME MasterInv, MasterShrinks, QueuesOK', ListsOK', RequestListsAgree'
  PROVE  MasterInv'
<1>1. /\ connected' \subseteq Host /\ connected' \subseteq connected
      /\ lastQueryId' \in [Host -> Nat] /\ currentQueryId' \in [Client -> Nat]
      /\ joins' \in 0 .. MaxJoins
  BY DEF MasterInv, MasterShrinks
<1>2. QueuesOK /\ ListsOK /\ RequestListsAgree
      /\ QueriesAsked /\ QueriesKept /\ QueriesAnswered
  BY DEF MasterInv
<1>4. \A h \in Host : ToSet(connectList'[h]) \subseteq ToSet(connectList[h])
  BY DEF MasterShrinks
<1>7. \A c \in Client : /\ currentQueryId[c] \in Nat /\ currentQueryId'[c] \in Nat
                        /\ currentQueryId[c] <= currentQueryId'[c]
  BY DEF MasterInv, MasterShrinks
<1>8. ASSUME NEW c \in Client
      PROVE  KeptIn(toMaster'[c], toMaster[c]) /\ KeptIn(fromMaster'[c], fromMaster[c])
  BY <1>2, QueueTypes, Shrunk DEF MasterShrinks
<1>9. QueriesAsked'
  <2> SUFFICES ASSUME NEW c \in Client, NEW j \in DOMAIN toMaster'[c],
                      NEW k \in DOMAIN toMaster'[c]
               PROVE  /\ toMaster'[c][j].requestId <= currentQueryId'[c]
                      /\ toMaster'[c][j].requestId = toMaster'[c][k].requestId => j = k
    BY DEF QueriesAsked
  <2>1. PICK f \in {0, 1} : \A i \in DOMAIN toMaster'[c] :
          i \in Nat /\ i + f \in DOMAIN toMaster[c] /\ toMaster'[c][i] = toMaster[c][i + f]
    BY <1>8 DEF KeptIn
  <2>2. toMaster[c][j + f].requestId \in Nat
    BY <1>2, <2>1, QueueTypes
  <2>3. /\ toMaster[c][j + f].requestId <= currentQueryId[c]
        /\ toMaster[c][j + f].requestId = toMaster[c][k + f].requestId => j + f = k + f
    BY <1>2, <2>1 DEF QueriesAsked
  <2> QED BY <1>7, <2>1, <2>2, <2>3
<1>10. QueriesKept'
  <2> SUFFICES ASSUME NEW h \in Host, NEW r \in ToSet(connectList'[h])
               PROVE  /\ r.initiatorQueryId <= currentQueryId'[r.initiator]
                      /\ \A j \in DOMAIN toMaster'[r.initiator] :
                           toMaster'[r.initiator][j].requestId # r.initiatorQueryId
                      /\ h \in GameServer =>
                           \A s \in GameServer : \A q \in ToSet(connectList'[s]) :
                             /\ r.initiator = q.initiator
                             /\ r.initiatorQueryId = q.initiatorQueryId
                             => r = q
    BY DEF QueriesKept
  <2>1. r \in ToSet(connectList[h])
    BY <1>4
  <2>2. r.initiator \in Client /\ r.initiatorQueryId \in Nat
    BY <1>2, <2>1, ListTypes
  <2>3. r.initiatorQueryId <= currentQueryId[r.initiator]
        /\ \A j \in DOMAIN toMaster[r.initiator] :
             toMaster[r.initiator][j].requestId # r.initiatorQueryId
    BY <1>2, <2>1 DEF QueriesKept
  <2>4. \A j \in DOMAIN toMaster'[r.initiator] :
          toMaster'[r.initiator][j].requestId # r.initiatorQueryId
    BY <1>8, <2>2, <2>3 DEF KeptIn
  <2>5. h \in GameServer =>
          \A s \in GameServer : \A q \in ToSet(connectList'[s]) :
            r.initiator = q.initiator /\ r.initiatorQueryId = q.initiatorQueryId => r = q
    BY <1>2, <1>4, <2>1, Sides DEF QueriesKept
  <2> QED BY <1>7, <2>2, <2>3, <2>4, <2>5
<1>11. QueriesAnswered'
  <2> SUFFICES ASSUME NEW c \in Client, NEW j \in DOMAIN fromMaster'[c],
                      IsAnswer(fromMaster'[c][j]),
                      NEW id, id = fromMaster'[c][j].requestId
               PROVE  /\ id <= currentQueryId'[c]
                      /\ \A k \in DOMAIN fromMaster'[c] :
                           IsAnswer(fromMaster'[c][k]) /\ fromMaster'[c][k].requestId = id
                           => j = k
                      /\ \A k \in DOMAIN toMaster'[c] : toMaster'[c][k].requestId # id
                      /\ \A s \in GameServer : \A r \in ToSet(connectList'[s]) :
                           r.initiator = c => r.initiatorQueryId # id
    BY DEF QueriesAnswered, IsAnswer
  <2>1. PICK f \in {0, 1} : \A k \in DOMAIN fromMaster'[c] :
          k \in Nat /\ k + f \in DOMAIN fromMaster[c]
          /\ fromMaster'[c][k] = fromMaster[c][k + f]
    BY <1>8 DEF KeptIn
  <2>2. IsAnswer(fromMaster[c][j + f]) /\ id = fromMaster[c][j + f].requestId
        /\ j + f \in DOMAIN fromMaster[c]
    BY <2>1
  <2>3. /\ id <= currentQueryId[c]
        /\ \A k \in DOMAIN fromMaster[c] :
             IsAnswer(fromMaster[c][k]) /\ fromMaster[c][k].requestId = id => j + f = k
        /\ \A k \in DOMAIN toMaster[c] : toMaster[c][k].requestId # id
        /\ \A s \in GameServer : \A r \in ToSet(connectList[s]) :
             r.initiator = c => r.initiatorQueryId # id
    BY <1>2, <2>2 DEF QueriesAnswered
  <2>4. id <= currentQueryId'[c]
    BY <1>2, <1>7, <2>2, <2>3, QueueTypes
  <2>5. \A k \in DOMAIN fromMaster'[c] :
          IsAnswer(fromMaster'[c][k]) /\ fromMaster'[c][k].requestId = id => j = k
    BY <2>1, <2>3
  <2>6. \A k \in DOMAIN toMaster'[c] : toMaster'[c][k].requestId # id
    BY <1>8, <2>3 DEF KeptIn
  <2>7. \A s \in GameServer : \A r \in ToSet(connectList'[s]) :
          r.initiator = c => r.initiatorQueryId # id
    BY <1>4, <2>3, Sides
  <2> QED BY <2>4, <2>5, <2>6, <2>7
<1> QED BY <1>1, <1>9, <1>10, <1>11 DEF MasterInv

LEMMA InitMaster == Init => MasterInv
<1> SUFFICES ASSUME Init PROVE MasterInv
  OBVIOUS
<1> USE DEF Init
<1>1. /\ connected \subseteq Host
      /\ lastQueryId \in [Host -> Nat] /\ currentQueryId \in [Client -> Nat]
      /\ joins \in 0 .. MaxJoins
  BY ArrangedAssumption
<1>2. QueuesOK
  BY NothingListed, Sides DEF QueuesOK
<1>3. ListsOK
  <2>1. \A h \in Host : ToSet(connectList[h]) = {} /\ IsInjective(connectList[h])
                        /\ connectList[h] \in Seq(ArrangedRequest)
    BY NothingListed
  <2> QED BY <2>1, Sides DEF ListsOK
<1>4. RequestListsAgree
  BY NothingListed, Sides DEF RequestListsAgree
<1>5. QueriesAsked /\ QueriesAnswered
  BY Sides DEF QueriesAsked, QueriesAnswered
<1>6. QueriesKept
  BY NothingListed DEF QueriesKept
<1> QED BY <1>1, <1>2, <1>3, <1>4, <1>5, <1>6 DEF MasterInv

LEMMA JoinGameMaster ==
  ASSUME MasterInv, NEW c \in Client, NEW s \in GameServer, JoinGame(c, s)
  PROVE  MasterInv'
<1> DEFINE id == currentQueryId[c] + 1
           m == [rpc |-> "RequestArrangedConnection", requestId |-> id,
                 remote |-> s, number |-> joins']
<1>1. QueuesOK /\ ListsOK /\ RequestListsAgree
      /\ QueriesAsked /\ QueriesKept /\ QueriesAnswered
  BY DEF MasterInv
<1>2. /\ currentQueryId' = [currentQueryId EXCEPT ![c] = id]
      /\ currentQueryId \in [Client -> Nat] /\ currentQueryId' \in [Client -> Nat]
      /\ currentQueryId[c] \in Nat /\ id \in Nat /\ currentQueryId'[c] = id
      /\ joins \in 0 .. MaxJoins /\ joins' \in 0 .. MaxJoins
  BY ArrangedAssumption DEF MasterInv, JoinGame
<1>3. /\ toMaster' = [toMaster EXCEPT ![c] = Append(toMaster[c], m)]
      /\ c \in connected /\ m.requestId = id /\ m \in RequestCall
      /\ UNCHANGED <<connected, lastQueryId, connectList, fromMaster>>
  BY <1>2 DEF JoinGame, RequestCall
<1> HIDE DEF m, id
<1>4. /\ toMaster[c] \in Seq(RequestCall) /\ toMaster'[c] = Append(toMaster[c], m)
      /\ DOMAIN toMaster' = Host /\ \A h \in Host \ {c} : toMaster'[h] = toMaster[h]
  BY <1>1, <1>3, Sides DEF QueuesOK
<1>5. /\ toMaster'[c] \in Seq(RequestCall)
      /\ \A j \in DOMAIN toMaster'[c] :
           \/ j \in DOMAIN toMaster[c] /\ toMaster'[c][j] = toMaster[c][j]
           \/ j = Len(toMaster[c]) + 1 /\ toMaster'[c][j] = m
  BY <1>3, <1>4, Appended
<1>6. QueuesOK'
  BY <1>1, <1>3, <1>4, <1>5, Sides DEF QueuesOK
<1>7. ListsOK' /\ RequestListsAgree'
  BY <1>1, <1>3 DEF ListsOK, RequestListsAgree
<1>8. \A j \in DOMAIN toMaster[c] : /\ toMaster[c][j].requestId \in Nat
                                    /\ toMaster[c][j].requestId <= currentQueryId[c]
                                    /\ toMaster[c][j].requestId < id
  BY <1>1, <1>2, QueueTypes DEF QueriesAsked, id
<1>9. QueriesAsked'
  <2> SUFFICES ASSUME NEW d \in Client, NEW j \in DOMAIN toMaster'[d],
                      NEW k \in DOMAIN toMaster'[d]
               PROVE  /\ toMaster'[d][j].requestId <= currentQueryId'[d]
                      /\ toMaster'[d][j].requestId = toMaster'[d][k].requestId => j = k
    BY DEF QueriesAsked
  <2>1. CASE d = c
    BY <2>1, <1>1, <1>2, <1>3, <1>5, <1>8 DEF QueriesAsked
  <2>2. CASE d # c
    BY <2>2, <1>1, <1>2, <1>4, Sides DEF QueriesAsked
  <2> QED BY <2>1, <2>2
<1>10. QueriesKept'
  <2> SUFFICES ASSUME NEW h \in Host, NEW r \in ToSet(connectList[h])
               PROVE  /\ r.initiatorQueryId <= currentQueryId'[r.initiator]
                      /\ \A j \in DOMAIN toMaster'[r.initiator] :
                           toMaster'[r.initiator][j].requestId # r.initiatorQueryId
    BY <1>1, <1>3 DEF QueriesKept
  <2>1. r.initiator \in Client /\ r.initiatorQueryId \in Nat
    BY <1>1, ListTypes
  <2>2. /\ r.initiatorQueryId <= currentQueryId[r.initiator]
        /\ \A j \in DOMAIN toMaster[r.initiator] :
             toMaster[r.initiator][j].requestId # r.initiatorQueryId
    BY <1>1 DEF QueriesKept
  <2>3. CASE r.initiator = c
    <3>1. r.initiatorQueryId < id
      BY <2>1, <2>2, <2>3, <1>2 DEF id
    <3> QED BY <3>1, <2>1, <2>2, <2>3, <1>2, <1>3, <1>5
  <2>4. CASE r.initiator # c
    BY <2>1, <2>2, <2>4, <1>2, <1>4, Sides
  <2> QED BY <2>3, <2>4
<1>11. QueriesAnswered'
  <2> SUFFICES ASSUME NEW d \in Client, NEW j \in DOMAIN fromMaster[d],
                      IsAnswer(fromMaster[d][j])
               PROVE  /\ fromMaster[d][j].requestId <= currentQueryId'[d]
                      /\ \A k \in DOMAIN toMaster'[d] :
                           toMaster'[d][k].requestId # fromMaster[d][j].requestId
    BY <1>1, <1>3 DEF QueriesAnswered
  <2>1. fromMaster[d][j].requestId \in Nat
    BY <1>1, QueueTypes
  <2>2. /\ fromMaster[d][j].requestId <= currentQueryId[d]
        /\ \A k \in DOMAIN toMaster[d] :
             toMaster[d][k].requestId # fromMaster[d][j].requestId
    BY <1>1 DEF QueriesAnswered
  <2>3. CASE d = c
    <3>1. fromMaster[d][j].requestId < id
      BY <2>1, <2>2, <2>3, <1>2 DEF id
    <3> QED BY <3>1, <2>1, <2>2, <2>3, <1>2, <1>3, <1>5
  <2>4. CASE d # c
    BY <2>2, <2>4, <1>2, <1>4, Sides
  <2> QED BY <2>3, <2>4
<1> QED BY <1>2, <1>3, <1>6, <1>7, <1>9, <1>10, <1>11 DEF MasterInv

LEMMA AppendedOnce ==
  ASSUME NEW S, NEW list \in Seq(S), NEW e \in S, IsInjective(list), e \notin ToSet(list)
  PROVE  IsInjective(Append(list, e))
<1>1. \A j \in DOMAIN Append(list, e) :
        \/ j \in DOMAIN list /\ Append(list, e)[j] = list[j]
        \/ j \notin DOMAIN list /\ j = Len(list) + 1 /\ Append(list, e)[j] = e
  BY Appended
<1> QED BY <1>1 DEF IsInjective, ToSet

LEMMA MasterRequestArrangedMaster ==
  ASSUME MasterInv, NEW c \in Client, MasterRequestArranged(c)
  PROVE  MasterInv'
<1> DEFINE m == Head(toMaster[c])
           s == m.remote
           req == [number |-> m.number, initiator |-> c, host |-> s,
                   initiatorQueryId |-> m.requestId, hostQueryId |-> lastQueryId[c]]
           call == [rpc |-> "ClientRequestedArrangedConnection",
                    requestId |-> lastQueryId[c], remote |-> c, number |-> m.number]
           refusal == [rpc |-> "RejectArrangedConnection"]
<1>1. QueuesOK /\ ListsOK /\ RequestListsAgree
      /\ QueriesAsked /\ QueriesKept /\ QueriesAnswered
      /\ connected \subseteq Host /\ lastQueryId \in [Host -> Nat]
      /\ currentQueryId \in [Client -> Nat] /\ joins \in 0 .. MaxJoins
  BY DEF MasterInv
<1>2. /\ toMaster[c] \in Seq(RequestCall) /\ toMaster[c] # <<>>
      /\ toMaster' = [toMaster EXCEPT ![c] = Tail(toMaster[c])]
      /\ UNCHANGED <<connected, currentQueryId, joins>>
  BY <1>1, QueueTypes DEF MasterRequestArranged
<1>3. /\ m = toMaster[c][1] /\ 1 \in DOMAIN toMaster[c] /\ m \in RequestCall
      /\ Tail(toMaster[c]) \in Seq(RequestCall)
      /\ \A j \in DOMAIN Tail(toMaster[c]) :
           j \in Nat /\ j + 1 \in DOMAIN toMaster[c] /\ j + 1 # 1
           /\ Tail(toMaster[c])[j] = toMaster[c][j + 1]
  BY <1>2, HeadAndTail
<1>4. /\ m.requestId \in Nat /\ m.number \in Nat /\ s \in GameServer /\ s # c
      /\ lastQueryId[c] \in Nat
  BY <1>1, <1>3, Sides DEF RequestCall
<1>5. req \in ArrangedRequest /\ req.initiator = c /\ req.host = s
      /\ req.initiatorQueryId = m.requestId /\ call \in ServerCall /\ refusal \in ClientCall
      /\ ~IsAnswer(refusal)
  BY <1>4 DEF ArrangedRequest, ServerCall, ClientCall, IsAnswer
<1>6. \/ /\ s \in connected
         /\ lastQueryId' = [lastQueryId EXCEPT ![c] = @ + 1]
         /\ connectList' = [connectList EXCEPT ![c] = Append(@, req), ![s] = Append(@, req)]
         /\ fromMaster' = [fromMaster EXCEPT ![s] = Append(fromMaster[s], call)]
      \/ /\ fromMaster' = [fromMaster EXCEPT ![c] = Append(fromMaster[c], refusal)]
         /\ UNCHANGED <<lastQueryId, connectList>>
  BY DEF MasterRequestArranged
<1>7. /\ m.requestId <= currentQueryId[c]
      /\ \A j \in DOMAIN Tail(toMaster[c]) :
           Tail(toMaster[c])[j].requestId # m.requestId
  BY <1>1, <1>3 DEF QueriesAsked
<1>8. \A h \in Host : \A r \in ToSet(connectList[h]) :
        r.initiator = c => r.initiatorQueryId # m.requestId
  <2> SUFFICES ASSUME NEW h \in Host, NEW r \in ToSet(connectList[h]), r.initiator = c
               PROVE  r.initiatorQueryId # m.requestId
    OBVIOUS
  <2>1. \A j \in DOMAIN toMaster[r.initiator] :
          toMaster[r.initiator][j].requestId # r.initiatorQueryId
    BY <1>1 DEF QueriesKept
  <2> QED BY <1>3, <2>1
<1>9. \A j \in DOMAIN fromMaster[c] :
        IsAnswer(fromMaster[c][j]) => fromMaster[c][j].requestId # m.requestId
  <2> SUFFICES ASSUME NEW j \in DOMAIN fromMaster[c], IsAnswer(fromMaster[c][j])
               PROVE  fromMaster[c][j].requestId # m.requestId
    OBVIOUS
  <2>1. \A k \in DOMAIN toMaster[c] :
          toMaster[c][k].requestId # fromMaster[c][j].requestId
    BY <1>1 DEF QueriesAnswered
  <2> QED BY <1>3, <2>1
<1> HIDE DEF m, s, req, call, refusal
<1>10. lastQueryId' \in [Host -> Nat]
  <2>1. lastQueryId' = lastQueryId \/ lastQueryId' = [lastQueryId EXCEPT ![c] = @ + 1]
    BY <1>6
  <2> QED BY <1>1, <2>1
<1>11. /\ DOMAIN toMaster' = Host /\ toMaster'[c] = Tail(toMaster[c])
       /\ \A h \in Host \ {c} : toMaster'[h] = toMaster[h]
       /\ \A d \in Client : KeptIn(toMaster'[d], toMaster[d])
  <2>1. /\ DOMAIN toMaster' = Host /\ toMaster'[c] = Tail(toMaster[c])
        /\ \A h \in Host \ {c} : toMaster'[h] = toMaster[h]
    BY <1>1, <1>2, Sides DEF QueuesOK
  <2>2. \A d \in Client : Shrinks(toMaster'[d], toMaster[d])
    BY <1>2, <2>1, Sides DEF Shrinks
  <2> QED BY <1>1, <2>1, <2>2, Shrunk, QueueTypes
<1>12. QueuesOK'
  <2>1. CASE fromMaster' = [fromMaster EXCEPT ![s] = Append(fromMaster[s], call)]
             /\ s \in connected
    <3>1. Append(fromMaster[s], call) \in Seq(ServerCall)
      BY <1>1, <1>4, <1>5, AppendProperties DEF QueuesOK
    <3> QED BY <1>1, <1>2, <1>3, <1>4, <1>11, <2>1, <3>1, Sides DEF QueuesOK
  <2>2. CASE fromMaster' = [fromMaster EXCEPT ![c] = Append(fromMaster[c], refusal)]
    <3>1. Append(fromMaster[c], refusal) \in Seq(ClientCall)
      BY <1>1, <1>4, <1>5, AppendProperties DEF QueuesOK
    <3>2. c \in connected
      BY <1>1, <1>2, QueueOfConnected, Sides
    <3> QED BY <1>1, <1>2, <1>3, <1>4, <1>11, <2>2, <3>1, <3>2, Sides DEF QueuesOK
  <2> QED BY <1>6, <2>1, <2>2
<1>13. \A d \in Client : \A j \in DOMAIN fromMaster'[d] :
         IsAnswer(fromMaster'[d][j]) =>
           j \in DOMAIN fromMaster[d] /\ fromMaster'[d][j] = fromMaster[d][j]
  <2> SUFFICES ASSUME NEW d \in Client, NEW j \in DOMAIN fromMaster'[d],
                      IsAnswer(fromMaster'[d][j])
               PROVE  j \in DOMAIN fromMaster[d] /\ fromMaster'[d][j] = fromMaster[d][j]
    OBVIOUS
  <2>1. DOMAIN fromMaster = Host
    BY <1>1 DEF QueuesOK
  <2>2. CASE fromMaster' = [fromMaster EXCEPT ![s] = Append(fromMaster[s], call)]
    BY <1>4, <2>1, <2>2, Sides
  <2>3. CASE fromMaster' = [fromMaster EXCEPT ![c] = Append(fromMaster[c], refusal)]
    <3>1. CASE d = c
      <4>1. /\ fromMaster[c] \in Seq(ClientCall)
            /\ fromMaster'[c] = Append(fromMaster[c], refusal)
        BY <1>1, <2>1, <2>3, QueueTypes, Sides
      <4> QED BY <1>5, <3>1, <4>1, Appended
    <3>2. CASE d # c
      BY <2>1, <2>3, <3>2, Sides
    <3> QED BY <3>1, <3>2
  <2> QED BY <1>6, <2>2, <2>3
<1>14. QueriesAsked'
  <2> SUFFICES ASSUME NEW d \in Client, NEW j \in DOMAIN toMaster'[d],
                      NEW k \in DOMAIN toMaster'[d]
               PROVE  /\ toMaster'[d][j].requestId <= currentQueryId[d]
                      /\ toMaster'[d][j].requestId = toMaster'[d][k].requestId => j = k
    BY <1>2 DEF QueriesAsked
  <2>1. PICK f \in {0, 1} : \A i \in DOMAIN toMaster'[d] :
          i \in Nat /\ i + f \in DOMAIN toMaster[d] /\ toMaster'[d][i] = toMaster[d][i + f]
    BY <1>11 DEF KeptIn
  <2> QED BY <1>1, <2>1 DEF QueriesAsked
\* What is in a list was there, or is the new request.
<1>15. \A h \in Host : \A r \in ToSet(connectList'[h]) :
         r \in ToSet(connectList[h]) \/ (r = req /\ h \in {c, s})
  <2>1. \A h \in Host : ToSet(Append(connectList[h], req)) = ToSet(connectList[h]) \cup {req}
    BY <1>1, <1>5, Appended DEF ListsOK
  <2>2. \A h \in Host : \/ connectList'[h] = connectList[h]
                        \/ h \in {c, s} /\ connectList'[h] = Append(connectList[h], req)
    BY <1>1, <1>4, <1>6, Sides DEF ListsOK
  <2> SUFFICES ASSUME NEW h \in Host, NEW r \in ToSet(connectList'[h])
               PROVE  r \in ToSet(connectList[h]) \/ (r = req /\ h \in {c, s})
    OBVIOUS
  <2>3. CASE connectList'[h] = connectList[h]
    BY <2>3
  <2>4. CASE h \in {c, s} /\ connectList'[h] = Append(connectList[h], req)
    <3>1. r \in ToSet(connectList[h]) \cup {req}
      BY <2>1, <2>4
    <3> QED BY <2>4, <3>1
  <2> QED BY <2>2, <2>3, <2>4
<1>16. QueriesKept'
  <2> SUFFICES ASSUME NEW h \in Host, NEW r \in ToSet(connectList'[h])
               PROVE  /\ r.initiatorQueryId <= currentQueryId[r.initiator]
                      /\ \A j \in DOMAIN toMaster'[r.initiator] :
                           toMaster'[r.initiator][j].requestId # r.initiatorQueryId
                      /\ h \in GameServer =>
                           \A t \in GameServer : \A q \in ToSet(connectList'[t]) :
                             /\ r.initiator = q.initiator
                             /\ r.initiatorQueryId = q.initiatorQueryId
                             => r = q
    BY <1>2 DEF QueriesKept
  <2>1. CASE r = req
    <3>1. h \in GameServer =>
            \A t \in GameServer : \A q \in ToSet(connectList'[t]) :
              r.initiator = q.initiator /\ r.initiatorQueryId = q.initiatorQueryId => r = q
      BY <2>1, <1>5, <1>8, <1>15, Sides
    <3> QED BY <2>1, <3>1, <1>5, <1>7, <1>11
  <2>2. CASE r # req
    <3>1. r \in ToSet(connectList[h]) /\ r.initiator \in Client
      BY <2>2, <1>1, <1>15, ListTypes
    <3>2. \A j \in DOMAIN toMaster'[r.initiator] :
            toMaster'[r.initiator][j].requestId # r.initiatorQueryId
      <4>1. \A j \in DOMAIN toMaster[r.initiator] :
              toMaster[r.initiator][j].requestId # r.initiatorQueryId
        BY <3>1, <1>1 DEF QueriesKept
      <4> QED BY <3>1, <4>1, <1>11 DEF KeptIn
    <3>3. h \in GameServer =>
            \A t \in GameServer : \A q \in ToSet(connectList'[t]) :
              r.initiator = q.initiator /\ r.initiatorQueryId = q.initiatorQueryId => r = q
      BY <3>1, <1>1, <1>5, <1>8, <1>15, Sides DEF QueriesKept
    <3> QED BY <3>1, <3>2, <3>3, <1>1 DEF QueriesKept
  <2> QED BY <2>1, <2>2
<1>17. QueriesAnswered'
  <2> SUFFICES ASSUME NEW d \in Client, NEW j \in DOMAIN fromMaster'[d],
                      IsAnswer(fromMaster'[d][j]),
                      NEW id, id = fromMaster'[d][j].requestId
               PROVE  /\ id <= currentQueryId[d]
                      /\ \A k \in DOMAIN fromMaster'[d] :
                           IsAnswer(fromMaster'[d][k]) /\ fromMaster'[d][k].requestId = id
                           => j = k
                      /\ \A k \in DOMAIN toMaster'[d] : toMaster'[d][k].requestId # id
                      /\ \A t \in GameServer : \A r \in ToSet(connectList'[t]) :
                           r.initiator = d => r.initiatorQueryId # id
    BY <1>2 DEF QueriesAnswered, IsAnswer
  <2>1. j \in DOMAIN fromMaster[d] /\ id = fromMaster[d][j].requestId
        /\ IsAnswer(fromMaster[d][j])
    BY <1>13
  <2>2. /\ id <= currentQueryId[d]
        /\ \A k \in DOMAIN fromMaster[d] :
             IsAnswer(fromMaster[d][k]) /\ fromMaster[d][k].requestId = id => j = k
        /\ \A k \in DOMAIN toMaster[d] : toMaster[d][k].requestId # id
        /\ \A t \in GameServer : \A r \in ToSet(connectList[t]) :
             r.initiator = d => r.initiatorQueryId # id
    BY <1>1, <2>1 DEF QueriesAnswered
  <2>3. \A k \in DOMAIN toMaster'[d] : toMaster'[d][k].requestId # id
    BY <1>11, <2>2 DEF KeptIn
  <2>4. \A t \in GameServer : \A r \in ToSet(connectList'[t]) :
          r.initiator = d => r.initiatorQueryId # id
    BY <1>5, <1>9, <1>15, <2>1, <2>2, Sides
  <2> QED BY <1>13, <2>2, <2>3, <2>4
<1>18. CASE UNCHANGED connectList
  BY <1>1, <1>2, <1>10, <1>12, <1>14, <1>16, <1>17, <1>18
     DEF MasterInv, ListsOK, RequestListsAgree
<1>19. CASE connectList' = [connectList EXCEPT ![c] = Append(@, req), ![s] = Append(@, req)]
  <2>1. \A h \in Host : connectList[h] \in Seq(ArrangedRequest)
                        /\ IsInjective(connectList[h]) /\ req \notin ToSet(connectList[h])
    BY <1>1, <1>5, <1>8 DEF ListsOK
  <2>2. \A h \in Host : connectList'[h] = IF h \in {c, s} THEN Append(connectList[h], req)
                                          ELSE connectList[h]
    BY <1>1, <1>4, <1>19, Sides DEF ListsOK
  <2>3. \A h \in Host :
          /\ Append(connectList[h], req) \in Seq(ArrangedRequest)
          /\ IsInjective(Append(connectList[h], req))
          /\ ToSet(Append(connectList[h], req)) = ToSet(connectList[h]) \cup {req}
    BY <1>5, <2>1, Appended, AppendedOnce
  <2>4. ListsOK'
    <3>1. connectList' \in [Host -> Seq(ArrangedRequest)]
      BY <1>1, <1>19, <2>3, Sides, <1>4 DEF ListsOK
    <3>2. \A h \in Host : IsInjective(connectList'[h])
      BY <2>1, <2>2, <2>3
    <3>3. /\ \A d \in Client : \A r \in ToSet(connectList'[d]) : r.initiator = d
          /\ \A t \in GameServer : \A r \in ToSet(connectList'[t]) : r.host = t
      BY <1>1, <1>4, <1>5, <1>15, Sides DEF ListsOK
    <3> QED BY <3>1, <3>2, <3>3 DEF ListsOK
  <2>5. RequestListsAgree'
    <3> SUFFICES ASSUME NEW d \in Client \cap connected, NEW t \in GameServer \cap connected
                 PROVE  {r \in ToSet(connectList'[d]) : r.host = t}
                      = {r \in ToSet(connectList'[t]) : r.initiator = d}
      BY <1>2 DEF RequestListsAgree
    <3>1. {r \in ToSet(connectList[d]) : r.host = t}
          = {r \in ToSet(connectList[t]) : r.initiator = d}
      BY <1>1 DEF RequestListsAgree
    <3>2. /\ ToSet(connectList'[d]) = IF d = c THEN ToSet(connectList[d]) \cup {req}
                                      ELSE ToSet(connectList[d])
          /\ ToSet(connectList'[t]) = IF t = s THEN ToSet(connectList[t]) \cup {req}
                                      ELSE ToSet(connectList[t])
      BY <1>4, <2>2, <2>3, Sides
    <3> QED BY <1>5, <3>1, <3>2
  <2> QED BY <1>1, <1>2, <1>10, <1>12, <1>14, <1>16, <1>17, <2>4, <2>5 DEF MasterInv
<1> QED BY <1>6, <1>18, <1>19

LEMMA MasterAnswerMaster ==
  ASSUME MasterInv, NEW s \in GameServer, MasterAnswer(s)
  PROVE  MasterInv'
<1> DEFINE m == Head(toMaster[s])
<1>1. QueuesOK /\ ListsOK /\ RequestListsAgree
      /\ QueriesAsked /\ QueriesKept /\ QueriesAnswered
      /\ connected \subseteq Host /\ lastQueryId \in [Host -> Nat]
      /\ currentQueryId \in [Client -> Nat] /\ joins \in 0 .. MaxJoins
  BY DEF MasterInv
<1>2. /\ toMaster[s] \in Seq(ServerAnswer) /\ toMaster[s] # <<>>
      /\ toMaster' = [toMaster EXCEPT ![s] = Tail(toMaster[s])]
      /\ UNCHANGED <<connected, lastQueryId, currentQueryId, joins>>
  BY <1>1 DEF MasterAnswer, QueuesOK
<1>3. m = toMaster[s][1] /\ m \in ServerAnswer /\ Tail(toMaster[s]) \in Seq(ServerAnswer)
  BY <1>2, HeadAndTail
<1>4. m.nonce \in Nat
  BY <1>3 DEF ServerAnswer
<1>5. /\ DOMAIN toMaster' = Host /\ toMaster'[s] \in Seq(ServerAnswer)
      /\ \A h \in Host \ {s} : toMaster'[h] = toMaster[h]
      /\ s \in connected
  BY <1>1, <1>2, <1>3, QueueOfConnected, Sides DEF QueuesOK
<1>6. CASE UNCHANGED <<connectList, fromMaster>>
  <2>1. QueuesOK'
    BY <1>1, <1>2, <1>5, <1>6, Sides DEF QueuesOK
  <2>2. MasterShrinks
    BY <1>1, <1>2, <1>5, <1>6, Sides DEF MasterShrinks, Shrinks
  <2> QED BY <1>1, <1>2, <1>6, <2>1, <2>2, MasterShrinksInv DEF ListsOK, RequestListsAgree
<1>7. ASSUME NEW j \in FindRequest(connectList[s], m.requestId),
             NEW req, req = connectList[s][j],
             NEW c, c = req.initiator,
             \/ /\ c \in connected
                /\ connectList' = [connectList EXCEPT ![s] = EraseFast(@, j),
                                                      ![c] = RemoveConnectRequest(@, req)]
                /\ fromMaster' = [fromMaster EXCEPT ![c] = Append(@,
                     [rpc |-> IF m.rpc = "AcceptArrangedConnection"
                              THEN "ArrangedConnectionAccepted"
                              ELSE "ArrangedConnectionRejected",
                      requestId |-> req.initiatorQueryId, remote |-> s,
                      nonce |-> m.nonce])]
             \/ /\ c \notin connected
                /\ connectList' = [connectList EXCEPT ![s] = EraseFast(@, j)]
                /\ UNCHANGED fromMaster
      PROVE  MasterInv'
  <2>1. j \in DOMAIN connectList[s] /\ req \in ToSet(connectList[s])
    BY <1>7 DEF FindRequest, ToSet
  <2>2. /\ req \in ArrangedRequest /\ c \in Client /\ c # s /\ req.host = s
        /\ req.initiatorQueryId \in Nat
    BY <1>1, <1>7, <2>1, ListTypes, Sides DEF ListsOK
  <2>3. \A h \in Host : connectList[h] \in Seq(ArrangedRequest) /\ IsInjective(connectList[h])
    BY <1>1 DEF ListsOK
  <2>4. /\ EraseFast(connectList[s], j) \in Seq(ArrangedRequest)
        /\ IsInjective(EraseFast(connectList[s], j))
        /\ ToSet(EraseFast(connectList[s], j)) = ToSet(connectList[s]) \ {req}
    BY <1>7, <2>1, <2>3, Erased, Sides
  <2>5. /\ RemoveConnectRequest(connectList[c], req) \in Seq(ArrangedRequest)
        /\ IsInjective(RemoveConnectRequest(connectList[c], req))
        /\ ToSet(RemoveConnectRequest(connectList[c], req)) = ToSet(connectList[c]) \ {req}
    <3>1. CASE req \in ToSet(connectList[c])
      <4> DEFINE k == CHOOSE i \in DOMAIN connectList[c] : connectList[c][i] = req
      <4>1. k \in DOMAIN connectList[c] /\ connectList[c][k] = req
        BY <3>1 DEF ToSet
      <4>2. RemoveConnectRequest(connectList[c], req) = EraseFast(connectList[c], k)
        BY <3>1 DEF RemoveConnectRequest
      <4> HIDE DEF k
      <4> QED BY <2>2, <2>3, <4>1, <4>2, Erased, Sides
    <3>2. CASE req \notin ToSet(connectList[c])
      BY <2>2, <2>3, <3>2, Sides DEF RemoveConnectRequest
    <3> QED BY <3>1, <3>2
  <2>6. /\ connectList' \in [Host -> Seq(ArrangedRequest)]
        /\ \A h \in Host : IsInjective(connectList'[h])
        /\ ToSet(connectList'[s]) = ToSet(connectList[s]) \ {req}
        /\ c \in connected => ToSet(connectList'[c]) = ToSet(connectList[c]) \ {req}
        /\ \A h \in Host \ {s} :
             h # c => ToSet(connectList'[h]) = ToSet(connectList[h])
        /\ \A h \in Host : ToSet(connectList'[h]) \subseteq ToSet(connectList[h])
    <3>1. CASE connectList' = [connectList EXCEPT ![s] = EraseFast(@, j),
                                                  ![c] = RemoveConnectRequest(@, req)]
      <4>1. connectList' \in [Host -> Seq(ArrangedRequest)]
        BY <1>1, <2>2, <2>4, <2>5, <3>1, Sides DEF ListsOK
      <4>2. /\ connectList'[s] = EraseFast(connectList[s], j)
            /\ connectList'[c] = RemoveConnectRequest(connectList[c], req)
            /\ \A h \in Host \ {s, c} : connectList'[h] = connectList[h]
        BY <1>1, <2>2, <3>1, Sides DEF ListsOK
      <4> QED BY <2>3, <2>4, <2>5, <4>1, <4>2
    <3>2. CASE c \notin connected /\ connectList' = [connectList EXCEPT ![s] = EraseFast(@, j)]
      <4>1. connectList' \in [Host -> Seq(ArrangedRequest)]
        BY <1>1, <2>4, <3>2, Sides DEF ListsOK
      <4>2. /\ connectList'[s] = EraseFast(connectList[s], j)
            /\ \A h \in Host \ {s} : connectList'[h] = connectList[h]
        BY <1>1, <2>2, <3>2, Sides DEF ListsOK
      <4> QED BY <2>3, <2>4, <3>2, <4>1, <4>2
    <3> QED BY <1>7, <3>1, <3>2
  <2>7. ListsOK'
    BY <1>1, <2>6, Sides DEF ListsOK
  <2>8. RequestListsAgree'
    <3> SUFFICES ASSUME NEW d \in Client \cap connected, NEW t \in GameServer \cap connected
                 PROVE  {r \in ToSet(connectList'[d]) : r.host = t}
                      = {r \in ToSet(connectList'[t]) : r.initiator = d}
      BY <1>2 DEF RequestListsAgree
    <3>1. {r \in ToSet(connectList[d]) : r.host = t}
          = {r \in ToSet(connectList[t]) : r.initiator = d}
      BY <1>1 DEF RequestListsAgree
    <3>2. /\ ToSet(connectList'[d]) = IF d = c THEN ToSet(connectList[d]) \ {req}
                                      ELSE ToSet(connectList[d])
          /\ ToSet(connectList'[t]) = IF t = s THEN ToSet(connectList[t]) \ {req}
                                      ELSE ToSet(connectList[t])
      BY <2>2, <2>6, Sides
    <3>3. req.host = s /\ req.initiator = c
      BY <1>7, <2>2
    <3>4. ASSUME NEW r
          PROVE  r \in ToSet(connectList'[d]) /\ r.host = t
                 <=> r \in ToSet(connectList'[t]) /\ r.initiator = d
      <4>1. r \in ToSet(connectList[d]) /\ r.host = t
            <=> r \in ToSet(connectList[t]) /\ r.initiator = d
        BY <3>1
      <4>2. CASE r = req
        BY <3>2, <3>3, <4>1, <4>2
      <4>3. CASE r # req
        BY <3>2, <4>1, <4>3
      <4> QED BY <4>2, <4>3
    <3> QED BY <3>4
  <2>9. CASE c \notin connected /\ UNCHANGED fromMaster
    <3>1. QueuesOK'
      BY <1>1, <1>2, <1>5, <2>9, Sides DEF QueuesOK
    <3>2. MasterShrinks
      BY <1>1, <1>2, <1>5, <2>6, <2>9, Sides DEF MasterShrinks, Shrinks
    <3> QED BY <2>7, <2>8, <3>1, <3>2, MasterShrinksInv
  <2>10. ASSUME c \in connected,
                NEW e, e \in ClientCall, e.requestId = req.initiatorQueryId,
                fromMaster' = [fromMaster EXCEPT ![c] = Append(@, e)]
         PROVE  MasterInv'
    <3>1. /\ fromMaster[c] \in Seq(ClientCall) /\ fromMaster'[c] = Append(fromMaster[c], e)
          /\ \A h \in Host \ {c} : fromMaster'[h] = fromMaster[h]
          /\ DOMAIN fromMaster' = Host
      BY <1>1, <2>2, <2>10, Sides, QueueTypes DEF QueuesOK
    <3>2. /\ fromMaster'[c] \in Seq(ClientCall)
          /\ \A k \in DOMAIN fromMaster'[c] :
               \/ k \in DOMAIN fromMaster[c] /\ fromMaster'[c][k] = fromMaster[c][k]
               \/ k = Len(fromMaster[c]) + 1 /\ fromMaster'[c][k] = e
      BY <2>10, <3>1, Appended
    <3>3. QueuesOK'
      BY <1>1, <1>2, <1>5, <2>2, <2>10, <3>1, <3>2, Sides DEF QueuesOK
    <3>4. \A d \in Client : toMaster'[d] = toMaster[d]
      BY <1>5, Sides
    <3>5. QueriesAsked'
      <4> SUFFICES ASSUME NEW d \in Client, NEW k \in DOMAIN toMaster[d]
                   PROVE  /\ toMaster[d][k].requestId <= currentQueryId[d]
                          /\ \A i \in DOMAIN toMaster[d] :
                               toMaster[d][k].requestId = toMaster[d][i].requestId => k = i
        BY <1>2, <3>4 DEF QueriesAsked
      <4> QED BY <1>1 DEF QueriesAsked
    <3>6. QueriesKept'
      <4> SUFFICES ASSUME NEW h \in Host, NEW r \in ToSet(connectList'[h])
                   PROVE  /\ r.initiatorQueryId <= currentQueryId[r.initiator]
                          /\ \A k \in DOMAIN toMaster'[r.initiator] :
                               toMaster'[r.initiator][k].requestId # r.initiatorQueryId
                          /\ h \in GameServer =>
                               \A t \in GameServer : \A q \in ToSet(connectList'[t]) :
                                 /\ r.initiator = q.initiator
                                 /\ r.initiatorQueryId = q.initiatorQueryId
                                 => r = q
        BY <1>2 DEF QueriesKept
      <4>1. r \in ToSet(connectList[h])
        BY <2>6
      <4>2. toMaster'[r.initiator] = toMaster[r.initiator]
        BY <1>1, <3>4, <4>1, ListTypes
      <4> QED BY <1>1, <2>6, <4>1, <4>2, Sides DEF QueriesKept
    <3>7. \A t \in GameServer : \A r \in ToSet(connectList'[t]) :
            r.initiator = c => r.initiatorQueryId # req.initiatorQueryId
      <4> SUFFICES ASSUME NEW t \in GameServer, NEW r \in ToSet(connectList'[t]),
                          r.initiator = c, r.initiatorQueryId = req.initiatorQueryId
                   PROVE  FALSE
        OBVIOUS
      <4>1. r \in ToSet(connectList[t])
        BY <2>6, Sides
      <4>2. r = req
        <5>1. \A q \in ToSet(connectList[t]) :
                req.initiator = q.initiator /\ req.initiatorQueryId = q.initiatorQueryId
                => req = q
          BY <1>1, <2>1, Sides DEF QueriesKept
        <5> QED BY <1>7, <4>1, <5>1
      <4>3. t = s
        BY <1>1, <2>2, <4>1, <4>2 DEF ListsOK
      <4> QED BY <2>6, <4>2, <4>3
    <3>8. /\ req.initiatorQueryId <= currentQueryId[c]
          /\ \A k \in DOMAIN toMaster[c] : toMaster[c][k].requestId # req.initiatorQueryId
      BY <1>1, <1>7, <2>1, Sides DEF QueriesKept
    <3>9. \A k \in DOMAIN fromMaster[c] :
            IsAnswer(fromMaster[c][k]) => fromMaster[c][k].requestId # req.initiatorQueryId
      <4>1. \A k \in DOMAIN fromMaster[c] : IsAnswer(fromMaster[c][k]) =>
              \A t \in GameServer : \A r \in ToSet(connectList[t]) :
                r.initiator = c => r.initiatorQueryId # fromMaster[c][k].requestId
        BY <1>1, <2>2 DEF QueriesAnswered
      <4> QED BY <1>7, <2>1, <4>1
    <3>10. QueriesAnswered'
      <4> SUFFICES ASSUME NEW d \in Client, NEW k \in DOMAIN fromMaster'[d],
                          IsAnswer(fromMaster'[d][k]),
                          NEW id, id = fromMaster'[d][k].requestId
                   PROVE  /\ id <= currentQueryId[d]
                          /\ \A i \in DOMAIN fromMaster'[d] :
                               IsAnswer(fromMaster'[d][i]) /\ fromMaster'[d][i].requestId = id
                               => k = i
                          /\ \A i \in DOMAIN toMaster[d] : toMaster[d][i].requestId # id
                          /\ \A t \in GameServer : \A r \in ToSet(connectList'[t]) :
                               r.initiator = d => r.initiatorQueryId # id
        BY <1>2, <3>4 DEF QueriesAnswered, IsAnswer
      <4>1. CASE k \in DOMAIN fromMaster[d] /\ fromMaster'[d][k] = fromMaster[d][k]
        <5>1. /\ id <= currentQueryId[d]
              /\ \A i \in DOMAIN fromMaster[d] :
                   IsAnswer(fromMaster[d][i]) /\ fromMaster[d][i].requestId = id => k = i
              /\ \A i \in DOMAIN toMaster[d] : toMaster[d][i].requestId # id
              /\ \A t \in GameServer : \A r \in ToSet(connectList[t]) :
                   r.initiator = d => r.initiatorQueryId # id
          BY <1>1, <4>1 DEF QueriesAnswered
        <5>2. \A i \in DOMAIN fromMaster'[d] :
                IsAnswer(fromMaster'[d][i]) /\ fromMaster'[d][i].requestId = id => k = i
          <6>1. CASE d = c
            BY <2>10, <3>2, <3>9, <4>1, <5>1, <6>1
          <6>2. CASE d # c
            BY <3>1, <5>1, <6>2, Sides
          <6> QED BY <6>1, <6>2
        <5> QED BY <2>6, <5>1, <5>2, Sides
      <4>2. CASE d = c /\ k = Len(fromMaster[c]) + 1 /\ fromMaster'[d][k] = e
        <5>1. \A i \in DOMAIN fromMaster'[d] :
                IsAnswer(fromMaster'[d][i]) /\ fromMaster'[d][i].requestId = id => k = i
          BY <2>10, <3>2, <3>9, <4>2
        <5> QED BY <2>10, <3>7, <3>8, <4>2, <5>1
      <4> QED BY <3>1, <3>2, <4>1, <4>2, Sides
    <3> QED BY <1>1, <1>2, <2>7, <2>8, <3>3, <3>5, <3>6, <3>10 DEF MasterInv
  <2>11. CASE c \in connected
    <3> DEFINE e == [rpc |-> IF m.rpc = "AcceptArrangedConnection"
                              THEN "ArrangedConnectionAccepted"
                              ELSE "ArrangedConnectionRejected",
                     requestId |-> req.initiatorQueryId, remote |-> s, nonce |-> m.nonce]
    <3>1. e \in ClientCall /\ e.requestId = req.initiatorQueryId
      BY <1>4, <2>2 DEF ClientCall
    <3>2. fromMaster' = [fromMaster EXCEPT ![c] = Append(@, e)]
      BY <1>7, <2>11
    <3> HIDE DEF e
    <3> QED BY <2>10, <2>11, <3>1, <3>2
  <2> QED BY <1>7, <2>9, <2>11
<1>8. \/ UNCHANGED <<connectList, fromMaster>>
      \/ \E j \in FindRequest(connectList[s], m.requestId) :
           LET req == connectList[s][j]
               c == req.initiator
           IN  \/ /\ c \in connected
                  /\ connectList' = [connectList EXCEPT ![s] = EraseFast(@, j),
                                                        ![c] = RemoveConnectRequest(@, req)]
                  /\ fromMaster' = [fromMaster EXCEPT ![c] = Append(@,
                       [rpc |-> IF m.rpc = "AcceptArrangedConnection"
                                THEN "ArrangedConnectionAccepted"
                                ELSE "ArrangedConnectionRejected",
                        requestId |-> req.initiatorQueryId, remote |-> s,
                        nonce |-> m.nonce])]
               \/ /\ c \notin connected
                  /\ connectList' = [connectList EXCEPT ![s] = EraseFast(@, j)]
                  /\ UNCHANGED fromMaster
  BY DEF MasterAnswer
<1> HIDE DEF m
<1> QED BY <1>6, <1>7, <1>8

LEMMA DisconnectedMaster ==
  ASSUME MasterInv, NEW h \in Host, Disconnected(h)
  PROVE  MasterInv'
<1>1. QueuesOK /\ ListsOK /\ RequestListsAgree
  BY DEF MasterInv
<1>2. /\ connected' = connected \ {h}
      /\ toMaster' = [toMaster EXCEPT ![h] = <<>>]
      /\ fromMaster' = [fromMaster EXCEPT ![h] = <<>>]
      /\ connectList' = [connectList EXCEPT ![h] = <<>>]
      /\ UNCHANGED <<lastQueryId, currentQueryId, joins>>
  BY DEF Disconnected
<1>3. \A g \in Host : /\ toMaster'[g] = IF g = h THEN <<>> ELSE toMaster[g]
                      /\ fromMaster'[g] = IF g = h THEN <<>> ELSE fromMaster[g]
                      /\ connectList'[g] = IF g = h THEN <<>> ELSE connectList[g]
  BY <1>1, <1>2 DEF QueuesOK, ListsOK
<1>4. QueuesOK'
  BY <1>1, <1>2, <1>3, NothingListed, Sides DEF QueuesOK
<1>5. ListsOK'
  <2>1. connectList' \in [Host -> Seq(ArrangedRequest)]
    BY <1>1, <1>2, NothingListed DEF ListsOK
  <2> QED BY <1>1, <1>3, <2>1, NothingListed, Sides DEF ListsOK
<1>6. RequestListsAgree'
  BY <1>1, <1>2, <1>3, Sides DEF RequestListsAgree
<1>7. MasterShrinks
  <2>1. \A g \in Host : ToSet(connectList'[g]) \subseteq ToSet(connectList[g])
    BY <1>3, NothingListed
  <2>2. /\ currentQueryId' \in [Client -> Nat]
        /\ \A c \in Client : currentQueryId[c] <= currentQueryId'[c]
    BY <1>2 DEF MasterInv
  <2>3. \A c \in Client : /\ Shrinks(toMaster'[c], toMaster[c])
                          /\ Shrinks(fromMaster'[c], fromMaster[c])
    BY <1>3, Sides DEF Shrinks
  <2> QED BY <1>2, <2>1, <2>2, <2>3 DEF MasterShrinks
<1> QED BY <1>4, <1>5, <1>6, <1>7, MasterShrinksInv

\* The lists stay, and the queues of the clients lose at most their heads.
LEMMA ListsStay ==
  ASSUME MasterInv, QueuesOK', UNCHANGED <<connected, connectList, lastQueryId, joins>>,
         currentQueryId' \in [Client -> Nat],
         \A c \in Client : /\ currentQueryId[c] <= currentQueryId'[c]
                           /\ Shrinks(toMaster'[c], toMaster[c])
                           /\ Shrinks(fromMaster'[c], fromMaster[c])
  PROVE  MasterInv'
<1>1. ListsOK' /\ RequestListsAgree'
  BY DEF MasterInv, ListsOK, RequestListsAgree
<1>2. MasterShrinks
  BY DEF MasterShrinks
<1> QED BY <1>1, <1>2, MasterShrinksInv

LEMMA ServerRequestedMaster ==
  ASSUME MasterInv, NEW s \in GameServer, ServerRequested(s),
         fresh \in Nat
  PROVE  MasterInv'
<1> DEFINE m == Head(fromMaster[s])
<1>1. QueuesOK
  BY DEF MasterInv
<1>2. /\ fromMaster[s] \in Seq(ServerCall) /\ fromMaster[s] # <<>>
      /\ fromMaster' = [fromMaster EXCEPT ![s] = Tail(fromMaster[s])]
      /\ UNCHANGED <<connected, lastQueryId, connectList, currentQueryId, joins>>
  BY <1>1 DEF ServerRequested, QueuesOK
<1>3. /\ m \in ServerCall /\ Tail(fromMaster[s]) \in Seq(ServerCall)
      /\ m.requestId \in Nat /\ m.number \in Nat /\ s \in connected
  <2>1. m \in ServerCall /\ Tail(fromMaster[s]) \in Seq(ServerCall)
    BY <1>2, HeadAndTail
  <2>2. s \in connected
    BY <1>1, <1>2, QueueOfConnected, Sides
  <2> QED BY <2>1, <2>2 DEF ServerCall
<1>4. \E e \in ServerAnswer : toMaster' = [toMaster EXCEPT ![s] = Append(@, e)]
  <2> DEFINE refusal == [rpc |-> "RejectArrangedConnection", requestId |-> m.requestId,
                         nonce |-> 0, number |-> m.number]
             offer == [rpc |-> "AcceptArrangedConnection", requestId |-> m.requestId,
                       nonce |-> fresh + 1, number |-> m.number]
  <2>1. refusal \in ServerAnswer /\ offer \in ServerAnswer
    BY <1>3 DEF ServerAnswer
  <2>2. \/ toMaster' = [toMaster EXCEPT ![s] = Append(@, refusal)]
        \/ toMaster' = [toMaster EXCEPT ![s] = Append(@, offer)]
    BY DEF ServerRequested
  <2> HIDE DEF refusal, offer
  <2> QED BY <2>1, <2>2
<1>5. PICK e \in ServerAnswer : toMaster' = [toMaster EXCEPT ![s] = Append(@, e)]
  BY <1>4
<1>6. Append(toMaster[s], e) \in Seq(ServerAnswer)
  BY <1>1, AppendProperties DEF QueuesOK
<1>7. QueuesOK'
  BY <1>1, <1>2, <1>3, <1>5, <1>6, Sides DEF QueuesOK
<1>8. \A c \in Client : toMaster'[c] = toMaster[c] /\ fromMaster'[c] = fromMaster[c]
  BY <1>1, <1>2, <1>5, Sides DEF QueuesOK
<1> QED BY <1>2, <1>7, <1>8, ListsStay DEF Shrinks, MasterInv

\* A client takes what has come from the master, or does not.
LEMMA ClientTakesMaster ==
  ASSUME MasterInv, NEW c \in Client,
         UNCHANGED <<connected, lastQueryId, connectList, toMaster, joins>>,
         \/ UNCHANGED fromMaster
         \/ fromMaster[c] # <<>> /\ fromMaster' = [fromMaster EXCEPT ![c] = Tail(@)],
         \/ UNCHANGED currentQueryId
         \/ currentQueryId' = [currentQueryId EXCEPT ![c] =
                                IF c \in connected THEN Cancelled(@) ELSE @]
  PROVE  MasterInv'
<1>1. QueuesOK
  BY DEF MasterInv
<1>2. QueuesOK' /\ \A d \in Client : Shrinks(fromMaster'[d], fromMaster[d])
  <2>1. CASE UNCHANGED fromMaster
    BY <1>1, <2>1 DEF QueuesOK, Shrinks
  <2>2. CASE fromMaster[c] # <<>> /\ fromMaster' = [fromMaster EXCEPT ![c] = Tail(@)]
    <3>1. Tail(fromMaster[c]) \in Seq(ClientCall)
      BY <1>1, <2>2, HeadAndTail, QueueTypes
    <3>2. c \in connected
      BY <1>1, <2>2, QueueOfConnected, Sides
    <3> QED BY <1>1, <2>2, <3>1, <3>2, Sides DEF QueuesOK, Shrinks
  <2> QED BY <2>1, <2>2
<1>3. /\ currentQueryId' \in [Client -> Nat]
      /\ \A d \in Client : currentQueryId[d] <= currentQueryId'[d]
  BY DEF MasterInv, Cancelled
<1> QED BY <1>2, <1>3, ListsStay DEF Shrinks

LEMMA EndedMaster ==
  ASSUME NEW c \in Client, Ended(c)
  PROVE  /\ UNCHANGED <<connected, lastQueryId, connectList, toMaster, joins>>
         /\ \/ UNCHANGED currentQueryId
            \/ currentQueryId' = [currentQueryId EXCEPT ![c] =
                                   IF c \in connected THEN Cancelled(@) ELSE @]
BY DEF Ended

LEMMA NextMaster ==
  ASSUME MasterInv, fresh \in Nat, [Next]_vars
  PROVE  MasterInv'
<1>1. ASSUME NEW c \in Client, NEW s \in GameServer, JoinGame(c, s) PROVE MasterInv'
  BY <1>1, JoinGameMaster
<1>2. ASSUME NEW c \in Client, MasterRequestArranged(c) PROVE MasterInv'
  BY <1>2, MasterRequestArrangedMaster
<1>3. ASSUME NEW c \in Client, ClientAccepted(c) PROVE MasterInv'
  <2>1. /\ UNCHANGED <<connected, lastQueryId, connectList, toMaster, joins, currentQueryId>>
        /\ fromMaster[c] # <<>> /\ fromMaster' = [fromMaster EXCEPT ![c] = Tail(@)]
    BY <1>3 DEF ClientAccepted
  <2> QED BY <2>1, ClientTakesMaster
<1>4. ASSUME NEW c \in Client, ClientRejected(c) PROVE MasterInv'
  <2>1. fromMaster[c] # <<>> /\ fromMaster' = [fromMaster EXCEPT ![c] = Tail(@)]
        /\ \/ Ended(c)
           \/ UNCHANGED <<connected, lastQueryId, connectList, toMaster, joins,
                          currentQueryId>>
    BY <1>4 DEF ClientRejected
  <2> QED BY <2>1, EndedMaster, ClientTakesMaster
<1>5. ASSUME NEW c \in Client, ClientInvalidPacket(c) PROVE MasterInv'
  BY <1>5, DisconnectedMaster, Sides DEF ClientInvalidPacket
<1>6. ASSUME NEW c \in Client, EndGame(c) PROVE MasterInv'
  BY <1>6, EndedMaster, ClientTakesMaster DEF EndGame
<1>7. ASSUME NEW s \in GameServer, MasterAnswer(s) PROVE MasterInv'
  BY <1>7, MasterAnswerMaster
<1>8. ASSUME NEW s \in GameServer, ServerRequested(s) PROVE MasterInv'
  BY <1>8, ServerRequestedMaster
<1>9. ASSUME NEW h \in Host, LoseMaster(h) PROVE MasterInv'
  BY <1>9, DisconnectedMaster DEF LoseMaster
<1>10. CASE UNCHANGED master
  BY <1>10 DEF MasterInv, master, QueuesOK, ListsOK, RequestListsAgree, QueriesAsked,
               QueriesKept, QueriesAnswered
<1>11. ASSUME PunchNext \/ UNCHANGED vars PROVE UNCHANGED master
  BY <1>11 DEF PunchNext, vars, HandlePunch, HandleArrangedConnectRequest,
               HandleConnectAccept, HandleConnectReject, HandleDisconnect, Drop, TimeOut,
               Retry
<1> QED
  BY <1>1, <1>2, <1>3, <1>4, <1>5, <1>6, <1>7, <1>8, <1>9, <1>10, <1>11
     DEF Next, MasterNext

-----------------------------------------------------------------------------
(* Packets and hosts. *)

LEMMA OtherSide ==
  ASSUME NEW h \in Host, NEW g \in Other(h)
  PROVE  /\ g \in Host /\ h \in Other(g) /\ h # g
         /\ g \in Client <=> h \notin Client
BY Sides DEF Other

LEMMA SeenTypes ==
  ASSUME NEW h \in Host
  PROVE  Seen(h) \in Host \X Nat /\ Seen(h)[1] = h
BY ArrangedAssumption DEF Seen

\* The packets of a connection, and what they carry.
LEMMA PacketTypes ==
  ASSUME NEW h \in Host, NEW c, NEW addresses, addresses \subseteq Other(h) \X Nat,
         c.id \in Nat, c.nonce \in Nat, c.isInitiator \in BOOLEAN,
         NEW type \in {"Punch", "ArrangedConnectRequest", "ConnectAccept",
                       "ConnectReject", "Disconnect"},
         NEW m \in Packets(type, h, c, addresses)
  PROVE  /\ m \in PacketSet /\ m.type = type /\ m.from = Seen(h) /\ m.from[1] = h
         /\ m.to \in Other(h) /\ m.byInitiator = c.isInitiator
         /\ m.nonce = c.nonce /\ m.value = c.id
         /\ \E x \in addresses : m.to = x[1]
<1>1. PICK x \in addresses :
        m = [type |-> type, from |-> Seen(h), to |-> x[1], byInitiator |-> c.isInitiator,
             nonce |-> c.nonce, value |-> c.id]
  BY DEF Packets
<1>2. x[1] \in Other(h) /\ x[1] \in Host
  BY <1>1, OtherSide
<1>3. Seen(h) \in Host \X Nat /\ Seen(h)[1] = h
  BY SeenTypes
<1> QED BY <1>1, <1>2, <1>3 DEF PacketSet

\* A connection sends packets that may be sent.
LEMMA PacketsMaySend ==
  ASSUME NEW h \in Host, NEW c, NEW addresses, addresses \subseteq Other(h) \X Nat,
         c.id \in Nat, c.nonce \in Nat, c.isInitiator \in BOOLEAN,
         c.isInitiator <=> h \in Client, c.id <= fresh, c.nonce <= fresh,
         NEW type \in {"Punch", "ArrangedConnectRequest", "ConnectAccept",
                       "ConnectReject", "Disconnect"},
         type = "ArrangedConnectRequest" => h \in Client,
         NEW m \in Packets(type, h, c, addresses)
  PROVE  MaySend(m.from[1], m)
<1>1. /\ m \in PacketSet /\ m.type = type /\ m.from = Seen(h) /\ m.from[1] = h
      /\ m.to \in Other(h) /\ m.byInitiator = c.isInitiator
      /\ m.nonce = c.nonce /\ m.value = c.id
  BY PacketTypes
<1> QED BY <1>1 DEF MaySend

LEMMA PendTypes ==
  ASSUME NEW h \in Host, NEW c, MayPend(h, c)
  PROVE  /\ c.id \in Nat /\ c.nonce \in Nat /\ c.isInitiator \in BOOLEAN
         /\ c.id <= fresh /\ c.nonce <= fresh /\ (c.isInitiator <=> h \in Client)
         /\ c.addresses \subseteq Other(h) \X Nat
         /\ c.state # "Connected"
         /\ c.state = "SendingPunchPackets" \/ c.state = "AwaitingConnectResponse"
         /\ c.state = "AwaitingConnectResponse"
              => h \in Client /\ c.address \in Other(h) \X Nat
BY DEF MayPend, PendingSet

LEMMA ConnectTypes ==
  ASSUME NEW h \in Host, NEW c, MayConnect(h, c)
  PROVE  /\ c.id \in Nat /\ c.nonce \in Nat /\ c.isInitiator \in BOOLEAN
         /\ c.id <= fresh /\ c.nonce <= fresh /\ (c.isInitiator <=> h \in Client)
         /\ c.address \in Other(h) \X Nat /\ c.state = "Connected"
BY DEF MayConnect, ConnectionSet

\* What connection c sends when it is retried or punched, or ends.
LEMMA PunchesSent ==
  ASSUME NEW h \in Host, NEW c, MayPend(h, c), NEW m \in Punches(h, c)
  PROVE  MaySend(m.from[1], m) /\ m.type = "Punch"
<1>1. c.addresses \subseteq Other(h) \X Nat
  BY PendTypes
<1> QED BY <1>1, PendTypes, PacketsMaySend, PacketTypes DEF Punches

LEMMA RequestSent ==
  ASSUME NEW h \in Host, NEW c, MayPend(h, c), c.state = "AwaitingConnectResponse",
         NEW m \in Request(h, c)
  PROVE  /\ MaySend(m.from[1], m) /\ m.type = "ArrangedConnectRequest"
         /\ m.from[1] = h /\ m.nonce = c.nonce /\ m.value = c.id
<1> DEFINE addresses == {c.address}
<1>1. h \in Client /\ addresses \subseteq Other(h) \X Nat
  BY PendTypes
<1>2. c.id \in Nat /\ c.nonce \in Nat /\ c.isInitiator \in BOOLEAN
      /\ c.id <= fresh /\ c.nonce <= fresh /\ (c.isInitiator <=> h \in Client)
  BY PendTypes
<1>3. m \in Packets("ArrangedConnectRequest", h, c, addresses)
  BY DEF Request
<1> HIDE DEF addresses
<1>4. MaySend(m.from[1], m)
  BY <1>1, <1>2, <1>3, PacketsMaySend
<1> QED BY <1>1, <1>2, <1>3, <1>4, PacketTypes

LEMMA ConnectionSends ==
  ASSUME NEW h \in Host, NEW c, MayConnect(h, c),
         NEW type \in {"ConnectAccept", "ConnectReject", "Disconnect"},
         NEW addresses, addresses = {c.address},
         NEW m \in Packets(type, h, c, addresses)
  PROVE  /\ MaySend(m.from[1], m) /\ m.type = type
         /\ m.from[1] = h /\ m.nonce = c.nonce /\ m.value = c.id
         /\ m.to = c.address[1]
<1>1. addresses \subseteq Other(h) \X Nat
  BY ConnectTypes
<1>2. c.id \in Nat /\ c.nonce \in Nat /\ c.isInitiator \in BOOLEAN
      /\ c.id <= fresh /\ c.nonce <= fresh /\ (c.isInitiator <=> h \in Client)
  BY ConnectTypes
<1>3. type # "ArrangedConnectRequest"
  OBVIOUS
<1>4. \A x \in addresses : x[1] = c.address[1]
  OBVIOUS
<1>5. MaySend(m.from[1], m)
  BY <1>1, <1>2, <1>3, PacketsMaySend
<1> QED BY <1>1, <1>2, <1>3, <1>4, <1>5, PacketTypes

LEMMA DisconnectsSent ==
  ASSUME NEW h \in Host, NEW closed, \A c \in closed : MayConnect(h, c),
         NEW m \in Disconnects(h, closed)
  PROVE  MaySend(m.from[1], m) /\ m.type = "Disconnect"
<1>1. PICK c \in closed : m \in Packets("Disconnect", h, c, {c.address})
  BY DEF Disconnects
<1> DEFINE addresses == {c.address}
<1>2. m \in Packets("Disconnect", h, c, addresses) /\ addresses = {c.address}
  BY <1>1
<1> HIDE DEF addresses
<1> QED BY <1>2, ConnectionSends

LEMMA AcceptSent ==
  ASSUME NEW h \in Host, NEW c, MayConnect(h, c), NEW m \in Accept(h, c)
  PROVE  /\ MaySend(m.from[1], m) /\ m.type = "ConnectAccept"
         /\ m.from[1] = h /\ m.nonce = c.nonce /\ m.value = c.id
         /\ m.to = c.address[1]
<1> DEFINE addresses == {c.address}
<1>1. m \in Packets("ConnectAccept", h, c, addresses) /\ addresses = {c.address}
  BY DEF Accept
<1> HIDE DEF addresses
<1> QED BY <1>1, ConnectionSends

LEMMA RejectSent ==
  ASSUME NEW h \in Host, NEW c, MayConnect(h, c),
         NEW m \in Packets("ConnectReject", h, c, {c.address})
  PROVE  MaySend(m.from[1], m) /\ m.type = "ConnectReject"
<1> DEFINE addresses == {c.address}
<1>1. m \in Packets("ConnectReject", h, c, addresses) /\ addresses = {c.address}
  OBVIOUS
<1> HIDE DEF addresses
<1> QED BY <1>1, ConnectionSends

LEMMA IsAddress == ASSUME NEW S, NEW x \in S \X Nat PROVE x # NoAddress
<1>1. x = <<x[1], x[2]>>
  OBVIOUS
<1>2. Len(<<x[1], x[2]>>) = 2 /\ Len(<<>>) = 0
  OBVIOUS
<1> QED BY <1>1, <1>2 DEF NoAddress

LEMMA Found ==
  ASSUME NEW h, NEW x, NEW old \in FindConnection(h, x)
  PROVE  old \subseteq connections[h] /\ \A c \in old : c.address = x
BY DEF FindConnection

-----------------------------------------------------------------------------
(* Steps that keep to what hosts and packets may be. *)

SidesKept ==
    /\ fresh' \in Nat /\ fresh <= fresh'
    /\ DOMAIN pending' = Host /\ DOMAIN connections' = Host
    /\ \A h \in Host : /\ \A c \in pending'[h] : c \in pending[h] \/ MayPend(h, c)'
                       /\ \A c \in connections'[h] :
                            c \in connections[h] \/ MayConnect(h, c)'
    /\ \A m \in network' : m \in network \/ MaySend(m.from[1], m)'

LEMMA SidesKeptInv == ASSUME SidesApart, SidesKept PROVE SidesApart'
<1>1. fresh \in Nat /\ fresh' \in Nat /\ fresh <= fresh'
  BY DEF SidesApart, SidesKept
<1>2. ASSUME NEW h \in Host, NEW c, MayPend(h, c) PROVE MayPend(h, c)'
  BY <1>1, <1>2 DEF MayPend, PendingSet
<1>3. ASSUME NEW h \in Host, NEW c, MayConnect(h, c) PROVE MayConnect(h, c)'
  BY <1>1, <1>3 DEF MayConnect, ConnectionSet
<1>4. ASSUME NEW h, NEW m, MaySend(h, m) PROVE MaySend(h, m)'
  BY <1>1, <1>4 DEF MaySend, PacketSet
<1>5. /\ \A h \in Host : /\ \A c \in pending[h] : MayPend(h, c)
                         /\ \A c \in connections[h] : MayConnect(h, c)
      /\ \A m \in network : MaySend(m.from[1], m)
  BY DEF SidesApart
<1>6. \A h \in Host : \A c \in pending'[h] : MayPend(h, c)'
  BY <1>2, <1>5 DEF SidesKept
<1>7. \A h \in Host : \A c \in connections'[h] : MayConnect(h, c)'
  BY <1>3, <1>5 DEF SidesKept
<1>8. \A m \in network' : MaySend(m.from[1], m)'
  BY <1>4, <1>5 DEF SidesKept
<1> QED BY <1>1, <1>6, <1>7, <1>8 DEF SidesApart, SidesKept

\* The offers, or the grants, left in p were in q.
KeptOffers(p, q) ==
    \E f \in {0, 1} : \A j \in DOMAIN p :
       IsOffer(p[j]) => j \in Nat /\ j + f \in DOMAIN q /\ p[j] = q[j + f]

KeptGrants(p, q) ==
    \E f \in {0, 1} : \A j \in DOMAIN p :
       IsGrant(p[j]) => j \in Nat /\ j + f \in DOMAIN q /\ p[j] = q[j + f]

\* What may be offered and granted, and what it was drawn before.
LEMMA NonceTypes ==
  ASSUME QueuesOK
  PROVE  /\ \A s \in GameServer : \A j \in DOMAIN toMaster[s] : toMaster[s][j].nonce \in Nat
         /\ \A c \in Client : \A j \in DOMAIN fromMaster[c] :
              IsGrant(fromMaster[c][j]) => fromMaster[c][j].nonce \in Nat
<1>1. ASSUME NEW s \in GameServer, NEW j \in DOMAIN toMaster[s]
      PROVE  toMaster[s][j].nonce \in Nat
  <2>1. toMaster[s] \in Seq(ServerAnswer)
    BY DEF QueuesOK
  <2>2. toMaster[s][j] \in ServerAnswer
    BY <2>1, LenProperties
  <2> QED BY <2>2 DEF ServerAnswer
<1>2. ASSUME NEW c \in Client, NEW j \in DOMAIN fromMaster[c], IsGrant(fromMaster[c][j])
      PROVE  fromMaster[c][j].nonce \in Nat
  <2>1. fromMaster[c][j] \in ClientCall
    BY QueueTypes
  <2> QED BY <1>2, <2>1 DEF ClientCall, IsGrant
<1> QED BY <1>1, <1>2

\* No offer and no grant is made.
QueuesKept ==
    /\ \A s \in GameServer : KeptOffers(toMaster'[s], toMaster[s])
    /\ \A c \in Client : KeptGrants(fromMaster'[c], fromMaster[c])

NoncesKept ==
    /\ fresh \in Nat /\ fresh' \in Nat /\ fresh <= fresh'
    /\ QueuesKept
    /\ \A c \in Client : Uses(c)' \subseteq Uses(c)

LEMMA NoncesKeptInv ==
  ASSUME NoncesApart, QueuesOK, NoncesKept,
         \A c \in Client : \A u \in Uses(c) : u.nonce \in Nat
  PROVE  NoncesApart'
<1>1. fresh \in Nat /\ fresh' \in Nat /\ fresh <= fresh'
  BY DEF NoncesKept
<1>2. NoncesOffered /\ NoncesGranted /\ NoncesUsed
  BY DEF NoncesApart
<1>3. \A s \in GameServer : KeptOffers(toMaster'[s], toMaster[s])
  BY DEF NoncesKept, QueuesKept
<1>4. \A c \in Client : KeptGrants(fromMaster'[c], fromMaster[c])
  BY DEF NoncesKept, QueuesKept
<1>5. \A c \in Client : Uses(c)' \subseteq Uses(c)
  BY DEF NoncesKept
<1>6. NoncesOffered'
  <2> SUFFICES ASSUME NEW s \in GameServer, NEW j \in DOMAIN toMaster'[s],
                      IsOffer(toMaster'[s][j])
               PROVE  /\ toMaster'[s][j].nonce <= fresh'
                      /\ \A t \in GameServer : \A k \in DOMAIN toMaster'[t] :
                           /\ IsOffer(toMaster'[t][k])
                           /\ toMaster'[t][k].nonce = toMaster'[s][j].nonce
                           => s = t /\ j = k
    BY DEF NoncesOffered, IsOffer
  <2>1. PICK f \in {0, 1} : \A k \in DOMAIN toMaster'[s] :
          IsOffer(toMaster'[s][k]) =>
            k \in Nat /\ k + f \in DOMAIN toMaster[s] /\ toMaster'[s][k] = toMaster[s][k + f]
    BY <1>3 DEF KeptOffers
  <2>2. /\ toMaster[s][j + f].nonce <= fresh /\ toMaster[s][j + f].nonce \in Nat
        /\ \A t \in GameServer : \A k \in DOMAIN toMaster[t] :
             IsOffer(toMaster[t][k]) /\ toMaster[t][k].nonce = toMaster[s][j + f].nonce
             => s = t /\ j + f = k
    BY <1>2, <2>1, NonceTypes DEF NoncesOffered
  <2>3. ASSUME NEW t \in GameServer, NEW k \in DOMAIN toMaster'[t],
               IsOffer(toMaster'[t][k]), toMaster'[t][k].nonce = toMaster'[s][j].nonce
        PROVE  s = t /\ j = k
    <3>1. PICK g \in {0, 1} : k \in Nat /\ k + g \in DOMAIN toMaster[t]
                              /\ toMaster'[t][k] = toMaster[t][k + g]
      BY <1>3, <2>3 DEF KeptOffers
    <3>2. s = t
      BY <2>1, <2>2, <2>3, <3>1
    <3> QED BY <2>1, <2>2, <2>3, <3>2
  <2> QED BY <1>1, <2>1, <2>2, <2>3
<1>7. NoncesGranted'
  <2> SUFFICES ASSUME NEW c \in Client, NEW j \in DOMAIN fromMaster'[c],
                      IsGrant(fromMaster'[c][j])
               PROVE  /\ fromMaster'[c][j].nonce <= fresh'
                      /\ \A d \in Client : \A k \in DOMAIN fromMaster'[d] :
                           /\ IsGrant(fromMaster'[d][k])
                           /\ fromMaster'[d][k].nonce = fromMaster'[c][j].nonce
                           => c = d /\ j = k
                      /\ \A s \in GameServer : \A k \in DOMAIN toMaster'[s] :
                           IsOffer(toMaster'[s][k])
                           => toMaster'[s][k].nonce # fromMaster'[c][j].nonce
    BY DEF NoncesGranted, IsGrant, IsOffer
  <2>1. PICK f \in {0, 1} : \A k \in DOMAIN fromMaster'[c] :
          IsGrant(fromMaster'[c][k]) =>
            /\ k \in Nat /\ k + f \in DOMAIN fromMaster[c]
            /\ fromMaster'[c][k] = fromMaster[c][k + f]
    BY <1>4 DEF KeptGrants
  <2>2. /\ fromMaster[c][j + f].nonce <= fresh /\ fromMaster[c][j + f].nonce \in Nat
        /\ \A d \in Client : \A k \in DOMAIN fromMaster[d] :
             IsGrant(fromMaster[d][k]) /\ fromMaster[d][k].nonce = fromMaster[c][j + f].nonce
             => c = d /\ j + f = k
        /\ \A s \in GameServer : \A k \in DOMAIN toMaster[s] :
             IsOffer(toMaster[s][k]) => toMaster[s][k].nonce # fromMaster[c][j + f].nonce
    BY <1>2, <2>1, NonceTypes DEF NoncesGranted
  <2>3. ASSUME NEW d \in Client, NEW k \in DOMAIN fromMaster'[d],
               IsGrant(fromMaster'[d][k]), fromMaster'[d][k].nonce = fromMaster'[c][j].nonce
        PROVE  c = d /\ j = k
    <3>1. PICK g \in {0, 1} : k \in Nat /\ k + g \in DOMAIN fromMaster[d]
                              /\ fromMaster'[d][k] = fromMaster[d][k + g]
      BY <1>4, <2>3 DEF KeptGrants
    <3>2. c = d
      BY <2>1, <2>2, <2>3, <3>1
    <3> QED BY <2>1, <2>2, <2>3, <3>2
  <2>4. ASSUME NEW s \in GameServer, NEW k \in DOMAIN toMaster'[s],
               IsOffer(toMaster'[s][k])
        PROVE  toMaster'[s][k].nonce # fromMaster'[c][j].nonce
    BY <1>3, <2>1, <2>2, <2>4 DEF KeptOffers
  <2> QED BY <1>1, <2>1, <2>2, <2>3, <2>4
<1>8. NoncesUsed'
  <2> SUFFICES ASSUME NEW c \in Client, NEW u \in Uses(c)'
               PROVE  /\ u.nonce <= fresh'
                      /\ \A s \in GameServer : \A j \in DOMAIN toMaster'[s] :
                           IsOffer(toMaster'[s][j]) => toMaster'[s][j].nonce # u.nonce
                      /\ \A d \in Client : \A j \in DOMAIN fromMaster'[d] :
                           IsGrant(fromMaster'[d][j]) => fromMaster'[d][j].nonce # u.nonce
                      /\ \A d \in Client : \A v \in Uses(d)' :
                           u.nonce = v.nonce => c = d /\ u.id = v.id
    BY DEF NoncesUsed, IsOffer, IsGrant
  <2>1. u \in Uses(c) /\ u.nonce \in Nat
    BY <1>5
  <2>2. /\ u.nonce <= fresh
        /\ \A s \in GameServer : \A j \in DOMAIN toMaster[s] :
             IsOffer(toMaster[s][j]) => toMaster[s][j].nonce # u.nonce
        /\ \A d \in Client : \A j \in DOMAIN fromMaster[d] :
             IsGrant(fromMaster[d][j]) => fromMaster[d][j].nonce # u.nonce
        /\ \A d \in Client : \A v \in Uses(d) : u.nonce = v.nonce => c = d /\ u.id = v.id
    BY <1>2, <2>1 DEF NoncesUsed
  <2>3. \A s \in GameServer : \A j \in DOMAIN toMaster'[s] :
          IsOffer(toMaster'[s][j]) => toMaster'[s][j].nonce # u.nonce
    BY <1>3, <2>2 DEF KeptOffers
  <2>4. \A d \in Client : \A j \in DOMAIN fromMaster'[d] :
          IsGrant(fromMaster'[d][j]) => fromMaster'[d][j].nonce # u.nonce
    BY <1>4, <2>2 DEF KeptGrants
  <2> QED BY <1>1, <1>5, <2>1, <2>2, <2>3, <2>4
<1> QED BY <1>6, <1>7, <1>8 DEF NoncesApart

-----------------------------------------------------------------------------
(* Steps of the hosts that draw no number. *)

LEMMA UsesTypes ==
  ASSUME SidesApart, NEW c \in Client, NEW u \in Uses(c)
  PROVE  u.nonce \in Nat /\ u.id \in Nat /\ u.nonce <= fresh /\ u.id <= fresh
<1>1. ASSUME NEW d \in Attempts(c), u = [nonce |-> d.nonce, id |-> d.id]
      PROVE  u.nonce \in Nat /\ u.id \in Nat /\ u.nonce <= fresh /\ u.id <= fresh
  <2>1. MayPend(c, d) \/ MayConnect(c, d)
    BY <1>1, Sides DEF SidesApart, Attempts
  <2> QED BY <1>1, <2>1, PendTypes, ConnectTypes, Sides
<1>2. ASSUME NEW m \in network, u = [nonce |-> m.nonce, id |-> m.value]
      PROVE  u.nonce \in Nat /\ u.id \in Nat /\ u.nonce <= fresh /\ u.id <= fresh
  BY <1>2 DEF SidesApart, MaySend, PacketSet
<1> QED BY <1>1, <1>2 DEF Uses

\* Attempts and requests go on under the same nonces.
AttemptsKept ==
    /\ \A h \in Client : \A d \in Attempts(h)' :
         \E e \in Attempts(h) : d.nonce = e.nonce /\ d.id = e.id
    /\ \A m \in network' :
         \/ m \in network
         \/ m.type # "ArrangedConnectRequest"
         \/ \E e \in Attempts(m.from[1]) : m.nonce = e.nonce /\ m.value = e.id

LEMMA UsesKept ==
  ASSUME AttemptsKept, NEW c \in Client
  PROVE  Uses(c)' \subseteq Uses(c)
<1> SUFFICES ASSUME NEW u \in Uses(c)' PROVE u \in Uses(c)
  OBVIOUS
<1>1. ASSUME NEW d \in Attempts(c)', u = [nonce |-> d.nonce, id |-> d.id]
      PROVE  u \in Uses(c)
  <2>1. PICK e \in Attempts(c) : d.nonce = e.nonce /\ d.id = e.id
    BY DEF AttemptsKept
  <2> QED BY <1>1, <2>1 DEF Uses
<1>2. ASSUME NEW m \in network', m.type = "ArrangedConnectRequest", m.from[1] = c,
             u = [nonce |-> m.nonce, id |-> m.value]
      PROVE  u \in Uses(c)
  <2>1. CASE m \in network
    BY <1>2, <2>1 DEF Uses
  <2>2. CASE m \notin network
    <3>1. PICK e \in Attempts(c) : m.nonce = e.nonce /\ m.value = e.id
      BY <1>2, <2>2 DEF AttemptsKept
    <3> QED BY <1>2, <3>1 DEF Uses
  <2> QED BY <2>1, <2>2
<1> QED BY <1>1, <1>2 DEF Uses

LEMMA SameQueues ==
  ASSUME QueuesOK, UNCHANGED <<toMaster, fromMaster>>
  PROVE  QueuesKept
<1>1. ASSUME NEW s \in GameServer PROVE KeptOffers(toMaster'[s], toMaster[s])
  <2>1. toMaster[s] \in Seq(ServerAnswer)
    BY DEF QueuesOK
  <2>2. \A j \in DOMAIN toMaster[s] : j \in Nat /\ j + 0 = j
    BY <2>1, LenProperties
  <2> QED BY <2>2 DEF KeptOffers
<1>2. ASSUME NEW c \in Client PROVE KeptGrants(fromMaster'[c], fromMaster[c])
  <2>1. fromMaster[c] \in Seq(ClientCall)
    BY DEF QueuesOK
  <2>2. \A j \in DOMAIN fromMaster[c] : j \in Nat /\ j + 0 = j
    BY <2>1, LenProperties
  <2> QED BY <2>2 DEF KeptGrants
<1> QED BY <1>1, <1>2 DEF QueuesKept

LEMMA NoncesStay ==
  ASSUME SidesApart, NoncesApart, QueuesOK, AttemptsKept, QueuesKept, UNCHANGED fresh
  PROVE  NoncesApart'
<1>1. \A c \in Client : \A u \in Uses(c) : u.nonce \in Nat
  BY UsesTypes
<1>2. NoncesKept
  BY UsesKept DEF NoncesKept, SidesApart
<1> QED BY <1>1, <1>2, NoncesKeptInv

\* At most one connection that a host is waiting for goes on, under its nonce.
PendingKept ==
    \/ \A h \in Host : pending'[h] \subseteq pending[h]
    \/ \E h \in Host : \E c \in pending[h] : \E d :
         /\ d.nonce = c.nonce
         /\ pending' = [pending EXCEPT ![h] = (@ \ {c}) \cup {d}]

LEMMA ServersKept ==
  ASSUME SidesApart, ServersApart, PendingKept, accepted' = accepted
  PROVE  ServersApart'
<1>1. CASE \A h \in Host : pending'[h] \subseteq pending[h]
  BY <1>1, Sides DEF ServersApart
<1>2. ASSUME NEW h \in Host, NEW c \in pending[h], NEW d,
             d.nonce = c.nonce,
             pending' = [pending EXCEPT ![h] = (@ \ {c}) \cup {d}]
      PROVE  ServersApart'
  <2>1. \A g \in Host : pending'[g] = IF g = h THEN (pending[h] \ {c}) \cup {d}
                                      ELSE pending[g]
    BY <1>2 DEF SidesApart
  <2> SUFFICES ASSUME NEW s \in GameServer, NEW a \in pending'[s]
               PROVE  /\ \A t \in GameServer : \A b \in pending'[t] :
                           a.nonce = b.nonce => s = t /\ a = b
                      /\ \A x \in accepted : x.connection.nonce # a.nonce
    BY DEF ServersApart
  <2>2. CASE s = h /\ a = d
    <3>1. /\ \A t \in GameServer : \A b \in pending[t] : c.nonce = b.nonce => s = t /\ c = b
          /\ \A x \in accepted : x.connection.nonce # c.nonce
      BY <1>2, <2>2 DEF ServersApart
    <3> QED BY <1>2, <2>1, <2>2, <3>1, Sides
  <2>3. CASE ~(s = h /\ a = d)
    <3>1. a \in pending[s] /\ ~(s = h /\ a = c)
      BY <2>1, <2>3, Sides
    <3>2. /\ \A t \in GameServer : \A b \in pending[t] : a.nonce = b.nonce => s = t /\ a = b
          /\ \A x \in accepted : x.connection.nonce # a.nonce
      BY <3>1 DEF ServersApart
    <3>3. h \in GameServer => a.nonce # d.nonce
      BY <1>2, <3>1, <3>2
    <3> QED BY <2>1, <3>2, <3>3, Sides
  <2> QED BY <2>2, <2>3
<1> QED BY <1>1, <1>2 DEF PendingKept

LEMMA QuietInv ==
  ASSUME PeersInv, QueuesOK, SidesKept, AttemptsKept, PendingKept, QueuesKept,
         UNCHANGED <<fresh, accepted>>,
         network \subseteq network',
         \A m \in network' \ network :
           m.type = "ConnectAccept" =>
             \E x \in accepted : /\ x.host = m.from[1] /\ x.connection.address[1] = m.to
                                 /\ x.connection.nonce = m.nonce
                                 /\ x.connection.id = m.value,
         \A h \in Host : \A c \in connections'[h] :
           \/ c \in connections[h]
           \/ h \in Client /\ \E x \in accepted : AcceptedFor(h, c, x)
  PROVE  PeersInv'
<1>1. SidesApart'
  BY SidesKeptInv DEF PeersInv
<1>2. NoncesApart'
  BY NoncesStay DEF PeersInv
<1>3. ServersApart'
  BY ServersKept DEF PeersInv
<1>4. AcceptedRequested'
  BY DEF PeersInv, AcceptedRequested
<1>5. ServersAccepted'
  BY Sides DEF PeersInv, ServersAccepted
<1>6. AcceptsAccepted'
  BY DEF PeersInv, AcceptsAccepted
<1>7. ClientsAccepted'
  BY Sides DEF PeersInv, ClientsAccepted, AcceptedFor
<1> QED BY <1>1, <1>2, <1>3, <1>4, <1>5, <1>6, <1>7 DEF PeersInv

\* Connections end, and their ends are told: nothing else happens.
LEMMA EndsInv ==
  ASSUME PeersInv, QueuesOK, QueuesKept, UNCHANGED <<fresh, accepted>>,
         DOMAIN pending' = Host, DOMAIN connections' = Host,
         \A h \in Host : pending'[h] \subseteq pending[h]
                         /\ connections'[h] \subseteq connections[h],
         NEW S, network' = network \cup S,
         \A m \in S : MaySend(m.from[1], m) /\ m.type \in {"Disconnect", "ConnectReject"}
  PROVE  PeersInv'
<1>1. fresh \in Nat
  BY DEF PeersInv, SidesApart
<1>2. \A m \in S : MaySend(m.from[1], m)'
  BY DEF MaySend
<1>3. SidesKept
  BY <1>1, <1>2 DEF SidesKept
<1>4. AttemptsKept
  BY Sides DEF AttemptsKept, Attempts
<1>5. PendingKept
  BY DEF PendingKept
<1> QED BY <1>3, <1>4, <1>5, QuietInv

\* A connection that a host is waiting for goes on.
LEMMA GoesOnInv ==
  ASSUME PeersInv, QueuesOK, QueuesKept, UNCHANGED <<fresh, accepted, connections>>,
         NEW h \in Host, NEW c \in pending[h], NEW d, d.nonce = c.nonce, d.id = c.id,
         MayPend(h, d),
         pending' = [pending EXCEPT ![h] = (@ \ {c}) \cup {d}],
         NEW S, network' = network \cup S,
         \A m \in S : /\ MaySend(m.from[1], m)
                      /\ \/ m.type = "Punch"
                         \/ /\ m.type = "ArrangedConnectRequest"
                            /\ m.from[1] = h /\ m.nonce = c.nonce /\ m.value = c.id
  PROVE  PeersInv'
<1>1. fresh \in Nat /\ DOMAIN pending = Host /\ DOMAIN connections = Host
  BY DEF PeersInv, SidesApart
<1>2. /\ DOMAIN pending' = Host /\ pending'[h] = (pending[h] \ {c}) \cup {d}
      /\ \A g \in Host \ {h} : pending'[g] = pending[g]
  BY <1>1
<1>3. \A m \in S : MaySend(m.from[1], m)'
  BY DEF MaySend
<1>4. MayPend(h, d)'
  BY DEF MayPend
<1>5. SidesKept
  BY <1>1, <1>2, <1>3, <1>4 DEF SidesKept
<1>6. AttemptsKept
  <2>1. \A g \in Client : \A a \in Attempts(g)' :
          \E e \in Attempts(g) : a.nonce = e.nonce /\ a.id = e.id
    BY <1>2, Sides DEF Attempts
  <2>2. c \in Attempts(h)
    BY DEF Attempts
  <2> QED BY <2>1, <2>2 DEF AttemptsKept
<1>7. PendingKept
  BY DEF PendingKept
<1> QED BY <1>2, <1>5, <1>6, <1>7, QuietInv

LEMMA Arrives ==
  ASSUME SidesApart, NEW m \in network
  PROVE  /\ m \in PacketSet /\ m.nonce \in Nat /\ m.value \in Nat
         /\ m.nonce <= fresh /\ m.value <= fresh
         /\ m.to \in Host /\ m.from[1] \in Host /\ m.from \in Other(m.to) \X Nat
         /\ m.from = Seen(m.from[1])
         /\ m.to \in Other(m.from[1])
         /\ m.byInitiator <=> m.to \notin Client
         /\ m.type = "ArrangedConnectRequest" => m.to \in GameServer
<1>1. MaySend(m.from[1], m)
  BY DEF SidesApart
<1>2. /\ m \in PacketSet /\ m.nonce \in Nat /\ m.value \in Nat
      /\ m.from[1] \in Host /\ m.from = Seen(m.from[1]) /\ m.to \in Other(m.from[1])
  BY <1>1 DEF MaySend, PacketSet
<1>3. m.to \in Host /\ m.from[1] \in Other(m.to)
      /\ (m.to \in Client <=> m.from[1] \notin Client)
  BY <1>2, OtherSide
<1>4. m.from \in Other(m.to) \X Nat
  <2> DEFINE g == m.from[1]
  <2>1. g \in Host /\ g \in Other(m.to) /\ m.from = Seen(g)
    BY <1>2, <1>3
  <2> HIDE DEF g
  <2>2. SeenPort[g] \in Nat
    BY <2>1, ArrangedAssumption
  <2> QED BY <2>1, <2>2 DEF Seen
<1> QED BY <1>1, <1>2, <1>3, <1>4, Sides DEF MaySend

LEMMA RetryCounts == \A c : RetryCount(c) \in Nat
BY ArrangedAssumption, Zenon DEF RetryCount

\* A host that learns of an address still waits as it may.
LEMMA WithAddressPends ==
  ASSUME NEW h \in Host, NEW c, MayPend(h, c), NEW x \in Other(h) \X Nat
  PROVE  /\ MayPend(h, WithAddress(c, x))
         /\ WithAddress(c, x).id = c.id /\ WithAddress(c, x).nonce = c.nonce
         /\ WithAddress(c, x).state = c.state
<1>1. CASE x \in c.addresses \/ Cardinality(c.addresses) >= MaxAddresses
  BY <1>1 DEF WithAddress
<1>2. CASE ~(x \in c.addresses \/ Cardinality(c.addresses) >= MaxAddresses)
  <2> DEFINE d == [c EXCEPT !.addresses = @ \cup {x}]
             more == c.addresses \cup {x}
  <2>1. WithAddress(c, x) = d
    BY <1>2 DEF WithAddress
  <2>2. c \in PendingSet /\ x \in Host \X Nat
    BY OtherSide DEF MayPend
  <2>3. /\ d \in PendingSet /\ d.id = c.id /\ d.nonce = c.nonce /\ d.state = c.state
        /\ d.isInitiator = c.isInitiator /\ d.address = c.address
        /\ d.sendCount = c.sendCount /\ d.addresses = more
    BY <2>2 DEF PendingSet
  <2>4. /\ IsFiniteSet(c.addresses) /\ Cardinality(c.addresses) <= MaxAddresses
        /\ Cardinality(c.addresses) \in Nat /\ MaxAddresses \in Nat
    BY FS_CardinalityType, ArrangedAssumption DEF MayPend
  <2>5. IsFiniteSet(more) /\ Cardinality(more) = Cardinality(c.addresses) + 1
    BY <1>2, <2>4, FS_AddElement
  <2>6. Cardinality(more) <= MaxAddresses /\ more \subseteq Other(h) \X Nat
    BY <1>2, <2>4, <2>5 DEF MayPend
  <2>7. RetryCount(d) = RetryCount(c)
    BY <2>3 DEF RetryCount
  <2> HIDE DEF d, more
  <2>8. MayPend(h, d)
    BY <2>3, <2>5, <2>6, <2>7 DEF MayPend
  <2> QED BY <2>1, <2>3, <2>8
<1> QED BY <1>1, <1>2

LEMMA HandlePunchPeers ==
  ASSUME PeersInv, QueuesOK, NEW m \in network, HandlePunch(m)
  PROVE  PeersInv'
<1> DEFINE h == m.to
<1>1. /\ h \in Host /\ m.from \in Other(h) \X Nat
      /\ UNCHANGED <<toMaster, fromMaster, connections, fresh, accepted>>
  BY Arrives DEF HandlePunch, PeersInv, master
<1>2. PICK c \in pending[h] :
         /\ IsPunched(c, m)
         /\ IF c.isInitiator
            THEN LET d == [WithAddress(c, m.from) EXCEPT
                             !.state = "AwaitingConnectResponse", !.address = m.from,
                             !.sendCount = 1]
                 IN  /\ pending' = [pending EXCEPT ![h] = (@ \ {c}) \cup {d}]
                     /\ network' = network \cup Request(h, d)
            ELSE /\ pending' = [pending EXCEPT ![h] =
                                  (@ \ {c}) \cup {WithAddress(c, m.from)}]
                 /\ UNCHANGED network
  BY DEF HandlePunch
<1> HIDE DEF h
<1>3. MayPend(h, c)
  BY <1>1 DEF PeersInv, SidesApart
<1> DEFINE w == WithAddress(c, m.from)
<1>4. MayPend(h, w) /\ w.id = c.id /\ w.nonce = c.nonce /\ w.state = c.state
  BY <1>1, <1>3, WithAddressPends
<1>5. /\ c.isInitiator =>
           LET d == [w EXCEPT !.state = "AwaitingConnectResponse", !.address = m.from,
                              !.sendCount = 1]
           IN  /\ pending' = [pending EXCEPT ![h] = (@ \ {c}) \cup {d}]
               /\ network' = network \cup Request(h, d)
      /\ ~c.isInitiator => /\ pending' = [pending EXCEPT ![h] = (@ \ {c}) \cup {w}]
                           /\ UNCHANGED network
  BY <1>2
<1> HIDE DEF w
<1>6. CASE c.isInitiator
  <2> DEFINE d == [w EXCEPT !.state = "AwaitingConnectResponse", !.address = m.from,
                            !.sendCount = 1]
  <2>1. w \in PendingSet /\ m.from \in Host \X Nat /\ h \in Client
    BY <1>1, <1>3, <1>4, <1>6, OtherSide DEF MayPend
  <2>2. /\ d \in PendingSet /\ d.id = w.id /\ d.nonce = w.nonce
        /\ d.isInitiator = w.isInitiator /\ d.addresses = w.addresses
        /\ d.state = "AwaitingConnectResponse" /\ d.address = m.from /\ d.sendCount = 1
    BY <2>1 DEF PendingSet
  <2>3. /\ pending' = [pending EXCEPT ![h] = (@ \ {c}) \cup {d}]
        /\ network' = network \cup Request(h, d)
    BY <1>5, <1>6
  <2> HIDE DEF d
  <2>4. d.address # NoAddress /\ d.address \in (Other(h) \X Nat) \cup {NoAddress}
    BY <1>1, <2>2, IsAddress
  <2>5. d.sendCount \in 1 .. (RetryCount(d) + 1)
    BY <2>2, RetryCounts
  <2>6. MayPend(h, d)
    BY <1>4, <2>1, <2>2, <2>4, <2>5 DEF MayPend
  <2>7. \A n \in Request(h, d) : /\ MaySend(n.from[1], n)
                                 /\ n.type = "ArrangedConnectRequest"
                                 /\ n.from[1] = h /\ n.nonce = c.nonce /\ n.value = c.id
    BY <1>1, <1>4, <2>2, <2>6, RequestSent
  <2>8. d.nonce = c.nonce /\ d.id = c.id
    BY <1>4, <2>2
  <2> DEFINE S == Request(h, d)
  <2> HIDE DEF S
  <2>9. network' = network \cup S
        /\ \A n \in S : /\ MaySend(n.from[1], n)
                        /\ \/ n.type = "Punch"
                           \/ /\ n.type = "ArrangedConnectRequest"
                              /\ n.from[1] = h /\ n.nonce = c.nonce /\ n.value = c.id
    BY <2>3, <2>7 DEF S
  <2> QED BY <1>1, <2>3, <2>6, <2>8, <2>9, GoesOnInv, SameQueues
<1>7. CASE ~c.isInitiator
  <2>1. network' = network \cup {}
    BY <1>5, <1>7
  <2>2. pending' = [pending EXCEPT ![h] = (@ \ {c}) \cup {w}]
    BY <1>5, <1>7
  <2> DEFINE S == {}
  <2>3. network' = network \cup S
        /\ \A n \in S : /\ MaySend(n.from[1], n)
                        /\ \/ n.type = "Punch"
                           \/ /\ n.type = "ArrangedConnectRequest"
                              /\ n.from[1] = h /\ n.nonce = c.nonce /\ n.value = c.id
    BY <2>1
  <2> HIDE DEF S
  <2> QED BY <1>1, <1>4, <2>2, <2>3, GoesOnInv, SameQueues
<1> QED BY <1>6, <1>7

LEMMA RetryPeers ==
  ASSUME PeersInv, QueuesOK, NEW h \in Host, Retry(h)
  PROVE  PeersInv'
<1>1. UNCHANGED <<toMaster, fromMaster, connections, fresh, accepted>>
  BY DEF Retry, master
<1>2. PICK c \in pending[h] :
         IF Exhausted(c)
         THEN pending' = Removed(h, c) /\ UNCHANGED network
         ELSE /\ pending' = [pending EXCEPT ![h] = (@ \ {c}) \cup {Resent(c)}]
              /\ network' = network \cup Retried(h, c)
  BY DEF Retry
<1>3. MayPend(h, c) /\ DOMAIN pending = Host /\ DOMAIN connections = Host
  BY DEF PeersInv, SidesApart
<1>4. CASE Exhausted(c)
  <2>1. /\ DOMAIN pending' = Host /\ DOMAIN connections' = Host
        /\ \A g \in Host : pending'[g] \subseteq pending[g]
                           /\ connections'[g] \subseteq connections[g]
    BY <1>1, <1>2, <1>3, <1>4 DEF Removed
  <2> DEFINE S == {}
  <2>2. network' = network \cup S
        /\ \A m \in S : MaySend(m.from[1], m) /\ m.type \in {"Disconnect", "ConnectReject"}
    BY <1>2, <1>4
  <2> HIDE DEF S
  <2> QED BY <1>1, <2>1, <2>2, EndsInv, SameQueues
<1>5. CASE ~Exhausted(c)
  <2> DEFINE d == Resent(c)
             S == Retried(h, c)
  <2>1. c \in PendingSet /\ c.sendCount \in 1 .. (RetryCount(c) + 1)
        /\ c.sendCount <= RetryCount(c) /\ RetryCount(c) \in Nat
    BY <1>3, <1>5, RetryCounts DEF MayPend, Exhausted
  <2>2. /\ d \in PendingSet /\ d.id = c.id /\ d.nonce = c.nonce /\ d.state = c.state
        /\ d.isInitiator = c.isInitiator /\ d.address = c.address
        /\ d.addresses = c.addresses /\ d.sendCount = c.sendCount + 1
    BY <2>1 DEF Resent, PendingSet
  <2>3. RetryCount(d) = RetryCount(c)
    BY <2>2 DEF RetryCount
  <2>4. network' = network \cup S
        /\ pending' = [pending EXCEPT ![h] = (@ \ {c}) \cup {d}]
    BY <1>2, <1>5
  <2>5. \A m \in S : /\ MaySend(m.from[1], m)
                     /\ \/ m.type = "Punch"
                        \/ /\ m.type = "ArrangedConnectRequest"
                           /\ m.from[1] = h /\ m.nonce = c.nonce /\ m.value = c.id
    <3>1. CASE c.state = "SendingPunchPackets"
      BY <1>3, <3>1, PunchesSent DEF Retried
    <3>2. CASE c.state # "SendingPunchPackets"
      <4>1. c.state = "AwaitingConnectResponse"
        BY <1>3, <3>2, PendTypes
      <4> QED BY <1>3, <3>2, <4>1, RequestSent DEF Retried
    <3> QED BY <3>1, <3>2
  <2> HIDE DEF d, S
  <2>6. MayPend(h, d)
    BY <1>3, <2>1, <2>2, <2>3 DEF MayPend
  <2> QED BY <1>1, <2>2, <2>4, <2>5, <2>6, GoesOnInv, SameQueues
<1> QED BY <1>4, <1>5

\* disconnect, of a connection to a player or to the game.
LEMMA DisconnectOfPeers ==
  ASSUME PeersInv, QueuesOK, QueuesKept, UNCHANGED <<fresh, accepted>>,
         NEW h \in Host, NEW c, DisconnectOf(h, c)
  PROVE  PeersInv'
<1>1. /\ DOMAIN pending = Host /\ DOMAIN connections = Host
      /\ \A d \in connections[h] : MayConnect(h, d)
  BY DEF PeersInv, SidesApart
<1>2. /\ DOMAIN pending' = Host /\ DOMAIN connections' = Host
      /\ \A g \in Host : pending'[g] \subseteq pending[g]
                         /\ connections'[g] \subseteq connections[g]
  BY <1>1 DEF DisconnectOf, Removed
<1> DEFINE S == Disconnects(h, {c} \cap connections[h])
           closed == {c} \cap connections[h]
<1>3. network' = network \cup S
  BY DEF DisconnectOf
<1>4. \A m \in S : MaySend(m.from[1], m) /\ m.type = "Disconnect"
  <2>1. S = Disconnects(h, closed) /\ \A d \in closed : MayConnect(h, d)
    BY <1>1
  <2> HIDE DEF closed, S
  <2> QED BY <2>1, DisconnectsSent
<1> HIDE DEF S
<1> QED BY <1>2, <1>3, <1>4, EndsInv

\* An established connection or one that was waited for ends in silence.
LEMMA SilentEndPeers ==
  ASSUME PeersInv, QueuesOK, QueuesKept, UNCHANGED <<fresh, accepted, network>>,
         NEW h \in Host, NEW c,
         \/ /\ connections' = [connections EXCEPT ![h] = @ \ {c}]
            /\ UNCHANGED pending
         \/ pending' = Removed(h, c) /\ UNCHANGED connections
  PROVE  PeersInv'
<1>1. DOMAIN pending = Host /\ DOMAIN connections = Host
  BY DEF PeersInv, SidesApart
<1>2. /\ DOMAIN pending' = Host /\ DOMAIN connections' = Host
      /\ \A g \in Host : pending'[g] \subseteq pending[g]
                         /\ connections'[g] \subseteq connections[g]
  BY <1>1 DEF Removed
<1> DEFINE S == {}
<1>3. network' = network \cup S
      /\ \A m \in S : MaySend(m.from[1], m) /\ m.type \in {"Disconnect", "ConnectReject"}
  OBVIOUS
<1> HIDE DEF S
<1> QED BY <1>2, <1>3, EndsInv

LEMMA HandleConnectAcceptPeers ==
  ASSUME PeersInv, QueuesOK, NEW m \in network, HandleConnectAccept(m)
  PROVE  PeersInv'
<1> DEFINE h == m.to
<1>1. /\ SidesApart /\ NoncesUsed /\ AcceptedRequested /\ AcceptsAccepted
      /\ fresh \in Nat /\ DOMAIN pending = Host /\ DOMAIN connections = Host
  BY DEF PeersInv, NoncesApart, SidesApart
<1>2. /\ UNCHANGED <<toMaster, fromMaster, fresh, accepted, network>>
      /\ m.type = "ConnectAccept"
  BY DEF HandleConnectAccept, master
<1>3. PICK c \in FindPending(h, m.from) :
        /\ IsAccepted(c, m)
        /\ pending' = Removed(h, c)
        /\ connections' = [connections EXCEPT ![h] = @ \cup {Connected(c, c.address, m.value)}]
  BY DEF HandleConnectAccept
<1>4. /\ h \in Host /\ m.from \in Other(h) \X Nat /\ m.value \in Nat /\ m.value <= fresh
      /\ m.from = Seen(m.from[1]) /\ m.from[1] \in Host
  BY <1>1, Arrives
<1>5. /\ c \in pending[h] /\ c.address = m.from /\ c.nonce = m.nonce
      /\ c.state = "AwaitingConnectResponse"
  BY <1>3 DEF FindPending, IsAccepted
<1> HIDE DEF h
<1>6. MayPend(h, c) /\ h \in Client /\ c.id \in Nat /\ c.nonce \in Nat
      /\ c.isInitiator \in BOOLEAN /\ c.id <= fresh /\ c.nonce <= fresh
      /\ (c.isInitiator <=> h \in Client)
  BY <1>1, <1>4, <1>5, PendTypes DEF SidesApart
<1> DEFINE d == Connected(c, c.address, m.value)
<1>7. /\ d.id = c.id /\ d.nonce = c.nonce /\ d.isInitiator = c.isInitiator
      /\ d.address = m.from /\ d.recvSequence = m.value
  BY <1>5 DEF Connected
<1>8. d \in ConnectionSet
  BY <1>4, <1>5, <1>6, OtherSide DEF Connected, ConnectionSet
<1>9. MayConnect(h, d)
  BY <1>4, <1>6, <1>7, <1>8 DEF MayConnect
<1>10. pending' = Removed(h, c) /\ connections' = [connections EXCEPT ![h] = @ \cup {d}]
  BY <1>3
<1> HIDE DEF d
<1>11. /\ DOMAIN pending' = Host /\ DOMAIN connections' = Host
       /\ \A g \in Host : pending'[g] \subseteq pending[g]
       /\ connections'[h] = connections[h] \cup {d}
       /\ \A g \in Host \ {h} : connections'[g] = connections[g]
  BY <1>1, <1>4, <1>10 DEF Removed
\* The server accepted for the request of this very attempt.
<1>12. \E x \in accepted : AcceptedFor(h, d, x)
  <2>1. PICK x \in accepted :
          /\ x.host = m.from[1] /\ x.connection.address[1] = m.to
          /\ x.connection.nonce = m.nonce /\ x.connection.id = m.value
    BY <1>1, <1>2 DEF AcceptsAccepted
  <2>2. PICK n \in network :
          /\ n.type = "ArrangedConnectRequest" /\ n.from = x.connection.address
          /\ n.nonce = x.connection.nonce /\ n.value = x.connection.recvSequence
    BY <1>1 DEF AcceptedRequested
  <2>3. n.from[1] = h
    BY <2>1, <2>2 DEF h
  <2> DEFINE u == [nonce |-> n.nonce, id |-> n.value]
             v == [nonce |-> c.nonce, id |-> c.id]
  <2>4. u \in Uses(h) /\ v \in Uses(h) /\ u.nonce = n.nonce /\ v.nonce = c.nonce
        /\ u.id = n.value /\ v.id = c.id
    BY <1>5, <2>2, <2>3 DEF Uses, Attempts
  <2> HIDE DEF u, v
  <2>5. u.nonce = v.nonce
    BY <1>5, <2>1, <2>2, <2>4
  <2>6. u.id = v.id
    BY <1>1, <1>6, <2>4, <2>5 DEF NoncesUsed
  <2> QED BY <1>5, <1>7, <2>1, <2>2, <2>4, <2>6 DEF AcceptedFor, h
<1>13. MayConnect(h, d)'
  BY <1>2, <1>9 DEF MayConnect
<1>14. SidesKept
  BY <1>1, <1>2, <1>11, <1>13 DEF SidesKept
<1>15. AttemptsKept
  <2>1. \A g \in Client : \A a \in Attempts(g)' :
          \E e \in Attempts(g) : a.nonce = e.nonce /\ a.id = e.id
    BY <1>5, <1>7, <1>11, Sides DEF Attempts
  <2> QED BY <1>2, <2>1 DEF AttemptsKept
<1>16. PendingKept
  BY <1>11 DEF PendingKept
<1> QED BY <1>2, <1>6, <1>11, <1>12, <1>14, <1>15, <1>16, QuietInv, SameQueues

LEMMA AcceptAgainPeers ==
  ASSUME PeersInv, QueuesOK, UNCHANGED <<toMaster, fromMaster, fresh, accepted>>,
         UNCHANGED <<pending, connections>>,
         NEW s \in GameServer, NEW c \in connections[s],
         network' = network \cup Accept(s, c)
  PROVE  PeersInv'
<1>1. /\ MayConnect(s, c) /\ fresh \in Nat
      /\ DOMAIN pending = Host /\ DOMAIN connections = Host
      /\ [host |-> s, connection |-> c] \in accepted
  BY Sides DEF PeersInv, SidesApart, ServersAccepted
<1> DEFINE x == [host |-> s, connection |-> c]
<1>2. x \in accepted /\ x.host = s /\ x.connection = c
  BY <1>1
<1> HIDE DEF x
<1>3. \A m \in Accept(s, c) :
        /\ MaySend(m.from[1], m) /\ m.type = "ConnectAccept"
        /\ m.from[1] = s /\ m.nonce = c.nonce /\ m.value = c.id
        /\ m.to = c.address[1]
  BY <1>1, AcceptSent, Sides
<1>4. SidesKept
  <2>1. \A m \in Accept(s, c) : MaySend(m.from[1], m)'
    BY <1>3 DEF MaySend
  <2> QED BY <1>1, <2>1 DEF SidesKept
<1>5. AttemptsKept
  <2>1. \A m \in network' : m \in network \/ m.type # "ArrangedConnectRequest"
    BY <1>3
  <2>2. \A h \in Client : \A d \in Attempts(h)' :
          \E e \in Attempts(h) : d.nonce = e.nonce /\ d.id = e.id
    BY DEF Attempts
  <2> QED BY <2>1, <2>2 DEF AttemptsKept
<1>6. PendingKept
  BY DEF PendingKept
<1>7. \A m \in network' \ network :
        m.type = "ConnectAccept" =>
          \E y \in accepted : /\ y.host = m.from[1] /\ y.connection.address[1] = m.to
                              /\ y.connection.nonce = m.nonce
                              /\ y.connection.id = m.value
  BY <1>2, <1>3
<1> QED BY <1>4, <1>5, <1>6, <1>7, QuietInv, SameQueues

\* A server makes a connection of one that it was waiting for.
LEMMA AcceptPeers ==
  ASSUME PeersInv, QueuesOK, UNCHANGED <<toMaster, fromMaster, fresh>>,
         NEW m \in network, m.type = "ArrangedConnectRequest",
         NEW s, s = m.to, NEW old \in FindConnection(s, m.from),
         NEW c \in pending[s], IsRequested(c, m),
         NEW d, d = Connected(c, m.from, m.value),
         pending' = Removed(s, c),
         connections' = [connections EXCEPT ![s] = (@ \ old) \cup {d}],
         accepted' = accepted \cup {[host |-> s, connection |-> d]},
         network' = network \cup Disconnects(s, old) \cup Accept(s, d)
  PROVE  PeersInv'
<1>1. /\ SidesApart /\ ServersApart /\ NoncesApart /\ AcceptedRequested
      /\ ServersAccepted /\ AcceptsAccepted /\ ClientsAccepted
      /\ fresh \in Nat /\ DOMAIN pending = Host /\ DOMAIN connections = Host
  BY DEF PeersInv, SidesApart
<1>2. /\ s \in GameServer /\ s \in Host /\ s \notin Client
      /\ m.from \in Other(s) \X Nat /\ m.value \in Nat /\ m.value <= fresh
      /\ m.from[1] \in Host
  BY <1>1, Arrives, Sides
<1>3. c.nonce = m.nonce
  BY DEF IsRequested
<1>4. /\ MayPend(s, c) /\ c.id \in Nat /\ c.nonce \in Nat
      /\ c.isInitiator \in BOOLEAN /\ c.id <= fresh /\ c.nonce <= fresh
      /\ (c.isInitiator <=> s \in Client)
  BY <1>1, <1>2, PendTypes DEF SidesApart
<1>5. /\ d.id = c.id /\ d.nonce = c.nonce /\ d.isInitiator = c.isInitiator
      /\ d.address = m.from /\ d.recvSequence = m.value
  BY DEF Connected
<1>6. d \in ConnectionSet
  BY <1>2, <1>4, OtherSide DEF Connected, ConnectionSet
<1>7. MayConnect(s, d) /\ MayConnect(s, d)'
  BY <1>2, <1>4, <1>5, <1>6 DEF MayConnect
<1> DEFINE x == [host |-> s, connection |-> d]
<1>8. x.host = s /\ x.connection = d /\ accepted' = accepted \cup {x}
  OBVIOUS
<1> HIDE DEF x
<1>9. /\ DOMAIN pending' = Host /\ DOMAIN connections' = Host
      /\ \A g \in Host : pending'[g] \subseteq pending[g]
      /\ pending'[s] = pending[s] \ {c}
      /\ connections'[s] = (connections[s] \ old) \cup {d}
      /\ \A g \in Host \ {s} : connections'[g] = connections[g]
  BY <1>1, <1>2 DEF Removed
<1>10. \A n \in Disconnects(s, old) : MaySend(n.from[1], n) /\ n.type = "Disconnect"
  <2>1. \A e \in old : MayConnect(s, e)
    BY <1>1, <1>2, Found DEF SidesApart
  <2> QED BY <1>2, <2>1, DisconnectsSent
<1>11. \A n \in Accept(s, d) :
         /\ MaySend(n.from[1], n) /\ n.type = "ConnectAccept"
         /\ n.from[1] = s /\ n.nonce = d.nonce /\ n.value = d.id
         /\ n.to = d.address[1]
  BY <1>2, <1>7, AcceptSent
<1>12. \A n \in network' : n \in network \/ n \in Disconnects(s, old) \/ n \in Accept(s, d)
  OBVIOUS
<1>13. SidesApart'
  <2>1. \A n \in Disconnects(s, old) \cup Accept(s, d) : MaySend(n.from[1], n)'
    BY <1>10, <1>11 DEF MaySend
  <2>2. SidesKept
    BY <1>1, <1>7, <1>9, <1>12, <2>1 DEF SidesKept
  <2> QED BY <1>1, <2>2, SidesKeptInv
<1>14. NoncesApart'
  <2>1. \A n \in network' : n \in network \/ n.type # "ArrangedConnectRequest"
    BY <1>10, <1>11, <1>12
  <2>2. \A h \in Client : \A a \in Attempts(h)' :
          \E e \in Attempts(h) : a.nonce = e.nonce /\ a.id = e.id
    BY <1>2, <1>9, Sides DEF Attempts
  <2>3. AttemptsKept
    BY <2>1, <2>2 DEF AttemptsKept
  <2> QED BY <1>1, <2>3, NoncesStay, SameQueues
<1>15. ServersApart'
  <2>1. \A t \in GameServer : \A e \in pending'[t] :
          e \in pending[t] /\ e.nonce # d.nonce
    BY <1>1, <1>2, <1>5, <1>9, Sides DEF ServersApart
  <2> QED BY <1>1, <1>8, <2>1 DEF ServersApart
<1>16. AcceptedRequested'
  <2>1. /\ x.host \in GameServer /\ x.connection \in ConnectionSet
        /\ x.connection.nonce <= fresh
        /\ m.from = x.connection.address
        /\ m.nonce = x.connection.nonce /\ m.value = x.connection.recvSequence
    BY <1>2, <1>3, <1>4, <1>5, <1>6, <1>8
  <2> QED BY <1>1, <1>8, <2>1 DEF AcceptedRequested
<1>17. ServersAccepted'
  BY <1>1, <1>9, Sides DEF ServersAccepted
<1>18. AcceptsAccepted'
  <2> SUFFICES ASSUME NEW n \in network', n.type = "ConnectAccept"
               PROVE  \E y \in accepted' :
                        /\ y.host = n.from[1] /\ y.connection.address[1] = n.to
                        /\ y.connection.nonce = n.nonce /\ y.connection.id = n.value
    BY DEF AcceptsAccepted
  <2>1. CASE n \in network
    BY <1>1, <2>1 DEF AcceptsAccepted
  <2>2. CASE n \in Accept(s, d)
    BY <1>8, <1>11, <2>2
  <2> QED BY <1>10, <1>12, <2>1, <2>2
<1>19. ClientsAccepted'
  BY <1>1, <1>2, <1>8, <1>9, Sides DEF ClientsAccepted, AcceptedFor
<1> QED BY <1>13, <1>14, <1>15, <1>16, <1>17, <1>18, <1>19 DEF PeersInv

LEMMA RefusePeers ==
  ASSUME PeersInv, QueuesOK, UNCHANGED <<toMaster, fromMaster, fresh, accepted>>,
         NEW m \in network, NEW s \in Host, s = m.to, NEW old \in FindConnection(s, m.from),
         NEW c \in pending[s], NEW d, d = Connected(c, m.from, m.value),
         pending' = Removed(s, c),
         connections' = [connections EXCEPT ![s] = @ \ old],
         network' = (network \cup Disconnects(s, old))
                      \cup Packets("ConnectReject", s, d, {d.address})
  PROVE  PeersInv'
<1>1. /\ SidesApart /\ fresh \in Nat
      /\ DOMAIN pending = Host /\ DOMAIN connections = Host
  BY DEF PeersInv, SidesApart
<1>2. /\ m.from \in Other(s) \X Nat /\ m.value \in Nat /\ m.value <= fresh
      /\ m.from[1] \in Host
  BY <1>1, Arrives
<1>3. /\ MayPend(s, c) /\ c.id \in Nat /\ c.nonce \in Nat
      /\ c.isInitiator \in BOOLEAN /\ c.id <= fresh /\ c.nonce <= fresh
      /\ (c.isInitiator <=> s \in Client)
  BY <1>1, PendTypes DEF SidesApart
<1>4. /\ d.id = c.id /\ d.nonce = c.nonce /\ d.isInitiator = c.isInitiator
      /\ d.address = m.from
  BY DEF Connected
<1>5. d \in ConnectionSet
  BY <1>2, <1>3, OtherSide DEF Connected, ConnectionSet
<1>6. MayConnect(s, d)
  BY <1>2, <1>3, <1>4, <1>5 DEF MayConnect
<1>7. /\ DOMAIN pending' = Host /\ DOMAIN connections' = Host
      /\ \A g \in Host : pending'[g] \subseteq pending[g]
                         /\ connections'[g] \subseteq connections[g]
  BY <1>1 DEF Removed
<1>8. \A n \in Disconnects(s, old) : MaySend(n.from[1], n) /\ n.type = "Disconnect"
  <2>1. \A e \in old : MayConnect(s, e)
    BY <1>1, Found DEF SidesApart
  <2> QED BY <2>1, DisconnectsSent
<1> DEFINE R == Packets("ConnectReject", s, d, {d.address})
           S == Disconnects(s, old) \cup R
<1>9. \A n \in R : MaySend(n.from[1], n) /\ n.type = "ConnectReject"
  BY <1>6, RejectSent
<1>10. network' = network \cup S
  OBVIOUS
<1> HIDE DEF R
<1>11. \A n \in S : MaySend(n.from[1], n) /\ n.type \in {"Disconnect", "ConnectReject"}
  BY <1>8, <1>9
<1> HIDE DEF S
<1> QED BY <1>7, <1>10, <1>11, EndsInv, SameQueues

LEMMA HandleArrangedConnectRequestPeers ==
  ASSUME PeersInv, QueuesOK, NEW m \in network, HandleArrangedConnectRequest(m)
  PROVE  PeersInv'
<1> DEFINE s == m.to
<1>1. /\ UNCHANGED <<toMaster, fromMaster, fresh>> /\ m.type = "ArrangedConnectRequest"
  BY DEF HandleArrangedConnectRequest, master
<1>2. s \in GameServer /\ s \in Host
  BY <1>1, Arrives DEF PeersInv
<1>3. PICK old \in FindConnection(s, m.from) :
        \/ /\ \E c \in old : c.nonce = m.nonce /\ network' = network \cup Accept(s, c)
           /\ UNCHANGED <<pending, connections, accepted>>
        \/ \E c \in pending[s] :
             LET d == Connected(c, m.from, m.value)
                 sent == network \cup Disconnects(s, old)
             IN  /\ IsRequested(c, m)
                 /\ pending' = Removed(s, c)
                 /\ \/ /\ connections' = [connections EXCEPT ![s] = (@ \ old) \cup {d}]
                       /\ accepted' = accepted \cup {[host |-> s, connection |-> d]}
                       /\ network' = sent \cup Accept(s, d)
                    \/ /\ connections' = [connections EXCEPT ![s] = @ \ old]
                       /\ network' = sent \cup
                            Packets("ConnectReject", s, d, {d.address})
                       /\ UNCHANGED accepted
  BY DEF HandleArrangedConnectRequest
<1> HIDE DEF s
<1>4. CASE /\ \E c \in old : c.nonce = m.nonce /\ network' = network \cup Accept(s, c)
           /\ UNCHANGED <<pending, connections, accepted>>
  BY <1>1, <1>2, <1>4, Found, AcceptAgainPeers
<1>5. ASSUME NEW c \in pending[s], NEW d, d = Connected(c, m.from, m.value),
             IsRequested(c, m), pending' = Removed(s, c),
             \/ /\ connections' = [connections EXCEPT ![s] = (@ \ old) \cup {d}]
                /\ accepted' = accepted \cup {[host |-> s, connection |-> d]}
                /\ network' = network \cup Disconnects(s, old) \cup Accept(s, d)
             \/ /\ connections' = [connections EXCEPT ![s] = @ \ old]
                /\ network' = network \cup Disconnects(s, old)
                                \cup Packets("ConnectReject", s, d, {d.address})
                /\ UNCHANGED accepted
      PROVE  PeersInv'
  <2>1. s = m.to
    BY DEF s
  <2>2. CASE /\ connections' = [connections EXCEPT ![s] = (@ \ old) \cup {d}]
             /\ accepted' = accepted \cup {[host |-> s, connection |-> d]}
             /\ network' = network \cup Disconnects(s, old) \cup Accept(s, d)
    BY <1>1, <1>5, <2>1, <2>2, AcceptPeers
  <2>3. CASE /\ connections' = [connections EXCEPT ![s] = @ \ old]
             /\ network' = network \cup Disconnects(s, old)
                             \cup Packets("ConnectReject", s, d, {d.address})
             /\ UNCHANGED accepted
    BY <1>1, <1>2, <1>5, <2>1, <2>3, RefusePeers
  <2> QED BY <1>5, <2>2, <2>3
<1> QED BY <1>3, <1>4, <1>5

-----------------------------------------------------------------------------
(* Steps of the master, and of hosts that answer it. *)

LEMMA InitPeers == Init => PeersInv
<1> SUFFICES ASSUME Init PROVE PeersInv
  OBVIOUS
<1>1. /\ pending = [h \in Host |-> {}] /\ connections = [h \in Host |-> {}]
      /\ network = {} /\ fresh = 0 /\ accepted = {}
      /\ toMaster = [h \in Host |-> <<>>] /\ fromMaster = [h \in Host |-> <<>>]
  BY DEF Init
<1>2. SidesApart
  BY <1>1 DEF SidesApart
<1>3. /\ \A h \in Host : DOMAIN toMaster[h] = {} /\ DOMAIN fromMaster[h] = {}
      /\ \A c \in Client : Uses(c) = {}
  BY <1>1, Sides DEF Uses, Attempts
<1>4. NoncesApart
  BY <1>3, Sides DEF NoncesApart, NoncesOffered, NoncesGranted, NoncesUsed
<1>5. ServersApart /\ ServersAccepted /\ ClientsAccepted
  BY <1>1, Sides DEF ServersApart, ServersAccepted, ClientsAccepted
<1>6. AcceptedRequested /\ AcceptsAccepted
  BY <1>1 DEF AcceptedRequested, AcceptsAccepted
<1> QED BY <1>2, <1>4, <1>5, <1>6 DEF PeersInv

\* What is under way gets less, and the hosts stay as they are.
LEMMA QueuesLessPeers ==
  ASSUME PeersInv, QueuesOK, QueuesKept,
         UNCHANGED <<pending, connections, network, fresh, accepted>>
  PROVE  PeersInv'
<1>1. DOMAIN pending = Host /\ DOMAIN connections = Host
  BY DEF PeersInv, SidesApart
<1> DEFINE S == {}
<1>2. network' = network \cup S
      /\ \A m \in S : MaySend(m.from[1], m) /\ m.type \in {"Disconnect", "ConnectReject"}
  OBVIOUS
<1> HIDE DEF S
<1> QED BY <1>1, <1>2, EndsInv

\* A queue that stays or shrinks, or gets what is no offer or no grant.
LEMMA KeptCalls ==
  ASSUME NEW S, NEW q \in Seq(S), NEW p,
         Shrinks(p, q) \/ \E e \in S : p = Append(q, e) /\ ~IsOffer(e) /\ ~IsGrant(e)
  PROVE  KeptOffers(p, q) /\ KeptGrants(p, q)
<1>1. CASE Shrinks(p, q)
  BY <1>1, Shrunk DEF KeptIn, KeptOffers, KeptGrants
<1>2. ASSUME NEW e \in S, p = Append(q, e), ~IsOffer(e), ~IsGrant(e)
      PROVE  KeptOffers(p, q) /\ KeptGrants(p, q)
  <2>1. \A j \in DOMAIN p : \/ j \in DOMAIN q /\ p[j] = q[j]
                            \/ p[j] = e
    BY <1>2, Appended
  <2>2. \A j \in DOMAIN q : j \in Nat /\ j + 0 = j
    BY LenProperties
  <2> QED BY <1>2, <2>1, <2>2 DEF KeptOffers, KeptGrants
<1> QED BY <1>1, <1>2

\* The queues of one client change.
LEMMA ClientQueues ==
  ASSUME QueuesOK, NEW c \in Client,
         toMaster' = toMaster \/ \E e : toMaster' = [toMaster EXCEPT ![c] = e],
         \/ fromMaster' = fromMaster
         \/ \E h \in Host : \E e : fromMaster' = [fromMaster EXCEPT ![h] = e]
                                   /\ (h \in Client => KeptGrants(e, fromMaster[h]))
  PROVE  QueuesKept
<1>1. \A s \in GameServer : toMaster'[s] = toMaster[s]
  BY Sides DEF QueuesOK
<1>2. \A s \in GameServer : KeptOffers(toMaster'[s], toMaster[s])
  <2>1. \A s \in GameServer : toMaster[s] \in Seq(ServerAnswer)
    BY DEF QueuesOK
  <2> QED BY <1>1, <2>1, KeptCalls DEF Shrinks
<1>3. ASSUME NEW d \in Client PROVE KeptGrants(fromMaster'[d], fromMaster[d])
  <2>1. fromMaster[d] \in Seq(ClientCall)
    BY DEF QueuesOK
  <2>2. KeptGrants(fromMaster[d], fromMaster[d])
    BY <2>1, KeptCalls DEF Shrinks
  <2> QED BY <2>2, Sides DEF QueuesOK
<1> QED BY <1>2, <1>3 DEF QueuesKept

LEMMA JoinGamePeers ==
  ASSUME PeersInv, QueuesOK, NEW c \in Client, NEW s \in GameServer, JoinGame(c, s)
  PROVE  PeersInv'
<1>1. /\ UNCHANGED <<pending, connections, network, fresh, accepted, fromMaster>>
      /\ \E e : toMaster' = [toMaster EXCEPT ![c] = e]
  BY DEF JoinGame
<1> QED BY <1>1, ClientQueues, QueuesLessPeers

LEMMA MasterRequestArrangedPeers ==
  ASSUME PeersInv, QueuesOK, NEW c \in Client, MasterRequestArranged(c)
  PROVE  PeersInv'
<1> DEFINE m == Head(toMaster[c])
           refusal == [rpc |-> "RejectArrangedConnection"]
           call == [rpc |-> "ClientRequestedArrangedConnection",
                    requestId |-> lastQueryId[c], remote |-> c, number |-> m.number]
<1>1. /\ UNCHANGED <<pending, connections, network, fresh, accepted>>
      /\ toMaster' = [toMaster EXCEPT ![c] = Tail(@)] /\ toMaster[c] # <<>>
      /\ \/ fromMaster' = [fromMaster EXCEPT ![m.remote] = Append(@, call)]
         \/ fromMaster' = [fromMaster EXCEPT ![c] = Append(@, refusal)]
  BY DEF MasterRequestArranged
<1>2. m \in RequestCall
  BY <1>1, QueueTypes, HeadAndTail
<1>3. m.remote \in GameServer /\ m.remote \in Host /\ m.remote \notin Client
  BY <1>2, Sides DEF RequestCall
<1>4. refusal \in ClientCall /\ ~IsOffer(refusal) /\ ~IsGrant(refusal)
  BY DEF ClientCall, IsOffer, IsGrant
<1> HIDE DEF m, refusal, call
<1>5. KeptGrants(Append(fromMaster[c], refusal), fromMaster[c])
  BY <1>4, QueueTypes, KeptCalls
<1>6. \E h \in Host : \E e : fromMaster' = [fromMaster EXCEPT ![h] = e]
                             /\ (h \in Client => KeptGrants(e, fromMaster[h]))
  <2>1. CASE fromMaster' = [fromMaster EXCEPT ![m.remote] = Append(@, call)]
    BY <1>3, <2>1
  <2>2. CASE fromMaster' = [fromMaster EXCEPT ![c] = Append(@, refusal)]
    BY <1>5, <2>2, Sides
  <2> QED BY <1>1, <2>1, <2>2
<1>7. \E e : toMaster' = [toMaster EXCEPT ![c] = e]
  BY <1>1
<1>8. QueuesKept
  BY <1>6, <1>7, ClientQueues
<1> QED BY <1>1, <1>8, QueuesLessPeers

LEMMA DisconnectedPeers ==
  ASSUME PeersInv, QueuesOK, NEW h \in Host, Disconnected(h)
  PROVE  PeersInv'
<1>1. /\ UNCHANGED <<pending, connections, network, fresh, accepted>>
      /\ toMaster' = [toMaster EXCEPT ![h] = <<>>]
      /\ fromMaster' = [fromMaster EXCEPT ![h] = <<>>]
  BY DEF Disconnected
<1>2. \A g \in Host : /\ Shrinks(toMaster'[g], toMaster[g])
                      /\ Shrinks(fromMaster'[g], fromMaster[g])
  BY <1>1 DEF QueuesOK, Shrinks
<1>3. \A s \in GameServer : toMaster[s] \in Seq(ServerAnswer)
  BY DEF QueuesOK
<1>4. \A c \in Client : fromMaster[c] \in Seq(ClientCall)
  BY DEF QueuesOK
<1>5. QueuesKept
  BY <1>2, <1>3, <1>4, KeptCalls, Sides DEF QueuesKept
<1> QED BY <1>1, <1>5, QueuesLessPeers

LEMMA EndedPeers ==
  ASSUME PeersInv, QueuesOK, QueuesKept, NEW c \in Client, Ended(c)
  PROVE  PeersInv'
<1>1. UNCHANGED <<fresh, accepted>>
  BY DEF Ended
<1>2. CASE UNCHANGED <<pending, connections, network>>
  BY <1>1, <1>2, QueuesLessPeers
<1>3. ASSUME NEW d, DisconnectOf(c, d) PROVE PeersInv'
  BY <1>1, <1>3, DisconnectOfPeers, Sides
<1>4. UNCHANGED <<pending, connections, network>> \/ \E d : DisconnectOf(c, d)
  BY DEF Ended
<1> QED BY <1>2, <1>3, <1>4

\* A client takes an answer that is no grant, or that is old.
LEMMA TakenQueues ==
  ASSUME QueuesOK, NEW c \in Client, fromMaster[c] # <<>>, toMaster' = toMaster,
         fromMaster' = [fromMaster EXCEPT ![c] = Tail(@)]
  PROVE  QueuesKept
<1>1. KeptGrants(Tail(fromMaster[c]), fromMaster[c])
  BY QueueTypes, KeptCalls DEF Shrinks
<1> QED BY <1>1, ClientQueues, Sides

LEMMA ClientRejectedPeers ==
  ASSUME PeersInv, QueuesOK, NEW c \in Client, ClientRejected(c)
  PROVE  PeersInv'
<1>1. /\ fromMaster[c] # <<>> /\ fromMaster' = [fromMaster EXCEPT ![c] = Tail(@)]
      /\ \/ Ended(c)
         \/ UNCHANGED <<toMaster, pending, connections, network, fresh, accepted>>
  BY DEF ClientRejected
<1>2. toMaster' = toMaster
  BY <1>1 DEF Ended
<1>3. QueuesKept
  BY <1>1, <1>2, TakenQueues
<1> QED BY <1>1, <1>3, EndedPeers, QueuesLessPeers

\* The master passes the nonce of an offer on: it is under way to the client then.
LEMMA GrantedApart ==
  ASSUME SidesApart, NoncesApart, QueuesOK, NEW s \in GameServer, NEW c \in Client,
         toMaster[s] # <<>>, toMaster' = [toMaster EXCEPT ![s] = Tail(@)],
         NEW g \in ClientCall, fromMaster' = [fromMaster EXCEPT ![c] = Append(@, g)],
         IsGrant(g) => IsOffer(toMaster[s][1]) /\ g.nonce = toMaster[s][1].nonce,
         UNCHANGED <<pending, connections, network, fresh>>
  PROVE  NoncesApart'
<1>1. NoncesOffered /\ NoncesGranted /\ NoncesUsed
  BY DEF NoncesApart
<1>2. toMaster[s] \in Seq(ServerAnswer) /\ fromMaster[c] \in Seq(ClientCall)
  BY DEF QueuesOK
<1>3. /\ 1 \in DOMAIN toMaster[s]
      /\ \A j \in DOMAIN Tail(toMaster[s]) :
           /\ j \in Nat /\ j + 1 \in DOMAIN toMaster[s] /\ j + 1 # 1
           /\ Tail(toMaster[s])[j] = toMaster[s][j + 1]
  BY <1>2, HeadAndTail
<1>4. /\ toMaster'[s] = Tail(toMaster[s])
      /\ \A t \in GameServer \ {s} : toMaster'[t] = toMaster[t]
      /\ fromMaster'[c] = Append(fromMaster[c], g)
      /\ \A d \in Client \ {c} : fromMaster'[d] = fromMaster[d]
  BY Sides DEF QueuesOK
<1>5. \A j \in DOMAIN fromMaster'[c] :
        \/ j \in DOMAIN fromMaster[c] /\ fromMaster'[c][j] = fromMaster[c][j]
        \/ j \notin DOMAIN fromMaster[c] /\ j = Len(fromMaster[c]) + 1 /\ fromMaster'[c][j] = g
  BY <1>2, <1>4, Appended
\* Every offer left was there before, and is not the one that was taken.
<1>6. ASSUME NEW t \in GameServer, NEW k \in DOMAIN toMaster'[t]
      PROVE  \E i \in DOMAIN toMaster[t] :
               /\ toMaster'[t][k] = toMaster[t][i] /\ (t = s => i # 1)
               /\ i = IF t = s THEN k + 1 ELSE k
               /\ t = s => k \in Nat
  <2>1. CASE t = s
    <3>1. k \in DOMAIN Tail(toMaster[s]) /\ toMaster'[t][k] = Tail(toMaster[s])[k]
      BY <1>4, <2>1
    <3>2. /\ k \in Nat /\ k + 1 \in DOMAIN toMaster[s] /\ k + 1 # 1
          /\ Tail(toMaster[s])[k] = toMaster[s][k + 1]
      BY <1>3, <3>1
    <3> QED BY <2>1, <3>1, <3>2
  <2>2. CASE t # s
    BY <1>4, <1>6, <2>2
  <2> QED BY <2>1, <2>2
<1>7. ASSUME NEW d \in Client, NEW k \in DOMAIN fromMaster'[d]
      PROVE  \/ k \in DOMAIN fromMaster[d] /\ fromMaster'[d][k] = fromMaster[d][k]
             \/ /\ d = c /\ k \notin DOMAIN fromMaster[c]
                /\ k = Len(fromMaster[c]) + 1 /\ fromMaster'[d][k] = g
  BY <1>4, <1>5, <1>7
<1> DEFINE n == toMaster[s][1].nonce
<1>8. IsGrant(g) =>
        /\ g.nonce = n /\ n <= fresh
        /\ \A t \in GameServer : \A k \in DOMAIN toMaster[t] :
             IsOffer(toMaster[t][k]) /\ toMaster[t][k].nonce = n => s = t /\ 1 = k
        /\ \A d \in Client : \A k \in DOMAIN fromMaster[d] :
             IsGrant(fromMaster[d][k]) => fromMaster[d][k].nonce # n
        /\ \A d \in Client : \A u \in Uses(d) : u.nonce # n
  BY <1>1, <1>3 DEF NoncesOffered, NoncesGranted, NoncesUsed
<1> HIDE DEF n
<1>9. \A d \in Client : Uses(d)' = Uses(d)
  BY DEF Uses, Attempts
<1>10. NoncesOffered'
  <2> SUFFICES ASSUME NEW t \in GameServer, NEW j \in DOMAIN toMaster'[t],
                      IsOffer(toMaster'[t][j])
               PROVE  /\ toMaster'[t][j].nonce <= fresh'
                      /\ \A u \in GameServer : \A k \in DOMAIN toMaster'[u] :
                           /\ IsOffer(toMaster'[u][k])
                           /\ toMaster'[u][k].nonce = toMaster'[t][j].nonce
                           => t = u /\ j = k
    BY DEF NoncesOffered, IsOffer
  <2>1. PICK i \in DOMAIN toMaster[t] : toMaster'[t][j] = toMaster[t][i]
                                        /\ i = (IF t = s THEN j + 1 ELSE j)
                                        /\ (t = s => j \in Nat)
    BY <1>6
  <2>2. /\ toMaster[t][i].nonce <= fresh
        /\ \A u \in GameServer : \A k \in DOMAIN toMaster[u] :
             IsOffer(toMaster[u][k]) /\ toMaster[u][k].nonce = toMaster[t][i].nonce
             => t = u /\ i = k
    BY <1>1, <2>1 DEF NoncesOffered
  <2>3. ASSUME NEW u \in GameServer, NEW k \in DOMAIN toMaster'[u],
               IsOffer(toMaster'[u][k]), toMaster'[u][k].nonce = toMaster'[t][j].nonce
        PROVE  t = u /\ j = k
    <3>1. PICK l \in DOMAIN toMaster[u] : toMaster'[u][k] = toMaster[u][l]
                                          /\ l = (IF u = s THEN k + 1 ELSE k)
                                          /\ (u = s => k \in Nat)
      BY <1>6
    <3>2. t = u /\ i = l
      BY <2>1, <2>2, <2>3, <3>1
    <3> QED BY <2>1, <3>1, <3>2
  <2> QED BY <2>1, <2>2, <2>3
<1>11. NoncesGranted'
  <2> SUFFICES ASSUME NEW d \in Client, NEW j \in DOMAIN fromMaster'[d],
                      IsGrant(fromMaster'[d][j])
               PROVE  /\ fromMaster'[d][j].nonce <= fresh'
                      /\ \A e \in Client : \A k \in DOMAIN fromMaster'[e] :
                           /\ IsGrant(fromMaster'[e][k])
                           /\ fromMaster'[e][k].nonce = fromMaster'[d][j].nonce
                           => d = e /\ j = k
                      /\ \A t \in GameServer : \A k \in DOMAIN toMaster'[t] :
                           IsOffer(toMaster'[t][k])
                           => toMaster'[t][k].nonce # fromMaster'[d][j].nonce
    BY DEF NoncesGranted, IsGrant, IsOffer
  <2>1. CASE j \in DOMAIN fromMaster[d] /\ fromMaster'[d][j] = fromMaster[d][j]
    <3>1. /\ fromMaster[d][j].nonce <= fresh
          /\ \A e \in Client : \A k \in DOMAIN fromMaster[e] :
               IsGrant(fromMaster[e][k]) /\ fromMaster[e][k].nonce = fromMaster[d][j].nonce
               => d = e /\ j = k
          /\ \A t \in GameServer : \A k \in DOMAIN toMaster[t] :
               IsOffer(toMaster[t][k]) => toMaster[t][k].nonce # fromMaster[d][j].nonce
      BY <1>1, <2>1 DEF NoncesGranted
    <3>2. IsGrant(g) => fromMaster[d][j].nonce # g.nonce
      BY <1>8, <2>1
    <3>3. \A t \in GameServer : \A k \in DOMAIN toMaster'[t] :
            IsOffer(toMaster'[t][k]) => toMaster'[t][k].nonce # fromMaster[d][j].nonce
      BY <1>6, <3>1
    <3>4. \A e \in Client : \A k \in DOMAIN fromMaster'[e] :
            IsGrant(fromMaster'[e][k]) /\ fromMaster'[e][k].nonce = fromMaster[d][j].nonce
            => d = e /\ j = k
      BY <1>7, <3>1, <3>2
    <3> QED BY <2>1, <3>1, <3>3, <3>4
  <2>2. CASE /\ d = c /\ j \notin DOMAIN fromMaster[c]
             /\ j = Len(fromMaster[c]) + 1 /\ fromMaster'[d][j] = g
    <3>1. /\ g.nonce = n /\ n <= fresh
          /\ \A t \in GameServer : \A k \in DOMAIN toMaster[t] :
               IsOffer(toMaster[t][k]) /\ toMaster[t][k].nonce = n => s = t /\ 1 = k
          /\ \A e \in Client : \A k \in DOMAIN fromMaster[e] :
               IsGrant(fromMaster[e][k]) => fromMaster[e][k].nonce # n
      BY <1>8, <2>2
    <3>2. ASSUME NEW t \in GameServer, NEW k \in DOMAIN toMaster'[t],
                 IsOffer(toMaster'[t][k])
          PROVE  toMaster'[t][k].nonce # n
      <4>1. PICK i \in DOMAIN toMaster[t] : toMaster'[t][k] = toMaster[t][i]
                                            /\ i = (IF t = s THEN k + 1 ELSE k)
                                            /\ (t = s => k \in Nat /\ k + 1 # 1)
        BY <1>6
      <4>2. IsOffer(toMaster[t][i])
        BY <3>2, <4>1 DEF IsOffer
      <4> QED BY <3>1, <4>1, <4>2
    <3>3. \A e \in Client : \A k \in DOMAIN fromMaster'[e] :
            IsGrant(fromMaster'[e][k]) /\ fromMaster'[e][k].nonce = n => d = e /\ j = k
      BY <1>7, <2>2, <3>1
    <3> QED BY <2>2, <3>1, <3>2, <3>3
  <2> QED BY <1>7, <2>1, <2>2
<1>12. NoncesUsed'
  <2> SUFFICES ASSUME NEW d \in Client, NEW u \in Uses(d)
               PROVE  /\ u.nonce <= fresh'
                      /\ \A t \in GameServer : \A j \in DOMAIN toMaster'[t] :
                           IsOffer(toMaster'[t][j]) => toMaster'[t][j].nonce # u.nonce
                      /\ \A e \in Client : \A j \in DOMAIN fromMaster'[e] :
                           IsGrant(fromMaster'[e][j]) => fromMaster'[e][j].nonce # u.nonce
                      /\ \A e \in Client : \A v \in Uses(e) :
                           u.nonce = v.nonce => d = e /\ u.id = v.id
    BY <1>9 DEF NoncesUsed, IsOffer, IsGrant
  <2>1. /\ u.nonce <= fresh
        /\ \A t \in GameServer : \A j \in DOMAIN toMaster[t] :
             IsOffer(toMaster[t][j]) => toMaster[t][j].nonce # u.nonce
        /\ \A e \in Client : \A j \in DOMAIN fromMaster[e] :
             IsGrant(fromMaster[e][j]) => fromMaster[e][j].nonce # u.nonce
        /\ \A e \in Client : \A v \in Uses(e) : u.nonce = v.nonce => d = e /\ u.id = v.id
    BY <1>1 DEF NoncesUsed
  <2>2. IsGrant(g) => g.nonce # u.nonce
    BY <1>8
  <2>3. \A t \in GameServer : \A j \in DOMAIN toMaster'[t] :
          IsOffer(toMaster'[t][j]) => toMaster'[t][j].nonce # u.nonce
    BY <1>6, <2>1
  <2>4. \A e \in Client : \A j \in DOMAIN fromMaster'[e] :
          IsGrant(fromMaster'[e][j]) => fromMaster'[e][j].nonce # u.nonce
    BY <1>7, <2>1, <2>2
  <2> QED BY <2>1, <2>3, <2>4
<1> QED BY <1>10, <1>11, <1>12 DEF NoncesApart

\* The hosts stay as they are.
LEMMA HostsStay ==
  ASSUME PeersInv, NoncesApart', UNCHANGED <<pending, connections, network, fresh, accepted>>
  PROVE  PeersInv'
<1>1. SidesApart /\ ServersApart /\ AcceptedRequested /\ ServersAccepted
      /\ AcceptsAccepted /\ ClientsAccepted
  BY DEF PeersInv
<1>2. SidesKept
  BY <1>1 DEF SidesKept, SidesApart
<1>3. SidesApart'
  BY <1>1, <1>2, SidesKeptInv
<1>4. ServersApart' /\ AcceptedRequested' /\ ServersAccepted'
  BY <1>1 DEF ServersApart, AcceptedRequested, ServersAccepted
<1>5. AcceptsAccepted' /\ ClientsAccepted'
  BY <1>1 DEF AcceptsAccepted, ClientsAccepted, AcceptedFor
<1> QED BY <1>3, <1>4, <1>5 DEF PeersInv

LEMMA MasterAnswerPeers ==
  ASSUME PeersInv, QueuesOK, ListsOK, NEW s \in GameServer, MasterAnswer(s)
  PROVE  PeersInv'
<1> DEFINE m == Head(toMaster[s])
           answer(req) == [rpc |-> IF m.rpc = "AcceptArrangedConnection"
                                   THEN "ArrangedConnectionAccepted"
                                   ELSE "ArrangedConnectionRejected",
                           requestId |-> req.initiatorQueryId, remote |-> s,
                           nonce |-> m.nonce]
<1>1. /\ UNCHANGED <<pending, connections, network, fresh, accepted>>
      /\ toMaster[s] # <<>> /\ toMaster' = [toMaster EXCEPT ![s] = Tail(@)]
      /\ toMaster[s] \in Seq(ServerAnswer)
  BY DEF MasterAnswer, QueuesOK
<1>2. m = toMaster[s][1] /\ m \in ServerAnswer
  BY <1>1, HeadAndTail
<1>3. CASE UNCHANGED fromMaster
  <2>1. KeptOffers(Tail(toMaster[s]), toMaster[s])
    BY <1>1, KeptCalls DEF Shrinks
  <2>2. ASSUME NEW t \in GameServer PROVE KeptOffers(toMaster'[t], toMaster[t])
    <3>1. KeptOffers(toMaster[t], toMaster[t])
      BY KeptCalls DEF Shrinks, QueuesOK
    <3> QED BY <1>1, <2>1, <3>1, Sides DEF QueuesOK
  <2>3. ASSUME NEW c \in Client PROVE KeptGrants(fromMaster'[c], fromMaster[c])
    BY <1>3, KeptCalls, QueueTypes DEF Shrinks
  <2>4. QueuesKept
    BY <2>2, <2>3 DEF QueuesKept
  <2> QED BY <1>1, <2>4, QueuesLessPeers
<1>4. ASSUME NEW j \in FindRequest(connectList[s], m.requestId),
             NEW req, req = connectList[s][j], NEW g, g = answer(req),
             fromMaster' = [fromMaster EXCEPT ![req.initiator] = Append(@, g)]
      PROVE  PeersInv'
  <2>1. j \in DOMAIN connectList[s] /\ req \in ToSet(connectList[s])
    BY <1>4 DEF FindRequest, ToSet
  <2>2. req.initiator \in Client /\ req.initiatorQueryId \in Nat
    BY <2>1, ListTypes, Sides
  <2>3. m.nonce \in Nat
    BY <1>2 DEF ServerAnswer
  <2>4. g \in ClientCall
    BY <1>4, <2>2, <2>3 DEF ClientCall
  <2>5. IsGrant(g) => IsOffer(m) /\ g.nonce = m.nonce
    BY <1>4 DEF IsGrant, IsOffer
  <2>6. NoncesApart'
    BY <1>1, <1>2, <1>4, <2>2, <2>4, <2>5, GrantedApart DEF PeersInv
  <2> QED BY <1>1, <2>6, HostsStay
<1>5. \/ UNCHANGED fromMaster
      \/ \E j \in FindRequest(connectList[s], m.requestId) :
           fromMaster' = [fromMaster EXCEPT ![connectList[s][j].initiator] =
                            Append(@, answer(connectList[s][j]))]
  BY DEF MasterAnswer
<1> HIDE DEF m, answer
<1> QED BY <1>3, <1>4, <1>5

\* What host h waits for when it is introduced to remote.
WaitsFor(h, c, address, remote, nonce, id) ==
    \/ h \in Client /\ c = Arranged(TRUE, address, remote, nonce, id)
    \/ h \notin Client /\ c = Arranged(FALSE, address, remote, nonce, id)

\* It may wait for it: the master proposes at most two addresses.
LEMMA ArrangedPends ==
  ASSUME NEW h \in Host, NEW remote \in Other(h), NEW nonce \in Nat, NEW id \in Nat,
         fresh' \in Nat, nonce <= fresh', id <= fresh',
         NEW address, address = NoAddress \/ address = FirstAddress(remote),
         NEW c, WaitsFor(h, c, address, remote, nonce, id)
  PROVE  MayPend(h, c)' /\ c.id = id /\ c.nonce = nonce /\ c.address = address
<1> DEFINE possible == PossibleAddresses(remote)
<1>1. remote \in Host
  BY OtherSide
<1>2. /\ possible = {<<remote, 1>>} \cup {<<remote, 0>>}
      /\ possible \subseteq Other(h) \X Nat /\ possible \subseteq Host \X Nat
  BY <1>1 DEF PossibleAddresses
<1>3. IsFiniteSet(possible) /\ Cardinality(possible) <= MaxAddresses
  <2> DEFINE one == {<<remote, 0>>}
             first == <<remote, 1>>
  <2>1. IsFiniteSet(one) /\ Cardinality(one) = 1 /\ first \notin one
    <3>1. first # <<remote, 0>>
      OBVIOUS
    <3> QED BY <3>1, FS_Singleton
  <2>2. possible = one \cup {first}
    BY <1>2
  <2> HIDE DEF one, first, possible
  <2>3. IsFiniteSet(possible) /\ Cardinality(possible) = 2
    BY <2>1, <2>2, FS_AddElement
  <2> QED BY <2>3, ArrangedAssumption
<1>4. address \in (Other(h) \X Nat) \cup {NoAddress}
      /\ address \in (Host \X Nat) \cup {NoAddress}
  BY <1>1 DEF FirstAddress
<1> DEFINE A == (Host \X Nat) \cup {NoAddress}
           B == SUBSET (Host \X Nat)
<1>5. /\ address \in A /\ possible \in B
      /\ PendingSet =
          [id : Nat, isInitiator : BOOLEAN, address : A, addresses : B, nonce : Nat,
           state : {"SendingPunchPackets", "AwaitingConnectResponse"}, sendCount : Nat]
  BY <1>2, <1>4 DEF PendingSet
<1>6. /\ c.id = id /\ c.nonce = nonce
      /\ c.address = address /\ c.addresses = possible
      /\ c.state = "SendingPunchPackets" /\ c.sendCount = 1
  BY DEF WaitsFor, Arranged
<1>7. c \in PendingSet /\ (c.isInitiator <=> h \in Client)
  <2>1. CASE h \in Client
    <3>1. c = [id |-> id, isInitiator |-> TRUE, address |-> address,
               addresses |-> possible, nonce |-> nonce,
               state |-> "SendingPunchPackets", sendCount |-> 1]
      BY <2>1 DEF WaitsFor, Arranged
    <3> HIDE DEF A, B, possible
    <3> QED BY <1>5, <2>1, <3>1
  <2>2. CASE h \notin Client
    <3>1. c = [id |-> id, isInitiator |-> FALSE, address |-> address,
               addresses |-> possible, nonce |-> nonce,
               state |-> "SendingPunchPackets", sendCount |-> 1]
      BY <2>2 DEF WaitsFor, Arranged
    <3> HIDE DEF A, B, possible
    <3> QED BY <1>5, <2>2, <3>1
  <2> QED BY <2>1, <2>2
<1> HIDE DEF A, B, possible
<1>8. c.sendCount \in 1 .. (RetryCount(c) + 1)
  BY <1>6, RetryCounts
<1>9. MayPend(h, c)'
  BY <1>2, <1>3, <1>4, <1>6, <1>7, <1>8 DEF MayPend
<1> QED BY <1>6, <1>9

\* connectArranged: one more to wait for, and maybe one connection less.
LEMMA ConnectArrangedSides ==
  ASSUME SidesApart, NEW h \in Host, NEW c, ConnectArranged(h, c), MayPend(h, c)',
         fresh' \in Nat, fresh <= fresh'
  PROVE  /\ SidesKept
         /\ pending'[h] = (pending[h] \ FindPending(h, c.address)) \cup {c}
         /\ \A g \in Host \ {h} : pending'[g] = pending[g]
         /\ \A g \in Host : connections'[g] \subseteq connections[g]
         /\ network \subseteq network'
         /\ \A m \in network' \ network : m.type \in {"Disconnect", "Punch"}
<1>1. PICK old \in FindConnection(h, c.address) :
        /\ pending' = [pending EXCEPT ![h] = (@ \ FindPending(h, c.address)) \cup {c}]
        /\ connections' = [connections EXCEPT ![h] = @ \ old]
        /\ network' = network \cup Disconnects(h, old) \cup Punches(h, c)
  BY DEF ConnectArranged
<1>2. /\ DOMAIN pending = Host /\ DOMAIN connections = Host /\ fresh \in Nat
      /\ \A d \in connections[h] : MayConnect(h, d)
  BY DEF SidesApart
<1>3. /\ DOMAIN pending' = Host /\ DOMAIN connections' = Host
      /\ pending'[h] = (pending[h] \ FindPending(h, c.address)) \cup {c}
      /\ \A g \in Host \ {h} : pending'[g] = pending[g]
      /\ \A g \in Host : connections'[g] \subseteq connections[g]
  BY <1>1, <1>2
<1>4. \A m \in Disconnects(h, old) : MaySend(m.from[1], m) /\ m.type = "Disconnect"
  <2>1. \A d \in old : MayConnect(h, d)
    BY <1>2, Found
  <2> QED BY <2>1, DisconnectsSent
<1>5. ASSUME NEW m \in Punches(h, c) PROVE MaySend(m.from[1], m)' /\ m.type = "Punch"
  <2>1. /\ c.id \in Nat /\ c.nonce \in Nat /\ c.isInitiator \in BOOLEAN
        /\ c.id <= fresh' /\ c.nonce <= fresh' /\ (c.isInitiator <=> h \in Client)
        /\ c.addresses \subseteq Other(h) \X Nat
    BY DEF MayPend, PendingSet
  <2>2. /\ m \in PacketSet /\ m.type = "Punch" /\ m.from = Seen(h) /\ m.from[1] = h
        /\ m.to \in Other(h) /\ m.byInitiator = c.isInitiator
        /\ m.nonce = c.nonce /\ m.value = c.id
    BY <2>1, PacketTypes DEF Punches
  <2> QED BY <2>1, <2>2 DEF MaySend
<1>6. \A m \in Disconnects(h, old) : MaySend(m.from[1], m)'
  <2>1. ASSUME NEW m, MaySend(m.from[1], m) PROVE MaySend(m.from[1], m)'
    BY <1>2, <2>1 DEF MaySend, PacketSet
  <2> QED BY <1>4, <2>1
<1>7. SidesKept
  BY <1>1, <1>2, <1>3, <1>5, <1>6 DEF SidesKept
<1>8. \A m \in network' \ network : m.type \in {"Disconnect", "Punch"}
  BY <1>1, <1>4, <1>5
<1> QED BY <1>1, <1>3, <1>7, <1>8

\* What follows for what was accepted.
LEMMA AcceptedStays ==
  ASSUME PeersInv, fresh' \in Nat, fresh <= fresh', accepted' = accepted,
         network \subseteq network',
         \A m \in network' \ network : m.type # "ConnectAccept",
         \A g \in Host : connections'[g] \subseteq connections[g]
  PROVE  AcceptedRequested' /\ ServersAccepted' /\ AcceptsAccepted' /\ ClientsAccepted'
<1>1. /\ AcceptedRequested /\ ServersAccepted /\ AcceptsAccepted /\ ClientsAccepted
      /\ fresh \in Nat
  BY DEF PeersInv, SidesApart
<1>2. AcceptedRequested'
  <2> SUFFICES ASSUME NEW x \in accepted
               PROVE  /\ x.host \in GameServer /\ x.connection \in ConnectionSet
                      /\ x.connection.nonce <= fresh'
                      /\ \E m \in network' :
                           /\ m.type = "ArrangedConnectRequest"
                           /\ m.from = x.connection.address
                           /\ m.nonce = x.connection.nonce
                           /\ m.value = x.connection.recvSequence
    BY DEF AcceptedRequested
  <2>1. /\ x.host \in GameServer /\ x.connection \in ConnectionSet
        /\ x.connection.nonce <= fresh
        /\ \E m \in network :
             /\ m.type = "ArrangedConnectRequest"
             /\ m.from = x.connection.address
             /\ m.nonce = x.connection.nonce
             /\ m.value = x.connection.recvSequence
    BY <1>1 DEF AcceptedRequested
  <2>2. x.connection.nonce \in Nat
    BY <2>1 DEF ConnectionSet
  <2> QED BY <1>1, <2>1, <2>2
<1>3. ServersAccepted'
  BY <1>1, Sides DEF ServersAccepted
<1>4. AcceptsAccepted'
  BY <1>1 DEF AcceptsAccepted
<1>5. ClientsAccepted'
  BY <1>1, Sides DEF ClientsAccepted, AcceptedFor
<1> QED BY <1>2, <1>3, <1>4, <1>5

\* A server offers a nonce that it has just drawn.
LEMMA OfferedApart ==
  ASSUME SidesApart, NoncesApart, QueuesOK, NEW s \in GameServer, NEW o \in ServerAnswer,
         toMaster' = [toMaster EXCEPT ![s] = Append(@, o)], o.nonce = fresh',
         fresh' = fresh + 1,
         \A c \in Client : fromMaster'[c] = fromMaster[c] /\ Uses(c)' \subseteq Uses(c)
  PROVE  NoncesApart'
<1>1. NoncesOffered /\ NoncesGranted /\ NoncesUsed /\ fresh \in Nat
  BY DEF NoncesApart, SidesApart
<1>2. toMaster[s] \in Seq(ServerAnswer)
  BY DEF QueuesOK
<1>3. /\ toMaster'[s] = Append(toMaster[s], o)
      /\ \A t \in GameServer \ {s} : toMaster'[t] = toMaster[t]
  BY Sides DEF QueuesOK
<1>4. \A j \in DOMAIN toMaster'[s] :
        \/ j \in DOMAIN toMaster[s] /\ toMaster'[s][j] = toMaster[s][j]
        \/ j = Len(toMaster[s]) + 1 /\ toMaster'[s][j] = o
  BY <1>2, <1>3, Appended
<1>5. ASSUME NEW t \in GameServer, NEW k \in DOMAIN toMaster'[t]
      PROVE  \/ k \in DOMAIN toMaster[t] /\ toMaster'[t][k] = toMaster[t][k]
             \/ t = s /\ k = Len(toMaster[s]) + 1 /\ toMaster'[t][k] = o
  BY <1>3, <1>4, <1>5
<1>6. \A t \in GameServer : \A k \in DOMAIN toMaster[t] :
        IsOffer(toMaster[t][k]) =>
          /\ toMaster[t][k].nonce \in Nat /\ toMaster[t][k].nonce <= fresh
          /\ toMaster[t][k].nonce # fresh'
  <2>1. \A t \in GameServer : \A k \in DOMAIN toMaster[t] : toMaster[t][k].nonce \in Nat
    BY NonceTypes
  <2> QED BY <1>1, <2>1 DEF NoncesOffered
<1>7. \A d \in Client : \A k \in DOMAIN fromMaster[d] :
        IsGrant(fromMaster[d][k]) =>
          /\ fromMaster[d][k].nonce \in Nat /\ fromMaster[d][k].nonce <= fresh
          /\ fromMaster[d][k].nonce # fresh'
  <2>1. \A d \in Client : \A k \in DOMAIN fromMaster[d] :
          IsGrant(fromMaster[d][k]) => fromMaster[d][k].nonce \in Nat
    BY NonceTypes
  <2> QED BY <1>1, <2>1 DEF NoncesGranted
<1>8. \A d \in Client : \A u \in Uses(d) :
        u.nonce \in Nat /\ u.nonce <= fresh /\ u.nonce # fresh'
  BY <1>1, UsesTypes
<1>9. NoncesOffered'
  <2> SUFFICES ASSUME NEW t \in GameServer, NEW j \in DOMAIN toMaster'[t],
                      IsOffer(toMaster'[t][j])
               PROVE  /\ toMaster'[t][j].nonce <= fresh'
                      /\ \A u \in GameServer : \A k \in DOMAIN toMaster'[u] :
                           /\ IsOffer(toMaster'[u][k])
                           /\ toMaster'[u][k].nonce = toMaster'[t][j].nonce
                           => t = u /\ j = k
    BY DEF NoncesOffered, IsOffer
  <2>1. CASE j \in DOMAIN toMaster[t] /\ toMaster'[t][j] = toMaster[t][j]
    <3>1. \A u \in GameServer : \A k \in DOMAIN toMaster[u] :
            IsOffer(toMaster[u][k]) /\ toMaster[u][k].nonce = toMaster[t][j].nonce
            => t = u /\ j = k
      BY <1>1, <2>1 DEF NoncesOffered
    <3>2. /\ toMaster[t][j].nonce \in Nat /\ toMaster[t][j].nonce <= fresh
          /\ toMaster[t][j].nonce # o.nonce
      BY <1>6, <2>1
    <3> QED BY <1>1, <1>5, <2>1, <3>1, <3>2
  <2>2. CASE t = s /\ j = Len(toMaster[s]) + 1 /\ toMaster'[t][j] = o
    BY <1>1, <1>5, <1>6, <2>2
  <2> QED BY <1>5, <2>1, <2>2
<1>10. NoncesGranted'
  <2> SUFFICES ASSUME NEW d \in Client, NEW j \in DOMAIN fromMaster[d],
                      IsGrant(fromMaster[d][j])
               PROVE  /\ fromMaster[d][j].nonce <= fresh'
                      /\ \A e \in Client : \A k \in DOMAIN fromMaster[e] :
                           /\ IsGrant(fromMaster[e][k])
                           /\ fromMaster[e][k].nonce = fromMaster[d][j].nonce
                           => d = e /\ j = k
                      /\ \A t \in GameServer : \A k \in DOMAIN toMaster'[t] :
                           IsOffer(toMaster'[t][k])
                           => toMaster'[t][k].nonce # fromMaster[d][j].nonce
    BY DEF NoncesGranted, IsGrant, IsOffer
  <2>1. /\ \A e \in Client : \A k \in DOMAIN fromMaster[e] :
             IsGrant(fromMaster[e][k]) /\ fromMaster[e][k].nonce = fromMaster[d][j].nonce
             => d = e /\ j = k
        /\ \A t \in GameServer : \A k \in DOMAIN toMaster[t] :
             IsOffer(toMaster[t][k]) => toMaster[t][k].nonce # fromMaster[d][j].nonce
    BY <1>1 DEF NoncesGranted
  <2>2. fromMaster[d][j].nonce \in Nat /\ fromMaster[d][j].nonce <= fresh
        /\ fromMaster[d][j].nonce # o.nonce
    BY <1>7
  <2>3. \A t \in GameServer : \A k \in DOMAIN toMaster'[t] :
          IsOffer(toMaster'[t][k]) => toMaster'[t][k].nonce # fromMaster[d][j].nonce
    BY <1>5, <2>1, <2>2
  <2> QED BY <1>1, <2>1, <2>2, <2>3
<1>11. NoncesUsed'
  <2> SUFFICES ASSUME NEW d \in Client, NEW u \in Uses(d)
               PROVE  /\ u.nonce <= fresh'
                      /\ \A t \in GameServer : \A j \in DOMAIN toMaster'[t] :
                           IsOffer(toMaster'[t][j]) => toMaster'[t][j].nonce # u.nonce
                      /\ \A e \in Client : \A j \in DOMAIN fromMaster[e] :
                           IsGrant(fromMaster[e][j]) => fromMaster[e][j].nonce # u.nonce
                      /\ \A e \in Client : \A v \in Uses(e) :
                           u.nonce = v.nonce => d = e /\ u.id = v.id
    BY DEF NoncesUsed, IsOffer, IsGrant
  <2>1. /\ \A t \in GameServer : \A j \in DOMAIN toMaster[t] :
             IsOffer(toMaster[t][j]) => toMaster[t][j].nonce # u.nonce
        /\ \A e \in Client : \A j \in DOMAIN fromMaster[e] :
             IsGrant(fromMaster[e][j]) => fromMaster[e][j].nonce # u.nonce
        /\ \A e \in Client : \A v \in Uses(e) : u.nonce = v.nonce => d = e /\ u.id = v.id
    BY <1>1 DEF NoncesUsed
  <2>2. u.nonce \in Nat /\ u.nonce <= fresh /\ u.nonce # o.nonce
    BY <1>8
  <2>3. \A t \in GameServer : \A j \in DOMAIN toMaster'[t] :
          IsOffer(toMaster'[t][j]) => toMaster'[t][j].nonce # u.nonce
    BY <1>5, <2>1, <2>2
  <2> QED BY <1>1, <2>1, <2>2, <2>3
<1> QED BY <1>9, <1>10, <1>11 DEF NoncesApart

\* A server waits under the nonce that it has just drawn.
LEMMA ServersDraw ==
  ASSUME PeersInv, NEW s \in GameServer, NEW d, d.nonce = fresh', fresh' = fresh + 1,
         pending'[s] \subseteq pending[s] \cup {d},
         \A g \in Host \ {s} : pending'[g] = pending[g],
         accepted' = accepted
  PROVE  ServersApart'
<1>1. fresh \in Nat /\ ServersApart /\ SidesApart /\ AcceptedRequested
  BY DEF PeersInv, SidesApart
<1>2. \A t \in GameServer : \A c \in pending[t] : c.nonce # d.nonce
  <2> SUFFICES ASSUME NEW t \in GameServer, NEW c \in pending[t] PROVE c.nonce # d.nonce
    OBVIOUS
  <2>1. MayPend(t, c)
    BY <1>1, Sides DEF SidesApart
  <2>2. c.nonce \in Nat /\ c.nonce <= fresh
    BY <2>1, PendTypes, Sides
  <2> QED BY <1>1, <2>2
<1>3. \A x \in accepted : x.connection.nonce # d.nonce
  BY <1>1 DEF AcceptedRequested, ConnectionSet
<1>4. \A t \in GameServer : \A c \in pending'[t] : c \in pending[t] \/ (t = s /\ c = d)
  BY Sides
<1> SUFFICES ASSUME NEW t \in GameServer, NEW c \in pending'[t]
             PROVE  /\ \A u \in GameServer : \A e \in pending'[u] :
                         c.nonce = e.nonce => t = u /\ c = e
                    /\ \A x \in accepted : x.connection.nonce # c.nonce
  BY DEF ServersApart
<1>5. CASE t = s /\ c = d
  BY <1>2, <1>3, <1>4, <1>5
<1>6. CASE c \in pending[t]
  <2>1. /\ \A u \in GameServer : \A e \in pending[u] : c.nonce = e.nonce => t = u /\ c = e
        /\ \A x \in accepted : x.connection.nonce # c.nonce
    BY <1>1, <1>6 DEF ServersApart
  <2> QED BY <1>2, <1>4, <1>6, <2>1
<1> QED BY <1>4, <1>5, <1>6

LEMMA ServerRequestedPeers ==
  ASSUME PeersInv, QueuesOK, NEW s \in GameServer, ServerRequested(s)
  PROVE  PeersInv'
<1> DEFINE m == Head(fromMaster[s])
           refusal == [rpc |-> "RejectArrangedConnection", requestId |-> m.requestId,
                       nonce |-> 0, number |-> m.number]
           offer == [rpc |-> "AcceptArrangedConnection", requestId |-> m.requestId,
                     nonce |-> fresh + 1, number |-> m.number]
           Waited(d, c, n) == d = Arranged(FALSE, FirstAddress(c), c, n, n)
<1>1. /\ fromMaster[s] # <<>> /\ fromMaster' = [fromMaster EXCEPT ![s] = Tail(@)]
      /\ fromMaster[s] \in Seq(ServerCall) /\ toMaster[s] \in Seq(ServerAnswer)
      /\ accepted' = accepted
      /\ \/ /\ toMaster' = [toMaster EXCEPT ![s] = Append(@, refusal)]
            /\ UNCHANGED <<pending, connections, network, fresh>>
         \/ /\ fresh' = fresh + 1
            /\ toMaster' = [toMaster EXCEPT ![s] = Append(@, offer)]
            /\ \E d, c, n : Waited(d, c, n) /\ c = m.remote /\ n = fresh' /\ ConnectArranged(s, d)
  BY DEF ServerRequested, QueuesOK
<1>2. /\ m.requestId \in Nat /\ m.number \in Nat /\ m.remote \in Client
  <2>1. m \in ServerCall
    BY <1>1, HeadAndTail
  <2> QED BY <2>1 DEF ServerCall
<1>3. \A c \in Client : fromMaster'[c] = fromMaster[c]
  BY <1>1, Sides DEF QueuesOK
<1>4. fresh \in Nat /\ SidesApart /\ NoncesApart
  BY DEF PeersInv, SidesApart
<1>5. /\ refusal \in ServerAnswer /\ ~IsOffer(refusal) /\ ~IsGrant(refusal)
      /\ offer \in ServerAnswer /\ offer.nonce = fresh + 1
  BY <1>2, <1>4 DEF ServerAnswer, IsOffer, IsGrant
<1>8. \A d, c, n : Waited(d, c, n) => d = Arranged(FALSE, FirstAddress(c), c, n, n)
  OBVIOUS
<1> HIDE DEF m, refusal, offer, Waited
<1>6. CASE /\ toMaster' = [toMaster EXCEPT ![s] = Append(@, refusal)]
           /\ UNCHANGED <<pending, connections, network, fresh>>
  <2>1. ASSUME NEW t \in GameServer PROVE KeptOffers(toMaster'[t], toMaster[t])
    <3>1. toMaster[t] \in Seq(ServerAnswer)
      BY DEF QueuesOK
    <3>2. toMaster'[t] = toMaster[t] \/ toMaster'[t] = Append(toMaster[t], refusal)
      BY <1>6, Sides DEF QueuesOK
    <3> QED BY <1>5, <3>1, <3>2, KeptCalls DEF Shrinks
  <2>2. ASSUME NEW c \in Client PROVE KeptGrants(fromMaster'[c], fromMaster[c])
    BY <1>3, QueueTypes, KeptCalls DEF Shrinks
  <2>3. QueuesKept
    BY <2>1, <2>2 DEF QueuesKept
  <2> QED BY <1>1, <1>6, <2>3, QueuesLessPeers
<1>7. ASSUME fresh' = fresh + 1,
             toMaster' = [toMaster EXCEPT ![s] = Append(@, offer)],
             NEW d, NEW e, NEW n, Waited(d, e, n), e = m.remote, n = fresh',
             ConnectArranged(s, d)
      PROVE  PeersInv'
  <2>1. /\ e \in Other(s) /\ s \in Host /\ fresh' \in Nat /\ fresh <= fresh'
        /\ s \notin Client
    BY <1>2, <1>4, <1>7, Sides DEF Other
  <2>2. MayPend(s, d)' /\ d.nonce = fresh'
    <3>1. d = Arranged(FALSE, FirstAddress(e), e, n, n)
      BY <1>7, <1>8
    <3>2. n \in Nat /\ n <= fresh'
      BY <1>7, <2>1
    <3> DEFINE x == FirstAddress(e)
    <3>3. WaitsFor(s, d, x, e, n, n) /\ (x = NoAddress \/ x = FirstAddress(e))
      BY <2>1, <3>1 DEF WaitsFor
    <3> HIDE DEF x
    <3>4. MayPend(s, d)' /\ d.nonce = n
      BY <2>1, <3>2, <3>3, ArrangedPends
    <3> QED BY <1>7, <3>4
  <2>3. /\ SidesKept
        /\ pending'[s] = (pending[s] \ FindPending(s, d.address)) \cup {d}
        /\ \A g \in Host \ {s} : pending'[g] = pending[g]
        /\ \A g \in Host : connections'[g] \subseteq connections[g]
        /\ network \subseteq network'
        /\ \A q \in network' \ network : q.type \in {"Disconnect", "Punch"}
    BY <1>4, <1>7, <2>1, <2>2, ConnectArrangedSides
  <2>4. SidesApart'
    BY <1>4, <2>3, SidesKeptInv
  <2>5. ASSUME NEW c \in Client PROVE Uses(c)' \subseteq Uses(c)
    <3>1. Attempts(c)' \subseteq Attempts(c)
      BY <2>3, Sides DEF Attempts
    <3> QED BY <2>3, <3>1 DEF Uses
  <2>6. NoncesApart'
    BY <1>3, <1>4, <1>5, <1>7, <2>5, OfferedApart
  <2>7. ServersApart'
    BY <1>1, <1>7, <2>2, <2>3, ServersDraw
  <2>8. AcceptedRequested' /\ ServersAccepted' /\ AcceptsAccepted' /\ ClientsAccepted'
    BY <1>1, <2>1, <2>3, AcceptedStays
  <2> QED BY <2>4, <2>6, <2>7, <2>8 DEF PeersInv
<1> QED BY <1>1, <1>6, <1>7

\* A client takes a grant, and uses its nonce for the attempt of the number it draws.
LEMMA UsedApart ==
  ASSUME SidesApart, NoncesApart, QueuesOK, NEW c \in Client,
         fromMaster[c] # <<>>, IsGrant(fromMaster[c][1]),
         toMaster' = toMaster, fromMaster' = [fromMaster EXCEPT ![c] = Tail(@)],
         fresh' = fresh + 1,
         \A d \in Client : \A u \in Uses(d)' :
           u \in Uses(d) \/ (d = c /\ u.nonce = fromMaster[c][1].nonce /\ u.id = fresh')
  PROVE  NoncesApart'
<1> DEFINE n == fromMaster[c][1].nonce
<1>1. NoncesOffered /\ NoncesGranted /\ NoncesUsed /\ fresh \in Nat
  BY DEF NoncesApart, SidesApart
<1>2. /\ 1 \in DOMAIN fromMaster[c]
      /\ \A j \in DOMAIN Tail(fromMaster[c]) :
           /\ j \in Nat /\ j + 1 \in DOMAIN fromMaster[c] /\ j + 1 # 1
           /\ Tail(fromMaster[c])[j] = fromMaster[c][j + 1]
  BY HeadAndTail, QueueTypes
<1>3. /\ fromMaster'[c] = Tail(fromMaster[c])
      /\ \A d \in Client \ {c} : fromMaster'[d] = fromMaster[d]
  BY Sides DEF QueuesOK
<1>4. /\ n \in Nat /\ n <= fresh
      /\ \A d \in Client : \A k \in DOMAIN fromMaster[d] :
           IsGrant(fromMaster[d][k]) /\ fromMaster[d][k].nonce = n => c = d /\ 1 = k
      /\ \A s \in GameServer : \A k \in DOMAIN toMaster[s] :
           IsOffer(toMaster[s][k]) => toMaster[s][k].nonce # n
      /\ \A d \in Client : \A u \in Uses(d) : u.nonce # n
  BY <1>1, <1>2, NonceTypes DEF NoncesGranted, NoncesUsed
<1> HIDE DEF n
\* Every grant left was there before, and is not the one that was taken.
<1>5. ASSUME NEW d \in Client, NEW k \in DOMAIN fromMaster'[d], IsGrant(fromMaster'[d][k])
      PROVE  /\ fromMaster'[d][k].nonce # n
             /\ \E i \in DOMAIN fromMaster[d] :
                  /\ fromMaster'[d][k] = fromMaster[d][i]
                  /\ i = (IF d = c THEN k + 1 ELSE k)
                  /\ d = c => k \in Nat
  <2>1. CASE d = c
    <3>1. k \in DOMAIN Tail(fromMaster[c]) /\ fromMaster'[d][k] = Tail(fromMaster[c])[k]
      BY <1>3, <2>1
    <3>2. /\ k \in Nat /\ k + 1 \in DOMAIN fromMaster[c] /\ k + 1 # 1
          /\ Tail(fromMaster[c])[k] = fromMaster[c][k + 1]
      BY <1>2, <3>1
    <3> QED BY <1>4, <1>5, <2>1, <3>1, <3>2
  <2>2. CASE d # c
    <3>1. k \in DOMAIN fromMaster[d] /\ fromMaster'[d][k] = fromMaster[d][k]
      BY <1>3, <2>2
    <3> QED BY <1>4, <1>5, <2>2, <3>1
  <2> QED BY <2>1, <2>2
<1>6. NoncesOffered'
  <2>1. \A s \in GameServer : \A j \in DOMAIN toMaster[s] :
          IsOffer(toMaster[s][j]) => toMaster[s][j].nonce <= fresh'
    <3>1. \A s \in GameServer : \A j \in DOMAIN toMaster[s] : toMaster[s][j].nonce \in Nat
      BY NonceTypes
    <3> QED BY <1>1, <3>1 DEF NoncesOffered
  <2> QED BY <1>1, <2>1 DEF NoncesOffered, IsOffer
<1>7. NoncesGranted'
  <2> SUFFICES ASSUME NEW d \in Client, NEW j \in DOMAIN fromMaster'[d],
                      IsGrant(fromMaster'[d][j])
               PROVE  /\ fromMaster'[d][j].nonce <= fresh'
                      /\ \A e \in Client : \A k \in DOMAIN fromMaster'[e] :
                           /\ IsGrant(fromMaster'[e][k])
                           /\ fromMaster'[e][k].nonce = fromMaster'[d][j].nonce
                           => d = e /\ j = k
                      /\ \A t \in GameServer : \A k \in DOMAIN toMaster[t] :
                           IsOffer(toMaster[t][k])
                           => toMaster[t][k].nonce # fromMaster'[d][j].nonce
    BY DEF NoncesGranted, IsGrant, IsOffer
  <2>1. PICK i \in DOMAIN fromMaster[d] :
          /\ fromMaster'[d][j] = fromMaster[d][i]
          /\ i = (IF d = c THEN j + 1 ELSE j)
          /\ d = c => j \in Nat
    BY <1>5
  <2>2. /\ fromMaster[d][i].nonce <= fresh /\ fromMaster[d][i].nonce \in Nat
        /\ \A e \in Client : \A k \in DOMAIN fromMaster[e] :
             IsGrant(fromMaster[e][k]) /\ fromMaster[e][k].nonce = fromMaster[d][i].nonce
             => d = e /\ i = k
        /\ \A s \in GameServer : \A k \in DOMAIN toMaster[s] :
             IsOffer(toMaster[s][k]) => toMaster[s][k].nonce # fromMaster[d][i].nonce
    BY <1>1, <2>1, NonceTypes DEF NoncesGranted
  <2>3. ASSUME NEW e \in Client, NEW k \in DOMAIN fromMaster'[e],
               IsGrant(fromMaster'[e][k]), fromMaster'[e][k].nonce = fromMaster'[d][j].nonce
        PROVE  d = e /\ j = k
    <3>1. PICK l \in DOMAIN fromMaster[e] :
            /\ fromMaster'[e][k] = fromMaster[e][l]
            /\ l = (IF e = c THEN k + 1 ELSE k)
            /\ e = c => k \in Nat
      BY <1>5, <2>3, Zenon
    <3>2. IsGrant(fromMaster[e][l]) /\ fromMaster[e][l].nonce = fromMaster[d][i].nonce
      BY <2>1, <2>3, <3>1 DEF IsGrant
    <3>3. d = e /\ i = l
      BY <2>2, <3>2
    <3> QED BY <2>1, <3>1, <3>3
  <2>4. fromMaster'[d][j].nonce <= fresh'
    BY <1>1, <2>1, <2>2
  <2>5. \A t \in GameServer : \A k \in DOMAIN toMaster[t] :
          IsOffer(toMaster[t][k]) => toMaster[t][k].nonce # fromMaster'[d][j].nonce
    BY <2>1, <2>2
  <2> QED BY <2>3, <2>4, <2>5
<1>8. NoncesUsed'
  <2> SUFFICES ASSUME NEW d \in Client, NEW u \in Uses(d)'
               PROVE  /\ u.nonce <= fresh'
                      /\ \A s \in GameServer : \A j \in DOMAIN toMaster[s] :
                           IsOffer(toMaster[s][j]) => toMaster[s][j].nonce # u.nonce
                      /\ \A e \in Client : \A j \in DOMAIN fromMaster'[e] :
                           IsGrant(fromMaster'[e][j]) => fromMaster'[e][j].nonce # u.nonce
                      /\ \A e \in Client : \A v \in Uses(e)' :
                           u.nonce = v.nonce => d = e /\ u.id = v.id
    BY DEF NoncesUsed, IsOffer, IsGrant
  <2>1. \A e \in Client : \A v \in Uses(e)' :
          v \in Uses(e) \/ (e = c /\ v.nonce = n /\ v.id = fresh')
    BY DEF n
  <2>2. CASE u \in Uses(d)
    <3>1. /\ u.nonce <= fresh /\ u.nonce \in Nat
          /\ \A s \in GameServer : \A j \in DOMAIN toMaster[s] :
               IsOffer(toMaster[s][j]) => toMaster[s][j].nonce # u.nonce
          /\ \A e \in Client : \A j \in DOMAIN fromMaster[e] :
               IsGrant(fromMaster[e][j]) => fromMaster[e][j].nonce # u.nonce
          /\ \A e \in Client : \A v \in Uses(e) : u.nonce = v.nonce => d = e /\ u.id = v.id
      BY <1>1, <2>2, UsesTypes DEF NoncesUsed
    <3>2. u.nonce # n
      BY <1>4, <2>2
    <3>3. \A e \in Client : \A j \in DOMAIN fromMaster'[e] :
            IsGrant(fromMaster'[e][j]) => fromMaster'[e][j].nonce # u.nonce
      <4> SUFFICES ASSUME NEW e \in Client, NEW j \in DOMAIN fromMaster'[e],
                          IsGrant(fromMaster'[e][j])
                   PROVE  fromMaster'[e][j].nonce # u.nonce
        OBVIOUS
      <4>1. PICK i \in DOMAIN fromMaster[e] : fromMaster'[e][j] = fromMaster[e][i]
        BY <1>5
      <4>2. IsGrant(fromMaster[e][i])
        BY <4>1 DEF IsGrant
      <4>3. fromMaster[e][i].nonce # u.nonce
        BY <3>1, <4>2, Zenon
      <4> QED BY <4>1, <4>3
    <3>4. u.nonce <= fresh'
      BY <1>1, <3>1
    <3>5. \A e \in Client : \A v \in Uses(e)' : u.nonce = v.nonce => d = e /\ u.id = v.id
      BY <2>1, <3>1, <3>2
    <3> QED BY <3>1, <3>3, <3>4, <3>5
  <2>3. CASE d = c /\ u.nonce = n /\ u.id = fresh'
    <3>1. \A e \in Client : \A j \in DOMAIN fromMaster'[e] :
            IsGrant(fromMaster'[e][j]) => fromMaster'[e][j].nonce # n
      BY <1>5
    <3>2. \A e \in Client : \A v \in Uses(e)' : v.nonce = n => e = c /\ v.id = fresh'
      BY <1>4, <2>1
    <3> QED BY <1>1, <1>4, <2>3, <3>1, <3>2
  <2> QED BY <2>1, <2>2, <2>3
<1> QED BY <1>6, <1>7, <1>8 DEF NoncesApart

\* The client that takes a grant for its last query: what it does then.
LEMMA ClientTakesGrant ==
  ASSUME SidesApart, NoncesGranted, QueuesOK, NEW c \in Client, ClientAccepted(c)
  PROVE  /\ fromMaster[c] # <<>> /\ fromMaster' = [fromMaster EXCEPT ![c] = Tail(@)]
         /\ fromMaster[c][1] \in ClientCall /\ IsGrant(fromMaster[c][1])
         /\ toMaster' = toMaster /\ accepted' = accepted
         /\ \/ UNCHANGED <<fresh, game, pending, connections, network>>
            \/ /\ fresh' = fresh + 1 /\ game' = [game EXCEPT ![c] = fresh']
               /\ fromMaster[c][1].requestId = currentQueryId[c]
               /\ SidesKept /\ network \subseteq network'
               /\ \A m \in network' \ network : m.type \in {"Disconnect", "Punch"}
               /\ \A g \in Host \ {c} : pending'[g] = pending[g]
               /\ \A g \in Host : connections'[g] \subseteq connections[g]
               /\ \E d : /\ d.id = fresh' /\ d.nonce = fromMaster[c][1].nonce
                         /\ pending'[c] \subseteq pending[c] \cup {d}
<1> DEFINE m == Head(fromMaster[c])
           Waited(d, s, o, n) == d = Arranged(TRUE, NoAddress, s, o, n)
<1>1. /\ fromMaster[c] # <<>> /\ fromMaster' = [fromMaster EXCEPT ![c] = Tail(@)]
      /\ m.rpc = "ArrangedConnectionAccepted"
      /\ toMaster' = toMaster /\ accepted' = accepted
      /\ \/ UNCHANGED <<fresh, game, pending, connections, network>>
         \/ /\ fresh' = fresh + 1 /\ game' = [game EXCEPT ![c] = fresh']
            /\ m.requestId = currentQueryId[c]
            /\ \E d, s, o, n : /\ Waited(d, s, o, n) /\ s = m.remote /\ o = m.nonce
                               /\ n = fresh' /\ ConnectArranged(c, d)
  BY DEF ClientAccepted
<1>2. m = fromMaster[c][1] /\ m \in ClientCall /\ 1 \in DOMAIN fromMaster[c]
  BY <1>1, HeadAndTail, QueueTypes
<1>3. m.remote \in GameServer /\ m.nonce \in Nat /\ IsGrant(m) /\ m.nonce <= fresh
  <2>1. m.remote \in GameServer /\ m.nonce \in Nat /\ IsGrant(m)
    BY <1>1, <1>2 DEF ClientCall, IsGrant
  <2> QED BY <1>2, <2>1 DEF NoncesGranted
<1>4. \A d, s, o, n : Waited(d, s, o, n) => d = Arranged(TRUE, NoAddress, s, o, n)
  OBVIOUS
<1>5. fresh \in Nat
  BY DEF SidesApart
<1> HIDE DEF m, Waited
<1>6. ASSUME fresh' = fresh + 1,
             NEW d, NEW s, NEW o, NEW n, Waited(d, s, o, n), s = m.remote, o = m.nonce,
             n = fresh', ConnectArranged(c, d)
      PROVE  /\ SidesKept /\ network \subseteq network'
             /\ \A p \in network' \ network : p.type \in {"Disconnect", "Punch"}
             /\ \A g \in Host \ {c} : pending'[g] = pending[g]
             /\ \A g \in Host : connections'[g] \subseteq connections[g]
             /\ d.id = fresh' /\ d.nonce = m.nonce
             /\ pending'[c] \subseteq pending[c] \cup {d}
  <2>1. /\ s \in Other(c) /\ c \in Host /\ o \in Nat /\ n \in Nat
        /\ o <= fresh' /\ n <= fresh' /\ fresh' \in Nat /\ fresh <= fresh'
    BY <1>3, <1>5, <1>6, Sides DEF Other
  <2> DEFINE x == NoAddress
  <2>2. WaitsFor(c, d, x, s, o, n) /\ (x = NoAddress \/ x = FirstAddress(s))
    BY <1>4, <1>6 DEF WaitsFor
  <2> HIDE DEF x
  <2>3. MayPend(c, d)' /\ d.id = n /\ d.nonce = o
    BY <2>1, <2>2, ArrangedPends
  <2>4. /\ SidesKept
        /\ pending'[c] = (pending[c] \ FindPending(c, d.address)) \cup {d}
        /\ \A g \in Host \ {c} : pending'[g] = pending[g]
        /\ \A g \in Host : connections'[g] \subseteq connections[g]
        /\ network \subseteq network'
        /\ \A p \in network' \ network : p.type \in {"Disconnect", "Punch"}
    BY <1>6, <2>1, <2>3, ConnectArrangedSides
  <2> QED BY <1>6, <2>3, <2>4
<1> QED BY <1>1, <1>2, <1>3, <1>6

LEMMA ClientAcceptedPeers ==
  ASSUME PeersInv, QueuesOK, NEW c \in Client, ClientAccepted(c)
  PROVE  PeersInv'
<1>1. SidesApart /\ NoncesApart /\ NoncesGranted /\ ServersApart /\ fresh \in Nat
  BY DEF PeersInv, SidesApart, NoncesApart
<1>2. /\ fromMaster[c] # <<>> /\ fromMaster' = [fromMaster EXCEPT ![c] = Tail(@)]
      /\ fromMaster[c][1] \in ClientCall /\ IsGrant(fromMaster[c][1])
      /\ toMaster' = toMaster /\ accepted' = accepted
  BY <1>1, ClientTakesGrant
<1>3. CASE UNCHANGED <<fresh, game, pending, connections, network>>
  BY <1>2, <1>3, TakenQueues, QueuesLessPeers
<1>4. ASSUME fresh' = fresh + 1,
             SidesKept, network \subseteq network',
             \A m \in network' \ network : m.type \in {"Disconnect", "Punch"},
             \A g \in Host \ {c} : pending'[g] = pending[g],
             \A g \in Host : connections'[g] \subseteq connections[g],
             NEW d, d.id = fresh', d.nonce = fromMaster[c][1].nonce,
             pending'[c] \subseteq pending[c] \cup {d}
      PROVE  PeersInv'
  <2>1. SidesApart'
    BY <1>1, <1>4, SidesKeptInv
  <2>2. ASSUME NEW e \in Client, NEW u \in Uses(e)'
        PROVE  u \in Uses(e)
               \/ (e = c /\ u.nonce = fromMaster[c][1].nonce /\ u.id = fresh')
    <3>1. ASSUME NEW a \in Attempts(e)', u = [nonce |-> a.nonce, id |-> a.id]
          PROVE  u \in Uses(e)
                 \/ (e = c /\ u.nonce = fromMaster[c][1].nonce /\ u.id = fresh')
      <4>1. a \in Attempts(e) \/ (e = c /\ a = d)
        BY <1>4, Sides DEF Attempts
      <4> QED BY <1>4, <3>1, <4>1 DEF Uses
    <3>2. ASSUME NEW m \in network', m.type = "ArrangedConnectRequest", m.from[1] = e,
                 u = [nonce |-> m.nonce, id |-> m.value]
          PROVE  u \in Uses(e)
      <4>1. m \in network
        BY <1>4, <3>2
      <4> QED BY <3>2, <4>1 DEF Uses
    <3> QED BY <3>1, <3>2 DEF Uses
  <2>3. NoncesApart'
    BY <1>1, <1>2, <1>4, <2>2, UsedApart
  <2>4. ServersApart'
    BY <1>1, <1>2, <1>4, Sides DEF ServersApart
  <2>5. AcceptedRequested' /\ ServersAccepted' /\ AcceptsAccepted' /\ ClientsAccepted'
    BY <1>1, <1>2, <1>4, AcceptedStays
  <2> QED BY <2>1, <2>3, <2>4, <2>5 DEF PeersInv
<1> QED BY <1>1, <1>3, <1>4, ClientTakesGrant

LEMMA NextPeers ==
  ASSUME MasterInv, PeersInv, [Next]_vars
  PROVE  PeersInv'
<1>1. QueuesOK /\ ListsOK
  BY DEF MasterInv
<1>2. ASSUME NEW c \in Client, NEW s \in GameServer, JoinGame(c, s) PROVE PeersInv'
  BY <1>1, <1>2, JoinGamePeers
<1>3. ASSUME NEW c \in Client, MasterRequestArranged(c) PROVE PeersInv'
  BY <1>1, <1>3, MasterRequestArrangedPeers
<1>4. ASSUME NEW c \in Client, ClientAccepted(c) PROVE PeersInv'
  BY <1>1, <1>4, ClientAcceptedPeers
<1>5. ASSUME NEW c \in Client, ClientRejected(c) PROVE PeersInv'
  BY <1>1, <1>5, ClientRejectedPeers
<1>6. ASSUME NEW c \in Client, ClientInvalidPacket(c) PROVE PeersInv'
  BY <1>1, <1>6, DisconnectedPeers, Sides DEF ClientInvalidPacket
<1>7. ASSUME NEW c \in Client, EndGame(c) PROVE PeersInv'
  <2>1. Ended(c) /\ UNCHANGED <<toMaster, fromMaster>>
    BY <1>7 DEF EndGame, Ended
  <2> QED BY <1>1, <2>1, SameQueues, EndedPeers
<1>8. ASSUME NEW s \in GameServer, MasterAnswer(s) PROVE PeersInv'
  BY <1>1, <1>8, MasterAnswerPeers
<1>9. ASSUME NEW s \in GameServer, ServerRequested(s) PROVE PeersInv'
  BY <1>1, <1>9, ServerRequestedPeers
<1>10. ASSUME NEW h \in Host, LoseMaster(h) PROVE PeersInv'
  BY <1>1, <1>10, DisconnectedPeers DEF LoseMaster
<1>11. ASSUME NEW m \in network, HandlePunch(m) PROVE PeersInv'
  BY <1>1, <1>11, HandlePunchPeers
<1>12. ASSUME NEW m \in network, HandleArrangedConnectRequest(m) PROVE PeersInv'
  BY <1>1, <1>12, HandleArrangedConnectRequestPeers
<1>13. ASSUME NEW m \in network, HandleConnectAccept(m) PROVE PeersInv'
  BY <1>1, <1>13, HandleConnectAcceptPeers
<1>14. ASSUME NEW m \in network, HandleConnectReject(m) \/ HandleDisconnect(m)
       PROVE  PeersInv'
  <2>1. m.to \in Host
    BY Arrives DEF PeersInv
  <2>2. UNCHANGED <<toMaster, fromMaster, fresh, accepted, network>>
        /\ \E c : \/ /\ connections' = [connections EXCEPT ![m.to] = @ \ {c}]
                     /\ UNCHANGED pending
                  \/ pending' = Removed(m.to, c) /\ UNCHANGED connections
    BY <1>14 DEF HandleConnectReject, HandleDisconnect, master
  <2> QED BY <1>1, <2>1, <2>2, SameQueues, SilentEndPeers
<1>15. ASSUME NEW s \in GameServer, Drop(s) PROVE PeersInv'
  <2>1. UNCHANGED <<toMaster, fromMaster, fresh, accepted>> /\ \E c : DisconnectOf(s, c)
    BY <1>15 DEF Drop, master
  <2> QED BY <1>1, <2>1, SameQueues, DisconnectOfPeers, Sides
<1>16. ASSUME NEW h \in Host, TimeOut(h) PROVE PeersInv'
  <2>1. UNCHANGED <<toMaster, fromMaster, fresh, accepted, network, pending>>
        /\ \E c : connections' = [connections EXCEPT ![h] = @ \ {c}]
    BY <1>16 DEF TimeOut, master
  <2> QED BY <1>1, <2>1, SameQueues, SilentEndPeers
<1>17. ASSUME NEW h \in Host, Retry(h) PROVE PeersInv'
  BY <1>1, <1>17, RetryPeers
<1>18. CASE UNCHANGED vars
  <2>1. UNCHANGED <<pending, connections, network, fresh, accepted, toMaster, fromMaster>>
    BY <1>18 DEF vars, master
  <2> QED BY <1>1, <2>1, SameQueues, QueuesLessPeers
<1> QED
  BY <1>2, <1>3, <1>4, <1>5, <1>6, <1>7, <1>8, <1>9, <1>10, <1>11, <1>12, <1>13, <1>14,
     <1>15, <1>16, <1>17, <1>18
     DEF Next, MasterNext, PunchNext

-----------------------------------------------------------------------------
(* The game of a client. *)

LEMMA InitGames == Init => GamesInv
<1> SUFFICES ASSUME Init PROVE GamesInv
  OBVIOUS
<1>1. /\ game = [c \in Client |-> 0] /\ inGame = {} /\ ignored = {}
      /\ connectList = [h \in Host |-> <<>>]
      /\ toMaster = [h \in Host |-> <<>>] /\ fromMaster = [h \in Host |-> <<>>]
      /\ pending = [h \in Host |-> {}] /\ connections = [h \in Host |-> {}]
  BY DEF Init
<1>2. \A c \in Client : Attempts(c) = {}
  BY <1>1, Sides DEF Attempts
<1>3. \A c \in Client : ~Asked(c, currentQueryId[c])
  BY <1>1, NothingListed, Sides DEF Asked
<1>4. \A c \in Client : OneGame(c)
  BY <1>2, <1>3 DEF OneGame
<1> QED BY <1>1, <1>4 DEF GamesInv

\* What is under way of client c was under way before.
StillAsked(c) == \A id : Asked(c, id)' => Asked(c, id)

LEMMA StillAskedNow ==
  ASSUME NEW c \in Client, StillAsked(c), currentQueryId'[c] = currentQueryId[c]
  PROVE  Asked(c, currentQueryId[c])' => Asked(c, currentQueryId[c])
BY DEF StillAsked, Asked

LEMMA AskedLess ==
  ASSUME QueuesOK, NEW c \in Client,
         Shrinks(toMaster'[c], toMaster[c]), Shrinks(fromMaster'[c], fromMaster[c]),
         \A s \in GameServer : ToSet(connectList'[s]) \subseteq ToSet(connectList[s])
  PROVE  StillAsked(c)
<1>1. KeptIn(toMaster'[c], toMaster[c]) /\ KeptIn(fromMaster'[c], fromMaster[c])
  BY QueueTypes, Shrunk
<1>2. \A j \in DOMAIN toMaster'[c] :
        \E i \in DOMAIN toMaster[c] : toMaster'[c][j] = toMaster[c][i]
  BY <1>1 DEF KeptIn
<1>3. \A j \in DOMAIN fromMaster'[c] :
        \E i \in DOMAIN fromMaster[c] : fromMaster'[c][j] = fromMaster[c][i]
  BY <1>1 DEF KeptIn
<1> SUFFICES ASSUME NEW id, Asked(c, id)' PROVE Asked(c, id)
  BY DEF StillAsked
<1>4. CASE \E j \in DOMAIN toMaster'[c] : toMaster'[c][j].requestId = id
  BY <1>2, <1>4 DEF Asked
<1>5. CASE \E s \in GameServer : \E r \in ToSet(connectList'[s]) :
             r.initiator = c /\ r.initiatorQueryId = id
  BY <1>5 DEF Asked
<1>6. CASE \E j \in DOMAIN fromMaster'[c] :
             IsAnswer(fromMaster'[c][j]) /\ fromMaster'[c][j].requestId = id
  BY <1>3, <1>6 DEF Asked
<1> QED BY <1>4, <1>5, <1>6 DEF Asked, IsAnswer

\* The game goes on, or its only attempt.
LEMMA OneGameKept ==
  ASSUME NEW c \in Client, OneGame(c), StillAsked(c), game'[c] = game[c],
         currentQueryId'[c] = currentQueryId[c], c \in connected' => c \in connected,
         c \in inGame' <=> c \in inGame,
         \A d \in Attempts(c)' : \E e \in Attempts(c) : d.id = e.id,
         \A d, e \in Attempts(c)' : d = e
  PROVE  OneGame(c)'
<1>1. /\ \A d \in Attempts(c) : d.id = game[c]
      /\ Attempts(c) # {} => c \in inGame
      /\ (c \in connected /\ Asked(c, currentQueryId[c]))
         => c \in inGame /\ Attempts(c) = {}
  BY DEF OneGame
<1>2. Asked(c, currentQueryId[c])' => Asked(c, currentQueryId[c])
  BY StillAskedNow
<1>3. \A d \in Attempts(c)' : d.id = game'[c]
  BY <1>1
<1>4. Attempts(c)' # {} => Attempts(c) # {}
  OBVIOUS
<1> QED BY <1>1, <1>2, <1>3, <1>4 DEF OneGame

\* Nothing but the queues and the lists has to be looked at for most steps.
LEMMA OneGameSame ==
  ASSUME NEW c \in Client, OneGame(c), StillAsked(c), game'[c] = game[c],
         currentQueryId'[c] = currentQueryId[c], c \in connected' => c \in connected,
         c \in inGame' <=> c \in inGame,
         pending'[c] \subseteq pending[c], connections'[c] \subseteq connections[c]
  PROVE  OneGame(c)'
<1>1. Attempts(c)' \subseteq Attempts(c)
  BY DEF Attempts
<1>2. \A d, e \in Attempts(c)' : d = e
  BY <1>1 DEF OneGame
<1> QED BY <1>1, <1>2, OneGameKept

\* The attempt of client c ends, and the game with it.
LEMMA OneGameEnds ==
  ASSUME NEW c \in Client, OneGame(c), StillAsked(c), Attempts(c) # {},
         Attempts(c)' = {}, currentQueryId'[c] = currentQueryId[c],
         c \in connected' => c \in connected
  PROVE  OneGame(c)'
<1>1. Asked(c, currentQueryId[c])' => Asked(c, currentQueryId[c])
  BY StillAskedNow
<1>2. ~(c \in connected /\ Asked(c, currentQueryId[c]))
  BY DEF OneGame
<1> QED BY <1>1, <1>2 DEF OneGame

\* The types of the histories of the games.
LEMMA GameTypes ==
  ASSUME game \in [Client -> Nat], inGame \cup ignored \subseteq Client, fresh \in Nat,
         [Next]_vars
  PROVE  /\ game' \in [Client -> Nat] /\ inGame' \cup ignored' \subseteq Client
         /\ ignored \subseteq ignored'
<1>1. ASSUME NEW c \in Client, NEW s \in GameServer, JoinGame(c, s)
      PROVE  game' = game /\ inGame' \subseteq Client /\ ignored' = ignored
  BY <1>1 DEF JoinGame
<1>2. ASSUME NEW c \in Client, ClientAccepted(c)
      PROVE  game' \in [Client -> Nat] /\ inGame' = inGame /\ ignored' = ignored
  <2>1. /\ game' = game \/ (fresh' = fresh + 1 /\ game' = [game EXCEPT ![c] = fresh'])
        /\ inGame' = inGame /\ ignored' = ignored
    BY <1>2 DEF ClientAccepted
  <2> QED BY <2>1
<1>3. ASSUME NEW c \in Client, Ended(c)
      PROVE  /\ game' = game /\ inGame' \subseteq inGame
             /\ ignored' \subseteq ignored \cup {c} /\ ignored \subseteq ignored'
  BY <1>3 DEF Ended
<1>4. ASSUME NEW c \in Client, ClientRejected(c) \/ EndGame(c)
      PROVE  /\ game' = game /\ inGame' \subseteq inGame
             /\ ignored' \subseteq ignored \cup {c} /\ ignored \subseteq ignored'
  BY <1>3, <1>4 DEF ClientRejected, EndGame
<1>5. ASSUME NEW h, \/ MasterRequestArranged(h) \/ ClientInvalidPacket(h)
                    \/ MasterAnswer(h) \/ ServerRequested(h) \/ LoseMaster(h)
      PROVE  UNCHANGED <<game, inGame, ignored>>
  BY <1>5 DEF MasterRequestArranged, ClientInvalidPacket, MasterAnswer, ServerRequested,
              LoseMaster, Disconnected
<1>6. ASSUME PunchNext \/ UNCHANGED vars
      PROVE  game' = game /\ inGame' \subseteq inGame /\ ignored' = ignored
  BY <1>6 DEF PunchNext, vars, HandlePunch, HandleArrangedConnectRequest,
              HandleConnectAccept, HandleConnectReject, HandleDisconnect, Drop, TimeOut,
              Retry
<1> QED BY <1>1, <1>2, <1>4, <1>5, <1>6 DEF Next, MasterNext

\* A query goes from the calls of its client to the list of the server; none appears.
LEMMA RequestedStill ==
  ASSUME QueuesOK, ListsOK, NEW c \in Client, MasterRequestArranged(c), NEW d \in Client,
         lastQueryId \in [Host -> Nat]
  PROVE  StillAsked(d)
<1> DEFINE m == Head(toMaster[c])
           s == m.remote
           req == [number |-> m.number, initiator |-> c, host |-> s,
                   initiatorQueryId |-> m.requestId, hostQueryId |-> lastQueryId[c]]
           refusal == [rpc |-> "RejectArrangedConnection"]
           call == [rpc |-> "ClientRequestedArrangedConnection",
                    requestId |-> lastQueryId[c], remote |-> c, number |-> m.number]
<1>1. /\ toMaster' = [toMaster EXCEPT ![c] = Tail(@)] /\ toMaster[c] # <<>>
      /\ \/ /\ fromMaster' = [fromMaster EXCEPT ![s] = Append(@, call)]
            /\ connectList' = [connectList EXCEPT ![c] = Append(@, req), ![s] = Append(@, req)]
         \/ /\ fromMaster' = [fromMaster EXCEPT ![c] = Append(@, refusal)]
            /\ connectList' = connectList
  <2>1. toMaster' = [toMaster EXCEPT ![c] = Tail(@)] /\ toMaster[c] # <<>>
    BY DEF MasterRequestArranged
  <2>2. \/ /\ fromMaster' = [fromMaster EXCEPT ![s] = Append(@, call)]
           /\ connectList' = [connectList EXCEPT ![c] = Append(@, req), ![s] = Append(@, req)]
        \/ /\ fromMaster' = [fromMaster EXCEPT ![c] = Append(@, refusal)]
           /\ connectList' = connectList
    BY DEF MasterRequestArranged
  <2> HIDE DEF m, s, req, refusal, call
  <2> QED BY <2>1, <2>2
<1>2. m = toMaster[c][1] /\ 1 \in DOMAIN toMaster[c] /\ m \in RequestCall
  <2>1. toMaster[c] # <<>> /\ toMaster[c] \in Seq(RequestCall)
    BY <1>1, QueueTypes
  <2> QED BY <2>1, HeadAndTail
<1>3. s \in GameServer /\ s \in Host /\ s \notin Client
      /\ m.requestId \in Nat /\ m.number \in Nat /\ lastQueryId[c] \in Nat
  BY <1>2, Sides DEF RequestCall
<1>4. req.initiator = c /\ req.initiatorQueryId = m.requestId /\ ~IsAnswer(refusal)
      /\ refusal \in ClientCall /\ req \in ArrangedRequest
  BY <1>3 DEF IsAnswer, ClientCall, ArrangedRequest
<1> HIDE DEF m, s, req, refusal, call
<1>5. \A j \in DOMAIN toMaster'[d] :
        \E i \in DOMAIN toMaster[d] : toMaster'[d][j] = toMaster[d][i]
  <2>1. Shrinks(toMaster'[d], toMaster[d])
    BY <1>1, Sides DEF QueuesOK, Shrinks
  <2>2. KeptIn(toMaster'[d], toMaster[d])
    BY <2>1, QueueTypes, Shrunk
  <2> QED BY <2>2 DEF KeptIn
<1>6. \A j \in DOMAIN fromMaster'[d] :
        IsAnswer(fromMaster'[d][j]) =>
          j \in DOMAIN fromMaster[d] /\ fromMaster'[d][j] = fromMaster[d][j]
  <2>1. CASE fromMaster' = [fromMaster EXCEPT ![s] = Append(@, call)]
    BY <1>3, <2>1, Sides DEF QueuesOK
  <2>2. CASE fromMaster' = [fromMaster EXCEPT ![c] = Append(@, refusal)]
    <3>1. CASE d = c
      <4>1. /\ fromMaster[c] \in Seq(ClientCall)
            /\ fromMaster'[c] = Append(fromMaster[c], refusal)
        BY <2>2, QueueTypes, Sides DEF QueuesOK
      <4> QED BY <1>4, <3>1, <4>1, Appended
    <3>2. CASE d # c
      BY <2>2, <3>2, Sides DEF QueuesOK
    <3> QED BY <3>1, <3>2
  <2> QED BY <1>1, <2>1, <2>2
<1>7. \A t \in GameServer : \A r \in ToSet(connectList'[t]) :
        r \in ToSet(connectList[t]) \/ r = req
  <2> SUFFICES ASSUME NEW t \in GameServer, NEW r \in ToSet(connectList'[t])
               PROVE  r \in ToSet(connectList[t]) \/ r = req
    OBVIOUS
  <2>1. connectList'[t] = connectList[t] \/ connectList'[t] = Append(connectList[t], req)
    <3>1. /\ DOMAIN connectList = Host /\ t \in Host /\ t # c /\ c \in Host /\ c # s
      BY <1>3, Sides DEF ListsOK
    <3>2. CASE connectList' = [connectList EXCEPT ![c] = Append(@, req),
                                                  ![s] = Append(@, req)]
      BY <1>3, <3>1, <3>2
    <3> QED BY <1>1, <3>2
  <2>2. ToSet(Append(connectList[t], req)) = ToSet(connectList[t]) \cup {req}
    BY <1>4, Appended, Sides DEF ListsOK
  <2> QED BY <2>1, <2>2
<1> SUFFICES ASSUME NEW id, Asked(d, id)' PROVE Asked(d, id)
  BY DEF StillAsked
<1>8. CASE \E j \in DOMAIN toMaster'[d] : toMaster'[d][j].requestId = id
  BY <1>5, <1>8 DEF Asked
<1>9. ASSUME NEW t \in GameServer, NEW r \in ToSet(connectList'[t]),
             r.initiator = d, r.initiatorQueryId = id
      PROVE  Asked(d, id)
  <2>1. CASE r \in ToSet(connectList[t])
    BY <1>9, <2>1 DEF Asked
  <2>2. CASE r = req
    BY <1>2, <1>4, <1>9, <2>2 DEF Asked
  <2> QED BY <1>7, <2>1, <2>2
<1>10. CASE \E j \in DOMAIN fromMaster'[d] :
              IsAnswer(fromMaster'[d][j]) /\ fromMaster'[d][j].requestId = id
  BY <1>6, <1>10 DEF Asked
<1> QED BY <1>8, <1>9, <1>10 DEF Asked, IsAnswer

\* It goes on to the calls of the master.
LEMMA AnsweredStill ==
  ASSUME QueuesOK, ListsOK, NEW s \in GameServer, MasterAnswer(s), NEW d \in Client
  PROVE  StillAsked(d)
<1> DEFINE m == Head(toMaster[s])
           answer(req) == [rpc |-> IF m.rpc = "AcceptArrangedConnection"
                                   THEN "ArrangedConnectionAccepted"
                                   ELSE "ArrangedConnectionRejected",
                           requestId |-> req.initiatorQueryId, remote |-> s,
                           nonce |-> m.nonce]
<1>1. /\ toMaster[s] # <<>> /\ toMaster' = [toMaster EXCEPT ![s] = Tail(@)]
      /\ \/ UNCHANGED <<connectList, fromMaster>>
         \/ \E j \in FindRequest(connectList[s], m.requestId) :
              LET req == connectList[s][j] IN
              \/ /\ connectList' =
                      [connectList EXCEPT ![s] = EraseFast(@, j),
                                          ![req.initiator] = RemoveConnectRequest(@, req)]
                 /\ fromMaster' = [fromMaster EXCEPT ![req.initiator] =
                                     Append(@, answer(req))]
              \/ /\ connectList' = [connectList EXCEPT ![s] = EraseFast(@, j)]
                 /\ fromMaster' = fromMaster
  BY ZenonT(30) DEF MasterAnswer
<1>2. toMaster'[d] = toMaster[d]
  <2>1. toMaster' = [toMaster EXCEPT ![s] = Tail(@)]
    BY <1>1
  <2> QED BY <2>1, Sides DEF QueuesOK
<1>3. m \in ServerAnswer
  <2>1. toMaster[s] # <<>>
    BY <1>1
  <2> QED BY <2>1, HeadAndTail DEF QueuesOK
<1>4. m.nonce \in Nat
  BY <1>3 DEF ServerAnswer
<1>5. CASE UNCHANGED <<connectList, fromMaster>>
  BY <1>2, <1>5 DEF StillAsked, Asked, IsAnswer
<1>6. ASSUME NEW j \in FindRequest(connectList[s], m.requestId),
             NEW req, req = connectList[s][j], NEW e, e = answer(req),
             \/ /\ connectList' =
                     [connectList EXCEPT ![s] = EraseFast(@, j),
                                         ![req.initiator] = RemoveConnectRequest(@, req)]
                /\ fromMaster' = [fromMaster EXCEPT ![req.initiator] = Append(@, e)]
             \/ /\ connectList' = [connectList EXCEPT ![s] = EraseFast(@, j)]
                /\ fromMaster' = fromMaster
      PROVE  StillAsked(d)
  <2>1. j \in DOMAIN connectList[s] /\ req \in ToSet(connectList[s])
    BY <1>6 DEF FindRequest, ToSet
  <2>2. req.initiator \in Client /\ req.initiatorQueryId \in Nat
    BY <2>1, ListTypes, Sides
  <2>3. e \in ClientCall /\ e.requestId = req.initiatorQueryId
    BY <1>4, <1>6, <2>2 DEF ClientCall
  <2>4. \A t \in GameServer : ToSet(connectList'[t]) \subseteq ToSet(connectList[t])
    <3>1. ToSet(EraseFast(connectList[s], j)) = ToSet(connectList[s]) \ {req}
      BY <1>6, <2>1, Erased, Sides DEF ListsOK
    <3>2. ASSUME NEW t \in GameServer
          PROVE  connectList'[t] = IF t = s THEN EraseFast(connectList[s], j)
                                   ELSE connectList[t]
      BY <1>6, <2>2, Sides DEF ListsOK
    <3> QED BY <3>1, <3>2
  <2>5. \A k \in DOMAIN fromMaster'[d] :
          \/ k \in DOMAIN fromMaster[d] /\ fromMaster'[d][k] = fromMaster[d][k]
          \/ d = req.initiator /\ fromMaster'[d][k].requestId = req.initiatorQueryId
    <3>1. fromMaster'[d] = fromMaster[d]
          \/ (d = req.initiator /\ fromMaster'[d] = Append(fromMaster[d], e))
      BY <1>6, <2>2, Sides DEF QueuesOK
    <3>2. fromMaster[d] \in Seq(ClientCall)
      BY QueueTypes
    <3> QED BY <2>3, <3>1, <3>2, Appended
  <2> SUFFICES ASSUME NEW id, Asked(d, id)' PROVE Asked(d, id)
    BY DEF StillAsked
  <2>6. CASE \E k \in DOMAIN toMaster'[d] : toMaster'[d][k].requestId = id
    BY <1>2, <2>6 DEF Asked
  <2>7. CASE \E t \in GameServer : \E r \in ToSet(connectList'[t]) :
               r.initiator = d /\ r.initiatorQueryId = id
    BY <2>4, <2>7 DEF Asked
  <2>8. CASE \E k \in DOMAIN fromMaster'[d] :
               IsAnswer(fromMaster'[d][k]) /\ fromMaster'[d][k].requestId = id
    BY <2>1, <2>5, <2>8 DEF Asked
  <2> QED BY <2>6, <2>7, <2>8 DEF Asked, IsAnswer
<1> HIDE DEF m, answer
<1> QED BY <1>1, <1>5, <1>6

\* What is under way of a query is of one that was made.
LEMMA AskedBefore ==
  ASSUME MasterInv, NEW c \in Client, NEW id, Asked(c, id)
  PROVE  id \in Nat /\ id <= currentQueryId[c] /\ currentQueryId[c] \in Nat
<1>1. /\ QueuesOK /\ ListsOK /\ QueriesAsked /\ QueriesKept /\ QueriesAnswered
      /\ currentQueryId[c] \in Nat
  BY DEF MasterInv
<1>2. CASE \E j \in DOMAIN toMaster[c] : toMaster[c][j].requestId = id
  BY <1>1, <1>2, QueueTypes DEF QueriesAsked
<1>3. CASE \E s \in GameServer : \E r \in ToSet(connectList[s]) :
             r.initiator = c /\ r.initiatorQueryId = id
  BY <1>1, <1>3, ListTypes, Sides DEF QueriesKept
<1>4. CASE \E j \in DOMAIN fromMaster[c] :
             IsAnswer(fromMaster[c][j]) /\ fromMaster[c][j].requestId = id
  BY <1>1, <1>4, QueueTypes DEF QueriesAnswered
<1> QED BY <1>1, <1>2, <1>3, <1>4 DEF Asked

\* The queries are not touched when one side hears of the other.
MasterQuiet ==
    UNCHANGED <<toMaster, fromMaster, connectList, connected, currentQueryId, game>>

LEMMA QuietAsked ==
  ASSUME QueuesOK, MasterQuiet, NEW c \in Client
  PROVE  StillAsked(c) /\ game'[c] = game[c] /\ currentQueryId'[c] = currentQueryId[c]
BY AskedLess DEF MasterQuiet, Shrinks

\* No attempt both waits and is established.
LEMMA PendingOrConnected ==
  ASSUME SidesApart, NEW h \in Host
  PROVE  \A c \in pending[h] : c \notin connections[h]
BY PendTypes, ConnectTypes DEF SidesApart

\* Host h loses attempts, or ends its only one, or goes on with it.
LEMMA HostGames ==
  ASSUME QueuesOK, MasterQuiet, NEW h \in Host,
         inGame' = inGame \/ inGame' = inGame \ {h},
         \A g \in Host \ {h} : pending'[g] = pending[g] /\ connections'[g] = connections[g],
         h \in Client /\ OneGame(h) =>
           \/ /\ inGame' = inGame
              /\ pending'[h] \subseteq pending[h] /\ connections'[h] \subseteq connections[h]
           \/ Attempts(h) # {} /\ Attempts(h)' = {}
           \/ /\ inGame' = inGame
              /\ \E e \in Attempts(h) : \E d : d.id = e.id /\ Attempts(h)' \subseteq {d},
         NEW c \in Client, OneGame(c)
  PROVE  OneGame(c)'
<1>1. /\ StillAsked(c) /\ game'[c] = game[c] /\ currentQueryId'[c] = currentQueryId[c]
      /\ c \in connected' => c \in connected
  BY QuietAsked DEF MasterQuiet
<1>2. CASE c # h
  BY <1>1, <1>2, Sides, OneGameSame
<1>3. CASE c = h
  <2>1. CASE /\ inGame' = inGame
             /\ pending'[h] \subseteq pending[h] /\ connections'[h] \subseteq connections[h]
    BY <1>1, <1>3, <2>1, OneGameSame
  <2>2. CASE Attempts(h) # {} /\ Attempts(h)' = {}
    <3>1. Attempts(c) # {} /\ Attempts(c)' = {}
      BY <1>3, <2>2 DEF Attempts
    <3> QED BY <1>1, <3>1, OneGameEnds
  <2>3. CASE /\ inGame' = inGame
             /\ \E e \in Attempts(h) : \E d : d.id = e.id /\ Attempts(h)' \subseteq {d}
    <3>1. /\ \A d \in Attempts(c)' : \E e \in Attempts(c) : d.id = e.id
          /\ \A d, e \in Attempts(c)' : d = e
      BY <1>3, <2>3 DEF Attempts
    <3> QED BY <1>1, <2>3, <3>1, OneGameKept
  <2> QED BY <1>3, <2>1, <2>2, <2>3
<1> QED BY <1>2, <1>3

\* The only attempt of a client is c; the next stage of c follows.
LEMMA GoesOnGames ==
  ASSUME QueuesOK, SidesApart, MasterQuiet, UNCHANGED <<inGame, connections>>,
         NEW h \in Host, NEW c \in pending[h], NEW d, d.id = c.id,
         pending' = [pending EXCEPT ![h] = (@ \ {c}) \cup {d}],
         NEW e \in Client, OneGame(e)
  PROVE  OneGame(e)'
<1>1. \A g \in Host \ {h} : pending'[g] = pending[g] /\ connections'[g] = connections[g]
  BY DEF SidesApart
<1>2. ASSUME h \in Client, OneGame(h)
      PROVE  c \in Attempts(h) /\ Attempts(h)' \subseteq {d}
  <2>1. /\ pending'[h] = (pending[h] \ {c}) \cup {d} /\ connections'[h] = connections[h]
        /\ c \notin connections[h]
    BY PendingOrConnected DEF SidesApart
  <2>2. c \in Attempts(h) /\ \A a \in Attempts(h) : a = c
    BY <1>2 DEF OneGame, Attempts
  <2> QED BY <2>1, <2>2 DEF Attempts
<1> QED BY <1>1, <1>2, HostGames

\* The only attempt of a client ends.
LEMMA RemovedGames ==
  ASSUME QueuesOK, SidesApart, MasterQuiet, NEW h \in Host, NEW c,
         inGame' = inGame \/ inGame' = inGame \ {h},
         \/ c \in pending[h] /\ pending' = Removed(h, c) /\ connections' = connections
         \/ /\ c \in connections[h] /\ pending' = pending
            /\ connections' = [connections EXCEPT ![h] = @ \ {c}],
         NEW e \in Client, OneGame(e)
  PROVE  OneGame(e)'
<1>1. \A g \in Host \ {h} : pending'[g] = pending[g] /\ connections'[g] = connections[g]
  BY DEF SidesApart, Removed
<1>2. ASSUME h \in Client, OneGame(h)
      PROVE  Attempts(h) # {} /\ Attempts(h)' = {}
  <2>1. /\ \A a \in pending[h] : a \notin connections[h]
        /\ DOMAIN pending = Host /\ DOMAIN connections = Host
    BY PendingOrConnected DEF SidesApart
  <2>2. c \in Attempts(h) /\ \A a \in Attempts(h) : a = c
    BY <1>2 DEF OneGame, Attempts
  <2>3. \/ /\ c \in pending[h] /\ pending'[h] = pending[h] \ {c}
           /\ connections'[h] = connections[h]
        \/ /\ c \in connections[h] /\ connections'[h] = connections[h] \ {c}
           /\ pending'[h] = pending[h]
    BY <2>1 DEF Removed
  <2> QED BY <2>1, <2>2, <2>3 DEF Attempts
<1> QED BY <1>1, <1>2, HostGames

\* What a server does touches no game.
LEMMA ServerGames ==
  ASSUME QueuesOK, MasterQuiet, NEW s \in GameServer,
         inGame' = inGame \/ inGame' = inGame \ {s},
         \A g \in Host \ {s} : pending'[g] = pending[g] /\ connections'[g] = connections[g],
         NEW e \in Client, OneGame(e)
  PROVE  OneGame(e)'
BY HostGames, Sides

LEMMA HandlePunchGames ==
  ASSUME QueuesOK, SidesApart, NEW m \in network, HandlePunch(m),
         NEW e \in Client, OneGame(e)
  PROVE  OneGame(e)'
<1> DEFINE h == m.to
           asks(w) == [w EXCEPT !.state = "AwaitingConnectResponse", !.address = m.from,
                                !.sendCount = 1]
<1>1. /\ h \in Host /\ m.from \in Other(h) \X Nat
      /\ MasterQuiet /\ UNCHANGED <<inGame, connections>>
  BY Arrives DEF HandlePunch, master, MasterQuiet
<1>2. PICK c \in pending[h] :
         \/ pending' = [pending EXCEPT ![h] = (@ \ {c}) \cup {asks(WithAddress(c, m.from))}]
         \/ pending' = [pending EXCEPT ![h] = (@ \ {c}) \cup {WithAddress(c, m.from)}]
  BY DEF HandlePunch
<1>3. MayPend(h, c)
  BY <1>1 DEF SidesApart
<1> DEFINE w == WithAddress(c, m.from)
<1>4. w \in PendingSet /\ w.id = c.id
  BY <1>1, <1>3, WithAddressPends DEF MayPend
<1>5. asks(w).id = w.id
  BY <1>4 DEF PendingSet
<1>6. PICK d : d.id = c.id /\ pending' = [pending EXCEPT ![h] = (@ \ {c}) \cup {d}]
  BY <1>2, <1>4, <1>5
<1> HIDE DEF h, w
<1> QED BY <1>1, <1>6, GoesOnGames

LEMMA RetryGames ==
  ASSUME QueuesOK, SidesApart, NEW h \in Host, Retry(h), NEW e \in Client, OneGame(e)
  PROVE  OneGame(e)'
<1>1. /\ MasterQuiet /\ connections' = connections
      /\ \E c \in pending[h] :
           \/ pending' = Removed(h, c) /\ inGame' = inGame \ {h}
           \/ /\ pending' = [pending EXCEPT ![h] = (@ \ {c}) \cup {Resent(c)}]
              /\ inGame' = inGame
  BY DEF Retry, master, MasterQuiet
<1>2. PICK c \in pending[h] :
           \/ pending' = Removed(h, c) /\ inGame' = inGame \ {h}
           \/ /\ pending' = [pending EXCEPT ![h] = (@ \ {c}) \cup {Resent(c)}]
              /\ inGame' = inGame
  BY <1>1
<1>3. CASE pending' = Removed(h, c) /\ inGame' = inGame \ {h}
  BY <1>1, <1>3, RemovedGames
<1>4. CASE /\ pending' = [pending EXCEPT ![h] = (@ \ {c}) \cup {Resent(c)}]
           /\ inGame' = inGame
  <2>1. MayPend(h, c)
    BY DEF SidesApart
  <2>2. Resent(c).id = c.id
    BY <2>1 DEF MayPend, PendingSet, Resent
  <2> QED BY <1>1, <1>4, <2>2, GoesOnGames
<1> QED BY <1>2, <1>3, <1>4

LEMMA HandleConnectAcceptGames ==
  ASSUME QueuesOK, SidesApart, NEW m \in network, HandleConnectAccept(m),
         NEW e \in Client, OneGame(e)
  PROVE  OneGame(e)'
<1> DEFINE h == m.to
<1>1. h \in Host /\ MasterQuiet /\ inGame' = inGame
  BY Arrives DEF HandleConnectAccept, master, MasterQuiet
<1>2. PICK c \in pending[h] :
        /\ pending' = Removed(h, c)
        /\ \E d : /\ d.id = c.id
                  /\ connections' = [connections EXCEPT ![h] = @ \cup {d}]
  BY DEF HandleConnectAccept, FindPending, Connected
<1>3. PICK d : d.id = c.id /\ connections' = [connections EXCEPT ![h] = @ \cup {d}]
  BY <1>2
<1> HIDE DEF h
<1>4. \A g \in Host \ {h} : pending'[g] = pending[g] /\ connections'[g] = connections[g]
  BY <1>2, <1>3 DEF SidesApart, Removed
<1>5. ASSUME h \in Client, OneGame(h)
      PROVE  c \in Attempts(h) /\ Attempts(h)' \subseteq {d}
  <2>1. /\ pending'[h] = pending[h] \ {c} /\ connections'[h] = connections[h] \cup {d}
        /\ c \notin connections[h]
    BY <1>1, <1>2, <1>3, PendingOrConnected DEF SidesApart, Removed
  <2>2. c \in Attempts(h) /\ \A a \in Attempts(h) : a = c
    BY <1>5 DEF OneGame, Attempts
  <2> QED BY <2>1, <2>2 DEF Attempts
<1> QED BY <1>1, <1>3, <1>4, <1>5, HostGames

LEMMA HandleArrangedConnectRequestGames ==
  ASSUME QueuesOK, SidesApart, NEW m \in network, HandleArrangedConnectRequest(m),
         NEW e \in Client, OneGame(e)
  PROVE  OneGame(e)'
<1> DEFINE s == m.to
<1>1. s \in GameServer
  BY Arrives DEF HandleArrangedConnectRequest
<1>2. /\ MasterQuiet /\ inGame' = inGame
      /\ DOMAIN pending = Host /\ DOMAIN connections = Host
  BY DEF HandleArrangedConnectRequest, master, MasterQuiet, SidesApart
<1>3. /\ pending' = pending \/ \E S : pending' = [pending EXCEPT ![s] = S]
      /\ connections' = connections \/ \E S : connections' = [connections EXCEPT ![s] = S]
  BY DEF HandleArrangedConnectRequest, Removed
<1> HIDE DEF s
<1>4. \A g \in Host \ {s} : pending'[g] = pending[g] /\ connections'[g] = connections[g]
  BY <1>2, <1>3
<1> QED BY <1>1, <1>2, <1>4, ServerGames

\* Everything that happens between the hosts.
LEMMA PunchNextGames ==
  ASSUME QueuesOK, SidesApart, PunchNext, NEW e \in Client, OneGame(e)
  PROVE  OneGame(e)'
<1>1. ASSUME NEW m \in network, HandleConnectReject(m) PROVE OneGame(e)'
  <2>1. m.to \in Host /\ MasterQuiet
    BY <1>1, Arrives DEF HandleConnectReject, master, MasterQuiet
  <2>2. /\ \E c \in pending[m.to] : pending' = Removed(m.to, c)
        /\ connections' = connections /\ inGame' = inGame \ {m.to}
    BY <1>1 DEF HandleConnectReject, FindPending
  <2> QED BY <2>1, <2>2, RemovedGames
<1>2. ASSUME NEW m \in network, HandleDisconnect(m) PROVE OneGame(e)'
  <2>1. m.to \in Host /\ MasterQuiet
    BY <1>2, Arrives DEF HandleDisconnect, master, MasterQuiet
  <2>2. /\ \E c \in connections[m.to] :
             connections' = [connections EXCEPT ![m.to] = @ \ {c}]
        /\ pending' = pending /\ inGame' = inGame \ {m.to}
    BY <1>2, Found DEF HandleDisconnect
  <2> QED BY <2>1, <2>2, RemovedGames
<1>3. ASSUME NEW s \in GameServer, Drop(s) PROVE OneGame(e)'
  <2>1. MasterQuiet /\ inGame' = inGame
    BY <1>3 DEF Drop, master, MasterQuiet
  <2>2. \A g \in Host \ {s} : pending'[g] = pending[g] /\ connections'[g] = connections[g]
    BY <1>3 DEF Drop, DisconnectOf, Removed, SidesApart
  <2> QED BY <2>1, <2>2, ServerGames
<1>4. ASSUME NEW h \in Host, TimeOut(h) PROVE OneGame(e)'
  <2>1. MasterQuiet /\ pending' = pending /\ inGame' = inGame \ {h}
    BY <1>4 DEF TimeOut, master, MasterQuiet
  <2>2. \E c \in connections[h] : connections' = [connections EXCEPT ![h] = @ \ {c}]
    BY <1>4 DEF TimeOut
  <2> QED BY <2>1, <2>2, RemovedGames
<1> QED BY <1>1, <1>2, <1>3, <1>4, HandlePunchGames, HandleArrangedConnectRequestGames,
           HandleConnectAcceptGames, RetryGames DEF PunchNext

-----------------------------------------------------------------------------
\* What the master and its clients do.

LEMMA JoinGameGames ==
  ASSUME QueuesOK, NEW c \in Client, NEW s \in GameServer, JoinGame(c, s),
         NEW e \in Client, OneGame(e)
  PROVE  OneGame(e)'
<1>1. /\ c \notin inGame /\ inGame' = inGame \cup {c}
      /\ UNCHANGED <<connected, connectList, fromMaster, game, pending, connections>>
      /\ \E q : toMaster' = [toMaster EXCEPT ![c] = q]
      /\ \E q : currentQueryId' = [currentQueryId EXCEPT ![c] = q]
  BY DEF JoinGame
<1>2. CASE e # c
  <2>1. /\ toMaster'[e] = toMaster[e] /\ currentQueryId'[e] = currentQueryId[e]
        /\ e \in inGame' <=> e \in inGame
    BY <1>1, <1>2
  <2>2. StillAsked(e)
    BY <1>1, <2>1, AskedLess DEF Shrinks
  <2> QED BY <1>1, <2>1, <2>2, OneGameSame
<1>3. CASE e = c
  <2>1. Attempts(c)' = {}
    BY <1>1, <1>3 DEF OneGame, Attempts
  <2> QED BY <1>1, <1>3, <2>1 DEF OneGame
<1> QED BY <1>2, <1>3

\* The games are not touched when the master takes a call.
LEMMA MasterGames ==
  ASSUME NEW e \in Client, OneGame(e), StillAsked(e), connected' \subseteq connected,
         UNCHANGED <<currentQueryId, inGame, game, pending, connections>>
  PROVE  OneGame(e)'
BY OneGameSame

LEMMA DisconnectedGames ==
  ASSUME QueuesOK, ListsOK, NEW h \in Host, Disconnected(h), NEW e \in Client, OneGame(e)
  PROVE  OneGame(e)'
<1>1. /\ connected' \subseteq connected
      /\ toMaster' = [toMaster EXCEPT ![h] = <<>>]
      /\ fromMaster' = [fromMaster EXCEPT ![h] = <<>>]
      /\ connectList' = [connectList EXCEPT ![h] = <<>>]
      /\ UNCHANGED <<currentQueryId, inGame, game, pending, connections>>
  BY DEF Disconnected
<1>2. Shrinks(toMaster'[e], toMaster[e]) /\ Shrinks(fromMaster'[e], fromMaster[e])
  BY <1>1, Sides DEF QueuesOK, Shrinks
<1>3. \A s \in GameServer : ToSet(connectList'[s]) \subseteq ToSet(connectList[s])
  <2>1. \A s \in GameServer : connectList'[s] = connectList[s] \/ connectList'[s] = <<>>
    BY <1>1, Sides DEF ListsOK
  <2> QED BY <2>1, NothingListed
<1> QED BY <1>1, <1>2, <1>3, AskedLess, MasterGames

LEMMA ServerRequestedGames ==
  ASSUME QueuesOK, SidesApart, NEW s \in GameServer, ServerRequested(s),
         NEW e \in Client, OneGame(e)
  PROVE  OneGame(e)'
<1>1. /\ \E q : toMaster' = [toMaster EXCEPT ![s] = q]
      /\ \E q : fromMaster' = [fromMaster EXCEPT ![s] = q]
      /\ UNCHANGED <<connected, connectList, currentQueryId, inGame, game>>
      /\ pending' = pending \/ \E S : pending' = [pending EXCEPT ![s] = S]
      /\ connections' = connections \/ \E S : connections' = [connections EXCEPT ![s] = S]
  BY DEF ServerRequested, ConnectArranged
<1>2. /\ toMaster'[e] = toMaster[e] /\ fromMaster'[e] = fromMaster[e]
      /\ pending'[e] = pending[e] /\ connections'[e] = connections[e]
  BY <1>1, Sides DEF QueuesOK, SidesApart
<1>3. StillAsked(e)
  BY <1>1, <1>2, AskedLess DEF Shrinks
<1> QED BY <1>1, <1>2, <1>3, OneGameSame

\* The query whose answer has been taken is under way no longer.
LEMMA AnswerTaken ==
  ASSUME QueuesOK, QueriesAnswered, NEW c \in Client, fromMaster[c] # <<>>,
         IsAnswer(fromMaster[c][1]),
         fromMaster' = [fromMaster EXCEPT ![c] = Tail(@)],
         UNCHANGED <<toMaster, connectList>>,
         NEW id, id = fromMaster[c][1].requestId
  PROVE  ~Asked(c, id)'
<1>1. /\ fromMaster[c] \in Seq(ClientCall) /\ fromMaster'[c] = Tail(fromMaster[c])
  BY QueueTypes, Sides DEF QueuesOK
<1>2. /\ 1 \in DOMAIN fromMaster[c]
      /\ \A j \in DOMAIN Tail(fromMaster[c]) :
           /\ j \in Nat /\ j + 1 \in DOMAIN fromMaster[c] /\ j + 1 # 1
           /\ Tail(fromMaster[c])[j] = fromMaster[c][j + 1]
  BY <1>1, HeadAndTail
<1>3. /\ \A k \in DOMAIN fromMaster[c] :
           IsAnswer(fromMaster[c][k]) /\ fromMaster[c][k].requestId = id => k = 1
      /\ \A k \in DOMAIN toMaster[c] : toMaster[c][k].requestId # id
      /\ \A s \in GameServer : \A r \in ToSet(connectList[s]) :
           r.initiator = c => r.initiatorQueryId # id
  BY <1>2 DEF QueriesAnswered
<1>4. \A j \in DOMAIN fromMaster'[c] :
        IsAnswer(fromMaster'[c][j]) => fromMaster'[c][j].requestId # id
  <2> SUFFICES ASSUME NEW j \in DOMAIN Tail(fromMaster[c]),
                      IsAnswer(fromMaster'[c][j]), fromMaster'[c][j].requestId = id
               PROVE  FALSE
    BY <1>1
  <2>1. PICK k \in DOMAIN fromMaster[c] : k # 1 /\ fromMaster'[c][j] = fromMaster[c][k]
    BY <1>1, <1>2
  <2> QED BY <1>3, <2>1 DEF IsAnswer
<1>5. ~\E j \in DOMAIN toMaster'[c] : toMaster'[c][j].requestId = id
  BY <1>3
<1>6. ~\E s \in GameServer : \E r \in ToSet(connectList'[s]) :
          r.initiator = c /\ r.initiatorQueryId = id
  BY <1>3
<1>7. ~\E j \in DOMAIN fromMaster'[c] :
          IsAnswer(fromMaster'[c][j]) /\ fromMaster'[c][j].requestId = id
  BY <1>4
<1> QED BY <1>5, <1>6, <1>7 DEF Asked, IsAnswer

\* The head of the calls of the master.
LEMMA AnsweredNow ==
  ASSUME QueuesOK, NEW c \in Client, fromMaster[c] # <<>>, IsAnswer(fromMaster[c][1])
  PROVE  Asked(c, fromMaster[c][1].requestId) /\ c \in connected
<1>1. 1 \in DOMAIN fromMaster[c]
  BY QueueTypes, HeadAndTail
<1> QED BY <1>1, QueueOfConnected, Sides DEF Asked

LEMMA ClientAcceptedGames ==
  ASSUME MasterInv, PeersInv, NEW c \in Client, ClientAccepted(c),
         NEW e \in Client, OneGame(e), game \in [Client -> Nat]
  PROVE  OneGame(e)'
<1>1. /\ QueuesOK /\ QueriesAnswered /\ SidesApart /\ NoncesGranted
      /\ fresh \in Nat
  BY DEF MasterInv, PeersInv, NoncesApart, SidesApart
<1>2. /\ fromMaster[c] # <<>> /\ fromMaster' = [fromMaster EXCEPT ![c] = Tail(@)]
      /\ fromMaster[c][1] \in ClientCall /\ IsGrant(fromMaster[c][1])
      /\ toMaster' = toMaster
      /\ \/ UNCHANGED <<fresh, game, pending, connections, network>>
         \/ /\ fresh' = fresh + 1 /\ game' = [game EXCEPT ![c] = fresh']
            /\ fromMaster[c][1].requestId = currentQueryId[c]
            /\ \A g \in Host \ {c} : pending'[g] = pending[g]
            /\ \A g \in Host : connections'[g] \subseteq connections[g]
            /\ \E d : /\ d.id = fresh' /\ pending'[c] \subseteq pending[c] \cup {d}
  BY <1>1, ClientTakesGrant
<1>3. UNCHANGED <<connected, connectList, currentQueryId, inGame>>
  BY DEF ClientAccepted
<1>4. StillAsked(e)
  <2>1. Shrinks(toMaster'[e], toMaster[e]) /\ Shrinks(fromMaster'[e], fromMaster[e])
    BY <1>1, <1>2, Sides DEF QueuesOK, Shrinks
  <2> QED BY <1>1, <1>3, <2>1, AskedLess
<1>5. CASE UNCHANGED <<fresh, game, pending, connections, network>>
  BY <1>3, <1>4, <1>5, OneGameSame
<1>6. CASE /\ fresh' = fresh + 1 /\ game' = [game EXCEPT ![c] = fresh']
           /\ fromMaster[c][1].requestId = currentQueryId[c]
           /\ \A g \in Host \ {c} : pending'[g] = pending[g]
           /\ \A g \in Host : connections'[g] \subseteq connections[g]
           /\ \E d : /\ d.id = fresh' /\ pending'[c] \subseteq pending[c] \cup {d}
  <2>1. CASE e # c
    <3>1. /\ game'[e] = game[e] /\ pending'[e] = pending[e]
          /\ connections'[e] \subseteq connections[e]
      BY <1>6, <2>1, Sides
    <3> QED BY <1>3, <1>4, <3>1, OneGameSame
  <2>2. CASE e = c
    <3>1. IsAnswer(fromMaster[c][1])
      BY <1>2 DEF IsGrant, IsAnswer
    <3>2. Asked(c, fromMaster[c][1].requestId) /\ c \in connected
      BY <1>1, <1>2, <3>1, AnsweredNow
    <3>3. Asked(c, currentQueryId[c])
      BY <1>6, <3>2
    <3>4. c \in inGame /\ Attempts(c) = {}
      BY <2>2, <3>2, <3>3 DEF OneGame
    <3>5. PICK d : d.id = fresh' /\ pending'[c] \subseteq pending[c] \cup {d}
      BY <1>6
    <3>6. Attempts(c)' \subseteq {d} /\ game'[c] = d.id
      BY <1>6, <3>4, <3>5, Sides DEF Attempts
    <3>7. PICK id : id = fromMaster[c][1].requestId
      OBVIOUS
    <3>8. ~Asked(c, currentQueryId[c])'
      <4>1. ~Asked(c, id)'
        BY <1>1, <1>2, <1>3, <3>1, <3>7, AnswerTaken
      <4>2. currentQueryId'[c] = id
        BY <1>3, <1>6, <3>7
      <4> QED BY <4>1, <4>2 DEF Asked
    <3> QED BY <1>3, <2>2, <3>4, <3>6, <3>8 DEF OneGame
  <2> QED BY <2>1, <2>2
<1> QED BY <1>2, <1>5, <1>6

\* The id of the next query is of no query under way.
LEMMA NextQuery ==
  ASSUME MasterInv, NEW c \in Client, StillAsked(c),
         currentQueryId' = [currentQueryId EXCEPT ![c] = Cancelled(@)]
  PROVE  ~Asked(c, currentQueryId[c])'
<1>1. currentQueryId[c] \in Nat /\ currentQueryId'[c] = currentQueryId[c] + 1
  BY DEF MasterInv, Cancelled
<1>2. PICK n : n = currentQueryId[c] + 1
  OBVIOUS
<1>3. ~Asked(c, n)
  BY <1>1, <1>2, AskedBefore
<1>4. ~Asked(c, n)'
  BY <1>3 DEF StillAsked
<1> QED BY <1>1, <1>2, <1>4 DEF Asked

LEMMA EndedGames ==
  ASSUME MasterInv, SidesApart, NEW c \in Client, Ended(c),
         \/ fromMaster' = fromMaster
         \/ fromMaster[c] # <<>> /\ fromMaster' = [fromMaster EXCEPT ![c] = Tail(@)],
         NEW e \in Client, e \notin ignored', OneGame(e)
  PROVE  OneGame(e)'
<1>1. QueuesOK /\ currentQueryId \in [Client -> Nat]
  BY DEF MasterInv
<1>2. /\ UNCHANGED <<game, connected, connectList, toMaster>>
      /\ inGame' = inGame \ {c}
      /\ currentQueryId' = [currentQueryId EXCEPT ![c] =
            IF c \in connected THEN Cancelled(@) ELSE @]
      /\ \/ Games(c) = {} /\ UNCHANGED <<pending, connections>>
         \/ \E d \in Games(c) :
              /\ DisconnectOf(c, d)
              /\ d.state = "SendingPunchPackets" => c \in ignored'
  BY DEF Ended
<1>3. StillAsked(e)
  <2>1. Shrinks(toMaster'[e], toMaster[e]) /\ Shrinks(fromMaster'[e], fromMaster[e])
    BY <1>1, <1>2, Sides DEF QueuesOK, Shrinks
  <2> QED BY <1>1, <1>2, <2>1, AskedLess
<1>4. DOMAIN pending = Host /\ DOMAIN connections = Host
  BY DEF SidesApart
<1>5. CASE e # c
  <2>1. /\ pending'[e] = pending[e] /\ connections'[e] = connections[e]
        /\ currentQueryId'[e] = currentQueryId[e] /\ (e \in inGame' <=> e \in inGame)
    BY <1>1, <1>2, <1>4, <1>5, Sides DEF DisconnectOf, Removed
  <2> QED BY <1>2, <1>3, <2>1, OneGameSame
<1>6. CASE e = c
  <2>1. Attempts(c)' = {}
    <3>1. CASE Games(c) = {} /\ UNCHANGED <<pending, connections>>
      BY <1>6, <3>1 DEF OneGame, Games, Attempts
    <3>2. ASSUME NEW d \in Games(c), DisconnectOf(c, d),
                 d.state = "SendingPunchPackets" => c \in ignored'
          PROVE  Attempts(c)' = {}
      <4>1. d \in Attempts(c) /\ \A a \in Attempts(c) : a = d
        BY <1>6 DEF OneGame, Games, Attempts
      <4>2. d \in pending[c] => d.state = "AwaitingConnectResponse" /\ d \notin connections[c]
        BY <1>6, <3>2, PendTypes, PendingOrConnected, Sides DEF SidesApart
      <4>3. /\ pending'[c] = (IF d.state = "AwaitingConnectResponse" THEN pending[c] \ {d}
                              ELSE pending[c])
            /\ connections'[c] = connections[c] \ {d}
        BY <1>4, <3>2, Sides DEF DisconnectOf, Removed
      <4> QED BY <4>1, <4>2, <4>3 DEF Attempts
    <3> QED BY <1>2, <3>1, <3>2
  <2>2. c \in connected' => ~Asked(c, currentQueryId[c])'
    BY <1>2, <1>3, <1>6, NextQuery
  <2> QED BY <1>2, <1>6, <2>1, <2>2 DEF OneGame
<1> QED BY <1>5, <1>6

LEMMA ClientRejectedGames ==
  ASSUME MasterInv, SidesApart, NEW c \in Client, ClientRejected(c),
         NEW e \in Client, e \notin ignored', OneGame(e)
  PROVE  OneGame(e)'
<1>1. /\ fromMaster[c] # <<>> /\ fromMaster' = [fromMaster EXCEPT ![c] = Tail(@)]
      /\ \/ Ended(c)
         \/ UNCHANGED <<currentQueryId, inGame, game, connected, connectList, toMaster,
                        pending, connections>>
  BY DEF ClientRejected
<1>2. QueuesOK
  BY DEF MasterInv
<1>3. CASE UNCHANGED <<currentQueryId, inGame, game, connected, connectList, toMaster,
                       pending, connections>>
  <2>1. Shrinks(toMaster'[e], toMaster[e]) /\ Shrinks(fromMaster'[e], fromMaster[e])
    BY <1>1, <1>2, <1>3, Sides DEF QueuesOK, Shrinks
  <2> QED BY <1>2, <1>3, <2>1, AskedLess, MasterGames
<1> QED BY <1>1, <1>3, EndedGames

LEMMA NextGames ==
  ASSUME MasterInv, PeersInv, GamesInv, [Next]_vars
  PROVE  GamesInv'
<1>1. /\ QueuesOK /\ ListsOK /\ lastQueryId \in [Host -> Nat]
      /\ SidesApart /\ fresh \in Nat
  BY DEF MasterInv, PeersInv, SidesApart
<1>2. /\ game' \in [Client -> Nat] /\ inGame' \cup ignored' \subseteq Client
      /\ ignored \subseteq ignored' /\ game \in [Client -> Nat]
  BY <1>1, GameTypes DEF GamesInv
<1> SUFFICES ASSUME NEW e \in Client, e \notin ignored'
             PROVE  OneGame(e)'
  BY <1>2 DEF GamesInv
<1>3. OneGame(e)
  BY <1>2 DEF GamesInv
<1>4. ASSUME NEW c \in Client, MasterRequestArranged(c) PROVE OneGame(e)'
  <2>1. UNCHANGED <<connected, currentQueryId, inGame, game, pending, connections>>
    BY <1>4 DEF MasterRequestArranged
  <2> QED BY <1>1, <1>3, <1>4, <2>1, RequestedStill, MasterGames
<1>5. ASSUME NEW s \in GameServer, MasterAnswer(s) PROVE OneGame(e)'
  <2>1. UNCHANGED <<connected, currentQueryId, inGame, game, pending, connections>>
    BY <1>5 DEF MasterAnswer
  <2> QED BY <1>1, <1>3, <1>5, <2>1, AnsweredStill, MasterGames
<1>6. ASSUME NEW h \in Host, LoseMaster(h) \/ ClientInvalidPacket(h) PROVE OneGame(e)'
  BY <1>1, <1>3, <1>6, DisconnectedGames DEF LoseMaster, ClientInvalidPacket
<1>7. ASSUME NEW c \in Client, EndGame(c) PROVE OneGame(e)'
  BY <1>1, <1>3, <1>7, EndedGames DEF EndGame
<1>8. CASE UNCHANGED vars
  BY <1>1, <1>3, <1>8, AskedLess, MasterGames DEF vars, master, Shrinks
<1>9. CASE MasterNext
  BY <1>1, <1>2, <1>3, <1>4, <1>5, <1>6, <1>7, <1>9, Sides, JoinGameGames,
     ClientAcceptedGames, ClientRejectedGames, ServerRequestedGames DEF MasterNext
<1> QED BY <1>1, <1>3, <1>8, <1>9, PunchNextGames DEF Next

-----------------------------------------------------------------------------
\* Master, peers and games together: the invariant that every step keeps.
THEOREM ArrangedInvariant == Spec => []ArrangedInv
<1>1. Init => ArrangedInv
  BY InitMaster, InitPeers, InitGames DEF ArrangedInv
<1>2. ArrangedInv /\ [Next]_vars => ArrangedInv'
  <2> SUFFICES ASSUME MasterInv, PeersInv, GamesInv, [Next]_vars
               PROVE  ArrangedInv'
    BY DEF ArrangedInv
  <2>1. fresh \in Nat
    BY DEF PeersInv, SidesApart
  <2> QED BY <2>1, NextMaster, NextPeers, NextGames DEF ArrangedInv
<1> QED BY <1>1, <1>2, PTL DEF Spec

\* The lists of the master and of the hosts are well formed, and a request is in the
\* list of its server exactly if it is in that of its client: what findAndRemoveRequest
\* and removeConnectRequest (master/main.cpp) keep up, in any order of answers, losses
\* of connections and games ended.
THEOREM ArrangedListsHold == Spec => []ArrangedStateOK
<1>1. ArrangedInv => ArrangedStateOK
  <2> SUFFICES ASSUME MasterInv, PeersInv, GamesInv
               PROVE  ArrangedStateOK
    BY DEF ArrangedInv
  <2>1. ListsOK /\ SidesApart
    BY DEF MasterInv, PeersInv
  <2>2. ASSUME NEW h \in Host, NEW j \in DOMAIN connectList[h]
        PROVE  /\ connectList[h][j].initiator \in Client
               /\ connectList[h][j].host \in GameServer
    BY <2>1, ListTypes DEF ToSet
  <2>3. ASSUME NEW h \in Host, NEW c \in pending[h]
        PROVE  /\ c.isInitiator <=> h \in Client
               /\ c.addresses \subseteq Host \X Nat
               /\ Cardinality(c.addresses) <= MaxAddresses
               /\ c.state \in {"SendingPunchPackets", "AwaitingConnectResponse"}
               /\ c.sendCount \in 1 .. (RetryCount(c) + 1)
    <3>1. MayPend(h, c)
      BY <2>1 DEF SidesApart
    <3> QED BY <3>1 DEF MayPend, PendingSet
  <2>4. ASSUME NEW h \in Host, NEW c \in connections[h]
        PROVE  c.address[1] # h
    <3>1. c.address \in Other(h) \X Nat
      BY <2>1 DEF SidesApart, MayConnect
    <3> QED BY <3>1, OtherSide
  <2>5. /\ connected \subseteq Host /\ inGame \cup ignored \subseteq Client
        /\ lastQueryId \in [Host -> Nat] /\ currentQueryId \in [Client -> Nat]
        /\ joins \in 0 .. MaxJoins /\ RequestListsAgree
    BY DEF MasterInv, GamesInv
  <2>6. ArrangedTypeOK
    BY <2>2, <2>3, <2>4, <2>5 DEF ArrangedTypeOK
  <2> QED BY <2>5, <2>6 DEF ArrangedStateOK
<1> QED BY <1>1, ArrangedInvariant, PTL

\* An attempt of a client is the only one with its nonce; once established it was
\* accepted by the server it was arranged with, and each side knows the other's first
\* sequence number (handleConnectAccept, handleArrangedConnectRequest), whatever
\* packets are lost, duplicated and reordered.
THEOREM ArrangedSidesAgree == Spec => []ArrangedAgree
<1>1. ArrangedInv => ArrangedAgree
  <2> SUFFICES ASSUME PeersInv, NEW h \in Client, NEW c \in pending[h] \cup connections[h]
               PROVE  /\ \A p \in Client : \A d \in pending[p] \cup connections[p] :
                           c.nonce = d.nonce => h = p /\ c.id = d.id
                      /\ c \in connections[h] =>
                           \E x \in accepted :
                              /\ x.host = c.address[1] /\ x.connection.address[1] = h
                              /\ x.connection.nonce = c.nonce
                              /\ x.connection.recvSequence = c.id
                              /\ x.connection.id = c.recvSequence
    BY DEF ArrangedInv, ArrangedAgree
  <2>1. ASSUME NEW p \in Client, NEW d \in pending[p] \cup connections[p],
               c.nonce = d.nonce
        PROVE  h = p /\ c.id = d.id
    <3>1. \A g \in Client : \A a \in pending[g] \cup connections[g] :
            [nonce |-> a.nonce, id |-> a.id] \in Uses(g)
      BY DEF Uses, Attempts
    <3> DEFINE use(a) == [nonce |-> a.nonce, id |-> a.id]
    <3>2. /\ use(c) \in Uses(h) /\ use(d) \in Uses(p)
          /\ use(c).nonce = use(d).nonce
      BY <2>1, <3>1
    <3>3. h = p /\ use(c).id = use(d).id
      BY <3>2 DEF PeersInv, NoncesApart, NoncesUsed
    <3> QED BY <3>3
  <2>2. ClientsAccepted
    BY DEF PeersInv
  <2> QED BY <2>1, <2>2 DEF ClientsAccepted, AcceptedFor
<1> QED BY <1>1, ArrangedInvariant, PTL

\* When a client takes the acceptance of its request, its connection to the server has
\* gone ("Error, a connection already exists here.", zap/game.cpp:400), however games
\* are joined and ended and old answers come late - unless an attempt was ended while
\* it was sending punch packets.
THEOREM NoGameIsLeft == Spec => []NoGameLeft
<1>1. ArrangedInv => NoGameLeft
  <2> SUFFICES ASSUME MasterInv, GamesInv, NEW c \in Client, c \notin ignored,
                      fromMaster[c] # <<>>,
                      Head(fromMaster[c]).rpc = "ArrangedConnectionAccepted",
                      Head(fromMaster[c]).requestId = currentQueryId[c]
               PROVE  Games(c) = {}
    BY DEF ArrangedInv, NoGameLeft
  <2>1. QueuesOK
    BY DEF MasterInv
  <2>2. Head(fromMaster[c]) = fromMaster[c][1]
    BY <2>1, QueueTypes, HeadAndTail
  <2>3. IsAnswer(fromMaster[c][1]) /\ fromMaster[c][1].requestId = currentQueryId[c]
    BY <2>2 DEF IsAnswer
  <2>4. Asked(c, currentQueryId[c]) /\ c \in connected
    BY <2>1, <2>3, AnsweredNow
  <2>5. Attempts(c) = {}
    BY <2>4 DEF GamesInv, OneGame
  <2> QED BY <2>5 DEF Attempts, Games
<1> QED BY <1>1, ArrangedInvariant, PTL

\* Only handleArrangedConnectRequest adds a connection of a server.
LEMMA ServersConnect ==
  ASSUME SidesApart, QueuesOK, Next, NEW s \in GameServer
  PROVE  \/ connections'[s] \subseteq connections[s]
         \/ \E m \in network : HandleArrangedConnectRequest(m) /\ m.to = s
<1> USE DEF SidesApart
<1>1. ASSUME NEW h \in Host, NEW c, ConnectArranged(h, c)
      PROVE  connections'[s] \subseteq connections[s]
  BY <1>1, Sides DEF ConnectArranged
<1>2. ASSUME NEW h \in Host, NEW c, DisconnectOf(h, c)
      PROVE  connections'[s] \subseteq connections[s]
  BY <1>2, Sides DEF DisconnectOf
<1>3. CASE MasterNext
  <2>1. ASSUME NEW c \in Client, \/ MasterRequestArranged(c) \/ ClientInvalidPacket(c)
                                 \/ \E g \in GameServer : JoinGame(c, g)
        PROVE  connections' = connections
    BY <2>1 DEF MasterRequestArranged, ClientInvalidPacket, JoinGame, Disconnected
  <2>2. ASSUME NEW c \in Client, ClientAccepted(c)
        PROVE  \/ connections' = connections \/ \E d : ConnectArranged(c, d)
    BY <2>2 DEF ClientAccepted
  <2>3. ASSUME NEW c \in Client, ClientRejected(c) \/ EndGame(c)
        PROVE  \/ connections' = connections \/ \E d : DisconnectOf(c, d)
    BY <2>3 DEF ClientRejected, EndGame, Ended
  <2>4. ASSUME NEW t \in GameServer, MasterAnswer(t) \/ ServerRequested(t)
        PROVE  \/ connections' = connections \/ \E d : ConnectArranged(t, d)
    BY <2>4 DEF MasterAnswer, ServerRequested
  <2>5. ASSUME NEW h \in Host, LoseMaster(h)
        PROVE  connections' = connections
    BY <2>5 DEF LoseMaster, Disconnected
  <2> QED BY <1>1, <1>2, <1>3, <2>1, <2>2, <2>3, <2>4, <2>5, Sides DEF MasterNext
<1>4. CASE PunchNext
  <2>1. ASSUME NEW m \in network,
               HandlePunch(m) \/ HandleConnectReject(m) \/ HandleDisconnect(m)
        PROVE  connections'[s] \subseteq connections[s]
    BY <2>1, Sides DEF HandlePunch, HandleConnectReject, HandleDisconnect
  <2>2. ASSUME NEW m \in network, HandleConnectAccept(m)
        PROVE  connections'[s] \subseteq connections[s]
    <3>1. m.to \in Host
      BY Arrives
    <3>2. PICK c \in pending[m.to] : c.state = "AwaitingConnectResponse"
      BY <2>2 DEF HandleConnectAccept, FindPending, IsAccepted
    <3>3. m.to \in Client
      BY <3>1, <3>2, PendTypes
    <3>4. m.to # s
      BY <3>3, Sides
    <3> QED BY <2>2, <3>4, Sides DEF HandleConnectAccept
  <2>3. ASSUME NEW m \in network, HandleArrangedConnectRequest(m), m.to # s
        PROVE  connections'[s] \subseteq connections[s]
    BY <2>3, Sides DEF HandleArrangedConnectRequest
  <2>4. ASSUME NEW h \in Host, Drop(h) \/ TimeOut(h) \/ Retry(h)
        PROVE  connections'[s] \subseteq connections[s]
    BY <1>2, <2>4, Sides DEF Drop, TimeOut, Retry
  <2> QED BY <1>4, <2>1, <2>2, <2>3, <2>4, Sides DEF PunchNext
<1> QED BY <1>3, <1>4 DEF Next

\* A nonce makes one connection of a server, and no second one after that has ended,
\* however often punches and requests are repeated and delayed: the pending connection
\* goes when handleArrangedConnectRequest accepts it, and its nonce is never drawn again.
THEOREM AcceptedOnlyOnce == Spec => AcceptedOnce
<1> DEFINE Once == \A s \in GameServer : \A c \in connections'[s] \ connections[s] :
                     \A x \in accepted : x.connection.nonce # c.nonce
<1>1. ArrangedInv /\ [Next]_vars => [Once]_vars
  <2> SUFFICES ASSUME MasterInv, PeersInv, Next, NEW s \in GameServer,
                      NEW c \in connections'[s], c \notin connections[s]
               PROVE  \A x \in accepted : x.connection.nonce # c.nonce
    BY DEF ArrangedInv
  <2>1. SidesApart /\ QueuesOK /\ ServersApart
    BY DEF MasterInv, PeersInv
  <2>2. PICK m \in network : HandleArrangedConnectRequest(m) /\ m.to = s
    BY <2>1, ServersConnect
  <2>3. \E d \in pending[s] : c = Connected(d, m.from, m.value)
    <3>1. \/ connections' = connections
          \/ \E d \in pending[s] : \E old :
               connections' = [connections EXCEPT ![s] =
                                 (@ \ old) \cup {Connected(d, m.from, m.value)}]
          \/ \E old : connections' = [connections EXCEPT ![s] = @ \ old]
      BY <2>2 DEF HandleArrangedConnectRequest
    <3>2. DOMAIN connections = Host /\ s \in Host
      BY <2>1, Sides DEF SidesApart
    <3> QED BY <3>1, <3>2
  <2>4. \E d \in pending[s] : c.nonce = d.nonce
    BY <2>3 DEF Connected
  <2> QED BY <2>1, <2>4 DEF ServersApart
<1> QED BY <1>1, ArrangedInvariant, PTL DEF AcceptedOnce, Spec
=============================================================================
