------------------------- MODULE ArrangedConnection -------------------------
(***************************************************************************)
(* Arranged connections: a client asks the master server                   *)
(* (master/main.cpp) for a connection to a game server, the master         *)
(* introduces the two (zap/masterConnection.cpp), and they punch through   *)
(* their address translators to each other (tnl/netInterface.cpp).         *)
(*                                                                         *)
(* The RPCs to and from the master are guaranteed and ordered: a queue per *)
(* direction.  Between client and server the network loses, duplicates and *)
(* reorders packets.  An address is a host and a port; mNonce and          *)
(* mServerNonce are drawn together and always compared both: one number.   *)
(***************************************************************************)
EXTENDS Integers, Sequences, FiniteSets, SequencesExt

CONSTANTS
    Client, GameServer,
    SeenPort,           \* external: the port others but the master see a host at
    InitialQueryIds,    \* what mLastQueryId, not initialised, may be: functions
    MaxAddresses,       \* the 5 addresses that punches are sent to
    PunchRetryCount, ConnectRetryCount,
    MaxJoins            \* bound: calls of joinGame

Host == Client \cup GameServer

ASSUME ArrangedAssumption ==
    /\ Client \cap GameServer = {}
    /\ SeenPort \in [Host -> Nat]
    /\ InitialQueryIds \subseteq [Host -> Nat]
    /\ {MaxAddresses, PunchRetryCount, ConnectRetryCount, MaxJoins} \subseteq Nat
    /\ MaxAddresses >= 2        \* those that the master proposes

VARIABLES
    connected,      \* the hosts connected to the master
    lastQueryId,    \* mLastQueryId of their connections at the master
    connectList,    \* mConnectList of these connections
    toMaster, fromMaster,   \* the RPCs under way
    currentQueryId, \* mCurrentQueryId of the clients
    inGame,         \* the clients that show the game, not a menu
    game,           \* mConnectionToServer: the id of the last connection set
    joins,          \* history: for the bound; it numbers the requests
    misdirected     \* history: answers that reached another request

master == <<connected, lastQueryId, connectList, toMaster, fromMaster,
            currentQueryId, joins, misdirected>>

VARIABLES
    pending,        \* mPendingConnections of each host
    connections,    \* mConnectionList and mConnectionHashTable
    network,        \* the packets sent; each may arrive at any time, or never
    fresh,          \* the last random number drawn
    accepted,       \* history: the connections made for connect requests
    ignored         \* history: the clients that ended an attempt in vain

vars == <<master, inGame, game, pending, connections, network, fresh, accepted, ignored>>

-----------------------------------------------------------------------------
NoAddress == <<>>

Seen(h) == <<h, SeenPort[h]>>

\* The master sees every host at port 0, and proposes the next port as well,
\* and first.
PossibleAddresses(h) == {<<h, 1>>, <<h, 0>>}
FirstAddress(h) == <<h, 1>>

\* isEqualAddress: equal but for the port.
EqualAddress(x, y) == x[1] = y[1]

\* The packets of connection c of host h that the translators let through.
Packets(type, h, c, addresses) ==
    {[type |-> type, from |-> Seen(h), to |-> x[1], byInitiator |-> c.isInitiator,
      nonce |-> c.nonce, value |-> c.id] : x \in {y \in addresses : y = Seen(y[1])}}

Punches(h, c) == Packets("Punch", h, c, c.addresses)
Request(h, c) == Packets("ArrangedConnectRequest", h, c, {c.address})
Accept(h, c) == Packets("ConnectAccept", h, c, {c.address})
Disconnects(h, closed) == UNION {Packets("Disconnect", h, c, {c.address}) : c \in closed}

\* findPendingConnection: the first that was added.
FindPending(h, x) ==
    {c \in pending[h] : /\ c.address = x
                        /\ \A d \in pending[h] : d.address = x => c.id <= d.id}

\* findConnection may return any.
FindConnection(h, x) ==
    LET found == {c \in connections[h] : c.address = x}
    IN  IF found = {} THEN {{}} ELSE {{c} : c \in found}

RetryCount(c) ==
    IF c.state = "SendingPunchPackets" THEN PunchRetryCount ELSE ConnectRetryCount

Exhausted(c) == c.sendCount > RetryCount(c)

\* What a retry sends: sendPunchPackets or sendArrangedConnectRequest.
Retried(h, c) ==
    IF c.state = "SendingPunchPackets" THEN Punches(h, c) ELSE Request(h, c)

ResentUncountedFault(c) == c

\* Sent again, and counted.
Resent(c) == [c EXCEPT !.sendCount = @ + 1]

RemovedNoneFault(h, c) == pending

\* removePendingConnection.
Removed(h, c) == [pending EXCEPT ![h] = @ \ {c}]

AcceptedByAnyFault(c, m) == c.state = "AwaitingConnectResponse"

\* handleConnectAccept and handleConnectReject: the answer is for connection c.
IsAccepted(c, m) == c.state = "AwaitingConnectResponse" /\ c.nonce = m.nonce

\* erase_fast: the last element fills the hole.
EraseFast(list, j) == Front([list EXCEPT ![j] = Last(list)])

RemoveNoRequestFault(list, req) == list

\* removeConnectRequest.
RemoveConnectRequest(list, req) ==
    IF req \in ToSet(list)
    THEN EraseFast(list, CHOOSE j \in DOMAIN list : list[j] = req)
    ELSE list

\* findAndRemoveRequest looks for the first request of that id.
FindRequest(list, id) ==
    {j \in DOMAIN list : /\ list[j].hostQueryId = id
                         /\ \A k \in 1 .. (j - 1) : list[k].hostQueryId # id}

WithAddress(c, x) ==
    IF x \in c.addresses \/ Cardinality(c.addresses) >= MaxAddresses THEN c
    ELSE [c EXCEPT !.addresses = @ \cup {x}]

\* The punch m is for connection c: of the other side, of this attempt, and from
\* one of the hosts that are punched.
IsPunched(c, m) ==
    /\ c.state = "SendingPunchPackets"
    /\ c.nonce = m.nonce /\ c.isInitiator # m.byInitiator
    /\ \E x \in c.addresses : EqualAddress(x, m.from)

\* The arranged connect request m is for connection c.
IsRequested(c, m) ==
    /\ c.state = "SendingPunchPackets"
    /\ ~c.isInitiator /\ c.nonce = m.nonce
    /\ \E x \in c.addresses : EqualAddress(x, m.from)

-----------------------------------------------------------------------------
Init ==
    /\ connected = Host
    /\ lastQueryId \in InitialQueryIds
    /\ connectList = [h \in Host |-> <<>>]
    /\ toMaster = [h \in Host |-> <<>>] /\ fromMaster = [h \in Host |-> <<>>]
    /\ currentQueryId = [c \in Client |-> 0]
    /\ inGame = {} /\ game = [c \in Client |-> 0]
    /\ joins = 0 /\ misdirected = {}
    /\ pending = [h \in Host |-> {}] /\ connections = [h \in Host |-> {}]
    /\ network = {} /\ fresh = 0 /\ accepted = {} /\ ignored = {}

\* joinGame of a server listed by the master: requestArrangedConnection.
JoinGame(c, s) ==
    /\ c \in connected \ inGame
    /\ joins < MaxJoins
    /\ joins' = joins + 1
    /\ currentQueryId' = [currentQueryId EXCEPT ![c] = @ + 1]
    /\ toMaster' = [toMaster EXCEPT ![c] = Append(@,
         [rpc |-> "RequestArrangedConnection", requestId |-> currentQueryId'[c],
          remote |-> s, number |-> joins'])]
    /\ inGame' = inGame \cup {c}
    /\ UNCHANGED <<connected, lastQueryId, connectList, fromMaster, misdirected, game,
                   pending, connections, network, fresh, accepted, ignored>>

\* c2mRequestArrangedConnection.  The host query id comes from the connection of
\* the client.  For an unknown host the RPC called is one from client to server.
MasterRequestArranged(c) ==
    /\ toMaster[c] # <<>>
    /\ LET m == Head(toMaster[c])
           req == [number |-> m.number, initiator |-> c, host |-> m.remote,
                   initiatorQueryId |-> m.requestId, hostQueryId |-> lastQueryId[c]]
       IN  /\ m.rpc = "RequestArrangedConnection"
           /\ IF m.remote \in connected
              THEN /\ lastQueryId' = [lastQueryId EXCEPT ![c] = @ + 1]
                   /\ connectList' = [connectList EXCEPT ![c] = Append(@, req),
                                                   ![m.remote] = Append(@, req)]
                   /\ fromMaster' = [fromMaster EXCEPT ![m.remote] = Append(@,
                        [rpc |-> "ClientRequestedArrangedConnection",
                         requestId |-> req.hostQueryId, remote |-> c,
                         number |-> m.number])]
              ELSE /\ fromMaster' = [fromMaster EXCEPT ![c] = Append(@,
                        [rpc |-> "RejectArrangedConnection"])]
                   /\ UNCHANGED <<lastQueryId, connectList>>
    /\ toMaster' = [toMaster EXCEPT ![c] = Tail(@)]
    /\ UNCHANGED <<connected, currentQueryId, joins, misdirected, inGame, game, pending,
                   connections, network, fresh, accepted, ignored>>

\* c2mAcceptArrangedConnection and c2mRejectArrangedConnection.
MasterAnswer(s) ==
    /\ toMaster[s] # <<>>
    /\ LET m == Head(toMaster[s])
       IN  /\ m.rpc \in {"AcceptArrangedConnection", "RejectArrangedConnection"}
           /\ IF FindRequest(connectList[s], m.requestId) = {}
              THEN UNCHANGED <<connectList, fromMaster, misdirected>>
              ELSE \E j \in FindRequest(connectList[s], m.requestId) :
                   LET req == connectList[s][j]
                       c == req.initiator
                   IN  IF c \in connected
                       THEN /\ connectList' =
                                 [connectList EXCEPT ![s] = EraseFast(@, j),
                                                     ![c] = RemoveConnectRequest(@, req)]
                            /\ fromMaster' = [fromMaster EXCEPT ![c] = Append(@,
                                 [rpc |-> IF m.rpc = "AcceptArrangedConnection"
                                          THEN "ArrangedConnectionAccepted"
                                          ELSE "ArrangedConnectionRejected",
                                  requestId |-> req.initiatorQueryId, remote |-> s,
                                  nonce |-> m.nonce])]
                            /\ misdirected' = misdirected \cup
                                 (IF m.number = req.number THEN {}
                                  ELSE {<<m.number, req.number>>})
                       ELSE /\ connectList' = [connectList EXCEPT ![s] = EraseFast(@, j)]
                            /\ UNCHANGED <<fromMaster, misdirected>>
    /\ toMaster' = [toMaster EXCEPT ![s] = Tail(@)]
    /\ UNCHANGED <<connected, lastQueryId, currentQueryId, joins, inGame, game, pending,
                   connections, network, fresh, accepted, ignored>>

\* The connection between a host and the master ends.  The requests of a client stay
\* in the lists of the servers, and the other way round.
Disconnected(h) ==
    /\ connected' = connected \ {h}
    /\ toMaster' = [toMaster EXCEPT ![h] = <<>>]
    /\ fromMaster' = [fromMaster EXCEPT ![h] = <<>>]
    /\ connectList' = [connectList EXCEPT ![h] = <<>>]
    /\ UNCHANGED <<lastQueryId, currentQueryId, joins, misdirected, inGame, game, pending,
                   connections, network, fresh, accepted, ignored>>

LoseMaster(h) == h \in connected /\ Disconnected(h)

-----------------------------------------------------------------------------
CancelledNoneFault(id) == id

\* cancelArrangedConnectionAttempt: the answers to come are to an old query.
Cancelled(id) == id + 1

\* connectArranged: addPendingConnection, then the first punches.
ConnectArranged(h, c) ==
    \E old \in FindConnection(h, c.address) :
       /\ pending' = [pending EXCEPT ![h] = (@ \ FindPending(h, c.address)) \cup {c}]
       /\ connections' = [connections EXCEPT ![h] = @ \ old]
       /\ network' = network \cup Disconnects(h, old) \cup Punches(h, c)

Arranged(isInitiator, address, remote, nonce, id) ==
    [id |-> id, isInitiator |-> isInitiator, address |-> address,
     addresses |-> PossibleAddresses(remote), nonce |-> nonce,
     state |-> "SendingPunchPackets", sendCount |-> 1]

\* m2cClientRequestedArrangedConnection at a game server.
ServerRequested(s) ==
    /\ fromMaster[s] # <<>>
    /\ LET m == Head(fromMaster[s])
           answer(rpc, nonce) == [rpc |-> rpc, requestId |-> m.requestId,
                                  nonce |-> nonce, number |-> m.number]
       IN  /\ m.rpc = "ClientRequestedArrangedConnection"
           /\ \/ \* the host is banned
                 /\ toMaster' = [toMaster EXCEPT ![s] =
                      Append(@, answer("RejectArrangedConnection", 0))]
                 /\ UNCHANGED <<pending, connections, network, fresh>>
              \/ /\ fresh' = fresh + 1
                 /\ toMaster' = [toMaster EXCEPT ![s] =
                      Append(@, answer("AcceptArrangedConnection", fresh'))]
                 /\ ConnectArranged(s,
                      Arranged(FALSE, FirstAddress(m.remote), m.remote, fresh', fresh'))
    /\ fromMaster' = [fromMaster EXCEPT ![s] = Tail(@)]
    /\ UNCHANGED <<connected, lastQueryId, connectList, currentQueryId, joins, misdirected,
                   inGame, game, accepted, ignored>>

\* m2cArrangedConnectionAccepted; the answer to an old query is ignored.
ClientAccepted(c) ==
    /\ fromMaster[c] # <<>>
    /\ LET m == Head(fromMaster[c])
       IN  /\ m.rpc = "ArrangedConnectionAccepted"
           /\ IF m.requestId = currentQueryId[c]
              THEN /\ fresh' = fresh + 1
                   /\ game' = [game EXCEPT ![c] = fresh']
                   /\ ConnectArranged(c,
                        Arranged(TRUE, NoAddress, m.remote, m.nonce, fresh'))
              ELSE UNCHANGED <<fresh, game, pending, connections, network>>
    /\ fromMaster' = [fromMaster EXCEPT ![c] = Tail(@)]
    /\ UNCHANGED <<connected, lastQueryId, connectList, toMaster, currentQueryId, joins,
                   misdirected, inGame, accepted, ignored>>

\* disconnect of connection c: nothing while it sends punch packets.
DisconnectOf(h, c) ==
    /\ pending' = IF c.state = "AwaitingConnectResponse" THEN Removed(h, c) ELSE pending
    /\ connections' = [connections EXCEPT ![h] = @ \ {c}]
    /\ network' = network \cup Disconnects(h, {c} \cap connections[h])

\* The connection to the server: the last one set, if it still is there.
Games(c) == {d \in pending[c] \cup connections[c] : d.id = game[c]}

\* endGame: cancelArrangedConnectionAttempt, and disconnect of the connection to the
\* server if there still is one.
Ended(c) ==
    /\ currentQueryId' = [currentQueryId EXCEPT ![c] =
         IF c \in connected THEN Cancelled(@) ELSE @]
    /\ inGame' = inGame \ {c}
    /\ IF Games(c) = {} THEN UNCHANGED <<pending, connections, network, ignored>>
       ELSE \E d \in Games(c) :
              /\ DisconnectOf(c, d)
              /\ ignored' = IF d.state = "SendingPunchPackets" THEN ignored \cup {c}
                            ELSE ignored
    /\ UNCHANGED <<game, connected, lastQueryId, connectList, toMaster, joins, misdirected,
                   fresh, accepted>>

EndGame(c) == c \in inGame /\ Ended(c) /\ UNCHANGED fromMaster

\* m2cArrangedConnectionRejected.
ClientRejected(c) ==
    /\ fromMaster[c] # <<>>
    /\ LET m == Head(fromMaster[c])
       IN  /\ m.rpc = "ArrangedConnectionRejected"
           /\ IF m.requestId = currentQueryId[c] THEN Ended(c)
              ELSE UNCHANGED <<currentQueryId, inGame, game, connected, lastQueryId,
                               connectList, toMaster, joins, misdirected, pending,
                               connections, network, fresh, accepted, ignored>>
    /\ fromMaster' = [fromMaster EXCEPT ![c] = Tail(@)]

\* An RPC that may not come from the master ends the connection: "Invalid Packet."
ClientInvalidPacket(c) ==
    /\ fromMaster[c] # <<>>
    /\ Head(fromMaster[c]).rpc = "RejectArrangedConnection"
    /\ Disconnected(c)

-----------------------------------------------------------------------------
\* handlePunch.  The host learns the address; the initiator asks to connect.
HandlePunch(m) ==
    /\ m.type = "Punch"
    /\ \E c \in pending[m.to] :
         /\ IsPunched(c, m)
         /\ IF c.isInitiator
            THEN LET d == [WithAddress(c, m.from) EXCEPT
                             !.state = "AwaitingConnectResponse", !.address = m.from,
                             !.sendCount = 1]
                 IN  /\ pending' = [pending EXCEPT ![m.to] = (@ \ {c}) \cup {d}]
                     /\ network' = network \cup Request(m.to, d)
            ELSE /\ pending' = [pending EXCEPT ![m.to] =
                                  (@ \ {c}) \cup {WithAddress(c, m.from)}]
                 /\ UNCHANGED network
    /\ UNCHANGED <<master, inGame, game, connections, fresh, accepted, ignored>>

\* An established connection, as NetInterface keeps it.
Connected(c, address, recvSequence) ==
    [id |-> c.id, isInitiator |-> c.isInitiator, address |-> address, nonce |-> c.nonce,
     state |-> "Connected", recvSequence |-> recvSequence]

\* handleArrangedConnectRequest: accepted again, refused, or accepted.
HandleArrangedConnectRequest(m) ==
    /\ m.type = "ArrangedConnectRequest"
    /\ \E old \in FindConnection(m.to, m.from) :
         \/ /\ \E c \in old : c.nonce = m.nonce /\ network' = network \cup Accept(m.to, c)
            /\ UNCHANGED <<pending, connections, accepted>>
         \/ /\ \A c \in old : c.nonce # m.nonce
            /\ \E c \in pending[m.to] :
                 LET d == Connected(c, m.from, m.value)
                     sent == network \cup Disconnects(m.to, old)
                 IN  /\ IsRequested(c, m)
                     /\ pending' = Removed(m.to, c)
                     /\ \/ /\ connections' = [connections EXCEPT ![m.to] =
                                                (@ \ old) \cup {d}]
                           /\ accepted' = accepted \cup
                                {[host |-> m.to, connection |-> d]}
                           /\ network' = sent \cup Accept(m.to, d)
                        \/ /\ connections' = [connections EXCEPT ![m.to] = @ \ old]
                           /\ network' = sent \cup
                                Packets("ConnectReject", m.to, d, {d.address})
                           /\ UNCHANGED accepted
    /\ UNCHANGED <<master, inGame, game, fresh, ignored>>

\* handleConnectAccept.
HandleConnectAccept(m) ==
    /\ m.type = "ConnectAccept"
    /\ \E c \in FindPending(m.to, m.from) :
         /\ IsAccepted(c, m)
         /\ pending' = Removed(m.to, c)
         /\ connections' = [connections EXCEPT ![m.to] = @ \cup
                              {Connected(c, c.address, m.value)}]
    /\ UNCHANGED <<master, inGame, game, network, fresh, accepted, ignored>>

\* handleConnectReject: GameConnection::onConnectTerminated shows the main menu.
HandleConnectReject(m) ==
    /\ m.type = "ConnectReject"
    /\ \E c \in FindPending(m.to, m.from) :
         /\ IsAccepted(c, m)
         /\ pending' = Removed(m.to, c)
    /\ inGame' = inGame \ {m.to}
    /\ UNCHANGED <<master, game, connections, network, fresh, accepted, ignored>>

\* handleDisconnect; onConnectionTerminated shows the main menu.
HandleDisconnect(m) ==
    /\ m.type = "Disconnect"
    /\ \E old \in FindConnection(m.to, m.from) : \E c \in old :
         /\ c.nonce = m.nonce
         /\ connections' = [connections EXCEPT ![m.to] = @ \ {c}]
    /\ inGame' = inGame \ {m.to}
    /\ UNCHANGED <<master, game, pending, network, fresh, accepted, ignored>>

\* A server drops a player.
Drop(s) ==
    /\ \E c \in connections[s] : DisconnectOf(s, c)
    /\ UNCHANGED <<master, inGame, game, fresh, accepted, ignored>>

\* processConnections: an established connection has waited for too long.
TimeOut(h) ==
    /\ \E c \in connections[h] : connections' = [connections EXCEPT ![h] = @ \ {c}]
    /\ inGame' = inGame \ {h}
    /\ UNCHANGED <<master, game, pending, network, fresh, accepted, ignored>>

\* processConnections: a pending connection has waited for too long.
Retry(h) ==
    /\ \E c \in pending[h] :
         IF Exhausted(c)
         THEN /\ pending' = Removed(h, c)
              /\ inGame' = inGame \ {h}
              /\ UNCHANGED network
         ELSE /\ pending' = [pending EXCEPT ![h] = (@ \ {c}) \cup {Resent(c)}]
              /\ network' = network \cup Retried(h, c)
              /\ UNCHANGED inGame
    /\ UNCHANGED <<master, game, connections, fresh, accepted, ignored>>

MasterNext ==
    \/ \E c \in Client : \/ \E s \in GameServer : JoinGame(c, s)
                         \/ MasterRequestArranged(c)
                         \/ ClientAccepted(c)
                         \/ ClientRejected(c)
                         \/ ClientInvalidPacket(c)
                         \/ EndGame(c)
    \/ \E s \in GameServer : MasterAnswer(s) \/ ServerRequested(s)
    \/ \E h \in Host : LoseMaster(h)

PunchNext ==
    \/ \E m \in network : \/ HandlePunch(m)
                          \/ HandleArrangedConnectRequest(m)
                          \/ HandleConnectAccept(m)
                          \/ HandleConnectReject(m)
                          \/ HandleDisconnect(m)
    \/ \E s \in GameServer : Drop(s)
    \/ \E h \in Host : TimeOut(h) \/ Retry(h)

Next == MasterNext \/ PunchNext

Spec == Init /\ [][Next]_vars

\* processConnections runs for ever.
FairSpec == Spec /\ \A h \in Host : WF_vars(Retry(h))

-----------------------------------------------------------------------------
ArrangedTypeOK ==
    /\ connected \subseteq Host /\ inGame \cup ignored \subseteq Client
    /\ lastQueryId \in [Host -> Nat] /\ currentQueryId \in [Client -> Nat]
    /\ joins \in 0 .. MaxJoins
    /\ \A h \in Host : \A j \in DOMAIN connectList[h] : LET req == connectList[h][j] IN
         req.initiator \in Client /\ req.host \in GameServer
    /\ \A h \in Host : \A c \in pending[h] :
         /\ c.isInitiator <=> h \in Client
         /\ c.addresses \subseteq Host \X Nat
         /\ Cardinality(c.addresses) <= MaxAddresses
         /\ c.state \in {"SendingPunchPackets", "AwaitingConnectResponse"}
         /\ c.sendCount \in 1 .. (RetryCount(c) + 1)
    /\ \A h \in Host : \A c \in connections[h] : c.address[1] # h

\* A request is in the list of its server exactly if it is in the list of its
\* client, as long as both are connected to the master: what findAndRemoveRequest
\* and removeConnectRequest keep up, whatever the order of answers and losses.
RequestListsAgree ==
    \A c \in Client \cap connected, s \in GameServer \cap connected :
       {req \in ToSet(connectList[c]) : req.host = s}
     = {req \in ToSet(connectList[s]) : req.initiator = c}

\* The lists of the master and of the hosts are well formed, and those of the
\* master agree.
ArrangedStateOK == ArrangedTypeOK /\ RequestListsAgree

\* "The requestId parameter sent by the MasterServer in
\* m2cClientRequestedArrangedConnection should be sent back as the requestId field"
\* (masterInterface.h:111): the answer to a request goes to the client that made it,
\* for that query.  Does not hold: the ids of the requests to one server come from
\* the counters of several clients.
AnswersReachRequester == misdirected = {}

\* A nonce makes one connection of a server, and no second one after that has ended,
\* however often punches and requests are repeated and delayed.
AcceptedOnce ==
    [][\A s \in GameServer : \A c \in connections'[s] \ connections[s] :
          \A x \in accepted : x.connection.nonce # c.nonce]_vars

\* An attempt of a client is the only one with its nonce; once established, it was
\* accepted by the server it was arranged with, for this client, and each side knows
\* the other's first sequence number.
ArrangedAgree ==
    \A h \in Client : \A c \in pending[h] \cup connections[h] :
       /\ \A p \in Client : \A d \in pending[p] \cup connections[p] :
            c.nonce = d.nonce => h = p /\ c.id = d.id
       /\ c \in connections[h] =>
            \E x \in accepted :
               /\ x.host = c.address[1] /\ x.connection.address[1] = h
               /\ x.connection.nonce = c.nonce
               /\ x.connection.recvSequence = c.id
               /\ x.connection.id = c.recvSequence

\* "Error, a connection already exists here." (zap/game.cpp:400): when a client takes
\* the acceptance of its request, its connection to the server has gone, however the
\* user joins and ends games, and old answers come late - unless an attempt was ended
\* while it was sending punch packets: disconnect leaves it where it is.
NoGameLeft ==
    \A c \in Client :
       LET m == Head(fromMaster[c])
       IN  (/\ fromMaster[c] # <<>>
            /\ m.rpc = "ArrangedConnectionAccepted"
            /\ m.requestId = currentQueryId[c])
           => Games(c) = {} \/ c \in ignored

\* No attempt punches or waits for ever, whatever the network does.
EventuallyDecided == <>[](\A h \in Host : pending[h] = {})
-----------------------------------------------------------------------------
(* The inductive invariant behind the properties: every nonce and every query *)
(* is on its way once, and what hosts and packets say of it agrees.           *)

\* Clients are arranged to connect to game servers.
Other(h) == IF h \in Client THEN GameServer ELSE Client

Attempts(h) == pending[h] \cup connections[h]

IsOffer(m) == m.rpc = "AcceptArrangedConnection"
IsGrant(m) == m.rpc = "ArrangedConnectionAccepted"
IsAnswer(m) == m.rpc \in {"ArrangedConnectionAccepted", "ArrangedConnectionRejected"}

ArrangedRequest ==
    [number : Nat, initiator : Client, host : GameServer,
     initiatorQueryId : Nat, hostQueryId : Nat]

RequestCall ==
    [rpc : {"RequestArrangedConnection"}, requestId : Nat, remote : GameServer,
     number : Nat]

ServerAnswer ==
    [rpc : {"AcceptArrangedConnection", "RejectArrangedConnection"}, requestId : Nat,
     nonce : Nat, number : Nat]

ServerCall ==
    [rpc : {"ClientRequestedArrangedConnection"}, requestId : Nat, remote : Client,
     number : Nat]

ClientCall ==
    [rpc : {"ArrangedConnectionAccepted", "ArrangedConnectionRejected"},
     requestId : Nat, remote : GameServer, nonce : Nat]
    \cup [rpc : {"RejectArrangedConnection"}]

\* The RPCs under way are those of the hosts connected to the master.
QueuesOK ==
    /\ DOMAIN toMaster = Host /\ DOMAIN fromMaster = Host
    /\ \A c \in Client : /\ toMaster[c] \in Seq(RequestCall)
                         /\ fromMaster[c] \in Seq(ClientCall)
    /\ \A s \in GameServer : /\ toMaster[s] \in Seq(ServerAnswer)
                             /\ fromMaster[s] \in Seq(ServerCall)
    /\ \A h \in Host \ connected : toMaster[h] = <<>> /\ fromMaster[h] = <<>>

\* A list has the requests of a client, or those to a server, once each.
ListsOK ==
    /\ connectList \in [Host -> Seq(ArrangedRequest)]
    /\ \A h \in Host : IsInjective(connectList[h])
    /\ \A c \in Client : \A r \in ToSet(connectList[c]) : r.initiator = c
    /\ \A s \in GameServer : \A r \in ToSet(connectList[s]) : r.host = s

\* A query of a client is asked once,
QueriesAsked ==
    \A c \in Client : \A j \in DOMAIN toMaster[c] :
       /\ toMaster[c][j].requestId <= currentQueryId[c]
       /\ \A k \in DOMAIN toMaster[c] :
            toMaster[c][j].requestId = toMaster[c][k].requestId => j = k

\* then kept once, for the server that answers it,
QueriesKept ==
    \A h \in Host : \A r \in ToSet(connectList[h]) :
       /\ r.initiatorQueryId <= currentQueryId[r.initiator]
       /\ \A j \in DOMAIN toMaster[r.initiator] :
            toMaster[r.initiator][j].requestId # r.initiatorQueryId
       /\ h \in GameServer =>
            \A s \in GameServer : \A q \in ToSet(connectList[s]) :
              r.initiator = q.initiator /\ r.initiatorQueryId = q.initiatorQueryId
              => r = q

\* and answered once.
QueriesAnswered ==
    \A c \in Client : \A j \in DOMAIN fromMaster[c] :
       IsAnswer(fromMaster[c][j]) =>
         LET id == fromMaster[c][j].requestId
         IN  /\ id <= currentQueryId[c]
             /\ \A k \in DOMAIN fromMaster[c] :
                  IsAnswer(fromMaster[c][k]) /\ fromMaster[c][k].requestId = id => j = k
             /\ \A k \in DOMAIN toMaster[c] : toMaster[c][k].requestId # id
             /\ \A s \in GameServer : \A r \in ToSet(connectList[s]) :
                  r.initiator = c => r.initiatorQueryId # id

MasterInv ==
    /\ connected \subseteq Host
    /\ lastQueryId \in [Host -> Nat] /\ currentQueryId \in [Client -> Nat]
    /\ joins \in 0 .. MaxJoins
    /\ QueuesOK /\ ListsOK /\ RequestListsAgree
    /\ QueriesAsked /\ QueriesKept /\ QueriesAnswered

-----------------------------------------------------------------------------
PendingSet ==
    [id : Nat, isInitiator : BOOLEAN, address : (Host \X Nat) \cup {NoAddress},
     addresses : SUBSET (Host \X Nat), nonce : Nat,
     state : {"SendingPunchPackets", "AwaitingConnectResponse"}, sendCount : Nat]

ConnectionSet ==
    [id : Nat, isInitiator : BOOLEAN, address : Host \X Nat, nonce : Nat,
     state : {"Connected"}, recvSequence : Nat]

PacketSet ==
    [type : {"Punch", "ArrangedConnectRequest", "ConnectAccept", "ConnectReject",
             "Disconnect"},
     from : Host \X Nat, to : Host, byInitiator : BOOLEAN, nonce : Nat, value : Nat]

\* A connection that host h may be waiting for.
MayPend(h, c) ==
    /\ c \in PendingSet /\ c.id <= fresh /\ c.nonce <= fresh
    /\ c.isInitiator <=> h \in Client
    /\ c.address \in (Other(h) \X Nat) \cup {NoAddress}
    /\ c.addresses \subseteq Other(h) \X Nat
    /\ IsFiniteSet(c.addresses) /\ Cardinality(c.addresses) <= MaxAddresses
    /\ c.state = "AwaitingConnectResponse" => h \in Client /\ c.address # NoAddress
    /\ c.sendCount \in 1 .. (RetryCount(c) + 1)

MayConnect(h, c) ==
    /\ c \in ConnectionSet /\ c.id <= fresh /\ c.nonce <= fresh
    /\ c.isInitiator <=> h \in Client
    /\ c.address \in Other(h) \X Nat

\* Packets go from one side to the other.
MaySend(h, m) ==
    /\ m \in PacketSet /\ m.nonce <= fresh /\ m.value <= fresh
    /\ h \in Host /\ m.from = Seen(h) /\ m.to \in Other(h)
    /\ m.byInitiator <=> h \in Client
    /\ m.type = "ArrangedConnectRequest" => h \in Client

SidesApart ==
    /\ fresh \in Nat
    /\ DOMAIN pending = Host /\ DOMAIN connections = Host
    /\ \A h \in Host : /\ \A c \in pending[h] : MayPend(h, c)
                       /\ \A c \in connections[h] : MayConnect(h, c)
    /\ \A m \in network : MaySend(m.from[1], m)

\* A nonce drawn by a server is offered once,
NoncesOffered ==
    \A s \in GameServer : \A j \in DOMAIN toMaster[s] :
       IsOffer(toMaster[s][j]) =>
         /\ toMaster[s][j].nonce <= fresh
         /\ \A t \in GameServer : \A k \in DOMAIN toMaster[t] :
              IsOffer(toMaster[t][k]) /\ toMaster[t][k].nonce = toMaster[s][j].nonce
              => s = t /\ j = k

\* then granted to one client,
NoncesGranted ==
    \A c \in Client : \A j \in DOMAIN fromMaster[c] :
       IsGrant(fromMaster[c][j]) =>
         /\ fromMaster[c][j].nonce <= fresh
         /\ \A d \in Client : \A k \in DOMAIN fromMaster[d] :
              IsGrant(fromMaster[d][k]) /\ fromMaster[d][k].nonce = fromMaster[c][j].nonce
              => c = d /\ j = k
         /\ \A s \in GameServer : \A k \in DOMAIN toMaster[s] :
              IsOffer(toMaster[s][k]) => toMaster[s][k].nonce # fromMaster[c][j].nonce

\* The nonces that client c uses, and the attempts it uses them for.
Uses(c) ==
    {[nonce |-> d.nonce, id |-> d.id] : d \in Attempts(c)}
    \cup {[nonce |-> m.nonce, id |-> m.value] :
          m \in {n \in network : n.type = "ArrangedConnectRequest" /\ n.from[1] = c}}

\* and used by it for one attempt.
NoncesUsed ==
    \A c \in Client : \A u \in Uses(c) :
       /\ u.nonce <= fresh
       /\ \A s \in GameServer : \A j \in DOMAIN toMaster[s] :
            IsOffer(toMaster[s][j]) => toMaster[s][j].nonce # u.nonce
       /\ \A d \in Client : \A j \in DOMAIN fromMaster[d] :
            IsGrant(fromMaster[d][j]) => fromMaster[d][j].nonce # u.nonce
       /\ \A d \in Client : \A v \in Uses(d) : u.nonce = v.nonce => c = d /\ u.id = v.id

NoncesApart == NoncesOffered /\ NoncesGranted /\ NoncesUsed

\* A server waits under a nonce of its own, not used for a connection yet.
ServersApart ==
    \A s \in GameServer : \A c \in pending[s] :
       /\ \A t \in GameServer : \A d \in pending[t] : c.nonce = d.nonce => s = t /\ c = d
       /\ \A x \in accepted : x.connection.nonce # c.nonce

\* What was accepted was requested.
AcceptedRequested ==
    \A x \in accepted :
       /\ x.host \in GameServer /\ x.connection \in ConnectionSet
       /\ x.connection.nonce <= fresh
       /\ \E m \in network :
            /\ m.type = "ArrangedConnectRequest" /\ m.from = x.connection.address
            /\ m.nonce = x.connection.nonce /\ m.value = x.connection.recvSequence

ServersAccepted ==
    \A s \in GameServer : \A c \in connections[s] :
       [host |-> s, connection |-> c] \in accepted

\* An accept is of a connection that was accepted.
AcceptsAccepted ==
    \A m \in network :
       m.type = "ConnectAccept"
       => \E x \in accepted :
            /\ x.host = m.from[1] /\ x.connection.address[1] = m.to
            /\ x.connection.nonce = m.nonce /\ x.connection.id = m.value

\* x was accepted for the connection c of client h.
AcceptedFor(h, c, x) ==
    /\ x.host = c.address[1] /\ x.connection.address[1] = h
    /\ x.connection.nonce = c.nonce
    /\ x.connection.recvSequence = c.id
    /\ x.connection.id = c.recvSequence

ClientsAccepted ==
    \A h \in Client : \A c \in connections[h] : \E x \in accepted : AcceptedFor(h, c, x)

PeersInv ==
    /\ SidesApart /\ NoncesApart /\ ServersApart
    /\ AcceptedRequested /\ ServersAccepted /\ AcceptsAccepted /\ ClientsAccepted

-----------------------------------------------------------------------------
\* Query id of client c is under way.
Asked(c, id) ==
    \/ \E j \in DOMAIN toMaster[c] : toMaster[c][j].requestId = id
    \/ \E s \in GameServer : \E r \in ToSet(connectList[s]) :
         r.initiator = c /\ r.initiatorQueryId = id
    \/ \E j \in DOMAIN fromMaster[c] :
         IsAnswer(fromMaster[c][j]) /\ fromMaster[c][j].requestId = id

\* A client has one attempt, for its game, while nothing of its query is under way.
OneGame(c) ==
    /\ \A d \in Attempts(c) : d.id = game[c]
    /\ \A d, e \in Attempts(c) : d = e
    /\ Attempts(c) # {} => c \in inGame
    /\ c \in connected /\ Asked(c, currentQueryId[c]) => c \in inGame /\ Attempts(c) = {}

GamesInv ==
    /\ game \in [Client -> Nat]
    /\ inGame \cup ignored \subseteq Client
    /\ \A c \in Client \ ignored : OneGame(c)

ArrangedInv == MasterInv /\ PeersInv /\ GamesInv
=============================================================================
