------------------------------ MODULE NetInterface ------------------------------
(***************************************************************************)
(* How NetInterfaces connect and disconnect (tnl/netInterface.cpp): the    *)
(* challenge, the client puzzle (tnl/clientPuzzle.cpp), request, accept or *)
(* reject, with retries and time-outs, over a network that loses,          *)
(* duplicates and reorders packets.                                        *)
(*                                                                         *)
(* Random numbers (nonces, initial sequence numbers) are drawn from a      *)
(* counter: they never repeat.  The initial send sequence of a connection  *)
(* also identifies the connection object.                                  *)
(***************************************************************************)
EXTENDS Integers, Sequences, FiniteSets

CONSTANTS
    Host,           \* the NetInterfaces, by address
    Target,         \* those that each of them starts connections to
    Acceptor,       \* those with mAllowConnections
    ChallengeRetryCount, ConnectRetryCount,
    Refusals,       \* "CHR_INVALID": readConnectRequest may fail with that reason,
                    \* "": or without one, or the class is unknown,
                    \* "accept": readConnectAccept may fail
    MaxAttempts,    \* bound: calls of startConnection
    MaxRefreshes    \* bound: puzzle refreshes

ASSUME InterfaceAssumption ==
    /\ Target \in [Host -> SUBSET Host] /\ Acceptor \subseteq Host
    /\ {ChallengeRetryCount, ConnectRetryCount} \subseteq Nat
    /\ {MaxAttempts, MaxRefreshes} \subseteq Nat
    /\ Refusals \subseteq {"CHR_INVALID", "", "accept"}

VARIABLES
    pending,        \* mPendingConnections of each host
    connections,    \* mConnectionList and mConnectionHashTable
    puzzle,         \* mPuzzleManager
    network,        \* the packets sent; each may arrive at any time, or never
    fresh,          \* the last random number drawn
    accepted,       \* history: the connections made for connect requests
    told,           \* history: the callbacks that ended each attempt
    attempts        \* history: for the bound

vars == <<pending, connections, puzzle, network, fresh, accepted, told, attempts>>

-----------------------------------------------------------------------------
Packet(type, h, p, c, value) ==
    [type |-> type, from |-> h, to |-> p, nonce |-> c.nonce,
     serverNonce |-> c.serverNonce, value |-> value]

Found(list, h, p) == {c \in list[h] : c.address = p}

\* What findConnection may return: at most one connection.
Lookups(h, p) ==
    LET found == Found(connections, h, p)
    IN  IF found = {} THEN {{}} ELSE {{c} : c \in found}

SameNonces(c, m) == c.nonce = m.nonce /\ c.serverNonce = m.serverNonce

\* disconnect of established connections: the packets that it sends.
Disconnects(h, closed) ==
    {Packet("Disconnect", h, c.address, c, 0) : c \in closed}

ChallengeRequest(h, c) ==
    Packet("ConnectChallengeRequest", h, c.address, [c EXCEPT !.serverNonce = 0], 0)

ConnectRequest(h, c) == Packet("ConnectRequest", h, c.address, c, c.id)

ConnectAccept(h, c) == Packet("ConnectAccept", h, c.address, c, c.id)

RetryCount(c) ==
    IF c.state = "AwaitingChallengeResponse" THEN ChallengeRetryCount
    ELSE ConnectRetryCount

Exhausted(c) == c.sendCount > RetryCount(c)

ResentUncountedFault(c) == c

\* A request is sent again.
Resent(c) == [c EXCEPT !.sendCount = @ + 1]

\* checkSolution, of a solution that solves the puzzle.
PuzzleTable(z, m) ==
    CASE m.serverNonce = z.currentNonce -> "currentTable"
      [] m.serverNonce # z.currentNonce /\ m.serverNonce = z.lastNonce -> "lastTable"
      [] OTHER -> "none"

CheckSolution(z, m) ==
    PuzzleTable(z, m) # "none" /\ m.nonce \notin z[PuzzleTable(z, m)]

CheckAdd(z, m) ==
    IF CheckSolution(z, m) THEN [z EXCEPT ![PuzzleTable(z, m)] = @ \cup {m.nonce}]
    ELSE z

RefreshedTablesKeptFault(z) ==
    [z EXCEPT !.currentNonce = @ + 1, !.lastNonce = z.currentNonce,
              !.currentTable = {}]

\* tick, when the puzzle is due to be refreshed.
Refreshed(z) ==
    [currentNonce |-> z.currentNonce + 1, lastNonce |-> z.currentNonce,
     currentTable |-> {}, lastTable |-> z.currentTable]

AcceptedByAnyFault(c, m) == c.state = "AwaitingConnectResponse"

\* handleConnectAccept: what it takes for a pending connection to be accepted.
IsAccepted(c, m) == c.state = "AwaitingConnectResponse" /\ SameNonces(c, m)

DisplacedNoneFault(found) == {}

\* The connection that a connect request replaces.
Displaced(found) == found

\* The states in which a pending connection can be rejected.
Rejectable(c) ==
    c.state \in {"AwaitingChallengeResponse", "AwaitingConnectResponse"}

RemovedNoneFault(h, c) == pending

\* removePendingConnection.
Removed(h, c) == [pending EXCEPT ![h] = @ \ {c}]

ToldOf(id) == IF id \in DOMAIN told THEN told[id] ELSE <<>>

Tell(c, what) ==
    [id \in DOMAIN told \cup {c.id} |->
       IF id = c.id THEN Append(ToldOf(id), what) ELSE told[id]]

-----------------------------------------------------------------------------
Init ==
    /\ pending = [h \in Host |-> {}]
    /\ connections = [h \in Host |-> {}]
    /\ puzzle = [h \in Host |-> [currentNonce |-> 2, lastNonce |-> 1,
                                 currentTable |-> {}, lastTable |-> {}]]
    /\ network = {}
    /\ fresh = 0
    /\ accepted = {}
    /\ told = [id \in {} |-> <<>>]
    /\ attempts = 0

\* startConnection.  addPendingConnection forgets a connection pending to the
\* same address and disconnects an established one.
StartConnection(h, p) ==
    /\ attempts < MaxAttempts
    /\ attempts' = attempts + 1
    /\ fresh' = fresh + 1
    /\ \E old \in Lookups(h, p) :
       LET c == [id |-> fresh', address |-> p, state |-> "AwaitingChallengeResponse",
                 nonce |-> fresh', serverNonce |-> 0, sendCount |-> 1,
                 puzzleRetried |-> FALSE]
       IN  /\ pending' = [pending EXCEPT ![h] = (@ \ Found(pending, h, p)) \cup {c}]
           /\ connections' = [connections EXCEPT ![h] = @ \ old]
           /\ network' = network \cup Disconnects(h, old) \cup {ChallengeRequest(h, c)}
    /\ UNCHANGED <<puzzle, accepted, told>>

HandleChallengeRequest(m) ==
    /\ m.type = "ConnectChallengeRequest"
    /\ m.to \in Acceptor
    /\ network' = network \cup
         {[m EXCEPT !.type = "ConnectChallengeResponse", !.from = m.to, !.to = m.from,
                    !.serverNonce = puzzle[m.to].currentNonce]}
    /\ UNCHANGED <<pending, connections, puzzle, fresh, accepted, told, attempts>>

\* The puzzle of c is solved: the connect request is sent.
Solved(c) == [c EXCEPT !.state = "AwaitingConnectResponse", !.sendCount = 1]

HandleChallengeResponse(m) ==
    /\ m.type = "ConnectChallengeResponse"
    /\ \E c \in Found(pending, m.to, m.from), solved \in BOOLEAN :
         /\ c.state = "AwaitingChallengeResponse"
         /\ c.nonce = m.nonce
         /\ LET d == [c EXCEPT !.state = "ComputingPuzzleSolution", !.sendCount = 0,
                               !.serverNonce = m.serverNonce]
                e == IF solved THEN Solved(d) ELSE d
            IN  /\ pending' = [pending EXCEPT ![m.to] = (@ \ {c}) \cup {e}]
                /\ network' = network \cup
                     (IF solved THEN {ConnectRequest(m.to, e)} ELSE {})
    /\ UNCHANGED <<connections, puzzle, fresh, accepted, told, attempts>>

ContinuePuzzleSolution(h) ==
    /\ \E c \in pending[h] :
         /\ c.state = "ComputingPuzzleSolution"
         /\ pending' = [pending EXCEPT ![h] = (@ \ {c}) \cup {Solved(c)}]
         /\ network' = network \cup {ConnectRequest(h, Solved(c))}
    /\ UNCHANGED <<connections, puzzle, fresh, accepted, told, attempts>>

\* A connect request that was accepted already is accepted again.
AcceptAgain(m, c) ==
    /\ SameNonces(c, m)
    /\ network' = network \cup {ConnectAccept(m.to, c)}
    /\ UNCHANGED <<pending, connections, puzzle, fresh, accepted, told, attempts>>

RejectPuzzle(m) ==
    /\ ~CheckSolution(puzzle[m.to], m)
    /\ network' = network \cup {Packet("ConnectReject", m.to, m.from, m, "Puzzle")}
    /\ UNCHANGED <<pending, connections, puzzle, fresh, accepted, told, attempts>>

\* The request replaces what connection there is; the new one is accepted, or
\* refused with a reason, or silently.
TakeRequest(m, found) ==
    /\ CheckSolution(puzzle[m.to], m)
    /\ puzzle' = [puzzle EXCEPT ![m.to] = CheckAdd(@, m)]
    /\ LET closed == Displaced(found)
           sent == network \cup Disconnects(m.to, closed)
           c == [id |-> fresh + 1, address |-> m.from, nonce |-> m.nonce,
                 serverNonce |-> m.serverNonce, recvSequence |-> m.value]
       IN  \/ /\ connections' = [connections EXCEPT ![m.to] = (@ \ closed) \cup {c}]
              /\ accepted' = accepted \cup {[host |-> m.to, connection |-> c]}
              /\ fresh' = fresh + 1
              /\ told' = Tell(c, "Established")
              /\ network' = sent \cup {ConnectAccept(m.to, c)}
           \/ /\ \E reason \in Refusals \ {"accept"} :
                   network' = sent \cup (IF reason = "" THEN {} ELSE
                      {Packet("ConnectReject", m.to, m.from, m, reason)})
              /\ connections' = [connections EXCEPT ![m.to] = @ \ closed]
              /\ UNCHANGED <<fresh, accepted, told>>
    /\ UNCHANGED <<pending, attempts>>

HandleConnectRequest(m) ==
    /\ m.type = "ConnectRequest"
    /\ m.to \in Acceptor
    /\ \E found \in Lookups(m.to, m.from) :
         \/ \E c \in found : AcceptAgain(m, c)
         \/ /\ \A c \in found : ~SameNonces(c, m)
            /\ RejectPuzzle(m) \/ TakeRequest(m, found)

\* handleConnectAccept does not look for a connection to that address.
HandleConnectAccept(m) ==
    /\ m.type = "ConnectAccept"
    /\ \E c \in Found(pending, m.to, m.from) :
         /\ IsAccepted(c, m)
         /\ pending' = Removed(m.to, c)
         /\ \/ /\ connections' = [connections EXCEPT ![m.to] = @ \cup
                    {[id |-> c.id, address |-> c.address, nonce |-> c.nonce,
                      serverNonce |-> c.serverNonce, recvSequence |-> m.value]}]
               /\ told' = Tell(c, "Established")
            \/ /\ "accept" \in Refusals
               /\ UNCHANGED <<connections, told>>
    /\ UNCHANGED <<puzzle, network, fresh, accepted, attempts>>

\* handleConnectReject: once, a bad puzzle solution is tried again with a new nonce.
HandleConnectReject(m) ==
    /\ m.type = "ConnectReject"
    /\ \E c \in Found(pending, m.to, m.from) :
         /\ Rejectable(c)
         /\ SameNonces(c, m)
         /\ IF m.value = "Puzzle" /\ ~c.puzzleRetried
            THEN LET d == [c EXCEPT !.state = "AwaitingChallengeResponse",
                                    !.puzzleRetried = TRUE, !.nonce = fresh + 1,
                                    !.sendCount = 1]
                 IN  /\ pending' = [pending EXCEPT ![m.to] = (@ \ {c}) \cup {d}]
                     /\ fresh' = fresh + 1
                     /\ UNCHANGED told
                     /\ network' = network \cup {ChallengeRequest(m.to, d)}
            ELSE /\ pending' = Removed(m.to, c)
                 /\ told' = Tell(c, "ConnectTerminated")
                 /\ UNCHANGED <<fresh, network>>
    /\ UNCHANGED <<connections, puzzle, accepted, attempts>>

HandleDisconnect(m) ==
    /\ m.type = "Disconnect"
    /\ \E found \in Lookups(m.to, m.from) : \E c \in found :
         /\ SameNonces(c, m)
         /\ connections' = [connections EXCEPT ![m.to] = @ \ {c}]
    /\ UNCHANGED <<pending, puzzle, network, fresh, accepted, told, attempts>>

\* disconnect: it ignores a connection that computes its puzzle.  A connection
\* that processConnections times out ends as if the packet were lost.
Disconnect(h) ==
    /\ \/ \E c \in pending[h] :
            /\ Rejectable(c)
            /\ pending' = Removed(h, c)
            /\ told' = Tell(c, "ConnectTerminated")
            /\ UNCHANGED <<connections, network>>
       \/ \E c \in connections[h] :
            /\ connections' = [connections EXCEPT ![h] = @ \ {c}]
            /\ network' = network \cup Disconnects(h, {c})
            /\ UNCHANGED <<pending, told>>
    /\ UNCHANGED <<puzzle, fresh, accepted, attempts>>

\* processConnections: a pending connection has waited for too long.
Retry(h) ==
    /\ \E c \in pending[h] :
         IF c.state = "ComputingPuzzleSolution" \/ Exhausted(c)
         THEN /\ pending' = Removed(h, c)
              /\ told' = Tell(c, "ConnectTerminated")
              /\ UNCHANGED network
         ELSE /\ pending' = [pending EXCEPT ![h] = (@ \ {c}) \cup {Resent(c)}]
              /\ network' = network \cup {IF c.state = "AwaitingChallengeResponse"
                                          THEN ChallengeRequest(h, c)
                                          ELSE ConnectRequest(h, c)}
              /\ UNCHANGED told
    /\ UNCHANGED <<connections, puzzle, fresh, accepted, attempts>>

\* The puzzle of a host that accepts no connections is never seen.
Tick(h) ==
    /\ h \in Acceptor
    /\ puzzle[h].currentNonce < 2 + MaxRefreshes
    /\ puzzle' = [puzzle EXCEPT ![h] = Refreshed(@)]
    /\ UNCHANGED <<pending, connections, network, fresh, accepted, told, attempts>>

Next ==
    \/ \E h \in Host : \E p \in Target[h] \ {h} : StartConnection(h, p)
    \/ \E m \in network : \/ HandleChallengeRequest(m)
                          \/ HandleChallengeResponse(m)
                          \/ HandleConnectRequest(m)
                          \/ HandleConnectAccept(m)
                          \/ HandleConnectReject(m)
                          \/ HandleDisconnect(m)
    \/ \E h \in Host : \/ ContinuePuzzleSolution(h)
                       \/ Disconnect(h)
                       \/ Retry(h)
                       \/ Tick(h)

Spec == Init /\ [][Next]_vars

\* processConnections runs for ever.
FairSpec == Spec /\ \A h \in Host : WF_vars(Retry(h))

-----------------------------------------------------------------------------
Number == 0 .. fresh

InterfaceTypeOK ==
    /\ fresh \in Nat /\ attempts \in 0 .. MaxAttempts
    /\ \A h \in Host : \A c \in pending[h] :
         /\ c.id \in Number /\ c.nonce \in Number
         /\ c.address \in Host \ {h}
         /\ c.state \in {"AwaitingChallengeResponse", "ComputingPuzzleSolution",
                         "AwaitingConnectResponse"}
         /\ c.sendCount \in 0 .. (RetryCount(c) + 1)
    /\ \A h \in Host : connections[h] \subseteq
         [id : Number, address : Host \ {h}, nonce : Number,
          serverNonce : 1 .. (2 + MaxRefreshes), recvSequence : Number]
    /\ DOMAIN told \subseteq Number
    /\ \A id \in DOMAIN told : told[id] \in Seq({"Established", "ConnectTerminated"})

\* A nonce makes at most one connection of a host, however often the request is
\* repeated and duplicated: resent requests are recognised by the connection, later
\* ones by the tables of the puzzle, over the refreshes (the comment at
\* netInterface.cpp:700, checkAdd).
AtMostOnce ==
    \A x, y \in accepted :
       (x.host = y.host /\ x.connection.nonce = y.connection.nonce) => x = y

\* c, established by an accept at h, was made by the other side for this very attempt.
AcceptedBy(h, c, x) ==
    /\ x.host = c.address /\ x.connection.address = h
    /\ SameNonces(x.connection, c)
    /\ x.connection.recvSequence = c.id
    /\ x.connection.id = c.recvSequence

\* A connection established by an accept was made by the other side for this very
\* attempt, and each knows the other's first sequence number: what the packet
\* protocol starts from.
ConnectionsAgree ==
    \A h \in Host : \A c \in connections[h] :
       \/ [host |-> h, connection |-> c] \in accepted
       \/ \E x \in accepted : AcceptedBy(h, c, x)

\* "make sure we're not already connected to the host at the connection's Address"
\* (netInterface.cpp:146): a host has one connection to an address, pending or not,
\* if only one of the two hosts initiates connections.
OnePerAddress ==
    \A h \in Host : \A c, d \in pending[h] \cup connections[h] :
       c.address = d.address => c = d

\* The lists of connections are well formed, with one connection to an address.
InterfaceStateOK == InterfaceTypeOK /\ OnePerAddress

\* An attempt is told at most once how it ended, and nothing while it is pending.
ToldOnce ==
    /\ \A id \in DOMAIN told : Len(told[id]) = 1
    /\ \A h \in Host : \A c \in pending[h] : c.id \notin DOMAIN told

\* No attempt stays pending for ever, whatever the network does.
EventuallyDecided == <>[](\A h \in Host : pending[h] = {})
-----------------------------------------------------------------------------
(* The inductive invariant behind the properties.  The network keeps every  *)
(* packet ever sent: what a packet says is tied to the attempt it belongs to. *)

NonceRange == 1 .. (2 + MaxRefreshes)

PendingSet ==
    [id : Nat, address : Host,
     state : {"AwaitingChallengeResponse", "ComputingPuzzleSolution",
              "AwaitingConnectResponse"},
     nonce : Nat, serverNonce : Nat, sendCount : Nat, puzzleRetried : BOOLEAN]

ConnectionSet ==
    [id : Nat, address : Host, nonce : Nat, serverNonce : Nat, recvSequence : Nat]

\* The shape of the state.
Shapes ==
    /\ pending \in [Host -> SUBSET PendingSet]
    /\ connections \in [Host -> SUBSET ConnectionSet]
    /\ puzzle \in [Host -> [currentNonce : Nat, lastNonce : Nat,
                            currentTable : SUBSET Nat, lastTable : SUBSET Nat]]
    /\ accepted \subseteq [host : Host, connection : ConnectionSet]
    /\ DOMAIN told \subseteq Nat /\ fresh \in Nat /\ attempts \in Nat

\* Two puzzles are in force: the current one and the one before it.
PuzzlesInForce ==
    \A h \in Host : /\ puzzle[h].currentNonce \in NonceRange
                    /\ puzzle[h].lastNonce = puzzle[h].currentNonce - 1

\* A packet goes from one host to another, and what it carries was drawn before.
PacketsDrawn ==
    \A m \in network :
       /\ m.from \in Host /\ m.to \in Host /\ m.from # m.to
       /\ m.nonce \in Number
       /\ m.type # "ConnectChallengeRequest" => m.serverNonce \in NonceRange
       /\ m.type \in {"ConnectRequest", "ConnectAccept"} => m.value \in Number

\* Attempts under way have numbers and nonces of their own.
AttemptsApart ==
    \A h, g \in Host : \A c \in pending[h], d \in pending[g] :
       c.id = d.id \/ c.nonce = d.nonce => h = g /\ c = d

\* A nonce is used in the requests of one attempt for one puzzle.
OneRequestPerNonce ==
    \A m, n \in network :
       m.type = "ConnectRequest" /\ n.type = "ConnectRequest" /\ m.nonce = n.nonce
       => m.from = n.from /\ m.to = n.to /\ m.serverNonce = n.serverNonce
          /\ m.value = n.value

\* An attempt has sent requests under its nonce only if it waits for their answer.
RequestsOfAttempts ==
    \A h \in Host : \A c \in pending[h] :
       /\ c.state # "AwaitingChallengeResponse" => c.serverNonce \in NonceRange
       /\ \A m \in network :
            m.type = "ConnectRequest" /\ m.nonce = c.nonce
            => /\ c.state = "AwaitingConnectResponse"
               /\ m.from = h /\ m.to = c.address
               /\ m.serverNonce = c.serverNonce /\ m.value = c.id

\* What was accepted was requested, and its nonce is in the table of its puzzle as
\* long as that puzzle is in force.
AcceptedRequested ==
    \A x \in accepted :
       /\ \E m \in network :
            /\ m.type = "ConnectRequest" /\ m.to = x.host
            /\ m.from = x.connection.address /\ SameNonces(x.connection, m)
            /\ m.value = x.connection.recvSequence
       /\ LET z == puzzle[x.host]
          IN  /\ x.connection.serverNonce <= z.currentNonce
              /\ x.connection.serverNonce = z.currentNonce
                 => x.connection.nonce \in z.currentTable
              /\ x.connection.serverNonce = z.lastNonce
                 => x.connection.nonce \in z.lastTable

\* An accept is of a connection that was accepted.
AcceptsAccepted ==
    \A m \in network :
       m.type = "ConnectAccept"
       => \E x \in accepted :
            /\ x.host = m.from /\ x.connection.address = m.to
            /\ SameNonces(x.connection, m) /\ x.connection.id = m.value

IInv ==
    /\ InterfaceTypeOK /\ Shapes /\ PuzzlesInForce /\ PacketsDrawn /\ AttemptsApart
    /\ OneRequestPerNonce /\ RequestsOfAttempts /\ AcceptedRequested
    /\ AcceptsAccepted /\ AtMostOnce /\ ConnectionsAgree /\ ToldOnce

\* No two hosts start connections to each other.  A host may accept connections of
\* some hosts and start them to others, as a game server does to the master.
OneSided == \A h, p \in Host : p \in Target[h] => h \notin Target[p]

\* What OnePerAddress needs besides: attempts and requests go to the targets.
AttemptsToTargets == \A h \in Host : \A c \in pending[h] : c.address \in Target[h]

RequestsToTargets ==
    \A m \in network : m.type = "ConnectRequest" => m.to \in Target[m.from]

OneSidedInv == OnePerAddress /\ AttemptsToTargets /\ RequestsToTargets
=============================================================================
