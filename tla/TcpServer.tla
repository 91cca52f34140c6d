----------------------------- MODULE TcpServer -----------------------------
(***************************************************************************)
(* TcpServer (src/src/Net/TcpServer.cpp): accepting, login, the maps that  *)
(* lead to a client by socket, address, host and user name, sending,       *)
(* disconnection and closing, on the net thread's event loop.              *)
(*                                                                         *)
(* A socket is known by its place in memory, which a later one may take; a *)
(* peer's address may come back before the server has noticed that the     *)
(* connection from it is over.  Qt's signals are direct here: close() of a *)
(* socket runs onSocketDisconnected before it returns, unless bytes are    *)
(* still unsent; such a socket is "closing" until they are gone.           *)
(***************************************************************************)
EXTENDS Naturals, Functions

CONSTANTS
    Socket,     \* places of QTcpSocket objects
    Addr,       \* peers, as Net::AddressPort values
    NoAddr,     \* the peer of an unused socket
    Host,       \* QHostAddress values
    HostOf,     \* HostOf[a]: the host of an address
    User,       \* login names
    UserOf,     \* UserOf[a]: the one name that the client at an address uses
    Password,
    NoLogin,    \* what does not decode to login data, or was never asked for
    MaxAccepts  \* bound: connections in all

Login == [user : User, password : Password]

ASSUME TcpServerAssumption ==
    /\ NoAddr \notin Addr
    /\ HostOf \in [Addr -> Host]
    /\ UserOf \in [Addr -> User]
    /\ NoLogin \notin Login
    /\ MaxAccepts \in Nat

VARIABLES
    thread,     \* "running", or "crashed" or "hung" for good
    listening,  \* m_connectionState = Created
    authEnabled, allowAll,  \* m_isAuthorizationEnabled, m_isAllowAllAdresses
    allowed,    \* m_allowedAddresses
    loginData,  \* m_loginData
    state,      \* of each socket; "left": its peer has gone, unnoticed so far
    peer,       \* peerAddress() and peerPort() of each socket
    unsent,     \* sockets with bytes in their write buffer
    pending,    \* m_pendingMsgBySocket: the message in progress, if any, and
                \* whether its beginning was read from an earlier socket
    authMap,    \* m_socketAuthMap: sockets with a running timer
    client,     \* m_clientMap: socket -> the login data in its ClientData
    byAddr,     \* m_clientByPeerAddressPort: address -> socket
    byHost,     \* m_clientsByPeerAddress: host -> address -> socket
    byUser,     \* m_clientsByLoginUsername: user -> socket
    last,       \* history: what was posted to the main thread last
    accepted,   \* connections so far
    mixed       \* history: addresses from which a client was served on a message that
                \* another socket had begun to read

settings == <<authEnabled, allowAll>>
lists == <<allowed, loginData>>
maps == <<authMap, client, byAddr, byHost, byUser>>
sockets == <<state, peer, unsent, pending>>
counts == <<accepted, mixed>>
vars == <<thread, listening, settings, lists, sockets, maps, last, counts>>

Nothing == [x \in {} |-> x]
Without(f, S) == Restrict(f, DOMAIN f \ S)
With(f, x, v) == [y \in DOMAIN f \cup {x} |-> IF y = x THEN v ELSE f[y]]
Post(k, peers) == [kind |-> k, peers |-> peers]

Live(s) == state[s] \in {"open", "left"}

-----------------------------------------------------------------------------
\* Both switches are set before the server is opened for the first time.
Init ==
    /\ thread = "running"
    /\ listening = FALSE
    /\ authEnabled \in BOOLEAN /\ allowAll \in BOOLEAN
    /\ allowed = {} /\ loginData = {}
    /\ state = [s \in Socket |-> "free"]
    /\ peer = [s \in Socket |-> NoAddr]
    /\ unsent = {}
    /\ pending = [s \in Socket |-> "none"]
    /\ authMap = {}
    /\ client = Nothing /\ byAddr = Nothing /\ byUser = Nothing
    /\ byHost = [h \in Host |-> Nothing]
    /\ last = Post("none", {})
    /\ accepted = 0
    /\ mixed = {}

-----------------------------------------------------------------------------
(* The end of sockets.  Definitions named X_<Word> are faulty variants.     *)

\* Faulty: messages in progress are never removed.
Forget_Nothing(S) == UNCHANGED pending

\* m_pendingMsgBySocket.remove, or a message that has been read to its end.
Forget(S) == pending' = [s \in Socket |-> IF s \in S THEN "none" ELSE pending[s]]

\* Faulty: the entry by user name stays.
UsersOf_None(S) == {}

\* The keys of m_clientsByLoginUsername that go with clients S; without
\* authorization the name is empty and not a key.
UsersOf(S) == IF authEnabled THEN {client[s].user : s \in S} ELSE {}

\* Faulty: clientDisconnected is emitted only while the server is open.
Announce_WhenOpen(peers) ==
    last' = IF peers = {} \/ ~listening THEN last ELSE Post("gone", peers)

\* clientDisconnected.
Announce(peers) == last' = IF peers = {} THEN last ELSE Post("gone", peers)

\* onSocketDisconnected of each socket in S; those in K begin a delayed close.
Disconnect(S, K) ==
    LET served == S \cap DOMAIN client
        peers == {peer[s] : s \in served}
    IN  /\ state' = [s \in Socket |-> IF s \in S THEN "dead"
                                      ELSE IF s \in K THEN "closing" ELSE state[s]]
        /\ unsent' = unsent \ S
        /\ client' = Without(client, served)
        /\ byAddr' = Without(byAddr, peers)
        /\ byHost' = [h \in Host |-> Without(byHost[h], peers)]
        /\ byUser' = Without(byUser, UsersOf(served))
        /\ authMap' = authMap \ S
        /\ Announce(peers)
        /\ UNCHANGED peer

\* The entry by host is used without a test.  It is missing if another client
\* from the same address has ended before, now or in the same loop.
HostMissing(S) ==
    \E s \in S \cap DOMAIN client :
        DOMAIN byHost[HostOf[peer[s]]] \subseteq {peer[t] : t \in (S \ {s}) \cap DOMAIN client}

\* Undefined behaviour may crash the program or pass without effect.
Survives(isUndefined) ==
    thread' \in IF isUndefined THEN {"running", "crashed"} ELSE {"running"}

End(S, K) ==
    /\ Disconnect(S, K)
    /\ Forget(S \cap DOMAIN client)
    /\ Survives(HostMissing(S))

\* QTcpSocket::close of each socket in S.
Close(S) == End(S \ unsent, S \cap unsent)

\* QTcpSocket::abort: unsent bytes are thrown away.
Abort(S) == End(S, {})

-----------------------------------------------------------------------------
(* Opening and closing the server, and its lists.                           *)

openConnection ==
    /\ ~listening
    /\ listening' = TRUE
    /\ UNCHANGED <<thread, settings, lists, sockets, maps, last, counts>>

\* The loop ends when no client is left.  The first client it meets that has
\* bytes unsent stays in m_clientMap, and close() is called on it forever.
closeConnection ==
    /\ listening' = FALSE
    /\ IF DOMAIN client \cap unsent = {}
       THEN Close(DOMAIN client)
       ELSE \E s \in DOMAIN client \cap unsent, S \in SUBSET (DOMAIN client \ unsent) :
                /\ Disconnect(S, {s})
                /\ Forget(S)
                /\ thread' = "hung"
    /\ UNCHANGED <<settings, lists, counts>>

addAllowedAddress(h) ==
    /\ allowed' = allowed \cup {h}
    /\ UNCHANGED <<thread, listening, settings, loginData, sockets, maps, last, counts>>

removeAllowedAddress(h) ==
    /\ allowed' = allowed \ {h}
    /\ Close({s \in DOMAIN client : HostOf[peer[s]] = h})
    /\ UNCHANGED <<listening, settings, loginData, counts>>

addLoginData(l) ==
    /\ loginData' = loginData \cup {l}
    /\ UNCHANGED <<thread, listening, settings, allowed, sockets, maps, last, counts>>

\* Faulty: the user may not log in again, but stays connected.
removeLoginData_Later(l) ==
    /\ loginData' = loginData \ {l}
    /\ UNCHANGED <<thread, listening, settings, allowed, sockets, maps, last, counts>>

\* Whatever the password, the user's connection is aborted.
removeLoginData(l) ==
    /\ loginData' = loginData \ {l}
    /\ Abort({byUser[u] : u \in {l.user} \cap DOMAIN byUser})
    /\ UNCHANGED <<listening, settings, allowed, counts>>

-----------------------------------------------------------------------------
(* Connections.                                                             *)

\* Faulty: the login data is not kept.
AddClient_Anonymous(s, a, login) ==
    /\ client' = With(client, s, NoLogin)
    /\ byAddr' = With(byAddr, a, s)
    /\ byHost' = [byHost EXCEPT ![HostOf[a]] = With(@, a, s)]

\* A new ClientData, entered by socket, address and host.
AddClient(s, a, login) ==
    /\ client' = With(client, s, login)
    /\ byAddr' = With(byAddr, a, s)
    /\ byHost' = [byHost EXCEPT ![HostOf[a]] = With(@, a, s)]

\* onNewConnection, one turn of its loop.  There is one connection of an address
\* at a time, but the end of the last one may not have been noticed yet.
Arrives(s, a) ==
    /\ listening
    /\ accepted < MaxAccepts
    /\ state[s] = "free"
    /\ \A t \in Socket : state[t] = "open" => peer[t] # a
    /\ accepted' = accepted + 1
    /\ peer' = [peer EXCEPT ![s] = a]
    /\ UNCHANGED <<thread, listening, settings, lists, unsent, pending, byUser, last, mixed>>

IsAllowed(a) == allowAll \/ HostOf[a] \in allowed

TurnAway(s, a) ==
    /\ Arrives(s, a) /\ ~IsAllowed(a)
    /\ state' = [state EXCEPT ![s] = "dead"]
    /\ UNCHANGED <<authMap, client, byAddr, byHost>>

AwaitLogin(s, a) ==
    /\ Arrives(s, a) /\ IsAllowed(a) /\ authEnabled
    /\ state' = [state EXCEPT ![s] = "open"]
    /\ authMap' = authMap \cup {s}
    /\ UNCHANGED <<client, byAddr, byHost>>

ServeAtOnce(s, a) ==
    /\ Arrives(s, a) /\ IsAllowed(a) /\ ~authEnabled
    /\ state' = [state EXCEPT ![s] = "open"]
    /\ AddClient(s, a, NoLogin)
    /\ UNCHANGED authMap

\* The timer of a socket that has not logged in calls its close().
AuthTimeout(s) ==
    /\ s \in authMap
    /\ Close({s})
    /\ UNCHANGED <<listening, settings, lists, counts>>

\* The peer closes its end, or its connection breaks.
PeerLeaves(s) ==
    /\ state[s] = "open"
    /\ state' = [state EXCEPT ![s] = "left"]
    /\ UNCHANGED <<thread, listening, settings, lists, peer, unsent, pending, maps, last, counts>>

\* The socket learns that its peer has gone: printSocketError, which looks for a
\* ClientData that only a served socket has, then onSocketDisconnected.
NoticeEnd(s) ==
    /\ state[s] = "left"
    /\ Disconnect({s}, {})
    /\ Forget({s} \cap DOMAIN client)
    /\ Survives(s \notin DOMAIN client \/ HostMissing({s}))
    /\ UNCHANGED <<listening, settings, lists, counts>>

\* A delayed close comes to its end: all is written, or it cannot be.
FinishClose(s) ==
    /\ state[s] = "closing"
    /\ Abort({s})
    /\ UNCHANGED <<listening, settings, lists, counts>>

\* The bytes in the write buffer have been taken by the network.
Flush(s) ==
    /\ s \in unsent /\ Live(s)
    /\ unsent' = unsent \ {s}
    /\ UNCHANGED <<thread, listening, settings, lists, state, peer, pending, maps, last, counts>>

\* deleteLater.  A message that was being read waits for the next socket that is
\* made in the same place.
Delete(s) ==
    /\ state[s] = "dead"
    /\ state' = [state EXCEPT ![s] = "free"]
    /\ peer' = [peer EXCEPT ![s] = NoAddr]
    /\ pending' = [pending EXCEPT ![s] = IF @ = "none" THEN "none" ELSE "inherited"]
    /\ UNCHANGED <<thread, listening, settings, lists, unsent, maps, last, counts>>

-----------------------------------------------------------------------------
(* readReceived.  Messages are whole but for the last; module Framing is    *)
(* about their bytes.                                                       *)

ReadPart(s) ==
    /\ Live(s)
    /\ pending[s] = "none"
    /\ pending' = [pending EXCEPT ![s] = "begun"]
    /\ UNCHANGED <<thread, listening, settings, lists, state, peer, unsent, maps, last, counts>>

\* What the first message of a socket that has not logged in may decode to.  The
\* bytes behind the login data are not looked at: a message that begins with what
\* another socket read may hold any login, the one before's too.
Claims(s) ==
    {NoLogin} \cup IF pending[s] = "inherited" THEN Login
                   ELSE {l \in Login : l.user = UserOf[peer[s]]}

\* Faulty: a second connection of a user is served next to the first.
Refused_Credentials(s) == {l \in Claims(s) : l = NoLogin \/ l \notin loginData}

\* Corrupted data, a user who is connected already, wrong login data.
Refused(s) ==
    {l \in Claims(s) : l = NoLogin \/ l.user \in DOMAIN byUser \/ l \notin loginData}

RefuseLogin(s) ==
    /\ Live(s) /\ s \in authMap
    /\ Refused(s) # {}
    /\ Disconnect({s}, {})
    /\ Forget({s})
    /\ UNCHANGED <<thread, listening, settings, lists, counts>>

\* Faulty: the timer of a socket that has logged in goes on.
StopTimer_Never(s) == UNCHANGED authMap

StopTimer(s) == authMap' = authMap \ {s}

\* A message that has been read to its end is forgotten.  Once out of step with its
\* peer, a reader stays so.
Finish(s) == Forget({s} \cap {t \in Socket : pending[t] = "begun"})

AcceptLogin(s) ==
    /\ Live(s) /\ s \in authMap
    /\ \E l \in Claims(s) \ Refused(s) :
           /\ AddClient(s, peer[s], l)
           /\ byUser' = With(byUser, l.user, s)
    /\ StopTimer(s)
    /\ Finish(s)
    /\ mixed' = IF pending[s] = "inherited" THEN mixed \cup {peer[s]} ELSE mixed
    /\ UNCHANGED <<thread, listening, settings, lists, state, peer, unsent, last, accepted>>

\* The callback posts the message to the main thread.
ReadRequest(s) ==
    /\ Live(s) /\ s \notin authMap
    /\ last' = Post("message", {peer[s]})
    /\ Finish(s)
    /\ UNCHANGED <<thread, listening, settings, lists, state, peer, unsent, maps, counts>>

-----------------------------------------------------------------------------
(* Sending.                                                                 *)

\* sendMessageTo an address, the addresses of a host or a user: after a second
\* some bytes are still unsent, or the socket has found its peer gone.  (If all
\* is written, or the socket is closing, nothing here changes.)
sendMessageTo(s) ==
    /\ s \in {byAddr[a] : a \in DOMAIN byAddr} \cup {byUser[u] : u \in DOMAIN byUser}
    /\ Live(s)
    /\ \/ /\ unsent' = unsent \cup {s}
          /\ UNCHANGED <<thread, state, peer, pending, maps, last>>
       \/ /\ state[s] = "left"
          /\ Abort({s})
    /\ UNCHANGED <<listening, settings, lists, counts>>

\* sendMessage to all: when a client turns out to be gone, the entry that the
\* loop's iterator is at is removed under it.
BroadcastFails(s) ==
    /\ s \in DOMAIN client /\ state[s] = "left"
    /\ Disconnect({s}, {})
    /\ Forget({s})
    /\ Survives(TRUE)
    /\ UNCHANGED <<listening, settings, lists, counts>>

-----------------------------------------------------------------------------
Step(s) ==
    \/ \E a \in Addr : TurnAway(s, a) \/ AwaitLogin(s, a) \/ ServeAtOnce(s, a)
    \/ AuthTimeout(s) \/ PeerLeaves(s) \/ NoticeEnd(s) \/ FinishClose(s)
    \/ Flush(s) \/ Delete(s)
    \/ ReadPart(s) \/ RefuseLogin(s) \/ AcceptLogin(s) \/ ReadRequest(s)
    \/ sendMessageTo(s) \/ BroadcastFails(s)

Call ==
    \/ openConnection \/ closeConnection
    \/ \E h \in Host : addAllowedAddress(h) \/ removeAllowedAddress(h)
    \/ \E l \in Login : addLoginData(l) \/ removeLoginData(l)

Next == thread = "running" /\ (Call \/ \E s \in Socket : Step(s))

Spec == Init /\ [][Next]_vars

-----------------------------------------------------------------------------
(* Properties.                                                              *)

TypeOK ==
    /\ thread \in {"running", "crashed", "hung"}
    /\ listening \in BOOLEAN /\ authEnabled \in BOOLEAN /\ allowAll \in BOOLEAN
    /\ allowed \subseteq Host /\ loginData \subseteq Login
    /\ state \in [Socket -> {"free", "open", "left", "closing", "dead"}]
    /\ peer \in [Socket -> Addr \cup {NoAddr}]
    /\ \A s \in Socket : peer[s] = NoAddr <=> state[s] = "free"
    /\ pending \in [Socket -> {"none", "begun", "inherited"}]
    /\ authMap \subseteq Socket
    /\ unsent \subseteq DOMAIN client /\ DOMAIN client \subseteq Socket
    /\ \A s \in DOMAIN client : client[s] \in IF authEnabled THEN Login ELSE {NoLogin}
    /\ DOMAIN byAddr \subseteq Addr /\ DOMAIN byHost = Host /\ DOMAIN byUser \subseteq User
    /\ \A h \in Host, a \in Addr : a \in DOMAIN byHost[h] => HostOf[a] = h
    /\ last.kind \in {"none", "message", "gone"} /\ last.peers \subseteq Addr
    /\ accepted \in 0..MaxAccepts /\ mixed \subseteq Addr

\* "All its calls are guaranteed to be safe": whatever map sendMessageTo takes a
\* client from, with or without authorization, the client is still there and is
\* the one that was asked for.
PointersAreLive ==
    /\ \A a \in DOMAIN byAddr : byAddr[a] \in DOMAIN client /\ peer[byAddr[a]] = a
    /\ \A h \in Host : \A a \in DOMAIN byHost[h] :
           byHost[h][a] \in DOMAIN client /\ peer[byHost[h][a]] = a
    /\ \A u \in DOMAIN byUser : byUser[u] \in DOMAIN client /\ client[byUser[u]].user = u

\* With authorization, every client is found by its name, and by its address and
\* its host even if its address was taken over from a connection whose end came
\* late.  (So none has to share a name or an address.)  Only the address of a client
\* that was served on another's message may be shared.
EveryClientIsFound ==
    authEnabled =>
        \A s \in DOMAIN client :
            /\ client[s].user \in DOMAIN byUser /\ byUser[client[s].user] = s
            /\ peer[s] \notin mixed =>
                  /\ peer[s] \in DOMAIN byAddr /\ byAddr[peer[s]] = s
                  /\ peer[s] \in DOMAIN byHost[HostOf[peer[s]]]
                  /\ byHost[HostOf[peer[s]]][peer[s]] = s

\* Every socket with a connection is either served or has a timer running that
\* will end it, and no other socket has an entry that could be left behind.
ServedOrTimed ==
    \A s \in Socket :
        /\ (s \in DOMAIN client \/ s \in authMap) <=> state[s] \in {"open", "left", "closing"}
        /\ ~(s \in DOMAIN client /\ s \in authMap)

\* Nobody is served on login data that has been taken back.
CredentialsHold == authEnabled => \A s \in DOMAIN client : client[s] \in loginData

\* A client is served out of step only if the message that another socket in the
\* same place in memory had begun came out as a valid login; without authorization
\* nobody is.
ClientsAreReadInStep ==
    \A s \in DOMAIN client : pending[s] = "inherited" => authEnabled /\ peer[s] \in mixed

\* With authorization, the peers as the main thread knows them.
Main == INSTANCE Sessions WITH
    connected <- IF authEnabled THEN {peer[s] : s \in DOMAIN client} ELSE {},
    last <- IF authEnabled THEN last ELSE Post("none", {})

\* What TcpServer posts is what ExampleServer relies on (module Sessions): a
\* connection's messages, then one report of its end, and never two connections
\* of one peer at a time, since the main thread knows peers by address only.  So it
\* is for as long as nobody is served on a message that another socket had begun.
KeepsSessions ==
    Main!Init /\ [][mixed' = {} => Main!Next \/ UNCHANGED Main!vars]_vars

\* "onSocketDisconnected() deletes socket right away after close()", so that the
\* loop in closeConnection ends.
CloseConnectionEnds == thread # "hung"
=============================================================================
