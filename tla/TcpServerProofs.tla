--------------------------- MODULE TcpServerProofs ---------------------------
(***************************************************************************)
(* Proofs about TcpServer, for any sockets, peers, hosts, users, passwords *)
(* and number of connections.                                              *)
(***************************************************************************)
EXTENDS TcpServer, TLAPS

-----------------------------------------------------------------------------
(* The maps.                                                                *)

LEMMA WithIs ==
    ASSUME NEW f, NEW x, NEW v
    PROVE  /\ DOMAIN With(f, x, v) = DOMAIN f \cup {x}
           /\ With(f, x, v)[x] = v
           /\ \A y \in DOMAIN f \ {x} : With(f, x, v)[y] = f[y]
BY DEF With

-----------------------------------------------------------------------------
(* TypeOK, ServedOrTimed and PointersAreLive rest on each other: a timer or *)
(* a pointer leads to a socket that is to be disconnected, and only what is *)
(* connected has an address to be taken out of the maps.                    *)

\* The part of TypeOK that is not about the maps.
SwitchType ==
    /\ thread \in {"running", "crashed", "hung"}
    /\ listening \in BOOLEAN /\ authEnabled \in BOOLEAN /\ allowAll \in BOOLEAN
    /\ allowed \subseteq Host /\ loginData \subseteq Login
    /\ pending \in [Socket -> {"none", "begun", "inherited"}]
    /\ accepted \in 0..MaxAccepts /\ mixed \subseteq Addr

\* The part about sockets and maps.
MapType ==
    /\ state \in [Socket -> {"free", "open", "left", "closing", "dead"}]
    /\ peer \in [Socket -> Addr \cup {NoAddr}]
    /\ \A s \in Socket : peer[s] = NoAddr <=> state[s] = "free"
    /\ authMap \subseteq Socket
    /\ unsent \subseteq DOMAIN client /\ DOMAIN client \subseteq Socket
    /\ \A s \in DOMAIN client : client[s] \in IF authEnabled THEN Login ELSE {NoLogin}
    /\ DOMAIN byAddr \subseteq Addr /\ DOMAIN byHost = Host /\ DOMAIN byUser \subseteq User
    /\ \A h \in Host, a \in Addr : a \in DOMAIN byHost[h] => HostOf[a] = h
    /\ last.kind \in {"none", "message", "gone"} /\ last.peers \subseteq Addr

LEMMA TypeIs == TypeOK <=> SwitchType /\ MapType
BY DEF TypeOK, SwitchType, MapType

\* Names and timers exist with authorization only.
AuthorizationOnly == ~authEnabled => authMap = {} /\ DOMAIN byUser = {}

Books == MapType /\ ServedOrTimed /\ PointersAreLive /\ AuthorizationOnly

bookVars == <<authEnabled, state, peer, unsent, maps, last>>

\* The sockets that onSocketDisconnected may be called for.
Known == DOMAIN client \cup authMap

\* What every end of connections comes to: sockets of the maps are disconnected.
Ends(S, K) ==
    /\ S \subseteq Known /\ K \subseteq Known
    /\ Disconnect(S, K)
    /\ UNCHANGED settings

LEMMA KnownSockets ==
    ASSUME TcpServerAssumption, MapType, ServedOrTimed
    PROVE  /\ Known \subseteq Socket
           /\ \A s \in Known : /\ state[s] \in {"open", "left", "closing"}
                               /\ peer[s] \in Addr
           /\ \A s \in Socket : (Live(s) \/ state[s] = "closing") => s \in Known /\ peer[s] \in Addr
BY DEF TcpServerAssumption, MapType, ServedOrTimed, Known, Live

\* What onSocketDisconnected makes of the maps, entry by entry.
PeersOf(S) == {peer[s] : s \in S \cap DOMAIN client}

Disconnected(S, K) ==
    /\ state' = [s \in Socket |-> IF s \in S THEN "dead"
                                  ELSE IF s \in K THEN "closing" ELSE state[s]]
    /\ peer' = peer /\ authEnabled' = authEnabled
    /\ unsent' = unsent \ S /\ authMap' = authMap \ S
    /\ DOMAIN client' = DOMAIN client \ S
    /\ \A s \in DOMAIN client' : client'[s] = client[s]
    /\ PeersOf(S) \subseteq Addr
    /\ DOMAIN byAddr' = DOMAIN byAddr \ PeersOf(S)
    /\ \A a \in DOMAIN byAddr' : byAddr'[a] = byAddr[a]
    /\ DOMAIN byHost' = Host
    /\ \A h \in Host : /\ DOMAIN byHost'[h] = DOMAIN byHost[h] \ PeersOf(S)
                       /\ \A a \in DOMAIN byHost'[h] : byHost'[h][a] = byHost[h][a]
    /\ DOMAIN byUser' = DOMAIN byUser \ UsersOf(S \cap DOMAIN client)
    /\ \A u \in DOMAIN byUser' : byUser'[u] = byUser[u]
    /\ last' = IF PeersOf(S) = {} THEN last ELSE Post("gone", PeersOf(S))

LEMMA EndsIs ==
    ASSUME TcpServerAssumption, Books, NEW S, NEW K, Ends(S, K)
    PROVE  Disconnected(S, K)
<1> DEFINE served == S \cap DOMAIN client
           peers == {peer[s] : s \in served}
<1>1. /\ client' = Without(client, served)
      /\ byAddr' = Without(byAddr, peers)
      /\ byHost' = [h \in Host |-> Without(byHost[h], peers)]
      /\ byUser' = Without(byUser, UsersOf(served))
      /\ last' = IF peers = {} THEN last ELSE Post("gone", peers)
  BY DEF Ends, Disconnect, Announce
<1>2. /\ state' = [s \in Socket |-> IF s \in S THEN "dead"
                                    ELSE IF s \in K THEN "closing" ELSE state[s]]
      /\ peer' = peer /\ authEnabled' = authEnabled
      /\ unsent' = unsent \ S /\ authMap' = authMap \ S
  BY DEF Ends, Disconnect, settings
<1>3. DOMAIN client' = DOMAIN client \ S /\ \A s \in DOMAIN client' : client'[s] = client[s]
  BY <1>1 DEF served, Without, Restrict
<1>4. peers \subseteq Addr
  BY KnownSockets DEF Books, Known
<1> HIDE DEF served, peers
<1>5. DOMAIN byAddr' = DOMAIN byAddr \ peers /\ \A a \in DOMAIN byAddr' : byAddr'[a] = byAddr[a]
  BY <1>1 DEF Without, Restrict
<1>6. DOMAIN byUser' = DOMAIN byUser \ UsersOf(served)
      /\ \A u \in DOMAIN byUser' : byUser'[u] = byUser[u]
  BY <1>1 DEF Without, Restrict
<1>7. ASSUME NEW h \in Host
      PROVE  /\ DOMAIN byHost'[h] = DOMAIN byHost[h] \ peers
             /\ \A a \in DOMAIN byHost'[h] : byHost'[h][a] = byHost[h][a]
  <2>1. byHost'[h] = Without(byHost[h], peers)
    BY <1>1
  <2> QED BY <2>1 DEF Without, Restrict
<1>8. DOMAIN byHost' = Host
  BY <1>1
<1> QED BY <1>1, <1>2, <1>3, <1>4, <1>5, <1>6, <1>7, <1>8
        DEF served, peers, PeersOf, Disconnected

LEMMA BooksAfterEnds ==
    ASSUME TcpServerAssumption, Books, NEW S, NEW K, Ends(S, K)
    PROVE  Books'
<1> DEFINE peers == PeersOf(S)
<1>0. Disconnected(S, K)
  BY EndsIs
<1>1. /\ state' = [s \in Socket |-> IF s \in S THEN "dead"
                                    ELSE IF s \in K THEN "closing" ELSE state[s]]
      /\ peer' = peer /\ authEnabled' = authEnabled
      /\ unsent' = unsent \ S /\ authMap' = authMap \ S
      /\ DOMAIN client' = DOMAIN client \ S
      /\ \A s \in DOMAIN client' : client'[s] = client[s]
      /\ peers \subseteq Addr
      /\ DOMAIN byAddr' = DOMAIN byAddr \ peers
      /\ \A a \in DOMAIN byAddr' : byAddr'[a] = byAddr[a]
      /\ DOMAIN byHost' = Host
      /\ \A h \in Host : /\ DOMAIN byHost'[h] = DOMAIN byHost[h] \ peers
                         /\ \A a \in DOMAIN byHost'[h] : byHost'[h][a] = byHost[h][a]
      /\ DOMAIN byUser' = DOMAIN byUser \ UsersOf(S \cap DOMAIN client)
      /\ \A u \in DOMAIN byUser' : byUser'[u] = byUser[u]
      /\ last' = IF peers = {} THEN last ELSE Post("gone", peers)
  BY <1>0 DEF Disconnected
<1>2. /\ S \subseteq Known /\ K \subseteq Known
      /\ Known \subseteq Socket
      /\ \A s \in Known : state[s] \in {"open", "left", "closing"} /\ peer[s] \in Addr
  BY KnownSockets DEF Ends, Books
<1>3. \A s \in DOMAIN client \cap S : peer[s] \in peers
  BY DEF PeersOf
<1> HIDE DEF peers
<1>4. MapType'
  <2>1. state' \in [Socket -> {"free", "open", "left", "closing", "dead"}]
    BY <1>1 DEF Books, MapType
  <2>2. \A s \in Socket : peer'[s] = NoAddr <=> state'[s] = "free"
    BY <1>1, <1>2 DEF Books, MapType, TcpServerAssumption
  <2>3. last'.kind \in {"none", "message", "gone"} /\ last'.peers \subseteq Addr
    BY <1>1 DEF Books, MapType, Post
  <2>4. /\ unsent' \subseteq DOMAIN client' /\ DOMAIN client' \subseteq Socket
        /\ authMap' \subseteq Socket
        /\ \A s \in DOMAIN client' : client'[s] \in IF authEnabled' THEN Login ELSE {NoLogin}
    BY <1>1 DEF Books, MapType
  <2> QED BY <1>1, <2>1, <2>2, <2>3, <2>4 DEF Books, MapType
<1>5. ServedOrTimed'
  BY <1>1, <1>2 DEF Books, ServedOrTimed, MapType, Known
<1>6. PointersAreLive'
  <2>1. ASSUME NEW a \in DOMAIN byAddr'
        PROVE  byAddr'[a] \in DOMAIN client' /\ peer'[byAddr'[a]] = a
    BY <1>1, <1>3, <2>1 DEF Books, PointersAreLive
  <2>2. ASSUME NEW h \in Host, NEW a \in DOMAIN byHost'[h]
        PROVE  byHost'[h][a] \in DOMAIN client' /\ peer'[byHost'[h][a]] = a
    BY <1>1, <1>3, <2>2 DEF Books, PointersAreLive
  <2>3. ASSUME NEW u \in DOMAIN byUser'
        PROVE  byUser'[u] \in DOMAIN client' /\ client'[byUser'[u]].user = u
    BY <1>1, <2>3 DEF Books, PointersAreLive, AuthorizationOnly, UsersOf
  <2> QED BY <2>1, <2>2, <2>3 DEF PointersAreLive
<1>7. AuthorizationOnly'
  BY <1>1 DEF Books, AuthorizationOnly
<1> QED BY <1>4, <1>5, <1>6, <1>7 DEF Books

\* The steps that end connections, and what else such a step does.
Ending ==
    \/ closeConnection
    \/ \E h \in Host : removeAllowedAddress(h)
    \/ \E l \in Login : removeLoginData(l)
    \/ \E s \in Socket : \/ AuthTimeout(s) \/ NoticeEnd(s) \/ FinishClose(s)
                         \/ RefuseLogin(s) \/ BroadcastFails(s)
                         \/ sendMessageTo(s) /\ Abort({s})

EndsTidily(S, K) ==
    /\ Ends(S, K)
    /\ \E T \in SUBSET Socket : S \cap DOMAIN client \subseteq T /\ Forget(T)
    /\ thread' \in {"running", "crashed", "hung"}
    /\ listening' \in {listening, FALSE} /\ allowed' \subseteq allowed
    /\ UNCHANGED counts
    /\ \/ loginData' = loginData
       \/ \E l \in Login :
             /\ loginData' = loginData \ {l}
             /\ \A u \in {l.user} \cap DOMAIN byUser : byUser[u] \in S

\* A call of close() or abort() for sockets of the maps.
LEMMA EndIs ==
    ASSUME TcpServerAssumption, TypeOK, ServedOrTimed, NEW S \in SUBSET Known, UNCHANGED settings,
           NEW K \in SUBSET S, End(S \ K, K)
    PROVE  /\ Ends(S \ K, K)
           /\ \E T \in SUBSET Socket : (S \ K) \cap DOMAIN client \subseteq T /\ Forget(T)
           /\ thread' \in {"running", "crashed", "hung"}
<1>1. Ends(S \ K, K)
  BY DEF End, Ends
<1>2. (S \ K) \cap DOMAIN client \in SUBSET Socket
  BY DEF TypeOK
<1>3. Forget((S \ K) \cap DOMAIN client)
  BY DEF End
<1>4. thread' \in {"running", "crashed", "hung"}
  BY DEF End, Survives
<1> QED BY <1>1, <1>2, <1>3, <1>4

LEMMA CloseIs ==
    ASSUME TcpServerAssumption, TypeOK, ServedOrTimed, NEW S \in SUBSET Known, UNCHANGED settings,
           Close(S) \/ Abort(S)
    PROVE  \E K \in SUBSET S :
              /\ Ends(S \ K, K) /\ K \subseteq unsent
              /\ \E T \in SUBSET Socket : (S \ K) \cap DOMAIN client \subseteq T /\ Forget(T)
              /\ thread' \in {"running", "crashed", "hung"}
              /\ Abort(S) => K = {}
<1>1. CASE Abort(S)
  <2>1. S \ {} = S /\ {} \in SUBSET S
    OBVIOUS
  <2>2. End(S \ {}, {})
    BY <1>1, <2>1 DEF Abort
  <2> QED BY <2>1, <2>2, EndIs
<1>2. CASE ~Abort(S)
  <2> DEFINE K == S \cap unsent
  <2>1. S \ unsent = S \ K /\ K \in SUBSET S
    OBVIOUS
  <2>2. End(S \ K, K)
    BY <1>2, <2>1 DEF Close
  <2>3. K \subseteq unsent
    OBVIOUS
  <2> HIDE DEF K
  <2>4. /\ Ends(S \ K, K)
        /\ \E T \in SUBSET Socket : (S \ K) \cap DOMAIN client \subseteq T /\ Forget(T)
        /\ thread' \in {"running", "crashed", "hung"}
    BY <2>1, <2>2, EndIs
  <2> QED BY <1>2, <2>1, <2>3, <2>4
<1> QED BY <1>1, <1>2

LEMMA EndingIs ==
    ASSUME TcpServerAssumption, TypeOK, Books, thread = "running", Ending
    PROVE  \E S, K : EndsTidily(S, K)
<1>0. ServedOrTimed /\ PointersAreLive /\ DOMAIN client \subseteq Socket
      /\ authMap \subseteq Socket /\ unsent \subseteq DOMAIN client
  BY DEF Books, TypeOK
<1>0a. \A s \in Socket : (Live(s) \/ state[s] = "closing") => s \in Known
  BY KnownSockets DEF Books
\* Close or abort, with nothing else to be shown.
<1>1. ASSUME NEW S \in SUBSET Known, Close(S) \/ Abort(S), UNCHANGED <<settings, counts>>,
             listening' \in {listening, FALSE}, allowed' \subseteq allowed,
             \/ loginData' = loginData
             \/ Abort(S) /\ \E l \in Login :
                    /\ loginData' = loginData \ {l}
                    /\ \A u \in {l.user} \cap DOMAIN byUser : byUser[u] \in S
      PROVE  \E T, K : EndsTidily(T, K)
  <2>1. PICK K \in SUBSET S :
              /\ Ends(S \ K, K) /\ K \subseteq unsent
              /\ \E T \in SUBSET Socket : (S \ K) \cap DOMAIN client \subseteq T /\ Forget(T)
              /\ thread' \in {"running", "crashed", "hung"}
              /\ Abort(S) => K = {}
    BY <1>0, <1>1, CloseIs
  <2>2. \/ loginData' = loginData
        \/ \E l \in Login :
              /\ loginData' = loginData \ {l}
              /\ \A u \in {l.user} \cap DOMAIN byUser : byUser[u] \in S \ K
    BY <1>1, <2>1
  <2>3. EndsTidily(S \ K, K)
    BY <1>1, <2>1, <2>2 DEF EndsTidily
  <2> QED BY <2>3
\* One socket disconnected from its own handler.
<1>2. ASSUME NEW s \in Known, Disconnect({s}, {}), UNCHANGED <<settings, counts>>,
             NEW T \in SUBSET Socket, {s} \cap DOMAIN client \subseteq T, Forget(T),
             thread' \in {"running", "crashed", "hung"},
             UNCHANGED <<listening, lists>>
      PROVE  \E S, K : EndsTidily(S, K)
  <2>1. Ends({s}, {})
    BY <1>2 DEF Ends
  <2>2. EndsTidily({s}, {})
    BY <1>2, <2>1 DEF EndsTidily, lists
  <2> QED BY <2>2
<1>3. CASE closeConnection
  <2>1. CASE DOMAIN client \cap unsent = {}
    <3> DEFINE S == DOMAIN client
    <3>1. Close(S) /\ S \in SUBSET Known /\ listening' = FALSE
          /\ UNCHANGED <<settings, counts>> /\ allowed' \subseteq allowed
          /\ loginData' = loginData
      BY <1>3, <2>1 DEF closeConnection, Known, lists
    <3> HIDE DEF S
    <3> QED BY <1>1, <3>1
  <2>2. CASE DOMAIN client \cap unsent # {}
    <3>1. PICK s \in DOMAIN client \cap unsent, S \in SUBSET (DOMAIN client \ unsent) :
              Disconnect(S, {s}) /\ Forget(S) /\ thread' = "hung"
      BY <1>3, <2>2 DEF closeConnection
    <3>2. Ends(S, {s})
      BY <1>3, <3>1 DEF Ends, Known, closeConnection
    <3>3. S \in SUBSET Socket /\ S \cap DOMAIN client \subseteq S
      BY <1>0
    <3>4. EndsTidily(S, {s})
      BY <1>3, <3>1, <3>2, <3>3 DEF EndsTidily, closeConnection, lists
    <3> QED BY <3>4
  <2> QED BY <2>1, <2>2
<1>4. ASSUME NEW h \in Host, removeAllowedAddress(h)
      PROVE  \E S, K : EndsTidily(S, K)
  <2> DEFINE S == {s \in DOMAIN client : HostOf[peer[s]] = h}
  <2>1. S \in SUBSET Known
    BY DEF Known
  <2>2. Close(S) /\ UNCHANGED <<settings, counts>> /\ listening' = listening
        /\ allowed' \subseteq allowed /\ loginData' = loginData
    BY <1>4 DEF removeAllowedAddress
  <2> HIDE DEF S
  <2> QED BY <1>1, <2>1, <2>2
<1>5. ASSUME NEW l \in Login, removeLoginData(l)
      PROVE  \E S, K : EndsTidily(S, K)
  <2> DEFINE S == {byUser[u] : u \in {l.user} \cap DOMAIN byUser}
  <2>1. S \in SUBSET Known
    BY <1>0 DEF Known, PointersAreLive
  <2>2. Abort(S) /\ UNCHANGED <<settings, counts>> /\ listening' = listening
        /\ allowed' \subseteq allowed /\ loginData' = loginData \ {l}
    BY <1>5 DEF removeLoginData
  <2>3. \A u \in {l.user} \cap DOMAIN byUser : byUser[u] \in S
    OBVIOUS
  <2> HIDE DEF S
  <2> QED BY <1>1, <2>1, <2>2, <2>3
<1>6. ASSUME NEW s \in Socket, AuthTimeout(s)
      PROVE  \E S, K : EndsTidily(S, K)
  <2>1. {s} \in SUBSET Known
    BY <1>6 DEF AuthTimeout, Known
  <2>2. Close({s}) /\ UNCHANGED <<settings, counts>> /\ listening' = listening
        /\ allowed' \subseteq allowed /\ loginData' = loginData
    BY <1>6 DEF AuthTimeout, lists
  <2> QED BY <1>1, <2>1, <2>2
<1>7. ASSUME NEW s \in Socket, FinishClose(s)
      PROVE  \E S, K : EndsTidily(S, K)
  <2>1. {s} \in SUBSET Known
    BY <1>0a, <1>7 DEF FinishClose
  <2>2. Abort({s}) /\ UNCHANGED <<settings, counts>> /\ listening' = listening
        /\ allowed' \subseteq allowed /\ loginData' = loginData
    BY <1>7 DEF FinishClose, lists
  <2> QED BY <1>1, <2>1, <2>2
<1>8. ASSUME NEW s \in Socket, sendMessageTo(s), Abort({s})
      PROVE  \E S, K : EndsTidily(S, K)
  <2>1. {s} \in SUBSET Known
    BY <1>0a, <1>8 DEF sendMessageTo
  <2>2. UNCHANGED <<settings, counts>> /\ listening' = listening
        /\ allowed' \subseteq allowed /\ loginData' = loginData
    BY <1>8 DEF sendMessageTo, lists
  <2> QED BY <1>1, <1>8, <2>1, <2>2
<1>9. ASSUME NEW s \in Socket, NoticeEnd(s)
      PROVE  \E S, K : EndsTidily(S, K)
  <2>1. s \in Known
    BY <1>0a, <1>9 DEF NoticeEnd, Live
  <2>2. /\ Disconnect({s}, {}) /\ Forget({s} \cap DOMAIN client)
        /\ UNCHANGED <<listening, settings, lists, counts>>
        /\ thread' \in {"running", "crashed", "hung"}
    BY <1>9 DEF NoticeEnd, Survives
  <2>3. {s} \cap DOMAIN client \in SUBSET Socket
    BY <1>9
  <2> QED BY <1>2, <2>1, <2>2, <2>3
<1>10. ASSUME NEW s \in Socket, RefuseLogin(s) \/ BroadcastFails(s)
       PROVE  \E S, K : EndsTidily(S, K)
  <2>1. s \in Known
    BY <1>10 DEF RefuseLogin, BroadcastFails, Known
  <2>2. /\ Disconnect({s}, {}) /\ Forget({s})
        /\ UNCHANGED <<listening, settings, lists, counts>>
        /\ thread' \in {"running", "crashed", "hung"}
    BY <1>10 DEF RefuseLogin, BroadcastFails, Survives
  <2>3. {s} \in SUBSET Socket /\ {s} \cap DOMAIN client \subseteq {s}
    BY <1>10
  <2> QED BY <1>2, <2>1, <2>2, <2>3
<1> QED BY <1>3, <1>4, <1>5, <1>6, <1>7, <1>8, <1>9, <1>10 DEF Ending

\* A new ClientData is entered for a socket that is in no map.
Entered(s, a, login) ==
    /\ DOMAIN client' = DOMAIN client \cup {s} /\ client'[s] = login
    /\ \A t \in DOMAIN client : client'[t] = client[t]
    /\ DOMAIN byAddr' = DOMAIN byAddr \cup {a} /\ byAddr'[a] = s
    /\ \A b \in DOMAIN byAddr \ {a} : byAddr'[b] = byAddr[b]
    /\ DOMAIN byHost' = Host
    /\ DOMAIN byHost'[HostOf[a]] = DOMAIN byHost[HostOf[a]] \cup {a}
    /\ byHost'[HostOf[a]][a] = s
    /\ \A b \in DOMAIN byHost[HostOf[a]] \ {a} :
           byHost'[HostOf[a]][b] = byHost[HostOf[a]][b]
    /\ \A h \in Host \ {HostOf[a]} : byHost'[h] = byHost[h]

LEMMA AddClientIs ==
    ASSUME TcpServerAssumption, Books, NEW s \in Socket \ DOMAIN client, NEW a \in Addr, NEW login,
           AddClient(s, a, login)
    PROVE  Entered(s, a, login)
<1>1. /\ client' = With(client, s, login)
      /\ byAddr' = With(byAddr, a, s)
      /\ byHost' = [byHost EXCEPT ![HostOf[a]] = With(byHost[HostOf[a]], a, s)]
  BY DEF AddClient
<1>2. HostOf[a] \in Host /\ DOMAIN byHost = Host
  BY DEF TcpServerAssumption, Books, MapType
<1>3. DOMAIN client' = DOMAIN client \cup {s} /\ client'[s] = login
      /\ \A t \in DOMAIN client : client'[t] = client[t]
  BY <1>1 DEF With
<1>4. DOMAIN byAddr' = DOMAIN byAddr \cup {a} /\ byAddr'[a] = s
      /\ \A b \in DOMAIN byAddr \ {a} : byAddr'[b] = byAddr[b]
  BY <1>1 DEF With
<1>5. /\ DOMAIN byHost' = Host
      /\ byHost'[HostOf[a]] = With(byHost[HostOf[a]], a, s)
      /\ \A h \in Host \ {HostOf[a]} : byHost'[h] = byHost[h]
  BY <1>1, <1>2
<1>6. /\ DOMAIN byHost'[HostOf[a]] = DOMAIN byHost[HostOf[a]] \cup {a}
      /\ byHost'[HostOf[a]][a] = s
      /\ \A b \in DOMAIN byHost[HostOf[a]] \ {a} :
             byHost'[HostOf[a]][b] = byHost[HostOf[a]][b]
  BY <1>5 DEF With
<1> QED BY <1>3, <1>4, <1>5, <1>6 DEF Entered

LEMMA BooksAfterAddClient ==
    ASSUME TcpServerAssumption, Books, NEW s \in Socket \ DOMAIN client, NEW a \in Addr, NEW login,
           AddClient(s, a, login),
           login \in IF authEnabled THEN Login ELSE {NoLogin},
           state' \in [Socket -> {"free", "open", "left", "closing", "dead"}],
           state'[s] \in {"open", "left"},
           peer' \in [Socket -> Addr \cup {NoAddr}], peer'[s] = a,
           \A t \in Socket \ {s} : state'[t] = state[t] /\ peer'[t] = peer[t],
           authMap' = authMap \ {s},
           \/ authEnabled /\ byUser' = With(byUser, login.user, s)
           \/ ~authEnabled /\ byUser' = byUser,
           UNCHANGED <<authEnabled, unsent, last>>
    PROVE  Books'
<1>0. Entered(s, a, login)
  BY AddClientIs
<1>1. /\ DOMAIN client' = DOMAIN client \cup {s} /\ client'[s] = login
      /\ \A t \in DOMAIN client : client'[t] = client[t]
      /\ DOMAIN byAddr' = DOMAIN byAddr \cup {a} /\ byAddr'[a] = s
      /\ \A b \in DOMAIN byAddr \ {a} : byAddr'[b] = byAddr[b]
      /\ DOMAIN byHost' = Host
      /\ DOMAIN byHost'[HostOf[a]] = DOMAIN byHost[HostOf[a]] \cup {a}
      /\ byHost'[HostOf[a]][a] = s
      /\ \A b \in DOMAIN byHost[HostOf[a]] \ {a} :
             byHost'[HostOf[a]][b] = byHost[HostOf[a]][b]
      /\ \A h \in Host \ {HostOf[a]} : byHost'[h] = byHost[h]
  BY <1>0 DEF Entered
<1>2. /\ authEnabled => /\ login.user \in User
                        /\ DOMAIN byUser' = DOMAIN byUser \cup {login.user}
                        /\ byUser'[login.user] = s
                        /\ \A u \in DOMAIN byUser \ {login.user} : byUser'[u] = byUser[u]
      /\ ~authEnabled => byUser' = byUser
  BY DEF With, Login
<1>3. MapType'
  <2>1. \A t \in Socket : peer'[t] = NoAddr <=> state'[t] = "free"
    BY DEF Books, MapType, TcpServerAssumption
  <2>2. \A h \in Host, b \in Addr : b \in DOMAIN byHost'[h] => HostOf[b] = h
    BY <1>1 DEF Books, MapType
  <2>3. /\ authMap' \subseteq Socket
        /\ unsent' \subseteq DOMAIN client' /\ DOMAIN client' \subseteq Socket
        /\ \A t \in DOMAIN client' : client'[t] \in IF authEnabled' THEN Login ELSE {NoLogin}
    BY <1>1 DEF Books, MapType
  <2>4. DOMAIN byAddr' \subseteq Addr /\ DOMAIN byHost' = Host /\ DOMAIN byUser' \subseteq User
    BY <1>1, <1>2 DEF Books, MapType
  <2>5. last'.kind \in {"none", "message", "gone"} /\ last'.peers \subseteq Addr
    BY DEF Books, MapType
  <2> QED BY <2>1, <2>2, <2>3, <2>4, <2>5 DEF MapType
<1>4. ServedOrTimed'
  BY <1>1 DEF Books, ServedOrTimed
<1>5. PointersAreLive'
  <2>1. ASSUME NEW b \in DOMAIN byAddr'
        PROVE  byAddr'[b] \in DOMAIN client' /\ peer'[byAddr'[b]] = b
    BY <1>1 DEF Books, PointersAreLive, MapType
  <2>2. ASSUME NEW h \in Host, NEW b \in DOMAIN byHost'[h]
        PROVE  byHost'[h][b] \in DOMAIN client' /\ peer'[byHost'[h][b]] = b
    <3>1. CASE h # HostOf[a]
      BY <1>1, <2>2, <3>1 DEF Books, PointersAreLive, MapType
    <3>2. CASE h = HostOf[a] /\ b = a
      BY <1>1, <3>2
    <3>3. CASE h = HostOf[a] /\ b # a
      <4>1. b \in DOMAIN byHost[h] /\ byHost'[h][b] = byHost[h][b]
        BY <1>1, <2>2, <3>3
      <4>2. byHost[h][b] \in DOMAIN client /\ peer[byHost[h][b]] = b
        BY <4>1 DEF Books, PointersAreLive
      <4> QED BY <1>1, <4>1, <4>2 DEF Books, MapType
    <3> QED BY <3>1, <3>2, <3>3
  <2>3. ASSUME NEW u \in DOMAIN byUser'
        PROVE  byUser'[u] \in DOMAIN client' /\ client'[byUser'[u]].user = u
    BY <1>1, <1>2 DEF Books, PointersAreLive, AuthorizationOnly
  <2> QED BY <2>1, <2>2, <2>3 DEF PointersAreLive
<1>6. AuthorizationOnly'
  BY <1>2 DEF Books, AuthorizationOnly
<1> QED BY <1>3, <1>4, <1>5, <1>6 DEF Books

LEMMA BooksUnchanged ==
    ASSUME Books, UNCHANGED bookVars
    PROVE  Books'
<1>1. /\ authEnabled' = authEnabled /\ state' = state /\ peer' = peer /\ unsent' = unsent
      /\ authMap' = authMap /\ client' = client /\ byAddr' = byAddr /\ byHost' = byHost
      /\ byUser' = byUser /\ last' = last
  BY DEF bookVars, maps
<1>2. MapType'
  BY <1>1 DEF Books, MapType
<1>3. ServedOrTimed'
  BY <1>1 DEF Books, ServedOrTimed
<1>4. PointersAreLive'
  BY <1>1 DEF Books, PointersAreLive
<1>5. AuthorizationOnly'
  BY <1>1 DEF Books, AuthorizationOnly
<1> QED BY <1>2, <1>3, <1>4, <1>5 DEF Books

LEMMA SwitchesUnchanged ==
    ASSUME SwitchType, UNCHANGED <<thread, listening, settings, lists, pending, counts>>
    PROVE  SwitchType'
BY DEF SwitchType, settings, lists, counts

\* A socket as it comes from the listening server, with its peer.
LEMMA ArrivesIs ==
    ASSUME TcpServerAssumption, TypeOK, Books, NEW s \in Socket, NEW a \in Addr, Arrives(s, a)
    PROVE  /\ SwitchType'
           /\ s \notin DOMAIN client /\ s \notin authMap
           /\ peer' \in [Socket -> Addr \cup {NoAddr}] /\ peer'[s] = a
           /\ \A t \in Socket \ {s} : peer'[t] = peer[t]
           /\ UNCHANGED <<authEnabled, allowAll, loginData, unsent, pending, byUser, last, mixed>>
<1>1. s \notin DOMAIN client /\ s \notin authMap
  BY DEF Arrives, Books, ServedOrTimed
<1>2. peer' = [peer EXCEPT ![s] = a] /\ accepted' = accepted + 1 /\ accepted < MaxAccepts
      /\ UNCHANGED <<thread, listening, authEnabled, allowAll, allowed, loginData>>
      /\ UNCHANGED <<unsent, pending, byUser, last, mixed>>
  BY DEF Arrives, settings, lists
<1>3. accepted' \in 0..MaxAccepts
  BY <1>2 DEF TypeOK, TcpServerAssumption
<1>4. SwitchType'
  BY <1>2, <1>3 DEF TypeOK, SwitchType
<1> QED BY <1>1, <1>2, <1>4 DEF TypeOK

LEMMA BooksStep ==
    ASSUME TcpServerAssumption, TypeOK, Books, [Next]_vars
    PROVE  SwitchType' /\ Books'
<1> USE DEF settings, lists, sockets, counts
<1>0. SwitchType /\ MapType
  BY TypeIs
<1>1. CASE UNCHANGED vars
  BY <1>0, <1>1, SwitchesUnchanged, BooksUnchanged DEF vars, bookVars
<1>2. CASE thread = "running" /\ Ending
  <2>1. PICK S, K : EndsTidily(S, K)
    BY <1>2, EndingIs
  <2>2. Ends(S, K)
    BY <2>1 DEF EndsTidily
  <2>3. Books'
    BY <2>2, BooksAfterEnds
  <2>4. pending' \in [Socket -> {"none", "begun", "inherited"}]
    BY <1>0, <2>1 DEF EndsTidily, Forget, SwitchType
  <2>5. SwitchType'
    BY <1>0, <2>1, <2>2, <2>4 DEF EndsTidily, Ends, SwitchType
  <2> QED BY <2>3, <2>5
<1>3. CASE openConnection
  BY <1>0, <1>3, BooksUnchanged DEF openConnection, bookVars, SwitchType
<1>4. ASSUME NEW h \in Host, addAllowedAddress(h)
      PROVE  SwitchType' /\ Books'
  BY <1>0, <1>4, BooksUnchanged DEF addAllowedAddress, bookVars, SwitchType
<1>5. ASSUME NEW l \in Login, addLoginData(l)
      PROVE  SwitchType' /\ Books'
  BY <1>0, <1>5, BooksUnchanged DEF addLoginData, bookVars, SwitchType
<1>6. ASSUME NEW s \in Socket, NEW a \in Addr, TurnAway(s, a)
      PROVE  SwitchType' /\ Books'
  <2>1. Arrives(s, a) /\ state' = [state EXCEPT ![s] = "dead"]
        /\ UNCHANGED <<authMap, client, byAddr, byHost>>
    BY <1>6 DEF TurnAway
  <2>2. /\ SwitchType' /\ s \notin DOMAIN client /\ s \notin authMap
        /\ peer' \in [Socket -> Addr \cup {NoAddr}] /\ peer'[s] = a
        /\ \A t \in Socket \ {s} : peer'[t] = peer[t]
        /\ UNCHANGED <<authEnabled, unsent, byUser, last>>
    BY <2>1, ArrivesIs
  <2>3. MapType'
    <3>1. state' \in [Socket -> {"free", "open", "left", "closing", "dead"}]
      BY <1>0, <2>1 DEF MapType
    <3>2. \A t \in Socket : peer'[t] = NoAddr <=> state'[t] = "free"
      BY <1>0, <2>1, <2>2 DEF MapType, TcpServerAssumption
    <3> QED BY <1>0, <2>1, <2>2, <3>1, <3>2 DEF MapType
  <2>4. ServedOrTimed'
    BY <2>1, <2>2 DEF Books, MapType, ServedOrTimed
  <2>5. PointersAreLive'
    BY <2>1, <2>2 DEF Books, MapType, PointersAreLive
  <2> QED BY <2>1, <2>2, <2>3, <2>4, <2>5 DEF Books, AuthorizationOnly
<1>7. ASSUME NEW s \in Socket, NEW a \in Addr, AwaitLogin(s, a)
      PROVE  SwitchType' /\ Books'
  <2>1. Arrives(s, a) /\ state' = [state EXCEPT ![s] = "open"] /\ authMap' = authMap \cup {s}
        /\ authEnabled /\ UNCHANGED <<client, byAddr, byHost>>
    BY <1>7 DEF AwaitLogin
  <2>2. /\ SwitchType' /\ s \notin DOMAIN client /\ s \notin authMap
        /\ peer' \in [Socket -> Addr \cup {NoAddr}] /\ peer'[s] = a
        /\ \A t \in Socket \ {s} : peer'[t] = peer[t]
        /\ UNCHANGED <<authEnabled, unsent, byUser, last>>
    BY <2>1, ArrivesIs
  <2>3. MapType'
    <3>1. state' \in [Socket -> {"free", "open", "left", "closing", "dead"}]
      BY <1>0, <2>1 DEF MapType
    <3>2. \A t \in Socket : peer'[t] = NoAddr <=> state'[t] = "free"
      BY <1>0, <2>1, <2>2 DEF MapType, TcpServerAssumption
    <3> QED BY <1>0, <2>1, <2>2, <3>1, <3>2 DEF MapType
  <2>4. ServedOrTimed'
    BY <2>1, <2>2 DEF Books, MapType, ServedOrTimed
  <2>5. PointersAreLive'
    BY <2>1, <2>2 DEF Books, MapType, PointersAreLive
  <2> QED BY <2>1, <2>2, <2>3, <2>4, <2>5 DEF Books, AuthorizationOnly
<1>8. ASSUME NEW s \in Socket, NEW a \in Addr, ServeAtOnce(s, a)
      PROVE  SwitchType' /\ Books'
  <2>1. Arrives(s, a) /\ state' = [state EXCEPT ![s] = "open"] /\ ~authEnabled
        /\ AddClient(s, a, NoLogin) /\ authMap' = authMap
    BY <1>8 DEF ServeAtOnce
  <2>2. /\ SwitchType' /\ s \notin DOMAIN client /\ s \notin authMap
        /\ peer' \in [Socket -> Addr \cup {NoAddr}] /\ peer'[s] = a
        /\ \A t \in Socket \ {s} : peer'[t] = peer[t]
        /\ UNCHANGED <<authEnabled, unsent, byUser, last>>
    BY <2>1, ArrivesIs
  <2>3. /\ state' \in [Socket -> {"free", "open", "left", "closing", "dead"}]
        /\ state'[s] = "open" /\ \A t \in Socket \ {s} : state'[t] = state[t]
    BY <1>0, <2>1 DEF MapType
  <2>4. authMap' = authMap \ {s}
    BY <2>1, <2>2
  <2>5. Books'
    BY <2>1, <2>2, <2>3, <2>4, BooksAfterAddClient
  <2> QED BY <2>2, <2>5
<1>9. ASSUME NEW s \in Socket, PeerLeaves(s)
      PROVE  SwitchType' /\ Books'
  <2>1. /\ state[s] = "open" /\ state' = [state EXCEPT ![s] = "left"]
        /\ UNCHANGED <<thread, listening, authEnabled, allowAll, allowed, loginData, counts>>
        /\ UNCHANGED <<peer, unsent, pending, authMap, client, byAddr, byHost, byUser, last>>
    BY <1>9 DEF PeerLeaves, maps
  <2>2. MapType'
    BY <1>0, <2>1 DEF MapType
  <2>3. ServedOrTimed'
    BY <1>0, <2>1 DEF Books, MapType, ServedOrTimed
  <2>4. PointersAreLive' /\ AuthorizationOnly'
    BY <2>1 DEF Books, PointersAreLive, AuthorizationOnly
  <2> QED BY <1>0, <2>1, <2>2, <2>3, <2>4, SwitchesUnchanged DEF Books
<1>10. ASSUME NEW s \in Socket, Flush(s)
       PROVE  SwitchType' /\ Books'
  <2>1. /\ unsent' = unsent \ {s}
        /\ UNCHANGED <<thread, listening, authEnabled, allowAll, allowed, loginData, counts>>
        /\ UNCHANGED <<peer, state, pending, authMap, client, byAddr, byHost, byUser, last>>
    BY <1>10 DEF Flush, maps
  <2>2. MapType'
    BY <1>0, <2>1 DEF MapType
  <2>3. ServedOrTimed' /\ PointersAreLive' /\ AuthorizationOnly'
    BY <2>1 DEF Books, ServedOrTimed, PointersAreLive, AuthorizationOnly
  <2> QED BY <1>0, <2>1, <2>2, <2>3, SwitchesUnchanged DEF Books
<1>11. ASSUME NEW s \in Socket, Delete(s)
       PROVE  SwitchType' /\ Books'
  <2>1. /\ state[s] = "dead" /\ state' = [state EXCEPT ![s] = "free"]
        /\ peer' = [peer EXCEPT ![s] = NoAddr]
        /\ pending' = [pending EXCEPT ![s] = IF pending[s] = "none" THEN "none" ELSE "inherited"]
        /\ UNCHANGED <<thread, listening, authEnabled, allowAll, allowed, loginData, counts>>
        /\ UNCHANGED <<unsent, authMap, client, byAddr, byHost, byUser, last>>
    BY <1>11 DEF Delete, maps
  <2>2. s \notin DOMAIN client /\ s \notin authMap
    BY <2>1 DEF Books, ServedOrTimed
  <2>3. MapType'
    BY <1>0, <2>1 DEF MapType
  <2>4. ServedOrTimed'
    BY <1>0, <2>1, <2>2 DEF Books, MapType, ServedOrTimed
  <2>5. PointersAreLive' /\ AuthorizationOnly'
    BY <1>0, <2>1, <2>2 DEF Books, MapType, PointersAreLive, AuthorizationOnly
  <2>6. SwitchType'
    BY <1>0, <2>1 DEF SwitchType
  <2> QED BY <2>3, <2>4, <2>5, <2>6 DEF Books
<1>12. ASSUME NEW s \in Socket, ReadPart(s)
       PROVE  SwitchType' /\ Books'
  <2>1. SwitchType'
    BY <1>0, <1>12 DEF ReadPart, SwitchType
  <2> QED BY <1>12, <2>1, BooksUnchanged DEF ReadPart, bookVars
<1>13. ASSUME NEW s \in Socket, AcceptLogin(s)
       PROVE  SwitchType' /\ Books'
  <2>1. PICK l \in Claims(s) \ Refused(s) :
            AddClient(s, peer[s], l) /\ byUser' = With(byUser, l.user, s)
    BY <1>13 DEF AcceptLogin
  <2>2. /\ Live(s) /\ s \in authMap /\ authMap' = authMap \ {s} /\ Finish(s)
        /\ UNCHANGED <<thread, listening, authEnabled, allowAll, allowed, loginData, accepted>>
        /\ UNCHANGED <<state, peer, unsent, last>>
        /\ mixed' \subseteq mixed \cup {peer[s]}
    BY <1>13 DEF AcceptLogin, StopTimer
  <2>3. /\ s \in Socket \ DOMAIN client /\ peer[s] \in Addr /\ authEnabled
        /\ state[s] \in {"open", "left"}
    BY <1>0, <2>2, KnownSockets DEF Books, ServedOrTimed, AuthorizationOnly, Live, Known
  <2>4. l \in Login
    BY <2>1 DEF Claims, Refused
  <2>5. Books'
    BY <1>0, <2>1, <2>2, <2>3, <2>4, BooksAfterAddClient DEF MapType
  <2>6. pending' \in [Socket -> {"none", "begun", "inherited"}]
    BY <1>0, <2>2 DEF Finish, Forget, SwitchType
  <2>7. SwitchType'
    BY <1>0, <2>2, <2>3, <2>6 DEF SwitchType
  <2> QED BY <2>5, <2>7
<1>14. ASSUME NEW s \in Socket, ReadRequest(s)
       PROVE  SwitchType' /\ Books'
  <2>1. /\ Live(s) /\ last' = Post("message", {peer[s]})
        /\ Finish(s)
        /\ UNCHANGED <<thread, listening, authEnabled, allowAll, allowed, loginData, counts>>
        /\ UNCHANGED <<state, peer, unsent, authMap, client, byAddr, byHost, byUser>>
    BY <1>14 DEF ReadRequest, maps
  <2>2. last'.kind = "message" /\ last'.peers \subseteq Addr
    BY <2>1, KnownSockets DEF Books, Post
  <2>3. MapType'
    BY <1>0, <2>1, <2>2 DEF MapType
  <2>4. ServedOrTimed' /\ PointersAreLive' /\ AuthorizationOnly'
    BY <2>1 DEF Books, ServedOrTimed, PointersAreLive, AuthorizationOnly
  <2>5. pending' \in [Socket -> {"none", "begun", "inherited"}]
    BY <1>0, <2>1 DEF Finish, Forget, SwitchType
  <2>6. SwitchType'
    BY <1>0, <2>1, <2>5 DEF SwitchType
  <2> QED BY <2>3, <2>4, <2>6 DEF Books
<1>15. ASSUME NEW s \in Socket, sendMessageTo(s), ~Abort({s})
       PROVE  SwitchType' /\ Books'
  <2>1. /\ s \in {byAddr[a] : a \in DOMAIN byAddr} \cup {byUser[u] : u \in DOMAIN byUser}
        /\ unsent' = unsent \cup {s}
        /\ UNCHANGED <<thread, listening, authEnabled, allowAll, allowed, loginData, counts>>
        /\ UNCHANGED <<peer, state, pending, authMap, client, byAddr, byHost, byUser, last>>
    BY <1>15 DEF sendMessageTo, maps
  <2>2. s \in DOMAIN client
    BY <2>1 DEF Books, PointersAreLive
  <2>3. MapType'
    BY <1>0, <2>1, <2>2 DEF MapType
  <2>4. ServedOrTimed' /\ PointersAreLive' /\ AuthorizationOnly'
    BY <2>1 DEF Books, ServedOrTimed, PointersAreLive, AuthorizationOnly
  <2> QED BY <1>0, <2>1, <2>3, <2>4, SwitchesUnchanged DEF Books
<1> QED BY <1>1, <1>2, <1>3, <1>4, <1>5, <1>6, <1>7, <1>8, <1>9, <1>10, <1>11, <1>12,
           <1>13, <1>14, <1>15 DEF Next, Call, Step, Ending

\* TcpServer's maps lead to sockets it serves and to the right ones, every
\* connection is served or has a timer, and all of it has its type.
THEOREM TcpServerIsConsistent ==
    TcpServerAssumption => (Spec => [](TypeOK /\ ServedOrTimed /\ PointersAreLive /\ AuthorizationOnly))
<1> SUFFICES ASSUME TcpServerAssumption
             PROVE  Spec => [](TypeOK /\ ServedOrTimed /\ PointersAreLive /\ AuthorizationOnly)
  OBVIOUS
<1>1. Init => TypeOK /\ Books
  <2> SUFFICES ASSUME Init PROVE SwitchType /\ Books
    BY TypeIs DEF Books
  <2>1. SwitchType
    <3>1. pending \in [Socket -> {"none", "begun", "inherited"}]
      BY DEF Init
    <3>2. accepted \in 0..MaxAccepts
      BY DEF Init, TcpServerAssumption
    <3> QED BY <3>1, <3>2 DEF Init, SwitchType
  <2>2. MapType
    BY DEF Init, MapType, Nothing, Post
  <2>3. ServedOrTimed /\ PointersAreLive /\ AuthorizationOnly
    BY DEF Init, ServedOrTimed, PointersAreLive, AuthorizationOnly, Nothing
  <2> QED BY <2>1, <2>2, <2>3 DEF Books
<1>2. TypeOK /\ Books /\ [Next]_vars => TypeOK' /\ Books'
  <2> SUFFICES ASSUME TypeOK, Books, [Next]_vars PROVE TypeOK' /\ Books'
    OBVIOUS
  <2>1. SwitchType' /\ Books'
    BY BooksStep
  <2> QED BY <2>1 DEF Books, TypeOK, SwitchType, MapType
<1>3. TypeOK /\ Books => TypeOK /\ ServedOrTimed /\ PointersAreLive /\ AuthorizationOnly
  BY DEF Books
<1> QED BY <1>1, <1>2, <1>3, PTL DEF Spec

LEMMA BooksAre ==
    ASSUME TypeOK, ServedOrTimed, PointersAreLive, AuthorizationOnly
    PROVE  Books
BY TypeIs DEF Books

-----------------------------------------------------------------------------
(* What a step is to the clients: the end of some, the beginning of one, or *)
(* neither.                                                                 *)

Quiet ==
    /\ UNCHANGED <<authEnabled, client, byAddr, byHost, byUser, mixed>>
    /\ \A s \in DOMAIN client : peer'[s] = peer[s]
    /\ loginData \subseteq loginData'
    /\ last' = last \/ \E s \in DOMAIN client : last' = Post("message", {peer[s]})
    /\ \A s \in Socket : \/ pending'[s] = pending[s] \/ pending'[s] = "none"
                         \/ pending'[s] = "begun" /\ s \in Known
                         \/ pending'[s] = "inherited" /\ pending[s] # "none" /\ s \notin DOMAIN client

LEMMA StepIs ==
    ASSUME TcpServerAssumption, TypeOK, Books, [Next]_vars
    PROVE  \/ Quiet
           \/ \E S, K : EndsTidily(S, K)
           \/ \E s \in Socket, a \in Addr : ServeAtOnce(s, a)
           \/ \E s \in Socket : AcceptLogin(s)
<1> USE DEF settings, lists, sockets, maps, counts
<1>1. CASE UNCHANGED vars
  BY <1>1 DEF vars, Quiet
<1>2. CASE thread = "running" /\ Ending
  BY <1>2, EndingIs
<1>3. CASE openConnection \/ (\E h \in Host : addAllowedAddress(h)) \/ \E l \in Login : addLoginData(l)
  BY <1>3 DEF openConnection, addAllowedAddress, addLoginData, Quiet
<1>4. ASSUME NEW s \in Socket, NEW a \in Addr, TurnAway(s, a) \/ AwaitLogin(s, a)
      PROVE  Quiet
  <2>1. Arrives(s, a) /\ UNCHANGED <<client, byAddr, byHost>>
    BY <1>4 DEF TurnAway, AwaitLogin
  <2>2. /\ s \notin DOMAIN client
        /\ \A t \in Socket \ {s} : peer'[t] = peer[t]
        /\ UNCHANGED <<authEnabled, loginData, byUser, last, pending, mixed>>
    BY <2>1, ArrivesIs
  <2> QED BY <2>1, <2>2 DEF Quiet, TypeOK
<1>5. ASSUME NEW s \in Socket, PeerLeaves(s) \/ Flush(s) \/ ReadPart(s)
      PROVE  Quiet
  <2>1. CASE PeerLeaves(s) \/ Flush(s)
    BY <2>1 DEF PeerLeaves, Flush, Quiet
  <2>2. CASE ReadPart(s)
    <3>1. s \in Known
      BY <2>2, KnownSockets DEF ReadPart, Books
    <3> QED BY <2>2, <3>1 DEF ReadPart, Quiet, TypeOK
  <2> QED BY <1>5, <2>1, <2>2
<1>6. ASSUME NEW s \in Socket, Delete(s)
      PROVE  Quiet
  <2>1. s \notin DOMAIN client
    BY <1>6 DEF Delete, Books, ServedOrTimed
  <2> QED BY <1>6, <2>1 DEF Delete, Quiet, TypeOK
<1>7. ASSUME NEW s \in Socket, ReadRequest(s)
      PROVE  Quiet
  <2>1. s \in DOMAIN client
    BY <1>7, KnownSockets DEF ReadRequest, Books, Known
  <2> QED BY <1>7, <2>1 DEF ReadRequest, Finish, Forget, Quiet
<1>8. ASSUME NEW s \in Socket, sendMessageTo(s), ~Abort({s})
      PROVE  Quiet
  BY <1>8 DEF sendMessageTo, Quiet
<1> QED BY <1>1, <1>2, <1>3, <1>4, <1>5, <1>6, <1>7, <1>8 DEF Next, Call, Step, Ending

-----------------------------------------------------------------------------
(* Clients with a name.                                                     *)

\* From an address of which no message was mixed up, nobody logs in with another's
\* name (UserOf): a new connection from there is refused while the old one is served.
NamesAreOwn ==
    authEnabled =>
        \A s \in DOMAIN client : peer[s] \notin mixed => client[s].user = UserOf[peer[s]]

Found == EveryClientIsFound /\ NamesAreOwn

\* A login that is accepted is one of a user not served so far and, unless it began
\* with another's message, of a peer not served so far.
LEMMA AcceptedIsNew ==
    ASSUME TcpServerAssumption, TypeOK, Books, Found, NEW s \in Socket, AcceptLogin(s)
    PROVE  \E l \in Login :
              /\ Entered(s, peer[s], l) /\ byUser' = With(byUser, l.user, s)
              /\ l \in loginData /\ l.user \notin DOMAIN byUser
              /\ s \notin DOMAIN client /\ peer[s] \in Addr /\ authEnabled
              /\ mixed \subseteq mixed' /\ mixed' \subseteq mixed \cup {peer[s]}
              /\ pending[s] = "inherited" => peer[s] \in mixed'
              /\ peer[s] \notin mixed' =>
                    /\ l.user = UserOf[peer[s]]
                    /\ \A t \in DOMAIN client : peer[t] # peer[s]
<1>1. PICK l \in Claims(s) \ Refused(s) :
          AddClient(s, peer[s], l) /\ byUser' = With(byUser, l.user, s)
  BY DEF AcceptLogin
<1>2. /\ l \in Login /\ l \in loginData /\ l.user \notin DOMAIN byUser
      /\ pending[s] # "inherited" => l.user = UserOf[peer[s]]
  BY <1>1 DEF Claims, Refused
<1>3. s \in Socket \ DOMAIN client /\ peer[s] \in Addr /\ authEnabled
  BY KnownSockets DEF AcceptLogin, Books, ServedOrTimed, AuthorizationOnly, Known
<1>4. Entered(s, peer[s], l)
  BY <1>1, <1>3, AddClientIs
<1>5. mixed' = IF pending[s] = "inherited" THEN mixed \cup {peer[s]} ELSE mixed
  BY DEF AcceptLogin
<1>6. ASSUME peer[s] \notin mixed', NEW t \in DOMAIN client, peer[t] = peer[s]
      PROVE  FALSE
  <2>1. pending[s] # "inherited" /\ peer[t] \notin mixed
    BY <1>5, <1>6
  <2>2. client[t].user = UserOf[peer[s]] /\ client[t].user \in DOMAIN byUser
    BY <1>3, <1>6, <2>1 DEF Found, NamesAreOwn, EveryClientIsFound
  <2> QED BY <1>2, <2>1, <2>2
<1>7. peer[s] \notin mixed' => l.user = UserOf[peer[s]]
  BY <1>2, <1>5
<1> QED BY <1>1, <1>2, <1>3, <1>4, <1>5, <1>6, <1>7

\* The clients that go are the ones whose entries go: no two share a name, or an
\* address of which no message was mixed up.
LEMMA EndedPeers ==
    ASSUME TcpServerAssumption, TypeOK, Books, Found, authEnabled, NEW S,
           NEW s \in DOMAIN client
    PROVE  /\ peer[s] \notin mixed => (peer[s] \in PeersOf(S) <=> s \in S)
           /\ client[s].user \in UsersOf(S \cap DOMAIN client) <=> s \in S
BY DEF PeersOf, UsersOf, Found, EveryClientIsFound

LEMMA FoundStep ==
    ASSUME TcpServerAssumption, TypeOK, Books, Found, [Next]_vars
    PROVE  Found'
<1>1. CASE Quiet
  BY <1>1 DEF Quiet, Found, EveryClientIsFound, NamesAreOwn
<1>2. ASSUME NEW S, NEW K, EndsTidily(S, K)
      PROVE  Found'
  <2>0. Disconnected(S, K)
    BY <1>2, EndsIs DEF EndsTidily
  <2>1. /\ peer' = peer /\ authEnabled' = authEnabled /\ mixed' = mixed
        /\ DOMAIN client' = DOMAIN client \ S
        /\ \A s \in DOMAIN client' : client'[s] = client[s]
        /\ DOMAIN byAddr' = DOMAIN byAddr \ PeersOf(S)
        /\ \A a \in DOMAIN byAddr' : byAddr'[a] = byAddr[a]
        /\ \A h \in Host : /\ DOMAIN byHost'[h] = DOMAIN byHost[h] \ PeersOf(S)
                           /\ \A a \in DOMAIN byHost'[h] : byHost'[h][a] = byHost[h][a]
        /\ DOMAIN byUser' = DOMAIN byUser \ UsersOf(S \cap DOMAIN client)
        /\ \A u \in DOMAIN byUser' : byUser'[u] = byUser[u]
    BY <1>2, <2>0 DEF Disconnected, EndsTidily, counts
  <2>2. ASSUME authEnabled, NEW s \in DOMAIN client'
        PROVE  client[s].user \in DOMAIN byUser' /\ byUser'[client[s].user] = s
    <3>1. s \in DOMAIN client /\ s \notin S
      BY <2>1, <2>2
    <3>2. client[s].user \notin UsersOf(S \cap DOMAIN client)
      BY <2>2, <3>1, EndedPeers
    <3>3. client[s].user \in DOMAIN byUser /\ byUser[client[s].user] = s
      BY <2>2, <3>1 DEF Found, EveryClientIsFound
    <3> QED BY <2>1, <3>2, <3>3
  <2>3. ASSUME authEnabled, NEW s \in DOMAIN client', peer[s] \notin mixed
        PROVE  /\ peer[s] \in DOMAIN byAddr' /\ byAddr'[peer[s]] = s
               /\ peer[s] \in DOMAIN byHost'[HostOf[peer[s]]]
               /\ byHost'[HostOf[peer[s]]][peer[s]] = s
               /\ client[s].user = UserOf[peer[s]]
    <3>1. s \in DOMAIN client /\ s \notin S /\ s \in Known
      BY <2>1, <2>3 DEF Known
    <3>2. peer[s] \notin PeersOf(S)
      BY <2>3, <3>1, EndedPeers
    <3>3. HostOf[peer[s]] \in Host
      BY <3>1, KnownSockets DEF Books, TcpServerAssumption
    <3>4. /\ peer[s] \in DOMAIN byAddr /\ byAddr[peer[s]] = s
          /\ peer[s] \in DOMAIN byHost[HostOf[peer[s]]]
          /\ byHost[HostOf[peer[s]]][peer[s]] = s
          /\ client[s].user = UserOf[peer[s]]
      BY <2>3, <3>1 DEF Found, EveryClientIsFound, NamesAreOwn
    <3>5. peer[s] \in DOMAIN byAddr' /\ byAddr'[peer[s]] = s
      BY <2>1, <3>2, <3>4
    <3>6. peer[s] \in DOMAIN byHost'[HostOf[peer[s]]] /\ byHost'[HostOf[peer[s]]][peer[s]] = s
      BY <2>1, <3>2, <3>3, <3>4
    <3> QED BY <3>4, <3>5, <3>6
  <2> QED BY <2>1, <2>2, <2>3 DEF Found, EveryClientIsFound, NamesAreOwn
<1>3. ASSUME NEW s \in Socket, NEW a \in Addr, ServeAtOnce(s, a)
      PROVE  Found'
  BY <1>3, ArrivesIs DEF ServeAtOnce, Found, EveryClientIsFound, NamesAreOwn
<1>4. ASSUME NEW s \in Socket, AcceptLogin(s)
      PROVE  Found'
  <2> DEFINE a == peer[s]
  <2>1. PICK l \in Login :
              /\ Entered(s, a, l) /\ byUser' = With(byUser, l.user, s)
              /\ l.user \notin DOMAIN byUser
              /\ s \notin DOMAIN client /\ a \in Addr /\ authEnabled
              /\ mixed \subseteq mixed'
              /\ a \notin mixed' =>
                    /\ l.user = UserOf[a]
                    /\ \A t \in DOMAIN client : peer[t] # a
    BY <1>4, AcceptedIsNew
  <2>2. peer' = peer /\ authEnabled' = authEnabled
    BY <1>4 DEF AcceptLogin, settings
  <2> HIDE DEF a
  <2>3. /\ DOMAIN client' = DOMAIN client \cup {s} /\ client'[s] = l
        /\ \A t \in DOMAIN client : client'[t] = client[t]
        /\ DOMAIN byAddr' = DOMAIN byAddr \cup {a} /\ byAddr'[a] = s
        /\ \A b \in DOMAIN byAddr \ {a} : byAddr'[b] = byAddr[b]
        /\ DOMAIN byHost'[HostOf[a]] = DOMAIN byHost[HostOf[a]] \cup {a}
        /\ byHost'[HostOf[a]][a] = s
        /\ \A b \in DOMAIN byHost[HostOf[a]] \ {a} :
               byHost'[HostOf[a]][b] = byHost[HostOf[a]][b]
        /\ \A h \in Host \ {HostOf[a]} : byHost'[h] = byHost[h]
    BY <2>1 DEF Entered
  <2>4. /\ DOMAIN byUser' = DOMAIN byUser \cup {l.user} /\ byUser'[l.user] = s
        /\ \A u \in DOMAIN byUser \ {l.user} : byUser'[u] = byUser[u]
    BY <2>1 DEF With
  <2>5. ASSUME NEW t \in DOMAIN client
        PROVE  client[t].user \in DOMAIN byUser' /\ byUser'[client[t].user] = t
    <3>1. client[t].user \in DOMAIN byUser /\ byUser[client[t].user] = t
      BY <2>1, <2>5 DEF Found, EveryClientIsFound
    <3> QED BY <2>1, <2>4, <3>1
  <2>6. ASSUME NEW t \in DOMAIN client, peer[t] \notin mixed'
        PROVE  /\ peer[t] \in DOMAIN byAddr' /\ byAddr'[peer[t]] = t
               /\ peer[t] \in DOMAIN byHost'[HostOf[peer[t]]]
               /\ byHost'[HostOf[peer[t]]][peer[t]] = t
               /\ client[t].user = UserOf[peer[t]]
    <3>1. peer[t] \notin mixed /\ peer[t] # a
      BY <2>1, <2>6
    <3>2. /\ peer[t] \in DOMAIN byAddr /\ byAddr[peer[t]] = t
          /\ peer[t] \in DOMAIN byHost[HostOf[peer[t]]]
          /\ byHost[HostOf[peer[t]]][peer[t]] = t
          /\ client[t].user = UserOf[peer[t]]
      BY <2>1, <2>6, <3>1 DEF Found, EveryClientIsFound, NamesAreOwn
    <3>3. HostOf[peer[t]] \in Host
      BY <2>6, KnownSockets DEF Books, TcpServerAssumption, Known
    <3>4. CASE HostOf[peer[t]] = HostOf[a]
      BY <2>3, <3>1, <3>2, <3>4
    <3>5. CASE HostOf[peer[t]] # HostOf[a]
      BY <2>3, <3>1, <3>2, <3>3, <3>5
    <3> QED BY <3>4, <3>5
  <2>7. EveryClientIsFound'
    <3>1. ASSUME NEW t \in DOMAIN client'
          PROVE  /\ client'[t].user \in DOMAIN byUser' /\ byUser'[client'[t].user] = t
                 /\ peer[t] \notin mixed' =>
                       /\ peer[t] \in DOMAIN byAddr' /\ byAddr'[peer[t]] = t
                       /\ peer[t] \in DOMAIN byHost'[HostOf[peer[t]]]
                       /\ byHost'[HostOf[peer[t]]][peer[t]] = t
      <4>1. CASE t = s
        BY <2>3, <2>4, <4>1 DEF a
      <4>2. CASE t # s
        <5>1. t \in DOMAIN client /\ client'[t] = client[t]
          BY <2>3, <3>1, <4>2
        <5> QED BY <2>5, <2>6, <5>1
      <4> QED BY <4>1, <4>2
    <3> QED BY <2>2, <3>1 DEF EveryClientIsFound
  <2>8. NamesAreOwn'
    BY <2>1, <2>2, <2>3, <2>6 DEF NamesAreOwn, a
  <2> QED BY <2>7, <2>8 DEF Found
<1> QED BY <1>1, <1>2, <1>3, <1>4, StepIs

LEMMA CredentialsStep ==
    ASSUME TcpServerAssumption, TypeOK, Books, Found, CredentialsHold, [Next]_vars
    PROVE  CredentialsHold'
<1>1. CASE Quiet
  BY <1>1 DEF Quiet, CredentialsHold
<1>2. ASSUME NEW S, NEW K, EndsTidily(S, K)
      PROVE  CredentialsHold'
  <2>0. Disconnected(S, K)
    BY <1>2, EndsIs DEF EndsTidily
  <2>1. /\ authEnabled' = authEnabled
        /\ DOMAIN client' = DOMAIN client \ S
        /\ \A s \in DOMAIN client' : client'[s] = client[s]
    BY <2>0 DEF Disconnected
  <2>2. CASE loginData' = loginData
    BY <2>1, <2>2 DEF CredentialsHold
  <2>3. ASSUME NEW l \in Login, loginData' = loginData \ {l},
               \A u \in {l.user} \cap DOMAIN byUser : byUser[u] \in S
        PROVE  CredentialsHold'
    <3>1. ASSUME authEnabled, NEW s \in DOMAIN client'
          PROVE  client'[s] \in loginData'
      <4>1. s \in DOMAIN client /\ s \notin S /\ client'[s] = client[s] /\ client[s] \in loginData
        BY <2>1, <3>1 DEF CredentialsHold
      <4>2. client[s].user \in DOMAIN byUser /\ byUser[client[s].user] = s
        BY <3>1, <4>1 DEF Found, EveryClientIsFound
      <4>3. client[s] # l
        BY <2>3, <4>1, <4>2
      <4> QED BY <2>3, <4>1, <4>3
    <3> QED BY <2>1, <3>1 DEF CredentialsHold
  <2> QED BY <1>2, <2>2, <2>3 DEF EndsTidily
<1>3. ASSUME NEW s \in Socket, NEW a \in Addr, ServeAtOnce(s, a)
      PROVE  CredentialsHold'
  BY <1>3, ArrivesIs DEF ServeAtOnce, CredentialsHold
<1>4. ASSUME NEW s \in Socket, AcceptLogin(s)
      PROVE  CredentialsHold'
  <2>1. PICK l \in Login : Entered(s, peer[s], l) /\ l \in loginData
    BY <1>4, AcceptedIsNew
  <2>2. authEnabled' = authEnabled /\ loginData' = loginData
    BY <1>4 DEF AcceptLogin, settings, lists
  <2>3. /\ DOMAIN client' = DOMAIN client \cup {s} /\ client'[s] = l
        /\ \A t \in DOMAIN client : client'[t] = client[t]
    BY <2>1 DEF Entered
  <2> QED BY <2>1, <2>2, <2>3 DEF CredentialsHold
<1> QED BY <1>1, <1>2, <1>3, <1>4, StepIs

\* Without authorization every connection is a client's from the start, and its
\* message in progress goes with it.
ReadInStep ==
    /\ ClientsAreReadInStep
    /\ ~authEnabled => \A s \in Socket : pending[s] # "none" => s \in DOMAIN client

LEMMA ReadInStepStep ==
    ASSUME TcpServerAssumption, TypeOK, Books, Found, ReadInStep, [Next]_vars
    PROVE  ReadInStep'
<1>0. DOMAIN client \subseteq Socket /\ (~authEnabled => Known = DOMAIN client)
  BY DEF TypeOK, Books, AuthorizationOnly, Known
<1>1. CASE Quiet
  BY <1>0, <1>1 DEF Quiet, ReadInStep, ClientsAreReadInStep
<1>2. ASSUME NEW S, NEW K, EndsTidily(S, K)
      PROVE  ReadInStep'
  <2>0. Disconnected(S, K)
    BY <1>2, EndsIs DEF EndsTidily
  <2>1. authEnabled' = authEnabled /\ DOMAIN client' = DOMAIN client \ S /\ peer' = peer
        /\ mixed' = mixed
    BY <1>2, <2>0 DEF Disconnected, EndsTidily, counts
  <2>2. PICK T \in SUBSET Socket : S \cap DOMAIN client \subseteq T /\ Forget(T)
    BY <1>2 DEF EndsTidily
  <2>3. \A s \in Socket : pending'[s] = IF s \in T THEN "none" ELSE pending[s]
    BY <2>2 DEF Forget
  <2> QED BY <1>0, <2>1, <2>2, <2>3 DEF ReadInStep, ClientsAreReadInStep
<1>3. ASSUME NEW s \in Socket, NEW a \in Addr, ServeAtOnce(s, a)
      PROVE  ReadInStep'
  <2>1. Arrives(s, a) /\ ~authEnabled /\ client' = With(client, s, NoLogin)
    BY <1>3 DEF ServeAtOnce, AddClient
  <2>2. s \notin DOMAIN client /\ pending' = pending /\ authEnabled' = authEnabled
    BY <2>1, ArrivesIs
  <2>3. DOMAIN client' = DOMAIN client \cup {s}
    BY <2>1 DEF With
  <2> QED BY <1>0, <2>1, <2>2, <2>3 DEF ReadInStep, ClientsAreReadInStep
<1>4. ASSUME NEW s \in Socket, AcceptLogin(s)
      PROVE  ReadInStep'
  <2>1. /\ \E l \in Login : Entered(s, peer[s], l)
        /\ authEnabled /\ mixed \subseteq mixed'
        /\ pending[s] = "inherited" => peer[s] \in mixed'
    BY <1>4, AcceptedIsNew
  <2>2. DOMAIN client' = DOMAIN client \cup {s}
    BY <2>1 DEF Entered
  <2>3. authEnabled' = authEnabled /\ peer' = peer /\ Finish(s)
    BY <1>4 DEF AcceptLogin, settings
  <2>4. \A t \in Socket : pending'[t] = "inherited" => pending[t] = "inherited"
    BY <2>3 DEF Finish, Forget
  <2> QED BY <1>0, <2>1, <2>2, <2>3, <2>4 DEF ReadInStep, ClientsAreReadInStep
<1> QED BY <1>1, <1>2, <1>3, <1>4, StepIs

\* All there is to be known of clients: where the maps lead, what they were
\* served on, and what is read from them.
Clients == Books /\ Found /\ CredentialsHold /\ ReadInStep

LEMMA ClientsInvariant == TcpServerAssumption => (Spec => [](TypeOK /\ Clients))
<1> SUFFICES ASSUME TcpServerAssumption PROVE Spec => [](TypeOK /\ Clients)
  OBVIOUS
<1> DEFINE Rest == Found /\ CredentialsHold /\ ReadInStep
           Basis == TypeOK /\ ServedOrTimed /\ PointersAreLive /\ AuthorizationOnly
<1>1. Init => Rest
  BY DEF Init, Nothing, Found, EveryClientIsFound, NamesAreOwn, CredentialsHold, ReadInStep,
         ClientsAreReadInStep
<1>2. Basis /\ Rest /\ [Next]_vars => Rest'
  BY BooksAre, FoundStep, CredentialsStep, ReadInStepStep
<1>3. Spec => []Basis
  BY TcpServerIsConsistent
<1>4. Basis /\ Rest => TypeOK /\ Clients
  BY BooksAre DEF Clients
<1> HIDE DEF Basis, Rest
<1> QED BY <1>1, <1>2, <1>3, <1>4, PTL DEF Spec

\* Type correctness of the server and its maps.
THEOREM TcpTypeCorrect == TcpServerAssumption => (Spec => []TypeOK)
<1> SUFFICES ASSUME TcpServerAssumption PROVE Spec => []TypeOK
  OBVIOUS
<1> QED BY TcpServerIsConsistent, PTL

\* The three maps of raw ClientData pointers, by address, by host and by user name,
\* lead to clients that are still there, and to the ones looked up.
THEOREM NoDanglingPointers == TcpServerAssumption => (Spec => []PointersAreLive)
<1> SUFFICES ASSUME TcpServerAssumption PROVE Spec => []PointersAreLive
  OBVIOUS
<1> QED BY TcpServerIsConsistent, PTL

\* A connection is a client or has its login timer, never both and never none.
THEOREM NoConnectionIsForgotten == TcpServerAssumption => (Spec => []ServedOrTimed)
<1> SUFFICES ASSUME TcpServerAssumption PROVE Spec => []ServedOrTimed
  OBVIOUS
<1> QED BY TcpServerIsConsistent, PTL

\* With authorization every client is entered under its name, and under its address
\* and host too unless somebody at that address was served on another's message.
THEOREM EveryClientIsEntered == TcpServerAssumption => (Spec => []EveryClientIsFound)
<1> SUFFICES ASSUME TcpServerAssumption PROVE Spec => []EveryClientIsFound
  OBVIOUS
<1>1. Clients => EveryClientIsFound
  BY DEF Clients, Found
<1> QED BY <1>1, ClientsInvariant, PTL

\* With authorization nobody is served on login data that has been taken back.
THEOREM NobodyOutlivesCredentials == TcpServerAssumption => (Spec => []CredentialsHold)
<1> SUFFICES ASSUME TcpServerAssumption PROVE Spec => []CredentialsHold
  OBVIOUS
<1>1. Clients => CredentialsHold
  BY DEF Clients
<1> QED BY <1>1, ClientsInvariant, PTL

\* Though m_pendingMsgBySocket outlives sockets that never logged in, a client is
\* read out of step only with authorization, and only after a login that another
\* socket's message had begun was accepted from its address.
THEOREM NoMixedMessages == TcpServerAssumption => (Spec => []ClientsAreReadInStep)
<1> SUFFICES ASSUME TcpServerAssumption PROVE Spec => []ClientsAreReadInStep
  OBVIOUS
<1>1. Clients => ClientsAreReadInStep
  BY DEF Clients, ReadInStep
<1> QED BY <1>1, ClientsInvariant, PTL

-----------------------------------------------------------------------------
(* TcpServer implements Sessions.                                           *)

LEMMA SessionsStep ==
    ASSUME TcpServerAssumption, TypeOK, Clients, [Next]_vars, mixed' = {}
    PROVE  [Main!Next]_(Main!vars)
<1> DEFINE peers == {peer[s] : s \in DOMAIN client}
<1>0. Books /\ Found
  BY DEF Clients
<1>1. CASE Quiet
  <2>1. peers' = peers /\ authEnabled' = authEnabled
    BY <1>1 DEF Quiet
  <2>2. CASE last' = last \/ ~authEnabled
    BY <2>1, <2>2 DEF Main!vars
  <2>3. ASSUME authEnabled, NEW s \in DOMAIN client, last' = Post("message", {peer[s]})
        PROVE  Main!Message(peer[s]) /\ peer[s] \in Addr
    <3>1. peer[s] \in Addr
      BY <1>0, KnownSockets DEF Books, Known
    <3> QED BY <2>1, <2>3, <3>1 DEF Main!Message, Main!Post, Post
  <2> QED BY <1>1, <2>2, <2>3 DEF Quiet, Main!Next
<1>2. ASSUME NEW S, NEW K, EndsTidily(S, K)
      PROVE  [Main!Next]_(Main!vars)
  <2>0. Disconnected(S, K) /\ mixed = {}
    BY <1>0, <1>2, EndsIs DEF EndsTidily, counts
  <2>1. /\ peer' = peer /\ authEnabled' = authEnabled
        /\ DOMAIN client' = DOMAIN client \ S /\ PeersOf(S) \subseteq Addr
        /\ last' = IF PeersOf(S) = {} THEN last ELSE Post("gone", PeersOf(S))
    BY <2>0 DEF Disconnected
  <2>2. CASE ~authEnabled
    BY <2>1, <2>2 DEF Main!vars
  <2>3. CASE authEnabled
    <3>1. peers' = peers \ PeersOf(S) /\ PeersOf(S) \subseteq peers
      <4>1. \A s \in DOMAIN client : peer[s] \in PeersOf(S) <=> s \in S
        BY <1>0, <2>0, <2>3, EndedPeers
      <4>2. PeersOf(S) \subseteq peers
        BY DEF PeersOf
      <4> QED BY <2>1, <4>1, <4>2
    <3>2. CASE PeersOf(S) = {}
      BY <2>1, <2>3, <3>1, <3>2 DEF Main!vars
    <3>3. CASE PeersOf(S) # {}
      <4>1. PICK P \in SUBSET Addr : P = PeersOf(S)
        BY <2>1
      <4>2. Main!End(P)
        BY <2>1, <2>3, <3>1, <3>3, <4>1 DEF Main!End, Main!Post, Post
      <4> QED BY <4>2 DEF Main!Next
    <3> QED BY <3>2, <3>3
  <2> QED BY <2>2, <2>3
<1>3. ASSUME NEW s \in Socket, NEW a \in Addr, ServeAtOnce(s, a)
      PROVE  [Main!Next]_(Main!vars)
  <2>1. ~authEnabled /\ authEnabled' = authEnabled
    BY <1>0, <1>3, ArrivesIs DEF ServeAtOnce
  <2> QED BY <2>1 DEF Main!vars
<1>4. ASSUME NEW s \in Socket, AcceptLogin(s)
      PROVE  [Main!Next]_(Main!vars)
  <2>1. PICK l \in Login :
              /\ Entered(s, peer[s], l) /\ s \notin DOMAIN client /\ peer[s] \in Addr /\ authEnabled
              /\ \A t \in DOMAIN client : peer[t] # peer[s]
    BY <1>0, <1>4, AcceptedIsNew
  <2>2. peer' = peer /\ authEnabled' = authEnabled /\ last' = last
    BY <1>4 DEF AcceptLogin, settings
  <2>3. DOMAIN client' = DOMAIN client \cup {s}
    BY <2>1 DEF Entered
  <2>4. peers' = peers \cup {peer[s]} /\ peer[s] \notin peers
    BY <2>1, <2>2, <2>3
  <2>5. PICK a \in Addr : a = peer[s]
    BY <2>1
  <2>6. Main!Connect(a)
    BY <2>1, <2>2, <2>4, <2>5 DEF Main!Connect
  <2> QED BY <2>6 DEF Main!Next
<1> QED BY <1>0, <1>1, <1>2, <1>3, <1>4, StepIs

\* With authorization the main thread gets what ExampleServer relies on: of each
\* peer one session at a time, its messages, then its end, reported once; until
\* somebody is served on a message that another socket had begun.
THEOREM TcpServerKeepsSessions == TcpServerAssumption => (Spec => KeepsSessions)
<1> SUFFICES ASSUME TcpServerAssumption PROVE Spec => KeepsSessions
  OBVIOUS
<1> DEFINE Kept == mixed' = {} => Main!Next \/ UNCHANGED Main!vars
<1>1. Init => Main!Init
  BY DEF Init, Main!Init, Main!Post, Post, Nothing
<1>2. TypeOK /\ Clients /\ [Next]_vars => Kept
  BY SessionsStep
<1> HIDE DEF Kept
<1>3. Spec => Main!Init /\ [][Kept]_vars
  BY <1>1, <1>2, ClientsInvariant, PTL DEF Spec
<1> QED BY <1>3 DEF KeepsSessions, Kept
=============================================================================
