----------------------------- MODULE TcpClient -----------------------------
(***************************************************************************)
(* TcpClient with its base class NetConnection (src/src/Net): opening,     *)
(* closing, reconnecting by a timer, login, and the setters other threads  *)
(* call.  The object lives on a net thread, whose posted events are taken  *)
(* one by one; module NetThread is that thread and those who wait for it.  *)
(*                                                                         *)
(* A handler is an operator from the object's state to the set of states   *)
(* it may end in, so that handlers can call each other.  The setters hold  *)
(* no lock: one tests the state of the connection and writes later, with   *)
(* the net thread anywhere, within a handler too (Meanwhile).              *)
(***************************************************************************)
EXTENDS Naturals, SequencesExt

CONSTANTS
    Host,
    NoHost,     \* a null ipDestination
    Settings,   \* the ConnectionSettings in use: whether ipLocal is given, and
                \* the destination
    MaxCalls    \* bound: calls by other threads

ASSUME TcpClientAssumption ==
    /\ NoHost \notin Host
    /\ Settings \subseteq [local : BOOLEAN, dest : Host \cup {NoHost}]
    /\ MaxCalls \in Nat

\* ConnectionSettings{}: any local address, and no destination.
NoSettings == [local |-> TRUE, dest |-> NoHost]

VARIABLES
    client,         \* the object, see New
    enabled,        \* m_isReconnectEnabled
    events,         \* posted to the net thread, the timer's timeouts included
    calls           \* calls so far

Event(op) == [op |-> op, with |-> << >>]

\* What other threads may post, with settings or without.
Call ==
    {Event(op) : op \in {"open", "reopen", "close", "send"}}
        \cup {[op |-> op, with |-> <<s>>] : op \in {"open", "reopen"}, s \in Settings}

\* What may be set while the connection is not open.
Setting ==
    {Event("authorize"), Event("forgo")} \cup {[op |-> "settings", with |-> <<s>>] : s \in Settings}

NoSetter == [at |-> "out", call |-> Event("none")]

New == [
    conn |-> "NotCreated",      \* m_connectionState
    settings |-> NoSettings,    \* m_connectionSettings
    authorization |-> FALSE,    \* m_isAuthorizationEnabled
    setter |-> NoSetter,        \* the setter that another thread is in: before
                                \* its "test" or its "write", and what it sets
    raced |-> FALSE,            \* history: a setter was at work when the
                                \* connection was opened last
    socket |-> "unconnected",   \* or "connected", or "closing" with bytes unsent
    peer |-> NoHost,            \* where the socket is or was connected to last
    timer |-> FALSE,            \* m_reconnectTimer is active
    wanted |-> FALSE,           \* history: opened, and not closed since
    written |-> << >>,          \* history: messages written on this connection
    crossed |-> FALSE,          \* history: another attempt was on its way when it
                                \* connected, or openConnection was called since
    said |-> {}]                \* signals emitted by the last handler

-----------------------------------------------------------------------------
(* What handlers consist of.  X_<word> is a faulty variant of X; no action  *)
(* refers to it.                                                            *)

Say(c, signal) == [c EXCEPT !.said = @ \cup {signal}]

sendMessage(c, kind) ==
    IF c.socket = "connected" THEN [c EXCEPT !.written = Append(@, kind)] ELSE c

authorize(c) == IF c.authorization THEN sendMessage(c, "login") ELSE c

\* The socket's end, or that of an attempt.
Gone(c) ==
    [c EXCEPT !.socket = "unconnected", !.peer = NoHost, !.written = << >>, !.crossed = FALSE]

\* Faulty: only an attempt that fails starts the timer.
onDisconnected_Idle(c) == Gone(c)

onDisconnected(c) == [Gone(c) EXCEPT !.timer = @ \/ enabled]

\* Faulty: onConnected logs in, too.
Joined_LogsIn(c) ==
    authorize([c EXCEPT !.socket = "connected", !.peer = c.settings.dest])

\* A new connection.
Joined(c) ==
    [c EXCEPT !.socket = "connected", !.peer = c.settings.dest,
              !.crossed = \E k \in 2..Len(events) : events[k].op \in {"try", "open"}]

\* Faulty: the timer goes on.
Succeeded_Timer(c) == authorize(Say(c, "opened"))

Succeeded(c) == authorize([Say(c, "opened") EXCEPT !.timer = FALSE])

\* waitForConnected gives up a socket that was still closing; there is no
\* disconnected signal then.
Failed(c) == [Gone(Say(c, "opened")) EXCEPT !.timer = @ \/ enabled]

\* connectToHost does nothing to a socket that is connected or closing, and
\* waitForConnected then tells the state it finds.
tryConnectToHost(c) ==
    IF c.socket = "connected" THEN {Succeeded(c)}
    ELSE IF c.socket = "unconnected" /\ c.settings.dest # NoHost
    THEN {Succeeded(Joined(c)), Failed(c)}
    ELSE {Failed(c)}

\* Faulty: not refused while the connection is open.
MayBeSet_Always(c) == TRUE

\* The test of every setter.
MayBeSet(c) == c.conn # "Created"

\* Its write.
Set(c, call) ==
    [c EXCEPT !.settings = IF call.op = "settings" THEN call.with[1] ELSE @,
              !.authorization = IF call.op = "settings" THEN @ ELSE call.op = "authorize",
              !.setter = NoSetter]

\* A setter's next step.
SetterGoes(c) ==
    IF c.setter.at = "test" /\ MayBeSet(c) THEN [c EXCEPT !.setter.at = "write"]
    ELSE IF c.setter.at = "write" THEN Set(c, c.setter.call)
    ELSE [c EXCEPT !.setter = NoSetter]

\* Between two lines of a handler.
Meanwhile(c) ==
    IF c.setter = NoSetter THEN {c}
    ELSE UNION {{d, SetterGoes(d)} : d \in {c, SetterGoes(c)}}

\* bind needs an unconnected socket, and an address that is free.
BindFailed(c) == [Say(c, "opened") EXCEPT !.conn = "NotCreated"]

Tried(c) == UNION {tryConnectToHost(d) : d \in Meanwhile([c EXCEPT !.wanted = TRUE])}

Bound(c) == IF c.socket = "unconnected" THEN Tried([c EXCEPT !.conn = "Created"]) ELSE {}

\* Without ipLocal the connection does not become "Created".
Bind(c) == IF c.settings.local THEN {BindFailed(c)} \cup Bound(c) ELSE Tried(c)

Checked(c) ==
    IF c.settings.dest = NoHost THEN {[Say(c, "opened") EXCEPT !.conn = "IncorrectIp"]}
    ELSE UNION {Bind(d) : d \in Meanwhile(c)}

openConnection(c, s) ==
    IF c.conn = "Created" THEN {c}
    ELSE UNION {Checked(d) :
                   d \in Meanwhile([c EXCEPT !.settings = s, !.raced = c.setter # NoSetter])}

\* Where close() leaves the socket.  It signals disconnected before it returns,
\* unless there are bytes it has to wait for.
Closed(c) ==
    IF c.socket = "connected"
    THEN {onDisconnected(c)}
            \cup {d \in {[c EXCEPT !.socket = "closing"]} : c.written # << >>}
    ELSE {c}

\* Faulty: the connection still counts as open.
closeConnection_Created(c) ==
    {[Say(d, "closed") EXCEPT !.wanted = FALSE] : d \in Closed([c EXCEPT !.timer = FALSE])}

\* The timer is stopped first, and started again by onDisconnected.
closeConnection(c) ==
    {[Say(d, "closed") EXCEPT !.conn = "NotCreated", !.wanted = FALSE] :
        d \in Closed([c EXCEPT !.timer = FALSE])}

setConnectionSettings(c, s) == IF MayBeSet(c) THEN [c EXCEPT !.settings = s] ELSE c

\* By the net thread itself.
reopenConnection(c, s) ==
    UNION {UNION {openConnection(e, e.settings) : e \in Meanwhile(setConnectionSettings(d, s))} :
              d \in closeConnection(c)}

-----------------------------------------------------------------------------
(* The net thread takes an event.                                           *)

Now == [client EXCEPT !.said = {}]

Take(op) ==
    /\ events # << >>
    /\ Head(events).op = op
    /\ events' = Tail(events)
    /\ UNCHANGED <<enabled, calls>>

\* openConnection() and reopenConnection() without settings take the last ones.
Asked ==
    IF Head(events).with = << >> THEN client.settings ELSE Head(events).with[1]

OnTimeout == Take("try") /\ client' \in tryConnectToHost(Now)
OnOpen == Take("open") /\ client' \in openConnection(Now, Asked)
OnReopen == Take("reopen") /\ client' \in reopenConnection(Now, Asked)
OnClose == Take("close") /\ client' \in closeConnection(Now)
OnSend == Take("send") /\ client' = sendMessage(Now, "request")

\* The call that setEnableReconnect has posted.
OnEnable ==
    /\ Take("enable")
    /\ client' = [Now EXCEPT !.timer = enabled /\ (@ \/ client.socket # "connected")]

\* ~TcpClient disables reconnecting, so that closing the socket starts no timer.
Destroyed == client' = New /\ enabled' = TRUE

HandleCall == OnTimeout \/ OnOpen \/ OnReopen \/ OnClose \/ OnSend \/ OnEnable

-----------------------------------------------------------------------------
(* The socket and the timer, on the same thread.                            *)

\* The connection is lost, or what it was closed with has been written.
SocketEnds ==
    /\ client.socket \in {"connected", "closing"}
    /\ client' = onDisconnected(Now)
    /\ UNCHANGED <<enabled, events, calls>>

\* The timeout is queued, and stop() will not take it back.
TimerFires ==
    /\ client.timer
    /\ client' = [Now EXCEPT !.timer = FALSE]
    /\ events' = Append(events, Event("try"))
    /\ UNCHANGED <<enabled, calls>>

-----------------------------------------------------------------------------
(* Other threads.                                                           *)

\* The ...Queued signals.
Post(call) ==
    /\ calls < MaxCalls
    /\ calls' = calls + 1
    /\ events' = Append(events, call)
    /\ client' = [client EXCEPT
                    !.crossed = @ \/ (call.op = "open" /\ client.socket = "connected")]
    /\ UNCHANGED enabled

setEnableReconnect(isEnabled) ==
    /\ calls < MaxCalls
    /\ calls' = calls + 1
    /\ enabled' = isEnabled
    /\ events' = Append(events, Event("enable"))
    /\ UNCHANGED client

\* setConnectionSettings and setAuthorizationEnabled begin.
Configure(call) ==
    /\ calls < MaxCalls
    /\ client.setter = NoSetter
    /\ calls' = calls + 1
    /\ client' = [client EXCEPT !.setter = [at |-> "test", call |-> call]]
    /\ UNCHANGED <<enabled, events>>

SetterRuns ==
    /\ client.setter # NoSetter
    /\ client' = SetterGoes(client)
    /\ UNCHANGED <<enabled, events, calls>>

Use ==
    \/ \E call \in Call : Post(call)
    \/ \E b \in BOOLEAN : setEnableReconnect(b)
    \/ \E call \in Setting : Configure(call)
    \/ SetterRuns

-----------------------------------------------------------------------------
(* Properties.                                                              *)

ClientTypeOK ==
    /\ client.conn \in {"NotCreated", "Created", "IncorrectIp"}
    /\ client.settings \in Settings \cup {NoSettings}
    /\ (client.conn = "Created" /\ ~client.raced) =>
          client.settings.local /\ client.settings.dest # NoHost
    /\ client.setter \in [at : {"test", "write"}, call : Setting] \cup {NoSetter}
    /\ client.authorization \in BOOLEAN /\ client.raced \in BOOLEAN
    /\ client.socket \in {"unconnected", "connected", "closing"}
    /\ client.peer \in Host \cup {NoHost}
    /\ client.peer = NoHost <=> client.socket = "unconnected"
    /\ client.timer \in BOOLEAN /\ client.wanted \in BOOLEAN /\ client.crossed \in BOOLEAN
    /\ client.conn = "Created" => client.wanted
    /\ client.written \in Seq({"login", "request"})
    /\ client.said \subseteq {"opened", "closed"}
    /\ enabled \in BOOLEAN
    /\ events \in Seq(Call \cup {Event(op) : op \in {"try", "enable", "make", "delete"}})
    /\ calls \in 0..MaxCalls

\* The reconnect timer runs only without a connection, and only as long as
\* reconnecting is enabled, or its being disabled is still to be handled.
TimerIsInStep ==
    client.timer =>
        /\ client.socket # "connected"
        /\ enabled \/ Event("enable") \in ToSet(events)

\* A server gets the login before anything else, and gets it once.  Only an
\* attempt that was on its way when another one succeeded, or an openConnection
\* on a socket that is connected, logs in again, and only a setter that was at
\* work when the connection was opened can ask for a login too late.
LoginsInOrder ==
    /\ /\ client.socket = "connected" /\ client.conn = "Created" /\ client.authorization
       /\ ~client.raced
       => client.written # << >> /\ Head(client.written) = "login"
    /\ \A i, j \in 1..Len(client.written) :
          (i < j /\ client.written[i] = "login" /\ client.written[j] = "login")
              => client.crossed

\* An open connection leads where its settings say, however often it was opened
\* and reconnected: readReceived names the settings' destination as the sender of
\* a message.  Only a setter that was at work when the connection was opened may
\* change the settings afterwards, its test being of no use by then.
OpenLeadsThere ==
    (client.conn = "Created" /\ client.socket = "connected" /\ ~client.raced) =>
        client.peer = client.settings.dest

\* What was opened is connected in the end, by attempts that do not cease, if
\* reconnecting is enabled, unless it is closed.
KeepsTrying ==
    (client.wanted /\ enabled) ~>
        \/ client.socket = "connected"
        \/ ~client.wanted \/ ~enabled
        \/ client.settings.dest = NoHost
=============================================================================
