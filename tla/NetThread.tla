----------------------------- MODULE NetThread -----------------------------
(***************************************************************************)
(* NetThread (src/src/Net/NetThread.cpp) with one connection in it, and a  *)
(* thread that makes it, uses it and destroys it by the functions that     *)
(* wait: they connect a slot to a signal, post an event, and poll until    *)
(* the slot was called.  Any thread may use the connection meanwhile.      *)
(*                                                                         *)
(* The connection is a TcpClient; the loop of the net thread is shared by  *)
(* the connection and NetThreadContextHelper.  Called on the net thread    *)
(* itself, the functions that wait are plain calls.                        *)
(***************************************************************************)
EXTENDS TcpClient

VARIABLES
    thread,     \* "running" or "finished"
    quits,      \* m_isQuitWhenNoConnections
    made,       \* the connection exists: m_netConnectionsSet is not empty
    waiting     \* what the waiting thread has posted, or "nothing"

vars == <<client, enabled, events, calls, thread, quits, made, waiting>>

Init ==
    /\ client = New
    /\ enabled = TRUE
    /\ events = << >>
    /\ calls = 0
    /\ thread = "running"
    /\ quits = TRUE
    /\ made = FALSE
    /\ waiting = "nothing"

-----------------------------------------------------------------------------
(* The waiting thread.                                                      *)

\* A new thread is started if there is none.
instantiateWait ==
    /\ waiting = "nothing" /\ ~made
    /\ thread' = "running"
    /\ quits' = (thread = "running" => quits)
    /\ events' = Append(events, Event("make"))
    /\ waiting' = "make"
    /\ UNCHANGED <<client, enabled, calls, made>>

\* openWait-, reopenWait- and closeWaitThreadedConnection post these.
WaitCall == {Event("close")} \cup {call \in Call : call.op # "send" /\ call.with # << >>}

Wait(call) ==
    /\ waiting = "nothing" /\ made
    /\ Post(call)
    /\ waiting' = call.op
    /\ UNCHANGED <<thread, quits, made>>

\* Nobody uses the connection any more.
destroyWait ==
    /\ waiting = "nothing" /\ made /\ client.setter = NoSetter
    /\ events' = Append(events, Event("delete"))
    /\ waiting' = "delete"
    /\ UNCHANGED <<client, enabled, calls, thread, quits, made>>

setQuitWhenNoConnections(isQuit) ==
    /\ thread = "running" /\ quits # isQuit
    /\ quits' = isQuit
    /\ UNCHANGED <<client, enabled, events, calls, thread, made, waiting>>

\* The waiting thread is one that uses the connection, but not while it waits.
UseConnection ==
    /\ made /\ waiting # "delete"
    /\ Use
    /\ UNCHANGED <<thread, quits, made, waiting>>

-----------------------------------------------------------------------------
(* The net thread.                                                          *)

\* Faulty: reopenWait waits for the closed connection, which comes first.
Signal_First == [open |-> "opened", reopen |-> "closed", close |-> "closed"]

Signal == [open |-> "opened", reopen |-> "opened", close |-> "closed"]

\* Who waits takes the next signal for its own, whatever has caused it.
Wake ==
    waiting' = IF waiting \in DOMAIN Signal /\ Signal[waiting] \in client'.said
               THEN "nothing" ELSE waiting

OnCall ==
    /\ made
    /\ HandleCall
    /\ Wake
    /\ UNCHANGED <<thread, quits, made>>

OnOwnSignal ==
    /\ made
    /\ SocketEnds \/ TimerFires
    /\ UNCHANGED <<thread, quits, made, waiting>>

onMakeNetConnection ==
    /\ Take("make")
    /\ made' = TRUE
    /\ waiting' = "nothing"
    /\ UNCHANGED <<client, thread, quits>>

\* Faulty: the object's events outlive it.
Undelivered_All == Tail(events)

\* Posted events of an object are removed with it, and there are no others.
Undelivered == << >>

\* onNetConnectionDestroyed ends the thread.
OnDelete ==
    /\ events # << >> /\ Head(events).op = "delete"
    /\ events' = Undelivered
    /\ Destroyed
    /\ made' = FALSE
    /\ thread' = IF quits THEN "finished" ELSE thread
    /\ waiting' = "nothing"
    /\ UNCHANGED <<calls, quits>>

TakeEvent == OnCall \/ onMakeNetConnection \/ OnDelete

Next ==
    \/ TakeEvent \/ OnOwnSignal
    \/ instantiateWait \/ destroyWait
    \/ \E call \in WaitCall : Wait(call)
    \/ \E b \in BOOLEAN : setQuitWhenNoConnections(b)
    \/ UseConnection

\* An attempt that reaches its host.
Reach == OnCall /\ client.socket # "connected" /\ client'.socket = "connected"

\* Event loops run, timers fire, and a host that is tried again and again
\* answers in the end.
Fairness ==
    /\ WF_vars(TakeEvent)
    /\ WF_vars(OnOwnSignal /\ TimerFires)
    /\ SF_vars(Reach)

Spec == Init /\ [][Next]_vars /\ Fairness

-----------------------------------------------------------------------------
(* Properties.                                                              *)

TypeOK ==
    /\ ClientTypeOK
    /\ thread \in {"running", "finished"}
    /\ quits \in BOOLEAN /\ made \in BOOLEAN
    /\ waiting \in {"nothing", "make", "delete"} \cup DOMAIN Signal
    /\ ~made => ToSet(events) \subseteq {Event("make")}
    /\ made => thread = "running"

\* Whoever waits for a connection to be made, opened, reopened, closed or
\* destroyed goes on in the end: GUI and main thread sleep meanwhile.  Only
\* waiting for an open connection to be opened is in vain, as that says nothing.
EveryWaitEnds ==
    (waiting # "nothing" /\ (waiting = "open" => \E call \in ToSet(events) : call.op = "open")) ~>
        (waiting = "nothing" \/ (waiting = "open" /\ client.conn = "Created"))
=============================================================================
