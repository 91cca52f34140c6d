---------------------------- MODULE ClientServer ----------------------------
(***************************************************************************)
(* The two programs together: one user's window (ClientWindow) and the     *)
(* server (ExampleServer), joined by TcpClient, a TCP connection and       *)
(* TcpServer.  Every thread boundary is a queue of its own, so that a      *)
(* cancel request and the result it comes too late for can cross.          *)
(*                                                                         *)
(* The server knows a connection by the address of its client's end, which *)
(* may come back: each time it is opened with a port configured (portIn).  *)
(* What is sent to an address then reaches the connection it has at that   *)
(* time, and what is sent to one that nobody has is lost.                  *)
(*                                                                         *)
(* The client's m_pendingMsg outlives its connection.  When one is lost    *)
(* within a reply, what was read of that is completed with the bytes of    *)
(* the next one, and the reader is out of step (module Framing has the     *)
(* details).                                                               *)
(***************************************************************************)
EXTENDS ClientWindow, Integers, FiniteSets

CONSTANTS
    Addr,       \* addresses the client's connections come from
    Chunks,     \* as in ExampleServer
    MaxClicks,  \* bound: requests the user sends
    MaxOpens    \* bound: attempts to connect

ASSUME ClientServerAssumption ==
    /\ NoAddr \notin Addr
    /\ NoWork \notin Work
    /\ Chunks \in [Work -> Nat]
    /\ MaxClicks \in Nat /\ MaxOpens \in Nat

VARIABLES
    events, taskMap, cache, outbox, nextTask, connected, inputs, owed,
                \* the server, as in ExampleServer
    up,         \* the bytes on their way to the server: login and requests
    down,       \* the bytes on their way to the client: replies
    served,     \* the server has accepted the login of this connection, and
                \* has not ended it
    torn,       \* m_pendingMsg held part of a reply when a connection was lost:
                \* the one since then is read out of step
    misread,    \* messages that no reply was, made of the bytes of several
    opens,      \* attempts to connect so far
    clicks,     \* requests the user has sent
    cancels     \* how many of them were cancel requests

serverVars == <<events, taskMap, cache, outbox, nextTask, connected, inputs, owed>>
readVars == <<torn, misread>>
netVars == <<up, down, link, served, opens, readVars>>
userVars == <<clicks, cancels>>
vars == <<windowVars, guiEvents, posted, serverVars, netVars, userVars>>

Server == INSTANCE ExampleServer WITH
    Kinds <- {"task", "cancel", "malformed"},
    MaxInputs <- MaxClicks

-----------------------------------------------------------------------------
Init ==
    /\ WindowInit
    /\ Server!Init
    /\ up = << >> /\ down = << >>
    /\ link = NoAddr
    /\ served = FALSE
    /\ torn = FALSE /\ misread = 0
    /\ opens = 0
    /\ clicks = 0
    /\ cancels = 0

Click ==
    /\ clicks < MaxClicks
    /\ clicks' = clicks + 1
    /\ \/ OnSendRequest /\ UNCHANGED cancels
       \/ OnSendCancel /\ cancels' = cancels + 1
    /\ UNCHANGED <<serverVars, up, down, served, readVars, opens>>

Window ==
    /\ HandleGuiEvent
    /\ UNCHANGED <<serverVars, up, down, served, readVars, opens, userVars>>

-----------------------------------------------------------------------------
(* The thread of TcpClient.                                                 *)

Login == Request("login", NoWork)

\* The server has closed this connection.
Shut == link # NoAddr /\ ~served /\ Login \notin {up[i] : i \in 1..Len(up)}

\* tryConnectToHost, and authorize as the first thing it sends.
Open ==
    /\ link = NoAddr /\ opens < MaxOpens
    /\ opens' = opens + 1
    /\ link' \in Addr
    /\ up' = <<Login>>
    /\ down' = << >>
    /\ UNCHANGED <<windowVars, guiEvents, posted, serverVars, served, readVars, userVars>>

\* tryConnectToHost in vain: the socket goes through its states up to unconnected.
FailToOpen ==
    /\ link = NoAddr /\ opens < MaxOpens
    /\ opens' = opens + 1
    /\ guiEvents' = Append(guiEvents, Unconnected)
    /\ UNCHANGED <<windowVars, posted, serverVars, up, down, link, served, readVars, userVars>>

\* tryConnectToHost on a socket that is connected: an attempt that was on its
\* way, too, when this connection was made (module TcpClient has the details).
LoginAgain ==
    /\ link # NoAddr /\ ~Shut /\ opens < MaxOpens
    /\ opens' = opens + 1
    /\ up' = Append(up, Login)
    /\ UNCHANGED <<windowVars, guiEvents, posted, serverVars, down, link, served, readVars,
                   userVars>>

\* The queued sendMessage; it gives up unless the socket is connected.
SendPosted ==
    /\ posted # << >>
    /\ posted' = Tail(posted)
    /\ up' = IF link = NoAddr THEN up ELSE Append(up, Head(posted))
    /\ UNCHANGED <<windowVars, guiEvents, serverVars, down, link, served, readVars, opens,
                   userVars>>

\* What a reader that is out of step may take for a message, as far as the window
\* tells such messages apart: one that unblocks it, or one of progress.
Misreads == {Server!MakeReply(link, k, NoWork, 0, 0) : k \in {"result", "progress"}}

\* readReceived: the callback posts parseResponse to the GUI thread.  Out of step,
\* the bytes of a reply mostly give nothing: more of a message that is not whole
\* yet, or one that does not decode (onCorruptedMessage writes a log).  They may
\* give a message that does, or be read as they were written after all.
ReadReply ==
    /\ down # << >>
    /\ \/ guiEvents' = Append(guiEvents, Head(down)) /\ UNCHANGED misread
       \/ torn /\ UNCHANGED <<guiEvents, misread>>
       \/ /\ torn
          /\ \E m \in Misreads : guiEvents' = Append(guiEvents, m)
          /\ misread' = misread + 1
    /\ down' = Tail(down)
    /\ UNCHANGED <<windowVars, posted, serverVars, up, link, served, torn, opens, userVars>>

\* The socket is unconnected from now on: what it had not read or sent is lost,
\* and the change of state is posted to the GUI thread.  Nothing resets what was
\* read of a reply that has not come in full, or of one that never was a reply.
Drop ==
    /\ link' = NoAddr /\ served' = FALSE
    /\ up' = << >> /\ down' = << >>
    /\ torn' \in {FALSE, torn \/ down # << >>}
    /\ guiEvents' = Append(guiEvents, Unconnected)
    /\ UNCHANGED <<windowVars, posted, serverVars, misread, opens, userVars>>

\* The user reopens the connection, or the network fails.
LoseLink == link # NoAddr /\ Drop

NoticeShut == Shut /\ down = << >> /\ Drop

-----------------------------------------------------------------------------
(* The thread of TcpServer.                                                 *)

\* The login, refused while the user has another connection, and whenever it is
\* too late for the login timer or ends a message that an earlier socket in its
\* place had begun; then the socket is aborted, with all that follows.  On a
\* connection that is served everything is a request for the main thread, another
\* login one that does not decode.
ReadRequest ==
    /\ up # << >> /\ link # NoAddr
    /\ \/ /\ ~served /\ Head(up) = Login
          /\ connected = {}
          /\ Server!Connect(link)
          /\ served' = TRUE
          /\ up' = Tail(up)
       \/ /\ ~served /\ Head(up) = Login
          /\ up' = << >>
          /\ UNCHANGED <<serverVars, served>>
       \/ /\ served
          /\ Server!Arrive(link, IF Head(up) = Login THEN "malformed" ELSE Head(up).kind,
                           Head(up).work)
          /\ up' = Tail(up)
          /\ UNCHANGED <<inputs, served>>
    /\ UNCHANGED <<windowVars, guiEvents, posted, down, link, readVars, opens, userVars>>

\* The queued sendMessageTo, to the connection of that address if there is one.
WriteReply ==
    /\ Server!Deliver
    /\ down' = IF Head(outbox).to = link /\ served
               THEN Append(down, Head(outbox))
               ELSE down
    /\ UNCHANGED <<windowVars, guiEvents, posted, up, link, served, readVars, opens, userVars>>

\* The end of a connection that the client has left, or one that the server
\* ends (removeLoginData).
CloseSocket(a) ==
    /\ Server!Leave(a)
    /\ served' = (served /\ a # link)
    /\ up' = IF served /\ a = link THEN << >> ELSE up
    /\ UNCHANGED <<inputs, windowVars, guiEvents, posted, down, link, readVars, opens,
                   userVars>>

-----------------------------------------------------------------------------
ServerMain ==
    /\ Server!HandleEvent
    /\ UNCHANGED <<windowVars, guiEvents, posted, netVars, userVars>>

ServerPool(a) ==
    /\ Server!Compute(a)
    /\ UNCHANGED <<windowVars, guiEvents, posted, netVars, userVars>>

Next ==
    \/ Click \/ Window
    \/ Open \/ FailToOpen \/ LoginAgain \/ SendPosted \/ ReadReply \/ LoseLink \/ NoticeShut
    \/ ReadRequest \/ WriteReply \/ ServerMain
    \/ \E a \in Addr : CloseSocket(a) \/ ServerPool(a)

\* The event loops of the four threads, the pool, and the bytes on the wire
\* make progress.  Neither the user nor the network must do anything.
Fairness ==
    /\ WF_vars(Window)
    /\ WF_vars(SendPosted) /\ WF_vars(ReadReply) /\ WF_vars(NoticeShut)
    /\ WF_vars(ReadRequest) /\ WF_vars(WriteReply)
    /\ WF_vars(ServerMain)
    /\ \A a \in Addr : WF_vars(ServerPool(a))

Spec == Init /\ [][Next]_vars /\ Fairness

-----------------------------------------------------------------------------
(* Properties.                                                              *)

ReplyTo(m) == m.kind \in Server!ReplyKind

TypeOK ==
    /\ WindowType
    /\ Server!TypeOK
    /\ link \in Addr \cup {NoAddr}
    /\ served \in BOOLEAN
    /\ served => link \in connected
    /\ torn \in BOOLEAN /\ misread \in Nat
    /\ opens \in 0..MaxOpens
    /\ up \in Seq([kind : {"login", "task", "cancel"}, work : Work \cup {NoWork}])
    /\ down \in Seq(Server!Reply)
    /\ \A i \in 1..Len(guiEvents) : guiEvents[i] = Unconnected \/ guiEvents[i] \in Server!Reply
    /\ clicks \in 0..MaxClicks /\ cancels \in 0..clicks

At(s, P(_)) == {i \in 1..Len(s) : P(s[i])}

\* The last reply of a task, or the only one of a request that got none.
EndsTask(m) ==
    \/ m.kind \in {"result", "AlreadyRunningTask"}
    \/ m.kind = "canceled" /\ m.task # 0

\* How many task requests of the window are not answered yet, wherever they
\* are between the window and the server, or their answers on the way back.
OfLink(m) == m.to = link
Awaited ==
    LET IsTask(m) == m.kind = "task"
        OwnTask(m) == m.kind = "task" /\ m.addr = link
        OwnEnd(m) == OfLink(m) /\ EndsTask(m)
        AnyEnd(m) == m # Unconnected /\ EndsTask(m)
    IN  Cardinality(At(posted, IsTask)) + Cardinality(At(up, IsTask))
        + Cardinality(At(events, OwnTask))
        + (IF link \in DOMAIN taskMap THEN 1 ELSE 0)
        + Cardinality(At(outbox, OwnEnd)) + Cardinality(At(down, OwnEnd))
        + Cardinality(At(guiEvents, AnyEnd))

ToldUnconnected == \E i \in 1..Len(guiEvents) : guiEvents[i] = Unconnected

\* What is read on this connection may be anything.
OutOfStep == torn /\ link # NoAddr

\* The progress dialog is on the screen for a task only: no progress message
\* comes after the end of its task, over however many queues both have gone (but
\* on a connection read out of step, and not after its loss).
DialogShowsATask == dialog => Awaited > 0 \/ ToldUnconnected \/ Shut \/ OutOfStep

\* Attempts that did not lead to the present connection: what they led to was
\* lost, they failed, or they came too late and logged in again.
Lost == opens - (IF link = NoAddr THEN 0 ELSE 1)

\* "Block button while awaiting Task completion": on a connection that was never
\* lost, the button is enabled only when no task request awaits its answer.
ButtonIsBlocked == (sendEnabled /\ Lost = 0) => Awaited = 0

\* The button does its work but for this: each cancel request (it may have come
\* too late), each message that no reply was, and each attempt to connect that was
\* in vain, lost again, or one too many (its login is answered like a request) lets
\* one more request through before the last one was answered.
OverlapsAreAccounted ==
    Awaited <= (IF sendEnabled THEN 0 ELSE 1) + cancels + misread + Lost

\* A blocked window is always unblocked by something, without the user, but on a
\* connection read out of step: there the reply may be lost on the reader.
NobodyIsLockedOut == ~sendEnabled ~> (sendEnabled \/ OutOfStep)

\* A cancel request is always answered for the window, but on such a connection.
CancelIsAnswered == awaitingCancel ~> (~awaitingCancel \/ OutOfStep)
=============================================================================
