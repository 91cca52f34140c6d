------------------------------ MODULE Framing ------------------------------
(***************************************************************************)
(* How messages travel as bytes: sendMessage and readReceived of TcpClient *)
(* and TcpServer, and the PendingMessage that a reader keeps between two   *)
(* calls.  TCP hands over the bytes in any pieces.                         *)
(*                                                                         *)
(* One direction of one connection at a time, read by either program.      *)
(* TcpClient has one PendingMessage for all the connections of its life.   *)
(* TcpServer finds one by the place of the socket in memory, and removes   *)
(* it when a served socket disconnects: with authorization, a socket that  *)
(* has not logged in leaves it to the next one in the same place.          *)
(***************************************************************************)
EXTENDS Naturals, SequencesExt

CONSTANTS
    Base,       \* a byte is a number below this
    HeaderSize, \* m_headerSize, in bytes
    HostOrder,  \* the byte order of the machine, "little" or "big"
    NetOrder,   \* NET_ENDIANNESS
    Message,
    NoMessage,
    MaxSent,    \* bound: messages sent
    MaxLosses   \* bound: connections that break

Byte == 0..(Base - 1)

\* The number that bytes stand for, the most significant first.
Number(bytes) ==
    LET upTo[k \in 0..Len(bytes)] ==
            IF k = 0 THEN 0 ELSE upTo[k - 1] * Base + bytes[k]
    IN  upTo[Len(bytes)]

\* The greatest quint32.
MaxSize == Number([k \in 1..HeaderSize |-> Base - 1])

ASSUME FramingAssumption ==
    /\ Base \in Nat \ {0, 1}
    /\ HeaderSize \in Nat \ {0}
    /\ HostOrder \in {"little", "big"} /\ NetOrder \in {"little", "big"}
    /\ Message \subseteq Seq(Byte)
    /\ \A m \in Message : Len(m) \in 1..MaxSize
    /\ NoMessage \notin Seq(Byte)
    /\ MaxSent \in Nat /\ MaxLosses \in Nat

VARIABLES
    reader,     \* who reads: "client", "server", or "login", a server that asks
                \* for a login
    connected,
    wire,       \* bytes written, on their way
    buffer,     \* bytes the reader's socket has received: bytesAvailable
    pending,    \* PendingMessage: bytes missing, and those before curPos
    reading,    \* readReceived is in its loop
    due,        \* history: messages sent on this connection and not read yet
    last,       \* the message read last on this connection
    torn,       \* history: a connection broke within a message that the code does
                \* not forget, and the reader has it still or went on with it
    sent, losses

history == <<due, last, torn>>
counts == <<sent, losses>>
vars == <<reader, connected, wire, buffer, pending, reading, history, counts>>

-----------------------------------------------------------------------------
(* X_<word> is a faulty variant of X; no action refers to it.               *)

Ordered(order, bytes) == IF order = "big" THEN bytes ELSE Reverse(bytes)

\* The quint32 n as bytes.
Digits(n) == CHOOSE bytes \in [1..HeaderSize -> Byte] : Number(bytes) = n

\* Written as it lies in memory, read by a QDataStream.
Header(n) == Ordered(HostOrder, Digits(n))
Size(bytes) == Number(Ordered(NetOrder, bytes))

\* Faulty: curPos stays where the last message ended.
Fresh_Pos(p) == [p EXCEPT !.size = 0]

Fresh(p) == [size |-> 0, msg |-> << >>]

\* A PendingMessage as it is made.
Untouched == [size |-> 0, msg |-> << >>]

Init ==
    /\ reader \in {"client", "server", "login"}
    /\ connected = TRUE
    /\ wire = << >> /\ buffer = << >>
    /\ pending = Untouched
    /\ reading = FALSE
    /\ due = << >> /\ last = NoMessage
    /\ torn = FALSE
    /\ sent = 0 /\ losses = 0

sendMessage(m) ==
    /\ connected /\ sent < MaxSent
    /\ wire' = wire \o Header(Len(m)) \o m
    /\ due' = Append(due, m)
    /\ sent' = sent + 1
    /\ UNCHANGED <<reader, connected, buffer, pending, reading, last, torn, losses>>

-----------------------------------------------------------------------------
(* The reader.                                                              *)

\* Some bytes arrive, and readyRead runs readReceived.
Arrive(n) ==
    /\ connected /\ ~reading
    /\ buffer' = buffer \o SubSeq(wire, 1, n)
    /\ wire' = SubSeq(wire, n + 1, Len(wire))
    /\ reading' = TRUE
    /\ UNCHANGED <<reader, connected, pending, history, counts>>

AwaitsHeader == pending.size = 0 /\ Len(buffer) < HeaderSize

\* The message in progress once its header has been read, and what the buffer
\* has after that header.
Begun ==
    IF pending.size = 0
    THEN [size |-> Size(SubSeq(buffer, 1, HeaderSize)), msg |-> << >>]
    ELSE pending

Available ==
    IF pending.size = 0 THEN SubSeq(buffer, HeaderSize + 1, Len(buffer)) ELSE buffer

\* readRawData to msg.data() + curPos.
Filled(p, bytes) == p.msg \o bytes

\* Faulty: one message is read for each readyRead.
GoesOn_Never(rest) == FALSE

\* while (bytesAvailable() > 0)
GoesOn(rest) == rest # << >>

\* The header is not complete.
AwaitHeader ==
    /\ reading /\ AwaitsHeader
    /\ reading' = FALSE
    /\ UNCHANGED <<reader, connected, wire, buffer, pending, history, counts>>

\* The message is not complete: all there is belongs to it.
ReadPart ==
    /\ reading /\ ~AwaitsHeader
    /\ Len(Available) < Begun.size
    /\ pending' = [size |-> Begun.size - Len(Available), msg |-> Filled(Begun, Available)]
    /\ buffer' = << >>
    /\ reading' = FALSE
    /\ UNCHANGED <<reader, connected, wire, history, counts>>

\* The message is complete; the callback gets it.
ReadRest ==
    /\ reading /\ ~AwaitsHeader
    /\ Len(Available) >= Begun.size
    /\ LET whole == Filled(Begun, SubSeq(Available, 1, Begun.size))
           rest == SubSeq(Available, Begun.size + 1, Len(Available))
       IN  /\ last' = whole
           /\ pending' = Fresh([Begun EXCEPT !.msg = whole])
           /\ buffer' = rest
           /\ reading' = GoesOn(rest)
    /\ due' = IF due = << >> THEN due ELSE Tail(due)
    /\ UNCHANGED <<reader, connected, wire, torn, counts>>

\* The socket is in m_socketAuthMap: its first message has yet to be read.
AwaitsLogin == reader = "login" /\ last = NoMessage

\* What is on its way is lost.
Lost ==
    /\ connected' = FALSE
    /\ wire' = << >> /\ buffer' = << >>
    /\ due' = << >> /\ last' = NoMessage
    /\ losses' = losses + 1
    /\ UNCHANGED <<reader, sent>>

\* The first message is complete and is no login: abort() and return.
Refuse ==
    /\ reading /\ ~AwaitsHeader
    /\ Len(Available) >= Begun.size
    /\ AwaitsLogin /\ losses < MaxLosses
    /\ Lost
    /\ pending' = Fresh(Begun)
    /\ reading' = FALSE
    /\ torn' = FALSE

readReceived == AwaitHeader \/ ReadPart \/ ReadRest \/ Refuse

-----------------------------------------------------------------------------
(* The connection.                                                          *)

\* Faulty: the PendingMessage of a served socket is not removed either.
Left_Always(p) == p

\* What becomes of the PendingMessage when its socket disconnects.
Left(p) == IF reader = "client" \/ AwaitsLogin THEN p ELSE Untouched

\* onDisconnected, onSocketDisconnected
Break ==
    /\ connected /\ ~reading /\ losses < MaxLosses
    /\ Lost
    /\ pending' = Left(pending)
    /\ torn' = ((reader = "client" \/ AwaitsLogin) /\ pending.size > 0)
    /\ UNCHANGED reading

\* The PendingMessage a new connection starts with.  A server's new socket may
\* be in the place of the one before or in another.
Inherited == IF reader = "client" THEN {pending} ELSE {pending, Untouched}

Reconnect ==
    /\ ~connected
    /\ connected' = TRUE
    /\ pending' \in Inherited
    /\ torn' = (torn /\ pending'.size > 0)
    /\ UNCHANGED <<reader, wire, buffer, reading, due, last, counts>>

Next ==
    \/ \E m \in Message : sendMessage(m)
    \/ \E n \in 1..Len(wire) : Arrive(n)
    \/ readReceived
    \/ Break \/ Reconnect

\* Bytes on their way arrive as long as the connection lasts.
Fairness ==
    /\ WF_vars(\E n \in 1..Len(wire) : Arrive(n))
    /\ WF_vars(readReceived)

Spec == Init /\ [][Next]_vars /\ Fairness

-----------------------------------------------------------------------------
(* Properties.                                                              *)

TypeOK ==
    /\ reader \in {"client", "server", "login"}
    /\ connected \in BOOLEAN /\ reading \in BOOLEAN /\ torn \in BOOLEAN
    /\ wire \in Seq(Byte) /\ buffer \in Seq(Byte)
    /\ pending.size \in 0..MaxSize /\ pending.msg \in Seq(Byte)
    /\ pending.size + Len(pending.msg) <= MaxSize
    /\ pending.size = 0 => pending.msg = << >>
    /\ reading => buffer # << >>
    /\ due \in Seq(Message) /\ last \in Seq(Byte) \cup {NoMessage}
    /\ sent \in 0..MaxSent /\ losses \in 0..MaxLosses

Stream == INSTANCE MessageStream WITH
    due <- IF torn THEN << >> ELSE due,
    last <- IF torn THEN NoMessage ELSE last

\* Whatever pieces the bytes come in, the messages read on a connection are the
\* messages sent on it, in their order, unless it began with a part of a message of
\* an older one: a client keeps that part, a server only that of a socket that had
\* not logged in.
KeepsStream == Stream!Spec

\* No reader waits for more with a whole message in its hands: what is sent is
\* read, unless the connection breaks.
EverythingIsRead == (due # << >> /\ ~torn) ~> (due = << >>)
=============================================================================
