------------------------------ MODULE Sessions ------------------------------
(***************************************************************************)
(* What ExampleServer takes for granted of its net thread: a peer is       *)
(* connected or not, messages come from connected peers only, and the end  *)
(* of a connection is reported once, behind the last message of it.  These *)
(* are the steps Connect, Arrive and Leave of module ExampleServer without *)
(* the main thread's state; TcpServer is shown to keep to them.            *)
(***************************************************************************)
EXTENDS FiniteSets

CONSTANT Addr   \* peers

VARIABLES
    connected,  \* the peers whose messages are passed on
    last        \* what was posted to the main thread last, and for which peers

vars == <<connected, last>>

Post(k, peers) == [kind |-> k, peers |-> peers]

Init == connected = {} /\ last = Post("none", {})

Connect(a) ==
    /\ a \notin connected
    /\ connected' = connected \cup {a}
    /\ UNCHANGED last

Message(a) ==
    /\ a \in connected
    /\ last' = Post("message", {a})
    /\ UNCHANGED connected

\* One handler may end several connections.
End(peers) ==
    /\ peers # {}
    /\ peers \subseteq connected
    /\ connected' = connected \ peers
    /\ last' = Post("gone", peers)

Next ==
    \/ \E a \in Addr : Connect(a) \/ Message(a)
    \/ \E peers \in SUBSET Addr : End(peers)

Spec == Init /\ [][Next]_vars
=============================================================================
