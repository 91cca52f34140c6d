--------------------------- MODULE MessageStream ---------------------------
(***************************************************************************)
(* What both programs take a connection for: whole messages come out in    *)
(* the order in which they went in, until the connection breaks; then the  *)
(* ones on their way are lost.  Module ClientServer uses its connection    *)
(* like this (up and down); module Framing is how it is done with bytes.   *)
(***************************************************************************)
EXTENDS Sequences

CONSTANTS
    Message,
    NoMessage

VARIABLES
    due,    \* messages sent and not read yet
    last    \* the message read last

vars == <<due, last>>

Init == due = << >> /\ last = NoMessage

Send(m) ==
    /\ due' = Append(due, m)
    /\ UNCHANGED last

Read ==
    /\ due # << >>
    /\ last' = Head(due)
    /\ due' = Tail(due)

Break == due' = << >> /\ last' = NoMessage

Next == (\E m \in Message : Send(m)) \/ Read \/ Break

Spec == Init /\ [][Next]_vars
=============================================================================
