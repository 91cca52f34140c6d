---------------------------- MODULE MCNetThread ----------------------------
(* Settings with and without a local address, two destinations and none.    *)
EXTENDS NetThread

MCSettings == {
    [local |-> TRUE, dest |-> "h1"],
    [local |-> FALSE, dest |-> "h2"],
    [local |-> TRUE, dest |-> NoHost]}
=============================================================================
