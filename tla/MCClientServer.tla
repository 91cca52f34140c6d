--------------------------- MODULE MCClientServer ---------------------------
(* One request, divided into one chunk or, an empty array, into none, and a *)
(* first connection with or without a second one to replace it.  Nothing    *)
(* tells one address from another.                                          *)
EXTENDS ClientServer, TLC

CONSTANTS a1, a2, sort

OneAddr == {a1}
TwoAddrs == {a1, a2}
AddrSymmetry == Permutations(Addr)
MCWork == {sort}
OneChunk == [w \in Work |-> 1]
NoChunk == [w \in Work |-> 0]
=============================================================================
