-------------------------- MODULE MCExampleServer --------------------------
(* Two peers and two requests, one of a chunk and one of none (an empty     *)
(* array is divided into an empty sequence); or one peer and one request of *)
(* two chunks, with every kind of message.                                  *)
EXTENDS ExampleServer, TLC

CONSTANTS a1, a2, sort, empty

TwoPeers == {a1, a2}
OnePeer == {a1}
Peers == Permutations(TwoPeers)

AllKinds == MessageKind
TaskKinds == {"task", "incomplete", "cancel"}

TwoWorks == {sort, empty}
OneWork == {sort}
ChunkOrNone == [w \in Work |-> IF w = sort THEN 1 ELSE 0]
TwoChunks == [w \in Work |-> 2]
=============================================================================
