----------------------------- MODULE MCFraming -----------------------------
(* Bytes of one bit and headers of two: messages of one, two and three bytes *)
(* whose bytes could all pass for a header.                                  *)
EXTENDS Framing

MCMessage == {<<1>>, <<1, 0>>, <<0, 1, 1>>}
=============================================================================
