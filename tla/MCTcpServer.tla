---------------------------- MODULE MCTcpServer ----------------------------
(* Two addresses that one user may come from and one of another user, all   *)
(* at one host.                                                             *)
EXTENDS TcpServer

CONSTANTS s1, s2, a1, a2, a3, u1, u2, h1, pw

MCSocket == {s1, s2}
MCAddr == {a1, a2, a3}
MCHost == {h1}
MCHostOf == [a \in Addr |-> h1]
MCUser == {u1, u2}
MCUserOf == [a \in Addr |-> IF a = a3 THEN u2 ELSE u1]
MCPassword == {pw}
=============================================================================
