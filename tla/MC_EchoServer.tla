--------------------------- MODULE MC_EchoServer ---------------------------
(***************************************************************************)
(* EchoServer with a buffer of three characters: texts of every length up  *)
(* to four over one letter and NUL, so that a datagram may be empty, fit   *)
(* exactly, lose its end, or have a NUL anywhere.                          *)
(***************************************************************************)
EXTENDS EchoServer

CONSTANTS client1, client2

Letter == 97

MCAddrs == {client1, client2}

MCPayloads == UNION {[1 .. n -> {NUL, Letter}] : n \in 0 .. BUFSIZE + 1}
=============================================================================
