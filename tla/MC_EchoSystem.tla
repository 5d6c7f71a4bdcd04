---------------------------- MODULE MC_EchoSystem ----------------------------
(***************************************************************************)
(* EchoSystem with a buffer of four characters: one line fits, one is cut  *)
(* by fgets, and the text of a client without input is cut by the server.  *)
(***************************************************************************)
EXTENDS EchoSystem

CONSTANTS port1, port2, fancy1, plain1

MCAddrs == {port1, port2}
MCFancy == {fancy1}
MCPlain == {plain1}

\* "a" and "bcd"
MCLines == {<<97>>, <<98, 99, 100>>}

\* What a client's buffer can hold when it is sent.
MCPayloads == {CStr(Typed(line)) : line \in MCLines} \union {CStr(Blank)}
=============================================================================
