----------------------- MODULE MC_ThreadedEchoServer -----------------------
(***************************************************************************)
(* ThreadedEchoServer with texts of different lengths, so that a reply     *)
(* shows whose text it holds and whose length cut it, and heap blocks that *)
(* hold no terminator when they are allocated.                             *)
(***************************************************************************)
EXTENDS ThreadedEchoServer

CONSTANTS client1, client2

MCAddrs == {client1, client2}

\* "a" and "bb"
MCPayloads == {<<97>>, <<98, 98>>}

\* "xxx"
MCHeapContents == {Filled(BUFSIZE, 120)}
=============================================================================
