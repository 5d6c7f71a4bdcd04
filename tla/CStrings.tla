------------------------------ MODULE CStrings ------------------------------
(***************************************************************************)
(* Character buffers and the C strings in them, as the programs use them.  *)
(* A buffer is a sequence of octets; index j here is index j-1 in C.  What *)
(* lies behind the end of a string is part of the buffer: it is the stale  *)
(* content a missing terminator would let through.  strtok's NULL is the   *)
(* empty text, which is no token.                                          *)
(***************************************************************************)
EXTENDS Integers, SequencesExt

NUL == 0
Zero == 48  \* the character '0', which the programs' memset writes

Octet == 0 .. 255

\* strlen(b) = k: the first NUL of b is at index k + 1; a buffer with no NUL
\* ends the search at its end (in C, beyond it).
IsStrLen(b, k) ==
    /\ k \in 0 .. Len(b)
    /\ k < Len(b) => b[k + 1] = NUL
    /\ \A j \in 1 .. k : b[j] # NUL

StrLen(b) == CHOOSE k \in 0 .. Len(b) : IsStrLen(b, k)

\* The string that starts at b.
CStr(b) == SubSeq(b, 1, StrLen(b))

IsTerminated(b) == \E j \in 1 .. Len(b) : b[j] = NUL

\* memset(b, c, size)
Filled(size, c) == [j \in 1 .. size |-> c]

\* What recvfrom(sock, b, size, ...) takes of a datagram: the rest is lost.
Truncate(d, size) == IF Len(d) <= size THEN d ELSE SubSeq(d, 1, size)

\* The buffer after d has been copied to its start ...
Overwrite(b, d) == [j \in 1 .. Len(b) |-> IF j <= Len(d) THEN d[j] ELSE b[j]]

\* ... and after b[n] = '\0'.
Terminate(b, n) == [b EXCEPT ![n + 1] = NUL]

\* Mutant: the whole buffer is offered to recvfrom.
ReceivedOffByOne(b, d) ==
    LET taken == Truncate(d, Len(b))
    IN  Terminate(Overwrite(b, taken), Len(taken))

\* Mutant: the buffer is cut to the datagram and its terminator.
ReceivedShort(b, d) == Append(Truncate(d, Len(b) - 1), NUL)

\* The buffer b after n = recvfrom(sock, b, BUFSIZE-1, ...) and b[n] = '\0',
\* the length of b being BUFSIZE.
Received(b, d) ==
    LET taken == Truncate(d, Len(b) - 1)
    IN  Terminate(Overwrite(b, taken), Len(taken))

\* Where a text first has a character, and another one; 0 for nowhere.
Find(text, c) == SelectInSeq(text, LAMBDA x : x = c)
FindOther(text, c) == SelectInSeq(text, LAMBDA x : x # c)

\* strtok(text, c): the token, and where the next call with NULL goes on.
strtok(text, c) ==
    LET from == FindOther(text, c)
        start == IF from = 0 THEN <<>> ELSE SubSeq(text, from, Len(text))
        end == Find(start, c)
    IN  IF end = 0 THEN [token |-> start, rest |-> <<>>]
        ELSE [token |-> SubSeq(start, 1, end - 1),
              rest |-> SubSeq(start, end + 1, Len(start))]
=============================================================================
