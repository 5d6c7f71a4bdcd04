------------------------------ MODULE EchoSpec ------------------------------
(***************************************************************************)
(* What the echo server of TD2 promises (server.c:58, "wait for a          *)
(* datagram, then echo it"): datagrams are answered one at a time, in the  *)
(* order they are received, each to its sender and with its own text.  The *)
(* text of a datagram is what the server's buffer holds of it, up to its   *)
(* first NUL.                                                              *)
(***************************************************************************)
EXTENDS CStrings

CONSTANTS
    Addrs,     \* the addresses datagrams come from
    Payloads,  \* what they carry
    BUFSIZE    \* the size of the server's buffer

VARIABLES
    rcvd,  \* the datagrams received, in order
    sent   \* the datagrams sent, in order

evars == <<rcvd, sent>>

Echo(d) == [addr |-> d.addr, data |-> CStr(Truncate(d.data, BUFSIZE - 1))]

Init ==
    /\ rcvd = <<>>
    /\ sent = <<>>

Receive ==
    /\ Len(sent) = Len(rcvd)
    /\ \E a \in Addrs, d \in Payloads :
          rcvd' = Append(rcvd, [addr |-> a, data |-> d])
    /\ UNCHANGED sent

Reply ==
    /\ Len(sent) < Len(rcvd)
    /\ sent' = Append(sent, Echo(rcvd[Len(rcvd)]))
    /\ UNCHANGED rcvd

Next == Receive \/ Reply

Spec == Init /\ [][Next]_evars
=============================================================================
