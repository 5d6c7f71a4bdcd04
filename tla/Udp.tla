-------------------------------- MODULE Udp --------------------------------
(***************************************************************************)
(* UDP between the clients of an exercise and its server, as the kernel    *)
(* provides it: datagrams in flight may be lost, duplicated and reordered, *)
(* and one for a port nobody has open disappears.  Only the address of the *)
(* client is in a datagram: the server has one socket.                     *)
(***************************************************************************)
EXTENDS Integers, Bags, BagsExt

CONSTANTS
    MaxLosses,  \* bound: how many datagrams the network loses
    MaxDups     \* bound: how many it duplicates

ASSUME NetworkAssumption == MaxLosses \in Nat /\ MaxDups \in Nat

VARIABLES
    net,     \* the bag of datagrams in flight
    losses,  \* how many have been lost
    dups     \* how many have been duplicated

netvars == <<net, losses, dups>>

NetTypeOK ==
    /\ IsABag(net)
    /\ losses \in 0 .. MaxLosses
    /\ dups \in 0 .. MaxDups

NetInit ==
    /\ net = EmptyBag
    /\ losses = 0
    /\ dups = 0

ToServer(a, d) == [to |-> "server", addr |-> a, data |-> d]
ToClient(a, d) == [to |-> "client", addr |-> a, data |-> d]

SendTo(dgram) ==
    /\ net' = BagAdd(net, dgram)
    /\ UNCHANGED <<losses, dups>>

RecvFrom(dgram) ==
    /\ dgram \in DOMAIN net
    /\ net' = BagRemove(net, dgram)
    /\ UNCHANGED <<losses, dups>>

\* A datagram for a client address that no socket has.
Refuse(open) ==
    /\ \E dgram \in DOMAIN net :
          /\ dgram.to = "client" /\ dgram.addr \notin open
          /\ net' = BagRemove(net, dgram)
    /\ UNCHANGED <<losses, dups>>

Lose ==
    /\ losses < MaxLosses
    /\ \E dgram \in DOMAIN net : net' = BagRemove(net, dgram)
    /\ losses' = losses + 1
    /\ UNCHANGED dups

Duplicate ==
    /\ dups < MaxDups
    /\ \E dgram \in DOMAIN net : net' = BagAdd(net, dgram)
    /\ dups' = dups + 1
    /\ UNCHANGED losses

\* What the network does by itself, open being the addresses in use.
Network(open) == Refuse(open) \/ Lose \/ Duplicate
=============================================================================
