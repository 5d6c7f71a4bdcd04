----------------------------- MODULE MC_Sniffer -----------------------------
(***************************************************************************)
(* Sniffer on machines with one device, with 21 of the longest names, with *)
(* one more, and with many of which only the last does not fit.            *)
(***************************************************************************)
EXTENDS Sniffer

Names(count, length) == [c \in 1 .. count |-> length]

MCDeviceLists == {Names(1, 3), Names(21, 17), Names(22, 17), Names(28, 4), Names(29, 3)}
=============================================================================
