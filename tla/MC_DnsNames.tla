---------------------------- MODULE MC_DnsNames ----------------------------
(***************************************************************************)
(* DnsNames with a buffer that happened to be zero and one that was not,   *)
(* and random numbers below and above 16 bits.                             *)
(***************************************************************************)
EXTENDS DnsNames

MCFlags == {<<0, 0>>, <<255, 255>>}
MCRandomIds == {258, 65535, 65536 + 513}
=============================================================================
