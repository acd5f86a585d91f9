----------------------------- MODULE MCWgPeers -----------------------------
(***************************************************************************)
(* Small instances of WgPeers for TLC: an address in the subnet of the     *)
(* server, one outside it, and one text that only looks like an address.   *)
(***************************************************************************)
EXTENDS WgPeers

CONSTANTS near, far, word

Subnet == {near, word}
Parsed == {near, far}
AllTexts == Subnet \cup Parsed
Relays == {near}
=============================================================================
