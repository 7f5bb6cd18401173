---------------------------- MODULE MCMdnsQuery ----------------------------
(* Two responders, one of which sends its address first, and two           *)
(* addresses for searches that follow one another.                         *)
EXTENDS MdnsQuery
CONSTANTS r1, r2
MCResponders == {r1, r2}
MCAddressFirst == {r2}
MCAddresses == {1, 2}
=============================================================================
