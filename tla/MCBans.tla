------------------------------- MODULE MCBans -------------------------------
(****************************************************************************)
(* Two addresses, and a budget that one round of new bans does not spend.   *)
(****************************************************************************)
EXTENDS Bans
CONSTANTS a1, a2

MCAddresses == {a1, a2}
=============================================================================
