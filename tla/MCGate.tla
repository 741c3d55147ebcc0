------------------------------- MODULE MCGate -------------------------------
(* Two runners and the four channels the assumption asks for. *)
EXTENDS Gate
CONSTANTS r1, r2, c1, c2, c3, c4

MCRunners == {r1, r2}
MCChannels == {c1, c2, c3, c4}
=============================================================================
