------------------------------ MODULE MCRestart ------------------------------
(****************************************************************************)
(* Two replicas of php-fpm-mailcow.  The delays keep the order of the real  *)
(* ones: a restart is quicker than the pause before the next one, and all   *)
(* of it is quicker than the minimum uptime.                                *)
(****************************************************************************)
EXTENDS Restart
CONSTANTS c1, c2

MCContainers == {c1, c2}
=============================================================================
