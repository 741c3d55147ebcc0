---------------------------- MODULE MCSupervisor ----------------------------
(****************************************************************************)
(* Two checks: one whose event restarts a container (php-fpm, which has the *)
(* longest path) and one whose event only notifies.  Budgets of 3 and 1,    *)
(* and rounds that pass or cost 2 points.                                   *)
(****************************************************************************)
EXTENDS Supervisor
CONSTANTS web, mail

MCRunners == {web, mail}
MCThreshold == [r \in MCRunners |-> IF r = web THEN 3 ELSE 1]
MCReaction == [r \in MCRunners |-> IF r = web THEN "php-fpm" ELSE "bans"]
MCWeights == {0, 2}

\* The small instance for the liveness properties.
LiveThreshold == [r \in MCRunners |-> 1]
LiveReaction == [r \in MCRunners |-> IF r = web THEN "restart" ELSE "alert"]
LiveWeights == {1}
=============================================================================
