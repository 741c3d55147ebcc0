------------------------------ MODULE Incidents ------------------------------
(****************************************************************************)
(* What the event channel and the supervisor loop promise about spent       *)
(* budgets, with neither in sight: every exhausted budget becomes one       *)
(* incident, incidents are acted on one at a time and each of them once,    *)
(* none is invented, and only a shutdown may drop one.  Supervisor.tla      *)
(* implements this.                                                         *)
(****************************************************************************)
EXTENDS Integers

CONSTANTS Runners,      \* the check runners
          NoCheck,      \* nothing is being acted on
          MaxOwed       \* incidents of one check that can be outstanding

VARIABLES owed,         \* owed[r]: incidents of r nobody has begun to act on
          acting,       \* the check whose incident is being acted on
          cancelled     \* ctx is done

incidentVars == <<owed, acting, cancelled>>

IncidentsInit ==
  /\ owed = [r \in Runners |-> 0]
  /\ acting = NoCheck
  /\ cancelled = FALSE

\* r's budget is spent.
Exhaust(r) ==
  /\ owed[r] < MaxOwed
  /\ owed' = [owed EXCEPT ![r] = @ + 1]
  /\ UNCHANGED <<acting, cancelled>>

\* The supervisor takes up an incident of r ...
Begin(r) ==
  /\ acting = NoCheck
  /\ owed[r] > 0
  /\ owed' = [owed EXCEPT ![r] = @ - 1]
  /\ acting' = r
  /\ UNCHANGED cancelled

\* ... and is done with it before it takes up another.
Finish ==
  /\ acting # NoCheck
  /\ acting' = NoCheck
  /\ UNCHANGED <<owed, cancelled>>

\* A runner that stops drops the incident it carried.
Abandon(r) ==
  /\ cancelled
  /\ owed[r] > 0
  /\ owed' = [owed EXCEPT ![r] = @ - 1]
  /\ UNCHANGED <<acting, cancelled>>

Shutdown == ~cancelled /\ cancelled' = TRUE /\ UNCHANGED <<owed, acting>>

IncidentsNext ==
  \/ \E r \in Runners : Exhaust(r) \/ Begin(r) \/ Abandon(r)
  \/ Finish
  \/ Shutdown

IncidentsSafety == IncidentsInit /\ [][IncidentsNext]_incidentVars
=============================================================================
