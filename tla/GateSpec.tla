------------------------------ MODULE GateSpec ------------------------------
(****************************************************************************)
(* What the pause gate promises the check runners, with no channel in       *)
(* sight: a flag, and for every runner inside Gate.Wait the verdict it is   *)
(* bound to.  Gate.tla is the gate the code builds out of channels, and     *)
(* Supervisor.tla is built on this module.                                  *)
(****************************************************************************)
CONSTANT Runners        \* the check runners, one goroutine each

VARIABLES paused,       \* Gate.Paused()
          ticket,       \* ticket[r]: what runner r is waiting on inside Wait
          cancelled     \* ctx is done

gateVars == <<paused, ticket, cancelled>>

\* "none": not in Wait; "blocked": waits for a Resume; "go": may return nil
Tickets == {"none", "blocked", "go"}

GateTypeOK ==
  /\ paused \in BOOLEAN
  /\ ticket \in [Runners -> Tickets]
  /\ cancelled \in BOOLEAN

GateInit ==
  /\ paused = FALSE
  /\ ticket = [r \in Runners |-> "none"]
  /\ cancelled = FALSE

-----------------------------------------------------------------------------
\* Pausing takes effect for the runners that arrive from now on.
Pause == paused' = TRUE /\ UNCHANGED ticket

\* Resume for the runners still to come only.
ResumeForgetsWaiters == paused' = FALSE /\ UNCHANGED ticket

\* Resuming releases everyone who waits, for good: a later Pause does not
\* take the release back.
Resume ==
  /\ paused' = FALSE
  /\ ticket' = [r \in Runners |-> IF ticket[r] = "blocked" THEN "go" ELSE ticket[r]]

\* The first half of Wait: the channel is read under the mutex.
Arrive(r) ==
  /\ ticket[r] = "none"
  /\ ticket' = [ticket EXCEPT ![r] = IF paused THEN "blocked" ELSE "go"]
  /\ UNCHANGED paused

\* Wait returns nil.
Pass(r) ==
  /\ ticket[r] = "go"
  /\ ticket' = [ticket EXCEPT ![r] = "none"]
  /\ UNCHANGED paused

\* Wait returns ctx.Err(): select may choose ctx.Done() even if the gate is open.
GiveUp(r) ==
  /\ cancelled
  /\ ticket[r] # "none"
  /\ ticket' = [ticket EXCEPT ![r] = "none"]
  /\ UNCHANGED paused

GateCancel == ~cancelled /\ cancelled' = TRUE

GateNext ==
  \/ Pause /\ UNCHANGED cancelled
  \/ Resume /\ UNCHANGED cancelled
  \/ \E r \in Runners : (Arrive(r) \/ Pass(r) \/ GiveUp(r)) /\ UNCHANGED cancelled
  \/ GateCancel /\ UNCHANGED <<paused, ticket>>

GateSafety == GateInit /\ [][GateNext]_gateVars

\* A runner with a ticket to go is scheduled, whatever happens to the gate.
GateFairness ==
  \A r \in Runners : WF_gateVars((Pass(r) \/ GiveUp(r)) /\ UNCHANGED cancelled)

GateSpecification == GateSafety /\ GateFairness
=============================================================================
