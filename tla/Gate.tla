-------------------------------- MODULE Gate --------------------------------
(****************************************************************************)
(* internal/supervisor/gate.go: the gate as the code builds it.  The open   *)
(* gate is a closed channel.  Pause puts a new, unclosed channel in its     *)
(* place; Resume closes the current one; Wait copies the channel under the  *)
(* mutex and then blocks on the copy, so that a runner can still hold a     *)
(* channel the gate has long replaced.                                      *)
(*                                                                          *)
(* A Go channel is garbage once neither the gate nor a waiting runner       *)
(* refers to it, and `make` may hand out the same memory again: a finite    *)
(* set of channels therefore allows any number of pauses.                   *)
(****************************************************************************)
EXTENDS FiniteSets, Integers

CONSTANTS Runners,      \* the goroutines that call Wait
          Channels,     \* the memory channels are made in
          NoChannel     \* a runner outside Wait holds this

ASSUME GateAssumption ==
  /\ NoChannel \notin Channels
  /\ Runners # {}
  /\ IsFiniteSet(Runners) /\ IsFiniteSet(Channels)
  \* the current channel, one per waiting runner, and one left to allocate
  /\ Cardinality(Channels) >= Cardinality(Runners) + 2

VARIABLES current,      \* Gate.open: the channel the gate points at
          closed,       \* the channels that have been closed
          holds,        \* holds[r]: the channel r copied in Wait
          cancelled     \* ctx is done

vars == <<current, closed, holds, cancelled>>

TypeOK ==
  /\ current \in Channels
  /\ closed \subseteq Channels
  /\ holds \in [Runners -> Channels \cup {NoChannel}]
  /\ cancelled \in BOOLEAN

\* The channels make(chan struct{}) can return: nothing refers to them.
Unused == {ch \in Channels : ch # current /\ \A r \in Runners : holds[r] # ch}

\* NewGate: an open gate, that is, a closed channel.
Init ==
  /\ current \in Channels
  /\ closed = {current}
  /\ holds = [r \in Runners |-> NoChannel]
  /\ cancelled = FALSE

-----------------------------------------------------------------------------
\* Pause with the select left out: every call installs a new channel.
PauseAlwaysReplaces ==
  \E ch \in Unused :
    /\ current' = ch
    /\ closed' = closed \ {ch}
    /\ UNCHANGED <<holds, cancelled>>

\* Pause that wakes the runners of the channel it replaces.
PauseClosesReplaced ==
  \E ch \in Unused :
    /\ closed' = (closed \cup {current}) \ {ch}
    /\ current' = ch
    /\ UNCHANGED <<holds, cancelled>>

\* Pausing a paused gate must not replace the channel: runners wait on it.
Pause ==
  \/ /\ current \in closed
     /\ \E ch \in Unused :
          /\ current' = ch
          /\ closed' = closed \ {ch}
     /\ UNCHANGED <<holds, cancelled>>
  \/ current \notin closed /\ UNCHANGED vars

Resume ==
  /\ closed' = closed \cup {current}
  /\ UNCHANGED <<current, holds, cancelled>>

\* Wait, up to the unlock.
Arrive(r) ==
  /\ holds[r] = NoChannel
  /\ holds' = [holds EXCEPT ![r] = current]
  /\ UNCHANGED <<current, closed, cancelled>>

\* Wait that returns as soon as the gate is open now, whatever was copied.
PassIfOpenNow(r) ==
  /\ holds[r] # NoChannel
  /\ current \in closed
  /\ holds' = [holds EXCEPT ![r] = NoChannel]
  /\ UNCHANGED <<current, closed, cancelled>>

\* Wait's select, case <-open.
Pass(r) ==
  /\ holds[r] # NoChannel
  /\ holds[r] \in closed
  /\ holds' = [holds EXCEPT ![r] = NoChannel]
  /\ UNCHANGED <<current, closed, cancelled>>

\* Wait's select, case <-ctx.Done().
GiveUp(r) ==
  /\ holds[r] # NoChannel
  /\ cancelled
  /\ holds' = [holds EXCEPT ![r] = NoChannel]
  /\ UNCHANGED <<current, closed, cancelled>>

Cancel ==
  /\ ~cancelled
  /\ cancelled' = TRUE
  /\ UNCHANGED <<current, closed, holds>>

Next ==
  \/ Pause
  \/ Resume
  \/ \E r \in Runners : Arrive(r) \/ Pass(r) \/ GiveUp(r)
  \/ Cancel

Safety == Init /\ [][Next]_vars

Fairness == \A r \in Runners : WF_vars(Pass(r) \/ GiveUp(r))

Spec == Safety /\ Fairness

-----------------------------------------------------------------------------
\* A runner that holds an unclosed channel holds the gate's current one, the
\* one the next Resume closes.  A runner left on a replaced, unclosed channel
\* would wait for ever and its check would silently never run again.
NoStrandedWaiter ==
  \A r \in Runners :
    holds[r] \in Channels /\ holds[r] \notin closed => holds[r] = current

\* While the gate stays paused nobody's wait is decided in its favour, so a
\* Pause lets each runner begin at most the one round it was already released
\* for ("Runners already inside a round finish it; the next one blocks").
NoReleaseWhilePaused ==
  [][current \notin closed /\ current' \notin closed' =>
       \A r \in Runners :
         (holds[r] \notin closed /\ holds'[r] # NoChannel) => holds'[r] \notin closed']_vars

\* A runner that waits when the gate is resumed gets through, even if the gate
\* is paused again before the runner is scheduled: the release is not lost, as
\* a SIGCONT to the shell's workers could be.
ReleaseIsNotLost ==
  \A r \in Runners :
    (holds[r] # NoChannel /\ holds[r] \in closed) ~> (holds[r] = NoChannel)

-----------------------------------------------------------------------------
Verdict(r) ==
  IF holds[r] = NoChannel THEN "none" ELSE IF holds[r] \in closed THEN "go" ELSE "blocked"

Abstract == INSTANCE GateSpec WITH
  paused <- current \notin closed,
  ticket <- [r \in Runners |-> Verdict(r)]

\* The channels implement the promise of GateSpec.
ImplementsGateSpec == Abstract!GateSpecification
ImplementsGateSafety == Abstract!GateSafety
=============================================================================
