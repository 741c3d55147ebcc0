----------------------------- MODULE GateProofs -----------------------------
(****************************************************************************)
(* The gate's correctness for any number of runners: the types, that no     *)
(* runner is stranded, that Pause always finds a channel, and that the      *)
(* channels implement GateSpec.                                             *)
(****************************************************************************)
EXTENDS Gate, FunctionTheorems, FiniteSetTheorems, TLAPS

\* A Pause (gate.go:33) is never refused: with the gate's channel and at most
\* one per runner in use, the model's finite heap still has one to allocate.
THEOREM PauseFindsAChannel ==
  ASSUME TypeOK
  PROVE  Unused # {}
<1> USE GateAssumption
<1> DEFINE Held == {holds[r] : r \in Runners}
           InUse == Held \cup {current}
<1>1. holds \in Surjection(Runners, Held)
  BY DEF Surjection, TypeOK
<1>2. IsFiniteSet(Held) /\ Cardinality(Held) <= Cardinality(Runners)
  BY <1>1, FS_Surjection
<1>3. IsFiniteSet(InUse) /\ Cardinality(InUse) <= Cardinality(Runners) + 1
  <2>1. Cardinality(Held) \in Nat /\ Cardinality(Runners) \in Nat
    BY <1>2, FS_CardinalityType
  <2> HIDE DEF Held
  <2>2. /\ IsFiniteSet(InUse)
        /\ \/ Cardinality(InUse) = Cardinality(Held)
           \/ Cardinality(InUse) = Cardinality(Held) + 1
    BY <1>2, FS_AddElement
  <2>3. QED
    BY <2>1, <2>2, <1>2
<1>4. ~(Channels \subseteq InUse)
  <2> SUFFICES ASSUME Channels \subseteq InUse PROVE FALSE
    OBVIOUS
  <2>1. Cardinality(Channels) <= Cardinality(InUse)
    BY <1>3, FS_Subset
  <2>2. QED
    BY <2>1, <1>3, FS_CardinalityType
<1>5. PICK ch \in Channels : ch \notin InUse
  BY <1>4
<1>6. QED
  BY <1>5 DEF Unused

\* Every operation keeps the types.  Pause of a paused gate changes nothing,
\* as does a stutter; the other Pause is the only step that moves `current`.
LEMMA TypesKept == TypeOK /\ [Next]_vars => TypeOK'
<1> SUFFICES ASSUME TypeOK, Next, ~UNCHANGED vars
             PROVE  TypeOK'
  BY DEF TypeOK, vars
<1> USE DEF TypeOK
<1>cancel. Cancel => TypeOK'
  BY DEF Cancel
<1>wait. ASSUME NEW r \in Runners, Arrive(r) \/ Pass(r) \/ GiveUp(r)
         PROVE  TypeOK'
  BY <1>wait DEF Arrive, Pass, GiveUp
<1>resume. Resume => TypeOK'
  BY DEF Resume
<1>pause. Pause => TypeOK'
  <2> SUFFICES ASSUME NEW ch \in Unused, current' = ch, closed' = closed \ {ch},
                      UNCHANGED <<holds, cancelled>>
               PROVE  TypeOK'
    BY DEF Pause
  <2> QED
    BY DEF Unused
<1> QED
  BY <1>pause, <1>resume, <1>wait, <1>cancel DEF Next

\* Every variable keeps its type in every execution.
THEOREM TypeCorrect == Safety => []TypeOK
<1>initially. Init => TypeOK
  BY DEF Init, TypeOK
<1> QED
  BY <1>initially, TypesKept, PTL DEF Safety

\* The step of the stranding argument, told by what happens to the gate: a
\* Pause that takes effect replaces a channel that is closed already, and takes
\* one nobody holds; a Resume closes the one channel that could strand somebody;
\* a runner that arrives takes the current channel, and one that leaves holds
\* none.
LEMMA StrandingStep ==
  TypeOK /\ NoStrandedWaiter /\ [Next]_vars => NoStrandedWaiter'
<1> SUFFICES ASSUME TypeOK, NoStrandedWaiter, Next \/ UNCHANGED vars,
                    NEW q \in Runners,
                    holds'[q] \in Channels, holds'[q] \notin closed'
             PROVE  holds'[q] = current'
  BY DEF NoStrandedWaiter
<1> USE GateAssumption DEF TypeOK, NoStrandedWaiter
<1>same. ASSUME UNCHANGED <<current, closed, holds>>
         PROVE  holds'[q] = current'
  BY <1>same
<1>replaced. ASSUME NEW ch \in Unused, current \in closed, current' = ch,
                    closed' = closed \ {ch}, UNCHANGED holds
             PROVE  holds'[q] = current'
  <2>1. holds[q] # ch
    BY DEF Unused
  <2>2. holds[q] \notin closed
    BY <1>replaced, <2>1
  <2> QED
    BY <1>replaced, <2>2
<1>resumed. ASSUME Resume PROVE FALSE
  BY <1>resumed DEF Resume
<1>wait. ASSUME NEW r \in Runners, Arrive(r) \/ Pass(r) \/ GiveUp(r)
         PROVE  holds'[q] = current'
  BY <1>wait DEF Arrive, Pass, GiveUp
<1> QED
  BY <1>same, <1>replaced, <1>resumed, <1>wait DEF Next, Pause, Cancel, vars

\* No runner is ever left waiting on a channel nobody will close.
THEOREM NobodyStranded == Safety => []NoStrandedWaiter
<1>1. Init => NoStrandedWaiter
  BY GateAssumption DEF Init, NoStrandedWaiter
<1>2. QED
  BY <1>1, StrandingStep, TypeCorrect, PTL DEF Safety

\* A Pause binds everyone at once: while the gate stays paused no runner that
\* was waiting, or that begins to, comes to hold a closed channel (gate.go:33,
\* gate.go:66), though channels are allocated again and again.
THEOREM PausedMeansPaused == Safety => NoReleaseWhilePaused
<1> DEFINE Kept(r) ==
      (holds[r] \notin closed /\ holds'[r] # NoChannel) => holds'[r] \notin closed'
<1>1. TypeOK /\ [Next]_vars =>
        [current \notin closed /\ current' \notin closed' => \A r \in Runners : Kept(r)]_vars
  <2> SUFFICES ASSUME TypeOK, Next, current \notin closed, current' \notin closed',
                      NEW q \in Runners
               PROVE  Kept(q)
    OBVIOUS
  <2> USE DEF TypeOK
  <2>pause. Pause => Kept(q)
    BY DEF Pause, vars
  <2>resume. ~Resume
    BY DEF Resume
  <2>arrive. ASSUME NEW r \in Runners, Arrive(r)
             PROVE  Kept(q)
    BY <2>arrive DEF Arrive
  <2>leave. ASSUME NEW r \in Runners, Pass(r) \/ GiveUp(r)
            PROVE  Kept(q)
    BY <2>leave DEF Pass, GiveUp
  <2>cancel. Cancel => Kept(q)
    BY DEF Cancel
  <2> QED
    BY <2>pause, <2>resume, <2>arrive, <2>leave, <2>cancel DEF Next
<1>2. QED
  BY <1>1, TypeCorrect, PTL DEF Safety, NoReleaseWhilePaused

-----------------------------------------------------------------------------
\* Each step of the channels is a step of the promise, or changes nothing it
\* can see (a Pause of a paused gate, a Resume of an open one).
LEMMA RefinementStep ==
  TypeOK /\ NoStrandedWaiter /\ [Next]_vars => [Abstract!GateNext]_(Abstract!gateVars)
<1> SUFFICES ASSUME TypeOK, NoStrandedWaiter, [Next]_vars
             PROVE  [Abstract!GateNext]_(Abstract!gateVars)
  OBVIOUS
<1> USE GateAssumption DEF TypeOK, Verdict, Abstract!gateVars
<1>1. CASE Pause
  <2>1. CASE current \notin closed
    BY <1>1, <2>1 DEF Pause, vars
  <2>2. CASE current \in closed
    <3>1. PICK ch \in Unused : current' = ch /\ closed' = closed \ {ch}
      BY <1>1, <2>2 DEF Pause
    <3>2. UNCHANGED <<holds, cancelled>>
      BY <1>1, <2>2 DEF Pause, vars
    <3>3. \A r \in Runners : Verdict(r)' = Verdict(r)
      BY <3>1, <3>2 DEF Unused
    <3>4. Abstract!Pause
      BY <3>1, <3>2, <3>3 DEF Abstract!Pause, Unused
    <3>5. QED
      BY <3>2, <3>4 DEF Abstract!GateNext
  <2>3. QED
    BY <2>1, <2>2
<1>2. CASE Resume
  <2>1. \A r \in Runners : Verdict(r)' = IF Verdict(r) = "blocked" THEN "go" ELSE Verdict(r)
    BY <1>2 DEF Resume, NoStrandedWaiter
  <2>2. Abstract!Resume
    BY <1>2, <2>1 DEF Resume, Abstract!Resume
  <2>3. QED
    BY <1>2, <2>2 DEF Resume, Abstract!GateNext
<1>3. ASSUME NEW r \in Runners, Arrive(r) PROVE Abstract!Arrive(r) /\ UNCHANGED cancelled
  BY <1>3 DEF Arrive, Abstract!Arrive
<1>4. ASSUME NEW r \in Runners, Pass(r) PROVE Abstract!Pass(r) /\ UNCHANGED cancelled
  BY <1>4 DEF Pass, Abstract!Pass
<1>5. ASSUME NEW r \in Runners, GiveUp(r) PROVE Abstract!GiveUp(r) /\ UNCHANGED cancelled
  BY <1>5 DEF GiveUp, Abstract!GiveUp
<1>6. CASE Cancel
  BY <1>6 DEF Cancel, Abstract!GateCancel, Abstract!GateNext
<1>7. CASE UNCHANGED vars
  BY <1>7 DEF vars
<1>8. QED
  BY <1>1, <1>2, <1>3, <1>4, <1>5, <1>6, <1>7 DEF Next, Abstract!GateNext

\* The gate of channels implements the gate the supervisor relies on.
THEOREM GateRefinement == Safety => ImplementsGateSafety
<1>1. Init => Abstract!GateInit
  BY GateAssumption DEF Init, Abstract!GateInit, Verdict
<1>2. QED
  BY <1>1, RefinementStep, TypeCorrect, NobodyStranded, PTL
     DEF Safety, ImplementsGateSafety, Abstract!GateSafety
=============================================================================
