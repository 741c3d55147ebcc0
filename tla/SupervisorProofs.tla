-------------------------- MODULE SupervisorProofs --------------------------
(****************************************************************************)
(* The supervisor's safety for any checks, budgets, weights and replicas.   *)
(* To the properties the inductive invariant adds three facts: restart's    *)
(* loop has a replica left while it works on one, the supervisor's select   *)
(* is reached with nothing in hand, and only a sleeping runner remembers a  *)
(* dead snapshot.  Then come the ledger of incidents, which counts the      *)
(* events in the channel, and the shutdown, which counts the steps left.    *)
(****************************************************************************)
EXTENDS Supervisor, FiniteSetTheorems, TLAPS

\* restart's loop over the matches: todo counts the one it is at.
ReplicaLeft ==
  sup \in {"replicas", "migrating", "announcing", "settling"} => todo > 0

\* The dead snapshot is used, or gone, once the runner is awake.
DoomedAsleep == \A r \in Runners : doomed[r] => pc[r] = "sleeping"

\* The supervisor's select is reached with nothing in hand.
IdleHandlesNothing == sup = "select" => handling = NoCheck

IInv ==
  /\ TypeOK
  /\ IdleHandlesNothing
  /\ ReplicaLeft
  /\ DoomedAsleep
  /\ PauseHasOwner
  /\ GaugeHasOwner
  /\ BlockedOnlyWhilePaused
  /\ ExhaustionIsPending

\* What a round costs, and what Heal gives back, never takes a budget below
\* nothing (health.go:104 and health.go:130).
LEMMA BudgetArithmetic ==
  ASSUME NEW e \in Nat, NEW w \in Nat, NEW p \in Nat, NEW t \in Nat \ {0}
  PROVE  /\ Spend(e, w) \in Nat
         /\ Repay(e, p) \in Nat /\ Repay(e, p) <= e
         /\ Budget(t) = t
         /\ Dead(Remaining(Budget(t), e)) <=> e >= Budget(t)
BY DEF Spend, Repay, Budget, Remaining, Dead, AtLeastZero

\* No step of the arithmetic forgives more than it says.
LEMMA BudgetDecrease ==
  ASSUME NEW e \in Nat, NEW w \in Nat, NEW p \in Nat
  PROVE  Spend(e, w) >= e - 1 /\ Repay(e, p) >= e - p
BY DEF Spend, Repay, AtLeastZero

LEMMA BufferIsNat == Buffer \in Nat
BY SupervisorAssumption, FS_CardinalityType DEF Buffer

LEMMA InitEstablishes == Init => IInv
<1> SUFFICES ASSUME Init PROVE IInv
  OBVIOUS
<1> USE SupervisorAssumption, BufferIsNat DEF Init, GateInit
<1>1. TypeOK
  <2>1. GateTypeOK /\ pc \in [Runners -> RunnerPlaces] /\ err \in [Runners -> Nat]
    BY DEF GateTypeOK, Tickets, RunnerPlaces
  <2>2. doomed \in [Runners -> BOOLEAN]
    OBVIOUS
  <2>3. events \in Seq(Runners) /\ Len(events) <= Buffer
    OBVIOUS
  <2>4. /\ sup \in SupPlaces /\ handling \in Runners \cup {NoCheck} /\ todo \in Nat
        /\ watch \in WatchPlaces /\ held \in BOOLEAN /\ toHeal \subseteq Runners
        /\ gauge \in BOOLEAN
    BY DEF SupPlaces, WatchPlaces
  <2>5. QED
    BY <2>1, <2>2, <2>3, <2>4 DEF TypeOK
<1>2. /\ ReplicaLeft /\ IdleHandlesNothing /\ DoomedAsleep /\ PauseHasOwner /\ GaugeHasOwner
      /\ BlockedOnlyWhilePaused
  BY DEF ReplicaLeft, IdleHandlesNothing, DoomedAsleep, PauseHasOwner, GaugeHasOwner, BlockedOnlyWhilePaused
<1>3. ExhaustionIsPending
  BY DEF ExhaustionIsPending, Budget
<1>4. QED
  BY <1>1, <1>2, <1>3 DEF IInv

-----------------------------------------------------------------------------
\* The steps of a runner.
LEMMA RunnerKeepsTypes ==
  ASSUME TypeOK, NEW r \in Runners, RunnerStep(r)
  PROVE  TypeOK'
<1> USE DEF TypeOK, GateTypeOK, Tickets, RunnerPlaces, gateVars, runnerVars, supVars, watchVars
<1>1. CASE EnterWait(r)
  BY <1>1 DEF EnterWait, Arrive
<1>2. CASE LeaveWait(r)
  BY <1>2 DEF LeaveWait, Pass
<1>3. CASE StopInWait(r)
  BY <1>3 DEF StopInWait, GiveUp
<1>4. CASE Round(r)
  <2>1. PICK weight \in Weights :
          /\ err' = [err EXCEPT ![r] = Spend(err[r], weight)]
          /\ doomed' = [doomed EXCEPT ![r] =
               ~cancelled /\ Dead(Remaining(Budget(Threshold[r]), Spend(err[r], weight)))]
    BY <1>4 DEF Round
  <2>2. Spend(err[r], weight) \in Nat
    BY <2>1, SupervisorAssumption, BudgetArithmetic
  <2>3. err' \in [Runners -> Nat]
    BY <2>1, <2>2
  <2>4. doomed' \in [Runners -> BOOLEAN]
    BY <2>1, Zenon
  <2>5. pc' \in [Runners -> RunnerPlaces]
    BY <1>4 DEF Round
  <2>6. UNCHANGED <<cancelled, paused, ticket, events, supVars, watchVars, gauge>>
    BY <1>4 DEF Round
  <2>7. QED
    BY <2>3, <2>4, <2>5, <2>6
<1>5. CASE Wake(r)
  <2>1. err' \in [Runners -> Nat] /\ pc' \in [Runners -> RunnerPlaces]
    <3>1. \/ err' = [err EXCEPT ![r] = 0] /\ pc' = [pc EXCEPT ![r] = "sending"]
          \/ err' = err /\ pc' = [pc EXCEPT ![r] = "start"]
      BY <1>5, Zenon DEF Wake
    <3>2. [err EXCEPT ![r] = 0] \in [Runners -> Nat]
      OBVIOUS
    <3>3. err' \in [Runners -> Nat]
      BY <3>1, <3>2, Zenon
    <3>4. pc' \in [Runners -> RunnerPlaces]
      BY <3>1
    <3>5. QED
      BY <3>3, <3>4
  <2>2. doomed' \in [Runners -> BOOLEAN]
    BY <1>5 DEF Wake
  <2>3. UNCHANGED <<cancelled, paused, ticket, events, supVars, watchVars, gauge>>
    BY <1>5 DEF Wake
  <2>4. QED
    BY <2>1, <2>2, <2>3
<1>6. CASE Send(r)
  <2>1. events' \in Seq(Runners) /\ Len(events') = Len(events) + 1
    BY <1>6 DEF Send
  <2>2. Len(events') <= Buffer
    BY <1>6, <2>1, BufferIsNat DEF Send
  <2>3. Len(events)' <= Buffer
    BY <2>2
  <2>4. pc' \in [Runners -> RunnerPlaces]
        /\ UNCHANGED <<gateVars, err, doomed, supVars, watchVars, gauge>>
    BY <1>6 DEF Send
  <2>5. QED
    BY <2>1, <2>3, <2>4
<1>7. CASE Stop(r)
  BY <1>7 DEF Stop
<1>8. QED
  BY <1>1, <1>2, <1>3, <1>4, <1>5, <1>6, <1>7 DEF RunnerStep

\* The steps of the supervisor's loop.
LEMMA SupKeepsTypes ==
  ASSUME TypeOK, ReplicaLeft, SupStep
  PROVE  TypeOK'
<1> USE SupervisorAssumption, BufferIsNat
    DEF TypeOK, GateTypeOK, Tickets, SupPlaces, gateVars, runnerVars, supVars, watchVars
<1>1. CASE Receive
  <2>1. events \in Seq(Runners) /\ events # <<>>
    BY <1>1 DEF Receive
  <2>2. Head(events) \in Runners /\ Tail(events) \in Seq(Runners)
        /\ Len(Tail(events)) <= Buffer
    BY <2>1
  <2>3. todo' \in Nat
    BY <1>1, <2>2 DEF Receive, Alerts, Reactions
  <2>4. QED
    BY <1>1, <2>2, <2>3 DEF Receive
<1>2. CASE Notify
  BY <1>2 DEF Notify, Done
<1>3. CASE SupPauses
  BY <1>3 DEF SupPauses, Pause, SupGoes
<1>4. CASE SupReportsPause
  BY <1>4 DEF SupReportsPause, SupGoes
<1>5. CASE Drain
  BY <1>5 DEF Drain, SupGoes
<1>6. CASE LookUp
  BY <1>6 DEF LookUp, SupGoes
<1>7. CASE PassOver
  BY <1>7 DEF PassOver, Advance, ReplicaLeft
<1>8. CASE FindMigration
  BY <1>8 DEF FindMigration, SupGoes
<1>9. CASE RestartReplica
  BY <1>9 DEF RestartReplica, SupGoes
<1>10. CASE Announce
  BY <1>10 DEF Announce, SupGoes
<1>11. CASE SettleDone
  BY <1>11 DEF SettleDone, Advance, ReplicaLeft
<1>12. CASE SupResumes
  BY <1>12 DEF SupResumes, Resume, SupGoes
<1>13. CASE SupReportsResume
  BY <1>13 DEF SupReportsResume, Done
<1>14. CASE SupStops
  BY <1>14 DEF SupStops, SupGoes
<1>15. QED
  BY <1>1, <1>2, <1>3, <1>4, <1>5, <1>6, <1>7, <1>8, <1>9, <1>10, <1>11, <1>12,
     <1>13, <1>14 DEF SupStep

\* The steps of the dockerapi watcher.
LEMMA WatchKeepsTypes ==
  ASSUME TypeOK, WatchStep
  PROVE  TypeOK'
<1> USE DEF TypeOK, GateTypeOK, Tickets, WatchPlaces, gateVars, runnerVars, supVars,
        watchVars, WatchGoes
<1>1. CASE PollDue
  BY <1>1 DEF PollDue
<1>2. CASE PollSame
  BY <1>2 DEF PollSame
<1>3. CASE PollLost
  BY <1>3 DEF PollLost, Pause
<1>4. CASE WatchReportsPause
  BY <1>4 DEF WatchReportsPause
<1>5. CASE PollFound
  BY <1>5 DEF PollFound, Resume
<1>6. CASE WatchReportsResume
  BY <1>6 DEF WatchReportsResume
<1>7. ASSUME NEW r \in Runners, HealOne(r) PROVE TypeOK'
  <2>1. Repay(err[r], HealPoints) \in Nat
    BY SupervisorAssumption, BudgetArithmetic
  <2>2. err' \in [Runners -> Nat]
    BY <1>7, <2>1 DEF HealOne
  <2>3. watch' \in WatchPlaces /\ held' \in BOOLEAN /\ toHeal' \subseteq Runners
    BY <1>7 DEF HealOne
  <2>4. UNCHANGED <<gateVars, pc, doomed, events, supVars, gauge>>
    BY <1>7 DEF HealOne
  <2>5. QED
    BY <2>2, <2>3, <2>4
<1>8. CASE WatchResumesToLeave
  BY <1>8 DEF WatchResumesToLeave, Resume
<1>9. CASE WatchReportsLeaving
  BY <1>9 DEF WatchReportsLeaving
<1>10. CASE WatchStops
  BY <1>10 DEF WatchStops
<1>11. QED
  BY <1>1, <1>2, <1>3, <1>4, <1>5, <1>6, <1>7, <1>8, <1>9, <1>10 DEF WatchStep

-----------------------------------------------------------------------------
\* Which goroutine writes what: the shared state is the gate, the budgets, the
\* channel and the gauge.
LEMMA RunnerFrame ==
  ASSUME NEW r \in Runners, RunnerStep(r)
  PROVE  UNCHANGED <<supVars, watchVars, gauge, cancelled, paused>>
BY DEF RunnerStep, EnterWait, LeaveWait, StopInWait, Round, Wake, Send, Stop, Arrive,
       Pass, GiveUp, gateVars

LEMMA SupFrame ==
  ASSUME SupStep
  PROVE  UNCHANGED <<pc, err, doomed, watchVars, cancelled>>
BY DEF SupStep, Receive, Notify, SupPauses, SupReportsPause, Drain, LookUp, PassOver,
       FindMigration, RestartReplica, Announce, SettleDone, SupResumes,
       SupReportsResume, SupStops, gateVars, runnerVars

LEMMA WatchFrame ==
  ASSUME WatchStep
  PROVE  UNCHANGED <<pc, doomed, events, supVars, cancelled>>
BY DEF WatchStep, PollDue, PollSame, PollLost, WatchReportsPause, PollFound,
       WatchReportsResume, HealOne, WatchResumesToLeave, WatchReportsLeaving,
       WatchStops, gateVars, runnerVars

\* The gate is used as GateSpec allows, and only so.
LEMMA GateStep ==
  [Next]_vars => [GateNext]_gateVars
<1> SUFFICES ASSUME [Next]_vars PROVE [GateNext]_gateVars
  OBVIOUS
<1>1. ASSUME NEW r \in Runners, RunnerStep(r) PROVE [GateNext]_gateVars
  BY <1>1 DEF RunnerStep, EnterWait, LeaveWait, StopInWait, Round, Wake, Send, Stop,
              GateNext, gateVars
<1>2. CASE SupStep
  BY <1>2 DEF SupStep, Receive, Notify, SupPauses, SupReportsPause, Drain, LookUp,
              PassOver, FindMigration, RestartReplica, Announce, SettleDone,
              SupResumes, SupReportsResume, SupStops, GateNext, gateVars, runnerVars
<1>3. CASE WatchStep
  BY <1>3 DEF WatchStep, PollDue, PollSame, PollLost, WatchReportsPause, PollFound,
              WatchReportsResume, HealOne, WatchResumesToLeave, WatchReportsLeaving,
              WatchStops, GateNext, gateVars, runnerVars
<1>4. CASE Cancel
  BY <1>4 DEF Cancel, GateCancel, GateNext, runnerVars, gateVars
<1>5. CASE Terminated \/ UNCHANGED vars
  BY <1>5 DEF Terminated, vars, gateVars
<1>6. QED
  BY <1>1, <1>2, <1>3, <1>4, <1>5 DEF Next

LEMMA TypeStep ==
  TypeOK /\ ReplicaLeft /\ [Next]_vars => TypeOK'
<1> SUFFICES ASSUME TypeOK, ReplicaLeft, [Next]_vars PROVE TypeOK'
  OBVIOUS
<1>1. ASSUME NEW r \in Runners, RunnerStep(r) PROVE TypeOK'
  BY <1>1, RunnerKeepsTypes
<1>2. CASE SupStep
  BY <1>2, SupKeepsTypes
<1>3. CASE WatchStep
  BY <1>3, WatchKeepsTypes
<1>4. CASE Cancel
  BY <1>4 DEF Cancel, GateCancel, TypeOK, GateTypeOK, runnerVars, supVars, watchVars
<1>5. CASE Terminated \/ UNCHANGED vars
  BY <1>5 DEF Terminated, vars, gateVars, TypeOK, GateTypeOK
<1>6. QED
  BY <1>1, <1>2, <1>3, <1>4, <1>5 DEF Next

LEMMA ReplicaLeftStep ==
  TypeOK /\ ReplicaLeft /\ [Next]_vars => ReplicaLeft'
<1> SUFFICES ASSUME TypeOK, ReplicaLeft, [Next]_vars PROVE ReplicaLeft'
  OBVIOUS
<1> USE DEF ReplicaLeft, TypeOK, supVars
<1>1. ASSUME NEW r \in Runners, RunnerStep(r) PROVE ReplicaLeft'
  BY <1>1, RunnerFrame
<1>2. CASE SupStep
  BY <1>2 DEF SupStep, Receive, Notify, SupPauses, SupReportsPause, Drain, LookUp,
              PassOver, FindMigration, RestartReplica, Announce, SettleDone,
              SupResumes, SupReportsResume, SupStops, SupGoes, Done, Advance
<1>3. CASE WatchStep
  BY <1>3, WatchFrame
<1>4. CASE Cancel
  BY <1>4 DEF Cancel
<1>5. CASE Terminated \/ UNCHANGED vars
  BY <1>5 DEF Terminated, vars
<1>6. QED
  BY <1>1, <1>2, <1>3, <1>4, <1>5 DEF Next

LEMMA IdleStep ==
  TypeOK /\ IdleHandlesNothing /\ [Next]_vars => IdleHandlesNothing'
<1> SUFFICES ASSUME TypeOK, IdleHandlesNothing, [Next]_vars PROVE IdleHandlesNothing'
  OBVIOUS
<1> USE DEF IdleHandlesNothing, supVars
<1>1. ASSUME NEW r \in Runners, RunnerStep(r) PROVE IdleHandlesNothing'
  BY <1>1, RunnerFrame
<1>2. CASE SupStep
  BY <1>2 DEF SupStep, Receive, Notify, SupPauses, SupReportsPause, Drain, LookUp,
              PassOver, FindMigration, RestartReplica, Announce, SettleDone,
              SupResumes, SupReportsResume, SupStops, SupGoes, Done, Advance
<1>3. CASE WatchStep
  BY <1>3, WatchFrame
<1>4. CASE Cancel
  BY <1>4 DEF Cancel
<1>5. CASE Terminated \/ UNCHANGED vars
  BY <1>5 DEF Terminated, vars
<1>6. QED
  BY <1>1, <1>2, <1>3, <1>4, <1>5 DEF Next

LEMMA DoomedAsleepStep ==
  TypeOK /\ DoomedAsleep /\ [Next]_vars => DoomedAsleep'
<1> SUFFICES ASSUME TypeOK, DoomedAsleep, [Next]_vars, NEW q \in Runners, doomed'[q]
             PROVE  pc'[q] = "sleeping"
  BY DEF DoomedAsleep
<1> USE DEF DoomedAsleep, TypeOK
<1>1. ASSUME NEW r \in Runners, RunnerStep(r) PROVE pc'[q] = "sleeping"
  <2>1. CASE EnterWait(r) \/ LeaveWait(r) \/ StopInWait(r) \/ Send(r)
    BY <2>1 DEF EnterWait, LeaveWait, StopInWait, Send
  <2>2. CASE Round(r)
    BY <2>2 DEF Round
  <2>3. CASE Wake(r) \/ Stop(r)
    BY <2>3 DEF Wake, Stop
  <2>4. QED
    BY <1>1, <2>1, <2>2, <2>3 DEF RunnerStep
<1>2. CASE SupStep
  BY <1>2, SupFrame
<1>3. CASE WatchStep
  BY <1>3, WatchFrame
<1>4. CASE Cancel
  BY <1>4 DEF Cancel, runnerVars
<1>5. CASE Terminated \/ UNCHANGED vars
  BY <1>5 DEF Terminated, vars
<1>6. QED
  BY <1>1, <1>2, <1>3, <1>4, <1>5 DEF Next

-----------------------------------------------------------------------------
\* Who may leave the gate closed: a goroutine that closed it stays an owner
\* until its own resume, and a resume by the other leaves nothing to own.
LEMMA OwnerStep ==
  TypeOK /\ PauseHasOwner /\ [Next]_vars => PauseHasOwner'
<1> SUFFICES ASSUME TypeOK, PauseHasOwner, [Next]_vars, paused'
             PROVE  SupHolds' \/ WatchHolds'
  BY DEF PauseHasOwner
<1> USE DEF PauseHasOwner, SupHolds, WatchHolds, supVars, watchVars
<1>1. ASSUME NEW r \in Runners, RunnerStep(r) PROVE SupHolds' \/ WatchHolds'
  BY <1>1, RunnerFrame
<1>2. CASE SupStep
  <2>1. CASE Receive \/ Notify
    BY <2>1 DEF Receive, Notify, Done, gateVars
  <2>2. CASE SupPauses \/ SupReportsPause \/ Drain
    BY <2>2 DEF SupPauses, SupReportsPause, Drain, SupGoes
  <2>3. CASE LookUp \/ PassOver \/ FindMigration \/ RestartReplica \/ Announce \/ SettleDone
    BY <2>3 DEF LookUp, PassOver, FindMigration, RestartReplica, Announce, SettleDone,
                SupGoes, Advance
  <2>4. CASE SupResumes \/ SupReportsResume \/ SupStops
    BY <2>4 DEF SupResumes, SupReportsResume, SupStops, Resume, SupGoes, Done, gateVars
  <2>5. QED
    BY <1>2, <2>1, <2>2, <2>3, <2>4 DEF SupStep
<1>3. CASE WatchStep
  <2>1. CASE PollDue \/ PollSame \/ PollLost \/ WatchReportsPause
    BY <2>1 DEF PollDue, PollSame, PollLost, WatchReportsPause, WatchGoes, gateVars
  <2>2. CASE PollFound \/ WatchResumesToLeave
    BY <2>2 DEF PollFound, WatchResumesToLeave, Resume
  <2>3. CASE WatchReportsResume \/ WatchReportsLeaving \/ WatchStops
    BY <2>3 DEF WatchReportsResume, WatchReportsLeaving, WatchStops, WatchGoes, gateVars
  <2>4. ASSUME NEW r \in Runners, HealOne(r) PROVE SupHolds' \/ WatchHolds'
    BY <2>4 DEF HealOne, gateVars
  <2>5. QED
    BY <1>3, <2>1, <2>2, <2>3, <2>4 DEF WatchStep
<1>4. CASE Cancel
  BY <1>4 DEF Cancel
<1>5. CASE Terminated \/ UNCHANGED vars
  BY <1>5 DEF Terminated, vars, gateVars
<1>6. QED
  BY <1>1, <1>2, <1>3, <1>4, <1>5 DEF Next

\* The gauge lags behind its goroutine, and never outlives it.
LEMMA GaugeStep ==
  TypeOK /\ GaugeHasOwner /\ [Next]_vars => GaugeHasOwner'
<1> SUFFICES ASSUME TypeOK, GaugeHasOwner, [Next]_vars PROVE GaugeHasOwner'
  OBVIOUS
<1> USE DEF GaugeHasOwner, SupHolds, supVars, watchVars
<1>1. ASSUME NEW r \in Runners, RunnerStep(r) PROVE GaugeHasOwner'
  BY <1>1, RunnerFrame
<1>2. CASE SupStep
  <2>1. CASE Receive \/ Notify
    BY <2>1 DEF Receive, Notify, Done
  <2>2. CASE SupPauses \/ SupReportsPause \/ Drain
    BY <2>2 DEF SupPauses, SupReportsPause, Drain, SupGoes
  <2>3. CASE LookUp \/ PassOver \/ FindMigration \/ RestartReplica \/ Announce \/ SettleDone
    BY <2>3 DEF LookUp, PassOver, FindMigration, RestartReplica, Announce, SettleDone,
                SupGoes, Advance
  <2>4. CASE SupResumes \/ SupReportsResume \/ SupStops
    BY <2>4 DEF SupResumes, SupReportsResume, SupStops, SupGoes, Done
  <2>5. QED
    BY <1>2, <2>1, <2>2, <2>3, <2>4 DEF SupStep
<1>3. CASE WatchStep
  <2>1. CASE PollDue \/ PollSame \/ PollLost \/ WatchReportsPause
    BY <2>1 DEF PollDue, PollSame, PollLost, WatchReportsPause, WatchGoes
  <2>2. CASE PollFound \/ WatchResumesToLeave
    BY <2>2 DEF PollFound, WatchResumesToLeave, WatchGoes
  <2>3. CASE WatchReportsResume \/ WatchReportsLeaving \/ WatchStops
    BY <2>3 DEF WatchReportsResume, WatchReportsLeaving, WatchStops, WatchGoes
  <2>4. ASSUME NEW r \in Runners, HealOne(r) PROVE GaugeHasOwner'
    BY <2>4 DEF HealOne
  <2>5. QED
    BY <1>3, <2>1, <2>2, <2>3, <2>4 DEF WatchStep
<1>4. CASE Cancel
  BY <1>4 DEF Cancel
<1>5. CASE Terminated \/ UNCHANGED vars
  BY <1>5 DEF Terminated, vars
<1>6. QED
  BY <1>1, <1>2, <1>3, <1>4, <1>5 DEF Next

\* The gate alone keeps its waiters and its flag together.
LEMMA BlockedStep ==
  GateTypeOK /\ BlockedOnlyWhilePaused /\ [Next]_vars => BlockedOnlyWhilePaused'
<1> SUFFICES ASSUME GateTypeOK, BlockedOnlyWhilePaused, [GateNext]_gateVars
             PROVE  BlockedOnlyWhilePaused'
  BY GateStep
<1> USE DEF BlockedOnlyWhilePaused, GateTypeOK, Tickets
<1>1. CASE Pause \/ Resume
  BY <1>1 DEF Pause, Resume
<1>2. ASSUME NEW r \in Runners, Arrive(r) \/ Pass(r) \/ GiveUp(r)
      PROVE  BlockedOnlyWhilePaused'
  BY <1>2 DEF Arrive, Pass, GiveUp
<1>3. CASE UNCHANGED <<paused, ticket>>
  BY <1>3
<1>4. QED
  BY <1>1, <1>2, <1>3 DEF GateNext, gateVars

\* A round that spends the budget dooms its snapshot; only Wake, which resets
\* the budget, and a shutdown take the doom back.
LEMMA ExhaustionStep ==
  TypeOK /\ DoomedAsleep /\ ExhaustionIsPending /\ [Next]_vars => ExhaustionIsPending'
<1> SUFFICES ASSUME TypeOK, DoomedAsleep, ExhaustionIsPending, [Next]_vars,
                    NEW q \in Runners, err'[q] >= Budget(Threshold[q])
             PROVE  (pc'[q] = "sleeping" /\ doomed'[q]) \/ (pc'[q] = "stopped" /\ cancelled')
  BY DEF ExhaustionIsPending
<1> DEFINE Pending == (pc[q] = "sleeping" /\ doomed[q]) \/ (pc[q] = "stopped" /\ cancelled)
<1>0. /\ Threshold[q] \in Nat \ {0} /\ Budget(Threshold[q]) = Threshold[q]
      /\ err[q] \in Nat /\ pc \in [Runners -> RunnerPlaces]
      /\ doomed \in [Runners -> BOOLEAN] /\ err \in [Runners -> Nat]
  BY SupervisorAssumption DEF TypeOK, Budget
<1>a. err[q] >= Budget(Threshold[q]) => Pending
  BY DEF ExhaustionIsPending
<1>1. ASSUME NEW r \in Runners, RunnerStep(r) PROVE Pending'
  <2>1. CASE r # q
    <3>1. err'[q] = err[q] /\ pc'[q] = pc[q] /\ doomed'[q] = doomed[q] /\ cancelled' = cancelled
      BY <1>1, <2>1, <1>0 DEF RunnerStep, EnterWait, LeaveWait, StopInWait, Round, Wake,
         Send, Stop, gateVars
    <3>2. QED
      BY <3>1, <1>a
  <2>2. CASE r = q
    <3>1. CASE EnterWait(q) \/ LeaveWait(q) \/ StopInWait(q) \/ Send(q)
      BY <3>1, <1>0, <1>a DEF EnterWait, LeaveWait, StopInWait, Send
    <3>2. CASE Round(q)
      <4>1. PICK weight \in Weights :
              /\ err' = [err EXCEPT ![q] = Spend(err[q], weight)]
              /\ doomed' = [doomed EXCEPT ![q] =
                   ~cancelled /\ Dead(Remaining(Budget(Threshold[q]), Spend(err[q], weight)))]
        BY <3>2 DEF Round
      <4>2. Dead(Remaining(Budget(Threshold[q]), err'[q]))
        <5>1. err'[q] = Spend(err[q], weight) /\ err'[q] \in Nat
          BY <4>1, <1>0, SupervisorAssumption, BudgetArithmetic
        <5>2. QED
          BY <5>1, <1>0, BudgetArithmetic, SupervisorAssumption
      <4>3. CASE cancelled
        BY <3>2, <4>3, <1>0 DEF Round
      <4>4. CASE ~cancelled
        <5>1. pc'[q] = "sleeping"
          BY <3>2, <4>4, <1>0 DEF Round
        <5>2. Spend(err[q], weight) = err'[q]
          BY <4>1, <1>0
        <5>3. doomed'[q] = (~cancelled /\ Dead(Remaining(Budget(Threshold[q]), Spend(err[q], weight))))
          BY <4>1, <1>0, Zenon
        <5>4. doomed'[q]
          BY <4>2, <4>4, <5>2, <5>3
        <5>5. QED
          BY <5>1, <5>4
      <4>5. QED
        BY <4>3, <4>4
    <3>3. CASE Wake(q)
      <4>1. doomed[q] => err'[q] = 0
        BY <3>3, <1>0, Zenon DEF Wake
      <4>2. ~doomed[q] => err'[q] = err[q]
        BY <3>3, <1>0, Zenon DEF Wake
      <4>3. pc[q] = "sleeping" /\ ~cancelled
        BY <3>3 DEF Wake
      <4>4. QED
        BY <4>1, <4>2, <4>3, <1>0, <1>a
    <3>4. CASE Stop(q)
      BY <3>4, <1>0 DEF Stop, gateVars
    <3>5. QED
      BY <1>1, <2>2, <3>1, <3>2, <3>3, <3>4 DEF RunnerStep
  <2>3. QED
    BY <2>1, <2>2
<1>2. CASE SupStep
  BY <1>2, <1>a, SupFrame
<1>3. CASE WatchStep
  <2>1. err'[q] <= err[q] /\ err'[q] \in Nat
    <3>1. CASE UNCHANGED err
      BY <3>1, <1>0
    <3>2. ASSUME NEW r \in Runners, HealOne(r) PROVE err'[q] <= err[q] /\ err'[q] \in Nat
      <4>1. err' = [err EXCEPT ![r] = Repay(err[r], HealPoints)]
        BY <3>2 DEF HealOne
      <4>2. Repay(err[q], HealPoints) \in Nat /\ Repay(err[q], HealPoints) <= err[q]
        BY <1>0, SupervisorAssumption, BudgetArithmetic
      <4>3. err'[q] = IF q = r THEN Repay(err[q], HealPoints) ELSE err[q]
        BY <4>1, <1>0
      <4>4. QED
        BY <4>2, <4>3, <1>0
    <3>3. QED
      BY <1>3, <3>1, <3>2 DEF WatchStep, PollDue, PollSame, PollLost, WatchReportsPause,
         PollFound, WatchReportsResume, WatchResumesToLeave, WatchReportsLeaving,
         WatchStops, gateVars, runnerVars
  <2>2. err[q] >= Budget(Threshold[q])
    BY <2>1, <1>0
  <2>3. QED
    BY <1>3, <2>2, <1>a, WatchFrame
<1>4. CASE Cancel
  BY <1>4, <1>a DEF Cancel, GateCancel, runnerVars
<1>5. CASE Terminated \/ UNCHANGED vars
  BY <1>5, <1>a DEF Terminated, vars, gateVars
<1>6. QED
  BY <1>1, <1>2, <1>3, <1>4, <1>5 DEF Next

-----------------------------------------------------------------------------
\* The inductive invariant.
LEMMA Inductive == Safety => []IInv
<1>1. IInv /\ [Next]_vars => IInv'
  BY TypeStep, ReplicaLeftStep, IdleStep, DoomedAsleepStep, OwnerStep, GaugeStep, BlockedStep, ExhaustionStep
     DEF IInv, TypeOK
<1>2. QED
  BY InitEstablishes, <1>1, PTL DEF Safety

\* Every variable keeps its type; the channel never holds more than its buffer.
THEOREM TypeCorrect == Safety => []TypeOK
BY Inductive, PTL DEF IInv

\* Whatever the two goroutines that pause and resume do, the gate is not left
\* closed by nobody (restart's deferred resumeAll, supervisor.go:311, and the
\* watcher's exit, supervisor.go:398).
THEOREM GateIsReopened == Safety => []PauseHasOwner
BY Inductive, PTL DEF IInv

\* A gauge that says "paused" has a restart or a lost dockerapi behind it
\* (supervisor.go:422 and supervisor.go:427, without a lock over both calls).
THEOREM PausedIsMeant == Safety => []GaugeHasOwner
BY Inductive, PTL DEF IInv

\* No runner waits at an open gate.
THEOREM NobodyWaitsAtAnOpenGate == Safety => []BlockedOnlyWhilePaused
BY Inductive, PTL DEF IInv

\* A spent budget is on its way to an event, with healAll running beside the
\* runner and for any weights and budgets (runner.go:112-123).
THEOREM SpentBudgetIsRaised == Safety => []ExhaustionIsPending
BY Inductive, PTL DEF IInv

\* healAll, a round and a reset are the only ways a budget comes back, in any
\* interleaving (health.go:104, health.go:130, runner.go:117).
THEOREM NothingElseForgives == Safety => BudgetIsNotForgiven
<1> DEFINE Kept(r) ==
      \/ err'[r] >= err[r] - 1
      \/ pc'[r] = "sending"
      \/ watch = "healing" /\ err'[r] >= err[r] - HealPoints
<1>1. TypeOK /\ [Next]_vars => [\A r \in Runners : Kept(r)]_vars
  <2> SUFFICES ASSUME TypeOK, Next, NEW q \in Runners PROVE Kept(q)
    OBVIOUS
  <2>0. /\ err[q] \in Nat /\ pc \in [Runners -> RunnerPlaces]
        /\ err \in [Runners -> Nat] /\ doomed \in [Runners -> BOOLEAN]
    BY DEF TypeOK
  <2>a. err'[q] = err[q] => Kept(q)
    BY <2>0
  <2>1. ASSUME NEW r \in Runners, RunnerStep(r) PROVE Kept(q)
    <3>1. CASE EnterWait(r) \/ LeaveWait(r) \/ StopInWait(r) \/ Send(r) \/ Stop(r)
      BY <3>1, <2>a DEF EnterWait, LeaveWait, StopInWait, Send, Stop
    <3>2. CASE Round(r)
      <4>1. PICK weight \in Weights : err' = [err EXCEPT ![r] = Spend(err[r], weight)]
        BY <3>2 DEF Round
      <4>2. err'[q] = Spend(err[q], weight) \/ err'[q] = err[q]
        BY <4>1, <2>0
      <4>3. Spend(err[q], weight) >= err[q] - 1
        BY <2>0, SupervisorAssumption, BudgetDecrease
      <4>4. QED
        BY <4>2, <4>3, <2>a
    <3>3. CASE Wake(r)
      <4>1. CASE doomed[r] /\ q = r
        BY <3>3, <4>1, <2>0, Zenon DEF Wake
      <4>2. CASE ~doomed[r] \/ q # r
        <5>1. err'[q] = err[q]
          BY <3>3, <4>2, <2>0 DEF Wake
        <5>2. QED
          BY <5>1, <2>a
      <4>3. QED
        BY <4>1, <4>2
    <3>4. QED
      BY <2>1, <3>1, <3>2, <3>3 DEF RunnerStep
  <2>2. CASE SupStep
    BY <2>2, <2>a, SupFrame
  <2>3. CASE WatchStep
    <3>1. CASE UNCHANGED err
      BY <3>1, <2>a
    <3>2. ASSUME NEW r \in Runners, HealOne(r) PROVE Kept(q)
      <4>1. watch = "healing" /\ err' = [err EXCEPT ![r] = Repay(err[r], HealPoints)]
        BY <3>2 DEF HealOne
      <4>2. Repay(err[q], HealPoints) >= err[q] - HealPoints
        BY <2>0, SupervisorAssumption, BudgetDecrease
      <4>3. err'[q] = Repay(err[q], HealPoints) \/ err'[q] = err[q]
        BY <4>1, <2>0
      <4>4. QED
        BY <4>1, <4>2, <4>3, <2>a
    <3>3. QED
      BY <2>3, <3>1, <3>2 DEF WatchStep, PollDue, PollSame, PollLost, WatchReportsPause,
         PollFound, WatchReportsResume, WatchResumesToLeave, WatchReportsLeaving,
         WatchStops, gateVars, runnerVars
  <2>4. CASE Cancel \/ Terminated
    BY <2>4, <2>a DEF Cancel, Terminated, runnerVars, vars
  <2>5. QED
    BY <2>1, <2>2, <2>3, <2>4 DEF Next
<1>2. IInv => TypeOK
  BY DEF IInv
<1>3. QED
  BY <1>1, <1>2, Inductive, PTL DEF Safety, BudgetIsNotForgiven

\* The runners and both pausing goroutines use the gate as its promise allows,
\* so what Gate.tla implements is what the supervisor relies on.
THEOREM UsesTheGate == Safety => GateSafety
<1>1. Init => GateInit
  BY DEF Init
<1>2. QED
  BY <1>1, GateStep, PTL DEF Safety, GateSafety
-----------------------------------------------------------------------------
(* The ledger: what a step does to the incidents owed                       *)

\* Events of r in a channel.
Count(r, s) == Cardinality({i \in DOMAIN s : s[i] = r})

LEMMA CountType ==
  ASSUME NEW s \in Seq(Runners), NEW r \in Runners
  PROVE  /\ IsFiniteSet({i \in DOMAIN s : s[i] = r})
         /\ Count(r, s) \in Nat /\ Count(r, s) <= Len(s)
<1>1. Len(s) \in Nat /\ DOMAIN s = 1..Len(s)
  OBVIOUS
<1>2. IsFiniteSet(1..Len(s)) /\ Cardinality(1..Len(s)) = Len(s)
  BY <1>1, FS_Interval
<1>3. {i \in DOMAIN s : s[i] = r} \in SUBSET (1..Len(s))
  BY <1>1
<1>4. /\ IsFiniteSet({i \in DOMAIN s : s[i] = r})
      /\ Cardinality({i \in DOMAIN s : s[i] = r}) <= Len(s)
  BY <1>2, <1>3, FS_Subset
<1> QED
  BY <1>4, FS_CardinalityType DEF Count

LEMMA CountAppend ==
  ASSUME NEW s \in Seq(Runners), NEW q \in Runners, NEW r \in Runners
  PROVE  Count(r, Append(s, q)) = Count(r, s) + (IF q = r THEN 1 ELSE 0)
<1> DEFINE at == {i \in DOMAIN s : s[i] = r}
           after == {i \in DOMAIN Append(s, q) : Append(s, q)[i] = r}
           last == Len(s) + 1
<1>1. /\ Len(s) \in Nat /\ DOMAIN s = 1..Len(s)
      /\ DOMAIN Append(s, q) = 1..last
      /\ \A i \in 1..Len(s) : Append(s, q)[i] = s[i]
      /\ Append(s, q)[last] = q
  OBVIOUS
<1>2. IsFiniteSet(at) /\ last \notin at /\ Cardinality(at) \in Nat
  BY <1>1, CountType DEF Count
<1>a. Count(r, s) = Cardinality(at) /\ Count(r, Append(s, q)) = Cardinality(after)
  BY DEF Count
<1>3. CASE q = r
  <2>1. after = at \cup {last}
    BY <1>1, <1>3
  <2> HIDE DEF at, after, last
  <2>2. Cardinality(after) = Cardinality(at) + 1
    BY <2>1, <1>2, FS_AddElement
  <2> QED
    BY <2>2, <1>3, <1>a
<1>4. CASE q # r
  <2>1. after = at
    BY <1>1, <1>4
  <2> HIDE DEF at, after
  <2> QED
    BY <2>1, <1>2, <1>4, <1>a
<1> QED
  BY <1>3, <1>4

LEMMA CountTail ==
  ASSUME NEW s \in Seq(Runners), s # <<>>, NEW r \in Runners
  PROVE  Count(r, s) = Count(r, Tail(s)) + (IF Head(s) = r THEN 1 ELSE 0)
<1> DEFINE later == {i \in DOMAIN s : s[i] = r} \ {1}
           moved == {i \in DOMAIN Tail(s) : Tail(s)[i] = r}
<1>1. /\ Len(s) \in Nat /\ Len(s) > 0 /\ DOMAIN s = 1..Len(s)
      /\ Tail(s) \in Seq(Runners) /\ Len(Tail(s)) = Len(s) - 1
      /\ DOMAIN Tail(s) = 1..(Len(s) - 1)
      /\ \A i \in 1..(Len(s) - 1) : Tail(s)[i] = s[i + 1]
      /\ Head(s) = s[1]
  OBVIOUS
<1>2. IsFiniteSet({i \in DOMAIN s : s[i] = r}) /\ Count(r, s) \in Nat
  BY CountType
<1>3. IsFiniteSet(moved) /\ Cardinality(moved) \in Nat
  BY <1>1, CountType DEF Count
<1>4. IsFiniteSet(later) /\ Cardinality(later) \in Nat
  BY <1>2, FS_RemoveElement, FS_CardinalityType
<1>5. Cardinality(moved) <= Cardinality(later)
  <2> DEFINE f == [i \in moved |-> i + 1]
  <2>1. f \in [moved -> later]
    BY <1>1
  <2>2. \A i, j \in moved : f[i] = f[j] => i = j
    BY <1>1
  <2>3. f \in Injection(moved, later)
    BY <2>1, <2>2 DEF Injection, IsInjective
  <2> HIDE DEF f, moved, later
  <2> QED
    BY <2>3, <1>4, FS_Injection
<1>6. Cardinality(later) <= Cardinality(moved)
  <2> DEFINE g == [i \in later |-> i - 1]
  <2>1. g \in [later -> moved]
    BY <1>1
  <2>2. \A i, j \in later : g[i] = g[j] => i = j
    BY <1>1
  <2>3. g \in Injection(later, moved)
    BY <2>1, <2>2 DEF Injection, IsInjective
  <2> HIDE DEF g, moved, later
  <2> QED
    BY <2>3, <1>3, FS_Injection
<1>7. Cardinality(later) = Count(r, s) - (IF Head(s) = r THEN 1 ELSE 0)
  <2>1. 1 \in {i \in DOMAIN s : s[i] = r} <=> Head(s) = r
    BY <1>1
  <2>2. Count(r, s) = Cardinality({i \in DOMAIN s : s[i] = r})
    BY DEF Count
  <2> HIDE DEF moved
  <2>3. Cardinality(later) =
          IF 1 \in {i \in DOMAIN s : s[i] = r} THEN Count(r, s) - 1 ELSE Count(r, s)
    BY <2>2, <1>2, FS_RemoveElement
  <2> QED
    BY <2>1, <2>2, <2>3, <1>2
<1>8. Count(r, Tail(s)) = Cardinality(moved)
  BY DEF Count
<1> HIDE DEF later, moved
<1> QED
  BY <1>2, <1>3, <1>4, <1>5, <1>6, <1>7, <1>8

\* The incident a runner carries, from the dead round to the send.
Carries(r) == IF doomed[r] \/ pc[r] = "sending" THEN 1 ELSE 0

LEMMA OwedIs ==
  ASSUME TypeOK, NEW r \in Runners
  PROVE  /\ Owed(r) = Carries(r) + Count(r, events)
         /\ Carries(r) \in {0, 1} /\ Count(r, events) \in Nat
         /\ Count(r, events) <= Buffer
<1>1. Owed(r) = Carries(r) + Count(r, events)
  BY DEF Owed, Carries, Count
<1>2. Count(r, events) \in Nat /\ Count(r, events) <= Len(events)
  BY CountType DEF TypeOK
<1>3. Len(events) \in Nat /\ Len(events) <= Buffer
  BY DEF TypeOK
<1> QED
  BY <1>1, <1>2, <1>3, BufferIsNat DEF Carries

LEMMA OwedWillBe ==
  ASSUME NEW r \in Runners
  PROVE  Owed(r)' = Carries(r)' + Count(r, events')
BY DEF Owed, Carries, Count

\* What a runner carries depends on its own place and verdict only.
LEMMA OthersCarryOn ==
  ASSUME NEW r \in Runners, NEW q \in Runners, pc'[q] = pc[q], doomed'[q] = doomed[q]
  PROVE  Carries(q)' = Carries(q)
BY DEF Carries

\* A runner's step, on the ledger.
LEMMA RunnerOnLedger ==
  ASSUME TypeOK, TypeOK', DoomedAsleep, NEW r \in Runners, RunnerStep(r)
  PROVE  /\ \A q \in Runners \ {r} : Owed(q)' = Owed(q)
         /\ \/ Owed(r)' = Owed(r)
            \/ Owed(r) < Buffer + 1 /\ Owed(r)' = Owed(r) + 1
            \/ cancelled /\ Owed(r) > 0 /\ Owed(r)' = Owed(r) - 1
<1>0. /\ pc \in [Runners -> RunnerPlaces] /\ doomed \in [Runners -> BOOLEAN]
      /\ events \in Seq(Runners)
  BY DEF TypeOK
<1>1. \A q \in Runners : /\ Owed(q) = Carries(q) + Count(q, events)
                         /\ Carries(q) \in {0, 1} /\ Count(q, events) \in Nat
                         /\ Count(q, events) <= Buffer
                         /\ Owed(q)' = Carries(q)' + Count(q, events')
  BY OwedIs, OwedWillBe
<1>2. ASSUME NEW q \in Runners \ {r} PROVE Carries(q)' = Carries(q)
  <2>1. pc'[q] = pc[q] /\ doomed'[q] = doomed[q]
    BY <1>0 DEF RunnerStep, EnterWait, LeaveWait, StopInWait, Round, Wake, Send, Stop
  <2> QED
    BY <2>1, OthersCarryOn
<1>3. CASE Send(r)
  <2>1. events' = Append(events, r) /\ pc[r] = "sending" /\ pc'[r] = "start"
        /\ doomed' = doomed
    BY <1>3, <1>0 DEF Send
  <2>2. doomed[r] = FALSE
    BY <2>1, <1>0 DEF DoomedAsleep
  <2>3. Carries(r) = 1 /\ Carries(r)' = 0
    BY <2>1, <2>2 DEF Carries
  <2>4. \A q \in Runners : Count(q, events') = Count(q, events) + (IF r = q THEN 1 ELSE 0)
    BY <2>1, <1>0, CountAppend
  <2> QED
    BY <2>3, <2>4, <1>1, <1>2
<1>4. CASE ~Send(r)
  <2>1. events' = events
    BY <1>4 DEF RunnerStep, EnterWait, LeaveWait, StopInWait, Round, Wake, Stop, gateVars
  <2>2. \A q \in Runners \ {r} : Owed(q)' = Owed(q)
    BY <2>1, <1>1, <1>2
  <2>3. CASE Carries(r)' = Carries(r)
    BY <2>1, <2>2, <2>3, <1>1
  <2>4. CASE EnterWait(r) \/ LeaveWait(r) \/ StopInWait(r)
    <3>1. pc[r] # "sending" /\ pc'[r] # "sending" /\ doomed'[r] = doomed[r]
      BY <2>4, <1>0 DEF EnterWait, LeaveWait, StopInWait
    <3> QED
      BY <3>1, <2>3 DEF Carries
  <2>5. CASE Round(r)
    <3>1. pc[r] = "probing"
      BY <2>5 DEF Round
    <3>2. Carries(r) = 0 /\ Carries(r)' \in {0, 1}
      BY <3>1 DEF Carries, DoomedAsleep
    <3> QED
      BY <3>2, <2>1, <2>2, <1>1, BufferIsNat
  <2>6. CASE Wake(r)
    <3>1. /\ pc[r] = "sleeping" /\ doomed'[r] = FALSE
          /\ doomed[r] => pc'[r] = "sending"
          /\ ~doomed[r] => pc'[r] = "start"
      BY <2>6, <1>0, Zenon DEF Wake
    <3>2. Carries(r)' = Carries(r)
      BY <3>1 DEF Carries
    <3> QED
      BY <3>2, <2>3
  <2>7. CASE Stop(r)
    <3>1. pc'[r] = "stopped" /\ doomed'[r] = FALSE /\ cancelled
      BY <2>7, <1>0 DEF Stop
    <3>2. Carries(r)' = 0 /\ Carries(r) \in {0, 1}
      BY <3>1 DEF Carries
    <3> QED
      BY <3>1, <3>2, <2>1, <2>2, <1>1
  <2> QED
    BY <1>4, <2>4, <2>5, <2>6, <2>7 DEF RunnerStep
<1> QED
  BY <1>3, <1>4

\* Taking an event off the channel.
LEMMA ReceiveOnLedger ==
  ASSUME TypeOK, IdleHandlesNothing, Receive
  PROVE  \E r \in Runners : Ledger!Begin(r)
<1>0. events \in Seq(Runners) /\ events # <<>> /\ sup = "select"
  BY DEF TypeOK, Receive
<1>1. PICK r \in Runners : r = Head(events)
  BY <1>0
<1>2. handling = NoCheck /\ handling' = r /\ cancelled' = cancelled
      /\ events' = Tail(events) /\ pc' = pc /\ doomed' = doomed
  BY <1>0, <1>1 DEF IdleHandlesNothing, Receive, gateVars
<1>3. \A q \in Runners : /\ Owed(q) = Carries(q) + Count(q, events)
                         /\ Carries(q) \in {0, 1}
                         /\ Owed(q)' = Carries(q) + Count(q, events')
  BY <1>2, OwedIs, OwedWillBe, OthersCarryOn
<1>4. \A q \in Runners : Count(q, events) = Count(q, events') + (IF r = q THEN 1 ELSE 0)
  BY <1>0, <1>1, <1>2, CountTail
<1>5. \A q \in Runners : Count(q, events') \in Nat
  <2>1. Tail(events) \in Seq(Runners)
    BY <1>0
  <2> QED
    BY <2>1, <1>2, CountType
<1>6. Owed(r) > 0 /\ \A q \in Runners : Owed(q)' = IF q = r THEN Owed(q) - 1 ELSE Owed(q)
  BY <1>3, <1>4, <1>5
<1> QED
  BY <1>2, <1>6 DEF Ledger!Begin

LEMMA LedgerStep ==
  TypeOK /\ TypeOK' /\ IdleHandlesNothing /\ DoomedAsleep /\ [Next]_vars
    => [Ledger!IncidentsNext]_(Ledger!incidentVars)
<1> SUFFICES ASSUME TypeOK, TypeOK', IdleHandlesNothing, DoomedAsleep, [Next]_vars
             PROVE  [Ledger!IncidentsNext]_(Ledger!incidentVars)
  OBVIOUS
<1>0. ASSUME UNCHANGED <<pc, doomed, events>> PROVE \A q \in Runners : Owed(q)' = Owed(q)
  BY <1>0 DEF Owed
<1>1. ASSUME NEW r \in Runners, RunnerStep(r)
      PROVE  [Ledger!IncidentsNext]_(Ledger!incidentVars)
  <2>1. UNCHANGED <<handling, cancelled>>
    BY <1>1, RunnerFrame DEF supVars
  <2>2. \A q \in Runners \ {r} : Owed(q)' = Owed(q)
    BY <1>1, RunnerOnLedger
  <2>3. CASE Owed(r)' = Owed(r)
    BY <2>1, <2>2, <2>3 DEF Ledger!incidentVars
  <2>4. CASE Owed(r) < Buffer + 1 /\ Owed(r)' = Owed(r) + 1
    <3>1. Ledger!Exhaust(r)
      BY <2>1, <2>2, <2>4 DEF Ledger!Exhaust
    <3> QED
      BY <3>1 DEF Ledger!IncidentsNext
  <2>5. CASE cancelled /\ Owed(r) > 0 /\ Owed(r)' = Owed(r) - 1
    <3>1. Ledger!Abandon(r)
      BY <2>1, <2>2, <2>5 DEF Ledger!Abandon
    <3> QED
      BY <3>1 DEF Ledger!IncidentsNext
  <2> QED
    BY <1>1, <2>3, <2>4, <2>5, RunnerOnLedger
<1>2. CASE SupStep
  <2>1. CASE Receive
    BY <2>1, ReceiveOnLedger DEF Ledger!IncidentsNext
  <2>2. CASE ~Receive
    <3>1. UNCHANGED <<pc, doomed, events, cancelled>> /\ handling' \in {handling, NoCheck}
      BY <1>2, <2>2, SupFrame DEF SupStep, Notify, SupPauses, SupReportsPause, Drain,
         LookUp, PassOver, FindMigration, RestartReplica, Announce, SettleDone,
         SupResumes, SupReportsResume, SupStops, SupGoes, Done, Advance, runnerVars
    <3>2. \A q \in Runners : Owed(q)' = Owed(q)
      BY <3>1, <1>0
    <3>3. CASE handling' = handling
      BY <3>1, <3>2, <3>3 DEF Ledger!incidentVars
    <3>4. CASE handling # NoCheck /\ handling' = NoCheck
      <4>1. Ledger!Finish
        BY <3>1, <3>2, <3>4 DEF Ledger!Finish
      <4> QED
        BY <4>1 DEF Ledger!IncidentsNext
    <3> QED
      BY <3>1, <3>3, <3>4
  <2> QED
    BY <2>1, <2>2
<1>3. CASE WatchStep \/ Terminated \/ UNCHANGED vars
  <2>1. UNCHANGED <<pc, doomed, events, handling, cancelled>>
    BY <1>3, WatchFrame DEF Terminated, vars, gateVars, supVars
  <2> QED
    BY <2>1, <1>0 DEF Ledger!incidentVars
<1>4. CASE Cancel
  <2>1. UNCHANGED <<pc, doomed, events, handling>> /\ ~cancelled /\ cancelled' = TRUE
    BY <1>4 DEF Cancel, GateCancel, runnerVars, supVars
  <2>2. Ledger!Shutdown
    BY <2>1, <1>0 DEF Ledger!Shutdown
  <2> QED
    BY <2>2 DEF Ledger!IncidentsNext
<1> QED
  BY <1>1, <1>2, <1>3, <1>4 DEF Next

LEMMA LedgerInit == Init => Ledger!IncidentsInit
<1> SUFFICES ASSUME Init PROVE Ledger!IncidentsInit
  OBVIOUS
<1>1. \A r \in Runners : Owed(r) = 0
  <2> SUFFICES ASSUME NEW r \in Runners PROVE Owed(r) = 0
    OBVIOUS
  <2>1. {i \in DOMAIN events : events[i] = r} = {}
    BY DEF Init
  <2> QED
    BY <2>1, FS_EmptySet DEF Init, Owed
<1> QED
  BY <1>1 DEF Init, GateInit, Ledger!IncidentsInit

\* Channel and loop implement the ledger: a spent budget becomes one incident,
\* each is acted on once and one at a time, and only a shutdown drops one
\* (runner.go:112-128, supervisor.go:182-192), for any number of checks.
THEOREM IncidentsRefinement == Safety => ImplementsIncidents
<1>1. IInv => TypeOK /\ IdleHandlesNothing /\ DoomedAsleep
  BY DEF IInv
<1> QED
  BY <1>1, LedgerInit, LedgerStep, Inductive, PTL
     DEF Safety, ImplementsIncidents, Ledger!IncidentsSafety
-----------------------------------------------------------------------------
(* The shutdown: what is left to do after SIGTERM, as a number.             *)

\* The last goroutine leaves the gate open and the gauge at "running"
\* (supervisor.go:311, supervisor.go:398): Run returns with nothing held.
StoppedLeavesOpen == AllStopped => ~paused /\ ~gauge

\* After SIGTERM no goroutine is without a step of its own: a runner in the gate
\* or before a full channel, the supervisor in its loop over the replicas, the
\* watcher in healAll (pausegate.go:72, runner.go:123, supervisor.go:182).
NobodyIsStranded ==
  cancelled =>
    /\ \A r \in Runners :
         \/ pc[r] = "start" /\ ticket[r] = "none"
         \/ pc[r] = "waiting" /\ ticket[r] # "none"
         \/ pc[r] \in {"probing", "sleeping", "sending", "stopped"}
    /\ sup \in {"replicas", "migrating", "announcing", "settling"} => todo > 0
    /\ watch = "healing" => toHeal # {}

\* The runners that have a place of `places` still before them, or are there.
At(places) == {r \in Runners : pc[r] \in places}

\* A runner sends what it owes, comes back to the gate, passes it, and stops
\* after the probes: each set leaves out one step more.
RunnerWork ==
  Cardinality(At({"sending"}))
    + Cardinality(At({"sending", "start"}))
    + Cardinality(At({"sending", "start", "waiting"}))
    + Cardinality(At({"sending", "start", "waiting", "probing", "sleeping"}))

\* The steps left of the event the supervisor acts on, and its exit.
SupWork ==
  CASE sup = "stopped"  -> 0
    [] sup = "select"   -> 1
    [] sup = "opened"   -> 2
    [] sup = "opening"  -> 3
    [] sup \in {"settling", "migrating"} -> 4 * todo
    [] sup = "announcing" -> 4 * todo + 1
    [] sup = "replicas" -> 4 * todo + 2
    [] sup = "looking"  -> 4 * MaxReplicas + 3
    [] sup = "draining" -> 4 * MaxReplicas + 4
    [] sup = "closing"  -> 4 * MaxReplicas + 5
    [] sup = "pausing"  -> 4 * MaxReplicas + 6
    [] sup = "alerting" -> todo + 2

\* More than acting on any one event takes.
EventWork == 4 * MaxReplicas + MaxBans + 7

\* The steps left of the watcher's round, and its exit.
WatchWork ==
  CASE watch = "stopped" -> 0
    [] watch = "leaving" -> 1
    [] watch = "polling" -> 2
    [] watch = "healing" -> 2 + Cardinality(toHeal)
    [] watch \in {"closing", "opening"} -> 3 + Cardinality(Runners)
    [] watch = "asking"  -> 4 + Cardinality(Runners)

\* A send gives the supervisor another event, so it weighs more than one.
Work ==
  (EventWork + 1) * RunnerWork + EventWork * Len(events) + SupWork + WatchWork

\* Every step after SIGTERM is one of the finitely many that are left: nothing
\* the runners, the supervisor and the watcher do to each other (another event,
\* another pause, another healAll) sends one of them round again.
EveryStepIsProgress == [][cancelled /\ ~AllStopped => Work' < Work]_vars
WorkIsFinite == Work \in Nat

-----------------------------------------------------------------------------
\* A runner is inside Wait exactly as long as it has a ticket.
TicketedInWait == \A r \in Runners : pc[r] = "waiting" <=> ticket[r] # "none"

\* healAll is left with its last runner.
HealingHasWork == watch = "healing" => toHeal # {}

LEMMA TicketedStep ==
  TypeOK /\ TicketedInWait /\ [Next]_vars => TicketedInWait'
<1> SUFFICES ASSUME TypeOK, TicketedInWait, [Next]_vars, NEW q \in Runners
             PROVE  pc'[q] = "waiting" <=> ticket'[q] # "none"
  BY DEF TicketedInWait
<1>0. /\ pc \in [Runners -> RunnerPlaces] /\ ticket \in [Runners -> Tickets]
      /\ pc[q] = "waiting" <=> ticket[q] # "none"
  BY DEF TypeOK, GateTypeOK, TicketedInWait
<1>1. ASSUME pc' = pc, ticket' = ticket \/ Resume
      PROVE  pc'[q] = "waiting" <=> ticket'[q] # "none"
  BY <1>0, <1>1 DEF Resume
<1>2. ASSUME NEW r \in Runners, RunnerStep(r)
      PROVE  pc'[q] = "waiting" <=> ticket'[q] # "none"
  <2>1. CASE EnterWait(r)
    BY <1>0, <2>1 DEF EnterWait, Arrive
  <2>2. CASE LeaveWait(r)
    BY <1>0, <2>2 DEF LeaveWait, Pass
  <2>3. CASE StopInWait(r)
    BY <1>0, <2>3 DEF StopInWait, GiveUp
  <2>4. CASE Round(r) \/ Send(r) \/ Stop(r)
    BY <1>0, <2>4 DEF Round, Send, Stop, gateVars
  <2>5. CASE Wake(r)
    <3>1. ticket' = ticket /\ pc[r] = "sleeping"
          /\ \E place \in {"sending", "start"} : pc' = [pc EXCEPT ![r] = place]
      BY <2>5, Zenon DEF Wake
    <3> QED
      BY <1>0, <3>1
  <2> QED
    BY <1>2, <2>1, <2>2, <2>3, <2>4, <2>5 DEF RunnerStep
<1>3. CASE SupStep
  <2>1. pc' = pc
    BY <1>3, SupFrame
  <2>2. ticket' = ticket \/ Resume
    BY <1>3 DEF SupStep, Receive, Notify, SupPauses, SupReportsPause, Drain, LookUp,
       PassOver, FindMigration, RestartReplica, Announce, SettleDone, SupResumes,
       SupReportsResume, SupStops, Pause, gateVars, runnerVars
  <2> QED
    BY <1>1, <2>1, <2>2
<1>4. CASE WatchStep
  <2>1. pc' = pc
    BY <1>4, WatchFrame
  <2>2. ticket' = ticket \/ Resume
    BY <1>4 DEF WatchStep, PollDue, PollSame, PollLost, WatchReportsPause, PollFound,
       WatchReportsResume, HealOne, WatchResumesToLeave, WatchReportsLeaving,
       WatchStops, Pause, gateVars, runnerVars
  <2> QED
    BY <1>1, <2>1, <2>2
<1>5. CASE Cancel \/ Terminated \/ UNCHANGED vars
  BY <1>1, <1>5 DEF Cancel, Terminated, vars, gateVars, runnerVars
<1> QED
  BY <1>2, <1>3, <1>4, <1>5 DEF Next

LEMMA HealingStep ==
  HealingHasWork /\ [Next]_vars => HealingHasWork'
<1> SUFFICES ASSUME HealingHasWork, [Next]_vars PROVE HealingHasWork'
  OBVIOUS
<1> USE DEF HealingHasWork, watchVars
<1>1. ASSUME NEW r \in Runners, RunnerStep(r) PROVE HealingHasWork'
  BY <1>1, RunnerFrame
<1>2. CASE SupStep
  BY <1>2, SupFrame
<1>3. CASE WatchStep
  BY <1>3, SupervisorAssumption
     DEF WatchStep, PollDue, PollSame, PollLost, WatchReportsPause, PollFound,
         WatchReportsResume, HealOne, WatchResumesToLeave, WatchReportsLeaving,
         WatchStops, WatchGoes
<1>4. CASE Cancel \/ Terminated \/ UNCHANGED vars
  BY <1>4 DEF Cancel, Terminated, vars
<1> QED
  BY <1>1, <1>2, <1>3, <1>4 DEF Next

\* When Run returns, whatever the three kinds of goroutine were at when SIGTERM
\* came, the gate is open and the gauge says so (the resumes of
\* supervisor.go:311 and supervisor.go:398).
THEOREM ShutdownLeavesOpen == Safety => []StoppedLeavesOpen
<1>1. IInv => StoppedLeavesOpen
  BY DEF IInv, PauseHasOwner, GaugeHasOwner, SupHolds, WatchHolds, AllStopped,
         StoppedLeavesOpen
<1> QED
  BY <1>1, Inductive, PTL

\* A goroutine that SIGTERM finds still running can always go on by itself, at
\* each of the places where it might have waited for another one.
THEOREM ShutdownStrandsNobody == Safety => []NobodyIsStranded
<1>1. Init => TicketedInWait /\ HealingHasWork
  BY DEF Init, GateInit, TicketedInWait, HealingHasWork
<1>2. IInv /\ TicketedInWait /\ HealingHasWork => NobodyIsStranded
  <2> SUFFICES ASSUME IInv, TicketedInWait, HealingHasWork PROVE NobodyIsStranded
    OBVIOUS
  <2>1. pc \in [Runners -> RunnerPlaces]
    BY DEF IInv, TypeOK
  <2>2. \A r \in Runners :
          \/ pc[r] = "start" /\ ticket[r] = "none"
          \/ pc[r] = "waiting" /\ ticket[r] # "none"
          \/ pc[r] \in {"probing", "sleeping", "sending", "stopped"}
    BY <2>1 DEF TicketedInWait, RunnerPlaces
  <2> QED
    BY <2>2 DEF IInv, ReplicaLeft, HealingHasWork, NobodyIsStranded
<1>3. IInv => TypeOK
  BY DEF IInv
<1> QED
  BY <1>1, <1>2, <1>3, Inductive, TicketedStep, HealingStep, PTL DEF Safety

-----------------------------------------------------------------------------
\* A part of the runners has no more members than the whole, and fewer if it
\* is not the whole.
LEMMA Shrinks ==
  ASSUME NEW S \in SUBSET Runners, NEW T \in SUBSET S
  PROVE  /\ Cardinality(S) \in Nat /\ Cardinality(T) \in Nat
         /\ Cardinality(T) <= Cardinality(S)
         /\ T # S => Cardinality(T) < Cardinality(S)
<1>1. IsFiniteSet(S)
  BY SupervisorAssumption, FS_Subset
<1>2. IsFiniteSet(T) /\ Cardinality(T) <= Cardinality(S) /\ (Cardinality(S) = Cardinality(T) => S = T)
  BY <1>1, FS_Subset
<1>3. Cardinality(S) \in Nat /\ Cardinality(T) \in Nat
  BY <1>1, <1>2, FS_CardinalityType
<1> QED
  BY <1>2, <1>3

\* A runner that goes nowhere `places` has not led it before.
LEMMA AtMoves ==
  ASSUME TypeOK, NEW r \in Runners, NEW place, pc' = [pc EXCEPT ![r] = place],
         NEW places, place \in places => pc[r] \in places
  PROVE  /\ Cardinality(At(places)) \in Nat /\ Cardinality(At(places)') \in Nat
         /\ Cardinality(At(places)') <= Cardinality(At(places))
         /\ pc[r] \in places /\ place \notin places =>
              Cardinality(At(places)') < Cardinality(At(places))
<1>1. pc \in [Runners -> RunnerPlaces]
  BY DEF TypeOK
<1>2. At(places) \in SUBSET Runners /\ At(places)' \in SUBSET At(places)
  BY <1>1 DEF At
<1>3. pc[r] \in places /\ place \notin places => At(places)' # At(places)
  BY <1>1 DEF At
<1> QED
  BY <1>2, <1>3, Shrinks

LEMMA RunnerWorkType == RunnerWork \in Nat
<1>1. ASSUME NEW places PROVE Cardinality(At(places)) \in Nat
  <2>1. At(places) \in SUBSET Runners
    BY DEF At
  <2> QED
    BY <2>1, Shrinks
<1> QED
  BY <1>1 DEF RunnerWork

\* After SIGTERM each step of a runner is one nearer to its end.
LEMMA RunnerProgress ==
  ASSUME TypeOK, cancelled, NEW r \in Runners, RunnerStep(r)
  PROVE  RunnerWork' \in Nat /\ RunnerWork' < RunnerWork
<1>1. PICK place \in RunnerPlaces :
        /\ pc' = [pc EXCEPT ![r] = place]
        /\ \/ pc[r] = "sending" /\ place = "start"
           \/ pc[r] = "start" /\ place = "waiting"
           \/ pc[r] = "waiting" /\ place \in {"probing", "stopped"}
           \/ pc[r] \in {"probing", "sleeping", "sending"} /\ place = "stopped"
  BY DEF RunnerStep, EnterWait, LeaveWait, StopInWait, Round, Wake, Send, Stop, RunnerPlaces
<1> DEFINE a == {"sending"}
           b == {"sending", "start"}
           c == {"sending", "start", "waiting"}
           d == {"sending", "start", "waiting", "probing", "sleeping"}
<1>2. /\ place \in a => pc[r] \in a
      /\ place \in b => pc[r] \in b
      /\ place \in c => pc[r] \in c
      /\ place \in d => pc[r] \in d
  BY <1>1
<1>3. \/ pc[r] \in a /\ place \notin a
      \/ pc[r] \in b /\ place \notin b
      \/ pc[r] \in c /\ place \notin c
      \/ pc[r] \in d /\ place \notin d
  BY <1>1
<1>4. /\ Cardinality(At(a)) \in Nat /\ Cardinality(At(a)') \in Nat
      /\ Cardinality(At(a)') <= Cardinality(At(a))
      /\ pc[r] \in a /\ place \notin a => Cardinality(At(a)') < Cardinality(At(a))
  BY <1>1, <1>2, AtMoves
<1>5. /\ Cardinality(At(b)) \in Nat /\ Cardinality(At(b)') \in Nat
      /\ Cardinality(At(b)') <= Cardinality(At(b))
      /\ pc[r] \in b /\ place \notin b => Cardinality(At(b)') < Cardinality(At(b))
  BY <1>1, <1>2, AtMoves
<1>6. /\ Cardinality(At(c)) \in Nat /\ Cardinality(At(c)') \in Nat
      /\ Cardinality(At(c)') <= Cardinality(At(c))
      /\ pc[r] \in c /\ place \notin c => Cardinality(At(c)') < Cardinality(At(c))
  BY <1>1, <1>2, AtMoves
<1>7. /\ Cardinality(At(d)) \in Nat /\ Cardinality(At(d)') \in Nat
      /\ Cardinality(At(d)') <= Cardinality(At(d))
      /\ pc[r] \in d /\ place \notin d => Cardinality(At(d)') < Cardinality(At(d))
  BY <1>1, <1>2, AtMoves
<1>8. /\ RunnerWork = Cardinality(At(a)) + Cardinality(At(b)) + Cardinality(At(c)) + Cardinality(At(d))
      /\ RunnerWork' = Cardinality(At(a)') + Cardinality(At(b)') + Cardinality(At(c)') + Cardinality(At(d)')
  BY DEF RunnerWork
<1> HIDE DEF a, b, c, d
<1> QED
  BY <1>3, <1>4, <1>5, <1>6, <1>7, <1>8

LEMMA WorkConstants ==
  /\ MaxReplicas \in Nat /\ MaxReplicas > 0 /\ MaxBans \in Nat
  /\ 4 * MaxReplicas \in Nat /\ 4 * MaxReplicas > 0
  /\ EventWork \in Nat
  /\ Cardinality(Runners) \in Nat
BY SupervisorAssumption, FS_CardinalityType DEF EventWork

\* The work before and after a step, by where the supervisor is.
LEMMA SupWorkIs ==
  /\ sup = "stopped"  => SupWork = 0
  /\ sup = "select"   => SupWork = 1
  /\ sup = "opened"   => SupWork = 2
  /\ sup = "opening"  => SupWork = 3
  /\ sup \in {"settling", "migrating"} => SupWork = 4 * todo
  /\ sup = "announcing" => SupWork = 4 * todo + 1
  /\ sup = "replicas" => SupWork = 4 * todo + 2
  /\ sup = "looking"  => SupWork = 4 * MaxReplicas + 3
  /\ sup = "draining" => SupWork = 4 * MaxReplicas + 4
  /\ sup = "closing"  => SupWork = 4 * MaxReplicas + 5
  /\ sup = "pausing"  => SupWork = 4 * MaxReplicas + 6
  /\ sup = "alerting" => SupWork = todo + 2
BY DEF SupWork

LEMMA SupWorkWillBe ==
  /\ sup' = "stopped"  => SupWork' = 0
  /\ sup' = "select"   => SupWork' = 1
  /\ sup' = "opened"   => SupWork' = 2
  /\ sup' = "opening"  => SupWork' = 3
  /\ sup' \in {"settling", "migrating"} => SupWork' = 4 * todo'
  /\ sup' = "announcing" => SupWork' = 4 * todo' + 1
  /\ sup' = "replicas" => SupWork' = 4 * todo' + 2
  /\ sup' = "looking"  => SupWork' = 4 * MaxReplicas + 3
  /\ sup' = "draining" => SupWork' = 4 * MaxReplicas + 4
  /\ sup' = "closing"  => SupWork' = 4 * MaxReplicas + 5
  /\ sup' = "pausing"  => SupWork' = 4 * MaxReplicas + 6
  /\ sup' = "alerting" => SupWork' = todo' + 2
BY DEF SupWork

LEMMA SupWorkType == TypeOK => SupWork \in Nat
<1> SUFFICES ASSUME TypeOK PROVE SupWork \in Nat
  OBVIOUS
<1>1. todo \in Nat /\ sup \in SupPlaces
  BY DEF TypeOK
<1>2. CASE sup \in {"stopped", "select", "opened", "opening", "alerting"}
  BY <1>1, <1>2, SupWorkIs
<1>3. CASE sup \in {"settling", "migrating", "announcing", "replicas"}
  BY <1>1, <1>3, SupWorkIs
<1>4. CASE sup \in {"looking", "draining", "closing", "pausing"}
  BY <1>4, WorkConstants, SupWorkIs
<1> QED
  BY <1>1, <1>2, <1>3, <1>4 DEF SupPlaces

\* The arithmetic of the two places where an event's work is chosen.
LEMMA ChosenWork ==
  ASSUME NEW n \in Nat, NEW m \in Nat, NEW b \in Nat
  PROVE  /\ n <= m => 4 * n + 2 < 4 * m + 3
         /\ n <= b + 1 => n + 2 <= 4 * m + b + 7
OBVIOUS

\* Acting on an event goes forward, the loop over the replicas included.
LEMMA SupProgress ==
  ASSUME TypeOK, TypeOK', ReplicaLeft, cancelled, SupStep, ~Receive
  PROVE  SupWork' < SupWork /\ events' = events
<1> USE SupWorkIs, SupWorkWillBe
<1>0. /\ todo \in Nat /\ todo' \in Nat
      /\ MaxReplicas \in Nat /\ 4 * MaxReplicas \in Nat /\ 4 * MaxReplicas > 0
  BY WorkConstants DEF TypeOK
<1>1. CASE Notify
  BY <1>0, <1>1 DEF Notify, Done
<1>2. CASE SupPauses
  <2>1. sup = "pausing" /\ sup' = "closing" /\ events' = events
    BY <1>2 DEF SupPauses, SupGoes
  <2>2. SupWork = 4 * MaxReplicas + 6 /\ SupWork' = 4 * MaxReplicas + 5
    BY <2>1
  <2> QED
    BY <1>0, <2>1, <2>2
<1>3. CASE SupReportsPause
  BY <1>0, <1>3 DEF SupReportsPause, SupGoes
<1>4. CASE Drain
  BY <1>0, <1>4 DEF Drain, SupGoes, runnerVars
<1>5. CASE LookUp
  <2>1. sup = "looking" /\ events' = events
    BY <1>5 DEF LookUp, runnerVars
  <2>2. CASE sup' = "opening"
    <3>1. SupWork = 4 * MaxReplicas + 3 /\ SupWork' = 3
      BY <2>1, <2>2
    <3> QED
      BY <1>0, <2>1, <3>1
  <2>3. CASE sup' = "replicas" /\ todo' <= MaxReplicas
    <3>1. 4 * todo' + 2 < 4 * MaxReplicas + 3
      BY <1>0, <2>3, WorkConstants, ChosenWork
    <3>2. SupWork = 4 * MaxReplicas + 3 /\ SupWork' = 4 * todo' + 2
      BY <2>1, <2>3
    <3> QED
      BY <2>1, <3>1, <3>2
  <2> QED
    BY <1>0, <1>5, <2>2, <2>3 DEF LookUp, SupGoes
<1>6. CASE PassOver
  BY <1>0, <1>6 DEF PassOver, Advance, ReplicaLeft, runnerVars
<1>7. CASE FindMigration \/ RestartReplica \/ Announce
  BY <1>0, <1>7 DEF FindMigration, RestartReplica, Announce, SupGoes, runnerVars
<1>8. CASE SettleDone
  BY <1>0, <1>8 DEF SettleDone, Advance, ReplicaLeft, runnerVars
<1>9. CASE SupResumes
  BY <1>0, <1>9 DEF SupResumes, SupGoes
<1>10. CASE SupReportsResume
  BY <1>0, <1>10 DEF SupReportsResume, Done
<1>11. CASE SupStops
  BY <1>0, <1>11 DEF SupStops, SupGoes, runnerVars
<1> QED
  BY <1>1, <1>2, <1>3, <1>4, <1>5, <1>6, <1>7, <1>8, <1>9, <1>10, <1>11 DEF SupStep

\* Taking an event off the channel is worth what acting on it takes.
LEMMA ReceiveProgress ==
  ASSUME TypeOK, TypeOK', Receive
  PROVE  SupWork = 1 /\ SupWork' <= EventWork /\ Len(events') = Len(events) - 1
<1>1. SupWork = 1
  BY SupWorkIs DEF Receive
<1>2. Len(events') = Len(events) - 1
  <2>1. events \in Seq(Runners) /\ events # <<>> /\ events' = Tail(events)
    BY DEF TypeOK, Receive
  <2> QED
    BY <2>1
<1>3. CASE sup' = "pausing"
  <2>1. SupWork' = 4 * MaxReplicas + 6
    BY <1>3, SupWorkWillBe
  <2>2. SupWork' <= EventWork
    BY <2>1, WorkConstants DEF EventWork
  <2> QED
    BY <1>1, <1>2, <2>2
<1>4. CASE sup' = "alerting"
  <2>1. Head(events) \in Runners
    BY DEF TypeOK, Receive
  <2>2. todo' \in Nat /\ todo' <= MaxBans + 1
    BY <2>1, WorkConstants, SupervisorAssumption DEF Receive, Alerts, Reactions
  <2>3. SupWork' = todo' + 2
    BY <1>4, SupWorkWillBe
  <2>4. todo' + 2 <= EventWork
    <3>1. todo' + 2 <= 4 * MaxReplicas + MaxBans + 7
      BY <2>2, WorkConstants, ChosenWork
    <3> QED
      BY <3>1 DEF EventWork
  <2> QED
    BY <1>1, <1>2, <2>3, <2>4
<1> QED
  BY <1>1, <1>2, <1>3, <1>4 DEF Receive

LEMMA WatchWorkIs ==
  /\ watch = "stopped" => WatchWork = 0
  /\ watch = "leaving" => WatchWork = 1
  /\ watch = "polling" => WatchWork = 2
  /\ watch = "healing" => WatchWork = 2 + Cardinality(toHeal)
  /\ watch \in {"closing", "opening"} => WatchWork = 3 + Cardinality(Runners)
  /\ watch = "asking"  => WatchWork = 4 + Cardinality(Runners)
BY DEF WatchWork

LEMMA WatchWorkWillBe ==
  /\ watch' = "stopped" => WatchWork' = 0
  /\ watch' = "leaving" => WatchWork' = 1
  /\ watch' = "polling" => WatchWork' = 2
  /\ watch' = "healing" => WatchWork' = 2 + Cardinality(toHeal')
  /\ watch' \in {"closing", "opening"} => WatchWork' = 3 + Cardinality(Runners)
  /\ watch' = "asking"  => WatchWork' = 4 + Cardinality(Runners)
BY DEF WatchWork

LEMMA WatchWorkType == TypeOK => WatchWork \in Nat
<1> SUFFICES ASSUME TypeOK PROVE WatchWork \in Nat
  OBVIOUS
<1>1. Cardinality(toHeal) \in Nat
  BY Shrinks DEF TypeOK
<1> QED
  BY <1>1, WorkConstants, WatchWorkIs DEF TypeOK, WatchPlaces

\* The watcher's round goes forward, and another one needs a poll that the
\* cancelled context cuts short.
LEMMA WatchProgress ==
  ASSUME TypeOK, TypeOK', cancelled, WatchStep
  PROVE  WatchWork' < WatchWork
<1> USE WorkConstants, WatchWorkIs, WatchWorkWillBe
<1>0. Cardinality(toHeal) \in Nat /\ Cardinality(toHeal') \in Nat
  BY Shrinks DEF TypeOK
<1>1. CASE PollDue
  BY <1>1 DEF PollDue
<1>2. CASE PollSame \/ PollLost \/ PollFound
  <2>1. watch = "asking" /\ watch' \in {"polling", "closing", "opening"}
    BY <1>2 DEF PollSame, PollLost, PollFound, WatchGoes
  <2>2. /\ WatchWork = 4 + Cardinality(Runners)
        /\ WatchWork' = 2 \/ WatchWork' = 3 + Cardinality(Runners)
    BY <2>1
  <2> QED
    BY <2>2
<1>3. CASE WatchResumesToLeave \/ WatchStops
  <2>1. watch = "polling" /\ watch' \in {"leaving", "stopped"}
    BY <1>3 DEF WatchResumesToLeave, WatchStops, WatchGoes
  <2>2. WatchWork = 2 /\ (WatchWork' = 1 \/ WatchWork' = 0)
    BY <2>1
  <2> QED
    BY <2>2
<1>4. CASE WatchReportsPause \/ WatchReportsLeaving
  BY <1>4 DEF WatchReportsPause, WatchReportsLeaving
<1>5. CASE WatchReportsResume
  BY <1>5 DEF WatchReportsResume
<1>6. ASSUME NEW r \in Runners, HealOne(r) PROVE WatchWork' < WatchWork
  <2>1. watch = "healing" /\ r \in toHeal /\ toHeal' = toHeal \ {r}
        /\ watch' \in {"healing", "polling"}
    BY <1>6 DEF HealOne
  <2>2. toHeal \in SUBSET Runners /\ toHeal' \in SUBSET toHeal /\ toHeal' # toHeal
    BY <2>1 DEF TypeOK
  <2>3. Cardinality(toHeal') < Cardinality(toHeal)
    BY <2>2, Shrinks
  <2> QED
    BY <1>0, <2>1, <2>3
<1> QED
  BY <1>1, <1>2, <1>3, <1>4, <1>5, <1>6 DEF WatchStep

\* So they do after a step.
LEMMA WorkTypeNext == TypeOK' => (SupWork \in Nat)' /\ (WatchWork \in Nat)'
BY SupWorkType, WatchWorkType, PTL

\* A send moves the event from a runner's work to the supervisor's.
LEMMA SendPays ==
  ASSUME NEW e \in Nat, NEW v \in Nat, NEW w \in Nat, NEW k \in Nat, NEW l \in Nat,
         v < w, k <= l + 1
  PROVE  /\ (e + 1) * v + e * k \in Nat
         /\ (e + 1) * v + e * k < (e + 1) * w + e * l
<1>1. PICK n \in Nat : w = v + 1 + n
  <2>1. w - v - 1 \in Nat /\ w = v + 1 + (w - v - 1)
    OBVIOUS
  <2> QED
    BY <2>1
<1>2. PICK m \in Nat : k + m = l + 1
  <2>1. l + 1 - k \in Nat /\ k + (l + 1 - k) = l + 1
    OBVIOUS
  <2> QED
    BY <2>1
<1>3. (e + 1) * w = (e + 1) * v + (e + 1) + (e + 1) * n
  BY <1>1
<1>4. e * k + e * m = e * l + e
  <2>1. e * (k + m) = e * (l + 1)
    BY <1>2
  <2> QED
    BY <2>1
<1>5. (e + 1) * n \in Nat /\ e * m \in Nat /\ e * k \in Nat /\ e * l \in Nat /\ (e + 1) * v \in Nat
  OBVIOUS
<1> QED
  BY <1>3, <1>4, <1>5

LEMMA WorkType ==
  ASSUME TypeOK PROVE Work \in Nat
<1>1. Len(events) \in Nat
  BY DEF TypeOK
<1>2. EventWork * Len(events) \in Nat /\ (EventWork + 1) * RunnerWork \in Nat
  BY <1>1, WorkConstants, RunnerWorkType
<1> QED
  BY <1>2, SupWorkType, WatchWorkType DEF Work

\* After SIGTERM the runners, the supervisor and the watcher take at most Work
\* steps altogether, however they interleave (runner.go:123-128,
\* supervisor.go:182-192, supervisor.go:391-414): with nobody stranded and
\* goroutines that are scheduled, Run returns.
THEOREM ShutdownIsBounded == Safety => []WorkIsFinite /\ EveryStepIsProgress
<1>1. TypeOK => WorkIsFinite
  BY WorkType DEF WorkIsFinite
<1>2. TypeOK /\ TypeOK' /\ ReplicaLeft /\ [Next]_vars
        => [cancelled /\ ~AllStopped => Work' < Work]_vars
  <2> SUFFICES ASSUME TypeOK, TypeOK', ReplicaLeft, Next, cancelled, ~AllStopped
               PROVE  Work' < Work
    OBVIOUS
  <2> DEFINE sent == (EventWork + 1) * RunnerWork + EventWork * Len(events)
  <2>0. /\ RunnerWork \in Nat /\ SupWork \in Nat /\ SupWork' \in Nat
        /\ WatchWork \in Nat /\ WatchWork' \in Nat /\ EventWork \in Nat
        /\ Len(events) \in Nat /\ Len(events') \in Nat
    <3>1. RunnerWork \in Nat /\ SupWork \in Nat /\ WatchWork \in Nat
      BY RunnerWorkType, SupWorkType, WatchWorkType
    <3>2. SupWork' \in Nat /\ WatchWork' \in Nat
      BY WorkTypeNext
    <3>3. Len(events) \in Nat /\ Len(events') \in Nat
      BY DEF TypeOK
    <3> QED
      BY <3>1, <3>2, <3>3, WorkConstants
  <2>a. /\ Work = sent + SupWork + WatchWork
        /\ Work' = (EventWork + 1) * RunnerWork' + EventWork * Len(events') + SupWork' + WatchWork'
    BY DEF Work, EventWork
  <2>b. sent \in Nat /\ EventWork * Len(events) \in Nat /\ (EventWork + 1) * RunnerWork \in Nat
    BY <2>0
  <2>1. ASSUME NEW r \in Runners, RunnerStep(r) PROVE Work' < Work
    <3>1. SupWork' = SupWork /\ WatchWork' = WatchWork
      BY <2>1, RunnerFrame DEF SupWork, WatchWork, supVars, watchVars
    <3>2. RunnerWork' \in Nat /\ RunnerWork' < RunnerWork
      BY <2>1, RunnerProgress
    <3>3. Len(events') <= Len(events) + 1
      <4>1. events' = events \/ events' = Append(events, r)
        BY <2>1 DEF RunnerStep, EnterWait, LeaveWait, StopInWait, Round, Wake, Send, Stop
      <4>2. events \in Seq(Runners)
        BY DEF TypeOK
      <4> QED
        BY <4>1, <4>2
    <3> DEFINE left == (EventWork + 1) * RunnerWork' + EventWork * Len(events')
    <3>4. left \in Nat /\ left < sent
      <4> DEFINE v == RunnerWork' w == RunnerWork k == Len(events') l == Len(events)
      <4>1. v \in Nat /\ w \in Nat /\ k \in Nat /\ l \in Nat /\ v < w /\ k <= l + 1
        BY <2>0, <3>2, <3>3
      <4> HIDE DEF v, w, k, l
      <4>2. /\ (EventWork + 1) * v + EventWork * k \in Nat
            /\ (EventWork + 1) * v + EventWork * k < (EventWork + 1) * w + EventWork * l
        BY <4>1, <2>0, SendPays
      <4> QED
        BY <4>2 DEF v, w, k, l
    <3>5. Work = sent + SupWork + WatchWork /\ Work' = left + SupWork + WatchWork
      BY <2>a, <3>1
    <3> HIDE DEF sent, left
    <3>6. left + SupWork + WatchWork < sent + SupWork + WatchWork
      BY <2>0, <2>b, <3>4
    <3> QED
      BY <3>5, <3>6
  <2>2. CASE SupStep
    <3>1. RunnerWork' = RunnerWork /\ WatchWork' = WatchWork
      BY <2>2, SupFrame DEF RunnerWork, At, WatchWork, watchVars
    <3>2. CASE Receive
      <4>1. SupWork = 1 /\ SupWork' <= EventWork /\ Len(events') = Len(events) - 1
        BY <3>2, ReceiveProgress
      <4>2. EventWork * Len(events') = EventWork * Len(events) - EventWork
        BY <2>0, <4>1
      <4> QED
        BY <2>0, <2>a, <2>b, <3>1, <4>1, <4>2
    <3>3. CASE ~Receive
      <4>1. SupWork' < SupWork /\ events' = events
        BY <2>2, <3>3, SupProgress
      <4> QED
        BY <2>0, <2>a, <2>b, <3>1, <4>1
    <3> QED
      BY <3>2, <3>3
  <2>3. CASE WatchStep
    <3>1. RunnerWork' = RunnerWork /\ SupWork' = SupWork /\ events' = events
      BY <2>3, WatchFrame DEF RunnerWork, At, SupWork, supVars
    <3>2. WatchWork' < WatchWork
      BY <2>3, WatchProgress
    <3> QED
      BY <2>0, <2>a, <2>b, <3>1, <3>2
  <2>4. ~Cancel /\ ~Terminated
    BY DEF Cancel, GateCancel, Terminated
  <2> QED
    BY <2>1, <2>2, <2>3, <2>4 DEF Next
<1>3. IInv => TypeOK /\ ReplicaLeft
  BY DEF IInv
<1> QED
  BY <1>1, <1>2, <1>3, Inductive, PTL DEF Safety, EveryStepIsProgress
=============================================================================
