----------------------------- MODULE Supervisor -----------------------------
(****************************************************************************)
(* internal/supervisor: the check runners, the goroutine that acts on their *)
(* events, and the dockerapi watcher, sharing the pause gate, the error     *)
(* budgets, the bounded event channel, the paused gauge and a context.      *)
(*                                                                          *)
(* A step ends where a goroutine can be overtaken: at a channel operation,  *)
(* a mutex, a sleep or a call that leaves the process.  Time is not         *)
(* modelled here: a sleep ends whenever it ends.  What a container answers  *)
(* is chosen by the environment.                                            *)
(* A sleep whose timer and context are both ready may return either way;    *)
(* the timer winning is the timer having fired just before the context.     *)
(****************************************************************************)
EXTENDS Health, GateSpec, Integers, Sequences, FiniteSets

CONSTANTS Threshold,    \* Threshold[r]: the configured error budget
          Reaction,     \* Reaction[r]: the branch of handle r's event takes
          Weights,      \* what a round of probes may cost
          HealPoints,   \* supervisor.go's HealPoints
          MaxReplicas,  \* containers Find may match for one service
          MaxBans,      \* addresses one fail2ban event may carry
          HasDocker,    \* Options.Docker # nil
          NoCheck       \* no event is being handled

Reactions == {"alert", "bans", "restart", "php-fpm", "unhandled"}

ASSUME SupervisorAssumption ==
  /\ IsFiniteSet(Runners) /\ Runners # {} /\ NoCheck \notin Runners
  /\ Threshold \in [Runners -> Nat \ {0}]     \* config.Validate
  /\ Reaction \in [Runners -> Reactions]
  /\ Weights \subseteq Nat
  /\ HealPoints \in Nat
  /\ MaxReplicas \in Nat \ {0}
  /\ MaxBans \in Nat
  /\ HasDocker \in BOOLEAN

VARIABLES pc,           \* pc[r]: where runner r is in Runner.Run
          err,          \* err[r]: Tracker.errCount
          doomed,       \* doomed[r]: the round's snapshot was Dead
          events,       \* the channel of events, by the check each carries
          sup,          \* where the supervisor's goroutine is
          handling,     \* the check whose event it acts on
          todo,         \* replicas or alerts left of that event
          watch,        \* where the dockerapi watcher is
          held,         \* watchDockerAPI's local of that name
          toHeal,       \* runners healAll has still to reach
          gauge         \* the paused gauge

vars == <<gateVars, pc, err, doomed, events, sup, handling, todo,
          watch, held, toHeal, gauge>>
runnerVars == <<ticket, pc, err, doomed, events>>
supVars    == <<sup, handling, todo>>
watchVars  == <<watch, held, toHeal>>

RunnerPlaces == {"start", "waiting", "probing", "sleeping", "sending", "stopped"}
SupPlaces ==
  {"select", "alerting", "pausing", "closing", "draining", "looking", "replicas",
   "migrating", "announcing", "settling", "opening", "opened", "stopped"}
WatchPlaces == {"polling", "asking", "closing", "opening", "healing", "leaving", "stopped"}

\* make(chan Event, len(opts.Checks))
Buffer == Cardinality(Runners)

TypeOK ==
  /\ GateTypeOK
  /\ pc \in [Runners -> RunnerPlaces]
  /\ err \in [Runners -> Nat]
  /\ doomed \in [Runners -> BOOLEAN]
  /\ events \in Seq(Runners) /\ Len(events) <= Buffer
  /\ sup \in SupPlaces
  /\ handling \in Runners \cup {NoCheck}
  /\ todo \in Nat
  /\ watch \in WatchPlaces
  /\ held \in BOOLEAN
  /\ toHeal \subseteq Runners
  /\ gauge \in BOOLEAN

Init ==
  /\ GateInit
  /\ pc = [r \in Runners |-> "start"]
  /\ err = [r \in Runners |-> 0]
  /\ doomed = [r \in Runners |-> FALSE]
  /\ events = <<>>
  /\ sup = "select" /\ handling = NoCheck /\ todo = 0
  /\ watch = IF HasDocker THEN "polling" ELSE "stopped"
  /\ held = FALSE /\ toHeal = {}
  /\ gauge = FALSE

-----------------------------------------------------------------------------
(* Runner.Run *)

EnterWait(r) ==
  /\ pc[r] = "start"
  /\ Arrive(r)
  /\ pc' = [pc EXCEPT ![r] = "waiting"]
  /\ UNCHANGED <<cancelled, err, doomed, events, supVars, watchVars, gauge>>

LeaveWait(r) ==
  /\ pc[r] = "waiting"
  /\ Pass(r)
  /\ pc' = [pc EXCEPT ![r] = "probing"]
  /\ UNCHANGED <<cancelled, err, doomed, events, supVars, watchVars, gauge>>

StopInWait(r) ==
  /\ pc[r] = "waiting"
  /\ GiveUp(r)
  /\ pc' = [pc EXCEPT ![r] = "stopped"]
  /\ UNCHANGED <<cancelled, err, doomed, events, supVars, watchVars, gauge>>

\* The round's probes have answered: account for them, then leave if the
\* context went away under them.
Round(r) ==
  /\ pc[r] = "probing"
  /\ \E weight \in Weights :
       LET spent == Spend(err[r], weight) IN
         /\ err' = [err EXCEPT ![r] = spent]
         /\ doomed' = [doomed EXCEPT
              ![r] = ~cancelled /\ Dead(Remaining(Budget(Threshold[r]), spent))]
  /\ pc' = [pc EXCEPT ![r] = IF cancelled THEN "stopped" ELSE "sleeping"]
  /\ UNCHANGED <<cancelled, paused, ticket, events, supVars, watchVars, gauge>>

\* Wake that leaves the spent budget as it is.
WakeWithoutReset(r) ==
  /\ pc[r] = "sleeping" /\ ~cancelled
  /\ pc' = [pc EXCEPT ![r] = IF doomed[r] THEN "sending" ELSE "start"]
  /\ doomed' = [doomed EXCEPT ![r] = FALSE]
  /\ UNCHANGED <<cancelled, paused, ticket, err, events, supVars, watchVars, gauge>>

\* The sleep between rounds is over.  A dead check starts afresh and has an
\* event to raise; the snapshot decides, not what the budget is by now.
Wake(r) ==
  /\ pc[r] = "sleeping"
  /\ ~cancelled
  /\ IF doomed[r]
     THEN /\ err' = [err EXCEPT ![r] = 0]
          /\ pc' = [pc EXCEPT ![r] = "sending"]
     ELSE /\ pc' = [pc EXCEPT ![r] = "start"]
          /\ UNCHANGED err
  /\ doomed' = [doomed EXCEPT ![r] = FALSE]
  /\ UNCHANGED <<cancelled, paused, ticket, events, supVars, watchVars, gauge>>

\* Send that gives up when the buffer is full (a select with a default).
SendOrDrop(r) ==
  /\ pc[r] = "sending"
  /\ events' = IF Len(events) < Buffer THEN Append(events, r) ELSE events
  /\ pc' = [pc EXCEPT ![r] = "start"]
  /\ UNCHANGED <<gateVars, err, doomed, supVars, watchVars, gauge>>

\* The send of the event; it blocks while the buffer is full.
Send(r) ==
  /\ pc[r] = "sending"
  /\ Len(events) < Buffer
  /\ events' = Append(events, r)
  /\ pc' = [pc EXCEPT ![r] = "start"]
  /\ UNCHANGED <<gateVars, err, doomed, supVars, watchVars, gauge>>

\* Stop with a send that does not watch the context.
StopInSleepOnly(r) ==
  /\ cancelled
  /\ pc[r] = "sleeping"
  /\ pc' = [pc EXCEPT ![r] = "stopped"]
  /\ doomed' = [doomed EXCEPT ![r] = FALSE]
  /\ UNCHANGED <<gateVars, err, events, supVars, watchVars, gauge>>

\* Sleep and the send both also watch ctx.Done().
Stop(r) ==
  /\ cancelled
  /\ pc[r] \in {"sleeping", "sending"}
  /\ pc' = [pc EXCEPT ![r] = "stopped"]
  /\ doomed' = [doomed EXCEPT ![r] = FALSE]
  /\ UNCHANGED <<gateVars, err, events, supVars, watchVars, gauge>>

RunnerStep(r) ==
  EnterWait(r) \/ LeaveWait(r) \/ StopInWait(r) \/ Round(r) \/ Wake(r) \/ Send(r) \/ Stop(r)

-----------------------------------------------------------------------------
(* Supervisor.handleEvents, handle and restart *)

SupGoes(place) == sup' = place /\ UNCHANGED <<handling, todo>>

\* The event is dealt with; back to the select.
Done == sup' = "select" /\ handling' = NoCheck /\ todo' = 0

\* One replica or alert fewer to go; `last` is where the loop ends.
Advance(again, last) ==
  /\ todo' = todo - 1
  /\ sup' = IF todo = 1 THEN last ELSE again
  /\ UNCHANGED handling

\* The alerts an event of r calls for before any restart.
Alerts(r) ==
  CASE Reaction[r] = "alert" -> {1}
    [] Reaction[r] = "bans"  -> 0..MaxBans
    [] OTHER                 -> {0}

Receive ==
  /\ sup = "select"
  /\ events # <<>>
  /\ LET r == Head(events) IN
       /\ handling' = r
       /\ todo' \in Alerts(r)
       /\ sup' = IF Reaction[r] \in {"restart", "php-fpm"} THEN "pausing" ELSE "alerting"
  /\ events' = Tail(events)
  /\ UNCHANGED <<gateVars, pc, err, doomed, watchVars, gauge>>

\* alert, or handleBans' loop of lookups and alerts; delivery may fail.
Notify ==
  /\ sup = "alerting"
  /\ IF todo > 0 THEN todo' = todo - 1 /\ UNCHANGED <<sup, handling>> ELSE Done
  /\ UNCHANGED <<gateVars, pc, err, doomed, events, watchVars, gauge>>

\* restart: pauseAll, which is Gate.Pause and then the gauge.
SupPauses ==
  /\ sup = "pausing"
  /\ Pause
  /\ SupGoes("closing")
  /\ UNCHANGED <<cancelled, pc, err, doomed, events, watchVars, gauge>>

SupReportsPause ==
  /\ sup = "closing"
  /\ gauge' = TRUE
  /\ SupGoes("draining")
  /\ UNCHANGED <<gateVars, pc, err, doomed, events, watchVars>>

\* PauseBeforeRestart is over, or was cut short by the shutdown.
Drain ==
  /\ sup = "draining"
  /\ SupGoes(IF cancelled THEN "opening" ELSE "looking")
  /\ UNCHANGED <<gateVars, runnerVars, watchVars, gauge>>

\* LookUp with the deferred resume left out of the early return.
LookUpForgetsResume ==
  /\ sup = "looking"
  /\ \/ Done
     \/ HasDocker /\ \E n \in 1..MaxReplicas :
          sup' = "replicas" /\ todo' = n /\ UNCHANGED handling
  /\ UNCHANGED <<gateVars, runnerVars, watchVars, gauge>>

\* Find: no client, an error or no match gives up; otherwise each match gets
\* its turn.
LookUp ==
  /\ sup = "looking"
  /\ \/ SupGoes("opening")
     \/ HasDocker /\ \E n \in 1..MaxReplicas :
          sup' = "replicas" /\ todo' = n /\ UNCHANGED handling
  /\ UNCHANGED <<gateVars, runnerVars, watchVars, gauge>>

\* restartOne without a restart: too young, or the dockerapi refused.
PassOver ==
  /\ sup = "replicas"
  /\ Advance("replicas", "opening")
  /\ UNCHANGED <<gateVars, runnerVars, watchVars, gauge>>

\* restartOne on a php-fpm that migrates the database.
FindMigration ==
  /\ sup = "replicas"
  /\ Reaction[handling] = "php-fpm"
  /\ SupGoes("migrating")
  /\ UNCHANGED <<gateVars, runnerVars, watchVars, gauge>>

RestartReplica ==
  /\ sup = "replicas"
  /\ SupGoes("announcing")
  /\ UNCHANGED <<gateVars, runnerVars, watchVars, gauge>>

\* The alert about the restart, sent or not.
Announce ==
  /\ sup = "announcing"
  /\ SupGoes("settling")
  /\ UNCHANGED <<gateVars, runnerVars, watchVars, gauge>>

\* SettleAfterRestart or InitDBDelay is over, or was cut short: either way the
\* loop goes on with the next replica.
SettleDone ==
  /\ sup \in {"settling", "migrating"}
  /\ Advance("replicas", "opening")
  /\ UNCHANGED <<gateVars, runnerVars, watchVars, gauge>>

\* resumeAll's first call taken for all of it.
SupResumesGateOnly ==
  /\ sup = "opening"
  /\ Resume
  /\ Done
  /\ UNCHANGED <<cancelled, pc, err, doomed, events, watchVars, gauge>>

\* The deferred resumeAll, which is Gate.Resume and then the gauge.
SupResumes ==
  /\ sup = "opening"
  /\ Resume
  /\ SupGoes("opened")
  /\ UNCHANGED <<cancelled, pc, err, doomed, events, watchVars, gauge>>

SupReportsResume ==
  /\ sup = "opened"
  /\ gauge' = FALSE
  /\ Done
  /\ UNCHANGED <<gateVars, pc, err, doomed, events, watchVars>>

SupStops ==
  /\ sup = "select"
  /\ cancelled
  /\ SupGoes("stopped")
  /\ UNCHANGED <<gateVars, runnerVars, watchVars, gauge>>

SupStep ==
  \/ Receive \/ Notify
  \/ SupPauses \/ SupReportsPause \/ Drain \/ LookUp
  \/ PassOver \/ FindMigration \/ RestartReplica \/ Announce \/ SettleDone
  \/ SupResumes \/ SupReportsResume \/ SupStops

-----------------------------------------------------------------------------
(* Supervisor.watchDockerAPI *)

WatchGoes(place) == watch' = place /\ UNCHANGED <<held, toHeal>>

\* DockerAPIPoll is over; Reachable is asked.
PollDue ==
  /\ watch = "polling"
  /\ ~cancelled
  /\ WatchGoes("asking")
  /\ UNCHANGED <<gateVars, runnerVars, supVars, gauge>>

\* Still reachable, or still not.
PollSame ==
  /\ watch = "asking"
  /\ WatchGoes("polling")
  /\ UNCHANGED <<gateVars, runnerVars, supVars, gauge>>

\* The dockerapi is gone: pauseAll.
PollLost ==
  /\ watch = "asking"
  /\ ~held
  /\ Pause
  /\ WatchGoes("closing")
  /\ UNCHANGED <<cancelled, pc, err, doomed, events, supVars, gauge>>

WatchReportsPause ==
  /\ watch = "closing"
  /\ gauge' = TRUE
  /\ watch' = "polling" /\ held' = TRUE /\ UNCHANGED toHeal
  /\ UNCHANGED <<gateVars, runnerVars, supVars>>

\* The dockerapi is back: resumeAll, then healAll.
PollFound ==
  /\ watch = "asking"
  /\ held
  /\ Resume
  /\ WatchGoes("opening")
  /\ UNCHANGED <<cancelled, pc, err, doomed, events, supVars, gauge>>

WatchReportsResume ==
  /\ watch = "opening"
  /\ gauge' = FALSE
  /\ watch' = "healing" /\ toHeal' = Runners /\ UNCHANGED held
  /\ UNCHANGED <<gateVars, runnerVars, supVars>>

\* Heal taken for a reset.
HealOneResets(r) ==
  /\ watch = "healing"
  /\ r \in toHeal
  /\ err' = [err EXCEPT ![r] = 0]
  /\ toHeal' = toHeal \ {r}
  /\ IF toHeal = {r}
     THEN watch' = "polling" /\ held' = FALSE
     ELSE UNCHANGED <<watch, held>>
  /\ UNCHANGED <<gateVars, pc, doomed, events, supVars, gauge>>

\* healAll's loop; the order of the runners does not matter.
HealOne(r) ==
  /\ watch = "healing"
  /\ r \in toHeal
  /\ err' = [err EXCEPT ![r] = Repay(err[r], HealPoints)]
  /\ toHeal' = toHeal \ {r}
  /\ IF toHeal = {r}
     THEN watch' = "polling" /\ held' = FALSE
     ELSE UNCHANGED <<watch, held>>
  /\ UNCHANGED <<gateVars, pc, doomed, events, supVars, gauge>>

\* The sleep returned an error: resume what is held, and leave.
WatchResumesToLeave ==
  /\ watch = "polling" /\ cancelled /\ held
  /\ Resume
  /\ WatchGoes("leaving")
  /\ UNCHANGED <<cancelled, pc, err, doomed, events, supVars, gauge>>

WatchReportsLeaving ==
  /\ watch = "leaving"
  /\ gauge' = FALSE
  /\ watch' = "stopped" /\ held' = FALSE /\ UNCHANGED toHeal
  /\ UNCHANGED <<gateVars, runnerVars, supVars>>

WatchStops ==
  /\ watch = "polling" /\ cancelled /\ ~held
  /\ WatchGoes("stopped")
  /\ UNCHANGED <<gateVars, runnerVars, supVars, gauge>>

WatchStep ==
  \/ PollDue \/ PollSame \/ PollLost \/ WatchReportsPause \/ PollFound \/ WatchReportsResume
  \/ (\E r \in Runners : HealOne(r))
  \/ WatchResumesToLeave \/ WatchReportsLeaving \/ WatchStops

-----------------------------------------------------------------------------
\* SIGTERM
Cancel == GateCancel /\ UNCHANGED <<paused, runnerVars, supVars, watchVars, gauge>>

AllStopped ==
  /\ \A r \in Runners : pc[r] = "stopped"
  /\ sup = "stopped"
  /\ watch = "stopped"

\* wg.Wait returns; Run is over.
Terminated == AllStopped /\ UNCHANGED vars

Next ==
  \/ \E r \in Runners : RunnerStep(r)
  \/ SupStep
  \/ WatchStep
  \/ Cancel
  \/ Terminated

Safety == Init /\ [][Next]_vars

\* Goroutines are scheduled, probes and calls time out, timers fire.  A sender
\* blocked on a full channel is served in its turn (Go queues blocked senders),
\* hence the strong fairness of Send.  Nothing is assumed of the dockerapi, nor
\* that a shutdown ever comes.
Fairness ==
  /\ \A r \in Runners : WF_vars(RunnerStep(r)) /\ SF_vars(Send(r))
  /\ WF_vars(SupStep)
  /\ WF_vars(WatchStep)

Spec == Safety /\ Fairness

-----------------------------------------------------------------------------
(* Who has closed the gate and will open it again. *)
SupHolds ==
  sup \in {"closing", "draining", "looking", "replicas", "migrating",
           "announcing", "settling", "opening"}
WatchHolds == watch = "closing" \/ (held /\ watch \in {"polling", "asking"})

\* The gate is never left closed by nobody: whoever closed it is still on the
\* way to opening it.  All of restart's early returns and the watcher's exit
\* have to resume for this to hold, and no check runs again if one does not.
PauseHasOwner == paused => SupHolds \/ WatchHolds

\* A gauge that says "paused" is not left behind: the goroutine that set it is
\* still on its way to clearing it, also when the other one has cleared or set
\* it in between.  (The converse fails: the gauge may say "running" while the
\* gate is closed, if one party reports its resume after the other has paused.)
GaugeHasOwner ==
  gauge =>
    \/ SupHolds /\ sup # "closing"
    \/ sup = "opened"
    \/ held /\ watch \in {"polling", "asking", "opening", "leaving"}

\* A runner waits only while the gate is closed: with PauseHasOwner, every
\* waiting runner has somebody who will release it.
BlockedOnlyWhilePaused == \A r \in Runners : ticket[r] = "blocked" => paused

\* A spent budget stays spent only while its runner is on the way to raising
\* the event for it, whatever healAll does meanwhile: a check can neither sit
\* dead without an event nor begin another round on a spent budget.
ExhaustionIsPending ==
  \A r \in Runners :
    err[r] >= Budget(Threshold[r]) =>
      (pc[r] = "sleeping" /\ doomed[r]) \/ (pc[r] = "stopped" /\ cancelled)

\* Budget is wiped only for an event, and otherwise comes back only a point per
\* clean round or by healAll's points: no interleaving of the watcher's Heal
\* with a runner's Record and Reset forgives more.
BudgetIsNotForgiven ==
  [][\A r \in Runners :
       \/ err'[r] >= err[r] - 1
       \/ pc'[r] = "sending"
       \/ watch = "healing" /\ err'[r] >= err[r] - HealPoints]_vars

\* Incidents of r that are on their way to the supervisor.
Owed(r) ==
  (IF doomed[r] \/ pc[r] = "sending" THEN 1 ELSE 0)
    + Cardinality({i \in DOMAIN events : events[i] = r})

Ledger == INSTANCE Incidents WITH
  MaxOwed <- Buffer + 1,
  owed <- [r \in Runners |-> Owed(r)],
  acting <- handling

\* Every spent budget is acted on exactly once, one at a time, unless the
\* shutdown comes first.
ImplementsIncidents == Ledger!IncidentsSafety

-----------------------------------------------------------------------------
\* SIGTERM ends every goroutine, whatever it is doing, and leaves the gate open.
ShutdownCompletes == cancelled ~> (AllStopped /\ ~paused)

\* A budget that is spent is acted on, even if the channel is full.
ExhaustionIsHandled ==
  \A r \in Runners : doomed[r] ~> (handling = r \/ cancelled)

\* A runner the gate stopped runs again, unless the dockerapi stays away.
BlockedRunnersReturn ==
  \A r \in Runners : ticket[r] = "blocked" ~> (ticket[r] # "blocked" \/ held)

-----------------------------------------------------------------------------
(* What comments and documents of the repository say, and the code does not. *)

\* "While the endpoint is unreachable the supervisor pauses every check."
PausedWhileUnreachable == held /\ watch = "polling" => paused
=============================================================================
