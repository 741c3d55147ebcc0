# mailcow-watchdog: models, checks and proofs

This directory is a TLA+ development of the watchdog in `src/`. The modules are
written from the Go code; where a document or a comment says something else, the
code is what is modelled and the difference is listed under *Disagreements*.

`tlc -config X.cfg M` repeats a run, `tlapm M.tla` a proof. `PROJECT.json` lists
the runs, says which lines every definition stands for, and names for every
checked property a mutation of the code's model that breaks it.

## The system

The watchdog is one process. It probes the services of a mailcow stack, keeps an
error budget for each, and restarts a container or notifies somebody when a
budget is spent.

| Part | State | Operations | Talks to |
|---|---|---|---|
| Pause gate (`supervisor/gate.go`) | a channel, closed while the gate is open | Pause, Resume, Wait, Paused | runners wait on it, supervisor and watcher move it |
| Error budget (`health/health.go`) | error count, threshold | Record, Heal, Reset, Snapshot, Percent | its runner, and the watcher (Heal) |
| Check runner (`supervisor/runner.go`), one goroutine per check | where it is, the snapshot of its last round | wait at the gate, probe, record, publish, sleep, reset, send an event | gate, budget, event channel, metrics, Redis |
| Supervisor loop (`supervisor/supervisor.go`) | the event it handles | handle, handleBans, restart, restartOne, alert | event channel, gate, dockerapi, dispatcher |
| Dockerapi watcher (same file) | `held` | poll, pauseAll, resumeAll, healAll | gate, budgets, dockerapi, gauge |
| Fail2ban probe (`probe/redis.go`) | the bans it knows, those of the last round | Run, Fresh | Redis; the supervisor reads Fresh |
| Change detectors (same file) | the last reading, and whether there was one | Run | Redis |
| Network probes (`probe/`) | a connection, for one round | resolve, dial, converse, verdict | the services; the resolver |
| Resolver (`check/resolver.go`) | none | Addr | the dockerapi client, or DNS by way of the dialler |
| Notification (`notify/`) | none of its own | Dispatch, Multi.Send, deliver | the throttle in Redis, exchangers, webhook |
| Store (`store/store.go`) | in Redis | Reserve, LogProgress, LogMessage | Redis |
| Process (`cmd/watchdog/main.go`) | stage of startup, context, exit code | load, settle, wait for MariaDB and Redis, build, announce, run, collect | everything |
| Observability server (`obs/obs.go`) | listening or not, Readiness | Run, SetReady | main's result channel |
| Dockerapi client (`dockerapi/`) | none but the dialect | List, Find, IP, Restart, Running, Reachable | the Docker daemon |
| Configuration (`config/`) | the settings, fixed from the start | Load, validate, Enabled | the environment |
| Registry (`check/`) | the table of checks; per check a transcript and a details hook | Build, Intervals, Pick, Record, attachStatefulProbes | probes, runner, supervisor |
| Relay test (`probe/external.go`) | a report per address family | Run, Details | the relay service; the supervisor reads Details |
| IPv6 link check (`probe/ipv6.go`) | none; a loop of attempts | Address | reflectors, daemon; main announces its finding |
| Mail queue, whois, metrics, logging | counters | request and reply | as named |

What is hard about it: three kinds of goroutine share the gate, the budgets and a
bounded channel; two of them close and open the gate independently; a decision is
taken on a snapshot and acted on up to five minutes later; the supervisor is busy
for minutes during a restart while events queue; calls to the daemon can time out
after having had their effect; the throttle outlives the process; and a shutdown
can fall into any wait. The list of hazards, each at its line and with the
properties that watch it, is in `PROJECT.json`.

What makes the parts correct:

* gate: nobody waits for ever on a replaced channel, nobody is released while it
  is paused, a release is not lost, and a closed gate has an owner;
* budgets and events: a spent budget becomes exactly one incident that is acted
  on, budgets are repaid only as the code says, what is shown is never too good;
* restarts: no container twice within its minimum uptime, and no resume before
  the last restart has settled;
* notification: one failure does not cost the others their copy, "sent" means
  everybody, once per throttle window;
* bans: old ones are never reported, new ones cost budget once;
* detectors: an alarm means that something has happened, and an outage of Redis
  hides nothing;
* network probes: they go where the service is now, OK is earned, a round ends;
* process: ready only when connected, every signal ends it, a failed listener
  shows in the exit code;
* registry: what Load accepts can be built, every check measures the service its
  event restarts, and none is without a pause between its rounds;
* alerts: the text shows what raised the alert, however late it is put together.

## Modules

| Module | Models | Composed with |
|---|---|---|
| `GateSpec` | what the gate promises: a flag and, for each waiting runner, its verdict | base of `Supervisor`; abstract specification of `Gate` |
| `Gate` | the gate as built, of channels | refines `GateSpec` |
| `Health` | the arithmetic of a budget, as operators | used by `Tracker`, `Supervisor`, `Bans` |
| `Tracker` | one budget, the snapshot of a round, what is published of it, and Heal at any moment | |
| `Incidents` | what channel and loop promise: a ledger of spent budgets | abstract specification of `Supervisor` and of `Bans` |
| `Supervisor` | runners, supervisor loop, watcher, event channel, gauge, shutdown | extends `GateSpec` and `Health`, refines `Incidents` |
| `Restart` | restart and restartOne against the clock, the daemon and lost answers | the same code as the `restart` steps of `Supervisor`, with time in place of the other goroutines |
| `Bans` | the fail2ban probe, its runner and handleBans | the same loop as `Supervisor`, with the probe's data; refines `Incidents` too |
| `Notify` | Dispatch, the throttle, the fan-out and the exchangers | |
| `Registry` | settings, what Load accepts, the windows, the table of checks with the handles and probes of each, and what the supervisor does about its event, as operators | base of `Startup` |
| `Startup` | `main.run` for a given configuration, with the databases, the IPv6 check and the observability server | extends `Registry`; its stage "supervising" is `Supervisor` |
| `Docker` | the dockerapi client's dialects, list, filter and choice of an address, as operators | base of `Session` |
| `Session` | one network probe, round after round, beside containers that move | its verdict is the cost of a round in `Supervisor` |
| `Detectors` | Ratelimit and RedisChange beside a Redis that loses its data | their verdicts are such costs too; base of `Reports` |
| `Reports` | from a reading of ratelimit, acme or the relay test to the text of its alert: runner, transcript or reports, channel, supervisor, restarts of the process | extends `Detectors` and `Health`, implements `Detectors` |

The theorems are in `GateProofs`, `SupervisorProofs`, `RestartProofs`,
`NotifyProofs`, `StartupProofs`, `SessionProofs`, in `BudgetProofs`, which has
those of `Tracker` and of `Bans`, and in `ReportsProofs`, which has those of
`Detectors` too. The `MC*` modules hold the constants of the runs.

### How state and actions correspond to the code

A step ends where a goroutine can be overtaken: at a channel operation, a mutex,
a sleep, or a call that leaves the process. `pauseAll` is therefore two steps
(the gate, then the gauge), `Gate.Wait` is two (the copy under the mutex, then
the select), and `healAll` is one step per runner. A round of probes is one step
whose cost is any of `Weights`; what the probes ask and hear is left out. Every
early return is an alternative of the action it belongs to: `LookUp` covers the
missing client, the lookup error and the empty match; `PassOver` the uptime rule
and the refused restart.

`Supervisor` has no clock: a sleep ends whenever it ends, so all orders that any
delays could produce are covered. `Restart` has one, kept as ages (how long ago a
thing happened) and capped at `Oldest`, the largest delay anything is compared
with, so time does not need a bound. Waits end late but never early.

`Notify` keeps the remaining life of each throttle key and, as history, how long
ago each service was last sent out; `Bans` keeps as history which bans were there
at the first read and how often each was reported. History variables are marked
as such and no guard reads them.

`Session` holds what a probe has left to say as a list of steps. A step names
what is sent or awaited, what the probe makes of another answer (a verdict, the
next step, a fallback) and of a peer that hangs up; `Conversation` puts together
the list that the probe's options ask for, in the order of its `Run`. An answer
is as wanted or not; its text is left out, and so are the QUIT and LOGOUT at the
end, whose outcome the code ignores. `Detectors` keeps as history what has
happened in Redis since the last good reading.

`Registry` has one setting for each thing that decides something later. How a
text is parsed is one of them, `legible`: a number, a duration or an address
that cannot be read refuses the configuration whatever it was for. An interval
is an integer in seconds, a window its bounds, and `Pick` any value between. A
row of the table names what its probes connect to (`at`), which `Measured`
turns into services by way of the handles that `connect` opens.

`Startup` takes the configuration as part of its initial state and never changes
it. `Reports` has one watched check per behaviour, since checks share no state;
a report or a transcript line is the number of the round it is from, a text the
set of those it contains.

In `Gate`, Go's allocator is a choice of any channel nobody refers to, so a
finite set of channels allows any number of pauses. The assumption on `Channels`
says that the set is large enough for `make` never to fail.

## Runs

| Run | Instance | Shows |
|---|---|---|
| `gate` | 2 runners, 4 channels | `NoStrandedWaiter`, `NoReleaseWhilePaused`, `ReleaseIsNotLost`, and that `Gate` implements `GateSpec` with its fairness |
| `supervisor` | a php-fpm check with budget 3 and a ban check with budget 1, weights 0 and 2, 2 replicas | ownership of the gate and of the gauge, spent budgets, repayment, `Incidents` |
| `supervisor_live` | budgets of 1, one restarting check and one that alerts | shutdown, handling of every spent budget, return of held runners |
| `tracker` | eight thresholds from 0 to 201, weights 0 to 7 | rounding, 0% means dead, no flattery |
| `restart` | 2 replicas of php-fpm; delays of 4, 2, 2, 1, 1, 1 units | spacing of restarts, settling |
| `notify` | a throttled and an unthrottled service, a recipient with 2 exchangers and a webhook | containment, "sent", duplicates, throttle |
| `bans` | 2 addresses, budget 2, 2 slots in the channel | veterans, single reporting, `Incidents` |
| `session` | 18 probes, of every kind and option; the service's container, another of the stack, a neighbour's namesake; the four pairs of dialect and endpoint, and DNS | the address of a round, mail inside TLS, earned OKs, an end to every round |
| `reports` | 2 queue ids and an unreadable record, 2 stamps, a budget of 1, 2 slots in the channel, a transcript of 2 lines, 5 rounds | no alarm without news, news after an outage, alerts that show their cause |
| `startup` | the compose defaults and every pair of departures from them, two dependencies, 3 attempts of the IPv6 check | what the checks of a configuration measure, restart and wait; what is accepted can be built; readiness, exit codes, signals, progress, an earned IPv6 alarm |

Bounds and why they are enough. Two runners are needed for the gate's and the
channel's races (one waiting, one arriving; a full channel of two), and no action
relates three. A budget of 3 with weight 2 is spent by overshoot, one of 1 at the
first failure, and `HealPoints` of 2 both clears and clamps. `MaxReplicas` 2
allows one replica to fail and the next to succeed, in either order. In
`restart` the delays keep the order of the real ones (minimum uptime 360 s, settle
35 s, pause 10 s; the call times out after 10 s), and the longest sum of the
others exceeds the shortest one that matters. `err` needs no bound: a dead check
starts over before its next round. In `session` a banner of two chunks can have the
expected text in the first, the last or none of them (`ReadLimit`; the code's
limit is in bytes), and `CertHours` straddles each whole day up to `MinCertDays`;
one probe combines the upgrade with mail, which the options allow and the
registry does not use. In `reports` two ids and an empty list are enough to
come back to a reading already seen; five rounds let two events queue, their
transcript lose a line and a third event be sent before the first is composed.
In `startup` the defaults and every departure in one or two settings cover every
interaction of two settings; three reach the theorems only, which hold for any
set of configurations. The departures of the interval are those where the
windows change order (1, above the certificate's 300, above the relay's 1800),
and 0, which is refused.

`CHECK_DEADLOCK` is left on everywhere. `Terminated` and `Over` are the
stuttering steps of a process that has ended.

### Fairness

`Supervisor`: each goroutine is weakly fair as a whole, because Go schedules a
goroutine that can run, every probe and call has a timeout, and timers fire.
`Send` is strongly fair: Go queues the senders blocked on a channel and serves
them in order, so a slot that is freed again and again reaches each of them.
Nothing is assumed of the dockerapi, and a shutdown need not come.
`Gate`: weak fairness of a runner that can leave Wait. `Startup`: weak fairness of
`run`, whose every wait has a timer or the context beside it; the observability
server gets none, and `waitForObs` has its own timeout for that.

`Session`: weak fairness of the probe's own steps, which the deadline of the round
justifies; the peer and Docker may do nothing for ever.

The liveness run `supervisor_live` uses smaller constants than the safety run; the
actions are the same.

### Refinements

* `Gate` implements `GateSpec`: a closed channel is an open gate, and a runner's
  copy decides its verdict when the channel is closed, not when it leaves.
* `Supervisor` implements `Incidents`: an incident of a check is owed while its
  round was dead, its runner is about to send, or its event is in the channel.
  Resetting the budget, sending and buffering are stutters; receiving begins it.
* `Bans` implements `Incidents` too, for its one check and no shutdown. The two
  models of the loop, one with all goroutines and one with the probe's data, are
  thus held to the same promise about what becomes of a spent budget.
* `Reports` implements `Detectors`: runner, channel and supervisor read what the
  probes leave behind and never write it.

The safety part of all four is proved; the fairness of `GateSpec` is checked.

## Proofs

All are for every value of the constants, under the modules' assumptions:

* `GateAssumption`: finitely many runners and at least two more channels;
* `SupervisorAssumption`: finitely many runners, budgets of at least one (which
  `config.Validate` enforces), weights and points natural;
* `TrackerAssumption`: weights and points natural; a threshold may be any
  integer, since `New` raises it;
* `BansAssumption`: finitely many addresses, a budget and a channel of at least
  one;
* `DetectorsAssumption`: the empty reading is no queue id and no stamp;
* `ReportsAssumption`: threshold, channel, transcript and rounds at least one;
* `RestartAssumption`: delays natural, and a restart over before the pause that
  the next event begins with (see *Assumptions about the surroundings*);
* `NotifyAssumption`: finitely many targets with at least one exchanger each,
  windows natural;
* `SessionAssumption`: limits of at least one; probes whose options fit their
  kind (only mail and TCP probes upgrade, certificate probes do); mail commands
  that are none of the verbs of the dialogue; a service with a name; only
  containers of this stack on its network;
* `StartupAssumption`: at least one attempt, and configurations of the kind the
  environment can express.

`GateProofs`. The invariant is that a runner holds the current channel or a
closed one. It is inductive with the types alone, because Pause only replaces a
closed channel and allocates one nobody holds; that one exists is a counting
argument over the channels in use (`PauseFindsAChannel`). Each step maps to a
step of `GateSpec` or a stutter (`RefinementStep`), hence `GateRefinement`. The
action property `NoReleaseWhilePaused` needs the types only: a Resume is the one
step that closes a channel, and it leaves the gate open; a Pause allocates only a
channel nobody holds; a runner that arrives at a paused gate takes the current,
unclosed one.

`SupervisorProofs`. Types, then `PauseHasOwner`, `GaugeHasOwner`,
`BlockedOnlyWhilePaused`, `ExhaustionIsPending`, the action property
`BudgetIsNotForgiven` and the refinement of `Incidents`. `GaugeHasOwner` is
inductive with the types. Of the other invariants none is inductive alone. The gate's owner needs the agreement of `held`
with the watcher's place and of `todo` with the supervisor's; the spent budget
needs that `doomed` is false outside the sleep, and that a budget reached by a
round is exactly what the snapshot said (Heal may only lower it). The invariant
that joins these is proved action by action. `UsesTheGate` shows that every step
of the composition is a step of `GateSpec` or leaves the gate alone; with
`GateRefinement`, what the runners rely on is what the channels provide.
`IncidentsRefinement` maps each step to the ledger. The events of a check are
counted in the channel, so it rests on two lemmas about counting under `Append`
and `Tail`, and on an idle supervisor having no event in hand.

The shutdown's liveness is TLC's, but what it rests on is proved for any number
of checks, replicas and bans. `Work` is a natural number: for each runner its
steps to the end, for each event in the channel a whole restart or all its
alerts, and the steps left of the supervisor's event and of the watcher's round.
`ShutdownIsBounded` says that after SIGTERM every step of anybody lowers it: a
send moves an event from a runner's share to the supervisor's, which weighs
less, and nothing sends a goroutine round again. `ShutdownStrandsNobody` says
that whoever is not done has a step at the place where it is, and
`ShutdownLeavesOpen` that at the end the gate is open and the gauge clear. What
is left to TLC is that goroutines which can run are run.

`BudgetProofs`. `PercentRoundsHalfUp` splits the quotient of `200c` by `t` into
even and odd, which reduces Percent to `(200c + t) \div 2t`. With the ranges of
budget, spend and repay it gives `LevelIsRounded`, `ZeroMeansDead` up to a budget
of 200, and `NeverFlattered`.

For the bans, `VeteransStayUntold` needs that the bans of old are active and
known: every reading takes over all that is active, so none of them can count as
new. `ReportedOnce` needs that a ban which was counted stays known while it
lasts, failed reads included, for they leave the memory alone.
`BansKeepTheLedger` counts what is owed as the channel's length and one for a
runner that is dead or about to send, and maps each step to the ledger.

`RestartProofs`. At Find no restart that was ordered is under way, because the
pause outlasts it. From there on a container that was restarted has not been up
for longer than the age of the command, and what Find saw of it stays below that
age until its own turn; so the rule about uptime becomes one about commands,
which is `RestartsAreSpaced`. For `SettledBeforeResume` the time spent settling
and the age of the last confirmation grow together.

`NotifyProofs`. Targets are waiting, being served or settled, and a failure
moves only the one being served; that gives `FailureIsContained` and
`SentMeansEverybody`, and with the exchangers tried so far `CopiesAreExplained`.
For `OnePerWindow` the life left in the key and the age of the last sending add
up to a window at least, unless Redis failed or lost the key meanwhile.

`ReportsProofs`. The results about `Detectors` come from one invariant: what a
probe remembers is its last good reading, and Redis still says so unless
something has happened since. An alarm compares the two, so the difference has a
reason; and a failed reading touches neither. Each step of `Reports` is one of
these or leaves them alone. `AlertShowsItsCause` needs, for the relay test, that
a report is only replaced by one of a later round, from the round to the event
to the text; and, for the others, that the transcript is an unbroken run of
rounds up to the last, so that what has been dropped was followed by as many
lines as it holds.

`StartupProofs`. The waits come in the order of the code, so readiness implies
both answers; a listener's failure stays in main's channel until it is
collected; the alarm counts its attempts. What holds of the registry is
independent of the steps: `ChecksMeasureWhatTheyRestart` looks once at each row
of the table and each handle, `EveryCheckRests` needs the intervals an accepted
configuration can have, any positive integer. `SignalIsEnough` counts, as for the
supervisor, the steps that `run` has left once the context is done; the loop over
the reflectors is in it with the attempts left, and nothing else can repeat.

`SessionProofs`. The invariant says of a conversation under way that its rest is
well scripted: each step leads to the next, to a verdict or to a fallback without
one of its own; that mail is still ahead of an upgrade or the connection is
secure; that what the options demand has been answered as wanted or is a step
ahead that nothing but the wanted answer passes; and the same of the two
greetings, one of which is enough. Taking the first step off a script and putting
a fallback in its place are one lemma each (`PoppedScripted`,
`ReplacedScripted`), and that the scripts are so to begin with is shown for each
kind of probe (`ConversationScripted`). An empty script then means that
everything demanded was answered, which is `OkIsEarned`. `FollowsTheContainer`
rests on `ResolvesToReach`: for every pair of dialect and endpoint, an address
that `IP` returns is one the service has at that moment.

Only model-checked: liveness under fairness, which the proof system cannot
express (`ShutdownCompletes`, `ExhaustionIsHandled`, `BlockedRunnersReturn`,
`SignalEndsIt`, `StartsOnceUp`, `EveryRoundEnds`, `ReleaseIsNotLost`, and the
liveness half of the gate's refinement). Every invariant and every action
property of the runs is a theorem. The type invariants are theorems only: no run
checks them.

## Disagreements

Two runs end in a counterexample to what a document or comment says:

* `paused_while_unreachable`: README.md says checks are paused while the
  dockerapi is unreachable. The gate has no owner count: a restart in progress
  when the dockerapi goes away opens the gate at its end, and the watcher, which
  acts on changes only, does not close it again.
* `bans_in_the_event`: bans do not travel in the event. `handleBans` asks the
  probe, whose next round may have replaced them.

Others, seen while modelling and not run:

* supervisor.go:39 and DEVIATIONS.md:24 promise points back for a restarted
  service. `healAll` runs when the dockerapi comes back and at no other time.
* supervisor.go:30 says that the settle delay keeps the checks from probing a
  container that is still starting. A restart call that times out is taken for
  one that did not happen, and the checks resume without the delay, perhaps
  while the container is down.
* metrics.go:111 calls the gauge "1 while all checks are paused". `pauseAll` and
  `resumeAll` move gate and gauge in two steps, so a resume that is reported
  late hides the pause of the other party: the gauge says 0 at a closed gate,
  until the next pause or resume. The opposite does not last (`GaugeHasOwner`).
* The event buffer of one slot per check can fill, since a check goes on while
  its event waits, so a check may block on a busy supervisor.
* A throttled alert is counted as "sent", and the outcome "throttled" that
  `metrics.ObserveNotification` documents never occurs.
* dockerapi.go:254 says that the project label keeps the watchdog from the
  neighbour's containers; the comparison is `strings.Contains`, so a project
  whose name contains ours passes. For probes the address prefix makes up for
  it (`Homes` in `Session`), for restarts nothing does. The prefix itself is
  compared as text: 172.22.1 also fits 172.22.10.x.
* redis.go:84 takes a changed ACME_FAIL_TIME for a failed request; a key that was
  lost reads as "" and alarms too (`AlarmMeansNews` admits it). A rate limit
  without a queue id reads like an empty list and may go unnoticed.
* The relay check keeps the report of the last failing round when an address
  family recovers, so an alert about one family also carries the other's old
  report. `AlertShowsItsCause` says that the cause is never missing from it.
* README.md:88, config.go:78-84 and DEVIATIONS.md:227 call the interval the
  shortest pause between two rounds. After a round that spent the budget the
  runner waits a second, or a minute, whatever the interval.
* registry.go:84-86 wants the certificate check to be rare. With an interval of
  five minutes or more its pause has no jitter, and it is then slightly more
  frequent than the others.
* config.go:66-67 promises to idle instead of exiting when the watchdog is
  switched off. A configuration that is refused exits all the same.
* config.go validates part of DOCKER_API_URL; what `dockerapi.New` refuses on top
  (a missing host or socket) ends the process only after the settling time and
  the wait for both databases. `AcceptedConfigStarts` makes this its exception.
* config.go:210 warns about queues above the threshold, the check alarms at it.
* redis.go:192-200 announces the last 10 records and reads 11.
* A GUID that cannot be read, because MySQL is down, counts against the relay
  check; so do outages of Redis against ratelimit, acme and fail2ban. With
  budgets of one these send the alerts meant for the real thing.

## Assumptions about the surroundings

`Restart` assumes that a restart whose answer was lost is over when the next
event's Find looks, at least `PauseBeforeRestart` later (`StopGrace <
PauseBeforeRestart`); with a slower daemon the old start time would be read again
and `RestartsAreSpaced` would fail. Start times that cannot be parsed are exempt
from the rule in the code, and so in the property.

`Session` assumes that only containers of this stack have addresses on its
network (`SessionAssumption`), and that certificate probes upgrade their
connection, as those of the registry do. `Detectors` assumes that Redis keeps its
data or loses a key whole; it does not fall back to an older snapshot. `Reports`
assumes that a relay answer that accuses us comes with a text.

## Not modelled

* Whois, logging and the counters and histograms of metrics: no state, or state
  that nothing reads.
* The mail queue probe, one walk of a directory, and the probes of Redis without
  memory: their outcome enters `Supervisor` as a cost.
* What a peer answers a network probe with, and the dialogue with a mail
  exchanger: an answer is as wanted or not, a delivery succeeds, is refused or
  breaks off.
* The wording of alerts, `Render`, `compose` and `Expand`; how a setting's text is
  read.
* Top and the transport of the dockerapi client; its reachability is a choice.
* LogProgress and LogMessage: lists in Redis the process never reads.

## Plan

1. Done: gate, budgets, supervisor; restart, notification; bans, detectors and
   the alerts made of them; network probes and the dockerapi client's lists;
   registry, configuration and startup. Theorems for all of them, the four
   refinements, and the bounds on the two shutdowns.
2. Next: a bound on a round's conversation like those on the shutdowns; Find,
   Inspect and Top in `Docker`, and with them the start times `Restart` takes as
   given; the mail exchanger dialogue.
