------------------------------- MODULE Startup -------------------------------
(****************************************************************************)
(* cmd/watchdog/main.go: the way from the process's start to Supervisor.Run *)
(* and out again, for a given configuration, beside the goroutine of the    *)
(* observability server, with MariaDB and Redis coming and going and a      *)
(* signal at any moment.  What Load accepts and Build makes of it is in     *)
(* Registry.tla.  Supervisor.Run is one stage here: that it returns once    *)
(* the context is cancelled is ShutdownCompletes of Supervisor.tla.         *)
(****************************************************************************)
EXTENDS Registry, FiniteSets

CONSTANTS Configs,      \* the configurations to start with
          Attempts,     \* ipv6Attempts
          SQL, Redis    \* what the startup waits for

ASSUME StartupAssumption ==
  /\ Configs \subseteq Config
  /\ Attempts \in Nat \ {0}
  /\ SQL # Redis

Dependencies == {SQL, Redis}

VARIABLES config,       \* what the environment says
          stage,        \* where run() is
          awaited,      \* the dependency waitFor is at
          up,           \* the dependencies that answer
          answered,     \* history: those that have answered a waitFor
          cancelled,    \* ctx is done
          checks,       \* what build made
          attempt,      \* Address's loop over the reflectors
          tried,        \* history: attempts that failed with no signal to blame
          alarmed,      \* the operator was told that IPv6 does not work
          ready,        \* Readiness
          obs,          \* the observability server
          result,       \* what obsDone holds
          code          \* the exit code

server == <<obs, result>>
link   == <<attempt, tried, alarmed>>
begun  == <<awaited, answered, checks>>
world  == <<config, up, cancelled>>
vars   == <<world, stage, begun, link, ready, server, code>>

Stages == {"loading", "serving", "disabled", "settling", "asking", "pausing", "building",
           "checking", "napping", "judging", "announcing", "supervising", "collecting",
           "exited"}

TypeOK ==
  /\ config \in Configs
  /\ stage \in Stages
  /\ awaited \in Dependencies
  /\ up \subseteq Dependencies /\ answered \subseteq Dependencies
  /\ cancelled \in BOOLEAN /\ ready \in BOOLEAN /\ alarmed \in BOOLEAN
  /\ checks \subseteq Table
  /\ attempt \in 0..Attempts /\ tried \in 0..Attempts
  /\ obs \in {"none", "binding", "listening", "failed", "over"}
  /\ result \in {"empty", "nil", "error"}
  /\ code \in {"none", "success", "failure"}

Init ==
  /\ config \in Configs
  /\ stage = "loading" /\ awaited = SQL
  /\ up \in SUBSET Dependencies /\ answered = {}
  /\ cancelled = FALSE /\ ready = FALSE
  /\ checks = {}
  /\ attempt = 0 /\ tried = 0 /\ alarmed = FALSE
  /\ obs = "none" /\ result = "empty" /\ code = "none"

-----------------------------------------------------------------------------
(* the surroundings *)

RunStands == UNCHANGED <<stage, begun, link, ready, code>>

Flap(d) ==
  /\ stage # "exited"
  /\ up' = IF d \in up THEN up \ {d} ELSE up \cup {d}
  /\ RunStands /\ UNCHANGED <<config, cancelled, server>>

\* SIGINT or SIGTERM, once somebody listens for it.
Signal ==
  /\ stage \notin {"loading", "exited"}
  /\ ~cancelled
  /\ cancelled' = TRUE
  /\ RunStands /\ UNCHANGED <<config, up, server>>

-----------------------------------------------------------------------------
(* obs.Server.Run *)

Listens ==
  /\ stage # "exited" /\ obs = "binding"
  /\ obs' = "listening" /\ UNCHANGED result
  /\ RunStands /\ UNCHANGED world

\* The listener cannot be opened, or serving ends by itself.
ObsFails ==
  /\ stage # "exited" /\ obs \in {"binding", "listening"}
  /\ obs' = "failed" /\ result' = "error"
  /\ RunStands /\ UNCHANGED world

ObsShutsDown ==
  /\ stage # "exited" /\ obs = "listening" /\ cancelled
  /\ obs' = "over" /\ result' = "nil"
  /\ RunStands /\ UNCHANGED world

ObsStep == Listens \/ ObsFails \/ ObsShutsDown

-----------------------------------------------------------------------------
(* run *)

Moves(place) == stage' = place /\ UNCHANGED <<world, server, code>>

Goes(place) == Moves(place) /\ UNCHANGED <<begun, link, ready>>

Exits(outcome) ==
  /\ stage' = "exited" /\ code' = outcome
  /\ UNCHANGED <<world, begun, link, ready, server>>

\* USE_WATCHDOG=n does not make a bad configuration a good one.
LoadFails == stage = "loading" /\ ~Accepted(config) /\ Exits("failure")

\* The configuration is in order, and obsServer.Run gets its goroutine; without
\* an address to listen on it is a no-op.
Loads ==
  /\ stage = "loading" /\ Accepted(config)
  /\ stage' = "serving"
  /\ \/ obs' = "binding" /\ UNCHANGED result
     \/ obs' = "over" /\ result' = "nil"
  /\ UNCHANGED <<world, begun, link, ready, code>>

\* Readiness as soon as the server is there to show it.
BranchesReady ==
  /\ stage = "serving"
  /\ Moves(IF config.use THEN "settling" ELSE "disabled")
  /\ ready' = TRUE
  /\ UNCHANGED <<begun, link>>

Branches ==
  /\ stage = "serving"
  /\ Moves(IF config.use THEN "settling" ELSE "disabled")
  /\ ready' = ~config.use
  /\ UNCHANGED <<begun, link>>

Idles == stage = "disabled" /\ cancelled /\ Goes("collecting")

Settles == stage = "settling" /\ Goes("asking")

\* settle is over, and connect cannot even make its database handles.
OpenFails == stage = "settling" /\ Exits("failure")

\* settle whose error ends the process there and then.
SettleCutForgetsObs == stage = "settling" /\ cancelled /\ Exits("success")

SettleCut == stage = "settling" /\ cancelled /\ Goes("collecting")

\* waitFor: the first of the dependencies has answered; now the second.
Answers ==
  /\ stage = "asking" /\ ~cancelled
  /\ awaited \in up
  /\ answered' = answered \cup {awaited}
  /\ awaited' = Redis
  /\ Moves(IF awaited = SQL THEN "asking" ELSE "building")
  /\ UNCHANGED <<checks, link, ready>>

\* waitFor that takes the cancelled attempt for one more failure.
NoAnswerIgnoresContext ==
  /\ stage = "asking"
  /\ cancelled \/ awaited \notin up
  /\ Goes("pausing")

NoAnswer ==
  /\ stage = "asking"
  /\ IF cancelled THEN Exits("failure") ELSE awaited \notin up /\ Goes("pausing")

\* A single attempt.
NeverAgain == stage = "pausing" /\ Goes("pausing")

AsksAgain == stage = "pausing" /\ Goes("asking")

PauseCut == stage = "pausing" /\ cancelled /\ Exits("failure")

\* The dockerapi client, the notification channels and the checks.
MakesChecks ==
  /\ stage = "building"
  /\ HasClient(config) /\ Builds(config) /\ Built(config) # {}
  /\ Moves("checking")
  /\ checks' = Built(config)
  /\ UNCHANGED <<awaited, answered, link, ready>>

\* dockerapi.New, Build or supervisor.New returns an error.
BuildFails ==
  /\ stage = "building"
  /\ ~(HasClient(config) /\ Builds(config) /\ Built(config) # {})
  /\ Exits("failure")

-----------------------------------------------------------------------------
(* checkIPv6 and IPv6Link.Address *)

\* The bridge has no IPv6 address, or nobody can tell.
SkipsIPv6 == stage = "checking" /\ config.ipv6 # "bridge" /\ Goes("announcing")

LinkIsUp ==
  /\ stage = "checking" /\ config.ipv6 = "bridge" /\ ~cancelled
  /\ Goes("announcing")

\* No reflector answered, or the request was cut.
AttemptFails ==
  /\ stage = "checking" /\ config.ipv6 = "bridge"
  /\ attempt' = attempt + 1
  /\ tried' = IF cancelled THEN tried ELSE tried + 1
  /\ Moves(IF attempt' < Attempts THEN "napping" ELSE "judging")
  /\ UNCHANGED <<alarmed, begun, ready>>

\* The delay before the next attempt; a signal may end it and the loop.
Naps ==
  /\ stage = "napping"
  /\ \/ Goes("checking")
     \/ cancelled /\ Goes("judging")

\* An empty address taken for a verdict.
JudgesAnyway ==
  /\ stage = "judging"
  /\ alarmed' = config.channel
  /\ Moves("announcing")
  /\ UNCHANGED <<attempt, tried, begun, ready>>

\* There is no address; with the context done that means nothing.
Judges ==
  /\ stage = "judging"
  /\ alarmed' = (config.channel /\ ~cancelled)
  /\ Moves("announcing")
  /\ UNCHANGED <<attempt, tried, begun, ready>>

ChecksIPv6 == SkipsIPv6 \/ LinkIsUp \/ AttemptFails \/ Naps \/ Judges

-----------------------------------------------------------------------------
(* run, continued *)

\* announceStart; sent, failed and not wanted come to the same here.
Announces ==
  /\ stage = "announcing"
  /\ Moves("supervising")
  /\ ready' = TRUE
  /\ UNCHANGED <<begun, link>>

SupervisorReturns == stage = "supervising" /\ cancelled /\ Goes("collecting")

\* waitForObs
Collects ==
  /\ stage = "collecting" /\ result # "empty"
  /\ stage' = "exited"
  /\ code' = IF result = "nil" THEN "success" ELSE "failure"
  /\ result' = "empty"
  /\ UNCHANGED <<world, begun, link, ready, obs>>

ObsTooSlow == stage = "collecting" /\ result = "empty" /\ Exits("failure")

MainStep ==
  \/ LoadFails \/ Loads \/ Branches \/ Idles \/ Settles \/ OpenFails \/ SettleCut
  \/ Answers \/ NoAnswer \/ AsksAgain \/ PauseCut
  \/ MakesChecks \/ BuildFails \/ ChecksIPv6 \/ Announces \/ SupervisorReturns
  \/ Collects \/ ObsTooSlow

Over == stage = "exited" /\ UNCHANGED vars

Next == Signal \/ ObsStep \/ MainStep \/ Over \/ \E d \in Dependencies : Flap(d)

\* Every wait of run has a timer or the context beside it, so run goes on.
Spec == Init /\ [][Next]_vars /\ WF_vars(MainStep)

-----------------------------------------------------------------------------
\* "Readiness stays negative until both are up": a watchdog that monitors says
\* it is ready only after MariaDB and Redis have both answered it.
ReadyMeansConnected == ready /\ config.use => answered = Dependencies

\* A listener that failed is never lost in its goroutine: whichever way run
\* ends, the exit code tells, even if the failure came long before.
FailedListenerIsReported == stage = "exited" /\ obs = "failed" => code = "failure"

\* Every check of a running watchdog has something to probe that is there, the
\* supervisor knows what to do about its event, and a container is restarted on
\* the evidence of that very container, under replication too.
ChecksMeasureWhatTheyRestart ==
  \A c \in checks :
    /\ Measured(config, c) # {} /\ "nil" \notin Measured(config, c)
    /\ Reaction(c.event) # "unhandled"
    /\ Reaction(c.event) \in {"restart", "php-fpm"} => Measured(config, c) = {c.event}

\* Whatever interval was asked for, no check of a running watchdog is a load
\* generator: a healthy round is followed by at least that interval, the checks
\* with longer sleeps of their own keep them, and a dead check pauses as well.
EveryCheckRests ==
  \A c \in checks :
    /\ c.deadDelay > 0
    /\ \A pause \in Pick(Windows(config.interval)[c.window]) :
         /\ pause >= config.interval
         /\ c.name = "external" => pause >= OriginalExternal
         /\ c.name = "cert" => pause >= OriginalCert

\* What Load accepts can be built: after the minutes of settling and waiting,
\* only the endpoint in DOCKER_API_URL can still turn out to be unusable.
AcceptedConfigStarts ==
  [][stage = "building" /\ stage' = "exited" => config.url = "unusable"]_vars

\* The operator is told that IPv6 does not work only after every attempt failed
\* by itself; a shutdown in the middle is not taken for a broken link.
IPv6AlarmIsEarned == alarmed => tried = Attempts

\* A signal ends the process at every stage, whatever the dependencies do.
SignalEndsIt == cancelled ~> (stage = "exited")

\* Once both dependencies stay up, the monitoring begins, however often they
\* came and went before; only a signal or an error is a way out.
StartsOnceUp ==
  <>[](up = Dependencies) =>
    <>(stage \in {"supervising", "disabled", "exited"} \/ cancelled)
=============================================================================
