---------------------------- MODULE StartupProofs ----------------------------
(****************************************************************************)
(* Theorems about the way in and out, for any set of configurations and any *)
(* number of attempts: types, readiness, exit code, the IPv6 alarm, and     *)
(* what a configuration becomes.  The last need the registry's table, of    *)
(* which each row is looked at once (RowsAreSound, RowsAreWired).  At the   *)
(* end the steps are counted that a signal leaves.                          *)
(****************************************************************************)
EXTENDS Startup, TLAPS

\* The loop over the reflectors is not over at these stages.
Early == Stages \ {"judging", "announcing", "supervising", "collecting", "exited"}

\* After the two waits.
Connected == {"building", "checking", "napping", "judging", "announcing", "supervising"}

\* What waitFor has behind it.
WaitsInOrder ==
  /\ awaited # SQL => SQL \in answered
  /\ stage \in Connected => answered = Dependencies
  /\ stage = "disabled" => ~config.use

\* Where the loop over the reflectors is, and that it ends without a signal only
\* when it is used up.
LoopIsCounted ==
  /\ stage \in Early => attempt < Attempts
  /\ tried <= attempt
  /\ ~cancelled => tried = attempt
  /\ stage = "judging" /\ ~cancelled => attempt = Attempts
  /\ alarmed => stage \in {"announcing", "supervising", "collecting", "exited"}

\* A failure waits in the channel until run reads it or ends without it.
FailureIsKept == obs = "failed" /\ stage # "exited" => result = "error"

\* The checks are those of the configuration, which was accepted.
ChecksAreBuilt ==
  /\ checks \subseteq Built(config)
  /\ stage \notin {"loading", "exited"} => Accepted(config)

Inv ==
  /\ TypeOK /\ ChecksAreBuilt
  /\ WaitsInOrder /\ ReadyMeansConnected
  /\ LoopIsCounted /\ IPv6AlarmIsEarned
  /\ FailureIsKept /\ FailedListenerIsReported

USE StartupAssumption

LEMMA InitInv == Init => Inv
<1> SUFFICES ASSUME Init PROVE Inv
  OBVIOUS
<1>1. TypeOK
  <2>1. attempt \in 0..Attempts /\ tried \in 0..Attempts
    BY DEF Init
  <2>2. cancelled \in BOOLEAN /\ ready \in BOOLEAN /\ alarmed \in BOOLEAN
    BY DEF Init
  <2>3. config \in Configs /\ stage \in Stages /\ checks \subseteq Table
    BY DEF Init, Stages
  <2>4. awaited \in Dependencies /\ up \subseteq Dependencies /\ answered \subseteq Dependencies
    BY DEF Init, Dependencies
  <2>5. /\ obs \in {"none", "binding", "listening", "failed", "over"}
        /\ result \in {"empty", "nil", "error"}
        /\ code \in {"none", "success", "failure"}
    BY DEF Init
  <2> QED
    BY <2>1, <2>2, <2>3, <2>4, <2>5 DEF TypeOK
<1>2. WaitsInOrder /\ ReadyMeansConnected
  BY DEF Init, WaitsInOrder, ReadyMeansConnected, Connected
<1>3. LoopIsCounted /\ IPv6AlarmIsEarned
  BY DEF Init, LoopIsCounted, IPv6AlarmIsEarned, Early, Stages
<1>4. FailureIsKept /\ FailedListenerIsReported
  BY DEF Init, FailureIsKept, FailedListenerIsReported
<1>5. ChecksAreBuilt
  BY DEF Init, ChecksAreBuilt
<1> QED
  BY <1>1, <1>2, <1>3, <1>4, <1>5 DEF Inv

-----------------------------------------------------------------------------
(* the registry *)

Handle == {"AppDB", "RootDB", "Store", "LocalStore"}

\* What the proofs use of a row: it is known, rests, and has something to probe.
Sound(row) ==
  /\ row.name \in Always \cup Optional
  /\ row.deadDelay > 0
  /\ row.window \in {"standard", "clamd", "external", "cert"}
  /\ row.name = "external" => row.window = "external"
  /\ row.name = "cert" => row.window = "cert"
  /\ row.at # {} /\ "nil" \notin row.at
  /\ "RootDB" \in row.at => row.name = "mysql-repl"

\* What they use of its event.
Wired(row) ==
  /\ Reaction(row.event) # "unhandled"
  /\ Reaction(row.event) \in {"restart", "php-fpm"} =>
       \/ row.at = {row.event} /\ row.event \notin Handle
       \/ row.at = {"AppDB"} /\ row.event = "mysql-mailcow"
       \/ row.at = {"LocalStore"} /\ row.event = "redis-mailcow"

LEMMA RowsAreSound == \A row \in Table : Sound(row)
<1> SUFFICES ASSUME NEW l \in Literal PROVE Sound(Attached(l))
  BY DEF Table
<1> QED
  BY DEF Literal, Always, Optional, Row, Restarting, Attached, Sound

LEMMA RowsAreWired == \A row \in Table : Wired(row)
<1> SUFFICES ASSUME NEW l \in Literal PROVE Wired(Attached(l))
  BY DEF Table
<1> QED
  BY DEF Literal, Row, Restarting, Attached, Wired, Reaction, RestartsContainer,
         EndInMailcow, Services, Handle

\* Intervals, for every configured bound.
LEMMA WindowsHaveFloors ==
  ASSUME NEW row, Sound(row), NEW bound \in Int, NEW pause \in Pick(Windows(bound)[row.window])
  PROVE  /\ pause >= bound
         /\ row.name = "external" => pause >= OriginalExternal
         /\ row.name = "cert" => pause >= OriginalCert
  BY DEF Sound, Windows, Pick, Interval, Longer, OriginalInterval, StandardJitter,
         ClamdJitter, OriginalExternal, ExternalJitter, OriginalCert

\* Where a check that is built gets its readings, and what its event does.
LEMMA BuiltIsConnected ==
  ASSUME NEW cfg \in Config, NEW c \in Built(cfg)
  PROVE  /\ Measured(cfg, c) # {} /\ "nil" \notin Measured(cfg, c)
         /\ Reaction(c.event) # "unhandled"
         /\ Reaction(c.event) \in {"restart", "php-fpm"} => Measured(cfg, c) = {c.event}
<1>1. Sound(c) /\ Wired(c) /\ c.name \in Enabled(cfg)
  BY RowsAreSound, RowsAreWired DEF Built
<1>d. DOMAIN Handles(cfg) = Handle
  BY DEF Handles, Handle
<1>2. Measured(cfg, c) # {}
  BY <1>1 DEF Measured, Sound
<1>3. ASSUME NEW t \in c.at PROVE (IF t \in DOMAIN Handles(cfg) THEN Handles(cfg)[t] ELSE t) # "nil"
  <2>1. CASE t = "RootDB"
    <3>1. "mysql-repl" \in cfg.on
      BY <1>1, <2>1 DEF Sound, Enabled, Always
    <3> QED
      BY <2>1, <3>1 DEF Handles
  <2>2. CASE t \in Handle /\ t # "RootDB"
    BY <2>2 DEF Handles, Handle
  <2>3. CASE t \notin Handle
    BY <1>1, <2>3, <1>d DEF Sound
  <2> QED
    BY <2>1, <2>2, <2>3
<1>4. ASSUME Reaction(c.event) \in {"restart", "php-fpm"} PROVE Measured(cfg, c) = {c.event}
  <2>1. CASE c.at = {c.event} /\ c.event \notin Handle
    BY <2>1, <1>d DEF Measured
  <2>2. CASE c.at = {"AppDB"} /\ c.event = "mysql-mailcow"
    BY <2>2 DEF Measured, Handles
  <2>3. CASE c.at = {"LocalStore"} /\ c.event = "redis-mailcow"
    BY <2>3 DEF Measured, Handles
  <2> QED
    BY <1>1, <1>4, <2>1, <2>2, <2>3 DEF Wired
<1> QED
  BY <1>1, <1>2, <1>3, <1>4 DEF Measured, Wired

\* What validate lets through can be built, unless the endpoint is unusable.
LEMMA AcceptedIsBuilt ==
  ASSUME NEW cfg \in Config, Accepted(cfg), cfg.url # "unusable"
  PROVE  HasClient(cfg) /\ Builds(cfg) /\ Built(cfg) # {}
<1>1. HasClient(cfg)
  BY DEF Accepted, HasClient, Config
<1>2. Builds(cfg)
  BY RowsAreSound DEF Builds, Built, Sound
<1>3. Restarting("nginx", "nginx-mailcow", "standard") \in Literal
  BY DEF Literal
<1>4. Attached(Restarting("nginx", "nginx-mailcow", "standard")) \in Table
  BY <1>3 DEF Table
<1>5. Attached(Restarting("nginx", "nginx-mailcow", "standard")).name = "nginx"
  BY DEF Attached, Restarting, Row
<1>6. "nginx" \in Enabled(cfg)
  BY DEF Enabled, Always
<1> QED
  BY <1>1, <1>2, <1>4, <1>5, <1>6 DEF Built

-----------------------------------------------------------------------------
\* The types are kept by every step.
LEMMA TypesKept == Inv /\ [Next]_vars => TypeOK'
<1> SUFFICES ASSUME Inv, [Next]_vars PROVE TypeOK'
  OBVIOUS
<1> USE DEF Inv, TypeOK, Stages
<1>1. ASSUME NEW d \in Dependencies, Flap(d) PROVE TypeOK'
  BY <1>1 DEF Flap, RunStands, begun, link, server
<1>2. CASE Signal
  BY <1>2 DEF Signal, RunStands, begun, link, server
<1>3. CASE ObsStep
  BY <1>3 DEF ObsStep, Listens, ObsFails, ObsShutsDown, RunStands, begun, link, world
<1>4. CASE MainStep
  <2> USE DEF Moves, Goes, Exits, begun, link, world, server
  <2>1. CASE LoadFails \/ Loads \/ Branches \/ Idles \/ Settles \/ OpenFails \/ SettleCut
    BY <2>1 DEF LoadFails, Loads, Branches, Idles, Settles, OpenFails, SettleCut
  <2>2. CASE Answers
    BY <2>2 DEF Answers, Dependencies
  <2>3. CASE NoAnswer \/ AsksAgain \/ PauseCut \/ BuildFails
    BY <2>3 DEF NoAnswer, AsksAgain, PauseCut, BuildFails
  <2>4. CASE MakesChecks
    BY <2>4 DEF MakesChecks, Built
  <2>5. CASE ChecksIPv6
    <3>1. CASE SkipsIPv6 \/ LinkIsUp \/ Naps
      BY <3>1 DEF SkipsIPv6, LinkIsUp, Naps
    <3>2. CASE AttemptFails
      BY <3>2 DEF AttemptFails, LoopIsCounted, Early
    <3>3. CASE Judges
      <4>1. config.channel \in BOOLEAN
        BY DEF Config
      <4> QED
        BY <3>3, <4>1 DEF Judges
    <3> QED
      BY <2>5, <3>1, <3>2, <3>3 DEF ChecksIPv6
  <2>6. CASE Announces \/ SupervisorReturns \/ Collects \/ ObsTooSlow
    BY <2>6 DEF Announces, SupervisorReturns, Collects, ObsTooSlow
  <2> QED
    BY <1>4, <2>1, <2>2, <2>3, <2>4, <2>5, <2>6 DEF MainStep
<1>5. CASE Over \/ UNCHANGED vars
  BY <1>5 DEF Over, vars, begun, link, world, server
<1> QED
  BY <1>1, <1>2, <1>3, <1>4, <1>5 DEF Next

\* So is the order of the waits, and with it what readiness means.
LEMMA WaitsKept ==
  Inv /\ [Next]_vars => WaitsInOrder' /\ ReadyMeansConnected'
<1> SUFFICES ASSUME Inv, [Next]_vars PROVE WaitsInOrder' /\ ReadyMeansConnected'
  OBVIOUS
<1> USE DEF WaitsInOrder, ReadyMeansConnected, Connected
<1>t. /\ awaited \in Dependencies /\ answered \subseteq Dependencies /\ stage \in Stages
      /\ WaitsInOrder /\ ReadyMeansConnected
  BY DEF Inv, TypeOK
<1>1. CASE Signal \/ ObsStep \/ \E d \in Dependencies : Flap(d)
  BY <1>1, <1>t DEF Signal, Flap, ObsStep, Listens, ObsFails, ObsShutsDown, RunStands, world, begun
<1>2. CASE MainStep
  <2> USE DEF Moves, Goes, Exits, begun, world
  <2>1. CASE LoadFails \/ Loads \/ Idles \/ Settles \/ OpenFails \/ SettleCut
    BY <1>t, <2>1 DEF LoadFails, Loads, Idles, Settles, OpenFails, SettleCut
  <2>2. CASE Branches
    BY <1>t, <2>2 DEF Branches
  <2>3. CASE Answers
    BY <1>t, <2>3 DEF Answers, Dependencies
  <2>4. CASE NoAnswer \/ AsksAgain \/ PauseCut \/ MakesChecks \/ BuildFails
    BY <1>t, <2>4 DEF NoAnswer, AsksAgain, PauseCut, MakesChecks, BuildFails
  <2>5. CASE ChecksIPv6
    BY <1>t, <2>5 DEF ChecksIPv6, SkipsIPv6, LinkIsUp, AttemptFails, Naps, Judges
  <2>6. CASE Announces \/ SupervisorReturns \/ Collects \/ ObsTooSlow
    BY <1>t, <2>6 DEF Announces, SupervisorReturns, Collects, ObsTooSlow
  <2> QED
    BY <1>2, <2>1, <2>2, <2>3, <2>4, <2>5, <2>6 DEF MainStep
<1>3. CASE Over \/ UNCHANGED vars
  BY <1>3, <1>t DEF Over, vars, begun, world
<1> QED
  BY <1>1, <1>2, <1>3 DEF Next

\* So is the count of attempts, and with it what the alarm means.
LEMMA LoopKept ==
  Inv /\ [Next]_vars => LoopIsCounted' /\ IPv6AlarmIsEarned'
<1> SUFFICES ASSUME Inv, [Next]_vars PROVE LoopIsCounted' /\ IPv6AlarmIsEarned'
  OBVIOUS
<1> USE DEF LoopIsCounted, IPv6AlarmIsEarned, Early, Stages
<1>t. /\ attempt \in 0..Attempts /\ tried \in 0..Attempts /\ stage \in Stages
      /\ cancelled \in BOOLEAN /\ alarmed \in BOOLEAN
      /\ LoopIsCounted /\ IPv6AlarmIsEarned
  BY DEF Inv, TypeOK
<1>1. CASE Signal \/ ObsStep \/ \E d \in Dependencies : Flap(d)
  <2>1. UNCHANGED <<stage, attempt, tried, alarmed>> /\ (cancelled => cancelled')
    BY <1>1 DEF Signal, Flap, ObsStep, Listens, ObsFails, ObsShutsDown, RunStands, world, link
  <2> QED
    BY <1>t, <2>1
<1>2. CASE MainStep
  <2> USE DEF Moves, Goes, Exits, link, world
  <2>1. CASE LoadFails \/ Loads \/ Branches \/ Idles \/ Settles \/ OpenFails \/ SettleCut
    BY <1>t, <2>1 DEF LoadFails, Loads, Branches, Idles, Settles, OpenFails, SettleCut
  <2>2. CASE Answers \/ NoAnswer \/ AsksAgain \/ PauseCut \/ MakesChecks \/ BuildFails
    BY <1>t, <2>2 DEF Answers, NoAnswer, AsksAgain, PauseCut, MakesChecks, BuildFails
  <2>3. CASE SkipsIPv6 \/ LinkIsUp \/ Naps
    BY <1>t, <2>3 DEF SkipsIPv6, LinkIsUp, Naps
  <2>4. CASE AttemptFails
    BY <1>t, <2>4 DEF AttemptFails
  <2>5. CASE Judges
    <3>1. stage' = "announcing" /\ attempt' = attempt /\ tried' = tried /\ cancelled' = cancelled
      BY <2>5 DEF Judges
    <3>2. alarmed' => ~cancelled /\ stage = "judging"
      BY <2>5 DEF Judges
    <3> QED
      BY <1>t, <3>1, <3>2
  <2>6. CASE Announces \/ SupervisorReturns \/ Collects \/ ObsTooSlow
    BY <1>t, <2>6 DEF Announces, SupervisorReturns, Collects, ObsTooSlow
  <2> QED
    BY <1>2, <2>1, <2>2, <2>3, <2>4, <2>5, <2>6 DEF MainStep, ChecksIPv6
<1>3. CASE Over \/ UNCHANGED vars
  BY <1>3, <1>t DEF Over, vars, link, world
<1> QED
  BY <1>1, <1>2, <1>3 DEF Next

\* So is the failure of the listener, until the exit code has it.
LEMMA FailureKept ==
  Inv /\ [Next]_vars => FailureIsKept' /\ FailedListenerIsReported'
<1> SUFFICES ASSUME Inv, [Next]_vars PROVE FailureIsKept' /\ FailedListenerIsReported'
  OBVIOUS
<1> USE DEF FailureIsKept, FailedListenerIsReported
<1>t. FailureIsKept /\ FailedListenerIsReported
  BY DEF Inv
<1>1. CASE Signal \/ ObsStep \/ \E d \in Dependencies : Flap(d)
  BY <1>1, <1>t DEF Signal, Flap, ObsStep, Listens, ObsFails, ObsShutsDown, RunStands, server
<1>2. CASE MainStep
  <2> USE DEF Moves, Goes, Exits, server
  <2>1. CASE LoadFails \/ Loads \/ Branches \/ Idles \/ Settles \/ OpenFails \/ SettleCut
    BY <1>t, <2>1 DEF LoadFails, Loads, Branches, Idles, Settles, OpenFails, SettleCut
  <2>2. CASE Answers \/ NoAnswer \/ AsksAgain \/ PauseCut \/ MakesChecks \/ BuildFails
    BY <1>t, <2>2 DEF Answers, NoAnswer, AsksAgain, PauseCut, MakesChecks, BuildFails
  <2>3. CASE ChecksIPv6
    BY <1>t, <2>3 DEF ChecksIPv6, SkipsIPv6, LinkIsUp, AttemptFails, Naps, Judges
  <2>4. CASE Announces \/ SupervisorReturns \/ Collects \/ ObsTooSlow
    BY <1>t, <2>4 DEF Announces, SupervisorReturns, Collects, ObsTooSlow
  <2> QED
    BY <1>2, <2>1, <2>2, <2>3, <2>4 DEF MainStep
<1>3. CASE Over \/ UNCHANGED vars
  BY <1>3, <1>t DEF Over, vars, server
<1> QED
  BY <1>1, <1>2, <1>3 DEF Next

\* So is what the checks are made of.
LEMMA ChecksKept == Inv /\ [Next]_vars => ChecksAreBuilt'
<1> SUFFICES ASSUME Inv, [Next]_vars PROVE ChecksAreBuilt'
  OBVIOUS
<1>t. checks \subseteq Built(config) /\ (stage \notin {"loading", "exited"} => Accepted(config))
  BY DEF Inv, ChecksAreBuilt
<1>1. config' = config /\ (checks' = checks \/ checks' = Built(config))
  <2> USE DEF world, begun, link, server
  <2>1. CASE Signal \/ ObsStep \/ \E d \in Dependencies : Flap(d)
    BY <2>1 DEF Signal, Flap, ObsStep, Listens, ObsFails, ObsShutsDown, RunStands
  <2>2. CASE MainStep
    BY <2>2 DEF MainStep, LoadFails, Loads, Branches, Idles, Settles, OpenFails, SettleCut,
      Answers, NoAnswer, AsksAgain, PauseCut, MakesChecks, BuildFails, ChecksIPv6, SkipsIPv6,
      LinkIsUp, AttemptFails, Naps, Judges, Announces, SupervisorReturns, Collects,
      ObsTooSlow, Moves, Goes, Exits
  <2>3. CASE Over \/ UNCHANGED vars
    BY <2>3 DEF Over, vars
  <2> QED
    BY <2>1, <2>2, <2>3 DEF Next
<1>2. stage = "loading" /\ stage' \notin {"loading", "exited"} => Accepted(config)
  <2>1. CASE Signal \/ ObsStep \/ \E d \in Dependencies : Flap(d)
    BY <2>1 DEF Signal, Flap, ObsStep, Listens, ObsFails, ObsShutsDown, RunStands
  <2>2. CASE MainStep
    BY <2>2 DEF MainStep, LoadFails, Loads, Branches, Idles, Settles, OpenFails, SettleCut,
      Answers, NoAnswer, AsksAgain, PauseCut, MakesChecks, BuildFails, ChecksIPv6, SkipsIPv6,
      LinkIsUp, AttemptFails, Naps, Judges, Announces, SupervisorReturns, Collects,
      ObsTooSlow, Exits
  <2>3. CASE Over \/ UNCHANGED vars
    BY <2>3 DEF Over, vars
  <2> QED
    BY <2>1, <2>2, <2>3 DEF Next
<1>3. stage = "exited" => stage' = "exited"
  BY DEF Next, Signal, Flap, ObsStep, Listens, ObsFails, ObsShutsDown, MainStep, LoadFails,
    Loads, Branches, Idles, Settles, OpenFails, SettleCut, Answers, NoAnswer, AsksAgain,
    PauseCut, MakesChecks, BuildFails, ChecksIPv6, SkipsIPv6, LinkIsUp, AttemptFails, Naps,
    Judges, Announces, SupervisorReturns, Collects, ObsTooSlow, Over, vars
<1> QED
  BY <1>t, <1>1, <1>2, <1>3 DEF ChecksAreBuilt

LEMMA InvKept == Inv /\ [Next]_vars => Inv'
  BY TypesKept, WaitsKept, LoopKept, FailureKept, ChecksKept DEF Inv

\* The state of the process keeps its types.
THEOREM TypeCorrect == Spec => []TypeOK
<1>1. Inv => TypeOK
  BY DEF Inv
<1> QED
  BY InitInv, InvKept, <1>1, PTL DEF Spec

\* However the databases come and go: ready means that both have answered.
THEOREM ReadinessIsHonest == Spec => []ReadyMeansConnected
<1>1. Inv => ReadyMeansConnected
  BY DEF Inv
<1> QED
  BY InitInv, InvKept, <1>1, PTL DEF Spec

\* Whichever way out: a failed listener shows in the exit code.
THEOREM FailureReachesTheCode == Spec => []FailedListenerIsReported
<1>1. Inv => FailedListenerIsReported
  BY DEF Inv
<1> QED
  BY InitInv, InvKept, <1>1, PTL DEF Spec

\* For any number of attempts: the alarm about IPv6 follows that many failures.
THEOREM AlarmTakesAllAttempts == Spec => []IPv6AlarmIsEarned
<1>1. Inv => IPv6AlarmIsEarned
  BY DEF Inv
<1> QED
  BY InitInv, InvKept, <1>1, PTL DEF Spec

\* For any configuration: a container is restarted on its own evidence.
THEOREM ChecksAreConnected == Spec => []ChecksMeasureWhatTheyRestart
<1>1. Inv => ChecksMeasureWhatTheyRestart
  <2> SUFFICES ASSUME Inv, NEW c \in checks
      PROVE /\ Measured(config, c) # {} /\ "nil" \notin Measured(config, c)
            /\ Reaction(c.event) # "unhandled"
            /\ Reaction(c.event) \in {"restart", "php-fpm"} => Measured(config, c) = {c.event}
    BY DEF ChecksMeasureWhatTheyRestart
  <2> QED
    BY BuiltIsConnected DEF Inv, TypeOK, ChecksAreBuilt
<1> QED
  BY InitInv, InvKept, <1>1, PTL DEF Spec

\* For any interval: there is a pause, of at least that length.
THEOREM ChecksRest == Spec => []EveryCheckRests
<1>1. Inv => EveryCheckRests
  <2> SUFFICES ASSUME Inv, NEW c \in checks
      PROVE /\ c.deadDelay > 0
            /\ \A pause \in Pick(Windows(config.interval)[c.window]) :
                 /\ pause >= config.interval
                 /\ c.name = "external" => pause >= OriginalExternal
                 /\ c.name = "cert" => pause >= OriginalCert
    BY DEF EveryCheckRests
  <2>1. Sound(c) /\ config.interval \in Int
    BY RowsAreSound DEF Inv, TypeOK, Config
  <2>2. c.deadDelay > 0
    BY <2>1 DEF Sound
  <2> QED
    BY <2>1, <2>2, WindowsHaveFloors
<1> QED
  BY InitInv, InvKept, <1>1, PTL DEF Spec

\* For any configuration: what was accepted does not fail after all the waiting,
\* but for its endpoint.
THEOREM AcceptanceHolds == Spec => AcceptedConfigStarts
<1> DEFINE Late == stage = "building" /\ stage' = "exited" => config.url = "unusable"
<1>1. Inv /\ [Next]_vars => [Late]_vars
  <2> SUFFICES ASSUME Inv, [Next]_vars, stage = "building", stage' = "exited"
      PROVE config.url = "unusable"
    OBVIOUS
  <2>1. BuildFails
    BY DEF Next, Signal, Flap, RunStands, ObsStep, Listens, ObsFails, ObsShutsDown, MainStep,
      LoadFails, Loads, Branches, Idles, Settles, OpenFails, SettleCut, Answers, NoAnswer,
      AsksAgain, PauseCut, MakesChecks, ChecksIPv6, SkipsIPv6, LinkIsUp, AttemptFails, Naps,
      Judges, Announces, SupervisorReturns, Collects, ObsTooSlow, Moves, Over, vars
  <2>2. config \in Config /\ Accepted(config)
    BY DEF Inv, TypeOK, ChecksAreBuilt
  <2> QED
    BY <2>1, <2>2, AcceptedIsBuilt DEF BuildFails
<1> QED
  BY InitInv, InvKept, <1>1, PTL DEF Spec, AcceptedConfigStarts
-----------------------------------------------------------------------------
(* after a signal *)

\* The most steps run has before it once the context is done: it does not wait
\* for a dependency again, and the loop over the reflectors ends by its count.
StepsLeft ==
  CASE stage = "exited" -> 0
    [] stage = "collecting" -> 1
    [] stage \in {"supervising", "disabled"} -> 2
    [] stage = "announcing" -> 3
    [] stage = "judging" -> 4
    [] stage = "checking" -> 2 * (Attempts - attempt) + 6
    [] stage = "napping" -> 2 * (Attempts - attempt) + 7
    [] stage = "building" -> 2 * Attempts + 8
    [] stage = "asking" -> 2 * Attempts + 9
    [] stage \in {"pausing", "settling"} -> 2 * Attempts + 10
    [] stage = "serving" -> 2 * Attempts + 11
    [] stage = "loading" -> 2 * Attempts + 12

\* After a signal every step of run is one towards the exit, and nothing that
\* the dependencies or the listener do in between takes it back.
OnlyTowardsTheExit ==
  [][cancelled => IF MainStep THEN StepsLeft' < StepsLeft ELSE StepsLeft' = StepsLeft]_vars
StepsAreFinite == StepsLeft \in Nat

LEMMA StepsAre ==
  /\ stage = "exited" => StepsLeft = 0
  /\ stage = "collecting" => StepsLeft = 1
  /\ stage \in {"supervising", "disabled"} => StepsLeft = 2
  /\ stage = "announcing" => StepsLeft = 3
  /\ stage = "judging" => StepsLeft = 4
  /\ stage = "checking" => StepsLeft = 2 * (Attempts - attempt) + 6
  /\ stage = "napping" => StepsLeft = 2 * (Attempts - attempt) + 7
  /\ stage = "building" => StepsLeft = 2 * Attempts + 8
  /\ stage = "asking" => StepsLeft = 2 * Attempts + 9
  /\ stage \in {"pausing", "settling"} => StepsLeft = 2 * Attempts + 10
  /\ stage = "serving" => StepsLeft = 2 * Attempts + 11
  /\ stage = "loading" => StepsLeft = 2 * Attempts + 12
BY DEF StepsLeft

LEMMA StepsWillBe ==
  /\ stage' = "exited" => StepsLeft' = 0
  /\ stage' = "collecting" => StepsLeft' = 1
  /\ stage' \in {"supervising", "disabled"} => StepsLeft' = 2
  /\ stage' = "announcing" => StepsLeft' = 3
  /\ stage' = "judging" => StepsLeft' = 4
  /\ stage' = "checking" => StepsLeft' = 2 * (Attempts - attempt') + 6
  /\ stage' = "napping" => StepsLeft' = 2 * (Attempts - attempt') + 7
  /\ stage' = "building" => StepsLeft' = 2 * Attempts + 8
  /\ stage' = "asking" => StepsLeft' = 2 * Attempts + 9
  /\ stage' \in {"pausing", "settling"} => StepsLeft' = 2 * Attempts + 10
  /\ stage' = "serving" => StepsLeft' = 2 * Attempts + 11
  /\ stage' = "loading" => StepsLeft' = 2 * Attempts + 12
BY DEF StepsLeft

\* The arithmetic of the loop, which is not yet over at attempt a.
LEMMA LoopArithmetic ==
  ASSUME NEW n \in Nat, NEW a \in 0..n
  PROVE  /\ 2 * (n - a) \in Nat /\ 2 * (n - a) <= 2 * n
         /\ 2 * (n - (a + 1)) = 2 * (n - a) - 2
OBVIOUS

LEMMA StepsAreNatural == TypeOK => StepsAreFinite
<1> SUFFICES ASSUME TypeOK PROVE StepsLeft \in Nat
  BY DEF StepsAreFinite
<1>1. /\ Attempts \in Nat /\ attempt \in 0..Attempts /\ stage \in Stages
      /\ 2 * (Attempts - attempt) \in Nat
  BY LoopArithmetic DEF TypeOK
<1>2. CASE stage \in {"checking", "napping"}
  BY <1>1, <1>2, StepsAre
<1>3. CASE stage \notin {"checking", "napping"}
  BY <1>1, <1>3, StepsAre DEF Stages
<1> QED
  BY <1>2, <1>3

LEMMA SignalProgress ==
  ASSUME Inv, Inv', cancelled, MainStep
  PROVE  StepsLeft' < StepsLeft
<1>t. /\ Attempts \in Nat /\ attempt \in 0..Attempts /\ attempt' \in 0..Attempts
      /\ 2 * (Attempts - attempt) \in Nat /\ 2 * (Attempts - attempt) <= 2 * Attempts
      /\ 2 * (Attempts - (attempt + 1)) = 2 * (Attempts - attempt) - 2
      /\ 2 * Attempts \in Nat
      /\ StepsLeft \in Nat /\ StepsLeft' \in Nat
  <2>1. StepsLeft \in Nat
    BY StepsAreNatural DEF Inv, StepsAreFinite
  <2>2. TypeOK' => StepsAreFinite'
    BY StepsAreNatural, PTL
  <2> QED
    BY <2>1, <2>2, LoopArithmetic DEF Inv, TypeOK, StepsAreFinite
<1> USE DEF Moves, Goes, Exits
<1>1. CASE LoadFails \/ Loads
  BY <1>t, <1>1, StepsAre, StepsWillBe DEF LoadFails, Loads
<1>2. CASE Branches \/ Idles
  BY <1>t, <1>2, StepsAre, StepsWillBe DEF Branches, Idles
<1>3. CASE Settles \/ OpenFails \/ SettleCut
  BY <1>t, <1>3, StepsAre, StepsWillBe DEF Settles, OpenFails, SettleCut
<1>4. CASE NoAnswer \/ AsksAgain \/ PauseCut
  BY <1>t, <1>4, StepsAre, StepsWillBe DEF NoAnswer, AsksAgain, PauseCut
<1>5. CASE MakesChecks
  <2>1. stage = "building" /\ stage' = "checking" /\ attempt' = attempt
    BY <1>5 DEF MakesChecks, link
  <2>2. StepsLeft = 2 * Attempts + 8 /\ StepsLeft' = 2 * (Attempts - attempt) + 6
    BY <2>1, StepsAre, StepsWillBe
  <2> QED
    BY <1>t, <2>2
<1>6. CASE BuildFails
  BY <1>t, <1>6, StepsAre, StepsWillBe DEF BuildFails
<1>7. CASE SkipsIPv6 \/ LinkIsUp
  <2>1. stage = "checking" /\ stage' = "announcing"
    BY <1>7 DEF SkipsIPv6, LinkIsUp
  <2>2. StepsLeft = 2 * (Attempts - attempt) + 6 /\ StepsLeft' = 3
    BY <2>1, StepsAre, StepsWillBe
  <2> QED
    BY <1>t, <2>2
<1>8. CASE AttemptFails
  <2>1. /\ stage = "checking" /\ attempt' = attempt + 1
        /\ stage' \in {"napping", "judging"}
    BY <1>8 DEF AttemptFails
  <2>2. StepsLeft = 2 * (Attempts - attempt) + 6
    BY <2>1, StepsAre
  <2>3. CASE stage' = "napping"
    <3>1. StepsLeft' = 2 * (Attempts - (attempt + 1)) + 7
      BY <2>1, <2>3, StepsWillBe
    <3> QED
      BY <1>t, <2>2, <3>1
  <2>4. CASE stage' = "judging"
    <3>1. StepsLeft' = 4
      BY <2>4, StepsWillBe
    <3> QED
      BY <1>t, <2>2, <3>1
  <2> QED
    BY <2>1, <2>3, <2>4
<1>9. CASE Naps
  <2>1. stage = "napping" /\ stage' \in {"checking", "judging"} /\ attempt' = attempt
    BY <1>9 DEF Naps, link
  <2>2. StepsLeft = 2 * (Attempts - attempt) + 7
    BY <2>1, StepsAre
  <2>3. StepsLeft' = 2 * (Attempts - attempt) + 6 \/ StepsLeft' = 4
    BY <2>1, StepsWillBe
  <2> QED
    BY <1>t, <2>2, <2>3
<1>10. CASE Judges \/ Announces \/ SupervisorReturns
  BY <1>10, StepsAre, StepsWillBe DEF Judges, Announces, SupervisorReturns
<1>11. CASE Collects \/ ObsTooSlow
  BY <1>11, StepsAre, StepsWillBe DEF Collects, ObsTooSlow
<1>12. ~Answers
  BY DEF Answers
<1> QED
  BY <1>1, <1>2, <1>3, <1>4, <1>5, <1>6, <1>7, <1>8, <1>9, <1>10, <1>11, <1>12
     DEF MainStep, ChecksIPv6

\* From wherever a signal finds run, at most StepsLeft steps lead out
\* (main.go:83): a dependency that stays away, a reflector that does not answer
\* and a listener that hangs cannot send it round again.
THEOREM SignalIsEnough == Spec => []StepsAreFinite /\ OnlyTowardsTheExit
<1> DEFINE Nearer == cancelled => IF MainStep THEN StepsLeft' < StepsLeft ELSE StepsLeft' = StepsLeft
<1>1. Inv => StepsAreFinite
  BY StepsAreNatural DEF Inv
<1>2. Inv /\ Inv' /\ [Next]_vars => [Nearer]_vars
  <2> SUFFICES ASSUME Inv, Inv', Next, cancelled
               PROVE  IF MainStep THEN StepsLeft' < StepsLeft ELSE StepsLeft' = StepsLeft
    OBVIOUS
  <2>1. CASE MainStep
    BY <2>1, SignalProgress
  <2>2. CASE ~MainStep
    <3>1. UNCHANGED <<stage, attempt>>
      BY <2>2 DEF Next, Signal, Flap, ObsStep, Listens, ObsFails, ObsShutsDown, Over, vars,
         link, RunStands
    <3> QED
      BY <2>2, <3>1 DEF StepsLeft
  <2> QED
    BY <2>1, <2>2
<1> HIDE DEF Nearer
<1>3. Spec => [][Nearer]_vars
  BY InitInv, InvKept, <1>2, PTL DEF Spec
<1> QED
  BY InitInv, InvKept, <1>1, <1>3, PTL DEF Spec, OnlyTowardsTheExit, Nearer
=============================================================================
