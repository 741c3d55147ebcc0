------------------------------- MODULE Notify -------------------------------
(****************************************************************************)
(* internal/notify: one alert at a time through the throttle that Redis     *)
(* keeps, then to every recipient and the webhook, each recipient by way of *)
(* its mail exchangers in turn.  A target is a recipient or the webhook,    *)
(* which has one exchanger.  The watchdog may be killed and started again   *)
(* at any moment: the throttle survives it, the alert does not.             *)
(* The order of the targets is left open; nothing depends on it.            *)
(****************************************************************************)
EXTENDS Integers, FiniteSets

CONSTANTS Services,     \* Alert.Service
          Window,       \* Window[s]: Alert.Throttle, 0 for none
          Targets,
          Exchangers,   \* Exchangers[t]: how many hosts deliver tries
          NoService

ASSUME NotifyAssumption ==
  /\ IsFiniteSet(Targets)
  /\ NoService \notin Services
  /\ Window \in [Services -> Nat]
  /\ Exchangers \in [Targets -> Nat \ {0}]

VARIABLES slot,         \* what is left of the throttle key's life, in Redis
          stage,        \* where Dispatch is
          service,      \* the alert's service
          todo,         \* targets still to be tried
          at,           \* the target deliver is at, if any
          hosts,        \* its exchangers not tried yet
          failed,       \* some target returned an error
          age,          \* history: since an alert of s was last sent out
          blind,        \* history: services whose key Redis lost or did not show
          copies,       \* history: copies of this alert each target has
          goodbyes,     \* history: exchangers that took it but failed afterwards
          passed        \* history: targets whose every exchanger refused

memory == <<stage, service, todo, at, hosts, failed, copies, goodbyes, passed>>
vars == <<memory, slot, age, blind>>

TypeOK ==
  /\ slot \in [Services -> Nat] /\ age \in [Services -> Nat]
  /\ \A s \in Services : slot[s] \in 0..Window[s] /\ age[s] \in 0..Window[s]
  /\ stage \in {"idle", "reserving", "sending"}
  /\ service \in Services \cup {NoService}
  /\ todo \subseteq Targets /\ at \subseteq Targets
  /\ hosts \in Nat
  /\ failed \in BOOLEAN
  /\ blind \subseteq Services
  /\ copies \in [Targets -> Nat] /\ goodbyes \in [Targets -> Nat]
  /\ passed \subseteq Targets

Zero == [t \in Targets |-> 0]

Init ==
  /\ slot = [s \in Services |-> 0]
  /\ age = [s \in Services |-> Window[s]]
  /\ blind = {}
  /\ stage = "idle" /\ service = NoService
  /\ todo = {} /\ at = {} /\ hosts = 0 /\ failed = FALSE
  /\ copies = Zero /\ goodbyes = Zero /\ passed = {}

-----------------------------------------------------------------------------
(* Redis, time and the process *)

Tick ==
  /\ slot' = [s \in Services |-> IF slot[s] = 0 THEN 0 ELSE slot[s] - 1]
  /\ age' = [s \in Services |-> IF age[s] = Window[s] THEN age[s] ELSE age[s] + 1]
  /\ UNCHANGED <<memory, blind>>

\* Redis restarts without persistence.
RedisForgets ==
  /\ slot' = [s \in Services |-> 0]
  /\ blind' = Services
  /\ UNCHANGED <<memory, age>>

Fresh ==
  /\ todo' = {} /\ at' = {} /\ hosts' = 0 /\ failed' = FALSE
  /\ copies' = Zero /\ goodbyes' = Zero /\ passed' = {}

\* The watchdog is killed and started again.
Restarts ==
  /\ stage # "idle"
  /\ stage' = "idle" /\ service' = NoService
  /\ Fresh
  /\ UNCHANGED <<slot, age, blind>>

-----------------------------------------------------------------------------
(* Dispatcher.Dispatch *)

\* The alert goes to Multi.Send, and from there to every target.
SendOut(s) ==
  /\ stage' = "sending" /\ service' = s
  /\ todo' = Targets
  /\ age' = [age EXCEPT ![s] = 0]
  /\ UNCHANGED <<at, hosts, failed, copies, goodbyes, passed>>

Dispatch(s) ==
  /\ stage = "idle"
  /\ \/ /\ Window[s] > 0
        /\ stage' = "reserving" /\ service' = s
        /\ UNCHANGED <<todo, at, hosts, failed, copies, goodbyes, passed, age>>
     \/ Window[s] = 0 /\ SendOut(s)
  /\ UNCHANGED <<slot, blind>>

\* Reserve that looks at the key and does not claim it.
ReserveOnlyLooks ==
  /\ stage = "reserving" /\ slot[service] = 0
  /\ blind' = blind \ {service}
  /\ SendOut(service)
  /\ UNCHANGED slot

\* SET NX EX succeeds.
Reserved ==
  /\ stage = "reserving" /\ slot[service] = 0
  /\ slot' = [slot EXCEPT ![service] = Window[service]]
  /\ blind' = blind \ {service}
  /\ SendOut(service)

\* SET NX EX finds the key: the alert is dropped, and that is not an error.
Suppressed ==
  /\ stage = "reserving" /\ slot[service] > 0
  /\ stage' = "idle" /\ service' = NoService
  /\ UNCHANGED <<slot, age, blind, todo, at, hosts, failed, copies, goodbyes, passed>>

\* Reserve returns an error, and the alert is sent anyway.  Redis may have
\* carried the command out before the answer was lost.
ReserveFails ==
  /\ stage = "reserving"
  /\ slot' \in {slot, [slot EXCEPT ![service] = IF @ = 0 THEN Window[service] ELSE @]}
  /\ blind' = blind \cup {service}
  /\ SendOut(service)

-----------------------------------------------------------------------------
(* Multi.Send, SMTPSender.Send and WebhookSender.Send *)

NextTarget ==
  /\ stage = "sending" /\ at = {}
  /\ \E t \in todo :
       /\ at' = {t} /\ todo' = todo \ {t}
       /\ hosts' = Exchangers[t]
  /\ UNCHANGED <<slot, age, blind, stage, service, failed, copies, goodbyes, passed>>

\* Send that returns the first error it meets.
TargetLostStops ==
  /\ failed' = TRUE /\ at' = {} /\ hosts' = 0 /\ todo' = {}

\* Send whose errors nobody collects.
TargetLostSilently ==
  /\ at' = {} /\ hosts' = 0 /\ UNCHANGED <<todo, failed>>

\* deliver gives this target up; the others still get their turn.
TargetLost ==
  /\ failed' = TRUE /\ at' = {} /\ hosts' = 0 /\ UNCHANGED todo

\* No address, no MX, or no answer about it.
LookupFails ==
  /\ stage = "sending" /\ at # {}
  /\ \A t \in at : hosts = Exchangers[t]
  /\ TargetLost
  /\ passed' = passed \cup at
  /\ UNCHANGED <<slot, age, blind, stage, service, copies, goodbyes>>

\* This exchanger does not take the message: the next one, if there is one.
Refused ==
  /\ stage = "sending" /\ at # {}
  /\ \/ /\ hosts > 1
        /\ hosts' = hosts - 1
        /\ UNCHANGED <<todo, at, failed, passed>>
     \/ hosts = 1 /\ TargetLost /\ passed' = passed \cup at
  /\ UNCHANGED <<slot, age, blind, stage, service, copies, goodbyes>>

Taken == copies' = [t \in Targets |-> IF t \in at THEN copies[t] + 1 ELSE copies[t]]

\* The exchanger takes the message, and then the connection or QUIT fails:
\* deliver sees an error, and tries the next one.
TakenButFailed ==
  /\ stage = "sending" /\ at # {}
  /\ Taken
  /\ goodbyes' = [t \in Targets |-> IF t \in at THEN goodbyes[t] + 1 ELSE goodbyes[t]]
  /\ \/ /\ hosts > 1
        /\ hosts' = hosts - 1
        /\ UNCHANGED <<todo, at, failed>>
     \/ hosts = 1 /\ TargetLost
  /\ UNCHANGED <<slot, age, blind, stage, service, passed>>

\* deliver that goes through all exchangers whatever they say.
DeliveredGoesOn ==
  /\ stage = "sending" /\ at # {}
  /\ Taken
  /\ \/ hosts > 1 /\ hosts' = hosts - 1 /\ UNCHANGED at
     \/ hosts = 1 /\ at' = {} /\ hosts' = 0
  /\ UNCHANGED <<slot, age, blind, stage, service, todo, failed, goodbyes, passed>>

Delivered ==
  /\ stage = "sending" /\ at # {}
  /\ Taken
  /\ at' = {} /\ hosts' = 0
  /\ UNCHANGED <<slot, age, blind, stage, service, todo, failed, goodbyes, passed>>

SentOut == stage = "sending" /\ todo = {} /\ at = {}

\* Send returns what went wrong, and alert counts "sent" or "failed".
Return ==
  /\ SentOut
  /\ stage' = "idle" /\ service' = NoService
  /\ Fresh
  /\ UNCHANGED <<slot, age, blind>>

Next ==
  \/ Tick \/ RedisForgets \/ Restarts
  \/ \E s \in Services : Dispatch(s)
  \/ Reserved \/ Suppressed \/ ReserveFails
  \/ NextTarget \/ LookupFails \/ Refused \/ TakenButFailed \/ Delivered \/ Return

Spec == Init /\ [][Next]_vars

-----------------------------------------------------------------------------
\* A throttled service is not sent out twice within its window, not even by a
\* watchdog that was restarted in between, unless Redis failed to answer or
\* lost its keys.
OnePerWindow ==
  [][stage = "reserving" /\ stage' = "sending" /\ service \notin blind \cup blind'
       => age[service] = Window[service]]_vars

\* No failure keeps a target from its turn: when Send returns, each one has a
\* copy or has itself refused at every exchanger (or could not be looked up).
FailureIsContained ==
  SentOut => \A t \in Targets : copies[t] > 0 \/ t \in passed

\* An alert counted as sent, after it passed the throttle, has reached
\* everybody.
SentMeansEverybody == SentOut /\ ~failed => \A t \in Targets : copies[t] > 0

\* Nobody gets the same alert twice, except from exchangers that took it and
\* then broke off.
CopiesAreExplained == \A t \in Targets : copies[t] <= goodbyes[t] + 1
=============================================================================
