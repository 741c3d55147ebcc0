------------------------------- MODULE Restart -------------------------------
(****************************************************************************)
(* Supervisor.restart and restartOne against the clock: the containers of   *)
(* one service, the daemon that restarts them in its own time, and the      *)
(* calls that give up on it.  Events come one after another, at any         *)
(* distance, as they do when several are queued.  The gate and the checks   *)
(* are in Supervisor.tla.                                                   *)
(*                                                                          *)
(* Time is kept as ages: how long ago something happened, in a unit of      *)
(* choice and no further back than Oldest, the largest delay anything is    *)
(* compared with.  Waits never end early but may end late.                  *)
(****************************************************************************)
EXTENDS Integers, FiniteSets

CONSTANTS Containers,   \* what Find matches
          MinUptime, PauseBeforeRestart, SettleAfterRestart, InitDBDelay,
          CallTimeout,  \* dockerapi's defaultTimeout
          StopGrace,    \* the longest the daemon takes to restart a container
          Oldest,       \* ages stop here
          PhpFpm,       \* the service is php-fpm-mailcow
          Never         \* the age of what has not happened

Delays == {MinUptime, PauseBeforeRestart, SettleAfterRestart, InitDBDelay,
           CallTimeout, StopGrace}

ASSUME RestartAssumption ==
  /\ IsFiniteSet(Containers)
  /\ Oldest \in Nat
  /\ Delays \subseteq 0..Oldest
  /\ PhpFpm \in BOOLEAN
  /\ Never \notin Int
  \* A restart the client gave up on is over when the next event's Find looks.
  /\ StopGrace < PauseBeforeRestart

VARIABLES uptime,       \* since each container last came up
          ordered,      \* since the daemon was told to restart it, if it has yet to
          stage,        \* where restart is
          waited,       \* since that stage began
          seen,         \* since Container.StartedAt, as Find returned it
          left,         \* matched containers whose turn is still to come
          target,       \* the one restartOne is at, if any
          cancelled,
          commanded,    \* history: since the watchdog last had it restarted
          confirmed     \* history: since the daemon last confirmed a restart

world == <<uptime, ordered, cancelled>>
loop  == <<seen, left, target>>
past  == <<commanded, confirmed>>
vars  == <<world, stage, waited, loop, past>>

Stages == {"idle", "draining", "finding", "next", "deciding", "migrating", "calling", "settling"}
Ages == 0..Oldest
Nowhere == [c \in Containers |-> Never]

TypeOK ==
  /\ uptime \in [Containers -> Ages]
  /\ ordered \in [Containers -> Ages \cup {Never}]
  /\ stage \in Stages /\ waited \in Ages
  /\ seen \in [Containers -> Ages \cup {Never}]
  /\ left \subseteq Containers /\ target \subseteq Containers
  /\ cancelled \in BOOLEAN
  /\ commanded \in [Containers -> Ages \cup {Never}]
  /\ confirmed \in Ages \cup {Never}

Init ==
  /\ uptime = [c \in Containers |-> 0] /\ ordered = Nowhere
  /\ stage = "idle" /\ waited = 0
  /\ seen = Nowhere /\ left = {} /\ target = {}
  /\ cancelled = FALSE
  /\ commanded = Nowhere /\ confirmed = Never

Goes(place) == stage' = place /\ waited' = 0

\* Clock.Sleep(d) has returned: the time is over, or the context is.
Slept(d) == cancelled \/ waited >= d

Older(age) == IF age = Never \/ age = Oldest THEN age ELSE age + 1

-----------------------------------------------------------------------------
(* the world *)

\* The daemon keeps to its grace period and the client to its timeout.
Tick ==
  /\ \A c \in Containers : ordered[c] # Never => ordered[c] < StopGrace
  /\ stage = "calling" => waited < CallTimeout
  /\ uptime' = [c \in Containers |-> Older(uptime[c])]
  /\ ordered' = [c \in Containers |-> Older(ordered[c])]
  /\ waited' = Older(waited)
  /\ seen' = [c \in Containers |-> Older(seen[c])]
  /\ commanded' = [c \in Containers |-> Older(commanded[c])]
  /\ confirmed' = Older(confirmed)
  /\ UNCHANGED <<stage, left, target, cancelled>>

\* The daemon has restarted c, whether or not anybody still waits for it.
Restarted(c) ==
  /\ ordered[c] # Never
  /\ uptime' = [uptime EXCEPT ![c] = 0]
  /\ ordered' = [ordered EXCEPT ![c] = Never]
  /\ UNCHANGED <<stage, waited, loop, cancelled, past>>

\* c went down by itself and the daemon's restart policy brought it up again.
Crashed(c) ==
  /\ ordered[c] = Never
  /\ uptime' = [uptime EXCEPT ![c] = 0]
  /\ UNCHANGED <<ordered, stage, waited, loop, cancelled, past>>

Cancel ==
  /\ ~cancelled
  /\ cancelled' = TRUE
  /\ UNCHANGED <<uptime, ordered, stage, waited, loop, past>>

-----------------------------------------------------------------------------
(* restart *)

Begin ==
  /\ stage = "idle"
  /\ Goes("draining")
  /\ UNCHANGED <<world, loop, past>>

\* restart without the wait for the probes in flight.
DrainSkipped ==
  /\ stage = "draining"
  /\ Goes(IF cancelled THEN "idle" ELSE "finding")
  /\ UNCHANGED <<world, loop, past>>

Drain ==
  /\ stage = "draining"
  /\ Slept(PauseBeforeRestart)
  /\ Goes(IF cancelled THEN "idle" ELSE "finding")
  /\ UNCHANGED <<world, loop, past>>

\* No client, an error, or no match.
FindFails ==
  /\ stage = "finding"
  /\ Goes("idle")
  /\ UNCHANGED <<world, loop, past>>

\* Find returns all the start times at once, ahead of the restarts; one that
\* cannot be parsed is the zero time.
Find ==
  /\ stage = "finding" /\ ~cancelled
  /\ \E readable \in SUBSET Containers :
       seen' = [c \in Containers |-> IF c \in readable THEN uptime[c] ELSE Never]
  /\ left' = Containers
  /\ Goes("next")
  /\ UNCHANGED <<world, target, past>>

NextTarget ==
  /\ stage = "next"
  /\ \E c \in left : target' = {c} /\ left' = left \ {c}
  /\ Goes("deciding")
  /\ UNCHANGED <<world, seen, past>>

\* The loop is over and resumeAll runs.
Resume ==
  /\ stage = "next"
  /\ left = {}
  /\ Goes("idle") /\ seen' = Nowhere
  /\ UNCHANGED <<world, left, target, past>>

-----------------------------------------------------------------------------
(* restartOne *)

OneDone == Goes("next") /\ target' = {} /\ UNCHANGED <<seen, left>>

\* The uptime rule; a container with no known start time is exempt.
OldEnough(c) == seen[c] # Never => seen[c] >= MinUptime

TooYoung ==
  /\ stage = "deciding"
  /\ \E c \in target : ~OldEnough(c)
  /\ OneDone
  /\ UNCHANGED <<world, past>>

\* php-fpm runs its migration.
Migrates ==
  /\ stage = "deciding" /\ PhpFpm /\ ~cancelled
  /\ \E c \in target : OldEnough(c)
  /\ Goes("migrating")
  /\ UNCHANGED <<world, loop, past>>

MigrationOver ==
  /\ stage = "migrating"
  /\ Slept(InitDBDelay)
  /\ OneDone
  /\ UNCHANGED <<world, past>>

\* The restart call reaches the daemon; a second one joins the first.
Call ==
  /\ stage = "deciding" /\ ~cancelled
  /\ \E c \in target :
       /\ OldEnough(c)
       /\ ordered' = [ordered EXCEPT ![c] = IF ordered[c] = Never THEN 0 ELSE ordered[c]]
       /\ commanded' = [commanded EXCEPT ![c] = 0]
  /\ Goes("calling")
  /\ UNCHANGED <<uptime, cancelled, loop, confirmed>>

\* The call does not reach the daemon, or the daemon will not do it.
Refused ==
  /\ stage = "deciding"
  /\ \E c \in target : OldEnough(c)
  /\ OneDone
  /\ UNCHANGED <<world, past>>

\* The client gives up: the timeout, the shutdown, or a connection that broke.
\* That says nothing about the container, and it ends this one's turn.
CallFails ==
  /\ stage = "calling"
  /\ OneDone
  /\ UNCHANGED <<world, past>>

Confirmed ==
  /\ stage = "calling" /\ ~cancelled
  /\ \A c \in target : ordered[c] = Never
  /\ confirmed' = 0
  /\ Goes("settling")
  /\ UNCHANGED <<world, loop, commanded>>

\* Settled that only keeps the replicas apart.
SettledBetween ==
  /\ stage = "settling"
  /\ left = {} \/ Slept(SettleAfterRestart)
  /\ OneDone
  /\ UNCHANGED <<world, past>>

Settled ==
  /\ stage = "settling"
  /\ Slept(SettleAfterRestart)
  /\ OneDone
  /\ UNCHANGED <<world, past>>

Next ==
  \/ Tick \/ Cancel
  \/ \E c \in Containers : Restarted(c) \/ Crashed(c)
  \/ Begin \/ Drain \/ FindFails \/ Find \/ NextTarget \/ Resume
  \/ TooYoung \/ Migrates \/ MigrationOver \/ Call \/ Refused
  \/ CallFails \/ Confirmed \/ Settled

Spec == Init /\ [][Next]_vars

-----------------------------------------------------------------------------
\* Two restarts of one container by the watchdog are MinUptime apart, although
\* the rule looks at the container's uptime and not at its own past: not even
\* two queued events and a call whose answer got lost add up to a restart loop.
\* Only a start time that cannot be read lets the rule down.
RestartsAreSpaced ==
  [][stage = "deciding" /\ stage' = "calling" =>
       \A c \in target :
         seen[c] # Never /\ commanded[c] # Never => commanded[c] >= MinUptime]_vars

\* The checks resume no earlier than SettleAfterRestart after the last restart
\* the daemon confirmed, whatever became of the replicas after it.
SettledBeforeResume ==
  [][stage = "next" /\ stage' = "idle" /\ ~cancelled =>
       (confirmed # Never => confirmed >= SettleAfterRestart)]_vars

=============================================================================
