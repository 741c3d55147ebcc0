--------------------------- MODULE RestartProofs ---------------------------
(****************************************************************************)
(* Theorems about Restart, for any containers and any delays in the         *)
(* assumed order.  A container that the watchdog had restarted has not been *)
(* up for longer than that, once the daemon is done with it; and the pause  *)
(* before an event's Find outlasts every restart still under way.           *)
(****************************************************************************)
EXTENDS Restart, TLAPS

\* An order the daemon still works on is no older than its grace period.
OrdersAreYoung ==
  \A c \in Containers : ordered[c] # Never => ordered[c] <= StopGrace

\* Orders go back to before the pause, which Find comes after.
OrdersAreOver ==
  /\ stage = "draining" =>
       \A c \in Containers : ordered[c] # Never => ordered[c] >= waited
  /\ stage = "finding" => \A c \in Containers : ordered[c] = Never

\* Once a restart the watchdog ordered is over, the container is as young as
\* the order at most.
UptimeTells ==
  \A c \in Containers :
    commanded[c] # Never /\ ordered[c] = Never => uptime[c] <= commanded[c]

\* The containers whose turn is to come in this event.
Waiting == left \cup (IF stage = "deciding" THEN target ELSE {})

\* So is it as Find saw it, until its own turn.
SeenTells ==
  \A c \in Waiting :
    seen[c] # Never /\ commanded[c] # Never => seen[c] <= commanded[c]

\* Between events nobody is left to have a turn.
NobodyLeft ==
  /\ stage \in {"idle", "draining", "finding"} => left = {}
  /\ stage \in {"idle", "draining", "finding", "next"} => target = {}

\* restartOne has one container at a time, and none of them twice.
OneAtATime ==
  /\ left \cap target = {}
  /\ \A c, d \in target : c = d

\* The settling delay is counted from the confirmation.
Settling ==
  /\ stage = "settling" => confirmed = waited
  /\ stage # "settling" /\ ~cancelled /\ confirmed # Never
       => confirmed >= SettleAfterRestart

Inv ==
  /\ TypeOK /\ OrdersAreYoung /\ OrdersAreOver /\ UptimeTells /\ SeenTells
  /\ NobodyLeft /\ OneAtATime /\ Settling

LEMMA DelaysAreAges ==
  /\ Oldest \in Nat /\ Never \notin Int
  /\ MinUptime \in Ages /\ PauseBeforeRestart \in Ages /\ SettleAfterRestart \in Ages
  /\ InitDBDelay \in Ages /\ CallTimeout \in Ages /\ StopGrace \in Ages
  /\ StopGrace < PauseBeforeRestart
  BY RestartAssumption DEF Delays, Ages

LEMMA InitInv == Init => Inv
<1> SUFFICES ASSUME Init PROVE Inv
  OBVIOUS
<1> USE DelaysAreAges DEF Init, Nowhere
<1>1. TypeOK
  <2>1. 0 \in Ages
    BY DEF Ages
  <2> QED
    BY <2>1 DEF TypeOK, Stages
<1>2. OrdersAreYoung /\ OrdersAreOver /\ UptimeTells
  BY DEF OrdersAreYoung, OrdersAreOver, UptimeTells
<1>3. SeenTells /\ NobodyLeft /\ OneAtATime /\ Settling
  BY DEF SeenTells, Waiting, NobodyLeft, OneAtATime, Settling
<1> QED
  BY <1>1, <1>2, <1>3 DEF Inv

-----------------------------------------------------------------------------
(* the world *)

\* Growing older keeps the order of two ages, and a bound within Oldest.
LEMMA OlderKeepsOrder ==
  ASSUME NEW a \in Ages \cup {Never}, NEW b \in Ages \cup {Never}
  PROVE  /\ Older(a) \in Ages \cup {Never}
         /\ Older(a) = Never <=> a = Never
         /\ a # Never => Older(a) \in Ages /\ Older(a) >= a
         /\ a # Never /\ b # Never /\ a <= b => Older(a) <= Older(b)
         /\ a # Never /\ a < StopGrace => Older(a) <= StopGrace
  BY DelaysAreAges DEF Older, Ages

LEMMA TickKeeps == Inv /\ Tick => Inv'
<1> SUFFICES ASSUME Inv, Tick PROVE Inv'
  OBVIOUS
<1>0. /\ uptime \in [Containers -> Ages]
      /\ ordered \in [Containers -> Ages \cup {Never}]
      /\ seen \in [Containers -> Ages \cup {Never}]
      /\ commanded \in [Containers -> Ages \cup {Never}]
      /\ waited \in Ages /\ confirmed \in Ages \cup {Never}
      /\ left \subseteq Containers /\ target \subseteq Containers
      /\ Never \notin Ages
  BY DelaysAreAges DEF Inv, TypeOK, Ages
<1>1. /\ \A c \in Containers :
           /\ uptime'[c] = Older(uptime[c]) /\ ordered'[c] = Older(ordered[c])
           /\ seen'[c] = Older(seen[c]) /\ commanded'[c] = Older(commanded[c])
      /\ waited' = Older(waited) /\ confirmed' = Older(confirmed)
      /\ UNCHANGED <<stage, left, target, cancelled>>
      /\ \A c \in Containers : ordered[c] # Never => ordered[c] < StopGrace
  BY DEF Tick
<1>2. TypeOK'
  <2>1. /\ uptime' \in [Containers -> Ages]
        /\ ordered' \in [Containers -> Ages \cup {Never}]
        /\ seen' \in [Containers -> Ages \cup {Never}]
        /\ commanded' \in [Containers -> Ages \cup {Never}]
    BY <1>0, OlderKeepsOrder DEF Tick
  <2>2. waited' \in Ages /\ confirmed' \in Ages \cup {Never}
    BY <1>0, <1>1, OlderKeepsOrder
  <2> QED
    BY <2>1, <2>2, <1>1 DEF Inv, TypeOK
<1>3. OrdersAreYoung'
  BY <1>0, <1>1, OlderKeepsOrder DEF OrdersAreYoung
<1>4. OrdersAreOver'
  BY <1>0, <1>1, OlderKeepsOrder DEF Inv, OrdersAreOver
<1>5. UptimeTells'
  BY <1>0, <1>1, OlderKeepsOrder DEF Inv, UptimeTells
<1>6. SeenTells'
  <2>1. Waiting' = Waiting /\ Waiting \subseteq Containers
    BY <1>0, <1>1 DEF Waiting
  <2> QED
    BY <2>1, <1>0, <1>1, OlderKeepsOrder DEF Inv, SeenTells
<1>7. Settling'
  <2>1. CASE stage = "settling"
    BY <2>1, <1>1 DEF Inv, Settling
  <2>2. CASE stage # "settling"
    <3>1. confirmed # Never => confirmed' >= confirmed
      BY <1>0, <1>1, OlderKeepsOrder
    <3>2. confirmed' # Never => confirmed # Never /\ confirmed' \in Int /\ confirmed \in Int
      BY <1>0, <1>1, OlderKeepsOrder DEF Ages
    <3> QED
      BY <2>2, <3>1, <3>2, <1>1, DelaysAreAges DEF Inv, Settling, Ages
  <2> QED
    BY <2>1, <2>2
<1> QED
  BY <1>1, <1>2, <1>3, <1>4, <1>5, <1>6, <1>7 DEF Inv, NobodyLeft, OneAtATime

LEMMA WorldKeeps == ASSUME Inv, NEW c \in Containers, Restarted(c) \/ Crashed(c) PROVE Inv'
<1>1. /\ uptime' = [uptime EXCEPT ![c] = 0]
      /\ UNCHANGED <<stage, waited, loop, cancelled, past>>
      /\ ordered' = ordered \/ ordered' = [ordered EXCEPT ![c] = Never]
  BY DEF Restarted, Crashed
<1>2. TypeOK'
  BY <1>1, DelaysAreAges DEF Inv, TypeOK, Ages, loop, past
<1>3. OrdersAreYoung' /\ OrdersAreOver'
  BY <1>1 DEF Inv, TypeOK, OrdersAreYoung, OrdersAreOver
<1>4. UptimeTells'
  <2> SUFFICES ASSUME NEW d \in Containers, commanded'[d] # Never, ordered'[d] = Never
               PROVE  uptime'[d] <= commanded'[d]
    BY DEF UptimeTells
  <2>1. commanded' = commanded /\ commanded[d] \in Ages
    BY <1>1 DEF past, Inv, TypeOK
  <2>2. CASE d = c
    BY <2>1, <2>2, <1>1 DEF Inv, TypeOK, Ages
  <2>3. CASE d # c
    BY <2>1, <2>3, <1>1 DEF Inv, TypeOK, UptimeTells
  <2> QED
    BY <2>2, <2>3
<1> QED
  BY <1>1, <1>2, <1>3, <1>4
  DEF Inv, loop, past, SeenTells, Waiting, NobodyLeft, OneAtATime, Settling

LEMMA CancelKeeps == Inv /\ Cancel => Inv'
  BY DEF Cancel, loop, past, Inv, TypeOK, OrdersAreYoung, OrdersAreOver, UptimeTells,
         SeenTells, Waiting, NobodyLeft, OneAtATime, Settling

-----------------------------------------------------------------------------
(* restart and restartOne *)

LEMMA BeginKeeps == Inv /\ Begin => Inv'
<1> SUFFICES ASSUME Inv, Begin PROVE Inv'
  OBVIOUS
<1>1. stage = "idle" /\ stage' = "draining" /\ waited' = 0 /\ UNCHANGED <<world, loop, past>>
  BY DEF Begin, Goes
<1>2. TypeOK'
  BY <1>1, DelaysAreAges DEF Inv, TypeOK, world, loop, past, Ages, Stages
<1>3. OrdersAreOver'
  BY <1>1 DEF Inv, TypeOK, OrdersAreOver, world, Ages
<1> QED
  BY <1>1, <1>2, <1>3 DEF world, loop, past, Inv, OrdersAreYoung, UptimeTells,
     SeenTells, Waiting, NobodyLeft, OneAtATime, Settling

LEMMA DrainKeeps == Inv /\ Drain => Inv'
<1> SUFFICES ASSUME Inv, Drain PROVE Inv'
  OBVIOUS
<1>1. /\ stage = "draining" /\ stage' = IF cancelled THEN "idle" ELSE "finding"
      /\ waited' = 0 /\ UNCHANGED <<world, loop, past>>
      /\ cancelled \/ waited >= PauseBeforeRestart
  BY DEF Drain, Goes, Slept
<1>2. TypeOK'
  BY <1>1, DelaysAreAges DEF Inv, TypeOK, world, loop, past, Ages, Stages
<1>3. OrdersAreOver'
  <2>1. CASE cancelled
    BY <1>1, <2>1 DEF OrdersAreOver
  <2>2. CASE ~cancelled
    <3>1. ASSUME NEW c \in Containers PROVE ordered[c] = Never
      <4>1. ordered[c] # Never => ordered[c] \in Ages /\ ordered[c] >= waited
                                  /\ ordered[c] <= StopGrace
        BY <1>1 DEF Inv, TypeOK, OrdersAreOver, OrdersAreYoung
      <4> QED
        BY <4>1, <2>2, <1>1, DelaysAreAges DEF Inv, TypeOK, Ages
    <3> QED
      BY <3>1, <1>1 DEF OrdersAreOver, world
  <2> QED
    BY <2>1, <2>2
<1> QED
  BY <1>1, <1>2, <1>3 DEF world, loop, past, Inv, OrdersAreYoung, UptimeTells,
     SeenTells, Waiting, NobodyLeft, OneAtATime, Settling

LEMMA FindFailsKeeps == Inv /\ FindFails => Inv'
<1> SUFFICES ASSUME Inv, FindFails PROVE Inv'
  OBVIOUS
<1>1. stage = "finding" /\ stage' = "idle" /\ waited' = 0 /\ UNCHANGED <<world, loop, past>>
  BY DEF FindFails, Goes
<1>2. TypeOK'
  BY <1>1, DelaysAreAges DEF Inv, TypeOK, world, loop, past, Ages, Stages
<1> QED
  BY <1>1, <1>2 DEF world, loop, past, Inv, OrdersAreYoung, OrdersAreOver, UptimeTells,
     SeenTells, Waiting, NobodyLeft, OneAtATime, Settling

\* Find sees no container whose restart is under way, so what it sees is no
\* older than the last order.
LEMMA FindKeeps == Inv /\ Find => Inv'
<1> SUFFICES ASSUME Inv, Find PROVE Inv'
  OBVIOUS
<1>1. PICK readable \in SUBSET Containers :
        seen' = [c \in Containers |-> IF c \in readable THEN uptime[c] ELSE Never]
  BY DEF Find
<1>2. /\ stage = "finding" /\ stage' = "next" /\ waited' = 0 /\ left' = Containers
      /\ UNCHANGED <<world, target, past>>
  BY DEF Find, Goes
<1>3. target = {}
  BY <1>2 DEF Inv, NobodyLeft
<1>4. TypeOK'
  <2>1. seen' \in [Containers -> Ages \cup {Never}]
    BY <1>1 DEF Inv, TypeOK
  <2> QED
    BY <2>1, <1>2, DelaysAreAges DEF Inv, TypeOK, world, past, Ages, Stages
<1>5. SeenTells'
  <2> SUFFICES ASSUME NEW c \in Containers, seen'[c] # Never, commanded'[c] # Never
               PROVE  seen'[c] <= commanded'[c]
    BY <1>2, <1>3 DEF SeenTells, Waiting
  <2>1. seen'[c] = uptime[c] /\ commanded'[c] = commanded[c] /\ ordered[c] = Never
    BY <1>1, <1>2 DEF Inv, OrdersAreOver, past
  <2> QED
    BY <2>1 DEF Inv, UptimeTells
<1> QED
  BY <1>2, <1>3, <1>4, <1>5 DEF world, past, Inv, OrdersAreYoung, OrdersAreOver,
     UptimeTells, NobodyLeft, OneAtATime, Settling

LEMMA NextTargetKeeps == Inv /\ NextTarget => Inv'
<1> SUFFICES ASSUME Inv, NextTarget PROVE Inv'
  OBVIOUS
<1>1. PICK c \in left : target' = {c} /\ left' = left \ {c}
  BY DEF NextTarget
<1>2. /\ stage = "next" /\ stage' = "deciding" /\ waited' = 0
      /\ UNCHANGED <<world, seen, past>>
  BY DEF NextTarget, Goes
<1>3. TypeOK'
  BY <1>1, <1>2, DelaysAreAges DEF Inv, TypeOK, world, past, Ages, Stages
<1>4. Waiting' \subseteq Waiting /\ left' \cap target' = {}
  BY <1>1, <1>2 DEF Waiting
<1>5. SeenTells'
  BY <1>2, <1>4 DEF Inv, SeenTells, past
<1>6. OneAtATime'
  BY <1>1, <1>4 DEF OneAtATime
<1> QED
  BY <1>2, <1>3, <1>5, <1>6 DEF world, past, Inv, OrdersAreYoung, OrdersAreOver,
     UptimeTells, NobodyLeft, Settling

LEMMA ResumeKeeps == Inv /\ Resume => Inv'
<1> SUFFICES ASSUME Inv, Resume PROVE Inv'
  OBVIOUS
<1>1. /\ stage = "next" /\ stage' = "idle" /\ waited' = 0 /\ left = {}
      /\ seen' = Nowhere /\ UNCHANGED <<world, left, target, past>>
  BY DEF Resume, Goes
<1>2. TypeOK'
  BY <1>1, DelaysAreAges DEF Inv, TypeOK, Nowhere, world, past, Ages, Stages
<1>3. SeenTells'
  BY <1>1 DEF SeenTells, Waiting
<1> QED
  BY <1>1, <1>2, <1>3 DEF world, past, Inv, OrdersAreYoung, OrdersAreOver,
     UptimeTells, NobodyLeft, OneAtATime, Settling

\* A turn that ends without a confirmed restart, or after its settling.
LEMMA OneDoneKeeps ==
  ASSUME Inv, OneDone, stage \in {"deciding", "migrating", "calling", "settling"},
         stage = "settling" => cancelled \/ waited >= SettleAfterRestart,
         UNCHANGED <<world, past>>
  PROVE  Inv'
<1>1. stage' = "next" /\ waited' = 0 /\ target' = {} /\ UNCHANGED <<seen, left>>
  BY DEF OneDone, Goes
<1>2. TypeOK'
  BY <1>1, DelaysAreAges DEF Inv, TypeOK, world, past, Ages, Stages
<1>3. Waiting' \subseteq Waiting
  BY <1>1 DEF Waiting
<1>4. SeenTells'
  BY <1>1, <1>3 DEF Inv, SeenTells, past
<1>5. Settling'
  BY <1>1 DEF Inv, Settling, world, past
<1> QED
  BY <1>1, <1>2, <1>4, <1>5 DEF world, past, Inv, OrdersAreYoung, OrdersAreOver,
     UptimeTells, NobodyLeft, OneAtATime

LEMMA TurnEndsKeeps ==
  Inv /\ (TooYoung \/ Refused \/ MigrationOver \/ CallFails \/ Settled) => Inv'
<1> SUFFICES ASSUME Inv, TooYoung \/ Refused \/ MigrationOver \/ CallFails \/ Settled
             PROVE  Inv'
  OBVIOUS
<1>1. /\ OneDone /\ UNCHANGED <<world, past>>
      /\ stage \in {"deciding", "migrating", "calling", "settling"}
      /\ stage = "settling" => cancelled \/ waited >= SettleAfterRestart
  BY DEF TooYoung, Refused, MigrationOver, CallFails, Settled, Slept
<1> QED
  BY <1>1, OneDoneKeeps

LEMMA MigratesKeeps == Inv /\ Migrates => Inv'
<1> SUFFICES ASSUME Inv, Migrates PROVE Inv'
  OBVIOUS
<1>1. /\ stage = "deciding" /\ stage' = "migrating" /\ waited' = 0
      /\ UNCHANGED <<world, loop, past>>
  BY DEF Migrates, Goes
<1>2. TypeOK'
  BY <1>1, DelaysAreAges DEF Inv, TypeOK, world, loop, past, Ages, Stages
<1>3. SeenTells'
  BY <1>1 DEF Inv, SeenTells, Waiting, loop, past
<1> QED
  BY <1>1, <1>2, <1>3 DEF world, loop, past, Inv, OrdersAreYoung, OrdersAreOver,
     UptimeTells, NobodyLeft, OneAtATime, Settling

\* The order for one container says nothing about those that still wait.
LEMMA CallKeeps == Inv /\ Call => Inv'
<1> SUFFICES ASSUME Inv, Call PROVE Inv'
  OBVIOUS
<1>1. PICK c \in target :
        /\ ordered' = [ordered EXCEPT ![c] = IF ordered[c] = Never THEN 0 ELSE ordered[c]]
        /\ commanded' = [commanded EXCEPT ![c] = 0]
  BY DEF Call
<1>2. /\ stage = "deciding" /\ stage' = "calling" /\ waited' = 0
      /\ UNCHANGED <<uptime, cancelled, loop, confirmed>>
  BY DEF Call, Goes
<1>3. /\ c \in Containers /\ c \notin left
      /\ ordered \in [Containers -> Ages \cup {Never}]
      /\ commanded \in [Containers -> Ages \cup {Never}]
  BY DEF Inv, TypeOK, OneAtATime
<1>4. /\ ordered'[c] = IF ordered[c] = Never THEN 0 ELSE ordered[c]
      /\ ordered'[c] # Never
      /\ \A d \in Containers \ {c} : ordered'[d] = ordered[d] /\ commanded'[d] = commanded[d]
  BY <1>1, <1>3, DelaysAreAges
<1>5. TypeOK'
  <2>1. 0 \in Ages
    BY DelaysAreAges DEF Ages
  <2>2. /\ ordered' \in [Containers -> Ages \cup {Never}]
        /\ commanded' \in [Containers -> Ages \cup {Never}]
    BY <1>1, <1>3, <2>1
  <2> QED
    BY <1>2, <2>1, <2>2 DEF Inv, TypeOK, loop, Stages
<1>6. OrdersAreYoung'
  BY <1>3, <1>4, DelaysAreAges DEF Inv, OrdersAreYoung, Ages
<1>7. UptimeTells'
  BY <1>2, <1>3, <1>4 DEF Inv, UptimeTells
<1>8. SeenTells'
  <2>1. Waiting' \subseteq Waiting \ {c}
    BY <1>2, <1>3 DEF Waiting, loop
  <2>2. Waiting \subseteq Containers
    BY DEF Inv, TypeOK, Waiting
  <2> QED
    BY <2>1, <2>2, <1>2, <1>4 DEF Inv, SeenTells, loop
<1> QED
  BY <1>2, <1>5, <1>6, <1>7, <1>8
  DEF Inv, OrdersAreOver, NobodyLeft, OneAtATime, Settling, loop

LEMMA ConfirmedKeeps == Inv /\ Confirmed => Inv'
<1> SUFFICES ASSUME Inv, Confirmed PROVE Inv'
  OBVIOUS
<1>1. /\ stage = "calling" /\ stage' = "settling" /\ waited' = 0 /\ confirmed' = 0
      /\ UNCHANGED <<world, loop, commanded>>
  BY DEF Confirmed, Goes
<1>2. TypeOK'
  BY <1>1, DelaysAreAges DEF Inv, TypeOK, world, loop, Ages, Stages
<1>3. SeenTells'
  BY <1>1 DEF Inv, SeenTells, Waiting, loop
<1> QED
  BY <1>1, <1>2, <1>3 DEF world, loop, Inv, OrdersAreYoung, OrdersAreOver,
     UptimeTells, NobodyLeft, OneAtATime, Settling

-----------------------------------------------------------------------------

LEMMA NextInv == Inv /\ [Next]_vars => Inv'
<1> SUFFICES ASSUME Inv, [Next]_vars PROVE Inv'
  OBVIOUS
<1>1. CASE Tick
  BY <1>1, TickKeeps
<1>2. CASE Cancel
  BY <1>2, CancelKeeps
<1>3. CASE \E c \in Containers : Restarted(c) \/ Crashed(c)
  BY <1>3, WorldKeeps
<1>4. CASE Begin
  BY <1>4, BeginKeeps
<1>5. CASE Drain
  BY <1>5, DrainKeeps
<1>6. CASE FindFails
  BY <1>6, FindFailsKeeps
<1>7. CASE Find
  BY <1>7, FindKeeps
<1>8. CASE NextTarget
  BY <1>8, NextTargetKeeps
<1>9. CASE Resume
  BY <1>9, ResumeKeeps
<1>10. CASE TooYoung \/ Refused \/ MigrationOver \/ CallFails \/ Settled
  BY <1>10, TurnEndsKeeps
<1>11. CASE Migrates
  BY <1>11, MigratesKeeps
<1>12. CASE Call
  BY <1>12, CallKeeps
<1>13. CASE Confirmed
  BY <1>13, ConfirmedKeeps
<1>14. CASE UNCHANGED vars
  BY <1>14 DEF vars, world, loop, past, Inv, TypeOK, OrdersAreYoung, OrdersAreOver,
     UptimeTells, SeenTells, Waiting, NobodyLeft, OneAtATime, Settling
<1> QED
  BY <1>1, <1>2, <1>3, <1>4, <1>5, <1>6, <1>7, <1>8, <1>9, <1>10, <1>11, <1>12,
     <1>13, <1>14 DEF Next

LEMMA InvHolds == Spec => []Inv
  BY InitInv, NextInv, PTL DEF Spec

\* Ages, stages and the sets of containers keep their types.
THEOREM TypeCorrect == Spec => []TypeOK
<1>1. Inv => TypeOK
  BY DEF Inv
<1> QED
  BY <1>1, InvHolds, PTL

\* The minimum uptime keeps two restarts of one container apart, although
\* restartOne looks at a start time that Find read before other containers had
\* their turn (supervisor.go:341), and although a call may give up on a restart
\* that happens nevertheless (supervisor.go:373).
THEOREM RestartsKeepApart == Spec => RestartsAreSpaced
<1> DEFINE Spaced ==
      stage = "deciding" /\ stage' = "calling" =>
        \A c \in target :
          seen[c] # Never /\ commanded[c] # Never => commanded[c] >= MinUptime
<1>1. Inv /\ [Next]_vars => [Spaced]_vars
  <2> SUFFICES ASSUME Inv, Next, stage = "deciding", stage' = "calling",
                      NEW c \in target, seen[c] # Never, commanded[c] # Never
               PROVE  commanded[c] >= MinUptime
    BY DEF vars
  <2>1. Call
    BY DEF Next, Tick, Cancel, Restarted, Crashed, Begin, Drain, FindFails, Find,
           NextTarget, Resume, TooYoung, Migrates, MigrationOver, Refused, CallFails,
           Confirmed, Settled, OneDone, Goes
  <2>2. target = {c}
    BY DEF Inv, OneAtATime
  <2>3. seen[c] >= MinUptime
    BY <2>1, <2>2 DEF Call, OldEnough
  <2>4. c \in Containers /\ seen[c] <= commanded[c]
    BY DEF Inv, TypeOK, SeenTells, Waiting
  <2> QED
    BY <2>3, <2>4, DelaysAreAges DEF Inv, TypeOK, Ages
<1> QED
  BY <1>1, InvHolds, PTL DEF Spec, RestartsAreSpaced

\* Whatever becomes of the replicas after it, the last restart that the daemon
\* confirmed settles before the deferred resumeAll (supervisor.go:311, 385).
THEOREM ResumeComesLate == Spec => SettledBeforeResume
<1> DEFINE Late ==
      stage = "next" /\ stage' = "idle" /\ ~cancelled =>
        (confirmed # Never => confirmed >= SettleAfterRestart)
<1>1. Inv => Late
  BY DEF Inv, Settling
<1> QED
  BY <1>1, InvHolds, PTL DEF Spec, SettledBeforeResume
=============================================================================
