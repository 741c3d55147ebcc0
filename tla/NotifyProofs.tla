---------------------------- MODULE NotifyProofs ----------------------------
(****************************************************************************)
(* Theorems about Notify, for any services, windows, targets and numbers of *)
(* exchangers.  A target is waiting, being served, or settled: it has a     *)
(* copy, or it was given up.  For the throttle, what is left of the key and *)
(* the time since the last alert fill the window between them, as long as   *)
(* Redis answers and keeps its keys.                                        *)
(****************************************************************************)
EXTENDS Notify, TLAPS

\* Between two alerts nothing is left over from the one before.
Unused ==
  stage # "sending" =>
    /\ todo = {} /\ at = {} /\ failed = FALSE
    /\ copies = Zero /\ goodbyes = Zero /\ passed = {}

\* An alert on its way has a service.
Named == stage # "idle" => service \in Services

\* The target deliver is at does not get a second turn, and those whose turn
\* is to come have nothing yet.
Turns ==
  /\ todo \cap at = {}
  /\ \A t \in todo : copies[t] = 0
  /\ \A t \in at : copies[t] <= goodbyes[t]

\* Whoever has had a turn has a copy or was given up, and in the second case
\* the alert counts as failed.
Settled ==
  stage = "sending" =>
    \A t \in Targets \ (todo \cup at) :
      /\ copies[t] > 0 \/ t \in passed
      /\ failed = FALSE => copies[t] > 0

\* The key lives at least until the window of the last alert is over.
KeyCoversWindow ==
  \A s \in Services \ blind : slot[s] + age[s] >= Window[s]

Inv ==
  /\ TypeOK /\ Named /\ Unused /\ Turns /\ Settled /\ CopiesAreExplained
  /\ KeyCoversWindow

\* What a step does to the alert that is being sent; the rest is the throttle.
SendInv == Named /\ Unused /\ Turns /\ Settled /\ CopiesAreExplained

USE NotifyAssumption

LEMMA ZeroIsZero == Zero \in [Targets -> Nat] /\ \A t \in Targets : Zero[t] = 0
  BY DEF Zero

LEMMA InitInv == Init => Inv
<1> SUFFICES ASSUME Init PROVE Inv
  OBVIOUS
<1>1. TypeOK
  <2>1. slot \in [Services -> Nat] /\ age \in [Services -> Nat]
    BY DEF Init
  <2>2. \A s \in Services : slot[s] \in 0..Window[s] /\ age[s] \in 0..Window[s]
    BY DEF Init
  <2> QED
    BY <2>1, <2>2, ZeroIsZero DEF Init, TypeOK
<1>2. Named /\ Unused /\ Turns /\ Settled
  BY ZeroIsZero DEF Init, Named, Unused, Turns, Settled
<1>3. CopiesAreExplained
  BY ZeroIsZero DEF Init, CopiesAreExplained
<1>4. KeyCoversWindow
  BY DEF Init, KeyCoversWindow
<1> QED
  BY <1>1, <1>2, <1>3, <1>4 DEF Inv

-----------------------------------------------------------------------------
(* The throttle: Redis, time, Reserve *)

LEMMA TickKeeps == Inv /\ Tick => Inv'
<1> SUFFICES ASSUME Inv, Tick PROVE Inv'
  OBVIOUS
<1>1. UNCHANGED <<memory, blind>>
  BY DEF Tick
<1>2. \A s \in Services :
        /\ slot'[s] \in 0..Window[s] /\ age'[s] \in 0..Window[s]
        /\ slot[s] + age[s] >= Window[s] => slot'[s] + age'[s] >= Window[s]
  BY DEF Inv, TypeOK, Tick
<1>3. slot' \in [Services -> Nat] /\ age' \in [Services -> Nat]
  BY DEF Inv, TypeOK, Tick
<1>4. TypeOK'
  BY <1>1, <1>2, <1>3 DEF Inv, TypeOK, memory
<1>5. KeyCoversWindow'
  BY <1>1, <1>2 DEF Inv, KeyCoversWindow
<1> QED
  BY <1>1, <1>4, <1>5
  DEF Inv, Named, Unused, Turns, Settled, CopiesAreExplained, memory

LEMMA ForgettingKeeps == Inv /\ RedisForgets => Inv'
<1> SUFFICES ASSUME Inv, RedisForgets PROVE Inv'
  OBVIOUS
<1>1. TypeOK'
  BY DEF Inv, TypeOK, RedisForgets, memory
<1>2. KeyCoversWindow'
  BY DEF RedisForgets, KeyCoversWindow
<1> QED
  BY <1>1, <1>2
  DEF Inv, Named, Unused, Turns, Settled, CopiesAreExplained, RedisForgets, memory

\* An alert that ends, or is dropped, leaves everything as at the beginning.
LEMMA NothingIsLeft ==
  ASSUME Inv, Fresh, stage' = "idle", service' = NoService, UNCHANGED <<slot, age, blind>>
  PROVE  Inv'
<1>1. TypeOK'
  BY ZeroIsZero DEF Inv, TypeOK, Fresh
<1>2. Named' /\ Unused' /\ Turns' /\ Settled'
  BY ZeroIsZero DEF Fresh, Named, Unused, Turns, Settled
<1>3. CopiesAreExplained'
  BY ZeroIsZero DEF Fresh, CopiesAreExplained
<1>4. KeyCoversWindow'
  BY DEF Inv, KeyCoversWindow
<1> QED
  BY <1>1, <1>2, <1>3, <1>4 DEF Inv

LEMMA SuppressedKeeps == Inv /\ Suppressed => Inv'
<1> SUFFICES ASSUME Inv, Suppressed PROVE Inv'
  OBVIOUS
<1>1. stage = "reserving" /\ stage' = "idle" /\ service' = NoService
  BY DEF Suppressed
<1>2. UNCHANGED <<slot, age, blind, todo, at, hosts, failed, copies, goodbyes, passed>>
  BY DEF Suppressed
<1> QED
  BY <1>1, <1>2
  DEF Inv, TypeOK, Named, Unused, Turns, Settled, CopiesAreExplained, KeyCoversWindow

\* SendOut gives everybody a turn, and starts the window.
LEMMA SendOutKeeps ==
  ASSUME Inv, stage # "sending", NEW s \in Services, SendOut(s)
  PROVE  /\ SendInv'
         /\ stage' = "sending" /\ service' = s /\ age' = [age EXCEPT ![s] = 0]
         /\ todo' = Targets
         /\ UNCHANGED <<at, hosts, failed, copies, goodbyes, passed>>
<1>1. /\ stage' = "sending" /\ service' = s /\ age' = [age EXCEPT ![s] = 0]
      /\ todo' = Targets
      /\ UNCHANGED <<at, hosts, failed, copies, goodbyes, passed>>
  BY DEF SendOut
<1>2. at = {} /\ copies = Zero /\ goodbyes = Zero
  BY DEF Inv, Unused
<1>3. Named' /\ Unused' /\ Turns' /\ Settled'
  BY <1>1, <1>2, ZeroIsZero DEF Named, Unused, Turns, Settled
<1>4. CopiesAreExplained'
  BY <1>1 DEF Inv, CopiesAreExplained
<1> QED
  BY <1>1, <1>3, <1>4 DEF SendInv

\* Dispatch, with or without a throttle.
LEMMA DispatchKeeps == ASSUME Inv, NEW s \in Services, Dispatch(s) PROVE Inv'
<1>1. stage = "idle" /\ UNCHANGED <<slot, blind>>
  BY DEF Dispatch
<1>2. CASE /\ stage' = "reserving" /\ service' = s
           /\ UNCHANGED <<todo, at, hosts, failed, copies, goodbyes, passed, age>>
  <2>1. TypeOK'
    BY <1>1, <1>2 DEF Inv, TypeOK
  <2> QED
    BY <1>1, <1>2, <2>1
    DEF Inv, Named, Unused, Turns, Settled, CopiesAreExplained, KeyCoversWindow
<1>3. CASE Window[s] = 0 /\ SendOut(s)
  <2>1. /\ SendInv' /\ stage' = "sending" /\ service' = s
        /\ age' = [age EXCEPT ![s] = 0] /\ todo' = Targets
        /\ UNCHANGED <<at, hosts, failed, copies, goodbyes, passed>>
    BY <1>1, <1>3, SendOutKeeps
  <2>2. TypeOK'
    BY <1>1, <2>1 DEF Inv, TypeOK
  <2>3. KeyCoversWindow'
    BY <1>1, <1>3, <2>1 DEF Inv, TypeOK, KeyCoversWindow
  <2> QED
    BY <2>1, <2>2, <2>3 DEF Inv, SendInv
<1> QED
  BY <1>2, <1>3 DEF Dispatch

LEMMA ReservedKeeps == Inv /\ Reserved => Inv'
<1> SUFFICES ASSUME Inv, Reserved PROVE Inv'
  OBVIOUS
<1>1. PICK s \in Services : s = service
  BY DEF Inv, Named, Reserved
<1>2. /\ stage = "reserving" /\ SendOut(s)
      /\ slot' = [slot EXCEPT ![s] = Window[s]] /\ blind' = blind \ {s}
  BY <1>1 DEF Reserved
<1>3. /\ SendInv' /\ stage' = "sending" /\ service' = s
      /\ age' = [age EXCEPT ![s] = 0] /\ todo' = Targets
      /\ UNCHANGED <<at, hosts, failed, copies, goodbyes, passed>>
  BY <1>2, SendOutKeeps
<1>4. TypeOK'
  BY <1>2, <1>3 DEF Inv, TypeOK
<1>5. KeyCoversWindow'
  BY <1>2, <1>3 DEF Inv, TypeOK, KeyCoversWindow
<1> QED
  BY <1>3, <1>4, <1>5 DEF Inv, SendInv

LEMMA ReserveFailsKeeps == Inv /\ ReserveFails => Inv'
<1> SUFFICES ASSUME Inv, ReserveFails PROVE Inv'
  OBVIOUS
<1>1. PICK s \in Services : s = service
  BY DEF Inv, Named, ReserveFails
<1>2. /\ stage = "reserving" /\ SendOut(s) /\ blind' = blind \cup {s}
      /\ slot' \in {slot, [slot EXCEPT ![s] = IF slot[s] = 0 THEN Window[s] ELSE slot[s]]}
  BY <1>1 DEF ReserveFails
<1>3. /\ SendInv' /\ stage' = "sending" /\ service' = s
      /\ age' = [age EXCEPT ![s] = 0] /\ todo' = Targets
      /\ UNCHANGED <<at, hosts, failed, copies, goodbyes, passed>>
  BY <1>2, SendOutKeeps
<1>4. slot' \in [Services -> Nat] /\ \A r \in Services : slot'[r] \in 0..Window[r]
  <2>1. CASE slot' = slot
    BY <2>1 DEF Inv, TypeOK
  <2>2. CASE slot' = [slot EXCEPT ![s] = IF slot[s] = 0 THEN Window[s] ELSE slot[s]]
    <3>1. slot[s] \in Nat /\ Window[s] \in Nat
      BY DEF Inv, TypeOK
    <3>2. (IF slot[s] = 0 THEN Window[s] ELSE slot[s]) \in 0..Window[s]
      BY <3>1 DEF Inv, TypeOK
    <3> QED
      BY <2>2, <3>1, <3>2 DEF Inv, TypeOK
  <2> QED
    BY <1>2, <2>1, <2>2
<1>5. TypeOK'
  <2>1. age' \in [Services -> Nat] /\ \A r \in Services : age'[r] \in 0..Window[r]
    BY <1>3 DEF Inv, TypeOK
  <2>2. /\ blind' \subseteq Services /\ service' \in Services /\ stage' = "sending"
        /\ todo' \subseteq Targets
    BY <1>2, <1>3 DEF Inv, TypeOK
  <2> QED
    BY <1>3, <1>4, <2>1, <2>2 DEF Inv, TypeOK
<1>6. KeyCoversWindow'
  BY <1>2, <1>3 DEF Inv, TypeOK, KeyCoversWindow
<1> QED
  BY <1>3, <1>5, <1>6 DEF Inv, SendInv

-----------------------------------------------------------------------------
(* The fan-out: one target after the other *)

\* Steps of the fan-out leave the throttle alone.
LEMMA OnlyTheAlertMoves ==
  ASSUME Inv, SendInv', UNCHANGED <<slot, age, blind, stage, service>>,
         todo' \subseteq Targets, at' \subseteq Targets, hosts' \in Nat,
         failed' \in BOOLEAN, passed' \subseteq Targets,
         copies' \in [Targets -> Nat], goodbyes' \in [Targets -> Nat]
  PROVE  Inv'
<1>1. TypeOK'
  BY DEF Inv, TypeOK
<1>2. KeyCoversWindow'
  BY DEF Inv, KeyCoversWindow
<1> QED
  BY <1>1, <1>2 DEF Inv, SendInv

LEMMA NextTargetKeeps == Inv /\ NextTarget => Inv'
<1> SUFFICES ASSUME Inv, NextTarget PROVE Inv'
  OBVIOUS
<1>1. PICK t \in todo : at' = {t} /\ todo' = todo \ {t} /\ hosts' = Exchangers[t]
  BY DEF NextTarget
<1>2. /\ stage = "sending" /\ at = {}
      /\ UNCHANGED <<slot, age, blind, stage, service, failed, copies, goodbyes, passed>>
  BY DEF NextTarget
<1>3. t \in Targets /\ hosts' \in Nat
  BY <1>1 DEF Inv, TypeOK
<1>4. todo' \cup at' = todo \cup at
  BY <1>1, <1>2
<1>5. Turns'
  BY <1>1, <1>2, <1>3 DEF Inv, TypeOK, Turns
<1>6. Settled'
  BY <1>2, <1>4 DEF Inv, Settled
<1>7. SendInv'
  BY <1>2, <1>5, <1>6 DEF Inv, SendInv, Named, Unused, CopiesAreExplained
<1> QED
  BY <1>1, <1>2, <1>3, <1>7, OnlyTheAlertMoves DEF Inv, TypeOK

\* A target that is given up counts as failed, whether it has a copy or not.
LEMMA TargetLostKeeps ==
  ASSUME Inv, stage = "sending", TargetLost,
         UNCHANGED <<slot, age, blind, stage, service, copies, goodbyes>>,
         passed' = passed \cup at
  PROVE  Inv'
<1>1. failed' = TRUE /\ at' = {} /\ hosts' = 0 /\ todo' = todo
  BY DEF TargetLost
<1>2. Turns'
  BY <1>1 DEF Inv, Turns
<1>3. Settled'
  BY <1>1 DEF Inv, Settled
<1>4. SendInv'
  BY <1>1, <1>2, <1>3 DEF Inv, SendInv, Named, Unused, CopiesAreExplained
<1> QED
  BY <1>1, <1>4, OnlyTheAlertMoves DEF Inv, TypeOK

LEMMA LookupFailsKeeps == Inv /\ LookupFails => Inv'
  BY TargetLostKeeps DEF LookupFails

LEMMA RefusedKeeps == Inv /\ Refused => Inv'
<1> SUFFICES ASSUME Inv, Refused PROVE Inv'
  OBVIOUS
<1>1. stage = "sending" /\ UNCHANGED <<slot, age, blind, stage, service, copies, goodbyes>>
  BY DEF Refused
<1>2. CASE hosts > 1 /\ hosts' = hosts - 1 /\ UNCHANGED <<todo, at, failed, passed>>
  <2>1. hosts' \in Nat
    BY <1>2 DEF Inv, TypeOK
  <2>2. SendInv'
    BY <1>1, <1>2 DEF Inv, SendInv, Named, Unused, Turns, Settled, CopiesAreExplained
  <2> QED
    BY <1>1, <1>2, <2>1, <2>2, OnlyTheAlertMoves DEF Inv, TypeOK
<1>3. CASE TargetLost /\ passed' = passed \cup at
  BY <1>1, <1>3, TargetLostKeeps
<1> QED
  BY <1>2, <1>3 DEF Refused

\* What a message that was taken does to the count of copies.
LEMMA TakenCounts ==
  ASSUME Inv, Taken
  PROVE  /\ copies' \in [Targets -> Nat]
         /\ \A t \in Targets : copies'[t] = IF t \in at THEN copies[t] + 1 ELSE copies[t]
  BY DEF Inv, TypeOK, Taken

LEMMA TakenButFailedKeeps == Inv /\ TakenButFailed => Inv'
<1> SUFFICES ASSUME Inv, TakenButFailed PROVE Inv'
  OBVIOUS
<1>1. /\ stage = "sending" /\ Taken
      /\ UNCHANGED <<slot, age, blind, stage, service, passed>>
      /\ goodbyes' = [t \in Targets |-> IF t \in at THEN goodbyes[t] + 1 ELSE goodbyes[t]]
  BY DEF TakenButFailed
<1>2. /\ copies' \in [Targets -> Nat]
      /\ \A t \in Targets : copies'[t] = IF t \in at THEN copies[t] + 1 ELSE copies[t]
  BY <1>1, TakenCounts
<1>3. /\ goodbyes' \in [Targets -> Nat]
      /\ \A t \in Targets : goodbyes'[t] = IF t \in at THEN goodbyes[t] + 1 ELSE goodbyes[t]
  BY <1>1 DEF Inv, TypeOK
<1>4. /\ at' \in {at, {}}
      /\ todo' = todo /\ hosts' \in Nat /\ failed' \in BOOLEAN
      /\ failed' = FALSE => failed = FALSE
  <2>1. CASE hosts > 1 /\ hosts' = hosts - 1 /\ UNCHANGED <<todo, at, failed>>
    <3>1. hosts' \in Nat
      BY <2>1 DEF Inv, TypeOK
    <3>2. failed' \in BOOLEAN
      BY <2>1, Zenon DEF Inv, TypeOK
    <3>3. at' = at /\ todo' = todo /\ failed' = failed
      BY <2>1
    <3> QED
      BY <3>1, <3>2, <3>3, Zenon
  <2>2. CASE hosts = 1 /\ TargetLost
    BY <2>2 DEF TargetLost
  <2> QED
    BY <2>1, <2>2 DEF TakenButFailed
<1>5. Turns'
  BY <1>2, <1>3, <1>4 DEF Inv, TypeOK, Turns
<1>6. Settled'
  <2> SUFFICES ASSUME NEW t \in Targets, t \notin todo \cup at'
               PROVE  /\ copies'[t] > 0 \/ t \in passed
                      /\ failed' = FALSE => copies'[t] > 0
    BY <1>1, <1>4 DEF Settled
  <2>1. CASE t \in at
    BY <2>1, <1>2 DEF Inv, TypeOK
  <2>2. CASE t \notin at
    BY <2>2, <1>1, <1>2, <1>4 DEF Inv, Settled
  <2> QED
    BY <2>1, <2>2
<1>7. CopiesAreExplained'
  BY <1>2, <1>3 DEF Inv, TypeOK, CopiesAreExplained
<1>8. SendInv'
  BY <1>1, <1>5, <1>6, <1>7 DEF Inv, SendInv, Named, Unused
<1>9. at' \subseteq Targets
  BY <1>4 DEF Inv, TypeOK
<1> QED
  BY <1>1, <1>2, <1>3, <1>4, <1>8, <1>9, OnlyTheAlertMoves DEF Inv, TypeOK

LEMMA DeliveredKeeps == Inv /\ Delivered => Inv'
<1> SUFFICES ASSUME Inv, Delivered PROVE Inv'
  OBVIOUS
<1>1. /\ stage = "sending" /\ Taken /\ at' = {} /\ hosts' = 0
      /\ UNCHANGED <<slot, age, blind, stage, service, todo, failed, goodbyes, passed>>
  BY DEF Delivered
<1>2. /\ copies' \in [Targets -> Nat]
      /\ \A t \in Targets : copies'[t] = IF t \in at THEN copies[t] + 1 ELSE copies[t]
  BY <1>1, TakenCounts
<1>3. Turns'
  BY <1>1, <1>2 DEF Inv, TypeOK, Turns
<1>4. Settled'
  <2> SUFFICES ASSUME NEW t \in Targets, t \notin todo
               PROVE  /\ copies'[t] > 0 \/ t \in passed
                      /\ failed = FALSE => copies'[t] > 0
    BY <1>1 DEF Settled
  <2>1. CASE t \in at
    BY <2>1, <1>2 DEF Inv, TypeOK
  <2>2. CASE t \notin at
    BY <2>2, <1>1, <1>2 DEF Inv, Settled
  <2> QED
    BY <2>1, <2>2
<1>5. CopiesAreExplained'
  BY <1>1, <1>2 DEF Inv, TypeOK, Turns, CopiesAreExplained
<1>6. SendInv'
  BY <1>1, <1>3, <1>4, <1>5 DEF Inv, SendInv, Named, Unused
<1> QED
  BY <1>1, <1>2, <1>6, OnlyTheAlertMoves DEF Inv, TypeOK

-----------------------------------------------------------------------------

LEMMA NextInv == Inv /\ [Next]_vars => Inv'
<1> SUFFICES ASSUME Inv, [Next]_vars PROVE Inv'
  OBVIOUS
<1>1. CASE Tick
  BY <1>1, TickKeeps
<1>2. CASE RedisForgets
  BY <1>2, ForgettingKeeps
<1>3. CASE Restarts
  BY <1>3, NothingIsLeft DEF Restarts
<1>4. CASE \E s \in Services : Dispatch(s)
  BY <1>4, DispatchKeeps
<1>5. CASE Reserved
  BY <1>5, ReservedKeeps
<1>6. CASE Suppressed
  BY <1>6, SuppressedKeeps
<1>7. CASE ReserveFails
  BY <1>7, ReserveFailsKeeps
<1>8. CASE NextTarget
  BY <1>8, NextTargetKeeps
<1>9. CASE LookupFails
  BY <1>9, LookupFailsKeeps
<1>10. CASE Refused
  BY <1>10, RefusedKeeps
<1>11. CASE TakenButFailed
  BY <1>11, TakenButFailedKeeps
<1>12. CASE Delivered
  BY <1>12, DeliveredKeeps
<1>13. CASE Return
  BY <1>13, NothingIsLeft DEF Return
<1>14. CASE UNCHANGED vars
  BY <1>14 DEF vars, memory, Inv, TypeOK, Named, Unused, Turns, Settled,
               CopiesAreExplained, KeyCoversWindow
<1> QED
  BY <1>1, <1>2, <1>3, <1>4, <1>5, <1>6, <1>7, <1>8, <1>9, <1>10, <1>11, <1>12,
     <1>13, <1>14 DEF Next

LEMMA InvHolds == Spec => []Inv
  BY InitInv, NextInv, PTL DEF Spec

\* The variables of the throttle and of Multi.Send keep their types.
THEOREM TypeCorrect == Spec => []TypeOK
<1>1. Inv => TypeOK
  BY DEF Inv
<1> QED
  BY <1>1, InvHolds, PTL

\* Multi.Send gives every target its turn: whatever fails before, each one ends
\* with a copy or has itself refused at all its exchangers.
THEOREM Containment == Spec => []FailureIsContained
<1>1. Inv => FailureIsContained
  BY DEF Inv, Settled, SentOut, FailureIsContained
<1> QED
  BY <1>1, InvHolds, PTL

\* Send returns nil only when everybody has a copy.
THEOREM SentIsTrue == Spec => []SentMeansEverybody
<1>1. Inv => SentMeansEverybody
  BY DEF Inv, TypeOK, Settled, SentOut, SentMeansEverybody
<1> QED
  BY <1>1, InvHolds, PTL

\* A second copy comes only from an exchanger that took the message and broke
\* off: deliver ends with the first that takes it and says so.
THEOREM CopiesAreAccountedFor == Spec => []CopiesAreExplained
<1>1. Inv => CopiesAreExplained
  BY DEF Inv
<1> QED
  BY <1>1, InvHolds, PTL

\* The throttle: SET NX EX claims the window before anything is sent, so two
\* alerts of a service are a window apart, also across restarts.
THEOREM ThrottleHolds == Spec => OnePerWindow
<1> DEFINE Apart ==
      stage = "reserving" /\ stage' = "sending" /\ service \notin blind \cup blind'
        => age[service] = Window[service]
<1>1. Inv /\ [Next]_vars => [Apart]_vars
  <2> SUFFICES ASSUME Inv, Next, stage = "reserving", stage' = "sending",
                      service \notin blind \cup blind'
               PROVE  age[service] = Window[service]
    BY DEF vars
  <2>1. service \in Services
    BY DEF Inv, Named
  <2>2. slot[service] + age[service] >= Window[service]
    BY <2>1 DEF Inv, KeyCoversWindow
  <2>3. Reserved \/ ReserveFails
    BY DEF Next, Tick, RedisForgets, Restarts, Dispatch, Suppressed, NextTarget,
           LookupFails, Refused, TakenButFailed, Delivered, Return, memory
  <2>4. slot[service] = 0
    BY <2>3 DEF Reserved, ReserveFails
  <2> QED
    BY <2>1, <2>2, <2>4 DEF Inv, TypeOK
<1> QED
  BY <1>1, InvHolds, PTL DEF Spec, OnePerWindow
=============================================================================
