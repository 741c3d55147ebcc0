---------------------------- MODULE BudgetProofs ----------------------------
(****************************************************************************)
(* Theorems about Tracker, the error budget, for every budget and weight,   *)
(* and about Bans, the probe that spends one, for any addresses, budget and *)
(* channel: its invariants, and that it keeps Incidents' ledger.            *)
(****************************************************************************)
EXTENDS Tracker, Bans, TLAPS

-----------------------------------------------------------------------------
(* The arithmetic of the error budget.                                      *)

\* What \div and % are, in the form the solvers can use.
LEMMA DivMod ==
  ASSUME NEW a \in Nat, NEW b \in Nat \ {0}
  PROVE  /\ a \div b \in Nat /\ a % b \in 0..(b - 1)
         /\ a = b * (a \div b) + (a % b)
OBVIOUS

\* A quotient is determined by the interval its dividend is in.
LEMMA DivUnique ==
  ASSUME NEW a \in Nat, NEW b \in Nat \ {0}, NEW q \in Nat,
         b * q <= a, a < b * (q + 1)
  PROVE  a \div b = q
<1> DEFINE p == a \div b
<1>1. p \in Nat /\ b * p <= a /\ a < b * (p + 1)
  BY DivMod
<1>2. p < q + 1
  BY <1>1
<1>3. q < p + 1
  BY <1>1
<1>4. QED
  BY <1>1, <1>2, <1>3

\* The two divisions and the remainder of Percent (health.go:186), worked out:
\* the level is the quotient of 100*c, plus one if what is left is half or more.
LEMMA PercentByCases ==
  ASSUME NEW t \in Nat \ {0}, NEW c \in Nat
  PROVE  \E y \in Nat, s \in Nat :
           /\ 100 * c = t * y + s /\ s < t
           /\ Percent(c, t) = IF 2 * s < t THEN y ELSE y + 1
<1> DEFINE y == (100 * c) \div t
           s == (100 * c) % t
           x == (200 * c) \div t
<1>1. y \in Nat /\ s \in Nat /\ s < t /\ 100 * c = t * y + s
  <2>1. 100 * c \in Nat
    OBVIOUS
  <2>2. QED
    BY <2>1, DivMod
<1>2. 200 * c = 2 * (t * y) + 2 * s /\ 200 * c \in Nat /\ t * y \in Nat
  BY <1>1
<1>3. Percent(c, t) = (x % 2) + y
  BY DEF Percent, AtLeastZero
<1> HIDE DEF y, s, x
<1>4. x = IF 2 * s < t THEN 2 * y ELSE 2 * y + 1
  <2>1. /\ t * (2 * y) = 2 * (t * y)
        /\ t * (2 * y + 1) = 2 * (t * y) + t
        /\ t * ((2 * y + 1) + 1) = 2 * (t * y) + 2 * t
    BY <1>1
  <2>2. CASE 2 * s < t
    <3>1. t * (2 * y) <= 200 * c /\ 200 * c < t * (2 * y + 1)
      BY <2>1, <1>1, <1>2, <2>2
    <3>2. 2 * y \in Nat
      BY <1>1
    <3>3. (200 * c) \div t = 2 * y
      BY <3>1, <3>2, <1>2, DivUnique
    <3>4. QED
      BY <3>3, <2>2 DEF x
  <2>3. CASE ~(2 * s < t)
    <3>1. t * (2 * y + 1) <= 200 * c /\ 200 * c < t * ((2 * y + 1) + 1)
      BY <2>1, <1>1, <1>2, <2>3
    <3>2. 2 * y + 1 \in Nat
      BY <1>1
    <3>3. (200 * c) \div t = 2 * y + 1
      BY <3>1, <3>2, <1>2, DivUnique
    <3>4. QED
      BY <3>3, <2>3 DEF x
  <2>4. QED
    BY <2>2, <2>3
<1>5. (2 * y) % 2 = 0 /\ (2 * y + 1) % 2 = 1
  BY <1>1
<1>6. Percent(c, t) = IF 2 * s < t THEN y ELSE y + 1
  <2>1. CASE 2 * s < t
    <3>1. x % 2 = 0
      BY <2>1, <1>4, <1>5
    <3>2. QED
      BY <3>1, <2>1, <1>3, <1>1
  <2>2. CASE ~(2 * s < t)
    <3>1. x % 2 = 1
      BY <2>2, <1>4, <1>5
    <3>2. QED
      BY <3>1, <2>2, <1>3, <1>1
  <2>3. QED
    BY <2>1, <2>2
<1>7. QED
  BY <1>1, <1>6, Zenon

\* Percent is the percentage rounded half up, for every level and budget.
THEOREM PercentRoundsHalfUp ==
  ASSUME NEW t \in Nat \ {0}, NEW c \in Nat
  PROVE  Percent(c, t) = (200 * c + t) \div (2 * t)
<1>1. PICK y \in Nat, s \in Nat :
        /\ 100 * c = t * y + s /\ s < t
        /\ Percent(c, t) = IF 2 * s < t THEN y ELSE y + 1
  BY PercentByCases
<1>2. 200 * c + t = 2 * (t * y) + 2 * s + t /\ t * y \in Nat
  BY <1>1
<1>3. 200 * c + t \in Nat /\ 2 * t \in Nat \ {0}
  OBVIOUS
<1>4. CASE 2 * s < t
  <2>1. (2 * t) * y = 2 * (t * y) /\ (2 * t) * (y + 1) = 2 * (t * y) + 2 * t
    OBVIOUS
  <2>2. (2 * t) * y <= 200 * c + t /\ 200 * c + t < (2 * t) * (y + 1)
    BY <1>1, <1>2, <1>4, <2>1
  <2>3. (200 * c + t) \div (2 * t) = y
    BY <1>1, <1>3, <2>2, DivUnique
  <2>4. QED
    BY <1>1, <1>4, <2>3
<1>5. CASE ~(2 * s < t)
  <2>1. (2 * t) * (y + 1) = 2 * (t * y) + 2 * t
        /\ (2 * t) * ((y + 1) + 1) = 2 * (t * y) + 4 * t
    OBVIOUS
  <2>2. (2 * t) * (y + 1) <= 200 * c + t /\ 200 * c + t < (2 * t) * ((y + 1) + 1)
    BY <1>1, <1>2, <1>5, <2>1
  <2>3. y + 1 \in Nat
    BY <1>1
  <2>4. (200 * c + t) \div (2 * t) = y + 1
    BY <1>3, <2>2, <2>3, DivUnique
  <2>5. QED
    BY <1>1, <1>5, <2>4
<1>6. QED
  BY <1>4, <1>5

\* The level of a budget that is not overdrawn is a percentage, and for a
\* budget of at most 200 points only an empty one shows as nothing.
LEMMA PercentRange ==
  ASSUME NEW t \in Nat \ {0}, NEW c \in 0..t
  PROVE  /\ Percent(c, t) \in 0..100
         /\ t <= MaxVisibleBudget => (Percent(c, t) = 0 <=> c = 0)
<1>1. PICK y \in Nat, s \in Nat :
        /\ 100 * c = t * y + s /\ s < t
        /\ Percent(c, t) = IF 2 * s < t THEN y ELSE y + 1
  <2>1. c \in Nat
    OBVIOUS
  <2>2. QED
    BY <2>1, PercentByCases
<1>2. Percent(c, t) \in Nat
  BY <1>1
<1>3. Percent(c, t) <= 100
  <2>1. y <= 100
    <3>1. t * y <= 100 * t
      BY <1>1
    <3>2. QED
      BY <3>1
  <2>2. y = 100 => s = 0
    BY <1>1
  <2>3. QED
    BY <1>1, <2>1, <2>2
<1>4. c = 0 => Percent(c, t) = 0
  <2>1. c = 0 => t * y = 0 /\ s = 0
    BY <1>1
  <2>2. QED
    BY <1>1, <2>1
<1>5. ASSUME Percent(c, t) = 0, t <= MaxVisibleBudget PROVE c = 0
  <2>1. y = 0 /\ 2 * s < t
    BY <1>1, <1>5
  <2>2. 200 * c < t
    BY <1>1, <2>1
  <2>3. QED
    BY <2>2, <1>5 DEF MaxVisibleBudget
<1>6. QED
  BY <1>2, <1>3, <1>4, <1>5

-----------------------------------------------------------------------------
\* The level comes from the snapshot's own health, and a round's result on its
\* way out is no better than what the tracker has left meanwhile.
TrackerInv ==
  /\ TrackerTypeOK
  /\ snap.level = Percent(snap.remaining, budget)
  /\ place = "publishing" => snap.remaining <= Remaining(budget, errCount)
  /\ NeverFlattered

LEMMA RemainingRange ==
  ASSUME NEW b \in Nat \ {0}, NEW e \in Nat
  PROVE  Remaining(b, e) \in 0..b
BY DEF Remaining, AtLeastZero

LEMMA RemainingGrows ==
  ASSUME NEW b \in Nat, NEW e \in Nat, NEW f \in Nat, f <= e
  PROVE  Remaining(b, e) <= Remaining(b, f)
BY DEF Remaining, AtLeastZero

LEMMA BudgetRange ==
  ASSUME NEW t \in Int
  PROVE  Budget(t) \in Nat \ {0}
BY DEF Budget

LEMMA SpendRange ==
  ASSUME NEW e \in Nat, NEW w \in Nat
  PROVE  Spend(e, w) \in Nat
BY DEF Spend, AtLeastZero

LEMMA RepayRange ==
  ASSUME NEW e \in Nat, NEW p \in Nat
  PROVE  Repay(e, p) \in Nat /\ Repay(e, p) <= e
BY DEF Repay, AtLeastZero

LEMMA SnapshotShape ==
  ASSUME budget \in Nat \ {0}, NEW e \in Nat, NEW d \in Int
  PROVE  /\ Snapshot(e, d) \in [remaining : 0..budget, trend : Int, level : 0..100]
         /\ Snapshot(e, d).remaining = Remaining(budget, e)
         /\ Snapshot(e, d).level = Percent(Snapshot(e, d).remaining, budget)
<1>1. Remaining(budget, e) \in 0..budget
  BY RemainingRange
<1>2. Percent(Remaining(budget, e), budget) \in 0..100
  BY <1>1, PercentRange
<1>3. QED
  BY <1>1, <1>2 DEF Snapshot

LEMMA TrackerInitInv == TrackerInit => TrackerInv
<1> SUFFICES ASSUME TrackerInit PROVE TrackerInv
  OBVIOUS
<1>1. budget \in Nat \ {0}
  BY TrackerAssumption, BudgetRange DEF TrackerInit
<1>2. Remaining(budget, 0) = budget
  BY <1>1 DEF Remaining, AtLeastZero
<1>3. snap = Snapshot(0, 0) /\ errCount = 0 /\ shown = budget /\ place = "probing"
  BY DEF TrackerInit
<1>4. /\ snap \in [remaining : 0..budget, trend : Int, level : 0..100]
      /\ snap.remaining = Remaining(budget, 0)
      /\ snap.level = Percent(snap.remaining, budget)
  <2>1. 0 \in Nat /\ 0 \in Int
    OBVIOUS
  <2>2. /\ Snapshot(0, 0) \in [remaining : 0..budget, trend : Int, level : 0..100]
        /\ Snapshot(0, 0).remaining = Remaining(budget, 0)
        /\ Snapshot(0, 0).level = Percent(Snapshot(0, 0).remaining, budget)
    BY <1>1, <2>1, SnapshotShape, Zenon
  <2>3. QED
    BY <1>3, <2>2, Zenon
<1>5. budget \in 0..budget
  BY <1>1
<1>6. QED
  BY <1>1, <1>2, <1>3, <1>4, <1>5 DEF TrackerInv, TrackerTypeOK, NeverFlattered

LEMMA TrackerNextInv == TrackerInv /\ [TrackerNext]_trackerVars => TrackerInv'
<1> SUFFICES ASSUME TrackerInv, [TrackerNext]_trackerVars PROVE TrackerInv'
  OBVIOUS
<1> USE DEF TrackerInv, TrackerTypeOK, NeverFlattered
<1>1. CASE Record
  <2>1. PICK w \in Weights :
          errCount' = Spend(errCount, w) /\ snap' = Snapshot(errCount', errCount - errCount')
    BY <1>1 DEF Record
  <2>2. w \in Nat /\ errCount' \in Nat /\ errCount - errCount' \in Int
    BY <2>1, TrackerAssumption, SpendRange
  <2>3. budget' = budget /\ shown' = shown /\ place' = "publishing"
    BY <1>1 DEF Record
  <2>4. Remaining(budget, errCount') \in 0..budget
    BY <2>2, RemainingRange
  <2>5. /\ snap' \in [remaining : 0..budget, trend : Int, level : 0..100]
        /\ snap'.remaining = Remaining(budget, errCount')
        /\ snap'.level = Percent(snap'.remaining, budget)
    BY <2>1, <2>2, SnapshotShape
  <2>6. QED
    BY <2>2, <2>3, <2>4, <2>5
<1>2. CASE Publish
  BY <1>2 DEF Publish
<1>3. CASE Rest
  <2>1. errCount' \in Nat /\ errCount' <= errCount
    BY <1>3 DEF Rest
  <2>2. Remaining(budget, errCount) <= Remaining(budget, errCount')
    BY <2>1, RemainingGrows
  <2>3. /\ Remaining(budget, errCount) \in 0..budget
        /\ Remaining(budget, errCount') \in 0..budget
    BY <2>1, RemainingRange
  <2>4. QED
    BY <1>3, <2>1, <2>2, <2>3 DEF Rest
<1>4. CASE Heal
  <2>1. errCount' \in Nat /\ errCount' <= errCount
    BY <1>4, TrackerAssumption, RepayRange DEF Heal
  <2>2. Remaining(budget, errCount) <= Remaining(budget, errCount')
    BY <2>1, RemainingGrows
  <2>3. /\ Remaining(budget, errCount) \in 0..budget
        /\ Remaining(budget, errCount') \in 0..budget
    BY <2>1, RemainingRange
  <2>4. QED
    BY <1>4, <2>1, <2>2, <2>3 DEF Heal
<1>5. CASE UNCHANGED trackerVars
  BY <1>5 DEF trackerVars
<1>6. QED
  BY <1>1, <1>2, <1>3, <1>4, <1>5 DEF TrackerNext

\* For every budget, weight and repayment the values stay in their ranges: the
\* error count is never negative, the health never exceeds the budget and the
\* level is a percentage.
THEOREM TrackerTypeCorrect == TrackerSpec => []TrackerTypeOK
<1>1. TrackerInv => TrackerTypeOK
  BY DEF TrackerInv
<1>2. QED
  BY TrackerInitInv, TrackerNextInv, <1>1, PTL DEF TrackerSpec

\* The level of every snapshot is the health in percent, rounded half up.
THEOREM LevelStaysRounded == TrackerSpec => []LevelIsRounded
<1>1. TrackerInv => LevelIsRounded
  BY PercentRoundsHalfUp DEF TrackerInv, TrackerTypeOK, LevelIsRounded
<1>2. QED
  BY TrackerInitInv, TrackerNextInv, <1>1, PTL DEF TrackerSpec

\* With a budget of at most 200 points, a level of 0% means the supervisor acts.
THEOREM ZeroStaysDead == TrackerSpec => []ZeroMeansDead
<1>1. TrackerInv => ZeroMeansDead
  BY PercentRange DEF TrackerInv, TrackerTypeOK, ZeroMeansDead, Dead
<1>2. QED
  BY TrackerInitInv, TrackerNextInv, <1>1, PTL DEF TrackerSpec

\* Outside the moment of publishing, the health shown is never better than the
\* health the tracker holds, whatever healAll and Reset do in between.
THEOREM NobodyIsFlattered == TrackerSpec => []NeverFlattered
<1>1. TrackerInv => NeverFlattered
  BY DEF TrackerInv
<1>2. QED
  BY TrackerInitInv, TrackerNextInv, <1>1, PTL DEF TrackerSpec

-----------------------------------------------------------------------------
(* The ban probe.  The bans of old stay known: every reading takes over all *)
(* that is active, and they are active.  A ban that was counted is known as *)
(* long as it lasts.                                                        *)

VeteransAreKnown ==
  /\ veterans \subseteq active \cap known
  /\ ~seeded => veterans = {} /\ fresh = {} /\ batch = {}

CountedIsKnown ==
  \A a \in active : reports[a] # 0 => a \in known

Inv == TypeOK /\ VeteransAreKnown /\ VeteransStayUntold /\ CountedIsKnown /\ ReportedOnce

USE BansAssumption

LEMMA InitInv == Init => Inv
<1> SUFFICES ASSUME Init PROVE Inv
  OBVIOUS
<1>1. <<>> \in Seq(SUBSET Addresses) /\ Len(<<>>) = 0
  OBVIOUS
<1>2. reports \in [Addresses -> 0..2]
  BY DEF Init
<1>3. events \in Seq(SUBSET Addresses) /\ Len(events) <= Buffer
  BY <1>1 DEF Init
<1>4. TypeOK
  BY <1>2, <1>3 DEF Init, TypeOK
<1>5. VeteransAreKnown /\ VeteransStayUntold
  BY DEF Init, VeteransAreKnown, VeteransStayUntold
<1>6. CountedIsKnown /\ ReportedOnce
  BY DEF Init, CountedIsKnown, ReportedOnce
<1> QED
  BY <1>4, <1>5, <1>6 DEF Inv

\* What a round adds to the budget leaves it a natural number.
LEMMA AccountKeepsTypes ==
  ASSUME TypeOK, NEW w \in Nat, Account(w)
  PROVE  err' \in Nat /\ doomed' \in BOOLEAN /\ pc' = "sleeping"
  BY DEF TypeOK, Account, Spend, Dead

\* Counting the new bans of a round.
LEMMA ReportCounts ==
  ASSUME TypeOK, NEW new \in SUBSET Addresses, Report(new)
  PROVE  /\ reports' \in [Addresses -> 0..2]
         /\ \A a \in Addresses \ new : reports'[a] = reports[a]
         /\ \A a \in new : reports[a] = 0 => reports'[a] = 1
  BY DEF TypeOK, Report

LEMMA ReadKeeps == Inv /\ Read => Inv'
<1> SUFFICES ASSUME Inv, Read PROVE Inv'
  OBVIOUS
<1> DEFINE new == IF seeded THEN active \ known ELSE {}
<1>1. /\ known' = active /\ fresh' = new /\ seeded' = TRUE /\ added' = new
      /\ Report(new) /\ veterans' = IF seeded THEN veterans ELSE active
      /\ UNCHANGED <<active, events, supVars>>
  BY DEF Read
<1>2. Account(IF new = {} THEN 0 ELSE Cost)
  BY DEF Read
<1>3. new \in SUBSET Addresses /\ TypeOK
  BY DEF Inv, TypeOK
<1>4. (IF new = {} THEN 0 ELSE Cost) \in Nat
  BY DEF Cost
<1> HIDE DEF new
<1>5. err' \in Nat /\ doomed' \in BOOLEAN /\ pc' = "sleeping"
  BY <1>2, <1>3, <1>4, AccountKeepsTypes
<1>6. /\ reports' \in [Addresses -> 0..2]
      /\ \A a \in Addresses \ new : reports'[a] = reports[a]
      /\ \A a \in new : reports[a] = 0 => reports'[a] = 1
  BY <1>1, <1>3, ReportCounts
<1>7. TypeOK'
  BY <1>1, <1>3, <1>5, <1>6 DEF TypeOK, supVars
<1>8. VeteransAreKnown' /\ VeteransStayUntold'
  BY <1>1, <1>3 DEF new, Inv, VeteransAreKnown, VeteransStayUntold, supVars
<1>9. CountedIsKnown' /\ ReportedOnce'
  <2>1. ASSUME NEW a \in new PROVE reports[a] = 0
    BY <2>1, <1>3 DEF new, Inv, CountedIsKnown, TypeOK
  <2> QED
    BY <1>1, <1>3, <1>6, <2>1 DEF Inv, CountedIsKnown, ReportedOnce, TypeOK
<1> QED
  BY <1>7, <1>8, <1>9 DEF Inv

LEMMA StepKeeps == Inv /\ [Next]_vars => Inv'
<1> SUFFICES ASSUME Inv, [Next]_vars PROVE Inv'
  OBVIOUS
<1> USE DEF Inv, VeteransAreKnown, VeteransStayUntold, CountedIsKnown, ReportedOnce,
            supVars, runnerVars, probeVars
<1>1. ASSUME NEW a \in Addresses, Ban(a) PROVE Inv'
  BY <1>1 DEF Ban, TypeOK
<1>2. ASSUME NEW a \in Addresses, Lapse(a) PROVE Inv'
  BY <1>2 DEF Lapse, TypeOK
<1>3. CASE Read
  BY <1>3, ReadKeeps
<1>4. CASE ReadFails
  <2>1. err' \in Nat /\ doomed' \in BOOLEAN /\ pc' = "sleeping"
    BY <1>4, AccountKeepsTypes DEF ReadFails, Cost
  <2> QED
    BY <1>4, <2>1 DEF ReadFails, TypeOK
<1>5. CASE Wake
  BY <1>5 DEF Wake, TypeOK
<1>6. CASE Send
  BY <1>6 DEF Send, TypeOK
<1>7. CASE Receive
  BY <1>7 DEF Receive, TypeOK
<1>8. CASE AskBans
  BY <1>8 DEF AskBans, TypeOK
<1>9. CASE NotifyOne
  BY <1>9 DEF NotifyOne, TypeOK
<1>10. CASE HandledBans
  BY <1>10 DEF HandledBans, TypeOK
<1>11. CASE UNCHANGED vars
  BY <1>11 DEF vars, TypeOK
<1> QED
  BY <1>1, <1>2, <1>3, <1>4, <1>5, <1>6, <1>7, <1>8, <1>9, <1>10, <1>11 DEF Next

LEMMA Invariance == Spec => []Inv
  BY InitInv, StepKeeps, PTL DEF Spec

\* The types, for any addresses, budget and channel.
THEOREM TypeCorrect == Spec => []TypeOK
<1>1. Inv => TypeOK
  BY DEF Inv
<1> QED
  BY Invariance, <1>1, PTL

\* Bans found at startup are not in the probe's list nor in a batch that is
\* being notified, whatever fails and however late events are handled.
THEOREM VeteransAreNeverTold == Spec => []VeteransStayUntold
<1>1. Inv => VeteransStayUntold
  BY DEF Inv
<1> QED
  BY Invariance, <1>1, PTL

\* A ban costs budget in one round only.
THEOREM BansAreCountedOnce == Spec => []ReportedOnce
<1>1. Inv => ReportedOnce
  BY DEF Inv
<1> QED
  BY Invariance, <1>1, PTL

-----------------------------------------------------------------------------
(* The ledger: each step raises, begins or finishes one incident, or none.  *)

\* Only a sleeping runner remembers a dead snapshot.
DoomedAsleep == doomed => pc = "sleeping"

LEMMA DoomedAsleepHolds == Spec => []DoomedAsleep
<1>1. Init => DoomedAsleep
  BY DEF Init, DoomedAsleep
<1>2. DoomedAsleep /\ [Next]_vars => DoomedAsleep'
  <2> SUFFICES ASSUME DoomedAsleep, [Next]_vars PROVE DoomedAsleep'
    OBVIOUS
  <2> USE DEF DoomedAsleep, runnerVars
  <2>1. CASE Read \/ ReadFails
    BY <2>1 DEF Read, ReadFails, Account
  <2>2. CASE Wake
    BY <2>2 DEF Wake
  <2>3. CASE Send
    BY <2>3 DEF Send
  <2>4. CASE \E a \in Addresses : Ban(a) \/ Lapse(a)
    BY <2>4 DEF Ban, Lapse
  <2>5. CASE Receive \/ AskBans \/ NotifyOne \/ HandledBans
    BY <2>5 DEF Receive, AskBans, NotifyOne, HandledBans
  <2>6. CASE UNCHANGED vars
    BY <2>6 DEF vars
  <2> QED
    BY <2>1, <2>2, <2>3, <2>4, <2>5, <2>6 DEF Next
<1> QED
  BY <1>1, <1>2, PTL DEF Spec

\* What the channel and the runner hold of the ledger.
LEMMA RaisedIs ==
  ASSUME TypeOK
  PROVE  /\ Len(events) \in Nat /\ Len(events) <= Buffer
         /\ Raised \in Nat
         /\ doomed \/ pc = "sending" => Raised = Len(events) + 1
         /\ ~(doomed \/ pc = "sending") => Raised = Len(events)
<1>1. Len(events) \in Nat /\ Len(events) <= Buffer
  BY DEF TypeOK
<1>2. CASE doomed \/ pc = "sending"
  <2>1. Raised = Len(events) + 1
    BY <1>2 DEF Raised
  <2> QED
    BY <1>1, <1>2, <2>1
<1>3. CASE ~(doomed \/ pc = "sending")
  <2>1. Raised = Len(events) + 0
    BY <1>3 DEF Raised
  <2> QED
    BY <1>1, <1>3, <2>1
<1> QED
  BY <1>2, <1>3

LEMMA LedgerStep ==
  TypeOK /\ TypeOK' /\ DoomedAsleep /\ [Next]_vars => [Ledger!IncidentsNext]_(Ledger!incidentVars)
<1> SUFFICES ASSUME TypeOK, TypeOK', DoomedAsleep, [Next]_vars
             PROVE  [Ledger!IncidentsNext]_(Ledger!incidentVars)
  OBVIOUS
<1>1. ASSUME Raised' = Raised, (sup' = "select") <=> (sup = "select")
      PROVE  UNCHANGED Ledger!incidentVars
  BY <1>1 DEF Ledger!incidentVars
<1>2. ASSUME Raised' = Raised + 1, Raised <= Buffer, sup' = sup
      PROVE  Ledger!IncidentsNext
  <2>1. Raised < Buffer + 1
    BY <1>2, RaisedIs
  <2>2. Ledger!Exhaust("fail2ban")
    BY <1>2, <2>1 DEF Ledger!Exhaust
  <2> QED
    BY <2>2 DEF Ledger!IncidentsNext
<1>3. CASE Read \/ ReadFails
  <2>1. /\ pc = "probing" /\ pc' = "sleeping" /\ ~doomed
        /\ sup' = sup /\ events' = events
    BY <1>3 DEF Read, ReadFails, Account, DoomedAsleep, supVars
  <2>2. Raised = Len(events) /\ Raised <= Buffer
    BY <2>1, RaisedIs
  <2>3. CASE doomed'
    <3>1. Raised' = Len(events) + 1
      BY <2>1, <2>3 DEF Raised
    <3> QED
      BY <1>2, <2>1, <2>2, <3>1
  <2>4. CASE ~doomed'
    <3>1. Raised' = Len(events)
      BY <2>1, <2>4, RaisedIs DEF Raised
    <3> QED
      BY <1>1, <2>1, <2>2, <3>1
  <2> QED
    BY <2>3, <2>4
<1>4. CASE Wake
  <2>1. /\ pc = "sleeping" /\ pc' = (IF doomed THEN "sending" ELSE "probing") /\ ~doomed'
        /\ sup' = sup /\ events' = events
    BY <1>4 DEF Wake, supVars
  <2>2. Raised' = Raised
    BY <2>1 DEF Raised
  <2> QED
    BY <1>1, <2>1, <2>2
<1>5. CASE Send
  <2>1. /\ pc = "sending" /\ pc' = "probing" /\ doomed' = doomed /\ ~doomed
        /\ sup' = sup /\ events' = Append(events, added)
    BY <1>5 DEF Send, supVars, DoomedAsleep
  <2>2. Len(events') = Len(events) + 1
    <3>1. events \in Seq(SUBSET Addresses) /\ added \in SUBSET Addresses
      BY DEF TypeOK
    <3> QED
      BY <2>1, <3>1
  <2>3. Raised' = Raised
    BY <2>1, <2>2, RaisedIs DEF Raised
  <2> QED
    BY <1>1, <2>1, <2>3
<1>6. CASE Receive
  <2>1. /\ sup = "select" /\ sup' = "asking" /\ events # <<>> /\ events' = Tail(events)
        /\ pc' = pc /\ doomed' = doomed
    BY <1>6 DEF Receive
  <2>2. Len(events') = Len(events) - 1 /\ Len(events) > 0
    <3>1. events \in Seq(SUBSET Addresses)
      BY DEF TypeOK
    <3> QED
      BY <2>1, <3>1
  <2>3. Raised > 0 /\ Raised' = Raised - 1
    <3>1. Len(events) \in Nat
      BY RaisedIs
    <3>2. PICK n \in {0, 1} : Raised = Len(events) + n /\ Raised' = Len(events') + n
      BY <2>1 DEF Raised
    <3> QED
      BY <2>2, <3>1, <3>2
  <2>4. Ledger!Begin("fail2ban")
    BY <2>1, <2>3 DEF Ledger!Begin
  <2> QED
    BY <2>4 DEF Ledger!IncidentsNext
<1>7. CASE AskBans \/ NotifyOne
  <2>1. /\ sup # "select" /\ sup' # "select" /\ events' = events /\ pc' = pc /\ doomed' = doomed
    BY <1>7 DEF AskBans, NotifyOne, runnerVars
  <2> QED
    BY <1>1, <2>1 DEF Raised
<1>8. CASE HandledBans
  <2>1. /\ sup = "notifying" /\ sup' = "select" /\ events' = events /\ pc' = pc /\ doomed' = doomed
    BY <1>8 DEF HandledBans, runnerVars
  <2>2. Ledger!Finish
    BY <2>1 DEF Ledger!Finish, Raised
  <2> QED
    BY <2>2 DEF Ledger!IncidentsNext
<1>9. CASE (\E a \in Addresses : Ban(a) \/ Lapse(a)) \/ UNCHANGED vars
  <2>1. sup' = sup /\ events' = events /\ pc' = pc /\ doomed' = doomed
    BY <1>9 DEF Ban, Lapse, vars, runnerVars, supVars
  <2> QED
    BY <1>1, <2>1 DEF Raised
<1> QED
  BY <1>3, <1>4, <1>5, <1>6, <1>7, <1>8, <1>9 DEF Next

\* For any addresses, budget and channel, the way of a ban keeps the ledger of
\* incidents that the supervisor with all its checks keeps (runner.go:123,
\* supervisor.go:188): no spent budget is lost on the way or handled twice.
THEOREM BansKeepTheLedger == Spec => ImplementsIncidents
<1>1. Init => Ledger!IncidentsInit
  <2> SUFFICES ASSUME Init PROVE Ledger!IncidentsInit
    OBVIOUS
  <2>1. Raised = 0 /\ sup = "select"
    BY DEF Init, Raised
  <2> QED
    BY <2>1 DEF Ledger!IncidentsInit
<1> QED
  BY <1>1, LedgerStep, TypeCorrect, DoomedAsleepHolds, PTL
     DEF Spec, ImplementsIncidents, Ledger!IncidentsSafety
=============================================================================
