------------------------------ MODULE Tracker ------------------------------
(****************************************************************************)
(* One check's health as its readers see it: the tracker's error count, the *)
(* snapshot a round takes of it, and what publish shows of that snapshot in *)
(* the gauge and in the Redis record, while healAll may repay points at any *)
(* moment.  Supervisor.tla has the same tracker beside the other checks,    *)
(* the gate and the events, and leaves the numbers shown out.               *)
(****************************************************************************)
EXTENDS Health, Integers

CONSTANTS Thresholds,   \* configured budgets
          Weights,      \* what a round may cost
          HealPoints    \* supervisor.go's HealPoints

ASSUME TrackerAssumption ==
  /\ Thresholds \subseteq Int
  /\ Weights \subseteq Nat
  /\ HealPoints \in Nat

VARIABLES budget,       \* Tracker.threshold
          errCount,     \* points outstanding
          snap,         \* the snapshot of the last round
          shown,        \* the health last published
          place         \* where the runner is in its round

trackerVars == <<budget, errCount, snap, shown, place>>

\* Tracker.snapshot
Snapshot(e, trend) ==
  [remaining |-> Remaining(budget, e),
   trend     |-> trend,
   level     |-> Percent(Remaining(budget, e), budget)]

TrackerTypeOK ==
  /\ budget \in Nat \ {0}
  /\ errCount \in Nat
  /\ snap \in [remaining : 0..budget, trend : Int, level : 0..100]
  /\ shown \in 0..budget
  /\ place \in {"probing", "publishing", "resting"}

\* New, and InitCheck's gauge.
TrackerInit ==
  /\ \E t \in Thresholds : budget = Budget(t)
  /\ errCount = 0
  /\ snap = Snapshot(0, 0)
  /\ shown = budget
  /\ place = "probing"

Record ==
  /\ place = "probing"
  /\ \E weight \in Weights :
       /\ errCount' = Spend(errCount, weight)
       /\ snap' = Snapshot(errCount', errCount - errCount')
  /\ place' = "publishing"
  /\ UNCHANGED <<budget, shown>>

\* publish before the round is accounted for.
PublishBefore ==
  /\ place = "publishing"
  /\ shown' = AtLeastZero(snap.remaining - snap.trend)
  /\ place' = "resting"
  /\ UNCHANGED <<budget, errCount, snap>>

\* ObserveHealth and LogProgress show the round's snapshot.
Publish ==
  /\ place = "publishing"
  /\ shown' = snap.remaining
  /\ place' = "resting"
  /\ UNCHANGED <<budget, errCount, snap>>

\* A dead check starts over; nothing is published about that.
Rest ==
  /\ place = "resting"
  /\ errCount' = IF Dead(snap.remaining) THEN 0 ELSE errCount
  /\ place' = "probing"
  /\ UNCHANGED <<budget, snap, shown>>

\* healAll, from the watcher's goroutine.
Heal ==
  /\ errCount' = Repay(errCount, HealPoints)
  /\ UNCHANGED <<budget, snap, shown, place>>

TrackerNext == Record \/ Publish \/ Rest \/ Heal

TrackerSpec == TrackerInit /\ [][TrackerNext]_trackerVars

-----------------------------------------------------------------------------
\* The level shown is the health in percent, rounded half up, as the comment
\* on Percent claims of its two truncating divisions and a remainder.
LevelIsRounded == snap.level = (200 * snap.remaining + budget) \div (2 * budget)

\* Up to this budget one point is at least half a percent.
MaxVisibleBudget == 200

\* A reader of the level sees 0% exactly when the supervisor acts on the check;
\* the last point of a budget above MaxVisibleBudget rounds to nothing.
ZeroMeansDead ==
  budget <= MaxVisibleBudget => (snap.level = 0 <=> Dead(snap.remaining))

\* What is published is never better than what the tracker holds, except while
\* a round's result is on its way out: Heal and Reset make it too dark, never
\* too bright, however they fall between Record and publish.
NeverFlattered == place # "publishing" => shown <= Remaining(budget, errCount)
=============================================================================
