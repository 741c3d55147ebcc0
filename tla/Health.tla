------------------------------- MODULE Health -------------------------------
(****************************************************************************)
(* internal/health/health.go: the arithmetic of one check's error budget.   *)
(* Pure operators; Tracker.tla and Supervisor.tla give them a state.        *)
(****************************************************************************)
LOCAL INSTANCE Integers

AtLeastZero(n) == IF n < 0 THEN 0 ELSE n

\* New: the budget a configured threshold stands for.
Budget(threshold) == IF threshold < 1 THEN 1 ELSE threshold

\* Record: a failing round adds its weight, a clean one repays one point.
Spend(err, weight) ==
  IF AtLeastZero(weight) > 0
  THEN err + weight
  ELSE IF err > 0 THEN err - 1 ELSE err

\* Heal without its clamp.
RepayUnclamped(err, points) == IF err > 1 THEN err - points ELSE err

\* Heal: a single outstanding point stays.
Repay(err, points) == IF err > 1 THEN AtLeastZero(err - points) ELSE err

\* snapshot().Remaining
Remaining(budget, err) == AtLeastZero(budget - err)

\* Dead as "no more than one point left".
DeadEarly(remaining) == remaining <= 1

\* Snapshot.Dead
Dead(remaining) == remaining <= 0

\* Percent by plain truncation.
PercentTruncated(current, total) ==
  IF total <= 0 THEN 0 ELSE (100 * AtLeastZero(current)) \div total

\* Percent: bash's 200*c/t%2 + 100*c/t, read from left to right.
Percent(current, total) ==
  IF total <= 0
  THEN 0
  ELSE LET c == AtLeastZero(current)
       IN  (((200 * c) \div total) % 2) + ((100 * c) \div total)
=============================================================================
