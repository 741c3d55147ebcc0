-------------------------------- MODULE Bans --------------------------------
(****************************************************************************)
(* The way of a ban from netfilter to the operator: the fail2ban probe      *)
(* (internal/probe/redis.go) that compares each read of F2B_ACTIVE_BANS     *)
(* with the one before, the runner that spends budget on what it finds, and *)
(* handleBans, which asks the probe for the bans when it gets to the event. *)
(* Supervisor.tla has the goroutines in full; here the gate and the other   *)
(* checks only keep the supervisor away for a while.                        *)
(****************************************************************************)
EXTENDS Health, Integers, Sequences, FiniteSets

CONSTANTS Addresses,    \* what netfilter may ban
          Threshold,    \* FAIL2BAN_THRESHOLD
          Buffer        \* len(opts.Checks)

ASSUME BansAssumption ==
  /\ IsFiniteSet(Addresses)
  /\ Threshold \in Nat \ {0}
  /\ Buffer \in Nat \ {0}

VARIABLES active,       \* the fields of F2B_ACTIVE_BANS
          seeded, known, fresh,  \* Fail2ban's fields
          err,          \* Tracker.errCount
          pc,           \* where the runner is
          doomed,       \* the round's snapshot was Dead
          added,        \* what the last round added, for the event it raises
          events,       \* the channel; what each event's round had added
          sup,          \* where the supervisor's goroutine is
          carried,      \* what the event it handles was raised for
          batch,        \* what c.Bans() returned for that event
          left,         \* addresses of batch still to notify
          veterans,     \* history: banned at the first read and ever since
          reports       \* history: rounds that added a since its last ban

probeVars  == <<seeded, known, fresh>>
runnerVars == <<probeVars, err, pc, doomed, added, events>>
supVars    == <<sup, carried, batch, left>>
vars       == <<active, runnerVars, supVars, veterans, reports>>

\* The registry wraps the probe in Cost(1, ...): new bans and a failed read
\* both cost one point, whatever their severity.
Cost == 1

TypeOK ==
  /\ active \subseteq Addresses /\ known \subseteq Addresses /\ fresh \subseteq Addresses
  /\ seeded \in BOOLEAN /\ doomed \in BOOLEAN
  /\ err \in Nat
  /\ pc \in {"probing", "sleeping", "sending"}
  /\ added \subseteq Addresses
  /\ events \in Seq(SUBSET Addresses) /\ Len(events) <= Buffer
  /\ sup \in {"select", "asking", "notifying"}
  /\ carried \subseteq Addresses /\ batch \subseteq Addresses /\ left \subseteq batch
  /\ veterans \subseteq Addresses
  /\ reports \in [Addresses -> 0..2]

Init ==
  /\ active \in SUBSET Addresses
  /\ seeded = FALSE /\ known = {} /\ fresh = {}
  /\ err = 0 /\ pc = "probing" /\ doomed = FALSE /\ added = {}
  /\ events = <<>>
  /\ sup = "select" /\ carried = {} /\ batch = {} /\ left = {}
  /\ veterans = {}
  /\ reports = [a \in Addresses |-> 0]

-----------------------------------------------------------------------------
(* netfilter-mailcow *)

Ban(a) ==
  /\ a \notin active
  /\ active' = active \cup {a}
  /\ reports' = [reports EXCEPT ![a] = 0]
  /\ UNCHANGED <<runnerVars, supVars, veterans>>

Lapse(a) ==
  /\ a \in active
  /\ active' = active \ {a}
  /\ veterans' = veterans \ {a}
  /\ UNCHANGED <<runnerVars, supVars, reports>>

-----------------------------------------------------------------------------
(* the runner and its probe *)

\* Record, and what Run does with the snapshot.
Account(weight) ==
  /\ err' = Spend(err, weight)
  /\ doomed' = Dead(Remaining(Budget(Threshold), err'))
  /\ pc' = "sleeping"

\* Counted to 2, which is already once too often.
Report(new) ==
  reports' = [a \in Addresses |->
    IF a \in new /\ reports[a] < 2 THEN reports[a] + 1 ELSE reports[a]]

\* A first round that takes every active ban for a new one.
ReadUnseeded ==
  /\ pc = "probing"
  /\ LET new == active \ known IN
       /\ known' = active /\ fresh' = new /\ seeded' = TRUE
       /\ added' = new /\ Report(new)
       /\ Account(IF new = {} THEN 0 ELSE Cost)
  /\ veterans' = IF seeded THEN veterans ELSE active
  /\ UNCHANGED <<active, events, supVars>>

\* A round that remembers the new bans only.
ReadKeepsNew ==
  /\ pc = "probing"
  /\ LET new == IF seeded THEN active \ known ELSE {} IN
       /\ known' = (IF seeded THEN new ELSE active) /\ fresh' = new /\ seeded' = TRUE
       /\ added' = new /\ Report(new)
       /\ Account(IF new = {} THEN 0 ELSE Cost)
  /\ veterans' = IF seeded THEN veterans ELSE active
  /\ UNCHANGED <<active, events, supVars>>

\* Fail2ban.Run on an answer from Redis.  The first one only seeds.
Read ==
  /\ pc = "probing"
  /\ LET new == IF seeded THEN active \ known ELSE {} IN
       /\ known' = active /\ fresh' = new /\ seeded' = TRUE
       /\ added' = new /\ Report(new)
       /\ Account(IF new = {} THEN 0 ELSE Cost)
  /\ veterans' = IF seeded THEN veterans ELSE active
  /\ UNCHANGED <<active, events, supVars>>

\* Fail2ban.Run without an answer: known and fresh stay.
ReadFails ==
  /\ pc = "probing"
  /\ added' = {}
  /\ Account(Cost)
  /\ UNCHANGED <<active, probeVars, events, supVars, veterans, reports>>

Wake ==
  /\ pc = "sleeping"
  /\ err' = IF doomed THEN 0 ELSE err
  /\ pc' = IF doomed THEN "sending" ELSE "probing"
  /\ doomed' = FALSE
  /\ UNCHANGED <<active, probeVars, added, events, supVars, veterans, reports>>

\* Send that gives up when the buffer is full.
SendOrDrop ==
  /\ pc = "sending"
  /\ events' = IF Len(events) < Buffer THEN Append(events, added) ELSE events
  /\ pc' = "probing"
  /\ UNCHANGED <<active, probeVars, err, doomed, added, supVars, veterans, reports>>

Send ==
  /\ pc = "sending"
  /\ Len(events) < Buffer
  /\ events' = Append(events, added)
  /\ pc' = "probing"
  /\ UNCHANGED <<active, probeVars, err, doomed, added, supVars, veterans, reports>>

-----------------------------------------------------------------------------
(* the supervisor *)

Receive ==
  /\ sup = "select"
  /\ events # <<>>
  /\ carried' = Head(events) /\ events' = Tail(events)
  /\ sup' = "asking"
  /\ UNCHANGED <<active, probeVars, err, pc, doomed, added, batch, left, veterans, reports>>

\* c.Bans(), that is Fail2ban.Fresh: whatever the latest round left there.
AskBans ==
  /\ sup = "asking"
  /\ batch' = fresh /\ left' = fresh
  /\ sup' = "notifying"
  /\ UNCHANGED <<active, runnerVars, carried, veterans, reports>>

\* The loop over the addresses; the lookup and the alert may fail.
NotifyOne ==
  /\ sup = "notifying"
  /\ \E a \in left : left' = left \ {a}
  /\ UNCHANGED <<active, runnerVars, sup, carried, batch, veterans, reports>>

HandledBans ==
  /\ sup = "notifying"
  /\ left = {}
  /\ sup' = "select" /\ carried' = {} /\ batch' = {}
  /\ UNCHANGED <<active, runnerVars, left, veterans, reports>>

Next ==
  \/ \E a \in Addresses : Ban(a) \/ Lapse(a)
  \/ Read \/ ReadFails \/ Wake \/ Send
  \/ Receive \/ AskBans \/ NotifyOne \/ HandledBans

Spec == Init /\ [][Next]_vars

-----------------------------------------------------------------------------
\* A ban that was there when the probe first read the hash is never notified
\* while it lasts, however many reads fail before or after.
VeteransStayUntold == (fresh \cup batch) \cap veterans = {}

\* One ban costs budget at one round only: reads that fail, bans that lapse and
\* events that are handled late do not make a round count it again.
ReportedOnce == \A a \in Addresses : reports[a] <= 1

\* Events on their way to the supervisor, and the one about to be raised.
Raised == Len(events) + (IF doomed \/ pc = "sending" THEN 1 ELSE 0)

Ledger == INSTANCE Incidents WITH
  Runners <- {"fail2ban"}, NoCheck <- "none", MaxOwed <- Buffer + 1,
  owed <- [r \in {"fail2ban"} |-> Raised],
  acting <- IF sup = "select" THEN "none" ELSE "fail2ban",
  cancelled <- FALSE

\* The runner, channel and supervisor of this module keep the promise that
\* Supervisor.tla keeps too: each spent budget is one event, handled once and
\* after the one before, and full buffers lose none.
ImplementsIncidents == Ledger!IncidentsSafety

-----------------------------------------------------------------------------
\* "New bans now travel in the event itself": what handleBans notifies is what
\* the event was raised for.
BansTravelInTheEvent == sup = "notifying" => batch = carried
=============================================================================
