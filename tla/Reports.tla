------------------------------- MODULE Reports -------------------------------
(****************************************************************************)
(* From a reading to the text an operator is sent: the alerts of ratelimit, *)
(* acme and external, which are sent without a restart.  The text is put    *)
(* together when the supervisor gets to the event, from what the check      *)
(* remembers by then: its transcript (check.go), or the reports the relay   *)
(* probes keep per address family (external.go).  Meanwhile the runner's    *)
(* next rounds go on.  Ratelimit's text is read from Redis there and then,  *)
(* and is left out.                                                         *)
(*                                                                          *)
(* The checks share no state, so each behaviour is that of one of them, and *)
(* the supervisor's other work is that it takes its time.  Detectors.tla    *)
(* has the probes of the first two.                                         *)
(****************************************************************************)
EXTENDS Detectors, Health, Integers, Sequences

CONSTANTS Threshold,    \* of the check
          Buffer,       \* len(opts.Checks)
          Lines,        \* transcriptLines
          MaxRounds     \* bounds a behaviour

ASSUME ReportsAssumption == {Threshold, Buffer, Lines, MaxRounds} \subseteq Nat \ {0}

Families == {"v4", "v6"}        \* the probes of external, in this order

VARIABLES watched,      \* the check
          round,        \* history: rounds so far
          pc,           \* where its runner is
          err,          \* Tracker.errCount
          cost,         \* what the round has cost so far
          doomed,       \* the round's snapshot was Dead
          accused,      \* history: families the relay test accused this round
          details,      \* External.details: the report of which round, if any
          transcript,   \* Check.transcript: a line per round
          events,       \* the channel: the round behind each event, and whom it accused
          sup,          \* where handle is
          carried,      \* the event it handles
          text          \* what the alert shows: reports and lines by source and round

runner  == <<round, pc, err, cost, doomed, accused>>
memory  == <<details, transcript>>
handler == <<sup, carried, text>>
allVars == <<vars, watched, runner, memory, events, handler>>

Rounds == 0..MaxRounds
Event == [round : Rounds, accused : SUBSET Families]
NoEvent == [round |-> 0, accused |-> {}]
Texts == SUBSET ((Families \cup {"line"}) \X Rounds)

ReportsTypeOK ==
  /\ watched \in {"ratelimit", "acme", "external"}
  /\ round \in Rounds
  /\ pc \in Families \cup {"begin", "sleeping", "sending"}
  /\ err \in Nat /\ cost \in 0..2 /\ doomed \in BOOLEAN
  /\ accused \subseteq Families
  /\ details \in [Families -> Texts] /\ transcript \in Seq(Rounds)
  /\ events \in Seq(Event)
  /\ sup \in Families \cup {"select", "composing", "alerting"}
  /\ carried \in Event /\ text \in Texts

ReportsInit ==
  /\ Init
  /\ watched \in {"ratelimit", "acme", "external"}
  /\ watched # "ratelimit" => head = Empty
  /\ watched # "acme" => stamp = Empty
  /\ round = 0 /\ pc = "begin" /\ err = 0 /\ cost = 0 /\ doomed = FALSE /\ accused = {}
  /\ details = [f \in Families |-> {}] /\ transcript = <<>>
  /\ events = <<>>
  /\ sup = "select" /\ carried = NoEvent /\ text = {}

-----------------------------------------------------------------------------
(* Redis *)

Surroundings ==
  /\ \/ watched = "ratelimit" /\ (Flush \/ \E record \in Ids \cup {NoQid} : Limit(record))
     \/ watched = "acme" /\ (Loss \/ \E s \in Stamps : Failure(s))
  /\ UNCHANGED <<watched, runner, memory, events, handler>>

-----------------------------------------------------------------------------
(* the runner *)

Begin ==
  /\ pc = "begin" /\ round < MaxRounds
  /\ round' = round + 1
  /\ pc' = "v4" /\ cost' = 0 /\ accused' = {}
  /\ UNCHANGED <<vars, watched, err, doomed, memory, events, handler>>

\* A transcript that is full and takes no more.
RecordUntilFull(lines, line) == IF Len(lines) < Lines THEN Append(lines, line) ELSE lines

\* Check.Record: the last lines are kept.
Record(lines, line) ==
  IF Len(lines) < Lines THEN Append(lines, line) ELSE Append(Tail(lines), line)

\* The tracker's Record at the end of a round.  Cost(1, ...) wraps all of these.
Account(points) ==
  /\ err' = Spend(err, points)
  /\ doomed' = Dead(Remaining(Budget(Threshold), err'))
  /\ pc' = "sleeping"

\* A round of ratelimit or acme, which have one probe.
Reads ==
  /\ pc = "v4"
  /\ \/ /\ watched = "ratelimit"
        /\ Ratelimit \/ NoReading("rl")
        /\ cost' = IF verdict'.rl = "ok" THEN 0 ELSE 1
     \/ /\ watched = "acme"
        /\ Change \/ NoReading("acme")
        /\ cost' = IF verdict'.acme = "ok" THEN 0 ELSE 1
  /\ transcript' = Record(transcript, round)
  /\ Account(cost')
  /\ UNCHANGED <<watched, round, accused, details, events, handler>>

\* setDetails as the shell did it: the report of the other family's test.
SetDetailsAsShell(f) == details' = [details EXCEPT ![f] = {<<"v4", round>>}]

SetDetails(f) == details' = [details EXCEPT ![f] = {<<f, round>>}]

\* External.Run for one family: the relay test accuses, or there is nothing to
\* hear of it (which costs nothing), or the GUID could not be read.
Asks(f) ==
  /\ pc = f /\ watched = "external"
  /\ \/ accused' = accused \cup {f} /\ SetDetails(f) /\ cost' = cost + 1
     \/ cost' \in {cost, cost + 1} /\ UNCHANGED <<accused, details>>
  /\ IF f = "v4" THEN pc' = "v6" /\ UNCHANGED <<err, doomed>> ELSE Account(cost')
  /\ UNCHANGED <<vars, watched, round, transcript, events, handler>>

Wake ==
  /\ pc = "sleeping"
  /\ err' = IF doomed THEN 0 ELSE err
  /\ pc' = IF doomed THEN "sending" ELSE "begin"
  /\ doomed' = FALSE
  /\ UNCHANGED <<vars, watched, round, cost, accused, memory, events, handler>>

Send ==
  /\ pc = "sending" /\ Len(events) < Buffer
  /\ events' = Append(events, [round |-> round, accused |-> accused])
  /\ pc' = "begin"
  /\ UNCHANGED <<vars, watched, round, err, cost, doomed, accused, memory, handler>>

-----------------------------------------------------------------------------
(* the supervisor *)

Handles == UNCHANGED <<vars, watched, runner, memory>>

Receive ==
  /\ sup = "select" /\ events # <<>>
  /\ carried' = Head(events) /\ events' = Tail(events)
  /\ sup' = IF watched = "external" THEN "v4" ELSE "composing"
  /\ Handles /\ UNCHANGED text

\* The transcript, under its mutex.
ReadTranscript ==
  /\ sup = "composing"
  /\ text' = IF watched = "acme" THEN {<<"line", transcript[i]>> : i \in DOMAIN transcript} ELSE {}
  /\ sup' = "alerting"
  /\ Handles /\ UNCHANGED <<events, carried>>

\* joinNonEmpty asks one probe after the other, under a mutex each.
ReadDetails(f) ==
  /\ sup = f
  /\ text' = text \cup details[f]
  /\ sup' = IF f = "v4" THEN "v6" ELSE "alerting"
  /\ Handles /\ UNCHANGED <<events, carried>>

\* alert, whatever comes of it.
Alert ==
  /\ sup = "alerting"
  /\ sup' = "select" /\ carried' = NoEvent /\ text' = {}
  /\ Handles /\ UNCHANGED events

\* The process is started again.
StartAgain ==
  /\ Restart
  /\ pc' = "begin" /\ err' = 0 /\ cost' = 0 /\ doomed' = FALSE /\ accused' = {}
  /\ details' = [f \in Families |-> {}] /\ transcript' = <<>>
  /\ events' = <<>>
  /\ sup' = "select" /\ carried' = NoEvent /\ text' = {}
  /\ UNCHANGED <<watched, round>>

\* No round is left of those a behaviour has, and everything is handled.
Quiet ==
  /\ round = MaxRounds /\ pc = "begin" /\ sup = "select" /\ events = <<>>
  /\ UNCHANGED allVars

ReportsNext ==
  \/ Surroundings
  \/ Begin \/ Reads \/ Wake \/ Send
  \/ Receive \/ ReadTranscript \/ Alert
  \/ \E f \in Families : Asks(f) \/ ReadDetails(f)
  \/ StartAgain \/ Quiet

ReportsSpec == ReportsInit /\ [][ReportsNext]_allVars

-----------------------------------------------------------------------------
\* An alert shows what raised it, however late it is put together and whatever
\* the rounds in between have left: of every family the relay test accused, its
\* own report, of that round or a later one; of a transcript, that round's line,
\* unless it is full of newer ones.
AlertShowsItsCause ==
  sup = "alerting" =>
    /\ \A f \in carried.accused :
         \E r \in Rounds : r >= carried.round /\ <<f, r>> \in text
    /\ watched = "acme" =>
         \/ <<"line", carried.round>> \in text
         \/ \E n \in Rounds :
              /\ n > carried.round
              /\ \A r \in n..n + Lines - 1 : <<"line", r>> \in text
=============================================================================
