---------------------------- MODULE ReportsProofs ----------------------------
(****************************************************************************)
(* Theorems about Detectors and Reports, for any Redis contents, threshold, *)
(* channel and length of the transcript.  What a probe remembers is its     *)
(* last good reading (MemoryIsTheLastReading), and from this the promises   *)
(* of Detectors follow.  They still hold in Reports, since every step of it *)
(* is one of Detectors' or leaves it alone; and an alert shows what raised  *)
(* it, because a report is only ever replaced by a newer one and a          *)
(* transcript is an unbroken run of rounds.                                 *)
(****************************************************************************)
EXTENDS Reports, TLAPS

-----------------------------------------------------------------------------
(* the detectors *)

Inv == TypeOK /\ MemoryIsTheLastReading

USE DetectorsAssumption

LEMMA InitInv == Init => Inv
  BY DEF Init, Inv, TypeOK, MemoryIsTheLastReading, Unseeded, Said, Happenings

\* The types are kept by every step.
LEMMA TypesKept == TypeOK /\ [Next]_vars => TypeOK'
<1> SUFFICES ASSUME TypeOK, [Next]_vars PROVE TypeOK'
  OBVIOUS
<1> USE DEF TypeOK, Said, Happenings
<1>1. ASSUME NEW record \in Ids \cup {NoQid}, Limit(record) PROVE TypeOK'
  BY <1>1 DEF Limit, Happens
<1>2. CASE Flush
  BY <1>2 DEF Flush, Happens
<1>3. ASSUME NEW s \in Stamps, Failure(s) PROVE TypeOK'
  BY <1>3 DEF Failure, Happens
<1>4. CASE Loss
  BY <1>4 DEF Loss, Happens
<1>5. CASE Ratelimit
  BY <1>5 DEF Ratelimit, GoodReading, QueueID
<1>6. CASE Change
  BY <1>6 DEF Change, GoodReading
<1>7. ASSUME NEW probe \in {"rl", "acme"}, NoReading(probe) PROVE TypeOK'
  BY <1>7 DEF NoReading
<1>8. CASE Restart
  BY <1>8 DEF Restart, Unseeded
<1>9. CASE UNCHANGED vars
  BY <1>9 DEF vars
<1> QED
  BY <1>1, <1>2, <1>3, <1>4, <1>5, <1>6, <1>7, <1>8, <1>9 DEF Next

\* So is the agreement of the probes' memory with the last good reading.
LEMMA MemoryKept == Inv /\ [Next]_vars => MemoryIsTheLastReading'
<1> SUFFICES ASSUME Inv, [Next]_vars PROVE MemoryIsTheLastReading'
  OBVIOUS
<1> USE DEF Inv, TypeOK, Said, Happenings, MemoryIsTheLastReading
<1>1. ASSUME NEW record \in Ids \cup {NoQid}, Limit(record) PROVE MemoryIsTheLastReading'
  BY <1>1 DEF Limit, Happens
<1>2. CASE Flush
  BY <1>2 DEF Flush, Happens
<1>3. ASSUME NEW s \in Stamps, Failure(s) PROVE MemoryIsTheLastReading'
  BY <1>3 DEF Failure, Happens
<1>4. CASE Loss
  BY <1>4 DEF Loss, Happens
<1>5. CASE Ratelimit
  <2>1. rl'.seeded /\ rl'.last = QueueID(head) /\ head' = head /\ acme' = acme /\ stamp' = stamp
    BY <1>5 DEF Ratelimit, GoodReading
  <2>2. read'.rl = head /\ news'.rl = {} /\ read'.acme = read.acme /\ news'.acme = news.acme
    BY <1>5 DEF Ratelimit, GoodReading
  <2>3. head # Never
    BY DEF Empty, NoQid, Never
  <2>4. QueueID(read.rl)' = QueueID(read'.rl)
    BY DEF QueueID
  <2> QED
    BY <2>1, <2>2, <2>3, <2>4
<1>6. CASE Change
  <2>1. acme'.seeded /\ acme'.last = stamp /\ stamp' = stamp /\ rl' = rl /\ head' = head
    BY <1>6 DEF Change, GoodReading
  <2>2. read'.acme = stamp /\ news'.acme = {} /\ read'.rl = read.rl /\ news'.rl = news.rl
    BY <1>6 DEF Change, GoodReading
  <2>3. stamp # Never
    BY DEF Empty, Never
  <2>4. QueueID(read.rl)' = QueueID(read.rl)
    BY <2>2 DEF QueueID
  <2> QED
    BY <2>1, <2>2, <2>3, <2>4
<1>7. ASSUME NEW probe \in {"rl", "acme"}, NoReading(probe) PROVE MemoryIsTheLastReading'
  BY <1>7 DEF NoReading
<1>8. CASE Restart
  BY <1>8 DEF Restart, Unseeded
<1>9. CASE UNCHANGED vars
  BY <1>9 DEF vars
<1> QED
  BY <1>1, <1>2, <1>3, <1>4, <1>5, <1>6, <1>7, <1>8, <1>9 DEF Next

LEMMA InvKept == Inv /\ [Next]_vars => Inv'
  BY TypesKept, MemoryKept DEF Inv

\* The state of the detectors and of what they read keeps its types.
THEOREM TypeCorrect == Spec => []TypeOK
<1>1. Inv => TypeOK
  BY DEF Inv
<1> QED
  BY InitInv, InvKept, <1>1, PTL DEF Spec

\* For any records and stamps: a probe that alarms has something to tell.
THEOREM AlarmsHaveReasons == Spec => []AlarmMeansNews
<1>1. Init => AlarmMeansNews
  BY DEF Init, AlarmMeansNews
<1>2. Inv /\ AlarmMeansNews /\ [Next]_vars => AlarmMeansNews'
  <2> SUFFICES ASSUME Inv, AlarmMeansNews, [Next]_vars PROVE AlarmMeansNews'
    OBVIOUS
  <2> USE DEF AlarmMeansNews, Inv, TypeOK, Said, Happenings
  <2>1. ASSUME NEW record \in Ids \cup {NoQid}, Limit(record) PROVE AlarmMeansNews'
    BY <2>1 DEF Limit, Happens
  <2>2. CASE Flush
    BY <2>2 DEF Flush, Happens
  <2>3. ASSUME NEW s \in Stamps, Failure(s) PROVE AlarmMeansNews'
    BY <2>3 DEF Failure, Happens
  <2>4. CASE Loss
    BY <2>4 DEF Loss, Happens
  <2>5. CASE Ratelimit
    BY <2>5 DEF Ratelimit, GoodReading, MemoryIsTheLastReading
  <2>6. CASE Change
    BY <2>6 DEF Change, GoodReading, MemoryIsTheLastReading
  <2>7. ASSUME NEW probe \in {"rl", "acme"}, NoReading(probe) PROVE AlarmMeansNews'
    BY <2>7 DEF NoReading
  <2>8. CASE Restart
    BY <2>8 DEF Restart
  <2>9. CASE UNCHANGED vars
    BY <2>9 DEF vars
  <2> QED
    BY <2>1, <2>2, <2>3, <2>4, <2>5, <2>6, <2>7, <2>8, <2>9 DEF Next
<1> QED
  BY InitInv, InvKept, <1>1, <1>2, PTL DEF Spec

\* However long Redis was away: the next good reading tells what changed.
THEOREM OutagesHideNothing == Spec => NewsSurvivesOutage
<1> DEFINE Told ==
      /\ Ratelimit /\ read.rl # Never /\ head \in Ids \ {read.rl} => verdict'.rl = "critical"
      /\ Change /\ read.acme \notin {Never, stamp} => verdict'.acme = "critical"
<1>1. Inv /\ [Next]_vars => [Told]_vars
  <2> SUFFICES ASSUME Inv PROVE Told
    OBVIOUS
  <2> USE DEF Inv, TypeOK, Said, MemoryIsTheLastReading
  <2>1. ASSUME Ratelimit, read.rl # Never, head \in Ids \ {read.rl} PROVE verdict'.rl = "critical"
    BY <2>1 DEF Ratelimit, GoodReading, QueueID
  <2>2. ASSUME Change, read.acme \notin {Never, stamp} PROVE verdict'.acme = "critical"
    BY <2>2 DEF Change, GoodReading
  <2> QED
    BY <2>1, <2>2
<1> QED
  BY InitInv, InvKept, <1>1, PTL DEF Spec, NewsSurvivesOutage

-----------------------------------------------------------------------------
(* Reports implements them *)

HIDE DetectorsAssumption
USE ReportsAssumption

\* The composition uses the detectors only as Detectors allows.
LEMMA StepIsDetectorsStep == [ReportsNext]_allVars => [Next]_vars
<1> SUFFICES ASSUME [ReportsNext]_allVars PROVE [Next]_vars
  OBVIOUS
<1>1. CASE Surroundings
  BY <1>1 DEF Surroundings, Next, vars
<1>2. CASE Reads
  BY <1>2 DEF Reads, Next
<1>3. CASE Begin \/ Wake \/ Send \/ \E f \in Families : Asks(f)
  BY <1>3 DEF Begin, Wake, Send, Asks
<1>4. CASE Receive \/ ReadTranscript \/ Alert \/ \E f \in Families : ReadDetails(f)
  BY <1>4 DEF Receive, ReadTranscript, Alert, ReadDetails, Handles
<1>5. CASE StartAgain
  BY <1>5 DEF StartAgain, Next
<1>6. CASE Quiet \/ UNCHANGED allVars
  BY <1>6 DEF Quiet, allVars
<1> QED
  BY <1>1, <1>2, <1>3, <1>4, <1>5, <1>6 DEF ReportsNext

\* Reports implements Detectors.
THEOREM ReportsAreDetectors == ReportsSpec => Spec
<1>1. ReportsInit => Init
  BY DEF ReportsInit
<1> QED
  BY <1>1, StepIsDetectorsStep, PTL DEF ReportsSpec, Spec

\* Hence its promises hold beside the runner, the supervisor and restarts.
THEOREM AlarmsStillHaveReasons == ReportsSpec => []AlarmMeansNews
  BY ReportsAreDetectors, AlarmsHaveReasons, PTL

THEOREM OutagesStillHideNothing == ReportsSpec => NewsSurvivesOutage
  BY ReportsAreDetectors, OutagesHideNothing, PTL

-----------------------------------------------------------------------------
(* the transcript *)

\* Check.Record keeps the length, adds the line at the end and shifts the rest.
LEMMA RecordShifts ==
  ASSUME NEW s \in Seq(Rounds), Len(s) <= Lines, NEW line \in Rounds
  PROVE  /\ Record(s, line) \in Seq(Rounds)
         /\ Len(Record(s, line)) = IF Len(s) < Lines THEN Len(s) + 1 ELSE Lines
         /\ \A i \in 1..Len(Record(s, line)) :
              Record(s, line)[i] =
                IF i = Len(Record(s, line))
                THEN line
                ELSE s[i + Len(s) + 1 - Len(Record(s, line))]
<1>1. CASE Len(s) < Lines
  BY <1>1 DEF Record
<1>2. CASE Len(s) = Lines
  <2>1. Tail(s) \in Seq(Rounds) /\ Len(Tail(s)) = Lines - 1
    BY <1>2
  <2>2. \A i \in 1..Lines - 1 : Tail(s)[i] = s[i + 1]
    BY <1>2
  <2> QED
    BY <1>2, <2>1, <2>2 DEF Record
<1> QED
  BY <1>1, <1>2

\* The last round that is in the transcript, if any is.
Last == IF pc = "v4" THEN round - 1 ELSE round

\* Without a gap up to the last round.
Unbroken ==
  /\ Len(transcript) <= Lines
  /\ Len(transcript) <= Last
  /\ \A i \in 1..Len(transcript) : transcript[i] = Last - Len(transcript) + i
  /\ pc \in {"sleeping", "sending"} => Len(transcript) > 0

\* The line of round n is there, or the transcript is full of newer ones.
Covers(n) == n <= Last /\ (Len(transcript) = Lines \/ n > Last - Len(transcript))

\* What the alert about the event shows of its round's line.
ShowsLine(event) ==
  \/ <<"line", event.round>> \in text
  \/ \E n \in Rounds :
       n > event.round /\ \A r \in n..n + Lines - 1 : <<"line", r>> \in text

\* A report on the family of round n or later.
Kept(f, n) == \E r \in Rounds : r >= n /\ <<f, r>> \in details[f]

Shows(f, event) == \E r \in Rounds : r >= event.round /\ <<f, r>> \in text

\* No event is ahead of the rounds, and only the relay test accuses.
Plausible(event) == event.round <= Last /\ (event.accused # {} => watched = "external")

Places ==
  /\ watched = "external" => sup # "composing"
  /\ watched # "external" => sup \notin Families /\ pc # "v6"
  /\ pc = "v4" => round > 0
  /\ accused # {} => watched = "external"
  /\ pc = "v4" => cost = 0 /\ accused = {}
  /\ pc = "v6" => cost \in 0..1
  /\ \A i \in DOMAIN events : Plausible(events[i])
  /\ Plausible(carried)

\* The reports behind the accusations, from the round to the alert.
ReportsAreKept ==
  /\ \A f \in accused : <<f, round>> \in details[f]
  /\ \A i \in DOMAIN events : \A f \in events[i].accused : Kept(f, events[i].round)
  /\ \A f \in carried.accused : Kept(f, carried.round)
  /\ "v4" \in carried.accused /\ sup \in {"v6", "alerting"} => Shows("v4", carried)
  /\ "v6" \in carried.accused /\ sup = "alerting" => Shows("v6", carried)

\* The lines behind an alert of acme, on the same way.
LinesAreKept ==
  watched # "external" =>
    /\ Unbroken
    /\ \A i \in DOMAIN events : Covers(events[i].round)
    /\ sup = "composing" => Covers(carried.round)
    /\ watched = "acme" /\ sup = "alerting" => ShowsLine(carried)

ReportsInv == ReportsTypeOK /\ Places /\ ReportsAreKept /\ LinesAreKept

-----------------------------------------------------------------------------
LEMMA ReportsInitInv == ReportsInit => ReportsInv
<1> SUFFICES ASSUME ReportsInit PROVE ReportsInv
  OBVIOUS
<1> USE DEF ReportsInit, NoEvent, Event, Rounds, Families
<1>1. ReportsTypeOK
  <2>1. details \in [Families -> Texts]
    BY DEF Texts
  <2>2. transcript \in Seq(Rounds) /\ events \in Seq(Event)
    OBVIOUS
  <2>3. carried \in Event /\ text \in Texts /\ accused \subseteq Families
    BY DEF Texts
  <2>4. doomed \in BOOLEAN
    OBVIOUS
  <2> QED
    BY <2>1, <2>2, <2>3, <2>4 DEF ReportsTypeOK
<1>2. Places
  BY DEF Places, Plausible, Last
<1>3. ReportsAreKept
  BY DEF ReportsAreKept
<1>4. LinesAreKept
  BY DEF LinesAreKept, Unbroken, Last
<1> QED
  BY <1>1, <1>2, <1>3, <1>4 DEF ReportsInv

LEMMA SpendIsNat == ASSUME NEW e \in Nat, NEW w \in Nat PROVE Spend(e, w) \in Nat
  BY DEF Spend, AtLeastZero

\* The types are kept by every step.
LEMMA ReportsTypesKept == ReportsInv /\ [ReportsNext]_allVars => ReportsTypeOK'
<1> SUFFICES ASSUME ReportsInv, [ReportsNext]_allVars PROVE ReportsTypeOK'
  OBVIOUS
<1> USE DEF ReportsInv, ReportsTypeOK, Families
<1>1. CASE Begin
  BY <1>1 DEF Begin, memory, handler, Rounds
<1>2. CASE Reads
  <2>1. doomed' \in BOOLEAN /\ err' \in Nat /\ cost' \in 0..1 /\ pc' = "sleeping"
    <3>1. cost' \in 0..1
      BY <1>2 DEF Reads
    <3>2. err' \in Nat
      <4>1. err' = Spend(err, cost') /\ err \in Nat
        BY <1>2 DEF Reads, Account
      <4>2. \A w \in Nat : Spend(err, w) \in Nat
        BY <4>1, SpendIsNat
      <4>3. cost' \in Nat
        BY <3>1
      <4> QED
        BY <4>1, <4>2, <4>3
    <3>3. doomed' \in BOOLEAN /\ pc' = "sleeping"
      BY <1>2 DEF Reads, Account, Dead
    <3> QED
      BY <3>1, <3>2, <3>3
  <2>2. transcript' \in Seq(Rounds)
    BY <1>2 DEF Reads, Record
  <2> QED
    BY <1>2, <2>1, <2>2 DEF Reads, handler
<1>3. ASSUME NEW f \in Families, Asks(f) PROVE ReportsTypeOK'
  <2>1. cost' \in 0..2 /\ accused' \subseteq Families
    <3>1. pc = f /\ cost' \in {cost, cost + 1} /\ accused' \in {accused, accused \cup {f}}
      BY <1>3 DEF Asks
    <3>2. cost \in 0..1
      BY <3>1 DEF Places
    <3> QED
      BY <3>1, <3>2
  <2>2. doomed' \in BOOLEAN /\ err' \in Nat /\ pc' \in {"v6", "sleeping"}
    <3>1. CASE f = "v4"
      BY <1>3, <3>1 DEF Asks
    <3>2. CASE f # "v4"
      <4>0. err' = Spend(err, cost') /\ err \in Nat
        BY <1>3, <3>2 DEF Asks, Account
      <4>1. err' \in Nat
        <5>1. \A w \in Nat : Spend(err, w) \in Nat
          BY <4>0, SpendIsNat
        <5>2. cost' \in Nat
          BY <2>1
        <5> QED
          BY <4>0, <5>1, <5>2
      <4> QED
        BY <1>3, <3>2, <4>1 DEF Asks, Account, Dead
    <3> QED
      BY <3>1, <3>2
  <2>3. details' \in [Families -> Texts]
    BY <1>3 DEF Asks, SetDetails, Texts
  <2> QED
    BY <1>3, <2>1, <2>2, <2>3 DEF Asks, handler
<1>4. CASE Wake
  BY <1>4 DEF Wake, memory, handler
<1>5. CASE Send
  BY <1>5 DEF Send, memory, handler, Event
<1>6. CASE Surroundings
  BY <1>6 DEF Surroundings, runner, memory, handler
<1>7. CASE Receive
  BY <1>7 DEF Receive, Handles, runner, memory
<1>8. CASE ReadTranscript
  <2>1. text' \in Texts
    BY <1>8 DEF ReadTranscript, Texts
  <2> QED
    BY <1>8, <2>1 DEF ReadTranscript, Handles, runner, memory
<1>9. ASSUME NEW f \in Families, ReadDetails(f) PROVE ReportsTypeOK'
  <2>1. text' \in Texts
    BY <1>9 DEF ReadDetails, Texts
  <2> QED
    BY <1>9, <2>1 DEF ReadDetails, Handles, runner, memory
<1>10. CASE Alert
  BY <1>10 DEF Alert, Handles, runner, memory, NoEvent, Event, Rounds, Texts
<1>11. CASE StartAgain
  <2>1. details' \in [Families -> Texts]
    BY <1>11 DEF StartAgain, Texts
  <2>2. transcript' \in Seq(Rounds) /\ events' \in Seq(Event)
    BY <1>11 DEF StartAgain
  <2>3. carried' \in Event /\ text' \in Texts
    BY <1>11 DEF StartAgain, NoEvent, Event, Rounds, Texts
  <2>4. /\ UNCHANGED <<watched, round>> /\ pc' = "begin" /\ sup' = "select"
        /\ err' = 0 /\ cost' = 0 /\ doomed' = FALSE /\ accused' = {}
    BY <1>11 DEF StartAgain
  <2>5. /\ watched' \in {"ratelimit", "acme", "external"} /\ round' \in Rounds
        /\ err' \in Nat /\ cost' \in 0..2 /\ accused' \subseteq Families
    BY <2>4
  <2>6. doomed' \in BOOLEAN
    BY <2>4
  <2> QED
    BY <2>1, <2>2, <2>3, <2>4, <2>5, <2>6
<1>12. CASE Quiet \/ UNCHANGED allVars
  BY <1>12 DEF Quiet, allVars, runner, memory, handler
<1> QED
  BY <1>1, <1>2, <1>3, <1>4, <1>5, <1>6, <1>7, <1>8, <1>9, <1>10, <1>11, <1>12 DEF ReportsNext

\* So are the places, and what an event may look like.
LEMMA PlacesKept == ReportsInv /\ [ReportsNext]_allVars => Places'
<1> SUFFICES ASSUME ReportsInv, [ReportsNext]_allVars PROVE Places'
  OBVIOUS
<1> USE DEF Places, Plausible, Last, Families
<1>t. /\ Places /\ round \in Nat /\ events \in Seq(Event) /\ carried \in Event
      /\ \A e \in Event : e.round \in Nat
      /\ pc \in Families \cup {"begin", "sleeping", "sending"} /\ accused \subseteq Families
  BY DEF ReportsInv, ReportsTypeOK, Event, Rounds
<1>1. CASE Begin
  BY <1>1, <1>t DEF Begin, handler
<1>2. CASE Reads
  BY <1>2, <1>t DEF Reads, Account, handler
<1>3. ASSUME NEW f \in Families, Asks(f) PROVE Places'
  <2>1. CASE f = "v4"
    BY <1>3, <1>t, <2>1 DEF Asks, handler
  <2>2. CASE f # "v4"
    BY <1>3, <1>t, <2>2 DEF Asks, Account, handler
  <2> QED
    BY <2>1, <2>2
<1>4. CASE Wake
  BY <1>4, <1>t DEF Wake, handler
<1>5. CASE Send
  <2>1. pc = "sending" /\ pc' = "begin"
    BY <1>5 DEF Send
  <2>2. \A i \in DOMAIN events' : Plausible(events'[i])
    BY <1>5, <1>t DEF Send
  <2> QED
    BY <1>5, <1>t, <2>1, <2>2 DEF Send, handler
<1>6. CASE Surroundings
  BY <1>6, <1>t DEF Surroundings, runner, handler
<1>7. CASE Receive
  <2>1. /\ Len(events) > 0 /\ events' = Tail(events)
        /\ carried' = events[1] /\ carried' \in Event
    BY <1>7, <1>t DEF Receive
  <2>2. \A i \in DOMAIN events' : i + 1 \in DOMAIN events /\ events'[i] = events[i + 1]
    BY <1>t, <2>1
  <2> QED
    BY <1>7, <1>t, <2>1, <2>2 DEF Receive, Handles, runner
<1>8. CASE ReadTranscript
  BY <1>8, <1>t DEF ReadTranscript, Handles, runner
<1>9. ASSUME NEW f \in Families, ReadDetails(f) PROVE Places'
  BY <1>9, <1>t DEF ReadDetails, Handles, runner
<1>10. CASE Alert
  BY <1>10, <1>t DEF Alert, Handles, runner, NoEvent
<1>11. CASE StartAgain
  BY <1>11, <1>t DEF StartAgain, NoEvent
<1>12. CASE Quiet \/ UNCHANGED allVars
  BY <1>12, <1>t DEF Quiet, allVars, runner, handler
<1> QED
  BY <1>1, <1>2, <1>3, <1>4, <1>5, <1>6, <1>7, <1>8, <1>9, <1>10, <1>11, <1>12 DEF ReportsNext

\* So are the reports: one on a family gives way to a newer one on that family.
LEMMA ReportsKept == ReportsInv /\ [ReportsNext]_allVars => ReportsAreKept'
<1> SUFFICES ASSUME ReportsInv, [ReportsNext]_allVars PROVE ReportsAreKept'
  OBVIOUS
<1> USE DEF ReportsAreKept, Kept, Shows
<1>t. /\ ReportsAreKept /\ Places
      /\ round \in Rounds /\ Rounds \subseteq Nat /\ events \in Seq(Event) /\ carried \in Event
      /\ \A e \in Event : e.round \in Rounds /\ e.accused \subseteq Families
      /\ details \in [Families -> Texts] /\ accused \subseteq Families
  <2>1. \A e \in Event : e.round \in Rounds /\ e.accused \subseteq Families
    BY DEF Event
  <2>2. Rounds \subseteq Nat
    BY DEF Rounds
  <2>3. ReportsTypeOK /\ Places /\ ReportsAreKept
    BY DEF ReportsInv
  <2> QED
    BY <2>1, <2>2, <2>3 DEF ReportsTypeOK
<1>1. CASE Begin
  BY <1>1, <1>t DEF Begin, memory, handler
<1>2. CASE Reads
  BY <1>2, <1>t DEF Reads, handler
<1>3. ASSUME NEW f \in Families, Asks(f) PROVE ReportsAreKept'
  <2>1. /\ round' = round /\ UNCHANGED <<events, sup, carried, text>>
        /\ accused' \in {accused, accused \cup {f}}
        /\ details' \in {details, [details EXCEPT ![f] = {<<f, round>>}]}
        /\ accused' # accused => details' = [details EXCEPT ![f] = {<<f, round>>}]
    BY <1>3 DEF Asks, SetDetails, handler
  <2>2. \A g \in accused' : <<g, round>> \in details'[g]
    BY <1>t, <2>1
  <2>3. ASSUME NEW g \in Families, NEW n \in Nat, n <= round, Kept(g, n) PROVE Kept(g, n)'
    BY <1>t, <2>1, <2>3
  <2>4. \A i \in DOMAIN events : events[i].round \in Nat /\ events[i].round <= round
    BY <1>t DEF Places, Plausible, Last, Rounds
  <2>5. carried.round \in Nat /\ carried.round <= round
    BY <1>t DEF Places, Plausible, Last, Rounds
  <2>6. \A i \in DOMAIN events : events[i] \in Event
    BY <1>t
  <2>7. \A i \in DOMAIN events' : \A g \in events'[i].accused : Kept(g, events[i].round)'
    BY <1>t, <2>1, <2>3, <2>4, <2>6
  <2>8. \A g \in carried.accused : Kept(g, carried.round)'
    BY <1>t, <2>1, <2>3, <2>5
  <2> QED
    BY <1>t, <2>1, <2>2, <2>7, <2>8
<1>4. CASE Wake
  BY <1>4, <1>t DEF Wake, memory, handler
<1>5. CASE Send
  <2>1. /\ events' = Append(events, [round |-> round, accused |-> accused])
        /\ UNCHANGED <<round, accused, details, sup, carried, text>>
    BY <1>5 DEF Send, memory, handler
  <2>2. \A f \in accused : Kept(f, round)
    BY <1>t
  <2>3. \A i \in DOMAIN events' :
          \/ i \in DOMAIN events /\ events'[i] = events[i]
          \/ events'[i] = [round |-> round, accused |-> accused]
    BY <1>t, <2>1
  <2>4. ASSUME NEW i \in DOMAIN events', NEW f \in events'[i].accused
        PROVE Kept(f, events'[i].round)
    <3>1. CASE i \in DOMAIN events /\ events'[i] = events[i]
      BY <1>t, <3>1
    <3>2. CASE events'[i] = [round |-> round, accused |-> accused]
      BY <2>2, <3>2
    <3> QED
      BY <2>3, <3>1, <3>2
  <2> QED
    BY <1>t, <2>1, <2>4
<1>6. CASE Surroundings
  BY <1>6, <1>t DEF Surroundings, runner, memory, handler
<1>7. CASE Receive
  <2>1. /\ Len(events) > 0 /\ events' = Tail(events)
        /\ carried' = events[1] /\ sup' \in {"v4", "composing"}
        /\ UNCHANGED <<round, accused, details, text>>
    BY <1>7, <1>t DEF Receive, Handles, runner, memory
  <2>2. \A i \in DOMAIN events' : i + 1 \in DOMAIN events /\ events'[i] = events[i + 1]
    BY <1>t, <2>1
  <2> QED
    BY <1>t, <2>1, <2>2
<1>8. CASE ReadTranscript
  <2>1. /\ sup = "composing" /\ sup' = "alerting"
        /\ UNCHANGED <<round, accused, details, carried, events>>
    BY <1>8 DEF ReadTranscript, Handles, runner, memory
  <2>2. carried.accused = {}
    BY <1>t, <2>1 DEF Places, Plausible
  <2> QED
    BY <1>t, <2>1, <2>2
<1>9. ASSUME NEW f \in Families, ReadDetails(f) PROVE ReportsAreKept'
  <2>1. /\ sup = f /\ sup' = (IF f = "v4" THEN "v6" ELSE "alerting")
        /\ text' = text \cup details[f]
        /\ UNCHANGED <<round, accused, details, carried, events>>
    BY <1>9 DEF ReadDetails, Handles, runner, memory
  <2>2. f \in carried.accused => Shows(f, carried)'
    BY <1>t, <2>1
  <2>3. \A g \in Families : Shows(g, carried) => Shows(g, carried)'
    BY <2>1
  <2> QED
    BY <1>t, <2>1, <2>2, <2>3 DEF Families
<1>10. CASE Alert
  BY <1>10, <1>t DEF Alert, Handles, runner, memory, NoEvent
<1>11. CASE StartAgain
  BY <1>11, <1>t DEF StartAgain, NoEvent
<1>12. CASE Quiet \/ UNCHANGED allVars
  BY <1>12, <1>t DEF Quiet, allVars, runner, memory, handler
<1> QED
  BY <1>1, <1>2, <1>3, <1>4, <1>5, <1>6, <1>7, <1>8, <1>9, <1>10, <1>11, <1>12 DEF ReportsNext

\* So are the lines: the transcript stays an unbroken run up to the last round.
LEMMA LinesKept == ReportsInv /\ [ReportsNext]_allVars => LinesAreKept'
<1> SUFFICES ASSUME ReportsInv, [ReportsNext]_allVars, watched # "external" PROVE LinesAreKept'
  BY DEF ReportsNext, Surroundings, Begin, Reads, Wake, Send, Receive, ReadTranscript, Alert,
    Asks, ReadDetails, StartAgain, Quiet, allVars, Handles, LinesAreKept
<1>t. /\ Unbroken /\ Places
      /\ \A i \in DOMAIN events : Covers(events[i].round)
      /\ sup = "composing" => Covers(carried.round)
      /\ watched = "acme" /\ sup = "alerting" => ShowsLine(carried)
  BY DEF ReportsInv, LinesAreKept
<1>s. /\ round \in Nat /\ round <= MaxRounds /\ transcript \in Seq(Rounds)
      /\ events \in Seq(Event) /\ carried \in Event
      /\ pc \in Families \cup {"begin", "sleeping", "sending"}
  BY DEF ReportsInv, ReportsTypeOK, Rounds
<1>e. \A e \in Event : e.round \in Nat
  BY DEF Event, Rounds
<1> USE DEF LinesAreKept
<1>1. CASE Begin
  <2>1. /\ pc = "begin" /\ pc' = "v4" /\ round' = round + 1
        /\ UNCHANGED <<transcript, events, sup, carried, text, watched>>
    BY <1>1 DEF Begin, memory, handler
  <2>2. Last' = Last
    BY <1>s, <2>1 DEF Last
  <2> QED
    BY <1>t, <2>1, <2>2 DEF Unbroken, Covers, ShowsLine
<1>2. CASE Reads
  <2>1. /\ pc = "v4" /\ pc' = "sleeping" /\ round' = round
        /\ transcript' = Record(transcript, round)
        /\ UNCHANGED <<events, sup, carried, text, watched>>
    BY <1>2 DEF Reads, Account, handler
  <2>2. Last = round - 1 /\ Last' = round /\ round > 0 /\ round \in Rounds
    BY <1>s, <1>t, <2>1 DEF Last, Places, Rounds
  <2>3. Len(transcript) \in Nat /\ Len(transcript) <= Lines /\ Len(transcript) <= round - 1
    BY <1>s, <1>t, <2>2 DEF Unbroken
  <2>4. /\ Len(transcript') = IF Len(transcript) < Lines THEN Len(transcript) + 1 ELSE Lines
        /\ \A i \in 1..Len(transcript') :
             transcript'[i] =
               IF i = Len(transcript')
               THEN round
               ELSE transcript[i + Len(transcript) + 1 - Len(transcript')]
    BY <1>s, <2>1, <2>2, <2>3, RecordShifts
  <2>5. \A i \in 1..Len(transcript') : transcript'[i] = round - Len(transcript') + i
    <3> SUFFICES ASSUME NEW i \in 1..Len(transcript')
        PROVE transcript'[i] = round - Len(transcript') + i
      OBVIOUS
    <3>1. CASE i = Len(transcript')
      <4>1. transcript'[i] = round
        BY <2>4, <3>1
      <4>2. Len(transcript') \in Nat
        BY <2>3, <2>4
      <4> QED
        BY <1>s, <3>1, <4>1, <4>2
    <3>2. CASE i # Len(transcript')
      <4>1. i + Len(transcript) + 1 - Len(transcript') \in 1..Len(transcript)
        BY <2>3, <2>4, <3>2
      <4>2. transcript'[i] = transcript[i + Len(transcript) + 1 - Len(transcript')]
        BY <2>4, <3>2
      <4>3. \A j \in 1..Len(transcript) : transcript[j] = round - 1 - Len(transcript) + j
        BY <1>t, <2>2 DEF Unbroken
      <4>4. transcript'[i] =
              round - 1 - Len(transcript) + (i + Len(transcript) + 1 - Len(transcript'))
        BY <4>1, <4>2, <4>3
      <4> QED
        BY <1>s, <2>3, <2>4, <4>4
    <3> QED
      BY <3>1, <3>2
  <2>6. Unbroken'
    BY <1>s, <2>1, <2>2, <2>3, <2>4, <2>5 DEF Unbroken
  <2>7. \A n \in Nat : Covers(n) => Covers(n)'
    BY <1>s, <2>2, <2>3, <2>4 DEF Covers
  <2>8. \A i \in DOMAIN events : events[i].round \in Nat
    BY <1>s, <1>e
  <2> QED
    BY <1>t, <1>s, <1>e, <2>1, <2>6, <2>7, <2>8 DEF ShowsLine
<1>3. ASSUME NEW f \in Families, Asks(f) PROVE LinesAreKept'
  BY <1>3 DEF Asks
<1>4. CASE Wake
  <2>1. /\ pc = "sleeping" /\ pc' \in {"begin", "sending"} /\ round' = round
        /\ UNCHANGED <<transcript, events, sup, carried, text, watched>>
    BY <1>4 DEF Wake, memory, handler
  <2> QED
    BY <1>t, <2>1 DEF Unbroken, Covers, ShowsLine, Last
<1>5. CASE Send
  <2>1. /\ pc = "sending" /\ pc' = "begin" /\ round' = round
        /\ events' = Append(events, [round |-> round, accused |-> accused])
        /\ UNCHANGED <<transcript, sup, carried, text, watched>>
    BY <1>5 DEF Send, memory, handler
  <2>2. Last' = Last /\ Last = round
    BY <2>1 DEF Last
  <2>3. Covers(round)
    BY <1>s, <1>t, <2>1, <2>2 DEF Covers, Unbroken
  <2>4. \A i \in DOMAIN events' :
          \/ i \in DOMAIN events /\ events'[i] = events[i]
          \/ events'[i] = [round |-> round, accused |-> accused]
    BY <1>s, <2>1
  <2>5. \A i \in DOMAIN events' : Covers(events'[i].round)
    BY <1>t, <2>3, <2>4
  <2>6. \A n : Covers(n) => Covers(n)'
    BY <2>1, <2>2 DEF Covers
  <2> QED
    BY <1>t, <2>1, <2>2, <2>5, <2>6 DEF Unbroken, ShowsLine, Covers
<1>6. CASE Surroundings
  BY <1>6, <1>t DEF Surroundings, runner, memory, handler, Unbroken, Covers, ShowsLine, Last
<1>7. CASE Receive
  <2>1. /\ Len(events) > 0 /\ events' = Tail(events) /\ carried' = events[1]
        /\ sup' = "composing"
        /\ UNCHANGED <<round, pc, transcript, text, watched>>
    BY <1>7, <1>s DEF Receive, Handles, runner, memory
  <2>2. \A i \in DOMAIN events' : i + 1 \in DOMAIN events /\ events'[i] = events[i + 1]
    BY <1>s, <2>1
  <2>3. 1 \in DOMAIN events
    BY <1>s, <2>1
  <2> QED
    BY <1>t, <2>1, <2>2, <2>3 DEF Unbroken, Covers, Last
<1>8. CASE ReadTranscript
  <2>1. /\ sup = "composing" /\ sup' = "alerting"
        /\ watched = "acme" => text' = {<<"line", transcript[i]>> : i \in DOMAIN transcript}
        /\ UNCHANGED <<round, pc, transcript, events, carried, watched>>
    BY <1>8 DEF ReadTranscript, Handles, runner, memory
  <2>2. ASSUME watched = "acme" PROVE ShowsLine(carried)'
    <3> DEFINE len == Len(transcript)
               n == carried.round
    <3>1. /\ len \in Nat /\ DOMAIN transcript = 1..len /\ Last \in Int /\ n \in Nat
          /\ len <= Last /\ Last <= MaxRounds /\ Covers(n)
          /\ \A i \in 1..len : transcript[i] = Last - len + i
      BY <1>s, <1>e, <1>t, <2>1 DEF Unbroken, Last
    <3>2. \A i \in 1..len : <<"line", Last - len + i>> \in text'
      BY <2>1, <2>2, <3>1
    <3>3. CASE n > Last - len
      <4>1. n - Last + len \in 1..len /\ Last - len + (n - Last + len) = n
        BY <3>1, <3>3 DEF Covers
      <4>2. <<"line", Last - len + (n - Last + len)>> \in text'
        BY <3>2, <4>1
      <4> QED
        BY <2>1, <4>1, <4>2 DEF ShowsLine
    <3>4. CASE len = Lines /\ n <= Last - len
      <4>1. Last - len + 1 \in Rounds /\ Last - len + 1 > n
        BY <3>1, <3>4 DEF Rounds
      <4>2. ASSUME NEW r \in Last - len + 1..Last - len + 1 + Lines - 1
            PROVE <<"line", r>> \in text'
        <5>1. r - Last + len \in 1..len /\ Last - len + (r - Last + len) = r
          BY <3>1, <3>4, <4>2
        <5>2. <<"line", Last - len + (r - Last + len)>> \in text'
          BY <3>2, <5>1
        <5> QED
          BY <5>1, <5>2
      <4> QED
        BY <2>1, <4>1, <4>2 DEF ShowsLine
    <3> QED
      BY <3>1, <3>3, <3>4 DEF Covers
  <2> QED
    BY <1>t, <2>1, <2>2 DEF Unbroken, Covers, Last
<1>9. ASSUME NEW f \in Families, ReadDetails(f) PROVE LinesAreKept'
  BY <1>9, <1>t DEF ReadDetails, Places
<1>10. CASE Alert
  BY <1>10, <1>t DEF Alert, Handles, runner, memory, Unbroken, Covers, Last
<1>11. CASE StartAgain
  <2>1. /\ pc' = "begin" /\ round' = round /\ transcript' = <<>> /\ events' = <<>>
        /\ sup' = "select" /\ watched' = watched
    BY <1>11 DEF StartAgain
  <2> QED
    BY <1>s, <2>1 DEF Unbroken, Last
<1>12. CASE Quiet \/ UNCHANGED allVars
  BY <1>12, <1>t DEF Quiet, allVars, runner, memory, handler, Unbroken, Covers, ShowsLine, Last
<1> QED
  BY <1>1, <1>2, <1>3, <1>4, <1>5, <1>6, <1>7, <1>8, <1>9, <1>10, <1>11, <1>12 DEF ReportsNext

LEMMA ReportsInvKept == ReportsInv /\ [ReportsNext]_allVars => ReportsInv'
  BY ReportsTypesKept, PlacesKept, ReportsKept, LinesKept DEF ReportsInv

\* The state of the check, its runner and the supervisor keeps its types.
THEOREM ReportsTypeCorrect == ReportsSpec => []ReportsTypeOK
<1>1. ReportsInv => ReportsTypeOK
  BY DEF ReportsInv
<1> QED
  BY ReportsInitInv, ReportsInvKept, <1>1, PTL DEF ReportsSpec

\* For any channel and length of the transcript: an alert shows what raised it,
\* however late the supervisor gets to it.
THEOREM AlertsShowTheirCause == ReportsSpec => []AlertShowsItsCause
<1>1. ReportsInv => AlertShowsItsCause
  <2> SUFFICES ASSUME ReportsInv, sup = "alerting" PROVE AlertShowsItsCause
    BY DEF AlertShowsItsCause
  <2>1. \A f \in carried.accused : Shows(f, carried)
    BY DEF ReportsInv, ReportsAreKept, ReportsTypeOK, Event, Families
  <2>2. watched = "acme" => ShowsLine(carried)
    BY DEF ReportsInv, LinesAreKept
  <2> QED
    BY <2>1, <2>2 DEF AlertShowsItsCause, Shows, ShowsLine
<1> QED
  BY ReportsInitInv, ReportsInvKept, <1>1, PTL DEF ReportsSpec
=============================================================================
