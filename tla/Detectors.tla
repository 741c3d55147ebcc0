----------------------------- MODULE Detectors ------------------------------
(****************************************************************************)
(* internal/probe/redis.go: the probes that remember their last reading and *)
(* alarm on a change, Ratelimit (the newest entry of RL_LOG) and            *)
(* RedisChange (ACME_FAIL_TIME).  Redis loses its data or does not answer,  *)
(* and the watchdog is started again, at any moment.                        *)
(****************************************************************************)
CONSTANTS Ids,          \* queue ids, and whole records that do not parse
          Stamps        \* values of ACME_FAIL_TIME

Empty == "empty"        \* "": of a list, of a key that does not exist, of no queue id
NoQid == "no qid"       \* a record that parses but has no queue id
Never == "never"        \* no good reading since the process began

ASSUME DetectorsAssumption ==
  /\ {Empty, NoQid, Never} \cap Ids = {}
  /\ {Empty, Never} \cap Stamps = {}

VARIABLES head,         \* the newest record of RL_LOG
          stamp,        \* ACME_FAIL_TIME
          rl, acme,     \* Ratelimit's and RedisChange's fields
          verdict,      \* what the last round of each said
          news,         \* history: what has happened since the last good reading
          grounds,      \* history: what had happened when it was taken
          read          \* history: what it read

vars == <<head, stamp, rl, acme, verdict, news, grounds, read>>

Said == {"none", "ok", "critical", "unknown"}

Happenings == [rl : SUBSET {"limit", "flush"}, acme : SUBSET {"failure", "loss"}]

TypeOK ==
  /\ head \in Ids \cup {NoQid, Empty}
  /\ stamp \in Stamps \cup {Empty}
  /\ rl \in [seeded : BOOLEAN, last : Ids \cup {Empty}]
  /\ acme \in [seeded : BOOLEAN, last : Stamps \cup {Empty}]
  /\ verdict \in [rl : Said, acme : Said]
  /\ news \in Happenings /\ grounds \in Happenings
  /\ read \in [rl : Ids \cup {NoQid, Empty, Never}, acme : Stamps \cup {Empty, Never}]

Unseeded == [seeded |-> FALSE, last |-> Empty]

Init ==
  /\ head \in Ids \cup {NoQid, Empty} /\ stamp \in Stamps \cup {Empty}
  /\ rl = Unseeded /\ acme = Unseeded
  /\ verdict = [rl |-> "none", acme |-> "none"]
  /\ news = [rl |-> {}, acme |-> {}] /\ grounds = news
  /\ read = [rl |-> Never, acme |-> Never]

-----------------------------------------------------------------------------
(* Redis and those who write to it *)

Happens(probe, what) ==
  /\ news' = [news EXCEPT ![probe] = @ \cup {what}]
  /\ UNCHANGED <<rl, acme, verdict, grounds, read>>

Limit(record) == head' = record /\ UNCHANGED stamp /\ Happens("rl", "limit")

Flush == head # Empty /\ head' = Empty /\ UNCHANGED stamp /\ Happens("rl", "flush")

Failure(s) == s # stamp /\ stamp' = s /\ UNCHANGED head /\ Happens("acme", "failure")

Loss == stamp # Empty /\ stamp' = Empty /\ UNCHANGED head /\ Happens("acme", "loss")

-----------------------------------------------------------------------------
(* rounds *)

\* A record without a queue id cannot be told from none.
QueueID(record) == IF record = NoQid THEN Empty ELSE record

GoodReading(probe, what, v) ==
  /\ verdict' = [verdict EXCEPT ![probe] = v]
  /\ grounds' = [grounds EXCEPT ![probe] = news[probe]]
  /\ news' = [news EXCEPT ![probe] = {}]
  /\ read' = [read EXCEPT ![probe] = what]
  /\ UNCHANGED <<head, stamp>>

\* The shell's comparison, which took an emptied list for a new limit.
RatelimitAsShell ==
  /\ rl' = [seeded |-> TRUE, last |-> QueueID(head)]
  /\ GoodReading("rl", head,
       IF ~rl.seeded \/ rl.last = QueueID(head) THEN "ok" ELSE "critical")
  /\ UNCHANGED acme

\* Ratelimit.Run on an answer.
Ratelimit ==
  /\ rl' = [seeded |-> TRUE, last |-> QueueID(head)]
  /\ GoodReading("rl", head,
       IF head = Empty \/ ~rl.seeded \/ rl.last = QueueID(head) THEN "ok" ELSE "critical")
  /\ UNCHANGED acme

\* RedisChange.Run on an answer; a missing key reads as "".
Change ==
  /\ acme' = [seeded |-> TRUE, last |-> stamp]
  /\ GoodReading("acme", stamp,
       IF ~acme.seeded \/ acme.last = stamp THEN "ok" ELSE "critical")
  /\ UNCHANGED rl

\* A failed reading that makes the next one seed again.
NoReadingReseeds(probe) ==
  /\ verdict' = [verdict EXCEPT ![probe] = "unknown"]
  /\ rl' = Unseeded /\ acme' = Unseeded
  /\ UNCHANGED <<head, stamp, news, grounds, read>>

NoReading(probe) ==
  /\ verdict' = [verdict EXCEPT ![probe] = "unknown"]
  /\ UNCHANGED <<head, stamp, rl, acme, news, grounds, read>>

\* The process ends and is started again: the probes' memory is gone.
Restart ==
  /\ rl' = Unseeded /\ acme' = Unseeded
  /\ verdict' = [rl |-> "none", acme |-> "none"]
  /\ read' = [rl |-> Never, acme |-> Never]
  /\ UNCHANGED <<head, stamp, news, grounds>>

Next ==
  \/ \E record \in Ids \cup {NoQid} : Limit(record)
  \/ Flush
  \/ \E s \in Stamps : Failure(s)
  \/ Loss
  \/ Ratelimit \/ Change
  \/ \E probe \in {"rl", "acme"} : NoReading(probe)
  \/ Restart

Spec == Init /\ [][Next]_vars

-----------------------------------------------------------------------------
\* An alarm has a reason since the last good reading: a rate limit was applied,
\* whatever was flushed before or after; a certificate request failed, or its
\* record was lost, which the probe cannot tell from a failure.
AlarmMeansNews ==
  /\ verdict.rl = "critical" => "limit" \in grounds.rl
  /\ verdict.acme = "critical" => grounds.acme # {}

\* News that falls into an outage of Redis is told at the next good reading:
\* one that differs from the last good one of the same process alarms.
NewsSurvivesOutage ==
  [][/\ Ratelimit /\ read.rl # Never /\ head \in Ids \ {read.rl} => verdict'.rl = "critical"
     /\ Change /\ read.acme \notin {Never, stamp} => verdict'.acme = "critical"]_vars

\* The invariant behind both: what the probes remember is the last good
\* reading, and it still stands unless something has happened since.
MemoryIsTheLastReading ==
  /\ (rl.seeded <=> read.rl # Never) /\ (acme.seeded <=> read.acme # Never)
  /\ rl.seeded => rl.last = QueueID(read.rl) /\ (news.rl = {} => head = read.rl)
  /\ acme.seeded => acme.last = read.acme /\ (news.acme = {} => stamp = read.acme)
  /\ "limit" \notin news.rl /\ rl.seeded => head \in {read.rl, Empty}
=============================================================================
