---------------------------- MODULE SessionProofs ---------------------------
(****************************************************************************)
(* Theorems about Session, for any containers, addresses and probes.  An    *)
(* address comes from the current list, so the service has it at that       *)
(* moment.  What the options demand is a step of the script that only the   *)
(* wanted answer gets past; mail steps come after the handshake.            *)
(****************************************************************************)
EXTENDS Session, SequenceTheorems, TLAPS

USE SessionAssumption

-----------------------------------------------------------------------------
(* Scripts: what a conversation has still to do, as the invariant sees it.  *)

Outcomes == {"critical", "warning", "unknown", "next", "fallback", "more"}

Words ==
  Commands \cup Verbs \cup
  {"banner", "PING", "GET", "udp query", "tcp query", "scan", "ping", "query", "status"}

Plainly ==
  [what : Words, other : SUBSET Outcomes, gone : {"critical", "next"}, fallback : {<<>>}]

Steps ==
  [what : Words, other : SUBSET Outcomes, gone : {"critical", "next"}, fallback : Seq(Plainly)]

\* A step that only the wanted answer gets past.
Strict(step) == step.other \cap {"next", "fallback"} = {} /\ step.gone = "critical"

\* Whether step i of the script q will be on TLS, if the connection is at s.
SecureAt(q, s, i) == s \/ \E j \in 1..(i - 1) : q[j].what = "handshake"

\* The two alternatives the code has; none to TLS, and nothing after an
\* inspected certificate.
WellScripted(q) ==
  \A i \in 1..Len(q) :
    /\ q[i].what = "handshake" => Strict(q[i])
    /\ q[i].what = "certificate" => i = Len(q)
    /\ "fallback" \in q[i].other =>
         \/ q[i].what = "EHLO" /\ q[i].fallback = <<Step("HELO", {"critical"})>>
         \/ opts.kind = "dns" /\ q[i].what = "udp query" /\ q[i].fallback = <<Step("tcp query", {"critical"})>>

\* Mail waits for the upgrade.
MailAhead(q, s) ==
  opts.kind \in {"smtp", "lmtp"} /\ opts.startTLS =>
    \A i \in 1..Len(q) : q[i].what \in Mail(opts) => SecureAt(q, s, i) /\ ~opts.cert

\* What is demanded has been had or is still to come, with no way around it.
Outstanding(q, s, d) ==
  \E i \in 1..Len(q) :
    Strict(q[i]) /\ q[i].what = d[1] /\ (d[2] <=> SecureAt(q, s, i))

DemandsAhead(q, s, answered) ==
  \A d \in Demanded(opts) : d \in answered \/ Outstanding(q, s, d)

\* So has a greeting on the connection that counts.
Greetings == {<<"EHLO", opts.startTLS>>, <<"HELO", opts.startTLS>>}

GreetingAhead(q, s, answered) ==
  opts.kind = "smtp" =>
    \/ Greetings \cap answered # {}
    \/ \E i \in 1..Len(q) :
         /\ q[i].what = "EHLO" \/ (q[i].what = "HELO" /\ Strict(q[i]))
         /\ "next" \notin q[i].other /\ q[i].gone = "critical"
         /\ opts.startTLS <=> SecureAt(q, s, i)

Scripted(q, s, answered) ==
  /\ q \in Seq(Steps) /\ s \in BOOLEAN
  /\ WellScripted(q)
  /\ MailAhead(q, s)
  /\ DemandsAhead(q, s, answered)
  /\ GreetingAhead(q, s, answered)

\* Outside a conversation there is nothing to say and no connection.
Places ==
  /\ at = [b \in DOMAIN Boxes |-> at[b]]
  /\ todo \in Seq(Steps)
  /\ stage # "talking" => todo = <<>> /\ ~secure /\ chunks = 0
  /\ stage # "resting" => verdict = "none" /\ Reach \subseteq had

Inv ==
  /\ TypeOK
  /\ Places
  /\ FollowsTheContainer /\ MailOnlyInside /\ OkIsEarned
  /\ stage = "talking" => Scripted(todo, secure, got)

-----------------------------------------------------------------------------
(* The conversations.                                                       *)

LEMMA StepType ==
  ASSUME NEW what \in Words, NEW other \in SUBSET Outcomes
  PROVE  /\ Step(what, other) \in Plainly
         /\ Step(what, other) \in Steps
         /\ Step(what, other).what = what /\ Step(what, other).other = other
         /\ Step(what, other).gone = "critical" /\ Step(what, other).fallback = <<>>
  BY DEF Step, Steps, Plainly

LEMMA Joined ==
  ASSUME NEW q \in Seq(Steps), NEW r \in Seq(Steps)
  PROVE  /\ q \o r \in Seq(Steps)
         /\ Len(q \o r) = Len(q) + Len(r)
         /\ \A i \in 1..Len(q) : (q \o r)[i] = q[i]
         /\ \A i \in 1..Len(r) : (q \o r)[Len(q) + i] = r[i]
<1>1. Len(q) \in Nat /\ Len(r) \in Nat
  BY LenProperties
<1>2. /\ q \o r \in Seq(Steps)
      /\ Len(q \o r) = Len(q) + Len(r)
      /\ \A i \in 1 .. Len(q) + Len(r) :
           (q \o r)[i] = IF i <= Len(q) THEN q[i] ELSE r[i - Len(q)]
  BY ConcatProperties
<1> QED
  BY <1>1, <1>2

LEMMA Single ==
  ASSUME NEW step \in Steps
  PROVE  <<step>> \in Seq(Steps) /\ Len(<<step>>) = 1 /\ <<step>>[1] = step
  OBVIOUS

LEMMA OneOnly == \A i \in 1..1 : i = 1
  OBVIOUS

LEMMA Nothing == <<>> \in Seq(Steps) /\ Len(<<>>) = 0
  OBVIOUS

LEMMA OptionTypes ==
  ASSUME NEW o \in Probes
  PROVE  /\ o \in Options /\ OptionsFit(o)
         /\ DOMAIN o.commands = 1..Len(o.commands) /\ Len(o.commands) \in Nat
         /\ \A i \in 1..Len(o.commands) :
              /\ o.commands[i].send \in Commands
              /\ o.commands[i].graded \in BOOLEAN
<1>1. o \in Options /\ OptionsFit(o)
  OBVIOUS
<1>2. o.commands \in Seq([send : Commands, graded : BOOLEAN])
  BY <1>1 DEF Options
<1>3. DOMAIN o.commands = 1..Len(o.commands) /\ Len(o.commands) \in Nat
  BY <1>2, LenProperties
<1>4. ASSUME NEW i \in 1..Len(o.commands)
      PROVE  o.commands[i] \in [send : Commands, graded : BOOLEAN]
  BY <1>2, ElementOfSeq
<1> QED
  BY <1>1, <1>3, <1>4

\* SMTP.greet (smtp.go:122): one step, with HELO in its place for SMTP only.
LEMMA GreetShape ==
  ASSUME NEW o \in Probes
  PROVE  \E e \in Steps :
           /\ Greet(o) = <<e>> /\ Greet(o) \in Seq(Steps)
           /\ e.gone = "critical" /\ "next" \notin e.other
           /\ e.what \in {"LHLO", "EHLO"} /\ (o.kind # "lmtp" => e.what = "EHLO")
           /\ "fallback" \in e.other =>
                e.what = "EHLO" /\ e.fallback = <<Step("HELO", {"critical"})>>
<1>1. CASE o.kind = "lmtp"
  <2> DEFINE e == Step("LHLO", {"critical"})
  <2>1. e \in Steps /\ e.what = "LHLO" /\ e.gone = "critical" /\ e.other = {"critical"}
    <3>1. "LHLO" \in Words /\ {"critical"} \in SUBSET Outcomes
      BY DEF Outcomes, Words, Verbs
    <3> QED
      BY <3>1, StepType
  <2>2. Greet(o) = <<e>>
    BY <1>1 DEF Greet
  <2> HIDE DEF e
  <2> QED
    BY <1>1, <2>1, <2>2, Single
<1>2. CASE o.kind # "lmtp"
  <2> DEFINE h == Step("HELO", {"critical"})
             e == [Step("EHLO", {"fallback"}) EXCEPT !.fallback = <<h>>]
  <2>1. h \in Plainly
    BY StepType DEF Outcomes, Words, Verbs
  <2>2. <<h>> \in Seq(Plainly)
    BY <2>1
  <2>3. /\ e \in Steps /\ e.what = "EHLO" /\ e.gone = "critical"
        /\ e.other = {"fallback"} /\ e.fallback = <<h>>
    BY <2>2 DEF Step, Steps, Outcomes, Words, Verbs
  <2>4. Greet(o) = <<e>>
    BY <1>2 DEF Greet
  <2> HIDE DEF e
  <2> QED
    BY <1>2, <2>3, <2>4, Single
<1> QED
  BY <1>1, <1>2

LEMMA CommandsShape ==
  ASSUME NEW o \in Probes
  PROVE  /\ RunCommands(o) \in Seq(Steps) /\ Len(RunCommands(o)) = Len(o.commands)
         /\ \A i \in 1..Len(o.commands) :
              /\ RunCommands(o)[i].what = o.commands[i].send
              /\ RunCommands(o)[i].gone = "critical"
              /\ RunCommands(o)[i].other \in {{"warning"}, {"next"}}
              /\ o.commands[i].graded => RunCommands(o)[i].other = {"warning"}
<1> DEFINE n == Len(o.commands)
<1>1. n \in Nat /\ DOMAIN o.commands = 1..n
  BY OptionTypes
<1>2. ASSUME NEW i \in 1..n
      PROVE  /\ RunCommands(o)[i] \in Steps
             /\ RunCommands(o)[i].what = o.commands[i].send
             /\ RunCommands(o)[i].gone = "critical"
             /\ RunCommands(o)[i].other \in {{"warning"}, {"next"}}
             /\ o.commands[i].graded => RunCommands(o)[i].other = {"warning"}
  <2>1. o.commands[i].send \in Words /\ {"warning"} \subseteq Outcomes /\ {"next"} \subseteq Outcomes
    BY OptionTypes DEF Outcomes, Words
  <2>2. RunCommands(o)[i] = IF o.commands[i].graded
                            THEN Step(o.commands[i].send, {"warning"})
                            ELSE Step(o.commands[i].send, {"next"})
    BY <1>1 DEF RunCommands
  <2> QED
    BY <2>1, <2>2, StepType
<1>3. DOMAIN RunCommands(o) = 1..n /\ RunCommands(o) = [i \in 1..n |-> RunCommands(o)[i]]
  BY <1>1 DEF RunCommands
<1>4. RunCommands(o) \in [1..n -> Steps]
  BY <1>2, <1>3
<1>5. RunCommands(o) \in Seq(Steps) /\ Len(RunCommands(o)) = n
  BY <1>1, <1>4
<1> QED
  BY <1>2, <1>5

\* What SMTP starts with: greeting, hello and the upgrade, if it is to be had.
Opening(o) ==
  <<Step("greeting", {"critical"})>> \o Greet(o)
  \o (IF o.startTLS THEN StartTLS(o) ELSE <<>>)

\* What follows it.
Business(o) ==
  IF o.startTLS /\ o.cert THEN <<Step("certificate", {"critical"})>>
  ELSE MailFrom(o) \o RunCommands(o)

Greeting    == Step("greeting", {"critical"})
Upgrade     == Step("STARTTLS", {"critical"})
Handshake   == Step("handshake", {"critical"})
Certificate == Step("certificate", {"critical"})
Sender      == Step("MAIL FROM", {"warning"})

\* e is the step with which o greets.
GreetStep(o, e) ==
  /\ e \in Steps /\ Greet(o) = <<e>>
  /\ e.gone = "critical" /\ "next" \notin e.other
  /\ e.what \in {"LHLO", "EHLO"} /\ (o.kind # "lmtp" => e.what = "EHLO")
  /\ "fallback" \in e.other =>
       e.what = "EHLO" /\ e.fallback = <<Step("HELO", {"critical"})>>

LEMMA OpeningShape ==
  ASSUME NEW o \in Probes, NEW e, GreetStep(o, e)
  PROVE  /\ Opening(o) \in Seq(Steps)
         /\ Len(Opening(o)) = IF o.startTLS THEN 5 ELSE 2
         /\ Opening(o)[1] = Greeting /\ Opening(o)[2] = e
         /\ o.startTLS => /\ Opening(o)[3] = Upgrade
                          /\ Opening(o)[4] = Handshake
                          /\ Opening(o)[5] = e
<1> DEFINE hi == Greeting
           st == Upgrade
           hs == Handshake
<1>1. hi \in Steps /\ st \in Steps /\ hs \in Steps /\ e \in Steps
  <2>1. /\ "greeting" \in Words /\ "STARTTLS" \in Words /\ "handshake" \in Words
        /\ {"critical"} \in SUBSET Outcomes
    BY DEF Outcomes, Words, Verbs
  <2> QED
    BY <2>1, StepType DEF GreetStep, Greeting, Upgrade, Handshake
<1>2. Greet(o) = <<e>>
  BY DEF GreetStep
<1>3. /\ Opening(o) = (<<hi>> \o <<e>>) \o (IF o.startTLS THEN StartTLS(o) ELSE <<>>)
      /\ StartTLS(o) = <<st, hs>> \o <<e>>
  BY <1>2 DEF Opening, StartTLS, Greeting, Upgrade, Handshake
<1> HIDE DEF hi, st, hs
<1>4. LET q == <<hi>> \o <<e>>
      IN  q \in Seq(Steps) /\ Len(q) = 2 /\ q[1] = hi /\ q[2] = e
  <2>1. /\ <<hi>> \in Seq(Steps) /\ Len(<<hi>>) = 1 /\ <<hi>>[1] = hi
        /\ <<e>> \in Seq(Steps) /\ Len(<<e>>) = 1 /\ <<e>>[1] = e
    BY <1>1
  <2> QED
    BY <2>1, Joined, 1 \in 1..1, 1 + 1 = 2
<1>5. LET q == <<st, hs>> \o <<e>>
      IN  q \in Seq(Steps) /\ Len(q) = 3 /\ q[1] = st /\ q[2] = hs /\ q[3] = e
  <2>1. /\ <<st, hs>> \in Seq(Steps) /\ Len(<<st, hs>>) = 2
        /\ <<st, hs>>[1] = st /\ <<st, hs>>[2] = hs
        /\ <<e>> \in Seq(Steps) /\ Len(<<e>>) = 1 /\ <<e>>[1] = e
    BY <1>1
  <2>2. 1 \in 1..1 /\ 1 \in 1..2 /\ 2 \in 1..2 /\ 2 + 1 = 3
    OBVIOUS
  <2> QED
    BY <2>1, <2>2, Joined
<1>6. CASE o.startTLS
  <2>1. Opening(o) = (<<hi>> \o <<e>>) \o (<<st, hs>> \o <<e>>)
    BY <1>3, <1>6
  <2>2. /\ 1 \in 1..2 /\ 2 \in 1..2 /\ 1 \in 1..3 /\ 2 \in 1..3 /\ 3 \in 1..3
        /\ 2 + 1 = 3 /\ 2 + 2 = 4 /\ 2 + 3 = 5
    OBVIOUS
  <2>3. /\ Opening(o) \in Seq(Steps) /\ Len(Opening(o)) = 5
        /\ Opening(o)[1] = hi /\ Opening(o)[2] = e
        /\ Opening(o)[3] = st /\ Opening(o)[4] = hs /\ Opening(o)[5] = e
    BY <1>4, <1>5, <2>1, <2>2, Joined
  <2> QED
    BY <1>6, <2>3 DEF hi, st, hs
<1>7. CASE ~o.startTLS
  <2>1. Opening(o) = (<<hi>> \o <<e>>) \o <<>>
    BY <1>3, <1>7
  <2>2. 1 \in 1..2 /\ 2 \in 1..2 /\ 2 + 0 = 2
    OBVIOUS
  <2>3. /\ Opening(o) \in Seq(Steps) /\ Len(Opening(o)) = 2
        /\ Opening(o)[1] = hi /\ Opening(o)[2] = e
    BY <1>4, <2>1, <2>2, Nothing, Joined
  <2> QED
    BY <1>7, <2>3 DEF hi, st, hs
<1> QED
  BY <1>6, <1>7

LEMMA BusinessShape ==
  ASSUME NEW o \in Probes
  PROVE  /\ Business(o) \in Seq(Steps)
         /\ o.startTLS /\ o.cert => Business(o) = <<Certificate>>
         /\ ~(o.startTLS /\ o.cert) =>
              LET f == IF o.from THEN 1 ELSE 0
              IN  /\ Len(Business(o)) = f + Len(o.commands)
                  /\ o.from => Business(o)[1] = Sender
                  /\ \A i \in 1..Len(o.commands) : Business(o)[f + i] = RunCommands(o)[i]
<1>1. CASE o.startTLS /\ o.cert
  <2>1. "certificate" \in Words /\ {"critical"} \in SUBSET Outcomes
    BY DEF Outcomes, Words, Verbs
  <2>2. Certificate \in Steps
    BY <2>1, StepType DEF Certificate
  <2> QED
    BY <1>1, <2>2, Single DEF Business, Certificate
<1>2. CASE ~(o.startTLS /\ o.cert)
  <2> DEFINE m == Sender
             f == IF o.from THEN 1 ELSE 0
  <2>1. "MAIL FROM" \in Words /\ {"warning"} \in SUBSET Outcomes
    BY DEF Outcomes, Words, Verbs
  <2>2. m \in Steps
    BY <2>1, StepType DEF Sender
  <2>3. /\ MailFrom(o) \in Seq(Steps) /\ Len(MailFrom(o)) = f
        /\ o.from => MailFrom(o)[1] = m
    <3>1. CASE o.from
      BY <2>2, <3>1, Single DEF MailFrom, Sender
    <3>2. CASE ~o.from
      <4>1. MailFrom(o) = <<>> /\ f = 0
        BY <3>2 DEF MailFrom
      <4> QED
        BY <3>2, <4>1, Nothing
    <3> QED
      BY <3>1, <3>2
  <2>4. RunCommands(o) \in Seq(Steps) /\ Len(RunCommands(o)) = Len(o.commands)
    BY CommandsShape
  <2>5. Business(o) = MailFrom(o) \o RunCommands(o)
    BY <1>2 DEF Business
  <2>6. f \in {0, 1} /\ (o.from => f = 1)
    OBVIOUS
  <2> HIDE DEF m, f
  <2>7. /\ Business(o) \in Seq(Steps) /\ Len(Business(o)) = f + Len(o.commands)
        /\ \A i \in 1..f : Business(o)[i] = MailFrom(o)[i]
        /\ \A i \in 1..Len(o.commands) : Business(o)[f + i] = RunCommands(o)[i]
    BY <2>3, <2>4, <2>5, Joined
  <2>8. o.from => Business(o)[1] = m
    BY <2>3, <2>6, <2>7
  <2> QED
    BY <1>2, <2>7, <2>8 DEF m, f
<1> QED
  BY <1>1, <1>2

LEMMA SMTPShape ==
  ASSUME NEW o \in Probes, NEW e, GreetStep(o, e)
  PROVE  LET q == SMTP(o)
             base == IF o.startTLS THEN 5 ELSE 2
             lead == IF o.from THEN 1 ELSE 0
         IN  /\ q \in Seq(Steps)
             /\ q[1] = Greeting /\ q[2] = e
             /\ o.startTLS => /\ q[3] = Upgrade
                              /\ q[4] = Handshake
                              /\ q[5] = e
             /\ o.startTLS /\ o.cert =>
                  Len(q) = base + 1 /\ q[base + 1] = Certificate
             /\ ~(o.startTLS /\ o.cert) =>
                  /\ Len(q) = base + lead + Len(o.commands)
                  /\ o.from => q[base + 1] = Sender
                  /\ \A i \in 1..Len(o.commands) : q[base + lead + i] = RunCommands(o)[i]
<1>1. PICK base \in {2, 5} : base = IF o.startTLS THEN 5 ELSE 2
  OBVIOUS
<1>2. PICK lead \in {0, 1} : lead = IF o.from THEN 1 ELSE 0
  OBVIOUS
<1>3. 1 \in 1..base /\ 2 \in 1..base /\ (o.startTLS => 3 \in 1..base /\ 4 \in 1..base /\ 5 \in 1..base)
  BY <1>1
<1>4. SMTP(o) = Opening(o) \o Business(o)
  BY DEF SMTP, Opening, Business
<1>5. /\ Opening(o) \in Seq(Steps) /\ Len(Opening(o)) = base
      /\ Opening(o)[1] = Greeting /\ Opening(o)[2] = e
      /\ o.startTLS => /\ Opening(o)[3] = Upgrade
                       /\ Opening(o)[4] = Handshake
                       /\ Opening(o)[5] = e
  BY <1>1, OpeningShape
<1>6. Business(o) \in Seq(Steps)
  BY BusinessShape
<1>7. /\ SMTP(o) \in Seq(Steps)
      /\ Len(SMTP(o)) = base + Len(Business(o))
      /\ \A i \in 1..base : SMTP(o)[i] = Opening(o)[i]
      /\ \A i \in 1..Len(Business(o)) : SMTP(o)[base + i] = Business(o)[i]
  BY <1>4, <1>5, <1>6, Joined
<1>8. CASE o.startTLS /\ o.cert
  <2>1. Business(o) = <<Certificate>>
    BY <1>8, BusinessShape
  <2>2. Len(Business(o)) = 1 /\ Business(o)[1] = Certificate
    BY <2>1
  <2> QED
    BY <1>5, <1>7, <1>3, <1>8, <2>2, 1 \in 1..1, <1>1
<1>9. CASE ~(o.startTLS /\ o.cert)
  <2>1. /\ Len(Business(o)) = lead + Len(o.commands)
        /\ o.from => Business(o)[1] = Sender
        /\ \A i \in 1..Len(o.commands) : Business(o)[lead + i] = RunCommands(o)[i]
    BY <1>2, <1>9, BusinessShape
  <2>2. PICK n \in Nat : n = Len(o.commands)
    BY OptionTypes
  <2>3. ASSUME NEW i \in 1..n
        PROVE  SMTP(o)[base + lead + i] = RunCommands(o)[i]
    <3>1. lead + i \in 1..(lead + n) /\ base + (lead + i) = base + lead + i
      OBVIOUS
    <3> QED
      BY <1>7, <2>1, <2>2, <3>1
  <2>4. Len(Business(o)) = lead + n
    BY <2>1, <2>2
  <2>5. Len(SMTP(o)) = base + lead + Len(o.commands)
    <3>1. Len(SMTP(o)) = base + Len(Business(o))
      BY <1>7
    <3>2. base + (lead + n) = base + lead + n
      OBVIOUS
    <3> QED
      BY <2>2, <2>4, <3>1, <3>2
  <2>6. o.from => 1 \in 1..Len(Business(o))
    <3>1. o.from => 1 \in 1..(lead + n)
      BY <1>2
    <3> QED
      BY <2>4, <3>1
  <2>7. o.from => SMTP(o)[base + 1] = Sender
    BY <1>2, <1>7, <2>1, <2>6
  <2> QED
    BY <1>5, <1>7, <1>3, <1>9, <2>3, <2>5, <2>7, <1>1, <1>2, <2>2
<1> QED
  BY <1>8, <1>9

\* What step i of an SMTP script can be.
LEMMA SMTPSteps ==
  ASSUME NEW o \in Probes, NEW e, GreetStep(o, e), NEW i \in 1..Len(SMTP(o))
  PROVE  LET q == SMTP(o)
         IN  \/ q[i] = Greeting
             \/ q[i] = e
             \/ q[i] = Upgrade
             \/ q[i] = Handshake /\ i = 4 /\ o.startTLS
             \/ q[i] = Certificate /\ i = Len(q) /\ o.startTLS /\ o.cert
             \/ /\ ~(o.startTLS /\ o.cert) /\ (o.startTLS => i > 5)
                /\ \/ o.from /\ q[i] = Sender
                   \/ \E k \in 1..Len(o.commands) : q[i] = RunCommands(o)[k]
<1>1. PICK base \in {2, 5} : base = IF o.startTLS THEN 5 ELSE 2
  OBVIOUS
<1>2. PICK lead \in {0, 1} : lead = IF o.from THEN 1 ELSE 0
  OBVIOUS
<1>3. PICK n \in Nat : n = Len(o.commands)
  BY OptionTypes
<1> DEFINE q == SMTP(o)
<1>4. /\ q \in Seq(Steps)
      /\ q[1] = Greeting /\ q[2] = e
      /\ o.startTLS => /\ q[3] = Upgrade
                       /\ q[4] = Handshake
                       /\ q[5] = e
      /\ o.startTLS /\ o.cert =>
           Len(q) = base + 1 /\ q[base + 1] = Certificate
      /\ ~(o.startTLS /\ o.cert) =>
           /\ Len(q) = base + lead + n
           /\ o.from => q[base + 1] = Sender
           /\ \A k \in 1..n : q[base + lead + k] = RunCommands(o)[k]
  BY <1>1, <1>2, <1>3, SMTPShape
<1> HIDE DEF q
<1>5. i \in 1..Len(q) /\ Len(q) \in Nat
  BY <1>4, LenProperties DEF q
<1>6. CASE i <= base
  <2>1. i = 1 \/ i = 2 \/ (o.startTLS /\ i \in {3, 4, 5})
    BY <1>1, <1>5, <1>6
  <2> QED
    BY <1>4, <2>1 DEF q
<1>7. CASE i > base /\ o.startTLS /\ o.cert
  <2>1. Len(q) = base + 1
    BY <1>4, <1>7
  <2>2. i = base + 1
    BY <1>5, <1>7, <2>1
  <2> QED
    BY <1>4, <1>7, <2>1, <2>2 DEF q
<1>8. CASE i > base /\ ~(o.startTLS /\ o.cert)
  <2>1. Len(q) = base + lead + n
    BY <1>4, <1>8
  <2>2. o.startTLS => i > 5
    BY <1>1, <1>5, <1>8
  <2>3. CASE i <= base + lead
    <3>1. lead = 1 /\ i = base + 1
      BY <1>5, <1>8, <2>3
    <3>2. o.from
      BY <1>2, <3>1
    <3> QED
      BY <1>4, <1>8, <2>2, <3>1, <3>2 DEF q
  <2>4. CASE i > base + lead
    <3>1. /\ i - base - lead \in 1..n
          /\ base + lead + (i - base - lead) = i
      BY <1>5, <2>1, <2>4
    <3>2. q[i] = RunCommands(o)[i - base - lead]
      BY <1>4, <1>8, <3>1
    <3> QED
      BY <1>3, <1>8, <2>2, <3>1, <3>2 DEF q
  <2>5. i <= base + lead \/ i > base + lead
    BY <1>5
  <2> QED
    BY <2>3, <2>4, <2>5
<1>9. i <= base \/ i > base
  BY <1>5
<1> QED
  BY <1>6, <1>7, <1>8, <1>9

\* On TLS from the step after the handshake on, and not before.
LEMMA SMTPSecure ==
  ASSUME NEW o \in Probes, NEW e, GreetStep(o, e), NEW i \in 1..Len(SMTP(o))
  PROVE  SecureAt(SMTP(o), FALSE, i) <=> o.startTLS /\ i > 4
<1> DEFINE q == SMTP(o)
<1>1. q \in Seq(Steps) /\ (o.startTLS => q[4] = Handshake)
  BY SMTPShape
<1>2. Len(q) \in Nat /\ i \in 1..Len(q)
  BY <1>1, LenProperties
<1>3. ASSUME NEW j \in 1..Len(q), q[j].what = "handshake"
      PROVE  o.startTLS /\ j = 4
  <2>1. /\ Greeting.what = "greeting"
        /\ Upgrade.what = "STARTTLS"
        /\ Certificate.what = "certificate"
        /\ Sender.what = "MAIL FROM"
        /\ e.what \in {"LHLO", "EHLO"}
    BY DEF Step, GreetStep, Greeting, Upgrade, Certificate, Sender
  <2>2. \A k \in 1..Len(o.commands) : RunCommands(o)[k].what \in Commands
    BY CommandsShape, OptionTypes
  <2>3. "handshake" \notin Commands
    BY DEF Verbs
  <2>4. \/ q[j] = Greeting
        \/ q[j] = e
        \/ q[j] = Upgrade
        \/ q[j] = Handshake /\ j = 4 /\ o.startTLS
        \/ q[j] = Certificate /\ j = Len(q) /\ o.startTLS /\ o.cert
        \/ /\ ~(o.startTLS /\ o.cert) /\ (o.startTLS => j > 5)
           /\ \/ o.from /\ q[j] = Sender
              \/ \E k \in 1..Len(o.commands) : q[j] = RunCommands(o)[k]
    BY SMTPSteps
  <2>5. ~ \E k \in 1..Len(o.commands) : q[j] = RunCommands(o)[k]
    BY <1>3, <2>2, <2>3
  <2> QED
    BY <1>3, <2>1, <2>4, <2>5
<1>4. Handshake.what = "handshake"
  BY DEF Step, Handshake
<1> HIDE DEF q
<1>5. ASSUME SecureAt(q, FALSE, i)
      PROVE  o.startTLS /\ i > 4
  <2>1. PICK j \in 1..(i - 1) : q[j].what = "handshake"
    BY <1>5 DEF SecureAt
  <2>2. j \in 1..Len(q)
    BY <1>2
  <2>3. o.startTLS /\ j = 4
    BY <1>3, <2>1, <2>2
  <2> QED
    BY <1>2, <2>3
<1>6. ASSUME o.startTLS, i > 4
      PROVE  SecureAt(q, FALSE, i)
  <2>1. 4 \in 1..(i - 1)
    BY <1>2, <1>6
  <2> QED
    BY <1>1, <1>4, <1>6, <2>1 DEF SecureAt
<1> QED
  BY <1>5, <1>6 DEF q

LEMMA Named ==
  /\ Greeting.what = "greeting" /\ Upgrade.what = "STARTTLS" /\ Handshake.what = "handshake"
  /\ Certificate.what = "certificate" /\ Sender.what = "MAIL FROM"
  /\ \A step \in {Greeting, Upgrade, Handshake, Certificate, Sender} :
       Strict(step) /\ "fallback" \notin step.other
  BY DEF Greeting, Upgrade, Handshake, Certificate, Sender, Step, Strict

\* The SMTP and LMTP probes keep what the invariant asks of a script.
LEMMA SMTPScripted ==
  ASSUME opts \in Probes, opts.kind \in {"smtp", "lmtp"}, NEW answered
  PROVE  Scripted(SMTP(opts), FALSE, answered)
<1> DEFINE q == SMTP(opts)
<1>1. PICK e \in Steps : GreetStep(opts, e)
  BY GreetShape DEF GreetStep
<1>2. PICK base \in {2, 5} : base = IF opts.startTLS THEN 5 ELSE 2
  OBVIOUS
<1>3. PICK lead \in {0, 1} : lead = IF opts.from THEN 1 ELSE 0
  OBVIOUS
<1>4. PICK n \in Nat : n = Len(opts.commands)
  BY OptionTypes
<1>5. /\ q \in Seq(Steps) /\ q[2] = e
      /\ opts.startTLS => q[4] = Handshake /\ q[5] = e
      /\ opts.startTLS /\ opts.cert => Len(q) = base + 1 /\ q[base + 1] = Certificate
      /\ ~(opts.startTLS /\ opts.cert) =>
           /\ Len(q) = base + lead + n
           /\ opts.from => q[base + 1] = Sender
           /\ \A k \in 1..n : q[base + lead + k] = RunCommands(opts)[k]
  BY <1>1, <1>2, <1>3, <1>4, SMTPShape
<1>6. \A i \in 1..Len(q) :
         \/ q[i] = Greeting
         \/ q[i] = e
         \/ q[i] = Upgrade
         \/ q[i] = Handshake /\ i = 4 /\ opts.startTLS
         \/ q[i] = Certificate /\ i = Len(q) /\ opts.startTLS /\ opts.cert
         \/ /\ ~(opts.startTLS /\ opts.cert) /\ (opts.startTLS => i > 5)
            /\ \/ opts.from /\ q[i] = Sender
               \/ \E k \in 1..Len(opts.commands) : q[i] = RunCommands(opts)[k]
  BY <1>1, SMTPSteps
<1>7. \A i \in 1..Len(q) : SecureAt(q, FALSE, i) <=> opts.startTLS /\ i > 4
  BY <1>1, SMTPSecure
<1>8. \A k \in 1..Len(opts.commands) :
         /\ RunCommands(opts)[k].what = opts.commands[k].send
         /\ opts.commands[k].send \in Commands /\ opts.commands[k].send \notin Verbs
         /\ RunCommands(opts)[k].gone = "critical"
         /\ RunCommands(opts)[k].other \in {{"warning"}, {"next"}}
         /\ opts.commands[k].graded => RunCommands(opts)[k].other = {"warning"}
  BY CommandsShape, OptionTypes
<1>9. /\ e.gone = "critical" /\ "next" \notin e.other
      /\ e.what \in {"LHLO", "EHLO"} /\ (opts.kind # "lmtp" => e.what = "EHLO")
      /\ "fallback" \in e.other =>
           e.what = "EHLO" /\ e.fallback = <<Step("HELO", {"critical"})>>
  BY <1>1 DEF GreetStep
<1> HIDE DEF q
<1>10. WellScripted(q)
  <2> SUFFICES ASSUME NEW i \in 1..Len(q)
               PROVE  /\ q[i].what = "handshake" => Strict(q[i])
                      /\ q[i].what = "certificate" => i = Len(q)
                      /\ "fallback" \in q[i].other =>
                           q[i].what = "EHLO" /\ q[i].fallback = <<Step("HELO", {"critical"})>>
    BY DEF WellScripted
  <2>1. CASE q[i] \in {Greeting, Upgrade, Sender}
    BY <2>1, Named
  <2>2. CASE q[i] = e
    BY <2>2, <1>9
  <2>3. CASE q[i] = Handshake
    BY <2>3, Named
  <2>4. CASE q[i] = Certificate /\ i = Len(q)
    BY <2>4, Named
  <2>5. CASE \E k \in 1..Len(opts.commands) : q[i] = RunCommands(opts)[k]
    <3>1. PICK k \in 1..Len(opts.commands) : q[i] = RunCommands(opts)[k]
      BY <2>5
    <3>2. q[i].what \notin {"handshake", "certificate"}
      BY <1>8, <3>1 DEF Verbs
    <3>3. q[i].other = {"warning"} \/ q[i].other = {"next"}
      BY <1>8, <3>1
    <3> QED
      BY <3>2, <3>3
  <2> QED
    BY <1>6, <2>1, <2>2, <2>3, <2>4, <2>5
<1>11. MailAhead(q, FALSE)
  <2> SUFFICES ASSUME opts.startTLS, NEW i \in 1..Len(q), q[i].what \in Mail(opts)
               PROVE  SecureAt(q, FALSE, i) /\ ~opts.cert
    BY DEF MailAhead
  <2>1. q[i].what \in Commands \cup {"MAIL FROM"}
    BY OptionTypes DEF Mail
  <2>2. q[i].what \notin {"greeting", "LHLO", "EHLO", "STARTTLS", "handshake", "certificate"}
    BY <2>1 DEF Verbs
  <2>3. ~opts.cert /\ i > 5
    BY <1>6, <1>9, <2>2, Named
  <2>4. i > 4
    BY <2>3
  <2> QED
    BY <1>7, <2>3, <2>4
<1>12. DemandsAhead(q, FALSE, answered)
  <2> SUFFICES ASSUME NEW d \in Demanded(opts)
               PROVE  Outstanding(q, FALSE, d)
    BY DEF DemandsAhead
  <2>1. CASE opts.cert
    <3>1. opts.startTLS
      BY <2>1, OptionTypes DEF OptionsFit
    <3>2. d = <<"certificate", TRUE>>
      BY <2>1, Zenon DEF Demanded
    <3>3. d[1] = "certificate" /\ d[2]
      BY <3>2
    <3>4. base = 5
      BY <1>2, <3>1
    <3>5. Len(q) = 6 /\ q[6] = Certificate
      BY <1>5, <2>1, <3>1, <3>4
    <3>6. 6 \in 1..Len(q) /\ 6 > 4
      BY <3>5
    <3>7. SecureAt(q, FALSE, 6)
      BY <1>7, <3>1, <3>6
    <3>8. Strict(q[6]) /\ q[6].what = d[1]
      BY <3>3, <3>5, Named
    <3> QED
      BY <3>3, <3>6, <3>7, <3>8 DEF Outstanding
  <2>2. CASE ~opts.cert
    <3>1. \/ d = <<"MAIL FROM", opts.startTLS>> /\ opts.from
          \/ \E k \in DOMAIN opts.commands :
               opts.commands[k].graded /\ d = <<opts.commands[k].send, opts.startTLS>>
      BY <2>2 DEF Demanded
    <3>2. CASE d = <<"MAIL FROM", opts.startTLS>> /\ opts.from
      <4>1. d[1] = "MAIL FROM" /\ d[2] = opts.startTLS /\ lead = 1
        BY <1>3, <3>2
      <4>2. Len(q) = base + lead + n /\ q[base + 1] = Sender
        BY <1>5, <2>2, <3>2
      <4>3. base + 1 \in 1..Len(q)
        <5>1. base + 1 \in 1..(base + 1 + n)
          OBVIOUS
        <5> QED
          BY <4>1, <4>2, <5>1
      <4>4. opts.startTLS => base + 1 > 4
        BY <1>2
      <4>5. SecureAt(q, FALSE, base + 1) <=> opts.startTLS
        BY <1>7, <4>3, <4>4
      <4>6. Strict(q[base + 1]) /\ q[base + 1].what = d[1]
        BY <4>1, <4>2, Named
      <4> QED
        BY <4>1, <4>3, <4>5, <4>6 DEF Outstanding
    <3>3. ASSUME NEW k \in DOMAIN opts.commands, opts.commands[k].graded,
                 d = <<opts.commands[k].send, opts.startTLS>>
          PROVE  Outstanding(q, FALSE, d)
      <4>1. d[1] = opts.commands[k].send /\ d[2] = opts.startTLS /\ k \in 1..n
        BY <1>4, <3>3, OptionTypes
      <4>2. Len(q) = base + lead + n /\ q[base + lead + k] = RunCommands(opts)[k]
        BY <1>5, <2>2, <4>1
      <4>3. base + lead + k \in 1..(base + lead + n) /\ (base = 5 => base + lead + k > 4)
        BY <4>1
      <4>4. SecureAt(q, FALSE, base + lead + k) <=> opts.startTLS
        BY <1>2, <1>7, <4>2, <4>3
      <4>5. Strict(RunCommands(opts)[k]) /\ RunCommands(opts)[k].what = d[1]
        BY <1>4, <1>8, <3>3, <4>1 DEF Strict
      <4> QED
        BY <4>1, <4>2, <4>3, <4>4, <4>5 DEF Outstanding
    <3> QED
      BY <3>1, <3>2, <3>3
  <2> QED
    BY <2>1, <2>2
<1>13. GreetingAhead(q, FALSE, answered)
  <2> SUFFICES ASSUME opts.kind = "smtp"
               PROVE  \E i \in 1..Len(q) :
                        /\ q[i].what = "EHLO"
                        /\ "next" \notin q[i].other /\ q[i].gone = "critical"
                        /\ opts.startTLS <=> SecureAt(q, FALSE, i)
    BY DEF GreetingAhead
  <2>1. Len(q) >= base
    BY <1>2, <1>5
  <2>2. base \in 1..Len(q) /\ q[base] = e /\ (opts.startTLS <=> base > 4)
    BY <1>2, <1>5, <2>1, LenProperties
  <2> QED
    BY <1>7, <1>9, <2>2
<1> QED
  BY <1>5, <1>10, <1>11, <1>12, <1>13 DEF Scripted, q

Ping == Step("PING", {})

LEMMA NamedToo ==
  /\ Ping.what = "PING" /\ Banner.what = "banner"
  /\ Ping \in Steps /\ Banner \in Steps /\ Handshake \in Steps /\ Certificate \in Steps
  /\ \A step \in {Ping, Banner} : Strict(step) /\ "fallback" \notin step.other
<1>1. /\ "PING" \in Words /\ "banner" \in Words /\ "handshake" \in Words
      /\ "certificate" \in Words
      /\ {} \in SUBSET Outcomes /\ {"more"} \in SUBSET Outcomes
      /\ {"critical"} \in SUBSET Outcomes
  BY DEF Words, Verbs, Outcomes
<1>2. Ping \in Steps /\ Banner \in Steps /\ Handshake \in Steps /\ Certificate \in Steps
  BY <1>1, StepType DEF Ping, Banner, Handshake, Certificate
<1>3. /\ Ping.what = "PING" /\ Banner.what = "banner"
      /\ Ping.other = {} /\ Banner.other = {"more"}
      /\ Ping.gone = "critical" /\ Banner.gone = "critical"
  BY DEF Ping, Banner, Step
<1> QED
  BY <1>2, <1>3 DEF Strict

\* A single step, of which nothing in particular is demanded.
LEMMA AloneScripted ==
  ASSUME opts \in Probes, opts.kind \notin {"smtp", "lmtp"}, Demanded(opts) = {},
         NEW step \in Steps, step.what \notin {"handshake", "certificate"},
         "fallback" \in step.other =>
           opts.kind = "dns" /\ step.what = "udp query" /\ step.fallback = <<Step("tcp query", {"critical"})>>,
         NEW answered
  PROVE  Scripted(<<step>>, FALSE, answered)
<1>1. <<step>> \in Seq(Steps) /\ Len(<<step>>) = 1 /\ <<step>>[1] = step
  BY Single
<1> DEFINE q == <<step>>
<1>2. \A i \in 1..Len(q) : q[i] = step
  BY <1>1, OneOnly
<1> HIDE DEF q
<1>3. WellScripted(q)
  BY <1>2 DEF WellScripted
<1>4. MailAhead(q, FALSE) /\ DemandsAhead(q, FALSE, answered) /\ GreetingAhead(q, FALSE, answered)
  BY DEF MailAhead, DemandsAhead, GreetingAhead
<1> QED
  BY <1>1, <1>3, <1>4 DEF Scripted, q

\* The upgrade, if it is to be had, and what is demanded at the end.
LEMMA EndedScripted ==
  ASSUME opts \in Probes, opts.kind \notin {"smtp", "lmtp"},
         NEW begun \in Seq(Steps), NEW last \in {Banner, Certificate},
         \A i \in 1..Len(begun) : begun[i] \in {Handshake, Ping},
         opts.startTLS <=> \E i \in 1..Len(begun) : begun[i] = Handshake,
         Demanded(opts) \subseteq {<<last.what, opts.startTLS>>},
         NEW answered
  PROVE  Scripted(begun \o <<last>>, FALSE, answered)
<1>1. <<last>> \in Seq(Steps) /\ Len(<<last>>) = 1 /\ <<last>>[1] = last
  BY NamedToo, Single
<1>2. PICK n \in Nat : n = Len(begun)
  BY LenProperties
<1> DEFINE q == begun \o <<last>>
<1>3. /\ q \in Seq(Steps) /\ Len(q) = n + 1 /\ q[n + 1] = last
      /\ \A i \in 1..n : q[i] = begun[i]
  BY <1>1, <1>2, Joined, 1 \in 1..1
<1> HIDE DEF q
<1>4. \A i \in 1..Len(q) : i \in 1..n \/ i = n + 1
  BY <1>3
<1>5. WellScripted(q)
  <2> SUFFICES ASSUME NEW i \in 1..Len(q)
               PROVE  /\ q[i].what = "handshake" => Strict(q[i])
                      /\ q[i].what = "certificate" => i = Len(q)
                      /\ "fallback" \notin q[i].other
    BY DEF WellScripted
  <2>1. CASE i \in 1..n
    <3>1. q[i] = Handshake \/ q[i] = Ping
      BY <1>2, <1>3, <2>1
    <3> QED
      BY <3>1, Named, NamedToo
  <2>2. CASE i = n + 1
    BY <1>3, <2>2, Named, NamedToo
  <2> QED
    BY <1>4, <2>1, <2>2
<1>6. DemandsAhead(q, FALSE, answered)
  <2> SUFFICES ASSUME NEW d \in Demanded(opts)
               PROVE  Outstanding(q, FALSE, d)
    BY DEF DemandsAhead
  <2>1. d[1] = last.what /\ d[2] = opts.startTLS
    OBVIOUS
  <2>2. n + 1 \in 1..Len(q) /\ 1..(n + 1 - 1) = 1..n
    BY <1>3
  <2>3. SecureAt(q, FALSE, n + 1) <=> opts.startTLS
    <3>1. SecureAt(q, FALSE, n + 1) <=> \E j \in 1..n : q[j].what = "handshake"
      BY <2>2 DEF SecureAt
    <3>2. \A j \in 1..n : q[j].what = "handshake" <=> begun[j] = Handshake
      BY <1>2, <1>3, Named, NamedToo
    <3> QED
      BY <1>2, <3>1, <3>2
  <2>4. Strict(q[n + 1]) /\ q[n + 1].what = d[1]
    BY <1>3, <2>1, Named, NamedToo
  <2> QED
    BY <2>1, <2>2, <2>3, <2>4 DEF Outstanding
<1>7. MailAhead(q, FALSE) /\ GreetingAhead(q, FALSE, answered)
  BY DEF MailAhead, GreetingAhead
<1> QED
  BY <1>3, <1>5, <1>6, <1>7 DEF Scripted, q

\* The upgrade in front of IMAP and TCP.
Upgraded == IF opts.startTLS THEN <<Handshake>> ELSE <<>>

LEMMA UpgradedShape ==
  ASSUME opts \in Probes
  PROVE  /\ Upgraded \in Seq(Steps)
         /\ \A i \in 1..Len(Upgraded) : Upgraded[i] = Handshake
         /\ opts.startTLS => 1 \in 1..Len(Upgraded)
         /\ ~opts.startTLS => Len(Upgraded) = 0
<1>1. CASE opts.startTLS
  <2>1. Upgraded = <<Handshake>> /\ Upgraded \in Seq(Steps) /\ Len(Upgraded) = 1
    BY <1>1, NamedToo DEF Upgraded
  <2> QED
    BY <1>1, <2>1
<1>2. CASE ~opts.startTLS
  BY <1>2, Nothing DEF Upgraded
<1> QED
  BY <1>1, <1>2

LEMMA IMAPScripted ==
  ASSUME opts \in Probes, opts.kind = "imap", NEW answered
  PROVE  Scripted(IMAP(opts), FALSE, answered)
<1>1. \A i \in 1..Len(Upgraded) : Upgraded[i] \in {Handshake, Ping}
  BY UpgradedShape
<1>2. opts.startTLS <=> \E i \in 1..Len(Upgraded) : Upgraded[i] = Handshake
  BY UpgradedShape
<1>3. CASE opts.cert
  <2>1. opts.startTLS
    BY <1>3, OptionTypes DEF OptionsFit
  <2>2. IMAP(opts) = Upgraded \o <<Certificate>>
    BY <1>3 DEF IMAP, Upgraded, Handshake, Certificate
  <2>3. Demanded(opts) = {<<Certificate.what, TRUE>>}
    BY <1>3, Named, Zenon DEF Demanded
  <2>4. <<Certificate.what, TRUE>> = <<Certificate.what, opts.startTLS>>
    BY <2>1, OptionTypes DEF Options
  <2>5. Demanded(opts) \subseteq {<<Certificate.what, opts.startTLS>>}
    BY <2>3, <2>4
  <2> QED
    BY <1>1, <1>2, <2>2, <2>5, UpgradedShape, EndedScripted
<1>4. CASE ~opts.cert
  <2>1. IMAP(opts) = Upgraded \o <<Banner>>
    BY <1>4 DEF IMAP, Upgraded, Handshake
  <2>2. Demanded(opts) \subseteq {<<Banner.what, opts.startTLS>>}
    BY <1>4, NamedToo DEF Demanded
  <2> QED
    BY <1>1, <1>2, <2>1, <2>2, UpgradedShape, EndedScripted
<1> QED
  BY <1>3, <1>4

LEMMA TCPScripted ==
  ASSUME opts \in Probes, opts.kind = "tcp", NEW answered
  PROVE  Scripted(TCP(opts), FALSE, answered)
<1> DEFINE asked == IF opts.from THEN <<Ping>> ELSE <<>>
           begun == Upgraded \o asked
<1>1. asked \in Seq(Steps) /\ \A i \in 1..Len(asked) : asked[i] = Ping
  <2>1. CASE opts.from
    BY <2>1, NamedToo, Single
  <2>2. CASE ~opts.from
    BY <2>2, Nothing
  <2> QED
    BY <2>1, <2>2
<1>2. PICK m \in Nat : m = Len(Upgraded)
  BY UpgradedShape, LenProperties
<1>3. PICK n \in Nat : n = Len(asked)
  BY <1>1, LenProperties
<1>4. TCP(opts) = begun \o (IF opts.expect THEN <<Banner>> ELSE <<>>)
  BY DEF TCP, Upgraded, Handshake, Ping
<1> HIDE DEF asked
<1>5. /\ begun \in Seq(Steps) /\ Len(begun) = m + n
      /\ \A i \in 1..m : begun[i] = Upgraded[i]
      /\ \A i \in 1..n : begun[m + i] = asked[i]
  BY <1>1, <1>2, <1>3, UpgradedShape, Joined
<1> HIDE DEF begun
<1>6. ASSUME NEW i \in 1..Len(begun)
      PROVE  \/ begun[i] = Handshake /\ opts.startTLS
             \/ begun[i] = Ping
  <2>1. CASE i \in 1..m
    BY <1>2, <1>5, <2>1, UpgradedShape
  <2>2. CASE i \notin 1..m
    <3>1. i - m \in 1..n /\ m + (i - m) = i
      BY <1>5, <2>2
    <3> QED
      BY <1>1, <1>3, <1>5, <3>1
  <2> QED
    BY <2>1, <2>2
<1>7. opts.startTLS => 1 \in 1..Len(begun) /\ begun[1] = Handshake
  BY <1>2, <1>5, UpgradedShape
<1>8. Handshake # Ping
  BY Named, NamedToo
<1>9. opts.startTLS <=> \E i \in 1..Len(begun) : begun[i] = Handshake
  BY <1>6, <1>7, <1>8
<1>10. ~opts.cert
  BY OptionTypes DEF OptionsFit
<1>11. CASE opts.expect
  <2>1. TCP(opts) = begun \o <<Banner>>
    BY <1>4, <1>11
  <2>2. Demanded(opts) \subseteq {<<Banner.what, opts.startTLS>>}
    BY <1>10, NamedToo DEF Demanded
  <2> QED
    BY <1>5, <1>6, <1>9, <2>1, <2>2, EndedScripted
<1>12. CASE ~opts.expect
  <2>1. TCP(opts) = begun
    <3>1. TCP(opts) = begun \o <<>>
      BY <1>4, <1>12
    <3> QED
      BY <1>5, <3>1
  <2>2. Demanded(opts) = {}
    BY <1>10, <1>12 DEF Demanded
  <2>3. WellScripted(begun)
    BY <1>6, Named, NamedToo DEF WellScripted
  <2>4. /\ MailAhead(begun, FALSE) /\ DemandsAhead(begun, FALSE, answered)
        /\ GreetingAhead(begun, FALSE, answered)
    BY <2>2 DEF MailAhead, DemandsAhead, GreetingAhead
  <2> QED
    BY <1>5, <2>1, <2>3, <2>4 DEF Scripted
<1> QED
  BY <1>11, <1>12
Others == {"milter", "http", "dns", "rspamd", "mysql", "replication"}

LEMMA OthersScripted ==
  ASSUME opts \in Probes, opts.kind \in Others, NEW answered
  PROVE  Scripted(Conversation(opts), FALSE, answered)
<1>1. ~opts.cert /\ (opts.expect => opts.kind = "mysql")
  BY OptionTypes DEF OptionsFit, Others
<1>2. ~opts.expect => Demanded(opts) = {}
  BY <1>1 DEF Demanded, Others
<1>3. /\ "GET" \in Words /\ "udp query" \in Words /\ "tcp query" \in Words /\ "scan" \in Words
      /\ "ping" \in Words /\ "query" \in Words /\ "status" \in Words
  BY DEF Words
<1>4. /\ {"next"} \in SUBSET Outcomes /\ {"warning", "critical"} \in SUBSET Outcomes
      /\ {"critical"} \in SUBSET Outcomes /\ {"critical", "fallback"} \in SUBSET Outcomes
      /\ {"critical", "unknown"} \in SUBSET Outcomes
  BY DEF Outcomes
<1>5. CASE opts.kind = "milter"
  <2> DEFINE step == [Step("GET", {"next"}) EXCEPT !.gone = "next"]
  <2>1. /\ step \in Steps /\ step.what = "GET" /\ step.other = {"next"}
    <3>1. <<>> \in Seq(Plainly)
      OBVIOUS
    <3> QED
      BY <1>3, <1>4, <3>1 DEF Step, Steps
  <2>2. Conversation(opts) = <<step>>
    BY <1>5 DEF Conversation, Milter
  <2> HIDE DEF step
  <2> QED
    BY <1>1, <1>2, <1>5, <2>1, <2>2, AloneScripted DEF Others
<1>6. CASE opts.kind = "http"
  <2> DEFINE step == Step("GET", {"warning", "critical"})
  <2>1. /\ step \in Steps /\ step.what = "GET" /\ step.other = {"warning", "critical"}
    BY <1>3, <1>4, StepType
  <2>2. Conversation(opts) = <<step>>
    BY <1>6 DEF Conversation, HTTP
  <2> HIDE DEF step
  <2> QED
    BY <1>1, <1>2, <1>6, <2>1, <2>2, AloneScripted DEF Others
<1>7. CASE opts.kind = "dns"
  <2> DEFINE again == Step("tcp query", {"critical"})
             step == [Step("udp query", {"critical", "fallback"}) EXCEPT !.fallback = <<again>>]
  <2>1. again \in Plainly
    BY <1>3, <1>4, StepType
  <2> HIDE DEF again
  <2>2. <<again>> \in Seq(Plainly)
    BY <2>1
  <2> USE DEF again
  <2>3. step \in Steps /\ step.what = "udp query" /\ step.fallback = <<again>>
    BY <1>3, <1>4, <2>2 DEF Step, Steps
  <2>4. Conversation(opts) = <<step>>
    BY <1>7 DEF Conversation, DNS
  <2> HIDE DEF step
  <2> QED
    BY <1>1, <1>2, <1>7, <2>3, <2>4, AloneScripted DEF Others
<1>8. CASE opts.kind = "rspamd"
  <2> DEFINE step == Step("scan", {"critical"})
  <2>1. /\ step \in Steps /\ step.what = "scan" /\ step.other = {"critical"}
    BY <1>3, <1>4, StepType
  <2>2. Conversation(opts) = <<step>>
    BY <1>8 DEF Conversation, Rspamd
  <2> HIDE DEF step
  <2> QED
    BY <1>1, <1>2, <1>8, <2>1, <2>2, AloneScripted DEF Others
<1>9. CASE opts.kind = "replication"
  <2> DEFINE step == Step("status", {"critical", "unknown"})
  <2>1. /\ step \in Steps /\ step.what = "status" /\ step.other = {"critical", "unknown"}
    BY <1>3, <1>4, StepType
  <2>2. Conversation(opts) = <<step>>
    BY <1>9 DEF Conversation, Replication
  <2> HIDE DEF step
  <2> QED
    BY <1>1, <1>2, <1>9, <2>1, <2>2, AloneScripted DEF Others
<1>10. CASE opts.kind = "mysql"
  <2> DEFINE ping == Step("ping", {"critical"})
             query == Step("query", {"critical"})
  <2>1. /\ ping \in Steps /\ ping.what = "ping" /\ ping.other = {"critical"}
        /\ query \in Steps /\ query.what = "query" /\ query.other = {"critical"}
        /\ ping.gone = "critical" /\ query.gone = "critical"
    BY <1>3, <1>4, StepType
  <2>2. Conversation(opts) = <<ping>> \o (IF opts.expect THEN <<query>> ELSE <<>>)
    BY <1>10 DEF Conversation, MySQL
  <2> HIDE DEF ping, query
  <2>3. CASE ~opts.expect
    <3>1. Conversation(opts) = <<ping>>
      BY <2>1, <2>2, <2>3
    <3> QED
      BY <1>1, <1>2, <1>10, <2>1, <2>3, <3>1, AloneScripted DEF Others
  <2>4. CASE opts.expect
    <3> DEFINE q == <<ping>> \o <<query>>
    <3>1. q = Conversation(opts)
      BY <2>2, <2>4
    <3>2. q \in Seq(Steps) /\ Len(q) = 2 /\ q[1] = ping /\ q[2] = query
      <4>1. /\ <<ping>> \in Seq(Steps) /\ Len(<<ping>>) = 1 /\ <<ping>>[1] = ping
            /\ <<query>> \in Seq(Steps) /\ Len(<<query>>) = 1 /\ <<query>>[1] = query
        BY <2>1, Single
      <4> QED
        BY <4>1, Joined, 1 \in 1..1, 1 + 1 = 2
    <3> HIDE DEF q
    <3>3. \A i \in 1..Len(q) : i = 1 \/ i = 2
      <4>1. \A i \in 1..2 : i = 1 \/ i = 2
        OBVIOUS
      <4> QED
        BY <3>2, <4>1
    <3>4. WellScripted(q)
      <4>1. \A i \in 1..Len(q) : /\ q[i].what \notin {"handshake", "certificate"}
                                  /\ "fallback" \notin q[i].other
        BY <2>1, <3>2, <3>3
      <4> QED
        BY <4>1 DEF WellScripted
    <3>5. DemandsAhead(q, FALSE, answered)
      <4> SUFFICES ASSUME NEW d \in Demanded(opts)
                   PROVE  Outstanding(q, FALSE, d)
        BY DEF DemandsAhead
      <4>1. d = <<"query", FALSE>>
        BY <1>1, <1>10, <2>4, Zenon DEF Demanded
      <4>2. d[1] = "query" /\ ~d[2]
        BY <4>1
      <4>3. 2 \in 1..Len(q) /\ \A j \in 1..(2 - 1) : j = 1
        BY <3>2
      <4>4. ~SecureAt(q, FALSE, 2)
        BY <2>1, <3>2, <4>3 DEF SecureAt
      <4>5. Strict(q[2]) /\ q[2].what = d[1]
        BY <2>1, <3>2, <4>2 DEF Strict
      <4> QED
        BY <4>2, <4>3, <4>4, <4>5 DEF Outstanding
    <3>6. MailAhead(q, FALSE) /\ GreetingAhead(q, FALSE, answered)
      BY <1>10 DEF MailAhead, GreetingAhead
    <3> QED
      BY <3>1, <3>2, <3>4, <3>5, <3>6 DEF Scripted
  <2> QED
    BY <2>3, <2>4
<1> QED
  BY <1>5, <1>6, <1>7, <1>8, <1>9, <1>10 DEF Others

LEMMA ConversationScripted ==
  ASSUME opts \in Probes, NEW answered
  PROVE  Scripted(Conversation(opts), FALSE, answered)
<1>1. opts.kind \in Kinds
  BY OptionTypes DEF Options
<1>2. CASE opts.kind \in {"smtp", "lmtp"}
  BY <1>2, SMTPScripted DEF Conversation
<1>3. CASE opts.kind = "imap"
  BY <1>3, IMAPScripted DEF Conversation
<1>4. CASE opts.kind = "tcp"
  BY <1>4, TCPScripted DEF Conversation
<1>5. CASE opts.kind \in Others
  BY <1>5, OthersScripted
<1> QED
  BY <1>1, <1>2, <1>3, <1>4, <1>5 DEF Kinds, Others

-----------------------------------------------------------------------------
(* What a step of a conversation does to the script.                        *)

LEMMA Popped ==
  ASSUME NEW q \in Seq(Steps), q # <<>>
  PROVE  /\ Head(q) = q[1] /\ 1 \in 1..Len(q)
         /\ Tail(q) \in Seq(Steps) /\ Len(Tail(q)) = Len(q) - 1 /\ Len(q) \in Nat \ {0}
         /\ \A i \in 1..Len(Tail(q)) : i + 1 \in 1..Len(q) /\ Tail(q)[i] = q[i + 1]
  BY HeadTailProperties, EmptySeq, LenProperties

LEMMA PoppedSecure ==
  ASSUME NEW q \in Seq(Steps), q # <<>>, NEW s \in BOOLEAN, NEW t \in BOOLEAN,
         t <=> s \/ q[1].what = "handshake", NEW i \in 1..Len(Tail(q))
  PROVE  SecureAt(Tail(q), t, i) <=> SecureAt(q, s, i + 1)
<1>1. PICK n \in Nat : n = Len(Tail(q)) /\ Len(q) = n + 1
  BY Popped
<1>2. \A j \in 1..n : Tail(q)[j] = q[j + 1]
  BY <1>1, Popped
<1>3. i \in 1..n
  BY <1>1
<1>4. ASSUME SecureAt(Tail(q), t, i)
      PROVE  SecureAt(q, s, i + 1)
  <2>1. CASE s
    BY <2>1 DEF SecureAt
  <2>2. CASE q[1].what = "handshake"
    <3>1. 1 \in 1..(i + 1 - 1)
      BY <1>3
    <3> QED
      BY <2>2, <3>1 DEF SecureAt
  <2>3. CASE \E j \in 1..(i - 1) : Tail(q)[j].what = "handshake"
    <3>1. PICK j \in 1..(i - 1) : Tail(q)[j].what = "handshake"
      BY <2>3
    <3>2. j \in 1..n /\ j + 1 \in 1..(i + 1 - 1)
      BY <1>3
    <3>3. q[j + 1].what = "handshake"
      BY <1>2, <3>1, <3>2
    <3> QED
      BY <3>2, <3>3 DEF SecureAt
  <2> QED
    BY <1>4, <2>1, <2>2, <2>3 DEF SecureAt
<1>5. ASSUME SecureAt(q, s, i + 1), ~t
      PROVE  SecureAt(Tail(q), t, i)
  <2>1. PICK j \in 1..(i + 1 - 1) : q[j].what = "handshake"
    BY <1>5 DEF SecureAt
  <2>2. j # 1
    BY <1>5, <2>1
  <2>3. j - 1 \in 1..n /\ j - 1 \in 1..(i - 1) /\ (j - 1) + 1 = j
    BY <1>3, <2>2
  <2>4. Tail(q)[j - 1].what = "handshake"
    BY <1>2, <2>1, <2>3
  <2> QED
    BY <2>3, <2>4 DEF SecureAt
<1>6. t => SecureAt(Tail(q), t, i)
  BY DEF SecureAt
<1> QED
  BY <1>4, <1>5, <1>6

LEMMA DemandTypes ==
  ASSUME opts \in Probes, NEW d \in Demanded(opts)
  PROVE  /\ d = <<d[1], d[2]>> /\ d[2] \in BOOLEAN
         /\ d[1] \notin {"handshake", "EHLO", "HELO"}
         /\ ~opts.cert => d[1] # "certificate"
         /\ opts.cert => d = <<"certificate", TRUE>>
<1>1. CASE opts.cert
  <2>1. d = <<"certificate", TRUE>>
    BY <1>1, Zenon DEF Demanded
  <2> QED
    BY <1>1, <2>1
<1>2. CASE ~opts.cert /\ opts.kind \in {"smtp", "lmtp"}
  <2>1. opts.startTLS \in BOOLEAN
    BY OptionTypes DEF Options
  <2>2. PICK c \in Commands \cup {"MAIL FROM"} : d = <<c, opts.startTLS>>
    BY <1>2, OptionTypes DEF Demanded
  <2>3. c \notin {"handshake", "EHLO", "HELO", "certificate"}
    BY <2>2 DEF Verbs
  <2> QED
    BY <1>2, <2>1, <2>2, <2>3
<1>3. CASE ~opts.cert /\ opts.kind \notin {"smtp", "lmtp"}
  <2>1. opts.startTLS \in BOOLEAN
    BY OptionTypes DEF Options
  <2>2. d = <<"query", FALSE>> \/ d = <<"banner", opts.startTLS>>
    BY <1>3, Zenon DEF Demanded
  <2>3. CASE d = <<"query", FALSE>>
    BY <1>3, <2>3
  <2>4. CASE d = <<"banner", opts.startTLS>>
    BY <1>3, <2>1, <2>4
  <2> QED
    BY <2>2, <2>3, <2>4
<1> QED
  BY <1>1, <1>2, <1>3

\* The first step is behind: it was answered as wanted, or may be missed.
LEMMA PoppedScripted ==
  ASSUME opts \in Probes, NEW q, NEW s, NEW g, Scripted(q, s, g), q # <<>>,
         NEW t \in BOOLEAN, t <=> s \/ q[1].what = "handshake", NEW h, g \subseteq h,
         \/ q[1].what # "certificate" /\ <<q[1].what, t>> \in h
         \/ "next" \in q[1].other \/ q[1].gone = "next"
  PROVE  Scripted(Tail(q), t, h)
<1>1. q \in Seq(Steps) /\ s \in BOOLEAN
  BY DEF Scripted
<1>2. /\ 1 \in 1..Len(q)
      /\ Tail(q) \in Seq(Steps) /\ Len(Tail(q)) = Len(q) - 1 /\ Len(q) \in Nat \ {0}
      /\ \A i \in 1..Len(Tail(q)) : i + 1 \in 1..Len(q) /\ Tail(q)[i] = q[i + 1]
  BY <1>1, Popped
<1>3. \A i \in 1..Len(Tail(q)) : SecureAt(Tail(q), t, i) <=> SecureAt(q, s, i + 1)
  BY <1>1, PoppedSecure
<1>4. \A i \in 1..Len(q) : i = 1 \/ (i - 1 \in 1..Len(Tail(q)) /\ (i - 1) + 1 = i)
  BY <1>2
<1>5. SecureAt(q, s, 1) <=> s
  BY DEF SecureAt
<1>6. q[1].what = "handshake" => Strict(q[1])
  BY <1>2 DEF Scripted, WellScripted
<1>7. WellScripted(Tail(q))
  <2> SUFFICES ASSUME NEW i \in 1..Len(Tail(q))
               PROVE  /\ Tail(q)[i].what = "handshake" => Strict(Tail(q)[i])
                      /\ Tail(q)[i].what = "certificate" => i = Len(Tail(q))
                      /\ "fallback" \in Tail(q)[i].other =>
                           \/ /\ Tail(q)[i].what = "EHLO"
                              /\ Tail(q)[i].fallback = <<Step("HELO", {"critical"})>>
                           \/ /\ opts.kind = "dns" /\ Tail(q)[i].what = "udp query"
                              /\ Tail(q)[i].fallback = <<Step("tcp query", {"critical"})>>
    BY DEF WellScripted
  <2>1. Tail(q)[i] = q[i + 1] /\ i + 1 \in 1..Len(q)
    BY <1>2
  <2>2. i + 1 = Len(q) => i = Len(Tail(q))
    <3>1. PICK n \in Nat : n = Len(q) /\ Len(Tail(q)) = n - 1
      BY <1>2
    <3> QED
      BY <3>1
  <2> QED
    BY <2>1, <2>2 DEF Scripted, WellScripted
<1>8. MailAhead(Tail(q), t)
  BY <1>2, <1>3 DEF Scripted, MailAhead
<1>9. DemandsAhead(Tail(q), t, h)
  <2> SUFFICES ASSUME NEW d \in Demanded(opts), d \notin h
               PROVE  Outstanding(Tail(q), t, d)
    BY DEF DemandsAhead
  <2>1. PICK i \in 1..Len(q) :
          Strict(q[i]) /\ q[i].what = d[1] /\ (d[2] <=> SecureAt(q, s, i))
    BY DEF Scripted, DemandsAhead, Outstanding
  <2>2. i # 1
    <3> SUFFICES ASSUME i = 1
                 PROVE  FALSE
      OBVIOUS
    <3>1. q[1].what = d[1] /\ (d[2] <=> s) /\ Strict(q[1])
      BY <1>5, <2>1
    <3>2. d[2] = t /\ d = <<q[1].what, t>>
      BY <1>1, <3>1, DemandTypes
    <3> QED
      BY <3>1, <3>2 DEF Strict
  <2>3. /\ i - 1 \in 1..Len(Tail(q)) /\ Tail(q)[i - 1] = q[i]
        /\ SecureAt(Tail(q), t, i - 1) <=> SecureAt(q, s, i)
    BY <1>2, <1>3, <1>4, <2>2
  <2> QED
    BY <2>1, <2>3 DEF Outstanding
<1>10. GreetingAhead(Tail(q), t, h)
  <2> SUFFICES ASSUME opts.kind = "smtp", Greetings \cap h = {}
               PROVE  \E i \in 1..Len(Tail(q)) :
                        /\ \/ Tail(q)[i].what = "EHLO"
                           \/ Tail(q)[i].what = "HELO" /\ Strict(Tail(q)[i])
                        /\ "next" \notin Tail(q)[i].other /\ Tail(q)[i].gone = "critical"
                        /\ opts.startTLS <=> SecureAt(Tail(q), t, i)
    BY DEF GreetingAhead
  <2>1. PICK i \in 1..Len(q) :
          /\ q[i].what = "EHLO" \/ (q[i].what = "HELO" /\ Strict(q[i]))
          /\ "next" \notin q[i].other /\ q[i].gone = "critical"
          /\ opts.startTLS <=> SecureAt(q, s, i)
    BY DEF Scripted, GreetingAhead
  <2>2. i # 1
    <3> SUFFICES ASSUME i = 1
                 PROVE  FALSE
      OBVIOUS
    <3>1. /\ q[1].what \in {"EHLO", "HELO"} /\ (opts.startTLS <=> s)
          /\ "next" \notin q[1].other /\ q[1].gone = "critical"
      BY <1>5, <2>1
    <3>2. opts.startTLS \in BOOLEAN
      BY OptionTypes DEF Options
    <3>3. t = opts.startTLS
      BY <1>1, <3>1, <3>2
    <3> QED
      BY <3>1, <3>3 DEF Greetings
  <2>3. /\ i - 1 \in 1..Len(Tail(q)) /\ Tail(q)[i - 1] = q[i]
        /\ SecureAt(Tail(q), t, i - 1) <=> SecureAt(q, s, i)
    BY <1>2, <1>3, <1>4, <2>2
  <2> QED
    BY <2>1, <2>3
<1> QED
  BY <1>2, <1>7, <1>8, <1>9, <1>10 DEF Scripted
LEMMA AlternativeTypes ==
  /\ Step("HELO", {"critical"}) \in Steps /\ Step("tcp query", {"critical"}) \in Steps
  /\ Step("HELO", {"critical"}).what = "HELO"
  /\ Step("tcp query", {"critical"}).what = "tcp query"
  /\ Strict(Step("HELO", {"critical"})) /\ Strict(Step("tcp query", {"critical"}))
  /\ "fallback" \notin Step("HELO", {"critical"}).other
  /\ "fallback" \notin Step("tcp query", {"critical"}).other
<1>1. /\ Step("HELO", {"critical"}) \in Steps
      /\ Step("HELO", {"critical"}).what = "HELO"
      /\ Strict(Step("HELO", {"critical"}))
      /\ "fallback" \notin Step("HELO", {"critical"}).other
  <2>1. "HELO" \in Words /\ {"critical"} \in SUBSET Outcomes
    BY DEF Words, Verbs, Outcomes
  <2>2. Step("HELO", {"critical"}) \in Steps
    BY <2>1, StepType
  <2> QED
    BY <2>2 DEF Step, Strict
<1>2. /\ Step("tcp query", {"critical"}) \in Steps
      /\ Step("tcp query", {"critical"}).what = "tcp query"
      /\ Strict(Step("tcp query", {"critical"}))
      /\ "fallback" \notin Step("tcp query", {"critical"}).other
  <2>1. "tcp query" \in Words /\ {"critical"} \in SUBSET Outcomes
    BY DEF Words, Verbs, Outcomes
  <2>2. Step("tcp query", {"critical"}) \in Steps
    BY <2>1, StepType
  <2> QED
    BY <2>2 DEF Step, Strict
<1> QED
  BY <1>1, <1>2, Zenon

\* The alternative takes the place of the first step.
LEMMA ReplacedScripted ==
  ASSUME opts \in Probes, NEW q, NEW s, NEW g, Scripted(q, s, g), q # <<>>,
         "fallback" \in q[1].other
  PROVE  /\ Scripted(q[1].fallback \o Tail(q), s, g)
         /\ Len(q[1].fallback \o Tail(q)) = Len(q)
<1>1. q \in Seq(Steps) /\ s \in BOOLEAN
  BY DEF Scripted
<1>2. /\ 1 \in 1..Len(q)
      /\ Tail(q) \in Seq(Steps) /\ Len(Tail(q)) = Len(q) - 1 /\ Len(q) \in Nat \ {0}
      /\ \A i \in 1..Len(Tail(q)) : i + 1 \in 1..Len(q) /\ Tail(q)[i] = q[i + 1]
  BY <1>1, Popped
<1>3. PICK n \in Nat : n = Len(Tail(q)) /\ Len(q) = n + 1
  BY <1>1, Popped
<1>4. PICK f \in Steps : /\ q[1].fallback = <<f>>
                         /\ Strict(f) /\ "fallback" \notin f.other
                         /\ \/ q[1].what = "EHLO" /\ f.what = "HELO"
                            \/ opts.kind = "dns" /\ q[1].what = "udp query" /\ f.what = "tcp query"
  <2>1. \/ q[1].what = "EHLO" /\ q[1].fallback = <<Step("HELO", {"critical"})>>
        \/ opts.kind = "dns" /\ q[1].what = "udp query"
           /\ q[1].fallback = <<Step("tcp query", {"critical"})>>
    BY <1>2 DEF Scripted, WellScripted
  <2>2. /\ Step("HELO", {"critical"}) \in Steps /\ Step("tcp query", {"critical"}) \in Steps
        /\ Step("HELO", {"critical"}).what = "HELO"
        /\ Step("tcp query", {"critical"}).what = "tcp query"
        /\ Strict(Step("HELO", {"critical"})) /\ Strict(Step("tcp query", {"critical"}))
        /\ "fallback" \notin Step("HELO", {"critical"}).other
        /\ "fallback" \notin Step("tcp query", {"critical"}).other
    BY AlternativeTypes
  <2>3. CASE q[1].what = "EHLO" /\ q[1].fallback = <<Step("HELO", {"critical"})>>
    BY <2>2, <2>3, Zenon
  <2>4. CASE /\ opts.kind = "dns" /\ q[1].what = "udp query"
             /\ q[1].fallback = <<Step("tcp query", {"critical"})>>
    BY <2>2, <2>4, Zenon
  <2> QED
    BY <2>1, <2>3, <2>4
<1> DEFINE r == q[1].fallback \o Tail(q)
<1>5. /\ r \in Seq(Steps) /\ Len(r) = n + 1 /\ r[1] = f
      /\ \A i \in 1..n : r[1 + i] = Tail(q)[i]
  <2>1. <<f>> \in Seq(Steps) /\ Len(<<f>>) = 1 /\ <<f>>[1] = f /\ r = <<f>> \o Tail(q)
    BY <1>4, Single
  <2>2. 1 + n = n + 1 /\ 1 \in 1..1
    OBVIOUS
  <2> HIDE DEF r
  <2> QED
    BY <1>2, <1>3, <2>1, <2>2, Joined
<1> HIDE DEF r
<1>6. \A i \in 1..Len(q) : i = 1 \/ r[i] = q[i]
  <2> SUFFICES ASSUME NEW i \in 1..Len(q), i # 1
               PROVE  r[i] = q[i]
    OBVIOUS
  <2>1. i - 1 \in 1..n /\ 1 + (i - 1) = i /\ (i - 1) + 1 = i
    BY <1>3
  <2> QED
    BY <1>2, <1>3, <1>5, <2>1
<1>7. Len(r) = Len(q)
  BY <1>3, <1>5
<1>8. \A i \in 1..Len(q) : r[i].what = "handshake" <=> q[i].what = "handshake"
  BY <1>4, <1>5, <1>6
<1>9. \A i \in 1..Len(q) : SecureAt(r, s, i) <=> SecureAt(q, s, i)
  <2> SUFFICES ASSUME NEW i \in 1..Len(q)
               PROVE  SecureAt(r, s, i) <=> SecureAt(q, s, i)
    OBVIOUS
  <2>1. \A j \in 1..(i - 1) : j \in 1..Len(q)
    BY <1>3
  <2> QED
    BY <1>8, <2>1 DEF SecureAt
<1>10. WellScripted(r)
  <2> SUFFICES ASSUME NEW i \in 1..Len(q)
               PROVE  /\ r[i].what = "handshake" => Strict(r[i])
                      /\ r[i].what = "certificate" => i = Len(q)
                      /\ "fallback" \in r[i].other =>
                           \/ r[i].what = "EHLO" /\ r[i].fallback = <<Step("HELO", {"critical"})>>
                           \/ /\ opts.kind = "dns" /\ r[i].what = "udp query"
                              /\ r[i].fallback = <<Step("tcp query", {"critical"})>>
    BY <1>7 DEF WellScripted
  <2>1. CASE i = 1
    <3>1. r[i] = f /\ f.what \notin {"handshake", "certificate"} /\ "fallback" \notin f.other
      BY <1>4, <1>5, <2>1
    <3> QED
      BY <3>1
  <2>2. CASE i # 1
    BY <1>6, <2>2 DEF Scripted, WellScripted
  <2> QED
    BY <2>1, <2>2
<1>11. MailAhead(r, s)
  <2> SUFFICES ASSUME opts.kind \in {"smtp", "lmtp"}, opts.startTLS,
                      NEW i \in 1..Len(q), r[i].what \in Mail(opts)
               PROVE  SecureAt(r, s, i) /\ ~opts.cert
    BY <1>7 DEF MailAhead
  <2>1. i # 1
    <3>1. f.what = "HELO"
      BY <1>4
    <3>2. r[i].what \in Commands \cup {"MAIL FROM"}
      BY OptionTypes DEF Mail
    <3>3. r[i].what # "HELO"
      BY <3>2 DEF Verbs
    <3> QED
      BY <1>5, <3>1, <3>3
  <2> QED
    BY <1>6, <1>9, <2>1 DEF Scripted, MailAhead
<1>12. DemandsAhead(r, s, g)
  <2> SUFFICES ASSUME NEW d \in Demanded(opts), d \notin g
               PROVE  Outstanding(r, s, d)
    BY DEF DemandsAhead
  <2>1. PICK i \in 1..Len(q) :
          Strict(q[i]) /\ q[i].what = d[1] /\ (d[2] <=> SecureAt(q, s, i))
    BY DEF Scripted, DemandsAhead, Outstanding
  <2>2. i # 1
    BY <2>1 DEF Strict
  <2> QED
    BY <1>6, <1>7, <1>9, <2>1, <2>2 DEF Outstanding
<1>13. GreetingAhead(r, s, g)
  <2> SUFFICES ASSUME opts.kind = "smtp", Greetings \cap g = {}
               PROVE  \E i \in 1..Len(r) :
                        /\ r[i].what = "EHLO" \/ (r[i].what = "HELO" /\ Strict(r[i]))
                        /\ "next" \notin r[i].other /\ r[i].gone = "critical"
                        /\ opts.startTLS <=> SecureAt(r, s, i)
    BY DEF GreetingAhead
  <2>1. PICK i \in 1..Len(q) :
          /\ q[i].what = "EHLO" \/ (q[i].what = "HELO" /\ Strict(q[i]))
          /\ "next" \notin q[i].other /\ q[i].gone = "critical"
          /\ opts.startTLS <=> SecureAt(q, s, i)
    BY DEF Scripted, GreetingAhead
  <2>2. CASE i = 1
    <3>1. f.what = "HELO" /\ Strict(f)
      BY <1>4, <2>1, <2>2
    <3> QED
      BY <1>5, <1>7, <1>9, <2>1, <2>2, <3>1 DEF Strict
  <2>3. CASE i # 1
    BY <1>6, <1>7, <1>9, <2>1, <2>3
  <2> QED
    BY <2>2, <2>3
<1> QED
  BY <1>5, <1>7, <1>10, <1>11, <1>12, <1>13 DEF Scripted, r

-----------------------------------------------------------------------------
(* The invariant.                                                           *)

\* What dockerapi.IP returns is an address the service has now.
LEMMA ResolvesToReach ==
  ASSUME TypeOK, NEW x \in IP(resolver[1], resolver[2], Listed, Service)
  PROVE  x \in Reach /\ x \in OnNetwork
<1> DEFINE dialect == resolver[1]
           endpoint == resolver[2]
<1>1. PICK c \in List(dialect, endpoint, Listed) : c.service = Service /\ x \in c.addrs \cap OnNetwork
  BY DEF IP, PickAddress
<1>2. PICK b \in Up : c = Normalised(dialect, endpoint, Placed(b))
  BY <1>1 DEF List, Listed
<1>3. /\ Placed(b).service = Boxes[b].service /\ Placed(b).addrs = at[b]
      /\ b \in DOMAIN Boxes /\ at[b] \in Homes[b] \cup {{}}
  BY <1>2 DEF Placed, Up, TypeOK
<1>4. Boxes[b].service = Service /\ c.addrs = at[b]
  <2> DEFINE p == Placed(b)
  <2>1. CASE dialect = "mailcow"
    BY <1>1, <1>2, <1>3, <2>1 DEF Normalised
  <2>2. CASE dialect # "mailcow" /\ endpoint = "engine"
    <3>1. c = [p EXCEPT !.started = Unset]
      BY <1>2, <2>2 DEF Normalised
    <3>2. c.service = Boxes[b].service /\ c.addrs = at[b]
      BY <3>1 DEF Placed
    <3> QED
      BY <1>1, <3>2
  <2>3. CASE dialect # "mailcow" /\ endpoint # "engine"
    <3>1. c = [p EXCEPT !.started = Unset, !.service = Unset, !.project = Unset]
      BY <1>2, <2>3 DEF Normalised
    <3>2. c.service = Unset
      BY <3>1 DEF Placed
    <3> QED
      BY <1>1, <3>2
  <2> QED
    BY <2>1, <2>2, <2>3
<1>5. at[b] \in Homes[b] /\ at[b] \cap OnNetwork # {}
  BY <1>1, <1>3, <1>4
<1>6. Boxes[b].project = Project
  BY <1>3, <1>5
<1>7. b \in Ours
  BY <1>3, <1>4, <1>6 DEF Ours
<1> QED
  BY <1>1, <1>4, <1>7 DEF Reach

LEMMA ReachOnNetwork == Reach \subseteq OnNetwork
  BY DEF Reach

LEMMA ReachUnchanged ==
  ASSUME at' = at
  PROVE  Reach' = Reach
  BY DEF Reach, Ours

LEMMA ConversationTypes ==
  ASSUME opts \in Probes
  PROVE  /\ Conversation(opts) \in Seq(Steps) /\ Len(Conversation(opts)) \in Nat
         /\ Len(<<>>) = 0 /\ <<>> \in Seq(Steps)
<1>1. Conversation(opts) \in Seq(Steps)
  BY ConversationScripted DEF Scripted
<1> QED
  BY <1>1, LenProperties, Nothing

LEMMA InitInv == Init => Inv
<1> SUFFICES ASSUME Init
             PROVE  Inv
  OBVIOUS
<1>1. TypeOK
  <2>1. opts \in Probes /\ Len(todo) <= Len(Conversation(opts))
    BY ConversationTypes DEF Init
  <2>2. chunks \in 0..ReadLimit
    BY DEF Init
  <2> QED
    BY <2>1, <2>2 DEF Init, TypeOK
<1>2. Places
  BY Nothing DEF Init, Places
<1>3. FollowsTheContainer /\ MailOnlyInside /\ OkIsEarned
  BY DEF Init, FollowsTheContainer, MailOnlyInside, OkIsEarned
<1> QED
  BY <1>1, <1>2, <1>3 DEF Inv, Init

\* A round that ends in v, with whatever was said and answered by then.
LEMMA ConcludeInv ==
  ASSUME Inv, NEW v \in {"ok", "warning", "critical", "unknown"}, Conclude(v),
         MailOnlyInside', OkIsEarned', \A x \in sent' \cup got' : x[2] \in BOOLEAN
  PROVE  Inv'
<1>1. opts' = opts /\ at' = at /\ resolver' = resolver /\ host' = host /\ had' = had
  BY DEF Conclude, envVars
<1>2. stage' = "resting" /\ verdict' = v /\ todo' = <<>> /\ secure' = FALSE /\ chunks' = 0
  BY DEF Conclude
<1>3. TypeOK'
  <2>1. opts \in Probes /\ Len(todo') <= Len(Conversation(opts'))
    BY <1>1, <1>2, ConversationTypes DEF Inv, TypeOK
  <2>2. chunks' \in 0..ReadLimit
    BY <1>2
  <2> QED
    BY <1>1, <1>2, <2>1, <2>2 DEF Inv, TypeOK
<1>4. Places'
  BY <1>1, <1>2, Nothing DEF Inv, Places
<1>5. FollowsTheContainer'
  BY <1>2 DEF FollowsTheContainer
<1> QED
  BY <1>2, <1>3, <1>4, <1>5 DEF Inv

\* Whatever a conversation says next may be said now.
LEMMA SendsFit ==
  ASSUME Inv, Talks, Sends, opts' = opts
  PROVE  MailOnlyInside' /\ (\A x \in sent' : x[2] \in BOOLEAN)
<1>1. todo \in Seq(Steps) /\ todo # <<>> /\ MailAhead(todo, secure) /\ secure \in BOOLEAN
  BY DEF Inv, Talks, Scripted
<1>2. Head(todo) = todo[1] /\ 1 \in 1..Len(todo)
  BY <1>1, Popped
<1>3. SecureAt(todo, secure, 1) <=> secure
  BY DEF SecureAt
<1>4. sent' = sent \cup {<<todo[1].what, secure>>}
  BY <1>2 DEF Sends
<1>5. \A x \in sent' : x[2] \in BOOLEAN
  BY <1>1, <1>4 DEF Inv, TypeOK
<1>6. ASSUME opts.kind \in {"smtp", "lmtp"}, opts.startTLS, NEW x \in sent', x[1] \in Mail(opts)
      PROVE  x[2] /\ ~opts.cert
  <2>1. CASE x \in sent
    BY <1>6, <2>1 DEF Inv, MailOnlyInside
  <2>2. CASE x = <<todo[1].what, secure>>
    <3>1. todo[1].what \in Mail(opts) /\ x[2] = secure
      BY <1>6, <2>2
    <3>2. SecureAt(todo, secure, 1) /\ ~opts.cert
      BY <1>1, <1>2, <1>6, <3>1 DEF MailAhead
    <3> QED
      BY <1>3, <3>1, <3>2
  <2> QED
    BY <1>4, <1>6, <2>1, <2>2
<1> QED
  BY <1>5, <1>6 DEF MailOnlyInside

\* The conversation goes on with the script q.
LEMMA TalksOnInv ==
  ASSUME Inv, Talks, Sends, NEW q, NEW c \in 0..ReadLimit, NEW s \in BOOLEAN,
         UNCHANGED <<envVars, stage, host, had, verdict>>,
         todo' = q, secure' = s, chunks' = c,
         Scripted(q, s, got'), Len(q) <= Len(todo), \A x \in got' : x[2] \in BOOLEAN
  PROVE  Inv'
<1>1. /\ opts' = opts /\ at' = at /\ resolver' = resolver
      /\ stage' = stage /\ host' = host /\ had' = had /\ verdict' = verdict
      /\ stage = "talking" /\ verdict = "none"
  BY DEF envVars, Talks, Inv, Places
<1>2. MailOnlyInside' /\ \A x \in sent' : x[2] \in BOOLEAN
  BY <1>1, SendsFit
<1>3. q \in Seq(Steps) /\ todo \in Seq(Steps)
  BY DEF Scripted, Inv, Places
<1>4. Len(q) <= Len(Conversation(opts))
  <2>1. Len(q) \in Nat /\ Len(todo) \in Nat /\ Len(Conversation(opts)) \in Nat
    BY <1>3, ConversationTypes, LenProperties DEF Inv, TypeOK
  <2> QED
    BY <2>1 DEF Inv, TypeOK
<1>5. TypeOK'
  BY <1>1, <1>2, <1>4 DEF Inv, TypeOK
<1>6. Places'
  BY <1>1, <1>3, ReachUnchanged DEF Inv, Places
<1>7. FollowsTheContainer' /\ OkIsEarned'
  BY <1>1 DEF Inv, FollowsTheContainer, OkIsEarned
<1>8. Scripted(todo, secure, got)'
  <2>1. WellScripted(todo)'
    BY <1>1 DEF Scripted, WellScripted
  <2>2. MailAhead(todo, secure)'
    BY <1>1 DEF Scripted, MailAhead, SecureAt
  <2>3. DemandsAhead(todo, secure, got)'
    BY <1>1 DEF Scripted, DemandsAhead, Outstanding, SecureAt
  <2>4. GreetingAhead(todo, secure, got)'
    BY <1>1 DEF Scripted, GreetingAhead, Greetings, SecureAt
  <2> QED
    BY <1>3, <2>1, <2>2, <2>3, <2>4 DEF Scripted
<1> QED
  BY <1>2, <1>5, <1>6, <1>7, <1>8 DEF Inv

LEMMA ScriptedUnchanged ==
  ASSUME Scripted(todo, secure, got), UNCHANGED <<opts, todo, secure, got>>
  PROVE  Scripted(todo, secure, got)'
<1>1. WellScripted(todo)'
  BY DEF Scripted, WellScripted
<1>2. MailAhead(todo, secure)'
  BY DEF Scripted, MailAhead, SecureAt
<1>3. DemandsAhead(todo, secure, got)'
  BY DEF Scripted, DemandsAhead, Outstanding, SecureAt
<1>4. GreetingAhead(todo, secure, got)'
  BY DEF Scripted, GreetingAhead, Greetings, SecureAt
<1> QED
  BY <1>1, <1>2, <1>3, <1>4 DEF Scripted

\* Containers come and go: the round's address has been the service's.
LEMMA RecreateInv ==
  ASSUME Inv, NEW b \in DOMAIN Boxes, Recreate(b)
  PROVE  Inv'
<1>1. PICK home \in Homes[b] \cup {{}} :
        /\ at' = [at EXCEPT ![b] = home]
        /\ had' = IF b \in Ours THEN had \cup (home \cap OnNetwork) ELSE had
  BY DEF Recreate
<1>2. /\ resolver' = resolver /\ opts' = opts /\ stage' = stage /\ host' = host
      /\ todo' = todo /\ secure' = secure /\ chunks' = chunks /\ sent' = sent /\ got' = got
      /\ verdict' = verdict
  BY DEF Recreate, talk
<1>3. at = [c \in DOMAIN Boxes |-> at[c]]
  BY DEF Inv, Places
<1>4. /\ at'[b] = home
      /\ \A c \in DOMAIN Boxes \ {b} : at'[c] = at[c]
      /\ at' = [c \in DOMAIN Boxes |-> at'[c]]
  BY <1>1, <1>3
<1>5. had \subseteq had' /\ had' \subseteq OnNetwork
  BY <1>1 DEF Inv, TypeOK
<1>6. TypeOK'
  BY <1>1, <1>2, <1>4, <1>5 DEF Inv, TypeOK
<1>7. Reach \subseteq had => Reach' \subseteq had'
  <2> SUFFICES ASSUME Reach \subseteq had, NEW x \in Reach'
               PROVE  x \in had'
    OBVIOUS
  <2>1. PICK c \in Ours : x \in at'[c] \cap OnNetwork
    BY DEF Reach, Ours
  <2>2. CASE c = b
    BY <1>1, <1>4, <2>1, <2>2
  <2>3. CASE c # b
    <3>1. at'[c] = at[c]
      BY <1>4, <2>3 DEF Ours
    <3> QED
      BY <1>5, <2>1, <3>1 DEF Reach
  <2> QED
    BY <2>2, <2>3
<1>8. Places'
  BY <1>2, <1>4, <1>7 DEF Inv, Places
<1>9. FollowsTheContainer' /\ MailOnlyInside' /\ OkIsEarned'
  BY <1>2, <1>5 DEF Inv, FollowsTheContainer, MailOnlyInside, OkIsEarned
<1>10. stage' = "talking" => Scripted(todo, secure, got)'
  BY <1>2, ScriptedUnchanged DEF Inv
<1> QED
  BY <1>6, <1>8, <1>9, <1>10 DEF Inv

LEMMA BeginInv ==
  ASSUME Inv, Begin
  PROVE  Inv'
<1>1. /\ stage = "resting" /\ stage' \in {"dialling", "resolving"}
      /\ stage' = "dialling" => host' = ByName
      /\ host' \in {host, ByName}
      /\ verdict' = "none" /\ sent' = {} /\ got' = {} /\ had' = Reach
      /\ at' = at /\ resolver' = resolver /\ opts' = opts
      /\ todo' = todo /\ secure' = secure /\ chunks' = chunks
  BY DEF Begin, envVars
<1>2. Reach' = Reach
  BY <1>1, ReachUnchanged
<1>3. TypeOK'
  BY <1>1, ReachOnNetwork DEF Inv, TypeOK
<1>4. Places'
  BY <1>1, <1>2 DEF Inv, Places
<1>5. FollowsTheContainer' /\ MailOnlyInside' /\ OkIsEarned'
  BY <1>1 DEF FollowsTheContainer, MailOnlyInside, OkIsEarned
<1> QED
  BY <1>1, <1>3, <1>4, <1>5 DEF Inv

\* The address is had already: looked up now, it is one the service has now.
LEMMA ResolvedInv ==
  ASSUME Inv, ResolveByAPI \/ ResolveByName
  PROVE  Inv'
<1>1. /\ stage = "resolving" /\ stage' = "dialling"
      /\ at' = at /\ resolver' = resolver /\ opts' = opts
      /\ todo' = todo /\ secure' = secure /\ chunks' = chunks /\ sent' = sent /\ got' = got
      /\ had' = had /\ verdict' = verdict
  BY DEF ResolveByAPI, ResolveByName, envVars, talk
<1>2. \/ host' = ByName
      \/ host' \in IP(resolver[1], resolver[2], Listed, Service)
  BY DEF ResolveByAPI, ResolveByName
<1>3. host' = ByName \/ (host' \in OnNetwork /\ host' \in had)
  BY <1>1, <1>2, ResolvesToReach DEF Inv, Places
<1>4. TypeOK'
  BY <1>1, <1>3 DEF Inv, TypeOK
<1>5. Places'
  BY <1>1, ReachUnchanged DEF Inv, Places
<1>6. FollowsTheContainer' /\ MailOnlyInside' /\ OkIsEarned'
  BY <1>1, <1>3 DEF Inv, FollowsTheContainer, MailOnlyInside, OkIsEarned
<1> QED
  BY <1>1, <1>4, <1>5, <1>6 DEF Inv

LEMMA DialInv ==
  ASSUME Inv, Dial
  PROVE  Inv'
<1>1. /\ stage = "dialling" /\ stage' = "talking" /\ todo' = Conversation(opts)
      /\ at' = at /\ resolver' = resolver /\ opts' = opts /\ host' = host
      /\ secure' = secure /\ chunks' = chunks /\ sent' = sent /\ got' = got
      /\ had' = had /\ verdict' = verdict
  BY DEF Dial, envVars
<1>2. opts \in Probes /\ ~secure /\ secure \in BOOLEAN
  BY <1>1 DEF Inv, TypeOK, Places
<1>3. Conversation(opts) \in Seq(Steps) /\ Len(Conversation(opts)) \in Nat
  BY <1>2, ConversationTypes
<1>4. Len(todo') <= Len(Conversation(opts'))
  BY <1>1, <1>3
<1>5. TypeOK'
  BY <1>1, <1>4 DEF Inv, TypeOK
<1>6. Places'
  BY <1>1, <1>3, ReachUnchanged DEF Inv, Places
<1>7. FollowsTheContainer' /\ MailOnlyInside' /\ OkIsEarned'
  BY <1>1 DEF Inv, FollowsTheContainer, MailOnlyInside, OkIsEarned
<1>8. Scripted(Conversation(opts), secure, got)
  <2>1. secure = FALSE
    BY <1>2
  <2> QED
    BY <1>2, <2>1, ConversationScripted
<1>9. Scripted(todo, secure, got)'
  <2>1. WellScripted(todo)'
    BY <1>1, <1>8 DEF Scripted, WellScripted
  <2>2. MailAhead(todo, secure)'
    BY <1>1, <1>8 DEF Scripted, MailAhead, SecureAt
  <2>3. DemandsAhead(todo, secure, got)'
    BY <1>1, <1>8 DEF Scripted, DemandsAhead, Outstanding, SecureAt
  <2>4. GreetingAhead(todo, secure, got)'
    BY <1>1, <1>8 DEF Scripted, GreetingAhead, Greetings, SecureAt
  <2> QED
    BY <1>1, <1>2, <1>3, <2>1, <2>2, <2>3, <2>4 DEF Scripted
<1> QED
  BY <1>5, <1>6, <1>7, <1>9 DEF Inv

\* A round ends with anything but OK, and nothing more is said or had.
LEMMA FailsInv ==
  ASSUME Inv, NEW v \in {"warning", "critical", "unknown"}, Conclude(v), UNCHANGED got,
         sent' = sent \/ (Talks /\ Sends)
  PROVE  Inv'
<1>1. opts' = opts /\ verdict' = v
  BY DEF Conclude, envVars
<1>2. MailOnlyInside' /\ \A x \in sent' : x[2] \in BOOLEAN
  <2>1. CASE sent' = sent
    BY <1>1, <2>1 DEF Inv, MailOnlyInside, TypeOK
  <2>2. CASE Talks /\ Sends
    BY <1>1, <2>2, SendsFit
  <2> QED
    BY <2>1, <2>2
<1>3. OkIsEarned'
  BY <1>1 DEF OkIsEarned
<1>4. \A x \in sent' \cup got' : x[2] \in BOOLEAN
  BY <1>2 DEF Inv, TypeOK
<1> QED
  BY <1>2, <1>3, <1>4, ConcludeInv

LEMMA TalksType ==
  ASSUME Inv, Talks
  PROVE  /\ todo \in Seq(Steps) /\ todo # <<>> /\ Head(todo) = todo[1]
         /\ 1 \in 1..Len(todo) /\ todo[1] \in Steps
         /\ Scripted(todo, secure, got) /\ secure \in BOOLEAN
         /\ stage = "talking" /\ opts \in Probes
         /\ chunks \in 0..ReadLimit
         /\ Tail(todo) \in Seq(Steps) /\ Len(Tail(todo)) <= Len(todo)
         /\ \A x \in got : x[2] \in BOOLEAN
<1>1. todo \in Seq(Steps) /\ todo # <<>> /\ Scripted(todo, secure, got) /\ stage = "talking"
  BY DEF Inv, Talks, Scripted
<1>2. /\ Head(todo) = todo[1] /\ 1 \in 1..Len(todo) /\ Tail(todo) \in Seq(Steps)
      /\ Len(Tail(todo)) = Len(todo) - 1 /\ Len(todo) \in Nat \ {0}
  BY <1>1, Popped
<1>3. todo[1] \in Steps
  BY <1>1, <1>2, ElementOfSeq
<1>4. Len(Tail(todo)) <= Len(todo)
  BY <1>2
<1> QED
  BY <1>1, <1>2, <1>3, <1>4 DEF Inv, TypeOK

LEMMA AnsweredInv ==
  ASSUME Inv, Answered
  PROVE  Inv'
<1>1. /\ Talks /\ Sends /\ Head(todo).what # "certificate"
      /\ secure' = (secure \/ Head(todo).what = "handshake")
      /\ got' = got \cup {<<Head(todo).what, secure'>>}
      /\ todo' = Tail(todo) /\ chunks' = chunks
      /\ UNCHANGED <<envVars, stage, host, had, verdict>>
  BY DEF Answered
<1>2. secure' \in BOOLEAN /\ (secure' <=> secure \/ todo[1].what = "handshake")
  BY <1>1, TalksType
<1>3. got \subseteq got' /\ <<todo[1].what, secure'>> \in got' /\ todo[1].what # "certificate"
  BY <1>1, TalksType
<1>4. Scripted(Tail(todo), secure', got')
  BY <1>1, <1>2, <1>3, TalksType, PoppedScripted
<1>5. \A x \in got' : x[2] \in BOOLEAN
  <2>1. \A x \in got : x[2] \in BOOLEAN
    BY <1>1, TalksType
  <2>2. <<Head(todo).what, secure'>>[2] \in BOOLEAN
    BY <1>2
  <2> QED
    BY <1>1, <2>1, <2>2
<1> QED
  BY <1>1, <1>2, <1>4, <1>5, TalksType, TalksOnInv

LEMMA GoesOnInv ==
  ASSUME Inv, Talks, Sends, UNCHANGED <<envVars, stage, host, secure, chunks, got, had, verdict>>,
         \/ "next" \in Head(todo).other /\ todo' = Tail(todo)
         \/ "fallback" \in Head(todo).other /\ todo' = Head(todo).fallback \o Tail(todo)
         \/ Head(todo).gone = "next" /\ todo' = Tail(todo)
  PROVE  Inv'
<1>1. CASE ("next" \in Head(todo).other \/ Head(todo).gone = "next") /\ todo' = Tail(todo)
  <2>1. "next" \in todo[1].other \/ todo[1].gone = "next"
    BY <1>1, TalksType
  <2>2. todo[1].what # "handshake"
    BY <2>1, TalksType DEF Scripted, WellScripted, Strict
  <2>3. secure <=> secure \/ todo[1].what = "handshake"
    BY <2>2, TalksType
  <2>4. Scripted(Tail(todo), secure, got)
    BY <2>1, <2>3, TalksType, PoppedScripted
  <2>5. got' = got /\ secure' = secure /\ chunks' = chunks
    OBVIOUS
  <2> QED
    BY <1>1, <2>4, <2>5, TalksType, TalksOnInv
<1>2. CASE "fallback" \in Head(todo).other /\ todo' = Head(todo).fallback \o Tail(todo)
  <2>1. /\ Scripted(todo[1].fallback \o Tail(todo), secure, got)
        /\ Len(todo[1].fallback \o Tail(todo)) = Len(todo)
    BY <1>2, TalksType, ReplacedScripted
  <2>2. got' = got /\ secure' = secure /\ chunks' = chunks
    OBVIOUS
  <2>3. todo' = todo[1].fallback \o Tail(todo)
    BY <1>2, TalksType
  <2>4. Len(todo[1].fallback \o Tail(todo)) <= Len(todo)
    BY <2>1, TalksType, LenProperties
  <2> QED
    BY <2>1, <2>2, <2>3, <2>4, TalksType, TalksOnInv
<1> QED
  BY <1>1, <1>2

LEMMA ReadsOnInv ==
  ASSUME Inv, ReadsOn
  PROVE  Inv'
<1>1. Talks /\ Sends /\ got' = got
  BY DEF ReadsOn
<1>2. CASE chunks < ReadLimit
  <2>1. /\ chunks' = chunks + 1 /\ todo' = todo /\ secure' = secure
        /\ UNCHANGED <<envVars, stage, host, had, verdict>>
    BY <1>2 DEF ReadsOn
  <2>2. chunks + 1 \in 0..ReadLimit
    BY <1>1, <1>2, TalksType
  <2>3. Len(todo) <= Len(todo)
    BY <1>1, TalksType, LenProperties
  <2> QED
    BY <1>1, <2>1, <2>2, <2>3, TalksType, TalksOnInv
<1>3. CASE ~(chunks < ReadLimit)
  <2>1. Conclude("critical")
    BY <1>3 DEF ReadsOn
  <2> QED
    BY <1>1, <2>1, FailsInv
<1> QED
  BY <1>2, <1>3

\* OK only when nothing is left to be had.
LEMMA FinishesInv ==
  ASSUME Inv, Finishes
  PROVE  Inv'
<1>1. /\ stage = "talking" /\ todo = <<>> /\ Conclude("ok")
      /\ sent' = sent /\ got' = got /\ opts' = opts
  BY DEF Finishes, Conclude, envVars
<1>2. Scripted(todo, secure, got) /\ opts \in Probes
  BY <1>1 DEF Inv, TypeOK
<1>3. \A i \in 1..Len(todo) : FALSE
  BY <1>1
<1>4. Demanded(opts) \subseteq got
  BY <1>2, <1>3 DEF Scripted, DemandsAhead, Outstanding
<1>5. opts.kind = "smtp" => Greetings \cap got # {}
  BY <1>2, <1>3 DEF Scripted, GreetingAhead
<1>6. OkIsEarned'
  BY <1>1, <1>4, <1>5 DEF OkIsEarned, Greetings
<1>7. MailOnlyInside'
  BY <1>1 DEF Inv, MailOnlyInside
<1>8. \A x \in sent' \cup got' : x[2] \in BOOLEAN
  BY <1>1 DEF Inv, TypeOK
<1> QED
  BY <1>1, <1>6, <1>7, <1>8, ConcludeInv
LEMMA InspectedInv ==
  ASSUME Inv, Inspected
  PROVE  Inv'
<1>1. PICK begun \in BOOLEAN, hours \in CertHours :
        /\ Conclude(CertVerdict(begun, hours))
        /\ got' = IF begun /\ hours >= 24 * MinCertDays
                  THEN got \cup {<<"certificate", secure>>} ELSE got
  BY DEF Inspected
<1>2. /\ Talks /\ todo[1].what = "certificate" /\ sent' = sent /\ opts' = opts
      /\ verdict' = CertVerdict(begun, hours)
  BY <1>1, TalksType DEF Inspected, Conclude, envVars
<1>3. CertVerdict(begun, hours) \in {"ok", "critical"}
  BY DEF CertVerdict
<1>4. MailOnlyInside'
  BY <1>2 DEF Inv, MailOnlyInside
<1>5. \A x \in sent' \cup got' : x[2] \in BOOLEAN
  <2>1. <<"certificate", secure>>[2] \in BOOLEAN
    BY <1>2, TalksType
  <2> QED
    BY <1>1, <1>2, <2>1 DEF Inv, TypeOK
<1>6. OkIsEarned'
  <2> SUFFICES ASSUME verdict' = "ok"
               PROVE  /\ Demanded(opts) \subseteq got'
                      /\ opts.kind = "smtp" => Greetings \cap got' # {}
    BY <1>2 DEF OkIsEarned, Greetings
  <2>1. begun /\ hours > 0 /\ hours \div 24 >= MinCertDays
    BY <1>2 DEF CertVerdict
  <2>2. hours >= 24 * MinCertDays
    BY <2>1
  <2>3. got' = got \cup {<<"certificate", secure>>}
    BY <1>1, <2>1, <2>2
  <2>4. \A i \in 1..Len(todo) : i = 1
    <3>1. Len(todo) = 1
      BY <1>2, TalksType DEF Scripted, WellScripted
    <3> QED
      BY <3>1, OneOnly
  <2>5. SecureAt(todo, secure, 1) <=> secure
    BY DEF SecureAt
  <2>6. ASSUME NEW d \in Demanded(opts), d \notin got
        PROVE  d \in got'
    <3>1. todo[1].what = d[1] /\ (d[2] <=> SecureAt(todo, secure, 1))
      BY <1>2, <2>4, <2>6, TalksType DEF Scripted, DemandsAhead, Outstanding
    <3>2. opts.cert /\ d = <<"certificate", TRUE>>
      BY <1>2, <3>1, TalksType, DemandTypes
    <3>3. d[2]
      BY <3>2
    <3>4. secure = TRUE
      BY <1>2, <2>5, <3>1, <3>3, TalksType
    <3> QED
      BY <2>3, <3>2, <3>4
  <2>7. ASSUME opts.kind = "smtp"
        PROVE  Greetings \cap got' # {}
    <3>1. Greetings \cap got # {}
      BY <1>2, <2>4, <2>7, TalksType DEF Scripted, GreetingAhead
    <3> QED
      BY <2>3, <3>1
  <2> QED
    BY <2>3, <2>6, <2>7
<1> QED
  BY <1>1, <1>3, <1>4, <1>5, <1>6, ConcludeInv

LEMMA NextInv == Inv /\ [Next]_vars => Inv'
<1> SUFFICES ASSUME Inv, [Next]_vars
             PROVE  Inv'
  OBVIOUS
<1>1. ASSUME NEW b \in DOMAIN Boxes, Recreate(b)
      PROVE  Inv'
  BY <1>1, RecreateInv
<1>2. CASE Begin
  BY <1>2, BeginInv
<1>3. CASE ResolveByAPI \/ ResolveByName
  BY <1>3, ResolvedInv
<1>4. CASE ResolveFails
  <2>1. Conclude("unknown") /\ sent' = sent /\ got' = got
    BY <1>4 DEF ResolveFails
  <2> QED
    BY <2>1, FailsInv
<1>5. CASE Dial
  BY <1>5, DialInv
<1>6. CASE DialFails
  <2>1. Conclude("critical") /\ sent' = sent /\ got' = got
    BY <1>6 DEF DialFails
  <2> QED
    BY <2>1, FailsInv
<1>7. CASE Deadline
  <2>1. Conclude("critical") /\ Talks /\ Sends /\ got' = got
    BY <1>7 DEF Deadline
  <2> QED
    BY <2>1, FailsInv
<1>8. CASE Finishes
  BY <1>8, FinishesInv
<1>9. CASE Answered
  BY <1>9, AnsweredInv
<1>10. CASE Inspected
  BY <1>10, InspectedInv
<1>11. CASE Graded
  <2>1. PICK v \in Head(todo).other \cap {"warning", "critical", "unknown"} : Conclude(v)
    BY <1>11 DEF Graded
  <2>2. Talks /\ Sends /\ got' = got /\ v \in {"warning", "critical", "unknown"}
    BY <1>11, <2>1 DEF Graded
  <2> QED
    BY <2>1, <2>2, FailsInv
<1>12. CASE GoesOn
  BY <1>12, GoesOnInv DEF GoesOn
<1>13. CASE ReadsOn
  BY <1>13, ReadsOnInv
<1>14. CASE HangsUp
  <2>1. Talks /\ Sends /\ got' = got
    BY <1>14 DEF HangsUp
  <2>2. Head(todo).gone \in {"critical", "next"}
    BY <2>1, TalksType DEF Steps
  <2>3. CASE Head(todo).gone = "next"
    BY <1>14, <2>1, <2>3, GoesOnInv DEF HangsUp
  <2>4. CASE Head(todo).gone = "critical"
    <3>1. Conclude("critical")
      BY <1>14, <2>4 DEF HangsUp
    <3> QED
      BY <2>1, <3>1, FailsInv
  <2> QED
    BY <2>2, <2>3, <2>4
<1>15. CASE Panics
  <2>1. Conclude("unknown") /\ sent' = sent /\ got' = got
    BY <1>15 DEF Panics
  <2> QED
    BY <2>1, FailsInv
<1>16. CASE UNCHANGED vars
  <2>1. /\ UNCHANGED <<at, resolver, opts, stage, host, had, verdict>>
        /\ UNCHANGED <<todo, secure, chunks, sent, got>>
    BY <1>16 DEF vars, envVars, talk
  <2>2. TypeOK' /\ Places'
    BY <2>1, ReachUnchanged DEF Inv, TypeOK, Places
  <2>3. FollowsTheContainer' /\ MailOnlyInside' /\ OkIsEarned'
    BY <2>1 DEF Inv, FollowsTheContainer, MailOnlyInside, OkIsEarned
  <2>4. stage' = "talking" => Scripted(todo, secure, got)'
    BY <2>1, ScriptedUnchanged DEF Inv
  <2> QED
    BY <2>2, <2>3, <2>4 DEF Inv
<1> QED
  BY <1>1, <1>2, <1>3, <1>4, <1>5, <1>6, <1>7, <1>8, <1>9, <1>10, <1>11, <1>12, <1>13, <1>14,
     <1>15, <1>16 DEF Next, OwnStep, PeerStep

THEOREM InvHolds == Spec => []Inv
<1>1. Init => Inv
  BY InitInv
<1>2. Inv /\ [Next]_vars => Inv'
  BY NextInv
<1> QED
  BY <1>1, <1>2, PTL DEF Spec

-----------------------------------------------------------------------------
\* Every variable stays in its range; a conversation never grows.
THEOREM TypeCorrect == Spec => []TypeOK
<1>1. Inv => TypeOK
  BY DEF Inv
<1> QED
  BY <1>1, InvHolds, PTL

\* However containers move between the lookups of a probe, it dials and talks
\* to an address its service has had since the round began (resolver.go,
\* dockerapi.IP).
THEOREM RoundsFollowTheContainer == Spec => []FollowsTheContainer
<1>1. Inv => FollowsTheContainer
  BY DEF Inv
<1> QED
  BY <1>1, InvHolds, PTL

\* Whatever the server answers, a probe with StartTLS sends no mail command
\* before the upgrade, and one that inspects the certificate sends none
\* (smtp.go).
THEOREM NoMailInTheClear == Spec => []MailOnlyInside
<1>1. Inv => MailOnlyInside
  BY DEF Inv
<1> QED
  BY <1>1, InvHolds, PTL

\* No answer, fallback or hang-up lets a probe report OK without everything
\* its options ask for.
THEOREM NothingIsOkForFree == Spec => []OkIsEarned
<1>1. Inv => OkIsEarned
  BY DEF Inv
<1> QED
  BY <1>1, InvHolds, PTL
=============================================================================
