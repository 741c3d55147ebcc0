------------------------------ MODULE Session -------------------------------
(****************************************************************************)
(* internal/probe: a probe of a network service, called round after round   *)
(* by probe.Run.  It looks its container up, connects and holds the         *)
(* conversation its options ask for, while containers are recreated at      *)
(* other addresses and the peer answers what it likes, hangs up or stays    *)
(* silent.                                                                  *)
(****************************************************************************)
EXTENDS Docker, Integers, Sequences

CONSTANTS Boxes,        \* containers: [service, project]
          Homes,        \* Homes[b]: the sets of addresses b can be given
          Service,      \* what the probe probes
          Commands,     \* the lines an SMTP script may have
          Probes,       \* the options of the probes to look at
          ReadLimit,    \* chunks of a banner that fit readLimit
          CertHours,    \* hours a certificate may have left; negative: expired
          MinCertDays

Kinds == {"smtp", "lmtp", "imap", "tcp", "milter", "http", "dns", "rspamd", "mysql",
          "replication"}

\* The parts of the mail dialogue that are not scripted.
Verbs == {"greeting", "LHLO", "EHLO", "HELO", "STARTTLS", "handshake", "certificate",
          "MAIL FROM"}

Options ==
  [kind : Kinds, startTLS : BOOLEAN, cert : BOOLEAN, from : BOOLEAN, expect : BOOLEAN,
   commands : Seq([send : Commands, graded : BOOLEAN])]

\* The options a kind of probe does not have are off.
OptionsFit(o) ==
  /\ o.startTLS => o.kind \in {"smtp", "lmtp", "imap", "tcp"}
  /\ o.cert => o.startTLS /\ o.kind \in {"smtp", "lmtp", "imap"}
  /\ o.expect => o.kind \in {"imap", "tcp", "mysql"}

ASSUME SessionAssumption ==
  /\ ReadLimit \in Nat \ {0} /\ MinCertDays \in Nat \ {0} /\ CertHours \subseteq Int
  /\ Service # Unset
  /\ Commands \cap Verbs = {}
  /\ DOMAIN Homes = DOMAIN Boxes
  /\ \A b \in DOMAIN Homes : \A h \in Homes[b] :
       h \cap OnNetwork # {} => Boxes[b].project = Project
  /\ Probes \subseteq Options
  /\ \A o \in Probes : OptionsFit(o)

\* IP_BY_DOCKER_API is not set: the dialler resolves the service's name.
ByDNS == <<"dns", "dns">>

\* The client's dialect, and what is really behind the URL.
Resolvers ==
  {ByDNS} \cup
  {<<DialectOf(setting, scheme), endpoint>> :
     setting \in {"auto"} \cup Dialects, scheme \in {"unix", "http", "https"}, endpoint \in Dialects}

VARIABLES at,           \* at[b]: the addresses of container b; {} when it is down
          resolver,     \* ByDNS, or the client's dialect and the endpoint's
          opts,         \* the probe's options
          stage,        \* where probe.Run is
          host,         \* what resolve returned
          todo,         \* what the conversation still has to do
          secure,       \* the connection has been upgraded to TLS
          chunks,       \* of the banner, read so far
          sent,         \* history: what was sent, and whether encrypted
          got,          \* history: what was answered as wanted, and whether encrypted
          had,          \* history: addresses the service has had during this round
          verdict

envVars == <<at, resolver, opts>>
talk    == <<todo, secure, chunks, sent, got>>
vars    == <<envVars, stage, host, talk, had, verdict>>

-----------------------------------------------------------------------------
(* Conversations.  A step says what is sent or awaited, what may become of   *)
(* the probe if the answer is not the wanted one, and what if the peer hangs *)
(* up.  "fallback" puts the steps of the field of that name in its place.    *)

Step(what, other) == [what |-> what, other |-> other, gone |-> "critical", fallback |-> <<>>]

Greet(o) ==
  IF o.kind = "lmtp" THEN <<Step("LHLO", {"critical"})>>
  ELSE <<[Step("EHLO", {"fallback"}) EXCEPT !.fallback = <<Step("HELO", {"critical"})>>]>>

StartTLS(o) ==
  <<Step("STARTTLS", {"critical"}), Step("handshake", {"critical"})>> \o Greet(o)

MailFrom(o) == IF o.from THEN <<Step("MAIL FROM", {"warning"})>> ELSE <<>>

\* Replies that are recorded only, whatever was expected.
RunCommandsUngraded(o) ==
  [i \in DOMAIN o.commands |-> Step(o.commands[i].send, {"next"})]

\* A command whose Expect is empty is not graded.
RunCommands(o) ==
  [i \in DOMAIN o.commands |->
     IF o.commands[i].graded THEN Step(o.commands[i].send, {"warning"})
     ELSE Step(o.commands[i].send, {"next"})]

\* SMTP.Run with the upgrade after the mail.
SMTPUpgradesLate(o) ==
  <<Step("greeting", {"critical"})>> \o Greet(o) \o MailFrom(o) \o RunCommands(o)
  \o (IF o.startTLS THEN StartTLS(o) ELSE <<>>)

SMTP(o) ==
  <<Step("greeting", {"critical"})>> \o Greet(o)
  \o (IF o.startTLS THEN StartTLS(o) ELSE <<>>)
  \o (IF o.startTLS /\ o.cert THEN <<Step("certificate", {"critical"})>>
      ELSE MailFrom(o) \o RunCommands(o))

Banner == Step("banner", {"more"})

IMAP(o) ==
  (IF o.startTLS THEN <<Step("handshake", {"critical"})>> ELSE <<>>)
  \o (IF o.cert THEN <<Step("certificate", {"critical"})>> ELSE <<Banner>>)

TCP(o) ==
  (IF o.startTLS THEN <<Step("handshake", {"critical"})>> ELSE <<>>)
  \o (IF o.from THEN <<Step("PING", {})>> ELSE <<>>)
  \o (IF o.expect THEN <<Banner>> ELSE <<>>)

\* Whatever the worker does but keep silent shows that it lives.
Milter == <<[Step("GET", {"next"}) EXCEPT !.gone = "next"]>>

HTTP == <<Step("GET", {"warning", "critical"})>>

\* A truncated answer is asked for again over TCP.
DNS == <<[Step("udp query", {"critical", "fallback"}) EXCEPT
            !.fallback = <<Step("tcp query", {"critical"})>>]>>

Rspamd == <<Step("scan", {"critical"})>>

MySQL(o) ==
  <<Step("ping", {"critical"})>>
  \o (IF o.expect THEN <<Step("query", {"critical"})>> ELSE <<>>)

\* Threads in a state the probe does not know are no verdict.
Replication == <<Step("status", {"critical", "unknown"})>>

\* Reached through a socket in the container: no address is looked up.
Local == {"rspamd", "mysql", "replication"}

Conversation(o) ==
  CASE o.kind \in {"smtp", "lmtp"} -> SMTP(o)
    [] o.kind = "imap"             -> IMAP(o)
    [] o.kind = "tcp"              -> TCP(o)
    [] o.kind = "milter"           -> Milter
    [] o.kind = "http"             -> HTTP
    [] o.kind = "dns"              -> DNS
    [] o.kind = "rspamd"           -> Rspamd
    [] o.kind = "mysql"            -> MySQL(o)
    [] o.kind = "replication"      -> Replication

\* certExpiry.  Whole days are counted, rounded towards zero.
CertVerdict(begun, hours) ==
  IF begun /\ hours > 0 /\ hours \div 24 >= MinCertDays THEN "ok" ELSE "critical"

-----------------------------------------------------------------------------
Placed(b) == [service |-> Boxes[b].service, project |-> Boxes[b].project,
              addrs |-> at[b], started |-> b]

Up == {b \in DOMAIN Boxes : at[b] # {}}

Ours == {b \in DOMAIN Boxes : Boxes[b].service = Service /\ Boxes[b].project = Project}

\* Where the service can be reached now.
Reach == UNION {at[b] \cap OnNetwork : b \in Ours}

Nowhere == "nowhere"
ByName  == "by name"

TypeOK ==
  /\ \A b \in DOMAIN Boxes : at[b] \in Homes[b] \cup {{}}
  /\ resolver \in Resolvers /\ opts \in Probes
  /\ stage \in {"resting", "resolving", "dialling", "talking"}
  /\ host \in OnNetwork \cup {Nowhere, ByName}
  /\ Len(todo) <= Len(Conversation(opts))
  /\ secure \in BOOLEAN /\ chunks \in 0..ReadLimit
  /\ \A x \in sent \cup got : x[2] \in BOOLEAN
  /\ had \subseteq OnNetwork
  /\ verdict \in {"none", "ok", "warning", "critical", "unknown"}

Init ==
  /\ at \in [DOMAIN Boxes -> UNION {Homes[b] : b \in DOMAIN Boxes}]
  /\ \A b \in DOMAIN Boxes : at[b] \in Homes[b]
  /\ \A b, c \in DOMAIN Boxes : b # c => at[b] \cap at[c] = {}
  /\ resolver \in Resolvers /\ opts \in Probes
  /\ stage = "resting" /\ host = Nowhere
  /\ todo = <<>> /\ secure = FALSE /\ chunks = 0 /\ sent = {} /\ got = {}
  /\ had = {} /\ verdict = "none"

-----------------------------------------------------------------------------
(* the containers *)

\* A container comes back elsewhere, or goes down.
Recreate(b) ==
  /\ \E home \in Homes[b] \cup {{}} :
       /\ \A c \in DOMAIN Boxes \ {b} : at[c] \cap home = {}
       /\ at' = [at EXCEPT ![b] = home]
       /\ had' = IF b \in Ours THEN had \cup (home \cap OnNetwork) ELSE had
  /\ UNCHANGED <<resolver, opts, stage, host, talk, verdict>>

-----------------------------------------------------------------------------
(* a round *)

Begin ==
  /\ stage = "resting"
  /\ stage' = IF opts.kind \in Local THEN "dialling" ELSE "resolving"
  /\ host' = IF opts.kind \in Local THEN ByName ELSE host
  /\ verdict' = "none" /\ sent' = {} /\ got' = {}
  /\ had' = Reach
  /\ UNCHANGED <<envVars, todo, secure, chunks>>

\* The round is over; connections are closed.
Conclude(v) ==
  /\ stage' = "resting" /\ verdict' = v
  /\ todo' = <<>> /\ secure' = FALSE /\ chunks' = 0
  /\ UNCHANGED <<envVars, host, had>>

Listed == {Placed(b) : b \in Up}

\* An address that is looked up once.
ResolveOnce ==
  /\ stage = "resolving" /\ resolver # ByDNS
  /\ Decodes(resolver[1], resolver[2], Listed)
  /\ IF host # Nowhere THEN UNCHANGED host
     ELSE host' \in IP(resolver[1], resolver[2], Listed, Service)
  /\ stage' = "dialling"
  /\ UNCHANGED <<envVars, talk, had, verdict>>

ResolveByAPI ==
  /\ stage = "resolving" /\ resolver # ByDNS
  /\ Decodes(resolver[1], resolver[2], Listed)
  /\ host' \in IP(resolver[1], resolver[2], Listed, Service)
  /\ stage' = "dialling"
  /\ UNCHANGED <<envVars, talk, had, verdict>>

\* The daemon does not answer, or not with an address of the service.
ResolveFails ==
  /\ stage = "resolving" /\ resolver # ByDNS
  /\ Conclude("unknown") /\ UNCHANGED <<sent, got>>

\* DNSResolver hands the name over.
ResolveByName ==
  /\ stage = "resolving" /\ resolver = ByDNS
  /\ host' = ByName
  /\ stage' = "dialling"
  /\ UNCHANGED <<envVars, talk, had, verdict>>

Dial ==
  /\ stage = "dialling"
  /\ host # ByName => \E b \in Up : host \in at[b]
  /\ stage' = "talking"
  /\ todo' = Conversation(opts)
  /\ UNCHANGED <<envVars, host, secure, chunks, sent, got, had, verdict>>

DialFails ==
  /\ stage = "dialling"
  /\ Conclude("critical") /\ UNCHANGED <<sent, got>>

Talks == stage = "talking" /\ todo # <<>>

Sends == sent' = sent \cup {<<Head(todo).what, secure>>}

\* What was wanted; after a handshake everything goes over TLS.
Answered ==
  /\ Talks /\ Head(todo).what # "certificate"
  /\ Sends
  /\ secure' = (secure \/ Head(todo).what = "handshake")
  /\ got' = got \cup {<<Head(todo).what, secure'>>}
  /\ todo' = Tail(todo)
  /\ UNCHANGED <<envVars, stage, host, chunks, had, verdict>>

\* certExpiry ends the conversation either way.
Inspected ==
  /\ Talks /\ Head(todo).what = "certificate"
  /\ \E begun \in BOOLEAN, hours \in CertHours :
       /\ Conclude(CertVerdict(begun, hours))
       /\ got' = IF begun /\ hours >= 24 * MinCertDays
                 THEN got \cup {<<"certificate", secure>>} ELSE got
  /\ UNCHANGED sent

\* Something else, which ends the probe.
Graded ==
  /\ Talks /\ Sends /\ UNCHANGED got
  /\ Head(todo).what # "certificate"
  /\ \E v \in Head(todo).other \cap {"warning", "critical", "unknown"} : Conclude(v)

\* Something else, after which the conversation goes on.
GoesOn ==
  /\ Talks /\ Sends
  /\ \/ "next" \in Head(todo).other /\ todo' = Tail(todo)
     \/ "fallback" \in Head(todo).other /\ todo' = Head(todo).fallback \o Tail(todo)
  /\ UNCHANGED <<envVars, stage, host, secure, chunks, got, had, verdict>>

\* readUntil: a chunk without the expected text, and the last one that fits.
ReadsOn ==
  /\ Talks /\ Sends /\ "more" \in Head(todo).other
  /\ IF chunks < ReadLimit
     THEN /\ chunks' = chunks + 1
          /\ UNCHANGED <<envVars, stage, host, todo, secure, had, verdict>>
     ELSE Conclude("critical")
  /\ UNCHANGED got

HangsUp ==
  /\ Talks /\ Sends /\ UNCHANGED got
  /\ IF Head(todo).gone = "next"
     THEN /\ todo' = Tail(todo)
          /\ UNCHANGED <<envVars, stage, host, secure, chunks, had, verdict>>
     ELSE Conclude(Head(todo).gone)

\* Only the milter probe sets a deadline of its own.
DeadlineOfMilterOnly ==
  /\ Talks /\ opts.kind = "milter" /\ Sends /\ UNCHANGED got
  /\ Conclude("critical")

\* The peer is silent until the deadline of the round.
Deadline == Talks /\ Sends /\ UNCHANGED got /\ Conclude("critical")

Finishes ==
  /\ stage = "talking" /\ todo = <<>>
  /\ Conclude("ok") /\ UNCHANGED <<sent, got>>

\* A bug in the probe: probe.Run recovers.
Panics == stage # "resting" /\ Conclude("unknown") /\ UNCHANGED <<sent, got>>

OwnStep ==
  \/ ResolveByAPI \/ ResolveFails \/ ResolveByName \/ Dial \/ DialFails
  \/ Deadline \/ Finishes

PeerStep == Answered \/ Inspected \/ Graded \/ GoesOn \/ ReadsOn \/ HangsUp

Next ==
  \/ \E b \in DOMAIN Boxes : Recreate(b)
  \/ Begin \/ OwnStep \/ PeerStep \/ Panics

\* Calls and waits have timeouts; nothing is assumed of the peer.
Spec == Init /\ [][Next]_vars /\ WF_vars(OwnStep)

-----------------------------------------------------------------------------
\* A round goes to an address that its service has had since the round began:
\* not to one remembered from before a restart, not to one on another network,
\* not to the container of the same name in another stack.
FollowsTheContainer ==
  stage \in {"dialling", "talking"} /\ host # ByName => host \in had

Mail(o) ==
  (IF o.from THEN {"MAIL FROM"} ELSE {}) \cup {o.commands[i].send : i \in DOMAIN o.commands}

\* A probe that upgrades its connection sends no mail command before, whatever
\* the server answers; and a certificate probe sends none at all.
MailOnlyInside ==
  opts.kind \in {"smtp", "lmtp"} /\ opts.startTLS =>
    \A x \in sent : x[1] \in Mail(opts) => x[2] /\ ~opts.cert

\* What has to be answered as wanted, on the connection it is meant for.
Demanded(o) ==
  LET graded == {o.commands[i].send : i \in {j \in DOMAIN o.commands : o.commands[j].graded}}
  IN  IF o.cert THEN {<<"certificate", TRUE>>}
      ELSE IF o.kind \in {"smtp", "lmtp"}
      THEN {<<c, o.startTLS>> : c \in graded \cup (IF o.from THEN {"MAIL FROM"} ELSE {})}
      ELSE IF o.expect
      THEN {IF o.kind = "mysql" THEN <<"query", FALSE>> ELSE <<"banner", o.startTLS>>}
      ELSE {}

\* OK means that everything the options ask for was answered as wanted: no way
\* through fallbacks, ungraded replies or a peer that goes away avoids it.
OkIsEarned ==
  verdict = "ok" =>
    /\ Demanded(opts) \subseteq got
    /\ opts.kind = "smtp" => {<<"EHLO", opts.startTLS>>, <<"HELO", opts.startTLS>>} \cap got # {}

\* Every round ends with a verdict, however the peer behaves.
EveryRoundEnds == stage # "resting" ~> stage = "resting"
=============================================================================
