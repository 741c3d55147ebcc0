------------------------------ MODULE Registry ------------------------------
(****************************************************************************)
(* internal/config and internal/check/registry.go: what an operator can     *)
(* ask for, which configurations Load accepts, and the checks Build makes   *)
(* of an accepted one, down to what each measures, how often, and what the  *)
(* supervisor does about its event.  Operators only; Startup.tla runs them. *)
(****************************************************************************)
EXTENDS Integers

Services == {"nginx-mailcow", "unbound-mailcow", "redis-mailcow", "mysql-mailcow",
             "sogo-mailcow", "postfix-mailcow", "postfix-tlspol-mailcow", "clamd-mailcow",
             "dovecot-mailcow", "php-fpm-mailcow", "rspamd-mailcow", "olefy-mailcow"}

\* The checks a setting switches on or off, and those that always run.
Optional == {"external", "mysql-repl", "unbound", "sogo", "clamd", "olefy"}
Always == {"nginx", "redis", "mysql", "postfix", "postfix-tlspol", "dovecot",
           "dovecot-repl", "cert", "php-fpm", "ratelimit", "mailq", "fail2ban",
           "acme", "rspamd"}

-----------------------------------------------------------------------------
(* internal/config *)

\* The settings that decide anything here.  Wordings, addresses and credentials
\* are legible or not; DOCKER_API_URL has the scheme of a kind that New takes,
\* one that validate knows to be foreign, or is unusable for another reason (no
\* scheme, no host, no socket).
Config ==
  [use : BOOLEAN, legible : BOOLEAN,
   url : {"https", "unix", "foreign", "unusable"},
   dialect : {"auto", "mailcow", "engine", "docker", "other"},
   interval : Int,                      \* WATCHDOG_CHECK_INTERVAL in seconds
   on : SUBSET Optional,                \* the optional checks asked for
   zero : SUBSET ((Always \cup Optional) \ {"cert"}),  \* whose threshold is 0
   root : BOOLEAN,                      \* DBROOT is set
   slaveof : BOOLEAN,                   \* REDIS_SLAVEOF_IP is set
   channel : BOOLEAN,                   \* there is somebody to notify
   ipv6 : {"absent", "bridge", "illegible"}]

\* Checks.All, with the switches as loadChecks reads them.
Enabled(cfg) == Always \cup cfg.on

\* validate that leaves the dialect to ParseDialect.
AcceptedAnyDialect(cfg) ==
  /\ cfg.legible
  /\ "mysql-repl" \in cfg.on => cfg.root
  /\ cfg.interval > 0
  /\ cfg.url # "foreign"
  /\ cfg.zero \cap Enabled(cfg) = {}

\* Load and validate.
Accepted(cfg) ==
  /\ cfg.legible
  /\ "mysql-repl" \in cfg.on => cfg.root
  /\ cfg.interval > 0
  /\ cfg.dialect \in {"auto", "mailcow", "engine", "docker"}
  /\ cfg.url # "foreign"
  /\ cfg.zero \cap Enabled(cfg) = {}

-----------------------------------------------------------------------------
(* internal/check *)

OriginalInterval == 20
StandardJitter == 59
ClamdJitter == 119
OriginalExternal == 1800
ExternalJitter == 19
OriginalCert == 300

Interval(low, jitter) == [min |-> low, max |-> low + jitter]

Longer(a, b) == IF a >= b THEN a ELSE b

\* Windows that follow the configured bound in both directions.
WindowsFollow(base) ==
  [standard |-> Interval(base, StandardJitter),
   clamd    |-> Interval(base, ClamdJitter),
   external |-> Interval(base, ExternalJitter),
   cert     |-> Interval(base, 0)]

\* Intervals
Windows(bound) ==
  LET base == IF bound <= 0 THEN OriginalInterval ELSE bound IN
  [standard |-> Interval(base, StandardJitter),
   clamd    |-> Interval(base, ClamdJitter),
   external |-> Interval(Longer(base, OriginalExternal), ExternalJitter),
   cert     |-> Interval(Longer(base, OriginalCert), 0)]

\* Interval.Pick
Pick(window) == IF window.max <= window.min THEN {window.min} ELSE window.min..window.max

\* What a probe is pointed at: a compose service by way of the resolver, one of
\* the handles of Deps, a directory, or the relay test on the Internet.
Row(name, event, window, deadDelay, at) ==
  [name |-> name, event |-> event, window |-> window, deadDelay |-> deadDelay, at |-> at]

Restarting(name, service, window) == Row(name, service, window, 1, {service})

\* The literal of Build.
Literal ==
  {Restarting("nginx", "nginx-mailcow", "standard"),
   Row("external", "external_checks", "external", 60, {}),
   Row("mysql-repl", "mysql_repl_checks", "standard", 60, {"RootDB"}),
   Row("mysql", "mysql-mailcow", "standard", 1, {"AppDB"}),
   Row("redis", "redis-mailcow", "standard", 1, {"LocalStore"}),
   Restarting("php-fpm", "php-fpm-mailcow", "standard"),
   Restarting("sogo", "sogo-mailcow", "standard"),
   Restarting("unbound", "unbound-mailcow", "standard"),
   Restarting("clamd", "clamd-mailcow", "clamd"),
   Restarting("postfix", "postfix-mailcow", "standard"),
   Row("mailq", "mail_queue_status", "standard", 60, {"spool"}),
   Restarting("postfix-tlspol", "postfix-tlspol-mailcow", "standard"),
   Restarting("dovecot", "dovecot-mailcow", "standard"),
   Row("dovecot-repl", "dovecot_repl_checks", "standard", 60, {"Store"}),
   Restarting("rspamd", "rspamd-mailcow", "standard"),
   Row("ratelimit", "ratelimit", "standard", 1, {}),
   Row("fail2ban", "fail2ban", "standard", 1, {}),
   Row("cert", "certcheck", "cert", 300, {"postfix-mailcow", "dovecot-mailcow"}),
   Restarting("olefy", "olefy-mailcow", "standard"),
   Row("acme", "acme-mailcow", "standard", 1, {"Store"})}

\* attachStatefulProbes: the rows whose probes also supply the notification.
Attached(row) ==
  CASE row.name \in {"ratelimit", "fail2ban"} -> [row EXCEPT !.at = {"Store"}]
    [] row.name = "external" -> [row EXCEPT !.at = {"AppDB", "world"}]
    [] OTHER -> row

Table == {Attached(row) : row \in Literal}

Built(cfg) == {row \in Table : row.name \in Enabled(cfg)}

\* Build returns an error for a row that All does not know, or that is enabled
\* and has nothing to probe.
Builds(cfg) ==
  /\ \A row \in Table : row.name \in Always \cup Optional
  /\ \A row \in Built(cfg) : row.at # {}

-----------------------------------------------------------------------------
(* cmd/watchdog/main.go: the handles *)

\* connect that has one Redis for everything.
HandlesOnePrimary(cfg) ==
  [AppDB      |-> "mysql-mailcow",
   RootDB     |-> IF "mysql-repl" \in cfg.on THEN "mysql-mailcow" ELSE "nil",
   Store      |-> IF cfg.slaveof THEN "primary" ELSE "redis-mailcow",
   LocalStore |-> IF cfg.slaveof THEN "primary" ELSE "redis-mailcow"]

\* connect: where each handle of Deps leads.
Handles(cfg) ==
  [AppDB      |-> "mysql-mailcow",
   RootDB     |-> IF "mysql-repl" \in cfg.on THEN "mysql-mailcow" ELSE "nil",
   Store      |-> IF cfg.slaveof THEN "primary" ELSE "redis-mailcow",
   LocalStore |-> "redis-mailcow"]

\* What a check measures in the end.
Measured(cfg, row) ==
  {IF t \in DOMAIN Handles(cfg) THEN Handles(cfg)[t] ELSE t : t \in row.at}

\* dockerapi.New, and ParseDialect before it.
HasClient(cfg) ==
  /\ cfg.dialect \in {"auto", "mailcow", "engine", "docker"}
  /\ cfg.url \in {"https", "unix"}

-----------------------------------------------------------------------------
(* internal/supervisor *)

EndInMailcow == Services \cup {"acme-mailcow"}

\* Check.RestartsContainer, of the events there are.
RestartsContainer(event) == event \in EndInMailcow /\ event # "acme-mailcow"

\* The branches of handle, in the words of Supervisor.tla.
Reaction(event) ==
  CASE event \in {"ratelimit", "mail_queue_status", "external_checks", "mysql_repl_checks",
                  "dovecot_repl_checks", "certcheck", "acme-mailcow"} -> "alert"
    [] event = "fail2ban" -> "bans"
    [] event = "php-fpm-mailcow" -> "php-fpm"
    [] OTHER -> IF RestartsContainer(event) THEN "restart" ELSE "unhandled"
=============================================================================
