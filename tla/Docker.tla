------------------------------- MODULE Docker -------------------------------
(****************************************************************************)
(* internal/dockerapi: what the client makes of the list of containers it   *)
(* is given, in either of the two dialects.  A container is a record of its *)
(* compose service and project, the addresses it has on the networks it is  *)
(* attached to, and its start time.  Which project name contains which, and *)
(* which addresses begin with IPV4_NETWORK, are constants.                  *)
(****************************************************************************)
CONSTANTS Project,      \* COMPOSE_PROJECT_NAME, lowered
          Contains,     \* pairs <<p, q>>: the lowered name p contains q
          OnNetwork,    \* the addresses with the prefix IPV4_NETWORK
          Unset         \* a label or start time that a record does not carry

Dialects == {"mailcow", "engine"}

\* What the URL scheme implies when DOCKER_API_DIALECT is auto.
DialectOf(setting, scheme) ==
  IF setting # "auto" THEN setting
  ELSE IF scheme = "unix" THEN "engine" ELSE "mailcow"

\* A list in the engine's dialect has a word where an inspection has an object
\* for the state, so a client of the other dialect cannot decode it.
Decodes(dialect, endpoint, containers) ==
  dialect = "mailcow" /\ endpoint = "engine" => containers = {}

\* One record of the list.  A summary has no start time, and a client that
\* takes an inspection for a summary finds no labels in it.
Normalised(dialect, endpoint, c) ==
  IF dialect = "mailcow" THEN c
  ELSE IF endpoint = "engine" THEN [c EXCEPT !.started = Unset]
  ELSE [c EXCEPT !.started = Unset, !.service = Unset, !.project = Unset]

\* Only this stack's containers, as far as one name does not contain the other.
List(dialect, endpoint, containers) ==
  {c \in {Normalised(dialect, endpoint, d) : d \in containers} :
     <<c.project, Project>> \in Contains}

\* Any address will do.
AnyAddress(c) == c.addrs

PickAddress(c) == c.addrs \cap OnNetwork

\* The addresses one of which IP returns; none is an error.
IP(dialect, endpoint, containers, service) ==
  UNION {PickAddress(c) : c \in {d \in List(dialect, endpoint, containers) : d.service = service}}
=============================================================================
