------------------------------ MODULE MCStartup ------------------------------
(****************************************************************************)
(* Every configuration that departs from the compose defaults in at most    *)
(* two settings.                                                            *)
(****************************************************************************)
EXTENDS Startup

Default ==
  [use |-> TRUE, legible |-> TRUE, url |-> "https", dialect |-> "auto", interval |-> 20,
   on |-> {"unbound", "sogo", "clamd", "olefy"}, zero |-> {}, root |-> TRUE,
   slaveof |-> FALSE, channel |-> TRUE, ipv6 |-> "absent"]

Settings ==
  [use |-> {FALSE}, legible |-> {FALSE}, url |-> {"unix", "foreign", "unusable"},
   dialect |-> {"engine", "other"}, interval |-> {0, 1, 600, 7200},
   on |-> {{}, {"external"}, {"mysql-repl", "clamd"}}, zero |-> {{"nginx"}, {"external"}},
   root |-> {FALSE}, slaveof |-> {TRUE}, channel |-> {FALSE},
   ipv6 |-> {"bridge", "illegible"}]

MCConfigs ==
  {Default} \cup
  UNION {{[Default EXCEPT ![s[1]] = v, ![s[2]] = w] :
            v \in Settings[s[1]], w \in Settings[s[2]]} :
         s \in (DOMAIN Settings) \X (DOMAIN Settings)}
=============================================================================
