------------------------------ MODULE MCSession -----------------------------
(****************************************************************************)
(* The probes of the registry, one of each kind and option; the service's   *)
(* container, another of the same stack, and its namesake in a stack whose  *)
(* project name contains ours.                                              *)
(****************************************************************************)
EXTENDS Session
CONSTANTS postfix, nginx, neighbour, ours, theirs, b1, b2, o1, o2

MCBoxes ==
  [b \in {postfix, nginx, neighbour} |->
     [service |-> IF b = nginx THEN "nginx" ELSE "postfix",
      project |-> IF b = neighbour THEN theirs ELSE ours]]

MCHomes ==
  [b \in {postfix, nginx, neighbour} |->
     CASE b = postfix   -> {{b1, o1}, {b2, o1}}
       [] b = nginx     -> {{b1}, {b2}}
       [] b = neighbour -> {{o2}}]

MCContains == {<<ours, ours>>, <<theirs, ours>>, <<theirs, theirs>>}

Plain(kind) ==
  [kind |-> kind, startTLS |-> FALSE, cert |-> FALSE, from |-> FALSE,
   expect |-> FALSE, commands |-> <<>>]

RcptTo == [send |-> "RCPT TO", graded |-> TRUE]
Data   == [send |-> "DATA", graded |-> FALSE]

MCProbes ==
  {Plain(k) : k \in {"tcp", "milter", "http", "dns", "rspamd", "mysql", "replication"}}
  \cup {[Plain("smtp") EXCEPT !.from = TRUE, !.commands = <<RcptTo, Data>>],
         [Plain("smtp") EXCEPT !.startTLS = TRUE],
         [Plain("smtp") EXCEPT !.startTLS = TRUE, !.from = TRUE, !.commands = <<RcptTo>>],
         [Plain("smtp") EXCEPT !.startTLS = TRUE, !.cert = TRUE],
         [Plain("lmtp") EXCEPT !.from = TRUE, !.commands = <<RcptTo>>],
         [Plain("imap") EXCEPT !.expect = TRUE],
         [Plain("imap") EXCEPT !.expect = TRUE, !.startTLS = TRUE],
         [Plain("imap") EXCEPT !.startTLS = TRUE, !.cert = TRUE],
         [Plain("mysql") EXCEPT !.expect = TRUE],
         [Plain("tcp") EXCEPT !.from = TRUE, !.expect = TRUE],
         [Plain("tcp") EXCEPT !.startTLS = TRUE, !.expect = TRUE]}

MCCertHours == {-1, 0, 23, 24, 47, 48, 49}
=============================================================================
