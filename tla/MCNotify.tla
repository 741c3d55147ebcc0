------------------------------ MODULE MCNotify ------------------------------
(****************************************************************************)
(* One throttled service and one that is not; a recipient with two          *)
(* exchangers and the webhook.                                              *)
(****************************************************************************)
EXTENDS Notify
CONSTANTS cert, nginx, mail, webhook

MCServices == {cert, nginx}
MCWindow == [s \in MCServices |-> IF s = cert THEN 3 ELSE 0]
MCTargets == {mail, webhook}
MCExchangers == [t \in MCTargets |-> IF t = mail THEN 2 ELSE 1]
=============================================================================
