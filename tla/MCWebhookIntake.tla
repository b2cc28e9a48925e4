-------------------------- MODULE MCWebhookIntake --------------------------
(* Small instances of WebhookIntake.                                       *)
EXTENDS WebhookIntake

MCKind == [m \in Messages |->
  CASE m = "t" -> "plain" [] m = "v" -> "refused" [] m = "n" -> "anonymous" [] OTHER -> "media"]

\* Two deliveries that share a file, as Meta batches the messages anew.
AllKinds == [r \in Requests |-> IF r = "r1" THEN <<"n", "a", "t">> ELSE <<"a", "v">>]
\* Two files in one delivery, sent again while it is being handled.
TwoFiles == [r \in Requests |-> <<"a", "b">>]
=============================================================================
