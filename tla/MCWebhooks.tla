------------------------------ MODULE MCWebhooks ------------------------------
(* Instances of Webhooks for TLC. *)
EXTENDS Webhooks, TLC

\* One tick after the first failure
MCDelay == 1 :> 1

=============================================================================
