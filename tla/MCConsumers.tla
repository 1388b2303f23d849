---------------------------- MODULE MCConsumers -----------------------------
(* Instances of Consumers for TLC: two queues, one with two messages. *)
EXTENDS Consumers, TLC

CONSTANTS sms, email, m1, m2, m3

TwoAndOne == (m1 :> sms) @@ (m2 :> sms) @@ (m3 :> email)
TwoOfOne == (m1 :> sms) @@ (m2 :> sms)
OneEach == (m1 :> sms) @@ (m3 :> email)
=============================================================================
