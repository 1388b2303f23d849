---------------------------- MODULE MCPublisher ----------------------------
(***************************************************************************)
(* Instances of Publisher for TLC: every two kinds of confirmed callers of  *)
(* the API process meet, without and beside emitters.                       *)
(***************************************************************************)
EXTENDS Publisher

CONSTANTS scheduler, request, batch, created, cancelled

Encounters ==
    {{scheduler, batch, created}, {request, batch}, {scheduler, request, created, cancelled}}
=============================================================================
