----------------------------- MODULE MCSendPath -----------------------------
(***************************************************************************)
(* Instances of SendPath for TLC.                                           *)
(***************************************************************************)
EXTENDS SendPath

CONSTANTS h1, h2, u1
=============================================================================
