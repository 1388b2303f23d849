----------------------------- MODULE MCLiveView -----------------------------
(***************************************************************************)
(* Instances of LiveView for TLC.                                           *)
(***************************************************************************)
EXTENDS LiveView, TLC

CONSTANTS c1, c2, n1, n2

\* One client follows everything, the other one notification.
OneFiltered == c1 :> Everything @@ c2 :> n1
=============================================================================
