----------------------------- MODULE MCDelivery -----------------------------
(***************************************************************************)
(* Instances of Delivery for TLC.                                           *)
(***************************************************************************)
EXTENDS Delivery, TLC

CONSTANTS n1, n2, h1, h2, p1, p2, s1, s2

\* A single handler, or two, each in a worker process of its own.
OneHandler == h1 :> p1
TwoProcesses == (h1 :> p1) @@ (h2 :> p2)

\* Schedulers and notifications are interchangeable, and two processes with one
\* handler each when they change places with it. For safety only.
SweepSymmetry == Permutations({s1, s2}) \cup Permutations({n1, n2})
ProcessSymmetry == {(h1 :> h2) @@ (h2 :> h1) @@ (p1 :> p2) @@ (p2 :> p1)}
=============================================================================
