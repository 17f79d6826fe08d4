-------------------------- MODULE MCFrontEndReset --------------------------
(* Small instances of FrontEndReset for TLC. *)
EXTENDS FrontEndReset, TLC

CONSTANTS r1, r2, t1, t2, d1, d2, FB3

\* Requests are interchangeable, and so are triggers and devices.
Symmetric == Permutations(Resets) \cup Permutations(Triggers) \cup Permutations(Devices)
=============================================================================
