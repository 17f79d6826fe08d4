--------------------------- MODULE MCSensitivity ---------------------------
(* Small instances of Sensitivity: a WCM with its :DQ device on one box, or  *)
(* a single FCUP.                                                            *)
EXTENDS Sensitivity, TLC

CONSTANTS w, q, f, boxA, s1, s2

OneBox == [d \in Devices |-> boxA]
Companions == [d \in Devices |-> IF d = w /\ q \in Devices THEN q ELSE NoDevice]

\* The sessions are interchangeable.
Symmetric == Permutations(Sessions)
=============================================================================
