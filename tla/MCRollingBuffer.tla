-------------------------- MODULE MCRollingBuffer --------------------------
(* A small instance of RollingBuffer for TLC. *)
EXTENDS RollingBuffer

AllValues == -2 .. 2
WithNaN == AllValues \cup {NaN}
=============================================================================
