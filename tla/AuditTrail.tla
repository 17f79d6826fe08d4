----------------------------- MODULE AuditTrail -----------------------------
(***************************************************************************)
(* What the audit log promises of its lines, whatever its files are: a     *)
(* line is added at the end, and lines are only ever lost from the front.  *)
(***************************************************************************)
EXTENDS Naturals

CONSTANT MaxTrail   \* bound on the lines

VARIABLES
  logged,   \* how many lines were ever logged
  kept      \* the numbers of those that can still be read

trailVars == <<logged, kept>>

TrailInit == logged = 0 /\ kept = {}

Log ==
  /\ logged < MaxTrail
  /\ logged' = logged + 1
  /\ kept' = kept \cup {logged + 1}

Forget ==
  /\ \E n \in 0 .. logged : kept' = {line \in kept : line > n}
  /\ UNCHANGED logged

TrailSpec == TrailInit /\ [][Log \/ Forget]_trailVars
=============================================================================
