---------------------------- MODULE FrontEndPing ----------------------------
(***************************************************************************)
(* The periodic ping of the front-end boxes in main                        *)
(* (crates/server/src/main.rs): a round connects to every box with an      *)
(* address at the same time, waits for all the answers and then records    *)
(* them together.                                                          *)
(***************************************************************************)
CONSTANTS Boxes   \* the devices whose configuration has an ip

VARIABLES
  reachable,   \* external: a TCP connect to the box succeeds within its time-out
  round,       \* a round is under way
  unanswered,  \* its connects that have not come back
  results,     \* the boxes that have answered in this round
  feAlive      \* DeviceState.fe_alive

pingVars == <<reachable, round, unanswered, results, feAlive>>

PingInit ==
  /\ reachable = [b \in Boxes |-> FALSE]
  /\ round = FALSE
  /\ unanswered = {} /\ results = {}
  /\ feAlive = [b \in Boxes |-> FALSE]

Toggle(b) ==
  /\ reachable' = [reachable EXCEPT ![b] = ~@]
  /\ UNCHANGED <<round, unanswered, results, feAlive>>

PingAll ==
  /\ ~round
  /\ round' = TRUE
  /\ unanswered' = Boxes /\ results' = {}
  /\ UNCHANGED <<reachable, feAlive>>

ConnectEnds(b) ==
  /\ b \in unanswered
  /\ unanswered' = unanswered \ {b}
  /\ results' = IF reachable[b] THEN results \cup {b} ELSE results
  /\ UNCHANGED <<reachable, round, feAlive>>

\* Faulty: only the boxes that answered are written.
RecordTheLiving ==
  /\ round /\ unanswered = {}
  /\ round' = FALSE
  /\ feAlive' = [b \in Boxes |-> feAlive[b] \/ b \in results]
  /\ UNCHANGED <<reachable, unanswered, results>>

RecordResults ==
  /\ round /\ unanswered = {}
  /\ round' = FALSE
  /\ feAlive' = [b \in Boxes |-> b \in results]
  /\ UNCHANGED <<reachable, unanswered, results>>

PingTask == PingAll \/ RecordResults \/ \E b \in Boxes : ConnectEnds(b)
PingNext == PingTask \/ \E b \in Boxes : Toggle(b)

PingSpec == PingInit /\ [][PingNext]_pingVars

\* The interval fires for ever and every connect is bounded by a time-out.
FairPingSpec == PingSpec /\ WF_pingVars(PingTask)

-----------------------------------------------------------------------------
PingTypeOK ==
  /\ reachable \in [Boxes -> BOOLEAN] /\ feAlive \in [Boxes -> BOOLEAN]
  /\ round \in BOOLEAN
  /\ unanswered \subseteq Boxes /\ results \subseteq Boxes

\* A box that is gone for good ends up marked dead, although a round may record
\* the answer it gave before it went; and one that is back for good, alive.
DeadBoxIsNoticed == \A b \in Boxes : <>[]~reachable[b] => <>[]~feAlive[b]
BoxComesBack     == \A b \in Boxes : <>[]reachable[b] => <>[]feAlive[b]
=============================================================================
