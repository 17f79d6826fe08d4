------------------------- MODULE Sensitivity_proofs -------------------------
(***************************************************************************)
(* Proofs about Sensitivity, for any devices, boxes, levels, sessions and  *)
(* any number of commands and external changes.                            *)
(***************************************************************************)
EXTENDS Sensitivity, SequenceTheorems, TLAPS

-----------------------------------------------------------------------------
(* Types, with what the arguments of a running command are *)

Arguments ==
  \A s \in Sessions :
    /\ at[s] \in {"post", "record", "corrA", "DQcal", "tell"}
         => device[s] \in Commanded /\ level[s] \in Sensitivities
    /\ at[s] = "restore" => device[s] \in Devices /\ level[s] \in Sensitivities
    /\ at[s] = "DQcal" => CompanionOf[device[s]] \in Devices

TypeInv == TypeOK /\ Arguments

LEMMA TypeInit == Init => TypeInv
<1> SUFFICES ASSUME Init
             PROVE  TypeInv
  OBVIOUS
<1> USE DevicesAssumption, LevelsAssumption DEF DevicesAssumption, LevelsAssumption, Init, View
<1>1. box \in [Boxes -> Levels] /\ sens \in [Devices -> Sensitivities]
  OBVIOUS
<1>2. mismatch \in [Devices -> BOOLEAN] /\ stream \in [Devices -> BOOLEAN]
  OBVIOUS
<1>3. cal \in [Devices -> Sensitivities] /\ announce \in [Devices -> Sensitivities \cup {NoLevel}]
  BY <1>1
<1>4. shown \in [Devices -> [level : Sensitivities, mismatch : BOOLEAN]]
  BY <1>1, <1>2
<1>5. events \in [Devices -> Seq(Levels)]
  OBVIOUS
<1>6. /\ at \in [Sessions -> {"idle", "post", "record", "corrA", "DQcal", "tell", "push", "restore"}]
      /\ Arguments
  BY DEF Arguments
<1>7. /\ device \in [Sessions -> Devices \cup {NoDevice}]
      /\ level \in [Sessions -> Sensitivities \cup {NoLevel}]
      /\ levels \in [Sessions -> [Devices -> Sensitivities]]
      /\ unsent \in [Sessions -> SUBSET Devices] /\ unheard \subseteq Devices
  BY <1>1
<1>8. used \in [{"commands", "external", "faults", "aborts", "drops", "overlaps"} -> Nat]
  OBVIOUS
<1>. QED
  BY <1>1, <1>2, <1>3, <1>4, <1>5, <1>6, <1>7, <1>8 DEF TypeInv, TypeOK

\* What a box does when it takes a level keeps the types.
LEMMA BoxTakesTypes ==
  ASSUME TypeInv, NEW b \in Boxes, NEW l \in Levels, BoxTakes(b, l)
  PROVE  box' \in [Boxes -> Levels] /\ events' \in [Devices -> Seq(Levels)]
<1>1. box' \in [Boxes -> Levels]
  BY DEF BoxTakes, TypeInv, TypeOK
<1>2. CASE UNCHANGED events
  BY <1>1, <1>2 DEF TypeInv, TypeOK
<1>3. CASE Stream(b, l)
  BY <1>1, <1>3 DEF Stream, TypeInv, TypeOK
<1>. QED
  BY <1>1, <1>2, <1>3 DEF BoxTakes

LEMMA UseTypes ==
  ASSUME TypeInv, NEW what \in {"external", "faults", "aborts", "drops"}, NEW max, Use(what, max)
  PROVE  used' \in [{"commands", "external", "faults", "aborts", "drops", "overlaps"} -> Nat]
BY DEF Use, TypeInv, TypeOK

LEMMA StartTypes ==
  ASSUME TypeInv, NEW s \in Sessions, Start(s)
  PROVE  used' \in [{"commands", "external", "faults", "aborts", "drops", "overlaps"} -> Nat]
<1>1. PICK n \in Nat, m \in Nat :
        used' = [used EXCEPT !.commands = n, !.overlaps = m]
  <2>1. used.commands + 1 \in Nat /\ used.overlaps \in Nat /\ used.overlaps + 1 \in Nat
    BY DEF TypeInv, TypeOK
  <2>2. CASE \E x \in Sessions : Busy(x)
    <3>1. used' = [used EXCEPT !.commands = used.commands + 1, !.overlaps = used.overlaps + 1]
      BY <2>2 DEF Start, TypeInv, TypeOK
    <3>. QED
      BY <2>1, <3>1
  <2>3. CASE ~ \E x \in Sessions : Busy(x)
    <3>1. used' = [used EXCEPT !.commands = used.commands + 1, !.overlaps = used.overlaps]
      BY <2>3 DEF Start, TypeInv, TypeOK
    <3>. QED
      BY <2>1, <3>1
  <2>. QED
    BY <2>2, <2>3
<1>. QED
  BY <1>1 DEF TypeInv, TypeOK

LEMMA CaputTypes ==
  ASSUME TypeInv, NEW d \in Devices, NEW l \in Sensitivities, Caput(d, l)
  PROVE  /\ cal' \in [Devices -> Sensitivities]
         /\ used' \in [{"commands", "external", "faults", "aborts", "drops", "overlaps"} -> Nat]
<1>1. cal' \in [Devices -> Sensitivities]
  <2>1. cal' = [cal EXCEPT ![d] = l] \/ cal' = cal
    BY DEF Caput
  <2>. QED
    BY <2>1 DEF TypeInv, TypeOK
<1>2. used' \in [{"commands", "external", "faults", "aborts", "drops", "overlaps"} -> Nat]
  <2>1. CASE used' = used
    BY <2>1 DEF TypeInv, TypeOK
  <2>2. CASE Use("faults", MaxFaults)
    BY <2>2, UseTypes
  <2>. QED
    BY <2>1, <2>2 DEF Caput, Fault
<1>. QED
  BY <1>1, <1>2

LEMMA TypeListener ==
  ASSUME TypeInv, NEW d \in Devices, Listener(d) \/ Disconnect(d) \/ Reconnect(d)
  PROVE  TypeInv'
<1> USE DEF TypeInv, TypeOK, Arguments, hardware, server, command
<1>1. CASE Handle(d)
  <2>1. events' \in [Devices -> Seq(Levels)] /\ Head(events[d]) \in Levels
    BY <1>1 DEF Handle
  <2>2. /\ sens' \in [Devices -> Sensitivities] /\ mismatch' \in [Devices -> BOOLEAN]
        /\ announce' \in [Devices -> Sensitivities \cup {NoLevel}]
    BY <1>1 DEF Handle
  <2>. QED
    BY <1>1, <2>1, <2>2 DEF Handle
<1>2. CASE Announce(d)
  BY <1>2 DEF Announce
<1>3. CASE Disconnect(d)
  <2>1. used' \in [{"commands", "external", "faults", "aborts", "drops", "overlaps"} -> Nat]
    BY <1>3, UseTypes DEF Disconnect
  <2>2. events' \in [Devices -> Seq(Levels)] /\ stream' \in [Devices -> BOOLEAN]
    BY <1>3 DEF Disconnect
  <2>. QED
    BY <1>3, <2>1, <2>2 DEF Disconnect
<1>4. CASE Reconnect(d)
  BY <1>4 DEF Reconnect
<1>. QED
  BY <1>1, <1>2, <1>3, <1>4 DEF Listener

LEMMA TypeCommand ==
  ASSUME TypeInv, NEW s \in Sessions, Command(s)
  PROVE  TypeInv'
<1> USE DEF TypeInv, TypeOK, Arguments, Goto, hardware, server, command
<1>0. \A d \in Devices : BoxOf[d] \in Boxes
  BY DevicesAssumption DEF DevicesAssumption
<1>00. Commanded \subseteq Devices /\ Sensitivities \subseteq Levels
  BY DevicesAssumption, LevelsAssumption DEF DevicesAssumption, LevelsAssumption
<1>1. CASE Post(s)
  <2>1. device[s] \in Devices /\ level[s] \in Levels
    BY <1>1, <1>00 DEF Post
  <2>2. box' \in [Boxes -> Levels] /\ events' \in [Devices -> Seq(Levels)]
    BY <1>0, <1>1, <2>1, BoxTakesTypes DEF Post
  <2>3. unheard' \subseteq Devices
    BY <1>1, <2>1 DEF Post
  <2>. QED
    BY <1>1, <2>2, <2>3 DEF Post
<1>2. CASE PostFails(s)
  <2>1. device[s] \in Devices /\ level[s] \in Levels
    BY <1>2, <1>00 DEF PostFails
  <2>2. box' \in [Boxes -> Levels] /\ events' \in [Devices -> Seq(Levels)]
    BY <1>0, <1>2, <2>1, BoxTakesTypes DEF PostFails
  <2>3. used' \in [{"commands", "external", "faults", "aborts", "drops", "overlaps"} -> Nat]
    BY <1>2, UseTypes DEF PostFails, Fault
  <2>. QED
    BY <1>2, <2>2, <2>3 DEF PostFails
<1>3. CASE Record(s)
  BY <1>3, <1>00 DEF Record
<1>4. CASE CaputCorrA(s)
  <2>1. device[s] \in Devices /\ level[s] \in Sensitivities
    BY <1>4, <1>00 DEF CaputCorrA
  <2>2. /\ cal' \in [Devices -> Sensitivities]
        /\ used' \in [{"commands", "external", "faults", "aborts", "drops", "overlaps"} -> Nat]
    BY <1>4, <2>1, CaputTypes DEF CaputCorrA
  <2>3. CompanionOf[device[s]] # NoDevice => CompanionOf[device[s]] \in Devices
    BY <2>1, DevicesAssumption DEF DevicesAssumption
  <2>. QED
    BY <1>4, <2>2, <2>3 DEF CaputCorrA
<1>5. CASE CaputDQcal(s)
  <2>1. CompanionOf[device[s]] \in Devices /\ level[s] \in Sensitivities
    BY <1>5, <1>00 DEF CaputDQcal
  <2>2. /\ cal' \in [Devices -> Sensitivities]
        /\ used' \in [{"commands", "external", "faults", "aborts", "drops", "overlaps"} -> Nat]
    BY <1>5, <2>1, CaputTypes DEF CaputDQcal
  <2>. QED
    BY <1>5, <2>2 DEF CaputDQcal
<1>6. CASE Tell(s)
  BY <1>6, <1>00 DEF Tell
<1>7. CASE Restore(s)
  <2>1. device[s] \in Devices /\ level[s] \in Sensitivities
    BY <1>7 DEF Restore
  <2>2. /\ cal' \in [Devices -> Sensitivities]
        /\ used' \in [{"commands", "external", "faults", "aborts", "drops", "overlaps"} -> Nat]
    BY <1>7, <2>1, CaputTypes DEF Restore
  <2>. QED
    BY <1>7, <2>2 DEF Restore
<1>8. ASSUME NEW d \in Devices, Push(s, d)
      PROVE  TypeInv'
  <2>1. levels[s][d] \in Levels
    BY <1>00
  <2>2. box' \in [Boxes -> Levels] /\ events' \in [Devices -> Seq(Levels)]
    BY <1>0, <1>8, <2>1, BoxTakesTypes DEF Push
  <2>3. used' \in [{"commands", "external", "faults", "aborts", "drops", "overlaps"} -> Nat]
    BY <1>8, UseTypes DEF Push, Fault
  <2>4. unsent' \in [Sessions -> SUBSET Devices]
    BY <1>8 DEF Push
  <2>5. /\ at' \in [Sessions -> {"idle", "post", "record", "corrA", "DQcal", "tell", "push", "restore"}]
        /\ Arguments'
    BY <1>8 DEF Push
  <2>. QED
    BY <1>8, <2>2, <2>3, <2>4, <2>5 DEF Push
<1>. QED
  BY <1>1, <1>2, <1>3, <1>4, <1>5, <1>6, <1>7, <1>8 DEF Command

LEMMA TypeOperator ==
  ASSUME TypeInv, NEW s \in Sessions,
         \/ \E d \in Commanded, l \in Sensitivities : SetSensitivity(s, d, l)
         \/ ClearCalibration(s)
         \/ \E d \in Devices : RestoreDefaults(s, d)
         \/ Abort(s)
  PROVE  TypeInv'
<1> USE DEF TypeInv, TypeOK, Arguments, Goto, hardware, server, command
<1>0. \A d \in Devices : BoxOf[d] \in Boxes
  BY DevicesAssumption DEF DevicesAssumption
<1>00. Commanded \subseteq Devices /\ Sensitivities \subseteq Levels
  BY DevicesAssumption, LevelsAssumption DEF DevicesAssumption, LevelsAssumption
<1>1. ASSUME NEW d \in Commanded, NEW l \in Sensitivities, SetSensitivity(s, d, l)
      PROVE  TypeInv'
  BY <1>1, <1>00, StartTypes DEF SetSensitivity
<1>2. CASE ClearCalibration(s)
  BY <1>2, StartTypes DEF ClearCalibration
<1>3. ASSUME NEW d \in Devices, RestoreDefaults(s, d)
      PROVE  TypeInv'
  BY <1>3, StartTypes DEF RestoreDefaults
<1>4. CASE Abort(s)
  <2>1. used' \in [{"commands", "external", "faults", "aborts", "drops", "overlaps"} -> Nat]
    BY <1>4, UseTypes DEF Abort
  <2>2. box' \in [Boxes -> Levels] /\ events' \in [Devices -> Seq(Levels)]
    <3>1. CASE at[s] = "post" /\ BoxTakes(BoxOf[device[s]], level[s])
      BY <3>1, <1>0, <1>00, BoxTakesTypes
    <3>2. ASSUME NEW x \in unsent[s], BoxTakes(BoxOf[x], levels[s][x])
          PROVE  box' \in [Boxes -> Levels] /\ events' \in [Devices -> Seq(Levels)]
      BY <3>2, <1>0, <1>00, BoxTakesTypes
    <3>3. CASE UNCHANGED hardware
      BY <3>3
    <3>. QED
      BY <1>4, <3>1, <3>2, <3>3 DEF Abort
  <2>3. cal' \in [Devices -> Sensitivities]
    BY <1>4, <1>00 DEF Abort
  <2>4. /\ at' \in [Sessions -> {"idle", "post", "record", "corrA", "DQcal", "tell", "push", "restore"}]
        /\ Arguments'
    BY <1>4 DEF Abort
  <2>. QED
    BY <1>4, <2>1, <2>2, <2>3, <2>4 DEF Abort
<1>. QED
  BY <1>1, <1>2, <1>3, <1>4

LEMMA TypeNext == TypeInv /\ [Next]_vars => TypeInv'
<1> SUFFICES ASSUME TypeInv, [Next]_vars
             PROVE  TypeInv'
  OBVIOUS
<1>1. ASSUME NEW b \in Boxes, NEW l \in Levels, External(b, l)
      PROVE  TypeInv'
  <2>1. used' \in [{"commands", "external", "faults", "aborts", "drops", "overlaps"} -> Nat]
    BY <1>1, UseTypes DEF External
  <2>2. box' \in [Boxes -> Levels] /\ events' \in [Devices -> Seq(Levels)]
    BY <1>1 DEF External, Stream, TypeInv, TypeOK
  <2>. QED
    BY <1>1, <2>1, <2>2 DEF External, server, command, TypeInv, TypeOK, Arguments
<1>2. CASE UNCHANGED vars
  BY <1>2 DEF vars, hardware, server, command, TypeInv, TypeOK, Arguments
<1>. QED
  BY <1>1, <1>2, TypeListener, TypeCommand, TypeOperator DEF Next

\* The types, and with them that a command in progress has its arguments.
THEOREM TypeCorrect == Spec => []TypeOK
<1>1. TypeInv => TypeOK
  BY DEF TypeInv
<1>. QED
  BY <1>1, TypeInit, TypeNext, PTL DEF Spec
-----------------------------------------------------------------------------
(* What every step does to the boxes and to the history *)

\* What was used stays used.
LEMMA UsedStays ==
  ASSUME TypeInv, [Next]_vars,
         NEW w \in {"commands", "external", "faults", "aborts", "drops", "overlaps"},
         used'[w] = 0
  PROVE  used[w] = 0
<1>0. used[w] \in Nat
  BY DEF TypeInv, TypeOK
<1>1. CASE used' = used
  BY <1>1
<1>2. ASSUME NEW what \in {"external", "faults", "aborts", "drops"}, NEW max, Use(what, max)
      PROVE  used[w] = 0
  BY <1>0, <1>2 DEF Use, TypeInv, TypeOK
<1>3. ASSUME NEW s \in Sessions, Start(s)
      PROVE  used[w] = 0
  <2>1. PICK n, m :
          /\ used' = [used EXCEPT !.commands = n, !.overlaps = m]
          /\ n = used.commands + 1 /\ (m = used.overlaps \/ m = used.overlaps + 1)
    <3>1. CASE \E x \in Sessions : Busy(x)
      BY <1>3, <3>1 DEF Start, TypeInv, TypeOK
    <3>2. CASE ~ \E x \in Sessions : Busy(x)
      BY <1>3, <3>2 DEF Start, TypeInv, TypeOK
    <3>. QED
      BY <3>1, <3>2
  <2>2. DOMAIN used = {"commands", "external", "faults", "aborts", "drops", "overlaps"}
        /\ used.commands \in Nat /\ used.overlaps \in Nat
    BY DEF TypeInv, TypeOK
  <2>3. CASE w = "commands"
    BY <2>1, <2>2, <2>3
  <2>4. CASE w = "overlaps"
    BY <2>1, <2>2, <2>4
  <2>5. CASE w \notin {"commands", "overlaps"}
    <3>1. used'[w] = used[w]
      BY <2>1, <2>2, <2>5
    <3>. QED
      BY <3>1
  <2>. QED
    BY <2>3, <2>4, <2>5
<1>4. ASSUME NEW b \in Boxes, NEW l \in Levels, External(b, l)
      PROVE  used[w] = 0
  BY <1>2, <1>4 DEF External
<1>5. ASSUME NEW d \in Devices, Listener(d) \/ Disconnect(d) \/ Reconnect(d)
      PROVE  used[w] = 0
  BY <1>1, <1>2, <1>5 DEF Listener, Handle, Announce, Disconnect, Reconnect
<1>6. ASSUME NEW s \in Sessions, Command(s)
      PROVE  used[w] = 0
  <2>1. used' = used \/ Use("faults", MaxFaults)
    BY <1>6 DEF Command, Post, PostFails, Record, CaputCorrA, CaputDQcal, Tell, Restore, Push,
                Caput, Fault
  <2>. QED
    BY <1>1, <1>2, <2>1
<1>7. ASSUME NEW s \in Sessions, Abort(s)
      PROVE  used[w] = 0
  BY <1>2, <1>7 DEF Abort
<1>8. ASSUME NEW s \in Sessions,
             \/ \E d \in Commanded, l \in Sensitivities : SetSensitivity(s, d, l)
             \/ ClearCalibration(s)
             \/ \E d \in Devices : RestoreDefaults(s, d)
      PROVE  used[w] = 0
  BY <1>3, <1>8 DEF SetSensitivity, ClearCalibration, RestoreDefaults
<1>9. CASE UNCHANGED vars
  BY <1>1, <1>9 DEF vars
<1>. QED
  BY <1>4, <1>5, <1>6, <1>7, <1>8, <1>9 DEF Next

\* A command moves at most one box, to a level of a device.
LEMMA CommandMoves ==
  ASSUME TypeInv, NEW s \in Sessions, Command(s) \/ Abort(s)
  PROVE  \/ UNCHANGED hardware
         \/ \E b \in Boxes, l \in Sensitivities : BoxTakes(b, l)
<1>0. \A d \in Devices : BoxOf[d] \in Boxes
  BY DevicesAssumption DEF DevicesAssumption
<1>1. at[s] = "post" => BoxOf[device[s]] \in Boxes /\ level[s] \in Sensitivities
  BY <1>0, DevicesAssumption DEF DevicesAssumption, TypeInv, Arguments
<1>2. \A d \in Devices : BoxOf[d] \in Boxes /\ levels[s][d] \in Sensitivities
  BY <1>0 DEF TypeInv, TypeOK
<1>3. unsent[s] \subseteq Devices
  BY DEF TypeInv, TypeOK
<1>4. CASE Post(s) \/ PostFails(s)
  BY <1>1, <1>4 DEF Post, PostFails
<1>5. CASE \E d \in Devices : Push(s, d)
  BY <1>2, <1>5 DEF Push
<1>6. CASE Abort(s)
  BY <1>1, <1>2, <1>3, <1>6 DEF Abort, hardware
<1>7. CASE Record(s) \/ CaputCorrA(s) \/ CaputDQcal(s) \/ Tell(s) \/ Restore(s)
  BY <1>7 DEF Record, CaputCorrA, CaputDQcal, Tell, Restore
<1>. QED
  BY <1>4, <1>5, <1>6, <1>7 DEF Command

\* A device is no longer misled when a command records the level its box has.
LEMMA HeardAgain ==
  ASSUME TypeInv, [Next]_vars, NEW e \in unheard, e \notin unheard'
  PROVE  \E s \in Sessions : Record(s) /\ device[s] = e /\ level[s] = box[BoxOf[e]]
<1>1. ~UNCHANGED unheard
  OBVIOUS
<1>2. PICK s \in Sessions : Command(s)
  BY <1>1 DEF Next, vars, External, Listener, Handle, Announce, Disconnect, Reconnect,
              SetSensitivity, ClearCalibration, RestoreDefaults, Abort
<1>3. Record(s)
  BY <1>2 DEF Command, Post, PostFails, CaputCorrA, CaputDQcal, Tell, Restore, Push
<1>. QED
  BY <1>3 DEF Record

-----------------------------------------------------------------------------
(* A connected device: the last frame on its way is the level of its box,   *)
(* and when none is on its way the server has that level.                   *)

Tracks(d) == stream[d] /\ (events[d] # <<>> => events[d][Len(events[d])] = box[BoxOf[d]])

Follows(d) ==
  /\ Tracks(d)
  /\ events[d] = <<>> /\ box[BoxOf[d]] \in Sensitivities => sens[d] = box[BoxOf[d]]

LEMMA BoxKeepsFollows ==
  ASSUME TypeInv, NEW d \in Devices, Tracks(d), NEW b \in Boxes, NEW l \in Levels,
         box' = [box EXCEPT ![b] = l], Stream(b, l) \/ (l = box[b] /\ UNCHANGED events),
         UNCHANGED <<stream, sens>>
  PROVE  Tracks(d)' /\ (Follows(d) => Follows(d)')
<1>0. BoxOf[d] \in Boxes /\ events[d] \in Seq(Levels) /\ box \in [Boxes -> Levels]
  BY DevicesAssumption DEF DevicesAssumption, TypeInv, TypeOK
<1>1. CASE BoxOf[d] = b /\ Stream(b, l)
  <2>1. events'[d] = Append(events[d], l)
    BY <1>1 DEF Stream, Tracks
  <2>2. events'[d] # <<>> /\ events'[d][Len(events'[d])] = l
    BY <1>0, <2>1
  <2>3. box'[BoxOf[d]] = l
    BY <1>0, <1>1
  <2>. QED
    BY <2>2, <2>3 DEF Follows, Tracks
<1>2. CASE BoxOf[d] # b \/ (l = box[b] /\ UNCHANGED events)
  <2>1. events'[d] = events[d]
    BY <1>2 DEF Stream
  <2>2. box'[BoxOf[d]] = box[BoxOf[d]]
    BY <1>0, <1>2
  <2>. QED
    BY <2>1, <2>2 DEF Follows, Tracks
<1>. QED
  BY <1>1, <1>2

LEMMA HandleKeepsFollows ==
  ASSUME TypeInv, NEW d \in Devices, Tracks(d), Handle(d)
  PROVE  Follows(d)'
<1>0. /\ BoxOf[d] \in Boxes /\ events[d] \in Seq(Levels) /\ events[d] # <<>>
      /\ events'[d] = Tail(events[d]) /\ UNCHANGED <<box, stream>>
  BY DevicesAssumption DEF DevicesAssumption, TypeInv, TypeOK, Handle
<1>00. Len(events[d]) \in Nat /\ Len(events[d]) > 0
  BY <1>0, EmptySeq
<1>01. Len(events[d]) = 1 \/ Len(events[d]) > 1
  <2>1. \A n \in Nat : n > 0 => n = 1 \/ n > 1
    OBVIOUS
  <2>. QED
    BY <1>00, <2>1
<1>1. CASE Len(events[d]) = 1
  <2>0. Head(events[d]) = events[d][1] /\ Len(Tail(events[d])) = 0 /\ Tail(events[d]) \in Seq(Levels)
    BY <1>0, <1>1
  <2>1. Head(events[d]) = box[BoxOf[d]] /\ events'[d] = <<>>
    BY <1>0, <1>1, <2>0, EmptySeq DEF Follows, Tracks
  <2>2. Head(events[d]) \in Sensitivities => sens'[d] = Head(events[d])
    <3>1. CASE Head(events[d]) \in Sensitivities \ {sens[d]}
      BY <3>1 DEF Handle, TypeInv, TypeOK
    <3>2. CASE Head(events[d]) = sens[d]
      BY <3>2 DEF Handle, server
    <3>. QED
      BY <3>1, <3>2
  <2>. QED
    BY <1>0, <2>1, <2>2 DEF Follows, Tracks
<1>2. CASE Len(events[d]) > 1
  <2>1. Len(events'[d]) = Len(events[d]) - 1 /\ events'[d] # <<>>
    BY <1>0, <1>2
  <2>2. events'[d][Len(events'[d])] = events[d][Len(events[d])]
    BY <1>0, <1>2, <2>1
  <2>. QED
    BY <1>0, <2>1, <2>2 DEF Follows, Tracks
<1>. QED
  BY <1>01, <1>1, <1>2
-----------------------------------------------------------------------------
(* FollowersAreCurrent: the devices no command is about *)

Shows(d) ==
  IF announce[d] = NoLevel THEN shown[d] = View(d) ELSE announce[d] = sens[d] /\ mismatch[d]

FollowInv ==
  used["drops"] = 0 => \A d \in Devices \ Commanded : Follows(d) /\ Shows(d)

LEMMA FollowInit ==
  ASSUME Init, NEW d \in Devices
  PROVE  Follows(d) /\ Shows(d)
<1>1. sens[d] = box[BoxOf[d]] /\ stream[d] /\ events[d] = <<>>
  BY DEF Init
<1>2. announce[d] = NoLevel /\ shown[d] = View(d)
  BY DEF Init
<1>. QED
  BY <1>1, <1>2 DEF Follows, Tracks, Shows

\* A command, or its end, leaves a device it is not about alone but for the box.
LEMMA CommandKeepsFollowers ==
  ASSUME TypeInv, NEW s \in Sessions, Command(s) \/ Abort(s), NEW d \in Devices \ Commanded,
         Follows(d), Shows(d)
  PROVE  Follows(d)' /\ Shows(d)'
<1>1. /\ sens'[d] = sens[d] /\ mismatch'[d] = mismatch[d] /\ shown'[d] = shown[d]
      /\ UNCHANGED <<announce, stream>>
  <2>1. CASE Record(s)
    <3>1. device[s] # d
      BY <2>1 DEF Record, TypeInv, Arguments
    <3>. QED
      BY <2>1, <3>1 DEF Record, TypeInv, TypeOK
  <2>2. CASE Tell(s)
    <3>1. device[s] # d
      BY <2>2 DEF Tell, TypeInv, Arguments
    <3>. QED
      BY <2>2, <3>1 DEF Tell, server, TypeInv, TypeOK
  <2>3. CASE ~Record(s) /\ ~Tell(s)
    BY <2>3 DEF Command, Post, PostFails, CaputCorrA, CaputDQcal, Restore, Push, Abort, server
  <2>. QED
    BY <2>1, <2>2, <2>3
<1>2. Shows(d)'
  BY <1>1 DEF Shows, View
<1>3. Follows(d)'
  <2>1. CASE UNCHANGED hardware
    BY <1>1, <2>1 DEF Follows, Tracks, hardware
  <2>2. CASE Record(s) \/ Tell(s)
    BY <1>1, <2>2 DEF Record, Tell, Follows, Tracks, hardware
  <2>3. ASSUME NEW b \in Boxes, NEW l \in Sensitivities, BoxTakes(b, l), UNCHANGED sens
        PROVE  Follows(d)'
    <3>1. l \in Levels
      BY LevelsAssumption DEF LevelsAssumption
    <3>2. Tracks(d)
      BY DEF Follows
    <3>. QED
      BY <1>1, <2>3, <3>1, <3>2, BoxKeepsFollows DEF BoxTakes
  <2>4. CASE ~Record(s) /\ ~Tell(s)
    <3>1. UNCHANGED sens
      BY <2>4 DEF Command, Post, PostFails, CaputCorrA, CaputDQcal, Restore, Push, Abort, server
    <3>. QED
      BY <2>1, <2>3, <3>1, CommandMoves
  <2>. QED
    BY <2>2, <2>4
<1>. QED
  BY <1>2, <1>3

LEMMA FollowNext == TypeInv /\ FollowInv /\ [Next]_vars => FollowInv'
<1> SUFFICES ASSUME TypeInv, FollowInv, [Next]_vars, used'["drops"] = 0,
                    NEW d \in Devices \ Commanded
             PROVE  Follows(d)' /\ Shows(d)'
  BY DEF FollowInv
<1>0. used["drops"] = 0 /\ Tracks(d) /\ Follows(d) /\ Shows(d)
  <2>1. used["drops"] = 0
    BY UsedStays
  <2>. QED
    BY <2>1 DEF FollowInv, Follows
<1>1. ASSUME NEW b \in Boxes, NEW l \in Levels, External(b, l)
      PROVE  Follows(d)' /\ Shows(d)'
  BY <1>0, <1>1, BoxKeepsFollows DEF External, server, Shows, View
<1>2. ASSUME NEW e \in Devices, Handle(e)
      PROVE  Follows(d)' /\ Shows(d)'
  <2>1. CASE e = d
    <3>1. Follows(d)'
      BY <1>0, <1>2, <2>1, HandleKeepsFollows
    <3>2. Shows(d)'
      <4>1. CASE Head(events[d]) \in Sensitivities \ {sens[d]}
        <5>1. announce'[d] = Head(events[d]) /\ sens'[d] = Head(events[d]) /\ mismatch'[d]
          BY <1>2, <2>1, <4>1 DEF Handle, TypeInv, TypeOK
        <5>2. announce'[d] # NoLevel
          BY <4>1, <5>1, LevelsAssumption DEF LevelsAssumption
        <5>. QED
          BY <5>1, <5>2 DEF Shows
      <4>2. CASE ~(Head(events[d]) \in Sensitivities \ {sens[d]})
        BY <1>0, <1>2, <2>1, <4>2 DEF Handle, Shows, View, server
      <4>. QED
        BY <4>1, <4>2
    <3>. QED
      BY <3>1, <3>2
  <2>2. CASE e # d
    <3>1. /\ events'[d] = events[d] /\ sens'[d] = sens[d] /\ mismatch'[d] = mismatch[d]
          /\ announce'[d] = announce[d] /\ UNCHANGED <<box, shown, stream>>
      BY <1>2, <2>2 DEF Handle, server, TypeInv, TypeOK
    <3>. QED
      BY <1>0, <3>1 DEF Follows, Tracks, Shows, View
  <2>. QED
    BY <2>1, <2>2
<1>3. ASSUME NEW e \in Devices, Announce(e)
      PROVE  Follows(d)' /\ Shows(d)'
  <2>1. Follows(d)'
    BY <1>0, <1>3 DEF Announce, Follows, Tracks, hardware, server
  <2>2. CASE e = d
    <3>1. /\ shown'[d] = [level |-> announce[d], mismatch |-> TRUE] /\ announce'[d] = NoLevel
          /\ announce[d] # NoLevel /\ UNCHANGED <<sens, mismatch>>
      BY <1>3, <2>2 DEF Announce, server, TypeInv, TypeOK
    <3>2. announce[d] = sens[d] /\ mismatch[d] = TRUE
      BY <1>0, <3>1 DEF Shows, TypeInv, TypeOK
    <3>. QED
      BY <2>1, <3>1, <3>2 DEF Shows, View
  <2>3. CASE e # d
    <3>1. shown'[d] = shown[d] /\ announce'[d] = announce[d] /\ UNCHANGED <<sens, mismatch>>
      BY <1>3, <2>3 DEF Announce, server, TypeInv, TypeOK
    <3>. QED
      BY <1>0, <2>1, <3>1 DEF Shows, View
  <2>. QED
    BY <2>2, <2>3
<1>4. ASSUME NEW e \in Devices, Disconnect(e)
      PROVE  Follows(d)' /\ Shows(d)'
  <2>1. used'["drops"] = used["drops"] + 1
    BY <1>4 DEF Disconnect, Use, TypeInv, TypeOK
  <2>. QED
    BY <1>0, <2>1
<1>5. ASSUME NEW e \in Devices, Reconnect(e)
      PROVE  Follows(d)' /\ Shows(d)'
  <2>1. e # d
    BY <1>0, <1>5 DEF Reconnect, Follows, Tracks
  <2>2. stream'[d] = stream[d] /\ UNCHANGED <<hardware, server, shown, announce>>
    BY <1>5, <2>1 DEF Reconnect, TypeInv, TypeOK
  <2>. QED
    BY <1>0, <2>2 DEF Follows, Tracks, Shows, View, hardware, server
<1>6. ASSUME NEW s \in Sessions, Command(s) \/ Abort(s)
      PROVE  Follows(d)' /\ Shows(d)'
  BY <1>0, <1>6, CommandKeepsFollowers
<1>7. ASSUME NEW s \in Sessions,
             \/ \E e \in Commanded, l \in Sensitivities : SetSensitivity(s, e, l)
             \/ ClearCalibration(s)
             \/ \E e \in Devices : RestoreDefaults(s, e)
      PROVE  Follows(d)' /\ Shows(d)'
  <2>1. UNCHANGED <<hardware, server, shown, stream, announce>>
    BY <1>7 DEF SetSensitivity, ClearCalibration, RestoreDefaults
  <2>. QED
    BY <1>0, <2>1 DEF Follows, Tracks, Shows, View, hardware, server
<1>8. CASE UNCHANGED vars
  BY <1>0, <1>8 DEF vars, Follows, Tracks, Shows, View, hardware, server
<1>. QED
  BY <1>1, <1>2, <1>3, <1>4, <1>5, <1>6, <1>7, <1>8 DEF Next, Listener

\* While no stream drops, a device that is never commanded ends up with the
\* level of its box and the clients with what the server has, whatever the
\* commands, the failing writes, the aborts and the front panels do.
THEOREM FollowersFollow == Spec => []FollowersAreCurrent
<1>1. FollowInv => FollowersAreCurrent
  <2> SUFFICES ASSUME FollowInv, used["drops"] = 0, NEW d \in Devices \ Commanded, Drained(d)
               PROVE  /\ shown[d] = View(d)
                      /\ box[BoxOf[d]] \in Sensitivities => sens[d] = box[BoxOf[d]]
    BY DEF FollowersAreCurrent, Without
  <2>. QED
    BY DEF FollowInv, Follows, Tracks, Shows, Drained
<1>2. Init => FollowInv
  BY FollowInit DEF FollowInv
<1>. QED
  BY <1>1, <1>2, TypeInit, TypeNext, FollowNext, PTL DEF Spec

-----------------------------------------------------------------------------
(* RestingStateIsTrue: one command at a time, and nobody else *)

\* The server follows the box of d, unless it recorded what the box did not take.
Knows(d) == Tracks(d) /\ (d \notin unheard => Follows(d))

\* What the command of s is to record is what the box has.
Aims(s) == level[s] = box[BoxOf[device[s]]] \/ device[s] \in unheard

TrueInv ==
  (\A k \in {"overlaps", "external", "drops"} : used[k] = 0) =>
    /\ \A x, y \in Sessions : Busy(x) /\ Busy(y) => x = y
    /\ \A b \in Boxes : box[b] \in Sensitivities
    /\ \A s \in Sessions : at[s] = "record" => Aims(s)
    /\ \A d \in Devices : Knows(d)

LEMMA TrueInit == Init => TrueInv
<1> SUFFICES ASSUME Init
             PROVE  TrueInv
  OBVIOUS
<1>1. \A s \in Sessions : at[s] = "idle" /\ ~Busy(s)
  BY DEF Init, Busy
<1>2. \A b \in Boxes : box[b] \in Sensitivities
  BY DEF Init
<1>3. \A d \in Devices : Knows(d)
  BY FollowInit DEF Knows, Follows
<1>. QED
  BY <1>1, <1>2, <1>3 DEF TrueInv

\* One step of the only command there is.
LEMMA CommandKeepsTrue ==
  ASSUME TypeInv, TrueInv, \A k \in {"overlaps", "external", "drops"} : used[k] = 0,
         NEW s \in Sessions, Command(s) \/ Abort(s)
  PROVE  /\ \A x, y \in Sessions : (Busy(x) /\ Busy(y))' => x = y
         /\ \A b \in Boxes : box'[b] \in Sensitivities
         /\ \A x \in Sessions : at'[x] = "record" => Aims(x)'
         /\ \A d \in Devices : Knows(d)'
<1>1. Busy(s)
  BY DEF Command, Abort, Post, PostFails, Record, CaputCorrA, CaputDQcal, Tell, Restore, Push, Busy
<1>2. \A x \in Sessions \ {s} : at[x] = "idle"
  BY <1>1 DEF TrueInv, Busy
<1>3. \A x \in Sessions \ {s} : at'[x] = at[x]
  <2>1. \E label : at' = [at EXCEPT ![s] = label]
    BY DEF Command, Abort, Post, PostFails, Record, CaputCorrA, CaputDQcal, Tell, Restore, Push, Goto
  <2>. QED
    BY <2>1 DEF TypeInv, TypeOK
<1>4. \A x, y \in Sessions : (Busy(x) /\ Busy(y))' => x = y
  BY <1>2, <1>3 DEF Busy
<1>5. \A b \in Boxes : box'[b] \in Sensitivities
  <2>1. CASE UNCHANGED hardware
    BY <2>1 DEF TrueInv, hardware
  <2>2. ASSUME NEW b \in Boxes, NEW l \in Sensitivities, BoxTakes(b, l)
        PROVE  \A c \in Boxes : box'[c] \in Sensitivities
    BY <2>2 DEF BoxTakes, TrueInv, TypeInv, TypeOK
  <2>. QED
    BY <2>1, <2>2, CommandMoves
<1>6. at'[s] = "record" => Aims(s)'
  <2>1. at'[s] = "record" => Post(s)
    BY DEF Command, Abort, PostFails, Record, CaputCorrA, CaputDQcal, Tell, Restore, Push, Goto,
           TypeInv, TypeOK
  <2>2. Post(s) => device[s] \in Devices /\ BoxOf[device[s]] \in Boxes
    BY DevicesAssumption DEF DevicesAssumption, Post, TypeInv, Arguments
  <2>. QED
    BY <2>1, <2>2 DEF Aims, Post, BoxTakes, command, TypeInv, TypeOK
<1>7. ASSUME NEW d \in Devices
      PROVE  Knows(d)'
  <2>0. Tracks(d) /\ (d \notin unheard => Follows(d))
    BY DEF TrueInv, Knows
  <2>1. CASE Record(s)
    <3>1. UNCHANGED <<box, events, stream>>
      BY <2>1 DEF Record, hardware
    <3>2. CASE d = device[s]
      <4>1. sens'[d] = level[s]
        BY <2>1, <3>2 DEF Record, TypeInv, TypeOK
      <4>2. d \notin unheard' => level[s] = box[BoxOf[d]]
        BY <2>1, <3>2 DEF Record, TrueInv, Aims
      <4>. QED
        BY <2>0, <3>1, <4>1, <4>2 DEF Knows, Follows, Tracks
    <3>3. CASE d # device[s]
      <4>1. sens'[d] = sens[d] /\ (d \in unheard' <=> d \in unheard)
        BY <2>1, <3>3 DEF Record, TypeInv, TypeOK
      <4>. QED
        BY <2>0, <3>1, <4>1 DEF Knows, Follows, Tracks
    <3>. QED
      BY <3>2, <3>3
  <2>2. CASE ~Record(s)
    <3>1. UNCHANGED <<sens, stream>>
      BY <2>2 DEF Command, Post, PostFails, CaputCorrA, CaputDQcal, Tell, Restore, Push, Abort, server
    <3>2. d \notin unheard' => d \notin unheard
      BY <2>2 DEF Command, Post, PostFails, CaputCorrA, CaputDQcal, Tell, Restore, Push, Abort
    <3>3. CASE UNCHANGED hardware
      BY <2>0, <3>1, <3>2, <3>3 DEF Knows, Follows, Tracks, hardware
    <3>4. ASSUME NEW b \in Boxes, NEW l \in Sensitivities, BoxTakes(b, l)
          PROVE  Knows(d)'
      <4>1. l \in Levels
        BY LevelsAssumption DEF LevelsAssumption
      <4>2. Tracks(d)' /\ (Follows(d) => Follows(d)')
        BY <2>0, <3>1, <3>4, <4>1, BoxKeepsFollows DEF BoxTakes
      <4>. QED
        BY <2>0, <3>2, <4>2 DEF Knows
    <3>. QED
      BY <3>3, <3>4, CommandMoves
  <2>. QED
    BY <2>1, <2>2
<1>8. \A x \in Sessions : at'[x] = "record" => Aims(x)'
  BY <1>2, <1>3, <1>6
<1>. QED
  BY <1>4, <1>5, <1>7, <1>8

LEMMA TrueNext == TypeInv /\ TrueInv /\ [Next]_vars => TrueInv'
<1> SUFFICES ASSUME TypeInv, TrueInv, [Next]_vars,
                    \A k \in {"overlaps", "external", "drops"} : used'[k] = 0
             PROVE  /\ \A x, y \in Sessions : (Busy(x) /\ Busy(y))' => x = y
                    /\ \A b \in Boxes : box'[b] \in Sensitivities
                    /\ \A s \in Sessions : at'[s] = "record" => Aims(s)'
                    /\ \A d \in Devices : Knows(d)'
  BY DEF TrueInv
<1>0. \A k \in {"overlaps", "external", "drops"} : used[k] = 0
  BY UsedStays
<1>00. /\ \A x, y \in Sessions : Busy(x) /\ Busy(y) => x = y
       /\ \A b \in Boxes : box[b] \in Sensitivities
       /\ \A s \in Sessions : at[s] = "record" => Aims(s)
       /\ \A d \in Devices : Knows(d)
  BY <1>0 DEF TrueInv
<1>1. ASSUME NEW what \in {"external", "drops"}, NEW max, Use(what, max)
      PROVE  FALSE
  <2>1. used'[what] = used[what] + 1
    BY <1>1 DEF Use, TypeInv, TypeOK
  <2>. QED
    BY <1>0, <2>1
<1>2. ASSUME NEW e \in Devices, Handle(e)
      PROVE  \A d \in Devices : Knows(d)'
  <2> SUFFICES ASSUME NEW d \in Devices
               PROVE  Knows(d)'
    OBVIOUS
  <2>1. CASE e = d
    <3>1. Follows(d)'
      BY <1>00, <1>2, <2>1, HandleKeepsFollows DEF Knows
    <3>. QED
      BY <3>1 DEF Knows, Follows
  <2>2. CASE e # d
    <3>1. events'[d] = events[d] /\ sens'[d] = sens[d] /\ UNCHANGED <<box, stream, unheard>>
      BY <1>2, <2>2 DEF Handle, server, TypeInv, TypeOK
    <3>. QED
      BY <1>00, <3>1 DEF Knows, Follows, Tracks
  <2>. QED
    BY <2>1, <2>2
<1>3. ASSUME NEW e \in Devices, Reconnect(e)
      PROVE  FALSE
  BY <1>00, <1>3 DEF Reconnect, Knows, Follows, Tracks
<1>4. ASSUME NEW s \in Sessions, Start(s)
      PROVE  \A x \in Sessions : at[x] = "idle"
  <2> SUFFICES ASSUME \E x \in Sessions : Busy(x)
               PROVE  FALSE
    BY DEF Busy
  <2>1. used'["overlaps"] = used["overlaps"] + 1
    BY <1>4 DEF Start, TypeInv, TypeOK
  <2>. QED
    BY <1>0, <2>1
<1>5. ASSUME NEW s \in Sessions,
             \/ \E e \in Commanded, l \in Sensitivities : SetSensitivity(s, e, l)
             \/ ClearCalibration(s)
             \/ \E e \in Devices : RestoreDefaults(s, e)
      PROVE  /\ \A x, y \in Sessions : (Busy(x) /\ Busy(y))' => x = y
             /\ \A x \in Sessions : at'[x] # "record"
             /\ UNCHANGED <<hardware, server, stream, unheard>>
  <2>1. /\ Start(s) /\ UNCHANGED <<hardware, server, stream, unheard>>
        /\ \E label \in {"post", "push", "restore"} : at' = [at EXCEPT ![s] = label]
    BY <1>5 DEF SetSensitivity, ClearCalibration, RestoreDefaults, Goto
  <2>2. \A x \in Sessions : at[x] = "idle"
    BY <1>4, <2>1
  <2>3. at'[s] # "record" /\ \A x \in Sessions \ {s} : at'[x] = "idle"
    BY <2>1, <2>2 DEF TypeInv, TypeOK
  <2>. QED
    BY <2>1, <2>3 DEF Busy
<1>6. CASE \E b \in Boxes, l \in Levels : External(b, l)
  BY <1>1, <1>6 DEF External
<1>7. CASE \E d \in Devices : Handle(d)
  <2>1. UNCHANGED <<box, at, device, level, unheard>>
    BY <1>7 DEF Handle, command
  <2>2. \A d \in Devices : Knows(d)'
    BY <1>2, <1>7
  <2>. QED
    BY <1>00, <2>1, <2>2 DEF Busy, Aims
<1>8. CASE \E d \in Devices : Announce(d)
  BY <1>00, <1>8 DEF Announce, command, hardware, server, Busy, Aims, Knows, Follows, Tracks
<1>9. CASE \E d \in Devices : Disconnect(d) \/ Reconnect(d)
  BY <1>1, <1>3, <1>9 DEF Disconnect
<1>10. CASE \E s \in Sessions : Command(s) \/ Abort(s)
  BY <1>0, <1>10, CommandKeepsTrue
<1>11. CASE \E s \in Sessions :
              \/ \E e \in Commanded, l \in Sensitivities : SetSensitivity(s, e, l)
              \/ ClearCalibration(s)
              \/ \E e \in Devices : RestoreDefaults(s, e)
  BY <1>00, <1>5, <1>11 DEF hardware, server, Knows, Follows, Tracks
<1>12. CASE UNCHANGED vars
  BY <1>00, <1>12 DEF vars, command, hardware, server, Busy, Aims, Knows, Follows, Tracks
<1>. QED
  BY <1>6, <1>7, <1>8, <1>9, <1>10, <1>11, <1>12 DEF Next, Listener

\* As long as commands run one at a time and nobody else touches a box, a server
\* at rest holds the level of every box, whichever writes failed after landing
\* and whichever commands were aborted; but for a device whose box did not take
\* what was recorded for it.
THEOREM RestIsTrue == Spec => []RestingStateIsTrue
<1>1. TypeInv /\ TrueInv => RestingStateIsTrue
  <2> SUFFICES ASSUME TypeInv, TrueInv, AtRest, NEW d \in Devices \ unheard,
                      \A k \in {"overlaps", "external", "drops"} : used[k] = 0
               PROVE  sens[d] = box[BoxOf[d]]
    BY DEF RestingStateIsTrue, Without
  <2>1. BoxOf[d] \in Boxes
    BY DevicesAssumption DEF DevicesAssumption
  <2>. QED
    BY <2>1 DEF TrueInv, AtRest, Drained, Knows, Follows, Tracks
<1>. QED
  BY <1>1, TypeInit, TypeNext, TrueInit, TrueNext, PTL DEF Spec

-----------------------------------------------------------------------------
(* StateMatchesFactors and CalibratedOrFlagged: the factor last written is  *)
(* that of the level last posted                                            *)

\* One command at a time.
Solo == \A x, y \in Sessions : Busy(x) /\ Busy(y) => x = y

\* The server has the level l of d, or d is flagged, or a frame of a :DQ device that is
\* on its way will tell.
Told(d, l) ==
  \/ mismatch[d]
  \/ sens[d] = l
  \/ d \in DQs /\ \E i \in 1 .. Len(events[d]) : events[d][i] = l

\* The command of s is yet to write the factor of d.
Owes(s, d) ==
  \/ at[s] \in {"corrA", "restore"} /\ device[s] = d
  \/ at[s] \in {"record", "corrA", "DQcal"} /\ CompanionOf[device[s]] = d

\* It has recorded the level the factor is for.
Writes(s, d) ==
  \/ at[s] = "corrA" /\ device[s] = d
  \/ at[s] \in {"corrA", "DQcal"} /\ CompanionOf[device[s]] = d

Accounted(d) ==
  /\ Told(d, cal[d]) \/ \E s \in Sessions : Writes(s, d)
  /\ \A s \in Sessions : Owes(s, d) => Told(d, level[s])

\* What a command does for the WCM of a :DQ device reaches the server by the box too.
Reached(d) == d \in DQs => d \notin Commanded /\ used["drops"] = 0 /\ ~Misled(d)

FactorInv ==
  (\A k \in {"overlaps", "faults", "aborts"} : used[k] = 0) =>
    Solo /\ \A d \in Devices : Reached(d) => Accounted(d)

LEMMA NotUsedUp ==
  ASSUME TypeInv, NEW what \in {"external", "faults", "aborts", "drops"}, NEW max, Use(what, max)
  PROVE  used'[what] # 0
<1>1. used[what] \in Nat /\ used'[what] = used[what] + 1
  BY DEF Use, TypeInv, TypeOK
<1>. QED
  BY <1>1

\* Who starts while nobody overlaps is the only one.
LEMMA SoloStays ==
  ASSUME TypeInv, Solo, [Next]_vars, used["overlaps"] = 0, used'["overlaps"] = 0
  PROVE  Solo'
<1>1. ASSUME NEW s \in Sessions, Start(s)
      PROVE  \A x \in Sessions : ~Busy(x)
  <2> SUFFICES ASSUME \E x \in Sessions : Busy(x)
               PROVE  FALSE
    OBVIOUS
  <2>1. used'["overlaps"] = used["overlaps"] + 1
    BY <1>1 DEF Start, TypeInv, TypeOK
  <2>. QED
    BY <2>1
<1>2. ASSUME NEW s \in Sessions, NEW label, at' = [at EXCEPT ![s] = label],
             Busy(s) \/ \A x \in Sessions : ~Busy(x)
      PROVE  Solo'
  <2>1. \A x \in Sessions \ {s} : at'[x] = at[x]
    BY <1>2 DEF TypeInv, TypeOK
  <2>2. \A x \in Sessions \ {s} : ~Busy(x)
    BY <1>2 DEF Solo
  <2>3. \A x \in Sessions : Busy(x)' => x = s
    BY <2>1, <2>2 DEF Busy
  <2>. QED
    BY <2>3 DEF Solo
<1>3. ASSUME NEW s \in Sessions, Command(s) \/ Abort(s)
      PROVE  Busy(s) /\ \E label : at' = [at EXCEPT ![s] = label]
  <2>1. Busy(s)
    BY <1>3 DEF Command, Abort, Post, PostFails, Record, CaputCorrA, CaputDQcal, Tell, Restore, Push,
                Busy
  <2>2. \E label : at' = [at EXCEPT ![s] = label]
    BY <1>3 DEF Command, Abort, Post, PostFails, Record, CaputCorrA, CaputDQcal, Tell, Restore, Push,
                Goto
  <2>. QED
    BY <2>1, <2>2
<1>4. ASSUME NEW s \in Sessions,
             \/ \E e \in Commanded, l \in Sensitivities : SetSensitivity(s, e, l)
             \/ ClearCalibration(s)
             \/ \E e \in Devices : RestoreDefaults(s, e)
      PROVE  Start(s) /\ \E label : at' = [at EXCEPT ![s] = label]
  BY <1>4 DEF SetSensitivity, ClearCalibration, RestoreDefaults, Goto
<1>5. CASE \E s \in Sessions : Command(s) \/ Abort(s)
  BY <1>2, <1>3, <1>5
<1>6. CASE \E s \in Sessions :
             \/ \E e \in Commanded, l \in Sensitivities : SetSensitivity(s, e, l)
             \/ ClearCalibration(s)
             \/ \E e \in Devices : RestoreDefaults(s, e)
  BY <1>1, <1>2, <1>4, <1>6
<1>7. CASE at' = at
  BY <1>7 DEF Solo, Busy
<1>8. CASE \E b \in Boxes, l \in Levels : External(b, l)
  BY <1>7, <1>8 DEF External
<1>9. CASE \E d \in Devices : Listener(d) \/ Disconnect(d) \/ Reconnect(d)
  BY <1>7, <1>9 DEF Listener, Handle, Announce, Disconnect, Reconnect
<1>. QED
  BY <1>5, <1>6, <1>7, <1>8, <1>9 DEF Next, vars

\* Whoever moves a box, a frame that is on its way stays on its way.
LEMMA FramesStay ==
  ASSUME TypeInv, NEW d \in Devices, NEW b \in Boxes, NEW l \in Levels,
         Stream(b, l) \/ BoxTakes(b, l), NEW i \in 1 .. Len(events[d])
  PROVE  i \in 1 .. Len(events'[d]) /\ events'[d][i] = events[d][i]
<1>1. events[d] \in Seq(Levels)
  BY DEF TypeInv, TypeOK
<1>2. CASE events'[d] = events[d]
  BY <1>2
<1>3. CASE events'[d] = Append(events[d], l)
  BY <1>1, <1>3, AppendProperties
<1>4. events'[d] = events[d] \/ events'[d] = Append(events[d], l)
  BY DEF Stream, BoxTakes
<1>. QED
  BY <1>2, <1>3, <1>4

\* A frame that is handled tells.
LEMMA HandleTells ==
  ASSUME TypeInv, NEW d \in Devices, NEW l \in Sensitivities, Told(d, l), Handle(d)
  PROVE  Told(d, l)'
<1> DEFINE h == Head(events[d])
<1>1. /\ events[d] \in Seq(Levels) /\ events[d] # <<>> /\ events'[d] = Tail(events[d])
      /\ h = events[d][1]
  BY DEF Handle, TypeInv, TypeOK
<1>2. CASE h \in Sensitivities \ {sens[d]}
  <2>1. mismatch'[d]
    BY <1>2 DEF Handle, TypeInv, TypeOK
  <2>. QED
    BY <2>1 DEF Told
<1>3. CASE ~(h \in Sensitivities \ {sens[d]})
  <2>1. sens' = sens /\ mismatch' = mismatch
    BY <1>3 DEF Handle, server
  <2>2. CASE mismatch[d] \/ sens[d] = l
    BY <2>1, <2>2 DEF Told
  <2>3. ASSUME d \in DQs, NEW i \in 1 .. Len(events[d]), events[d][i] = l
        PROVE  Told(d, l)'
    <3>1. CASE i = 1
      <4>1. sens[d] = l
        BY <1>1, <1>3, <2>3, <3>1
      <4>. QED
        BY <2>1, <4>1 DEF Told
    <3>2. CASE i # 1
      <4>1. /\ Len(Tail(events[d])) = Len(events[d]) - 1 /\ Len(events[d]) \in Nat
            /\ \A j \in 1 .. Len(Tail(events[d])) : Tail(events[d])[j] = events[d][j + 1]
        BY <1>1, HeadTailProperties, LenProperties
      <4>2. i - 1 \in 1 .. Len(Tail(events[d])) /\ (i - 1) + 1 = i
        BY <2>3, <3>2, <4>1
      <4>3. Tail(events[d])[i - 1] = l
        BY <2>3, <4>1, <4>2
      <4>. QED
        BY <1>1, <2>3, <4>2, <4>3 DEF Told
    <3>. QED
      BY <3>1, <3>2
  <2>. QED
    BY <2>2, <2>3 DEF Told
<1>. QED
  BY <1>2, <1>3

\* What was told stays told, unless the level of the device is recorded.
LEMMA ToldStays ==
  ASSUME TypeInv, [Next]_vars, NEW d \in Devices, NEW l \in Sensitivities, Told(d, l), Reached(d)',
         \A s \in Sessions : Record(s) => device[s] # d
  PROVE  Told(d, l)'
<1>1. ASSUME sens'[d] = sens[d], mismatch'[d] = mismatch[d], d \in DQs => events'[d] = events[d]
      PROVE  Told(d, l)'
  BY <1>1 DEF Told
<1>2. ASSUME UNCHANGED server, NEW b \in Boxes, NEW n \in Levels, Stream(b, n) \/ BoxTakes(b, n)
      PROVE  Told(d, l)'
  BY <1>2, FramesStay DEF Told, server
<1>3. ASSUME NEW b \in Boxes, NEW n \in Levels, External(b, n) PROVE Told(d, l)'
  BY <1>2, <1>3 DEF External
<1>4. ASSUME NEW e \in Devices, Handle(e) PROVE Told(d, l)'
  <2>1. CASE e = d
    BY <1>4, <2>1, HandleTells
  <2>2. CASE e # d
    BY <1>1, <1>4, <2>2 DEF Handle, server, TypeInv, TypeOK
  <2>. QED
    BY <2>1, <2>2
<1>5. ASSUME NEW e \in Devices, Announce(e) \/ Reconnect(e) PROVE Told(d, l)'
  BY <1>1, <1>5 DEF Announce, Reconnect, hardware, server
<1>6. ASSUME NEW e \in Devices, Disconnect(e) PROVE Told(d, l)'
  <2>1. d \notin DQs
    BY <1>6, NotUsedUp DEF Disconnect, Reached
  <2>. QED
    BY <1>1, <1>6, <2>1 DEF Disconnect, server
<1>7. ASSUME NEW s \in Sessions, Command(s) \/ Abort(s) PROVE Told(d, l)'
  <2>1. CASE Record(s)
    <3>1. device[s] # d
      BY <2>1
    <3>. QED
      BY <1>1, <2>1, <3>1 DEF Record, hardware, TypeInv, TypeOK
  <2>2. CASE ~Record(s)
    <3>1. UNCHANGED server
      BY <1>7, <2>2 DEF Command, Post, PostFails, CaputCorrA, CaputDQcal, Tell, Restore, Push, Abort
    <3>2. CASE UNCHANGED hardware
      BY <1>1, <3>1, <3>2 DEF hardware, server
    <3>3. ASSUME NEW b \in Boxes, NEW n \in Sensitivities, BoxTakes(b, n) PROVE Told(d, l)'
      BY <1>2, <3>1, <3>3, LevelsAssumption DEF LevelsAssumption
    <3>. QED
      BY <1>7, <3>2, <3>3, CommandMoves
  <2>. QED
    BY <2>1, <2>2
<1>8. ASSUME NEW s \in Sessions,
             \/ \E e \in Commanded, n \in Sensitivities : SetSensitivity(s, e, n)
             \/ ClearCalibration(s)
             \/ \E e \in Devices : RestoreDefaults(s, e)
      PROVE  Told(d, l)'
  <2>1. UNCHANGED <<hardware, server>>
    BY <1>8 DEF SetSensitivity, ClearCalibration, RestoreDefaults
  <2>. QED
    BY <1>1, <2>1 DEF hardware, server
<1>9. CASE UNCHANGED vars
  BY <1>1, <1>9 DEF vars, hardware, server
<1>. QED
  BY <1>3, <1>4, <1>5, <1>6, <1>7, <1>8, <1>9 DEF Next, Listener

LEMMA FactorInit == Init => FactorInv
<1> SUFFICES ASSUME Init
             PROVE  Solo /\ \A d \in Devices : Accounted(d)
  BY DEF FactorInv
<1>1. \A s \in Sessions : at[s] = "idle"
  BY DEF Init
<1>2. \A d \in Devices : cal[d] = sens[d]
  BY DEF Init
<1>. QED
  BY <1>1, <1>2 DEF Solo, Busy, Accounted, Told, Owes

\* A step that does not record a level of d and does not come to owe its factor.
LEMMA AccountedStays ==
  ASSUME TypeInv, [Next]_vars, NEW d \in Devices, Accounted(d), Reached(d)',
         \A s \in Sessions : Record(s) => device[s] # d,
         \A s \in Sessions : Owes(s, d)' => Owes(s, d) /\ level'[s] = level[s],
         \/ cal'[d] = cal[d] /\ \A s \in Sessions : Writes(s, d) => Writes(s, d)'
         \/ \E s \in Sessions : Owes(s, d) /\ cal'[d] = level[s]
  PROVE  Accounted(d)'
<1>1. \A s \in Sessions : Owes(s, d) => level[s] \in Sensitivities
  BY DEF Owes, TypeInv, Arguments
<1>2. ASSUME NEW l \in Sensitivities, Told(d, l)
      PROVE  Told(d, l)'
  BY <1>2, ToldStays
<1>3. ASSUME NEW s \in Sessions, Owes(s, d)'
      PROVE  Told(d, level[s])'
  <2>1. PICK l \in Sensitivities : l = level[s]
    BY <1>1, <1>3
  <2>2. Told(d, l)'
    BY <1>2, <1>3, <2>1 DEF Accounted
  <2>3. level'[s] = l
    BY <1>3, <2>1
  <2>. QED
    BY <2>2, <2>3 DEF Told
<1>4. ASSUME NEW s \in Sessions, Owes(s, d), cal'[d] = level[s]
      PROVE  Told(d, cal[d])'
  <2>1. PICK l \in Sensitivities : l = level[s]
    BY <1>1, <1>4
  <2>2. Told(d, l)'
    BY <1>2, <1>4, <2>1 DEF Accounted
  <2>3. cal'[d] = l
    BY <1>4, <2>1
  <2>. QED
    BY <2>2, <2>3 DEF Told
<1>5. ASSUME cal'[d] = cal[d], Told(d, cal[d])
      PROVE  Told(d, cal[d])'
  <2>1. PICK l \in Sensitivities : l = cal[d]
    BY DEF TypeInv, TypeOK
  <2>2. Told(d, l)'
    BY <1>2, <1>5, <2>1
  <2>3. cal'[d] = l
    BY <1>5, <2>1
  <2>. QED
    BY <2>2, <2>3 DEF Told
<1>. QED
  BY <1>3, <1>4, <1>5 DEF Accounted

\* A command for a WCM puts the level on its way to the :DQ device that follows its box.
LEMMA PostTells ==
  ASSUME TypeInv, NEW s \in Sessions, Post(s), BoxTakes(BoxOf[device[s]], level[s]),
         NEW d \in Devices, CompanionOf[device[s]] = d,
         Follows(d), UNCHANGED sens
  PROVE  Told(d, level[s])'
<1> DEFINE l == level[s]
           b == BoxOf[device[s]]
<1>1. /\ device[s] \in Devices /\ l \in Sensitivities /\ d \in DQs /\ level'[s] = l
      /\ BoxTakes(b, l)
  BY DevicesAssumption DEF DevicesAssumption, DQs, Post, command, TypeInv, Arguments
<1>2. BoxOf[d] = b /\ events[d] \in Seq(Levels)
  BY <1>1, DevicesAssumption DEF DevicesAssumption, TypeInv, TypeOK
<1>3. l \in Levels
  BY <1>1, LevelsAssumption DEF LevelsAssumption
<1> HIDE DEF l, b
<1>4. CASE l = box[b] /\ events[d] = <<>>
  <2>1. sens'[d] = l
    BY <1>1, <1>2, <1>4 DEF Follows, Tracks
  <2>. QED
    BY <1>1, <2>1 DEF Told
<1>5. CASE l = box[b] /\ events[d] # <<>>
  <2>1. events'[d] = events[d] /\ events[d][Len(events[d])] = l
    BY <1>1, <1>2, <1>5 DEF Follows, Tracks, BoxTakes
  <2>2. Len(events[d]) \in 1 .. Len(events[d])
    BY <1>2, <1>5, LenProperties, EmptySeq
  <2>. QED
    BY <1>1, <2>1, <2>2 DEF Told
<1>6. CASE l # box[b]
  <2>1. events'[d] = Append(events[d], l)
    BY <1>1, <1>2, <1>6 DEF Follows, Tracks, BoxTakes, Stream
  <2>2. Len(events'[d]) \in 1 .. Len(events'[d]) /\ events'[d][Len(events'[d])] = l
    BY <1>2, <1>3, <2>1, AppendProperties, LenProperties
  <2>. QED
    BY <1>1, <2>2 DEF Told
<1>. QED
  BY <1>4, <1>5, <1>6

\* A step of the command under way.
LEMMA CommandAccounts ==
  ASSUME TypeInv, FollowInv, [Next]_vars, Solo, used'["faults"] = 0, NEW s \in Sessions, Command(s),
         NEW d \in Devices, Accounted(d), Reached(d), Reached(d)'
  PROVE  Accounted(d)'
<1>0. \A x \in Sessions \ {s} : at[x] = "idle"
  <2>1. Busy(s)
    BY DEF Command, Post, PostFails, Record, CaputCorrA, CaputDQcal, Tell, Restore, Push, Busy
  <2>. QED
    BY <2>1 DEF Solo, Busy
<1>1. UNCHANGED <<device, level>>
  BY DEF Command, Post, PostFails, Record, CaputCorrA, CaputDQcal, Tell, Restore, Push, command
<1>2. PICK label : at' = [at EXCEPT ![s] = label]
  BY DEF Command, Post, PostFails, Record, CaputCorrA, CaputDQcal, Tell, Restore, Push, Goto
<1>3. at'[s] = label /\ \A x \in Sessions \ {s} : at'[x] = "idle"
  BY <1>0, <1>2 DEF TypeInv, TypeOK
<1>4. \A x \in Sessions : x # s => ~Owes(x, d)' /\ ~Record(x)
  BY <1>0, <1>3 DEF Owes, Record
<1>5. \A e \in Devices : \A l : Caput(e, l) => cal' = [cal EXCEPT ![e] = l]
  BY NotUsedUp DEF Caput, Fault
<1>6. CASE Post(s)
  <2>1. /\ at[s] = "post" /\ label = "record" /\ cal' = cal /\ sens' = sens
    BY <1>3, <1>6 DEF Post, Goto, server, TypeInv, TypeOK
  <2>2. CASE CompanionOf[device[s]] = d
    <3>1. Follows(d)
      BY <1>6, <2>2, DevicesAssumption DEF DevicesAssumption, DQs, Reached, FollowInv, Post, TypeInv,
         Arguments
    <3>0. BoxTakes(BoxOf[device[s]], level[s])
      <4>1. d \in DQs
        BY <1>6, <2>2, DevicesAssumption DEF DevicesAssumption, DQs, Post, TypeInv, Arguments
      <4>2. device[s] \notin unheard'
        BY <2>2, <4>1 DEF Reached, Misled
      <4>. QED
        BY <1>6, <4>2 DEF Post
    <3>2. Told(d, level[s])'
      BY <1>6, <2>1, <2>2, <3>0, <3>1, PostTells
    <3>3. Told(d, cal[d])
      BY <1>0, <2>1 DEF Accounted, Writes
    <3>4. PICK c \in Sensitivities : c = cal[d]
      BY DEF TypeInv, TypeOK
    <3>5. Told(d, c)'
      BY <1>4, <2>1, <3>3, <3>4, ToldStays DEF Record
    <3>6. Told(d, cal[d])'
      BY <2>1, <3>4, <3>5 DEF Told
    <3>. QED
      BY <1>4, <3>2, <3>6 DEF Accounted
  <2>3. CASE CompanionOf[device[s]] # d
    <3>1. ~Owes(s, d)'
      BY <1>1, <1>3, <2>1, <2>3 DEF Owes
    <3>. QED
      BY <1>0, <1>4, <2>1, <3>1, AccountedStays DEF Record, Writes
  <2>. QED
    BY <2>2, <2>3
<1>7. CASE Record(s)
  <2>1. at[s] = "record" /\ cal' = cal /\ label \in {"tell", "corrA"}
    BY <1>3, <1>7 DEF Record, Goto, TypeInv, TypeOK
  <2>2. CASE device[s] = d
    <3>1. d \notin DQs
      BY <1>7, <2>2 DEF Record, Reached, TypeInv, Arguments
    <3>2. at'[s] = "corrA" /\ sens'[d] = level[s]
      BY <1>7, <2>2, <3>1 DEF Record, Goto, TypeInv, TypeOK
    <3>. QED
      BY <1>1, <1>4, <2>2, <3>2 DEF Accounted, Told, Writes
  <2>3. CASE device[s] # d
    <3>1. Owes(s, d)' => Owes(s, d)
      BY <1>1, <1>3, <2>1, <2>3 DEF Owes
    <3>. QED
      BY <1>0, <1>1, <1>4, <2>1, <2>3, <3>1, AccountedStays DEF Writes
  <2>. QED
    BY <2>2, <2>3
<1>8. CASE CaputCorrA(s)
  <2>1. /\ at[s] = "corrA" /\ label \in {"tell", "DQcal"} /\ device[s] \in Devices
        /\ cal' = [cal EXCEPT ![device[s]] = level[s]]
    BY <1>3, <1>5, <1>8, DevicesAssumption
       DEF DevicesAssumption, CaputCorrA, Goto, TypeInv, TypeOK, Arguments
  <2>2. Owes(s, d)' => Owes(s, d)
    BY <1>1, <1>3, <2>1 DEF Owes
  <2>3. CASE device[s] = d
    <3>1. Owes(s, d) /\ cal'[d] = level[s]
      BY <2>1, <2>3 DEF Owes, TypeInv, TypeOK
    <3>. QED
      BY <1>1, <1>4, <2>1, <2>2, <3>1, AccountedStays DEF Record
  <2>4. CASE device[s] # d
    <3>1. cal'[d] = cal[d]
      BY <2>1, <2>4 DEF TypeInv, TypeOK
    <3>2. CompanionOf[device[s]] = d => at'[s] = "DQcal"
      BY <1>8, DevicesAssumption DEF DevicesAssumption, CaputCorrA, Goto, TypeInv, TypeOK
    <3>3. \A x \in Sessions : Writes(x, d) => Writes(x, d)'
      BY <1>0, <1>1, <2>4, <3>2 DEF Writes
    <3>. QED
      BY <1>1, <1>4, <2>1, <2>2, <3>1, <3>3, AccountedStays DEF Record
  <2>. QED
    BY <2>3, <2>4
<1>9. CASE CaputDQcal(s)
  <2>1. /\ at[s] = "DQcal" /\ label = "tell" /\ CompanionOf[device[s]] \in Devices
        /\ cal' = [cal EXCEPT ![CompanionOf[device[s]]] = level[s]]
    BY <1>3, <1>5, <1>9 DEF CaputDQcal, Goto, TypeInv, TypeOK, Arguments
  <2>2. ~Owes(s, d)'
    BY <1>3, <2>1 DEF Owes
  <2>3. CASE CompanionOf[device[s]] = d
    <3>1. Owes(s, d) /\ cal'[d] = level[s]
      BY <2>1, <2>3 DEF Owes, TypeInv, TypeOK
    <3>. QED
      BY <1>4, <2>1, <2>2, <3>1, AccountedStays DEF Record
  <2>4. CASE CompanionOf[device[s]] # d
    <3>1. cal'[d] = cal[d]
      BY <2>1, <2>4 DEF TypeInv, TypeOK
    <3>. QED
      BY <1>0, <1>4, <2>1, <2>2, <2>4, <3>1, AccountedStays DEF Record, Writes
  <2>. QED
    BY <2>3, <2>4
<1>10. CASE Restore(s)
  <2>1. /\ at[s] = "restore" /\ label = "idle" /\ device[s] \in Devices
        /\ cal' = [cal EXCEPT ![device[s]] = level[s]]
    BY <1>3, <1>5, <1>10 DEF Restore, Goto, TypeInv, TypeOK, Arguments
  <2>2. ~Owes(s, d)'
    BY <1>3, <2>1 DEF Owes
  <2>3. CASE device[s] = d
    <3>1. Owes(s, d) /\ cal'[d] = level[s]
      BY <2>1, <2>3 DEF Owes, TypeInv, TypeOK
    <3>. QED
      BY <1>4, <2>1, <2>2, <3>1, AccountedStays DEF Record
  <2>4. CASE device[s] # d
    <3>1. cal'[d] = cal[d]
      BY <2>1, <2>4 DEF TypeInv, TypeOK
    <3>. QED
      BY <1>0, <1>4, <2>1, <2>2, <2>4, <3>1, AccountedStays DEF Record, Writes
  <2>. QED
    BY <2>3, <2>4
<1>11. CASE PostFails(s) \/ Tell(s) \/ \E e \in Devices : Push(s, e)
  <2>1. at[s] \in {"post", "tell", "push"} /\ label \in {"idle", "push"} /\ cal' = cal
    BY <1>3, <1>11 DEF PostFails, Tell, Push, Goto, TypeInv, TypeOK
  <2>2. ~Owes(s, d)'
    BY <1>3, <2>1 DEF Owes
  <2>. QED
    BY <1>0, <1>4, <2>1, <2>2, AccountedStays DEF Record, Writes
<1>. QED
  BY <1>6, <1>7, <1>8, <1>9, <1>10, <1>11 DEF Command

\* A :DQ device that was misled no longer is once a command for its WCM records the level
\* of the box: the factor of that level is about to be written.
LEMMA ReachedAgain ==
  ASSUME TypeInv, FollowInv, Solo, [Next]_vars, NEW d \in Devices, ~Reached(d), Reached(d)'
  PROVE  Accounted(d)'
<1>1. used'["drops"] = 0 => used["drops"] = 0
  BY UsedStays
<1>2. /\ d \in DQs \ Commanded /\ used["drops"] = 0
      /\ \E e \in unheard : e \notin unheard' /\ d \in {e, CompanionOf[e]}
  BY <1>1 DEF Reached, Misled
<1>3. PICK s \in Sessions : /\ Record(s) /\ d \in {device[s], CompanionOf[device[s]]}
                            /\ level[s] = box[BoxOf[device[s]]]
  BY <1>2, HeardAgain
<1>4. /\ at[s] = "record" /\ device[s] \in Commanded /\ device[s] \in Devices
      /\ level[s] \in Sensitivities
  BY <1>3, DevicesAssumption DEF DevicesAssumption, Record, TypeInv, Arguments
<1>5. device[s] # d /\ CompanionOf[device[s]] = d
  BY <1>2, <1>3, <1>4
<1>6. device[s] \notin DQs /\ BoxOf[device[s]] = BoxOf[d]
  BY <1>4, <1>5, DevicesAssumption DEF DevicesAssumption, DQs
<1>7. /\ UNCHANGED <<device, level, events>> /\ sens'[d] = sens[d] /\ at'[s] = "corrA"
      /\ \A x \in Sessions \ {s} : at'[x] = at[x]
  BY <1>3, <1>5, <1>6 DEF Record, Goto, command, hardware, TypeInv, TypeOK
<1>8. \A x \in Sessions \ {s} : at[x] = "idle"
  BY <1>4 DEF Solo, Busy
<1>9. Follows(d)
  BY <1>2 DEF FollowInv
<1>10. Told(d, level[s])'
  <2>1. CASE events[d] = <<>>
    BY <1>3, <1>4, <1>6, <1>7, <1>9, <2>1 DEF Told, Follows
  <2>2. CASE events[d] # <<>>
    <3>1. events[d][Len(events[d])] = level[s] /\ events[d] \in Seq(Levels)
      BY <1>3, <1>6, <1>9, <2>2 DEF Follows, Tracks, TypeInv, TypeOK
    <3>2. Len(events[d]) \in 1 .. Len(events[d])
      BY <2>2, <3>1, LenProperties, EmptySeq
    <3>. QED
      BY <1>2, <1>7, <3>1, <3>2 DEF Told
  <2>. QED
    BY <2>1, <2>2
<1>11. Writes(s, d)'
  BY <1>5, <1>7 DEF Writes
<1>12. \A x \in Sessions : Owes(x, d)' => x = s
  BY <1>7, <1>8 DEF Owes
<1>. QED
  BY <1>10, <1>11, <1>12 DEF Accounted

LEMMA FactorNext == TypeInv /\ FollowInv /\ FactorInv /\ [Next]_vars => FactorInv'
<1> SUFFICES ASSUME TypeInv, FollowInv, FactorInv, [Next]_vars,
                    \A k \in {"overlaps", "faults", "aborts"} : used'[k] = 0
             PROVE  Solo' /\ \A d \in Devices : Reached(d)' => Accounted(d)'
  BY DEF FactorInv
<1>0. \A k \in {"overlaps", "faults", "aborts"} : used[k] = 0
  BY UsedStays
<1>1. Solo /\ \A d \in Devices : Reached(d) => Accounted(d)
  BY <1>0 DEF FactorInv
<1>2. Solo'
  BY <1>0, <1>1, SoloStays
<1> SUFFICES ASSUME NEW d \in Devices, Reached(d)'
             PROVE  Accounted(d)'
  BY <1>2
<1>00. CASE ~Reached(d)
  BY <1>0, <1>1, <1>00, ReachedAgain
<1> SUFFICES ASSUME Reached(d)
             PROVE  Accounted(d)'
  BY <1>00
<1>3. Reached(d) /\ Accounted(d)
  BY <1>1
<1>4. CASE UNCHANGED <<cal, at, device, level>>
  <2>1. \A s \in Sessions : ~Record(s)
    BY <1>4 DEF Record, Goto, TypeInv, TypeOK
  <2>2. \A s \in Sessions : (Owes(s, d)' => Owes(s, d)) /\ (Writes(s, d) => Writes(s, d)')
    BY <1>4 DEF Owes, Writes
  <2>. QED
    BY <1>3, <1>4, <2>1, <2>2, AccountedStays
<1>5. ASSUME NEW s \in Sessions, Start(s), NEW label \in {"post", "push", "restore"},
             at' = [at EXCEPT ![s] = label], UNCHANGED <<server, cal>>,
             \A x \in Sessions \ {s} : device'[x] = device[x] /\ level'[x] = level[x],
             label = "restore" => device'[s] \in Devices /\ level'[s] = sens[device'[s]]
      PROVE  Accounted(d)'
  <2>1. at[s] = "idle" /\ at'[s] = label /\ \A x \in Sessions \ {s} : at'[x] = at[x]
    BY <1>5 DEF Start, Busy, TypeInv, TypeOK
  <2>2. \A x \in Sessions : ~Record(x)
    BY <2>1 DEF Record, Goto, TypeInv, TypeOK
  <2>3. \A x \in Sessions \ {s} : Owes(x, d)' => Owes(x, d) /\ level'[x] = level[x]
    BY <1>5, <2>1 DEF Owes
  <2>4. ASSUME NEW l \in Sensitivities, Told(d, l)
        PROVE  Told(d, l)'
    BY <2>2, <2>4, ToldStays
  <2>5. Told(d, cal[d])' \/ \E x \in Sessions : Writes(x, d)'
    <3>1. CASE Told(d, cal[d])
      <4>1. PICK c \in Sensitivities : c = cal[d]
        BY DEF TypeInv, TypeOK
      <4>2. Told(d, c)'
        BY <2>4, <3>1, <4>1
      <4>3. cal'[d] = c
        BY <1>5, <4>1
      <4>. QED
        BY <4>2, <4>3 DEF Told
    <3>2. CASE \E x \in Sessions : Writes(x, d)
      <4>1. PICK x \in Sessions \ {s} : Writes(x, d)
        BY <2>1, <3>2 DEF Writes
      <4>2. Writes(x, d)'
        BY <1>5, <2>1, <4>1 DEF Writes
      <4>. QED
        BY <4>2
    <3>. QED
      BY <1>3, <3>1, <3>2 DEF Accounted
  <2>6. ASSUME NEW x \in Sessions, Owes(x, d)'
        PROVE  Told(d, level[x])'
    <3>1. CASE x = s
      <4>1. label = "restore" /\ device'[s] = d
        BY <1>5, <2>1, <2>6, <3>1 DEF Owes
      <4>2. sens'[d] = level'[s]
        BY <1>5, <4>1 DEF server
      <4>. QED
        BY <3>1, <4>2 DEF Told
    <3>2. CASE x # s
      <4>1. Owes(x, d) /\ level'[x] = level[x]
        BY <2>3, <2>6, <3>2
      <4>2. PICK l \in Sensitivities : l = level[x]
        BY <4>1 DEF Owes, TypeInv, Arguments
      <4>3. Told(d, l)'
        BY <1>3, <2>4, <4>1, <4>2 DEF Accounted
      <4>4. level'[x] = l
        BY <4>1, <4>2
      <4>. QED
        BY <4>3, <4>4 DEF Told
    <3>. QED
      BY <3>1, <3>2
  <2>. QED
    BY <2>5, <2>6 DEF Accounted
<1>6. ASSUME NEW s \in Sessions, Abort(s)
      PROVE  FALSE
  BY <1>6, NotUsedUp DEF Abort
<1>7. ASSUME NEW s \in Sessions,
             \/ \E e \in Commanded, l \in Sensitivities : SetSensitivity(s, e, l)
             \/ ClearCalibration(s)
             \/ \E e \in Devices : RestoreDefaults(s, e)
      PROVE  Accounted(d)'
  <2>1. /\ Start(s) /\ UNCHANGED <<server, cal>>
        /\ \E label \in {"post", "push", "restore"} :
             /\ at' = [at EXCEPT ![s] = label]
             /\ label = "restore" => \E e \in Devices : RestoreDefaults(s, e)
    BY <1>7 DEF SetSensitivity, ClearCalibration, RestoreDefaults, Goto
  <2>2. \A x \in Sessions \ {s} : device'[x] = device[x] /\ level'[x] = level[x]
    BY <1>7 DEF SetSensitivity, ClearCalibration, RestoreDefaults, TypeInv, TypeOK
  <2>3. (\E e \in Devices : RestoreDefaults(s, e))
          => device'[s] \in Devices /\ level'[s] = sens[device'[s]]
    BY DEF RestoreDefaults, TypeInv, TypeOK
  <2>. QED
    BY <1>5, <2>1, <2>2, <2>3
<1>8. CASE \E s \in Sessions : Command(s)
  BY <1>0, <1>1, <1>3, <1>8, CommandAccounts
<1>9. CASE \E b \in Boxes, l \in Levels : External(b, l)
  BY <1>4, <1>9 DEF External, command
<1>10. CASE \E e \in Devices : Listener(e) \/ Disconnect(e) \/ Reconnect(e)
  BY <1>4, <1>10 DEF Listener, Handle, Announce, Disconnect, Reconnect, command
<1>11. CASE UNCHANGED vars
  BY <1>4, <1>11 DEF vars, command
<1>. QED
  BY <1>6, <1>7, <1>8, <1>9, <1>10, <1>11 DEF Next

\* Whatever the front panels do in the middle of a command, a server at rest that holds
\* a level holds the one whose factor was written last, or flags the device; but for a
\* :DQ device whose WCM's box did not take what was recorded for it.
THEOREM FactorsMatch == Spec => []StateMatchesFactors
<1>1. TypeInv /\ FactorInv => StateMatchesFactors
  <2> SUFFICES ASSUME TypeInv, FactorInv, AtRest, NEW d \in Calibratable,
                      \A k \in {"overlaps", "faults", "aborts"} : used[k] = 0,
                      d \notin DQs \/ (used["drops"] = 0 /\ ~Misled(d))
               PROVE  cal[d] = sens[d] \/ mismatch[d]
    BY DEF StateMatchesFactors, Without
  <2>1. d \in Devices /\ Reached(d)
    BY DEF Calibratable, Reached
  <2>2. Accounted(d)
    BY <2>1 DEF FactorInv
  <2>3. \A s \in Sessions : at[s] = "idle"
    BY DEF AtRest, Busy
  <2>4. Told(d, cal[d])
    BY <2>2, <2>3 DEF Accounted, Writes
  <2>5. events[d] = <<>>
    BY <2>1 DEF AtRest, Drained
  <2>. QED
    BY <2>4, <2>5 DEF Told
<1>2. Init => FollowInv
  BY FollowInit DEF FollowInv
<1>. QED
  BY <1>1, <1>2, TypeInit, TypeNext, FollowNext, FactorInit, FactorNext, PTL DEF Spec

-----------------------------------------------------------------------------
(* CalibratedOrFlagged: the server knows the level of a box of its own, or  *)
(* has flagged the device                                                   *)

LEMMA OwnerIsNoDQ ==
  ASSUME NEW d \in Devices, OwnsItsBox(d)
  PROVE  d \notin DQs
<1> SUFFICES ASSUME NEW w \in Devices, d = CompanionOf[w]
             PROVE  FALSE
  BY DEF DQs
<1>1. BoxOf[d] = BoxOf[w] /\ CompanionOf[d] = NoDevice /\ d # NoDevice
  BY DevicesAssumption DEF DevicesAssumption
<1>2. w # d /\ w \in DQs
  BY <1>1 DEF OwnsItsBox
<1>3. PICK v \in Devices : w = CompanionOf[v] /\ w # NoDevice
  BY <1>2 DEF DQs
<1>4. CompanionOf[w] = NoDevice
  BY <1>3, DevicesAssumption DEF DevicesAssumption
<1>. QED
  BY <1>1, <1>4

\* The server knows the level of d's box, or is about to record it, or was told Ok for
\* what the box did not take.
Known(d) ==
  \/ mismatch[d] \/ sens[d] = box[BoxOf[d]] \/ d \in unheard
  \/ \E s \in Sessions : at[s] = "record" /\ device[s] = d

\* What a command holds of d is the level of its box, and what it is to send is what the
\* server has.
Meant(d) ==
  \A s \in Sessions :
    /\ at[s] = "record" /\ device[s] = d => level[s] = box[BoxOf[d]] \/ d \in unheard
    /\ at[s] = "push" => mismatch[d] \/ sens[d] = levels[s][d]

\* The :DQ devices are not pushed.
Sends == \A s \in Sessions : at[s] = "push" => unsent[s] \subseteq Devices \ DQs

OwnerInv ==
  (\A k \in {"overlaps", "external", "faults", "aborts"} : used[k] = 0) =>
    Sends /\ \A d \in Devices : OwnsItsBox(d) => Known(d) /\ Meant(d)

LEMMA OwnInit == Init => OwnerInv
BY DEF Init, OwnerInv, Sends, Known, Meant

\* A step of the command under way.
LEMMA CommandKeepsOwn ==
  ASSUME TypeInv, Solo, Sends, used'["faults"] = 0, NEW s \in Sessions, Command(s)
  PROVE  /\ Sends'
         /\ \A d \in Devices : OwnsItsBox(d) /\ Known(d) /\ Meant(d) => Known(d)' /\ Meant(d)'
<1>0. \A x \in Sessions \ {s} : at[x] = "idle"
  <2>1. Busy(s)
    BY DEF Command, Post, PostFails, Record, CaputCorrA, CaputDQcal, Tell, Restore, Push, Busy
  <2>. QED
    BY <2>1 DEF Solo, Busy
<1>1. UNCHANGED <<device, level, levels>>
  BY DEF Command, Post, PostFails, Record, CaputCorrA, CaputDQcal, Tell, Restore, Push, command
<1>2. PICK label : at' = [at EXCEPT ![s] = label]
  BY DEF Command, Post, PostFails, Record, CaputCorrA, CaputDQcal, Tell, Restore, Push, Goto
<1>3. at'[s] = label /\ \A x \in Sessions \ {s} : at'[x] = "idle"
  BY <1>0, <1>2 DEF TypeInv, TypeOK
<1>4. ~Fault
  BY NotUsedUp DEF Fault
<1>5. Sends'
  <2>1. CASE \E e \in Devices : Push(s, e)
    BY <1>3, <2>1 DEF Push, Sends, TypeInv, TypeOK
  <2>2. CASE ~\E e \in Devices : Push(s, e)
    BY <1>2, <1>3, <2>2
       DEF Command, Post, PostFails, Record, CaputCorrA, CaputDQcal, Tell, Restore, Goto, Sends,
           TypeInv, TypeOK
  <2>. QED
    BY <2>1, <2>2
<1> SUFFICES ASSUME NEW d \in Devices, OwnsItsBox(d), Known(d), Meant(d)
             PROVE  Known(d)' /\ Meant(d)'
  BY <1>5
<1>6. BoxOf \in [Devices -> Boxes]
  BY DevicesAssumption DEF DevicesAssumption
<1>7. CASE Post(s)
  <2>1. /\ at'[s] = "record" /\ UNCHANGED server /\ device[s] \in Commanded
        /\ device[s] \in Devices /\ unheard \subseteq unheard'
        /\ \/ box' = [box EXCEPT ![BoxOf[device[s]]] = level[s]]
           \/ box' = box /\ device[s] \in unheard'
    BY <1>7, DevicesAssumption DEF DevicesAssumption, Post, BoxTakes, Goto, hardware,
           TypeInv, TypeOK, Arguments
  <2>2. CASE device[s] = d
    <3>1. box'[BoxOf[d]] = level[s] \/ d \in unheard'
      BY <1>6, <2>1, <2>2 DEF TypeInv, TypeOK
    <3>. QED
      BY <1>1, <1>3, <2>1, <2>2, <3>1 DEF Known, Meant
  <2>3. CASE device[s] # d
    <3>1. BoxOf[device[s]] # BoxOf[d]
      BY <2>1, <2>3 DEF OwnsItsBox
    <3>2. box'[BoxOf[d]] = box[BoxOf[d]]
      BY <1>6, <2>1, <3>1 DEF TypeInv, TypeOK
    <3>3. \A x \in Sessions : at[x] # "record" \/ device[x] # d
      BY <1>0, <2>3
    <3>. QED
      BY <1>1, <1>3, <2>1, <2>3, <3>2, <3>3 DEF Known, Meant, server
  <2>. QED
    BY <2>2, <2>3
<1>8. CASE Record(s)
  <2>1. /\ at[s] = "record" /\ at'[s] \in {"tell", "corrA"} /\ UNCHANGED box
        /\ sens' = [sens EXCEPT ![device[s]] = level[s]]
        /\ mismatch' = [mismatch EXCEPT ![device[s]] = FALSE]
    BY <1>8 DEF Record, Goto, hardware, TypeInv, TypeOK
  <2>2. CASE device[s] = d
    <3>1. sens'[d] = level[s] /\ (level[s] = box'[BoxOf[d]] \/ d \in unheard')
      BY <1>8, <2>1, <2>2 DEF Meant, Record, TypeInv, TypeOK
    <3>. QED
      BY <1>3, <2>1, <3>1 DEF Known, Meant
  <2>3. CASE device[s] # d
    <3>1. sens'[d] = sens[d] /\ mismatch'[d] = mismatch[d] /\ (d \in unheard <=> d \in unheard')
      BY <1>8, <2>1, <2>3 DEF Record, TypeInv, TypeOK
    <3>2. \A x \in Sessions : at[x] # "record" \/ device[x] # d
      BY <1>0, <2>3
    <3>. QED
      BY <1>3, <2>1, <3>1, <3>2 DEF Known, Meant
  <2>. QED
    BY <2>2, <2>3
<1>9. ASSUME NEW e \in Devices, Push(s, e)
      PROVE  Known(d)' /\ Meant(d)'
  <2>1. /\ at[s] = "push" /\ at'[s] \in {"idle", "push"} /\ UNCHANGED server /\ e \notin DQs
        /\ box' = [box EXCEPT ![BoxOf[e]] = levels[s][e]] \/ box' = box
        /\ UNCHANGED unheard
    BY <1>4, <1>9 DEF Push, BoxTakes, Goto, Sends, hardware, TypeInv, TypeOK
  <2>2. \A x \in Sessions : at[x] # "record" /\ at'[x] # "record"
    BY <1>0, <1>3, <2>1
  <2>3. Meant(d)'
    BY <1>1, <1>3, <2>1, <2>2 DEF Meant, server
  <2>4. CASE e = d
    <3>1. box'[BoxOf[d]] = levels[s][d] \/ box' = box
      BY <1>6, <2>1, <2>4 DEF TypeInv, TypeOK
    <3>2. mismatch[d] \/ sens[d] = levels[s][d]
      BY <2>1 DEF Meant
    <3>. QED
      BY <2>1, <2>2, <2>3, <3>1, <3>2 DEF Known, server
  <2>5. CASE e # d
    <3>1. BoxOf[e] # BoxOf[d]
      BY <2>1, <2>5 DEF OwnsItsBox
    <3>2. box'[BoxOf[d]] = box[BoxOf[d]]
      BY <1>6, <2>1, <3>1 DEF TypeInv, TypeOK
    <3>. QED
      BY <2>1, <2>2, <2>3, <3>2 DEF Known, server
  <2>. QED
    BY <2>4, <2>5
<1>10. CASE PostFails(s) \/ CaputCorrA(s) \/ CaputDQcal(s) \/ Tell(s) \/ Restore(s)
  <2>1. /\ at[s] \notin {"record", "push"} /\ at'[s] \notin {"record", "push"}
        /\ UNCHANGED <<box, server, unheard>>
    BY <1>3, <1>4, <1>10
       DEF PostFails, CaputCorrA, CaputDQcal, Tell, Restore, Goto, hardware, TypeInv, TypeOK
  <2>2. \A x \in Sessions : at[x] \notin {"record", "push"} /\ at'[x] \notin {"record", "push"}
    BY <1>0, <1>3, <2>1
  <2>. QED
    BY <2>1, <2>2 DEF Known, Meant, server
<1>. QED
  BY <1>7, <1>8, <1>9, <1>10 DEF Command

LEMMA OwnNext == TypeInv /\ FactorInv /\ OwnerInv /\ [Next]_vars => OwnerInv'
<1> SUFFICES ASSUME TypeInv, FactorInv, OwnerInv, [Next]_vars,
                    \A k \in {"overlaps", "external", "faults", "aborts"} : used'[k] = 0
             PROVE  Sends' /\ \A d \in Devices : OwnsItsBox(d) => Known(d)' /\ Meant(d)'
  BY DEF OwnerInv, OwnsItsBox
<1>0. \A k \in {"overlaps", "external", "faults", "aborts"} : used[k] = 0
  BY UsedStays
<1>1. Solo /\ Sends /\ \A d \in Devices : OwnsItsBox(d) => Known(d) /\ Meant(d)
  BY <1>0 DEF FactorInv, OwnerInv
<1>2. ASSUME NEW s \in Sessions, Command(s)
      PROVE  Sends' /\ \A d \in Devices : OwnsItsBox(d) => Known(d)' /\ Meant(d)'
  BY <1>0, <1>1, <1>2, CommandKeepsOwn
<1>3. ASSUME NEW e \in Devices, Handle(e), NEW d \in Devices, OwnsItsBox(d)
      PROVE  Known(d)' /\ Meant(d)'
  <2>1. UNCHANGED <<box, at, device, level, levels, unheard>>
    BY <1>3 DEF Handle, command
  <2>2. mismatch'[d] \/ (mismatch'[d] = mismatch[d] /\ sens'[d] = sens[d])
    BY <1>3 DEF Handle, server, TypeInv, TypeOK
  <2>. QED
    BY <1>1, <1>3, <2>1, <2>2 DEF Known, Meant
<1>4. ASSUME NEW s \in Sessions, ClearCalibration(s), NEW d \in Devices, OwnsItsBox(d)
      PROVE  Known(d)' /\ Meant(d)'
  <2>1. /\ at[s] = "idle" /\ at'[s] = "push" /\ levels'[s] = sens
        /\ \A x \in Sessions \ {s} : at'[x] = at[x] /\ levels'[x] = levels[x]
        /\ UNCHANGED <<hardware, server, device, level, unheard>>
    BY <1>4 DEF ClearCalibration, Start, Busy, Goto, TypeInv, TypeOK
  <2>2. Known(d)'
    BY <1>1, <1>4, <2>1 DEF Known, hardware, server
  <2>3. Meant(d)'
    BY <1>1, <1>4, <2>1 DEF Meant, hardware, server
  <2>. QED
    BY <2>2, <2>3
<1>5. ASSUME NEW s \in Sessions,
             \/ \E e \in Commanded, l \in Sensitivities : SetSensitivity(s, e, l)
             \/ \E e \in Devices : RestoreDefaults(s, e)
      PROVE  Sends' /\ \A d \in Devices : OwnsItsBox(d) => Known(d)' /\ Meant(d)'
  <2>1. /\ at[s] = "idle" /\ at'[s] \in {"post", "restore"}
        /\ \A x \in Sessions \ {s} :
             at'[x] = at[x] /\ device'[x] = device[x] /\ level'[x] = level[x]
        /\ UNCHANGED <<hardware, server, levels, unsent, unheard>>
    BY <1>5 DEF SetSensitivity, RestoreDefaults, Start, Busy, Goto, TypeInv, TypeOK
  <2>2. Sends'
    BY <1>1, <2>1 DEF Sends
  <2>3. ASSUME NEW d \in Devices, OwnsItsBox(d)
        PROVE  Known(d)' /\ Meant(d)'
    <3>1. Known(d)'
      BY <1>1, <2>1, <2>3 DEF Known, hardware, server
    <3>2. Meant(d)'
      BY <1>1, <2>1, <2>3 DEF Meant, hardware, server
    <3>. QED
      BY <3>1, <3>2
  <2>. QED
    BY <2>2, <2>3
<1>6. ASSUME NEW s \in Sessions, ClearCalibration(s)
      PROVE  Sends'
  BY <1>1, <1>6 DEF ClearCalibration, Goto, Sends, TypeInv, TypeOK
<1>7. CASE UNCHANGED <<box, server, at, device, level, levels, unsent, unheard>>
  BY <1>1, <1>7 DEF Sends, Known, Meant, server
<1>8. CASE \E e \in Devices : Announce(e) \/ Disconnect(e) \/ Reconnect(e)
  BY <1>7, <1>8 DEF Announce, Disconnect, Reconnect, hardware, command
<1>9. CASE \E e \in Devices : Handle(e)
  <2>1. Sends'
    BY <1>1, <1>9 DEF Handle, command, Sends
  <2>. QED
    BY <1>3, <1>9, <2>1
<1>10. ASSUME NEW s \in Sessions, Abort(s)
       PROVE  FALSE
  BY <1>10, NotUsedUp DEF Abort
<1>11. ASSUME NEW b \in Boxes, NEW l \in Levels, External(b, l)
       PROVE  FALSE
  BY <1>11, NotUsedUp DEF External
<1>12. CASE UNCHANGED vars
  BY <1>7, <1>12 DEF vars, command, hardware
<1>. QED
  BY <1>2, <1>4, <1>5, <1>6, <1>8, <1>9, <1>10, <1>11, <1>12 DEF Next, Listener

\* If commands run one at a time to their end, no write fails and nobody else touches a
\* box, a device at rest reads with the factor of its box's level or is flagged, whatever
\* streams drop if the box is its own; but for a device whose box did not take what was
\* recorded for it.
THEOREM CalibrationHolds == Spec => []CalibratedOrFlagged
<1>1. TypeInv /\ TrueInv /\ FactorInv /\ OwnerInv => CalibratedOrFlagged
  <2> SUFFICES ASSUME TypeInv, TrueInv, FactorInv, OwnerInv, AtRest, NEW d \in Calibratable,
                      \A k \in {"overlaps", "external", "faults", "aborts"} : used[k] = 0,
                      OwnsItsBox(d) \/ used["drops"] = 0, ~Misled(d)
               PROVE  cal[d] = box[BoxOf[d]] \/ mismatch[d]
    BY DEF CalibratedOrFlagged, Without
  <2>1. /\ d \in Devices /\ BoxOf[d] \in Boxes /\ events[d] = <<>> /\ Reached(d)
        /\ d \notin unheard
    BY OwnerIsNoDQ, DevicesAssumption
       DEF DevicesAssumption, Calibratable, Reached, Misled, AtRest, Drained
  <2>2. \A s \in Sessions : at[s] = "idle"
    BY DEF AtRest, Busy
  <2>3. cal[d] = sens[d] \/ mismatch[d]
    BY <2>1, <2>2 DEF FactorInv, Accounted, Writes, Told
  <2>4. CASE OwnsItsBox(d)
    BY <2>1, <2>2, <2>3, <2>4 DEF OwnerInv, Known
  <2>5. CASE used["drops"] = 0
    BY <2>1, <2>3, <2>5 DEF TrueInv, Knows, Follows
  <2>. QED
    BY <2>4, <2>5
<1>2. Init => FollowInv
  BY FollowInit DEF FollowInv
<1>. QED
  BY <1>1, <1>2, TypeInit, TypeNext, TrueInit, TrueNext, FollowNext, FactorInit, FactorNext,
     OwnInit, OwnNext, PTL DEF Spec
=============================================================================
