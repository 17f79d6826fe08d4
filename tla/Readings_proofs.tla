-------------------------- MODULE Readings_proofs --------------------------
(***************************************************************************)
(* EPICS monitor: the readings enter the rolling buffers in the order of   *)
(* their times, for any number of channels, any delays and a queue of any  *)
(* length.  The queue holds the readings youngest last, none older than    *)
(* what its device took last, and the clock ages them alike.               *)
(*                                                                         *)
(* The front-end ping keeps its types; and everything that handles         *)
(* readings, put together as in MCReadings, does what it does alone.       *)
(***************************************************************************)
EXTENDS MCReadings, RollingBuffer_proofs, Commands_proofs, SequenceTheorems, TLAPS

-----------------------------------------------------------------------------
(* EpicsLink *)

Readings == [channel : Channels, age : Ages]

QueueTypeOK == updates \in Seq(Readings) /\ lastData \in [Channels -> Ages]

IInv == LinkTypeOK /\ ReadingsInOrder

-----------------------------------------------------------------------------
LEMMA OlderIsMonotonic ==
  /\ \A a \in Ages : Older(a) \in Ages
  /\ \A a, b \in Ages : a <= b => Older(a) <= Older(b)
BY LinkAssumption DEF LinkAssumption, Ages, Never, Older

LEMMA NothingQueued == <<>> \in Seq(Readings) /\ DOMAIN <<>> = {}
OBVIOUS

LEMMA ReadingsHaveFields ==
  ASSUME NEW queue \in Seq(Readings), NEW i \in 1 .. Len(queue)
  PROVE  queue[i] \in Readings /\ queue[i].age \in Ages /\ queue[i].channel \in Channels
<1>1. queue[i] \in Readings
  BY ElementOfSeq
<1>. QED
  BY <1>1 DEF Readings

LEMMA QueueIsTyped == IInv => QueueTypeOK
BY DEF IInv, LinkTypeOK, QueueTypeOK, Readings

LEMMA InitHolds == LinkInit => IInv
<1> SUFFICES ASSUME LinkInit PROVE IInv
  OBVIOUS
<1>1. updates \in Seq(Readings) /\ DOMAIN updates = {}
  BY NothingQueued DEF LinkInit
<1>2. Never \in Ages
  BY LinkAssumption DEF LinkAssumption, Ages, Never
<1>3. LinkTypeOK
  BY <1>1, <1>2, LinkAssumption DEF LinkAssumption, LinkInit, LinkTypeOK, Readings
<1>. QED
  BY <1>1, <1>3 DEF IInv, ReadingsInOrder

-----------------------------------------------------------------------------
(* The queue *)

\* A reading that is delivered is the youngest.
LEMMA DeliverKeepsOrder ==
  ASSUME IInv, NEW c \in Channels, Deliver(c)
  PROVE  updates' \in Seq(Readings) /\ ReadingsInOrder'
<1> DEFINE n == Len(updates)
           new == [channel |-> c, age |-> 0]
<1>1. 0 \in Ages /\ new \in Readings /\ new.age = 0
  BY LinkAssumption DEF LinkAssumption, Ages, Never, Readings
<1>2. updates \in Seq(Readings) /\ lastData \in [Channels -> Ages]
  BY QueueIsTyped DEF QueueTypeOK
<1>3. updates' = Append(updates, new) /\ lastData' = lastData
  BY DEF Deliver, device
<1> HIDE DEF new
<1>4. /\ updates' \in Seq(Readings)
      /\ n \in Nat /\ DOMAIN updates = 1 .. n /\ DOMAIN updates' = 1 .. (n + 1)
      /\ \A i \in 1 .. n : updates'[i] = updates[i]
      /\ updates'[n + 1] = new
  BY <1>1, <1>2, <1>3
<1>5. \A i \in DOMAIN updates' : updates'[i] \in Readings /\ updates'[i].age \in Ages
                                 /\ updates'[i].channel \in Channels
  BY <1>4, ReadingsHaveFields
<1> HIDE DEF n
<1>6. ASSUME NEW a \in Ages PROVE 0 <= a
  BY LinkAssumption DEF LinkAssumption, Ages, Never
<1>7. ASSUME NEW i \in DOMAIN updates'
      PROVE  updates'[i].age <= lastData'[updates'[i].channel]
  <2>1. CASE i \in 1 .. n
    BY <1>3, <1>4, <2>1 DEF IInv, ReadingsInOrder
  <2>2. CASE i = n + 1
    BY <1>1, <1>2, <1>3, <1>4, <1>5, <1>6, <2>2
  <2>. QED
    BY <1>4, <2>1, <2>2
<1>8. ASSUME NEW i \in DOMAIN updates', NEW j \in DOMAIN updates', i < j
      PROVE  updates'[j].age <= updates'[i].age
  <2>1. CASE j \in 1 .. n
    BY <1>4, <1>8, <2>1 DEF IInv, ReadingsInOrder
  <2>2. CASE j = n + 1
    BY <1>1, <1>4, <1>5, <1>6, <2>2
  <2>. QED
    BY <1>4, <2>1, <2>2
<1>. QED
  BY <1>4, <1>7, <1>8 DEF ReadingsInOrder

\* A reading that is taken is older than those that stay.
LEMMA DrainKeepsOrder ==
  ASSUME IInv, Drain
  PROVE  QueueTypeOK' /\ ReadingsInOrder'
<1> DEFINE n == Len(updates)
<1>1. updates \in Seq(Readings) /\ lastData \in [Channels -> Ages]
  BY QueueIsTyped DEF QueueTypeOK
<1>2. /\ n \in Nat /\ n > 0 /\ DOMAIN updates = 1 .. n
      /\ updates' \in Seq(Readings) /\ DOMAIN updates' = 1 .. (n - 1)
      /\ \A i \in 1 .. (n - 1) : i + 1 \in 1 .. n /\ updates'[i] = updates[i + 1]
      /\ Head(updates) = updates[1] /\ 1 \in 1 .. n
  BY <1>1 DEF Drain
<1>3. \A i \in 1 .. n : updates[i].age \in Ages /\ updates[i].channel \in Channels
  BY <1>1, <1>2, ReadingsHaveFields
<1>4. lastData' = [lastData EXCEPT ![updates[1].channel] = updates[1].age]
  BY <1>2 DEF Drain
<1>5. lastData' \in [Channels -> Ages]
  BY <1>1, <1>2, <1>3, <1>4
<1> HIDE DEF n
<1>6. ASSUME NEW i \in DOMAIN updates'
      PROVE  updates'[i].age <= lastData'[updates'[i].channel]
  <2>1. updates'[i] = updates[i + 1] /\ i + 1 \in 1 .. n /\ 1 < i + 1
    BY <1>2
  <2>2. CASE updates[i + 1].channel = updates[1].channel
    <3>1. updates[i + 1].age <= updates[1].age
      BY <1>2, <2>1 DEF IInv, ReadingsInOrder
    <3>. QED
      BY <1>1, <1>2, <1>3, <1>4, <2>1, <2>2, <3>1
  <2>3. CASE updates[i + 1].channel # updates[1].channel
    <3>1. updates[i + 1].age <= lastData[updates[i + 1].channel]
      BY <1>2, <2>1 DEF IInv, ReadingsInOrder
    <3>. QED
      BY <1>1, <1>2, <1>3, <1>4, <2>1, <2>3, <3>1
  <2>. QED
    BY <2>2, <2>3
<1>7. ASSUME NEW i \in DOMAIN updates', NEW j \in DOMAIN updates', i < j
      PROVE  updates'[j].age <= updates'[i].age
  <2>1. i + 1 \in 1 .. n /\ j + 1 \in 1 .. n /\ i + 1 < j + 1
    BY <1>2, <1>7
  <2>2. updates[j + 1].age <= updates[i + 1].age
    BY <1>2, <2>1 DEF IInv, ReadingsInOrder
  <2>. QED
    BY <1>2, <2>2
<1>. QED
  BY <1>2, <1>5, <1>6, <1>7 DEF QueueTypeOK, ReadingsInOrder

\* All readings grow older together.
LEMMA TickKeepsOrder ==
  ASSUME IInv, LinkTick
  PROVE  QueueTypeOK' /\ ReadingsInOrder'
<1> DEFINE n == Len(updates)
<1>1. updates \in Seq(Readings) /\ lastData \in [Channels -> Ages]
  BY QueueIsTyped DEF QueueTypeOK
<1>2. n \in Nat /\ DOMAIN updates = 1 .. n
  BY <1>1
<1>3. \A i \in 1 .. n : updates[i] \in Readings /\ updates[i].age \in Ages
                        /\ updates[i].channel \in Channels
  BY <1>1, <1>2, ReadingsHaveFields
<1>4. updates' = [i \in 1 .. n |-> [updates[i] EXCEPT !.age = Older(updates[i].age)]]
  BY <1>2 DEF LinkTick
<1>5. \A c \in Channels : lastData'[c] = Older(lastData[c])
  BY DEF LinkTick
<1>6. lastData' \in [Channels -> Ages]
  BY <1>1, OlderIsMonotonic DEF LinkTick
<1> HIDE DEF n
<1>7. ASSUME NEW i \in 1 .. n
      PROVE  /\ updates'[i] \in Readings
             /\ updates'[i].age = Older(updates[i].age)
             /\ updates'[i].channel = updates[i].channel
  BY <1>3, <1>4, OlderIsMonotonic DEF Readings
<1>8. updates' \in Seq(Readings) /\ DOMAIN updates' = 1 .. n
  <2>1. updates' \in [1 .. n -> Readings]
    BY <1>4, <1>7
  <2>. QED
    BY <1>2, <2>1, SeqDef
<1>9. ASSUME NEW i \in 1 .. n
      PROVE  updates'[i].age <= lastData'[updates'[i].channel]
  <2>1. updates[i].age <= lastData[updates[i].channel]
    BY <1>2 DEF IInv, ReadingsInOrder
  <2>. QED
    BY <1>1, <1>3, <1>5, <1>7, <2>1, OlderIsMonotonic
<1>10. ASSUME NEW i \in 1 .. n, NEW j \in 1 .. n, i < j
       PROVE  updates'[j].age <= updates'[i].age
  <2>1. updates[j].age <= updates[i].age
    BY <1>2, <1>10 DEF IInv, ReadingsInOrder
  <2>. QED
    BY <1>3, <1>7, <2>1, OlderIsMonotonic
<1>. QED
  BY <1>6, <1>8, <1>9, <1>10 DEF QueueTypeOK, ReadingsInOrder

-----------------------------------------------------------------------------
(* The other steps leave the queue alone *)

LEMMA QueueStays ==
  ASSUME IInv, UNCHANGED <<updates, lastData>>
  PROVE  QueueTypeOK' /\ ReadingsInOrder'
BY QueueIsTyped DEF IInv, QueueTypeOK, ReadingsInOrder

LEMMA StepKeepsQueue ==
  ASSUME IInv, [LinkNext]_linkVars
  PROVE  QueueTypeOK' /\ ReadingsInOrder'
<1>1. ASSUME NEW c \in Channels, Deliver(c) PROVE QueueTypeOK' /\ ReadingsInOrder'
  <2>1. lastData' = lastData
    BY <1>1 DEF Deliver, device
  <2>. QED
    BY <1>1, <2>1, DeliverKeepsOrder, QueueIsTyped DEF QueueTypeOK
<1>2. ASSUME NEW c \in Channels, IocStops(c) \/ IocStarts(c) \/ Connection(c) \/ MonitorFails(c)
      PROVE  UNCHANGED <<updates, lastData>>
  BY <1>2 DEF IocStops, IocStarts, Connection, Subscribe, SubscribeFails, MarkDisconnected,
              Retry, MonitorFails, device
<1>3. ASSUME Watchdog \/ UNCHANGED linkVars PROVE UNCHANGED <<updates, lastData>>
  BY <1>3 DEF Watchdog, linkVars, device
<1>4. ASSUME NEW p \in Pages, LoadPage(p) \/ ClosePage(p) PROVE UNCHANGED <<updates, lastData>>
  BY <1>4 DEF LoadPage, ClosePage, device
<1>. QED
  BY <1>1, <1>2, <1>3, <1>4, QueueStays, DrainKeepsOrder, TickKeepsOrder DEF LinkNext

\* The types of what is not the queue.
LEMMA StepKeepsTypes ==
  ASSUME IInv, [LinkNext]_linkVars
  PROVE  LinkTypeOK'
<1>0. updates' \in Seq([channel : Channels, age : Ages]) /\ lastData' \in [Channels -> Ages]
  BY StepKeepsQueue DEF QueueTypeOK, Readings
<1>1. /\ ioc \in [Channels -> BOOLEAN] /\ deaf \in [Channels -> BOOLEAN]
      /\ monitor \in [Channels -> {"connecting", "monitoring", "ended", "waiting"}]
      /\ retryDelay \in [Channels -> Nat \ {0}] /\ sleep \in [Channels -> Nat]
      /\ connected \in [Channels -> BOOLEAN]
      /\ eDots \in [Pages -> [Channels -> BOOLEAN] \cup {NoPage}]
  BY DEF IInv, LinkTypeOK
<1>2. MaxRetryDelay \in Nat \ {0}
  BY LinkAssumption DEF LinkAssumption
<1>3. ASSUME NEW c \in Channels, IocStops(c) \/ IocStarts(c) PROVE LinkTypeOK'
  BY <1>0, <1>1, <1>3 DEF IocStops, IocStarts, LinkTypeOK, task, device
<1>4. ASSUME NEW c \in Channels, Subscribe(c) \/ SubscribeFails(c) \/ MonitorFails(c)
      PROVE  LinkTypeOK'
  BY <1>0, <1>1, <1>4 DEF Subscribe, SubscribeFails, MonitorFails, Goes, LinkTypeOK, plant, device
<1>5. ASSUME NEW c \in Channels, Deliver(c) PROVE LinkTypeOK'
  BY <1>0, <1>1, <1>5 DEF Deliver, LinkTypeOK, plant, task, device
<1>6. ASSUME NEW c \in Channels, MarkDisconnected(c) PROVE LinkTypeOK'
  BY <1>0, <1>1, <1>6 DEF MarkDisconnected, Goes, LinkTypeOK, plant
<1>7. ASSUME NEW c \in Channels, Retry(c) PROVE LinkTypeOK'
  <2>1. retryDelay' \in [Channels -> Nat \ {0}]
    BY <1>1, <1>2, <1>7 DEF Retry
  <2>2. monitor' \in [Channels -> {"connecting", "monitoring", "ended", "waiting"}]
    BY <1>1, <1>7 DEF Retry, Goes
  <2>. QED
    BY <1>0, <1>1, <1>7, <2>1, <2>2 DEF Retry, LinkTypeOK, plant, device
<1>8. ASSUME Drain PROVE LinkTypeOK'
  BY <1>0, <1>1, <1>8 DEF Drain, LinkTypeOK, plant, task
<1>9. ASSUME Watchdog PROVE LinkTypeOK'
  BY <1>0, <1>1, <1>9 DEF Watchdog, LinkTypeOK, plant, task
<1>10. ASSUME LinkTick PROVE LinkTypeOK'
  <2>1. sleep' \in [Channels -> Nat]
    BY <1>1, <1>10 DEF LinkTick
  <2>. QED
    BY <1>0, <1>1, <1>10, <2>1 DEF LinkTick, LinkTypeOK, plant
<1>11. ASSUME NEW p \in Pages, LoadPage(p) \/ ClosePage(p) PROVE LinkTypeOK'
  BY <1>0, <1>1, <1>11 DEF LoadPage, ClosePage, LinkTypeOK, plant, task, device
<1>12. ASSUME UNCHANGED linkVars PROVE LinkTypeOK'
  BY <1>0, <1>1, <1>12 DEF linkVars, LinkTypeOK, plant, task, device
<1>. QED
  BY <1>3, <1>4, <1>5, <1>6, <1>7, <1>8, <1>9, <1>10, <1>11, <1>12 DEF LinkNext, Connection

-----------------------------------------------------------------------------
LEMMA LinkStep == IInv /\ [LinkNext]_linkVars => IInv'
BY StepKeepsQueue, StepKeepsTypes DEF IInv

\* The state of the link keeps its types.
THEOREM LinkTypesHold == LinkSpec => []LinkTypeOK
<1>1. IInv => LinkTypeOK
  BY DEF IInv
<1>. QED
  BY InitHolds, LinkStep, <1>1, PTL DEF LinkSpec

\* No reading overtakes an older one on its way to the rolling buffer.
THEOREM ReadingsStayInOrder == LinkSpec => []ReadingsInOrder
<1>1. IInv => ReadingsInOrder
  BY DEF IInv
<1>. QED
  BY InitHolds, LinkStep, <1>1, PTL DEF LinkSpec

-----------------------------------------------------------------------------
(* FrontEndPing *)

\* Types: only boxes with an address are asked, answer and are marked alive.
THEOREM PingTypesHold == PingSpec => []PingTypeOK
<1>1. PingInit => PingTypeOK
  BY DEF PingInit, PingTypeOK
<1>2. PingTypeOK /\ [PingNext]_pingVars => PingTypeOK'
  <2> SUFFICES ASSUME PingTypeOK, [PingNext]_pingVars
               PROVE  PingTypeOK'
    OBVIOUS
  <2>1. ASSUME NEW b \in Boxes, Toggle(b)
        PROVE  PingTypeOK'
    BY <2>1 DEF Toggle, PingTypeOK
  <2>2. CASE PingAll
    BY <2>2 DEF PingAll, PingTypeOK
  <2>3. ASSUME NEW b \in Boxes, ConnectEnds(b)
        PROVE  PingTypeOK'
    BY <2>3 DEF ConnectEnds, PingTypeOK
  <2>4. CASE RecordResults
    <3>1. round' = FALSE /\ UNCHANGED <<reachable, unanswered, results>>
      BY <2>4 DEF RecordResults
    <3>2. feAlive' = [b \in Boxes |-> b \in results]
      BY <2>4 DEF RecordResults
    <3>3. feAlive' \in [Boxes -> BOOLEAN]
      <4> DEFINE Answered(b) == b \in results
      <4>1. \A b \in Boxes : Answered(b) \in BOOLEAN
        OBVIOUS
      <4>2. feAlive' = [b \in Boxes |-> Answered(b)]
        BY <3>2, Zenon
      <4> HIDE DEF Answered
      <4>. QED
        BY <4>1, <4>2
    <3>. QED
      BY <3>1, <3>3 DEF PingTypeOK
  <2>5. CASE UNCHANGED pingVars
    BY <2>5 DEF pingVars, PingTypeOK
  <2>. QED
    BY <2>1, <2>2, <2>3, <2>4, <2>5 DEF PingNext, PingTask
<1>. QED
  BY <1>1, <1>2, PTL DEF PingSpec

-----------------------------------------------------------------------------
(* The components together *)

\* Beside the others each component behaves as it does alone, so that everything proved
\* of a component holds of it in the instance that TLC explores.
THEOREM ReadingsMoveAlone ==
  ReadingsSpec => /\ LinkSpec /\ PingSpec /\ Spec /\ GainSpec /\ ZeroSpec /\ PeakSpec
<1>1. ReadingsInit => LinkInit /\ PingInit /\ Init /\ GainInit /\ ZeroInit /\ PeakInit
  BY DEF ReadingsInit
<1>2. [ReadingsNext]_readingsVars =>
        /\ [LinkNext]_linkVars /\ [PingNext]_pingVars /\ [Next]_vars
        /\ [GainNext]_gainVars /\ [ZeroNext]_zeroVars /\ [PeakNext]_peakVars
  BY DEF ReadingsNext, readingsVars, Turn, noLink, noPing, noBuffer, noGain, noZero, noPeak
<1>. QED
  BY <1>1, <1>2, PTL
     DEF ReadingsSpec, LinkSpec, PingSpec, Spec, GainSpec, ZeroSpec, PeakSpec

\* Every component that handles readings keeps its types, beside the others as alone.
THEOREM ReadingTypesHold == ReadingsSpec => []ReadingsTypeOK
<1>1. LinkTypeOK /\ PingTypeOK /\ TypeOK /\ GainTypeOK /\ ZeroTypeOK /\ PeakTypeOK
        => ReadingsTypeOK
  BY DEF ReadingsTypeOK
<1>. QED
  BY <1>1, ReadingsMoveAlone, LinkTypesHold, PingTypesHold, TypeCorrect, GainTypesHold,
     ZeroTypesHold, PeakTypesHold, PTL
=============================================================================
