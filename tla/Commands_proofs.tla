--------------------------- MODULE Commands_proofs ----------------------------
(***************************************************************************)
(* The commands of a session that take readings while they move hardware,  *)
(* for any number of devices, sessions, readings, levels and steps.        *)
(*                                                                         *)
(* Auto gain: a switch of the watcher is justified, if the cooldown is not *)
(* shorter than the window.  What a device lacks of a fresh window is left *)
(* of its cooldown, so a decision made after the cooldown rests on fresh   *)
(* readings and stays true until its turn comes.                           *)
(*                                                                         *)
(* Zero WCM: an offset computed while nothing interfered comes from        *)
(* readings of the time the correction was zero.  As long as nothing is    *)
(* mixed one zeroing is under way, and the newest readings of the buffer,  *)
(* as many as were pushed since its baseline, were all taken since.        *)
(*                                                                         *)
(* Sweep timing: a peak is measured with the window computed for it.  The  *)
(* writes of a sweep so far are a prefix of those to be made, and once all *)
(* are made the window on the board is the computed one.                   *)
(***************************************************************************)
EXTENDS AutoGain, ZeroWcm, PeakWindow, SequenceTheorems, TLAPS

-----------------------------------------------------------------------------
(* AutoGain *)

\* The device in hand is one of the candidates.
InHand == switching \in Meters => switching \in Waiting

\* What is missing of a fresh window is left of the cooldown.
Settles(m) == ~disturbed[m] => fresh[m] + cooldown[m] >= Refresh

\* A candidate that waits goes up by one level, and was decided on for good reason.
Decided(m) ==
  m \in Waiting /\ ~disturbed[m] /\ switching # m =>
    /\ todo[m].next = level[m] + 1
    /\ cooldown[m] = 0 => todo[m].fresh

Justified == \A m \in Meters : Settles(m) /\ Decided(m)

GainInv == GainTypeOK /\ InHand /\ Justified

Candidates == [next : 1 .. LastLevel, fresh : BOOLEAN]

-----------------------------------------------------------------------------
LEMMA GainConstants ==
  /\ LastLevel \in Nat /\ Refresh \in Nat /\ Cooldown \in Nat /\ Refresh <= Cooldown
  /\ Refresh > 0 /\ MaxDue \in Nat /\ MaxDue > 0
  /\ MaxOperator \in Nat /\ MaxFailures \in Nat
  /\ 0 \in Charges /\ Idle \notin Meters
  /\ \A l : l \in Levels <=> l \in Int /\ 0 <= l /\ l <= LastLevel
BY GainAssumption DEF GainAssumption, Levels

\* What the types say of one device.
LEMMA DeviceTypes ==
  ASSUME GainTypeOK, NEW m \in Meters
  PROVE  /\ fresh[m] \in 0 .. Refresh /\ cooldown[m] \in 0 .. Cooldown
         /\ level[m] \in Levels /\ mean[m] \in Charges /\ disturbed[m] \in BOOLEAN
         /\ m \in Waiting => todo[m] \in Candidates /\ todo[m].next \in Levels
<1>1. todo[m] \in Candidates => todo[m].next \in Levels
  BY GainConstants DEF Candidates
<1>. QED
  BY <1>1, GainConstants DEF GainTypeOK, Waiting, Candidates

LEMMA GainInitHolds == GainInit => GainInv
<1> SUFFICES ASSUME GainInit PROVE GainInv
  OBVIOUS
<1>1. GainTypeOK
  <2>1. 0 \in Levels /\ 0 \in 0 .. Cooldown /\ Refresh \in 0 .. Refresh /\ 1 \in 0 .. MaxDue
        /\ 0 \in 0 .. MaxOperator /\ 0 \in 0 .. MaxFailures
    BY GainConstants
  <2>. QED
    BY <2>1, GainConstants DEF GainInit, GainTypeOK
<1>2. Waiting = {}
  BY DEF GainInit, Waiting
<1>3. \A m \in Meters : fresh[m] + cooldown[m] >= Refresh
  <2>1. \A m \in Meters : fresh[m] = Refresh /\ cooldown[m] = 0
    BY DEF GainInit
  <2>2. Refresh + 0 >= Refresh
    BY GainConstants
  <2>. QED
    BY <2>1, <2>2
<1>4. InHand
  BY GainConstants DEF GainInit, InHand
<1>. QED
  BY <1>1, <1>2, <1>3, <1>4 DEF GainInv, Justified, Settles, Decided

-----------------------------------------------------------------------------
(* The types *)

LEMMA GainTypes ==
  ASSUME GainTypeOK, InHand, [GainNext]_gainVars
  PROVE  GainTypeOK'
<1> USE GainConstants DEF GainTypeOK, watcher, readings
<1>1. ASSUME NEW m \in Meters, NEW q \in Charges, Beam(m, q) PROVE GainTypeOK'
  BY <1>1 DEF Beam
<1>2. ASSUME NEW m \in Meters, Link(m) PROVE GainTypeOK'
  BY <1>2 DEF Link
<1>3. ASSUME NEW m \in Meters, NEW l \in Levels, Operator(m, l) PROVE GainTypeOK'
  <2>1. spent' \in [operator : 0 .. MaxOperator, failures : 0 .. MaxFailures]
    BY <1>3 DEF Operator
  <2>2. fresh' \in [Meters -> 0 .. Refresh]
    BY <1>3 DEF Operator
  <2>3. unheard' \subseteq Meters
    BY <1>3 DEF Operator
  <2>. QED
    BY <1>3, <2>1, <2>2, <2>3 DEF Operator
<1>4. ASSUME SetAutoGain PROVE GainTypeOK'
  BY <1>4 DEF SetAutoGain
<1>5. ASSUME GainTick PROVE GainTypeOK'
  <2>1. mean' \in [Meters -> Charges]
    BY <1>5 DEF GainTick
  <2>2. fresh' \in [Meters -> 0 .. Refresh]
    BY <1>5 DEF GainTick
  <2>3. cooldown' \in [Meters -> 0 .. Cooldown]
    BY <1>5 DEF GainTick
  <2>4. due' \in 0 .. MaxDue
    BY <1>5 DEF GainTick
  <2>5. disturbed' \in [Meters -> BOOLEAN]
    BY <1>5 DEF GainTick
  <2>. QED
    BY <1>5, <2>1, <2>2, <2>3, <2>4, <2>5 DEF GainTick
<1>6. ASSUME Check PROVE GainTypeOK'
  <2>1. ASSUME NEW m \in Meters, Saturated(m)
        PROVE  [next |-> level[m] + 1, fresh |-> fresh[m] >= Refresh] \in Candidates
    <3>1. level[m] + 1 \in 1 .. LastLevel
      BY <2>1 DEF Saturated
    <3>. QED
      BY <3>1 DEF Candidates
  <2>2. todo' \in [Meters -> Candidates \cup {NoCandidate}]
    BY <1>6, <2>1 DEF Check
  <2>3. due' \in 0 .. MaxDue
    BY <1>6 DEF Check
  <2>. QED
    BY <1>6, <2>2, <2>3 DEF Check, Candidates
<1>7. ASSUME NEW m \in Meters, Skip(m) PROVE GainTypeOK'
  BY <1>7 DEF Skip
<1>8. ASSUME NEW m \in Meters, Switch(m) PROVE GainTypeOK'
  <2>1. cooldown' \in [Meters -> 0 .. Cooldown]
    BY <1>8 DEF Switch
  <2>. QED
    BY <1>8, <2>1 DEF Switch
<1>9. ASSUME NEW m \in Meters, Post(m) PROVE GainTypeOK'
  <2>1. todo[m].next \in Levels
    BY <1>9, DeviceTypes DEF Post, InHand
  <2>2. fresh' \in [Meters -> 0 .. Refresh]
    BY <1>9 DEF Post
  <2>3. disturbed' \in [Meters -> BOOLEAN]
    BY <1>9 DEF Post, Late
  <2>4. level' \in [Meters -> Levels]
    BY <1>9, <2>1 DEF Post
  <2>5. unheard' \subseteq Meters
    BY <1>9 DEF Post
  <2>. QED
    BY <1>9, <2>2, <2>3, <2>4, <2>5 DEF Post
<1>10. ASSUME NEW m \in Meters, PostFails(m) PROVE GainTypeOK'
  <2>1. spent' \in [operator : 0 .. MaxOperator, failures : 0 .. MaxFailures]
    BY <1>10 DEF PostFails
  <2>. QED
    BY <1>10, <2>1 DEF PostFails, Done
<1>11. ASSUME NEW m \in Meters, Factor(m) PROVE GainTypeOK'
  <2>1. fresh' \in [Meters -> 0 .. Refresh]
    BY <1>11 DEF Factor
  <2>2. disturbed' \in [Meters -> BOOLEAN]
    BY <1>11 DEF Factor, Late
  <2>. QED
    BY <1>11, <2>1, <2>2 DEF Factor, Done
<1>12. ASSUME UNCHANGED gainVars PROVE GainTypeOK'
  BY <1>12 DEF gainVars
<1>. QED
  BY <1>1, <1>2, <1>3, <1>4, <1>5, <1>6, <1>7, <1>8, <1>9, <1>10, <1>11, <1>12
     DEF GainNext, Round

-----------------------------------------------------------------------------
(* Decisions that are justified *)

\* A step that leaves the watcher, the levels and the history alone.
LEMMA NothingDecided ==
  ASSUME InHand, Justified, UNCHANGED <<level, fresh, watcher, disturbed>>
  PROVE  InHand' /\ Justified'
BY DEF InHand, Justified, Settles, Decided, Waiting, watcher

\* A second fills the window by as much as it takes from the cooldown, and disturbs
\* whoever waits.
LEMMA TickKeepsReasons ==
  ASSUME GainInv, GainTick
  PROVE  InHand' /\ Justified'
<1>1. Waiting' = Waiting /\ UNCHANGED <<level, todo, switching>>
  BY DEF GainTick, Waiting
<1>2. ASSUME NEW m \in Meters PROVE Settles(m)' /\ Decided(m)'
  <2>1. /\ fresh'[m] = IF online[m] /\ m \notin unheard /\ fresh[m] < Refresh
                       THEN fresh[m] + 1 ELSE fresh[m]
        /\ cooldown'[m] = IF cooldown[m] > 0 THEN cooldown[m] - 1 ELSE 0
        /\ disturbed'[m] = (disturbed[m] \/ ~online[m] \/ m \in unheard
                           \/ m \in Waiting \ {switching})
    BY DEF GainTick
  <2>2. fresh[m] \in 0 .. Refresh /\ cooldown[m] \in 0 .. Cooldown
    BY DeviceTypes DEF GainInv
  <2>3. Settles(m)'
    <3>1. SUFFICES ASSUME ~disturbed'[m] PROVE fresh'[m] + cooldown'[m] >= Refresh
      BY DEF Settles
    <3>2. ~disturbed[m] /\ online[m] /\ m \notin unheard
      BY <2>1, <3>1
    <3>3. fresh[m] + cooldown[m] >= Refresh
      BY <3>2 DEF GainInv, Justified, Settles
    <3>. QED
      BY <2>1, <2>2, <3>2, <3>3, GainConstants
  <2>4. Decided(m)'
    BY <1>1, <2>1 DEF Decided
  <2>. QED
    BY <2>3, <2>4
<1>. QED
  BY <1>1, <1>2 DEF GainInv, InHand, Justified

\* With no cooldown left, the window is fresh.
LEMMA CheckHasReasons ==
  ASSUME GainInv, Check
  PROVE  InHand' /\ Justified'
<1>1. InHand'
  BY GainConstants DEF Check, InHand
<1>2. ASSUME NEW m \in Meters PROVE Settles(m)' /\ Decided(m)'
  <2>1. UNCHANGED <<level, fresh, cooldown, disturbed>>
    BY DEF Check
  <2>2. Settles(m)'
    BY <2>1 DEF GainInv, Justified, Settles
  <2>3. Decided(m)'
    <3>1. SUFFICES ASSUME m \in Waiting', ~disturbed[m]
                   PROVE  todo'[m].next = level[m] + 1 /\ (cooldown[m] = 0 => todo'[m].fresh)
      BY <2>1 DEF Decided
    <3>2. todo'[m] = [next |-> level[m] + 1, fresh |-> fresh[m] >= Refresh]
      BY <3>1 DEF Check, Waiting
    <3>3. cooldown[m] = 0 => fresh[m] >= Refresh
      BY <3>1, DeviceTypes, GainConstants DEF GainInv, Justified, Settles
    <3> DEFINE reason == fresh[m] >= Refresh
    <3> HIDE DEF reason
    <3>4. todo'[m] = [next |-> level[m] + 1, fresh |-> reason]
      BY <3>2 DEF reason
    <3>5. todo'[m].next = level[m] + 1 /\ todo'[m].fresh = reason
      BY <3>4
    <3>. QED
      BY <3>3, <3>5 DEF reason
  <2>. QED
    BY <2>2, <2>3
<1>. QED
  BY <1>1, <1>2 DEF Justified

\* Somebody else moves the level.
LEMMA OperatorDisturbs ==
  ASSUME GainInv, NEW d \in Meters, NEW l \in Levels, Operator(d, l)
  PROVE  InHand' /\ Justified'
<1>1. UNCHANGED <<todo, switching, cooldown>> /\ Waiting' = Waiting
  BY DEF Operator, Waiting, watcher
<1>2. ASSUME NEW m \in Meters PROVE Settles(m)' /\ Decided(m)'
  <2>1. CASE m = d
    <3>1. disturbed'[m]
      BY <2>1 DEF Operator, GainInv, GainTypeOK
    <3>. QED
      BY <3>1 DEF Settles, Decided
  <2>2. CASE m # d
    <3>1. disturbed'[m] = disturbed[m] /\ level'[m] = level[m] /\ fresh'[m] = fresh[m]
      BY <2>2 DEF Operator, GainInv, GainTypeOK
    <3>. QED
      BY <1>1, <3>1 DEF GainInv, Justified, Settles, Decided
  <2>. QED
    BY <2>1, <2>2
<1>. QED
  BY <1>1, <1>2 DEF GainInv, InHand, Justified

\* A candidate is taken in hand with a whole cooldown before it.
LEMMA SwitchStartsCooldown ==
  ASSUME GainInv, NEW d \in Meters, Switch(d)
  PROVE  InHand' /\ Justified'
<1>1. UNCHANGED <<todo, fresh, level>> /\ Waiting' = Waiting
      /\ switching = Idle /\ switching' = d /\ d \in Waiting
  BY DEF Switch, Waiting
<1>2. ASSUME NEW m \in Meters PROVE Settles(m)' /\ Decided(m)'
  <2>1. CASE m = d
    <3>1. cooldown'[m] = Cooldown
      BY <2>1 DEF Switch, GainInv, GainTypeOK
    <3>2. fresh[m] \in 0 .. Refresh
      BY DeviceTypes DEF GainInv
    <3>. QED
      BY <1>1, <2>1, <3>1, <3>2, GainConstants DEF Settles, Decided
  <2>2. CASE m # d
    <3>1. disturbed'[m] = disturbed[m] /\ cooldown'[m] = cooldown[m] /\ switching # m
      BY <1>1, <2>2, GainConstants DEF Switch, GainInv, GainTypeOK
    <3>. QED
      BY <1>1, <3>1 DEF GainInv, Justified, Settles, Decided
  <2>. QED
    BY <2>1, <2>2
<1>. QED
  BY <1>1, <1>2 DEF InHand, Justified

\* The gain or the factor is written: the window starts anew, in time or disturbed.
LEMMA WriteStartsWindow ==
  ASSUME GainInv, NEW d \in Meters, switching = d,
         fresh' = [fresh EXCEPT ![d] = 0], disturbed' = Late(d), cooldown' = cooldown,
         \A m \in Meters \ {d} : level'[m] = level[m] /\ todo'[m] = todo[m],
         switching' = d \/ (switching' = Idle /\ todo'[d] = NoCandidate)
  PROVE  Justified'
<1>1. ASSUME NEW m \in Meters PROVE Settles(m)' /\ Decided(m)'
  <2>1. CASE m = d
    <3>1. fresh'[m] = 0 /\ (~disturbed'[m] => ~(cooldown[m] < Refresh))
      BY <2>1 DEF Late, GainInv, GainTypeOK
    <3>2. cooldown[m] \in 0 .. Cooldown
      BY DeviceTypes DEF GainInv
    <3>3. Settles(m)'
      BY <3>1, <3>2, GainConstants DEF Settles
    <3>4. Decided(m)'
      BY <2>1 DEF Decided, Waiting
    <3>. QED
      BY <3>3, <3>4
  <2>2. CASE m # d
    <3>1. disturbed'[m] = disturbed[m] /\ fresh'[m] = fresh[m] /\ switching # m
          /\ level'[m] = level[m] /\ todo'[m] = todo[m]
      BY <2>2 DEF Late, GainInv, GainTypeOK
    <3>2. m \in Waiting' <=> m \in Waiting
      BY <3>1 DEF Waiting
    <3>. QED
      BY <3>1, <3>2 DEF GainInv, Justified, Settles, Decided
  <2>. QED
    BY <2>1, <2>2
<1>. QED
  BY <1>1 DEF Justified

\* A candidate is dropped: its cooldown runs, or its write failed.
LEMMA DropKeepsReasons ==
  ASSUME GainInv, NEW d \in Meters, switching \in {Idle, d}, switching' = Idle,
         todo' = [todo EXCEPT ![d] = NoCandidate],
         UNCHANGED <<level, fresh, cooldown, disturbed>>
  PROVE  InHand' /\ Justified'
<1>1. ASSUME NEW m \in Meters PROVE Settles(m)' /\ Decided(m)'
  <2>1. CASE m = d
    <3>1. m \notin Waiting'
      BY <2>1 DEF GainInv, GainTypeOK, Waiting
    <3>. QED
      BY <3>1 DEF GainInv, Justified, Settles, Decided
  <2>2. CASE m # d
    <3>1. todo'[m] = todo[m] /\ switching # m
      BY <2>2, GainConstants DEF GainInv, GainTypeOK
    <3>2. m \in Waiting' <=> m \in Waiting
      BY <3>1 DEF Waiting
    <3>. QED
      BY <3>1, <3>2 DEF GainInv, Justified, Settles, Decided
  <2>. QED
    BY <2>1, <2>2
<1>2. InHand'
  BY GainConstants DEF InHand
<1>. QED
  BY <1>1, <1>2 DEF Justified

LEMMA StepKeepsReasons ==
  ASSUME GainInv, [GainNext]_gainVars
  PROVE  InHand' /\ Justified'
<1>0. InHand /\ Justified
  BY DEF GainInv
<1>1. ASSUME \/ \E m \in Meters : Link(m) \/ \E q \in Charges : Beam(m, q)
             \/ SetAutoGain \/ UNCHANGED gainVars
      PROVE  InHand' /\ Justified'
  <2>1. UNCHANGED <<level, fresh, watcher, disturbed>>
    BY <1>1 DEF Link, Beam, SetAutoGain, gainVars
  <2>. QED
    BY <1>0, <2>1, NothingDecided
<1>2. ASSUME NEW m \in Meters, Skip(m) PROVE InHand' /\ Justified'
  BY <1>2, DropKeepsReasons DEF Skip
<1>3. ASSUME NEW m \in Meters, PostFails(m) PROVE InHand' /\ Justified'
  BY <1>3, DropKeepsReasons DEF PostFails, Done
<1>4. ASSUME NEW m \in Meters, Post(m) PROVE InHand' /\ Justified'
  <2>1. UNCHANGED <<todo, switching, cooldown>> /\ switching = m
    BY <1>4 DEF Post
  <2>2. InHand'
    BY <1>0, <2>1 DEF InHand, Waiting
  <2>3. \A d \in Meters \ {m} : level'[d] = level[d]
    BY <1>4 DEF Post, GainInv, GainTypeOK
  <2>. QED
    BY <1>4, <2>1, <2>2, <2>3, WriteStartsWindow DEF Post
<1>5. ASSUME NEW m \in Meters, Factor(m) PROVE InHand' /\ Justified'
  <2>1. switching = m /\ switching' = Idle /\ UNCHANGED <<level, cooldown>>
    BY <1>5 DEF Factor, Done
  <2>2. InHand'
    BY <2>1, GainConstants DEF InHand
  <2>3. todo'[m] = NoCandidate /\ \A d \in Meters \ {m} : todo'[d] = todo[d]
    BY <1>5 DEF Factor, Done, GainInv, GainTypeOK
  <2>. QED
    BY <1>5, <2>1, <2>2, <2>3, WriteStartsWindow DEF Factor
<1>. QED
  BY <1>1, <1>2, <1>3, <1>4, <1>5, TickKeepsReasons, CheckHasReasons, OperatorDisturbs,
     SwitchStartsCooldown DEF GainNext, Round

-----------------------------------------------------------------------------
LEMMA GainStep == GainInv /\ [GainNext]_gainVars => GainInv'
BY GainTypes, StepKeepsReasons DEF GainInv

\* The state of the watcher keeps its types.
THEOREM GainTypesHold == GainSpec => []GainTypeOK
<1>1. GainInv => GainTypeOK
  BY DEF GainInv
<1>. QED
  BY GainInitHolds, GainStep, <1>1, PTL DEF GainSpec

\* The watcher moves a device up by one level at a time, each time on readings that
\* were all taken at the level it leaves, unless something disturbed the device.
THEOREM SwitchesAreJustified == GainSpec => SwitchIsJustified
<1> DEFINE Reason ==
      \A m \in Meters : Switch(m) /\ ~disturbed[m] =>
        todo[m].fresh /\ todo[m].next = level[m] + 1
<1>1. ASSUME GainInv PROVE Reason
  <2>1. ASSUME NEW m \in Meters, Switch(m), ~disturbed[m]
        PROVE  todo[m].fresh /\ todo[m].next = level[m] + 1
    <3>1. m \in Waiting /\ switching # m /\ cooldown[m] = 0
      BY <2>1, GainConstants DEF Switch
    <3>. QED
      BY <1>1, <2>1, <3>1 DEF GainInv, Justified, Decided
  <2>. QED
    BY <2>1
<1>2. GainInv /\ [GainNext]_gainVars => [Reason]_gainVars
  BY <1>1
<1>. QED
  BY GainInitHolds, GainStep, <1>2, PTL DEF GainSpec, SwitchIsJustified

-----------------------------------------------------------------------------
(* ZeroWcm *)

\* One zeroing at a time.
Alone ==
  \A s, t \in Zeroers : zeroing[s] # "idle" /\ zeroing[t] # "idle" => s = t

AfterZero == {"baseline", "wait", "mean", "offset"}

\* The newest readings of a buffer, as many as were pushed since the baseline.
Fresh(b, n) == \A i \in 1 .. Len(b) : i > Len(b) - n => b[i] = TRUE

\* What a zeroing has achieved, if nothing is mixed.
Progress(s) ==
  /\ zeroing[s] \in AfterZero => corrB = "zero"
  /\ zeroing[s] \in {"wait", "mean"} =>
       /\ \A i \in 1 .. Len(inFlight) : inFlight[i] = TRUE
       /\ Fresh(buffer, pushed[s])
  /\ zeroing[s] = "mean" => pushed[s] = SampleCount
  /\ zeroing[s] = "offset" => offset[s] = "good"

Unmixed == ~mixed => Alone /\ corrB # "bad" /\ \A s \in Zeroers : Progress(s)

\* An offset that is written is a mean.
Averaged == \A s \in Zeroers : zeroing[s] = "offset" => offset[s] \in {"good", "bad"}

Told == corrB = "zero" => excused \/ \E s \in Zeroers : zeroing[s] \in AfterZero

ZeroInv == ZeroTypeOK /\ Averaged /\ Unmixed /\ Told

-----------------------------------------------------------------------------
LEMMA ZeroConstants ==
  /\ SampleCount \in Nat /\ SampleCount > 0 /\ Capacity \in Nat /\ Capacity > 0
BY ZeroAssumption DEF ZeroAssumption

\* A reading that is pushed is the newest, and takes the place of the oldest at most.
LEMMA PushFacts ==
  ASSUME NEW b \in Seq(BOOLEAN), NEW x \in BOOLEAN, NEW full \in BOOLEAN, NEW n \in Nat
  PROVE  LET longer == Append(b, x)
             pushedTo == IF full THEN longer ELSE Tail(longer)
         IN  /\ pushedTo \in Seq(BOOLEAN)
             /\ Len(pushedTo) = IF full THEN Len(b) + 1 ELSE Len(b)
             /\ Fresh(b, n) /\ x = TRUE => Fresh(pushedTo, n) /\ Fresh(pushedTo, n + 1)
<1> DEFINE longer == Append(b, x)
           pushedTo == IF full THEN longer ELSE Tail(longer)
           m == Len(b)
<1>1. /\ m \in Nat
      /\ longer \in Seq(BOOLEAN) /\ Len(longer) = m + 1
      /\ \A i \in 1 .. m : longer[i] = b[i]
      /\ longer[m + 1] = x
  BY AppendProperties, LenProperties
<1>2. ASSUME Fresh(b, n), x = TRUE PROVE Fresh(longer, n) /\ Fresh(longer, n + 1)
  <2> HIDE DEF longer, m
  <2>1. ASSUME NEW i \in 1 .. (m + 1), i > (m + 1) - (n + 1)
        PROVE  longer[i] = TRUE
    <3>1. CASE i \in 1 .. m
      <4>1. i > m - n
        BY <1>1, <2>1, <3>1
      <4>. QED
        BY <1>1, <1>2, <3>1, <4>1 DEF Fresh, m
    <3>2. CASE i = m + 1
      <4>1. longer[m + 1] = x /\ x = TRUE
        BY <1>1, <1>2
      <4>. QED
        BY <3>2, <4>1, Zenon
    <3>3. i \in 1 .. m \/ i = m + 1
      BY <1>1
    <3>. QED
      BY <3>1, <3>2, <3>3
  <2>2. ASSUME NEW i \in 1 .. (m + 1), i > (m + 1) - n
        PROVE  i > (m + 1) - (n + 1)
    BY <1>1, <2>2
  <2>. QED
    BY <1>1, <2>1, <2>2 DEF Fresh
<1>3. longer # <<>>
  BY AppendProperties
<1>4. /\ Tail(longer) \in Seq(BOOLEAN) /\ Len(Tail(longer)) = m
      /\ \A i \in 1 .. m : Tail(longer)[i] = longer[i + 1]
  BY <1>1, <1>3, HeadTailProperties
<1>5. ASSUME NEW k \in Nat, Fresh(longer, k) PROVE Fresh(Tail(longer), k)
  <2> HIDE DEF longer, m
  <2>1. ASSUME NEW i \in 1 .. m, i > m - k
        PROVE  Tail(longer)[i] = TRUE
    <3>1. i + 1 \in 1 .. (m + 1) /\ i + 1 > (m + 1) - k
      BY <1>1, <2>1
    <3>. QED
      BY <1>1, <1>4, <1>5, <3>1 DEF Fresh
  <2>. QED
    BY <1>4, <2>1 DEF Fresh
<1>. QED
  <2>1. Fresh(b, n) /\ x = TRUE => Fresh(pushedTo, n) /\ Fresh(pushedTo, n + 1)
    <3>1. n + 1 \in Nat
      OBVIOUS
    <3> HIDE DEF longer
    <3>. QED
      BY <1>2, <1>5, <3>1
  <2>. QED
    BY <1>1, <1>4, <2>1

LEMMA ZeroInitHolds == ZeroInit => ZeroInv
<1> SUFFICES ASSUME ZeroInit PROVE ZeroInv
  OBVIOUS
<1>1. <<>> \in Seq(BOOLEAN) /\ Len(<<>>) = 0
  OBVIOUS
<1>2. ZeroTypeOK
  <2>1. inFlight \in Seq(BOOLEAN) /\ buffer \in Seq(BOOLEAN) /\ Len(buffer) <= Capacity
    BY <1>1, ZeroConstants DEF ZeroInit
  <2>2. zeroing \in [Zeroers -> {"idle", "zero", "baseline", "wait", "mean", "offset"}]
    BY DEF ZeroInit
  <2>3. pushed \in [Zeroers -> 0 .. SampleCount]
    BY ZeroConstants DEF ZeroInit
  <2>4. offset \in [Zeroers -> {"none", "good", "bad"}]
    BY DEF ZeroInit
  <2>. QED
    BY <2>1, <2>2, <2>3, <2>4 DEF ZeroInit, ZeroTypeOK
<1>3. \A s \in Zeroers : zeroing[s] = "idle"
  BY DEF ZeroInit
<1>4. \A s \in Zeroers : Progress(s)
  BY <1>3 DEF Progress, AfterZero
<1>. QED
  BY <1>2, <1>3, <1>4 DEF ZeroInv, Averaged, Unmixed, Alone, Told, ZeroInit

-----------------------------------------------------------------------------
(* The types *)

LEMMA ZeroTypes ==
  ASSUME ZeroInv, [ZeroNext]_zeroVars
  PROVE  ZeroTypeOK' /\ Averaged'
<1> USE ZeroConstants DEF ZeroInv, ZeroTypeOK, Averaged
<1>1. ASSUME Reading PROVE ZeroTypeOK' /\ Averaged'
  BY <1>1 DEF Reading
<1>2. ASSUME PushReading PROVE ZeroTypeOK' /\ Averaged'
  <2> DEFINE x == Head(inFlight)
             room == Len(buffer) < Capacity
  <2>1. x \in BOOLEAN /\ inFlight' \in Seq(BOOLEAN)
    BY <1>2, HeadTailProperties DEF PushReading
  <2>2. buffer' = IF room THEN Append(buffer, x) ELSE Tail(Append(buffer, x))
    BY <1>2 DEF PushReading
  <2>3. buffer' \in Seq(BOOLEAN) /\ Len(buffer') = IF room THEN Len(buffer) + 1 ELSE Len(buffer)
    <3>1. room \in BOOLEAN /\ 0 \in Nat
      OBVIOUS
    <3> HIDE DEF x, room
    <3>. QED
      BY <2>1, <2>2, <3>1, PushFacts
  <2>4. Len(buffer') <= Capacity
    BY <2>3
  <2>5. pushed' \in [Zeroers -> 0 .. SampleCount]
    BY <1>2 DEF PushReading, Pushed
  <2>. QED
    BY <1>2, <2>1, <2>3, <2>4, <2>5 DEF PushReading
<1>3. ASSUME ClearReadings PROVE ZeroTypeOK' /\ Averaged'
  BY <1>3 DEF ClearReadings
<1>4. ASSUME RestoreCorrB PROVE ZeroTypeOK' /\ Averaged'
  BY <1>4 DEF RestoreCorrB
<1>5. ASSUME NEW s \in Zeroers, StartZeroing(s) PROVE ZeroTypeOK' /\ Averaged'
  BY <1>5 DEF StartZeroing, Moves
<1>6. ASSUME NEW s \in Zeroers, Zero(s) PROVE ZeroTypeOK' /\ Averaged'
  BY <1>6 DEF Zero, Moves
<1>7. ASSUME NEW s \in Zeroers, Baseline(s) PROVE ZeroTypeOK' /\ Averaged'
  <2>1. pushed' \in [Zeroers -> 0 .. SampleCount]
    BY <1>7 DEF Baseline
  <2>. QED
    BY <1>7, <2>1 DEF Baseline, Moves
<1>8. ASSUME NEW s \in Zeroers, Enough(s) \/ TimeOut(s) \/ NoReadings(s)
      PROVE  ZeroTypeOK' /\ Averaged'
  BY <1>8 DEF Enough, TimeOut, NoReadings, Ends, Moves
<1>9. ASSUME NEW s \in Zeroers, MeanOfLast(s) PROVE ZeroTypeOK' /\ Averaged'
  <2>1. offset' \in [Zeroers -> {"none", "good", "bad"}]
    BY <1>9 DEF MeanOfLast
  <2>2. offset'[s] \in {"good", "bad"} /\ \A t \in Zeroers \ {s} : offset'[t] = offset[t]
    BY <1>9 DEF MeanOfLast
  <2>3. /\ zeroing' \in [Zeroers -> {"idle", "zero", "baseline", "wait", "mean", "offset"}]
        /\ \A t \in Zeroers \ {s} : zeroing'[t] = zeroing[t]
    BY <1>9 DEF MeanOfLast, Moves
  <2>. QED
    BY <1>9, <2>1, <2>2, <2>3 DEF MeanOfLast
<1>10. ASSUME NEW s \in Zeroers, SetOffset(s) PROVE ZeroTypeOK' /\ Averaged'
  BY <1>10 DEF SetOffset, Moves
<1>11. ASSUME NEW s \in Zeroers, WriteFails(s, "zero", "zero") \/ WriteFails(s, "offset", offset[s])
       PROVE  ZeroTypeOK' /\ Averaged'
  BY <1>11 DEF WriteFails, Ends, Moves
<1>12. ASSUME NEW s \in Zeroers, ClientLeaves(s) PROVE ZeroTypeOK' /\ Averaged'
  BY <1>12 DEF ClientLeaves
<1>13. ASSUME UNCHANGED zeroVars PROVE ZeroTypeOK' /\ Averaged'
  BY <1>13 DEF zeroVars
<1>. QED
  BY <1>1, <1>2, <1>3, <1>4, <1>5, <1>6, <1>7, <1>8, <1>9, <1>10, <1>11, <1>12, <1>13
     DEF ZeroNext

-----------------------------------------------------------------------------
(* An offset left at zero *)

LEMMA ZeroIsTold ==
  ASSUME ZeroInv, [ZeroNext]_zeroVars
  PROVE  Told'
<1> USE DEF ZeroInv, ZeroTypeOK, Told, AfterZero
<1>1. ASSUME Reading \/ PushReading \/ ClearReadings \/ UNCHANGED zeroVars PROVE Told'
  BY <1>1 DEF Reading, PushReading, ClearReadings, zeroVars
<1>2. ASSUME RestoreCorrB PROVE Told'
  BY <1>2 DEF RestoreCorrB
<1>3. ASSUME NEW s \in Zeroers, Zero(s) PROVE Told'
  BY <1>3 DEF Zero, Moves
<1>4. ASSUME NEW s \in Zeroers, StartZeroing(s) \/ Baseline(s) \/ Enough(s) \/ MeanOfLast(s)
      PROVE  Told'
  <2>1. /\ \A t \in Zeroers : zeroing[t] \in AfterZero => zeroing'[t] \in AfterZero
        /\ UNCHANGED <<corrB, excused>>
    BY <1>4 DEF StartZeroing, Baseline, Enough, MeanOfLast, Moves
  <2>. QED
    BY <2>1
<1>5. ASSUME NEW s \in Zeroers, SetOffset(s) PROVE Told'
  BY <1>5 DEF SetOffset
<1>6. ASSUME NEW s \in Zeroers,
             \/ TimeOut(s) \/ NoReadings(s) \/ ClientLeaves(s)
             \/ WriteFails(s, "zero", "zero") \/ WriteFails(s, "offset", offset[s])
      PROVE  Told'
  BY <1>6 DEF TimeOut, NoReadings, ClientLeaves, WriteFails, Ends
<1>. QED
  BY <1>1, <1>2, <1>3, <1>4, <1>5, <1>6 DEF ZeroNext

-----------------------------------------------------------------------------
(* Fresh readings only *)

\* The mean of the newest readings is that of fresh ones.
LEMMA MeanIsGood ==
  ASSUME ZeroTypeOK, buffer # <<>>, Fresh(buffer, SampleCount)
  PROVE  \A i \in LastOnes : buffer[i] = TRUE
<1>1. Len(buffer) \in Nat /\ DOMAIN buffer = 1 .. Len(buffer)
  BY LenProperties DEF ZeroTypeOK
<1>2. ASSUME NEW i \in LastOnes PROVE i \in 1 .. Len(buffer) /\ i > Len(buffer) - SampleCount
  BY <1>1, ZeroConstants DEF LastOnes
<1>. QED
  BY <1>2 DEF Fresh

LEMMA ZeroStaysFresh ==
  ASSUME ZeroInv, [ZeroNext]_zeroVars
  PROVE  Unmixed'
<1> SUFFICES ASSUME ~mixed'
             PROVE  Alone' /\ corrB' # "bad" /\ \A t \in Zeroers : Progress(t)'
  BY DEF Unmixed
<1>1. ~mixed
  BY DEF ZeroNext, zeroVars, Reading, PushReading, ClearReadings, RestoreCorrB, StartZeroing,
         Zero, Baseline, Enough, TimeOut, MeanOfLast, NoReadings, SetOffset, WriteFails,
         ClientLeaves
<1>2. Alone /\ corrB # "bad" /\ \A t \in Zeroers : Progress(t)
  BY <1>1 DEF ZeroInv, Unmixed
<1>3. ZeroTypeOK /\ Averaged
  BY DEF ZeroInv
<1> DEFINE Goal == Alone' /\ corrB' # "bad" /\ \A t \in Zeroers : Progress(t)'
\* A session that ends: the others are idle, and stay it.
<1>4. ASSUME NEW s \in Zeroers, zeroing[s] # "idle", zeroing' = [zeroing EXCEPT ![s] = "idle"],
             corrB' # "bad"
      PROVE  Goal
  <2>1. \A t \in Zeroers : zeroing'[t] = "idle"
    BY <1>2, <1>3, <1>4 DEF Alone, ZeroTypeOK
  <2>. QED
    BY <1>4, <2>1 DEF Alone, Progress, AfterZero
\* A session that goes on is the only one.
<1>5. ASSUME NEW s \in Zeroers, NEW to \in {"zero", "baseline", "wait", "mean", "offset"},
             zeroing' = [zeroing EXCEPT ![s] = to], corrB' # "bad", Progress(s)',
             \A t \in Zeroers \ {s} : zeroing[t] = "idle"
      PROVE  Goal
  <2>1. \A t \in Zeroers \ {s} : zeroing'[t] = "idle"
    BY <1>3, <1>5 DEF ZeroTypeOK
  <2>2. \A t \in Zeroers \ {s} : Progress(t)'
    BY <2>1 DEF Progress, AfterZero
  <2>. QED
    BY <1>5, <2>1, <2>2 DEF Alone
<1>6. ASSUME Reading PROVE Goal
  <2>1. inFlight \in Seq(BOOLEAN) /\ Len(inFlight) \in Nat /\ (corrB = "zero") \in BOOLEAN
    BY <1>3, LenProperties DEF ZeroTypeOK
  <2>2. ASSUME corrB = "zero", \A i \in 1 .. Len(inFlight) : inFlight[i] = TRUE
        PROVE  \A i \in 1 .. Len(inFlight') : inFlight'[i] = TRUE
    <3>1. inFlight' = Append(inFlight, TRUE)
      BY <1>6, <2>2 DEF Reading
    <3>. QED
      BY <2>1, <2>2, <3>1, AppendProperties
  <2>3. UNCHANGED <<corrB, buffer, zeroing, pushed, offset>>
    BY <1>6 DEF Reading
  <2>. QED
    BY <1>2, <2>2, <2>3 DEF Alone, Progress, AfterZero
<1>7. ASSUME PushReading PROVE Goal
  <2> DEFINE x == Head(inFlight)
             room == Len(buffer) < Capacity
  <2>1. /\ x \in BOOLEAN /\ x = inFlight[1] /\ Len(inFlight) \in Nat /\ Len(inFlight) >= 1
        /\ inFlight' \in Seq(BOOLEAN) /\ Len(inFlight') = Len(inFlight) - 1
        /\ \A i \in 1 .. Len(inFlight') : inFlight'[i] = inFlight[i + 1]
    BY <1>3, <1>7, HeadTailProperties, EmptySeq, LenProperties DEF PushReading, ZeroTypeOK
  <2>2. buffer' = IF room THEN Append(buffer, x) ELSE Tail(Append(buffer, x))
    BY <1>7 DEF PushReading
  <2>3. UNCHANGED <<corrB, zeroing, offset>>
    BY <1>7 DEF PushReading
  <2>4. ASSUME NEW t \in Zeroers PROVE Progress(t)'
    <3>1. /\ pushed[t] \in Nat
          /\ pushed'[t] = pushed[t] \/ pushed'[t] = pushed[t] + 1
          /\ zeroing[t] = "mean" => pushed'[t] = pushed[t]
      BY <1>3, <1>7, ZeroConstants DEF PushReading, Pushed, ZeroTypeOK
    <3>2. ASSUME zeroing[t] \in {"wait", "mean"}
          PROVE  /\ \A i \in 1 .. Len(inFlight') : inFlight'[i] = TRUE
                 /\ Fresh(buffer', pushed'[t])
      <4>1. (\A i \in 1 .. Len(inFlight) : inFlight[i] = TRUE) /\ Fresh(buffer, pushed[t])
        BY <1>2, <3>2 DEF Progress
      <4>2. x = TRUE /\ \A i \in 1 .. Len(inFlight') : inFlight'[i] = TRUE
        <5>1. 1 \in 1 .. Len(inFlight)
          BY <2>1
        <5>2. \A i \in 1 .. Len(inFlight') : i + 1 \in 1 .. Len(inFlight)
          BY <2>1
        <5>. QED
          BY <2>1, <4>1, <5>1, <5>2
      <4>3. room \in BOOLEAN /\ buffer \in Seq(BOOLEAN)
        BY <1>3 DEF ZeroTypeOK
      <4>4. Fresh(buffer', pushed[t]) /\ Fresh(buffer', pushed[t] + 1)
        <5> DEFINE pushedTo == IF room THEN Append(buffer, x) ELSE Tail(Append(buffer, x))
        <5>1. Fresh(pushedTo, pushed[t]) /\ Fresh(pushedTo, pushed[t] + 1)
          <6> HIDE DEF x, room
          <6>. QED
            BY <2>1, <3>1, <4>1, <4>2, <4>3, PushFacts
        <5>2. buffer' = pushedTo
          BY <2>2
        <5> HIDE DEF pushedTo
        <5>. QED
          BY <5>1, <5>2
      <4>. QED
        BY <3>1, <4>2, <4>4
    <3>3. Progress(t)
      BY <1>2
    <3>. QED
      BY <2>3, <3>1, <3>2, <3>3 DEF Progress
  <2>. QED
    BY <1>2, <2>3, <2>4 DEF Alone
<1>8. ASSUME ClearReadings PROVE Goal
  <2>1. Len(buffer') = 0 /\ UNCHANGED <<corrB, inFlight, zeroing, pushed, offset>>
    BY <1>8 DEF ClearReadings
  <2>2. \A n \in Nat : Fresh(buffer', n)
    BY <2>1 DEF Fresh
  <2>3. \A t \in Zeroers : pushed[t] \in Nat
    BY <1>3 DEF ZeroTypeOK
  <2>. QED
    BY <1>2, <2>1, <2>2, <2>3 DEF Alone, Progress
<1>9. ASSUME RestoreCorrB PROVE Goal
  BY <1>2, <1>9 DEF RestoreCorrB, Alone, Progress
<1>10. ASSUME NEW s \in Zeroers, StartZeroing(s) PROVE Goal
  <2>1. \A t \in Zeroers : zeroing[t] = "idle"
    BY <1>10 DEF StartZeroing
  <2>2. Progress(s)'
    BY <1>3, <1>10 DEF StartZeroing, Moves, Progress, AfterZero, ZeroTypeOK
  <2>. QED
    BY <1>2, <1>5, <1>10, <2>1, <2>2 DEF StartZeroing, Moves
<1>11. ASSUME NEW s \in Zeroers,
              zeroing[s] # "idle"
       PROVE  \A t \in Zeroers \ {s} : zeroing[t] = "idle"
  BY <1>2, <1>11 DEF Alone
<1>12. ASSUME NEW s \in Zeroers, Zero(s) PROVE Goal
  <2>1. Progress(s)'
    BY <1>3, <1>12 DEF Zero, Moves, Progress, AfterZero, ZeroTypeOK
  <2>. QED
    BY <1>2, <1>5, <1>11, <1>12, <2>1 DEF Zero, Moves
<1>13. ASSUME NEW s \in Zeroers, Baseline(s) PROVE Goal
  <2>1. corrB' = "zero" /\ zeroing'[s] = "wait" /\ pushed'[s] = 0
    BY <1>2, <1>3, <1>13 DEF Baseline, Moves, Progress, AfterZero, ZeroTypeOK
  <2>2. \A i \in 1 .. Len(inFlight') : inFlight'[i] = TRUE
    <3>1. DOMAIN inFlight = 1 .. Len(inFlight) /\ inFlight \in Seq(BOOLEAN) /\ inFlight' = inFlight
      BY <1>3, <1>13, LenProperties DEF Baseline, ZeroTypeOK
    <3>2. \A i \in DOMAIN inFlight : inFlight[i] \in BOOLEAN
      BY <3>1, ElementOfSeq
    <3>3. \A i \in DOMAIN inFlight : inFlight[i]
      BY <1>13 DEF Baseline
    <3>. QED
      BY <3>1, <3>2, <3>3
  <2>3. Fresh(buffer', pushed'[s])
    BY <1>3, <1>13, <2>1, LenProperties DEF Baseline, Fresh, ZeroTypeOK
  <2>4. Progress(s)'
    BY <2>1, <2>2, <2>3 DEF Progress
  <2>. QED
    BY <1>2, <1>5, <1>11, <1>13, <2>1, <2>4 DEF Baseline, Moves
<1>14. ASSUME NEW s \in Zeroers, Enough(s) PROVE Goal
  <2>1. pushed[s] = SampleCount
    BY <1>3, <1>14, ZeroConstants DEF Enough, ZeroTypeOK
  <2>2. Progress(s)'
    BY <1>2, <1>3, <1>14, <2>1 DEF Enough, Moves, Progress, AfterZero, ZeroTypeOK
  <2>. QED
    BY <1>2, <1>5, <1>11, <1>14, <2>2 DEF Enough, Moves
<1>15. ASSUME NEW s \in Zeroers, MeanOfLast(s) PROVE Goal
  <2>1. buffer # <<>> /\ Fresh(buffer, SampleCount) /\ corrB = "zero"
    BY <1>2, <1>15 DEF MeanOfLast, Moves, Progress, AfterZero
  <2>2. \A i \in LastOnes : buffer[i] = TRUE
    BY <1>3, <2>1, MeanIsGood
  <2>3. offset'[s] = "good" /\ zeroing'[s] = "offset" /\ corrB' = "zero"
    BY <1>3, <1>15, <2>1, <2>2 DEF MeanOfLast, Moves, ZeroTypeOK
  <2>4. Progress(s)'
    BY <2>3 DEF Progress
  <2>. QED
    BY <1>5, <1>11, <1>15, <2>3, <2>4 DEF MeanOfLast, Moves
<1>16. ASSUME NEW s \in Zeroers, TimeOut(s) \/ NoReadings(s) PROVE Goal
  BY <1>2, <1>4, <1>16 DEF TimeOut, NoReadings, Ends, Moves
<1>17. ASSUME NEW s \in Zeroers, zeroing[s] = "offset" PROVE offset[s] = "good"
  BY <1>2, <1>17 DEF Progress
<1>18. ASSUME NEW s \in Zeroers, SetOffset(s) PROVE Goal
  BY <1>4, <1>17, <1>18 DEF SetOffset, Moves
<1>19. ASSUME NEW s \in Zeroers,
              WriteFails(s, "zero", "zero") \/ WriteFails(s, "offset", offset[s])
       PROVE  Goal
  BY <1>2, <1>4, <1>17, <1>19 DEF WriteFails, Ends, Moves
<1>20. ASSUME NEW s \in Zeroers, ClientLeaves(s) PROVE Goal
  BY <1>2, <1>4, <1>17, <1>20 DEF ClientLeaves
<1>21. ASSUME UNCHANGED zeroVars PROVE Goal
  BY <1>2, <1>21 DEF zeroVars, Alone, Progress
<1>. QED
  BY <1>6, <1>7, <1>8, <1>9, <1>10, <1>12, <1>13, <1>14, <1>15, <1>16, <1>18, <1>19, <1>20,
     <1>21 DEF ZeroNext

LEMMA ZeroStep == ZeroInv /\ [ZeroNext]_zeroVars => ZeroInv'
BY ZeroTypes, ZeroIsTold, ZeroStaysFresh DEF ZeroInv

\* The inductive invariant of a zeroing.
LEMMA ZeroInvHolds == ZeroSpec => []ZeroInv
BY ZeroInitHolds, ZeroStep, PTL DEF ZeroSpec

\* Types: a count of pushed readings never passes the number of samples, and the buffer
\* never its capacity.
THEOREM ZeroTypesHold == ZeroSpec => []ZeroTypeOK
<1>1. ZeroInv => ZeroTypeOK
  BY DEF ZeroInv
<1>. QED
  BY <1>1, ZeroInvHolds, PTL

\* Only a zeroing that overlapped another, or took its baseline with old readings on
\* their way, writes an offset that averages a reading of before it.
THEOREM OffsetStaysTrue == ZeroSpec => []OffsetIsTrue
<1>1. ZeroInv => OffsetIsTrue
  BY DEF ZeroInv, Unmixed, OffsetIsTrue, ZeroTypeOK
<1>. QED
  BY <1>1, ZeroInvHolds, PTL

\* No zeroing ends in silence with the offset left at 0.
THEOREM ZeroIsAnnounced == ZeroSpec => []LeftAtZeroIsTold
<1>1. ZeroInv => LeftAtZeroIsTold
  BY DEF ZeroInv, Told, AfterZero, LeftAtZeroIsTold
<1>. QED
  BY <1>1, ZeroInvHolds, PTL

-----------------------------------------------------------------------------
(* PeakWindow *)

\* The first writes of a sweep are done.
LaidOut(n) == \A i \in 1 .. n : window[Order[i]] = ComputedWindow(Order[i])

\* A sweep that is aligned located the peak, and what it has written is in place.
OnPeak ==
  aligned =>
    /\ located = peak
    /\ sweep = "write" => LaidOut(next - 1)
    /\ sweep # "write" => LaidOut(Len(Order))

PeakInv == PeakTypeOK /\ OnPeak

-----------------------------------------------------------------------------
LEMMA PeakConstants ==
  /\ Peaks \subseteq Nat /\ Peaks # {}
  /\ Defaults \in [Keys -> Int]
  /\ Defaults.peak_low \in Int /\ Defaults.peak_high \in Int
  /\ Defaults.base_low \in Int /\ Defaults.base_high \in Int
BY PeakAssumption DEF PeakAssumption, Keys

LEMMA OrderFacts ==
  /\ Len(Order) = 4
  /\ Order[1] = "peak_low" /\ Order[2] = "peak_high"
  /\ Order[3] = "base_low" /\ Order[4] = "base_high"
  /\ \A i \in 1 .. 4 : Order[i] \in Keys
BY DEF Order, Keys

\* Truncation moves a value by less than a sample, towards zero.
LEMMA TruncatedFacts ==
  ASSUME NEW x \in Int
  PROVE  /\ Truncated(x) \in Int
         /\ x >= 0 => 2 * Truncated(x) \in {x, x - 1}
         /\ x < 0  => 2 * Truncated(x) \in {x, x + 1}
<1>1. ASSUME NEW y \in Int
      PROVE  y \div 2 \in Int /\ 2 * (y \div 2) \in {y, y - 1}
  OBVIOUS
<1>2. CASE x >= 0
  BY <1>1, <1>2 DEF Truncated
<1>3. CASE x < 0
  <2>1. -x \in Int
    OBVIOUS
  <2>. QED
    BY <1>1, <1>3, <2>1 DEF Truncated
<1>. QED
  BY <1>2, <1>3

LEMMA ComputedFacts ==
  ASSUME located \in Int, NEW key \in Keys
  PROVE  ComputedWindow(key) \in Int /\ PeakOffset \in Int /\ Anchor \in Int
<1>1. PeakOffset \in Int
  BY PeakConstants DEF PeakOffset
<1>2. Anchor \in Int
  BY <1>1 DEF Anchor
<1>3. /\ located + 2 * PeakOffset \in Int
      /\ Anchor - 2 * (Defaults.peak_low - Defaults.base_low) \in Int
      /\ Anchor - 2 * (Defaults.peak_high - Defaults.base_high) \in Int
  BY <1>1, <1>2, PeakConstants
<1>. QED
  BY <1>1, <1>2, <1>3, TruncatedFacts DEF ComputedWindow, Keys

LEMMA PeakInitHolds == PeakInit => PeakInv
<1> SUFFICES ASSUME PeakInit PROVE PeakInv
  OBVIOUS
<1>1. counts \in [{"sweeps", "restores", "faults"} -> Nat]
  BY DEF PeakInit
<1>2. 1 \in 1 .. Len(Order)
  BY OrderFacts
<1>. QED
  BY <1>1, <1>2, PeakConstants DEF PeakInit, PeakInv, PeakTypeOK, OnPeak

-----------------------------------------------------------------------------
LEMMA CountFacts ==
  ASSUME PeakTypeOK, NEW what \in {"sweeps", "restores", "faults"}, NEW max, Count(what, max)
  PROVE  counts' \in [{"sweeps", "restores", "faults"} -> Nat]
BY DEF PeakTypeOK, Count

LEMMA NextWriteFacts ==
  ASSUME PeakTypeOK, NextWrite
  PROVE  /\ next' \in 1 .. Len(Order)
         /\ sweep' \in {"idle", "write"}
         /\ sweep' = "write" => next' = next + 1
         /\ sweep' = "idle" => next = Len(Order)
BY OrderFacts DEF PeakTypeOK, NextWrite

LEMMA WrittenFacts ==
  ASSUME PeakTypeOK
  PROVE  /\ Written \in [Keys -> Int] /\ next \in 1 .. 4
         /\ Written[Order[next]] = ComputedWindow(Order[next])
         /\ \A i \in 1 .. 4 : i # next => Written[Order[i]] = window[Order[i]]
<1>1. next \in 1 .. 4 /\ window \in [Keys -> Int] /\ located \in Int
  BY OrderFacts, PeakConstants DEF PeakTypeOK
<1>2. Order[next] \in Keys
  BY <1>1, OrderFacts
<1>3. ComputedWindow(Order[next]) \in Int
  BY <1>1, <1>2, ComputedFacts
<1>4. \A i \in 1 .. 4 : i # next => Order[i] # Order[next] /\ Order[i] \in Keys
  BY <1>1, OrderFacts
<1>. QED
  BY <1>1, <1>2, <1>3, <1>4 DEF Written

LEMMA PeakTypes ==
  ASSUME PeakTypeOK, [PeakNext]_peakVars
  PROVE  PeakTypeOK'
<1> USE DEF PeakTypeOK, sweeper, checker
<1>1. ASSUME BeamTurns PROVE PeakTypeOK'
  BY <1>1 DEF BeamTurns
<1>2. ASSUME NEW key \in Keys, RestoreWindow(key) PROVE PeakTypeOK'
  <2>1. counts' \in [{"sweeps", "restores", "faults"} -> Nat]
    BY <1>2, CountFacts DEF RestoreWindow
  <2>2. window' \in [Keys -> Int]
    BY <1>2, PeakConstants DEF RestoreWindow
  <2>. QED
    BY <1>2, <2>1, <2>2 DEF RestoreWindow
<1>3. ASSUME StartSweep \/ CollectFails \/ SweepCut PROVE PeakTypeOK'
  <2>1. counts' \in [{"sweeps", "restores", "faults"} -> Nat]
    BY <1>3, CountFacts DEF StartSweep, CollectFails, SweepCut
  <2>. QED
    BY <1>3, <2>1 DEF StartSweep, CollectFails, SweepCut
<1>4. ASSUME Collect PROVE PeakTypeOK'
  BY <1>4, OrderFacts DEF Collect
<1>5. ASSUME WriteWindow PROVE PeakTypeOK'
  BY <1>5, NextWriteFacts, WrittenFacts DEF WriteWindow
<1>6. ASSUME WindowWriteFails PROVE PeakTypeOK'
  <2>1. counts' \in [{"sweeps", "restores", "faults"} -> Nat]
    BY <1>6, CountFacts DEF WindowWriteFails
  <2>. QED
    BY <1>6, <2>1, NextWriteFacts, WrittenFacts DEF WindowWriteFails
<1>7. ASSUME Poll \/ Compare \/ Announce PROVE PeakTypeOK'
  BY <1>7 DEF Poll, Compare, Announce
<1>8. ASSUME ReadLow \/ ReadHigh PROVE PeakTypeOK'
  <2>1. window.peak_low \in Int /\ window.peak_high \in Int
    BY DEF Keys
  <2>. QED
    BY <1>8, <2>1 DEF ReadLow, ReadHigh
<1>9. ASSUME CheckFails PROVE PeakTypeOK'
  <2>1. counts' \in [{"sweeps", "restores", "faults"} -> Nat]
    BY <1>9, CountFacts DEF CheckFails
  <2>. QED
    BY <1>9, <2>1 DEF CheckFails
<1>10. ASSUME Judge PROVE PeakTypeOK'
  <2>1. lastChecked' \in (Int \cup {Unread}) \X (Int \cup {Unread})
    BY <1>10 DEF Judge
  <2>2. misaligned' \in BOOLEAN /\ check' \in {"announce", "idle"}
    BY <1>10 DEF Judge
  <2>. QED
    BY <1>10, <2>1, <2>2 DEF Judge
<1>11. ASSUME UNCHANGED peakVars PROVE PeakTypeOK'
  BY <1>11 DEF peakVars
<1>. QED
  BY <1>1, <1>2, <1>3, <1>4, <1>5, <1>6, <1>7, <1>8, <1>9, <1>10, <1>11
     DEF PeakNext, SweepStep, CheckStep

-----------------------------------------------------------------------------
LEMMA PeakStaysLocated ==
  ASSUME PeakInv, [PeakNext]_peakVars
  PROVE  OnPeak'
<1> USE DEF PeakInv, OnPeak
<1>1. ASSUME (\E key \in Keys : RestoreWindow(key)) \/ WindowWriteFails \/ SweepCut
      PROVE  OnPeak'
  BY <1>1 DEF RestoreWindow, WindowWriteFails, SweepCut
<1>2. ASSUME UNCHANGED <<peak, window, sweep, next, located, aligned>> PROVE OnPeak'
  BY <1>2 DEF LaidOut, ComputedWindow, Anchor
<1>3. ASSUME StartSweep \/ CollectFails PROVE OnPeak'
  <2>1. sweep # "write" /\ sweep' # "write" /\ UNCHANGED <<peak, window, located, aligned>>
    BY <1>3 DEF StartSweep, CollectFails
  <2>. QED
    BY <2>1 DEF LaidOut, ComputedWindow, Anchor
<1>4. ASSUME Collect PROVE OnPeak'
  <2>1. sweep' = "write" /\ next' = 1 /\ (aligned' => located' = peak') 
    BY <1>4 DEF Collect
  <2>. QED
    BY <2>1 DEF LaidOut
<1>5. ASSUME WriteWindow PROVE OnPeak'
  <2>1. /\ sweep = "write" /\ window' = Written /\ NextWrite
        /\ UNCHANGED <<peak, located, aligned>>
    BY <1>5 DEF WriteWindow, NextWrite
  <2>2. \A i \in 1 .. 4 : ComputedWindow(Order[i])' = ComputedWindow(Order[i])
    BY <2>1 DEF ComputedWindow, Anchor
  <2>3. ASSUME aligned
        PROVE  \A i \in 1 .. next : window'[Order[i]] = ComputedWindow(Order[i])'
    <3>1. next \in 1 .. 4 /\ \A i \in 1 .. (next - 1) : window[Order[i]] = ComputedWindow(Order[i])
      BY <2>1, <2>3, WrittenFacts DEF LaidOut
    <3>2. ASSUME NEW i \in 1 .. next
          PROVE  window'[Order[i]] = ComputedWindow(Order[i])
      <4>1. i \in 1 .. 4 /\ (i # next => i \in 1 .. (next - 1))
        BY <3>1
      <4>. QED
        BY <2>1, <3>1, <4>1, WrittenFacts
    <3>. QED
      BY <2>2, <3>1, <3>2
  <2>4. next \in Nat
    BY WrittenFacts
  <2>. QED
    BY <2>1, <2>3, <2>4, NextWriteFacts, OrderFacts DEF LaidOut
<1>6. ASSUME BeamTurns \/ CheckStep PROVE OnPeak'
  BY <1>2, <1>6 DEF BeamTurns, CheckStep, Poll, ReadLow, ReadHigh, Compare, CheckFails, Judge,
     Announce, sweeper
<1>. QED
  BY <1>1, <1>2, <1>3, <1>4, <1>5, <1>6 DEF PeakNext, SweepStep, peakVars, sweeper

LEMMA PeakStep == PeakInv /\ [PeakNext]_peakVars => PeakInv'
BY PeakTypes, PeakStaysLocated DEF PeakInv

\* The inductive invariant of the windows.
LEMMA PeakInvHolds == PeakSpec => []PeakInv
BY PeakInitHolds, PeakStep, PTL DEF PeakSpec

\* Types: what is computed for a window is a whole number of samples.
THEOREM PeakTypesHold == PeakSpec => []PeakTypeOK
<1>1. PeakInv => PeakTypeOK
  BY DEF PeakInv
<1>. QED
  BY <1>1, PeakInvHolds, PTL

\* A sweep that nothing interfered with leaves a window with the peak in it, wherever
\* the peak is and whatever windows are configured.
THEOREM SweepLeavesPeakInside == PeakSpec => []SweepBracketsThePeak
<1>1. ASSUME PeakInv PROVE SweepBracketsThePeak
  <2>1. SUFFICES ASSUME aligned, sweep = "idle", PeakOffset >= 1
                 PROVE  /\ Bracketed
                        /\ Anchor >= 2 * (Defaults.peak_low - Defaults.base_low) /\ Anchor >= 0 =>
                             window.peak_low - window.base_low = Defaults.peak_low - Defaults.base_low
    BY DEF SweepBracketsThePeak
  <2>2. /\ located = peak /\ peak \in Nat
        /\ \A i \in 1 .. 4 : window[Order[i]] = ComputedWindow(Order[i])
    BY <1>1, <2>1, OrderFacts, PeakConstants DEF PeakInv, PeakTypeOK, OnPeak, LaidOut
  <2> DEFINE lead == Defaults.peak_low - Defaults.base_low
  <2>3. /\ window.peak_low = Truncated(Anchor)
        /\ window.peak_high = Truncated(peak + 2 * PeakOffset)
        /\ window.base_low = Truncated(Anchor - 2 * lead)
    BY <2>2, OrderFacts DEF ComputedWindow
  <2>4. Anchor = peak - 2 * PeakOffset /\ PeakOffset \in Int /\ Anchor \in Int /\ lead \in Int
    <3>1. "peak_low" \in Keys /\ located \in Int
      BY <2>2 DEF Keys
    <3>. QED
      BY <2>2, <3>1, ComputedFacts, PeakConstants DEF Anchor
  <2>5. Bracketed
    <3>1. 2 * Truncated(Anchor) <= peak
      BY <2>1, <2>2, <2>4, TruncatedFacts
    <3>2. 2 * Truncated(peak + 2 * PeakOffset) >= peak
      <4>1. peak + 2 * PeakOffset \in Int /\ peak + 2 * PeakOffset >= peak + 2
        BY <2>1, <2>2, <2>4
      <4>. QED
        BY <2>2, <4>1, TruncatedFacts
    <3>. QED
      BY <2>3, <3>1, <3>2 DEF Bracketed
  <2>6. ASSUME Anchor >= 2 * lead, Anchor >= 0
        PROVE  window.peak_low - window.base_low = lead
    <3>1. Anchor - 2 * lead \in Int /\ Anchor - 2 * lead >= 0
      BY <2>4, <2>6
    <3>2. (Anchor - 2 * lead) \div 2 = (Anchor \div 2) - lead
      BY <2>4
    <3>. QED
      BY <2>3, <2>4, <2>6, <3>1, <3>2 DEF Truncated
  <2>. QED
    BY <2>5, <2>6
<1>. QED
  BY <1>1, PeakInvHolds, PTL
===============================================================================
