---------------------------- MODULE Sessions_proofs ----------------------------
(***************************************************************************)
(* What the sessions may send, share and command, for any limit, number of *)
(* pages and callers, level and bound.                                     *)
(*                                                                         *)
(* Rate limiter: messages are taken in the order of the clock, and the     *)
(* window has forgotten only what is a second old; so everything since a   *)
(* recent message is still in it, and counted.                             *)
(*                                                                         *)
(* Shared settings: a mirror is wrong only as long as somebody is about to *)
(* put it right.  The last message on its way about a setting, or the last *)
(* thing the session is to be told, is what the server holds.              *)
(*                                                                         *)
(* Front-end box: a caller who is told Ok knows what the box holds.  While *)
(* the callers take turns only one of them is in the middle of a call, and *)
(* at each of its steps the box holds what that step has achieved.         *)
(*                                                                         *)
(* The connection of a page keeps its types; and everything around the     *)
(* sessions, put together as in MCSessions, does what it does alone.       *)
(***************************************************************************)
EXTENDS MCSessions, Files_proofs, FiniteSetTheorems, SequenceTheorems, TLAPS

-----------------------------------------------------------------------------
(* RateLimiter *)

Ordered ==
  /\ \A i, j \in DOMAIN taken : i <= j => taken[i] <= taken[j]
  /\ \A i \in DOMAIN taken : taken[i] <= clock

Forgotten == \A i \in DOMAIN taken \ commandTimes : clock - taken[i] >= Second

RateInv == RateTypeOK /\ Ordered /\ Forgotten /\ NeverOverTheRate

-----------------------------------------------------------------------------
(* The count of the window *)

\* A message with MaxPerSecond - 1 others after it, within the last second, leaves
\* no room in the window.
LEMMA WindowIsFull ==
  ASSUME RateTypeOK, Ordered, Forgotten,
         NEW k \in DOMAIN taken, k + MaxPerSecond = Len(taken) + 1,
         clock - taken[k] < Second
  PROVE  Cardinality(Retained) >= MaxPerSecond
<1> USE RateAssumption DEF RateAssumption
<1> DEFINE recent == k .. Len(taken)
<1>1. DOMAIN taken = 1 .. Len(taken) /\ Len(taken) \in Nat /\ k \in Nat
  BY DEF RateTypeOK
<1>2. recent \subseteq Retained
  <2>1. SUFFICES ASSUME NEW i \in recent
                 PROVE  i \in commandTimes /\ clock - taken[i] < Second
    BY DEF Retained
  <2>2. i \in DOMAIN taken /\ k <= i
    BY <1>1, <2>1
  <2>3. taken[k] <= taken[i] /\ taken[k] \in Nat /\ taken[i] \in Nat /\ clock \in Nat
    BY <2>2 DEF Ordered, RateTypeOK
  <2>4. clock - taken[i] < Second
    BY <2>3
  <2>5. i \in commandTimes
    BY <2>2, <2>3, <2>4 DEF Forgotten
  <2>. QED
    BY <2>4, <2>5
<1>3. Cardinality(recent) = MaxPerSecond
  <2>1. Cardinality(recent) = Len(taken) - k + 1
    BY <1>1, FS_Interval
  <2>. QED
    BY <1>1, <2>1
<1>4. IsFiniteSet(Retained)
  <2>1. IsFiniteSet(1 .. Len(taken))
    BY <1>1, FS_Interval
  <2>. QED
    BY <1>1, <2>1, FS_Subset DEF Retained, RateTypeOK
<1>5. Cardinality(recent) <= Cardinality(Retained)
  <2> HIDE DEF recent
  <2>. QED
    BY <1>2, <1>4, FS_Subset
<1>. QED
  BY <1>3, <1>5

-----------------------------------------------------------------------------
(* The inductive invariant *)

LEMMA NothingTaken == <<>> \in Seq(Nat) /\ DOMAIN <<>> = {}
OBVIOUS

LEMMA RateInitHolds == RateInit => RateInv
<1> SUFFICES ASSUME RateInit PROVE RateInv
  OBVIOUS
<1>1. clock \in Nat /\ taken \in Seq(Nat) /\ DOMAIN taken = {}
  BY NothingTaken DEF RateInit
<1>2. commandTimes = {} /\ executing \in BOOLEAN
  BY DEF RateInit
<1>. QED
  BY <1>1, <1>2 DEF RateInv, RateTypeOK, Ordered, Forgotten, NeverOverTheRate

LEMMA TakeKeepsTheRate ==
  ASSUME RateInv, NEW valid \in BOOLEAN, Take(valid)
  PROVE  RateInv'
<1> USE RateAssumption DEF RateAssumption
<1> DEFINE n == Len(taken)
<1>1. /\ DOMAIN taken = 1 .. n /\ n \in Nat /\ clock \in Nat
      /\ \A i \in 1 .. n : taken[i] \in Nat
      /\ taken' \in Seq(Nat) /\ Len(taken') = n + 1 /\ DOMAIN taken' = 1 .. (n + 1)
      /\ \A i \in 1 .. n : taken'[i] = taken[i]
      /\ taken'[n + 1] = clock
      /\ clock' = clock
      /\ commandTimes' = Retained \cup {n + 1}
  BY DEF RateInv, RateTypeOK, Take
<1> HIDE DEF n
<1>2. RateTypeOK'
  BY <1>1 DEF RateInv, RateTypeOK, Retained, Take
<1>3. Ordered'
  <2>1. ASSUME NEW i \in DOMAIN taken', NEW j \in DOMAIN taken', i <= j
        PROVE  taken'[i] <= taken'[j]
    <3>1. CASE j \in 1 .. n
      BY <1>1, <2>1, <3>1 DEF RateInv, Ordered
    <3>2. CASE j = n + 1
      BY <1>1, <2>1, <3>2 DEF RateInv, Ordered
    <3>. QED
      BY <1>1, <3>1, <3>2
  <2>2. \A i \in DOMAIN taken' : taken'[i] <= clock'
    BY <1>1 DEF RateInv, Ordered
  <2>. QED
    BY <2>1, <2>2 DEF Ordered
<1>4. Forgotten'
  <2>1. ASSUME NEW i \in DOMAIN taken' \ commandTimes'
        PROVE  clock' - taken'[i] >= Second
    <3>1. i \in 1 .. n /\ i \notin Retained
      BY <1>1
    <3>2. CASE i \in commandTimes
      BY <1>1, <3>1, <3>2 DEF Retained
    <3>3. CASE i \notin commandTimes
      BY <1>1, <3>1, <3>3 DEF RateInv, Forgotten
    <3>. QED
      BY <3>2, <3>3
  <2>. QED
    BY <2>1 DEF Forgotten
<1>5. NeverOverTheRate'
  <2>1. ASSUME NEW i \in DOMAIN taken', i + MaxPerSecond \in DOMAIN taken'
        PROVE  taken'[i + MaxPerSecond] - taken'[i] >= Second
    <3>1. CASE i + MaxPerSecond \in 1 .. n
      <4>1. i \in 1 .. n
        BY <1>1, <2>1, <3>1
      <4>. QED
        BY <1>1, <3>1, <4>1 DEF RateInv, NeverOverTheRate
    <3>2. CASE i + MaxPerSecond = n + 1
      <4>1. i \in DOMAIN taken
        BY <1>1, <3>2
      <4>2. ~(Cardinality(Retained) >= MaxPerSecond)
        <5>1. IsFiniteSet(Retained)
          <6>1. IsFiniteSet(1 .. n)
            BY <1>1, FS_Interval
          <6>. QED
            BY <1>1, <6>1, FS_Subset DEF Retained, RateInv, RateTypeOK
        <5>2. Cardinality(Retained) \in Nat /\ Cardinality(Retained) < MaxPerSecond
          BY <5>1, FS_CardinalityType DEF Take
        <5>. QED
          BY <5>2
      <4>3. ~(clock - taken[i] < Second)
        BY <3>2, <4>1, <4>2, WindowIsFull DEF RateInv, n
      <4>. QED
        BY <1>1, <3>2, <4>1, <4>3
    <3>. QED
      BY <1>1, <2>1, <3>1, <3>2
  <2>. QED
    BY <2>1 DEF NeverOverTheRate
<1>. QED
  BY <1>2, <1>3, <1>4, <1>5 DEF RateInv

LEMMA StepKeepsTheRate == RateInv /\ [RateNext]_rateVars => RateInv'
<1> SUFFICES ASSUME RateInv, [RateNext]_rateVars PROVE RateInv'
  OBVIOUS
<1> USE RateAssumption DEF RateAssumption
<1>1. CASE ClockTicks
  <2>1. \A i \in DOMAIN taken : taken[i] \in Nat
    BY DEF RateInv, RateTypeOK
  <2>. QED
    BY <1>1, <2>1 DEF ClockTicks, RateInv, RateTypeOK, Ordered, Forgotten, NeverOverTheRate
<1>2. CASE Drop
  <2>1. \A i \in DOMAIN taken : taken[i] \in Nat
    BY DEF RateInv, RateTypeOK
  <2>2. Forgotten'
    <3>1. ASSUME NEW i \in DOMAIN taken, i \notin Retained
          PROVE  clock - taken[i] >= Second
      BY <2>1, <3>1 DEF RateInv, RateTypeOK, Forgotten, Retained
    <3>. QED
      BY <1>2, <3>1 DEF Drop, Forgotten
  <2>. QED
    BY <1>2, <2>2 DEF Drop, RateInv, RateTypeOK, Ordered, NeverOverTheRate, Retained
<1>3. CASE CommandEnds
  BY <1>3 DEF CommandEnds, RateInv, RateTypeOK, Ordered, Forgotten, NeverOverTheRate
<1>4. CASE NewConnection
  <2>1. clock' \in Nat /\ taken' \in Seq(Nat) /\ DOMAIN taken' = {}
    BY <1>4, NothingTaken DEF NewConnection, RateInv, RateTypeOK
  <2>2. commandTimes' = {} /\ executing' \in BOOLEAN
    BY <1>4 DEF NewConnection
  <2>. QED
    BY <2>1, <2>2 DEF RateInv, RateTypeOK, Ordered, Forgotten, NeverOverTheRate
<1>5. ASSUME NEW valid \in BOOLEAN, Take(valid)
      PROVE  RateInv'
  BY <1>5, TakeKeepsTheRate
<1>6. CASE UNCHANGED rateVars
  BY <1>6 DEF rateVars, RateInv, RateTypeOK, Ordered, Forgotten, NeverOverTheRate
<1>. QED
  BY <1>1, <1>2, <1>3, <1>4, <1>5, <1>6 DEF RateNext

-----------------------------------------------------------------------------
\* The state of the rate limiter keeps its types: its window never holds a time it was
\* not given, whatever the messages.
THEOREM RateTypesHold == RateSpec => []RateTypeOK
<1>1. RateInv => RateTypeOK
  BY DEF RateInv
<1>. QED
  BY RateInitHolds, StepKeepsTheRate, <1>1, PTL DEF RateSpec

\* Of any MaxPerSecond + 1 messages taken in a row, the last is a second or more after
\* the first.
THEOREM RateIsKept == RateSpec => []NeverOverTheRate
<1>1. RateInv => NeverOverTheRate
  BY DEF RateInv
<1>. QED
  BY RateInitHolds, StepKeepsTheRate, <1>1, PTL DEF RateSpec

-----------------------------------------------------------------------------
(* SharedSettings *)

\* The sessions that have written a setting and not yet announced it.
Announcers(name) == {q \in Tabs : writing[q] # Nothing /\ writing[q].name = name}

\* What is still to be announced of a setting is what the server uses.
Truthful(name) == \A q \in Announcers(name) : writing[q].value = shared[name]

\* The last message of a sequence about a setting; and none at all.
Latest(s, name, i) ==
  s[i].name = name /\ \A j \in 1 .. Len(s) : j > i => s[j].name # name
Silent(s, name) == \A i \in 1 .. Len(s) : s[i].name # name

Asked(p, name) == sent[p] # Nothing /\ sent[p].name = name

\* The last message decides: it says what the server uses, and without one the page
\* shows that already, or has asked for something else.
OnTrack(p, name) ==
  /\ Truthful(name)
  /\ Announcers(name) = {} =>
       /\ \A i \in 1 .. Len(news[p]) :
            Latest(news[p], name, i) => news[p][i].value = shared[name]
       /\ Silent(news[p], name) => mirror[p][name] = shared[name] \/ Asked(p, name)

Tracked ==
  \A p \in online, name \in SettingNames :
    <<p, name>> \notin offTrack => OnTrack(p, name)

SettingsInv == SettingsTypeOK /\ Tracked

-----------------------------------------------------------------------------
LEMMA SettingsConstants ==
  /\ Typed \subseteq Nat /\ MinSize \in Nat /\ MaxSize \in Nat /\ MinSize <= MaxSize
  /\ Capacity \in Nat /\ Capacity > 0 /\ Nothing \notin Changes
  /\ Sizes \subseteq Nat /\ MinSize \in Sizes /\ MaxSize \in Sizes /\ Typed \subseteq Sizes
BY SettingsAssumption DEF SettingsAssumption, Sizes

LEMMA ChangeTypes ==
  ASSUME NEW c \in Changes
  PROVE  /\ c.name \in SettingNames
         /\ c.name = "size" => c.value \in Sizes
         /\ c.name = "gain" => c.value \in BOOLEAN
BY DEF Changes, SettingNames

\* One setting of a record is replaced.
LEMMA ReplacedValue ==
  ASSUME NEW r \in Values, NEW c \in Changes
  PROVE  LET u == [r EXCEPT ![c.name] = c.value]
         IN  /\ u \in Values /\ u[c.name] = c.value
             /\ \A name \in SettingNames : name # c.name => u[name] = r[name]
<1>1. CASE c.name = "size"
  <2>1. c.value \in Sizes
    BY <1>1, ChangeTypes
  <2>. QED
    BY <1>1, <2>1 DEF Values, SettingNames
<1>2. CASE c.name = "gain"
  <2>1. c.value \in BOOLEAN
    BY <1>2, ChangeTypes
  <2>. QED
    BY <1>2, <2>1 DEF Values, SettingNames
<1>. QED
  BY <1>1, <1>2, ChangeTypes DEF SettingNames

LEMMA ClampedFacts ==
  ASSUME NEW c \in Changes
  PROVE  /\ Clamped(c) \in Changes /\ Clamped(c).name = c.name
         /\ c.name = "size" => Clamped(c).value \in MinSize .. MaxSize
<1>1. CASE c.name = "size"
  <2> DEFINE v == IF c.value < MinSize THEN MinSize ELSE IF c.value > MaxSize THEN MaxSize ELSE c.value
  <2>1. c.value \in Sizes /\ c.value \in Nat
    BY <1>1, ChangeTypes, SettingsConstants
  <2>2. v \in Sizes /\ v \in MinSize .. MaxSize
    BY <2>1, SettingsConstants
  <2>3. Clamped(c) = [c EXCEPT !.value = v]
    BY <1>1 DEF Clamped
  <2> HIDE DEF v
  <2>4. c \in [name : {"size"}, value : Sizes]
    BY <1>1 DEF Changes
  <2>. QED
    BY <2>2, <2>3, <2>4 DEF Changes
<1>2. CASE c.name # "size"
  BY <1>2 DEF Clamped
<1>. QED
  BY <1>1, <1>2

-----------------------------------------------------------------------------
(* Sequences of messages *)

LEMMA TailSays ==
  ASSUME NEW s \in Seq(Changes), s # <<>>, NEW name
  PROVE  /\ Tail(s) \in Seq(Changes) /\ Head(s) \in Changes
         /\ \A i \in 1 .. Len(Tail(s)) : Latest(Tail(s), name, i) =>
              /\ i + 1 \in 1 .. Len(s) /\ Latest(s, name, i + 1)
              /\ Tail(s)[i] = s[i + 1]
         /\ Silent(Tail(s), name) /\ Head(s).name # name => Silent(s, name)
         /\ Silent(Tail(s), name) /\ Head(s).name = name =>
              1 \in 1 .. Len(s) /\ Latest(s, name, 1) /\ s[1] = Head(s)
<1> DEFINE t == Tail(s)
           n == Len(s)
<1>1. /\ t \in Seq(Changes) /\ Head(s) \in Changes /\ Head(s) = s[1] /\ Len(t) = n - 1
      /\ n \in Nat /\ n >= 1 /\ \A i \in 1 .. (n - 1) : t[i] = s[i + 1]
  BY HeadTailProperties, EmptySeq, LenProperties
<1> HIDE DEF t, n
<1>2. \A j \in 1 .. n : j = 1 \/ (j - 1 \in 1 .. (n - 1) /\ t[j - 1] = s[j])
  <2>1. SUFFICES ASSUME NEW j \in 1 .. n, j # 1
                 PROVE  j - 1 \in 1 .. (n - 1) /\ t[j - 1] = s[j]
    OBVIOUS
  <2>2. j - 1 \in 1 .. (n - 1) /\ (j - 1) + 1 = j
    BY <1>1, <2>1
  <2>. QED
    BY <1>1, <2>2
<1>3. ASSUME NEW i \in 1 .. (n - 1), Latest(t, name, i)
      PROVE  i + 1 \in 1 .. n /\ Latest(s, name, i + 1) /\ t[i] = s[i + 1]
  <2>1. i + 1 \in 1 .. n /\ t[i] = s[i + 1] /\ t[i].name = name
    BY <1>1, <1>3 DEF Latest
  <2>2. ASSUME NEW j \in 1 .. n, j > i + 1 PROVE s[j].name # name
    <3>1. j - 1 \in 1 .. (n - 1) /\ t[j - 1] = s[j] /\ j - 1 > i
      BY <1>1, <1>2, <2>2
    <3>. QED
      BY <1>1, <1>3, <3>1 DEF Latest
  <2>. QED
    BY <2>1, <2>2 DEF Latest, n
<1>4. ASSUME Silent(t, name) PROVE \A j \in 1 .. n : j > 1 => s[j].name # name
  <2>1. SUFFICES ASSUME NEW j \in 1 .. n, j > 1 PROVE s[j].name # name
    OBVIOUS
  <2>2. j - 1 \in 1 .. Len(t) /\ t[j - 1] = s[j]
    BY <1>1, <1>2, <2>1
  <2>. QED
    BY <1>4, <2>2 DEF Silent
<1>5. Silent(t, name) /\ Head(s).name # name => Silent(s, name)
  <2>1. \A j \in 1 .. n : j = 1 \/ j > 1
    BY <1>1
  <2>. QED
    BY <1>1, <1>4, <2>1 DEF Silent, n
<1>6. Silent(t, name) /\ Head(s).name = name =>
        1 \in 1 .. n /\ Latest(s, name, 1) /\ s[1] = Head(s)
  BY <1>1, <1>4 DEF Latest, n
<1>. QED
  BY <1>1, <1>3, <1>5, <1>6 DEF t, n

LEMMA AppendSays ==
  ASSUME NEW s \in Seq(Changes), NEW c \in Changes, NEW name
  PROVE  /\ Append(s, c) \in Seq(Changes)
         /\ \A i \in 1 .. Len(Append(s, c)) : Latest(Append(s, c), name, i) =>
              \/ c.name = name /\ Append(s, c)[i] = c
              \/ /\ c.name # name /\ i \in 1 .. Len(s)
                 /\ Latest(s, name, i) /\ Append(s, c)[i] = s[i]
         /\ Silent(Append(s, c), name) => c.name # name /\ Silent(s, name)
<1> DEFINE t == Append(s, c)
           n == Len(s)
<1>1. /\ t \in Seq(Changes) /\ Len(t) = n + 1 /\ n \in Nat
      /\ t[n + 1] = c /\ \A i \in 1 .. n : t[i] = s[i]
  BY AppendProperties, LenProperties
<1> HIDE DEF t, n
<1>2. ASSUME NEW i \in 1 .. (n + 1), Latest(t, name, i)
      PROVE  \/ c.name = name /\ t[i] = c
             \/ c.name # name /\ i \in 1 .. n /\ Latest(s, name, i) /\ t[i] = s[i]
  <2>1. CASE c.name = name
    <3>1. ~(n + 1 > i)
      BY <1>1, <1>2, <2>1 DEF Latest
    <3>2. i = n + 1
      BY <1>1, <3>1
    <3>. QED
      BY <1>1, <2>1, <3>2
  <2>2. CASE c.name # name
    <3>1. i # n + 1
      BY <1>1, <1>2, <2>2 DEF Latest
    <3>2. i \in 1 .. n /\ t[i] = s[i]
      BY <1>1, <3>1
    <3>3. \A j \in 1 .. n : j \in 1 .. (n + 1) /\ t[j] = s[j]
      BY <1>1
    <3>4. Latest(s, name, i)
      BY <1>1, <1>2, <3>2, <3>3 DEF Latest, n
    <3>. QED
      BY <2>2, <3>2, <3>4
  <2>. QED
    BY <2>1, <2>2
<1>3. ASSUME Silent(t, name) PROVE c.name # name /\ Silent(s, name)
  <2>1. \A j \in 1 .. n : j \in 1 .. (n + 1) /\ t[j] = s[j]
    BY <1>1
  <2>2. n + 1 \in 1 .. (n + 1)
    BY <1>1
  <2>. QED
    BY <1>1, <1>3, <2>1, <2>2 DEF Silent, n
<1>. QED
  BY <1>1, <1>2, <1>3 DEF t, n

LEMMA EmptySays == <<>> \in Seq(Changes) /\ Len(<<>>) = 0 /\ \A name : Silent(<<>>, name)
BY DEF Silent

-----------------------------------------------------------------------------
LEMMA SettingsInitHolds == SettingsInit => SettingsInv
<1> SUFFICES ASSUME SettingsInit PROVE SettingsInv
  OBVIOUS
<1>1. shared \in Values /\ shared.size \in MinSize .. MaxSize
  BY SettingsConstants DEF SettingsInit, Values
<1>2. mirror \in [Tabs -> Values]
  BY <1>1 DEF SettingsInit
<1>3. news \in [Tabs -> Seq(Changes)]
  BY EmptySays DEF SettingsInit
<1>. QED
  BY <1>1, <1>2, <1>3 DEF SettingsInit, SettingsInv, SettingsTypeOK, Tracked

\* Nothing about a page and a setting is different after a step.
LEMMA KeepsTrack ==
  ASSUME NEW p, NEW name, OnTrack(p, name), shared'[name] = shared[name], writing' = writing,
         news'[p] = news[p],
         \/ Asked(p, name)'
         \/ mirror'[p][name] = mirror[p][name] /\ ~Asked(p, name)
  PROVE  OnTrack(p, name)'
BY DEF OnTrack, Truthful, Announcers

-----------------------------------------------------------------------------
(* The page *)

LEMMA PageTracks ==
  ASSUME SettingsInv, NEW p \in Tabs,
         \/ Open(p) \/ Leave(p) \/ ClickAutoGain(p) \/ RateLimited(p)
         \/ \E size \in Typed : EditSize(p, size)
  PROVE  Tracked'
<1> USE DEF SettingsInv, SettingsTypeOK
<1> SUFFICES ASSUME NEW q \in online', NEW name \in SettingNames, <<q, name>> \notin offTrack'
             PROVE  OnTrack(q, name)'
  BY DEF Tracked
<1>1. CASE Open(p)
  <2>1. CASE q = p
    <3>1. news'[p] = <<>> /\ mirror'[p] = shared
      BY <1>1 DEF Open
    <3>2. name \notin Overtaken
      BY <1>1, <2>1 DEF Open
    <3>3. Truthful(name)
      BY <3>2 DEF Overtaken, Truthful, Announcers
    <3>4. UNCHANGED <<shared, writing>>
      BY <1>1 DEF Open
    <3>. QED
      BY <2>1, <3>1, <3>3, <3>4, EmptySays DEF OnTrack, Truthful, Announcers
  <2>2. CASE q # p
    <3>1. q \in online /\ news'[q] = news[q] /\ mirror'[q] = mirror[q]
      BY <1>1, <2>2 DEF Open
    <3>2. <<q, name>> \notin offTrack
      <4>1. <<q, name>>[1] = q
        OBVIOUS
      <4>. QED
        BY <1>1, <2>2, <4>1 DEF Open
    <3>3. UNCHANGED <<shared, writing, sent>>
      BY <1>1 DEF Open
    <3>. QED
      BY <3>1, <3>2, <3>3, KeepsTrack DEF Tracked, Asked
  <2>. QED
    BY <2>1, <2>2
<1>2. CASE Leave(p)
  <2>1. q \in online /\ q # p /\ news'[q] = news[q] /\ sent'[q] = sent[q] /\ q \in Tabs
    BY <1>2 DEF Leave
  <2>2. UNCHANGED <<shared, writing, mirror, offTrack>>
    BY <1>2 DEF Leave
  <2>. QED
    BY <2>1, <2>2, KeepsTrack DEF Tracked, Asked
<1>3. CASE RateLimited(p)
  <2>1. q \in online /\ <<q, name>> \notin offTrack /\ q \in Tabs
        /\ UNCHANGED <<shared, writing, mirror, news>>
    BY <1>3 DEF RateLimited
  <2>2. q = p => ~Asked(q, name)
    BY <1>3 DEF RateLimited, Asked
  <2>3. q # p => sent'[q] = sent[q]
    BY <1>3, <2>1 DEF RateLimited
  <2>. QED
    BY <2>1, <2>2, <2>3, KeepsTrack DEF Tracked, Asked
<1>4. CASE ClickAutoGain(p)
  <2>1. q \in online /\ <<q, name>> \notin offTrack /\ q \in Tabs
        /\ UNCHANGED <<shared, writing, mirror, news>>
    BY <1>4 DEF ClickAutoGain
  <2>2. q = p => ~Asked(q, name)
    BY <1>4 DEF ClickAutoGain, Asked
  <2>3. q # p => sent'[q] = sent[q]
    BY <1>4, <2>1 DEF ClickAutoGain, Send
  <2>. QED
    BY <2>1, <2>2, <2>3, KeepsTrack DEF Tracked, Asked
<1>5. ASSUME NEW size \in Typed, EditSize(p, size) PROVE OnTrack(q, name)'
  <2>1. q \in online /\ <<q, name>> \notin offTrack /\ q \in Tabs
        /\ UNCHANGED <<shared, writing, news>> /\ sent[p] = Nothing
    BY <1>5 DEF EditSize
  <2>2. CASE q # p
    <3>1. sent'[q] = sent[q] /\ mirror'[q] = mirror[q]
      BY <1>5, <2>1, <2>2 DEF EditSize, Send
    <3>. QED
      BY <2>1, <3>1, KeepsTrack DEF Tracked, Asked
  <2>3. CASE q = p /\ name = "size"
    <3>1. sent'[p] = Change("size", size)
      BY <1>5, <2>1, <2>3 DEF EditSize, Send
    <3>2. Change("size", size) \in Changes /\ Change("size", size).name = "size"
      BY SettingsConstants DEF Change, Changes
    <3>3. Asked(q, name)'
      BY <2>3, <3>1, <3>2, SettingsConstants DEF Asked
    <3>. QED
      BY <2>1, <3>3, KeepsTrack DEF Tracked
  <2>4. CASE q = p /\ name # "size"
    <3>1. mirror[p] \in Values /\ mirror' = [mirror EXCEPT ![p] = [mirror[p] EXCEPT !.size = size]]
      BY <1>5 DEF EditSize
    <3>2. mirror'[p][name] = mirror[p][name]
      BY <2>4, <3>1 DEF Values, SettingNames
    <3>. QED
      BY <2>1, <2>4, <3>2, KeepsTrack DEF Tracked, Asked
  <2>. QED
    BY <2>2, <2>3, <2>4
<1>. QED
  BY <1>1, <1>2, <1>3, <1>4, <1>5

-----------------------------------------------------------------------------
(* The session *)

LEMMA WriteTracks ==
  ASSUME SettingsInv, NEW p \in Tabs, Write(p)
  PROVE  Tracked'
<1> USE DEF SettingsInv, SettingsTypeOK
<1> DEFINE m == Clamped(sent[p])
<1>1. sent[p] \in Changes /\ m \in Changes /\ m.name = sent[p].name /\ m.name \in SettingNames
  BY ClampedFacts, ChangeTypes DEF Write
<1>2. /\ shared' = [shared EXCEPT ![m.name] = m.value]
      /\ writing' = [writing EXCEPT ![p] = m] /\ writing[p] = Nothing
      /\ offTrack' = IF Overlapped(p, m.name) THEN offTrack \cup (Tabs \X {m.name})
                                              ELSE offTrack \ (Tabs \X {m.name})
      /\ sent' = [sent EXCEPT ![p] = Nothing]
      /\ UNCHANGED <<online, mirror, news>>
  BY DEF Write
<1> HIDE DEF m
<1>3. /\ shared'[m.name] = m.value
      /\ \A name \in SettingNames : name # m.name => shared'[name] = shared[name]
  <2> DEFINE u == [shared EXCEPT ![m.name] = m.value]
  <2>1. u[m.name] = m.value /\ \A name \in SettingNames : name # m.name => u[name] = shared[name]
    <3>1. shared \in Values /\ m \in Changes
      BY <1>1
    <3> HIDE DEF SettingsInv, SettingsTypeOK
    <3>. QED
      BY <3>1, ReplacedValue
  <2>2. shared' = u
    BY <1>2
  <2> HIDE DEF u
  <2>. QED
    BY <2>1, <2>2
<1>4. writing'[p] = m /\ \A q \in Tabs \ {p} : writing'[q] = writing[q]
  BY <1>1, <1>2
<1> SUFFICES ASSUME NEW q \in online', NEW name \in SettingNames, <<q, name>> \notin offTrack'
             PROVE  OnTrack(q, name)'
  BY DEF Tracked
<1>5. q \in Tabs /\ q \in online
  BY <1>2
<1>6. CASE name = m.name
  <2>1. ~Overlapped(p, name)
    BY <1>2, <1>5, <1>6
  <2>2. Announcers(name)' = {p}
    BY <1>1, <1>4, <1>6, <2>1, SettingsConstants DEF Overlapped, Announcers
  <2>. QED
    BY <1>3, <1>4, <1>6, <2>2 DEF OnTrack, Truthful
<1>7. CASE name # m.name
  <2>1. OnTrack(q, name)
    BY <1>2, <1>5, <1>7 DEF Tracked
  <2>2. Announcers(name)' = Announcers(name)
    BY <1>2, <1>4, <1>7 DEF Announcers
  <2>3. Asked(q, name) => Asked(q, name)'
    BY <1>1, <1>2, <1>5, <1>7 DEF Asked
  <2>4. Truthful(name)'
    <3>1. \A r \in Announcers(name) : r # p /\ r \in Tabs
      BY <1>2 DEF Announcers
    <3>. QED
      BY <1>3, <1>4, <1>7, <2>1, <2>2, <3>1 DEF OnTrack, Truthful
  <2>. QED
    BY <1>2, <1>3, <1>7, <2>1, <2>2, <2>3, <2>4 DEF OnTrack
<1>. QED
  BY <1>6, <1>7

LEMMA AnnounceTracks ==
  ASSUME SettingsInv, NEW p \in Tabs, Announce(p)
  PROVE  Tracked'
<1> USE DEF SettingsInv, SettingsTypeOK
<1> DEFINE full == {q \in online : Len(news[q]) = Capacity}
           Base(q) == IF q \in full THEN Tail(news[q]) ELSE news[q]
           c == writing[p]
<1>1. /\ c \in Changes /\ c # Nothing
      /\ \A q \in online : news'[q] = Append(Base(q), c)
      /\ offTrack' = offTrack \cup {<<q, Head(news[q]).name>> : q \in full}
      /\ writing' = [writing EXCEPT ![p] = Nothing]
      /\ UNCHANGED <<shared, online, mirror, sent>>
  BY DEF Announce
<1> SUFFICES ASSUME NEW q \in online', NEW name \in SettingNames, <<q, name>> \notin offTrack'
             PROVE  OnTrack(q, name)'
  BY DEF Tracked
<1>2. q \in online /\ q \in Tabs /\ news[q] \in Seq(Changes)
  BY <1>1
<1>3. OnTrack(q, name)
  BY <1>1, <1>2 DEF Tracked
<1> DEFINE b == Base(q)
<1>4. /\ b \in Seq(Changes)
      /\ Announcers(name) = {} =>
           \A i \in 1 .. Len(b) : Latest(b, name, i) => b[i].value = shared[name]
      /\ Silent(b, name) => Silent(news[q], name)
  <2>1. CASE q \in full
    <3>1. news[q] # <<>>
      BY <2>1, EmptySays, SettingsConstants
    <3>2. Head(news[q]).name # name
      BY <1>1, <2>1
    <3>3. b = Tail(news[q])
      BY <2>1
    <3>4. ASSUME Announcers(name) = {}
          PROVE  \A i \in 1 .. Len(news[q]) :
                   Latest(news[q], name, i) => news[q][i].value = shared[name]
      BY <1>3, <3>4 DEF OnTrack
    <3>5. /\ Tail(news[q]) \in Seq(Changes)
          /\ Silent(Tail(news[q]), name) => Silent(news[q], name)
      BY <1>2, <3>1, <3>2, TailSays
    <3>6. ASSUME Announcers(name) = {}, NEW i \in 1 .. Len(Tail(news[q])),
                 Latest(Tail(news[q]), name, i)
          PROVE  Tail(news[q])[i].value = shared[name]
      <4>1. /\ i + 1 \in 1 .. Len(news[q]) /\ Latest(news[q], name, i + 1)
            /\ Tail(news[q])[i] = news[q][i + 1]
        BY <1>2, <3>1, <3>6, TailSays
      <4>. QED
        BY <3>4, <3>6, <4>1
    <3> HIDE DEF b, full
    <3>. QED
      BY <3>3, <3>5, <3>6
  <2>2. CASE q \notin full
    <3>1. b = news[q]
      BY <2>2
    <3> HIDE DEF b, full
    <3>. QED
      BY <1>2, <1>3, <3>1 DEF OnTrack
  <2>. QED
    BY <2>1, <2>2
<1>5. news'[q] = Append(b, c)
  BY <1>1, <1>2
<1> HIDE DEF Base, b, full
<1>6. \A r \in Announcers(name)' : r \in Announcers(name) /\ r # p
  BY <1>1 DEF Announcers, c
<1>7. Truthful(name)'
  <2>1. \A r \in Tabs \ {p} : writing'[r] = writing[r]
    BY <1>1
  <2>. QED
    BY <1>1, <1>3, <1>6, <2>1 DEF OnTrack, Truthful, Announcers
<1>8. c.name = name => c.value = shared[name]
  BY <1>1, <1>3 DEF OnTrack, Truthful, Announcers
<1>9. ASSUME Announcers(name)' = {}, c.name # name PROVE Announcers(name) = {}
  <2>1. \A r \in Announcers(name) : r # p
    BY <1>9 DEF Announcers
  <2>2. \A r \in Tabs \ {p} : writing'[r] = writing[r]
    BY <1>1
  <2>. QED
    BY <1>9, <2>1, <2>2 DEF Announcers
<1>10. ASSUME Announcers(name)' = {}
       PROVE  /\ \A i \in 1 .. Len(Append(b, c)) :
                   Latest(Append(b, c), name, i) => Append(b, c)[i].value = shared[name]
              /\ Silent(Append(b, c), name) => mirror[q][name] = shared[name] \/ Asked(q, name)
  <2> HIDE DEF c
  <2>1. \A i \in 1 .. Len(Append(b, c)) :
          Latest(Append(b, c), name, i) => Append(b, c)[i].value = shared[name]
    BY <1>1, <1>4, <1>8, <1>9, <1>10, AppendSays
  <2>2. ASSUME Silent(Append(b, c), name)
        PROVE  mirror[q][name] = shared[name] \/ Asked(q, name)
    <3>1. c.name # name /\ Silent(b, name)
      BY <1>1, <1>4, <2>2, AppendSays
    <3>. QED
      BY <1>3, <1>4, <1>9, <1>10, <3>1 DEF OnTrack
  <2>. QED
    BY <2>1, <2>2
<1>11. Asked(q, name)' <=> Asked(q, name)
  BY <1>1 DEF Asked
<1> HIDE DEF c
<1>. QED
  BY <1>1, <1>5, <1>7, <1>10, <1>11 DEF OnTrack

LEMMA HearTracks ==
  ASSUME SettingsInv, NEW p \in Tabs, Hear(p)
  PROVE  Tracked'
<1> USE DEF SettingsInv, SettingsTypeOK
<1> DEFINE s == news[p]
           c == Head(s)
           u == [mirror[p] EXCEPT ![c.name] = c.value]
<1>1. /\ s \in Seq(Changes) /\ s # <<>>
      /\ mirror' = [mirror EXCEPT ![p] = u]
      /\ news' = [news EXCEPT ![p] = Tail(s)]
      /\ UNCHANGED <<shared, online, sent, writing, offTrack>>
  BY DEF Hear
<1>2. c \in Changes /\ mirror[p] \in Values
  BY <1>1, HeadTailProperties
<1>3. u[c.name] = c.value /\ \A name \in SettingNames : name # c.name => u[name] = mirror[p][name]
  <2> HIDE DEF c
  <2>. QED
    BY <1>2, ReplacedValue
<1> SUFFICES ASSUME NEW q \in online', NEW name \in SettingNames, <<q, name>> \notin offTrack'
             PROVE  OnTrack(q, name)'
  BY DEF Tracked
<1>4. q \in online /\ q \in Tabs /\ OnTrack(q, name)
  BY <1>1 DEF Tracked
<1>5. Asked(q, name)' <=> Asked(q, name)
  BY <1>1 DEF Asked
<1>6. CASE q # p
  BY <1>1, <1>4, <1>5, <1>6, KeepsTrack
<1>7. CASE q = p
  <2>1. news'[p] = Tail(s) /\ mirror'[p] = u
    BY <1>1
  <2>2. Truthful(name)' /\ Announcers(name)' = Announcers(name)
    BY <1>1, <1>4 DEF OnTrack, Truthful, Announcers
  <2>3. ASSUME Announcers(name) = {}
        PROVE  /\ \A i \in 1 .. Len(Tail(s)) :
                    Latest(Tail(s), name, i) => Tail(s)[i].value = shared[name]
               /\ Silent(Tail(s), name) => u[name] = shared[name] \/ Asked(p, name)
    <3>1. /\ \A i \in 1 .. Len(s) : Latest(s, name, i) => s[i].value = shared[name]
          /\ Silent(s, name) => mirror[p][name] = shared[name] \/ Asked(p, name)
      BY <1>4, <1>7, <2>3 DEF OnTrack
    <3> HIDE DEF s, u, SettingsTypeOK
    <3>0. s \in Seq(Changes) /\ s # <<>>
      BY <1>1
    <3>2. ASSUME NEW i \in 1 .. Len(Tail(s)), Latest(Tail(s), name, i)
          PROVE  Tail(s)[i].value = shared[name]
      BY <3>0, <3>1, <3>2, TailSays
    <3>3. ASSUME Silent(Tail(s), name) PROVE u[name] = shared[name] \/ Asked(p, name)
      <4>1. CASE c.name = name
        <5>1. s[1].value = shared[name] /\ s[1] = c
          BY <1>1, <3>1, <3>3, <4>1, TailSays
        <5>. QED
          BY <1>3, <4>1, <5>1
      <4>2. CASE c.name # name
        <5>1. Silent(s, name)
          BY <1>1, <3>3, <4>2, TailSays
        <5>. QED
          BY <1>3, <3>1, <4>2, <5>1
      <4>. QED
        BY <4>1, <4>2
    <3>. QED
      BY <3>2, <3>3
  <2> HIDE DEF s, u
  <2>. QED
    BY <1>1, <1>5, <1>7, <2>1, <2>2, <2>3 DEF OnTrack
<1>. QED
  BY <1>6, <1>7

-----------------------------------------------------------------------------
(* The types *)

LEMMA SettingsTypes ==
  ASSUME SettingsTypeOK, [SettingsNext]_settingsVars
  PROVE  SettingsTypeOK'
<1> USE DEF SettingsTypeOK
<1>1. ASSUME NEW p \in Tabs, Open(p) PROVE SettingsTypeOK'
  <2>1. mirror' \in [Tabs -> Values]
    BY <1>1 DEF Open
  <2>2. news' \in [Tabs -> Seq(Changes)]
    BY <1>1, EmptySays DEF Open
  <2>3. offTrack' \subseteq Tabs \X SettingNames
    BY <1>1 DEF Open, Overtaken
  <2>. QED
    BY <1>1, <2>1, <2>2, <2>3 DEF Open
<1>2. ASSUME NEW p \in Tabs, Leave(p) PROVE SettingsTypeOK'
  <2>1. news' \in [Tabs -> Seq(Changes)]
    BY <1>2, EmptySays DEF Leave
  <2>2. sent' \in [Tabs -> Changes \cup {Nothing}]
    BY <1>2 DEF Leave
  <2>. QED
    BY <1>2, <2>1, <2>2 DEF Leave
<1>3. ASSUME NEW p \in Tabs, NEW change \in Changes, Send(p, change)
      PROVE  sent' \in [Tabs -> Changes \cup {Nothing}]
  BY <1>3 DEF Send
<1>4. ASSUME NEW p \in Tabs, NEW size \in Typed, EditSize(p, size) PROVE SettingsTypeOK'
  <2>1. Change("size", size) \in Changes
    BY SettingsConstants DEF Change, Changes
  <2>2. sent' \in [Tabs -> Changes \cup {Nothing}]
    BY <1>3, <1>4, <2>1 DEF EditSize
  <2>3. mirror' \in [Tabs -> Values]
    <3>1. /\ mirror' = [mirror EXCEPT ![p] = [mirror[p] EXCEPT !.size = size]]
          /\ mirror[p] \in Values
      BY <1>4 DEF EditSize
    <3>2. [mirror[p] EXCEPT !.size = size] \in Values
      BY <3>1, SettingsConstants DEF Values
    <3>. QED
      BY <3>1, <3>2
  <2>. QED
    BY <1>4, <2>2, <2>3 DEF EditSize
<1>5. ASSUME NEW p \in Tabs, ClickAutoGain(p) PROVE SettingsTypeOK'
  <2> DEFINE on == ~mirror[p].gain
  <2>1. on \in BOOLEAN
    OBVIOUS
  <2>2. Change("gain", on) \in Changes
    <3> HIDE DEF on
    <3>. QED
      BY <2>1 DEF Change, Changes
  <2>3. sent' \in [Tabs -> Changes \cup {Nothing}]
    BY <1>3, <1>5, <2>2 DEF ClickAutoGain
  <2>. QED
    BY <1>5, <2>3 DEF ClickAutoGain
<1>6. ASSUME NEW p \in Tabs, RateLimited(p) PROVE SettingsTypeOK'
  <2>1. sent[p].name \in SettingNames
    BY <1>6, ChangeTypes DEF RateLimited
  <2>2. sent' \in [Tabs -> Changes \cup {Nothing}]
    BY <1>6 DEF RateLimited
  <2>. QED
    BY <1>6, <2>1, <2>2 DEF RateLimited
<1>7. ASSUME NEW p \in Tabs, Write(p) PROVE SettingsTypeOK'
  <2> DEFINE m == Clamped(sent[p])
             u == [shared EXCEPT ![m.name] = m.value]
  <2>1. sent[p] \in Changes
    BY <1>7 DEF Write
  <2>2. m \in Changes /\ m.name \in SettingNames /\ (m.name = "size" => m.value \in MinSize .. MaxSize)
    BY <2>1, ClampedFacts, ChangeTypes
  <2>3. /\ shared' = u /\ writing' = [writing EXCEPT ![p] = m]
        /\ sent' = [sent EXCEPT ![p] = Nothing]
        /\ offTrack' \subseteq offTrack \cup (Tabs \X {m.name})
        /\ UNCHANGED <<online, mirror, news>>
    BY <1>7 DEF Write
  <2> HIDE DEF m
  <2>4. /\ u \in Values /\ u[m.name] = m.value
        /\ \A name \in SettingNames : name # m.name => u[name] = shared[name]
    <3>1. shared \in Values
      OBVIOUS
    <3> HIDE DEF SettingsTypeOK
    <3>. QED
      BY <2>2, <3>1, ReplacedValue
  <2> HIDE DEF u
  <2>5. u.size \in MinSize .. MaxSize
    BY <2>2, <2>4 DEF SettingNames
  <2>6. writing' \in [Tabs -> Changes \cup {Nothing}] /\ sent' \in [Tabs -> Changes \cup {Nothing}]
    BY <2>2, <2>3
  <2>. QED
    BY <2>2, <2>3, <2>4, <2>5, <2>6
<1>8. ASSUME NEW p \in Tabs, Announce(p) PROVE SettingsTypeOK'
  <2>1. writing[p] \in Changes
    BY <1>8 DEF Announce
  <2>2. ASSUME NEW q \in Tabs, Len(news[q]) = Capacity
        PROVE  Tail(news[q]) \in Seq(Changes) /\ Head(news[q]).name \in SettingNames
    <3>1. news[q] # <<>> /\ news[q] \in Seq(Changes)
      BY <2>2, EmptySays, SettingsConstants
    <3>. QED
      BY <3>1, TailSays, ChangeTypes
  <2>3. news' \in [Tabs -> Seq(Changes)]
    <3> DEFINE Next(q) ==
          IF q \notin online THEN news[q]
          ELSE Append(IF q \in {r \in online : Len(news[r]) = Capacity}
                        THEN Tail(news[q]) ELSE news[q], writing[p])
    <3>1. news' = [q \in Tabs |-> Next(q)]
      BY <1>8 DEF Announce
    <3>2. ASSUME NEW q \in Tabs PROVE Next(q) \in Seq(Changes)
      <4>1. ASSUME NEW s \in Seq(Changes) PROVE Append(s, writing[p]) \in Seq(Changes)
        BY <2>1, AppendProperties
      <4>2. CASE q \in online /\ Len(news[q]) = Capacity
        BY <2>2, <4>1, <4>2
      <4>3. CASE q \in online /\ Len(news[q]) # Capacity
        BY <4>1, <4>3
      <4>4. CASE q \notin online
        BY <4>4
      <4>. QED
        BY <4>2, <4>3, <4>4
    <3> HIDE DEF Next
    <3>. QED
      BY <3>1, <3>2
  <2>4. offTrack' \subseteq Tabs \X SettingNames
    BY <1>8, <2>2 DEF Announce
  <2>5. writing' \in [Tabs -> Changes \cup {Nothing}]
    BY <1>8 DEF Announce
  <2>. QED
    BY <1>8, <2>3, <2>4, <2>5 DEF Announce
<1>9. ASSUME NEW p \in Tabs, Hear(p) PROVE SettingsTypeOK'
  <2> DEFINE c == Head(news[p])
             u == [mirror[p] EXCEPT ![c.name] = c.value]
  <2>1. /\ mirror' = [mirror EXCEPT ![p] = u] /\ news' = [news EXCEPT ![p] = Tail(news[p])]
        /\ UNCHANGED <<shared, online, sent, writing, offTrack>>
    BY <1>9 DEF Hear
  <2>2. c \in Changes /\ Tail(news[p]) \in Seq(Changes) /\ mirror[p] \in Values
    BY <1>9, HeadTailProperties DEF Hear
  <2>3. u \in Values
    <3> HIDE DEF c, SettingsTypeOK
    <3>. QED
      BY <2>2, ReplacedValue
  <2> HIDE DEF c, u
  <2>4. mirror' \in [Tabs -> Values] /\ news' \in [Tabs -> Seq(Changes)]
    BY <2>1, <2>2, <2>3
  <2>. QED
    BY <2>1, <2>4
<1>10. ASSUME UNCHANGED settingsVars PROVE SettingsTypeOK'
  BY <1>10 DEF settingsVars
<1>. QED
  BY <1>1, <1>2, <1>4, <1>5, <1>6, <1>7, <1>8, <1>9, <1>10 DEF SettingsNext

-----------------------------------------------------------------------------
LEMMA SettingsStep == SettingsInv /\ [SettingsNext]_settingsVars => SettingsInv'
<1> SUFFICES ASSUME SettingsInv, [SettingsNext]_settingsVars PROVE SettingsInv'
  OBVIOUS
<1>1. SettingsTypeOK'
  BY SettingsTypes DEF SettingsInv
<1>2. ASSUME UNCHANGED settingsVars PROVE Tracked'
  BY <1>2 DEF settingsVars, SettingsInv, Tracked, OnTrack, Truthful, Announcers, Asked
<1>3. Tracked'
  BY <1>2, PageTracks, WriteTracks, AnnounceTracks, HearTracks DEF SettingsNext
<1>. QED
  BY <1>1, <1>3 DEF SettingsInv

\* The inductive invariant of the settings and their copies.
LEMMA SettingsInvHolds == SettingsSpec => []SettingsInv
BY SettingsInitHolds, SettingsStep, PTL DEF SettingsSpec

\* Types: whatever is typed, the size the server uses is within its limits.
THEOREM SettingsTypesHold == SettingsSpec => []SettingsTypeOK
<1>1. SettingsInv => SettingsTypeOK
  BY DEF SettingsInv
<1>. QED
  BY <1>1, SettingsInvHolds, PTL

\* The copies that every message has reached agree with the server, for any number of
\* pages and any capacity of the channel, unless a message was lost or writes crossed.
THEOREM MirrorsComeToAgree == SettingsSpec => []MirrorsAgree
<1>1. ASSUME SettingsInv, AtRest, NEW p \in online, NEW name \in SettingNames,
             <<p, name>> \notin offTrack
      PROVE  mirror[p][name] = shared[name]
  <2>1. p \in Tabs /\ sent[p] = Nothing /\ news[p] = <<>> /\ Announcers(name) = {}
    BY <1>1 DEF SettingsInv, SettingsTypeOK, AtRest, Announcers
  <2>2. OnTrack(p, name)
    BY <1>1 DEF SettingsInv, Tracked
  <2>. QED
    BY <2>1, <2>2, EmptySays DEF OnTrack, Asked
<1>2. SettingsInv => MirrorsAgree
  BY <1>1 DEF MirrorsAgree
<1>. QED
  BY <1>2, SettingsInvHolds, PTL

-----------------------------------------------------------------------------
(* FrontEndBox *)

\* What a request tells of the call it belongs to, and of the box.
Requests ==
  \A c \in Callers : Calling(c) =>
    /\ call[c].step \notin {"probe", "blob"} => speaks = "http"
    /\ call[c].step \in {"input", "integrator", "blob"} => call[c].op # "name"
    /\ call[c].step \in {"read", "write"} => call[c].op = "name"

\* Nothing runs beside a call that is alone, and the input it has cleared stays so.
Solitude ==
  \A c \in alone :
    /\ Calling(c) /\ wire = {}
    /\ \A d \in Callers : Calling(d) => d = c
    /\ call[c].op = "clear" /\ call[c].step = "integrator" => box.input = "EXT"

\* Settings that are as claimed.
Matches(held) ==
  /\ held.level = claim.level
  /\ claim.input # AnyInput => held.input = claim.input

\* The box is as claimed, or will be when the line on its way arrives.
Promised ==
  \/ wire = {} /\ Matches(box)
  \/ speaks = "legacy" /\ wire = {claim.level}

\* While there is a claim the box is named at most, with what was read of it.
Claimed ==
  claim # NoClaim =>
    /\ Promised
    /\ \A c \in Callers : Calling(c) =>
         /\ call[c].op = "name"
         /\ call[c].step = "write" => Matches(call[c].got)

BoxInv == BoxTypeOK /\ Requests /\ Solitude /\ Claimed

Claims == [level : Levels, input : {"EXT", AnyInput}]

-----------------------------------------------------------------------------
LEMMA BoxConstants == TopFB \in Nat /\ Idle \notin Calls /\ Default \in Settings /\ 0 \in Levels
BY BoxAssumption DEF BoxAssumption, Default, Settings, Levels

LEMMA CallTypes ==
  ASSUME BoxTypeOK, NEW c \in Callers, Calling(c)
  PROVE  /\ call[c] \in Calls
         /\ call[c].op \in {"set", "clear", "name"} /\ call[c].level \in Levels
         /\ call[c].step \in Steps /\ call[c].got \in Settings
<1>1. call[c] \in Calls
  BY DEF BoxTypeOK, Calling
<1>. QED
  BY <1>1 DEF Calls

\* A caller goes on with its next request.
LEMMA GoesOn ==
  ASSUME BoxTypeOK, NEW c \in Callers, Calling(c), NEW step \in Steps, GoesTo(c, step)
  PROVE  /\ call' \in [Callers -> Calls \cup {Idle}]
         /\ Calling(c)' /\ call'[c].step = step
         /\ call'[c].op = call[c].op /\ call'[c].level = call[c].level
         /\ call'[c].got = call[c].got
         /\ \A d \in Callers \ {c} : call'[d] = call[d]
<1>1. call' = [call EXCEPT ![c] = [call[c] EXCEPT !.step = step]]
  BY DEF GoesTo
<1>2. [call[c] EXCEPT !.step = step] \in Calls
  BY CallTypes DEF Calls
<1>3. /\ call'[c] = [call[c] EXCEPT !.step = step]
      /\ call' \in [Callers -> Calls \cup {Idle}]
      /\ \A d \in Callers \ {c} : call'[d] = call[d]
  BY <1>1, <1>2 DEF BoxTypeOK
<1>4. call[c] \in Calls
  BY CallTypes
<1>. QED
  BY <1>2, <1>3, <1>4, BoxConstants DEF Calls, Calling

\* A caller has its answer.
LEMMA HasAnswer ==
  ASSUME BoxTypeOK, NEW c \in Callers, call' = [call EXCEPT ![c] = Idle]
  PROVE  /\ call' \in [Callers -> Calls \cup {Idle}]
         /\ ~Calling(c)'
         /\ \A d \in Callers \ {c} : call'[d] = call[d]
BY DEF BoxTypeOK, Calling

LEMMA BoxInitHolds == BoxInit => BoxInv
BY BoxConstants
   DEF BoxInit, BoxInv, BoxTypeOK, Requests, Solitude, Claimed, Calling

-----------------------------------------------------------------------------
(* A call starts *)

LEMMA StartKeepsPromise ==
  ASSUME BoxInv, NEW c \in Callers, NEW op \in {"set", "clear", "name"}, NEW level \in Levels,
         Starts(c, op, level), claim' = NoClaim \/ (op = "name" /\ claim' = claim)
  PROVE  BoxInv'
<1> DEFINE new == [op |-> op, level |-> level, step |-> "probe", got |-> Default]
<1>1. new \in Calls /\ new.step = "probe" /\ new.op = op
  BY BoxConstants DEF Calls, Steps
<1>2. /\ call' = [call EXCEPT ![c] = new] /\ ~Calling(c)
      /\ alone' = IF wire = {} /\ \A d \in Callers : ~Calling(d) THEN {c} ELSE {}
      /\ UNCHANGED <<speaks, box, wire>>
  BY DEF Starts
<1> HIDE DEF new
<1>3. /\ call'[c] = new /\ \A d \in Callers \ {c} : call'[d] = call[d]
      /\ call' \in [Callers -> Calls \cup {Idle}]
  BY <1>1, <1>2 DEF BoxInv, BoxTypeOK
<1>4. BoxTypeOK'
  BY <1>2, <1>3 DEF BoxInv, BoxTypeOK
<1>5. Requests'
  BY <1>1, <1>2, <1>3 DEF BoxInv, Requests, Calling
<1>6. Solitude'
  BY <1>1, <1>2, <1>3, BoxConstants DEF Solitude, Calling
<1>7. Claimed'
  <2>1. SUFFICES ASSUME claim' # NoClaim PROVE Claimed'
    BY DEF Claimed
  <2>2. op = "name" /\ claim' = claim
    BY <2>1
  <2>3. Promised'
    BY <1>2, <2>1, <2>2 DEF BoxInv, Claimed, Promised, Matches
  <2>. QED
    BY <1>1, <1>3, <2>1, <2>2, <2>3 DEF BoxInv, Claimed, Matches, Calling
<1>. QED
  BY <1>4, <1>5, <1>6, <1>7 DEF BoxInv

-----------------------------------------------------------------------------
(* A call goes on or ends and leaves the box and the claim as they are *)

LEMMA QuietStep ==
  ASSUME BoxInv, NEW c \in Callers, Calling(c), UNCHANGED <<speaks, box, wire, claim>>,
         \/ call' = [call EXCEPT ![c] = Idle] /\ alone' = alone \ {c}
         \/ /\ alone' = alone /\ call' \in [Callers -> Calls \cup {Idle}] /\ Calling(c)'
            /\ \A d \in Callers \ {c} : call'[d] = call[d]
            /\ call'[c].op = call[c].op
            /\ call'[c].step \notin {"probe", "blob"} => speaks = "http"
            /\ call'[c].step \in {"input", "integrator", "blob"} => call[c].op # "name"
            /\ call'[c].step \in {"read", "write"} => call[c].op = "name"
            /\ c \in alone /\ call[c].op = "clear" => call'[c].step # "integrator"
            /\ claim # NoClaim /\ call'[c].step = "write" => Matches(call'[c].got)
  PROVE  BoxInv'
<1> USE DEF BoxInv
<1>1. CASE call' = [call EXCEPT ![c] = Idle] /\ alone' = alone \ {c}
  <2>1. /\ call' \in [Callers -> Calls \cup {Idle}] /\ ~Calling(c)'
        /\ \A d \in Callers \ {c} : call'[d] = call[d]
    BY <1>1, HasAnswer
  <2>. QED
    BY <1>1, <2>1 DEF BoxTypeOK, Requests, Solitude, Claimed, Promised, Matches, Calling
<1>2. CASE ~(call' = [call EXCEPT ![c] = Idle] /\ alone' = alone \ {c})
  <2>1. BoxTypeOK'
    BY <1>2 DEF BoxTypeOK
  <2>2. Requests'
    BY <1>2 DEF Requests, Calling
  <2>3. Solitude'
    BY <1>2 DEF Solitude, Calling
  <2>4. Claimed'
    BY <1>2 DEF Claimed, Promised, Matches, Calling
  <2>. QED
    BY <2>1, <2>2, <2>3, <2>4
<1>. QED
  BY <1>1, <1>2

LEMMA NameEnds ==
  ASSUME BoxTypeOK, NEW c \in Callers, EndsOk(c), call[c].op = "name"
  PROVE  Fails(c)
BY DEF EndsOk, Fails

LEMMA ProbeKeepsPromise ==
  ASSUME BoxInv, NEW c \in Callers, DetectApi(c)
  PROVE  BoxInv'
<1>1. Calling(c) /\ BoxTypeOK /\ UNCHANGED <<speaks, box, wire>>
  BY DEF DetectApi, At, BoxInv
<1>2. CASE call[c].op = "name" /\ EndsOk(c)
  BY <1>1, <1>2, NameEnds, QuietStep DEF Fails, Ends
<1>3. CASE /\ call[c].op # "name" /\ GoesTo(c, "blob")
           /\ UNCHANGED <<alone, claim>>
  <2>1. "blob" \in Steps
    BY DEF Steps
  <2>2. /\ call' \in [Callers -> Calls \cup {Idle}] /\ Calling(c)' /\ call'[c].step = "blob"
        /\ call'[c].op = call[c].op /\ \A d \in Callers \ {c} : call'[d] = call[d]
    BY <1>1, <1>3, <2>1, GoesOn
  <2>. QED
    BY <1>1, <1>3, <2>2, QuietStep
<1>4. CASE /\ speaks = "http"
           /\ GoesTo(c, CASE call[c].op = "set" -> "integrator"
                          [] call[c].op = "clear" -> "input"
                          [] call[c].op = "name" -> "read")
           /\ UNCHANGED <<alone, claim>>
  <2>1. PICK step \in Steps :
          /\ GoesTo(c, step)
          /\ \/ call[c].op = "set" /\ step = "integrator"
             \/ call[c].op = "clear" /\ step = "input"
             \/ call[c].op = "name" /\ step = "read"
    BY <1>1, <1>4, CallTypes DEF Steps
  <2>2. /\ call' \in [Callers -> Calls \cup {Idle}] /\ Calling(c)' /\ call'[c].step = step
        /\ call'[c].op = call[c].op /\ \A d \in Callers \ {c} : call'[d] = call[d]
    BY <1>1, <2>1, GoesOn
  <2>. QED
    BY <1>1, <1>4, <2>1, <2>2, QuietStep
<1>. QED
  BY <1>2, <1>3, <1>4 DEF DetectApi

LEMMA ReadKeepsPromise ==
  ASSUME BoxInv, NEW c \in Callers, ReadSettings(c)
  PROVE  BoxInv'
<1>1. /\ Calling(c) /\ call[c].step = "read" /\ BoxTypeOK /\ UNCHANGED <<speaks, box, wire>>
      /\ call[c].op = "name" /\ speaks = "http"
  BY DEF ReadSettings, At, BoxInv, Requests
<1>2. CASE EndsOk(c) \/ Fails(c)
  BY <1>1, <1>2, NameEnds, QuietStep DEF Fails, Ends
<1>3. CASE /\ call' = [call EXCEPT ![c].step = "write", ![c].got = box]
           /\ UNCHANGED <<alone, claim>>
  <2> DEFINE new == [call[c] EXCEPT !.step = "write", !.got = box]
  <2>1. call[c] \in Calls /\ box \in Settings
    BY <1>1, CallTypes DEF BoxTypeOK
  <2>2. new \in Calls /\ new.step = "write" /\ new.got = box /\ new.op = call[c].op
    BY <2>1 DEF Calls, Steps
  <2>3. call' = [call EXCEPT ![c] = new]
    BY <1>3
  <2> HIDE DEF new
  <2>4. /\ call' \in [Callers -> Calls \cup {Idle}] /\ call'[c] = new
        /\ \A d \in Callers \ {c} : call'[d] = call[d]
    BY <1>1, <2>2, <2>3 DEF BoxTypeOK
  <2>5. Calling(c)'
    BY <2>2, <2>4, BoxConstants DEF Calling
  <2>6. claim # NoClaim => Matches(call'[c].got)
    BY <1>1, <2>2, <2>4 DEF BoxInv, Claimed, Promised, Matches
  <2>. QED
    BY <1>1, <1>3, <2>2, <2>4, <2>5, <2>6, QuietStep
<1>. QED
  BY <1>2, <1>3 DEF ReadSettings

-----------------------------------------------------------------------------
(* The box changes *)

\* The end of a call that promises: nothing runs beside it, and its claim is new.
LEMMA OkClaims ==
  ASSUME BoxInv, NEW c \in Callers, Calling(c), EndsOk(c), speaks' = speaks,
         call[c].op # "name", box' \in Settings, wire' \subseteq Levels,
         c \in alone /\ ~(speaks = "http" /\ call[c].step = "blob") =>
           \/ /\ wire' = {} /\ box'.level = call[c].level
              /\ call[c].op = "clear" => box'.input = "EXT"
           \/ speaks = "legacy" /\ wire' = {call[c].level},
         c \notin alone => alone = {}
  PROVE  BoxInv'
<1> USE DEF BoxInv
<1>1. /\ call' \in [Callers -> Calls \cup {Idle}] /\ ~Calling(c)'
      /\ \A d \in Callers \ {c} : call'[d] = call[d]
  BY HasAnswer DEF EndsOk, Ends
<1>2. alone' = {}
  BY DEF EndsOk, Ends, Solitude, BoxTypeOK
<1>3. claim = NoClaim
  BY DEF Claimed
<1>4. call[c].level \in Levels
  BY CallTypes
<1>5. CASE c \in alone /\ ~(speaks = "http" /\ call[c].step = "blob")
  <2> DEFINE new == [level |-> call[c].level,
                     input |-> IF call[c].op = "clear" THEN "EXT" ELSE AnyInput]
  <2>1. claim' = new
    BY <1>5 DEF EndsOk
  <2>2. /\ new \in Claims /\ new.level = call[c].level
        /\ new.input # AnyInput => call[c].op = "clear" /\ new.input = "EXT"
    BY <1>4 DEF Claims
  <2> HIDE DEF new
  <2>3. \A d \in Callers : ~Calling(d)'
    BY <1>1, <1>5 DEF Solitude, Calling
  <2>4. Promised'
    BY <1>5, <2>1, <2>2 DEF Promised, Matches
  <2>. QED
    BY <1>1, <1>2, <2>1, <2>2, <2>3, <2>4 DEF BoxTypeOK, Requests, Solitude, Claimed, Claims
<1>6. CASE ~(c \in alone /\ ~(speaks = "http" /\ call[c].step = "blob"))
  <2>1. claim' = NoClaim
    BY <1>3, <1>6 DEF EndsOk
  <2>2. Requests'
    BY <1>1 DEF Requests, Calling
  <2>. QED
    BY <1>1, <1>2, <2>1, <2>2 DEF BoxTypeOK, Solitude, Claimed
<1>. QED
  BY <1>5, <1>6

LEMMA WrittenFacts ==
  ASSUME BoxInv, NEW c \in Callers, Calling(c),
         call[c].step \in {"input", "integrator", "write"}
  PROVE  /\ Written(c) \in Settings
         /\ call[c].step = "input" => Written(c).input = "EXT" /\ Written(c).level = box.level
         /\ call[c].step = "integrator" =>
              Written(c).level = call[c].level /\ Written(c).input = box.input
         /\ call[c].step = "write" =>
              Written(c).level = call[c].got.level /\ Written(c).input = call[c].got.input
<1>1. box \in Settings /\ call[c].got \in Settings /\ call[c].level \in Levels
  BY CallTypes DEF BoxInv, BoxTypeOK
<1>2. CASE call[c].step = "input"
  BY <1>1, <1>2 DEF Written, Settings
<1>3. CASE call[c].step = "integrator"
  BY <1>1, <1>3 DEF Written, Settings
<1>4. CASE call[c].step = "write"
  BY <1>1, <1>4 DEF Written, Settings
<1>. QED
  BY <1>2, <1>3, <1>4

\* A call that ends without a claim of its own, whether its write reached the box or not.
LEMMA WriteWithoutClaim ==
  ASSUME BoxInv, NEW c \in Callers, Calling(c), Fails(c), UNCHANGED <<speaks, wire>>,
         call[c].step \in {"input", "integrator", "write"},
         box' = Written(c) \/ box' = box
  PROVE  BoxInv'
<1> USE DEF BoxInv
<1>1. /\ call' \in [Callers -> Calls \cup {Idle}] /\ ~Calling(c)'
      /\ \A d \in Callers \ {c} : call'[d] = call[d]
      /\ alone' = alone \ {c} /\ claim' = claim
  BY HasAnswer DEF Fails, Ends
<1>2. alone' = {}
  BY <1>1 DEF Solitude, BoxTypeOK
<1>3. box' \in Settings
  BY WrittenFacts DEF BoxTypeOK
<1>4. Requests'
  BY <1>1 DEF Requests, Calling
<1>5. Claimed'
  <2>1. SUFFICES ASSUME claim # NoClaim PROVE Claimed'
    BY <1>1 DEF Claimed
  <2>2. /\ call[c].op = "name" /\ call[c].step = "write" /\ Matches(call[c].got)
        /\ speaks = "http"
    BY <2>1 DEF Claimed, Requests
  <2>3. wire = {} /\ Matches(box)
    BY <2>1, <2>2 DEF Claimed, Promised
  <2>4. Matches(box)'
    BY <1>1, <2>2, <2>3, WrittenFacts DEF Matches
  <2>. QED
    BY <1>1, <2>1, <2>3, <2>4 DEF Claimed, Promised, Matches, Calling
<1>. QED
  BY <1>1, <1>2, <1>3, <1>4, <1>5 DEF BoxTypeOK, Solitude

LEMMA PostKeepsPromise ==
  ASSUME BoxInv, NEW c \in Callers, Post(c)
  PROVE  BoxInv'
<1> USE DEF BoxInv
<1>1. /\ Calling(c) /\ call[c].step \in {"input", "integrator", "write"}
      /\ UNCHANGED <<speaks, wire>> /\ BoxTypeOK
  BY DEF Post, At
<1>2. CASE Fails(c) /\ (box' = Written(c) \/ UNCHANGED box)
  BY <1>1, <1>2, WriteWithoutClaim
<1>3. CASE /\ box' = Written(c) /\ call[c].step = "input" /\ GoesTo(c, "integrator")
           /\ UNCHANGED <<alone, claim>>
  <2>1. "integrator" \in Steps
    BY DEF Steps
  <2>2. /\ call' \in [Callers -> Calls \cup {Idle}] /\ Calling(c)'
        /\ call'[c].step = "integrator" /\ call'[c].op = call[c].op
        /\ \A d \in Callers \ {c} : call'[d] = call[d]
    BY <1>1, <1>3, <2>1, GoesOn
  <2>3. box' \in Settings /\ box'.input = "EXT"
    BY <1>1, <1>3, WrittenFacts
  <2>4. call[c].op # "name" /\ speaks = "http"
    BY <1>1, <1>3 DEF Requests
  <2>5. claim' = NoClaim
    BY <1>1, <1>3, <2>4 DEF Claimed
  <2>6. Requests'
    BY <1>1, <2>2, <2>4 DEF Requests, Calling
  <2>7. Solitude'
    BY <1>1, <1>3, <2>2, <2>3 DEF Solitude, Calling, BoxTypeOK
  <2>. QED
    BY <1>1, <1>3, <2>2, <2>3, <2>5, <2>6, <2>7 DEF BoxTypeOK, Claimed
<1>4. CASE box' = Written(c) /\ call[c].step # "input" /\ EndsOk(c)
  <2>1. CASE call[c].op = "name"
    BY <1>1, <1>4, <2>1, NameEnds, WriteWithoutClaim
  <2>2. CASE call[c].op # "name"
    <3>1. call[c].step = "integrator"
      BY <1>1, <1>4, <2>2 DEF Requests
    <3>2. box' \in Settings /\ box'.level = call[c].level /\ box'.input = box.input
      BY <1>1, <1>4, <3>1, WrittenFacts
    <3>3. c \in alone => wire = {} /\ (call[c].op = "clear" => box.input = "EXT")
      BY <3>1 DEF Solitude
    <3>4. c \notin alone => alone = {}
      BY <1>1 DEF Solitude, BoxTypeOK
    <3>5. wire' \subseteq Levels
      BY <1>1 DEF BoxTypeOK
    <3>. QED
      BY <1>1, <1>4, <2>2, <3>2, <3>3, <3>4, <3>5, OkClaims
  <2>. QED
    BY <2>1, <2>2
<1>. QED
  BY <1>1, <1>2, <1>3, <1>4 DEF Post

LEMMA SendKeepsPromise ==
  ASSUME BoxInv, NEW c \in Callers, SendSettings(c)
  PROVE  BoxInv'
<1> USE DEF BoxInv
<1>1. /\ Calling(c) /\ call[c].step = "blob" /\ call[c].op # "name"
      /\ UNCHANGED <<speaks, box>> /\ BoxTypeOK
  BY DEF SendSettings, At, Requests
<1>2. CASE UNCHANGED wire /\ Fails(c)
  BY <1>1, <1>2, QuietStep DEF Fails, Ends
<1>3. CASE wire' = wire \cup {call[c].level} /\ EndsOk(c)
  <2>1. c \in alone => wire = {}
    BY DEF Solitude
  <2>2. c \notin alone => alone = {}
    BY <1>1 DEF Solitude, BoxTypeOK
  <2>3. wire' \subseteq Levels /\ box' \in Settings
    BY <1>1, <1>3, CallTypes DEF BoxTypeOK
  <2>4. c \in alone /\ ~(speaks = "http" /\ call[c].step = "blob") =>
          speaks = "legacy" /\ wire' = {call[c].level}
    BY <1>1, <1>3, <2>1 DEF BoxTypeOK
  <2>. QED
    BY <1>1, <1>3, <2>2, <2>3, <2>4, OkClaims
<1>. QED
  BY <1>2, <1>3 DEF SendSettings

LEMMA BlobKeepsPromise ==
  ASSUME BoxInv, BlobArrives \/ BlobIsLost
  PROVE  BoxInv'
<1> USE DEF BoxInv
<1>1. PICK level \in wire : wire' = wire \ {level}
  BY DEF BlobArrives, BlobIsLost
<1>2. UNCHANGED <<speaks, call, alone>> /\ alone = {} /\ level \in Levels
  BY <1>1 DEF BlobArrives, BlobIsLost, Solitude, BoxTypeOK
<1>3. Requests' /\ Solitude'
  BY <1>2 DEF Requests, Solitude, Calling
<1>4. ASSUME claim # NoClaim PROVE speaks = "legacy" /\ wire = {claim.level}
  BY <1>1, <1>4 DEF Claimed, Promised
<1>5. CASE BlobIsLost
  <2>1. claim' = NoClaim \/ (claim' = claim /\ speaks = "http")
    BY <1>2, <1>5 DEF BlobIsLost, BoxTypeOK
  <2>2. claim' = NoClaim
    BY <1>4, <2>1
  <2>. QED
    BY <1>1, <1>2, <1>3, <1>5, <2>2 DEF BlobIsLost, BoxTypeOK, Claimed
<1>6. CASE BlobArrives
  <2>1. PICK l \in wire : /\ wire' = wire \ {l}
                          /\ box' = IF speaks = "legacy" THEN [Default EXCEPT !.level = l] ELSE box
    BY <1>6 DEF BlobArrives
  <2>2. [Default EXCEPT !.level = l] \in Settings
        /\ [Default EXCEPT !.level = l].level = l /\ [Default EXCEPT !.level = l].input = "EXT"
    BY <2>1 DEF Default, Settings, BoxTypeOK
  <2>3. box' \in Settings /\ claim' = claim
    BY <1>6, <2>1, <2>2 DEF BoxTypeOK, BlobArrives
  <2>4. Claimed'
    <3>1. SUFFICES ASSUME claim # NoClaim PROVE Claimed'
      BY <2>3 DEF Claimed
    <3>2. box'.level = claim.level /\ box'.input = "EXT" /\ wire' = {}
      BY <1>4, <2>1, <2>2, <3>1
    <3>3. claim.input \in {"EXT", AnyInput}
      BY <3>1 DEF BoxTypeOK
    <3>4. Matches(box)'
      BY <2>3, <3>2, <3>3 DEF Matches
    <3>. QED
      BY <1>2, <2>3, <3>1, <3>2, <3>4 DEF Claimed, Promised, Matches, Calling
  <2>. QED
    BY <1>1, <1>2, <1>3, <2>3, <2>4 DEF BoxTypeOK
<1>. QED
  BY <1>5, <1>6

LEMMA CalibrateKeepsPromise ==
  ASSUME BoxInv, Calibrate
  PROVE  BoxInv'
<1> USE DEF BoxInv
<1>1. /\ alone' = {} /\ UNCHANGED <<speaks, wire, call>>
      /\ box' = [box EXCEPT !.input = "CAL"]
      /\ claim' = IF claim = NoClaim THEN claim ELSE [claim EXCEPT !.input = AnyInput]
  BY DEF Calibrate
<1>2. box' \in Settings /\ box'.level = box.level
  BY <1>1 DEF BoxTypeOK, Settings
<1>3. claim # NoClaim =>
        claim' \in Claims /\ claim'.level = claim.level /\ claim'.input = AnyInput
  BY <1>1 DEF BoxTypeOK, Claims
<1>4. claim = NoClaim => claim' = NoClaim
  BY <1>1
<1>5. BoxTypeOK'
  BY <1>1, <1>2, <1>3, <1>4 DEF BoxTypeOK, Claims
<1>6. Requests' /\ Solitude'
  BY <1>1 DEF Requests, Solitude, Calling
<1>7. Claimed'
  <2>1. SUFFICES ASSUME claim # NoClaim PROVE Claimed'
    BY <1>4 DEF Claimed
  <2>2. Promised'
    BY <1>1, <1>2, <1>3, <2>1 DEF Claimed, Promised, Matches
  <2>. QED
    BY <1>1, <1>3, <2>1, <2>2 DEF Claimed, Matches, Calling
<1>. QED
  BY <1>5, <1>6, <1>7

-----------------------------------------------------------------------------
LEMMA BoxStep == BoxInv /\ [BoxNext]_boxVars => BoxInv'
<1> SUFFICES ASSUME BoxInv, [BoxNext]_boxVars PROVE BoxInv'
  OBVIOUS
<1>1. ASSUME NEW c \in Callers, NEW level \in Levels,
             SetSensitivity(c, level) \/ ClearCalibration(c, level)
      PROVE  BoxInv'
  BY <1>1, StartKeepsPromise DEF SetSensitivity, ClearCalibration
<1>2. ASSUME NEW c \in Callers, EnsureDeviceName(c) PROVE BoxInv'
  BY <1>2, StartKeepsPromise, BoxConstants DEF EnsureDeviceName
<1>3. CASE UNCHANGED boxVars
  BY <1>3 DEF boxVars, BoxInv, BoxTypeOK, Requests, Solitude, Claimed, Promised, Matches, Calling
<1>. QED
  BY <1>1, <1>2, <1>3, ProbeKeepsPromise, ReadKeepsPromise, PostKeepsPromise, SendKeepsPromise,
     BlobKeepsPromise, CalibrateKeepsPromise DEF BoxNext

\* The inductive invariant of a box and its callers.
LEMMA BoxInvHolds == BoxSpec => []BoxInv
BY BoxInitHolds, BoxStep, PTL DEF BoxSpec

\* Types: no call, claim or line on its way leaves its range.
THEOREM BoxTypesHold == BoxSpec => []BoxTypeOK
<1>1. BoxInv => BoxTypeOK
  BY DEF BoxInv
<1>. QED
  BY <1>1, BoxInvHolds, PTL

\* What a call that ran alone was told is done, is done and stays done, for any number
\* of callers and levels, on either firmware.
THEOREM OkStaysApplied == BoxSpec => []OkMeansApplied
<1>1. BoxInv => OkMeansApplied
  BY DEF BoxInv, Claimed, Promised, Matches, OkMeansApplied
<1>. QED
  BY <1>1, BoxInvHolds, PTL

-----------------------------------------------------------------------------
(* PageLink *)

Lengthened == events' = Append(events, "opened") \/ events' = Append(events, "closed")

LEMMA PageStep ==
  ASSUME PageTypeOK, [PageNext]_pageVars
  PROVE  PageTypeOK'
<1> USE PageLinkAssumption DEF PageLinkAssumption
<1>1. ASSUME Lengthened \/ UNCHANGED events \/ events' = <<>>
      PROVE  events' \in Seq({"opened", "closed"})
  <2>1. events \in Seq({"opened", "closed"})
    BY DEF PageTypeOK
  <2>2. CASE Lengthened
    BY <2>1, <2>2, AppendProperties DEF Lengthened
  <2>3. CASE UNCHANGED events
    BY <2>1, <2>3
  <2>4. CASE events' = <<>>
    BY <2>4, EmptySeq
  <2>. QED
    BY <1>1, <2>2, <2>3, <2>4
<1>2. ASSUME NEW delay \in Nat \ {0}, Connect(delay)
      PROVE  /\ socket' \in {"none", "connecting"} /\ linked' \in BOOLEAN
             /\ reconnectCooldown' \in Nat /\ reconnectDelay' \in Nat \ {0}
             /\ refusals' \in 0 .. MaxRefusals
  <2>1. CASE /\ socket' = "connecting" /\ linked' = TRUE
             /\ reconnectCooldown' = 0 /\ reconnectDelay' = delay /\ UNCHANGED refusals
    BY <2>1 DEF PageTypeOK
  <2>2. CASE /\ refusals < MaxRefusals /\ refusals' = refusals + 1
             /\ socket' = "none" /\ linked' = FALSE /\ reconnectCooldown' = delay
             /\ reconnectDelay' = IF 2 * delay < MaxReconnectDelay THEN 2 * delay
                                  ELSE MaxReconnectDelay
    <3>1. refusals' \in 0 .. MaxRefusals
      BY <2>2 DEF PageTypeOK
    <3>2. reconnectCooldown' \in Nat /\ reconnectDelay' \in Nat \ {0}
      BY <2>2
    <3>. QED
      BY <2>2, <3>1, <3>2
  <2>. QED
    BY <1>2, <2>1, <2>2 DEF Connect
<1>3. CASE ServerComesUp
  BY <1>3 DEF ServerComesUp, client, PageTypeOK
<1>4. CASE ServerGoesDown
  <2>1. Lengthened \/ UNCHANGED events
    BY <1>4 DEF ServerGoesDown, Lengthened
  <2>2. serverUp' \in BOOLEAN /\ socket' \in {"none", "connecting", "open", "mute", "closed"}
    BY <1>4 DEF ServerGoesDown, PageTypeOK
  <2>3. UNCHANGED client
    BY <1>4 DEF ServerGoesDown
  <2>. QED
    BY <1>1, <2>1, <2>2, <2>3 DEF client, PageTypeOK
<1>5. CASE SocketOpens \/ SocketFails
  <2>1. Lengthened /\ UNCHANGED <<serverUp, client>> /\ socket' \in {"open", "closed"}
    BY <1>5 DEF SocketOpens, SocketFails, Lengthened
  <2>. QED
    BY <1>1, <2>1 DEF client, PageTypeOK
<1>6. CASE Poll
  <2> DEFINE gone == socket = "none" \/ Received("closed")
             cooldown == IF Received("opened") THEN 0 ELSE reconnectCooldown
             delay == IF Received("opened") THEN InitialReconnectDelay ELSE reconnectDelay
  <2>1. cooldown \in Nat /\ delay \in Nat \ {0}
    BY DEF PageTypeOK
  <2>2. events' = <<>> /\ UNCHANGED serverUp
    BY <1>6 DEF Poll
  <2>3. \/ gone /\ cooldown = 0 /\ Connect(delay)
        \/ /\ cooldown > 0 /\ socket' = "none" /\ linked' = FALSE
           /\ reconnectCooldown' = cooldown - 1 /\ reconnectDelay' = delay /\ UNCHANGED refusals
        \/ /\ linked' = (linked \/ Received("opened"))
           /\ reconnectCooldown' = cooldown /\ reconnectDelay' = delay
           /\ UNCHANGED <<socket, refusals>>
    BY <1>6 DEF Poll
  <2> HIDE DEF gone, cooldown, delay
  <2>4. CASE Connect(delay)
    BY <1>1, <1>2, <2>1, <2>2, <2>4 DEF PageTypeOK
  <2>5. CASE /\ cooldown > 0 /\ socket' = "none" /\ linked' = FALSE
             /\ reconnectCooldown' = cooldown - 1 /\ reconnectDelay' = delay /\ UNCHANGED refusals
    <3>1. linked' \in BOOLEAN /\ serverUp' \in BOOLEAN
      BY <2>2, <2>5 DEF PageTypeOK
    <3>2. reconnectCooldown' \in Nat /\ reconnectDelay' \in Nat \ {0}
      BY <2>1, <2>5
    <3>. QED
      BY <1>1, <2>2, <2>5, <3>1, <3>2 DEF PageTypeOK
  <2>6. CASE /\ linked' = (linked \/ Received("opened"))
             /\ reconnectCooldown' = cooldown /\ reconnectDelay' = delay
             /\ UNCHANGED <<socket, refusals>>
    BY <1>1, <2>1, <2>2, <2>6 DEF PageTypeOK
  <2>. QED
    BY <2>3, <2>4, <2>5, <2>6
<1>7. CASE UNCHANGED pageVars
  BY <1>7 DEF pageVars, client, PageTypeOK
<1>. QED
  BY <1>3, <1>4, <1>5, <1>6, <1>7 DEF PageNext

\* Types: the back-off never becomes nothing, and a cooldown ends at 0.
THEOREM PageTypesHold == PageSpec => []PageTypeOK
<1>1. PageInit => PageTypeOK
  <2> SUFFICES ASSUME PageInit
               PROVE  PageTypeOK
    OBVIOUS
  <2>1. serverUp \in BOOLEAN /\ linked \in BOOLEAN
    BY DEF PageInit
  <2>2. /\ socket = "connecting" /\ events \in Seq({"opened", "closed"})
        /\ reconnectCooldown \in Nat /\ reconnectDelay \in Nat \ {0}
        /\ refusals \in 0 .. MaxRefusals
    BY PageLinkAssumption, EmptySeq DEF PageLinkAssumption, PageInit
  <2>. QED
    BY <2>1, <2>2 DEF PageTypeOK
<1>2. PageTypeOK /\ [PageNext]_pageVars => PageTypeOK'
  BY PageStep
<1>. QED
  BY <1>1, <1>2, PTL DEF PageSpec

-----------------------------------------------------------------------------
(* The components together *)

\* Beside the others each component behaves as it does alone, so that everything proved
\* of a component holds of it in the instance that TLC explores.
THEOREM SessionsMoveAlone ==
  SessionsSpec => /\ RateSpec /\ AuditSpec /\ StoreSpec /\ SettingsSpec /\ BoxSpec /\ PageSpec
<1>1. SessionsInit =>
        RateInit /\ AuditInit /\ StoreInit /\ SettingsInit /\ BoxInit /\ PageInit
  BY DEF SessionsInit
<1>2. [SessionsNext]_sessionsVars =>
        /\ [RateNext]_rateVars /\ [AuditNext]_auditVars /\ [StoreNext]_storeVars
        /\ [SettingsNext]_settingsVars /\ [BoxNext]_boxVars /\ [PageNext]_pageVars
  BY DEF SessionsNext, sessionsVars, Turn, noRate, noAudit, noStore, noSettings, noBox, noPage
<1>. QED
  BY <1>1, <1>2, PTL
     DEF SessionsSpec, RateSpec, AuditSpec, StoreSpec, SettingsSpec, BoxSpec, PageSpec

\* Every component around the sessions keeps its types, beside the others as alone.
THEOREM SessionTypesHold == SessionsSpec => []SessionsTypeOK
<1>1. RateTypeOK /\ AuditTypeOK /\ StoreTypeOK /\ SettingsTypeOK /\ BoxTypeOK /\ PageTypeOK
        => SessionsTypeOK
  BY DEF SessionsTypeOK
<1>. QED
  BY <1>1, SessionsMoveAlone, RateTypesHold, AuditTypesHold, StoreTypesHold,
     SettingsTypesHold, BoxTypesHold, PageTypesHold, PTL
===============================================================================
