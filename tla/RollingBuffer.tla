--------------------------- MODULE RollingBuffer ---------------------------
(***************************************************************************)
(* RollingBuffer of crates/server/src/state.rs: the last samples of a      *)
(* device with statistics kept up to date incrementally, where the code    *)
(* could go wrong quietly: running sums, and extrema that are recomputed   *)
(* only when one of them leaves the buffer.                                *)
(*                                                                         *)
(* A value is an integer or NaN.  Integer sums are exact: the rounding of  *)
(* f64 is left out.  The mean and the RMSD are functions of n, sum and     *)
(* sum_sq, which stand for them.  Every operation runs under the state     *)
(* lock.  total_pushed is modelled in ChartStream.                         *)
(***************************************************************************)
EXTENDS Integers, Sequences

CONSTANTS
  Values,      \* finite sample values
  NaN,         \* an undefined EPICS value, which f64 and the monitor let through
  Samples,     \* what may arrive: Values, or Values and NaN
  Infinity,
  Capacities   \* buffer sizes

ASSUME InfinityAssumption == Infinity \in Nat
ASSUME ValuesAssumption == Values \subseteq (-Infinity + 1) .. (Infinity - 1)
ASSUME SamplesAssumption == NaN \notin Int /\ Samples \subseteq Values \cup {NaN}
ASSUME CapacitiesAssumption == Capacities \subseteq Nat \ {0}

VARIABLES data, capacity, sum, sumSq, min, max, extremaDirty

extrema == <<min, max, extremaDirty>>
vars == <<data, capacity, sum, sumSq, extrema>>

-----------------------------------------------------------------------------
(* f64 arithmetic: NaN is contagious, and differs from everything; f64::min  *)
(* and f64::max pass over it.                                                *)

Plus(a, b)  == IF NaN \in {a, b} THEN NaN ELSE a + b
Minus(a, b) == IF NaN \in {a, b} THEN NaN ELSE a - b
Square(a)   == IF a = NaN THEN NaN ELSE a * a
Lower(a, b)  == IF b # NaN /\ b < a THEN b ELSE a
Higher(a, b) == IF b # NaN /\ b > a THEN b ELSE a

Total(s) ==
  LET upTo[i \in 0 .. Len(s)] == IF i = 0 THEN 0 ELSE Plus(upTo[i - 1], s[i])
  IN  upTo[Len(s)]

Squares(s) == [i \in DOMAIN s |-> Square(s[i])]
TotalSq(s) == Total(Squares(s))

Finite(s) == {s[i] : i \in DOMAIN s} \ {NaN}

\* What a fold with f64::min from INFINITY gives, and with f64::max.
Least(s) ==
  IF Finite(s) = {} THEN Infinity ELSE CHOOSE v \in Finite(s) : \A u \in Finite(s) : v <= u
Greatest(s) ==
  IF Finite(s) = {} THEN -Infinity ELSE CHOOSE v \in Finite(s) : \A u \in Finite(s) : v >= u

-----------------------------------------------------------------------------
Init ==
  /\ data = <<>>
  /\ capacity \in Capacities
  /\ sum = 0 /\ sumSq = 0
  /\ min = Infinity /\ max = -Infinity
  /\ extremaDirty = FALSE

\* evict_front, k times: what remains, what it does to an accumulator, and
\* whether a cached extremum left.
Kept(k)    == SubSeq(data, k + 1, Len(data))
Evicted(k) == SubSeq(data, 1, k)
Dirtied(k) == extremaDirty \/ \E i \in 1 .. k : data[i] \in {min, max}

RecomputeExtrema ==
  /\ min' = Least(data') /\ max' = Greatest(data')
  /\ extremaDirty' = FALSE

\* Faulty: the buffer is taken to be full one sample late.
PushLate(v) ==
  LET k == IF Len(data) > capacity THEN 1 ELSE 0 IN
  /\ data' = Append(Kept(k), v)
  /\ sum' = Plus(Minus(sum, Total(Evicted(k))), v)
  /\ sumSq' = Plus(Minus(sumSq, TotalSq(Evicted(k))), Square(v))
  /\ IF Dirtied(k) THEN RecomputeExtrema
     ELSE min' = Lower(min, v) /\ max' = Higher(max, v) /\ UNCHANGED extremaDirty
  /\ UNCHANGED capacity

\* Faulty: an extremum that leaves is not noticed.
PushOnly(v) ==
  LET k == IF Len(data) >= capacity THEN 1 ELSE 0 IN
  /\ data' = Append(Kept(k), v)
  /\ sum' = Plus(Minus(sum, Total(Evicted(k))), v)
  /\ sumSq' = Plus(Minus(sumSq, TotalSq(Evicted(k))), Square(v))
  /\ min' = Lower(min, v) /\ max' = Higher(max, v)
  /\ UNCHANGED <<capacity, extremaDirty>>

Push(v) ==
  LET k == IF Len(data) >= capacity THEN 1 ELSE 0 IN
  /\ data' = Append(Kept(k), v)
  /\ sum' = Plus(Minus(sum, Total(Evicted(k))), v)
  /\ sumSq' = Plus(Minus(sumSq, TotalSq(Evicted(k))), Square(v))
  /\ IF Dirtied(k) THEN RecomputeExtrema
     ELSE min' = Lower(min, v) /\ max' = Higher(max, v) /\ UNCHANGED extremaDirty
  /\ UNCHANGED capacity

\* Faulty: the sums keep the samples a smaller capacity drops.
Truncate(n) ==
  LET k == IF Len(data) > n THEN Len(data) - n ELSE 0 IN
  /\ capacity' = n
  /\ data' = Kept(k)
  /\ IF Dirtied(k) THEN RecomputeExtrema ELSE UNCHANGED extrema
  /\ UNCHANGED <<sum, sumSq>>

SetCapacity(n) ==
  LET k == IF Len(data) > n THEN Len(data) - n ELSE 0 IN
  /\ capacity' = n
  /\ data' = Kept(k)
  /\ sum' = Minus(sum, Total(Evicted(k)))
  /\ sumSq' = Minus(sumSq, TotalSq(Evicted(k)))
  /\ IF Dirtied(k) THEN RecomputeExtrema ELSE UNCHANGED extrema

Clear ==
  /\ data' = <<>>
  /\ sum' = 0 /\ sumSq' = 0
  /\ min' = Infinity /\ max' = -Infinity
  /\ extremaDirty' = FALSE
  /\ UNCHANGED capacity

Next ==
  \/ \E v \in Samples : Push(v)
  \/ \E n \in Capacities : SetCapacity(n)
  \/ Clear

Spec == Init /\ [][Next]_vars

\* statistics(), with its fallback.
Statistics ==
  [n |-> Len(data), sum |-> sum, sumSq |-> sumSq,
   min |-> IF extremaDirty THEN Least(data) ELSE min,
   max |-> IF extremaDirty THEN Greatest(data) ELSE max]

-----------------------------------------------------------------------------
(* Properties *)

Number == Int \cup {NaN}

TypeOK ==
  /\ data \in Seq(Values \cup {NaN}) /\ capacity \in Capacities
  /\ Len(data) <= capacity
  /\ sum \in Number /\ sumSq \in Number
  /\ min \in Int /\ max \in Int
  /\ extremaDirty \in BOOLEAN

\* The cached extrema are those of the samples in the buffer, after any mix of
\* evictions, resizes and clears; no operation leaves them dirty.
ExtremaAreTrue == ~extremaDirty /\ min = Least(data) /\ max = Greatest(data)

\* Unless a NaN has got into the sums, the statistics shown are those a full
\* scan of the buffer would give.
StatisticsAreTrue ==
  data # <<>> /\ sum # NaN =>
    Statistics = [n |-> Len(data), sum |-> Total(data), sumSq |-> TotalSq(data),
                  min |-> Least(data), max |-> Greatest(data)]

\* "keeping the running accumulators in sync": the sums are NaN only while a
\* sample of the buffer is.
SumsFollowTheSamples == sum = NaN => Total(data) = NaN
=============================================================================
