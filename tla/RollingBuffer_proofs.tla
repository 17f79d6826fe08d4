------------------------ MODULE RollingBuffer_proofs ------------------------
(***************************************************************************)
(* The cached extrema of a RollingBuffer are always those of its samples,  *)
(* and its running sums too until a NaN gets into them, for every          *)
(* capacity, every range of values and with NaN among them.                *)
(***************************************************************************)
EXTENDS RollingBuffer, SequenceTheorems, WellFoundedInduction, TLAPS

-----------------------------------------------------------------------------
(* Every non-empty set of sample values has a least and a greatest member *)

LEMMA LeastNatural ==
  ASSUME NEW T, T \subseteq Nat, T # {}
  PROVE  \E m \in T : \A n \in T : m <= n
<1> DEFINE R == {p \in Nat \X Nat : p[1] < p[2]}
<1>1. IsWellFoundedOn(R, Nat)
  BY NatLessThanWellFounded DEF OpToRel
<1>2. PICK m \in T : \A n \in T : ~(<<n, m>> \in R)
  <2> HIDE DEF R
  <2>. QED
    BY <1>1, WFMin
<1>3. \A n \in T : ~(n < m)
  BY <1>2
<1>. QED
  BY <1>3

LEMMA LeastAndGreatestValue ==
  ASSUME NEW S, S \subseteq Values, S # {}
  PROVE  /\ \E m \in S : \A n \in S : m <= n
         /\ \E m \in S : \A n \in S : m >= n
<1> USE InfinityAssumption, ValuesAssumption DEF InfinityAssumption, ValuesAssumption
<1>1. S \subseteq Int /\ \A v \in S : v + Infinity \in Nat /\ Infinity - v \in Nat
  OBVIOUS
<1>2. \E m \in S : \A n \in S : m <= n
  <2> DEFINE T == {v + Infinity : v \in S}
  <2>1. PICK t \in T : \A n \in T : t <= n
    <3>1. T \subseteq Nat /\ T # {}
      BY <1>1
    <3> HIDE DEF T
    <3>. QED
      BY <3>1, LeastNatural
  <2>2. PICK m \in S : t = m + Infinity
    OBVIOUS
  <2>3. \A n \in S : m + Infinity <= n + Infinity
    BY <2>1, <2>2
  <2>. QED
    BY <1>1, <2>3
<1>3. \E m \in S : \A n \in S : m >= n
  <2> DEFINE T == {Infinity - v : v \in S}
  <2>1. PICK t \in T : \A n \in T : t <= n
    <3>1. T \subseteq Nat /\ T # {}
      BY <1>1
    <3> HIDE DEF T
    <3>. QED
      BY <3>1, LeastNatural
  <2>2. PICK m \in S : t = Infinity - m
    OBVIOUS
  <2>3. \A n \in S : Infinity - m <= Infinity - n
    BY <2>1, <2>2
  <2>. QED
    BY <1>1, <2>3
<1>. QED
  BY <1>2, <1>3

-----------------------------------------------------------------------------
(* Least and Greatest of a sequence of samples *)

SampleSeqs == Seq(Values \cup {NaN})

LEMMA FiniteValues ==
  ASSUME NEW s \in SampleSeqs
  PROVE  /\ Finite(s) \subseteq Values /\ Finite(s) \subseteq Int
         /\ \A v \in Finite(s) : v < Infinity /\ v > -Infinity
<1>1. Finite(s) \subseteq Values
  BY DEF Finite, SampleSeqs
<1>2. \A v \in Values : v \in Int /\ v < Infinity /\ v > -Infinity
  BY ValuesAssumption, InfinityAssumption DEF ValuesAssumption, InfinityAssumption
<1>. QED
  BY <1>1, <1>2

\* Least(s) is characterised by what it is: a sample below all the others.
LEMMA LeastIs ==
  ASSUME NEW s \in SampleSeqs
  PROVE  /\ Finite(s) = {} => Least(s) = Infinity
         /\ Finite(s) # {} => Least(s) \in Finite(s) /\ \A u \in Finite(s) : Least(s) <= u
         /\ \A m \in Finite(s) : (\A u \in Finite(s) : m <= u) => Least(s) = m
         /\ Least(s) \in Int
<1> DEFINE F == Finite(s)
<1>1. F \subseteq Values /\ F \subseteq Int
  BY FiniteValues
<1>2. F = {} => Least(s) = Infinity
  BY DEF Least
<1>3. F # {} => Least(s) \in F /\ \A u \in F : Least(s) <= u
  <2> SUFFICES ASSUME F # {}
               PROVE  Least(s) \in F /\ \A u \in F : Least(s) <= u
    OBVIOUS
  <2>1. \E m \in F : \A n \in F : m <= n
    <3> HIDE DEF F
    <3>. QED
      BY <1>1, LeastAndGreatestValue
  <2>2. Least(s) = CHOOSE v \in F : \A u \in F : v <= u
    BY DEF Least
  <2> HIDE DEF F
  <2>. QED
    BY <2>1, <2>2
<1> HIDE DEF F
<1>4. ASSUME NEW m \in F, \A u \in F : m <= u
      PROVE  Least(s) = m
  <2>1. Least(s) \in F /\ Least(s) <= m /\ m <= Least(s)
    BY <1>3, <1>4
  <2>2. Least(s) \in Int /\ m \in Int
    BY <1>1, <2>1
  <2>. QED
    BY <2>1, <2>2
<1>5. Least(s) \in Int
  <2>1. CASE F = {}
    BY <1>2, <2>1, InfinityAssumption DEF InfinityAssumption
  <2>2. CASE F # {}
    BY <1>1, <1>3, <2>2
  <2>. QED
    BY <2>1, <2>2
<1>. QED
  BY <1>2, <1>3, <1>4, <1>5 DEF F

LEMMA GreatestIs ==
  ASSUME NEW s \in SampleSeqs
  PROVE  /\ Finite(s) = {} => Greatest(s) = -Infinity
         /\ Finite(s) # {} => Greatest(s) \in Finite(s) /\ \A u \in Finite(s) : Greatest(s) >= u
         /\ \A m \in Finite(s) : (\A u \in Finite(s) : m >= u) => Greatest(s) = m
         /\ Greatest(s) \in Int
<1> DEFINE F == Finite(s)
<1>1. F \subseteq Values /\ F \subseteq Int
  BY FiniteValues
<1>2. F = {} => Greatest(s) = -Infinity
  BY DEF Greatest
<1>3. F # {} => Greatest(s) \in F /\ \A u \in F : Greatest(s) >= u
  <2> SUFFICES ASSUME F # {}
               PROVE  Greatest(s) \in F /\ \A u \in F : Greatest(s) >= u
    OBVIOUS
  <2>1. \E m \in F : \A n \in F : m >= n
    <3> HIDE DEF F
    <3>. QED
      BY <1>1, LeastAndGreatestValue
  <2>2. Greatest(s) = CHOOSE v \in F : \A u \in F : v >= u
    BY DEF Greatest
  <2> HIDE DEF F
  <2>. QED
    BY <2>1, <2>2
<1> HIDE DEF F
<1>4. ASSUME NEW m \in F, \A u \in F : m >= u
      PROVE  Greatest(s) = m
  <2>1. Greatest(s) \in F /\ Greatest(s) >= m /\ m >= Greatest(s)
    BY <1>3, <1>4
  <2>2. Greatest(s) \in Int /\ m \in Int
    BY <1>1, <2>1
  <2>. QED
    BY <2>1, <2>2
<1>5. Greatest(s) \in Int
  <2>1. CASE F = {}
    BY <1>2, <2>1, InfinityAssumption DEF InfinityAssumption
  <2>2. CASE F # {}
    BY <1>1, <1>3, <2>2
  <2>. QED
    BY <2>1, <2>2
<1>. QED
  BY <1>2, <1>3, <1>4, <1>5 DEF F

\* Taking in a sample moves the extrema as f64::min and f64::max do.
LEMMA ExtremaOfAppend ==
  ASSUME NEW s \in SampleSeqs, NEW v \in Values \cup {NaN}
  PROVE  /\ Append(s, v) \in SampleSeqs
         /\ Least(Append(s, v)) = Lower(Least(s), v)
         /\ Greatest(Append(s, v)) = Higher(Greatest(s), v)
<1> DEFINE t == Append(s, v)
           F == Finite(s)
           G == Finite(t)
<1>1. t \in SampleSeqs
  BY DEF SampleSeqs
<1>2. G = F \cup ({v} \ {NaN})
  <2>1. /\ DOMAIN t = 1 .. Len(s) + 1 /\ DOMAIN s = 1 .. Len(s) /\ Len(s) \in Nat
        /\ t[Len(s) + 1] = v /\ \A i \in 1 .. Len(s) : t[i] = s[i]
    BY DEF SampleSeqs
  <2>2. {t[i] : i \in DOMAIN t} = {s[i] : i \in DOMAIN s} \cup {v}
    <3> HIDE DEF t
    <3>. QED
      BY <2>1
  <2>. QED
    BY <2>2 DEF Finite
<1>3. F \subseteq Int /\ (v # NaN => v \in Int /\ v < Infinity /\ v > -Infinity)
  <2>1. F \subseteq Int
    BY FiniteValues
  <2>2. \A u \in Values : u \in Int /\ u < Infinity /\ u > -Infinity
    BY ValuesAssumption, InfinityAssumption DEF ValuesAssumption, InfinityAssumption
  <2>. QED
    BY <2>1, <2>2
<1> HIDE DEF t, F, G
<1>4. /\ F = {} => Least(s) = Infinity /\ Greatest(s) = -Infinity
      /\ F # {} => /\ Least(s) \in F /\ \A u \in F : Least(s) <= u
                   /\ Greatest(s) \in F /\ \A u \in F : Greatest(s) >= u
  BY LeastIs, GreatestIs DEF F
<1>5. /\ G = {} => Least(t) = Infinity /\ Greatest(t) = -Infinity
      /\ \A m \in G : (\A u \in G : m <= u) => Least(t) = m
      /\ \A m \in G : (\A u \in G : m >= u) => Greatest(t) = m
  BY <1>1, LeastIs, GreatestIs DEF G
<1>6. Least(t) = Lower(Least(s), v) /\ Greatest(t) = Higher(Greatest(s), v)
  <2>1. CASE v = NaN
    BY <2>1, <1>2, <1>3, <1>4, <1>5 DEF Lower, Higher
  <2>2. CASE v # NaN /\ F = {}
    BY <2>2, <1>2, <1>3, <1>4, <1>5 DEF Lower, Higher
  <2>3. CASE v # NaN /\ F # {}
    <3> DEFINE l == Lower(Least(s), v)
               g == Higher(Greatest(s), v)
    <3>1. G = F \cup {v} /\ v \in Int /\ Least(s) \in Int /\ Greatest(s) \in Int
      BY <2>3, <1>2, <1>3, <1>4
    <3>2. l \in G /\ g \in G
      BY <2>3, <3>1, <1>4 DEF Lower, Higher
    <3>3. l <= v /\ l <= Least(s) /\ g >= v /\ g >= Greatest(s) /\ l \in Int /\ g \in Int
      BY <2>3, <3>1 DEF Lower, Higher
    <3>4. \A u \in F : Least(s) <= u /\ Greatest(s) >= u /\ u \in Int
      BY <2>3, <1>3, <1>4
    <3> HIDE DEF l, g
    <3>5. \A u \in G : l <= u /\ g >= u
      BY <3>1, <3>3, <3>4
    <3>6. Least(t) = l /\ Greatest(t) = g
      BY <3>2, <3>5, <1>5
    <3>. QED
      BY <3>6 DEF l, g
  <2>. QED
    BY <2>1, <2>2, <2>3
<1>. QED
  BY <1>1, <1>6 DEF t

\* Evicting samples that are not extrema leaves the extrema as they are.
LEMMA ExtremaOfKept ==
  ASSUME data \in SampleSeqs, NEW k \in 0 .. Len(data)
  PROVE  /\ Kept(k) \in SampleSeqs /\ Len(Kept(k)) = Len(data) - k
         /\ (\A i \in 1 .. k : data[i] \notin {Least(data), Greatest(data)})
              => Least(Kept(k)) = Least(data) /\ Greatest(Kept(k)) = Greatest(data)
<1> DEFINE t == Kept(k)
           F == Finite(data)
           G == Finite(t)
<1>1. t \in SampleSeqs /\ Len(t) = Len(data) - k
  BY DEF SampleSeqs, Kept
<1>2. \A i \in 1 .. Len(t) : t[i] = data[i + k]
  BY DEF SampleSeqs, Kept
<1>3. DOMAIN t = 1 .. Len(t) /\ DOMAIN data = 1 .. Len(data) /\ Len(data) \in Nat
  BY <1>1 DEF SampleSeqs
<1> HIDE DEF t
<1>4. G \subseteq F
  BY <1>1, <1>2, <1>3 DEF Finite
<1>5. \A i \in k + 1 .. Len(data) : data[i] # NaN => data[i] \in G
  <2> SUFFICES ASSUME NEW i \in k + 1 .. Len(data), data[i] # NaN
               PROVE  data[i] \in G
    OBVIOUS
  <2>1. i - k \in DOMAIN t /\ t[i - k] = data[i]
    BY <1>1, <1>2, <1>3
  <2>. QED
    BY <2>1 DEF Finite
<1>6. SUFFICES ASSUME \A i \in 1 .. k : data[i] \notin {Least(data), Greatest(data)}
               PROVE  Least(t) = Least(data) /\ Greatest(t) = Greatest(data)
  BY <1>1 DEF t
<1>7. CASE F = {}
  BY <1>1, <1>4, <1>7, LeastIs, GreatestIs
<1>8. CASE F # {}
  <2>1. /\ Least(data) \in F /\ Greatest(data) \in F
        /\ \A u \in F : Least(data) <= u /\ Greatest(data) >= u
    BY <1>8, LeastIs, GreatestIs
  <2>2. PICK i, j \in 1 .. Len(data) : data[i] = Least(data) /\ data[j] = Greatest(data)
    BY <2>1, <1>3 DEF Finite
  <2>3. Least(data) # NaN /\ Greatest(data) # NaN
    BY <2>1 DEF Finite
  <2>4. Least(data) \in G /\ Greatest(data) \in G
    BY <2>2, <2>3, <1>5, <1>6, <1>3
  <2>. QED
    BY <1>1, <1>4, <2>1, <2>4, LeastIs, GreatestIs
<1>. QED
  BY <1>7, <1>8

-----------------------------------------------------------------------------
(* The invariant *)

\* The samples are values, no more than fit, and the extrema are theirs.
Inv ==
  /\ data \in SampleSeqs /\ capacity \in Capacities /\ Len(data) <= capacity
  /\ extremaDirty \in BOOLEAN /\ ExtremaAreTrue

LEMMA InvInit == Init => Inv
<1> SUFFICES ASSUME Init
             PROVE  Inv
  OBVIOUS
<1>1. data \in SampleSeqs /\ Len(data) = 0 /\ Finite(data) = {}
  BY DEF Init, SampleSeqs, Finite
<1>2. capacity \in Capacities /\ capacity \in Nat
  BY CapacitiesAssumption DEF Init, CapacitiesAssumption
<1>3. min = Least(data) /\ max = Greatest(data)
  BY <1>1, LeastIs, GreatestIs DEF Init
<1>4. extremaDirty \in BOOLEAN /\ ~extremaDirty
  BY DEF Init
<1>. QED
  BY <1>1, <1>2, <1>3, <1>4 DEF Inv, ExtremaAreTrue

LEMMA PushKeepsInv ==
  ASSUME Inv, NEW v \in Samples, Push(v)
  PROVE  Inv'
<1> DEFINE k == IF Len(data) >= capacity THEN 1 ELSE 0
<1>1. /\ v \in Values \cup {NaN}
      /\ capacity \in Nat \ {0} /\ Len(data) \in Nat /\ Len(data) <= capacity
  BY SamplesAssumption, CapacitiesAssumption DEF SamplesAssumption, CapacitiesAssumption, Inv, SampleSeqs
<1>2. k \in 0 .. Len(data) /\ Len(data) - k + 1 <= capacity
  BY <1>1
<1>3. /\ data' = Append(Kept(k), v) /\ capacity' = capacity
      /\ IF Dirtied(k) THEN RecomputeExtrema
         ELSE min' = Lower(min, v) /\ max' = Higher(max, v) /\ UNCHANGED extremaDirty
  BY DEF Push
<1> HIDE DEF k
<1>4. Kept(k) \in SampleSeqs /\ Len(Kept(k)) = Len(data) - k
  BY <1>2, ExtremaOfKept DEF Inv
<1>5. data' \in SampleSeqs /\ Len(data') = Len(data) - k + 1
  BY <1>1, <1>2, <1>3, <1>4, ExtremaOfAppend DEF SampleSeqs
<1>6. ExtremaAreTrue'
  <2>1. CASE Dirtied(k)
    BY <2>1, <1>3 DEF RecomputeExtrema, ExtremaAreTrue
  <2>2. CASE ~Dirtied(k)
    <3>1. ~extremaDirty /\ \A i \in 1 .. k : data[i] \notin {Least(data), Greatest(data)}
      BY <2>2 DEF Dirtied, Inv, ExtremaAreTrue
    <3>2. Least(Kept(k)) = min /\ Greatest(Kept(k)) = max
      BY <3>1, <1>2, ExtremaOfKept DEF Inv, ExtremaAreTrue
    <3>3. Least(data') = Lower(min, v) /\ Greatest(data') = Higher(max, v)
      BY <3>2, <1>1, <1>3, <1>4, ExtremaOfAppend
    <3>. QED
      BY <3>1, <3>3, <2>2, <1>3 DEF ExtremaAreTrue
  <2>. QED
    BY <2>1, <2>2
<1>7. extremaDirty' \in BOOLEAN
  BY <1>3 DEF RecomputeExtrema, Inv
<1>. QED
  BY <1>1, <1>2, <1>3, <1>5, <1>6, <1>7 DEF Inv

LEMMA SetCapacityKeepsInv ==
  ASSUME Inv, NEW n \in Capacities, SetCapacity(n)
  PROVE  Inv'
<1> DEFINE k == IF Len(data) > n THEN Len(data) - n ELSE 0
<1>1. n \in Nat \ {0} /\ Len(data) \in Nat
  BY CapacitiesAssumption DEF CapacitiesAssumption, Inv, SampleSeqs
<1>2. k \in 0 .. Len(data) /\ Len(data) - k <= n
  BY <1>1
<1>3. /\ data' = Kept(k) /\ capacity' = n
      /\ IF Dirtied(k) THEN RecomputeExtrema ELSE UNCHANGED extrema
  BY DEF SetCapacity
<1> HIDE DEF k
<1>4. data' \in SampleSeqs /\ Len(data') = Len(data) - k
  BY <1>2, <1>3, ExtremaOfKept DEF Inv
<1>5. ExtremaAreTrue'
  <2>1. CASE Dirtied(k)
    BY <2>1, <1>3 DEF RecomputeExtrema, ExtremaAreTrue
  <2>2. CASE ~Dirtied(k)
    <3>1. ~extremaDirty /\ \A i \in 1 .. k : data[i] \notin {Least(data), Greatest(data)}
      BY <2>2 DEF Dirtied, Inv, ExtremaAreTrue
    <3>2. Least(data') = min /\ Greatest(data') = max
      BY <3>1, <1>2, <1>3, ExtremaOfKept DEF Inv, ExtremaAreTrue
    <3>. QED
      BY <3>1, <3>2, <2>2, <1>3 DEF ExtremaAreTrue, extrema
  <2>. QED
    BY <2>1, <2>2
<1>6. extremaDirty' \in BOOLEAN
  BY <1>3 DEF RecomputeExtrema, Inv, extrema
<1>. QED
  BY <1>2, <1>3, <1>4, <1>5, <1>6 DEF Inv

LEMMA ClearKeepsInv ==
  ASSUME Inv, Clear
  PROVE  Inv'
<1>1. data' \in SampleSeqs /\ Len(data') = 0 /\ Finite(data') = {}
  BY DEF Clear, SampleSeqs, Finite
<1>2. capacity' \in Capacities /\ capacity' \in Nat
  BY CapacitiesAssumption DEF Clear, Inv, CapacitiesAssumption
<1>3. min' = Least(data') /\ max' = Greatest(data')
  BY <1>1, LeastIs, GreatestIs DEF Clear
<1>4. extremaDirty' \in BOOLEAN /\ ~extremaDirty'
  BY DEF Clear
<1>. QED
  BY <1>1, <1>2, <1>3, <1>4 DEF Inv, ExtremaAreTrue

LEMMA StepKeepsInv ==
  ASSUME Inv, [Next]_vars
  PROVE  Inv'
<1>1. CASE \E v \in Samples : Push(v)
  BY <1>1, PushKeepsInv
<1>2. CASE \E n \in Capacities : SetCapacity(n)
  BY <1>2, SetCapacityKeepsInv
<1>3. CASE Clear
  BY <1>3, ClearKeepsInv
<1>4. CASE UNCHANGED vars
  BY <1>4 DEF vars, extrema, Inv, ExtremaAreTrue, Least, Greatest, Finite
<1>. QED
  BY <1>1, <1>2, <1>3, <1>4 DEF Next

\* The cached extrema are those of the samples, with no scan outstanding: what
\* evict_front, push, set_capacity and recompute_extrema promise each other.
THEOREM ExtremaStayTrue == Spec => []ExtremaAreTrue
<1>1. Init => Inv
  BY InvInit
<1>2. Inv /\ [Next]_vars => Inv'
  BY StepKeepsInv
<1>3. Inv => ExtremaAreTrue
  BY DEF Inv
<1>. QED
  BY <1>1, <1>2, <1>3, PTL DEF Spec

-----------------------------------------------------------------------------
(* What the running sums hold: by induction over the samples, in the form  *)
(* of a set of numbers that holds 0 and, with a number, the next.          *)

LEMMA InductionUpTo ==
  ASSUME NEW n \in Nat, NEW T, 0 \in T, \A i \in 0 .. n - 1 : i \in T => i + 1 \in T
  PROVE  \A i \in 0 .. n : i \in T
<1> SUFFICES ASSUME NEW j \in 0 .. n, j \notin T
             PROVE  FALSE
  OBVIOUS
<1> DEFINE Left == {i \in 0 .. n : i \notin T}
<1>1. PICK m \in Left : \A i \in Left : m <= i
  <2>1. Left \subseteq Nat /\ Left # {}
    OBVIOUS
  <2> HIDE DEF Left
  <2>. QED
    BY <2>1, LeastNatural
<1>2. m \in 1 .. n /\ m - 1 \in 0 .. n - 1
  OBVIOUS
<1>3. m - 1 \in T
  BY <1>1, <1>2
<1>4. m - 1 + 1 \in T
  BY <1>2, <1>3
<1>. QED
  BY <1>2, <1>4

\* The running sums of s: f[i] is that of its first i members.
AreSums(f, s) ==
  f = [i \in 0 .. Len(s) |-> IF i = 0 THEN 0 ELSE Plus(f[i - 1], s[i])]

Sums(s) == CHOOSE f : AreSums(f, s)

LEMMA SumsExist ==
  ASSUME NEW s, Len(s) \in Nat
  PROVE  \E f : AreSums(f, s)
<1> DEFINE P(f, n) == f = [i \in 0 .. n |-> IF i = 0 THEN 0 ELSE Plus(f[i - 1], s[i])]
           T == {n \in Nat : \E f : P(f, n)}
<1>1. 0 \in T
  <2> DEFINE f == [i \in 0 .. 0 |-> 0]
  <2>1. P(f, 0)
    OBVIOUS
  <2>. QED
    BY <2>1
<1>2. ASSUME NEW n \in Nat, n \in T
      PROVE  n + 1 \in T
  <2>1. PICK f : P(f, n)
    BY <1>2
  <2> DEFINE g == [i \in 0 .. n + 1 |-> IF i <= n THEN f[i] ELSE Plus(f[n], s[n + 1])]
             h == [i \in 0 .. n + 1 |-> IF i = 0 THEN 0 ELSE Plus(g[i - 1], s[i])]
  <2>2. ASSUME NEW i \in 0 .. n + 1
        PROVE  g[i] = h[i]
    <3>1. CASE i = 0
      <4>1. f[0] = 0
        BY <2>1
      <4>. QED
        BY <3>1, <4>1
    <3>2. CASE i \in 1 .. n
      <4>1. f[i] = Plus(f[i - 1], s[i])
        BY <2>1, <3>2
      <4>2. g[i] = f[i] /\ g[i - 1] = f[i - 1]
        BY <3>2
      <4>. QED
        BY <3>2, <4>1, <4>2
    <3>3. CASE i = n + 1
      <4>1. g[n + 1] = Plus(f[n], s[n + 1]) /\ g[n] = f[n]
        OBVIOUS
      <4>. QED
        BY <3>3, <4>1
    <3>. QED
      BY <3>1, <3>2, <3>3
  <2>3. g = h
    BY <2>2
  <2>4. P(g, n + 1)
    BY <2>3
  <2> HIDE DEF g, h
  <2>5. \E ff : P(ff, n + 1)
    BY <2>4
  <2>. QED
    BY <2>5
<1>3. Len(s) \in T
  <2> HIDE DEF T
  <2>1. \A i \in 0 .. Len(s) - 1 : i \in T => i + 1 \in T
    BY <1>2
  <2>2. \A i \in 0 .. Len(s) : i \in T
    BY <1>1, <2>1, InductionUpTo
  <2>. QED
    BY <2>2
<1>. QED
  BY <1>3 DEF AreSums

LEMMA SumsAre ==
  ASSUME NEW s, Len(s) \in Nat
  PROVE  /\ Sums(s)[0] = 0
         /\ \A i \in 1 .. Len(s) : Sums(s)[i] = Plus(Sums(s)[i - 1], s[i])
         /\ Total(s) = Sums(s)[Len(s)]
<1>1. AreSums(Sums(s), s)
  BY SumsExist DEF Sums
<1>2. Total(s) = Sums(s)[Len(s)]
  BY DEF Total, Sums, AreSums
<1> DEFINE f == Sums(s)
<1>3. f = [i \in 0 .. Len(s) |-> IF i = 0 THEN 0 ELSE Plus(f[i - 1], s[i])]
  BY <1>1 DEF AreSums
<1> HIDE DEF f
<1>4. f[0] = 0 /\ \A i \in 1 .. Len(s) : f[i] = Plus(f[i - 1], s[i])
  BY <1>3
<1>. QED
  BY <1>2, <1>4 DEF f

LEMMA SumOfNumbers ==
  ASSUME NEW a \in Number, NEW b \in Number
  PROVE  /\ Plus(a, b) \in Number /\ Minus(a, b) \in Number
         /\ Plus(a, b) = NaN <=> a = NaN \/ b = NaN
         /\ Minus(a, b) = NaN <=> a = NaN \/ b = NaN
         /\ a # NaN /\ b # NaN => Minus(Plus(a, b), a) = b
BY SamplesAssumption DEF SamplesAssumption, Number, Plus, Minus

LEMMA PlusIsAssociative ==
  ASSUME NEW a \in Number, NEW b \in Number, NEW c \in Number
  PROVE  Plus(Plus(a, b), c) = Plus(a, Plus(b, c))
BY SamplesAssumption DEF SamplesAssumption, Number, Plus

LEMMA NothingToAdd ==
  ASSUME NEW a \in Number
  PROVE  0 \in Number /\ Plus(a, 0) = a /\ Minus(a, 0) = a
BY SamplesAssumption DEF SamplesAssumption, Number, Plus, Minus

LEMMA SquareOfNumber ==
  ASSUME NEW a \in Number
  PROVE  Square(a) \in Number /\ (Square(a) = NaN <=> a = NaN)
<1>1. a \in Int => a * a \in Int
  OBVIOUS
<1>. QED
  BY <1>1, SamplesAssumption DEF SamplesAssumption, Number, Square

LEMMA SumsAreNumbers ==
  ASSUME NEW s \in Seq(Number)
  PROVE  (\A i \in 0 .. Len(s) : Sums(s)[i] \in Number) /\ Total(s) \in Number
<1> DEFINE f == Sums(s)
           T == {i \in 0 .. Len(s) : f[i] \in Number}
<1>1. f[0] = 0 /\ (\A i \in 1 .. Len(s) : f[i] = Plus(f[i - 1], s[i])) /\ Total(s) = f[Len(s)]
  BY SumsAre
<1> HIDE DEF f
<1>2. 0 \in T
  BY <1>1 DEF Number
<1>3. ASSUME NEW i \in 0 .. Len(s) - 1, i \in T
      PROVE  i + 1 \in T
  <2>1. i + 1 \in 1 .. Len(s) /\ i + 1 - 1 = i /\ s[i + 1] \in Number
    OBVIOUS
  <2>2. f[i + 1] = Plus(f[i], s[i + 1])
    BY <1>1, <2>1
  <2>3. f[i + 1] \in Number
    BY <1>3, <2>1, <2>2, SumOfNumbers
  <2>. QED
    BY <2>1, <2>3
<1>4. \A i \in 0 .. Len(s) : i \in T
  <2> HIDE DEF T
  <2>. QED
    BY <1>2, <1>3, InductionUpTo
<1>. QED
  BY <1>1, <1>4 DEF f

\* Sequences that agree on their first n members have the same sums of them.
LEMMA SumsOfPrefix ==
  ASSUME NEW s \in Seq(Number), NEW t \in Seq(Number), NEW n \in Nat,
         n <= Len(s), n <= Len(t), \A i \in 1 .. n : s[i] = t[i]
  PROVE  Sums(s)[n] = Sums(t)[n]
<1> DEFINE f == Sums(s)
           g == Sums(t)
           T == {i \in 0 .. n : f[i] = g[i]}
<1>1. /\ f[0] = 0 /\ \A i \in 1 .. Len(s) : f[i] = Plus(f[i - 1], s[i])
      /\ g[0] = 0 /\ \A i \in 1 .. Len(t) : g[i] = Plus(g[i - 1], t[i])
  BY SumsAre
<1> HIDE DEF f, g
<1>2. 0 \in T
  BY <1>1
<1>3. ASSUME NEW i \in 0 .. n - 1, i \in T
      PROVE  i + 1 \in T
  <2>1. i + 1 \in 1 .. n /\ i + 1 \in 1 .. Len(s) /\ i + 1 \in 1 .. Len(t) /\ i + 1 - 1 = i
    OBVIOUS
  <2>2. f[i + 1] = Plus(f[i], s[i + 1]) /\ g[i + 1] = Plus(g[i], t[i + 1])
    BY <1>1, <2>1
  <2>. QED
    BY <1>3, <2>1, <2>2
<1>4. \A i \in 0 .. n : i \in T
  <2> HIDE DEF T
  <2>. QED
    BY <1>2, <1>3, InductionUpTo
<1>. QED
  BY <1>4 DEF f, g

LEMMA TotalOfAppend ==
  ASSUME NEW s \in Seq(Number), NEW v \in Number
  PROVE  Total(Append(s, v)) = Plus(Total(s), v)
<1> DEFINE t == Append(s, v)
           n == Len(s)
<1>1. t \in Seq(Number) /\ Len(t) = n + 1 /\ t[n + 1] = v /\ n \in Nat /\ \A i \in 1 .. n : t[i] = s[i]
  OBVIOUS
<1>2. Total(s) = Sums(s)[n]
  BY SumsAre
<1> HIDE DEF t, n
<1>3. Total(t) = Sums(t)[n + 1] /\ \A i \in 1 .. n + 1 : Sums(t)[i] = Plus(Sums(t)[i - 1], t[i])
  <2>1. Len(t) \in Nat
    BY <1>1
  <2>. QED
    BY <1>1, <2>1, SumsAre
<1>4. Sums(t)[n + 1] = Plus(Sums(t)[n], v)
  <2>1. n + 1 \in 1 .. n + 1 /\ n + 1 - 1 = n
    BY <1>1
  <2>. QED
    BY <1>1, <1>3, <2>1
<1>5. Sums(t)[n] = Sums(s)[n]
  BY <1>1, SumsOfPrefix DEF n
<1>. QED
  BY <1>2, <1>3, <1>4, <1>5 DEF t

\* A sequence adds up to its first k members and the others.
LEMMA TotalOfParts ==
  ASSUME NEW s \in Seq(Number), NEW k \in 0 .. Len(s)
  PROVE  Total(s) = Plus(Total(SubSeq(s, 1, k)), Total(SubSeq(s, k + 1, Len(s))))
<1> DEFINE a == SubSeq(s, 1, k)
           b == SubSeq(s, k + 1, Len(s))
           n == Len(s) - k
           T == {i \in 0 .. n : Sums(s)[k + i] = Plus(Sums(s)[k], Sums(b)[i])}
<1>1. a \in Seq(Number) /\ Len(a) = k /\ \A i \in 1 .. k : a[i] = s[i]
  OBVIOUS
<1>2. b \in Seq(Number) /\ Len(b) = n /\ \A i \in 1 .. n : b[i] = s[k + i]
  OBVIOUS
<1> HIDE DEF a, b
<1>3. /\ Total(a) = Sums(a)[k] /\ Total(b) = Sums(b)[n] /\ Total(s) = Sums(s)[k + n]
      /\ Sums(b)[0] = 0 /\ \A i \in 1 .. n : Sums(b)[i] = Plus(Sums(b)[i - 1], b[i])
      /\ \A i \in 1 .. Len(s) : Sums(s)[i] = Plus(Sums(s)[i - 1], s[i])
  <2>1. Len(a) \in Nat /\ Len(b) \in Nat /\ Len(s) \in Nat /\ k + n = Len(s)
    BY <1>1, <1>2
  <2>2. Total(a) = Sums(a)[k]
    BY <1>1, <2>1, SumsAre
  <2>3. /\ Total(b) = Sums(b)[n] /\ Sums(b)[0] = 0
        /\ \A i \in 1 .. n : Sums(b)[i] = Plus(Sums(b)[i - 1], b[i])
    BY <1>2, <2>1, SumsAre
  <2>4. /\ Total(s) = Sums(s)[k + n]
        /\ \A i \in 1 .. Len(s) : Sums(s)[i] = Plus(Sums(s)[i - 1], s[i])
    BY <2>1, SumsAre
  <2>. QED
    BY <2>2, <2>3, <2>4
<1>4. Sums(a)[k] = Sums(s)[k]
  BY <1>1, SumsOfPrefix
<1>5. /\ \A i \in 0 .. Len(s) : Sums(s)[i] \in Number
      /\ \A i \in 0 .. n : Sums(b)[i] \in Number
  BY <1>2, SumsAreNumbers
<1>6. 0 \in T
  <2>1. Sums(b)[0] = 0 /\ Sums(s)[k] \in Number
    BY <1>3, <1>5
  <2>. QED
    BY <1>1, <2>1, NothingToAdd
<1>7. ASSUME NEW i \in 0 .. n - 1, i \in T
      PROVE  i + 1 \in T
  <2>1. /\ i + 1 \in 1 .. n /\ i + 1 - 1 = i
        /\ k + (i + 1) \in 1 .. Len(s) /\ k + (i + 1) - 1 = k + i
        /\ s[k + (i + 1)] \in Number
    OBVIOUS
  <2>2. Sums(s)[k + (i + 1)] = Plus(Sums(s)[k + i], s[k + (i + 1)])
    BY <1>3, <2>1
  <2>3. Sums(b)[i + 1] = Plus(Sums(b)[i], s[k + (i + 1)])
    BY <1>2, <1>3, <2>1
  <2>4. Sums(s)[k] \in Number /\ Sums(b)[i] \in Number
    BY <1>5
  <2>5. Sums(s)[k + i] = Plus(Sums(s)[k], Sums(b)[i])
    BY <1>7
  <2>6. Sums(s)[k + (i + 1)] = Plus(Sums(s)[k], Sums(b)[i + 1])
    BY <2>1, <2>2, <2>3, <2>4, <2>5, PlusIsAssociative
  <2>. QED
    BY <2>1, <2>6
<1>8. \A i \in 0 .. n : i \in T
  <2>1. n \in Nat
    OBVIOUS
  <2> HIDE DEF T, n
  <2>. QED
    BY <1>6, <1>7, <2>1, InductionUpTo
<1>9. Sums(s)[k + n] = Plus(Sums(s)[k], Sums(b)[n])
  BY <1>8
<1>. QED
  BY <1>3, <1>4, <1>9 DEF a, b

\* A NaN gets into the sum of the squares when it gets into the sum.
LEMMA SquaresAreNumbers ==
  ASSUME NEW s \in Seq(Number)
  PROVE  /\ Squares(s) \in Seq(Number) /\ Len(Squares(s)) = Len(s)
         /\ \A i \in 1 .. Len(s) : Squares(s)[i] = Square(s[i])
         /\ Total(s) = NaN <=> TotalSq(s) = NaN
<1> DEFINE q == Squares(s)
           f == Sums(s)
           g == Sums(q)
           T == {i \in 0 .. Len(s) : f[i] = NaN <=> g[i] = NaN}
<1>1. q \in Seq(Number) /\ Len(q) = Len(s) /\ \A i \in 1 .. Len(s) : q[i] = Square(s[i])
  <2>1. q = [i \in 1 .. Len(s) |-> Square(s[i])]
    BY DEF Squares
  <2>2. \A i \in 1 .. Len(s) : Square(s[i]) \in Number
    BY SquareOfNumber
  <2> HIDE DEF q
  <2>. QED
    BY <2>1, <2>2
<1> HIDE DEF q
<1>2. /\ f[0] = 0 /\ \A i \in 1 .. Len(s) : f[i] = Plus(f[i - 1], s[i])
      /\ g[0] = 0 /\ \A i \in 1 .. Len(s) : g[i] = Plus(g[i - 1], q[i])
      /\ Total(s) = f[Len(s)] /\ Total(q) = g[Len(s)]
  BY <1>1, SumsAre
<1>3. \A i \in 0 .. Len(s) : f[i] \in Number /\ g[i] \in Number
  BY <1>1, SumsAreNumbers
<1> HIDE DEF f, g
<1>4. 0 \in T
  BY <1>2
<1>5. ASSUME NEW i \in 0 .. Len(s) - 1, i \in T
      PROVE  i + 1 \in T
  <2>1. i + 1 \in 1 .. Len(s) /\ i + 1 - 1 = i /\ s[i + 1] \in Number /\ i \in 0 .. Len(s)
    OBVIOUS
  <2>2. f[i + 1] = Plus(f[i], s[i + 1]) /\ g[i + 1] = Plus(g[i], Square(s[i + 1]))
    BY <1>1, <1>2, <2>1
  <2>3. f[i] \in Number /\ g[i] \in Number /\ Square(s[i + 1]) \in Number
    BY <1>3, <2>1, SquareOfNumber
  <2>4. f[i] = NaN <=> g[i] = NaN
    BY <1>5
  <2>5. f[i + 1] = NaN <=> g[i + 1] = NaN
    BY <2>1, <2>2, <2>3, <2>4, SumOfNumbers, SquareOfNumber
  <2>. QED
    BY <2>1, <2>5
<1>6. \A i \in 0 .. Len(s) : i \in T
  <2> HIDE DEF T
  <2>. QED
    BY <1>4, <1>5, InductionUpTo
<1>7. Total(s) = NaN <=> TotalSq(s) = NaN
  BY <1>2, <1>6 DEF TotalSq, q
<1>. QED
  BY <1>1, <1>7 DEF q

LEMMA SquaresOfParts ==
  ASSUME NEW s \in Seq(Number), NEW m \in Nat, NEW n \in Nat,
         1 <= m, m <= n + 1, n <= Len(s)
  PROVE  Squares(SubSeq(s, m, n)) = SubSeq(Squares(s), m, n)
<1> DEFINE q == Squares(s)
           p == SubSeq(s, m, n)
           d == n - m + 1
<1>1. q \in Seq(Number) /\ Len(q) = Len(s) /\ \A i \in 1 .. Len(s) : q[i] = Square(s[i])
  BY SquaresAreNumbers
<1>2. p \in Seq(Number) /\ Len(p) = d /\ \A i \in 1 .. d : p[i] = s[m + i - 1]
  OBVIOUS
<1>3. Squares(p) = [i \in 1 .. d |-> Square(p[i])]
  <2>1. DOMAIN p = 1 .. d
    BY <1>2
  <2>. QED
    BY <2>1 DEF Squares
<1>4. SubSeq(q, m, n) = [i \in 1 .. d |-> q[m + i - 1]]
  <2> HIDE DEF q
  <2>. QED
    BY <1>1
<1>5. \A i \in 1 .. d : Square(p[i]) = q[m + i - 1]
  <2> SUFFICES ASSUME NEW i \in 1 .. d
               PROVE  Square(p[i]) = q[m + i - 1]
    OBVIOUS
  <2>1. m + i - 1 \in 1 .. Len(s)
    OBVIOUS
  <2> HIDE DEF p, q, d
  <2>. QED
    BY <1>1, <1>2, <2>1
<1>. QED
  BY <1>3, <1>4, <1>5

LEMMA SquaresOfAppend ==
  ASSUME NEW s \in Seq(Number), NEW v \in Number
  PROVE  Squares(Append(s, v)) = Append(Squares(s), Square(v))
<1> DEFINE q == Squares(s)
           t == Append(s, v)
           r == Append(q, Square(v))
<1>1. q \in Seq(Number) /\ Len(q) = Len(s) /\ \A i \in 1 .. Len(s) : q[i] = Square(s[i])
  BY SquaresAreNumbers
<1>2. t \in Seq(Number) /\ Len(t) = Len(s) + 1
  OBVIOUS
<1>3. Squares(t) \in Seq(Number) /\ Len(Squares(t)) = Len(t)
      /\ \A i \in 1 .. Len(t) : Squares(t)[i] = Square(t[i])
  BY <1>2, SquaresAreNumbers
<1>4. Square(v) \in Number
  BY SquareOfNumber
<1>5. /\ \A i \in 1 .. Len(s) : t[i] = s[i]
      /\ t[Len(s) + 1] = v
  OBVIOUS
<1>6. r \in Seq(Number) /\ Len(r) = Len(s) + 1
      /\ (\A i \in 1 .. Len(s) : r[i] = q[i]) /\ r[Len(s) + 1] = Square(v)
  <2> HIDE DEF q
  <2>. QED
    BY <1>1, <1>4
<1> HIDE DEF q, t, r
<1>7. \A i \in 1 .. Len(s) + 1 : Squares(t)[i] = r[i]
  <2> SUFFICES ASSUME NEW i \in 1 .. Len(s) + 1
               PROVE  Squares(t)[i] = r[i]
    OBVIOUS
  <2>1. CASE i \in 1 .. Len(s)
    BY <2>1, <1>1, <1>2, <1>3, <1>5, <1>6
  <2>2. CASE i = Len(s) + 1
    BY <2>2, <1>2, <1>3, <1>5, <1>6
  <2>. QED
    BY <2>1, <2>2
<1>8. Squares(t) = r
  BY <1>2, <1>3, <1>6, <1>7, SeqEqual
<1>. QED
  BY <1>8 DEF q, t, r

-----------------------------------------------------------------------------
(* The sums *)

\* A total and a total of squares that are those of s, unless a NaN has got
\* into both.
TotalsOf(a, b, s) ==
  /\ a \in Number /\ b \in Number
  /\ a = NaN <=> b = NaN
  /\ a # NaN => a = Total(s) /\ b = TotalSq(s)

\* A NaN aside, the sums are those of the samples.
SumsInv == TotalsOf(sum, sumSq, data)

LEMMA SamplesAreNumbers == SampleSeqs \subseteq Seq(Number) /\ Values \cup {NaN} \subseteq Number
<1>1. Values \cup {NaN} \subseteq Number
  <2>1. \A v \in Values : v \in Int
    BY ValuesAssumption, InfinityAssumption DEF ValuesAssumption, InfinityAssumption
  <2>. QED
    BY <2>1 DEF Number
<1>. QED
  BY <1>1 DEF SampleSeqs

LEMMA TotalsOfNothing == TotalsOf(0, 0, <<>>)
<1>1. Len(<<>>) = 0 /\ <<>> \in Seq(Number) /\ 0 \in Number /\ 0 # NaN
  BY SamplesAssumption DEF SamplesAssumption, Number
<1>2. Squares(<<>>) = <<>>
  BY <1>1 DEF Squares
<1>3. Total(<<>>) = 0
  <2>1. Total(<<>>) = Sums(<<>>)[0] /\ Sums(<<>>)[0] = 0
    BY <1>1, SumsAre
  <2>. QED
    BY <2>1
<1>. QED
  BY <1>1, <1>2, <1>3 DEF TotalsOf, TotalSq

\* Subtracting what the first k samples add up to leaves what the others do.
LEMMA TotalsOfKept ==
  ASSUME NEW s \in Seq(Number), NEW k \in 0 .. Len(s), NEW a, NEW b, TotalsOf(a, b, s)
  PROVE  TotalsOf(Minus(a, Total(SubSeq(s, 1, k))), Minus(b, TotalSq(SubSeq(s, 1, k))),
                  SubSeq(s, k + 1, Len(s)))
<1> DEFINE q == Squares(s)
           front == SubSeq(s, 1, k)
           rest == SubSeq(s, k + 1, Len(s))
           c == Minus(a, Total(front))
           d == Minus(b, TotalSq(front))
<1>1. front \in Seq(Number) /\ rest \in Seq(Number)
  OBVIOUS
<1>2. q \in Seq(Number) /\ Len(q) = Len(s)
  BY SquaresAreNumbers
<1>3. Squares(front) = SubSeq(q, 1, k) /\ Squares(rest) = SubSeq(q, k + 1, Len(s))
  <2>1. Len(s) \in Nat /\ k \in Nat /\ k + 1 \in Nat /\ 1 <= k + 1 /\ k <= Len(s)
        /\ k + 1 <= Len(s) + 1 /\ Len(s) <= Len(s) /\ 1 <= 1
    OBVIOUS
  <2>2. Squares(SubSeq(s, 1, k)) = SubSeq(Squares(s), 1, k)
    BY <2>1, SquaresOfParts
  <2>3. Squares(SubSeq(s, k + 1, Len(s))) = SubSeq(Squares(s), k + 1, Len(s))
    BY <2>1, SquaresOfParts
  <2>. QED
    BY <2>2, <2>3
<1> HIDE DEF q, front, rest
<1>4. /\ Total(s) = Plus(Total(front), Total(rest))
      /\ TotalSq(s) = Plus(TotalSq(front), TotalSq(rest))
  <2>1. Total(s) = Plus(Total(front), Total(rest))
    BY TotalOfParts DEF front, rest
  <2>2. Total(q) = Plus(Total(SubSeq(q, 1, k)), Total(SubSeq(q, k + 1, Len(q))))
    BY <1>2, TotalOfParts
  <2>. QED
    BY <2>1, <2>2, <1>2, <1>3 DEF TotalSq, q
<1>5. /\ Total(front) \in Number /\ TotalSq(front) \in Number
      /\ Total(rest) \in Number /\ TotalSq(rest) \in Number
  BY <1>1, SumsAreNumbers, SquaresAreNumbers DEF TotalSq
<1>6. Total(front) = NaN <=> TotalSq(front) = NaN
  BY <1>1, SquaresAreNumbers
<1>7. a \in Number /\ b \in Number /\ (a = NaN <=> b = NaN)
  BY DEF TotalsOf
<1>8. c \in Number /\ d \in Number /\ (c = NaN <=> d = NaN)
  BY <1>5, <1>6, <1>7, SumOfNumbers
<1>9. ASSUME c # NaN
      PROVE  c = Total(rest) /\ d = TotalSq(rest)
  <2>1. a # NaN /\ Total(front) # NaN /\ TotalSq(front) # NaN
    BY <1>5, <1>6, <1>7, <1>9, SumOfNumbers
  <2>2. a = Plus(Total(front), Total(rest)) /\ b = Plus(TotalSq(front), TotalSq(rest)) /\ b # NaN
    BY <1>4, <1>7, <2>1 DEF TotalsOf
  <2>3. Total(rest) # NaN /\ TotalSq(rest) # NaN
    BY <1>5, <2>1, <2>2, SumOfNumbers
  <2>. QED
    BY <1>5, <2>1, <2>2, <2>3, SumOfNumbers
<1>. QED
  BY <1>8, <1>9 DEF TotalsOf, front, rest

LEMMA TotalsOfAppend ==
  ASSUME NEW s \in Seq(Number), NEW v \in Number, NEW a, NEW b, TotalsOf(a, b, s)
  PROVE  TotalsOf(Plus(a, v), Plus(b, Square(v)), Append(s, v))
<1>1. a \in Number /\ b \in Number /\ (a = NaN <=> b = NaN)
  BY DEF TotalsOf
<1>2. Square(v) \in Number /\ (Square(v) = NaN <=> v = NaN)
  BY SquareOfNumber
<1>3. /\ Total(Append(s, v)) = Plus(Total(s), v)
      /\ TotalSq(Append(s, v)) = Plus(TotalSq(s), Square(v))
  <2>1. Squares(s) \in Seq(Number)
    BY SquaresAreNumbers
  <2>2. Total(Append(Squares(s), Square(v))) = Plus(Total(Squares(s)), Square(v))
    BY <2>1, <1>2, TotalOfAppend
  <2>. QED
    BY <2>2, TotalOfAppend, SquaresOfAppend DEF TotalSq
<1>4. /\ Plus(a, v) \in Number /\ Plus(b, Square(v)) \in Number
      /\ Plus(a, v) = NaN <=> Plus(b, Square(v)) = NaN
      /\ Plus(a, v) # NaN => a # NaN
  BY <1>1, <1>2, SumOfNumbers
<1>. QED
  BY <1>3, <1>4 DEF TotalsOf

LEMMA StepKeepsSums ==
  ASSUME Inv, SumsInv, [Next]_vars
  PROVE  SumsInv'
<1>1. data \in Seq(Number)
  BY SamplesAreNumbers DEF Inv
<1>2. ASSUME NEW k \in 0 .. Len(data)
      PROVE  /\ Kept(k) \in Seq(Number)
             /\ TotalsOf(Minus(sum, Total(Evicted(k))), Minus(sumSq, TotalSq(Evicted(k))), Kept(k))
  <2>1. Kept(k) \in Seq(Number)
    BY <1>1 DEF Kept
  <2>. QED
    BY <1>1, <2>1, TotalsOfKept DEF SumsInv, Kept, Evicted
<1>3. capacity \in Nat \ {0} /\ Len(data) \in Nat
  BY <1>1, CapacitiesAssumption DEF CapacitiesAssumption, Inv
<1>4. ASSUME NEW v \in Samples, Push(v)
      PROVE  SumsInv'
  <2> DEFINE k == IF Len(data) >= capacity THEN 1 ELSE 0
  <2>1. k \in 0 .. Len(data) /\ v \in Number
    BY <1>3, SamplesAssumption, SamplesAreNumbers DEF SamplesAssumption
  <2>2. /\ data' = Append(Kept(k), v)
        /\ sum' = Plus(Minus(sum, Total(Evicted(k))), v)
        /\ sumSq' = Plus(Minus(sumSq, TotalSq(Evicted(k))), Square(v))
    BY <1>4 DEF Push
  <2> HIDE DEF k
  <2>3. TotalsOf(sum', sumSq', data')
    BY <1>2, <2>1, <2>2, TotalsOfAppend
  <2>. QED
    BY <2>3 DEF SumsInv, TotalsOf
<1>5. ASSUME NEW n \in Capacities, SetCapacity(n)
      PROVE  SumsInv'
  <2> DEFINE k == IF Len(data) > n THEN Len(data) - n ELSE 0
  <2>1. k \in 0 .. Len(data)
    BY <1>3, CapacitiesAssumption DEF CapacitiesAssumption
  <2>2. /\ data' = Kept(k)
        /\ sum' = Minus(sum, Total(Evicted(k)))
        /\ sumSq' = Minus(sumSq, TotalSq(Evicted(k)))
    BY <1>5 DEF SetCapacity
  <2> HIDE DEF k
  <2>3. TotalsOf(sum', sumSq', data')
    BY <1>2, <2>1, <2>2
  <2>. QED
    BY <2>3 DEF SumsInv, TotalsOf
<1>6. CASE Clear
  <2>1. TotalsOf(sum', sumSq', data')
    BY <1>6, TotalsOfNothing DEF Clear
  <2>. QED
    BY <2>1 DEF SumsInv, TotalsOf
<1>7. CASE UNCHANGED vars
  <2>1. TotalsOf(sum', sumSq', data')
    BY <1>7 DEF vars, SumsInv
  <2>. QED
    BY <2>1 DEF SumsInv, TotalsOf
<1>. QED
  BY <1>4, <1>5, <1>6, <1>7 DEF Next

\* Unless a NaN has got into the sums, what statistics() shows is what a scan of
\* the buffer would: after any evictions, resizes and clears, the sums that are
\* kept up to date one sample at a time have lost none and kept none too long.
THEOREM StatisticsStayTrue == Spec => []StatisticsAreTrue
<1>1. Init => Inv /\ SumsInv
  BY InvInit, TotalsOfNothing DEF Init, SumsInv
<1>2. Inv /\ SumsInv /\ [Next]_vars => (Inv /\ SumsInv)'
  BY StepKeepsInv, StepKeepsSums
<1>3. Inv /\ SumsInv => StatisticsAreTrue
  <2> SUFFICES ASSUME Inv, SumsInv, sum # NaN
               PROVE  Statistics = [n |-> Len(data), sum |-> Total(data), sumSq |-> TotalSq(data),
                                    min |-> Least(data), max |-> Greatest(data)]
    BY DEF StatisticsAreTrue
  <2>1. sum = Total(data) /\ sumSq = TotalSq(data)
    BY DEF SumsInv, TotalsOf
  <2>2. min = Least(data) /\ max = Greatest(data) /\ ~extremaDirty
    BY DEF Inv, ExtremaAreTrue
  <2>. QED
    BY <2>1, <2>2 DEF Statistics
<1>. QED
  BY <1>1, <1>2, <1>3, PTL DEF Spec

\* The samples are values or NaN, no more than the capacity; the sums and the
\* extrema are numbers.
THEOREM TypeCorrect == Spec => []TypeOK
<1>1. Init => Inv /\ SumsInv
  BY InvInit, TotalsOfNothing DEF Init, SumsInv
<1>2. Inv /\ SumsInv /\ [Next]_vars => (Inv /\ SumsInv)'
  BY StepKeepsInv, StepKeepsSums
<1>3. Inv /\ SumsInv => TypeOK
  <2> SUFFICES ASSUME Inv, SumsInv
               PROVE  TypeOK
    OBVIOUS
  <2>1. min \in Int /\ max \in Int /\ extremaDirty \in BOOLEAN
    BY LeastIs, GreatestIs DEF Inv, ExtremaAreTrue
  <2>. QED
    BY <2>1 DEF Inv, SumsInv, TotalsOf, TypeOK, SampleSeqs
<1>. QED
  BY <1>1, <1>2, <1>3, PTL DEF Spec
\* A NaN that has got into the sum stays there until the buffer is cleared: pushing
\* and evicting any number of samples, the NaN among them, does not help.
THEOREM NaNStaysUntilClear == Spec => [][sum = NaN => sum' = NaN \/ Clear]_vars
<1>1. ASSUME sum = NaN, Next
      PROVE  sum' = NaN \/ Clear
  <2>1. \A a : Minus(NaN, a) = NaN /\ Plus(NaN, a) = NaN
    BY DEF Minus, Plus
  <2>2. ASSUME NEW v \in Samples, Push(v)
        PROVE  sum' = NaN
    BY <1>1, <2>1, <2>2 DEF Push
  <2>3. ASSUME NEW n \in Capacities, SetCapacity(n)
        PROVE  sum' = NaN
    BY <1>1, <2>1, <2>3 DEF SetCapacity
  <2>. QED
    BY <1>1, <2>2, <2>3 DEF Next
<1>2. [Next]_vars => [sum = NaN => sum' = NaN \/ Clear]_vars
  BY <1>1
<1>. QED
  BY <1>2, PTL DEF Spec
=============================================================================
