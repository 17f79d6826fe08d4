----------------------------- MODULE AutoGain ------------------------------
(***************************************************************************)
(* The automatic gain switching of spawn_auto_gain                         *)
(* (crates/server/src/commands.rs): once per interval the watcher decides  *)
(* for all devices under the lock, and then switches them one by one with  *)
(* handle_set_sensitivity, which may take longer than the interval.        *)
(*                                                                         *)
(* A tick is one second, the interval of the watcher.  The mean of the     *)
(* last ten readings is a value of Charges: the charge, once the window    *)
(* holds no reading of before the last change of level, and any value      *)
(* while it is mixed.  A reading belongs to the gain of the box and to the *)
(* factor it was scaled with, so it counts as fresh after both were set.   *)
(*                                                                         *)
(* The interval is tokio's default, which makes up for ticks it missed:    *)
(* after a slow round the next checks follow at once.                      *)
(*                                                                         *)
(* A write of a gain that ends with Ok may have been the legacy line, sent *)
(* to an HTTP box that was late for the probe and ignores it (hardware.rs  *)
(* does not wait for an answer): the level is recorded, the gain is the    *)
(* old one, and the readings are scaled with a factor that is not theirs.  *)
(***************************************************************************)
EXTENDS Integers

CONSTANTS
  Meters,      \* devices with saturation_charges
  LastLevel,   \* index of the least sensitive level
  SaturationCharge,   \* [0 .. LastLevel -> Nat]
  Charges,     \* readings; FCUP pulses are negative
  Cooldown,    \* AUTO_GAIN_COOLDOWN, in ticks
  Refresh,     \* ticks after which the averaged window holds fresh readings only
  Idle,        \* the watcher has no candidate in hand
  MaxOperator, MaxFailures,   \* bounds
  MaxDue       \* bound on the ticks an interval makes up for

Levels == 0 .. LastLevel

ASSUME GainAssumption ==
  /\ LastLevel \in Nat
  /\ SaturationCharge \in [Levels -> Nat]
  /\ Charges \subseteq Int /\ 0 \in Charges
  /\ Refresh \in Nat \ {0} /\ Cooldown \in Nat /\ Refresh <= Cooldown
  /\ MaxOperator \in Nat /\ MaxFailures \in Nat /\ MaxDue \in Nat \ {0}
  /\ Idle \notin Meters

VARIABLES
  autoGain,    \* InnerState.auto_gain
  level,       \* current_sensitivity
  charge,      \* external: what is to be measured
  online,      \* connected, and readings come in
  mean,        \* mean_of_last(AUTO_GAIN_WINDOW)
  fresh,       \* history: ticks of readings since the level last moved, up to Refresh
  due,         \* ticks of the interval that wait for the watcher
  cooldown,    \* what is left of the cooldown since last_switch
  todo,        \* candidates of this round: the next index and (history) whether
               \* the mean it rests on was fresh
  switching,   \* the device in the hands of handle_set_sensitivity
  step,        \* "post" or "factor": where that is
  unheard,     \* history: devices whose last write of a gain ended with Ok and was not heard
  disturbed,   \* history: since its last switch somebody else moved the level, readings
               \* stopped or were of an unheard write, the switch took effect late in its
               \* own cooldown, or the candidate waited while another device was switched
  spent        \* how much of each bound is used up

watcher  == <<due, cooldown, todo, switching, step>>
readings == <<charge, online, mean>>
gainVars == <<autoGain, level, readings, fresh, watcher, unheard, disturbed, spent>>

Abs(n) == IF n < 0 THEN -n ELSE n
NoCandidate == [next |-> LastLevel + 1, fresh |-> FALSE]

GainInit ==
  /\ autoGain = FALSE
  /\ level = [m \in Meters |-> 0]
  /\ charge = [m \in Meters |-> 0]
  /\ online = [m \in Meters |-> FALSE]
  /\ mean = [m \in Meters |-> 0]
  /\ fresh = [m \in Meters |-> Refresh]
  /\ due = 1
  /\ cooldown = [m \in Meters |-> 0]
  /\ todo = [m \in Meters |-> NoCandidate]
  /\ switching = Idle /\ step = "post"
  /\ unheard = {} /\ disturbed = [m \in Meters |-> FALSE]
  /\ spent = [operator |-> 0, failures |-> 0]

-----------------------------------------------------------------------------
(* The beam, the link and the operators *)

Beam(m, q) ==
  /\ charge' = [charge EXCEPT ![m] = q]
  /\ UNCHANGED <<autoGain, level, online, mean, fresh, watcher, unheard, disturbed, spent>>

Link(m) ==
  /\ online' = [online EXCEPT ![m] = ~@]
  /\ UNCHANGED <<autoGain, level, charge, mean, fresh, watcher, unheard, disturbed, spent>>

SetAutoGain ==
  /\ autoGain' = ~autoGain
  /\ UNCHANGED <<level, readings, fresh, watcher, unheard, disturbed, spent>>

\* Another session, or the front panel by way of the event stream.
Operator(m, l) ==
  /\ spent.operator < MaxOperator
  /\ level' = [level EXCEPT ![m] = l]
  /\ fresh' = [fresh EXCEPT ![m] = 0]
  /\ unheard' \in {unheard \ {m}, unheard \cup {m}}
  /\ disturbed' = [disturbed EXCEPT ![m] = TRUE]
  /\ spent' = [spent EXCEPT !.operator = @ + 1]
  /\ UNCHANGED <<autoGain, readings, watcher>>

Refreshed(m) == fresh[m] + 1 >= Refresh /\ m \notin unheard

Waiting == {m \in Meters : todo[m] # NoCandidate}

\* A second of readings.  The watcher takes no time of its own, only its calls do.
GainTick ==
  /\ switching # Idle \/ Waiting = {}
  /\ \E read \in [Meters -> Charges] :
       mean' = [m \in Meters |-> IF ~online[m] THEN mean[m]
                                 ELSE IF Refreshed(m) THEN charge[m] ELSE read[m]]
  /\ fresh' = [m \in Meters |-> IF online[m] /\ m \notin unheard /\ fresh[m] < Refresh
                                THEN fresh[m] + 1 ELSE fresh[m]]
  /\ cooldown' = [m \in Meters |-> IF cooldown[m] > 0 THEN cooldown[m] - 1 ELSE 0]
  /\ due' = IF due < MaxDue THEN due + 1 ELSE due
  /\ disturbed' = [m \in Meters |-> disturbed[m] \/ ~online[m] \/ m \in unheard
                                      \/ m \in Waiting \ {switching}]
  /\ UNCHANGED <<autoGain, level, charge, online, todo, switching, step, unheard, spent>>

-----------------------------------------------------------------------------
(* spawn_auto_gain *)

\* Faulty: the sign of a pulse is not dropped.
SaturatedUpwards(m) ==
  /\ online[m] /\ level[m] < LastLevel
  /\ mean[m] > SaturationCharge[level[m]]

Saturated(m) ==
  /\ online[m] /\ level[m] < LastLevel
  /\ Abs(mean[m]) > SaturationCharge[level[m]]

Check ==
  /\ switching = Idle /\ Waiting = {}
  /\ due > 0 /\ due' = due - 1
  /\ todo' = [m \in Meters |-> IF autoGain /\ Saturated(m)
                               THEN [next |-> level[m] + 1, fresh |-> fresh[m] >= Refresh]
                               ELSE NoCandidate]
  /\ UNCHANGED <<autoGain, level, readings, fresh, cooldown, switching, step, unheard, disturbed, spent>>

\* The cooldown has not elapsed.
Skip(m) ==
  /\ switching = Idle /\ m \in Waiting
  /\ cooldown[m] > 0
  /\ todo' = [todo EXCEPT ![m] = NoCandidate]
  /\ UNCHANGED <<autoGain, level, readings, fresh, cooldown, switching, step, unheard, disturbed, spent, due>>

\* Faulty: the cooldown is recorded but not looked at.
SwitchAgain(m) ==
  /\ switching = Idle /\ m \in Waiting
  /\ cooldown' = [cooldown EXCEPT ![m] = Cooldown]
  /\ disturbed' = [disturbed EXCEPT ![m] = FALSE]
  /\ switching' = m /\ step' = "post"
  /\ UNCHANGED <<autoGain, level, readings, fresh, todo, unheard, spent, due>>

\* last_switch is recorded before the switch is tried.
Switch(m) ==
  /\ switching = Idle /\ m \in Waiting
  /\ cooldown[m] = 0
  /\ cooldown' = [cooldown EXCEPT ![m] = Cooldown]
  /\ disturbed' = [disturbed EXCEPT ![m] = FALSE]
  /\ switching' = m /\ step' = "post"
  /\ UNCHANGED <<autoGain, level, readings, fresh, todo, unheard, spent, due>>

-----------------------------------------------------------------------------
(* handle_set_sensitivity of the candidate in hand *)

Late(m) == [disturbed EXCEPT ![m] = @ \/ cooldown[m] < Refresh]

\* The level is recorded, whether the box took the gain or never heard of it.
Post(m) ==
  /\ switching = m /\ step = "post"
  /\ unheard' \in {unheard \ {m}, unheard \cup {m}}
  /\ level' = [level EXCEPT ![m] = todo[m].next]
  /\ fresh' = [fresh EXCEPT ![m] = 0]
  /\ disturbed' = Late(m)
  /\ step' = "factor"
  /\ UNCHANGED <<autoGain, readings, cooldown, todo, switching, spent, due>>

Done(m) ==
  /\ switching' = Idle /\ step' = "post"
  /\ todo' = [todo EXCEPT ![m] = NoCandidate]

PostFails(m) ==
  /\ switching = m /\ step = "post"
  /\ spent.failures < MaxFailures
  /\ spent' = [spent EXCEPT !.failures = @ + 1]
  /\ Done(m)
  /\ UNCHANGED <<autoGain, level, readings, fresh, cooldown, unheard, disturbed, due>>

\* corrA is written; the readings before it were scaled with the old factor.
Factor(m) ==
  /\ switching = m /\ step = "factor"
  /\ fresh' = [fresh EXCEPT ![m] = 0]
  /\ disturbed' = Late(m)
  /\ Done(m)
  /\ UNCHANGED <<autoGain, level, readings, cooldown, unheard, spent, due>>

-----------------------------------------------------------------------------
Round == \E m \in Meters : Skip(m) \/ Switch(m) \/ Post(m) \/ PostFails(m) \/ Factor(m)

GainNext ==
  \/ \E m \in Meters :
       \/ \E q \in Charges : Beam(m, q)
       \/ Link(m)
       \/ \E l \in Levels : Operator(m, l)
  \/ SetAutoGain \/ GainTick \/ Check \/ Round

GainSpec == GainInit /\ [][GainNext]_gainVars

\* Time passes; the watcher is an endless task and each of its calls ends within
\* its time-outs.
FairGainSpec ==
  GainSpec /\ WF_gainVars(GainTick) /\ WF_gainVars(Check) /\ WF_gainVars(Round)

-----------------------------------------------------------------------------
(* Properties *)

GainTypeOK ==
  /\ autoGain \in BOOLEAN
  /\ level \in [Meters -> Levels]
  /\ charge \in [Meters -> Charges] /\ mean \in [Meters -> Charges]
  /\ online \in [Meters -> BOOLEAN]
  /\ fresh \in [Meters -> 0 .. Refresh]
  /\ due \in 0 .. MaxDue
  /\ cooldown \in [Meters -> 0 .. Cooldown]
  /\ todo \in [Meters -> [next : 1 .. LastLevel, fresh : BOOLEAN] \cup {NoCandidate}]
  /\ switching \in Meters \cup {Idle} /\ step \in {"post", "factor"}
  /\ unheard \subseteq Meters /\ disturbed \in [Meters -> BOOLEAN]
  /\ spent \in [operator : 0 .. MaxOperator, failures : 0 .. MaxFailures]

\* The cooldown is there "so the decision window is fully refreshed with
\* post-switch samples before deciding again": a switch moves a device up by one
\* level, on a mean that holds no reading taken at another level.  Not so when
\* somebody else moved the level since the last switch, when readings stopped
\* while the cooldown ran, when the box never heard of the last change, when the write of the last switch took nearly as long as
\* the cooldown, which starts before that write, or when another device was
\* switched between the decision and the switch.
SwitchIsJustified ==
  [][\A m \in Meters : Switch(m) /\ ~disturbed[m] =>
       todo[m].fresh /\ todo[m].next = level[m] + 1]_gainVars

\* With auto gain on and readings coming in, a charge that stays is relieved until
\* the level can take it or is the last one, whichever way the mean lags, writes
\* fail, Oks mislead and operators interfere on the way.  Not while the box has not
\* heard of the last change: what it reports is of another gain.
SaturationIsRelieved ==
  \A m \in Meters, q \in Charges :
    <>[](autoGain /\ online[m] /\ charge[m] = q /\ m \notin unheard)
      => <>[](Abs(q) <= SaturationCharge[level[m]] \/ level[m] = LastLevel)
=============================================================================
