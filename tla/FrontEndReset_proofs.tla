------------------------ MODULE FrontEndReset_proofs ------------------------
(***************************************************************************)
(* Proofs about FrontEndReset, for any number of requests, triggers and    *)
(* devices, any length of the wait and any number of failing writes.       *)
(***************************************************************************)
EXTENDS FrontEndReset, TLAPS

-----------------------------------------------------------------------------
(* Types.  The countdown stays in Nat because it is positive while it runs. *)

CountPositive == \A r \in Resets : pc[r] = "count" => remaining[r] > 0

TypeInv == TypeOK /\ CountPositive

LEMMA TypeInit == Init => TypeInv
<1> SUFFICES ASSUME Init
             PROVE  TypeInv
  OBVIOUS
<1> USE DEF Init
<1>1. resetTrigger \in [Devices -> Triggers \cup {NoPV}] /\ resetInProgress \in BOOLEAN
  OBVIOUS
<1>2. pc \in [Resets -> Labels]
  BY DEF Labels
<1>3. todo \in [Resets -> SUBSET Triggers] /\ zeroed \in [Resets -> SUBSET Triggers]
  OBVIOUS
<1>4. failing \in [Resets -> Triggers \cup {NoPV}]
  OBVIOUS
<1>5. remaining \in [Resets -> Nat]
  OBVIOUS
<1>6. levels \in [Resets -> [Devices -> Levels]]
  BY LevelsAssumption DEF LevelsAssumption
<1>7. unsent \in [Resets -> SUBSET Devices]
  OBVIOUS
<1>8. resetProgress \in Nat /\ announced \in Nat /\  faults \in Nat /\ crashes \in Nat
  OBVIOUS
<1>9. trigger \in [Triggers -> BOOLEAN]
  OBVIOUS
<1>10. box \in [Devices -> Levels] /\ currentSensitivity \in [Devices -> Levels]
  OBVIOUS
<1>11. CountPositive
  BY DEF CountPositive
<1>. QED
  BY <1>1, <1>2, <1>3, <1>4, <1>5, <1>6, <1>7, <1>8, <1>9, <1>10, <1>11 DEF TypeInv, TypeOK

LEMMA TypeTask ==
  ASSUME TypeInv, NEW r \in Resets, Task(r)
  PROVE  TypeInv'
<1> USE DEF TypeInv, TypeOK, CountPositive, Labels, Goto, server, shown, config, plant, told, bounds
<1>1. CASE Begin(r)
  BY <1>1 DEF Begin, TriggerPVs
<1>2. CASE Fail(r)
  BY <1>2 DEF Fail
<1>3. CASE CountDown(r)
  BY <1>3 DEF CountDown, TriggerPVs
<1>4. CASE ClearProgress(r)
  BY <1>4 DEF ClearProgress
<1>5. CASE Snapshot(r)
  BY <1>5 DEF Snapshot
<1>6. CASE Release(r)
  BY <1>6 DEF Release
<1>7. CASE Retry(r)
  BY <1>7 DEF Retry, SwitchOn, Restored
<1>8. CASE RetryFails(r)
  <2>1. faults' \in Nat /\ crashes' \in Nat
    BY <1>8, BoundsAssumption DEF RetryFails, Fault, BoundsAssumption
  <2>2. /\ trigger' \in [Triggers -> BOOLEAN] /\ box' \in [Devices -> Levels]
        /\ named' \subseteq Triggers \cup Devices \cup {NoPV} /\ unheard' \subseteq Devices
    BY <1>8 DEF RetryFails, Fault, Restored
  <2>3. /\ todo' \in [Resets -> SUBSET Triggers] /\ zeroed' \in [Resets -> SUBSET Triggers]
        /\ failing' \in [Resets -> Triggers \cup {NoPV}]
    BY <1>8 DEF RetryFails, Restored
  <2>4. pc' \in [Resets -> Labels] /\ CountPositive'
    BY <1>8 DEF RetryFails, Restored
  <2>. QED
    BY <1>8, <2>1, <2>2, <2>3, <2>4 DEF RetryFails
<1>9. ASSUME NEW pv \in Triggers, Cut(r, pv)
      PROVE  TypeInv'
  BY <1>9, WaitAssumption DEF Cut, SwitchOff
<1>10. ASSUME NEW pv \in Triggers, CutFails(r, pv)
       PROVE  TypeInv'
  <2>1. faults' \in Nat /\ crashes' \in Nat
    BY <1>10, BoundsAssumption DEF CutFails, Fault, BoundsAssumption
  <2>2. /\ trigger' \in [Triggers -> BOOLEAN] /\ box' \in [Devices -> Levels]
        /\ named' \subseteq Triggers \cup Devices \cup {NoPV} /\ unheard' \subseteq Devices
    BY <1>10 DEF CutFails, Fault, NothingWritten, SwitchOff
  <2>3. /\ todo' \in [Resets -> SUBSET Triggers] /\ zeroed' \in [Resets -> SUBSET Triggers]
        /\ failing' \in [Resets -> Triggers \cup {NoPV}]
    BY <1>10 DEF CutFails
  <2>4. pc' \in [Resets -> Labels] /\ CountPositive'
    BY <1>10 DEF CutFails
  <2>. QED
    BY <1>10, <2>1, <2>2, <2>3, <2>4 DEF CutFails
<1>11. ASSUME NEW pv \in Triggers, AbortRestore(r, pv)
       PROVE  TypeInv'
  <2>1. faults' \in Nat /\ crashes' \in Nat
    BY <1>11, BoundsAssumption DEF AbortRestore, Fault, BoundsAssumption
  <2>2. /\ trigger' \in [Triggers -> BOOLEAN] /\ box' \in [Devices -> Levels]
        /\ named' \subseteq Triggers \cup Devices \cup {NoPV} /\ unheard' \subseteq Devices
    BY <1>11 DEF AbortRestore, Fault, NothingWritten, SwitchOn
  <2>3. /\ todo' \in [Resets -> SUBSET Triggers] /\ zeroed' \in [Resets -> SUBSET Triggers]
        /\ failing' \in [Resets -> Triggers \cup {NoPV}]
    BY <1>11 DEF AbortRestore
  <2>4. pc' \in [Resets -> Labels] /\ CountPositive'
    BY <1>11 DEF AbortRestore
  <2>. QED
    BY <1>11, <2>1, <2>2, <2>3, <2>4 DEF AbortRestore
<1>12. ASSUME NEW pv \in Triggers, Restore(r, pv)
       PROVE  TypeInv'
  BY <1>12 DEF Restore, SwitchOn, Restored
<1>13. ASSUME NEW pv \in Triggers, RestoreFails(r, pv)
       PROVE  TypeInv'
  <2>1. faults' \in Nat /\ crashes' \in Nat
    BY <1>13, BoundsAssumption DEF RestoreFails, Fault, BoundsAssumption
  <2>2. /\ trigger' \in [Triggers -> BOOLEAN] /\ box' \in [Devices -> Levels]
        /\ named' \subseteq Triggers \cup Devices \cup {NoPV} /\ unheard' \subseteq Devices
    BY <1>13 DEF RestoreFails, Fault, NothingWritten, SwitchOn
  <2>3. /\ todo' \in [Resets -> SUBSET Triggers] /\ zeroed' \in [Resets -> SUBSET Triggers]
        /\ failing' \in [Resets -> Triggers \cup {NoPV}]
    BY <1>13 DEF RestoreFails
  <2>4. pc' \in [Resets -> Labels] /\ CountPositive'
    BY <1>13 DEF RestoreFails
  <2>. QED
    BY <1>13, <2>1, <2>2, <2>3, <2>4 DEF RestoreFails
<1>14. ASSUME NEW d \in Devices, Push(r, d)
       PROVE  TypeInv'
  BY <1>14 DEF Push, Settings, Sent
<1>15. ASSUME NEW d \in Devices, PushFails(r, d)
       PROVE  TypeInv'
  BY <1>15, BoundsAssumption DEF PushFails, Fault, BoundsAssumption, Settings, Sent
<1>. QED
  BY <1>1, <1>2, <1>3, <1>4, <1>5, <1>6, <1>7, <1>8, <1>9, <1>10, <1>11, <1>12,
     <1>13, <1>14, <1>15 DEF Task

LEMMA TypeNext == TypeInv /\ [Next]_vars => TypeInv'
<1> SUFFICES ASSUME TypeInv, [Next]_vars
             PROVE  TypeInv'
  OBVIOUS
<1> USE DEF TypeInv, TypeOK, CountPositive, Labels, Goto, server, shown, config, plant, told, bounds
<1>1. ASSUME NEW r \in Resets, Refuse(r)
      PROVE  TypeInv'
  BY <1>1 DEF Refuse
<1>2. ASSUME NEW r \in Resets, SpawnReset(r)
      PROVE  TypeInv'
  BY <1>2 DEF SpawnReset
<1>3. ASSUME NEW r \in Resets, Task(r)
      PROVE  TypeInv'
  BY <1>3, TypeTask
<1>4. ASSUME NEW d \in Devices, Reboot(d)
      PROVE  TypeInv'
  BY <1>4, LevelsAssumption DEF Reboot
<1>5. CASE Restart
  <2>1. faults' \in Nat /\ crashes' \in Nat
    BY <1>5, BoundsAssumption DEF Restart, BoundsAssumption
  <2>2. pc' \in [Resets -> Labels] /\ CountPositive'
    BY <1>5 DEF Restart, Running
  <2>. QED
    BY <1>5, <2>1, <2>2 DEF Restart
<1>6. CASE UNCHANGED vars
  BY <1>6 DEF vars
<1>. QED
  BY <1>1, <1>2, <1>3, <1>4, <1>5, <1>6 DEF Next

\* Every variable keeps its type in every behaviour of the reset.
THEOREM TypeCorrect == Spec => []TypeOK
<1>1. TypeInv => TypeOK
  BY DEF TypeInv
<1>. QED
  BY <1>1, TypeInit, TypeNext, PTL DEF Spec

-----------------------------------------------------------------------------
(* The flag RESET_IN_PROGRESS admits one task at a time. *)

OneReset ==
  /\ \A r \in Resets : Running(r) => resetInProgress
  /\ \A r, s \in Resets : Running(r) /\ Running(s) => r = s

\* A step of a task leaves every other task where it was.
LEMMA TaskMoves ==
  ASSUME TypeInv, NEW r \in Resets, Task(r)
  PROVE  /\ Running(r)
         /\ \A s \in Resets \ {r} : pc'[s] = pc[s]
         /\ pc'[r] # "new"
         /\ resetInProgress' = resetInProgress \/ ~Running(r)'
<1> USE DEF TypeInv, TypeOK, Running, Goto
<1>1. CASE Begin(r) \/ Fail(r) \/ CountDown(r) \/ ClearProgress(r) \/ Snapshot(r) \/ Release(r)
  BY <1>1 DEF Begin, Fail, CountDown, ClearProgress, Snapshot, Release
<1>2. CASE Retry(r) \/ RetryFails(r)
  BY <1>2 DEF Retry, RetryFails, Restored
<1>3. ASSUME NEW pv \in Triggers,
             Cut(r, pv) \/ CutFails(r, pv) \/ AbortRestore(r, pv) \/ Restore(r, pv) \/ RestoreFails(r, pv)
      PROVE  /\ Running(r)
             /\ \A s \in Resets \ {r} : pc'[s] = pc[s]
             /\ pc'[r] # "new"
             /\ resetInProgress' = resetInProgress
  BY <1>3 DEF Cut, CutFails, AbortRestore, Restore, RestoreFails, Restored
<1>4. ASSUME NEW d \in Devices, Push(r, d) \/ PushFails(r, d)
      PROVE  /\ Running(r)
             /\ \A s \in Resets \ {r} : pc'[s] = pc[s]
             /\ pc'[r] # "new"
             /\ resetInProgress' = resetInProgress
  BY <1>4 DEF Push, PushFails, Sent
<1>. QED
  BY <1>1, <1>2, <1>3, <1>4 DEF Task

LEMMA OneResetInit == Init => OneReset
BY DEF Init, OneReset, Running

LEMMA OneResetNext == TypeInv /\ OneReset /\ [Next]_vars => OneReset'
<1> SUFFICES ASSUME TypeInv, OneReset, [Next]_vars
             PROVE  OneReset'
  OBVIOUS
<1> USE DEF OneReset, Running
<1>1. ASSUME NEW q \in Resets, Refuse(q)
      PROVE  OneReset'
  BY <1>1 DEF Refuse, Goto, TypeInv, TypeOK
<1>2. ASSUME NEW q \in Resets, SpawnReset(q)
      PROVE  OneReset'
  BY <1>2 DEF SpawnReset, Goto, TypeInv, TypeOK
<1>3. ASSUME NEW q \in Resets, Task(q)
      PROVE  OneReset'
  BY <1>3, TaskMoves
<1>4. ASSUME NEW d \in Devices, Reboot(d)
      PROVE  OneReset'
  BY <1>4 DEF Reboot, server
<1>5. CASE Restart
  BY <1>5 DEF Restart
<1>6. CASE UNCHANGED vars
  BY <1>6 DEF vars, server
<1>. QED
  BY <1>1, <1>2, <1>3, <1>4, <1>5, <1>6 DEF Next

LEMMA Exclusion == Spec => [](TypeInv /\ OneReset)
BY TypeInit, TypeNext, OneResetInit, OneResetNext, PTL DEF Spec

\* No second reset flips a trigger back on during the wait of the first
\* (the reason spawn_reset gives for RESET_IN_PROGRESS).
THEOREM WaitUndisturbed == Spec => TriggerOffForTheWait
<1>1. ASSUME TypeInv, OneReset, [Next]_vars,
             NEW r \in Resets, pc[r] = "count", pc'[r] = "count"
      PROVE  UNCHANGED trigger
  <2>0. Running(r)
    BY <1>1 DEF Running
  <2>1. ASSUME NEW q \in Resets, Refuse(q) \/ SpawnReset(q)
        PROVE  UNCHANGED trigger
    BY <2>1 DEF Refuse, SpawnReset, plant
  <2>2. ASSUME NEW q \in Resets, Task(q)
        PROVE  UNCHANGED trigger
    <3>1. q = r
      BY <1>1, <2>0, <2>2, TaskMoves DEF OneReset
    <3>2. CountDown(q)
      BY <1>1, <2>2, <3>1
         DEF Task, Begin, Fail, ClearProgress, Snapshot, Release, Retry, RetryFails, Cut,
             CutFails, AbortRestore, Restore, RestoreFails, Push, PushFails
    <3>. QED
      BY <3>2 DEF CountDown, plant
  <2>3. ASSUME NEW d \in Devices, Reboot(d)
        PROVE  UNCHANGED trigger
    BY <2>3 DEF Reboot
  <2>4. CASE Restart \/ UNCHANGED vars
    BY <2>4 DEF Restart, vars, plant
  <2>. QED
    BY <1>1, <2>1, <2>2, <2>3, <2>4 DEF Next
<1>2. TypeInv /\ OneReset /\ [Next]_vars
        => [\A r \in Resets : pc[r] = "count" /\ pc'[r] = "count" => UNCHANGED trigger]_vars
  BY <1>1
<1>. QED
  BY <1>2, Exclusion, PTL DEF Spec, TriggerOffForTheWait

-----------------------------------------------------------------------------
(* NeverSilentlyBroken is not inductive: what makes it true at the end of a *)
(* reset is what the task has established at each of its phases.            *)

OnOrNamed(pv) == trigger[pv] \/ pv \in named

RightOrNamed(d) ==
  box[d] = currentSensitivity[d] \/ d \in named \/ d \in unheard \/ resetTrigger[d] \in named

\* What the task of request r has established when it is at pc[r].
Phase(r) ==
  /\ pc[r] \in {"begin", "release"} => (crashes = 0 /\ named = {} => MachineRestored)
  /\ pc[r] \in {"restore", "retry"} => \A pv \in TriggerPVs \ todo[r] : OnOrNamed(pv)
  /\ pc[r] = "retry" => failing[r] \in todo[r]
  /\ pc[r] \in {"clear", "snapshot", "push"} => \A pv \in TriggerPVs : OnOrNamed(pv)
  /\ pc[r] = "push" => /\ levels[r] = currentSensitivity
                       /\ \A d \in Devices \ unsent[r] : RightOrNamed(d)

ResetInv == NeverSilentlyBroken /\ \A r \in Resets : Phase(r)

LEMMA ResetInvInit == Init => ResetInv
BY DEF Init, ResetInv, NeverSilentlyBroken, MachineRestored, Phase, TriggerPVs

\* A push to a box, whether or not it fails, keeps the phase of the resend; the
\* last one leaves the machine restored or an error standing.
LEMMA PushKeepsPhase ==
  ASSUME TypeInv, NEW r \in Resets, Phase(r), NEW d \in Devices, Push(r, d) \/ PushFails(r, d)
  PROVE  Phase(r)' /\ (pc'[r] = "release" /\ named' = {} => MachineRestored')
<1> USE DEF TypeInv, TypeOK, Goto, config, plant, told
<1>0. TriggerPVs \subseteq Triggers
  BY DEF TriggerPVs
<1>1. /\ pc[r] = "push" /\ levels[r] = currentSensitivity
      /\ pc'[r] = IF unsent'[r] = {} THEN "release" ELSE "push"
      /\ levels' = levels /\ currentSensitivity' = currentSensitivity
      /\ resetTrigger' = resetTrigger /\ TriggerPVs' = TriggerPVs
      /\ trigger' = trigger /\ unsent'[r] = unsent[r] \ {d}
      /\ named' = named \ {d} \/ named' = named \cup {d}
  BY DEF Push, PushFails, Sent, Settings, Phase, TriggerPVs
<1>2. \A pv \in TriggerPVs : OnOrNamed(pv) /\ OnOrNamed(pv)'
  <2>1. \A pv \in TriggerPVs : pv # d
    BY <1>0, NamesAssumption DEF NamesAssumption
  <2>. QED
    BY <1>1, <2>1 DEF Phase, OnOrNamed
<1>3. RightOrNamed(d)'
  <2>0. CASE d \in unheard'
    BY <2>0 DEF RightOrNamed
  <2>1. CASE Push(r, d) /\ d \notin unheard' /\ Powered(d)
    BY <2>1, <1>1 DEF Push, Settings, RightOrNamed
  <2>2. CASE Push(r, d) /\ ~Powered(d)
    <3>1. resetTrigger[d] \in TriggerPVs /\ ~trigger'[resetTrigger[d]]
      BY <2>2, <1>1 DEF Powered, TriggerPVs
    <3>. QED
      BY <3>1, <1>1, <1>2 DEF OnOrNamed, RightOrNamed
  <2>3. CASE PushFails(r, d)
    BY <2>3 DEF PushFails, RightOrNamed
  <2>. QED
    BY <2>0, <2>1, <2>2, <2>3
<1>4. ASSUME NEW x \in Devices \ {d}, RightOrNamed(x)
      PROVE  RightOrNamed(x)'
  <2>1. x # d /\ resetTrigger[x] # d
    BY NamesAssumption DEF NamesAssumption
  <2>2. box'[x] = box[x] /\ (x \in unheard => x \in unheard')
    BY <2>1 DEF Push, PushFails, Settings
  <2>. QED
    BY <1>1, <1>4, <2>1, <2>2 DEF RightOrNamed
<1>5. \A x \in Devices \ unsent'[r] : RightOrNamed(x)'
  BY <1>1, <1>3, <1>4 DEF Phase
<1>6. ASSUME unsent'[r] = {}, named' = {}
      PROVE  MachineRestored'
  <2>1. \A pv \in TriggerPVs' : trigger'[pv]
    BY <1>6, <1>1, <1>2 DEF OnOrNamed
  <2>2. \A x \in Devices \ unheard' : box'[x] = currentSensitivity'[x]
    BY <1>6, <1>5 DEF RightOrNamed
  <2>. QED
    BY <2>1, <2>2 DEF MachineRestored
<1>. QED
  BY <1>1, <1>2, <1>5, <1>6 DEF Phase

\* The acting task keeps its own phase.
LEMMA PhaseTask ==
  ASSUME TypeInv, NEW r \in Resets, Phase(r), Task(r)
  PROVE  Phase(r)'
<1> USE DEF TypeInv, TypeOK, Goto, config, plant, told, bounds
<1>0. TriggerPVs \subseteq Triggers
  BY DEF TriggerPVs
<1>1. CASE Begin(r)
  BY <1>1 DEF Begin, Phase
<1>2. CASE Fail(r)
  BY <1>2 DEF Fail, Phase
<1>3. CASE CountDown(r)
  <2>1. todo'[r] = TriggerPVs' /\ pc'[r] \in {"count", "restore"}
    BY <1>3 DEF CountDown, TriggerPVs
  <2>. QED
    BY <2>1 DEF Phase
<1>4. CASE ClearProgress(r)
  BY <1>4 DEF ClearProgress, Phase, OnOrNamed, TriggerPVs
<1>5. CASE Snapshot(r)
  <2>1. /\ levels'[r] = currentSensitivity' /\ unsent'[r] = Devices
        /\ pc'[r] = IF Devices = {} THEN "release" ELSE "push"
    BY <1>5 DEF Snapshot
  <2>2. \A pv \in TriggerPVs' : OnOrNamed(pv)'
    BY <1>5 DEF Snapshot, Phase, OnOrNamed, TriggerPVs
  <2>3. Devices = {} => TriggerPVs' = {}
    BY DEF TriggerPVs
  <2>. QED
    BY <2>1, <2>2, <2>3 DEF Phase, MachineRestored
<1>6. CASE Release(r)
  BY <1>6 DEF Release, Phase
<1>7. ASSUME NEW pv \in Triggers, pc[r] \in {"restore", "retry"}, pv \in todo[r],
             Restored(r, pv), todo' = [todo EXCEPT ![r] = @ \ {pv}],
             OnOrNamed(pv)',
             \A x \in Triggers \ {pv} : OnOrNamed(x) => OnOrNamed(x)',
             UNCHANGED resetTrigger
      PROVE  Phase(r)'
  <2>1. TriggerPVs' = TriggerPVs /\ todo'[r] = todo[r] \ {pv}
    BY <1>7 DEF TriggerPVs
  <2>2. pc'[r] = IF todo'[r] = {} THEN "clear" ELSE "restore"
    BY <1>7 DEF Restored
  <2>3. \A x \in TriggerPVs' \ todo'[r] : OnOrNamed(x)'
    <3> SUFFICES ASSUME NEW x \in TriggerPVs' \ todo'[r]
                 PROVE  OnOrNamed(x)'
      OBVIOUS
    <3>1. CASE x = pv
      BY <3>1, <1>7
    <3>2. CASE x # pv
      <4>1. x \in TriggerPVs \ todo[r] /\ x \in Triggers
        BY <3>2, <2>1, <1>0
      <4>2. OnOrNamed(x)
        BY <4>1, <1>7 DEF Phase
      <4>. QED
        BY <4>1, <4>2, <3>2, <1>7
    <3>. QED
      BY <3>1, <3>2
  <2>. QED
    BY <2>2, <2>3 DEF Phase
<1>8. CASE Retry(r) \/ RetryFails(r)
  <2>1. failing[r] \in todo[r] /\ failing[r] \in Triggers
    BY <1>8 DEF Retry, RetryFails, Phase
  <2>2. OnOrNamed(failing[r])' /\ \A x \in Triggers \ {failing[r]} : OnOrNamed(x) => OnOrNamed(x)'
    BY <1>8, <2>1 DEF Retry, RetryFails, SwitchOn, OnOrNamed
  <2>. QED
    BY <1>8, <1>7, <2>1, <2>2 DEF Retry, RetryFails, Restored
<1>9. ASSUME NEW pv \in Triggers, Cut(r, pv) \/ CutFails(r, pv) \/ AbortRestore(r, pv)
      PROVE  Phase(r)'
  <2>1. pc'[r] \in {"cut", "count", "abort", "fail"}
    BY <1>9 DEF Cut, CutFails, AbortRestore
  <2>. QED
    BY <2>1 DEF Phase
<1>10. ASSUME NEW pv \in Triggers, Restore(r, pv)
       PROVE  Phase(r)'
  <2>1. OnOrNamed(pv)' /\ \A x \in Triggers \ {pv} : OnOrNamed(x) => OnOrNamed(x)'
    BY <1>10 DEF Restore, SwitchOn, OnOrNamed
  <2>. QED
    BY <1>10, <1>7, <2>1 DEF Restore, Restored
<1>11. ASSUME NEW pv \in Triggers, RestoreFails(r, pv)
       PROVE  Phase(r)'
  <2>1. TriggerPVs' = TriggerPVs /\ pc'[r] = "retry" /\ failing'[r] = pv /\ todo'[r] = todo[r]
    BY <1>11 DEF RestoreFails, TriggerPVs
  <2>2. pv \in todo[r] /\ \A x \in Triggers \ {pv} : OnOrNamed(x) => OnOrNamed(x)'
    BY <1>11 DEF RestoreFails, SwitchOn, NothingWritten, OnOrNamed
  <2>3. \A x \in TriggerPVs \ todo[r] : OnOrNamed(x)
    BY <1>11 DEF RestoreFails, Phase
  <2>. QED
    BY <2>1, <2>2, <2>3, <1>0 DEF Phase
<1>12. ASSUME NEW d \in Devices, Push(r, d) \/ PushFails(r, d)
       PROVE  Phase(r)'
  BY <1>12, PushKeepsPhase
<1>. QED
  BY <1>1, <1>2, <1>3, <1>4, <1>5, <1>6, <1>8, <1>9, <1>10, <1>11, <1>12 DEF Task

\* A box whose trigger is off reboots: what was established still stands.
LEMMA RebootHarmless ==
  ASSUME TypeInv, ResetInv, NEW d \in Devices, Reboot(d)
  PROVE  ResetInv'
<1> USE DEF TypeInv, TypeOK
<1>1. /\ resetTrigger[d] \in TriggerPVs /\ ~trigger[resetTrigger[d]]
      /\ ~MachineRestored
  BY DEF Reboot, Powered, TriggerPVs, MachineRestored
<1>2. /\ \A x \in Devices \ {d} : box'[x] = box[x]
      /\ UNCHANGED <<pc, todo, failing, levels, unsent, named, unheard, trigger, resetTrigger,
                     currentSensitivity, resetInProgress, crashes>>
      /\ TriggerPVs' = TriggerPVs
  BY DEF Reboot, server, config, told, bounds, TriggerPVs
<1>3. NeverSilentlyBroken'
  BY <1>1, <1>2 DEF ResetInv, NeverSilentlyBroken
<1>4. ASSUME NEW r \in Resets
      PROVE  Phase(r)'
  <2>1. Phase(r)
    BY DEF ResetInv
  <2>2. \A pv \in TriggerPVs : OnOrNamed(pv) => OnOrNamed(pv)'
    BY <1>2 DEF OnOrNamed
  <2>3. ASSUME pc[r] = "push", NEW x \in Devices \ unsent[r]
        PROVE  RightOrNamed(x)'
    <3>1. CASE x = d
      BY <1>1, <1>2, <2>1, <2>3, <3>1 DEF Phase, OnOrNamed, RightOrNamed
    <3>2. CASE x # d
      BY <1>2, <2>1, <2>3, <3>2 DEF Phase, RightOrNamed
    <3>. QED
      BY <3>1, <3>2
  <2>4. pc[r] \in {"begin", "release"} => crashes # 0 \/ named # {}
    BY <1>1, <2>1 DEF Phase
  <2>. QED
    BY <1>2, <2>1, <2>2, <2>3, <2>4 DEF Phase
<1>. QED
  BY <1>3, <1>4 DEF ResetInv

LEMMA ResetInvNext ==
  ASSUME TypeInv, OneReset, ResetInv, [Next]_vars
  PROVE  ResetInv'
<1>1. ASSUME NEW q \in Resets, Refuse(q)
      PROVE  ResetInv'
  <2>1. /\ \A r \in Resets : pc'[r] = pc[r] \/ pc'[r] = "done"
        /\ UNCHANGED <<resetInProgress, todo, failing, levels, unsent, named, unheard, trigger, box,
                       resetTrigger, currentSensitivity, crashes>>
    BY <1>1 DEF Refuse, Goto, config, plant, told, bounds, TypeInv, TypeOK
  <2>. QED
    BY <2>1 DEF ResetInv, NeverSilentlyBroken, MachineRestored, Phase, OnOrNamed, RightOrNamed,
         TriggerPVs
<1>2. ASSUME NEW q \in Resets, SpawnReset(q)
      PROVE  ResetInv'
  <2>1. /\ \A r \in Resets : pc'[r] = pc[r] \/ pc'[r] = "begin"
        /\ ~resetInProgress /\ resetInProgress'
        /\ UNCHANGED <<todo, failing, levels, unsent, named, unheard, trigger, box,
                       resetTrigger, currentSensitivity, crashes>>
    BY <1>2 DEF SpawnReset, Goto, config, plant, told, bounds, TypeInv, TypeOK
  <2>. QED
    BY <2>1 DEF ResetInv, NeverSilentlyBroken, MachineRestored, Phase, OnOrNamed, RightOrNamed,
         TriggerPVs
<1>3. ASSUME NEW q \in Resets, Task(q)
      PROVE  ResetInv'
  <2>1. Phase(q)'
    BY <1>3, PhaseTask DEF ResetInv
  <2>2. ASSUME NEW r \in Resets \ {q}
        PROVE  Phase(r)'
    <3>1. pc'[r] \in {"new", "done"}
      BY <1>3, TaskMoves DEF OneReset, Running
    <3>. QED
      BY <3>1 DEF Phase
  <2>3. NeverSilentlyBroken'
    <3>1. CASE Release(q)
      BY <3>1 DEF Release, ResetInv, NeverSilentlyBroken, Phase, MachineRestored, TriggerPVs,
           config, plant, told, bounds
    <3>2. CASE ~Release(q)
      <4>1. Running(q) /\ resetInProgress
        BY <1>3, TaskMoves DEF OneReset
      <4>2. resetInProgress' = resetInProgress
        BY <1>3, <3>2 DEF Task, Begin, Fail, CountDown, ClearProgress, Snapshot, Retry, RetryFails,
             Cut, CutFails, AbortRestore, Restore, RestoreFails, Push, PushFails
      <4>. QED
        BY <4>1, <4>2 DEF NeverSilentlyBroken
    <3>. QED
      BY <3>1, <3>2
  <2>. QED
    BY <2>1, <2>2, <2>3 DEF ResetInv
<1>4. ASSUME NEW d \in Devices, Reboot(d)
      PROVE  ResetInv'
  BY <1>4, RebootHarmless
<1>5. CASE Restart
  <2>1. crashes' # 0
    BY <1>5, BoundsAssumption DEF Restart, BoundsAssumption, TypeInv, TypeOK
  <2>2. \A r \in Resets : pc'[r] \in {"new", "done"}
    BY <1>5 DEF Restart, Running
  <2>. QED
    BY <2>1, <2>2 DEF ResetInv, NeverSilentlyBroken, Phase
<1>6. CASE UNCHANGED vars
  BY <1>6 DEF vars, server, config, plant, told, bounds, ResetInv, NeverSilentlyBroken, MachineRestored, Phase,
       OnOrNamed, RightOrNamed, TriggerPVs
<1>. QED
  BY <1>1, <1>2, <1>3, <1>4, <1>5, <1>6 DEF Next

\* While the server is not restarted, a reset that ends without an error still
\* standing has put back every trigger, and every box that took the line it was
\* sent: for any number of clicks, of triggers and boxes in any wiring, of
\* failing writes and of legacy lines that nobody took.
THEOREM TroubleIsReported == Spec => []NeverSilentlyBroken
<1>1. Init => ResetInv
  BY ResetInvInit
<1>2. TypeInv /\ OneReset /\ ResetInv /\ [Next]_vars => ResetInv'
  BY ResetInvNext
<1>3. ResetInv => NeverSilentlyBroken
  BY DEF ResetInv
<1>. QED
  BY <1>1, <1>2, <1>3, Exclusion, PTL DEF Spec

\* The resend pushes to a box only with its trigger back on, or with an error
\* standing that names the trigger.
THEOREM ResendIsLate == Spec => ResendAfterTrigger
<1> DEFINE Resent(d) == \E r \in Resets : d \in unsent[r] /\ d \notin unsent'[r]
<1>1. ASSUME TypeInv, ResetInv, [Next]_vars, NEW d \in Devices, Resent(d)
      PROVE  Powered(d) \/ resetTrigger[d] \in named
  <2>1. PICK r \in Resets : d \in unsent[r] /\ d \notin unsent'[r]
    BY <1>1
  <2>2. ASSUME NEW q \in Resets, Refuse(q) \/ SpawnReset(q)
        PROVE  FALSE
    BY <2>1, <2>2 DEF Refuse, SpawnReset
  <2>3. ASSUME NEW q \in Resets, Task(q)
        PROVE  pc[q] \in {"snapshot", "push"} /\ r = q
    <3>1. CASE unsent' = unsent
      BY <2>1, <3>1
    <3>2. CASE Snapshot(q)
      BY <2>1, <3>2 DEF Snapshot, TypeInv, TypeOK
    <3>3. ASSUME NEW x \in Devices, Push(q, x) \/ PushFails(q, x)
          PROVE  pc[q] \in {"snapshot", "push"} /\ r = q
      <4>1. pc[q] = "push" /\ unsent' = [unsent EXCEPT ![q] = @ \ {x}]
        BY <3>3 DEF Push, PushFails, Sent
      <4>2. \A s \in Resets \ {q} : unsent'[s] = unsent[s]
        BY <4>1, <1>1 DEF TypeInv, TypeOK
      <4>. QED
        BY <2>1, <4>1, <4>2
    <3>4. \/ unsent' = unsent
          \/ Snapshot(q)
          \/ \E x \in Devices : Push(q, x) \/ PushFails(q, x)
      BY <2>3
         DEF Task, Begin, Fail, CountDown, ClearProgress, Release, Retry, RetryFails,
             Cut, CutFails, AbortRestore, Restore, RestoreFails
    <3>. QED
      BY <3>1, <3>2, <3>3, <3>4
  <2>4. ASSUME NEW q \in Devices, Reboot(q)
        PROVE  FALSE
    BY <2>1, <2>4 DEF Reboot, server
  <2>5. ~Restart /\ vars' # vars
    BY <2>1 DEF Restart, vars, server
  <2>6. pc[r] \in {"snapshot", "push"}
    BY <1>1, <2>2, <2>3, <2>4, <2>5 DEF Next
  <2>7. \A pv \in TriggerPVs : OnOrNamed(pv)
    BY <1>1, <2>6 DEF ResetInv, Phase
  <2>8. ~Powered(d) => resetTrigger[d] \in TriggerPVs
    BY <1>1 DEF Powered, TriggerPVs, TypeInv, TypeOK
  <2>. QED
    BY <2>7, <2>8 DEF OnOrNamed, Powered
<1>2. TypeInv /\ ResetInv /\ [Next]_vars
        => [\A d \in Devices : Resent(d) => Powered(d) \/ resetTrigger[d] \in named]_vars
  BY <1>1
<1>3. Init => ResetInv
  BY ResetInvInit
<1>4. TypeInv /\ OneReset /\ ResetInv /\ [Next]_vars => ResetInv'
  BY ResetInvNext
<1>. QED
  BY <1>2, <1>3, <1>4, Exclusion, PTL DEF Spec, ResendAfterTrigger

\* A reset that gets to its end with no error standing has put the machine right,
\* whatever a restart of the server in the middle of an earlier one, or a line
\* that a box did not take, left behind.
THEOREM RepairByReset == Spec => ResetRepairs
<1>1. ASSUME TypeInv, OneReset, ResetInv, [Next]_vars,
             NEW r \in Resets, pc[r] = "push", pc'[r] = "release", named' = {}
      PROVE  MachineRestored'
  <2>0. pc'[r] # pc[r] /\ pc'[r] \notin {"new", "done"}
    BY <1>1
  <2>1. ASSUME NEW q \in Resets, Refuse(q) \/ SpawnReset(q)
        PROVE  FALSE
    BY <1>1, <2>0, <2>1 DEF Refuse, SpawnReset, Goto, TypeInv, TypeOK
  <2>2. ASSUME NEW q \in Resets, Task(q)
        PROVE  \E d \in Devices : Push(r, d) \/ PushFails(r, d)
    <3>1. q = r
      BY <1>1, <2>2, TaskMoves DEF OneReset, Running
    <3>. QED
      BY <1>1, <2>2, <3>1
         DEF Task, Begin, Fail, CountDown, ClearProgress, Snapshot, Release, Retry, RetryFails,
             Cut, CutFails, AbortRestore, Restore, RestoreFails
  <2>3. ASSUME NEW q \in Devices, Reboot(q)
        PROVE  FALSE
    BY <2>0, <2>3 DEF Reboot, server
  <2>4. ~Restart /\ vars' # vars
    BY <1>1, <2>0 DEF Restart, Running, vars, server
  <2>5. \E d \in Devices : Push(r, d) \/ PushFails(r, d)
    BY <1>1, <2>1, <2>2, <2>3, <2>4 DEF Next
  <2>. QED
    BY <1>1, <2>5, PushKeepsPhase DEF ResetInv
<1>2. TypeInv /\ OneReset /\ ResetInv /\ [Next]_vars
        => [\A r \in Resets :
              pc[r] = "push" /\ pc'[r] = "release" /\ named' = {} => MachineRestored']_vars
  BY <1>1
<1>3. Init => ResetInv
  BY ResetInvInit
<1>4. TypeInv /\ OneReset /\ ResetInv /\ [Next]_vars => ResetInv'
  BY ResetInvNext
<1>. QED
  BY <1>2, <1>3, <1>4, Exclusion, PTL DEF Spec, ResetRepairs
-----------------------------------------------------------------------------
(* The countdown is on display only while a reset is between its first       *)
(* second and the step that clears it.                                        *)

CountInv ==
  resetProgress # 0 \/ announced # 0
    => \E r \in Resets : pc[r] \in {"count", "restore", "retry", "clear"}

LEMMA CountNext == TypeInv /\ OneReset /\ CountInv /\ [Next]_vars => CountInv'
<1> SUFFICES ASSUME TypeInv, OneReset, CountInv, [Next]_vars,
                    resetProgress' # 0 \/ announced' # 0
             PROVE  \E r \in Resets : pc'[r] \in {"count", "restore", "retry", "clear"}
  BY DEF CountInv
<1>1. ASSUME NEW q \in Resets, Refuse(q) \/ SpawnReset(q)
      PROVE  \E r \in Resets : pc'[r] \in {"count", "restore", "retry", "clear"}
  BY <1>1 DEF Refuse, SpawnReset, Goto, shown, CountInv, TypeInv, TypeOK
<1>2. ASSUME NEW q \in Resets, Task(q)
      PROVE  \E r \in Resets : pc'[r] \in {"count", "restore", "retry", "clear"}
  <2>1. CASE CountDown(q)
    BY <2>1 DEF CountDown, Goto, TypeInv, TypeOK
  <2>2. ~ClearProgress(q)
    BY DEF ClearProgress
  <2>3. CASE ~CountDown(q)
    <3>1. UNCHANGED shown
      BY <1>2, <2>2, <2>3
         DEF Task, Begin, Fail, Snapshot, Release, Retry, RetryFails, Cut, CutFails,
             AbortRestore, Restore, RestoreFails, Push, PushFails
    <3>2. PICK r \in Resets : pc[r] \in {"count", "restore", "retry", "clear"}
      BY <3>1 DEF CountInv, shown
    <3>3. r = q
      BY <1>2, <3>2, TaskMoves DEF OneReset, Running
    <3>4. \/ Retry(q) \/ RetryFails(q)
          \/ \E pv \in Triggers : Restore(q, pv) \/ RestoreFails(q, pv)
      BY <1>2, <2>2, <2>3, <3>2, <3>3
         DEF Task, Begin, Fail, Snapshot, Release, Cut, CutFails, AbortRestore, Push, PushFails
    <3>. QED
      BY <3>4 DEF Retry, RetryFails, Restore, RestoreFails, Restored, Goto, TypeInv, TypeOK
  <2>. QED
    BY <2>1, <2>3
<1>3. ASSUME NEW d \in Devices, Reboot(d)
      PROVE  \E r \in Resets : pc'[r] \in {"count", "restore", "retry", "clear"}
  BY <1>3 DEF Reboot, server, shown, CountInv
<1>4. CASE Restart
  BY <1>4 DEF Restart
<1>5. CASE UNCHANGED vars
  BY <1>5 DEF vars, server, shown, CountInv
<1>. QED
  BY <1>1, <1>2, <1>3, <1>4, <1>5 DEF Next

\* When no reset runs, no client shows a countdown, restarts included.
THEOREM CountdownEnds == Spec => []NoStrayCountdown
<1>1. Init => CountInv
  BY DEF Init, CountInv
<1>2. TypeInv /\ OneReset /\ CountInv => NoStrayCountdown
  BY DEF OneReset, CountInv, NoStrayCountdown, Running, TypeInv, TypeOK
<1>. QED
  BY <1>1, <1>2, CountNext, Exclusion, PTL DEF Spec

-----------------------------------------------------------------------------
(* With one EVR output there is nothing to restore in an abort: the only      *)
(* trigger a reset can leave off is the one its error names.                  *)

OneOutput == \A p, q \in TriggerPVs : p = q
Accounted == \A pv \in TriggerPVs : OnOrNamed(pv)

OneOutputPhase(r) ==
  /\ pc[r] \in {"begin", "release"} => Accounted
  /\ pc[r] = "cut" => zeroed[r] = {} /\ todo[r] = TriggerPVs
  /\ pc[r] = "fail" => \A pv \in TriggerPVs : OnOrNamed(pv) \/ pv = failing[r]
  /\ pc[r] # "abort"

OneOutputInv ==
  crashes = 0 /\ OneOutput =>
    /\ ~resetInProgress => Accounted
    /\ \A r \in Resets : OneOutputPhase(r)

\* The acting task.
LEMMA OneOutputTask ==
  ASSUME TypeInv, OneOutput, NEW r \in Resets, Phase(r), OneOutputPhase(r), Task(r)
  PROVE  OneOutputPhase(r)'
<1> USE DEF TypeInv, TypeOK, Goto, config
<1>0. TriggerPVs' = TriggerPVs /\ TriggerPVs \subseteq Triggers
  BY DEF Task, Begin, Fail, CountDown, ClearProgress, Snapshot, Release, Retry, RetryFails, Cut,
         CutFails, AbortRestore, Restore, RestoreFails, Push, PushFails, TriggerPVs
<1>1. CASE Begin(r)
  <2>1. /\ zeroed'[r] = {} /\ todo'[r] = TriggerPVs
        /\ pc'[r] = IF TriggerPVs = {} THEN "fail" ELSE "cut"
    BY <1>1 DEF Begin
  <2>. QED
    BY <1>0, <2>1 DEF OneOutputPhase
<1>2. CASE Fail(r)
  <2>1. pc'[r] = "release" /\ pc[r] = "fail"
    BY <1>2 DEF Fail
  <2>2. \A pv \in TriggerPVs : OnOrNamed(pv)'
    BY <1>2, <2>1 DEF Fail, OneOutputPhase, OnOrNamed, plant
  <2>. QED
    BY <1>0, <2>1, <2>2 DEF OneOutputPhase, Accounted
<1>3. ASSUME NEW pv \in Triggers, Cut(r, pv)
      PROVE  OneOutputPhase(r)'
  <2>1. pc[r] = "cut" /\ pv \in TriggerPVs /\ todo'[r] = todo[r] \ {pv} /\ todo[r] = TriggerPVs
    BY <1>3 DEF Cut, OneOutputPhase
  <2>2. todo'[r] = {}
    BY <2>1 DEF OneOutput
  <2>3. pc'[r] = "count"
    BY <1>3, <2>2 DEF Cut
  <2>. QED
    BY <2>3 DEF OneOutputPhase
<1>4. ASSUME NEW pv \in Triggers, CutFails(r, pv)
      PROVE  OneOutputPhase(r)'
  <2>1. pv \in TriggerPVs /\ pc'[r] = "fail" /\ failing'[r] = pv
    BY <1>4 DEF CutFails, OneOutputPhase
  <2>2. \A x \in TriggerPVs : x = pv
    BY <2>1 DEF OneOutput
  <2>. QED
    BY <1>0, <2>1, <2>2 DEF OneOutputPhase
<1>5. ASSUME NEW pv \in Triggers, AbortRestore(r, pv)
      PROVE  FALSE
  BY <1>5 DEF AbortRestore, OneOutputPhase
<1>6. CASE CountDown(r) \/ ClearProgress(r) \/ Retry(r) \/ RetryFails(r)
           \/ \E pv \in Triggers : Restore(r, pv) \/ RestoreFails(r, pv)
  <2>1. pc'[r] \in {"count", "restore", "retry", "clear", "snapshot"}
    BY <1>6 DEF CountDown, ClearProgress, Retry, RetryFails, Restore, RestoreFails, Restored
  <2>. QED
    BY <2>1 DEF OneOutputPhase
<1>7. CASE Release(r)
  BY <1>7 DEF Release, OneOutputPhase
<1>8. CASE Snapshot(r) \/ \E d \in Devices : Push(r, d) \/ PushFails(r, d)
  <2>1. pc'[r] \in {"push", "release"} /\ pc[r] \in {"snapshot", "push"}
    BY <1>8 DEF Snapshot, Push, PushFails, Sent
  <2>2. \A pv \in TriggerPVs : OnOrNamed(pv)
    BY <2>1 DEF Phase
  <2>3. trigger' = trigger /\ \A pv \in Triggers : pv \in named => pv \in named'
    BY <1>8, NamesAssumption DEF NamesAssumption, Snapshot, Push, PushFails, Settings, plant, told
  <2>4. \A pv \in TriggerPVs : OnOrNamed(pv)'
    BY <1>0, <2>2, <2>3 DEF OnOrNamed
  <2>. QED
    BY <1>0, <2>1, <2>4 DEF OneOutputPhase, Accounted
<1>. QED
  BY <1>1, <1>2, <1>3, <1>4, <1>5, <1>6, <1>7, <1>8 DEF Task

LEMMA OneOutputNext ==
  ASSUME TypeInv, OneReset, ResetInv, OneOutputInv, [Next]_vars
  PROVE  OneOutputInv'
<1> SUFFICES ASSUME crashes' = 0, OneOutput'
             PROVE  /\ ~resetInProgress' => Accounted'
                    /\ \A r \in Resets : OneOutputPhase(r)'
  BY DEF OneOutputInv
<1>1. TriggerPVs' = TriggerPVs /\ resetTrigger' = resetTrigger
  BY DEF Next, Refuse, SpawnReset, Reboot, Restart, Task, Begin, Fail, CountDown, ClearProgress,
         Snapshot, Release, Retry, RetryFails, Cut, CutFails, AbortRestore, Restore, RestoreFails,
         Push, PushFails, TriggerPVs, config, vars
<1>2. ~Restart /\ crashes = 0
  <2>1. ~Restart
    BY BoundsAssumption DEF BoundsAssumption, Restart, TypeInv, TypeOK
  <2>. QED
    BY <2>1 DEF Next, Refuse, SpawnReset, Reboot, Task, Begin, Fail, CountDown, ClearProgress,
         Snapshot, Release, Retry, RetryFails, Cut, CutFails, AbortRestore, Restore, RestoreFails,
         Push, PushFails, Fault, bounds, vars
<1>3. OneOutput /\ (~resetInProgress => Accounted) /\ \A r \in Resets : OneOutputPhase(r)
  <2>1. OneOutput
    BY <1>1 DEF OneOutput
  <2>. QED
    BY <1>2, <2>1 DEF OneOutputInv
<1>4. ASSUME NEW q \in Resets, Refuse(q) \/ SpawnReset(q)
      PROVE  /\ ~resetInProgress' => Accounted'
             /\ \A r \in Resets : OneOutputPhase(r)'
  <2>1. /\ UNCHANGED <<trigger, named, zeroed, todo, failing>>
        /\ resetInProgress' = resetInProgress \/ resetInProgress'
        /\ \A r \in Resets : pc'[r] = pc[r] \/ pc'[r] = "done"
                             \/ (pc'[r] = "begin" /\ ~resetInProgress)
    BY <1>4 DEF Refuse, SpawnReset, Goto, plant, told, TypeInv, TypeOK
  <2>2. Accounted' = Accounted
    BY <1>1, <2>1 DEF Accounted, OnOrNamed
  <2>. QED
    BY <1>1, <1>3, <2>1, <2>2 DEF OneOutputPhase, OnOrNamed
<1>5. ASSUME NEW q \in Resets, Task(q)
      PROVE  /\ ~resetInProgress' => Accounted'
             /\ \A r \in Resets : OneOutputPhase(r)'
  <2>1. OneOutputPhase(q)'
    BY <1>3, <1>5, OneOutputTask DEF ResetInv
  <2>2. ASSUME NEW r \in Resets \ {q}
        PROVE  OneOutputPhase(r)'
    <3>1. pc'[r] \in {"new", "done"}
      BY <1>5, TaskMoves DEF OneReset, Running
    <3>. QED
      BY <3>1 DEF OneOutputPhase
  <2>3. ~resetInProgress' => Accounted'
    <3>1. CASE Release(q)
      <4>1. pc[q] = "release" /\ UNCHANGED <<trigger, named>>
        BY <3>1 DEF Release, plant, told
      <4>. QED
        BY <1>1, <1>3, <4>1 DEF OneOutputPhase, Accounted, OnOrNamed
    <3>2. CASE ~Release(q)
      <4>1. Running(q) /\ resetInProgress
        BY <1>5, TaskMoves DEF OneReset
      <4>2. resetInProgress' = resetInProgress
        BY <1>5, <3>2 DEF Task, Begin, Fail, CountDown, ClearProgress, Snapshot, Retry, RetryFails,
             Cut, CutFails, AbortRestore, Restore, RestoreFails, Push, PushFails
      <4>. QED
        BY <4>1, <4>2
    <3>. QED
      BY <3>1, <3>2
  <2>. QED
    BY <2>1, <2>2, <2>3
<1>6. CASE (\E d \in Devices : Reboot(d)) \/ UNCHANGED vars
  <2>1. UNCHANGED <<trigger, named, zeroed, todo, failing, pc, resetInProgress>>
    BY <1>6 DEF Reboot, server, vars, plant, told
  <2>. QED
    BY <1>1, <1>3, <2>1 DEF OneOutputPhase, Accounted, OnOrNamed
<1>. QED
  BY <1>2, <1>4, <1>5, <1>6 DEF Next

\* While the server is not restarted and every box hangs on one EVR output, no
\* reset leaves a trigger off without an error that names it.
THEOREM OneOutputSafe == Spec => []OneOutputIsSafe
<1>1. Init => OneOutputInv
  BY DEF Init, OneOutputInv, Accounted, OnOrNamed, OneOutputPhase, TriggerPVs
<1>2. OneOutputInv => OneOutputIsSafe
  BY DEF OneOutputInv, OneOutput, Accounted, OnOrNamed, OneOutputIsSafe, NoTriggerLeftOffUnnamed
<1>3. Init => ResetInv
  BY ResetInvInit
<1>4. TypeInv /\ OneReset /\ ResetInv /\ [Next]_vars => ResetInv'
  BY ResetInvNext
<1>5. TypeInv /\ OneReset /\ ResetInv /\ OneOutputInv /\ [Next]_vars => OneOutputInv'
  BY OneOutputNext
<1>. QED
  BY <1>1, <1>2, <1>3, <1>4, <1>5, Exclusion, PTL DEF Spec
=============================================================================
