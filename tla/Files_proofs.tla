----------------------------- MODULE Files_proofs -----------------------------
(***************************************************************************)
(* What the server leaves on the disk, for any number of writers, files,   *)
(* lines, devices, levels and crashes.                                     *)
(*                                                                         *)
(* Audit log: it implements AuditTrail.  For every file there is a line    *)
(* number that separates it and the older files from the newer ones, and   *)
(* the file a rotation renames to is empty, unless it is the oldest.  So a *)
(* rename only moves lines, or drops those up to a separating number.      *)
(*                                                                         *)
(* state.json: what it holds, if anything, is what the settings were at a  *)
(* moment not before the last completed save, and so is the snapshot of a  *)
(* save under way.  The order restored from it lists the configured        *)
(* devices, by induction over the list it holds.                           *)
(***************************************************************************)
EXTENDS AuditLog, Persistence, SequenceTheorems, WellFoundedInduction, TLAPS

-----------------------------------------------------------------------------
(* AuditLog *)

\* No line is in a file that is not there.
NothingAbsent == \A i \in Files \ present : file[i] = {}

Numbered == \A i \in Files : file[i] \subseteq 1 .. lines

\* The lines of file j and the older ones are those up to n.
Separates(n, j) ==
  /\ \A i \in Files : i >= j => \A line \in file[i] : line <= n
  /\ \A i \in Files : i < j => \A line \in file[i] : line > n

Separated == \A j \in Files : \E n \in 0 .. lines : Separates(n, j)

\* The next rename finds no target, but for the first of a rotation.
TargetIsFree ==
  rotating # Nobody /\ slot < LastFile - 1 => slot + 1 \notin present

\* audit.log is only away while it is rotated.
LogIsThere == rotating = Nobody => 0 \in present

AuditInv ==
  /\ AuditTypeOK /\ NothingAbsent /\ Numbered /\ Separated
  /\ TargetIsFree /\ LogIsThere

LEMMA FileNumbers ==
  /\ LastFile \in Nat /\ LastFile >= 1
  /\ \A i : i \in Files <=> i \in Int /\ 0 <= i /\ i <= LastFile
BY AuditAssumption DEF AuditAssumption, Files

LEMMA AuditInitHolds == AuditInit => AuditInv
<1> SUFFICES ASSUME AuditInit PROVE AuditInv
  OBVIOUS
<1> USE AuditAssumption DEF AuditAssumption
<1>1. AuditTypeOK
  BY FileNumbers DEF AuditInit, AuditTypeOK
<1>2. \A i \in Files : file[i] = {}
  BY DEF AuditInit
<1>3. Separated
  <2>1. 0 \in 0 .. lines
    BY DEF AuditInit
  <2>. QED
    BY <1>2, <2>1 DEF Separated, Separates
<1>. QED
  BY <1>1, <1>2, <1>3 DEF AuditInv, NothingAbsent, Numbered, TargetIsFree, LogIsThere, AuditInit

-----------------------------------------------------------------------------
(* One step *)

\* A step that leaves the lines alone keeps their order.
LEMMA LinesStay ==
  ASSUME AuditInv, UNCHANGED <<file, lines>>
  PROVE  Numbered' /\ Separated'
BY DEF AuditInv, Numbered, Separated, Separates

\* A line that is written is the newest.
LEMMA WriteKeepsOrder ==
  ASSUME AuditInv, NEW w \in Writers, WriteLine(w)
  PROVE  AuditInv'
<1>1. /\ lines \in Nat /\ lines' = lines + 1 /\ file \in [Files -> SUBSET Nat]
      /\ 0 \in Files
      /\ file'[0] = file[0] \cup {lines + 1}
      /\ \A i \in Files \ {0} : file'[i] = file[i]
  BY FileNumbers DEF AuditInv, AuditTypeOK, WriteLine
<1>2. AuditTypeOK'
  <2>1. file' \in [Files -> SUBSET Nat]
    BY <1>1 DEF WriteLine
  <2>. QED
    BY <1>1, <2>1 DEF AuditInv, AuditTypeOK, WriteLine
<1>3. NothingAbsent'
  <2>1. 0 \in present /\ present' = present
    BY DEF AuditInv, LogIsThere, WriteLine
  <2>. QED
    BY <1>1, <2>1 DEF AuditInv, NothingAbsent
<1>4. Numbered'
  BY <1>1 DEF AuditInv, Numbered
<1>5. Separated'
  <2>1. SUFFICES ASSUME NEW j \in Files
                 PROVE  \E n \in 0 .. lines' : Separates(n, j)'
    BY DEF Separated
  <2>2. CASE j = 0
    <3>1. Separates(lines, j)'
      BY <1>1, <1>4, <2>2, FileNumbers DEF Separates, Numbered
    <3>. QED
      BY <1>1, <3>1
  <2>3. CASE j # 0
    <3>1. PICK n \in 0 .. lines : Separates(n, j)
      BY DEF AuditInv, Separated
    <3>2. ASSUME NEW i \in Files, i >= j, NEW line \in file'[i]
          PROVE  line <= n
      BY <1>1, <2>3, <3>1, <3>2, FileNumbers DEF Separates
    <3>3. ASSUME NEW i \in Files, i < j, NEW line \in file'[i]
          PROVE  line > n
      <4>1. CASE line \in file[i]
        BY <3>1, <3>3, <4>1 DEF Separates
      <4>2. CASE line = lines + 1
        BY <1>1, <4>2
      <4>. QED
        BY <1>1, <3>3, <4>1, <4>2
    <3>4. Separates(n, j)'
      BY <3>2, <3>3 DEF Separates
    <3>. QED
      BY <1>1, <3>4
  <2>. QED
    BY <2>2, <2>3
<1>6. TargetIsFree' /\ LogIsThere'
  BY DEF AuditInv, TargetIsFree, LogIsThere, WriteLine
<1>. QED
  BY <1>2, <1>3, <1>4, <1>5, <1>6 DEF AuditInv

\* What a rename moves, and what it drops.
LEMMA RenameMoves ==
  ASSUME AuditInv, Rename, slot \in present
  PROVE  /\ slot \in Files /\ slot + 1 \in Files /\ slot # slot + 1
         /\ file'[slot + 1] = file[slot] /\ file'[slot] = {}
         /\ \A i \in Files \ {slot, slot + 1} : file'[i] = file[i]
         /\ file' \in [Files -> SUBSET Nat]
         /\ slot + 1 < LastFile => file[slot + 1] = {}
<1>1. slot \in 0 .. (LastFile - 1)
  BY FileNumbers DEF AuditInv, AuditTypeOK, Rename
<1>2. slot \in Files /\ slot + 1 \in Files /\ slot # slot + 1
  BY <1>1, FileNumbers
<1>3. file' = [file EXCEPT ![slot + 1] = file[slot], ![slot] = {}]
  BY DEF Rename, Shift
<1>4. file \in [Files -> SUBSET Nat]
  BY DEF AuditInv, AuditTypeOK
<1>5. slot + 1 < LastFile => file[slot + 1] = {}
  BY <1>1, <1>2, FileNumbers DEF AuditInv, TargetIsFree, NothingAbsent, Rename
<1>. QED
  BY <1>2, <1>3, <1>4, <1>5

LEMMA RenameKeepsOrder ==
  ASSUME AuditInv, Rename, slot \in present
  PROVE  Numbered' /\ Separated'
<1> USE RenameMoves
<1>0. lines' = lines
  BY DEF Rename
<1>1. Numbered'
  BY <1>0 DEF AuditInv, Numbered
<1>2. ASSUME NEW j \in Files
      PROVE  \E n \in 0 .. lines : Separates(n, j)'
  <2> DEFINE old == IF j = slot + 1 THEN slot ELSE j
  <2>1. old \in Files
    OBVIOUS
  <2>2. PICK n \in 0 .. lines : Separates(n, old)
    BY <2>1 DEF AuditInv, Separated
  <2>3. ASSUME NEW i \in Files, NEW line \in file'[i]
        PROVE  (i >= j => line <= n) /\ (i < j => line > n)
    <3>1. CASE i = slot + 1
      BY <2>2, <2>3, <3>1, FileNumbers DEF Separates
    <3>2. CASE i \in Files \ {slot, slot + 1}
      BY <2>2, <2>3, <3>2, FileNumbers DEF Separates
    <3>. QED
      BY <2>3, <3>1, <3>2
  <2>. QED
    BY <2>3 DEF Separates
<1>. QED
  BY <1>0, <1>1, <1>2 DEF Separated

LEMMA RenameKeepsFiles ==
  ASSUME AuditInv, Rename
  PROVE  AuditInv'
<1>1. slot' = slot - 1 /\ slot' \in -1 .. (LastFile - 1) /\ rotating # Nobody
      /\ UNCHANGED <<lines, rotating, logging, crashes>>
  BY FileNumbers DEF AuditInv, AuditTypeOK, Rename
<1>2. CASE slot \in present
  <2> USE RenameMoves
  <2>1. present' = (present \ {slot}) \cup {slot + 1}
    BY <1>2 DEF Rename, Shift
  <2>2. AuditTypeOK'
    BY <1>1, <1>2, <2>1 DEF AuditInv, AuditTypeOK
  <2>3. NothingAbsent'
    BY <1>2, <2>1 DEF AuditInv, NothingAbsent
  <2>4. TargetIsFree' /\ LogIsThere'
    <3>1. slot' + 1 = slot /\ slot # slot + 1
      BY <1>1 DEF AuditInv, AuditTypeOK
    <3>. QED
      BY <1>1, <2>1, <3>1 DEF TargetIsFree, LogIsThere
  <2>. QED
    BY <1>2, <2>2, <2>3, <2>4, RenameKeepsOrder DEF AuditInv
<1>3. CASE slot \notin present
  <2>1. UNCHANGED <<file, present>>
    BY <1>3 DEF Rename, Shift
  <2>2. AuditTypeOK'
    BY <1>1, <2>1 DEF AuditInv, AuditTypeOK
  <2>3. TargetIsFree' /\ LogIsThere'
    <3>1. slot' + 1 = slot
      BY <1>1 DEF AuditInv, AuditTypeOK
    <3>. QED
      BY <1>1, <1>3, <2>1, <3>1 DEF TargetIsFree, LogIsThere
  <2>. QED
    BY <1>1, <2>1, <2>2, <2>3, LinesStay DEF AuditInv, NothingAbsent
<1>. QED
  BY <1>2, <1>3

LEMMA AuditStep == AuditInv /\ [AuditNext]_auditVars => AuditInv'
<1> SUFFICES ASSUME AuditInv, [AuditNext]_auditVars PROVE AuditInv'
  OBVIOUS
<1> USE AuditAssumption, FileNumbers DEF AuditAssumption
<1>1. ASSUME NEW w \in Writers, WriteLine(w) PROVE AuditInv'
  BY <1>1, WriteKeepsOrder
<1>2. ASSUME NEW w \in Writers, CheckSize(w) PROVE AuditInv'
  <2>1. Numbered' /\ Separated'
    BY <1>2, LinesStay DEF CheckSize
  <2>2. AuditTypeOK'
    BY <1>2 DEF AuditInv, AuditTypeOK, CheckSize
  <2>. QED
    BY <1>2, <2>1, <2>2 DEF CheckSize, AuditInv, NothingAbsent, TargetIsFree, LogIsThere
<1>3. ASSUME NEW w \in Writers, TakeLock(w) PROVE AuditInv'
  <2>1. Numbered' /\ Separated'
    BY <1>3, LinesStay DEF TakeLock
  <2>2. AuditTypeOK'
    BY <1>3 DEF AuditInv, AuditTypeOK, TakeLock
  <2>. QED
    BY <1>3, <2>1, <2>2 DEF TakeLock, AuditInv, NothingAbsent, TargetIsFree, LogIsThere
<1>4. CASE Rename
  BY <1>4, RenameKeepsFiles
<1>5. CASE Reopen
  <2>1. Numbered' /\ Separated'
    BY <1>5, LinesStay DEF Reopen
  <2>2. AuditTypeOK'
    BY <1>5 DEF AuditInv, AuditTypeOK, Reopen
  <2>. QED
    BY <1>5, <2>1, <2>2 DEF Reopen, AuditInv, NothingAbsent, TargetIsFree, LogIsThere
<1>6. CASE AuditCrash
  <2>1. Numbered' /\ Separated'
    BY <1>6, LinesStay DEF AuditCrash
  <2>2. AuditTypeOK'
    BY <1>6 DEF AuditInv, AuditTypeOK, AuditCrash
  <2>. QED
    BY <1>6, <2>1, <2>2 DEF AuditCrash, AuditInv, NothingAbsent, TargetIsFree, LogIsThere
<1>7. CASE UNCHANGED auditVars
  <2>1. Numbered' /\ Separated'
    BY <1>7, LinesStay DEF auditVars
  <2>. QED
    BY <1>7, <2>1 DEF auditVars, AuditInv, AuditTypeOK, NothingAbsent, TargetIsFree, LogIsThere
<1>. QED
  BY <1>1, <1>2, <1>3, <1>4, <1>5, <1>6, <1>7 DEF AuditNext

-----------------------------------------------------------------------------
(* The refinement *)

LEMMA InitIsTrailInit == AuditInit => Trail!TrailInit
<1> SUFFICES ASSUME AuditInit PROVE Trail!TrailInit
  OBVIOUS
<1>1. \A i \in Files : file[i] = {}
  BY DEF AuditInit
<1>. QED
  BY <1>1 DEF AuditInit, Readable, Trail!TrailInit

\* A line that is written is logged.
LEMMA WriteIsLog ==
  ASSUME AuditInv, NEW w \in Writers, WriteLine(w)
  PROVE  Trail!Log
<1>1. file \in [Files -> SUBSET Nat] /\ 0 \in Files
  BY FileNumbers DEF AuditInv, AuditTypeOK
<1>2. file'[0] = file[0] \cup {lines + 1} /\ \A i \in Files \ {0} : file'[i] = file[i]
  BY <1>1 DEF WriteLine
<1>3. Readable' = Readable \cup {lines + 1}
  BY <1>1, <1>2 DEF Readable
<1>. QED
  BY <1>3 DEF WriteLine, Trail!Log

\* A rename moves lines, or drops the oldest file.
LEMMA RenameIsForget ==
  ASSUME AuditInv, Rename
  PROVE  Trail!Forget \/ UNCHANGED Trail!trailVars
<1>0. lines' = lines
  BY DEF Rename
<1>1. CASE slot \notin present
  BY <1>0, <1>1 DEF Rename, Shift, Readable, Trail!trailVars
<1>2. CASE slot \in present
  <2> USE RenameMoves, <1>2
  <2>1. CASE slot + 1 # LastFile
    <3>1. file[slot + 1] = {}
      BY <2>1, FileNumbers
    <3>2. Readable' = Readable
      BY <3>1 DEF Readable
    <3>. QED
      BY <1>0, <3>2 DEF Trail!trailVars
  <2>2. CASE slot + 1 = LastFile
    <3>1. PICK n \in 0 .. lines : Separates(n, LastFile)
      BY FileNumbers DEF AuditInv, Separated
    <3>2. \A line \in file[LastFile] : line \in Nat /\ line <= n
      BY <2>2, <3>1, FileNumbers DEF Separates, AuditInv, AuditTypeOK
    <3>3. \A i \in Files \ {LastFile} : \A line \in file[i] : line > n
      BY <3>1, FileNumbers DEF Separates
    <3>4. Readable' = UNION {file[i] : i \in Files \ {LastFile}}
      BY <2>2 DEF Readable
    <3>5. \A line \in file[LastFile] : ~(line > n)
      BY <3>2
    <3>6. Readable' = {line \in Readable : line > n}
      BY <3>3, <3>4, <3>5, FileNumbers DEF Readable
    <3>. QED
      BY <1>0, <3>1, <3>6 DEF Trail!Forget
  <2>. QED
    BY <2>1, <2>2
<1>. QED
  BY <1>1, <1>2

LEMMA StepIsTrailStep ==
  AuditInv /\ [AuditNext]_auditVars => [Trail!Log \/ Trail!Forget]_(Trail!trailVars)
<1> SUFFICES ASSUME AuditInv, [AuditNext]_auditVars
             PROVE  [Trail!Log \/ Trail!Forget]_(Trail!trailVars)
  OBVIOUS
<1>1. ASSUME NEW w \in Writers, WriteLine(w) PROVE Trail!Log
  BY <1>1, WriteIsLog
<1>2. ASSUME Rename PROVE Trail!Forget \/ UNCHANGED Trail!trailVars
  BY <1>2, RenameIsForget
<1>3. ASSUME UNCHANGED <<file, lines>> PROVE UNCHANGED Trail!trailVars
  BY <1>3 DEF Trail!trailVars, Readable
<1>4. ASSUME NEW w \in Writers, CheckSize(w) \/ TakeLock(w) PROVE UNCHANGED <<file, lines>>
  BY <1>4 DEF CheckSize, TakeLock
<1>5. ASSUME Reopen \/ AuditCrash \/ UNCHANGED auditVars PROVE UNCHANGED <<file, lines>>
  BY <1>5 DEF Reopen, AuditCrash, auditVars
<1>. QED
  BY <1>1, <1>2, <1>3, <1>4, <1>5 DEF AuditNext

-----------------------------------------------------------------------------
\* The files of the log, its lock and its writers keep their types.
THEOREM AuditTypesHold == AuditSpec => []AuditTypeOK
<1>1. AuditInv => AuditTypeOK
  BY DEF AuditInv
<1>. QED
  BY AuditInitHolds, AuditStep, <1>1, PTL DEF AuditSpec

\* The audit log keeps a suffix of its lines: whatever writers, rotations and crashes
\* do to the files, it behaves as AuditTrail.
THEOREM LogKeepsASuffix == AuditSpec => KeepsASuffix
<1>1. AuditInit => AuditInv
  BY AuditInitHolds
<1>2. AuditInv /\ [AuditNext]_auditVars => AuditInv'
  BY AuditStep
<1>3. AuditInv /\ [AuditNext]_auditVars => [Trail!Log \/ Trail!Forget]_(Trail!trailVars)
  BY StepIsTrailStep
<1>4. AuditInit => Trail!TrailInit
  BY InitIsTrailInit
<1>. QED
  BY <1>1, <1>2, <1>3, <1>4, PTL DEF AuditSpec, KeepsASuffix, Trail!TrailSpec

-----------------------------------------------------------------------------
(* Persistence *)

\* The settings so far are a sequence; of what, the argument need not know.
PastIsSeq == past \in Seq({past[i] : i \in DOMAIN past})

\* A file holds settings of the past, none from before a place in it; one that holds no
\* settings has none that count from there.
HoldsSince(f, low) ==
  \/ /\ f.kind = "settings"
     /\ \E i \in DOMAIN past : i >= low /\ past[i] = f.image
  \/ f \in {NoState, Garbage} /\ low = 0

\* The file is as recent as its last save, and what a loss of power may bring back as
\* recent as the last one that was flushed.
FileIsReal ==
  /\ saved \in Nat /\ flushed \in Nat /\ flushed <= saved
  /\ HoldsSince(disk, saved)
  /\ \A f \in behind : HoldsSince(f, flushed)

\* What is about to be saved are settings of one moment, not older than the last save.
SnapshotIsReal ==
  /\ ~running => saving = "idle"
  /\ saving = "idle" => snapshot.at = 0
  /\ saving # "idle" =>
       /\ snapshot.at \in DOMAIN past /\ past[snapshot.at] = snapshot.image
       /\ snapshot.at >= saved

\* The settings in use are the last ones.
Current ==
  running => Len(past) \in DOMAIN past /\ past[Len(past)] = settings

Shaped == DOMAIN settings = {"level", "order"}

StoreInv == StoreTypeOK /\ Shaped /\ PastIsSeq /\ FileIsReal /\ SnapshotIsReal /\ Current

-----------------------------------------------------------------------------
LEMMA PastFacts ==
  ASSUME PastIsSeq
  PROVE  Len(past) \in Nat /\ DOMAIN past = 1 .. Len(past)
BY LenProperties DEF PastIsSeq

\* Settings that are appended leave the earlier ones in place.
LEMMA PastGrows ==
  ASSUME PastIsSeq, NEW new, past' = Append(past, new)
  PROVE  /\ PastIsSeq' /\ Len(past') = Len(past) + 1 /\ Len(past') \in DOMAIN past'
         /\ past'[Len(past')] = new
         /\ \A i \in DOMAIN past : i \in DOMAIN past' /\ past'[i] = past[i]
<1> DEFINE S == {past[i] : i \in DOMAIN past} \cup {new}
           n == Len(past)
<1>1. past \in Seq(S)
  BY SeqDef DEF PastIsSeq
<1>2. new \in S
  OBVIOUS
<1> HIDE DEF S
<1>3. /\ past' \in Seq(S) /\ Len(past') = n + 1 /\ n \in Nat
      /\ past'[n + 1] = new /\ \A i \in 1 .. n : past'[i] = past[i]
      /\ DOMAIN past' = 1 .. (n + 1) /\ DOMAIN past = 1 .. n
  BY <1>1, <1>2, AppendProperties, LenProperties
<1>4. PastIsSeq'
  BY <1>3, SeqDef DEF PastIsSeq
<1>. QED
  BY <1>3, <1>4

\* What holds settings since a place does since any earlier one.
LEMMA HoldsFromBefore ==
  ASSUME PastIsSeq, NEW f, NEW high \in Nat, NEW low \in Nat, low <= high, HoldsSince(f, high)
  PROVE  HoldsSince(f, low)
<1>1. CASE f \in {NoState, Garbage} /\ high = 0
  <2>1. low = 0
    BY <1>1
  <2>. QED
    BY <1>1, <2>1 DEF HoldsSince
<1>2. ASSUME f.kind = "settings", NEW i \in DOMAIN past, i >= high, past[i] = f.image
      PROVE  HoldsSince(f, low)
  <2>1. i \in Nat
    BY PastFacts
  <2>2. i >= low
    BY <1>2, <2>1
  <2>. QED
    BY <1>2, <2>2 DEF HoldsSince
<1>. QED
  BY <1>1, <1>2 DEF HoldsSince

LEMMA NoSettingsSince ==
  ASSUME NEW f, NEW low, HoldsSince(f, low), f.kind # "settings"
  PROVE  low = 0
BY DEF HoldsSince

LEMMA StoreInitHolds == StoreInit => StoreInv
<1> SUFFICES ASSUME StoreInit PROVE StoreInv
  OBVIOUS
<1>1. PastIsSeq /\ Len(past) = 0
  BY SeqDef, EmptySeq DEF StoreInit, PastIsSeq
<1>2. FileIsReal
  BY DEF StoreInit, FileIsReal, HoldsSince
<1>3. Shaped /\ DOMAIN settings.level = {} /\ snapshot.at = 0
  BY DEF StoreInit, Shaped, DefaultState, NoSnapshot
<1>4. StoreTypeOK
  <2>1. running \in BOOLEAN /\ unread \in BOOLEAN
        /\ saving \in {"idle", "write", "rename"}
    BY DEF StoreInit
  <2>2. /\ saved \in 0 .. Len(past) /\ flushed \in 0 .. Len(past)
        /\ snapshot.at \in 0 .. Len(past) /\ starts \in 0 .. MaxStarts
    BY <1>1, <1>3, PersistenceAssumption DEF StoreInit, PersistenceAssumption
  <2>. QED
    BY <1>3, <2>1, <2>2 DEF StoreTypeOK
<1>. QED
  BY <1>1, <1>2, <1>3, <1>4 DEF StoreInit, StoreInv, SnapshotIsReal, Current

-----------------------------------------------------------------------------
(* A start, and what it restores *)

LEMMA RestoredFacts ==
  ASSUME NEW image, NEW configured
  PROVE  /\ DOMAIN Restored(image, configured) = {"level", "order"}
         /\ DOMAIN Restored(image, configured).level = configured
BY DEF Restored

LEMMA SetAsideIsReal ==
  ASSUME StoreInv, SetAside
  PROVE  HoldsSince(disk', saved) /\ \A f \in behind' : HoldsSince(f, flushed)
<1>1. HoldsSince(disk, saved) /\ \A f \in behind : HoldsSince(f, flushed)
  BY DEF StoreInv, FileIsReal
<1>2. disk = Garbage /\ disk.kind # "settings"
  BY DEF SetAside, Garbage
<1>3. saved = 0
  BY <1>1, <1>2, NoSettingsSince
<1>4. flushed = 0
  BY <1>3 DEF StoreInv, FileIsReal
<1>5. HoldsSince(NoState, saved) /\ HoldsSince(Garbage, flushed)
  BY <1>3, <1>4 DEF HoldsSince
<1>. QED
  BY <1>1, <1>2, <1>5 DEF SetAside

LEMMA StartIsReal ==
  ASSUME StoreInv, NEW configured \in SUBSET Names, StartServer(configured)
  PROVE  StoreInv'
<1> USE DEF StoreInv
<1>0. PICK image : Load(image) /\ settings' = Restored(image, configured)
  BY DEF StartServer
<1>1. /\ PastIsSeq' /\ Len(past') = Len(past) + 1 /\ Len(past') \in DOMAIN past'
      /\ past'[Len(past')] = settings'
      /\ \A i \in DOMAIN past : i \in DOMAIN past' /\ past'[i] = past[i]
  BY PastGrows DEF StartServer
<1>2. running' = TRUE /\ ~running /\ UNCHANGED <<saving, snapshot, saved, flushed>>
  BY DEF StartServer, places
<1>3. SnapshotIsReal' /\ Current'
  BY <1>1, <1>2 DEF SnapshotIsReal, Current
<1>4. FileIsReal'
  <2>1. HoldsSince(disk', saved) /\ \A f \in behind' : HoldsSince(f, flushed)
    <3>1. CASE UNCHANGED <<disk, behind>>
      BY <3>1 DEF FileIsReal
    <3>2. CASE SetAside
      BY <3>2, SetAsideIsReal
    <3>. QED
      BY <1>0, <3>1, <3>2 DEF Load, onDisk
  <2>. QED
    BY <1>1, <1>2, <2>1 DEF FileIsReal, HoldsSince
<1>5. Shaped' /\ DOMAIN settings'.level = configured
  BY <1>0, RestoredFacts DEF Shaped
<1>6. StoreTypeOK'
  <2>1. 0 .. Len(past) \subseteq 0 .. Len(past')
    BY <1>1, PastFacts
  <2>2. starts' \in 0 .. MaxStarts
    BY PersistenceAssumption DEF StartServer, StoreTypeOK, PersistenceAssumption
  <2>3. /\ saved' \in 0 .. Len(past') /\ flushed' \in 0 .. Len(past')
        /\ snapshot'.at \in 0 .. Len(past')
    BY <1>2, <2>1 DEF StoreTypeOK
  <2>4. running' \in BOOLEAN /\ unread' \in BOOLEAN /\ saving' \in {"idle", "write", "rename"}
    BY <1>0, <1>2 DEF StoreTypeOK, Load
  <2>. QED
    BY <1>5, <2>2, <2>3, <2>4 DEF StoreTypeOK
<1>. QED
  BY <1>1, <1>3, <1>4, <1>5, <1>6

-----------------------------------------------------------------------------
(* While the server runs *)

LEMMA ChangesAreReal ==
  ASSUME StoreInv, NEW new, Becomes(new),
         DOMAIN new = {"level", "order"}, DOMAIN new.level \subseteq Names
  PROVE  StoreInv'
<1> USE DEF StoreInv
<1>1. /\ PastIsSeq' /\ Len(past') = Len(past) + 1 /\ Len(past') \in DOMAIN past'
      /\ past'[Len(past')] = new
      /\ \A i \in DOMAIN past : i \in DOMAIN past' /\ past'[i] = past[i]
  BY PastGrows DEF Becomes
<1>2. /\ settings' = new
      /\ UNCHANGED <<running, saving, snapshot, disk, behind, saved, flushed, unread, starts>>
  BY DEF Becomes, onDisk, places
<1>3. FileIsReal' /\ SnapshotIsReal' /\ Current' /\ Shaped'
  BY <1>1, <1>2 DEF FileIsReal, HoldsSince, SnapshotIsReal, Current, Shaped
<1>4. StoreTypeOK'
  <2>1. 0 .. Len(past) \subseteq 0 .. Len(past')
    BY <1>1, PastFacts
  <2>2. saved' \in 0 .. Len(past') /\ flushed' \in 0 .. Len(past') /\ snapshot'.at \in 0 .. Len(past')
    BY <1>2, <2>1 DEF StoreTypeOK
  <2>. QED
    BY <1>2, <2>2 DEF StoreTypeOK
<1>. QED
  BY <1>1, <1>3, <1>4

LEMMA CommandsAreReal ==
  ASSUME StoreInv,
         \/ \E d \in Names, l \in 0 .. TopLevel : ChangeLevel(d, l)
         \/ \E d, e \in Names : ChangeOrder(<<d, e>>)
  PROVE  StoreInv'
<1>0. Shaped /\ DOMAIN settings.level \subseteq Names
  BY DEF StoreInv, StoreTypeOK
<1>1. ASSUME NEW d \in Names, NEW l \in 0 .. TopLevel, ChangeLevel(d, l) PROVE StoreInv'
  <2> DEFINE new == [settings EXCEPT !.level[d] = l]
  <2>1. Becomes(new)
    BY <1>1 DEF ChangeLevel
  <2>2. DOMAIN new = {"level", "order"} /\ DOMAIN new.level = DOMAIN settings.level
    BY <1>0 DEF Shaped
  <2> HIDE DEF new
  <2>. QED
    BY <1>0, <2>1, <2>2, ChangesAreReal
<1>2. ASSUME NEW d \in Names, NEW e \in Names, ChangeOrder(<<d, e>>) PROVE StoreInv'
  <2> DEFINE new == [settings EXCEPT !.order = <<d, e>>]
  <2>1. Becomes(new)
    BY <1>2 DEF ChangeOrder
  <2>2. DOMAIN new = {"level", "order"} /\ DOMAIN new.level = DOMAIN settings.level
    BY <1>0 DEF Shaped
  <2> HIDE DEF new
  <2>. QED
    BY <1>0, <2>1, <2>2, ChangesAreReal
<1>. QED
  BY <1>1, <1>2

LEMMA RenameIsReal ==
  ASSUME StoreInv, RenameTmp
  PROVE  FileIsReal' /\ flushed' = flushed /\ saved' \in 0 .. Len(past)
<1> USE DEF StoreInv
<1>1. UNCHANGED <<past, flushed>>
  BY DEF RenameTmp
<1>2. CASE UNCHANGED <<disk, behind, saved>>
  BY <1>1, <1>2 DEF FileIsReal, HoldsSince, StoreTypeOK
<1>3. CASE /\ disk' = Stored(snapshot.image) /\ behind' = behind \cup {disk}
           /\ saved' = snapshot.at
  <2>1. /\ snapshot.at \in DOMAIN past /\ past[snapshot.at] = snapshot.image
        /\ snapshot.at >= saved
    BY DEF RenameTmp, SnapshotIsReal
  <2>2. snapshot.at \in Nat /\ snapshot.at \in 0 .. Len(past)
    BY <2>1, PastFacts
  <2>3. saved' \in Nat /\ flushed \in Nat /\ flushed <= saved'
    BY <1>3, <2>1, <2>2 DEF FileIsReal
  <2>4. HoldsSince(disk', saved')
    <3>1. disk'.kind = "settings" /\ disk'.image = snapshot.image
      BY <1>3 DEF Stored
    <3>2. snapshot.at >= saved'
      BY <1>3, <2>2
    <3>. QED
      BY <2>1, <3>1, <3>2 DEF HoldsSince
  <2>5. HoldsSince(disk, flushed)
    BY HoldsFromBefore DEF FileIsReal
  <2>6. \A f \in behind' : HoldsSince(f, flushed)
    BY <1>3, <2>5 DEF FileIsReal
  <2>. QED
    BY <1>1, <1>3, <2>2, <2>3, <2>4, <2>6 DEF FileIsReal, HoldsSince
<1>. QED
  BY <1>1, <1>2, <1>3 DEF RenameTmp, onDisk

LEMMA SavesAreReal ==
  ASSUME StoreInv, Snapshot \/ WriteTmp \/ RenameTmp \/ Sync
  PROVE  StoreInv'
<1> USE DEF StoreInv
<1>0. UNCHANGED <<running, settings, past, unread, starts>>
  BY DEF Snapshot, WriteTmp, RenameTmp, Sync
<1>1. CASE Snapshot
  <2>1. snapshot'.image = settings /\ snapshot'.at = Len(past) /\ saving' = "write" /\ running
        /\ UNCHANGED <<disk, behind, saved, flushed>>
    BY <1>1 DEF Snapshot, onDisk, places
  <2>2. Len(past) >= saved
    BY PastFacts DEF StoreTypeOK
  <2>3. SnapshotIsReal'
    BY <1>0, <2>1, <2>2 DEF SnapshotIsReal, Current
  <2>4. snapshot'.at \in 0 .. Len(past')
    BY <1>0, <2>1, PastFacts
  <2>. QED
    BY <1>0, <2>1, <2>3, <2>4
       DEF StoreTypeOK, Shaped, PastIsSeq, FileIsReal, HoldsSince, Current
<1>2. CASE WriteTmp
  <2>1. /\ UNCHANGED <<disk, behind, saved, flushed>> /\ running /\ saving = "write"
        /\ \/ saving' = "rename" /\ UNCHANGED snapshot
           \/ saving' = "idle" /\ snapshot'.at = 0
    BY <1>2 DEF WriteTmp, onDisk, places, NoSnapshot
  <2>2. SnapshotIsReal'
    BY <1>0, <2>1 DEF SnapshotIsReal
  <2>3. snapshot'.at \in 0 .. Len(past')
    BY <1>0, <2>1, PastFacts DEF StoreTypeOK
  <2>. QED
    BY <1>0, <2>1, <2>2, <2>3
       DEF StoreTypeOK, Shaped, PastIsSeq, FileIsReal, HoldsSince, Current
<1>3. CASE RenameTmp
  <2>1. running /\ saving' = "idle" /\ snapshot'.at = 0
    BY <1>3 DEF RenameTmp, NoSnapshot
  <2>2. FileIsReal' /\ flushed' = flushed /\ saved' \in 0 .. Len(past')
    BY <1>0, <1>3, RenameIsReal
  <2>3. SnapshotIsReal'
    BY <1>0, <2>1 DEF SnapshotIsReal
  <2>4. snapshot'.at \in 0 .. Len(past')
    BY <1>0, <2>1, PastFacts
  <2>. QED
    BY <1>0, <2>1, <2>2, <2>3, <2>4 DEF StoreTypeOK, Shaped, PastIsSeq, Current
<1>4. CASE Sync
  <2>1. behind' = {} /\ flushed' = saved /\ UNCHANGED <<saving, snapshot, disk, saved>>
    BY <1>4 DEF Sync
  <2>2. FileIsReal'
    BY <1>0, <2>1 DEF FileIsReal, HoldsSince
  <2>. QED
    BY <1>0, <2>1, <2>2 DEF StoreTypeOK, Shaped, PastIsSeq, SnapshotIsReal, Current
<1>. QED
  BY <1>1, <1>2, <1>3, <1>4

\* The file is what it was, what a loss of power brings back, or spoilt.
LEMMA LossIsReal ==
  ASSUME StoreInv, PowerFails
  PROVE  FileIsReal' /\ saved' \in 0 .. Len(past) /\ flushed' = saved'
<1> USE DEF StoreInv
<1>1. past' = past /\ behind' = {} /\ flushed' = saved'
      /\ saved' = IF disk' = disk THEN saved ELSE IF disk' \in behind THEN flushed ELSE 0
  BY DEF PowerFails
<1>2. HoldsSince(disk', saved') /\ saved' \in 0 .. Len(past)
  <2>1. CASE disk' = disk
    BY <1>1, <2>1 DEF FileIsReal, StoreTypeOK
  <2>2. CASE disk' # disk /\ disk' \in behind
    BY <1>1, <2>2 DEF FileIsReal, StoreTypeOK
  <2>3. CASE disk' # disk /\ disk' \notin behind
    <3>1. disk' = Garbage /\ saved' = 0
      BY <1>1, <2>3 DEF PowerFails, Spoilt
    <3>. QED
      BY <3>1, PastFacts DEF HoldsSince
  <2>. QED
    BY <2>1, <2>2, <2>3
<1>3. saved' \in Nat /\ flushed' <= saved'
  BY <1>1, <1>2, PastFacts
<1>. QED
  BY <1>1, <1>2, <1>3 DEF FileIsReal, HoldsSince

LEMMA DeathsAreReal ==
  ASSUME StoreInv, ServerDies \/ PowerFails
  PROVE  StoreInv'
<1> USE DEF StoreInv
<1>1. /\ running' = FALSE /\ saving' = "idle" /\ snapshot'.at = 0
      /\ DOMAIN settings' = {"level", "order"} /\ DOMAIN settings'.level = {}
      /\ UNCHANGED <<past, unread, starts>>
  BY DEF ServerDies, PowerFails, NoSnapshot, DefaultState
<1>2. FileIsReal' /\ saved' \in 0 .. Len(past') /\ flushed' \in 0 .. Len(past')
  <2>1. CASE ServerDies
    <3>1. UNCHANGED <<disk, behind, saved, flushed>>
      BY <2>1 DEF ServerDies, onDisk, places
    <3>. QED
      BY <1>1, <3>1 DEF FileIsReal, HoldsSince, StoreTypeOK
  <2>2. CASE PowerFails
    BY <1>1, <2>2, LossIsReal
  <2>. QED
    BY <2>1, <2>2
<1>3. SnapshotIsReal' /\ Current' /\ Shaped' /\ PastIsSeq'
  BY <1>1 DEF SnapshotIsReal, Current, Shaped, PastIsSeq
<1>4. StoreTypeOK'
  <2>1. snapshot'.at \in 0 .. Len(past')
    BY <1>1, PastFacts
  <2>. QED
    BY <1>1, <1>2, <2>1 DEF StoreTypeOK
<1>. QED
  BY <1>2, <1>3, <1>4

-----------------------------------------------------------------------------
LEMMA StoreStep == StoreInv /\ [StoreNext]_storeVars => StoreInv'
<1> SUFFICES ASSUME StoreInv, [StoreNext]_storeVars PROVE StoreInv'
  OBVIOUS
<1>1. CASE UNCHANGED storeVars
  BY <1>1 DEF storeVars, onDisk, places, StoreInv, StoreTypeOK, Shaped, PastIsSeq, FileIsReal,
              HoldsSince, SnapshotIsReal, Current
<1>. QED
  BY <1>1, StartIsReal, CommandsAreReal, SavesAreReal, DeathsAreReal DEF StoreNext

\* The inductive invariant of the file and its writer.
LEMMA StoreInvHolds == StoreSpec => []StoreInv
BY StoreInitHolds, StoreStep, PTL DEF StoreSpec

\* Types: levels of known devices only, and places in the past that exist.
THEOREM StoreTypesHold == StoreSpec => []StoreTypeOK
<1>1. StoreInv => StoreTypeOK
  BY DEF StoreInv
<1>. QED
  BY <1>1, StoreInvHolds, PTL

\* A server starts with what was saved last, or, after a loss of power, with what was
\* flushed last or later, wherever the one before it died and however the configuration
\* has changed; with the defaults only if there are no settings in the file or they
\* could not be read.  For any number of devices, changes, saves, losses and starts.
THEOREM RestoredIsReal == StoreSpec => RestoredSettingsAreReal
<1> DEFINE Real ==
      starts' # starts =>
        \/ \E i \in DOMAIN past : i >= saved /\ settings' = Restored(past[i], DOMAIN settings'.level)
        \/ /\ saved = 0 \/ unread'
           /\ settings' = Restored(DefaultState, DOMAIN settings'.level)
<1>1. ASSUME StoreInv, NEW configured \in SUBSET Names, StartServer(configured) PROVE Real
  <2>1. PICK image : Load(image) /\ settings' = Restored(image, configured)
    BY <1>1 DEF StartServer
  <2>2. DOMAIN settings'.level = configured
    BY <2>1, RestoredFacts
  <2>3. HoldsSince(disk, saved)
    BY <1>1 DEF StoreInv, FileIsReal
  <2>4. CASE disk.kind = "settings" /\ image = disk.image
    <3>1. PICK i \in DOMAIN past : i >= saved /\ past[i] = image
      BY <2>3, <2>4 DEF HoldsSince, NoState, Garbage
    <3>. QED
      BY <2>1, <2>2, <3>1
  <2>5. CASE image = DefaultState /\ (unread' \/ disk.kind # "settings")
    <3>1. saved = 0 \/ unread'
      BY <2>3, <2>5, NoSettingsSince
    <3>. QED
      BY <2>1, <2>2, <2>5, <3>1
  <2>. QED
    <3> HIDE DEF Real
    <3>1. \/ disk.kind = "settings" /\ image = disk.image
          \/ image = DefaultState /\ unread' = (disk.kind = "settings")
          \/ image = DefaultState /\ disk = Garbage
      BY <2>1 DEF Load, SetAside
    <3>2. disk = Garbage => disk.kind # "settings"
      BY DEF Garbage
    <3>3. unread' = (disk.kind = "settings") => unread' \/ disk.kind # "settings"
      BY Zenon
    <3>. QED
      BY <2>4, <2>5, <3>1, <3>2, <3>3, Zenon
<1>2. ASSUME \/ \E d \in Names, l \in 0 .. TopLevel : ChangeLevel(d, l)
             \/ \E d, e \in Names : ChangeOrder(<<d, e>>)
             \/ Snapshot \/ WriteTmp \/ RenameTmp \/ Sync \/ ServerDies \/ PowerFails
      PROVE  Real
  BY <1>2 DEF ChangeLevel, ChangeOrder, Becomes, Snapshot, WriteTmp, RenameTmp, Sync,
              ServerDies, PowerFails
<1>3. StoreInv /\ [StoreNext]_storeVars => [Real]_storeVars
  <2> HIDE DEF Real
  <2>. QED
    BY <1>1, <1>2 DEF StoreNext
<1>. QED
  BY <1>3, StoreInvHolds, PTL DEF StoreSpec, RestoredSettingsAreReal

-----------------------------------------------------------------------------
(* What a filter keeps: by induction over the list, in the form of a set   *)
(* of numbers that holds 0 and, with a number, the next.                   *)

LEMMA LeastNatural ==
  ASSUME NEW T, T \subseteq Nat, T # {}
  PROVE  \E m \in T : \A n \in T : m <= n
<1> DEFINE R == {p \in Nat \X Nat : p[1] < p[2]}
<1>1. IsWellFoundedOn(R, Nat)
  BY NatLessThanWellFounded DEF OpToRel
<1>2. PICK m \in T : \A n \in T : ~(<<n, m>> \in R)
  <2> HIDE DEF R
  <2>. QED
    BY <1>1, WFMin
<1>3. \A n \in T : ~(n < m)
  BY <1>2
<1>. QED
  BY <1>3

LEMMA InductionUpTo ==
  ASSUME NEW n \in Nat, NEW T, 0 \in T, \A i \in 0 .. n - 1 : i \in T => i + 1 \in T
  PROVE  \A i \in 0 .. n : i \in T
<1> SUFFICES ASSUME NEW j \in 0 .. n, j \notin T
             PROVE  FALSE
  OBVIOUS
<1> DEFINE Left == {i \in 0 .. n : i \notin T}
<1>1. PICK m \in Left : \A i \in Left : m <= i
  <2>1. Left \subseteq Nat /\ Left # {}
    OBVIOUS
  <2> HIDE DEF Left
  <2>. QED
    BY <2>1, LeastNatural
<1>2. m \in 1 .. n /\ m - 1 \in 0 .. n - 1
  OBVIOUS
<1>3. m - 1 \in T
  BY <1>1, <1>2
<1>4. m - 1 + 1 \in T
  BY <1>2, <1>3
<1>. QED
  BY <1>2, <1>4

\* f[i] is what the filter has kept of the first i names.
Keeps(f, order, wanted) ==
  f = [i \in 0 .. Len(order) |->
         IF i = 0 THEN <<>>
         ELSE IF order[i] \in wanted THEN Append(f[i - 1], order[i]) ELSE f[i - 1]]

LEMMA KeepsExists ==
  ASSUME NEW order, NEW wanted, Len(order) \in Nat
  PROVE  \E f : Keeps(f, order, wanted)
<1> DEFINE Add(q, i) == IF order[i] \in wanted THEN Append(q, order[i]) ELSE q
           P(f, n) == f = [i \in 0 .. n |-> IF i = 0 THEN <<>> ELSE Add(f[i - 1], i)]
           T == {n \in Nat : \E f : P(f, n)}
<1>0. \A f : P(f, Len(order)) => Keeps(f, order, wanted)
  BY DEF Keeps
<1> HIDE DEF Add
<1>1. 0 \in T
  <2> DEFINE f == [i \in 0 .. 0 |-> <<>>]
  <2>1. P(f, 0)
    OBVIOUS
  <2>. QED
    BY <2>1
<1>2. ASSUME NEW n \in Nat, n \in T
      PROVE  n + 1 \in T
  <2>1. PICK f : P(f, n)
    BY <1>2
  <2> DEFINE g == [i \in 0 .. n + 1 |-> IF i <= n THEN f[i] ELSE Add(f[n], n + 1)]
             h == [i \in 0 .. n + 1 |-> IF i = 0 THEN <<>> ELSE Add(g[i - 1], i)]
  <2>2. ASSUME NEW i \in 0 .. n + 1
        PROVE  g[i] = h[i]
    <3>1. CASE i = 0
      <4>1. f[0] = <<>>
        BY <2>1
      <4>. QED
        BY <3>1, <4>1
    <3>2. CASE i \in 1 .. n
      <4>1. f[i] = Add(f[i - 1], i)
        BY <2>1, <3>2
      <4>2. g[i] = f[i] /\ g[i - 1] = f[i - 1]
        BY <3>2
      <4>. QED
        BY <3>2, <4>1, <4>2
    <3>3. CASE i = n + 1
      <4>1. g[n + 1] = Add(f[n], n + 1) /\ g[n] = f[n]
        OBVIOUS
      <4>. QED
        BY <3>3, <4>1
    <3>. QED
      BY <3>1, <3>2, <3>3
  <2>3. g = h
    BY <2>2
  <2>4. P(g, n + 1)
    BY <2>3
  <2> HIDE DEF g, h
  <2>5. \E ff : P(ff, n + 1)
    BY <2>4
  <2>. QED
    BY <2>5
<1>3. Len(order) \in T
  <2> HIDE DEF T
  <2>1. \A i \in 0 .. Len(order) - 1 : i \in T => i + 1 \in T
    BY <1>2
  <2>2. \A i \in 0 .. Len(order) : i \in T
    BY <1>1, <2>1, InductionUpTo
  <2>. QED
    BY <2>2
<1>. QED
  BY <1>0, <1>3

Kept(order, wanted) == CHOOSE f : Keeps(f, order, wanted)

LEMMA KeptIs ==
  ASSUME NEW order, NEW wanted, Len(order) \in Nat
  PROVE  /\ Kept(order, wanted)[0] = <<>>
         /\ \A i \in 1 .. Len(order) :
              Kept(order, wanted)[i] =
                IF order[i] \in wanted THEN Append(Kept(order, wanted)[i - 1], order[i])
                ELSE Kept(order, wanted)[i - 1]
         /\ Filter(order, wanted) = Kept(order, wanted)[Len(order)]
<1> DEFINE f == Kept(order, wanted)
<1>1. Keeps(f, order, wanted)
  BY KeepsExists DEF Kept
<1>2. Filter(order, wanted) = f[Len(order)]
  BY DEF Filter, Kept, Keeps
<1>3. f = [i \in 0 .. Len(order) |->
             IF i = 0 THEN <<>>
             ELSE IF order[i] \in wanted THEN Append(f[i - 1], order[i]) ELSE f[i - 1]]
  BY <1>1 DEF Keeps
<1> DEFINE Add(q, i) == IF order[i] \in wanted THEN Append(q, order[i]) ELSE q
<1> HIDE DEF f
<1>4. f[0] = <<>> /\ \A i \in 1 .. Len(order) : f[i] = Add(f[i - 1], i)
  <2>1. f = [i \in 0 .. Len(order) |-> IF i = 0 THEN <<>> ELSE Add(f[i - 1], i)]
    BY <1>3
  <2> HIDE DEF Add
  <2>. QED
    BY <2>1
<1>. QED
  BY <1>2, <1>4 DEF f

LEMMA ListedOfAppend ==
  ASSUME NEW q \in Seq(Names), NEW name \in Names
  PROVE  Append(q, name) \in Seq(Names) /\ Listed(Append(q, name)) = Listed(q) \cup {name}
<1> DEFINE r == Append(q, name)
<1>1. /\ r \in Seq(Names) /\ Len(r) = Len(q) + 1 /\ r[Len(q) + 1] = name /\ Len(q) \in Nat
      /\ \A i \in 1 .. Len(q) : r[i] = q[i]
  BY AppendProperties, LenProperties
<1>2. DOMAIN r = 1 .. Len(q) + 1 /\ DOMAIN q = 1 .. Len(q)
  BY <1>1, LenProperties
<1> HIDE DEF r
<1>3. Listed(r) = Listed(q) \cup {name}
  BY <1>1, <1>2 DEF Listed
<1>. QED
  BY <1>1, <1>3 DEF r

\* Of the first i names a filter has kept those that are wanted and no other.
LEMMA KeptSoFar ==
  ASSUME NEW order \in Seq(Names), NEW wanted, NEW m \in 0 .. Len(order)
  PROVE  /\ Kept(order, wanted)[m] \in Seq(Names)
         /\ Listed(Kept(order, wanted)[m]) = {order[j] : j \in 1 .. m} \cap wanted
<1> DEFINE f == Kept(order, wanted)
           n == Len(order)
           Before(i) == {order[j] : j \in 1 .. i}
           T == {i \in 0 .. n : f[i] \in Seq(Names) /\ Listed(f[i]) = Before(i) \cap wanted}
<1>1. n \in Nat /\ DOMAIN order = 1 .. n /\ \A i \in 1 .. n : order[i] \in Names
  BY LenProperties
<1>2. /\ f[0] = <<>>
      /\ \A i \in 1 .. n :
           f[i] = IF order[i] \in wanted THEN Append(f[i - 1], order[i]) ELSE f[i - 1]
      /\ Filter(order, wanted) = f[n]
  BY <1>1, KeptIs
<1> HIDE DEF f, n
<1>3. 0 \in T
  <2>1. <<>> \in Seq(Names) /\ Listed(<<>>) = {} /\ Before(0) = {}
    BY EmptySeq DEF Listed
  <2>2. f[0] \in Seq(Names)
    BY <1>2, <2>1
  <2>3. Listed(f[0]) = {}
    BY <1>2, <2>1, Zenon
  <2> HIDE DEF Before
  <2>. QED
    BY <1>1, <2>1, <2>2, <2>3
<1>4. ASSUME NEW i \in 0 .. n - 1, i \in T
      PROVE  i + 1 \in T
  <2>1. i + 1 \in 1 .. n /\ i + 1 - 1 = i /\ i + 1 \in 0 .. n /\ order[i + 1] \in Names
    BY <1>1
  <2>2. f[i] \in Seq(Names) /\ Listed(f[i]) = Before(i) \cap wanted
    BY <1>4
  <2>3. Before(i + 1) = Before(i) \cup {order[i + 1]}
    <3>1. 1 .. i + 1 = (1 .. i) \cup {i + 1}
      BY <1>1
    <3>. QED
      BY <3>1
  <2>4. f[i + 1] = IF order[i + 1] \in wanted THEN Append(f[i], order[i + 1]) ELSE f[i]
    BY <1>2, <2>1
  <2> HIDE DEF Before
  <2>5. CASE order[i + 1] \in wanted
    <3>1. f[i + 1] = Append(f[i], order[i + 1])
      BY <2>4, <2>5
    <3>2. f[i + 1] \in Seq(Names) /\ Listed(f[i + 1]) = Listed(f[i]) \cup {order[i + 1]}
      BY <2>1, <2>2, <3>1, ListedOfAppend
    <3>. QED
      BY <2>1, <2>2, <2>3, <2>5, <3>2
  <2>6. CASE order[i + 1] \notin wanted
    BY <2>1, <2>2, <2>3, <2>4, <2>6
  <2>. QED
    BY <2>5, <2>6
<1>5. \A i \in 0 .. n : i \in T
  <2> HIDE DEF T
  <2>. QED
    BY <1>1, <1>3, <1>4, InductionUpTo
<1>6. f[m] \in Seq(Names) /\ Listed(f[m]) = Before(m) \cap wanted
  <2> HIDE DEF Before
  <2>. QED
    BY <1>5 DEF n
<1>. QED
  BY <1>6 DEF f

LEMMA FilterKeeps ==
  ASSUME NEW order \in Seq(Names), NEW wanted
  PROVE  /\ Filter(order, wanted) \in Seq(Names)
         /\ Listed(Filter(order, wanted)) = Listed(order) \cap wanted
<1>1. Len(order) \in 0 .. Len(order) /\ DOMAIN order = 1 .. Len(order)
  BY LenProperties
<1>2. Filter(order, wanted) = Kept(order, wanted)[Len(order)]
  BY <1>1, KeptIs
<1>3. {order[j] : j \in 1 .. Len(order)} = Listed(order)
  BY <1>1 DEF Listed
<1> DEFINE m == Len(order)
<1>4. /\ Kept(order, wanted)[m] \in Seq(Names)
      /\ Listed(Kept(order, wanted)[m]) = {order[j] : j \in 1 .. m} \cap wanted
  <2>1. m \in 0 .. Len(order)
    BY <1>1
  <2> HIDE DEF m
  <2>. QED
    BY <2>1, KeptSoFar
<1>. QED
  BY <1>2, <1>3, <1>4

\* Whatever was saved, and under whatever configuration, what reconcile_device_order
\* makes of it names the configured devices and no other.
LEMMA ReconciledNames ==
  ASSUME NEW order \in Seq(Names), NEW configured \in SUBSET Names
  PROVE  /\ ReconcileDeviceOrder(order, configured) \in Seq(Names)
         /\ Listed(ReconcileDeviceOrder(order, configured)) = configured
<1> DEFINE p == Filter(order, configured)
           q == Filter(AllNames, configured \ Listed(order))
<1>1. AllNames \in Seq(Names) /\ Listed(AllNames) = Names
  BY PersistenceAssumption DEF PersistenceAssumption, Listed, Names
<1>2. p \in Seq(Names) /\ Listed(p) = Listed(order) \cap configured
  BY FilterKeeps
<1>3. q \in Seq(Names) /\ Listed(q) = Names \cap (configured \ Listed(order))
  BY <1>1, FilterKeeps
<1> HIDE DEF p, q
<1>4. p \o q \in Seq(Names) /\ Listed(p \o q) = Listed(p) \cup Listed(q)
  <2>1. /\ p \o q \in Seq(Names) /\ Len(p \o q) = Len(p) + Len(q)
        /\ \A i \in 1 .. Len(p) + Len(q) :
             (p \o q)[i] = IF i <= Len(p) THEN p[i] ELSE q[i - Len(p)]
    BY <1>2, <1>3, ConcatProperties
  <2>2. /\ Len(p) \in Nat /\ Len(q) \in Nat
        /\ DOMAIN p = 1 .. Len(p) /\ DOMAIN q = 1 .. Len(q)
        /\ DOMAIN (p \o q) = 1 .. Len(p) + Len(q)
    BY <1>2, <1>3, <2>1, LenProperties
  <2> DEFINE r == p \o q
  <2> HIDE DEF r
  <2>3. Listed(r) \subseteq Listed(p) \cup Listed(q)
    <3> SUFFICES ASSUME NEW i \in DOMAIN r
                 PROVE  r[i] \in Listed(p) \cup Listed(q)
      BY DEF Listed
    <3>1. CASE i <= Len(p)
      BY <2>1, <2>2, <3>1 DEF Listed, r
    <3>2. CASE i > Len(p)
      <4>1. i - Len(p) \in DOMAIN q /\ r[i] = q[i - Len(p)]
        BY <2>1, <2>2, <3>2 DEF r
      <4>. QED
        BY <4>1 DEF Listed
    <3>. QED
      BY <3>1, <3>2, <2>2 DEF r
  <2>4. Listed(p) \subseteq Listed(r)
    <3> SUFFICES ASSUME NEW i \in DOMAIN p
                 PROVE  p[i] \in Listed(r)
      BY DEF Listed
    <3>1. i \in DOMAIN r /\ r[i] = p[i]
      BY <2>1, <2>2 DEF r
    <3>. QED
      BY <3>1 DEF Listed
  <2>5. Listed(q) \subseteq Listed(r)
    <3> SUFFICES ASSUME NEW i \in DOMAIN q
                 PROVE  q[i] \in Listed(r)
      BY DEF Listed
    <3>1. i + Len(p) \in DOMAIN r /\ r[i + Len(p)] = q[i]
      BY <2>1, <2>2 DEF r
    <3>. QED
      BY <3>1 DEF Listed
  <2>. QED
    BY <2>1, <2>3, <2>4, <2>5 DEF r
<1>5. Listed(p \o q) = configured
  BY <1>2, <1>3, <1>4
<1>. QED
  BY <1>4, <1>5 DEF ReconcileDeviceOrder, p, q

\* Every order the server has, or has had, is a list of names.
OrdersAreLists ==
  /\ settings.order \in Seq(Names)
  /\ \A i \in DOMAIN past : past[i].order \in Seq(Names)

LEMMA LoadedIsAList ==
  ASSUME StoreInv, OrdersAreLists, NEW image, Load(image)
  PROVE  image.order \in Seq(Names)
<1>1. CASE disk.kind = "settings" /\ image = disk.image
  <2>1. PICK i \in DOMAIN past : past[i] = image
    BY <1>1 DEF StoreInv, FileIsReal, HoldsSince, NoState, Garbage
  <2>. QED
    BY <2>1 DEF OrdersAreLists
<1>2. CASE image = DefaultState
  BY <1>2, EmptySeq DEF DefaultState
<1>. QED
  BY <1>1, <1>2 DEF Load

\* Settings whose order is a list join the past.
LEMMA OrdersGrow ==
  ASSUME StoreInv, OrdersAreLists, NEW new, new.order \in Seq(Names),
         settings' = new, past' = Append(past, new)
  PROVE  OrdersAreLists'
<1>1. Len(past) \in Nat /\ DOMAIN past = 1 .. Len(past) /\ PastIsSeq
  BY PastFacts DEF StoreInv
<1>2. /\ PastIsSeq' /\ Len(past') = Len(past) + 1 /\ past'[Len(past')] = new
      /\ \A i \in DOMAIN past : past'[i] = past[i]
  BY <1>1, PastGrows
<1>3. DOMAIN past' = 1 .. Len(past) + 1
  BY <1>2, LenProperties DEF PastIsSeq
<1>4. \A i \in DOMAIN past' : i \in DOMAIN past \/ i = Len(past')
  BY <1>1, <1>2, <1>3
<1>. QED
  BY <1>2, <1>4 DEF OrdersAreLists

LEMMA StartOrders ==
  ASSUME StoreInv, OrdersAreLists, NEW configured \in SUBSET Names, StartServer(configured)
  PROVE  /\ OrdersAreLists'
         /\ Listed(settings'.order) = DOMAIN settings'.level
<1>1. PICK image : Load(image) /\ settings' = Restored(image, configured)
  BY DEF StartServer
<1>2. /\ settings'.order = ReconcileDeviceOrder(image.order, configured)
      /\ DOMAIN settings'.level = configured
  BY <1>1 DEF Restored
<1>3. settings'.order \in Seq(Names) /\ Listed(settings'.order) = configured
  BY <1>1, <1>2, LoadedIsAList, ReconciledNames
<1>4. past' = Append(past, settings')
  BY DEF StartServer
<1>. QED
  BY <1>2, <1>3, <1>4, OrdersGrow

LEMMA OrdersStayLists ==
  ASSUME StoreInv, OrdersAreLists, [StoreNext]_storeVars
  PROVE  OrdersAreLists'
<1>1. ASSUME NEW new, Becomes(new), new.order \in Seq(Names)
      PROVE  OrdersAreLists'
  BY <1>1, OrdersGrow DEF Becomes
<1>2. ASSUME NEW d \in Names, NEW l \in 0 .. TopLevel, ChangeLevel(d, l)
      PROVE  OrdersAreLists'
  <2> DEFINE new == [settings EXCEPT !.level[d] = l]
  <2>1. new.order = settings.order
    BY DEF StoreInv, Shaped
  <2>. QED
    BY <1>1, <1>2, <2>1 DEF ChangeLevel, OrdersAreLists
<1>3. ASSUME NEW d \in Names, NEW e \in Names, ChangeOrder(<<d, e>>)
      PROVE  OrdersAreLists'
  <2> DEFINE new == [settings EXCEPT !.order = <<d, e>>]
  <2>1. new.order = <<d, e>> /\ <<d, e>> \in Seq(Names)
    BY DEF StoreInv, Shaped
  <2>. QED
    BY <1>1, <1>3, <2>1 DEF ChangeOrder
<1>4. CASE Snapshot \/ WriteTmp \/ RenameTmp \/ Sync
  <2>1. UNCHANGED <<settings, past>>
    BY <1>4 DEF Snapshot, WriteTmp, RenameTmp, Sync
  <2>. QED
    BY <2>1 DEF OrdersAreLists
<1>5. CASE ServerDies \/ PowerFails
  <2>1. settings' = DefaultState /\ UNCHANGED past
    BY <1>5 DEF ServerDies, PowerFails
  <2>. QED
    BY <2>1, EmptySeq DEF OrdersAreLists, DefaultState
<1>6. CASE UNCHANGED storeVars
  BY <1>6 DEF storeVars, OrdersAreLists
<1>. QED
  BY <1>2, <1>3, <1>4, <1>5, <1>6, StartOrders DEF StoreNext

\* No start of the server hides a device, for any number of devices, however the
\* configuration has changed since the order was saved, with names that are gone,
\* repeated or missing in it: the order it starts with lists the configured devices.
THEOREM EveryDeviceIsListed == StoreSpec => NoDeviceIsHidden
<1> DEFINE Listing == starts' # starts => Listed(settings'.order) = DOMAIN settings'.level
<1>1. StoreInit => OrdersAreLists
  <2> SUFFICES ASSUME StoreInit
               PROVE  OrdersAreLists
    OBVIOUS
  <2>1. settings.order = <<>> /\ DOMAIN past = {}
    BY DEF StoreInit, DefaultState
  <2>. QED
    BY <2>1, EmptySeq DEF OrdersAreLists
<1>2. ASSUME StoreInv, OrdersAreLists, [StoreNext]_storeVars
      PROVE  OrdersAreLists' /\ [Listing]_storeVars
  <2>1. CASE \E configured \in SUBSET Names : StartServer(configured)
    BY <1>2, <2>1, StartOrders
  <2>2. CASE \/ \E d \in Names, l \in 0 .. TopLevel : ChangeLevel(d, l)
             \/ \E d, e \in Names : ChangeOrder(<<d, e>>)
             \/ Snapshot \/ WriteTmp \/ RenameTmp \/ Sync \/ ServerDies \/ PowerFails
    <3>1. starts' = starts
      BY <2>2 DEF ChangeLevel, ChangeOrder, Becomes, Snapshot, WriteTmp, RenameTmp, Sync,
                  ServerDies, PowerFails
    <3>. QED
      BY <1>2, <3>1, OrdersStayLists
  <2>. QED
    BY <1>2, <2>1, <2>2, OrdersStayLists DEF StoreNext
<1>. QED
  BY <1>1, <1>2, StoreInitHolds, StoreStep, PTL DEF StoreSpec, NoDeviceIsHidden

-----------------------------------------------------------------------------
(* The order of what is listed *)

NoneTwice(s) == \A a, b \in DOMAIN s : s[a] = s[b] => a = b

\* s has x before y.
HasBefore(s, x, y) == \E k, l \in DOMAIN s : k < l /\ s[k] = x /\ s[l] = y

LEMMA AppendKeepsOrder ==
  ASSUME NEW q \in Seq(Names), NEW name \in Names
  PROVE  /\ \A x, y : HasBefore(q, x, y) => HasBefore(Append(q, name), x, y)
         /\ \A x \in Listed(q) : HasBefore(Append(q, name), x, name)
         /\ NoneTwice(q) /\ name \notin Listed(q) => NoneTwice(Append(q, name))
<1> DEFINE r == Append(q, name)
<1>1. /\ Len(q) \in Nat /\ DOMAIN q = 1 .. Len(q) /\ DOMAIN r = 1 .. Len(q) + 1
      /\ r[Len(q) + 1] = name /\ \A i \in 1 .. Len(q) : r[i] = q[i]
  BY AppendProperties, LenProperties
<1> HIDE DEF r
<1>2. ASSUME NEW x, NEW y, HasBefore(q, x, y)
      PROVE  HasBefore(r, x, y)
  <2>1. PICK k \in DOMAIN q, l \in DOMAIN q : k < l /\ q[k] = x /\ q[l] = y
    BY <1>2 DEF HasBefore
  <2>2. k \in DOMAIN r /\ l \in DOMAIN r /\ r[k] = x /\ r[l] = y
    BY <1>1, <2>1
  <2>. QED
    BY <2>1, <2>2 DEF HasBefore
<1>3. ASSUME NEW x \in Listed(q)
      PROVE  HasBefore(r, x, name)
  <2>1. PICK k \in DOMAIN q : q[k] = x
    BY DEF Listed
  <2>2. k \in DOMAIN r /\ Len(q) + 1 \in DOMAIN r /\ k < Len(q) + 1 /\ r[k] = x
    BY <1>1, <2>1
  <2>. QED
    BY <1>1, <2>2 DEF HasBefore
<1>4. ASSUME NoneTwice(q), name \notin Listed(q), NEW a \in DOMAIN r, NEW b \in DOMAIN r, r[a] = r[b]
      PROVE  a = b
  <2>1. \A i \in DOMAIN q : q[i] # name
    BY <1>4 DEF Listed
  <2>. QED
    BY <1>1, <1>4, <2>1 DEF NoneTwice
<1>. QED
  BY <1>2, <1>3, <1>4 DEF NoneTwice, r

\* A filter leaves what it keeps in its order.
LEMMA FilterKeepsOrder ==
  ASSUME NEW order \in Seq(Names), NEW wanted
  PROVE  /\ \A a, b \in DOMAIN order : a < b /\ order[a] \in wanted /\ order[b] \in wanted
              => HasBefore(Filter(order, wanted), order[a], order[b])
         /\ NoneTwice(order) => NoneTwice(Filter(order, wanted))
<1> DEFINE f == Kept(order, wanted)
           n == Len(order)
           Sorted(i) == \A a, b \in 1 .. i : a < b /\ order[a] \in wanted /\ order[b] \in wanted
                          => HasBefore(f[i], order[a], order[b])
           T == {i \in 0 .. n : Sorted(i) /\ (NoneTwice(order) => NoneTwice(f[i]))}
<1>1. n \in Nat /\ DOMAIN order = 1 .. n /\ \A i \in 1 .. n : order[i] \in Names
  BY LenProperties
<1>2. /\ f[0] = <<>>
      /\ \A i \in 1 .. n :
           f[i] = IF order[i] \in wanted THEN Append(f[i - 1], order[i]) ELSE f[i - 1]
      /\ Filter(order, wanted) = f[n]
  BY <1>1, KeptIs
<1>3. ASSUME NEW i \in 0 .. n
      PROVE  f[i] \in Seq(Names) /\ Listed(f[i]) = {order[j] : j \in 1 .. i} \cap wanted
  BY KeptSoFar
<1> HIDE DEF f, n
<1>4. 0 \in T
  <2>1. NoneTwice(f[0])
    <3>1. DOMAIN <<>> = {}
      OBVIOUS
    <3>2. NoneTwice(<<>>)
      BY <3>1 DEF NoneTwice
    <3>. QED
      BY <1>2, <3>2, Zenon
  <2>2. Sorted(0)
    OBVIOUS
  <2> HIDE DEF Sorted
  <2>. QED
    BY <1>1, <2>1, <2>2
<1>5. ASSUME NEW i \in 0 .. n - 1, i \in T
      PROVE  i + 1 \in T
  <2>1. i + 1 \in 1 .. n /\ i + 1 - 1 = i /\ i + 1 \in 0 .. n /\ order[i + 1] \in Names /\ i \in 0 .. n
    BY <1>1
  <2>2. f[i] \in Seq(Names) /\ Listed(f[i]) = {order[j] : j \in 1 .. i} \cap wanted
    BY <1>3, <2>1
  <2>3. Sorted(i) /\ (NoneTwice(order) => NoneTwice(f[i]))
    BY <1>5
  <2>4. f[i + 1] = IF order[i + 1] \in wanted THEN Append(f[i], order[i + 1]) ELSE f[i]
    BY <1>2, <2>1
  <2>5. Sorted(i + 1)
    <3> SUFFICES ASSUME NEW a \in 1 .. i + 1, NEW b \in 1 .. i + 1,
                        a < b, order[a] \in wanted, order[b] \in wanted
                 PROVE  HasBefore(f[i + 1], order[a], order[b])
      OBVIOUS
    <3>1. a \in 1 .. i /\ (b \in 1 .. i \/ b = i + 1)
      BY <1>1
    <3>2. CASE b \in 1 .. i
      <4>1. HasBefore(f[i], order[a], order[b])
        BY <2>3, <3>1, <3>2
      <4> HIDE DEF Sorted
      <4>. QED
        BY <2>1, <2>2, <2>4, <4>1, AppendKeepsOrder
    <3>3. CASE b = i + 1
      <4>1. order[a] \in Listed(f[i])
        BY <2>2, <3>1
      <4>2. f[i + 1] = Append(f[i], order[i + 1])
        BY <2>4, <3>3
      <4> HIDE DEF Sorted
      <4>. QED
        BY <2>1, <2>2, <3>3, <4>1, <4>2, AppendKeepsOrder
    <3>. QED
      BY <3>1, <3>2, <3>3
  <2> HIDE DEF Sorted
  <2>6. ASSUME NoneTwice(order)
        PROVE  NoneTwice(f[i + 1])
    <3>1. CASE order[i + 1] \in wanted
      <4>1. order[i + 1] \notin Listed(f[i])
        <5>1. \A j \in 1 .. i : order[j] # order[i + 1]
          BY <1>1, <2>1, <2>6 DEF NoneTwice
        <5>. QED
          BY <2>2, <5>1
      <4>2. f[i + 1] = Append(f[i], order[i + 1])
        BY <2>4, <3>1
      <4>. QED
        BY <2>1, <2>2, <2>3, <2>6, <4>1, <4>2, AppendKeepsOrder
    <3>2. CASE order[i + 1] \notin wanted
      BY <2>3, <2>4, <2>6, <3>2
    <3>. QED
      BY <3>1, <3>2
  <2>. QED
    BY <2>1, <2>5, <2>6
<1>6. \A i \in 0 .. n : i \in T
  <2> HIDE DEF T
  <2>. QED
    BY <1>1, <1>4, <1>5, InductionUpTo
<1>7. Sorted(n) /\ (NoneTwice(order) => NoneTwice(f[n]))
  <2> HIDE DEF Sorted
  <2>. QED
    BY <1>1, <1>6
<1>. QED
  BY <1>1, <1>2, <1>7

\* "Keep the persisted relative order for devices that still exist, [...] and append
\* any newly-configured devices": two devices that are still configured are in the
\* order they were saved in, a new one comes after them, and none is shown twice
\* unless it was saved twice.
THEOREM SavedOrderIsKept ==
  ASSUME NEW order \in Seq(Names), NEW configured \in SUBSET Names
  PROVE  LET reconciled == ReconcileDeviceOrder(order, configured)
         IN  /\ \A a, b \in DOMAIN order :
                  a < b /\ order[a] \in configured /\ order[b] \in configured
                    => HasBefore(reconciled, order[a], order[b])
             /\ \A x \in configured \cap Listed(order), y \in configured \ Listed(order) :
                  HasBefore(reconciled, x, y)
             /\ NoneTwice(order) /\ NoneTwice(AllNames) => NoneTwice(reconciled)
<1> DEFINE p == Filter(order, configured)
           q == Filter(AllNames, configured \ Listed(order))
           r == p \o q
<1>1. AllNames \in Seq(Names) /\ Listed(AllNames) = Names
  BY PersistenceAssumption DEF PersistenceAssumption, Listed, Names
<1>2. p \in Seq(Names) /\ Listed(p) = Listed(order) \cap configured
  BY FilterKeeps
<1>3. q \in Seq(Names) /\ Listed(q) = Names \cap (configured \ Listed(order))
  BY <1>1, FilterKeeps
<1>4. /\ \A a, b \in DOMAIN order : a < b /\ order[a] \in configured /\ order[b] \in configured
           => HasBefore(p, order[a], order[b])
      /\ NoneTwice(order) => NoneTwice(p)
  BY FilterKeepsOrder
<1>5. NoneTwice(AllNames) => NoneTwice(q)
  BY <1>1, FilterKeepsOrder
<1>6. ReconcileDeviceOrder(order, configured) = r
  BY DEF ReconcileDeviceOrder
<1> HIDE DEF p, q
<1>7. /\ Len(p) \in Nat /\ Len(q) \in Nat
      /\ DOMAIN p = 1 .. Len(p) /\ DOMAIN q = 1 .. Len(q)
      /\ DOMAIN r = 1 .. Len(p) + Len(q)
      /\ \A i \in 1 .. Len(p) + Len(q) : r[i] = IF i <= Len(p) THEN p[i] ELSE q[i - Len(p)]
  <2>1. /\ r \in Seq(Names) /\ Len(r) = Len(p) + Len(q)
        /\ \A i \in 1 .. Len(p) + Len(q) : r[i] = IF i <= Len(p) THEN p[i] ELSE q[i - Len(p)]
    BY <1>2, <1>3, ConcatProperties
  <2> HIDE DEF r
  <2>. QED
    BY <1>2, <1>3, <2>1, LenProperties
<1> HIDE DEF r
<1>8. ASSUME NEW x, NEW y, HasBefore(p, x, y)
      PROVE  HasBefore(r, x, y)
  <2>1. PICK k \in DOMAIN p, l \in DOMAIN p : k < l /\ p[k] = x /\ p[l] = y
    BY <1>8 DEF HasBefore
  <2>2. k \in DOMAIN r /\ l \in DOMAIN r /\ r[k] = x /\ r[l] = y
    BY <1>7, <2>1
  <2>. QED
    BY <2>1, <2>2 DEF HasBefore
<1>9. ASSUME NEW x \in Listed(p), NEW y \in Listed(q)
      PROVE  HasBefore(r, x, y)
  <2>1. PICK k \in DOMAIN p, l \in DOMAIN q : p[k] = x /\ q[l] = y
    BY DEF Listed
  <2>2. /\ k \in DOMAIN r /\ Len(p) + l \in DOMAIN r /\ k < Len(p) + l
        /\ r[k] = x /\ r[Len(p) + l] = y
    BY <1>7, <2>1
  <2>. QED
    BY <2>2 DEF HasBefore
<1>10. ASSUME NoneTwice(order), NoneTwice(AllNames)
       PROVE  NoneTwice(r)
  <2>1. NoneTwice(p) /\ NoneTwice(q)
    BY <1>4, <1>5, <1>10
  <2>2. \A k \in DOMAIN p, l \in DOMAIN q : p[k] # q[l]
    <3>1. \A x \in Listed(p), y \in Listed(q) : x # y
      BY <1>2, <1>3
    <3>. QED
      BY <3>1 DEF Listed
  <2> SUFFICES ASSUME NEW a \in DOMAIN r, NEW b \in DOMAIN r, r[a] = r[b]
               PROVE  a = b
    BY DEF NoneTwice
  <2>3. CASE a <= Len(p) /\ b <= Len(p)
    BY <1>7, <2>1, <2>3 DEF NoneTwice
  <2>4. CASE a > Len(p) /\ b > Len(p)
    <3>1. a - Len(p) \in DOMAIN q /\ b - Len(p) \in DOMAIN q /\ q[a - Len(p)] = q[b - Len(p)]
      BY <1>7, <2>4
    <3>2. a - Len(p) = b - Len(p)
      BY <2>1, <3>1 DEF NoneTwice
    <3>. QED
      BY <1>7, <3>2
  <2>5. CASE a <= Len(p) /\ b > Len(p)
    <3>1. a \in DOMAIN p /\ b - Len(p) \in DOMAIN q /\ p[a] = q[b - Len(p)]
      BY <1>7, <2>5
    <3>. QED
      BY <2>2, <3>1
  <2>6. CASE a > Len(p) /\ b <= Len(p)
    <3>1. b \in DOMAIN p /\ a - Len(p) \in DOMAIN q /\ p[b] = q[a - Len(p)]
      BY <1>7, <2>6
    <3>. QED
      BY <2>2, <3>1
  <2>7. a \in Nat /\ b \in Nat
    BY <1>7
  <2>. QED
    BY <1>7, <2>3, <2>4, <2>5, <2>6, <2>7
<1>11. \A x \in configured \cap Listed(order), y \in configured \ Listed(order) : HasBefore(r, x, y)
  BY <1>2, <1>3, <1>9
<1>. QED
  BY <1>4, <1>6, <1>8, <1>10, <1>11
===============================================================================
