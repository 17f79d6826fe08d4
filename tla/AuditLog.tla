------------------------------ MODULE AuditLog ------------------------------
(***************************************************************************)
(* The audit log (crates/server/src/audit.rs): log writes a line under the *)
(* lock of the file, releases it, looks at the size of the file without    *)
(* it, and rotates under the lock again, file by file.  Every session      *)
(* writes, and the server may die at any point and open the log anew.      *)
(*                                                                         *)
(* A line is its number.  Writing it and opening the new file are taken to *)
(* succeed, and so is every rename of a file that is there: the code       *)
(* ignores one that fails and goes on, and the next then replaces a file   *)
(* whose lines have not moved.                                             *)
(***************************************************************************)
EXTENDS Integers, FiniteSets

CONSTANTS
  Writers,      \* sessions, and the connects and disconnects they log
  LastFile,     \* MAX_LOG_FILES: audit.log is file 0, audit.log.i is file i
  MaxFileLines, \* lines a file may hold before it is rotated
  Nobody,
  MaxLines, MaxAuditCrashes   \* bounds

Files == 0 .. LastFile

ASSUME AuditAssumption ==
  /\ LastFile \in Nat \ {0} /\ MaxFileLines \in Nat
  /\ Nobody \notin Writers
  /\ MaxLines \in Nat /\ MaxAuditCrashes \in Nat

VARIABLES
  present,   \* external: the files there are
  file,      \* external: the lines in each, none when it is not there
  lines,     \* history: how many lines were written
  rotating,  \* who holds the lock for a rotation
  slot,      \* the file that is renamed next, and -1 when all have been
  logging,   \* where a writer is: "idle", "check" or "lock"
  crashes    \* how many crashes there were

auditVars == <<present, file, lines, rotating, slot, logging, crashes>>

AuditInit ==
  /\ present = {0}
  /\ file = [i \in Files |-> {}]
  /\ lines = 0
  /\ rotating = Nobody /\ slot = -1
  /\ logging = [w \in Writers |-> "idle"]
  /\ crashes = 0

-----------------------------------------------------------------------------
(* log *)

WriteLine(w) ==
  /\ logging[w] = "idle" /\ rotating = Nobody
  /\ lines < MaxLines
  /\ lines' = lines + 1
  /\ file' = [file EXCEPT ![0] = @ \cup {lines + 1}]
  /\ logging' = [logging EXCEPT ![w] = "check"]
  /\ UNCHANGED <<present, rotating, slot, crashes>>

\* The metadata of the path, which another writer may just have renamed.
OverSize == 0 \in present /\ Cardinality(file[0]) > MaxFileLines

CheckSize(w) ==
  /\ logging[w] = "check"
  /\ logging' = [logging EXCEPT ![w] = IF OverSize THEN "lock" ELSE "idle"]
  /\ UNCHANGED <<present, file, lines, rotating, slot, crashes>>

-----------------------------------------------------------------------------
(* maybe_rotate *)

TakeLock(w) ==
  /\ logging[w] = "lock" /\ rotating = Nobody
  /\ rotating' = w
  /\ slot' = LastFile - 1
  /\ UNCHANGED <<present, file, lines, logging, crashes>>

Shift(from) ==
  IF from \in present
  THEN /\ file' = [file EXCEPT ![from + 1] = file[from], ![from] = {}]
       /\ present' = (present \ {from}) \cup {from + 1}
  ELSE UNCHANGED <<file, present>>

\* Faulty: the files are renamed from the newest to the oldest.
RenameUpwards ==
  /\ rotating # Nobody /\ slot >= 0
  /\ Shift(LastFile - 1 - slot)
  /\ slot' = slot - 1
  /\ UNCHANGED <<lines, rotating, logging, crashes>>

\* A rename replaces its target, and does nothing if there is no such file.
Rename ==
  /\ rotating # Nobody /\ slot >= 0
  /\ Shift(slot)
  /\ slot' = slot - 1
  /\ UNCHANGED <<lines, rotating, logging, crashes>>

Reopen ==
  /\ rotating # Nobody /\ slot = -1
  /\ present' = present \cup {0}
  /\ logging' = [logging EXCEPT ![rotating] = "idle"]
  /\ rotating' = Nobody
  /\ UNCHANGED <<file, lines, slot, crashes>>

\* The server dies, perhaps between two renames, and AuditLog::open starts over.
AuditCrash ==
  /\ crashes < MaxAuditCrashes /\ crashes' = crashes + 1
  /\ present' = present \cup {0}
  /\ logging' = [w \in Writers |-> "idle"]
  /\ rotating' = Nobody /\ slot' = -1
  /\ UNCHANGED <<file, lines>>

-----------------------------------------------------------------------------
AuditNext ==
  \/ \E w \in Writers : WriteLine(w) \/ CheckSize(w) \/ TakeLock(w)
  \/ Rename \/ Reopen \/ AuditCrash

AuditSpec == AuditInit /\ [][AuditNext]_auditVars

-----------------------------------------------------------------------------
(* Properties *)

AuditTypeOK ==
  /\ present \subseteq Files
  /\ file \in [Files -> SUBSET Nat]
  /\ lines \in Nat /\ crashes \in Nat
  /\ rotating \in Writers \cup {Nobody}
  /\ slot \in -1 .. (LastFile - 1)
  /\ logging \in [Writers -> {"idle", "check", "lock"}]

Readable == UNION {file[i] : i \in Files}

Trail == INSTANCE AuditTrail WITH logged <- lines, kept <- Readable, MaxTrail <- MaxLines

\* The log implements AuditTrail: no rotation loses a line while it keeps an older one,
\* although two writers may rotate one after the other on what they both saw, a
\* rotation may rename an empty file, and a crash may leave one half done.
KeepsASuffix == Trail!TrailSpec
=============================================================================
