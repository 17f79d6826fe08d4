---------------------------- MODULE Persistence ----------------------------
(***************************************************************************)
(* state.json: PersistedState::save and load (crates/server/src/state.rs), *)
(* the periodic save, the restoring of the settings and                    *)
(* reconcile_device_order when the server starts                           *)
(* (crates/server/src/main.rs), over crashes of the server, losses of      *)
(* power and changes of the configuration.                                 *)
(*                                                                         *)
(* Settings are the levels of the configured devices and their order; the  *)
(* buffer size and auto gain are saved and restored like a level is.       *)
(*                                                                         *)
(* save flushes neither the file nor the directory.  A loss of power may   *)
(* undo the renames since the last flush, or leave the file without its    *)
(* contents; a server that dies leaves them as they are.                   *)
(***************************************************************************)
EXTENDS Naturals, Sequences

CONSTANTS
  AllNames,    \* the names a device may have, in order
  TopLevel,    \* index of the least sensitive level
  MaxChanges, MaxStarts   \* bounds

Names == {AllNames[i] : i \in DOMAIN AllNames}

ASSUME PersistenceAssumption ==
  /\ AllNames \in Seq(Names)
  /\ TopLevel \in Nat /\ MaxChanges \in Nat /\ MaxStarts \in Nat

VARIABLES
  running,   \* the server is up
  settings,  \* levels and device_order in InnerState
  saving,    \* "idle", "write" or "rename"
  snapshot,  \* its local, with the place it has in past; NoSnapshot when it is idle
  disk,      \* external: state.json, which may hold no settings
  behind,    \* external: what a loss of power may bring back in its place; {} once the
             \* last rename is flushed
  past,      \* history: the settings there were, those of each start included
  saved,     \* history: which of them the file holds, 0 if none
  flushed,   \* history: which of them it held when it was flushed
  unread,    \* history: the last start could not read the settings in the file
  starts     \* how often the server was started

onDisk == <<disk, behind>>
places == <<saved, flushed>>
storeVars == <<running, settings, saving, snapshot, onDisk, past, places, unread, starts>>

-----------------------------------------------------------------------------
(* load and main: from what is on the disk to what the server starts with *)

Listed(order) == {order[i] : i \in DOMAIN order}

\* iter().filter(..).collect()
Filter(order, wanted) ==
  LET kept[i \in 0 .. Len(order)] ==
        IF i = 0 THEN <<>>
        ELSE IF order[i] \in wanted THEN Append(kept[i - 1], order[i]) ELSE kept[i - 1]
  IN  kept[Len(order)]

\* Faulty: devices that were not there before are not added.
KeepKnown(order, configured) == Filter(order, configured)

ReconcileDeviceOrder(order, configured) ==
  Filter(order, configured) \o Filter(AllNames, configured \ Listed(order))

Restored(image, configured) ==
  [level |-> [d \in configured |-> IF d \in DOMAIN image.level THEN image.level[d] ELSE TopLevel],
   order |-> ReconcileDeviceOrder(image.order, configured)]

DefaultState == [level |-> [d \in {} |-> TopLevel], order |-> <<>>]
NoSnapshot == [image |-> DefaultState, at |-> 0]

NoState == [kind |-> "none", image |-> DefaultState]
Garbage == [kind |-> "garbage", image |-> DefaultState]
Stored(image) == [kind |-> "settings", image |-> image]

StoreInit ==
  /\ running = FALSE
  /\ settings = DefaultState
  /\ saving = "idle" /\ snapshot = NoSnapshot
  /\ disk = NoState /\ behind = {}
  /\ past = <<>> /\ saved = 0 /\ flushed = 0
  /\ unread = FALSE
  /\ starts = 0

\* A file that does not parse is set aside.
SetAside ==
  /\ disk = Garbage
  /\ disk' = NoState /\ behind' = behind \cup {disk}

\* What the server starts with, and what is left of the file.  An error of the read is
\* taken for a missing file, whatever it is, and one of the rename is ignored.
Load(image) ==
  \/ /\ disk.kind = "settings" /\ image = disk.image
     /\ unread' = FALSE /\ UNCHANGED onDisk
  \/ /\ image = DefaultState
     /\ unread' = (disk.kind = "settings") /\ UNCHANGED onDisk
  \/ /\ image = DefaultState
     /\ unread' = FALSE /\ SetAside

StartServer(configured) ==
  /\ ~running /\ starts < MaxStarts
  /\ running' = TRUE /\ starts' = starts + 1
  /\ \E image \in {disk.image, DefaultState} :
       Load(image) /\ settings' = Restored(image, configured)
  /\ past' = Append(past, settings')
  /\ UNCHANGED <<saving, snapshot, places>>

-----------------------------------------------------------------------------
(* Commands and listeners that change the settings *)

Becomes(new) ==
  /\ running
  /\ Len(past) < MaxChanges + starts
  /\ settings' = new
  /\ past' = Append(past, new)
  /\ UNCHANGED <<running, saving, snapshot, onDisk, places, unread, starts>>

ChangeLevel(d, l) ==
  /\ d \in DOMAIN settings.level
  /\ Becomes([settings EXCEPT !.level[d] = l])

\* SetDeviceOrder takes any list a client sends.
ChangeOrder(order) == Becomes([settings EXCEPT !.order = order])

-----------------------------------------------------------------------------
(* The periodic save *)

Snapshot ==
  /\ running /\ saving = "idle"
  /\ saving' = "write"
  /\ snapshot' = [image |-> settings, at |-> Len(past)]
  /\ UNCHANGED <<running, settings, onDisk, past, places, unread, starts>>

\* Faulty: the file is written in place.
WriteInPlace ==
  /\ running /\ saving = "write"
  /\ saving' = "rename"
  /\ disk' = Garbage
  /\ UNCHANGED <<running, settings, snapshot, behind, past, places, unread, starts>>

\* state.json.tmp: nobody reads it before it is whole.
WriteTmp ==
  /\ running /\ saving = "write"
  /\ \/ saving' = "rename" /\ UNCHANGED snapshot
     \/ saving' = "idle" /\ snapshot' = NoSnapshot   \* the write fails
  /\ UNCHANGED <<running, settings, onDisk, past, places, unread, starts>>

\* The outcome of the rename is ignored.
RenameTmp ==
  /\ running /\ saving = "rename"
  /\ saving' = "idle" /\ snapshot' = NoSnapshot
  /\ \/ /\ disk' = Stored(snapshot.image) /\ behind' = behind \cup {disk}
        /\ saved' = snapshot.at
     \/ UNCHANGED <<onDisk, saved>>   \* it fails
  /\ UNCHANGED <<running, settings, past, flushed, unread, starts>>

-----------------------------------------------------------------------------
(* The disk, deaths and losses of power *)

Sync ==
  /\ behind # {} /\ behind' = {}
  /\ flushed' = saved
  /\ UNCHANGED <<running, settings, saving, snapshot, disk, past, saved, unread, starts>>

ServerDies ==
  /\ running /\ running' = FALSE
  /\ settings' = DefaultState
  /\ saving' = "idle" /\ snapshot' = NoSnapshot
  /\ UNCHANGED <<onDisk, past, places, unread, starts>>

Spoilt == IF behind = {} THEN {} ELSE {Garbage}

\* Whether a server is up or not.
PowerFails ==
  /\ running' = FALSE
  /\ settings' = DefaultState
  /\ saving' = "idle" /\ snapshot' = NoSnapshot
  /\ disk' \in {disk} \cup behind \cup Spoilt /\ behind' = {}
  /\ saved' = IF disk' = disk THEN saved ELSE IF disk' \in behind THEN flushed ELSE 0
  /\ flushed' = saved'
  /\ UNCHANGED <<past, unread, starts>>

StoreNext ==
  \/ \E configured \in SUBSET Names : StartServer(configured)
  \/ \E d \in Names, l \in 0 .. TopLevel : ChangeLevel(d, l)
  \/ \E d, e \in Names : ChangeOrder(<<d, e>>)
  \/ Snapshot \/ WriteTmp \/ RenameTmp \/ Sync
  \/ ServerDies \/ PowerFails

StoreSpec == StoreInit /\ [][StoreNext]_storeVars

-----------------------------------------------------------------------------
(* Properties *)

StoreTypeOK ==
  /\ running \in BOOLEAN /\ unread \in BOOLEAN
  /\ DOMAIN settings.level \subseteq Names
  /\ saving \in {"idle", "write", "rename"}
  /\ {saved, flushed} \subseteq 0 .. Len(past) /\ snapshot.at \in 0 .. Len(past)
  /\ starts \in 0 .. MaxStarts

\* A server starts with settings it once had, all of one moment.  They are none of
\* before the last completed save, wherever the server before it died; after a loss of
\* power, none of before the last save that was flushed.  It falls back on the defaults
\* only if it could not read the settings in the file, or there are none: nothing was
\* saved, no save was flushed, or the loss of power spoilt the file.
RestoredSettingsAreReal ==
  [][starts' # starts =>
       \/ \E i \in DOMAIN past : i >= saved /\ settings' = Restored(past[i], DOMAIN settings'.level)
       \/ /\ saved = 0 \/ unread'
          /\ settings' = Restored(DefaultState, DOMAIN settings'.level)]_storeVars

\* The order a server starts with names every configured device and no other, whatever
\* order was saved under whatever configuration: no row is hidden.
NoDeviceIsHidden ==
  [][starts' # starts => Listed(settings'.order) = DOMAIN settings'.level]_storeVars
=============================================================================
