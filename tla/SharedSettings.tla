--------------------------- MODULE SharedSettings ---------------------------
(***************************************************************************)
(* The settings all browsers share, the buffer size and auto gain: the     *)
(* SetBufferSize and SetAutoGain commands of the sessions                  *)
(* (crates/server/src/commands.rs), the announcements every session        *)
(* forwards (crates/server/src/ws.rs) and the copy each page keeps         *)
(* (crates/frontend/src/app.rs and controls.rs).                           *)
(*                                                                         *)
(* A session writes the setting under the lock and announces it after it   *)
(* released the lock; sessions run on several threads.  The device order   *)
(* is not here: a page keeps its own.                                      *)
(***************************************************************************)
EXTENDS Integers, Sequences

CONSTANTS
  Tabs,               \* browsers, with one session each
  Typed,              \* the sizes an operator types
  MinSize, MaxSize,   \* 10 and 10000
  Capacity,           \* of the broadcast channel
  Nothing,            \* no command
  MaxEdits            \* bound on the commands

SettingNames == {"size", "gain"}
Sizes   == Typed \cup {MinSize, MaxSize}
Values  == [size : Sizes, gain : BOOLEAN]
Changes == [name : {"size"}, value : Sizes] \cup [name : {"gain"}, value : BOOLEAN]
Change(name, value) == [name |-> name, value |-> value]

ASSUME SettingsAssumption ==
  /\ Typed \subseteq Nat /\ MinSize \in Nat /\ MaxSize \in Nat
  /\ MinSize <= MaxSize
  /\ Capacity \in Nat \ {0} /\ MaxEdits \in Nat
  /\ Nothing \notin Changes

VARIABLES
  shared,        \* buffer_size and auto_gain in InnerState
  online,        \* the pages with a session
  mirror,        \* buffer.size and auto_gain of each page
  sent,          \* the command on its way from a page
  writing,       \* the command whose setting is written and not yet announced
  news,          \* what a session has yet to forward to its page
  edits,         \* how many commands there were
  offTrack       \* history: <<page, setting>> for each copy that a lost message or two
                 \* commands at the same time may have left wrong

settingsVars == <<shared, online, mirror, sent, writing, news, edits, offTrack>>

SettingsInit ==
  /\ shared = [size |-> MinSize, gain |-> FALSE]
  /\ online = {}
  /\ mirror = [p \in Tabs |-> shared]
  /\ sent = [p \in Tabs |-> Nothing]
  /\ writing = [p \in Tabs |-> Nothing]
  /\ news = [p \in Tabs |-> <<>>]
  /\ edits = 0
  /\ offTrack = {}

-----------------------------------------------------------------------------
(* The page *)

\* The settings whose announcement is still to come and was overtaken by a later write.
Overtaken ==
  {name \in SettingNames :
     \E q \in Tabs : /\ writing[q] # Nothing /\ writing[q].name = name
                    /\ writing[q].value # shared[name]}

\* handle_ws subscribes to the channel before it reads the state for Init.
Open(p) ==
  /\ p \notin online /\ writing[p] = Nothing
  /\ online' = online \cup {p}
  /\ mirror' = [mirror EXCEPT ![p] = shared]
  /\ news' = [news EXCEPT ![p] = <<>>]
  /\ offTrack' = {t \in offTrack : t[1] # p} \cup {<<p, name>> : name \in Overtaken}
  /\ UNCHANGED <<shared, sent, writing, edits>>

\* A command that runs has no await between its write and its announcement, and
\* ends although its session is aborted.
Leave(p) ==
  /\ p \in online
  /\ online' = online \ {p}
  /\ sent' = [sent EXCEPT ![p] = Nothing]
  /\ news' = [news EXCEPT ![p] = <<>>]
  /\ UNCHANGED <<shared, mirror, writing, edits, offTrack>>

Send(p, change) ==
  /\ edits < MaxEdits /\ edits' = edits + 1
  /\ IF p \in online
     THEN sent' = [sent EXCEPT ![p] = change]
     ELSE UNCHANGED sent   \* there is no sender, and the message is dropped

\* The page shows the size that was typed before the server has seen it.
EditSize(p, size) ==
  /\ sent[p] = Nothing
  /\ size # mirror[p].size
  /\ mirror' = [mirror EXCEPT ![p].size = size]
  /\ Send(p, Change("size", size))
  /\ UNCHANGED <<shared, online, writing, news, offTrack>>

ClickAutoGain(p) ==
  /\ sent[p] = Nothing
  /\ Send(p, Change("gain", ~mirror[p].gain))
  /\ UNCHANGED <<shared, online, mirror, writing, news, offTrack>>

-----------------------------------------------------------------------------
(* The session *)

RateLimited(p) ==
  /\ sent[p] # Nothing
  /\ sent' = [sent EXCEPT ![p] = Nothing]
  /\ offTrack' = offTrack \cup {<<p, sent[p].name>>}
  /\ UNCHANGED <<shared, online, mirror, writing, news, edits>>

Clamped(change) ==
  IF change.name = "size"
  THEN [change EXCEPT !.value = IF @ < MinSize THEN MinSize ELSE IF @ > MaxSize THEN MaxSize ELSE @]
  ELSE change

Overlapped(p, name) == \E q \in Tabs \ {p} : writing[q] # Nothing /\ writing[q].name = name

\* Faulty: the size is not clamped.
WriteUnclamped(p) ==
  /\ sent[p] # Nothing /\ writing[p] = Nothing
  /\ LET change == sent[p] IN
       /\ shared' = [shared EXCEPT ![change.name] = change.value]
       /\ writing' = [writing EXCEPT ![p] = change]
       /\ offTrack' = IF Overlapped(p, change.name) THEN offTrack \cup (Tabs \X {change.name})
                                                   ELSE offTrack \ (Tabs \X {change.name})
  /\ sent' = [sent EXCEPT ![p] = Nothing]
  /\ UNCHANGED <<online, mirror, news, edits>>

\* Faulty: the size is announced as it was asked for.
WriteAndKeepAsked(p) ==
  /\ sent[p] # Nothing /\ writing[p] = Nothing
  /\ LET change == Clamped(sent[p]) IN
       /\ shared' = [shared EXCEPT ![change.name] = change.value]
       /\ writing' = [writing EXCEPT ![p] = sent[p]]
       /\ offTrack' = IF Overlapped(p, change.name) THEN offTrack \cup (Tabs \X {change.name})
                                                   ELSE offTrack \ (Tabs \X {change.name})
  /\ sent' = [sent EXCEPT ![p] = Nothing]
  /\ UNCHANGED <<online, mirror, news, edits>>

Write(p) ==
  /\ sent[p] # Nothing /\ writing[p] = Nothing
  /\ LET change == Clamped(sent[p]) IN
       /\ shared' = [shared EXCEPT ![change.name] = change.value]
       /\ writing' = [writing EXCEPT ![p] = change]
       /\ offTrack' = IF Overlapped(p, change.name) THEN offTrack \cup (Tabs \X {change.name})
                                                   ELSE offTrack \ (Tabs \X {change.name})
  /\ sent' = [sent EXCEPT ![p] = Nothing]
  /\ UNCHANGED <<online, mirror, news, edits>>

\* A receiver that is full loses its oldest message.
Announce(p) ==
  /\ writing[p] # Nothing
  /\ LET full == {q \in online : Len(news[q]) = Capacity} IN
       /\ news' = [q \in Tabs |->
            IF q \notin online THEN news[q]
            ELSE Append(IF q \in full THEN Tail(news[q]) ELSE news[q], writing[p])]
       /\ offTrack' = offTrack \cup {<<q, Head(news[q]).name>> : q \in full}
  /\ writing' = [writing EXCEPT ![p] = Nothing]
  /\ UNCHANGED <<shared, online, mirror, sent, edits>>

\* BufferSizeChanged and AutoGainChanged
Hear(p) ==
  /\ news[p] # <<>>
  /\ mirror' = [mirror EXCEPT ![p][Head(news[p]).name] = Head(news[p]).value]
  /\ news' = [news EXCEPT ![p] = Tail(@)]
  /\ UNCHANGED <<shared, online, sent, writing, edits, offTrack>>

SettingsNext ==
  \E p \in Tabs :
    \/ Open(p) \/ Leave(p)
    \/ \E size \in Typed : EditSize(p, size)
    \/ ClickAutoGain(p)
    \/ RateLimited(p) \/ Write(p) \/ Announce(p) \/ Hear(p)

SettingsSpec == SettingsInit /\ [][SettingsNext]_settingsVars

-----------------------------------------------------------------------------
(* Properties *)

SettingsTypeOK ==
  /\ shared \in Values /\ shared.size \in MinSize .. MaxSize
  /\ online \subseteq Tabs
  /\ mirror \in [Tabs -> Values]
  /\ sent \in [Tabs -> Changes \cup {Nothing}]
  /\ writing \in [Tabs -> Changes \cup {Nothing}]
  /\ news \in [Tabs -> Seq(Changes)]
  /\ offTrack \subseteq Tabs \X SettingNames

AtRest == \A p \in Tabs : sent[p] = Nothing /\ writing[p] = Nothing /\ news[p] = <<>>

\* Once every message has arrived, a page that is online shows the settings the server
\* uses, whoever changed them and whatever was typed, clamped or reconnected meanwhile.
\* A copy may stay wrong only if a message about it was lost (a command over the
\* rate, an announcement to a session that lagged) or two sessions changed
\* the setting between each other's write and announcement.
MirrorsAgree ==
  AtRest => \A p \in online, name \in SettingNames :
              <<p, name>> \notin offTrack => mirror[p][name] = shared[name]
=============================================================================
