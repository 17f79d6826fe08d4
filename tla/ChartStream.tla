---------------------------- MODULE ChartStream ----------------------------
(***************************************************************************)
(* How the charts of the browsers follow the server's buffer of samples:   *)
(* spawn_chart_broadcaster, broadcast_chart_reset and handle_ws            *)
(* (crates/server/src/ws.rs), the commands ClearBuffer and SetBufferSize   *)
(* (crates/server/src/commands.rs), and on the client PointBuffer          *)
(* (crates/shared/src/chart.rs) under process_messages                     *)
(* (crates/frontend/src/app.rs).                                           *)
(*                                                                         *)
(* One device is modelled: the charts of different devices share only the  *)
(* messages.  A sample is its rank among the samples ever pushed, so a     *)
(* run of samples in a message is an interval, and stands for its points.  *)
(* Statistics are those of an interval of samples and are named by it.     *)
(*                                                                         *)
(* The state lock is released before a message built under it is sent, and *)
(* the tasks run on several threads: reading and sending are two steps.    *)
(***************************************************************************)
EXTENDS Naturals, Sequences

CONSTANTS
  Clients,     \* browsers
  Residents,   \* those that stay connected; the others come and go
  Handlers,    \* sessions whose commands may be in progress at one time
  Sizes,       \* buffer sizes an operator may set
  ChanCap,     \* BROADCAST_CHANNEL_CAPACITY
  None,        \* a local that is out of scope
  MaxSamples, MaxCommands, MaxJoins, MaxAborts   \* bounds

ASSUME ResidentsAssumption == Residents \subseteq Clients
ASSUME SizesAssumption == Sizes \subseteq Nat \ {0} /\ Sizes # {}
ASSUME ChanCapAssumption == ChanCap \in Nat \ {0}
ASSUME BoundsAssumption == {MaxSamples, MaxCommands, MaxJoins, MaxAborts} \subseteq Nat

VARIABLES
  total,        \* RollingBuffer.total_pushed
  lo,           \* the buffer holds the samples lo+1 .. total
  size,         \* InnerState.buffer_size, the capacity of the buffer
  wiped,        \* history: the samples up to this one have been cleared
  prevCursor,   \* prev_cursors of the broadcaster
  tick,         \* where the broadcaster is in its tick
  haveReceivers, delta,   \* its locals
  at,           \* where the command of a handler is
  newSize, snapshot,      \* its locals
  link,         \* "off", "subscribed" (the handshake is under way) or "on"
  queue,        \* messages on their way to a client
  points, cursor, cap, stats,  \* the client's chart
  used          \* how much of each bound is used up, and (a history) whether
                \* commands overlapped and whether a client lost a message

buffer      == <<total, lo, size, wiped>>
broadcaster == <<prevCursor, tick, haveReceivers, delta>>
commands    == <<at, newSize, snapshot>>
channel     == <<link, queue>>
chart       == <<points, cursor, cap, stats>>
vars == <<buffer, broadcaster, commands, channel, chart, used>>

Larger(m, n) == IF m < n THEN n ELSE m

Ids(from, to) == [i \in 1 .. (to - from) |-> from + i]

\* The last n elements of s: what is left when the oldest are dropped.
Newest(s, n) == IF Len(s) <= n THEN s ELSE SubSeq(s, Len(s) - n + 1, Len(s))

\* The samples a message carries, the cursor after them, and what they are
\* counted in: the statistics of the buffer they were read from.
Message(type, from) == [type |-> type, from |-> from, cursor |-> total, stats |-> <<lo, total>>]
\* Faulty: the first sample since the last tick is left out.
ShortDelta == Message("ChartDelta", Larger(lo, prevCursor + 1))
ChartDelta == Message("ChartDelta", Larger(lo, prevCursor))
ChartData  == Message("ChartData", lo)

Init ==
  /\ total = 0 /\ lo = 0 /\ wiped = 0
  /\ size \in Sizes
  /\ prevCursor = 0 /\ tick = "idle" /\ haveReceivers = FALSE /\ delta = None
  /\ at = [h \in Handlers |-> "idle"]
  /\ newSize = [h \in Handlers |-> None]
  /\ snapshot = [h \in Handlers |-> None]
  /\ link = [c \in Clients |-> IF c \in Residents THEN "on" ELSE "off"]
  /\ queue = [c \in Clients |-> <<>>]
  /\ points = [c \in Clients |-> <<>>]
  /\ cursor = [c \in Clients |-> 0]
  /\ cap = [c \in Clients |-> size]
  /\ stats = [c \in Clients |-> <<lo, total>>]
  /\ used = [commands |-> 0, joins |-> 0, aborts |-> 0, overlaps |-> 0, lost |-> 0]

Use(what, max) == used[what] < max /\ used' = [used EXCEPT ![what] = @ + 1]

-----------------------------------------------------------------------------
(* The broadcast channel: a subscriber that falls ChanCap messages behind    *)
(* loses the oldest (RecvError::Lagged).                                     *)

Lags(c) == link[c] # "off" /\ Len(queue[c]) = ChanCap

Broadcast(m) ==
  /\ queue' = [c \in Clients |-> IF link[c] = "off" THEN queue[c]
                                 ELSE Newest(Append(queue[c], m), ChanCap)]
  /\ used' = [used EXCEPT !.lost = IF \E c \in Clients : Lags(c) THEN 1 ELSE @]

-----------------------------------------------------------------------------
(* RollingBuffer: push and set_capacity *)

Sample ==
  /\ total < MaxSamples
  /\ total' = total + 1
  /\ lo' = IF total - lo >= size THEN lo + 1 ELSE lo
  /\ UNCHANGED <<size, wiped, broadcaster, commands, channel, chart, used>>

\* Faulty: no test of the length.
SetCapacityBlindly(n) ==
  /\ size' = n
  /\ lo' = total - n
  /\ UNCHANGED <<total, wiped>>

SetCapacity(n) ==
  /\ size' = n
  /\ lo' = IF total - lo > n THEN total - n ELSE lo
  /\ UNCHANGED <<total, wiped>>

-----------------------------------------------------------------------------
(* spawn_chart_broadcaster *)

\* Faulty: a single client does not count.
TickForSeveral ==
  /\ tick = "idle"
  /\ tick' = "gather"
  /\ haveReceivers' = (\E c, e \in Clients : c # e /\ "off" \notin {link[c], link[e]})
  /\ UNCHANGED <<buffer, prevCursor, delta, commands, channel, chart, used>>

Tick ==
  /\ tick = "idle"
  /\ tick' = "gather"
  /\ haveReceivers' = (\E c \in Clients : link[c] # "off")
  /\ UNCHANGED <<buffer, prevCursor, delta, commands, channel, chart, used>>

\* The cursor advances whether or not anybody listens.
Gather ==
  /\ tick = "gather"
  /\ prevCursor' = total
  /\ IF haveReceivers /\ total # prevCursor
     THEN tick' = "send" /\ delta' = ChartDelta
     ELSE tick' = "idle" /\ UNCHANGED delta
  /\ UNCHANGED <<buffer, haveReceivers, commands, channel, chart, used>>

SendDelta ==
  /\ tick = "send"
  /\ tick' = "idle"
  /\ Broadcast(delta)
  /\ delta' = None
  /\ UNCHANGED <<buffer, prevCursor, haveReceivers, commands, link, chart>>

-----------------------------------------------------------------------------
(* handle_clear_buffer and handle_set_buffer_size *)

Goto(h, label) == at' = [at EXCEPT ![h] = label]

Start(h) ==
  /\ at[h] = "idle"
  /\ used.commands < MaxCommands
  /\ used' = [used EXCEPT !.commands = @ + 1,
                          !.overlaps = IF \E x \in Handlers : at[x] # "idle" THEN 1 ELSE @]

ClearBuffer(h) ==
  /\ Start(h)
  /\ lo' = total /\ wiped' = total
  /\ Goto(h, "read")
  /\ UNCHANGED <<total, size, broadcaster, newSize, snapshot, channel, chart>>

\* The buffer of another device is cleared: this one only takes part in the
\* snapshot that follows.
ClearAnother(h) ==
  /\ Start(h)
  /\ Goto(h, "read")
  /\ UNCHANGED <<buffer, broadcaster, newSize, snapshot, channel, chart>>

SetBufferSize(h, n) ==
  /\ Start(h)
  /\ SetCapacity(n)
  /\ newSize' = [newSize EXCEPT ![h] = n]
  /\ Goto(h, "resized")
  /\ UNCHANGED <<broadcaster, snapshot, channel, chart>>

TellSize(h) ==
  /\ at[h] = "resized"
  /\ Broadcast([type |-> "BufferSizeChanged", size |-> newSize[h]])
  /\ newSize' = [newSize EXCEPT ![h] = None]
  /\ Goto(h, "read")
  /\ UNCHANGED <<buffer, broadcaster, snapshot, link, chart>>

\* broadcast_chart_reset
ReadSnapshot(h) ==
  /\ at[h] = "read"
  /\ snapshot' = [snapshot EXCEPT ![h] = ChartData]
  /\ Goto(h, "send")
  /\ UNCHANGED <<buffer, broadcaster, newSize, channel, chart, used>>

SendSnapshot(h) ==
  /\ at[h] = "send"
  /\ Broadcast(snapshot[h])
  /\ snapshot' = [snapshot EXCEPT ![h] = None]
  /\ Goto(h, "idle")
  /\ UNCHANGED <<buffer, broadcaster, newSize, link, chart>>

\* The session of the command ends, and handle_ws aborts it where it awaits
\* the lock.
Abort(h) ==
  /\ at[h] = "read"
  /\ Use("aborts", MaxAborts)
  /\ Goto(h, "idle")
  /\ UNCHANGED <<buffer, broadcaster, newSize, snapshot, channel, chart>>

-----------------------------------------------------------------------------
(* handle_ws: a client comes and goes *)

Subscribe(c) ==
  /\ link[c] = "off"
  /\ Use("joins", MaxJoins)
  /\ link' = [link EXCEPT ![c] = "subscribed"]
  /\ UNCHANGED <<buffer, broadcaster, commands, queue, chart>>

\* PointBuffer::set_snapshot
SetSnapshot(c, m, n) ==
  /\ points' = [points EXCEPT ![c] = Newest(Ids(m.from, m.cursor), n)]
  /\ cursor' = [cursor EXCEPT ![c] = m.cursor]
  /\ stats' = [stats EXCEPT ![c] = m.stats]

\* Faulty: the client keeps the buffer size it had.
GreetWithoutSize(c) ==
  /\ link[c] = "subscribed"
  /\ link' = [link EXCEPT ![c] = "on"]
  /\ SetSnapshot(c, ChartData, cap[c])
  /\ UNCHANGED <<buffer, broadcaster, commands, queue, cap, used>>

\* Init and ChartData, read under one lock, reach the client ahead of its queue.
Greet(c) ==
  /\ link[c] = "subscribed"
  /\ link' = [link EXCEPT ![c] = "on"]
  /\ cap' = [cap EXCEPT ![c] = size]
  /\ SetSnapshot(c, ChartData, size)
  /\ UNCHANGED <<buffer, broadcaster, commands, queue, used>>

\* The browser keeps showing its chart until it is greeted again.
Leave(c) ==
  /\ link[c] # "off" /\ c \notin Residents
  /\ link' = [link EXCEPT ![c] = "off"]
  /\ queue' = [queue EXCEPT ![c] = <<>>]
  /\ UNCHANGED <<buffer, broadcaster, commands, chart, used>>

-----------------------------------------------------------------------------
(* process_messages *)

\* Faulty: an overlap is not skipped.
ApplyWholeDelta(c, m) ==
  IF m.cursor <= cursor[c] THEN UNCHANGED <<points, cursor, stats>>
  ELSE /\ points' = [points EXCEPT ![c] = Newest(@ \o Ids(m.from, m.cursor), Larger(Len(@), cap[c]))]
       /\ cursor' = [cursor EXCEPT ![c] = m.cursor]
       /\ stats' = [stats EXCEPT ![c] = m.stats]

\* Faulty: a delta that is already old is applied.
ApplyOldDelta(c, m) ==
  LET fresh == Ids(m.from, m.cursor) IN
  /\ points' = [points EXCEPT ![c] = Newest(@ \o fresh, Larger(Len(@), cap[c]))]
  /\ cursor' = [cursor EXCEPT ![c] = m.cursor]
  /\ stats' = [stats EXCEPT ![c] = m.stats]

\* PointBuffer::apply_delta and DeviceChart::apply_delta.  A full buffer drops
\* its oldest point for each one it takes.
ApplyDelta(c, m) ==
  IF m.cursor <= cursor[c] THEN UNCHANGED <<points, cursor, stats>>
  ELSE LET fresh == Ids(Larger(m.from, cursor[c]), m.cursor) IN
       /\ points' = [points EXCEPT ![c] = Newest(@ \o fresh, Larger(Len(@), cap[c]))]
       /\ cursor' = [cursor EXCEPT ![c] = m.cursor]
       /\ stats' = [stats EXCEPT ![c] = m.stats]

ChangeSize(c, m) ==
  /\ cap' = [cap EXCEPT ![c] = m.size]
  /\ points' = [points EXCEPT ![c] = Newest(@, m.size)]

Process(c) ==
  /\ link[c] = "on" /\ queue[c] # <<>>
  /\ queue' = [queue EXCEPT ![c] = Tail(@)]
  /\ LET m == Head(queue[c]) IN
     \/ m.type = "ChartData" /\ SetSnapshot(c, m, cap[c]) /\ UNCHANGED cap
     \/ m.type = "ChartDelta" /\ ApplyDelta(c, m) /\ UNCHANGED cap
     \/ m.type = "BufferSizeChanged" /\ ChangeSize(c, m) /\ UNCHANGED <<cursor, stats>>
  /\ UNCHANGED <<buffer, broadcaster, commands, link, used>>

-----------------------------------------------------------------------------
Broadcaster == Tick \/ Gather \/ SendDelta
Command(h) == TellSize(h) \/ ReadSnapshot(h) \/ SendSnapshot(h)

Next ==
  \/ Sample \/ Broadcaster
  \/ \E h \in Handlers : \/ ClearBuffer(h) \/ ClearAnother(h) \/ Abort(h) \/ Command(h)
                         \/ \E n \in Sizes : SetBufferSize(h, n)
  \/ \E c \in Clients : Subscribe(c) \/ Greet(c) \/ Leave(c) \/ Process(c)

Spec == Init /\ [][Next]_vars

\* The broadcaster's interval keeps ticking, commands in these handlers only
\* wait for the lock, and a connected client keeps reading.
FairSpec ==
  /\ Spec
  /\ WF_vars(Broadcaster)
  /\ \A h \in Handlers : WF_vars(Command(h))
  /\ \A c \in Clients : WF_vars(Greet(c)) /\ WF_vars(Process(c))

-----------------------------------------------------------------------------
(* Properties *)

Spans == Nat \X Nat
Charts == [type : {"ChartDelta", "ChartData"}, from : Nat, cursor : Nat, stats : Spans]
Messages == Charts \cup [type : {"BufferSizeChanged"}, size : Sizes]

TypeOK ==
  /\ total \in Nat /\ lo \in Nat /\ size \in Sizes /\ wiped \in Nat
  /\ prevCursor \in Nat /\ haveReceivers \in BOOLEAN
  /\ tick \in {"idle", "gather", "send"} /\ delta \in Charts \cup {None}
  /\ at \in [Handlers -> {"idle", "resized", "read", "send"}]
  /\ newSize \in [Handlers -> Sizes \cup {None}]
  /\ snapshot \in [Handlers -> Charts \cup {None}]
  /\ link \in [Clients -> {"off", "subscribed", "on"}]
  /\ queue \in [Clients -> Seq(Messages)]
  /\ points \in [Clients -> Seq(Nat)]
  /\ cursor \in [Clients -> Nat]
  /\ cap \in [Clients -> Sizes]
  /\ stats \in [Clients -> Spans]
  /\ used \in [{"commands", "joins", "aborts", "overlaps", "lost"} -> Nat]

\* Whatever is lost, overtaken or cut short, a chart never draws a sample twice
\* or out of order, never draws one past its cursor, and keeps to its size.
ChartWellFormed ==
  \A c \in Clients :
    /\ \A i, j \in 1 .. Len(points[c]) : i < j => points[c][i] < points[c][j]
    /\ \A i \in 1 .. Len(points[c]) : points[c][i] <= cursor[c]
    /\ Len(points[c]) <= cap[c]

\* The broadcaster is up to date, no command is under way and c has taken all
\* that was sent.
Settled(c) ==
  /\ tick = "idle" /\ prevCursor = total
  /\ \A h \in Handlers : at[h] = "idle"
  /\ link[c] = "on" /\ queue[c] = <<>>

\* "kept in sync with the server via full snapshots and incremental appends":
\* a settled client draws the server's buffer and shows its statistics.
InSync ==
  \A c \in Clients : Settled(c) => points[c] = Ids(lo, total) /\ stats[c] = <<lo, total>>

\* What has not happened so far.
Without(things) == \A t \in things : used[t] = 0

\* It does as long as no buffer was reset, no message lost and no tick went by
\* without a client: one that joins at any moment misses no sample and repeats
\* none.
InSyncWithoutResets == Residents # {} /\ Without({"commands", "lost"}) => InSync

\* A settled client draws no sample that was cleared, if commands came one at a
\* time to their end and it lost no message.
NothingResurrected ==
  Without({"overlaps", "aborts", "lost"}) =>
    \A c \in Clients : Settled(c) => \A i \in 1 .. Len(points[c]) : points[c][i] > wiped

\* A settled client has the server's buffer size, if commands came one at a time
\* and it lost no message.
SizeAgrees ==
  Without({"overlaps", "lost"}) => \A c \in Clients : Settled(c) => cap[c] = size

\* Every sample reaches a client that stays, resets or not (a reset that was
\* overtaken may take it away again).
EverySampleArrives ==
  \A c \in Residents, n \in 1 .. MaxSamples : <>(total >= n) => <>(cursor[c] >= n)
=============================================================================
