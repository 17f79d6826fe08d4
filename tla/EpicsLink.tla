----------------------------- MODULE EpicsLink -----------------------------
(***************************************************************************)
(* The charge readings on their way into the server, and what the server   *)
(* thinks of their source: persistent_monitor and run_monitor              *)
(* (crates/server/src/epics.rs), the task that drains the update queue and *)
(* the watchdog (crates/server/src/main.rs), and the E dot of a browser,   *)
(* which build_init_message (crates/server/src/ws.rs) fills in.            *)
(*                                                                         *)
(* Time is counted in ticks, and only the age of a reading is kept: an age *)
(* of Stale + 1 stands for every age the watchdog calls stale.  The value  *)
(* of a reading is left out.                                               *)
(***************************************************************************)
EXTENDS Naturals, Sequences

CONSTANTS
  Channels,           \* the devices with a charge PV, one monitor each
  Pages,              \* browsers
  Stale,              \* WATCHDOG_STALE_SECS, in ticks
  InitialRetryDelay, MaxRetryDelay,
  NoPage,             \* a browser that is closed
  MaxUpdates          \* bound on the update queue, which has none

ASSUME LinkAssumption ==
  /\ Stale \in Nat
  /\ InitialRetryDelay \in Nat \ {0}
  /\ MaxRetryDelay \in Nat \ {0}
  /\ MaxUpdates \in Nat

VARIABLES
  ioc,          \* external: the PV is served and posts updates
  deaf,         \* external: the circuit of this subscription is dead, and nothing says so
  monitor,      \* where persistent_monitor is
  retryDelay,   \* its retry_delay
  sleep,        \* what is left of its sleep
  updates,      \* the queue between the monitors and the drain
  connected, lastData,   \* DeviceState.connected and the age of last_data_time
  eDots         \* what a browser shows as its E dots

plant    == <<ioc, deaf>>
task     == <<monitor, retryDelay, sleep>>
device   == <<connected, lastData>>
linkVars == <<plant, task, updates, device, eDots>>

Never == Stale + 2       \* last_data_time is 0
Ages == 0 .. Never
Older(age) == IF age > Stale THEN age ELSE age + 1

LinkInit ==
  /\ ioc = [c \in Channels |-> FALSE]
  /\ deaf = [c \in Channels |-> FALSE]
  /\ monitor = [c \in Channels |-> "connecting"]
  /\ retryDelay = [c \in Channels |-> InitialRetryDelay]
  /\ sleep = [c \in Channels |-> 0]
  /\ updates = <<>>
  /\ connected = [c \in Channels |-> FALSE]
  /\ lastData = [c \in Channels |-> Never]
  /\ eDots = [p \in Pages |-> NoPage]

-----------------------------------------------------------------------------
(* The PV: while it is gone its circuit may die without an error, and then   *)
(* it stays dead when the PV is back.                                        *)

IocStops(c) ==
  /\ ioc[c]
  /\ ioc' = [ioc EXCEPT ![c] = FALSE]
  /\ \E dies \in BOOLEAN : deaf' = [deaf EXCEPT ![c] = dies]
  /\ UNCHANGED <<task, updates, device, eDots>>

IocStarts(c) ==
  /\ ~ioc[c]
  /\ ioc' = [ioc EXCEPT ![c] = TRUE]
  /\ UNCHANGED <<deaf, task, updates, device, eDots>>

-----------------------------------------------------------------------------
(* persistent_monitor *)

Goes(c, from, to) == monitor[c] = from /\ monitor' = [monitor EXCEPT ![c] = to]

Subscribe(c) ==
  /\ Goes(c, "connecting", "monitoring")
  /\ ioc[c]
  /\ deaf' = [deaf EXCEPT ![c] = FALSE]
  /\ UNCHANGED <<ioc, retryDelay, sleep, updates, device, eDots>>

SubscribeFails(c) ==
  /\ Goes(c, "connecting", "ended")
  /\ ~ioc[c]
  /\ UNCHANGED <<plant, retryDelay, sleep, updates, device, eDots>>

\* Faulty: the reading carries the time the IOC took it at.
DeliverWithItsOwnTime(c) ==
  /\ monitor[c] = "monitoring" /\ ioc[c] /\ ~deaf[c]
  /\ Len(updates) < MaxUpdates
  /\ \E age \in 0 .. Stale : updates' = Append(updates, [channel |-> c, age |-> age])
  /\ UNCHANGED <<plant, task, device, eDots>>

Deliver(c) ==
  /\ monitor[c] = "monitoring" /\ ioc[c] /\ ~deaf[c]
  /\ Len(updates) < MaxUpdates
  /\ updates' = Append(updates, [channel |-> c, age |-> 0])
  /\ UNCHANGED <<plant, task, device, eDots>>

\* recv returns an error, if the client library ever learns that the circuit is dead.
MonitorFails(c) ==
  /\ Goes(c, "monitoring", "ended")
  /\ ~ioc[c] \/ deaf[c]
  /\ UNCHANGED <<plant, retryDelay, sleep, updates, device, eDots>>

\* Faulty: a monitor that ended is not started again.
GiveUp(c) ==
  /\ Goes(c, "ended", "ended")
  /\ connected' = [connected EXCEPT ![c] = FALSE]
  /\ UNCHANGED <<plant, retryDelay, sleep, updates, lastData, eDots>>

MarkDisconnected(c) ==
  /\ Goes(c, "ended", "waiting")
  /\ connected' = [connected EXCEPT ![c] = FALSE]
  /\ sleep' = [sleep EXCEPT ![c] = retryDelay[c]]
  /\ UNCHANGED <<plant, retryDelay, updates, lastData, eDots>>

\* The delay is never reset: once doubled to its maximum it stays there.
Retry(c) ==
  /\ Goes(c, "waiting", "connecting")
  /\ sleep[c] = 0
  /\ retryDelay' = [retryDelay EXCEPT ![c] = IF 2 * @ < MaxRetryDelay THEN 2 * @ ELSE MaxRetryDelay]
  /\ UNCHANGED <<plant, sleep, updates, device, eDots>>

-----------------------------------------------------------------------------
(* main: the drain, the watchdog and the clock *)

\* Faulty: last_data_time is not written.
DrainWithoutTime ==
  /\ updates # <<>>
  /\ connected' = [connected EXCEPT ![Head(updates).channel] = TRUE]
  /\ updates' = Tail(updates)
  /\ UNCHANGED <<plant, task, lastData, eDots>>

Drain ==
  /\ updates # <<>>
  /\ connected' = [connected EXCEPT ![Head(updates).channel] = TRUE]
  /\ lastData' = [lastData EXCEPT ![Head(updates).channel] = Head(updates).age]
  /\ updates' = Tail(updates)
  /\ UNCHANGED <<plant, task, eDots>>

Watchdog ==
  /\ connected' = [c \in Channels |->
       connected[c] /\ ~(lastData[c] # Never /\ lastData[c] > Stale)]
  /\ UNCHANGED <<plant, task, updates, lastData, eDots>>

LinkTick ==
  /\ updates' = [i \in DOMAIN updates |-> [updates[i] EXCEPT !.age = Older(@)]]
  /\ lastData' = [c \in Channels |-> Older(lastData[c])]
  /\ sleep' = [c \in Channels |-> IF sleep[c] > 0 THEN sleep[c] - 1 ELSE 0]
  /\ UNCHANGED <<plant, monitor, retryDelay, connected, eDots>>

-----------------------------------------------------------------------------
(* A browser learns the state of the links from Init, and from nothing else. *)

LoadPage(p) ==
  /\ eDots[p] = NoPage
  /\ eDots' = [eDots EXCEPT ![p] = connected]
  /\ UNCHANGED <<plant, task, updates, device>>

ClosePage(p) ==
  /\ eDots[p] # NoPage
  /\ eDots' = [eDots EXCEPT ![p] = NoPage]
  /\ UNCHANGED <<plant, task, updates, device>>

-----------------------------------------------------------------------------
Connection(c) == Subscribe(c) \/ SubscribeFails(c) \/ MarkDisconnected(c) \/ Retry(c)

LinkNext ==
  \/ \E c \in Channels :
       \/ IocStops(c) \/ IocStarts(c)
       \/ Connection(c) \/ Deliver(c) \/ MonitorFails(c)
  \/ Drain \/ Watchdog \/ LinkTick
  \/ \E p \in Pages : LoadPage(p) \/ ClosePage(p)

LinkSpec == LinkInit /\ [][LinkNext]_linkVars

\* Time passes, the spawned tasks run, and a PV that is there posts.  Nothing
\* makes a dead circuit report an error.
FairLinkSpec ==
  /\ LinkSpec
  /\ WF_linkVars(LinkTick) /\ WF_linkVars(Drain) /\ WF_linkVars(Watchdog)
  /\ \A c \in Channels : WF_linkVars(Connection(c)) /\ WF_linkVars(Deliver(c))

-----------------------------------------------------------------------------
(* Properties *)

LinkTypeOK ==
  /\ ioc \in [Channels -> BOOLEAN]
  /\ deaf \in [Channels -> BOOLEAN]
  /\ monitor \in [Channels -> {"connecting", "monitoring", "ended", "waiting"}]
  /\ retryDelay \in [Channels -> Nat \ {0}]
  /\ sleep \in [Channels -> Nat]
  /\ updates \in Seq([channel : Channels, age : Ages])
  /\ connected \in [Channels -> BOOLEAN]
  /\ lastData \in [Channels -> Ages]
  /\ eDots \in [Pages -> [Channels -> BOOLEAN] \cup {NoPage}]

\* The rolling buffer, and with it the time axis of every chart, takes readings
\* in the order of their times, however often the monitor was restarted while
\* older readings waited in the queue.
ReadingsInOrder ==
  /\ \A i \in DOMAIN updates : updates[i].age <= lastData[updates[i].channel]
  /\ \A i, j \in DOMAIN updates : i < j => updates[j].age <= updates[i].age

Delivers(c) == ioc[c] /\ ~(deaf[c] /\ monitor[c] = "monitoring")

\* A link that delivers no more ends up disconnected, although a reading left in
\* the queue sets the flag again after the monitor cleared it, and although a
\* monitor may never learn that its circuit is dead.
DeadLinkIsNoticed ==
  \A c \in Channels : <>[]~Delivers(c) => <>[]~connected[c]

\* A PV that is back for good is read again, unless its circuit died without an
\* error: only then does no one subscribe anew.
LinkComesBack ==
  \A c \in Channels : <>[]Delivers(c) => []<>connected[c]

\* The Operator's Guide on the E dot of a page that stays open: "No data for over
\* 60 s" makes it red.  The page hears of it only when it is loaded.
DotsAreLive ==
  \A p \in Pages, c \in Channels :
    <>[](eDots[p] # NoPage /\ ~connected[c]) => <>[](eDots[p] # NoPage /\ ~eDots[p][c])
=============================================================================
