------------------------------ MODULE PageLink ------------------------------
(***************************************************************************)
(* The connection of a browser: WsClient (crates/frontend/src/             *)
(* ws_client.rs), polled once per frame.  The socket is the browser's: it  *)
(* is returned at once, while it is still connecting, and reports what     *)
(* becomes of it by an event.  Text messages are left out.                 *)
(***************************************************************************)
EXTENDS Naturals, Sequences

CONSTANTS
  InitialReconnectDelay, MaxReconnectDelay,   \* in polls
  MaxRefusals   \* bound on connects that fail at once

ASSUME PageLinkAssumption ==
  /\ InitialReconnectDelay \in Nat \ {0} /\ MaxReconnectDelay \in Nat \ {0}
  /\ MaxRefusals \in Nat

VARIABLES
  serverUp,   \* external
  socket,     \* external: "connecting", "open", "mute" (dead, and nobody knows), "closed";
              \* "none" when sender and receiver are None
  events,     \* external: what the receiver holds
  linked,     \* `connected`
  reconnectCooldown, reconnectDelay,
  refusals    \* connects that returned an error

client   == <<linked, reconnectCooldown, reconnectDelay, refusals>>
pageVars == <<serverUp, socket, events, client>>

\* ChargeApp connects when it is created.
PageInit ==
  /\ serverUp = FALSE
  /\ socket = "connecting" /\ events = <<>>
  /\ linked = TRUE
  /\ reconnectCooldown = 0 /\ reconnectDelay = InitialReconnectDelay
  /\ refusals = 0

-----------------------------------------------------------------------------
(* The server and the browser's socket *)

ServerComesUp ==
  /\ ~serverUp /\ serverUp' = TRUE
  /\ UNCHANGED <<socket, events, client>>

\* A server that dies closes its sockets, unless its machine or the network is
\* gone too.
ServerGoesDown ==
  /\ serverUp /\ serverUp' = FALSE
  /\ \/ socket = "open" /\ socket' = "closed" /\ events' = Append(events, "closed")
     \/ socket = "open" /\ socket' = "mute" /\ UNCHANGED events
     \/ socket # "open" /\ UNCHANGED <<socket, events>>
  /\ UNCHANGED <<client>>

SocketOpens ==
  /\ socket = "connecting" /\ serverUp
  /\ socket' = "open" /\ events' = Append(events, "opened")
  /\ UNCHANGED <<serverUp, client>>

\* Error and Closed are handled alike.
SocketFails ==
  /\ socket = "mute" \/ (socket = "connecting" /\ ~serverUp)
  /\ socket' = "closed" /\ events' = Append(events, "closed")
  /\ UNCHANGED <<serverUp, client>>

-----------------------------------------------------------------------------
(* WsClient *)

Received(event) == \E i \in DOMAIN events : events[i] = event

\* A connect that is under way counts as a connection: the back-off is for those
\* only that fail at once.
Connect(delay) ==
  \/ /\ socket' = "connecting" /\ linked' = TRUE
     /\ reconnectCooldown' = 0 /\ reconnectDelay' = delay
     /\ UNCHANGED refusals
  \/ /\ refusals < MaxRefusals /\ refusals' = refusals + 1
     /\ socket' = "none" /\ linked' = FALSE
     /\ reconnectCooldown' = delay
     /\ reconnectDelay' = IF 2 * delay < MaxReconnectDelay THEN 2 * delay ELSE MaxReconnectDelay

\* Faulty: a socket that closed is kept.
PollKeepsTheSocket ==
  /\ events' = <<>>
  /\ LET cooldown == IF Received("opened") THEN 0 ELSE reconnectCooldown
         delay == IF Received("opened") THEN InitialReconnectDelay ELSE reconnectDelay
     IN \/ /\ socket = "none" /\ cooldown = 0
           /\ Connect(delay)
        \/ /\ socket = "none" /\ cooldown > 0
           /\ reconnectCooldown' = cooldown - 1 /\ reconnectDelay' = delay
           /\ UNCHANGED <<socket, linked, refusals>>
        \/ /\ socket # "none"
           /\ linked' = ~Received("closed")
           /\ reconnectCooldown' = cooldown /\ reconnectDelay' = delay
           /\ UNCHANGED <<socket, refusals>>
  /\ UNCHANGED serverUp

\* poll drains the events, drops a socket that closed and connects again, in the
\* same call unless a cooldown runs.
Poll ==
  /\ events' = <<>>
  /\ LET gone == socket = "none" \/ Received("closed")
         cooldown == IF Received("opened") THEN 0 ELSE reconnectCooldown
         delay == IF Received("opened") THEN InitialReconnectDelay ELSE reconnectDelay
     IN \/ /\ gone /\ cooldown = 0
           /\ Connect(delay)
        \/ /\ gone /\ cooldown > 0
           /\ socket' = "none" /\ linked' = FALSE
           /\ reconnectCooldown' = cooldown - 1 /\ reconnectDelay' = delay
           /\ UNCHANGED refusals
        \/ /\ ~gone
           /\ linked' = (linked \/ Received("opened"))
           /\ reconnectCooldown' = cooldown /\ reconnectDelay' = delay
           /\ UNCHANGED <<socket, refusals>>
  /\ UNCHANGED serverUp

PageNext ==
  \/ ServerComesUp \/ ServerGoesDown
  \/ SocketOpens \/ SocketFails
  \/ Poll

PageSpec == PageInit /\ [][PageNext]_pageVars

\* The page is drawn, and polls, ten times a second; a connect ends one way or the
\* other.  Nothing finds out that a socket is mute.
ConnectEnds == socket = "connecting" /\ (SocketOpens \/ SocketFails)
FairPageSpec == PageSpec /\ WF_pageVars(Poll) /\ WF_pageVars(ConnectEnds)

-----------------------------------------------------------------------------
(* Properties *)

PageTypeOK ==
  /\ serverUp \in BOOLEAN /\ linked \in BOOLEAN
  /\ socket \in {"none", "connecting", "open", "mute", "closed"}
  /\ events \in Seq({"opened", "closed"})
  /\ reconnectCooldown \in Nat /\ reconnectDelay \in Nat \ {0}
  /\ refusals \in 0 .. MaxRefusals

\* A page whose server is back for good gets its connection back, whatever the order in
\* which sockets failed, closed and were refused before, unless its socket died without
\* an event.
PageReconnects ==
  <>[]serverUp => \/ <>[](socket = "open" /\ linked)
                  \/ <>[](socket = "mute")
=============================================================================
