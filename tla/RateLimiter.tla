---------------------------- MODULE RateLimiter ----------------------------
(***************************************************************************)
(* The sliding window of one WebSocket session: the receive task of        *)
(* handle_ws (crates/server/src/ws.rs), which takes a text message only if *)
(* fewer than MAX_COMMANDS_PER_SEC were taken within the last second, and  *)
(* takes no other while it runs the command of one.                        *)
(*                                                                         *)
(* The messages taken are numbered; the deque command_times is the set of  *)
(* the numbers whose times it holds.                                       *)
(***************************************************************************)
EXTENDS Naturals, Sequences, FiniteSets

CONSTANTS
  MaxPerSecond,   \* MAX_COMMANDS_PER_SEC
  Second,         \* a second, in units of the clock
  MaxClock, MaxTaken   \* bounds

ASSUME RateAssumption ==
  /\ MaxPerSecond \in Nat \ {0} /\ Second \in Nat \ {0}
  /\ MaxClock \in Nat /\ MaxTaken \in Nat

VARIABLES
  clock,         \* Instant::now()
  taken,         \* history: when each message of this connection was taken
  commandTimes,  \* command_times
  executing      \* handle_command runs

rateVars == <<clock, taken, commandTimes, executing>>

RateInit ==
  /\ clock = 0
  /\ taken = <<>> /\ commandTimes = {}
  /\ executing = FALSE

ClockTicks ==
  /\ clock < MaxClock
  /\ clock' = clock + 1
  /\ UNCHANGED <<taken, commandTimes, executing>>

\* `retain`: what is left of the window.
Retained == {i \in commandTimes : clock - taken[i] < Second}

Drop ==
  /\ ~executing
  /\ Cardinality(Retained) >= MaxPerSecond
  /\ commandTimes' = Retained
  /\ UNCHANGED <<clock, taken, executing>>

\* Faulty: one message too many is taken.
TakeOneMore(valid) ==
  /\ ~executing
  /\ Cardinality(Retained) <= MaxPerSecond
  /\ Len(taken) < MaxTaken
  /\ taken' = Append(taken, clock)
  /\ commandTimes' = Retained \cup {Len(taken) + 1}
  /\ executing' = valid
  /\ UNCHANGED clock

\* A message that does not parse counts as well, and runs no command.
Take(valid) ==
  /\ ~executing
  /\ Cardinality(Retained) < MaxPerSecond
  /\ Len(taken) < MaxTaken
  /\ taken' = Append(taken, clock)
  /\ commandTimes' = Retained \cup {Len(taken) + 1}
  /\ executing' = valid
  /\ UNCHANGED clock

CommandEnds ==
  /\ executing
  /\ executing' = FALSE
  /\ UNCHANGED <<clock, taken, commandTimes>>

\* A connection that is new has a window that is new.
NewConnection ==
  /\ taken # <<>>
  /\ taken' = <<>> /\ commandTimes' = {}
  /\ executing' = FALSE
  /\ UNCHANGED clock

RateNext ==
  \/ ClockTicks \/ Drop \/ CommandEnds \/ NewConnection
  \/ \E valid \in BOOLEAN : Take(valid)

RateSpec == RateInit /\ [][RateNext]_rateVars

-----------------------------------------------------------------------------
RateTypeOK ==
  /\ clock \in Nat
  /\ taken \in Seq(Nat)
  /\ commandTimes \subseteq DOMAIN taken
  /\ executing \in BOOLEAN

\* "Rate limit: max 10 commands per second": of MAX_COMMANDS_PER_SEC + 1 messages taken
\* one after the other on a connection, the first and the last lie a second apart,
\* wherever that second begins, although the window forgets what it dropped and was
\* trimmed at other times.
NeverOverTheRate ==
  \A i \in DOMAIN taken :
    i + MaxPerSecond \in DOMAIN taken => taken[i + MaxPerSecond] - taken[i] >= Second
=============================================================================
