---------------------------- MODULE FrontEndBox ----------------------------
(***************************************************************************)
(* The settings of one front-end box and the server's client for it        *)
(* (crates/server/src/hardware.rs): set_sensitivity, clear_calibration and *)
(* ensure_device_name, each of which first probes which protocol the box   *)
(* speaks.  Sessions, auto gain and the reset call it at the same time.    *)
(*                                                                         *)
(* Any request may fail: it may be lost, refused, or carried out while     *)
(* its answer is lost; it is not carried out after its caller gave up.     *)
(***************************************************************************)
EXTENDS Naturals

CONSTANTS
  Callers,    \* the tasks that call
  TopFB,      \* the levels of the integrator are FB0 .. FB{TopFB}
  Idle,       \* no call
  NoClaim,
  AnyInput    \* nothing is claimed of io.input

Levels == 0 .. TopFB
Settings == [input : {"EXT", "CAL"}, level : Levels, named : BOOLEAN]

\* `step` is the request that is made next, `got` what the box answered to a read.
Steps == {"probe", "input", "integrator", "read", "write", "blob"}
Calls == [op : {"set", "clear", "name"}, level : Levels, step : Steps, got : Settings]

ASSUME BoxAssumption == TopFB \in Nat /\ Idle \notin Calls

VARIABLES
  speaks,    \* external: the firmware of the box, "http" or "legacy"
  box,       \* external: its settings
  wire,      \* external: legacy blobs on their way
  call,      \* the call each caller is in
  alone,     \* history: the calls that no other call or blob ran beside
  claim      \* history: what the last call promised, if it was told Ok, ran alone and
             \* spoke the protocol of the box

boxVars == <<speaks, box, wire, call, alone, claim>>

Calling(c) == call[c] # Idle
Default == [input |-> "EXT", level |-> 0, named |-> FALSE]

BoxInit ==
  /\ speaks \in {"http", "legacy"}
  /\ box = Default
  /\ wire = {}
  /\ call = [c \in Callers |-> Idle]
  /\ alone = {}
  /\ claim = NoClaim

-----------------------------------------------------------------------------
(* The three calls *)

Starts(c, op, level) ==
  /\ ~Calling(c)
  /\ call' = [call EXCEPT ![c] =
               [op |-> op, level |-> level, step |-> "probe", got |-> Default]]
  /\ alone' = IF wire = {} /\ \A d \in Callers : ~Calling(d) THEN {c} ELSE {}
  /\ UNCHANGED <<speaks, box, wire>>

SetSensitivity(c, level)   == Starts(c, "set", level)   /\ claim' = NoClaim
ClearCalibration(c, level) == Starts(c, "clear", level) /\ claim' = NoClaim
EnsureDeviceName(c)        == Starts(c, "name", 0)      /\ UNCHANGED claim

At(c, step) == Calling(c) /\ call[c].step = step
GoesTo(c, step) == call' = [call EXCEPT ![c].step = step]

\* The answer, and what it promises.
Ends(c) == call' = [call EXCEPT ![c] = Idle] /\ alone' = alone \ {c}
Fails(c) == Ends(c) /\ UNCHANGED claim
EndsOk(c) ==
  /\ Ends(c)
  /\ claim' = IF c \in alone /\ call[c].op # "name" /\ ~(speaks = "http" /\ call[c].step = "blob")
              THEN [level |-> call[c].level,
                    input |-> IF call[c].op = "clear" THEN "EXT" ELSE AnyInput]
              ELSE claim

\* detect_api: a box that speaks HTTP may miss the 500 ms, or not be there at all.
DetectApi(c) ==
  /\ At(c, "probe")
  /\ \/ /\ speaks = "http"
        /\ GoesTo(c, CASE call[c].op = "set" -> "integrator"
                       [] call[c].op = "clear" -> "input"
                       [] call[c].op = "name" -> "read")
        /\ UNCHANGED <<alone, claim>>
     \/ /\ call[c].op # "name"
        /\ GoesTo(c, "blob")
        /\ UNCHANGED <<alone, claim>>
     \/ /\ call[c].op = "name"
        /\ EndsOk(c)   \* legacy: nothing to do
  /\ UNCHANGED <<speaks, box, wire>>

-----------------------------------------------------------------------------
(* HTTP *)

Written(c) ==
  CASE call[c].step = "input" -> [box EXCEPT !.input = "EXT"]
    [] call[c].step = "integrator" -> [box EXCEPT !.level = call[c].level]
    [] call[c].step = "write" -> [call[c].got EXCEPT !.named = TRUE]

\* Faulty: the status of the answer is not looked at.
PostIgnoresStatus(c) ==
  /\ \E step \in {"input", "integrator", "write"} : At(c, step)
  /\ \/ /\ box' = Written(c) \/ UNCHANGED box
        /\ \/ call[c].step = "input" /\ GoesTo(c, "integrator") /\ UNCHANGED <<alone, claim>>
           \/ call[c].step # "input" /\ EndsOk(c)
     \/ /\ box' = Written(c) \/ UNCHANGED box
        /\ Fails(c)
  /\ UNCHANGED <<speaks, wire>>

\* post_field, and the POST of ensure_device_name_at
Post(c) ==
  /\ \E step \in {"input", "integrator", "write"} : At(c, step)
  /\ \/ /\ box' = Written(c)
        /\ \/ call[c].step = "input" /\ GoesTo(c, "integrator") /\ UNCHANGED <<alone, claim>>
           \/ call[c].step # "input" /\ EndsOk(c)
     \/ /\ box' = Written(c) \/ UNCHANGED box
        /\ Fails(c)
  /\ UNCHANGED <<speaks, wire>>

\* The GET of ensure_device_name_at: a name already set is left alone.
ReadSettings(c) ==
  /\ At(c, "read")
  /\ \/ /\ ~box.named
        /\ call' = [call EXCEPT ![c].step = "write", ![c].got = box]
        /\ UNCHANGED <<alone, claim>>
     \/ box.named /\ EndsOk(c)
     \/ Fails(c)
  /\ UNCHANGED <<speaks, box, wire>>

-----------------------------------------------------------------------------
(* Legacy TCP: one line with all the settings, and no answer to it *)

SendSettings(c) ==
  /\ At(c, "blob")
  /\ \/ wire' = wire \cup {call[c].level} /\ EndsOk(c)
     \/ UNCHANGED wire /\ Fails(c)
  /\ UNCHANGED <<speaks, box>>

\* A box that speaks HTTP refuses the line.
BlobArrives ==
  /\ \E level \in wire :
       /\ wire' = wire \ {level}
       /\ box' = IF speaks = "legacy" THEN [Default EXCEPT !.level = level] ELSE box
  /\ UNCHANGED <<speaks, call, alone, claim>>

BlobIsLost ==
  /\ \E level \in wire : wire' = wire \ {level}
  /\ claim' = IF speaks = "legacy" THEN NoClaim ELSE claim
  /\ UNCHANGED <<speaks, box, call, alone>>

\* Somebody calibrates the box with another program.
Calibrate ==
  /\ box.input = "EXT"
  /\ box' = [box EXCEPT !.input = "CAL"]
  /\ claim' = IF claim = NoClaim THEN claim ELSE [claim EXCEPT !.input = AnyInput]
  /\ alone' = {}
  /\ UNCHANGED <<speaks, wire, call>>

BoxNext ==
  \/ \E c \in Callers :
       \/ \E level \in Levels : SetSensitivity(c, level) \/ ClearCalibration(c, level)
       \/ EnsureDeviceName(c)
       \/ DetectApi(c) \/ Post(c) \/ ReadSettings(c) \/ SendSettings(c)
  \/ BlobArrives \/ BlobIsLost \/ Calibrate

BoxSpec == BoxInit /\ [][BoxNext]_boxVars

-----------------------------------------------------------------------------
(* Properties *)

BoxTypeOK ==
  /\ speaks \in {"http", "legacy"}
  /\ box \in Settings
  /\ wire \subseteq Levels
  /\ call \in [Callers -> Calls \cup {Idle}]
  /\ alone \subseteq Callers
  /\ claim \in [level : Levels, input : {"EXT", AnyInput}] \cup {NoClaim}

\* What the server was told is done is done, and stays so through the naming of the box
\* until the next call that changes it: the level is the one asked for, and after
\* clear_calibration the input is EXT.  It takes that no call ran beside it
\* (ensure_device_name writes back all it has read), that the probe was right, and that
\* a legacy line arrived.
OkMeansApplied ==
  claim # NoClaim /\ wire = {} =>
    /\ box.level = claim.level
    /\ claim.input # AnyInput => box.input = claim.input
=============================================================================
