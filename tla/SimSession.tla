----------------------------- MODULE SimSession -----------------------------
(***************************************************************************)
(* The keyboard-driven simulation session of teleopit/sim/session.py with  *)
(* the VELOCITY stack attached: one process, one loop.  An iteration polls *)
(* the keyboard, handles its keys one by one in the mode the key before it *)
(* left, fetches the live input and takes one policy step.  A batch of     *)
(* keys that the KeyboardTee delivers twice, or that the twist provider's  *)
(* poll drains for the session, is one of the batches the session gets.    *)
(*                                                                         *)
(* Headings stand for root yaws: the heading of the robot, the one its     *)
(* standing reference holds, the one a pose-B ramp leads to.  WorldYaw is  *)
(* the identity yaw of the raw pose B.  A stretch of following (a MOCAP    *)
(* entry or a resume begins one) is a leg; every reference of the timeline *)
(* is known by the leg in which it was retargeted.                         *)
(***************************************************************************)
EXTENDS Estop, Sequences

CONSTANTS
  Turns,       \* bound: headings 0..Turns
  RampSteps,   \* transition_duration_s, in STANDING steps
  Warmup,      \* realtime_buffer_warmup_steps
  Legs,        \* bound on MOCAP entries and resumes
  BatchMax,    \* bound on the keys of one poll
  PicoMax      \* bound on control events waiting in the Pico provider

ASSUME SimAssumption ==
  /\ Turns \in Nat /\ RampSteps \in Nat \ {0} /\ Warmup \in Nat
  /\ Legs \in Nat /\ BatchMax \in Nat /\ PicoMax \in Nat

VARIABLES
  mode, paused,             \* simulation_mode, mocap_session.state
  estop,                    \* the shared EstopController
  heading,                  \* of the simulated robot
  standing,                 \* heading of loop._standing_qpos
  ramp, steps,              \* heading _velocity_interpolator leads to; _steps_in_mode while it is armed
  timeline, warm, leg,      \* legs of reference_timeline's frames; real_frame_count; the present leg
  pico,                     \* the provider's _pending_control_events
  todo,                     \* keys of this poll yet to handle
  played,                   \* what the policy step just taken commanded
  pc                        \* "poll", "keys", "fetch" or "ended"

session == <<mode, paused, estop, heading, standing, ramp, steps, timeline, warm, leg>>
vars == <<session, pico, todo, played, pc>>

Modes == {"standing", "mocap", "arms", "velocity"}
Following == {"mocap", "arms"}
Headings == 0..Turns
WorldYaw == 0
NoRamp == Turns + 1
Keys == {"y", "v", "x", "a", "b", "e", "q"}
Batches == UNION { [1..n -> Keys] : n \in 0..BatchMax }
Events == {"toggle_arms", "toggle_pause", "toggle_estop"}
NoStep == [mode |-> "none", heading |-> WorldYaw, legs |-> {}]
Plays(h, legs) == [mode |-> mode, heading |-> h, legs |-> legs]

Init ==
  /\ mode = "standing" /\ paused = FALSE /\ estop = Inactive
  /\ heading = WorldYaw /\ standing = heading /\ ramp = NoRamp /\ steps = 0
  /\ timeline = {} /\ warm = 0 /\ leg = 0
  /\ pico = <<>>
  /\ todo = <<>>
  /\ played = NoStep
  /\ pc = "poll"

-----------------------------------------------------------------------------
(* The transitions of the mode machine. *)

\* Mutant of ResetTracking: the warm-up starts again, on the old frames.
ResetTrackingKeepingFrames == warm' = 0 /\ timeline' = timeline

\* reset_runtime_tracking
ResetTracking == warm' = 0 /\ timeline' = {}

KeepTracking == UNCHANGED <<timeline, warm, leg>>

\* enter_mocap_mode: refused under the lock, and before the input has a frame.
EnterMocap ==
  /\ mode = "standing" /\ estop.state # "latched"
  /\ leg < Legs /\ leg' = leg + 1
  /\ mode' = "mocap" /\ paused' = FALSE
  /\ ResetTracking
  /\ UNCHANGED <<estop, heading, standing, ramp, steps>>

\* enter_velocity_mode: from STANDING only, refused under the lock.
EnterVelocity ==
  /\ mode = "standing" /\ estop.state # "latched"
  /\ mode' = "velocity" /\ steps' = 0
  /\ KeepTracking
  /\ UNCHANGED <<paused, estop, heading, standing, ramp>>

\* exit_velocity_to_standing, from a stop state e: the ramp leads to the heading
\* of the moment, the standing reference behind it is the raw pose B.
ExitVelocity(e) ==
  /\ mode' = "standing" /\ steps' = 0
  /\ ramp' = heading' /\ standing' = WorldYaw
  /\ estop' = OnStanding(e)
  /\ paused' = FALSE /\ ResetTracking /\ leg' = leg

\* Mutant of EnterStanding: a ramp left from a VELOCITY stint survives.
EnterStandingKeepingRamp ==
  /\ mode \in Following
  /\ mode' = "standing" /\ paused' = FALSE
  /\ ResetTracking /\ leg' = leg
  /\ standing' = heading /\ steps' = 0
  /\ UNCHANGED <<estop, heading, ramp>>

\* enter_standing_mode
EnterStanding ==
  /\ mode \in Following
  /\ mode' = "standing" /\ paused' = FALSE
  /\ ResetTracking /\ leg' = leg
  /\ standing' = heading /\ ramp' = NoRamp /\ steps' = 0
  /\ UNCHANGED <<estop, heading>>

\* toggle_arms_mode: refused while paused; the timeline goes on.
ToggleArms ==
  /\ mode \in Following /\ ~paused
  /\ IF mode = "mocap"
       THEN mode' = "arms" /\ standing' = heading
       ELSE mode' = "mocap" /\ UNCHANGED standing
  /\ KeepTracking
  /\ UNCHANGED <<paused, estop, heading, ramp, steps>>

\* toggle_realtime_mocap_pause
TogglePause ==
  /\ mode \in Following
  /\ paused' = ~paused /\ ResetTracking
  /\ IF paused THEN leg < Legs /\ leg' = leg + 1 ELSE leg' = leg
  /\ UNCHANGED <<mode, estop, heading, standing, ramp, steps>>

ToggleEstop ==
  /\ estop' = Toggled(estop, mode = "velocity")
  /\ KeepTracking
  /\ UNCHANGED <<mode, paused, heading, standing, ramp, steps>>

Refused == UNCHANGED session

-----------------------------------------------------------------------------
(* The keyboard. *)

\* KeyboardTee.poll by the session: what was typed since the last drain or,
\* within refresh_s of it, the batch of that drain, which the session may have
\* handled before.  Either can be any batch.
Poll ==
  /\ pc = "poll" /\ pc' = "keys"
  /\ todo' \in Batches
  /\ played' = NoStep
  /\ UNCHANGED <<session, pico>>

\* _handle_realtime_keyboard, one key of the batch.
Pressed(k) ==
  /\ pc = "keys" /\ todo # <<>> /\ Head(todo) = k
  /\ todo' = Tail(todo)
  /\ UNCHANGED <<pico, played>>

YPressed == Pressed("y") /\ pc' = pc /\ (EnterMocap \/ Refused)

VPressed == Pressed("v") /\ pc' = pc /\ (EnterVelocity \/ Refused)

XPressed ==
  /\ Pressed("x") /\ pc' = pc
  /\ \/ EnterStanding
     \/ mode = "velocity" /\ UNCHANGED heading /\ ExitVelocity(estop)
     \/ mode = "standing" /\ Refused

APressed ==
  /\ Pressed("a") /\ pc' = pc
  /\ TogglePause \/ (mode \notin Following /\ Refused)

BPressed ==
  /\ Pressed("b") /\ pc' = pc
  /\ ToggleArms \/ ((mode \notin Following \/ paused) /\ Refused)

EPressed ==
  /\ Pressed("e") /\ pc' = pc
  /\ IF mode \in Following THEN Refused ELSE ToggleEstop

QPressed == Pressed("q") /\ pc' = "ended" /\ Refused

Keyboard == YPressed \/ VPressed \/ XPressed \/ APressed \/ BPressed \/ EPressed \/ QPressed

\* A Pico button edge queues a control event in the provider.
PicoPress ==
  /\ pc = "poll" /\ Len(pico) < PicoMax
  /\ \E ev \in Events : pico' = Append(pico, ev)
  /\ UNCHANGED <<session, todo, played, pc>>

-----------------------------------------------------------------------------
(* The iteration behind the keys: one fetch and one step of the mode. *)

KeysHandled == pc = "keys" /\ todo = <<>>

\* StandingReferenceInterpolator.finished
Finished(n) == n >= RampSteps

\* STANDING: the provider's events are dropped; a ramp that has finished hands
\* its endpoint, never the raw pose B, to the standing reference.
StandingStep ==
  /\ KeysHandled /\ mode = "standing"
  /\ pico' = <<>>
  /\ played' = Plays(IF ramp # NoRamp THEN ramp ELSE standing, {})
  /\ IF ramp = NoRamp THEN UNCHANGED <<standing, ramp, steps>>
     ELSE IF Finished(steps) THEN standing' = ramp /\ ramp' = NoRamp /\ UNCHANGED steps
     ELSE steps' = steps + 1 /\ UNCHANGED <<standing, ramp>>
  /\ pc' = "poll"
  /\ KeepTracking
  /\ UNCHANGED <<mode, paused, estop, heading, todo>>

\* A new frame is retargeted and appended, and counts towards the warm-up.
\* Without one (or when the quiet fetch fails) nothing changes.
FetchFrame ==
  \/ timeline' = timeline \cup {leg} /\ warm' = (IF warm < Warmup THEN warm + 1 ELSE warm)
  \/ UNCHANGED <<timeline, warm>>

\* Mutant of Stepped: nobody asks for the exit request.
SteppedWithoutExit(e) ==
  /\ mode' = mode /\ estop' = e
  /\ UNCHANGED <<paused, standing, ramp, steps, leg>>
  /\ FetchFrame

\* After a VELOCITY step that left the stop in state e: a completed ramp takes
\* the X-exit path.
Stepped(e) ==
  IF e.exit
    THEN ExitVelocity(ExitConsumed(e))
    ELSE /\ mode' = mode /\ estop' = e
         /\ UNCHANGED <<paused, standing, ramp, steps, leg>>
         /\ FetchFrame

\* _fetch_realtime_input_quiet pops the control events of the provider with its packet,
\* and nobody looks at them; where it fails before, they stay, and there is no frame.
QuietFetch ==
  \/ pico' = <<>>
  \/ pico' = pico /\ timeline' \subseteq timeline /\ warm' <= warm

\* The quiet fetch, and _velocity_safety_and_step without a verdict.
VelocityStep ==
  /\ KeysHandled /\ mode = "velocity"
  /\ heading' \in Headings
  /\ \E e \in Aged(estop) : Stepped(Applied(e))
  /\ QuietFetch
  /\ played' = Plays(heading, {})
  /\ pc' = "poll"
  /\ UNCHANGED todo

\* check_safety: a tilt leaves for STANDING before the step, an overspeed ends
\* the session.
VelocityVerdict ==
  /\ KeysHandled /\ mode = "velocity"
  /\ \/ pc' = "ended" /\ Refused
     \/ pc' = "poll" /\ UNCHANGED heading /\ ExitVelocity(estop)
  /\ QuietFetch /\ played' = NoStep
  /\ UNCHANGED todo

\* _fetch_realtime_input: a packet, or an exception that ends the session.
Fetch ==
  /\ KeysHandled /\ mode \in Following
  /\ pc' \in {"fetch", "ended"}
  /\ UNCHANGED <<session, pico, todo, played>>

\* The control events that came with the packet, in order.
HandleEvent ==
  /\ pc = "fetch" /\ pico # <<>> /\ pico' = Tail(pico)
  /\ CASE Head(pico) = "toggle_arms"  -> ToggleArms \/ (paused /\ Refused)
       [] Head(pico) = "toggle_pause" -> TogglePause
       [] Head(pico) = "toggle_estop" -> ToggleEstop
  /\ UNCHANGED <<todo, played, pc>>

\* PAUSED: hold the pose; the packet's frame is not used.
HoldStep ==
  /\ pc = "fetch" /\ pico = <<>> /\ paused
  /\ played' = [NoStep EXCEPT !.mode = "paused"]
  /\ pc' = "poll"
  /\ UNCHANGED <<session, pico, todo>>

\* MOCAP and ARMS: the iteration ends early while the buffer warms up, else the
\* step follows the timeline; in ARMS the body keeps the standing reference.
FollowStep ==
  /\ pc = "fetch" /\ pico = <<>> /\ ~paused
  /\ FetchFrame /\ timeline' # {}
  /\ IF warm' = Warmup
       THEN /\ played' = Plays(IF mode = "arms" THEN standing ELSE heading, timeline')
            /\ heading' \in (IF mode = "arms" THEN {heading} ELSE Headings)
       ELSE played' = NoStep /\ UNCHANGED heading
  /\ pc' = "poll"
  /\ UNCHANGED <<mode, paused, estop, standing, ramp, steps, leg, pico, todo>>

Iteration ==
  \/ StandingStep \/ VelocityStep \/ VelocityVerdict
  \/ Fetch \/ HandleEvent \/ HoldStep \/ FollowStep

Next == Poll \/ Keyboard \/ PicoPress \/ Iteration

Spec == Init /\ [][Next]_vars

\* run() takes an iteration after the other for as long as the session lasts.
FairSpec == Spec /\ WF_vars(Poll \/ Keyboard \/ Iteration)

-----------------------------------------------------------------------------
(* Properties. *)

\* Type correctness: no ramp step is counted past the ramp's duration, no frame
\* past the warm-up, and a pause belongs to a session that follows.
SimTypeOK ==
  /\ mode \in Modes /\ paused \in BOOLEAN /\ (paused => mode \in Following)
  /\ estop \in Estops
  /\ {heading, standing} \subseteq Headings /\ ramp \in Headings \cup {NoRamp}
  /\ steps \in 0..RampSteps
  /\ timeline \subseteq 0..Legs /\ warm \in 0..Warmup /\ leg \in 0..Legs
  /\ Len(pico) <= PicoMax
  /\ Len(todo) <= BatchMax
  /\ pc \in {"poll", "keys", "fetch", "ended"}

\* The operator's lock cannot be escaped, and no stop outlives its session: a
\* latched stop is met in STANDING only and a ramping one in VELOCITY only,
\* whatever order of keys, redeliveries, verdicts and Pico buttons led there.
StopMatchesMode ==
  /\ estop.state = "latched" => mode = "standing"
  /\ estop.state = "ramping" => mode = "velocity"

\* A STANDING or ARMS step commands the heading the robot has: never the world
\* yaw of the raw pose B and never the end of a ramp from an earlier stint.
HoldsHeading == played.mode \in {"standing", "arms"} => played.heading = heading

\* A MOCAP or ARMS step follows references retargeted since the operator
\* entered or resumed, and only once the buffer has warmed up: nothing that was
\* seen in VELOCITY, before a pause or during one.
FollowsFreshReference ==
  played.mode \in Following => played.legs = {leg} /\ warm = Warmup

\* An engaged stop takes the session to STANDING, unless it is released first
\* or the session ends.
EngagedStopLands ==
  estop.state = "ramping" ~> mode = "standing" \/ estop.state = "inactive" \/ pc = "ended"

\* What the key maps say: the stop button of the Pico is the E key's equal.  One
\* that reaches the session in VELOCITY engages a stop that is not engaged.
\* The quiet fetch drops it.
PicoStopEngages ==
  [][ (mode = "velocity" /\ mode' = "velocity" /\ pico = <<"toggle_estop">> /\ pico' = <<>>
       /\ estop.state = "inactive") => estop'.state # "inactive" ]_vars

=============================================================================
