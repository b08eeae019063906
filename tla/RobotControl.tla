---------------------------- MODULE RobotControl ----------------------------
(***************************************************************************)
(* _RobotControlWorker of teleopit/sim2real/mp/runtime.py in its           *)
(* teleoperation configurations (Pico 4 or BVH input, with or without the  *)
(* VELOCITY stack): the mode machine of the robot, the gate that decides   *)
(* which retarget references it tracks, the emergency stop, the kp ramp    *)
(* and the low-level commands it sends.                                    *)
(*                                                                         *)
(* One iteration of the control loop passes through five phases: "drain"   *)
(* (read the IPC topics), "events" (one step per Pico control event),      *)
(* "control" (the wireless remote), "step" (one policy step) and           *)
(* "publish" (the mode topic, then sleep).  What arrives is a parameter of *)
(* Drain and Control, so that this module runs open, against every         *)
(* environment, and composed with the reference workers.                   *)
(***************************************************************************)
EXTENDS Estop, LatestChannel

CONSTANTS
  Provider,           \* provider_kind: "pico4" or "bvh"
  VelocityStack,      \* a merged_bsi command section configures VELOCITY
  MocapEntryEnabled,  \* mocap_entry_enabled
  CheckFrames,        \* mocap_switch.check_frames
  StartupRamp,        \* kp ramp after taking the motors over, in policy steps
  ReturnRamp,         \* standing_return_ramp_duration, in policy steps
  RemoteInputs,       \* sets of remote buttons the operator may hold down
  EventTuples         \* control-event tuples one ControlEventsPacket may carry

Events == {"toggle_velocity", "toggle_estop", "toggle_arms", "toggle_pause"}
Buttons == {"start", "LB", "RB", "A", "B", "X", "Y"}

ASSUME RobotControlAssumption ==
  /\ Provider \in {"pico4", "bvh"}
  /\ VelocityStack \in BOOLEAN /\ MocapEntryEnabled \in BOOLEAN
  /\ CheckFrames \in Nat
  /\ StartupRamp \in Nat \ {0} /\ ReturnRamp \in Nat \ {0}
  /\ RemoteInputs \subseteq SUBSET Buttons
  /\ EventTuples \subseteq Seq(Events)

VARIABLES
  phase,           \* where the loop is in its iteration
  pending,         \* control events of this iteration still to handle
  held,            \* remote buttons down at the last update (_prev_keys)
  mode,            \* RobotMode
  session,         \* MocapSessionManager: "active" or "paused"
  estop,           \* EstopController
  entryRequested,  \* _mocap_entry_requested
  reentryArmed,    \* _mocap_reentry_armed
  armed,           \* _mocap_reference_armed
  retryDue,        \* mocap_reference_arm_retry_s has gone by since the first ARM
  reference,       \* _latest_reference, its age in classes
  streak,          \* _consecutive_valid_references, counted up to CheckFrames
  publishing,      \* the bridge publishes LowCmd: this worker drives the motors
  command,         \* the last low-level command given to the bridge
  kpLeft,          \* steps of the kp ramp still to send
  commands,        \* channel to the reference worker
  modeOut,         \* the last mode packet published
  stopping         \* the shared stop event

gate == <<armed, retryDue, reference, streak>>
motors == <<publishing, command, kpLeft>>
vars == <<phase, pending, held, mode, session, estop, entryRequested, reentryArmed,
          gate, motors, commands, modeOut, stopping>>

-----------------------------------------------------------------------------
MocapModes == {"mocap", "arms"}
DebugModes == {"standing", "velocity"} \cup MocapModes
Modes == {"idle", "damping"} \cup DebugModes

ReferenceCommands == {"arm", "disarm", "pause", "resume", "replay"}

\* A ReferencePacket: frame_valid, whether its timestamp is not older than the
\* current arm request, and playback_paused.  One whose seq is not newer is
\* dropped whole, like one that never came.
Packets == [valid : BOOLEAN, afterArm : BOOLEAN, paused : BOOLEAN]

\* Age classes: 0 up to stale_reference_hold_s, 1 up to max_reference_age_s, 2 older.
References == [known : BOOLEAN, valid : BOOLEAN, age : 0..2, afterArm : BOOLEAN]
NoReference == [known |-> FALSE, valid |-> FALSE, age |-> 2, afterArm |-> FALSE]

LowCmds == [kind : {"none", "lock", "damping", "stand", "track", "hold", "velocity"},
            gain : {"none", "ramped", "nominal"}]
NoCmd == [kind |-> "none", gain |-> "none"]
Lock == [kind |-> "lock", gain |-> "nominal"]
Damping == [kind |-> "damping", gain |-> "none"]

TypeOK ==
  /\ phase \in {"drain", "events", "control", "step", "publish", "stopped"}
  /\ pending \in Seq(Events)
  /\ held \in SUBSET Buttons
  /\ mode \in Modes
  /\ session \in {"active", "paused"}
  /\ estop \in Estops
  /\ entryRequested \in BOOLEAN /\ reentryArmed \in BOOLEAN
  /\ armed \in BOOLEAN /\ retryDue \in BOOLEAN
  /\ reference \in References
  /\ streak \in 0..CheckFrames
  /\ publishing \in BOOLEAN
  /\ command \in LowCmds
  /\ kpLeft \in Nat
  /\ commands \in Channel(ReferenceCommands)
  /\ modeOut \in [mode : Modes, active : BOOLEAN]
  /\ stopping \in BOOLEAN

Init ==
  /\ phase = "drain" /\ pending = <<>> /\ held = {}
  /\ mode = "idle" /\ session = "active" /\ estop = Inactive
  /\ entryRequested = FALSE /\ reentryArmed = FALSE
  /\ armed = FALSE /\ retryDue = FALSE /\ reference = NoReference /\ streak = 0
  /\ publishing = FALSE /\ command = NoCmd /\ kpLeft = 0
  /\ commands = <<>> /\ modeOut = [mode |-> "idle", active |-> FALSE]
  /\ stopping = FALSE

-----------------------------------------------------------------------------
(* The methods the handlers share.                                         *)

Send(c) == commands' = Published(commands, c)

ClearReferenceGate == reference' = NoReference /\ streak' = 0

\* _disarm_mocap_reference_if_needed; only the pico4 provider is ever armed.
Disarm ==
  /\ armed' = FALSE /\ retryDue' = FALSE
  /\ IF armed THEN Send("disarm") ELSE UNCHANGED commands

\* SafetyManager.send_positions: ramped gains while the kp ramp lasts.
SendPositions(kind) ==
  /\ command' = [kind |-> kind, gain |-> IF kpLeft > 0 THEN "ramped" ELSE "nominal"]
  /\ kpLeft' = IF kpLeft > 0 THEN kpLeft - 1 ELSE 0
  /\ publishing' = TRUE

\* Mutants of Land: the session is not reset; the kp ramp is not armed.
LandInSession(ramp) ==
  /\ mode' = "standing" /\ session' = session
  /\ kpLeft' = ramp
  /\ reentryArmed' = (mode \in MocapModes)
LandCold(ramp) ==
  /\ mode' = "standing" /\ session' = "active"
  /\ kpLeft' = kpLeft
  /\ reentryArmed' = (mode \in MocapModes)

\* The end of _enter_standing: session reset, kp ramp armed, mode switched.
Land(ramp) ==
  /\ mode' = "standing" /\ session' = "active"
  /\ kpLeft' = ramp
  /\ reentryArmed' = (mode \in MocapModes)

\* enter_debug_mode succeeds: lock the joints where they are, then land.
TakeOver ==
  /\ mode \notin DebugModes
  /\ publishing' = TRUE /\ command' = Lock
  /\ Land(StartupRamp)

\* Mutant of TakeOverFails: the result of enter_debug_mode is ignored.
TakeOverUnchecked ==
  /\ mode \notin DebugModes
  /\ mode' = "standing"
  /\ UNCHANGED <<session, reentryArmed, motors>>

\* enter_debug_mode reports failure: stay in the mode the worker is in.
TakeOverFails ==
  /\ mode \notin DebugModes
  /\ UNCHANGED <<mode, session, reentryArmed, motors>>

ReturnToStanding ==
  /\ mode \in DebugModes \ {"standing"}
  /\ Land(ReturnRamp)
  /\ UNCHANGED <<publishing, command>>

EnterStanding ==
  /\ Disarm /\ ClearReferenceGate
  /\ entryRequested' = FALSE
  /\ TakeOver \/ TakeOverFails \/ ReturnToStanding

\* Mutants of EnterDamping: VELOCITY is not locked; ARMS is not damped.
EnterDampingUnlocked ==
  /\ Disarm /\ ClearReferenceGate
  /\ entryRequested' = FALSE /\ reentryArmed' = FALSE
  /\ command' = IF mode \in {"standing"} \cup MocapModes THEN Damping ELSE command
  /\ publishing' = FALSE
  /\ mode' = "damping" /\ session' = "active"
  /\ UNCHANGED <<kpLeft, estop>>
EnterDampingFromMocap ==
  /\ estop' = Latched
  /\ Disarm /\ ClearReferenceGate
  /\ entryRequested' = FALSE /\ reentryArmed' = FALSE
  /\ command' = IF mode \in {"standing", "mocap"} THEN Damping ELSE command
  /\ publishing' = FALSE
  /\ mode' = "damping" /\ session' = "active"
  /\ UNCHANGED kpLeft

\* _enter_damping: VELOCITY is not in the list of modes that are damped first.
EnterDamping ==
  /\ estop' = Latched
  /\ Disarm /\ ClearReferenceGate
  /\ entryRequested' = FALSE /\ reentryArmed' = FALSE
  /\ command' = IF mode \in {"standing"} \cup MocapModes THEN Damping ELSE command
  /\ publishing' = FALSE
  /\ mode' = "damping" /\ session' = "active"
  /\ UNCHANGED kpLeft

\* Mutant of CanEnterVelocity: the latch is not consulted.
CanAlwaysEnterVelocity == VelocityStack /\ mode = "standing"

\* _enter_velocity: the entry gate and its three refusals.
CanEnterVelocity == VelocityStack /\ mode = "standing" /\ estop.state = "inactive"

\* Mutant of EnterVelocity: the pending mocap entry is kept.
EnterVelocityKeepingRequest ==
  /\ CanEnterVelocity
  /\ mode' = "velocity"
  /\ UNCHANGED <<session, entryRequested, reentryArmed, gate, motors, commands>>

EnterVelocity ==
  /\ CanEnterVelocity
  /\ mode' = "velocity" /\ entryRequested' = FALSE
  /\ UNCHANGED <<session, reentryArmed, gate, motors, commands>>

\* The first ARM of a request forgets every reference received so far.
ArmReference ==
  /\ ClearReferenceGate
  /\ armed' = TRUE /\ retryDue' = FALSE
  /\ Send("arm")

\* Mutant of RepeatArm: the ARM is sent once.
ArmOnce == UNCHANGED <<commands, gate>>

\* An unanswered ARM is repeated once the retry period has gone by.
RepeatArm ==
  /\ IF retryDue THEN Send("arm") ELSE UNCHANGED commands
  /\ UNCHANGED gate

CanSwitchToMocap ==
  /\ reference.known /\ reference.valid
  /\ Provider = "pico4" => armed /\ reference.age <= 1 /\ streak >= CheckFrames

TransitionToMocap ==
  /\ mode' = "mocap" /\ session' = "active"
  /\ entryRequested' = FALSE /\ reentryArmed' = FALSE
  /\ IF Provider = "bvh" THEN Send("replay") ELSE UNCHANGED commands
  /\ UNCHANGED <<gate, motors>>

-----------------------------------------------------------------------------
(* "drain": _drain_ipc.  refs and evs are what recv_latest returns of the  *)
(* reference topic and of the control-events topic.                        *)

\* Mutant of Accepts: the arm time is not compared.
AcceptsAny(p) == p \in Packets

Accepts(p) == armed => p.afterArm

\* Mutant of NoteReference: the paused flag of the playback is ignored.
NoteUnpaused(p, age) ==
  /\ reference' = [known |-> TRUE, valid |-> p.valid, age |-> age, afterArm |-> p.afterArm]
  /\ streak' = CASE ~p.valid            -> 0
                 [] streak < CheckFrames -> streak + 1
                 [] OTHER                -> streak
  /\ session' = session

\* _note_reference_packet; age is how long the packet was under way.
NoteReference(p, age) ==
  /\ reference' = [known |-> TRUE, valid |-> p.valid, age |-> age, afterArm |-> p.afterArm]
  /\ streak' = CASE ~p.valid            -> 0
                 [] streak < CheckFrames -> streak + 1
                 [] OTHER                -> streak
  /\ session' = IF Provider = "bvh" /\ p.paused /\ mode \in MocapModes THEN "paused" ELSE session

Drain(refs, evs, age) ==
  /\ phase = "drain" /\ ~stopping
  /\ phase' = "events"
  /\ IF refs # <<>> /\ Accepts(Head(refs))
       THEN NoteReference(Head(refs), age)
       ELSE UNCHANGED <<reference, streak, session>>
  /\ pending' = IF evs = <<>> THEN <<>> ELSE Head(evs)
  /\ UNCHANGED <<held, mode, estop, entryRequested, reentryArmed, armed, retryDue, motors,
                 commands, modeOut, stopping>>

-----------------------------------------------------------------------------
(* "events": _handle_mocap_control_events, one event per step.             *)

Handle(event) ==
  /\ phase = "events" /\ pending # <<>> /\ Head(pending) = event
  /\ pending' = Tail(pending)
  /\ UNCHANGED <<phase, held, modeOut, stopping>>

ToggleVelocity ==
  /\ Handle("toggle_velocity")
  /\ \/ mode = "velocity" /\ EnterStanding
     \/ mode # "velocity" /\ EnterVelocity
     \/ /\ mode # "velocity" /\ ~CanEnterVelocity
        /\ UNCHANGED <<mode, session, entryRequested, reentryArmed, gate, motors, commands>>
  /\ UNCHANGED estop

ToggleEstop ==
  /\ Handle("toggle_estop")
  /\ estop' = Toggled(estop, mode = "velocity")
  /\ UNCHANGED <<mode, session, entryRequested, reentryArmed, gate, motors, commands>>

\* _toggle_arms_mode: MOCAP <-> ARMS of a Pico session that is not paused.
ToggleArms ==
  /\ Handle("toggle_arms")
  /\ IF Provider = "pico4" /\ mode \in MocapModes /\ session = "active"
       THEN mode' = (IF mode = "mocap" THEN "arms" ELSE "mocap") /\ kpLeft' = ReturnRamp
       ELSE UNCHANGED <<mode, kpLeft>>
  /\ UNCHANGED <<session, estop, entryRequested, reentryArmed, gate, publishing, command, commands>>

\* _pause_active_mocap and _resume_paused_mocap; resuming ARMS ramps kp again.
FlipSession ==
  /\ session' = IF session = "paused" THEN "active" ELSE "paused"
  /\ kpLeft' = IF session = "paused" /\ mode = "arms" THEN ReturnRamp ELSE kpLeft

TogglePause ==
  /\ Handle("toggle_pause")
  /\ IF mode \in MocapModes THEN FlipSession ELSE UNCHANGED <<session, kpLeft>>
  /\ UNCHANGED <<mode, estop, entryRequested, reentryArmed, gate, publishing, command, commands>>

EventsDone ==
  /\ phase = "events" /\ pending = <<>>
  /\ phase' = "control"
  /\ UNCHANGED <<pending, held, mode, session, estop, entryRequested, reentryArmed, gate,
                 motors, commands, modeOut, stopping>>

-----------------------------------------------------------------------------
(* "control": the remote is read, then _handle_transitions.                *)

ReadRemote(keys) ==
  /\ phase = "control" /\ held' = keys
  /\ UNCHANGED <<pending, modeOut, stopping>>

EmergencyPressed(keys) == {"LB", "RB"} \subseteq keys

\* A transition is handled unless the emergency stop is held; a policy step follows.
Transition(keys) ==
  /\ ReadRemote(keys) /\ ~EmergencyPressed(keys)
  /\ phase' = "step"
  /\ UNCHANGED estop

Pressed(button, keys) == button \in keys \ held

\* L1+R1: damping from every other mode, and no policy step in this iteration.
EmergencyStop(keys) ==
  /\ ReadRemote(keys) /\ EmergencyPressed(keys)
  /\ phase' = "publish"
  /\ IF mode # "damping"
       THEN EnterDamping
       ELSE UNCHANGED <<mode, session, estop, entryRequested, reentryArmed, gate, motors, commands>>

StartPressed(keys) ==
  /\ Transition(keys)
  /\ mode \in {"idle", "damping"} /\ Pressed("start", keys)
  /\ EnterStanding

WantsMocap(keys) ==
  MocapEntryEnabled /\ (Pressed("Y", keys) \/ (reentryArmed /\ "Y" \in keys))

\* STANDING with a mocap entry asked for, now or before: arm, wait or switch.
PursueMocapEntry(keys) ==
  /\ Transition(keys)
  /\ mode = "standing" /\ (entryRequested \/ WantsMocap(keys))
  /\ \/ /\ Provider = "pico4" /\ ~armed
        /\ ArmReference
        /\ entryRequested' = TRUE /\ UNCHANGED <<mode, session, reentryArmed, motors>>
     \/ /\ Provider = "pico4" /\ armed /\ ~reference.known
        /\ RepeatArm
        /\ entryRequested' = TRUE /\ UNCHANGED <<mode, session, reentryArmed, motors>>
     \/ /\ Provider = "bvh" \/ (armed /\ reference.known)
        /\ CanSwitchToMocap
        /\ TransitionToMocap
     \/ /\ Provider = "bvh" \/ (armed /\ reference.known)
        /\ ~CanSwitchToMocap
        /\ entryRequested' = TRUE
        /\ UNCHANGED <<mode, session, reentryArmed, gate, motors, commands>>

\* The keys of MOCAP and ARMS, the first that is pressed wins: B replays a BVH
\* clip, B (Pico) or A (BVH) pauses and resumes, X returns to STANDING.
PauseKey == IF Provider = "pico4" THEN "B" ELSE "A"
ReplayPressed(keys) == Provider = "bvh" /\ Pressed("B", keys)

ReplayClip(keys) ==
  /\ ReplayPressed(keys)
  /\ Send("replay")
  /\ IF session = "paused" THEN FlipSession ELSE UNCHANGED <<session, kpLeft>>

PauseOrResume(keys) ==
  /\ ~ReplayPressed(keys) /\ Pressed(PauseKey, keys)
  /\ Send(IF session = "paused" THEN "resume" ELSE "pause")
  /\ FlipSession

CommandPlayback(keys) ==
  /\ Transition(keys) /\ mode \in MocapModes
  /\ ReplayClip(keys) \/ PauseOrResume(keys)
  /\ UNCHANGED <<mode, entryRequested, reentryArmed, gate, publishing, command>>

ReturnPressed(keys) ==
  /\ Transition(keys)
  /\ mode \in MocapModes /\ ~ReplayPressed(keys) /\ ~Pressed(PauseKey, keys) /\ Pressed("X", keys)
  /\ EnterStanding

NoTransition(keys) ==
  /\ Transition(keys)
  /\ \/ mode \in {"idle", "damping"} /\ ~Pressed("start", keys)
     \/ mode = "standing" /\ ~entryRequested /\ ~WantsMocap(keys)
     \/ /\ mode \in MocapModes
        /\ ~ReplayPressed(keys) /\ ~Pressed(PauseKey, keys) /\ ~Pressed("X", keys)
     \/ mode = "velocity"
  /\ UNCHANGED <<mode, session, entryRequested, reentryArmed, gate, motors, commands>>

Control(keys) ==
  \/ EmergencyStop(keys)
  \/ StartPressed(keys) \/ PursueMocapEntry(keys)
  \/ CommandPlayback(keys) \/ ReturnPressed(keys)
  \/ NoTransition(keys)

-----------------------------------------------------------------------------
(* "step": one policy step of the current mode.                            *)

PolicyStep ==
  /\ phase = "step" /\ phase' = "publish"
  /\ UNCHANGED <<pending, held, modeOut, stopping>>

IdleStep ==
  /\ PolicyStep /\ mode \in {"idle", "damping"}
  /\ UNCHANGED <<mode, session, estop, entryRequested, reentryArmed, gate, motors, commands>>

StandingStep ==
  /\ PolicyStep /\ mode = "standing"
  /\ SendPositions("stand")
  /\ UNCHANGED <<mode, session, estop, entryRequested, reentryArmed, gate, commands>>

\* _mocap_step tracks a fresh valid reference of an active session, and holds
\* the last commanded pose otherwise.
Trackable == session = "active" /\ reference.known /\ reference.valid /\ reference.age = 0

MocapStep ==
  /\ PolicyStep /\ mode \in MocapModes
  /\ SendPositions(IF Trackable THEN "track" ELSE "hold")
  /\ UNCHANGED <<mode, session, estop, entryRequested, reentryArmed, gate, commands>>

\* _velocity_step: the emergency stop first, then the safety verdict on the
\* state of the robot, then the exit request, then the policy.
VelocityStep(verdict) ==
  /\ PolicyStep /\ mode = "velocity"
  /\ LET e == Applied(estop) IN
       \/ verdict = "damping" /\ EnterDamping
       \/ verdict = "standing" /\ EnterStanding /\ estop' = e
       \/ verdict = "none" /\ e.exit /\ EnterStanding /\ estop' = ExitConsumed(e)
       \/ /\ verdict = "none" /\ ~e.exit /\ estop' = e
          /\ SendPositions("velocity")
          /\ UNCHANGED <<mode, session, entryRequested, reentryArmed, gate, commands>>

Verdicts == {"none", "standing", "damping"}

Step == IdleStep \/ StandingStep \/ MocapStep \/ \E verdict \in Verdicts : VelocityStep(verdict)

-----------------------------------------------------------------------------
(* "publish": the mode packet, then the sleep in which time goes by.       *)

Publish ==
  /\ phase = "publish" /\ phase' = "drain"
  /\ modeOut' = [mode |-> mode, active |-> mode \in MocapModes /\ session = "active"]
  /\ \E age \in reference.age..2 : reference' = [reference EXCEPT !.age = age]
  /\ estop' \in Aged(estop)
  /\ retryDue' \in {retryDue, armed}
  /\ UNCHANGED <<pending, held, mode, session, entryRequested, reentryArmed, armed, streak,
                 motors, commands, stopping>>

-----------------------------------------------------------------------------
(* The end of the worker.                                                  *)

\* shutdown(): damp the motors if this worker drives them, then let go of them.
Shutdown ==
  /\ phase' = "stopped"
  /\ command' = IF mode \in DebugModes THEN Damping ELSE command
  /\ publishing' = FALSE
  /\ UNCHANGED <<pending, held, mode, session, estop, entryRequested, reentryArmed, gate,
                 kpLeft, commands, modeOut, stopping>>

\* The stop event, seen at the head of the loop.
Stop == phase = "drain" /\ stopping /\ Shutdown

\* A step raises (a bad observation, a failed inference): run()'s finally clause.
Raise == phase \in {"events", "control", "step"} /\ Shutdown

\* Another process sets the stop event.
RequestStop ==
  /\ phase # "stopped" /\ ~stopping
  /\ stopping' = TRUE
  /\ UNCHANGED <<phase, pending, held, mode, session, estop, entryRequested, reentryArmed, gate,
                 motors, commands, modeOut>>

\* The reference worker's recv_latest empties the channel.
CommandsTaken ==
  /\ commands # <<>> /\ commands' = <<>>
  /\ UNCHANGED <<phase, pending, held, mode, session, estop, entryRequested, reentryArmed, gate,
                 motors, modeOut, stopping>>

-----------------------------------------------------------------------------
HandleEvent == ToggleVelocity \/ ToggleEstop \/ ToggleArms \/ TogglePause \/ EventsDone

\* The worker against every environment: any packet, any events, any key.
ReadIpc ==
  \E refs \in ReceivedFrom(Packets), evs \in ReceivedFrom(EventTuples), age \in 0..2 :
    Drain(refs, evs, age)
ReadKeys == \E keys \in RemoteInputs : Control(keys)

Loop == ReadIpc \/ HandleEvent \/ ReadKeys \/ Step \/ Publish \/ Stop

Next == Loop \/ Raise \/ RequestStop \/ CommandsTaken

Spec == Init /\ [][Next]_vars

\* The loop is one thread that never blocks: it always goes on to its next phase.
FairSpec == Spec /\ WF_vars(Loop)

-----------------------------------------------------------------------------
(* What the worker guarantees.                                             *)

\* This worker drives the motors exactly in the modes that need it: whatever
\* path led here, no mode that runs a policy is left without the bridge, and
\* IDLE and DAMPING never share the motors with the onboard controller.
MotorsFollowMode == phase # "stopped" => (publishing <=> mode \in DebugModes)

\* A Pico session tracks only references stamped after its own arm request:
\* packets of an earlier session, of the DISARM/ARM window or still in flight
\* never reach the policy (_note_reference_packet, _can_switch_to_mocap).
MocapRunsOnPostArmReference ==
  Provider = "pico4" /\ mode \in MocapModes => armed /\ reference.known /\ reference.afterArm

\* A mocap entry asked for in STANDING does not survive into another mode, where
\* it would fire on the next return to STANDING (the comment in _enter_velocity).
RequestOnlyInStanding == entryRequested => mode = "standing"

\* No VELOCITY session runs under a latched stop: neither entered under one, nor
\* left driving by a stop that latched while it ran.
NeverDrivesLatched == mode = "velocity" => estop.state # "latched"

\* A pause never outlives the mocap session it stopped.
PauseEndsWithMocap == session = "paused" => mode \in MocapModes

\* Why those hold: an armed gate holds no reference older than its request, only
\* a robot with the VELOCITY stack reaches VELOCITY, and a motor command that is
\* not a position is followed by a kp ramp.
ArmedGateIsFresh == armed /\ reference.known => reference.afterArm
VelocityNeedsItsStack == mode = "velocity" => VelocityStack
RampFollowsLock ==
  phase # "stopped" /\ mode \in DebugModes /\ command.kind \in {"none", "lock", "damping"}
    => kpLeft > 0

Safe ==
  /\ MotorsFollowMode /\ MocapRunsOnPostArmReference /\ RequestOnlyInStanding
  /\ NeverDrivesLatched /\ PauseEndsWithMocap
  /\ ArmedGateIsFresh /\ VelocityNeedsItsStack /\ RampFollowsLock

\* The motors never meet full gains cold: after a joint lock or after damping
\* the first position targets go out with ramped gains.
NoHardStart ==
  [][command' # command /\ command'.gain = "nominal" /\ command'.kind # "lock"
       => command.kind \notin {"none", "lock", "damping"}]_vars

\* Without the VELOCITY stack the bridge never stops while a position target is
\* its last command: the motors are damped before they are let go of.
LimpOnlyAfterDamping == [][publishing /\ ~publishing' => command' = Damping]_vars

\* The worker keeps the promises of TeleopModes.
LockHeld ==
  CASE estop.state = "inactive" -> "free"
    [] estop.state = "ramping"  -> "engaged"
    [] estop.state = "latched"  -> "locked"
TeleopPromise == INSTANCE TeleopModes WITH lock <- LockHeld, driven <- publishing
ImplementsTeleopModes == TeleopPromise!Spec

\* An engaged stop ends the VELOCITY session unless the operator releases it: the
\* ramp completes and its exit request is taken, whatever else happens.
EstopEndsVelocity ==
  (mode = "velocity" /\ estop.state = "ramping")
    ~> (mode # "velocity" \/ estop.state = "inactive" \/ phase = "stopped")

-----------------------------------------------------------------------------
(* What the documents say and the worker does not do.                      *)

\* sim/estop.py: landing in STANDING through a normal exit aborts the ramp.
NormalExitAbortsRamp == mode = "standing" => estop.state # "ramping"
=============================================================================
