------------------------ MODULE RobotControl_proofs ------------------------
(***************************************************************************)
(* Proofs about RobotControl for every value of its constants: its type    *)
(* invariant, the safety invariants the runs check, the two action         *)
(* properties on the low-level commands, and that the worker implements    *)
(* TeleopModes.                                                            *)
(***************************************************************************)
EXTENDS RobotControl, TLAPS

\* A published message keeps the channel within its capacity.
LEMMA PublishedType ==
  ASSUME NEW M, NEW ch \in Channel(M), NEW m \in M
  PROVE  Published(ch, m) \in Channel(M)
BY CapacityAssumption DEF Channel, Published

\* An empty channel is a channel, and reading one yields a message or none.
LEMMA ChannelProperties ==
  ASSUME NEW M
  PROVE  /\ <<>> \in Channel(M)
         /\ \A ch \in Channel(M), m \in M : Published(ch, m) \in Channel(M)
         /\ \A ch \in Channel(M) : Received(ch) \in ReceivedFrom(M)
BY CapacityAssumption DEF Channel, Published, Received, ReceivedFrom

\* Sending a command, whichever it is, and disarming keep the channel typed.
LEMMA SendType ==
  ASSUME commands \in Channel(ReferenceCommands), NEW c \in ReferenceCommands, Send(c)
  PROVE  commands' \in Channel(ReferenceCommands)
BY PublishedType DEF Send

LEMMA DisarmType ==
  ASSUME TypeOK, Disarm
  PROVE  armed' = FALSE /\ retryDue' = FALSE /\ commands' \in Channel(ReferenceCommands)
<1>1. CASE armed
  BY <1>1, SendType DEF Disarm, TypeOK, ReferenceCommands
<1>2. CASE ~armed
  BY <1>2 DEF Disarm, TypeOK
<1> QED BY <1>1, <1>2 DEF TypeOK

LEMMA NoReferenceType == NoReference \in References
BY DEF NoReference, References

\* The emergency stop stays in its type under each of its operations.
LEMMA EstopType ==
  ASSUME NEW e \in Estops
  PROVE  /\ \A b \in BOOLEAN : Toggled(e, b) \in Estops
         /\ Applied(e) \in Estops /\ ExitConsumed(e) \in Estops
         /\ Aged(e) \subseteq Estops /\ Latched \in Estops /\ Inactive \in Estops
<1> USE EstopRampAssumption DEF Estops
<1>1. \A b \in BOOLEAN : Toggled(e, b) \in Estops
  BY DEF Toggled, Inactive
<1>2. Applied(e) \in Estops
  BY DEF Applied
<1>3. ExitConsumed(e) \in Estops
  BY DEF ExitConsumed
<1>4. Aged(e) \subseteq Estops
  BY DEF Aged
<1>5. Latched \in Estops /\ Inactive \in Estops
  BY DEF Latched, Inactive
<1> QED BY <1>1, <1>2, <1>3, <1>4, <1>5

-----------------------------------------------------------------------------
(* The methods the handlers share, for the variables each of them writes.  *)

\* What clearing the gate leaves is well typed.
LEMMA ClearType ==
  ASSUME ClearReferenceGate
  PROVE  reference' \in References /\ streak' \in 0..CheckFrames
BY RobotControlAssumption, NoReferenceType DEF ClearReferenceGate

\* A position command is well typed and consumes at most one step of the ramp.
LEMMA SendPositionsType ==
  ASSUME TypeOK, NEW kind \in {"stand", "track", "hold", "velocity"}, SendPositions(kind)
  PROVE  command' \in LowCmds /\ kpLeft' \in Nat /\ publishing' \in BOOLEAN
BY DEF TypeOK, SendPositions, LowCmds

\* Landing in STANDING writes mode, session, the ramp and the re-entry flag.
LEMMA LandType ==
  ASSUME NEW ramp \in Nat, Land(ramp)
  PROVE  mode' \in Modes /\ session' \in {"active", "paused"} /\ kpLeft' \in Nat
         /\ reentryArmed' \in BOOLEAN
BY DEF Land, Modes, DebugModes, MocapModes

\* The variables that both EnterStanding and EnterDamping write.
Entered ==
  /\ mode \in Modes /\ session \in {"active", "paused"}
  /\ entryRequested \in BOOLEAN /\ reentryArmed \in BOOLEAN
  /\ armed \in BOOLEAN /\ retryDue \in BOOLEAN
  /\ reference \in References /\ streak \in 0..CheckFrames
  /\ publishing \in BOOLEAN /\ command \in LowCmds /\ kpLeft \in Nat
  /\ commands \in Channel(ReferenceCommands)

\* Entering STANDING, by whichever of its three ways, is well typed.
LEMMA EnterStandingType ==
  ASSUME TypeOK, EnterStanding
  PROVE  Entered'
<1>1. armed' \in BOOLEAN /\ retryDue' \in BOOLEAN /\ commands' \in Channel(ReferenceCommands)
  BY DisarmType DEF EnterStanding
<1>2. reference' \in References /\ streak' \in 0..CheckFrames
  BY ClearType DEF EnterStanding
<1>3. entryRequested' \in BOOLEAN
  BY DEF EnterStanding
<1>4. /\ mode' \in Modes /\ session' \in {"active", "paused"} /\ reentryArmed' \in BOOLEAN
      /\ publishing' \in BOOLEAN /\ command' \in LowCmds /\ kpLeft' \in Nat
  <2>1. CASE TakeOver
    BY <2>1, LandType, RobotControlAssumption DEF TakeOver, Lock, LowCmds
  <2>2. CASE TakeOverFails
    BY <2>2 DEF TakeOverFails, motors, TypeOK
  <2>3. CASE ReturnToStanding
    BY <2>3, LandType, RobotControlAssumption DEF ReturnToStanding, TypeOK
  <2> QED BY <2>1, <2>2, <2>3 DEF EnterStanding
<1> QED BY <1>1, <1>2, <1>3, <1>4 DEF Entered

\* Entering DAMPING is well typed.
LEMMA EnterDampingType ==
  ASSUME TypeOK, EnterDamping
  PROVE  Entered' /\ estop' = Latched
<1>1. armed' \in BOOLEAN /\ retryDue' \in BOOLEAN /\ commands' \in Channel(ReferenceCommands)
  BY DisarmType DEF EnterDamping
<1>2. reference' \in References /\ streak' \in 0..CheckFrames
  BY ClearType DEF EnterDamping
<1>3. /\ mode' \in Modes /\ session' \in {"active", "paused"} /\ reentryArmed' \in BOOLEAN
      /\ publishing' \in BOOLEAN /\ command' \in LowCmds /\ kpLeft' \in Nat
      /\ entryRequested' \in BOOLEAN /\ estop' = Latched
  BY DEF EnterDamping, TypeOK, Modes, Damping, LowCmds
<1> QED BY <1>1, <1>2, <1>3 DEF Entered

-----------------------------------------------------------------------------
(* Type correctness.                                                       *)

\* The disjuncts of the next-state relation, one by one.
LEMMA NextCases ==
  ASSUME [Next]_vars
  PROVE  \/ ReadIpc
         \/ ToggleVelocity \/ ToggleEstop \/ ToggleArms \/ TogglePause \/ EventsDone
         \/ \E keys \in RemoteInputs : Control(keys)
         \/ IdleStep \/ StandingStep \/ MocapStep
         \/ \E verdict \in Verdicts : VelocityStep(verdict)
         \/ Publish \/ Stop \/ Raise \/ RequestStop \/ CommandsTaken
         \/ UNCHANGED vars
BY DEF Next, Loop, HandleEvent, ReadKeys, Step

LEMMA DrainType ==
  ASSUME TypeOK, ReadIpc
  PROVE  TypeOK'
<1> PICK refs \in ReceivedFrom(Packets), evs \in ReceivedFrom(EventTuples), age \in 0..2 :
      Drain(refs, evs, age)
  BY DEF ReadIpc
<1>1. pending' \in Seq(Events)
  BY RobotControlAssumption DEF Drain, ReceivedFrom
<1>2. reference' \in References /\ streak' \in 0..CheckFrames /\ session' \in {"active", "paused"}
  <2>1. CASE refs # <<>> /\ Accepts(Head(refs))
    <3>1. PICK p \in Packets : Head(refs) = p
      BY <2>1 DEF ReceivedFrom
    <3>2. NoteReference(p, age)
      BY <2>1, <3>1 DEF Drain
    <3> QED BY <3>2, RobotControlAssumption DEF NoteReference, Packets, References, TypeOK
  <2>2. CASE ~(refs # <<>> /\ Accepts(Head(refs)))
    BY <2>2 DEF Drain, TypeOK
  <2> QED BY <2>1, <2>2
<1>3. /\ phase' = "events"
      /\ UNCHANGED <<held, mode, estop, entryRequested, reentryArmed, armed, retryDue,
                     publishing, command, kpLeft, commands, modeOut, stopping>>
  BY DEF Drain, motors
<1> QED BY <1>1, <1>2, <1>3 DEF TypeOK

LEMMA HandleType ==
  ASSUME TypeOK, NEW event, Handle(event)
  PROVE  /\ pending' \in Seq(Events)
         /\ phase' = phase /\ held' = held /\ modeOut' = modeOut /\ stopping' = stopping
BY DEF Handle, TypeOK

LEMMA EventType ==
  ASSUME TypeOK, ToggleVelocity \/ ToggleEstop \/ ToggleArms \/ TogglePause \/ EventsDone
  PROVE  TypeOK'
<1>1. CASE ToggleVelocity
  <2>1. estop' = estop /\ Handle("toggle_velocity")
    BY <1>1 DEF ToggleVelocity
  <2>2. CASE EnterStanding
    BY <2>1, <2>2, HandleType, EnterStandingType DEF TypeOK, Entered
  <2>3. CASE EnterVelocity
    BY <2>1, <2>3, HandleType
    DEF EnterVelocity, TypeOK, gate, motors, Modes, DebugModes
  <2>4. CASE UNCHANGED <<mode, session, entryRequested, reentryArmed, gate, motors, commands>>
    BY <2>1, <2>4, HandleType DEF TypeOK, gate, motors
  <2> QED BY <1>1, <2>2, <2>3, <2>4 DEF ToggleVelocity
<1>2. CASE ToggleEstop
  <2>1. Handle("toggle_estop") /\ estop' \in Estops
    BY <1>2, EstopType DEF ToggleEstop, TypeOK
  <2> QED BY <1>2, <2>1, HandleType DEF ToggleEstop, TypeOK, gate, motors
<1>3. CASE ToggleArms
  <2>1. Handle("toggle_arms") /\ mode' \in Modes /\ kpLeft' \in Nat
    BY <1>3, RobotControlAssumption DEF ToggleArms, TypeOK, Modes, DebugModes, MocapModes
  <2> QED BY <1>3, <2>1, HandleType DEF ToggleArms, TypeOK, gate
<1>4. CASE TogglePause
  <2>1. Handle("toggle_pause") /\ session' \in {"active", "paused"} /\ kpLeft' \in Nat
    BY <1>4, RobotControlAssumption DEF TogglePause, FlipSession, TypeOK
  <2> QED BY <1>4, <2>1, HandleType DEF TogglePause, TypeOK, gate
<1>5. CASE EventsDone
  BY <1>5 DEF EventsDone, TypeOK, gate, motors
<1> QED BY <1>1, <1>2, <1>3, <1>4, <1>5

\* What every transition of the remote leaves alone, and where it goes.
LEMMA TransitionType ==
  ASSUME TypeOK, NEW keys \in RemoteInputs, Transition(keys)
  PROVE  /\ phase' = "step" /\ held' \in SUBSET Buttons /\ pending' = pending
         /\ modeOut' = modeOut /\ stopping' = stopping /\ estop' = estop
BY RobotControlAssumption DEF Transition, ReadRemote

LEMMA PursueType ==
  ASSUME TypeOK, NEW keys \in RemoteInputs, PursueMocapEntry(keys)
  PROVE  TypeOK'
<1>0. Transition(keys)
  BY DEF PursueMocapEntry
<1>1. CASE /\ ArmReference
           /\ entryRequested' = TRUE /\ UNCHANGED <<mode, session, reentryArmed, motors>>
  <2>1. commands' \in Channel(ReferenceCommands)
    BY <1>1, SendType DEF ArmReference, TypeOK, ReferenceCommands
  <2>2. reference' \in References /\ streak' \in 0..CheckFrames
    BY <1>1, ClearType DEF ArmReference
  <2> QED BY <1>0, <1>1, <2>1, <2>2, TransitionType DEF ArmReference, TypeOK, motors
<1>2. CASE /\ RepeatArm
           /\ entryRequested' = TRUE /\ UNCHANGED <<mode, session, reentryArmed, motors>>
  <2>1. commands' \in Channel(ReferenceCommands)
    BY <1>2, SendType DEF RepeatArm, TypeOK, ReferenceCommands
  <2> QED BY <1>0, <1>2, <2>1, TransitionType DEF RepeatArm, TypeOK, motors, gate
<1>3. CASE TransitionToMocap
  <2>1. commands' \in Channel(ReferenceCommands)
    BY <1>3, SendType DEF TransitionToMocap, TypeOK, ReferenceCommands
  <2> QED BY <1>0, <1>3, <2>1, TransitionType
          DEF TransitionToMocap, TypeOK, motors, gate, Modes, DebugModes, MocapModes
<1>4. CASE /\ entryRequested' = TRUE
           /\ UNCHANGED <<mode, session, reentryArmed, gate, motors, commands>>
  BY <1>0, <1>4, TransitionType DEF TypeOK, motors, gate
<1> QED BY <1>1, <1>2, <1>3, <1>4 DEF PursueMocapEntry

LEMMA ControlType ==
  ASSUME TypeOK, NEW keys \in RemoteInputs, Control(keys)
  PROVE  TypeOK'
<1>1. CASE EmergencyStop(keys)
  <2>1. /\ phase' = "publish" /\ held' \in SUBSET Buttons /\ pending' = pending
        /\ modeOut' = modeOut /\ stopping' = stopping
    BY <1>1, RobotControlAssumption DEF EmergencyStop, ReadRemote
  <2>2. CASE EnterDamping
    BY <2>1, <2>2, EnterDampingType, EstopType DEF TypeOK, Entered, Estops, Latched
  <2>3. CASE UNCHANGED <<mode, session, estop, entryRequested, reentryArmed, gate, motors, commands>>
    BY <2>1, <2>3 DEF TypeOK, gate, motors
  <2> QED BY <1>1, <2>2, <2>3 DEF EmergencyStop
<1>2. CASE StartPressed(keys) \/ ReturnPressed(keys)
  <2>1. Transition(keys) /\ EnterStanding
    BY <1>2 DEF StartPressed, ReturnPressed
  <2> QED BY <2>1, TransitionType, EnterStandingType DEF TypeOK, Entered
<1>3. CASE PursueMocapEntry(keys)
  BY <1>3, PursueType
<1>4. CASE CommandPlayback(keys)
  <2>1. Transition(keys) /\ UNCHANGED <<mode, entryRequested, reentryArmed, gate, publishing, command>>
    BY <1>4 DEF CommandPlayback, ReplayClip, PauseOrResume
  <2>2. commands' \in Channel(ReferenceCommands)
    BY <1>4, SendType DEF CommandPlayback, ReplayClip, PauseOrResume, TypeOK, ReferenceCommands
  <2>3. session' \in {"active", "paused"} /\ kpLeft' \in Nat
    BY <1>4, RobotControlAssumption DEF CommandPlayback, ReplayClip, PauseOrResume, FlipSession, TypeOK
  <2> QED BY <2>1, <2>2, <2>3, TransitionType DEF TypeOK, gate
<1>5. CASE NoTransition(keys)
  BY <1>5, TransitionType DEF NoTransition, TypeOK, gate, motors
<1> QED BY <1>1, <1>2, <1>3, <1>4, <1>5 DEF Control

LEMMA StepType ==
  ASSUME TypeOK,
         \/ IdleStep \/ StandingStep \/ MocapStep
         \/ \E verdict \in Verdicts : VelocityStep(verdict)
  PROVE  TypeOK'
<1>0. /\ phase' = "publish" /\ pending' = pending /\ held' = held
      /\ modeOut' = modeOut /\ stopping' = stopping
  BY DEF IdleStep, StandingStep, MocapStep, VelocityStep, PolicyStep
<1>1. CASE IdleStep
  BY <1>0, <1>1 DEF IdleStep, TypeOK, gate, motors
<1>2. CASE StandingStep
  BY <1>0, <1>2, SendPositionsType DEF StandingStep, TypeOK, gate
<1>3. CASE MocapStep
  BY <1>0, <1>3, SendPositionsType DEF MocapStep, TypeOK, gate
<1>4. CASE \E verdict \in Verdicts : VelocityStep(verdict)
  <2> PICK verdict \in Verdicts : VelocityStep(verdict)
    BY <1>4
  <2>1. Applied(estop) \in Estops /\ ExitConsumed(Applied(estop)) \in Estops /\ Latched \in Estops
    BY EstopType DEF TypeOK
  <2>2. CASE EnterDamping
    BY <1>0, <2>1, <2>2, EnterDampingType DEF TypeOK, Entered
  <2>3. CASE EnterStanding /\ estop' \in {Applied(estop), ExitConsumed(Applied(estop))}
    BY <1>0, <2>1, <2>3, EnterStandingType DEF TypeOK, Entered
  <2>4. CASE /\ SendPositions("velocity") /\ estop' = Applied(estop)
             /\ UNCHANGED <<mode, session, entryRequested, reentryArmed, gate, commands>>
    BY <1>0, <2>1, <2>4, SendPositionsType DEF TypeOK, gate
  <2> QED BY <2>2, <2>3, <2>4 DEF VelocityStep
<1> QED BY <1>1, <1>2, <1>3, <1>4

LEMMA LoopEndType ==
  ASSUME TypeOK, Publish \/ Stop \/ Raise \/ RequestStop \/ CommandsTaken
  PROVE  TypeOK'
<1>1. CASE Publish
  <2>1. reference' \in References
    <3>1. PICK a \in reference.age..2 : reference' = [reference EXCEPT !.age = a]
      BY <1>1 DEF Publish
    <3>2. a \in 0..2 /\ reference \in References
      BY <3>1 DEF TypeOK, References
    <3> QED BY <3>1, <3>2 DEF References
  <2>2. estop' \in Estops
    <3>1. estop \in Estops
      BY DEF TypeOK
    <3>2. Aged(estop) \subseteq Estops
      BY <3>1, EstopType
    <3> QED BY <1>1, <3>2 DEF Publish
  <2> QED BY <1>1, <2>1, <2>2 DEF Publish, TypeOK, motors
<1>2. CASE Stop \/ Raise
  <2>1. Shutdown
    BY <1>2 DEF Stop, Raise
  <2>2. command' \in LowCmds
    BY <2>1 DEF Shutdown, TypeOK, Damping, LowCmds
  <2> QED BY <2>1, <2>2 DEF Shutdown, TypeOK, gate
<1>3. CASE RequestStop
  BY <1>3 DEF RequestStop, TypeOK, gate, motors
<1>4. CASE CommandsTaken
  BY <1>4, CapacityAssumption DEF CommandsTaken, TypeOK, gate, motors, Channel
<1> QED BY <1>1, <1>2, <1>3, <1>4

LEMMA TypeStep ==
  ASSUME TypeOK, [Next]_vars
  PROVE  TypeOK'
<1>1. CASE UNCHANGED vars
  BY <1>1 DEF vars, gate, motors, TypeOK
<1> QED BY <1>1, NextCases, DrainType, EventType, ControlType, StepType, LoopEndType

LEMMA TypeInit == Init => TypeOK
<1> SUFFICES ASSUME Init PROVE TypeOK
  OBVIOUS
<1>1. estop \in Estops
  BY EstopRampAssumption DEF Init, Inactive, Estops
<1>2. reference \in References /\ streak \in 0..CheckFrames
  BY NoReferenceType, RobotControlAssumption DEF Init
<1>3. commands \in Channel(ReferenceCommands) /\ pending \in Seq(Events)
  BY CapacityAssumption DEF Init, Channel
<1>4. command \in LowCmds /\ mode \in Modes /\ modeOut \in [mode : Modes, active : BOOLEAN]
  BY DEF Init, NoCmd, LowCmds, Modes
<1> QED BY <1>1, <1>2, <1>3, <1>4 DEF Init, TypeOK

\* Whatever the environment does, every variable of the worker keeps its type:
\* the kp ramp never runs below zero, the streak never passes the frame check
\* and no topic holds more than its capacity.
THEOREM TypeCorrect == Spec => []TypeOK
BY TypeInit, TypeStep, PTL DEF Spec

-----------------------------------------------------------------------------
(* The inductive invariant TypeOK /\ Safe.                                 *)

\* Entering STANDING establishes every part of the invariant, wherever it is
\* called from; a failed takeover leaves the motors and the mode as they were.
LEMMA EnterStandingSafe ==
  ASSUME TypeOK, Safe, phase # "stopped", EnterStanding
  PROVE  Safe'
<1>0. armed' = FALSE /\ entryRequested' = FALSE
  BY DEF EnterStanding, Disarm
<1>1. CASE TakeOver \/ ReturnToStanding
  <2>1. /\ mode' = "standing" /\ session' = "active" /\ publishing' = TRUE
        /\ kpLeft' \in Nat \ {0}
    BY <1>1, RobotControlAssumption
    DEF TakeOver, ReturnToStanding, Land, Safe, MotorsFollowMode, DebugModes
  <2> QED BY <1>0, <2>1
          DEF Safe, MotorsFollowMode, MocapRunsOnPostArmReference, RequestOnlyInStanding,
              NeverDrivesLatched, PauseEndsWithMocap, ArmedGateIsFresh, VelocityNeedsItsStack,
              RampFollowsLock, DebugModes, MocapModes
<1>2. CASE TakeOverFails
  BY <1>0, <1>2
  DEF TakeOverFails, motors, Safe, MotorsFollowMode, MocapRunsOnPostArmReference,
      RequestOnlyInStanding, NeverDrivesLatched, PauseEndsWithMocap, ArmedGateIsFresh,
      VelocityNeedsItsStack, RampFollowsLock, DebugModes, MocapModes
<1> QED BY <1>1, <1>2 DEF EnterStanding

\* Entering DAMPING establishes every part of the invariant from any state.
LEMMA EnterDampingSafe ==
  ASSUME EnterDamping
  PROVE  Safe'
BY DEF EnterDamping, Disarm, Safe, MotorsFollowMode, MocapRunsOnPostArmReference,
       RequestOnlyInStanding, NeverDrivesLatched, PauseEndsWithMocap, ArmedGateIsFresh,
       VelocityNeedsItsStack, RampFollowsLock, DebugModes, MocapModes

\* A policy step that sends positions keeps the invariant.
LEMMA SendPositionsSafe ==
  ASSUME TypeOK, Safe, phase = "step", phase' = "publish", mode \in DebugModes,
         NEW kind \in {"stand", "track", "hold", "velocity"}, SendPositions(kind),
         UNCHANGED <<mode, session, entryRequested, gate>>,
         mode = "velocity" => estop'.state # "latched"
  PROVE  Safe'
BY DEF SendPositions, gate, Safe, MotorsFollowMode, MocapRunsOnPostArmReference,
       RequestOnlyInStanding, NeverDrivesLatched, PauseEndsWithMocap, ArmedGateIsFresh,
       VelocityNeedsItsStack, RampFollowsLock

\* An action that touches none of the variables of the invariant keeps it.
LEMMA SafeFrame ==
  ASSUME Safe, phase # "stopped", phase' # "stopped",
         UNCHANGED <<mode, session, estop, entryRequested, gate, motors>>
  PROVE  Safe'
BY DEF gate, motors, Safe, MotorsFollowMode, MocapRunsOnPostArmReference,
       RequestOnlyInStanding, NeverDrivesLatched, PauseEndsWithMocap, ArmedGateIsFresh,
       VelocityNeedsItsStack, RampFollowsLock

LEMMA DrainSafe ==
  ASSUME TypeOK, Safe, ReadIpc
  PROVE  Safe'
<1> PICK refs \in ReceivedFrom(Packets), evs \in ReceivedFrom(EventTuples), age \in 0..2 :
      Drain(refs, evs, age)
  BY DEF ReadIpc
<1>0. /\ phase # "stopped" /\ phase' = "events"
      /\ UNCHANGED <<mode, estop, entryRequested, armed, publishing, command, kpLeft>>
  BY DEF Drain, motors
<1>1. armed' /\ reference'.known => reference'.afterArm
  BY DEF Drain, Accepts, NoteReference, Safe, ArmedGateIsFresh
<1>2. reference.known => reference'.known
  BY DEF Drain, NoteReference
<1>3. session' = "paused" => session = "paused" \/ mode \in MocapModes
  BY DEF Drain, NoteReference
<1> QED BY <1>0, <1>1, <1>2, <1>3
        DEF Safe, MotorsFollowMode, MocapRunsOnPostArmReference, RequestOnlyInStanding,
            NeverDrivesLatched, PauseEndsWithMocap, ArmedGateIsFresh, VelocityNeedsItsStack,
            RampFollowsLock

LEMMA EventSafe ==
  ASSUME TypeOK, Safe, ToggleVelocity \/ ToggleEstop \/ ToggleArms \/ TogglePause \/ EventsDone
  PROVE  Safe'
<1>0. phase = "events" /\ phase' # "stopped"
  BY DEF ToggleVelocity, ToggleEstop, ToggleArms, TogglePause, EventsDone, Handle
<1>1. CASE ToggleVelocity
  <2>1. CASE EnterStanding
    BY <1>0, <1>1, <2>1, EnterStandingSafe DEF ToggleVelocity
  <2>2. CASE EnterVelocity
    BY <1>0, <1>1, <2>2
    DEF ToggleVelocity, EnterVelocity, CanEnterVelocity, gate, motors, Safe, MotorsFollowMode,
        MocapRunsOnPostArmReference, RequestOnlyInStanding, NeverDrivesLatched,
        PauseEndsWithMocap, ArmedGateIsFresh, VelocityNeedsItsStack, RampFollowsLock,
        DebugModes, MocapModes
  <2>3. CASE UNCHANGED <<mode, session, entryRequested, reentryArmed, gate, motors, commands>>
    BY <1>0, <1>1, <2>3, SafeFrame DEF ToggleVelocity
  <2> QED BY <1>1, <2>1, <2>2, <2>3 DEF ToggleVelocity
<1>2. CASE ToggleEstop
  <2>1. mode = "velocity" => estop'.state # "latched"
    BY <1>2, EstopRampAssumption
    DEF ToggleEstop, Toggled, Inactive, Safe, NeverDrivesLatched, TypeOK, Estops
  <2> QED BY <1>0, <1>2, <2>1
          DEF ToggleEstop, gate, motors, Safe, MotorsFollowMode, MocapRunsOnPostArmReference,
              RequestOnlyInStanding, NeverDrivesLatched, PauseEndsWithMocap, ArmedGateIsFresh,
              VelocityNeedsItsStack, RampFollowsLock
<1>3. CASE ToggleArms
  BY <1>0, <1>3, RobotControlAssumption
  DEF ToggleArms, gate, Safe, MotorsFollowMode, MocapRunsOnPostArmReference,
      RequestOnlyInStanding, NeverDrivesLatched, PauseEndsWithMocap, ArmedGateIsFresh,
      VelocityNeedsItsStack, RampFollowsLock, DebugModes, MocapModes
<1>4. CASE TogglePause
  <2>1. mode' = mode /\ kpLeft' \in {kpLeft, ReturnRamp}
    BY <1>4 DEF TogglePause, FlipSession
  <2>2. session' = "paused" => session = "paused" \/ mode \in MocapModes
    BY <1>4 DEF TogglePause, FlipSession
  <2> QED BY <1>0, <1>4, <2>1, <2>2, RobotControlAssumption
          DEF TogglePause, gate, Safe, MotorsFollowMode, MocapRunsOnPostArmReference,
              RequestOnlyInStanding, NeverDrivesLatched, PauseEndsWithMocap, ArmedGateIsFresh,
              VelocityNeedsItsStack, RampFollowsLock
<1>5. CASE EventsDone
  BY <1>0, <1>5, SafeFrame DEF EventsDone
<1> QED BY <1>1, <1>2, <1>3, <1>4, <1>5

LEMMA PursueSafe ==
  ASSUME TypeOK, Safe, NEW keys, PursueMocapEntry(keys)
  PROVE  Safe'
<1>0. phase # "stopped" /\ phase' # "stopped" /\ estop' = estop /\ mode = "standing"
  BY DEF PursueMocapEntry, Transition, ReadRemote
<1>1. CASE ArmReference /\ UNCHANGED <<mode, session, motors>>
  BY <1>0, <1>1
  DEF ArmReference, ClearReferenceGate, NoReference, motors, Safe, MotorsFollowMode,
      MocapRunsOnPostArmReference, RequestOnlyInStanding, NeverDrivesLatched,
      PauseEndsWithMocap, ArmedGateIsFresh, VelocityNeedsItsStack, RampFollowsLock, MocapModes
<1>2. CASE UNCHANGED <<gate, mode, session, motors>>
  BY <1>0, <1>2
  DEF gate, motors, Safe, MotorsFollowMode, MocapRunsOnPostArmReference,
      RequestOnlyInStanding, NeverDrivesLatched, PauseEndsWithMocap, ArmedGateIsFresh,
      VelocityNeedsItsStack, RampFollowsLock, MocapModes
<1>3. CASE CanSwitchToMocap /\ TransitionToMocap
  BY <1>0, <1>3
  DEF CanSwitchToMocap, TransitionToMocap, gate, motors, Safe, MotorsFollowMode,
      MocapRunsOnPostArmReference, RequestOnlyInStanding, NeverDrivesLatched,
      PauseEndsWithMocap, ArmedGateIsFresh, VelocityNeedsItsStack, RampFollowsLock,
      DebugModes, MocapModes
<1> QED BY <1>1, <1>2, <1>3 DEF PursueMocapEntry, RepeatArm

LEMMA ControlSafe ==
  ASSUME TypeOK, Safe, NEW keys, Control(keys)
  PROVE  Safe'
<1>0. phase = "control" /\ phase' # "stopped"
  BY DEF Control, EmergencyStop, StartPressed, PursueMocapEntry, CommandPlayback, ReplayClip, PauseOrResume,
         ReturnPressed, NoTransition, Transition, ReadRemote
<1>1. CASE EmergencyStop(keys)
  BY <1>0, <1>1, EnterDampingSafe, SafeFrame DEF EmergencyStop
<1>2. CASE StartPressed(keys) \/ ReturnPressed(keys)
  BY <1>0, <1>2, EnterStandingSafe DEF StartPressed, ReturnPressed
<1>3. CASE PursueMocapEntry(keys)
  BY <1>3, PursueSafe
<1>4. CASE CommandPlayback(keys)
  <2>1. /\ mode \in MocapModes /\ estop' = estop
        /\ UNCHANGED <<mode, entryRequested, gate, publishing, command>>
    BY <1>4 DEF CommandPlayback, ReplayClip, PauseOrResume, Transition
  <2>2. kpLeft' \in {kpLeft, ReturnRamp}
    BY <1>4 DEF CommandPlayback, ReplayClip, PauseOrResume, FlipSession
  <2> QED BY <1>0, <2>1, <2>2, RobotControlAssumption
          DEF gate, Safe, MotorsFollowMode, MocapRunsOnPostArmReference, RequestOnlyInStanding,
              NeverDrivesLatched, PauseEndsWithMocap, ArmedGateIsFresh, VelocityNeedsItsStack,
              RampFollowsLock
<1>5. CASE NoTransition(keys)
  BY <1>0, <1>5, SafeFrame DEF NoTransition, Transition
<1> QED BY <1>1, <1>2, <1>3, <1>4, <1>5 DEF Control

LEMMA StepSafe ==
  ASSUME TypeOK, Safe,
         \/ IdleStep \/ StandingStep \/ MocapStep
         \/ \E verdict \in Verdicts : VelocityStep(verdict)
  PROVE  Safe'
<1>0. phase = "step" /\ phase' = "publish"
  BY DEF IdleStep, StandingStep, MocapStep, VelocityStep, PolicyStep
<1>1. CASE IdleStep
  BY <1>0, <1>1, SafeFrame DEF IdleStep
<1>2. CASE StandingStep
  BY <1>0, <1>2, SendPositionsSafe DEF StandingStep, DebugModes
<1>3. CASE MocapStep
  BY <1>0, <1>3, SendPositionsSafe DEF MocapStep, DebugModes, MocapModes
<1>4. CASE \E verdict \in Verdicts : VelocityStep(verdict)
  <2> PICK verdict \in Verdicts : VelocityStep(verdict)
    BY <1>4
  <2>1. CASE EnterDamping
    BY <2>1, EnterDampingSafe
  <2>2. CASE EnterStanding
    BY <1>0, <2>2, EnterStandingSafe
  <2>3. CASE /\ SendPositions("velocity") /\ ~Applied(estop).exit /\ estop' = Applied(estop)
             /\ UNCHANGED <<mode, session, entryRequested, reentryArmed, gate, commands>>
    <3>1. mode = "velocity" /\ estop.state # "latched"
      BY DEF VelocityStep, Safe, NeverDrivesLatched
    <3>2. estop'.state # "latched"
      BY <2>3, <3>1 DEF Applied
    <3> QED BY <1>0, <2>3, <3>1, <3>2, SendPositionsSafe DEF DebugModes
  <2> QED BY <2>1, <2>2, <2>3 DEF VelocityStep
<1> QED BY <1>1, <1>2, <1>3, <1>4

LEMMA LoopEndSafe ==
  ASSUME TypeOK, Safe, Publish \/ Stop \/ Raise \/ RequestStop \/ CommandsTaken
  PROVE  Safe'
<1>1. CASE Publish
  <2>1. estop'.state = estop.state
    BY <1>1 DEF Publish, Aged, TypeOK, Estops
  <2>2. reference'.known = reference.known /\ reference'.afterArm = reference.afterArm
    BY <1>1 DEF Publish, TypeOK, References
  <2> QED BY <1>1, <2>1, <2>2
          DEF Publish, motors, Safe, MotorsFollowMode, MocapRunsOnPostArmReference,
              RequestOnlyInStanding, NeverDrivesLatched, PauseEndsWithMocap, ArmedGateIsFresh,
              VelocityNeedsItsStack, RampFollowsLock
<1>2. CASE Stop \/ Raise \/ RequestStop \/ CommandsTaken
  BY <1>2
  DEF Stop, Raise, Shutdown, RequestStop, CommandsTaken, gate, motors, Safe, MotorsFollowMode,
      MocapRunsOnPostArmReference, RequestOnlyInStanding, NeverDrivesLatched,
      PauseEndsWithMocap, ArmedGateIsFresh, VelocityNeedsItsStack, RampFollowsLock
<1> QED BY <1>1, <1>2

LEMMA SafeStep ==
  ASSUME TypeOK, Safe, [Next]_vars
  PROVE  Safe'
<1>1. CASE UNCHANGED vars
  BY <1>1
  DEF vars, gate, motors, Safe, MotorsFollowMode, MocapRunsOnPostArmReference,
      RequestOnlyInStanding, NeverDrivesLatched, PauseEndsWithMocap, ArmedGateIsFresh,
      VelocityNeedsItsStack, RampFollowsLock
<1> QED BY <1>1, NextCases, DrainSafe, EventSafe, ControlSafe, StepSafe, LoopEndSafe

LEMMA SafeInit == Init => Safe
BY DEF Init, Safe, MotorsFollowMode, MocapRunsOnPostArmReference, RequestOnlyInStanding,
       NeverDrivesLatched, PauseEndsWithMocap, ArmedGateIsFresh, VelocityNeedsItsStack,
       RampFollowsLock, Inactive, DebugModes, MocapModes

\* The whole invariant, and with it each of the safety properties the runs check.
THEOREM Safety == Spec => [](TypeOK /\ Safe)
<1>1. Init => TypeOK /\ Safe
  BY TypeInit, SafeInit
<1>2. TypeOK /\ Safe /\ [Next]_vars => (TypeOK /\ Safe)'
  BY TypeStep, SafeStep
<1> QED BY <1>1, <1>2, PTL DEF Spec

\* The motors are driven exactly in the modes that run a policy.
THEOREM MotorsFollowModeAlways == Spec => []MotorsFollowMode
<1>1. TypeOK /\ Safe => MotorsFollowMode
  BY DEF Safe
<1> QED BY <1>1, Safety, PTL

\* Only references stamped after the arm request reach a Pico mocap session.
THEOREM PostArmReferenceAlways == Spec => []MocapRunsOnPostArmReference
<1>1. TypeOK /\ Safe => MocapRunsOnPostArmReference
  BY DEF Safe
<1> QED BY <1>1, Safety, PTL

\* No VELOCITY session runs under a latched emergency stop.
THEOREM NeverDrivesLatchedAlways == Spec => []NeverDrivesLatched
<1>1. TypeOK /\ Safe => NeverDrivesLatched
  BY DEF Safe
<1> QED BY <1>1, Safety, PTL

-----------------------------------------------------------------------------
(* The action properties on the low-level commands.                        *)

\* The steps that give the bridge a position command, and those that change the
\* command in another way: a lock, damping, or nothing.
LEMMA CommandCases ==
  ASSUME TypeOK, [Next]_vars
  PROVE  \/ command' \in {command, Lock, Damping}
         \/ /\ mode \in DebugModes /\ phase = "step"
            /\ \E kind \in {"stand", "track", "hold", "velocity"} : SendPositions(kind)
<1>1. EnterStanding => command' \in {command, Lock}
  BY DEF EnterStanding, TakeOver, TakeOverFails, ReturnToStanding, motors
<1>2. EnterDamping => command' \in {command, Damping}
  BY DEF EnterDamping
<1>3. ReadIpc => command' = command
  BY DEF ReadIpc, Drain, motors
<1>4. ToggleVelocity \/ ToggleEstop \/ ToggleArms \/ TogglePause \/ EventsDone
        => command' \in {command, Lock}
  BY <1>1 DEF ToggleVelocity, ToggleEstop, ToggleArms, TogglePause, EventsDone, EnterVelocity, motors
<1>5. ASSUME NEW keys \in RemoteInputs, Control(keys)
      PROVE  command' \in {command, Lock, Damping}
  <2>1. PursueMocapEntry(keys) => command' = command
    BY DEF PursueMocapEntry, TransitionToMocap, motors
  <2> QED BY <1>1, <1>2, <1>5, <2>1
          DEF Control, EmergencyStop, StartPressed, CommandPlayback, ReplayClip, PauseOrResume, ReturnPressed,
              NoTransition, motors
<1>6. IdleStep => command' = command
  BY DEF IdleStep, motors
<1>7. StandingStep \/ MocapStep =>
        /\ mode \in DebugModes /\ phase = "step"
        /\ \E kind \in {"stand", "track", "hold", "velocity"} : SendPositions(kind)
  BY DEF StandingStep, MocapStep, PolicyStep, DebugModes
<1>8. ASSUME NEW verdict \in Verdicts, VelocityStep(verdict)
      PROVE  \/ command' \in {command, Lock, Damping}
             \/ /\ mode \in DebugModes /\ phase = "step"
                /\ \E kind \in {"stand", "track", "hold", "velocity"} : SendPositions(kind)
  BY <1>1, <1>2, <1>8 DEF VelocityStep, PolicyStep, DebugModes
<1>9. Publish \/ Stop \/ Raise \/ RequestStop \/ CommandsTaken \/ UNCHANGED vars
        => command' \in {command, Damping}
  BY DEF Publish, Stop, Raise, Shutdown, RequestStop, CommandsTaken, vars, motors
<1> QED BY <1>3, <1>4, <1>5, <1>6, <1>7, <1>8, <1>9, NextCases

\* The motors never meet full gains cold.
THEOREM NoHardStartAlways == Spec => NoHardStart
<1> DEFINE Soft == command' # command /\ command'.gain = "nominal" /\ command'.kind # "lock"
                     => command.kind \notin {"none", "lock", "damping"}
<1>1. TypeOK /\ Safe /\ [Next]_vars => [Soft]_vars
  <2> SUFFICES ASSUME TypeOK, Safe, [Next]_vars PROVE Soft
    OBVIOUS
  <2>1. CASE command' \in {command, Lock, Damping}
    BY <2>1 DEF Lock, Damping
  <2>2. CASE /\ mode \in DebugModes /\ phase = "step"
             /\ \E kind \in {"stand", "track", "hold", "velocity"} : SendPositions(kind)
    BY <2>2 DEF SendPositions, Safe, RampFollowsLock
  <2> QED BY <2>1, <2>2, CommandCases
<1> QED BY <1>1, Safety, PTL DEF Spec, NoHardStart

\* A robot without the VELOCITY stack damps its motors before it lets go of them.
THEOREM LimpOnlyAfterDampingAlways ==
  ASSUME VelocityStack = FALSE
  PROVE  Spec => LimpOnlyAfterDamping
<1> DEFINE Limp == publishing /\ ~publishing' => command' = Damping
<1>1. TypeOK /\ Safe /\ [Next]_vars => [Limp]_vars
  <2> SUFFICES ASSUME TypeOK, Safe, [Next]_vars PROVE Limp
    OBVIOUS
  <2>0. publishing /\ phase # "stopped" => mode \in {"standing"} \cup MocapModes
    BY DEF Safe, MotorsFollowMode, VelocityNeedsItsStack, DebugModes
  <2>1. EnterDamping /\ phase # "stopped" => Limp
    BY <2>0 DEF EnterDamping
  <2>2. EnterStanding => Limp
    BY DEF EnterStanding, TakeOver, TakeOverFails, ReturnToStanding, motors
  <2>3. ReadIpc => Limp
    BY DEF ReadIpc, Drain, motors
  <2>4. ToggleVelocity \/ ToggleEstop \/ ToggleArms \/ TogglePause \/ EventsDone => Limp
    BY <2>2 DEF ToggleVelocity, ToggleEstop, ToggleArms, TogglePause, EventsDone, EnterVelocity,
                motors
  <2>5. ASSUME NEW keys \in RemoteInputs, Control(keys) PROVE Limp
    <3>1. PursueMocapEntry(keys) => publishing' = publishing
      BY DEF PursueMocapEntry, TransitionToMocap, motors
    <3> QED BY <2>1, <2>2, <2>5, <3>1
            DEF Control, EmergencyStop, ReadRemote, StartPressed, CommandPlayback, ReplayClip, PauseOrResume,
                ReturnPressed, NoTransition, motors
  <2>6. IdleStep \/ StandingStep \/ MocapStep => Limp
    BY DEF IdleStep, StandingStep, MocapStep, SendPositions, motors
  <2>7. ASSUME NEW verdict \in Verdicts, VelocityStep(verdict) PROVE Limp
    BY <2>1, <2>2, <2>7 DEF VelocityStep, PolicyStep, SendPositions
  <2>8. Publish \/ RequestStop \/ CommandsTaken \/ UNCHANGED vars => Limp
    BY DEF Publish, RequestStop, CommandsTaken, vars, motors
  <2>9. Stop \/ Raise => Limp
    BY <2>0 DEF Stop, Raise, Shutdown, DebugModes
  <2> QED BY <2>3, <2>4, <2>5, <2>6, <2>7, <2>8, <2>9, NextCases
<1> QED BY <1>1, Safety, PTL DEF Spec, LimpOnlyAfterDamping

-----------------------------------------------------------------------------
(* The worker implements TeleopModes.                                      *)

\* A step of the worker that the abstract machine does not see.
Hidden == mode' = mode /\ LockHeld' = LockHeld /\ publishing' = publishing

LEMMA HiddenStutters == Hidden => UNCHANGED TeleopPromise!vars
BY DEF Hidden, TeleopPromise!vars

\* The abstract lock under the operations of the emergency stop.
LEMMA LockMoves ==
  ASSUME TypeOK
  PROVE  /\ estop' = estop => LockHeld' = LockHeld
         /\ estop' = Latched => LockHeld' = "locked"
         /\ estop' \in {Applied(estop), ExitConsumed(Applied(estop))} =>
              LockHeld' = LockHeld \/ (LockHeld = "engaged" /\ LockHeld' = "locked")
         /\ estop' = Applied(estop) /\ ~Applied(estop).exit => LockHeld' = LockHeld
         /\ estop' = Toggled(estop, TRUE) =>
              IF LockHeld = "free" THEN LockHeld' = "engaged" ELSE LockHeld' = "free"
         /\ estop' = Toggled(estop, FALSE) => LockHeld' = "free"
<1> USE EstopRampAssumption DEF LockHeld, TypeOK, Estops
<1>1. estop' = estop => LockHeld' = LockHeld
  OBVIOUS
<1>2. estop' = Latched => LockHeld' = "locked"
  BY DEF Latched
<1>3. /\ estop' \in {Applied(estop), ExitConsumed(Applied(estop))} =>
           LockHeld' = LockHeld \/ (LockHeld = "engaged" /\ LockHeld' = "locked")
      /\ estop' = Applied(estop) /\ ~Applied(estop).exit => LockHeld' = LockHeld
  BY DEF Applied, ExitConsumed
<1>4. estop' = Toggled(estop, TRUE) =>
        IF LockHeld = "free" THEN LockHeld' = "engaged" ELSE LockHeld' = "free"
  BY DEF Toggled, Inactive
<1>5. estop' = Toggled(estop, FALSE) => LockHeld' = "free"
  BY DEF Toggled, Inactive
<1> QED BY <1>1, <1>2, <1>3, <1>4, <1>5

LEMMA EnterStandingImplements ==
  ASSUME TypeOK, Safe, phase # "stopped", EnterStanding,
         \/ estop' = estop
         \/ mode = "velocity" /\ estop' \in {Applied(estop), ExitConsumed(Applied(estop))}
  PROVE  TeleopPromise!Next \/ Hidden
<1>1. CASE TakeOver
  <2>1. estop' = estop /\ mode \in {"idle", "damping"} /\ mode' = "standing" /\ publishing' = TRUE
    BY <1>1 DEF TakeOver, Land, DebugModes, TypeOK, Modes
  <2> QED BY <2>1, LockMoves DEF TeleopPromise!Next, TeleopPromise!Start
<1>2. CASE TakeOverFails
  <2>1. estop' = estop /\ mode' = mode /\ publishing' = publishing
    BY <1>2 DEF TakeOverFails, DebugModes, motors
  <2> QED BY <2>1, LockMoves DEF Hidden
<1>3. CASE ReturnToStanding
  <2>1. mode' = "standing" /\ publishing' = publishing /\ mode \in {"velocity"} \cup MocapModes
    BY <1>3 DEF ReturnToStanding, Land, DebugModes
  <2>2. LockHeld' = LockHeld \/ (mode = "velocity" /\ LockHeld = "engaged" /\ LockHeld' = "locked")
    BY LockMoves
  <2>3. CASE mode = "velocity"
    BY <2>1, <2>2, <2>3 DEF TeleopPromise!Next, TeleopPromise!LeaveVelocity
  <2>4. CASE mode \in MocapModes
    BY <2>1, <2>2, <2>4
    DEF TeleopPromise!Next, TeleopPromise!LeaveMocap, MocapModes, TeleopPromise!MocapModes
  <2> QED BY <2>1, <2>3, <2>4
<1> QED BY <1>1, <1>2, <1>3 DEF EnterStanding

LEMMA EnterDampingImplements ==
  ASSUME TypeOK, EnterDamping
  PROVE  TeleopPromise!Next
<1>1. mode' = "damping" /\ LockHeld' = "locked" /\ publishing' = FALSE
  BY LockMoves DEF EnterDamping
<1> QED BY <1>1 DEF TeleopPromise!Next, TeleopPromise!Damp

LEMMA SendPositionsImplements ==
  ASSUME TypeOK, Safe, phase # "stopped", mode \in DebugModes, NEW kind, SendPositions(kind),
         mode' = mode, LockHeld' = LockHeld
  PROVE  Hidden
BY DEF SendPositions, Hidden, Safe, MotorsFollowMode

LEMMA EventImplements ==
  ASSUME TypeOK, Safe, ToggleVelocity \/ ToggleEstop \/ ToggleArms \/ TogglePause \/ EventsDone
  PROVE  TeleopPromise!Next \/ Hidden
<1>1. CASE ToggleVelocity
  <2>0. estop' = estop /\ LockHeld' = LockHeld /\ phase # "stopped"
    BY <1>1, LockMoves DEF ToggleVelocity, Handle
  <2>1. CASE EnterStanding
    BY <2>0, <2>1, EnterStandingImplements
  <2>2. CASE EnterVelocity
    <3>1. mode = "standing" /\ mode' = "velocity" /\ LockHeld = "free" /\ publishing' = publishing
      BY <2>2 DEF EnterVelocity, CanEnterVelocity, LockHeld, motors
    <3> QED BY <2>0, <3>1 DEF TeleopPromise!Next, TeleopPromise!EnterVelocity
  <2>3. CASE UNCHANGED <<mode, motors>>
    BY <2>0, <2>3 DEF Hidden, motors
  <2> QED BY <1>1, <2>1, <2>2, <2>3 DEF ToggleVelocity
<1>2. CASE ToggleEstop
  <2>0. mode' = mode /\ publishing' = publishing
    BY <1>2 DEF ToggleEstop, motors
  <2>1. CASE mode = "velocity"
    <3>1. IF LockHeld = "free" THEN LockHeld' = "engaged" ELSE LockHeld' = "free"
      BY <1>2, <2>1, LockMoves DEF ToggleEstop
    <3> QED BY <2>0, <2>1, <3>1 DEF TeleopPromise!Next, TeleopPromise!Engage, TeleopPromise!Release
  <2>2. CASE mode # "velocity"
    <3>1. LockHeld' = "free"
      BY <1>2, <2>2, LockMoves DEF ToggleEstop
    <3> QED BY <2>0, <3>1 DEF TeleopPromise!Next, TeleopPromise!Release, Hidden
  <2> QED BY <2>1, <2>2
<1>3. CASE ToggleArms
  <2>1. publishing' = publishing /\ LockHeld' = LockHeld
    BY <1>3, LockMoves DEF ToggleArms
  <2>2. mode' = mode \/ (mode \in MocapModes /\ mode' \in MocapModes \ {mode})
    BY <1>3 DEF ToggleArms, MocapModes
  <2> QED BY <2>1, <2>2
          DEF Hidden, TeleopPromise!Next, TeleopPromise!ToggleArms, MocapModes,
              TeleopPromise!MocapModes
<1>4. CASE TogglePause \/ EventsDone
  BY <1>4, LockMoves DEF TogglePause, EventsDone, Hidden, motors
<1> QED BY <1>1, <1>2, <1>3, <1>4

LEMMA ControlImplements ==
  ASSUME TypeOK, Safe, NEW keys \in RemoteInputs, Control(keys)
  PROVE  TeleopPromise!Next \/ Hidden
<1>1. CASE EmergencyStop(keys)
  BY <1>1, EnterDampingImplements, LockMoves DEF EmergencyStop, Hidden, motors
<1>2. CASE StartPressed(keys) \/ ReturnPressed(keys)
  <2>1. phase # "stopped" /\ EnterStanding /\ estop' = estop
    BY <1>2 DEF StartPressed, ReturnPressed, Transition, ReadRemote
  <2> QED BY <2>1, EnterStandingImplements
<1>3. CASE PursueMocapEntry(keys)
  <2>0. mode = "standing" /\ LockHeld' = LockHeld
    BY <1>3, LockMoves DEF PursueMocapEntry, Transition
  <2>1. publishing' = publishing /\ mode' \in {mode, "mocap"}
    BY <1>3 DEF PursueMocapEntry, TransitionToMocap, motors
  <2> QED BY <2>0, <2>1 DEF Hidden, TeleopPromise!Next, TeleopPromise!EnterMocap
<1>4. CASE CommandPlayback(keys) \/ NoTransition(keys)
  BY <1>4, LockMoves DEF CommandPlayback, ReplayClip, PauseOrResume, NoTransition, Transition, Hidden, motors
<1> QED BY <1>1, <1>2, <1>3, <1>4 DEF Control

LEMMA StepImplements ==
  ASSUME TypeOK, Safe,
         \/ IdleStep \/ StandingStep \/ MocapStep
         \/ \E verdict \in Verdicts : VelocityStep(verdict)
  PROVE  TeleopPromise!Next \/ Hidden
<1>1. CASE IdleStep
  BY <1>1, LockMoves DEF IdleStep, Hidden, motors
<1>2. CASE StandingStep \/ MocapStep
  <2>1. /\ phase # "stopped" /\ mode \in DebugModes /\ mode' = mode /\ LockHeld' = LockHeld
        /\ \E kind \in {"stand", "track", "hold"} : SendPositions(kind)
    BY <1>2, LockMoves DEF StandingStep, MocapStep, PolicyStep, DebugModes
  <2> QED BY <2>1, SendPositionsImplements
<1>3. CASE \E verdict \in Verdicts : VelocityStep(verdict)
  <2> PICK verdict \in Verdicts : VelocityStep(verdict)
    BY <1>3
  <2>0. phase # "stopped" /\ mode = "velocity"
    BY DEF VelocityStep, PolicyStep
  <2>1. CASE EnterDamping
    BY <2>1, EnterDampingImplements
  <2>2. CASE EnterStanding /\ estop' \in {Applied(estop), ExitConsumed(Applied(estop))}
    BY <2>0, <2>2, EnterStandingImplements
  <2>3. CASE /\ SendPositions("velocity") /\ ~Applied(estop).exit /\ estop' = Applied(estop)
             /\ mode' = mode
    BY <2>0, <2>3, LockMoves, SendPositionsImplements DEF DebugModes
  <2> QED BY <2>1, <2>2, <2>3 DEF VelocityStep
<1> QED BY <1>1, <1>2, <1>3

LEMMA LoopEndImplements ==
  ASSUME TypeOK, Publish \/ Stop \/ Raise \/ RequestStop \/ CommandsTaken
  PROVE  TeleopPromise!Next \/ Hidden
<1>1. CASE Publish
  <2>1. estop'.state = estop.state
    BY <1>1 DEF Publish, Aged, TypeOK, Estops
  <2> QED BY <1>1, <2>1 DEF Publish, Hidden, LockHeld, motors
<1>2. CASE Stop \/ Raise
  <2>1. mode' = mode /\ publishing' = FALSE /\ LockHeld' = LockHeld
    BY <1>2, LockMoves DEF Stop, Raise, Shutdown
  <2> QED BY <2>1 DEF TeleopPromise!Next, TeleopPromise!Stop
<1>3. CASE RequestStop \/ CommandsTaken
  BY <1>3, LockMoves DEF RequestStop, CommandsTaken, Hidden, motors
<1> QED BY <1>1, <1>2, <1>3

\* The mode graph, the hand-over of the motors and the VELOCITY lock that the
\* tutorials promise hold of the worker for every environment.
THEOREM WorkerImplementsTeleopModes == Spec => ImplementsTeleopModes
<1>1. Init => TeleopPromise!Init
  BY DEF Init, TeleopPromise!Init, LockHeld, Inactive
<1>2. TypeOK /\ Safe /\ [Next]_vars => [TeleopPromise!Next]_(TeleopPromise!vars)
  <2> SUFFICES ASSUME TypeOK, Safe, [Next]_vars
               PROVE  TeleopPromise!Next \/ UNCHANGED TeleopPromise!vars
    OBVIOUS
  <2>1. ReadIpc => Hidden
    BY LockMoves DEF ReadIpc, Drain, Hidden, motors
  <2>2. UNCHANGED vars => Hidden
    BY LockMoves DEF vars, Hidden, motors
  <2> QED BY <2>1, <2>2, HiddenStutters, NextCases, EventImplements, ControlImplements,
             StepImplements, LoopEndImplements
<1> QED BY <1>1, <1>2, Safety, PTL DEF Spec, ImplementsTeleopModes, TeleopPromise!Spec

\* A pause never outlives its session, whoever ends it.
THEOREM PauseEndsWithMocapAlways == Spec => []PauseEndsWithMocap
<1>1. Safe => PauseEndsWithMocap  BY DEF Safe
<1> QED  BY <1>1, Safety, PTL

\* A mocap request is dropped by every transition that leaves STANDING.
THEOREM RequestOnlyInStandingAlways == Spec => []RequestOnlyInStanding
<1>1. Safe => RequestOnlyInStanding  BY DEF Safe
<1> QED  BY <1>1, Safety, PTL
=============================================================================
