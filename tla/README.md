# Teleopit: TLA+ models, checks and proofs

Teleopit drives a Unitree G1 humanoid from a Pico 4 headset, from BVH clips, from velocity
commands or from a high-level policy, records what it does, and trains the policies that move
it. The part of it that can hurt somebody is *sim2real*: half a dozen processes that exchange
latest-only messages while one of them, the robot control worker, decides 50 times a second who
commands the motors and with what. This directory models that part first, then the recordings,
the simulator, the devices, the tools around them and the data sets that policies are trained on.
All paths below are relative to the repository root.

- [The system](#the-system): its parts, their state, how they interact, what must hold
- [The modules](#the-modules): how definitions correspond to code
- [The runs](#the-runs): what TLC checks, the bounds, the fairness
- [Disagreements](#disagreements): where code and documents part, and what was found
- [The proofs](#the-proofs)
- [What is left out](#what-is-left-out) and [the plan](#the-plan)

`PROJECT.json` holds the same as tables: components, runs, the mutant of the code that breaks
each property, the source lines of every definition, findings, hazards and theorems.

## The system

### Processes and topics

`Sim2RealRuntime` and `HighLevelPolicySim2RealRuntime` (`teleopit/sim2real/mp/`) start the
workers as processes. They share one stop event and, over ZeroMQ PUB/SUB sockets with high-water
marks of one and `recv_latest` on the reading side, these topics:

| topic | from | to | what can go wrong on the way |
|---|---|---|---|
| reference | reference worker | robot control | a reference computed before the current request arrives after it |
| command (arm, disarm, pause, resume, replay) | robot control | reference worker | dropped before the subscription exists; two commands conflated into the later one |
| mode | robot control | reference, hand and neck workers | a mode of a moment ago, or one that is skipped altogether |
| control events | Pico I/O worker | robot control | a button press lost because a later packet replaces it |
| session, observation | robot control | policy client | a pause dropped, a resume conflated with what follows |
| action, status | policy client | robot control | chunks and faults of a session that is over |
| target | robot control | policy hand and neck workers | a target of a moment ago |
| record, record command | robot control, supervisor | recording worker | the packet that says DAMPING dropped |
| video descriptors, pixels in shared memory | camera | recording worker | frames that are overwritten while they are read |

### Components

**Robot control worker** (`_RobotControlWorker`). State: `RobotMode`, the mocap session
(active or paused), the entry request and the re-entry flag, the reference gate (armed, arm
time, latest reference, count of consecutive valid ones), the emergency stop, the kp ramp, the
remote's previous keys; in the high-level policy configuration the policy session instead of the
mocap one. Operations: drain the topics, handle control events, handle the remote (Start, Y, X,
A, B, L1+R1), one policy step per mode, publish. It is correct when the motors are driven in
exactly the modes that need them, are damped before they are let go of and met with ramped
gains; when a session tracks nothing older than its own request; when no pause, no entry request
and no emergency stop leaks from one session into another.

**Emergency stop** (`teleopit/sim/estop.py`). State: inactive, ramping or latched, the age of
the 0.3 s ramp, an exit request. An engaged stop must end the VELOCITY session it was engaged
in, and only that one; a latched one must keep VELOCITY locked until it is released.

**Safety manager** (`teleopit/sim2real/safety.py`). The kp ramp that follows taking over or
returning to STANDING, and the verdict on joint speed and tilt that a VELOCITY step obeys.

**Latest-only IPC** (`teleopit/sim2real/mp/ipc.py`). A publisher never blocks and never knows;
everything built on it has to survive loss and conflation.

**Reference workers**. The BVH one plays a clip and obeys replay, pause and resume, but plays
only while the robot reports that it follows; the Pico one retargets body frames while it is
armed. Both are critical: if one dies, the robot is shut down. A clip must not run away from a
robot that is paused; a Pico session must own a freshly reset retargeter, because inverse
kinematics is warm-started from the pose before.

**G1 bridge** (`teleopit/sim2real/unitree_g1.py` and the publish thread of
`third_party/g1_bridge_sdk/src/g1_bridge.cpp`). Targets and two flags on one side, a thread
that writes frames to the motors at 200 Hz on the other. The thread must not write what a
previous session left, and must have written damping before it stops.

**High-level policy** (`high_level_policy_runtime.py`, `high_level_policy_worker.py`,
`high_level_policy/scheduler.py`). State on the robot: session number, pending entry with its
deadline, pause and resume, the chunk that is followed, the last command sent; in the client: the
session it serves, its host connection, the request in flight, whether the host must be asked
for a new session. Operations: start, pause, resume and stop a session, take a chunk or a fault,
publish an observation; connect, request, answer, fail. A supervisor reports dead input workers.
Late results of one session must not steer the next, a pause must end on fresh actions only, and
a client without a host session must not be left asking.

**Recording** (`_RecordingWorker`, `teleopit/recording/hdf5.py`) over the **shared frame ring**
(`mp/shm.py`). State: the open episode's rows and video in temporary files, its count, the moved
files, the manifest, what the worker last heard of robot and camera. Operations: start, add a
frame, save (close, move the video, move the rows, append to the manifest), discard, notice a
silent camera, shut down, recover at the next start. What the manifest names must load, at every
instant and after every crash, and nothing else may remain between episodes.

**Simulator** (`sim/session.py`). A single-process version of the mode machine under a keyboard
and a Pico; the second caller of the emergency stop. State: mode, pause, emergency stop, the
standing reference and its ramp, the buffer of retargeted references and its warm-up, two
consumers of one keyboard. `sim/velocity_session.py` is its counterpart without mocap: standing,
velocity and a final STOP, with a queue of one request. A STOP must end it, a stop or a verdict
must keep VELOCITY from stepping, and standing must keep the heading that walking left.

**Command sources** (`teleopit/commands`). The twists of VELOCITY: a debounced link of intents, the
sticks of the controllers, which take precedence, and keys that move while they are held; a tee
lets two consumers read one keyboard. Silence must end in standing still.

**Hands and neck** (`sim2real/hands`, `sim2real/neck`, the POLICY effector workers). Commands
gated by the mode and by the age of the last snapshot or target, with the open hand as the safe
state, and a runtime that disables itself when a command fails.

**Pico and UDP input** (`pico4_provider.py`, `tracker_arm_synth.py`, `tracker_replay.py`,
`udp_bvh_provider.py`, `realtime_frame_cache.py`, `_run_pico_io_worker`). A thread polls the device,
or the recording in its place; button edges become control events once; frames are stamped, freed
of jumps, cached and sampled; one worker publishes head, body, events, controllers and hands, each
numbered. A stream that fails must not take the others with it unless the code means it to.

**Video** (`inputs/pico_video.py`, `_run_high_level_policy_camera_worker`). Threads that own a
camera which may stall or vanish. They must let go of it and come back to it, and never outlive
the one who can stop them.

**Policy step** (`sim2real/reference_processor.py`, `controllers/`, `PolicyStepRunner`). What
brings a reference to where the robot is, and everything that is remembered between two steps:
alignment, last poses, velocities, the history of observations, the last action. A start, a pause,
a hold, an arms mode and a resume each forget a part of it; what is kept by mistake is a jump of
the robot.

**Offline playback** (`SimLoopSession` with a clip and `OfflinePlaybackController`). A pause, a
replay and the end of the clip, with the pose that is held meanwhile.

**Reference timeline** (`sim/reference_timeline.py`). Timed samples in a sliding window, a
bracketing search, fallbacks at both ends, and the check that a configuration asks for no more.

**Motion data sets** (`train_mimic/data`, `precompute_dataset.py`). State: the shards of a data
set, the cache of converted clips, the derived training shards. Operations: a build on one of two
routes, with a pool of converters or without, and a precompute. Each may be interrupted, and the
next command starts on what is left. A finished build must hold the clips of its sources, each
once; training must never meet half a shard.

**Motion sampling and benchmark** (`mdp/commands.py`, `benchmarking.py`). Clips are cut into
windows, windows numbered, centres sampled, advanced and rewound. `MotionCommand` keeps, for each
environment, a time in a clip and half a dozen things computed from it, which resets of some
environments must not mix up with those of others.

**Tools**: the recorder of Pico motion clips (`record_pico_motion.py`, a thread and a terminal), the
standalone standing controller (`standalone_standing.py`), the reviewer of recordings
(`view_recording.py`) and the viewer of data sets (`view_dataset.py`), whose panels leave requests
to a loop, and the windows of a simulation (`ViewerManager`, `viewer_subprocess.py`), a process
each.

**Configuration and construction** (`runtime/common.py`, `runtime/factory.py`, `pipeline.py`, the
constructors of both runtimes). Which configurations a program accepts and what it starts with
them. Whatever is accepted must have an input, a device and a policy that fit together.

**Supervisor** (`Sim2RealRuntime.run` and `shutdown`). Watches for critical and non-critical
deaths, joins for three seconds, terminates.

Retargeting and training are numeric; they are listed in `PROJECT.json` as not modelled. Of the
other numeric parts the models keep what has a state: the numbers themselves are left out.

### What is hard here

Nothing shares memory except the bridge thread and the frame ring, so the hazards are those of
messages: a flag that was true when it was sent, a command that was conflated, a reference that
belongs to the request before, a worker that is not there yet. Next come protocol sequences:
seven modes, nine buttons and events, three ways out of VELOCITY and two ways down, in
combinations nobody wrote a test for. Then there are files: an episode and a data set are made of
several, and a command may end between any two of them. `PROJECT.json` lists the hazards with
their lines and the properties that watch them.

## The modules

| module | models | extends |
|---|---|---|
| `LatestChannel` | one latest-only topic: `Published` drops what finds the queue full, `Received` is what `recv_latest` returns | |
| `Estop` | `EstopController` as functions on its state | |
| `TeleopModes` | the abstract promise: mode graph, who holds the motors, the VELOCITY lock | |
| `RobotControl` | the robot control worker of teleoperation against every environment | `Estop`, `LatestChannel` |
| `BvhTeleop` | the robot worker composed with `_run_bvh_reference_worker` | `RobotControl`, `ClipPlayback` |
| `PicoTeleop` | the robot worker composed with `_run_pico_reference_worker` | `RobotControl` |
| `G1Bridge` | the publish thread, which `RobotControl` takes for one step | |
| `PolicyTeleop` | the robot worker of the high-level policy, its client and dying inputs | `LatestChannel` |
| `FrameRing` | the shared-memory ring, torn copies and descriptors | `LatestChannel` |
| `EpisodeLog` | the abstract promise of recording: episodes taken and committed whole | |
| `RecordingSession` | the recording worker, its files, crashes and recovery | `FrameRing` |
| `SimSession` | the simulation session under keyboard and Pico | `Estop` |
| `Effectors` | the hand workers of teleoperation and POLICY | `LatestChannel` |
| `MotionDataset` | builds and precomputes of a motion data set | |
| `VelocitySession` | the simulation session without mocap and the command sources, as operators on their state | `Estop` |
| `ClipPlayback` | `OfflinePlaybackController`, used by `BvhTeleop` and `OfflineSession` | |
| `PolicyStep` | alignment of references, the steps of simulation and robot, a loaded policy | |
| `OfflineSession` | the playback of clips in `SimLoopSession` | `ClipPlayback`, an instance of `PolicyStep` |
| `PolicyChunks` | the wire, the limits and the schedule of the actions of a high-level policy | |
| `ReferenceTimeline`, `RealtimeInput`, `CameraStreams`, `DeviceWorkers` | timeline; providers and the Pico I/O worker; both users of a camera; hands and neck | |
| `MotionSampling` | what a shard holds, windows of clips, sampling, rollouts, `MotionCommand` | |
| `ClipRecorder`, `StandaloneStanding`, `Reviewers`, `ViewerProcesses` | the tools | |
| `RuntimeConfig` | what configurations start | instances of `Reviewers`, `ReferenceTimeline` |
| `MC…` | instances for TLC; assertions about the algorithms | the module of that name |
| `RobotControl_`, `BvhTeleop_`, `PicoTeleop_`, `RecordingSession_`, `SimSession_proofs` | theorems | the module of that name and `TLAPS` |
| `PolicyTeleop_proofs`, `MotionDataset_proofs` | theorems | the module of that name and `TLAPS`; instances of `PolicyChunks`, and of `MotionSampling` and `ReferenceTimeline` |
| `Actuators_proofs` | theorems | `G1Bridge`, `Effectors`, `TLAPS` |

### RobotControl

One iteration of the control loop is a sequence of phases, in the order of
`_RobotControlWorker.run`:

| phase | code | actions |
|---|---|---|
| `drain` | `_drain_ipc`, `_note_reference_packet` | `Drain`; `Stop` when the stop event is set |
| `events` | `_handle_mocap_control_events` | `ToggleVelocity`, `ToggleEstop`, `ToggleArms`, `TogglePause`, one step per event; `EventsDone` |
| `control` | `remote.update`, L1+R1, `_handle_transitions` | `EmergencyStop`, `StartPressed`, `PursueMocapEntry`, `CommandPlayback` (replay, pause, resume), `ReturnPressed`, `NoTransition` |
| `step` | the policy step of the mode | `IdleStep`, `StandingStep`, `MocapStep`, `VelocityStep` |
| `publish` | the mode packet and the sleep | `Publish`: time goes by here and only here |
| any but the first and last | an exception | `Raise`: the `finally` clause |

`_enter_standing`, `_enter_damping`, `_enter_velocity` and `_transition_to_mocap` are operators
that the actions include, with everything they call: `EnterStanding` disarms, clears the gate
and the entry request, tries to take the motors over when the mode needs that, resets the
session and arms the kp ramp. If `enter_debug_mode` fails, what was done before it stays done.

The data is cut down to what the properties tell apart. A reference packet is valid or not,
stamped after the current arm request or not, with the playback paused or not. Ages are three
classes: fresh enough to track, fresh enough to enter, too old. A low-level command has a kind
and a gain (ramped or nominal). The kp ramp counts the commands still to be ramped; the
emergency-stop ramp counts iterations. A packet whose sequence number is not newer is like one
that did not come. The VELOCITY verdict of the safety manager is any of its three values, since
the state of the robot is input.

Run alone, the worker meets any packet, any event tuple and any button of the instance, so
whatever it promises here it promises with any reference worker, any supervisor and any loss.

### BvhTeleop and PicoTeleop

Each replaces the free inputs of `RobotControl` by topics and adds the other process. A tick of
the BVH worker is three steps (command, mode, publish and advance); one of the Pico worker is
two (command, frame). The steps of the two processes interleave freely.

In `PicoTeleop` the retargeter's `memory` is clean, of this arm request, or of an earlier one;
a new request of the robot turns what is in flight and in memory into an earlier one's. The
worker starts with `tick = "starting"`: until it has subscribed, commands are lost. Retargeting
may fail, body frames may be invalid, and `tracking` comes and goes.

In `BvhTeleop` sampling a frame never fails: playback finishes on the last sample and never
asks for one past it.

### G1Bridge

The caller's `set_target` is two steps (arrays, then flags, `g1_bridge.cpp:147-158`); the
thread's iteration is three (test the flags, fill the frame, write it). The half second that
every caller sleeps after `set_damping` is `Settle`, the number of frames the thread surely
writes meanwhile: about a hundred in reality, and two are needed, because the one under way when
the request comes may still carry a position. Targets are told apart by session only.

### PolicyTeleop

The robot's loop has the phases of `RobotControl`: `DrainAlarm` and `DrainStep` read the
supervisor's report, `DrainFault` and `DrainActions` are `_drain_high_level_policy_ipc`,
`StartPressed` to `NoTransition` are `_handle_high_level_policy_transitions`, and `FollowStep`,
`ResumeStep` and `HoldStep` are `_high_level_policy_step` with and without a chunk to follow. The
client is `HighLevelPolicyWorker.run`: read a session command, connect if it is due, take the
newest observation, then answer or fail while other processes go on.

Sessions are numbered, and a stamp says how many times a resume had been asked for when an
observation was taken: that is all the resume compares. Deadlines, the horizon of a chunk and the
period after which a command is repeated are nondeterministic. `dead` is the supervisor's fault
command on its way or read. What `RobotControl` says of low-level commands is not repeated here,
and client and inputs stop mattering once the robot has stopped.

### FrameRing, RecordingSession and EpisodeLog

A frame is its number; copying it into a slot is two steps, between which the slot mixes two. A
descriptor goes out after the copy. A reader that has been lapped gets what the slot holds, newer
or torn: the code has no check, and the property says exactly how wrong that can be.

The recording worker is one loop: command, topics, video, stale camera. `Saving` is `save_episode`
file operation by file operation (`CloseOutputs`, `MoveVideo`, `MoveData`, `AppendManifest`,
`Saved`, with the failure of each); `Interrupt` raises between any two of them and reaches the
`finally` clause, `Kill` ends the process there, and `Restart` runs the recovery of
`_initialize_dataset`. A file is the number of frames in it. The manifest's own temporary file is
part of `AppendManifest` (it is replaced as a whole), the schema is taken as matching, and the
minimal length of an episode and the state of the effectors are nondeterministic. The rows of an
episode and the recorder's count are one number except where an operation can separate them
(`AddFrameFails`). A crash is one of the process, not of the disk. The world stands still while
the worker is down.

`EpisodeLog` is what the operator is promised: an episode is opened, taken frame by frame, and
committed with all its frames or dropped; the log never loses or changes an entry.

### SimSession

One iteration of `SimLoopSession.run` is `Poll` (the keyboard tee), one step per key, then the
fetch and step of the mode. `leg` counts the stretches of following, and a reference carries the
leg it was retargeted in; headings are numbered, and a VELOCITY step may turn the robot. A batch
of keys is any batch, which covers those that `KeyboardTee` delivers again. Pico events arrive
between iterations and are taken with the packet that carries them. The values of retargeted
poses, of policies and of twists are left out; `VelocitySession` has muting and priorities.

`VelocitySession` is `VelocitySimSession`, the session that knows STANDING, VELOCITY and STOP only:
`Iterated` is one iteration of its `run` on a record of its mode, the request it has queued, the
emergency stop, the heading its standing reference has and the push of the debug key T.

### Effectors

One module for the three hand workers that a configuration can start: `preset` and `gripper` are
`_run_hand_worker` with the Inspire preset mapper or the LinkerHand gripper mapper, `policy` is
`_run_high_level_policy_hand_worker`. A hand is open or closed as the last command that succeeded
said; a command that fails leaves it as it was, and a device that skips what it was last sent
changes nothing. A controller that is not there is a released trigger; the debounce is a press
that may be swallowed. The order of targets is that of their topic, so the sequence test of
`_policy_target_is_current` never bites and is left out; a target's age is nondeterministic. Only
the gripper mapper asks for the age of the snapshot. The robot is any robot.

### MotionDataset

One command at a time: `StartBatch` and `StartClips` are the two routes of
`build_dataset_from_spec`, `StartPrecompute` is `precompute_dataset.py`. In the pool, workers
begin and end chunks (batch) or clips in any order, raise, or fail with an `OSError`, on which the
code repeats everything serially. Renaming is one step per chunk; the clips route has a state
between its complete shard and the clearing of its cache. What filters and preprocessing
keep is any subset of the clips. An interrupt ends a command with its pool between any two steps;
a removal of the directory that is cut short leaves any part of it. A torn file is one that
HDF5 refuses to open, which is passed over; one that opens and is incomplete makes the precompute
fail, which is `PrecomputeStops`.

### Operators and their assertions

Much of the program keeps its state in one object that one thread calls, or exchanges so little
with another that a short script meets every case: providers, schedules, drivers, tools. Such a
part is a module of operators from a record of its state to the next, with the outcomes of the
calls that may fail as arguments. What it promises is asserted (`ASSUME`) in an MC module over all
scripts of a small length, so that the run of that module evaluates it, and each assertion was
seen to fail on broken variants of the operators. The assertion's comment says what it means;
here they are by module. *Shows* marks one that says that something surprising is reached.

| module | code | asserted in | assertions |
|---|---|---|---|
| `ReferenceTimeline` | append, trim and sample of the timeline; `ReferenceWindowBuilder` | `MCPicoTeleop` | `BufferStaysOrdered`; `WindowSuffices`: trimming shows only at the edge; `SupportedStaysInside`: a validated configuration samples inside the window |
| `RealtimeInput` | the providers and their cache | `MCPicoTeleop` | `CacheIsContinuous`: nothing is interpolated over a gap; `SamplersAgree`: both providers' searches find the same place; `EventsArePresses` |
| | the poll thread of the Pico, with the worker | `MCPicoTeleop` | `EventsComeOnce`: whoever reads them; `FramesArePublished`: a body that cannot be used keeps nothing else back; shows `DeadInputLooksHealthy` |
| | the receiver of the UDP input | `MCPicoTeleop` | `ReceiverLetsGo`: its socket is open exactly while its thread lives |
| | `TrackerArmSynthesizer` | `MCPicoTeleop` | `BodiesAreRecent`: no body of a wrist that was lost too long ago; shows `LeftHidesRight` |
| | `TrackerReplayBridge` | `MCPicoTeleop` | `ReplayGoesOn`: numbers and times go on over the seam of two rounds |
| | `_run_pico_io_worker` | `MCPicoTeleop` | `NumbersGoOutOnce`; `HeadFailsAlone`; `EventsNameBody`: events are not lost to a body that cannot be read |
| `CameraStreams` | `pico_video.py` | `MCPicoTeleop` | `CameraIsLetGo`; `CameraComesBack`; `NoOrphanCamera`; `FramesArePaced` |
| | `_run_high_level_policy_camera_worker` | `MCEffectors` | `OneCamera`: it never exchanges its camera nor resets another; `StallIsRecovered` |
| `DeviceWorkers` | both neck workers | `MCEffectors` | `NeckFollowsTheLiving`; `NecksAreClosed`; `PolicyNeckIsTold`; `PolicyNeckFollowsSession` |
| | drivers and mappers of the hands | `MCEffectors` | `AcceptedHandsActuate`; `PublishedPoseIsTheHands`; `SkippedPoseIsThere`: a pose that is not sent again is there; `ForcedPresetArrives`; `EndedWorkerHoldsNoHand`; `TrackedHandsOpenOnce` |
| `PolicyChunks` | `HighLevelPolicyClient`, `protocol.py` | `MCPolicyTeleop` | `AnswersAreToRequests`: however late earlier answers come; `RefusalKeepsSocket`; `EchoRefusesLateAnswer`; `ArraysKeepShape`; `MessagesFit` |
| | the values of `HighLevelPolicyScheduler` | `MCPolicyTeleop` | `AcceptedIsWithinLimits`; `OutputsReachActions`: rate limits approach, never overshoot and arrive, place and height under one norm |
| | its times | `MCPolicyTeleop` | `PausesDoNotCount`; `AcceptedIsFollowed`; `ActionsInOrder`; `ReferenceWasFollowed`: the reference told for a camera frame is the one followed then |
| `PolicyStep` | `reference_processing.py`, the session frame | `MCSimSession` | `ReferencesMoveAsOne`: a session's references are moved like one rigid body; `WindowFollowsPose`; `FrameIsRigid` |
| | the steps of simulation and robot | `MCSimSession` | `FirstStepsAreCalm`: no jump after a resume or change of the arms mode; `SimulationAsRobot`; `ArmsModeStands`; shows `EntriesDiffer`, `HoldIsAlignedTwice` |
| | `RLPolicyController` | `MCSimSession` | `HistoryIsTheNewest`; `ResetForgets`; `TargetsAreBounded`; `SettingsAreChecked`; shows `WrongObservation` |
| `OfflineSession` | playback of clips | `MCSimSession` | `PlaybackHoldsWhatItPlayed`; `PauseLosesNothing`; `TwoPressesPlayOn`; `ClipEndsSession` |
| `VelocitySession` | `VelocitySimSession` | `MCSimSession` | `NoStepAgainstStop`: no VELOCITY step under a latched stop or a verdict; `StandingKeepsHeading`; `StopEndsSession`; shows `ExitUndoesStop`, `PushOutlivesVelocity` |
| | `VelocityStepController`, the ways into and out of VELOCITY | `MCSimSession` | `HandOffIsContinuous`: in simulation the first observation of VELOCITY claims what was commanded last; shows `RobotClaimsAnotherTarget`, `ReturnIsStale` |
| | the BSI link, the sticks, their priority, held keys, the tee | `MCSimSession` | `LinkFollowsRuns`: the intent that is followed is that of the last long enough run of packets since the link was silent; `KeysMoveWhileHeld`; `TeeServesBothOnce`; shows `OverrideHidesSilence`, `EarlyPollRepeats` |
| `ViewerProcesses` | `ViewerManager` and its processes | `MCSimSession` | `RequestsAreWindows`; `WindowsDrawWrites`; `SessionNeedsAWindow`; `WindowsClose`; `CameraSeesTheBody`; shows `LateCamera` |
| `MotionSampling` | clips that are resampled, merged, cut, derived, validated and loaded | `MCMotionDataset` | `RetimedClipsAgree`: every array of a clip is resampled at the same times, none beyond its end; `ShardsHoldTheClips`: what training loads of a shard are the clips that were put into it; `VelocitiesStayInClips`: no velocity is taken across two clips; `SamplesAreOfTheClip`; `ArraysAgree` |
| | windows of clips, sampling, rollouts | `MCMotionDataset` | `TrainedStepsCanRun`; `WindowsCoverClips`; `CutsLoseNoSample`; `SamplesStayInWindow`; `CentresStayCentres`; `BenchmarkNumbersAgree`; `RolloutsStayInWindow`; and `ChunksPartition` of the builder |
| | `MotionCommand` | `MCMotionDataset` | `CachesAreCurrent`: nothing kept of a reference is older than it; `EnvironmentsStaySampled`; `ResetsAreApart`; `ResetToIsWhole`; `PlayedClipsHold` |
| `ClipRecorder` | the Pico motion recorder | `MCMotionDataset` | `ClipsAreWhole`: only frames of its own recording, in order; `ClipsRunNoSlower`; `FailureIsHeardOf`; `LongRecordingsEnd`; `ClipFilesAreKept` |
| `Reviewers` | `view_dataset.py` | `MCMotionDataset` | `OrderShowsAll`; `CutShardsAreRefused`; `OneClipIsShown`; `ClipsAreReached`; `PlaybackIsNeverFaster`; `SliderWaits`; shows `LaterButtons` |
| | schema, frames and `view_recording.py` | `MCRecording` | `WrittenSchemasLoad`; `TakenFramesLoad`: what was recorded can be reviewed, unless a frame failed to be encoded or written; `OneVideoOpen`; `WholeRecordingsRunOn`; `FrameIsShown`; shows `LostScrubIsUndone` |
| `StandaloneStanding` | `standalone_standing.py` | `MCG1Bridge` | `RobotIsGivenBack`; `TargetsAreRamped`; `FastRobotIsDamped`; `CyclesAreReportedOnce` |
| `RuntimeConfig` | acceptance and construction | `MCG1Bridge` | `OneProgramForARobot`; `WorkersHaveTheirInput`; `RecordingsCanBeFilled`; `PolicyHasItsRobot`; `PoliciesGetTheirObservations`; `PosesAreNotMixed`; `SomebodyCanWalkTheRobot`; shows `NullIsNotLacking` |

The assertions on `VelocitySession` hold in whatever `Reached` finds within five iterations, from
every key and four batches of two, both headings and every verdict: enough to engage a stop, to
let its ramp of two steps end, and to ask for something else in the iteration after.

In `PolicyStep` a pose is a place on the floor, a heading in quarter turns, the joints of the body
and those of the arms; a velocity is what two poses are apart. That is enough to tell a reference
that was moved from one that was not, and a velocity that was computed across a jump from one of
rest. `SimFollows` and `RobotFollows` are the whole of a step in the simulation and on the robot,
their order of alignment, smoothing, velocities and memory included, so that `SimulationAsRobot`
compares the two programs and not two copies of one operator.

In `PolicyChunks` an answer is what it echoes; bytes are counted and not kept. The REQ socket that
a late answer costs is a number, so that an answer to another socket can be seen to be dropped.
Headings are eighths of a turn, the values of an action small numbers; an action is approached by
at most one unit of each part per sample.

In `DeviceWorkers` a driver is what it was told, what it takes itself to have been told and what it
holds open. Every call of a device may fail. `AcceptedHandsActuate` runs over configurations with
levels in sixths, so that calibrations, open and close poses of the right and the wrong order are
among them.

In `ClipRecorder` a frame is its number, the thread ticks once per unit of time, and the terminal
acts between; a copy that is being written is the only state of the terminal that the thread does
not see. In `Reviewers` speeds are quarters, and an episode is what loads and decodes of it; what the panel asks for may come before an
iteration and between its parts. In `ViewerProcesses` a picture is the height of its lowest foot.

`RuntimeConfig` has a configuration as a record of the entries that decide on something, with
shipped values, and asserts over all that differ from a shipped one in at most two entries.

Time is counted in ticks, several to a frame, and the "last float before" of the code is the last
tick before. Late frames overwrite the newest pose of the timeline, as the code does; with a
window of exactly the required length the oldest history sample may be the frame just after its
target. A Pico frame with the body of the last one is no new frame, and the ground is measured
anew after a gap. Clips of one frame are filtered when they are loaded. The default overlap of
windows, 64 of 512 frames, is what `CutsLoseNoSample` needs as long as history and future steps
reach less than 64. The timeline of `ReferenceWasFollowed` has a control step on every beat;
stalls of the control loop are not scripted.

## The runs

| run | instance | what it shows |
|---|---|---|
| `robot_pico` | Pico, no VELOCITY; five buttons and L1+R1; up to two events per packet | the safety properties of the worker, against every environment |
| `robot_velocity` | VELOCITY stack, fair loop | the emergency stop, the entry request, refinement of `TeleopModes`, the end of a stopped session |
| `bvh_teleop` | two processes, topics of one place, fair | clip and session keep together in spite of lost commands and modes |
| `pico_teleop` | two processes, topics of two places, fair | retargeter ownership, every entry answered; assertions on timeline, input, Pico I/O worker and video |
| `g1_bridge` | thread and caller, `Settle` 3 | no stale frame, damped release, targets arrive; assertions on the standalone controller and on configurations |
| `policy_teleop` | robot, client, dying inputs; two sessions, one resume, topics of one place, fair | sessions neither leak nor hang; refinement of `TeleopModes`; assertions on wire, limits and schedule of the actions |
| `recording` | worker, files, ring of two slots and three frames; two episodes, one restart; fair worker | what the manifest names loads; refinement of `EpisodeLog`; a silent camera ends the episode; assertions on schema, frames and reviewer |
| `sim_session` | batches of two keys and packets of two events, three stretches of following | stop and mode, heading, fresh references, the end of a stopped session; assertions on the session without mocap, twists, policy step, loaded policy, offline playback and windows |
| `effectors` | each of the three hand workers, one mode of each kind, two policy sessions, fair | hands open when they must, also after a failure between the two; assertions on drivers, mappers, neck and policy camera |
| `motion_dataset` | two builds of one or three clips, two workers, precomputes between | builds exact, clips once, training shards whole and current; assertions on windows, `MotionCommand`, clip recorder and data set viewer |
| `ramp_abort`, `pico_estop` | small, expected to fail | one disagreement each, see below |

Type invariants are not in the runs: they are proved for every instance (below), and were checked
with TLC before.

### Safety properties

Of the robot worker:

- `MotorsFollowMode`: the bridge publishes exactly in STANDING, MOCAP, ARMS and VELOCITY, in
  spite of `enter_debug_mode` failing half way through `_enter_standing`.
- `MocapRunsOnPostArmReference`: a Pico session never runs on a reference stamped before its own
  arm request, whatever is in flight when it is made.
- `PauseEndsWithMocap`: no pause outlives its session.
- `LimpOnlyAfterDamping`: without VELOCITY the bridge never stops on a position target.
- `NoHardStart`: the first positions after a lock or damping go out with ramped gains.
- `RequestOnlyInStanding`: a pending entry request does not survive a visit to VELOCITY.
- `NeverDrivesLatched`: no VELOCITY under a latched stop.
- `ImplementsTeleopModes`: every step is a step of the abstract mode machine or a stutter, with
  `lock` the state of the emergency stop and `driven` whether the bridge publishes. The POLICY
  configuration implements the same machine with POLICY in the place of MOCAP.

Of the compositions:

- `SessionOwnsRetargeter`: while the robot follows it, the Pico worker is armed and has been
  reset since the request, unless requests crossed commands (`crossed`, below).
- `FinishedClipStaysPaused`: only a replay gets a finished clip off its last frame.
- `ReleasedDamped`, `NoStaleTarget`: the last frame before release is a damping frame, and no
  frame carries an earlier session's target although the thread starts before the new target
  exists; what covers the gap is the damping request of the previous release.

Of POLICY: `SessionMatchesMode` (a session is open exactly while an entry waits or POLICY runs),
`FollowsOwnSession` (a chunk that is followed or held is of the present session),
`LostHostIsRenewed` (a client whose host session is lost is paused until it may connect again) and
`ResumesOnFreshChunk` (a pause ends on a chunk asked for after the resume).

Of recording: `SavedEpisodesLoad`, `OnlySavedBetweenEpisodes`, `DescribedFrame` and
`ImplementsEpisodeLog`, the first two with `DiscardOnShutdown`, which is the default of the
configuration; without it they do not hold, see below.

Of the simulator: `StopMatchesMode` (latched only in STANDING, ramping only in VELOCITY),
`HoldsHeading` (STANDING and ARMS command the robot's own heading, though pose B is given in the
world and VELOCITY has turned the robot) and `FollowsFreshReference`.

Of the hands: `FailureLeavesHandsOpen`. Of the data sets: `FinishedBuildIsExact` and `NoClipTwice`
(both except after the serial fallback, see below), `TrainingReadsWholeShards` and
`ForcedPrecomputeIsCurrent`.

### Liveness, and why its fairness is justified

- Loops: `WF` of each worker's loop. Each is one thread that polls with zero timeout and sleeps a
  bounded time; no call of theirs waits for another process without a timeout.
- `EstopEndsVelocity` and, in the simulator, `EngagedStopLands` need only the loop: an engaged
  stop takes the robot out of VELOCITY unless it is released. Every iteration takes the ramp at
  least one step further.
- `ClipWaitsForRobot` and `PausedClipPausesSession` need both loops. Mode packets and references
  are sent on every tick, so a lost one is made up for; that is what the runs confirm.
- `EntryIsAnswered` (`<>[]tracking => []<>~entryRequested`, or the process ends, or requests
  cross commands) further needs:
  subscription ends (`SF Subscribe`: the worker's start-up is finite, though commands keep being
  lost meanwhile); the retry period goes by; while the Pico tracks, some frames are retargeted;
  and some references arrive within the accepted age. Without the last one the robot may be
  slow for ever and the code rightly refuses to enter.
- `PauseReachesClient` needs both loops and `SF` of a control step without a transition that
  publishes: the period after which a command is repeated goes by. `DeadInputPausesPolicy` needs
  `SF DrainAlarm`: the supervisor repeats its report until it exits, and some repetition finds
  room.
- `SilentCameraEndsEpisode` needs the worker's loop only: it looks at the clock every time round.
- `RestsWhenLeft` and `DeadmanOpens` need the robot to go on publishing its mode, the worker's
  loop, and `SF` of a tick in which the rate limit of a hand lets a command through.

`crossed` is a history variable of `PicoTeleop`; no action reads it. It is set when the robot
makes or takes back a request before the last command has been read, and cleared when both workers
are idle with nothing under way. Nothing in the code prevents such a crossing: the worker reads
its command topic between two frames, a frame may take longer to retarget than a control period
of 20 ms, and a toggle out of VELOCITY with Y held sends DISARM and ARM in one period. What then
happens is not excluded, because the code does not: TLC finds both when the exception is dropped.

- The DISARM is lost, or conflated with the ARM after it: the worker, still armed, resets nothing,
  and the session starts bent towards the last pose of the one before.
- The worker stalls over an ARM and a DISARM, sends one more reference, then reads the DISARM; the
  robot, which has asked again meanwhile, has a reference and no longer repeats the ARM
  (`_arm_mocap_reference_if_needed` returns early once one is known). The entry hangs until the
  operator starts over.

The two properties say that a crossing is the only way to either. An ARM that is repeated, a lost
one, pauses and resumes with commands unread, a worker that is slow or still starting are no
crossings, and are covered.

`CHECK_DEADLOCK FALSE` is set where the system may stop: workers that have shut down, commands
that have ended with the bound on builds reached. `MCG1Bridge` has no such end and is checked for
deadlock.

### Bounds

- Ramps of one or two commands: `NoHardStart` needs the boundary between the last ramped and the
  first nominal command. The proofs are for every length.
- `CheckFrames` 0 to 2: no check, the first valid reference, and one more than the first.
- `EstopRamp` 1 and 2: a ramp that is still running in one step and over in the next.
- `Capacity` 1 (a message that finds the topic full is lost) and 2 (commands are conflated); the
  real queue holds one message at each end.
- At most one button at a time and L1+R1; in `pico_teleop` start, Y, and X with Y, where a held Y
  arms the re-entry on the way out of a session (DAMPING ends a request as STANDING does). The remote handles one transition per iteration, so a
  second button only matters through the order of the tests, which `ReturnPressed` spells out.
- Two events per packet: what two Pico frames within one 8 ms poll can produce.
- `Duration` 1: playing, paused in the middle, and finished. `Settle` 3: one more than needed.
- Two policy sessions and one resume: late results need one session before the present one, a
  stale chunk one resume. 503,886 states.
- Three frames in a ring of two slots: the writer laps a held descriptor. Two episodes and one
  restart: a save beside a saved one, a recovery of either. 349,356 states.
- Three stretches of following, a warm-up and a ramp of two steps, one turn. 607,515 states.
- One robot mode in which the trigger acts, one in which it does not, one whose entry opens the
  hands. 294,513 states.
- Two builds, of which the second finds the remains of the first, of one clip or three in two
  chunks of unequal size. 2,214,391 states.

### Mutants

Operators with the comment "Mutant of" are versions of a definition with a plausible bug: a
condition that is dropped, a flag that is not reset, a command that is not sent. Replacing the
definition by the mutant must make TLC find the property violated; none is used otherwise.

## Disagreements

Two have a run that checks what a document says and finds it violated.

- `ramp_abort`: a normal exit from VELOCITY should abort an emergency stop that is ramping
  (`sim/estop.py:8`); `on_standing()` has no caller in the robot worker.
- `pico_estop`: in simulated VELOCITY the emergency stop of the Pico is thrown away with the packet
  that carries it (`sim/session.py:743`), where the key maps give it to both.

The others were met while modelling; the models reproduce most of them, but no run is kept.

Robot:

- A fall in VELOCITY, and L1+R1, hand the motors back without damping them, because
  `_enter_damping` (`runtime.py:2525`) lists every driven mode but VELOCITY; shutdown does list
  it, and `docs/wayfinder/2026-08-21-bsi-realhw/tickets/05-real-safety-envelope.md:39` asks for
  damping. `LimpOnlyAfterDamping` is therefore about robots without VELOCITY. After such a fall
  the publish thread of the next session starts on the last target of the fallen one, since
  neither flag was cleared; `NoStaleTarget` is about the same robots.
- An exit request raised in a step that a tilt verdict ends stays pending and ends the next
  VELOCITY session at its first step.
- A reference sent just before the reference worker reads the resume pauses the robot's session
  again, and the operator has to press twice.
- A tilt verdict lands in STANDING at once, where `safety.py:139-140` speaks of a graceful 0.3 s
  ramp. A later, shorter kp ramp replaces one that is running, so that a return within
  `startup_ramp_duration` raises the gains abruptly to the return ramp's floor. Y replays a BVH
  clip from its first frame, where `docs/docs/tutorials/bvh-sim2real.md:61` says it starts at the
  current playback position.
- The robot enters VELOCITY with the raw action of the mimic policy as the previous one
  (`runtime.py:1597`) and calls that `begin_velocity_handoff` semantics, which is "not its raw action"
  (`sim/velocity_step.py:139`): with other poses and scales it claims a target that was never commanded
  (`RobotClaimsAnotherTarget`). On the way back `runtime.py:2431-2435` keeps "the last live action";
  no VELOCITY step has touched it, so that it is the one of before VELOCITY (`ReturnIsStale`).
- An entry into debug mode that fails after it released the onboard mode leaves the robot without a
  controller: the cleanup of the standalone program gives back only what an entry that succeeded took.
- `build_with_reference_window` aligns a reference held in a window a second time
  (`HoldIsAlignedTwice`). No builder that ships implements it, so nothing meets it yet.

Policy step:

- The simulation's entry into MOCAP leaves the first reference where it was recorded; the robot puts
  it on its base (`EntriesDiffer`). A resumed offline playback takes its first joint velocity from
  the robot's joints and not from the clip.
- An observation of the wrong length stays in the history of an ONNX policy whose input has no fixed
  dimension until it is pushed out; every step before that raises (`WrongObservation`).

Simulator:

- `KeyboardTee.poll` (`commands/keyboard_tee.py:48`) hands out the batch of the last drain again
  within a period; its docstring calls that benign because mode requests collapse, but the toggles
  E, B, A and C do not: one press of E may engage and release the stop.
- `VelocitySimSession.request_mode` says that STOP always applies. A STOP that Esc has queued, or
  that the joint speed demands, is undone when the exit request of an emergency stop falls into
  the same iteration: `run` (`sim/velocity_session.py:327-330`) then requests STANDING and applies
  it from STOP (`ExitUndoesStop`). A STOP is also overwritten by a V or B after it in
  one batch, if that asks for another mode than the present one.
  With the stop latched and an exit requested, an E in the same iteration releases the stop and
  still exits to STANDING.
- The push of T is said to last for a short burst, but is cleared only by its last VELOCITY step:
  if VELOCITY is left before, it stays on the robot (`PushOutlivesVelocity`).
- While the sticks override the BSI link it is not polled, so that the 1.0 s of silence of
  `commands/bsi_twist.py:7` go unseen: the first packet afterwards, whatever it says, finds the
  intent of before the silence followed (`OverrideHidesSilence`).
- `viewers: all` leaves the camera window out. `viewers: mocap` for an input without bone names, and
  a robot viewer without a model, end the session before its first step; a camera that the model
  lacks is noticed after other windows have been started (`LateCamera`).

Inputs:

- A body whose joints are no numbers ends the poll thread of the Pico: the head snapshot guards
  against it (`pico4_provider.py:618`), `_accept_pico_frame` does not. Nobody asks a realtime input
  whether it `is_available`; the worker goes on and its health packets say so (`DeadInputLooksHealthy`).
  A UDP receiver that has ended goes on offering its last frame just so.
- The right tracker is not looked at while the left one is missing, so that its hold is not renewed:
  it is missed although it was seen in the frame before (`LeftHidesRight`).
- A replayed recording that is exhausted answers every wait at once, and the poll loop repeats it
  without sleeping.

Recording:

- The record packet that says DAMPING is sent once (`runtime.py:2532`, `2787`) and may find its
  topic full; frames of a robot that is down are then written until the camera or the operator
  ends the episode.
- With `discard_on_shutdown` off, an episode that lost part of a frame may be saved with a row
  more than its count, which the viewer refuses (`tests/test_recording_viewer.py:144`); and an
  interrupt between the manifest's entry and the reset of the episode makes the `finally` clause
  save a second time, fail, and unlink the files of the entry it has just committed.
- The recorder takes rows with NaN, infinities and zero orientations, and a camera key that equals
  another column's; the reviewer refuses to load what is written. `TakenFramesLoad` and
  `WrittenSchemasLoad` are about the others. A frame that cannot be encoded leaves the columns
  longer than the episode until another is taken, and one that cannot be written leaves its picture in
  the video for good; what is saved after that does not load.
- In the reviewer, what is asked of slider or list between the read of the request before it and
  its reset is lost (`LostScrubIsUndone`), and a scrub of the episode before is applied, clamped, to
  the next.

Hands, neck and cameras:

- The preset mapper's memory of closed hands is not reset when a mode opens them
  (`hands/inspire_ftp.py`; `docs/superpowers/plans/2026-08-22-inspire-preset-grasp.md:17` expects
  the next press to close), so that the first press after it opens open hands.
- An opening on a mode change that fails is not tried again; closing the Inspire device leaves the
  hands as they are. `RestsWhenLeft` excepts both. An opening by the mode is not published either,
  so that the recorded pose stays the old one, and the Inspire runtime publishes none at its start,
  failure and close; it notes a pose before it is sent. A LinkerHand that does not take its speed
  keeps its interface open.
- The open pose of an Inspire hand without presets is refused (`_configured_open_hand_pose`) although
  `build_inspire_ftp` has defaults for it.
- The POLICY neck worker centres the neck when it closes whatever `center_on_shutdown` says, and
  keeps the torque on if centring fails. The neck of teleoperation stays turned when its mode ends.
- Any exception inside the video callback counts as a lost camera and is retried for ever.

Data sets:

- An `OSError` inside one task is taken for a pool that cannot be had
  (`dataset_builder.py:1381`); the serial build beside it leaves the finished `.…_chunk_i.h5`
  files, and `rglob("*.h5")` finds them: their clips are trained on twice.
- Training shards of an earlier, larger build stay and are trained on, even with `--force`;
  without `--force` an existing training shard is kept although its source was built anew.
- A killed build leaves part of a data set that the precompute accepts. An interrupt of
  `ingest_motion.py` leaves a raw or torn clip that counts as converted from then on.
- `parse_window_steps` says it mirrors the runtime's parser, but asks for a leading 0 where that
  asks for one anywhere; every list it accepts is accepted there (`TrainedStepsCanRun`).
- `rewind_min_steps` 0 is valid (`mdp/commands.py:456-467`) and lets a rewind leave the time at or
  after the end of its window, where frames are clamped; `CentresStayCentres` starts at one step.
- Reference steps into the future with a delay that resolves to a single frame make the Pico
  worker's window raise on every frame, inside the handler that logs: it publishes nothing.
- Relative targets of `MotionCommand` are those of before a reset until the next update.

Tools and configuration:

- A motion clip is written without the time in which the Pico stalled; a recording thread that fails
  is reported when the command under way ends.
- The data set viewer orders shards as text, `#10` before `#2` within one source; it plays a little
  slower than the clip's rate; a clip that does not load moves the cursor and leaves player and
  requests as they are.
- `cfg_get` returns an explicit null of a dictionary, and the default for one of a config object
  (`NullIsNotLacking`). The message of `parse_reference_steps` demands `[0, ...]` where a first step
  may be negative. A simulation may ask for sticks that its input does not have.

## The proofs

Eight modules prove, for every value of the constants that satisfies the named assumptions:

| module | what |
|---|---|
| `RobotControl_proofs` | types, every state property, both step properties, refinement of `TeleopModes` |
| `BvhTeleop_proofs`, `PicoTeleop_proofs` | types; every step is a step of `RobotControl` or a stutter of it; a finished clip stays paused; `SessionOwnsRetargeter` |
| `PolicyTeleop_proofs` | types, the three invariants, `ResumesOnFreshChunk`, refinement of `TeleopModes`; of `PolicyChunks`, for every value and any number of calls: the schedule of actions, their limits and rate limits |
| `RecordingSession_proofs` | `DescribedFrame`; with `DiscardOnShutdown` types, both data set invariants, refinement of `EpisodeLog` |
| `SimSession_proofs` | types and the three invariants |
| `Actuators_proofs` | `G1Bridge`: types, `NoStaleTarget`, `ReleasedDamped`, the machine of `RobotControl`'s motors; `Effectors`: types and `FailureLeavesHandsOpen` |
| `MotionDataset_proofs` | types, `FinishedBuildIsExact`, `NoClipTwice`, `TrainingReadsWholeShards`, `ForcedPrecomputeIsCurrent`; of `MotionSampling` and `ReferenceTimeline`, for every value and every length: windows, centres, rollouts, the timed buffer and the references of training |

The arguments:

- **RobotControl.** The inductive invariant is `TypeOK /\ Safe`. That a session tracks post-arm
  references only rests on the gate: while armed it holds nothing older than the request
  (`ArmedGateIsFresh`), because the first ARM clears it and `Accepts` filters from then on.
  `NoHardStart` rests on `RampFollowsLock`: a lock or damping that is the last command of a driven
  mode has a ramp ahead of it. That a driven mode without the VELOCITY stack is on the damping
  list rests on `VelocityNeedsItsStack`. `WorkerImplementsTeleopModes` maps the initial state to
  the initial state and each action, under the invariant, to a step or a stutter.
- **Compositions.** `BvhTeleopIsRobotControl` and `PicoTeleopIsRobotControl` carry all of this
  over to clips, warm-ups and topics of any size.
- **PicoTeleop.** `SessionOwnsRetargeter` speaks of a running session, but depends on all that was
  sent before. Two invariants hold as long as no request crosses a command. `CommandsInv` says that
  no DISARM is under way to the worker of an armed robot, and that an armed worker without an armed
  robot has the DISARM before it, alone; so the ARM that begins a request finds it idle, and its
  memory is clean. A crossing is over only when both are idle (`SettledOwns`), where both hold again
  because an idle worker remembers nothing, whatever crossed before (`IdleIsClean`). `MemoryInv` follows a valid reference from the frame to the gate: one that is
  stamped after the request, in the topic or in the robot, was made by an armed worker with memory of
  this request. A new request outdates what is under way, so it starts with nothing promised.
- **G1Bridge.** The invariant relates the caller's place to the flags and to what the frame and
  the wire may carry: released means no position on the wire and a damping request that stands;
  settling means that from the second frame on nothing but damping is written. `Settle` is at
  least two. `BridgeImplementsMotors` is about what the motors see, `MotorStep`: taken over silent,
  driven by the present session's target alone, and given back by the call that joins the thread,
  damped. That is what `RobotControl` keeps of the bridge, `publishing` and the last command.
- **PolicyTeleop.** `RobotInv` relates mode, pending entry, session and chunk in the robot;
  `Asked` and `TopicInv` say that whatever is under way carries a session and a stamp that were
  handed out before, so that an equal session number means the same session; `ClientInv` and
  `PhaseInv` do the same for the client and for the half-done iteration. `Moves` collects what a
  step may do to the mode, for the refinement.
- **RecordingSession.** `RingInv` bounds what a slot holds by the frames written; that two frames
  share a slot only a whole round apart is the lemma `SameSlot`, by modular arithmetic.
  `DatasetInv` says what holds of manifest and files always, `EpisodeInv` what the place of the
  worker allows beyond it: after `MoveVideo` the next index has a video and no rows, and so on
  through save, failure and recovery.
- **SimSession.** `SessionInv` ties emergency stop, pause and ramp to the mode, `Steady` says when
  the standing reference is on the robot's heading, `OwnFrames` that the buffer holds frames of
  the present stretch whenever it may be followed, `PlayedInv` what the last step commanded.
- **Effectors.** `HandInv` adds to types and property that the POLICY worker never disables
  itself: it ends instead.
- **MotionDataset.** That the chunks of a batch partition its clips is arithmetic, and comes
  first: `Division` and `ProductOrder` give the bounds of a chunk, `PlaceBound`, `ChunksCover` and
  `ChunksApart` say that every clip is in one and in no other, `KeptApart` and `ChunkFilesDisjoint`
  that their files hold no clip twice. `NoClipTwice` compares the names of clips, whichever build
converted them: it holds across builds because each of them clears the files of shards and of
chunks before it writes one. The inductive invariant adds what the place of the build
  allows: `Planned` ties its plan to its clips, `Resting` says that nothing is under way between
  commands, `Routes` and `CachePool` or `ChunkPool` what a pool has converted and written, and
  `Renaming` and `Writing` which files are there in the middle of the two ways to finish. The
  precompute has an invariant of its own, on which `TrainingReadsWholeShards` and
  `ForcedPrecomputeIsCurrent` rest (`Forcing`: what a forced one has been through is whole and new).
  The number of clips, of workers and of builds is any.

- **MotionSampling, ReferenceTimeline and PolicyChunks.** Fifteen assertions that TLC evaluates over
  small domains are theorems about the operators for every value, named after them
  (`WindowsCoverClipsAlways` and so on; `TrainingStaysSampledAlways` covers
  `EnvironmentsStaySampled` and `CachesAreCurrent`).
  Those about a single call are arithmetic of products and remainders (`Division`,
  `ProductMonotone`, `QuotientBelow`), with the extremes of a finite list of steps from
  `ReachedExtremes`. Those about any number of calls, the buffer after any number of frames, the
  schedule through any pauses, outputs after any number of samples and training of any length, need
  an induction. The library's induction theorems take an operator,
  which no installed prover can instantiate, but its `WFMin` takes sets: the sets `0..n` are well
  founded under inclusion, so every nonempty set of numbers has a least element (`LeastNumber`),
  and a least counterexample is excluded by the step before it (`ReachesAll`). A run is a function of the number
  of calls whose every value follows from the one before by a call of the code, with any arguments.
  For the buffer the invariant is that trimming after each frame is trimming once (`TrimmedOnce`):
  what is kept is what the window leaves of all frames ever stored. For training it is
  `CommandInv`: every environment is at a place where it can be sampled (`DrawnPlaces`), and what
  is kept of a reference is of that place. The hypotheses are `Library`, what loading and the
  configuration's checks guarantee, and that a rewind at the end of a clip goes back by a step at
  least. The latter is not checked by the code: with `rewind_min_steps` of zero an environment that
  failed at the end of its clip is put back to where it is, beyond its last centre. For the
  schedule the invariant is `Scheduled`, that a pause began by now; each call that keeps the chunk
  moves the place in it by the time that was not paused (`KeptSchedule`), a sample is a matter of
  that place alone, held at the first and the last action (`SamplePlace`), and so actions come in
  order. It is assumed of the clock that it does not go back, as `time.monotonic` does not. For the
  outputs the theorem is exact where the code's limits are separate: after `n` samples a joint and
  the heading have gone `n` rates of their way (`Left`), the heading the short way round
  (`TurnApproaches`). Place and height are scaled by one norm, and so share their way: in a sample
  they go together no further than `move`, the place no further than `speed`, neither away nor too
  far (`RootMoves`). Scaling rounds towards zero, and with limits of two units and of one a unit of
  the way is still gone in every sample (`ShortenedTogether`), so that the action is reached.

Assumed are the constants' assumptions, which TLC evaluates on every run, and the models
themselves. TLC found the invariants to hold before they were proved.

Model-checked only: all liveness properties (fairness and `ENABLED` are out of the prover's
reach) and the other assertions about the algorithms, which hold over the domains they name.
What a recursive function or a fold computes for every input would need induction over an
operator; the windows of merged shards (`BenchmarkNumbersAgree`) and the sizes of arrays
(`ArraysKeepShape`) are such cases.

## What is left out

- What the devices themselves do: bus protocols, SDKs, servos, the video encoder. The drivers are
  modelled by what they keep and what they do when a call fails.
- The join and terminate of the supervisor against a robot worker that sleeps: nothing in the code
  excludes it, and whether it happens is a matter of seconds. The kill of the recording worker is
  modelled.
- `toggle_mute` changes no state that the robot's models keep (`VelocitySession` has it). What
  `exit_debug_mode` reports is ignored by the code and by the model; what the onboard controller does
  with the motors afterwards is not ours.
- An exception ends the robot worker between two phases, never half way through one; the motors
  are driven by the bridge in either case and `shutdown` looks at the mode only.
- Numbers: poses, interpolation, filters, rate limits of actions, twists, the delay computed from
  the frame rate, metrics; retargeting, networks, the terms of observations and rewards, and the
  training loop. There is no state machine in them, and TLC has no real numbers.
- Wall clock: deadlines are classes of age or nondeterministic, and time passes in the sleep of
  the loop.
- `ingest_motion.py`, dataset downloads, what windows draw and the layout of the console: I/O, with
  no state that outlives a call except files described above.

## The plan

The suite is a dozen runs, one per module or composition, so that all of it is rerun on every
change. What would come next, in this order:

1. More of the assertions as theorems for every value, by `ReachesAll` where they speak of any
   number of calls: the clips of the Pico motion recorder (`ClipsAreWhole`) and the reference that
   is told for a camera frame (`ReferenceWasFollowed`).
2. `FrameRing` with more readers than one, and the lapping bound for each of them.
