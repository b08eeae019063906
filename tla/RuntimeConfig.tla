----------------------------- MODULE RuntimeConfig -----------------------------
(***************************************************************************)
(* The configurations that the programs accept, as predicates on a record,  *)
(* and what is built from them: the robot's teleoperation runtime, its      *)
(* runtime under a high-level policy, and the components of a simulation.   *)
(***************************************************************************)
EXTENDS Integers, Sequences

None == -1
NaN == 9999
Null == "null"

\* cfg_get, of a key that a section gives a value, gives null, or lacks: a plain dictionary
\* hands out the null, a configuration object takes the default instead.
Lacking == "lacking"
Got(plain, value, default) == IF value = Lacking \/ (value = Null /\ ~plain) THEN default ELSE value
\* normalize_path_in_cfg: a path that must be there is neither empty nor null.
PathGiven(value) == value \notin {"", Null, Lacking}

Finite(x) == x # NaN
Positive(x) == Finite(x) /\ x > 0

-----------------------------------------------------------------------------
(* Sim2RealRuntime: _validate_new_runtime_config and __init__. *)

Provider(c) == Got(TRUE, c.provider, "bvh")
HandType(c) == IF c.hands THEN c.handDriver ELSE "none"
NeckType(c) == IF c.neck THEN c.neckDriver ELSE "none"

VideoParsed(c) ==
  c.video => /\ c.videoSource \in {"realsense", "mujoco", "test-pattern"}
             /\ c.videoWidth > 0 /\ c.videoHeight > 0 /\ c.videoFps > 0

\* The schema that the recorder is given; what it refuses is in Reviewers.
Review == INSTANCE Reviewers
Recorded(c) ==
  [key |-> c.cameraKey, width |-> c.cameraWidth, height |-> c.cameraHeight, fps |-> c.recordingFps,
   robot |-> c.robot, hand |-> HandType(c), neck |-> NeckType(c)]

\* The camera of the recording is the one whose pictures the headset gets.
OneCamera(c) ==
  /\ c.video /\ c.videoSource = "realsense"
  /\ <<c.videoWidth, c.videoHeight, c.videoFps>> = <<c.cameraWidth, c.cameraHeight, c.cameraFps>>
  /\ c.videoDevice = c.cameraDevice

RecordingFits(c) ==
  /\ Provider(c) = "pico4"
  /\ c.hands => c.sides = {"left", "right"}
  /\ ~(c.neck /\ c.dryNeck)
  /\ c.format = "hdf5" /\ c.control = "terminal" /\ c.quality \in 0..10
  /\ c.camera /\ c.cameraSource = "realsense" /\ c.recordingFps = c.cameraFps
  /\ Review!ConfigValid(Recorded(c)) /\ VideoParsed(c) /\ OneCamera(c)

RobotAccepts(c) ==
  /\ c.legacy = {} /\ ~c.policy
  /\ Provider(c) \in {"pico4", "bvh"}
  /\ c.hands => Provider(c) = "pico4"
  /\ c.neck => Provider(c) = "pico4" /\ c.neckDriver = "openneck"
  /\ c.recording => RecordingFits(c) /\ c.terminal
  /\ VideoParsed(c) /\ (c.video => c.videoSource \in {"realsense", "test-pattern"})

\* _start_processes, of a worker for the input that reads a headset.
Workers(c) ==
  {"reference", "robot_control"} \cup (IF Provider(c) = "pico4" THEN {"pico_input"} ELSE {})
  \cup (IF c.hands THEN {"hand_worker"} ELSE {}) \cup (IF c.neck THEN {"neck_worker"} ELSE {})
  \cup (IF c.recording THEN {"recording_worker"} ELSE {})

-----------------------------------------------------------------------------
(* HighLevelPolicySim2RealRuntime: what it parses and what it requires. *)

MaxActionHorizon == 50
PolicyParsed(c) ==
  /\ c.tcp /\ c.task \in 1..1024
  /\ Positive(c.timeout) /\ c.replan \in 1..MaxActionHorizon /\ c.jpeg \in 1..100
  /\ Finite(c.hold) /\ c.hold >= 0
PolicyCameraParsed(c) ==
  c.cameraSource \in {"realsense", "test-pattern"} /\ <<c.cameraWidth, c.cameraHeight, c.cameraFps>> = <<640, 480, 30>>

\* A limit is a pair; the joints have a sequence of lower and one of upper limits.
Below(pair) == Finite(pair[1]) /\ Finite(pair[2]) /\ pair[1] < pair[2]
JointLimits(c, count) ==
  /\ Len(c.jointLower) = count /\ Len(c.jointUpper) = count
  /\ \A i \in 1..count : Below(<<c.jointLower[i], c.jointUpper[i]>>)
SafetyParsed(c, count) == Below(c.height) /\ Below(c.neckYaw) /\ Below(c.neckPitch) /\ Positive(c.rate) /\ JointLimits(c, count)

PolicyAccepts(c, count) ==
  /\ Got(TRUE, c.provider, "") = "high_level_policy" /\ c.policy
  /\ PolicyParsed(c) /\ PolicyCameraParsed(c) /\ SafetyParsed(c, count)
  /\ c.steps = <<0>> /\ ~c.recording
  /\ c.hands /\ c.handDriver = "linkerhand_o6" /\ c.sides = {"left", "right"} /\ c.calibrated
  /\ c.neck /\ c.neckDriver = "openneck" /\ ~c.dryNeck
PolicyWorkers(c) ==
  {"camera", "high_level_policy", "robot_control"}
  \cup (IF c.hands THEN {"policy_hand"} ELSE {}) \cup (IF c.neck THEN {"policy_neck"} ELSE {})

-----------------------------------------------------------------------------
(* The components of a simulation.  A policy has a file, an observation and a standing *)
(* pose; dim is the length of an observation, None if the file does not say.            *)

ObservationKinds == {"velcmd_history", "twist_cmd"}
\* _build_obs_builder: the command of a velocity has no reference to agree about.
ObserverBuilds(p, steps) ==
  p.kind \in ObservationKinds /\ (p.kind = "velcmd_history" => p.future \in {<<>>, steps})
PolicyBuilds(p, steps, single) ==
  /\ PathGiven(p.file) /\ (p.dual \/ single)
  /\ ObserverBuilds(p, steps) /\ p.dim \in {None, p.observed}
\* propagate_controller_defaults: a policy without a standing pose takes the robot's, but
\* for the one that walks, whose pose is another.
StandingPose(p, robot, propagates) == IF p.standing = Null /\ propagates THEN robot ELSE p.standing
WalkingBuilds(p, steps) == p.standing # Null /\ PolicyBuilds(p, steps, TRUE)

\* SimulationLoop: a step of the policy is a whole number of those of the motors.
RatesFit(s) == s.policyHz > 0 /\ s.pdHz >= s.policyHz /\ s.pdHz % s.policyHz = 0
Decimation(s) == s.pdHz \div s.policyHz
\* Only the present needs no buffer of the references.
Timeline == INSTANCE ReferenceTimeline
WindowFits(s) ==
  Timeline!ValidSteps(s.steps) /\ (s.buffered \/ \A i \in DOMAIN s.steps : s.steps[i] = 0)
SimulationBuilds(s) ==
  /\ s.provider \in {"bvh", "pico4", "udp_bvh"} /\ (s.provider = "bvh" => PathGiven(s.file))
  /\ s.humanHeight > 0
  /\ PolicyBuilds(s.mimic, s.steps, FALSE) /\ (s.walks => WalkingBuilds(s.walk, s.steps))
  /\ RatesFit(s) /\ WindowFits(s)

\* TeleopPipeline: who gives the velocities, unless the configuration says so.
CommandSource(s) ==
  CASE s.command # Lacking -> s.command
    [] s.command = Lacking -> IF s.provider = "pico4" THEN "pico_joystick" ELSE "keyboard"
SharesKeyboard(s) == s.walks /\ CommandSource(s) \notin {"pico_joystick", "merged_bsi"}
=============================================================================
