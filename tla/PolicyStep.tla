----------------------------- MODULE PolicyStep -----------------------------
(***************************************************************************)
(* The steps of the motion-tracking policy and what they remember from one *)
(* to the next, as operators: the PolicyStepRunner of the simulation, with *)
(* the session's pause, resume and arms mode, and the same in the robot    *)
(* control worker around its Sim2RealReferenceProcessor.  A policy whose   *)
(* observations hold a window of references gets the window of a step.     *)
(* The joints of the body stand for what joint velocities are taken from.  *)
(***************************************************************************)
EXTENDS Integers, Sequences, SequencesExt

CONSTANTS
  Windowed,  \* obs_builder_requires_reference_window
  RestPose   \* default_root_pos and the default joints

-----------------------------------------------------------------------------
(* How a motion reference is brought to where the robot is: reference_processing.py, which *)
(* the simulation and the robot share, and the session frame of a high-level policy.  A    *)
(* pose is a place on the floor, a heading in quarter turns, the joints of the body and    *)
(* the joints of the arms; tilt and height are left out.                                   *)

\* What the code keeps in an optional is the empty sequence, or a sequence of one.
Unset == <<>>
Value(optional) == optional[1]

Plus(p, q) == <<p[1] + q[1], p[2] + q[2]>>
Minus(p, q) == <<p[1] - q[1], p[2] - q[2]>>

\* A vector turned left by k quarter turns.
Turned(v, k) ==
  CASE k % 4 = 0 -> v
    [] k % 4 = 1 -> <<-v[2], v[1]>>
    [] k % 4 = 2 -> <<-v[1], -v[2]>>
    [] k % 4 = 3 -> <<v[2], -v[1]>>

\* The turn from one heading to another, the short way; half a turn is to the left.
ShortTurn(from, to) == ((to - from + 1) % 4) - 1

\* rotate_motion_qpos_by_yaw
Rotated(pose, k, pivot) ==
  [pose EXCEPT !.at = Plus(Turned(Minus(@, pivot), k), pivot), !.yaw = (@ + k) % 4]

\* align_motion_qpos_yaw: turned on the spot to the heading of the robot.
FacingAs(pose, heading) == [pose EXCEPT !.yaw = heading]

-----------------------------------------------------------------------------
(* The fixed alignment of a stretch of following. *)

\* reset_alignment, reset_reference_alignment: forgotten, with the place where the
\* next first reference is to be put, or none.
NewAlignment(target) == [turn |-> Unset, pivot |-> Unset, offset |-> Unset, target |-> target]

\* The first reference after a reset fixes the turn that makes it face as the robot
\* does, about its own place, and the shift that puts it on the target.
Captured(a, pose, heading) ==
  LET turn == IF a.turn = Unset THEN <<(heading - pose.yaw) % 4>> ELSE a.turn
      pivot == IF a.turn = Unset THEN <<pose.at>> ELSE a.pivot
      shift == IF a.target = Unset THEN <<0, 0>>
               ELSE Minus(Value(a.target), Rotated(pose, Value(turn), Value(pivot)).at)
  IN  [a EXCEPT !.turn = turn, !.pivot = pivot, !.offset = IF @ = Unset THEN <<shift>> ELSE @]

Placed(a, pose) ==
  LET rotated == Rotated(pose, Value(a.turn), Value(a.pivot))
  IN  [rotated EXCEPT !.at = Plus(@, Value(a.offset))]

\* align_reference_yaw
Aligned(a, pose, heading) ==
  LET c == Captured(a, pose, heading) IN [alignment |-> c, pose |-> Placed(c, pose)]

\* align_reference_window: a window is its poses and the index of the present one.
NoWindow == [poses |-> <<>>, present |-> 1]
StaticWindow(pose, size) == [poses |-> [i \in 1..size |-> pose], present |-> 1]
AlignedWindow(a, window, heading) ==
  LET c == Captured(a, window.poses[window.present], heading)
  IN  IF window.poses = <<>> THEN [alignment |-> a, window |-> window]
      ELSE [alignment |-> c,
            window |-> [window EXCEPT !.poses = [i \in DOMAIN @ |-> Placed(c, @[i])]]]

\* compute_anchor_velocities: how far the anchor went and turned since the last
\* reference, none after a reset.
Resting == [went |-> <<0, 0>>, turned |-> 0]
AnchorVelocity(pose, last) ==
  IF last = Unset THEN Resting
  ELSE [went |-> Minus(pose.at, Value(last).at), turned |-> ShortTurn(Value(last).yaw, pose.yaw)]

\* compose_arm_reference: the arms of the reference on the standing pose.
ArmsOn(standing, pose) == [standing EXCEPT !.arms = pose.arms]
ArmsOnWindow(standing, window) ==
  [window EXCEPT !.poses = [i \in DOMAIN @ |-> ArmsOn(standing, @[i])]]

-----------------------------------------------------------------------------
(* PolicyFrameTransform: the frame in which a high-level policy acts. *)

\* from_robot_pose
FrameOf(pose) == [origin |-> pose.at, yaw |-> pose.yaw]

Localized(frame, pose) ==
  [pose EXCEPT !.at = Turned(Minus(@, frame.origin), 4 - frame.yaw), !.yaw = (@ - frame.yaw) % 4]
Delocalized(frame, pose) ==
  [pose EXCEPT !.at = Plus(Turned(@, frame.yaw), frame.origin), !.yaw = (@ + frame.yaw) % 4]

-----------------------------------------------------------------------------
(* PolicyStepRunner, and Sim2RealReferenceProcessor in the robot control worker. *)

\* A robot is its pose and whether its base position is known.
Robot(pose, based) == [pose |-> pose, based |-> based]

\* alignment, last retargeted and last reference poses, the joint velocities that the
\* smoother has mixed, last_commanded_motion_qpos, the pose that a pause holds, the
\* standing pose of the arms mode.
Fresh == [alignment |-> NewAlignment(Unset), retarget |-> Unset, reference |-> Unset,
          mixed |-> <<>>, commanded |-> Unset, hold |-> Unset, standing |-> RestPose]

\* A step as the policy sees it: the pose, its window, the velocities.
Observation(pose, window, joint, anchor) ==
  [pose |-> pose, window |-> window, joint |-> joint, anchor |-> anchor]
Outcome(memory, observation) == [memory |-> memory, observation |-> observation]

\* _compute_motion_joint_vel
JointVelocity(m, pose) == IF m.retarget = Unset THEN 0 ELSE pose.joints - Value(m.retarget).joints

\* finish_step, and the caller's last_commanded_motion_qpos.
Finished(m, pose) ==
  [m EXCEPT !.retarget = <<pose>>, !.reference = <<pose>>, !.commanded = <<pose>>]

-----------------------------------------------------------------------------
(* PolicyStepRunner and the simulation. *)

\* reset and reset_policy_reference_state, which end a pause too.
RunnerReset(m) == [Fresh EXCEPT !.standing = m.standing]

\* soft_reset_reference_state
SoftReset(m, resetAlignment) ==
  [m EXCEPT !.reference = Unset, !.mixed = <<>>,
            !.alignment = IF resetAlignment THEN NewAlignment(Unset) ELSE @]

\* prepare_motion_command, then build_observation with the window of the step.
SimFollows(m, pose, window, robot) ==
  LET a == Aligned(m.alignment, pose, robot.pose.yaw)
      w == AlignedWindow(a.alignment, window, robot.pose.yaw)
      velocity == JointVelocity(m, a.pose)
      anchor == IF Windowed THEN Resting ELSE AnchorVelocity(a.pose, m.reference)
      mixed == Append(m.mixed, velocity)
  IN  Outcome(Finished([m EXCEPT !.alignment = w.alignment, !.mixed = mixed], a.pose),
              Observation(a.pose, w.window, mixed, anchor))

\* prepare_static_motion_command: the pose is not aligned, its window is.
SimHolds(m, pose, window, robot) ==
  LET w == AlignedWindow(m.alignment, window, robot.pose.yaw)
  IN  Outcome(Finished([m EXCEPT !.alignment = w.alignment], pose),
              Observation(pose, w.window, <<0>>, Resting))

\* _build_robot_state_qpos: without a base position the robot is at the origin.
SimRobotPose(robot) == [robot.pose EXCEPT !.at = IF robot.based THEN @ ELSE <<0, 0>>]

\* _build_resume_alignment_qpos and _resolve_hold_qpos
SimResumePose(hold, robot) ==
  [SimRobotPose(robot) EXCEPT !.at = IF ~robot.based /\ hold # Unset THEN Value(hold).at ELSE @]
SimHoldPose(m, latest, robot) ==
  CASE m.commanded # Unset -> Value(m.commanded)
    [] m.commanded = Unset /\ m.retarget # Unset -> Value(m.retarget)
    [] m.commanded = Unset /\ m.retarget = Unset /\ latest # Unset -> Value(latest)
    [] OTHER -> SimRobotPose(robot)

\* _set_standing_reference: the default pose where the robot is, facing as it does.
SimStanding(robot) == FacingAs([RestPose EXCEPT !.at = SimRobotPose(robot).at], robot.pose.yaw)

\* enter_mocap_mode
SimEnters(m, robot) ==
  LET start == SimHoldPose(Fresh, Unset, robot)
  IN  [RunnerReset(m) EXCEPT !.retarget = <<start>>, !.commanded = <<start>>]

\* toggle_realtime_mocap_pause, from a live retargeting of latest.
SimPauses(m, latest, robot) ==
  LET hold == SimHoldPose(m, latest, robot)
  IN  [RunnerReset(m) EXCEPT !.hold = <<hold>>, !.commanded = <<hold>>]
SimResumes(m, robot) ==
  LET resume == SimResumePose(m.hold, robot)
  IN  [RunnerReset(m) EXCEPT !.alignment = NewAlignment(<<resume.at>>), !.commanded = <<resume>>]

\* toggle_arms_mode, into the arms mode or out of it.
SimTogglesArms(m, entering, robot) ==
  LET resume == SimResumePose(m.commanded, robot)
  IN  [RunnerReset(m) EXCEPT !.alignment = NewAlignment(<<resume.at>>), !.commanded = <<resume>>,
                             !.standing = IF entering THEN SimStanding(robot) ELSE @]

\* The arms are put on the standing pose before it is aligned.
SimFollowsArms(m, pose, window, robot) ==
  SimFollows(m, ArmsOn(m.standing, pose), ArmsOnWindow(m.standing, window), robot)

-----------------------------------------------------------------------------
(* The robot control worker. *)

\* _resolve_base_pos, _build_robot_state_qpos
RobotPose(robot) == [robot.pose EXCEPT !.at = IF robot.based THEN @ ELSE RestPose.at]

\* _build_resume_alignment_qpos: a known base position wins over the hold.
RobotResumePose(hold, robot) ==
  [RobotPose(robot) EXCEPT !.at = IF robot.based THEN robot.pose.at
                                  ELSE IF hold # Unset THEN Value(hold).at ELSE @]

\* _resolve_mocap_hold_qpos, whose last resort is at the origin.
RobotHoldPose(m, robot) ==
  CASE m.commanded # Unset -> Value(m.commanded)
    [] m.commanded = Unset /\ m.retarget # Unset -> Value(m.retarget)
    [] OTHER -> [robot.pose EXCEPT !.at = <<0, 0>>]

\* _set_default_standing_reference
RobotStanding(robot) == FacingAs([RestPose EXCEPT !.at = RobotPose(robot).at], robot.pose.yaw)

\* _reset_policy_state and _reset_policy_reference_state leave the last retargeted pose.
PolicyReset(m) == [Fresh EXCEPT !.standing = m.standing, !.retarget = m.retarget]

\* _execute_mocap_pipeline: the pose is aligned first, then given to the arms.
RobotFollows(m, pose, window, arms, robot) ==
  LET a == Aligned(m.alignment, pose, robot.pose.yaw)
      w == AlignedWindow(a.alignment, window, robot.pose.yaw)
      command == IF arms THEN ArmsOn(m.standing, a.pose) ELSE a.pose
      seen == IF arms THEN ArmsOnWindow(m.standing, w.window) ELSE w.window
      mixed == Append(m.mixed, JointVelocity(m, command))
      anchor == IF Windowed THEN Resting ELSE AnchorVelocity(command, m.reference)
  IN  Outcome(Finished([m EXCEPT !.alignment = w.alignment, !.mixed = mixed], command),
              Observation(command, seen, mixed, anchor))

\* _run_static_mocap_step: of a pause, or when no reference is fresh.
RobotHolds(m, pose, window, robot) ==
  LET w == AlignedWindow(m.alignment, window, robot.pose.yaw)
  IN  Outcome(Finished([m EXCEPT !.alignment = w.alignment], pose),
              Observation(pose, w.window, <<0>>, Resting))

\* _transition_to_mocap
RobotEnters(m, robot) ==
  LET hold == IF m.commanded # Unset THEN m.commanded ELSE <<m.standing>>
      resume == RobotResumePose(hold, robot)
  IN  [PolicyReset(m) EXCEPT !.alignment = NewAlignment(<<resume.at>>), !.retarget = Unset,
                             !.commanded = <<resume>>]

\* _pause_active_mocap: the reset drops the reference and the command just noted.
RobotPauses(m, robot) ==
  LET hold == <<RobotHoldPose(m, robot)>>
  IN  [PolicyReset(m) EXCEPT !.retarget = hold, !.hold = hold]

\* _resume_paused_mocap, in the arms mode with the standing pose of the moment.
RobotResumes(m, arms, robot) ==
  LET resume == RobotResumePose(m.hold, robot)
  IN  [PolicyReset(m) EXCEPT !.alignment = NewAlignment(<<resume.at>>), !.retarget = Unset,
                             !.commanded = <<resume>>,
                             !.standing = IF arms THEN RobotStanding(robot) ELSE @]

\* _toggle_arms_mode
RobotTogglesArms(m, entering, robot) ==
  LET resume == RobotResumePose(m.commanded, robot)
  IN  [PolicyReset(m) EXCEPT !.alignment = NewAlignment(<<resume.at>>), !.retarget = Unset,
                             !.commanded = <<resume>>,
                             !.standing = IF entering THEN RobotStanding(robot) ELSE @]

-----------------------------------------------------------------------------
(* RLPolicyController, the policy that is loaded from an ONNX file, on its record: what it *)
(* takes from the file and from the configuration, the history of observations that it     *)
(* feeds to a policy of two inputs, and the joint targets that it makes of an action.      *)

None == -1
NaN == 9999

\* _extract_feature_dim and the two signatures that a file may have.
FeatureDim(shape) == IF Len(shape) < 2 THEN None ELSE Last(shape)
SignatureValid(inputs) == Len(inputs) = 1 \/ (Len(inputs) = 2 /\ inputs[2].name = "obs_history")
\* _select_providers: the processor is always there to fall back to.
Providers(available, device) ==
  (IF device \in {"auto", "cuda", "cuda:0"} /\ "cuda" \in available THEN <<"cuda">> ELSE <<>>) \o <<"cpu">>

\* _normalize_clip_range of a pair or of one number, with a size of its own.
ClipValid(raw) == Len(raw) = 1 \/ (Len(raw) = 2 /\ raw[1] <= raw[2])
Size(x) == IF x < 0 THEN -x ELSE x
ClipRange(raw) == IF Len(raw) = 1 THEN <<-Size(raw[1]), Size(raw[1])>> ELSE raw

\* _normalize_action_scale of a mapping from joints: it must name the joints of the robot
\* and no other, and takes their order.
ScaleValid(scale, joints) == DOMAIN scale = Range(joints)
ActionScale(scale, joints) == [i \in DOMAIN joints |-> scale[joints[i]]]

\* RLPolicyController.__init__; a joint without a default stands at zero.
Policy(inputs, scale, standing, clip) ==
  [dim |-> FeatureDim(inputs[1].shape), dual |-> Len(inputs) = 2,
   length |-> IF Len(inputs) = 2 THEN inputs[2].shape[2] ELSE 0,
   width |-> IF Len(inputs) = 2 THEN inputs[2].shape[3] ELSE 0,
   scale |-> scale, standing |-> standing, clip |-> ClipRange(clip),
   history |-> <<>>, last |-> <<>>, raised |-> FALSE]

-----------------------------------------------------------------------------
(* compute_action.  An observation is a sequence of its numbers. *)

Fits(p, obs) == p.dim = None \/ Len(obs) = p.dim

\* The first observation after a reset fills the history, the others push out the oldest.
Remembered(p, obs) ==
  IF p.history = <<>> THEN [i \in 1..p.length |-> obs]
  ELSE IF Len(p.history) < p.length THEN Append(p.history, obs) ELSE Append(Tail(p.history), obs)

\* A history that does not fit is noticed when it has been kept; one of observations of
\* several lengths cannot be stacked.
HistoryFits(p) == \A i \in DOMAIN p.history : Len(p.history[i]) = p.width
Computed(p, obs) ==
  IF ~Fits(p, obs) THEN [p EXCEPT !.raised = TRUE]
  ELSE LET q == IF p.dual THEN [p EXCEPT !.last = obs, !.history = Remembered(p, obs)] ELSE [p EXCEPT !.last = obs]
       IN  [q EXCEPT !.raised = q.dual /\ ~HistoryFits(q)]

\* What the network returns is an action, or zeros if one of its numbers is none.
Usable(values) == \A i \in DOMAIN values : values[i] # NaN
Action(output) == IF Usable(output) THEN output ELSE [i \in DOMAIN output |-> 0]

Forgotten(p) == [p EXCEPT !.history = <<>>, !.last = <<>>, !.raised = FALSE]

-----------------------------------------------------------------------------
(* get_target_dof_pos.  A number that is none passes the clipping. *)

Clipped(p, x) == IF x = NaN THEN NaN ELSE IF x < p.clip[1] THEN p.clip[1] ELSE IF x > p.clip[2] THEN p.clip[2] ELSE x
Scaled(p, action) ==
  LET clipped == [i \in DOMAIN action |-> Clipped(p, action[i])]
  IN  IF Usable(clipped) THEN [i \in DOMAIN action |-> clipped[i] * p.scale[i]] ELSE [i \in DOMAIN action |-> 0]
TargetValid(p, action) == p.standing = <<>> \/ Len(p.standing) = Len(action)
Target(p, action) ==
  IF p.standing = <<>> THEN Scaled(p, action)
  ELSE [i \in DOMAIN action |-> Scaled(p, action)[i] + p.standing[i]]
=============================================================================
