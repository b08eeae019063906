---------------------------- MODULE OfflineSession ----------------------------
(***************************************************************************)
(* The simulation session that plays a recorded motion: the keys that stop, *)
(* replay, pause and resume it, and its iterations, as operators on the    *)
(* playback, the memory of the policy steps and whether it goes on.        *)
(***************************************************************************)
EXTENDS ClipPlayback, Sequences

CONSTANTS
  Motion,      \* the pose at each position of the clip
  RestPose     \* the default pose

Step == INSTANCE PolicyStep WITH Windowed <- FALSE

\* The robot is reset with a replay.
Started(robot) == [clip |-> Replayed, memory |-> Step!Fresh, robot |-> robot, ended |-> FALSE]

\* mocap_session is paused while it holds a pose.
Holding(s) == s.memory.hold # Step!Unset

\* _restart_offline_playback
Restarted(s, start) ==
  [s EXCEPT !.clip = Replayed, !.memory = Step!RunnerReset(s.memory), !.robot = start]

\* _pause_offline_playback
Held(s) ==
  [s EXCEPT !.clip = Paused(s.clip),
            !.memory = [Step!RunnerReset(s.memory) EXCEPT
                          !.hold = <<Step!SimHoldPose(s.memory, Step!Unset, s.robot)>>,
                          !.commanded = s.memory.commanded]]

\* _resume_offline_playback: from where the robot is, with the joints it has.
Continued(s) ==
  LET resume == Step!SimResumePose(s.memory.hold, s.robot)
  IN  [s EXCEPT !.clip = Resumed(s.clip),
                !.memory = [Step!RunnerReset(s.memory) EXCEPT
                              !.alignment = Step!NewAlignment(<<resume.at>>),
                              !.retarget = <<resume>>]]

\* _handle_offline_keyboard, for one key: a clip that is over waits for its replay.
Pressed(s, key, start) ==
  CASE key = "q" -> [s EXCEPT !.ended = TRUE]
    [] key = "r" -> Restarted(s, start)
    [] key = "p" /\ ~Holding(s) -> Held(s)
    [] key = "p" /\ Holding(s) /\ ~s.clip.finished -> Continued(s)
    [] OTHER -> s

\* The step of an iteration: the held pose, or the pose of the clip at its position.
Commanded(s) ==
  IF Holding(s) THEN Step!SimHolds(s.memory, Step!Value(s.memory.hold), Step!NoWindow, s.robot)
  ELSE Step!SimFollows(s.memory, Motion[s.clip.pos], Step!NoWindow, s.robot)

\* After it, the robot is where it was led to, and the playback advances; at its end
\* the session holds the pose of this step, or ends.
Iterated(s, robot) ==
  LET o == Commanded(s)
      clip == IF Holding(s) THEN s.clip ELSE Advanced(s.clip)
      over == clip.finished /\ ~s.clip.finished
      memory == IF over /\ PauseOnEnd THEN [o.memory EXCEPT !.hold = <<o.observation.pose>>]
                ELSE o.memory
  IN  [s EXCEPT !.clip = clip, !.memory = memory, !.robot = robot, !.ended = over /\ ~PauseOnEnd]
=============================================================================
