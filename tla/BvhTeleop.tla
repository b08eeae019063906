----------------------------- MODULE BvhTeleop -----------------------------
(***************************************************************************)
(* Offline BVH teleoperation: the robot control worker (RobotControl) and  *)
(* _run_bvh_reference_worker, two processes that share three latest-only   *)
(* topics.  The robot sends replay, pause and resume commands and its mode;*)
(* the reference worker plays the clip and sends one reference per tick,   *)
(* with the paused flag of the playback, which pauses the robot's session. *)
(*                                                                         *)
(* One tick of the reference worker is three steps (read the command, read *)
(* the mode, publish and advance), so that a command may overtake a tick   *)
(* that has begun.  Positions of the clip are numbered 0..Duration, and    *)
(* Duration is the last sample, the one playback finishes on.              *)
(***************************************************************************)
EXTENDS RobotControl, ClipPlayback

ASSUME BvhAssumption ==
  /\ Provider = "bvh" /\ EventTuples = {}
  /\ Duration \in Nat \ {0} /\ PauseOnEnd \in BOOLEAN

VARIABLES
  tick,         \* what the reference worker does next
  playback,     \* OfflinePlaybackController
  mocapActive,  \* mocap_active, from the last mode packet it read
  references,   \* reference topic, worker to robot
  modes         \* mode topic, robot to worker: the mocap_active field

clip == <<tick, playback, mocapActive>>
bvhVars == <<vars, clip, references, modes>>

BvhTypeOK ==
  /\ tick \in {"command", "mode", "publish", "stopped"}
  /\ playback \in Playback
  /\ mocapActive \in BOOLEAN
  /\ references \in Channel(Packets)
  /\ modes \in Channel(BOOLEAN)

BvhInit ==
  /\ Init
  /\ tick = "command" /\ mocapActive = FALSE
  /\ playback = Replayed
  /\ references = <<>> /\ modes = <<>>

-----------------------------------------------------------------------------
(* The reference worker.                                                   *)

Commanded(p, received) ==
  CASE received = <<"replay">> -> Replayed
    [] received = <<"pause">>  -> Paused(p)
    [] received = <<"resume">> -> Resumed(p)
    [] OTHER                   -> p

ReadCommand ==
  /\ tick = "command" /\ ~stopping
  /\ tick' = "mode"
  /\ playback' = Commanded(playback, Received(commands))
  /\ IF commands = <<>> THEN UNCHANGED vars ELSE CommandsTaken
  /\ UNCHANGED <<mocapActive, references, modes>>

\* Mutant of ReadMode: a worker that has seen MOCAP once plays on.
ReadModeSticky ==
  /\ tick = "mode"
  /\ tick' = "publish"
  /\ mocapActive' = (mocapActive \/ Received(modes) = <<TRUE>>)
  /\ modes' = <<>>
  /\ UNCHANGED <<vars, playback, references>>

ReadMode ==
  /\ tick = "mode"
  /\ tick' = "publish"
  /\ mocapActive' = IF modes = <<>> THEN mocapActive ELSE Head(Received(modes))
  /\ modes' = <<>>
  /\ UNCHANGED <<vars, playback, references>>

\* The reference at the current position goes out before the clip advances.
PublishReference ==
  /\ tick = "publish"
  /\ tick' = "command"
  /\ references' =
       Published(references, [valid |-> TRUE, afterArm |-> FALSE, paused |-> playback.paused])
  /\ playback' = IF mocapActive THEN Advanced(playback) ELSE playback
  /\ UNCHANGED <<vars, mocapActive, modes>>

StopPlaying ==
  /\ tick = "command" /\ stopping
  /\ tick' = "stopped"
  /\ UNCHANGED <<vars, playback, mocapActive, references, modes>>

BvhWorker == ReadCommand \/ ReadMode \/ PublishReference \/ StopPlaying

-----------------------------------------------------------------------------
(* The robot worker, its topics connected.                                 *)

RobotDrains ==
  /\ \E age \in 0..2 : Drain(Received(references), <<>>, age)
  /\ references' = <<>>
  /\ UNCHANGED <<clip, modes>>

RobotPublishes ==
  /\ Publish
  /\ modes' = Published(modes, modeOut'.active)
  /\ UNCHANGED <<clip, references>>

RobotActs ==
  /\ HandleEvent \/ ReadKeys \/ Step \/ Stop
  /\ UNCHANGED <<clip, references, modes>>

RobotEnds == (Raise \/ RequestStop) /\ UNCHANGED <<clip, references, modes>>

BvhRobot == RobotDrains \/ RobotPublishes \/ RobotActs

BvhNext == BvhRobot \/ RobotEnds \/ BvhWorker

BvhSpec == BvhInit /\ [][BvhNext]_bvhVars

\* Both workers are loops that never block.
BvhFairSpec == BvhSpec /\ WF_bvhVars(BvhRobot) /\ WF_bvhVars(BvhWorker)

-----------------------------------------------------------------------------
\* A finished clip that pauses on its end stays paused whatever the operator
\* presses: only a replay gets it off its last frame.
FinishedClipStaysPaused == playback.finished /\ PauseOnEnd => playback.paused

\* The clip waits for the robot: one that stays out of MOCAP, or paused in it,
\* stops being played to, whatever its last commands and mode packets met on the
\* way, and so resumes at the pose it holds.
ClipWaitsForRobot ==
  <>[](phase # "stopped" /\ (session = "paused" \/ mode \notin MocapModes)) => <>[](~mocapActive)

\* A paused clip, by the operator or by its end, reaches the robot: the session
\* is paused too unless the clip is replayed or resumed, or MOCAP left, meanwhile.
PausedClipPausesSession ==
  (playback.paused /\ mode \in MocapModes)
    ~> (session = "paused" \/ ~playback.paused \/ mode \notin MocapModes \/ phase = "stopped")
=============================================================================
