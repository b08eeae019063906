-------------------------- MODULE BvhTeleop_proofs --------------------------
(***************************************************************************)
(* The two processes of BVH teleoperation: connecting the topics takes     *)
(* nothing away from what RobotControl_proofs shows of the robot alone,    *)
(* and the playback keeps its own promise under every command.             *)
(***************************************************************************)
EXTENDS BvhTeleop, RobotControl_proofs

ClipInv == BvhTypeOK /\ FinishedClipStaysPaused

LEMMA ClipInit == BvhInit => ClipInv
<1> SUFFICES ASSUME BvhInit PROVE ClipInv  OBVIOUS
<1>1. playback \in Playback /\ ~playback.finished  BY BvhAssumption DEF BvhInit, Playback, Replayed
<1>2. references \in Channel(Packets) /\ modes \in Channel(BOOLEAN)
  BY CapacityAssumption DEF BvhInit, Channel
<1> QED  BY <1>1, <1>2 DEF BvhInit, ClipInv, BvhTypeOK, FinishedClipStaysPaused

\* What the worker does with its clip keeps a finished clip paused.
LEMMA CommandedClip ==
  ASSUME NEW p \in Playback, p.finished /\ PauseOnEnd => p.paused, NEW c
  PROVE  /\ Commanded(p, c) \in Playback
         /\ Commanded(p, c).finished /\ PauseOnEnd => Commanded(p, c).paused
<1>1. Commanded(p, c) \in {Replayed, Paused(p), Resumed(p), p}  BY Zenon DEF Commanded
<1>2. Replayed \in Playback /\ ~Replayed.finished  BY BvhAssumption DEF Playback, Replayed
<1>3. Paused(p) \in Playback /\ Paused(p).paused  BY DEF Playback, Paused
<1>4. CASE p.finished  BY <1>1, <1>2, <1>3, <1>4 DEF Resumed
<1>5. CASE ~p.finished
  <2>1. Resumed(p) \in Playback /\ ~Resumed(p).finished  BY <1>5 DEF Playback, Resumed
  <2> QED  BY <1>1, <1>2, <1>3, <1>5, <2>1
<1> QED  BY <1>4, <1>5

LEMMA AdvancedClip ==
  ASSUME NEW p \in Playback, p.finished /\ PauseOnEnd => p.paused
  PROVE  /\ Advanced(p) \in Playback
         /\ Advanced(p).finished /\ PauseOnEnd => Advanced(p).paused
BY BvhAssumption DEF Playback, Advanced, Finished

LEMMA ClipStep == ASSUME ClipInv, TypeOK, TypeOK', [BvhNext]_bvhVars PROVE ClipInv'
<1> USE DEF ClipInv, BvhTypeOK, FinishedClipStaysPaused
<1>1. CASE ReadCommand
  <2>1. playback' = Commanded(playback, Received(commands)) /\ tick' = "mode"
    BY <1>1 DEF ReadCommand
  <2>2. UNCHANGED <<mocapActive, references, modes>>  BY <1>1 DEF ReadCommand
  <2> QED  BY <2>1, <2>2, CommandedClip
<1>2. CASE ReadMode
  <2>1. mocapActive' \in BOOLEAN
    <3>1. CASE modes = <<>>  BY <1>2, <3>1 DEF ReadMode
    <3>2. CASE modes # <<>>
      <4>1. Received(modes) = <<modes[Len(modes)]>>  BY <3>2 DEF Received
      <4>2. modes[Len(modes)] \in BOOLEAN  BY <3>2 DEF Channel
      <4>3. Head(Received(modes)) = modes[Len(modes)]  BY <4>1
      <4> QED  BY <1>2, <3>2, <4>2, <4>3 DEF ReadMode
    <3> QED  BY <3>1, <3>2
  <2>2. tick' = "publish" /\ modes' = <<>> /\ UNCHANGED <<playback, references>>
    BY <1>2 DEF ReadMode
  <2> QED  BY <2>1, <2>2, ChannelProperties
<1>3. CASE PublishReference
  <2>1. [valid |-> TRUE, afterArm |-> FALSE, paused |-> playback.paused] \in Packets
    BY DEF Packets, Playback
  <2>2. references' \in Channel(Packets)
    BY <1>3, <2>1, ChannelProperties DEF PublishReference
  <2>3. playback' \in Playback /\ (playback'.finished /\ PauseOnEnd => playback'.paused)
    BY <1>3, AdvancedClip DEF PublishReference
  <2>4. tick' = "command" /\ UNCHANGED <<mocapActive, modes>>
    BY <1>3 DEF PublishReference
  <2> QED  BY <2>2, <2>3, <2>4
<1>4. CASE StopPlaying  BY <1>4 DEF StopPlaying
<1>5. CASE RobotDrains
  BY <1>5, ChannelProperties DEF RobotDrains, clip
<1>6. CASE RobotPublishes
  <2>1. modeOut'.active \in BOOLEAN  BY DEF TypeOK
  <2>2. modes' \in Channel(BOOLEAN)  BY <1>6, <2>1, ChannelProperties DEF RobotPublishes
  <2> QED  BY <1>6, <2>2 DEF RobotPublishes, clip
<1>7. CASE RobotActs \/ RobotEnds  BY <1>7 DEF RobotActs, RobotEnds, clip
<1>8. CASE UNCHANGED bvhVars  BY <1>8 DEF bvhVars, clip
<1> QED
  BY <1>1, <1>2, <1>3, <1>4, <1>5, <1>6, <1>7, <1>8 DEF BvhNext, BvhRobot, BvhWorker

\* Every step of the composition is a step of the robot worker, or none.
LEMMA StepOfRobot == ASSUME BvhTypeOK, [BvhNext]_bvhVars PROVE [Next]_vars
<1>1. CASE ReadCommand  BY <1>1 DEF ReadCommand, Next
<1>2. CASE ReadMode \/ PublishReference \/ StopPlaying
  BY <1>2 DEF ReadMode, PublishReference, StopPlaying
<1>3. CASE RobotDrains
  <2>1. Received(references) \in ReceivedFrom(Packets)  BY ChannelProperties DEF BvhTypeOK
  <2>2. <<>> \in ReceivedFrom(EventTuples)  BY DEF ReceivedFrom
  <2>3. PICK age \in 0..2 : Drain(Received(references), <<>>, age)  BY <1>3 DEF RobotDrains
  <2> QED  BY <2>1, <2>2, <2>3 DEF Next, Loop, ReadIpc
<1>4. CASE RobotPublishes \/ RobotActs \/ RobotEnds
  BY <1>4 DEF RobotPublishes, RobotActs, RobotEnds, Next, Loop
<1>5. CASE UNCHANGED bvhVars  BY <1>5 DEF bvhVars
<1> QED
  BY <1>1, <1>2, <1>3, <1>4, <1>5 DEF BvhNext, BvhRobot, BvhWorker

LEMMA InitOfRobot == BvhInit => Init
BY DEF BvhInit

\* The composition implements the robot worker, so every theorem of
\* RobotControl_proofs holds of a robot that plays a BVH clip.
THEOREM BvhTeleopIsRobotControl == BvhSpec => Spec /\ [](TypeOK /\ ClipInv)
<1>1. TypeOK /\ ClipInv /\ [BvhNext]_bvhVars => TypeOK' /\ ClipInv' /\ [Next]_vars
  BY ClipStep, StepOfRobot, TypeStep DEF ClipInv
<1>2. BvhInit => Init /\ TypeOK /\ ClipInv
  BY ClipInit, InitOfRobot, TypeInit
<1> QED  BY <1>1, <1>2, PTL DEF BvhSpec, Spec

\* The clip and its topics keep their types.
THEOREM BvhTypeCorrect == BvhSpec => []BvhTypeOK
<1>1. ClipInv => BvhTypeOK  BY DEF ClipInv
<1> QED  BY <1>1, BvhTeleopIsRobotControl, PTL

\* A clip that has ended waits at its end, for every length and every command.
THEOREM FinishedClipStaysPausedAlways == BvhSpec => []FinishedClipStaysPaused
<1>1. ClipInv => FinishedClipStaysPaused  BY DEF ClipInv
<1> QED  BY <1>1, BvhTeleopIsRobotControl, PTL
=============================================================================
