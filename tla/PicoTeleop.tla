----------------------------- MODULE PicoTeleop -----------------------------
(***************************************************************************)
(* Pico 4 teleoperation: the robot control worker (RobotControl) and       *)
(* _run_pico_reference_worker, which retargets body frames only while it   *)
(* is armed.  The robot arms it when a mocap entry is asked for and        *)
(* disarms it when the session ends; the two exchange commands and         *)
(* references over latest-only topics.                                     *)
(*                                                                         *)
(* The retargeter is stateful: memory says whether it holds nothing, what  *)
(* the frames of the current arm request left in it, or what the frames of *)
(* an earlier request did.  One iteration of the worker is two steps: read *)
(* the command, then treat one body frame, stamping what it sends.         *)
(*                                                                         *)
(* Nothing keeps the robot from taking back a request before its command   *)
(* has been read, or from making one anew; crossed is a history of that.   *)
(***************************************************************************)
EXTENDS RobotControl

CONSTANT Warmup  \* realtime_buffer_warmup_steps

ASSUME PicoAssumption == Provider = "pico4" /\ Warmup \in Nat

VARIABLES
  tick,         \* what the reference worker does next
  workerArmed,  \* mocap_armed
  memory,       \* the state of the retargeter and of the reference timeline
  warm,         \* frames in the timeline since the reset, counted up to Warmup
  references,   \* reference topic, worker to robot
  tracking,     \* the Pico delivers valid body frames
  crossed       \* a request was made or taken back with a command unread

workerState == <<tick, workerArmed, memory, warm>>
picoVars == <<vars, workerState, references, tracking>>

PicoTypeOK ==
  /\ tick \in {"starting", "command", "frame", "stopped"}
  /\ workerArmed \in BOOLEAN
  /\ memory \in {"clean", "this", "earlier"}
  /\ warm \in 0..Warmup
  /\ references \in Channel(Packets)
  /\ tracking \in BOOLEAN
  /\ crossed \in BOOLEAN

PicoInit ==
  /\ Init
  /\ tick = "starting" /\ workerArmed = FALSE /\ memory = "clean" /\ warm = 0
  /\ references = <<>> /\ tracking \in BOOLEAN /\ crossed = FALSE

-----------------------------------------------------------------------------
(* The reference worker.                                                   *)

\* Until the worker has loaded its retargeter and subscribed, commands are lost.
LoseCommand ==
  /\ tick = "starting" /\ CommandsTaken
  /\ UNCHANGED <<workerState, references, tracking>>

Subscribe ==
  /\ tick = "starting" /\ commands = <<>>
  /\ tick' = "command"
  /\ UNCHANGED <<vars, workerArmed, memory, warm, references, tracking>>

\* _reset_realtime_reference_state(reset_retargeter=True).
Reset == memory' = "clean" /\ warm' = 0

\* Mutant of Obey: a DISARM stops the frames but leaves the worker armed.
ObeyArmOnly(received) ==
  IF received = <<"arm">> /\ ~workerArmed
    THEN workerArmed' = TRUE /\ Reset
    ELSE UNCHANGED <<workerArmed, memory, warm>>

\* _handle_reference_command: an ARM that finds the worker armed is ignored.
Obey(received) ==
  IF received = <<"disarm">> \/ (received = <<"arm">> /\ ~workerArmed)
    THEN workerArmed' = (received = <<"arm">>) /\ Reset
    ELSE UNCHANGED <<workerArmed, memory, warm>>

ReadCommand ==
  /\ tick = "command" /\ ~stopping
  /\ tick' = "frame"
  /\ Obey(Received(commands))
  /\ IF commands = <<>> THEN UNCHANGED vars ELSE CommandsTaken
  /\ UNCHANGED <<references, tracking>>

TreatFrame == tick = "frame" /\ tick' = "command" /\ UNCHANGED <<vars, workerArmed, tracking>>

\* No new frame, or a frame that is skipped because the worker is not armed.
NoFrame == TreatFrame /\ UNCHANGED <<memory, warm, references>>

\* A packet is stamped when it is sent, hence after the request that stands.
Publication(valid) ==
  Published(references, [valid |-> valid, afterArm |-> armed, paused |-> FALSE])

InvalidFrame ==
  /\ TreatFrame /\ workerArmed /\ ~tracking
  /\ references' = Publication(FALSE)
  /\ UNCHANGED <<memory, warm>>

Retarget == memory' = IF memory = "clean" THEN "this" ELSE memory

\* A valid frame warms the timeline up or, once that is done, becomes a reference.
ValidFrame ==
  /\ TreatFrame /\ workerArmed /\ tracking
  /\ Retarget
  /\ warm' = IF warm < Warmup THEN warm + 1 ELSE warm
  /\ references' = IF warm' = Warmup THEN Publication(TRUE) ELSE references

\* Retargeting or sampling raises: logged, and the frame is tried again.
RetargetFails ==
  /\ TreatFrame /\ workerArmed /\ tracking
  /\ Retarget
  /\ UNCHANGED <<warm, references>>

StopRetargeting ==
  /\ tick = "command" /\ stopping
  /\ tick' = "stopped"
  /\ UNCHANGED <<vars, workerArmed, memory, warm, references, tracking>>

PicoWorker ==
  \/ LoseCommand \/ Subscribe \/ ReadCommand
  \/ NoFrame \/ InvalidFrame \/ ValidFrame \/ RetargetFails
  \/ StopRetargeting

-----------------------------------------------------------------------------
(* The robot worker, its topics connected.                                 *)

RobotDrains(age) ==
  /\ \E evs \in ReceivedFrom(EventTuples) : Drain(Received(references), evs, age)
  /\ references' = <<>>
  /\ UNCHANGED <<workerState, tracking>>

\* A new arm request outdates the packets under way and the retargeter's memory.
RobotReads ==
  /\ ReadKeys
  /\ IF ~armed /\ armed'
       THEN /\ references' = [i \in DOMAIN references |-> [references[i] EXCEPT !.afterArm = FALSE]]
            /\ memory' = IF memory = "this" THEN "earlier" ELSE memory
       ELSE UNCHANGED <<references, memory>>
  /\ UNCHANGED <<tick, workerArmed, warm, tracking>>

RobotPublishes == Publish /\ UNCHANGED <<workerState, references, tracking>>

RobotActs ==
  /\ HandleEvent \/ Step \/ Stop
  /\ UNCHANGED <<workerState, references, tracking>>

RobotEnds == (Raise \/ RequestStop) /\ UNCHANGED <<workerState, references, tracking>>

PicoRobot == (\E age \in 0..2 : RobotDrains(age)) \/ RobotReads \/ RobotPublishes \/ RobotActs

\* The operator leaves or enters the view of the headset's trackers.
TrackingChanges ==
  /\ tracking' = ~tracking
  /\ UNCHANGED <<vars, workerState, references>>

-----------------------------------------------------------------------------
\* The robot makes or takes back a request before the last command is read: the worker
\* may get the newest command only, or, from a full topic, the older ones.
Crosses == crossed' = (crossed \/ (commands # <<>> /\ armed' # armed))

\* It is over once both are idle, with no command under way.
Settles == crossed' = (crossed /\ (armed \/ workerArmed' \/ commands' # <<>>))

PicoNext ==
  \/ (PicoRobot \/ RobotEnds) /\ Crosses
  \/ PicoWorker /\ Settles
  \/ TrackingChanges /\ UNCHANGED crossed

PicoSpec == PicoInit /\ [][PicoNext]_<<picoVars, crossed>>

\* Both workers are loops that never block, and starting ends.  Time goes by, so
\* that a retry comes due; and while the Pico tracks, some frames are retargeted
\* and some references reach the robot within the age it accepts.
PicoFairSpec ==
  /\ PicoSpec
  /\ WF_picoVars(PicoRobot) /\ WF_picoVars(PicoWorker)
  /\ SF_picoVars(Subscribe)
  /\ SF_picoVars(RobotPublishes /\ (armed => retryDue'))
  /\ SF_picoVars(ValidFrame)
  /\ SF_picoVars(references # <<>> /\ RobotDrains(0))

-----------------------------------------------------------------------------
\* A mocap session owns the retargeter: the worker is armed while the robot
\* follows it, and was reset since the request, so that the first frames of a
\* session are not bent towards the last pose of the session before it.  The one way to
\* miss that is a request made or taken back before the last command was read: a DISARM
\* and the ARM after it may then be read as an ARM alone, which resets nothing.
SessionOwnsRetargeter == mode \in MocapModes /\ ~crossed => workerArmed /\ memory = "this"

\* With the operator in view of the trackers, a mocap entry that is asked for is
\* answered: the ARM gets through, however often it is lost, and the session starts
\* unless the operator, or the end of the process, takes the robot elsewhere, or
\* commands cross: the worker may send one more reference between an ARM and the old
\* DISARM that it reads after it, and a robot with a reference repeats no ARM.
EntryIsAnswered ==
  <>[]tracking => []<>(~entryRequested \/ phase = "stopped" \/ crossed)
=============================================================================
