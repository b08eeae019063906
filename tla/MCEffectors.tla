----------------------------- MODULE MCEffectors -----------------------------
(* Small instances of Effectors for TLC: one mode of each kind, and the devices below, *)
(* over short scripts.                                                                  *)
EXTENDS Effectors, Integers, Sequences, FiniteSets

AllModes == {"standing", "velocity", "damping"}
Triggered == {"standing"}
OpenedIn == {"damping"}

-----------------------------------------------------------------------------
(* The workers of the neck and of the policy's camera. *)

Necks(release) == INSTANCE DeviceWorkers WITH
  Driver <- "linkerhand", Configured <- <<>>, OpenPose <- 0,
  ActiveModes <- {"mocap", "pause"}, Timeout <- 2,
  CentreOnStart <- TRUE, CentreOnShutdown <- TRUE, ReleaseOnShutdown <- release
NeckDevice == INSTANCE DeviceWorkers WITH
  Driver <- "linkerhand", Configured <- <<>>, OpenPose <- 0,
  ActiveModes <- {"mocap"}, Timeout <- 2,
  CentreOnStart <- FALSE, CentreOnShutdown <- FALSE, ReleaseOnShutdown <- FALSE

-----------------------------------------------------------------------------
(* The neck of the teleoperation: five iterations, one tick apart, in which poses and *)
(* modes come or not and the device works or not.                                      *)

NoPacket == NeckDevice!None
HeadPoses(n) == { NoPacket } \cup { [to |-> 10 + n, stamp |-> n - age, seq |-> n, snapshot |-> n - off] :
                                    age \in {0, 2}, off \in {0, 1} }
HeadModes == { NoPacket, [mode |-> "mocap", paused |-> FALSE], [mode |-> "mocap", paused |-> TRUE],
               [mode |-> "standing", paused |-> FALSE] }
NeckInputs(n) == { [pose |-> p, mode |-> m, target |-> NoPacket, command |-> "none"] : p \in HeadPoses(n), m \in HeadModes }
NeckStates == LET after[n \in 0..4] ==
                    IF n = 0 THEN { NeckDevice!NeckStarted(TRUE) }
                    ELSE { NeckDevice!NeckIterated(s, input, n, works) :
                             s \in after[n - 1], input \in NeckInputs(n), works \in BOOLEAN }
              IN  after

SilentInput == [pose |-> NoPacket, mode |-> NoPacket, target |-> NoPacket, command |-> "none"]
\* A neck whose operator is not heard of any more stays as it is, in every mode; one
\* whose device failed follows the same pose as soon as the device works, if the pose
\* is not too old by then.
ASSUME NeckFollowsTheLiving ==
  \A n \in 1..4 : \A s \in NeckStates[n] :
    /\ NeckDevice!NeckIterated(s, SilentInput, n + 3, TRUE).neck = s.neck
    /\ \A input \in NeckInputs(n + 1) :
         LET blocked == NeckDevice!NeckIterated(s, input, n + 1, FALSE)
             again == NeckDevice!NeckIterated(blocked, SilentInput, n + 2, TRUE)
         IN  /\ blocked.running /\ blocked.neck = s.neck
             /\ again.neck.at \in {s.neck.at, blocked.pose.to}
             /\ again.neck.at = blocked.pose.to \/ ~NeckDevice!Follows(blocked, n + 2)

\* A worker that is told to stop, or fails to start, closes its device whatever else
\* fails; the one of the policy keeps a neck stiff that it could not centre.
ASSUME NecksAreClosed ==
  \A release, centres, releases \in BOOLEAN, at \in {NeckDevice!Unknown, 0, 11} :
    LET neck == Necks(release)!Neck(at)
        left == Necks(release)!NeckClosed(neck, centres, releases)
        policy == Necks(release)!PolicyClosed(neck, centres, releases)
    IN  /\ ~left.open /\ ~policy.open
        /\ left.at = policy.at
        /\ left.torque # policy.torque <=> release /\ releases /\ ~centres

-----------------------------------------------------------------------------
(* The neck of a policy: targets of two sessions, in order or not, fresh or not. *)

RobotSays(mode, paused, session) == [mode |-> mode, paused |-> paused, session |-> session]
PolicyModes == { NoPacket, RobotSays("standing", FALSE, 0) } \cup
               { RobotSays("policy", paused, session) : paused \in BOOLEAN, session \in {1, 2} }
PolicyTargets(n) == { NoPacket } \cup
  { [session |-> session, seq |-> seq, stamp |-> n - age, to |-> 10 * session + seq] :
      session \in {1, 2}, seq \in {1, 2}, age \in {-1, 0, 3} }
PolicyInputs(n) == { [pose |-> NoPacket, mode |-> m, target |-> t, command |-> "none"] :
                       m \in PolicyModes, t \in PolicyTargets(n) }
PolicyStates == LET after[n \in 0..3] ==
                      IF n = 0 THEN { Necks(TRUE)!PolicyStarted(TRUE) }
                      ELSE { Necks(TRUE)!PolicyIterated(s, input, n, centres, moves) :
                               s \in { t \in after[n - 1] : t.running }, input \in PolicyInputs(n),
                               centres, moves \in BOOLEAN }
                IN  after

\* While it runs, the neck of a policy is where it is said to be; it is centred
\* whenever the robot was last heard of outside POLICY.
ASSUME PolicyNeckIsTold ==
  \A n \in 0..3 : \A s \in PolicyStates[n] : s.running =>
    /\ s.command = s.neck.at
    /\ ~Necks(TRUE)!InPolicy(s.mode) => s.neck.at = NeckDevice!Centre

\* It moves for a target of the session that goes on alone, and for none twice.
ASSUME PolicyNeckFollowsSession ==
  \A n \in 1..3 : \A s \in { t \in PolicyStates[n - 1] : t.running } : \A input \in PolicyInputs(n) :
    LET t == Necks(TRUE)!PolicyIterated(s, input, n, TRUE, TRUE)
    IN  t.last # s.last =>
          /\ t.mode.session = input.target.session /\ ~t.mode.paused
          /\ t.last > s.last /\ t.neck.at = input.target.to
          /\ Necks(TRUE)!PolicyIterated(t, [input EXCEPT !.mode = NoPacket], n, TRUE, TRUE) = t

-----------------------------------------------------------------------------
Camera == INSTANCE CameraStreams WITH FramePeriod <- 3

\* Two cameras are there or not as they like; the first that is found is "a".
Plugged == {{}, {"a"}, {"b"}, {"a", "b"}}
CameraFound(c, there) ==
  CASE c.device \in there -> c.device
    [] c.device = Camera!AnyDevice /\ there # {} -> IF "a" \in there THEN "a" ELSE "b"
    [] OTHER -> "none"
CameraStates == LET after[n \in 0..4] ==
                      IF n = 0 THEN { Camera!CameraStarted("realsense", d) : d \in {"a", Camera!AnyDevice} }
                      ELSE { Camera!CameraIterated(c, "none", CameraFound(c, there), brings) :
                               c \in after[n - 1], there \in Plugged, brings \in {"frame", "nothing"} }
                IN  UNION { after[n] : n \in 0..4 }

\* A worker uses one camera only, from the first on that it opened, and resets no
\* other; one that it was told to use it never exchanges.
ASSUME OneCamera ==
  \A c \in CameraStates :
    /\ c.open # "none" => c.open = c.device
    /\ c.resets \subseteq {c.device}

\* A stream that stalled is recovered in one iteration once its camera is back, and
\* before that no frame is made up.
ASSUME StallIsRecovered ==
  \A c \in CameraStates :
    LET next == Camera!CameraIterated(c, "none", CameraFound(c, {"a", "b"}), "frame")
        stalled == Camera!CameraIterated(c, "none", CameraFound(c, {"a", "b"}), "nothing")
    IN  /\ next.frames = c.frames + 1
        /\ stalled.frames = c.frames /\ stalled.open = "none" /\ stalled.device \in stalled.resets

-----------------------------------------------------------------------------
(* The hands. *)

Linker == INSTANCE DeviceWorkers WITH Driver <- "linkerhand", Configured <- <<"left", "right">>, OpenPose <- 0,
  ActiveModes <- {"mocap"}, Timeout <- 2, CentreOnStart <- FALSE, CentreOnShutdown <- FALSE, ReleaseOnShutdown <- FALSE
Insp == INSTANCE DeviceWorkers WITH Driver <- "inspire", Configured <- <<"left", "right">>, OpenPose <- 0,
  ActiveModes <- {"mocap"}, Timeout <- 2, CentreOnStart <- FALSE, CentreOnShutdown <- FALSE, ReleaseOnShutdown <- FALSE

-----------------------------------------------------------------------------
(* Configurations with levels in sixths and whole poses of one value. *)

HandUnit == 6
EvenPose(v) == [i \in 1..6 |-> v]
HandConfigs == { [hand |-> hand, mode |-> "gripper", sides |-> <<"left">>, open |-> EvenPose(open),
                  close |-> EvenPose(close), speed |-> EvenPose(50), yaw |-> yaw, rate |-> 1, timeout |-> 1,
                  somehandRate |-> 1, deadzone |-> deadzone, deadman |-> deadman, iterations |-> Linker!Nothing,
                  filter |-> Linker!Nothing, output |-> Linker!Nothing] :
                 hand \in {"L6", "O6"}, open \in {250, 256}, close \in {-1, 0, 79, 250}, yaw \in {10, 300},
                 deadzone \in 0..3, deadman \in {0, 3} }

\* With a configuration that is accepted, a trigger that is pulled moves every finger
\* from open to closed and never back, within what the hand takes; the thumb of an L6
\* is where the configuration has it.
ASSUME AcceptedHandsActuate ==
  \A c \in HandConfigs : Linker!Accepted(c, HandUnit) =>
    LET pose(t) == Linker!TriggerPose(c, t, HandUnit)
    IN  /\ pose(0) = Linker!Poses(c).open /\ pose(HandUnit) = Linker!Poses(c).close
        /\ \A t \in 0..HandUnit :
             /\ Linker!PoseValid(pose(t))
             /\ c.hand = "L6" => pose(t)[2] = c.yaw
             /\ t > 0 => \A i \in 1..6 : (pose(t)[i] - pose(t - 1)[i]) * (c.close[i] - c.open[i]) >= 0

-----------------------------------------------------------------------------
(* Workers over three steps after their start: a tick with commands of the mapper, or *)
(* an opening at a change of mode, while writes to some sides raise.                   *)

HandCommands == { <<>> } \cup { <<[side |-> "left", pose |-> p, force |-> f],
                                  [side |-> "right", pose |-> q, force |-> f]>> : p, q \in {0, 5}, f \in BOOLEAN }
HandEvents == [gate : {TRUE}, commands : {<<>>}, broken : SUBSET Linker!Sides, still : {{}}]
              \cup [gate : {FALSE}, commands : HandCommands, broken : SUBSET Linker!Sides, still : {{}, {"left"}}]

\* With each worker, the sides that a change of mode opened since they were last told,
\* and whether an opening raised.
HandRun(r, e) ==
  LET w == IF e.gate THEN Linker!ModeOpened(r.worker, e.broken) ELSE Linker!Ticked(r.worker, e.commands, e.broken, e.still)
      told == ~r.worker.failed /\ e.commands # <<>>
  IN  [worker |-> w,
       gated |-> CASE e.gate -> Linker!Sides [] ~e.gate /\ told -> {} [] OTHER -> r.gated,
       refused |-> r.refused \/ IF e.gate THEN e.broken # {} ELSE (w.failed /\ ~r.worker.failed /\ e.still # {})]
HandRuns == LET after[n \in 0..3] ==
                  IF n = 0 THEN { [worker |-> Linker!Started(Linker!NewWorker, {}, {}, TRUE, {}, {}), gated |-> {}, refused |-> FALSE] }
                  ELSE { HandRun(r, e) : r \in after[n - 1], e \in HandEvents }
            IN  UNION { after[n] : n \in 0..3 }

\* The pose that is published, and recorded, is the one that the hand has, but for an
\* opening at a change of mode, as long as no opening raised.
ASSUME PublishedPoseIsTheHands ==
  \A r \in HandRuns : ~r.refused => \A s \in Linker!Sides :
    \/ r.worker.told[s] = r.worker.device.at[s]
    \/ s \in r.gated /\ r.worker.device.at[s] = 0

\* A hand has the pose that its device takes it to have been sent, failures or not: a
\* pose that is skipped is there.
ASSUME SkippedPoseIsThere ==
  \A r \in HandRuns : \A s \in Linker!Sides : r.worker.device.last[s] = r.worker.device.at[s]

\* The Inspire device notes what it could not send, so that only a forced command, as
\* all presets are, reaches a hand after a failure.
ASSUME ForcedPresetArrives ==
  \A s \in Insp!Sides, pose \in {0, 5}, broken \in SUBSET Insp!Sides :
    LET tried == Insp!SentPose(Insp!NewDevice, s, pose, TRUE, broken).device
    IN  Insp!SentPose(tried, s, pose, TRUE, {}).device.at[s] = pose

-----------------------------------------------------------------------------
\* A worker that ends, whether it could start or not, holds no hand, and has let go of
\* every interface it opened but that of a hand that took no speed.
ASSUME EndedWorkerHoldsNoHand ==
  \A absent, mute, broken \in SUBSET Linker!Sides, mapped \in BOOLEAN :
    LET started == Linker!Started(Linker!NewWorker, absent, mute, mapped, broken, {})
        ended == IF started.running THEN Linker!WorkerClosed(started, broken, {}) ELSE started
    IN  /\ ~ended.running /\ ended.device.held = {}
        /\ ended.device.claimed \subseteq mute \ absent
        /\ started.running => ended.device.at = [s \in Linker!Sides |-> 0]
        /\ started.running <=> absent \cup mute \cup broken = {} /\ mapped

-----------------------------------------------------------------------------
(* The mapper that follows the hands themselves, over four ticks. *)

HandViews == [{"left"} -> {3}] \cup [{"right"} -> {4}] \cup { [s \in {} |-> 0] }
MapInputs == [seen : HandViews, age : {Linker!Nothing, 0, 5}, active : BOOLEAN]
MapRuns == LET after[n \in 0..4] ==
                 IF n = 0 THEN { [mapper |-> Linker!NewMapper, moved |-> {}] }
                 ELSE { LET m == Linker!Mapped(r.mapper, i.seen, i.age, i.active, n, 2, 1)
                            moves == { m.commands[k].side : k \in { j \in DOMAIN m.commands : m.commands[j].pose # 0 } }
                        IN  [mapper |-> m.mapper, moved |-> IF i.active THEN r.moved \cup moves ELSE {}] :
                        r \in after[n - 1], i \in MapInputs }
           IN  after

\* The hands follow what is seen of them now, and a hand that was moved is opened, once,
\* as soon as the mode ends, whether it is seen or not.
ASSUME TrackedHandsOpenOnce ==
  \A n \in 0..3 : \A r \in MapRuns[n] : \A i \in MapInputs :
    LET m == Linker!Mapped(r.mapper, i.seen, i.age, i.active, n + 1, 2, 1)
        opened == { m.commands[k].side : k \in DOMAIN m.commands }
    IN  /\ i.active => opened \subseteq DOMAIN i.seen /\ (opened # {} => i.age = 0)
        /\ ~i.active /\ r.moved # {} => opened = Linker!Sides
        /\ ~i.active => Linker!Mapped(m.mapper, i.seen, i.age, FALSE, n + 2, 2, 1).commands = <<>>
=============================================================================
