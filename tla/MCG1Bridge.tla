----------------------------- MODULE MCG1Bridge -----------------------------
(* The publish thread and its caller, small as they are, for TLC, the script that *)
(* stands the robot with them and the configurations that start it.               *)
EXTENDS G1Bridge, Integers, Sequences, FiniteSets

(* The standalone standing controller, over all runs of three cycles. *)

Stand == INSTANCE StandaloneStanding WITH Period <- 2, Tolerance <- 1, Interval <- 4

NextRuns(r) ==
  CASE r.at = "debug" -> { Stand!DebugEntered(r, ready, released) : ready, released \in BOOLEAN }
    [] r.at = "lock" -> { Stand!Locked(r, works) : works \in BOOLEAN }
    [] r.at = "prepare" -> { Stand!Prepared(r, works) : works \in BOOLEAN }
    [] r.at = "loop" -> { Stand!Cycled(r, buttons, fast, works) : buttons, fast, works \in BOOLEAN } \cup { Stand!Signalled(r) }
    [] r.at = "cleanup" -> { Stand!Cleaned(r, damps, selects) : damps, selects \in BOOLEAN }
    [] OTHER -> {r}
StandRuns == LET after[n \in 0..8] ==
                   IF n = 0 THEN { Stand!NewRun(dry) : dry \in BOOLEAN }
                   ELSE UNION { NextRuns(r) : r \in after[n - 1] }
             IN  UNION { after[n] : n \in 0..8 }

\* A robot that was taken over is given back however the run ends, if it takes itself
\* back, and its motors get no commands then; a robot whose mode was released by an
\* entry that failed is not.
ASSUME RobotIsGivenBack ==
  \A r \in StandRuns : r.at = "cleanup" =>
    LET done == Stand!Cleaned(r, FALSE, TRUE)
    IN  /\ done.motors = "none"
        /\ r.motors # "none" => done.owner = "ai"
        /\ done.owner = "none" => r.owner = "none" /\ r.sent = 0

\* The first target follows a locked pose, a turned reference and gains that start from
\* the floor; a dry run moves nothing.
ASSUME TargetsAreRamped ==
  \A r \in StandRuns :
    /\ r.sent > 0 => r.aligned /\ r.ramp = r.sent
    /\ r.dry => r.sent = 0 /\ r.motors = "none" /\ r.owner = "ai"
    /\ r.at = "loop" /\ r.sent = 0 => r.motors = IF r.dry THEN "none" ELSE "locked"

\* A robot that moves too fast is damped before the run ends, and gets no target after.
ASSUME FastRobotIsDamped ==
  \A r \in StandRuns : r.at = "loop" /\ ~r.dry /\ ~r.stop =>
    LET fast == Stand!Cycled(r, FALSE, TRUE, TRUE)
    IN  fast.motors = "damping" /\ fast.at = "cleanup" /\ fast.sent = r.sent

-----------------------------------------------------------------------------
\* Every cycle is in one report, or in the window that has yet to be reported.
Cycles == [work : {1, 3}, cycle : {2, 3, 4}]
TimingOf(script) ==
  LET after[n \in 0..Len(script)] ==
        IF n = 0 THEN [window |-> Stand!NewWindow, start |-> 0, total |-> Stand!NoSample]
        ELSE LET x == after[n - 1]
                 w == Stand!Recorded(x.window, x.start, script[n].work, script[n].cycle)
                 sum(a, b) == [f \in DOMAIN a |-> a[f] + b[f]]
             IN  [window |-> w.window, start |-> x.start + script[n].cycle,
                  total |-> IF w.report = <<>> THEN x.total ELSE sum(x.total, w.report[1])]
  IN  after[Len(script)]
\* A report that is on time says nothing of a deadline, and no late cycle is lost or
\* counted twice between two windows.
ASSUME CyclesAreReportedOnce ==
  \A n \in 1..5 : \A script \in [1..n -> Cycles] :
    LET t == TimingOf(script)
        late == Len(SelectSeq(script, LAMBDA c : c.cycle > 3))
    IN  /\ t.total.samples + t.window.counts.samples = n
        /\ t.total.missed + t.window.counts.missed = late
        /\ t.window.counts.samples <= 2

-----------------------------------------------------------------------------
(* What an accepted configuration promises to the processes that are started with it, *)
(* over those with up to two entries that are not the shipped ones.                    *)

Conf == INSTANCE RuntimeConfig

\* A configuration that one of the runtimes takes, and what its entries may be instead.
ShippedEntries ==
  [provider |-> "pico4", legacy |-> {}, policy |-> FALSE, terminal |-> TRUE,
   hands |-> TRUE, handDriver |-> "linkerhand_o6", sides |-> {"left", "right"}, calibrated |-> TRUE,
   neck |-> TRUE, neckDriver |-> "openneck", dryNeck |-> FALSE,
   recording |-> TRUE, format |-> "hdf5", control |-> "terminal", quality |-> 8,
   camera |-> TRUE, cameraSource |-> "realsense", cameraKey |-> "camera", cameraWidth |-> 640, cameraHeight |-> 480,
   cameraFps |-> 30, cameraDevice |-> "any", recordingFps |-> 30, robot |-> "unitree_g1_29dof",
   video |-> TRUE, videoSource |-> "realsense", videoWidth |-> 640, videoHeight |-> 480, videoFps |-> 30, videoDevice |-> "any",
   tcp |-> TRUE, task |-> 12, timeout |-> 2, replan |-> 3, jpeg |-> 90, hold |-> 3, steps |-> <<0>>,
   height |-> <<55, 105>>, neckYaw |-> <<-45, 45>>, neckPitch |-> <<-40, 40>>, rate |-> 10,
   jointLower |-> <<-1, -1>>, jointUpper |-> <<1, 1>>]
UnrecordedEntries == [ShippedEntries EXCEPT !.recording = FALSE, !.neck = FALSE]
PolicyEntries == [ShippedEntries EXCEPT !.provider = "high_level_policy", !.policy = TRUE, !.recording = FALSE, !.video = FALSE]

Changes == UNION {
  { <<"provider", p>> : p \in {"bvh", "pico4", "high_level_policy", "udp_bvh", Conf!Null, Conf!Lacking} },
  { <<"legacy", {"multiprocess"}>> }, { <<"sides", {"left"}>> },
  { <<e, v>> : e \in {"policy", "terminal", "hands", "calibrated", "neck", "dryNeck", "recording", "camera", "video", "tcp"},
               v \in BOOLEAN },
  { <<"handDriver", d>> : d \in {"linkerhand_l6", "inspire_ftp"} }, { <<"neckDriver", "other">>, <<"robot", "other">> },
  { <<"format", "other">>, <<"control", "headset">>, <<"quality", 11>>, <<"cameraSource", "mujoco">>, <<"cameraKey", "">> },
  { <<e, v>> : e \in {"cameraWidth", "cameraHeight", "cameraFps", "recordingFps", "videoWidth", "videoHeight", "videoFps"},
               v \in {0, 30, 60} },
  { <<"videoDevice", "one">>, <<"cameraDevice", "one">>, <<"videoSource", "test-pattern">>, <<"videoSource", "mujoco">> },
  { <<e, v>> : e \in {"task", "timeout", "replan", "jpeg", "hold", "rate"}, v \in {-1, 0, 1, 50, 51, 1025, Conf!NaN} },
  { <<"steps", <<0, 1>>>> },
  { <<e, v>> : e \in {"height", "neckYaw", "neckPitch"}, v \in {<<1, 1>>, <<Conf!NaN, 1>>, <<0, 1>>} },
  { <<e, v>> : e \in {"jointLower", "jointUpper"}, v \in {<<0, 0>>, <<0>>, <<-1, Conf!NaN>>, <<1, 1>>} } }
ChangedEntry(c, change) == [c EXCEPT ![change[1]] = change[2]]
ChangedOnce == { ChangedEntry(c, a) : c \in {ShippedEntries, UnrecordedEntries, PolicyEntries}, a \in Changes }
Configurations == { ChangedEntry(c, a) : c \in ChangedOnce, a \in Changes }

\* The two programs for the robot never take the same configuration, and each takes its own.
ASSUME OneProgramForARobot ==
  /\ Conf!RobotAccepts(ShippedEntries) /\ Conf!PolicyAccepts(PolicyEntries, 2)
  /\ \A c \in Configurations : ~(Conf!RobotAccepts(c) /\ Conf!PolicyAccepts(c, 2))

\* What reads the headset has the process that reads it: no hand, neck or recorder waits
\* for packets that nobody sends, whoever else is configured.
ASSUME WorkersHaveTheirInput ==
  \A c \in Configurations : Conf!RobotAccepts(c) =>
    LET started == Conf!Workers(c)
    IN  /\ {"reference", "robot_control"} \subseteq started
        /\ started \cap {"hand_worker", "neck_worker", "recording_worker"} # {} => "pico_input" \in started
        /\ c.provider # Conf!Null

\* A recording that is started has the frames of the camera that the headset is sent, at
\* its rate and size, a worker for each device that its schema has columns for, and both
\* hands if any; and the reviewer loads what it writes.
ASSUME RecordingsCanBeFilled ==
  \A c \in Configurations : Conf!RobotAccepts(c) /\ "recording_worker" \in Conf!Workers(c) =>
    LET recorded == Conf!Recorded(c)
        schema == Conf!Review!Schema(recorded)
    IN  /\ "observation.state.hand" \in DOMAIN schema.features <=> "hand_worker" \in Conf!Workers(c)
        /\ "observation.state.neck" \in DOMAIN schema.features <=> "neck_worker" \in Conf!Workers(c) /\ ~c.dryNeck
        /\ "hand_worker" \in Conf!Workers(c) => Cardinality(c.sides) = 2
        /\ c.video /\ <<recorded.width, recorded.height, recorded.fps>> = <<c.videoWidth, c.videoHeight, c.videoFps>>
        /\ c.videoDevice = c.cameraDevice /\ c.videoSource = c.cameraSource /\ c.terminal
        /\ Conf!Review!SchemaLoads(schema)

\* A policy moves a robot that has every effector that its actions name, and has limits
\* between which there is a pose.
ASSUME PolicyHasItsRobot ==
  \A c \in Configurations : Conf!PolicyAccepts(c, 2) =>
    /\ {"camera", "high_level_policy", "robot_control", "policy_hand", "policy_neck"} = Conf!PolicyWorkers(c)
    /\ Cardinality(c.sides) = 2 /\ c.calibrated /\ ~c.dryNeck /\ ~c.recording
    /\ \A i \in 1..2 : \E q \in -1..1 : 2 * q \in 2 * c.jointLower[i]..2 * c.jointUpper[i]
    /\ \A pair \in {c.height, c.neckYaw, c.neckPitch} : pair[1] < pair[2] /\ Conf!NaN \notin {pair[1], pair[2]}
    /\ c.rate > 0 /\ c.timeout > 0 /\ c.hold >= 0 /\ c.replan <= 50 /\ c.rate # Conf!NaN

\* An entry that is written as null is read as its default from one kind of
\* configuration, and as null from the other, which has no provider of that name.
ASSUME NullIsNotLacking ==
  /\ \A value \in {Conf!Null, Conf!Lacking, "x"} :
       Conf!Got(TRUE, value, "d") # Conf!Got(FALSE, value, "d") <=> value = Conf!Null
  /\ \A c \in Configurations : c.provider = Conf!Null => ~Conf!RobotAccepts(c) /\ ~Conf!PolicyAccepts(c, 2)

-----------------------------------------------------------------------------
\* The simulations, over policies that fit the robot or do not.
TwoSteps == {<<0>>, <<0, 1>>}
SomePolicies ==
  [file : {"", "policy.onnx"}, kind : {"velcmd_history", "twist_cmd"}, dual : BOOLEAN, future : {<<>>} \cup TwoSteps,
   dim : {Conf!None, 3, 4}, observed : {3}, standing : {Conf!Null, "crouched"}]
WellFitting == [file |-> "policy.onnx", kind |-> "velcmd_history", dual |-> TRUE, future |-> <<>>, dim |-> 3,
                observed |-> 3, standing |-> Conf!Null]
Walking == [WellFitting EXCEPT !.kind = "twist_cmd", !.dual = FALSE, !.standing = "crouched"]
PlainSimulation ==
  [provider |-> "pico4", file |-> "", humanHeight |-> 175, mimic |-> WellFitting, walks |-> TRUE, walk |-> Walking,
   policyHz |-> 50, pdHz |-> 200, buffered |-> TRUE, steps |-> <<0>>, command |-> Conf!Lacking]
Simulations ==
  { [PlainSimulation EXCEPT !.mimic = p, !.steps = steps, !.buffered = buffered] :
      p \in SomePolicies, steps \in TwoSteps, buffered \in BOOLEAN }
  \cup { [PlainSimulation EXCEPT !.walk = p, !.walks = walks] : p \in SomePolicies, walks \in BOOLEAN }
  \cup { [PlainSimulation EXCEPT !.policyHz = policy, !.pdHz = pd, !.steps = steps, !.provider = provider, !.file = file, !.command = command] :
           policy \in {0, 30, 50}, pd \in {20, 50, 100, 120}, steps \in TwoSteps, provider \in {"bvh", "pico4", "udp_bvh", "other"},
           file \in {"", "walk.bvh"}, command \in {Conf!Lacking, "keyboard", "pico_joystick", "merged_bsi"} }

\* A policy that is built is fed what it was trained on: its own number of observations,
\* where the file says it, over the steps that the references are taken at; the motors
\* follow each of its actions for the same number of steps, and references of other times
\* are looked up in a buffer.
ASSUME PoliciesGetTheirObservations ==
  /\ Conf!SimulationBuilds(PlainSimulation)
  /\ \A s \in Simulations : Conf!SimulationBuilds(s) =>
       /\ s.mimic.dual /\ s.mimic.dim \in {Conf!None, 3}
       /\ s.mimic.kind = "velcmd_history" => s.mimic.future \in {<<>>, s.steps}
       /\ Conf!Decimation(s) >= 1 /\ Conf!Decimation(s) * s.policyHz = s.pdHz
       /\ s.buffered \/ s.steps = <<0>>
       /\ s.provider = "bvh" => s.file # ""

\* Each policy stands in a pose of its own: that of the robot never becomes that of the
\* policy that walks, which has one or is not built.
ASSUME PosesAreNotMixed ==
  \A s \in Simulations : Conf!SimulationBuilds(s) =>
    /\ Conf!StandingPose(s.mimic, "upright", TRUE) # Conf!Null
    /\ s.walks => Conf!StandingPose(s.walk, "upright", FALSE) = s.walk.standing /\ s.walk.standing = "crouched"

\* The keys walk the robot unless sticks do, and sticks that no headset sends do so only
\* where the configuration names them.
ASSUME SomebodyCanWalkTheRobot ==
  /\ \A s \in Simulations : Conf!SimulationBuilds(s) /\ s.walks =>
       \/ Conf!SharesKeyboard(s) \/ s.provider = "pico4" \/ s.command \in {"pico_joystick", "merged_bsi"}
  /\ \E s \in Simulations : Conf!SimulationBuilds(s) /\ s.walks /\ s.provider # "pico4" /\ ~Conf!SharesKeyboard(s)
=============================================================================
