---------------------------- MODULE MCSimSession ----------------------------
(* A small instance of SimSession for TLC, the session and the twists of VELOCITY, the *)
(* steps of the policy and the windows of a session.                                    *)
EXTENDS SimSession, Integers, FiniteSets, SequencesExt

Velocity == INSTANCE VelocitySession WITH Burst <- 2, RampSteps <- 2

\* What a VelocitySimSession gets to in n iterations, from every batch of keys, at
\* every heading, whatever the safety verdicts.
KeyBatches == { <<>> } \cup { <<k>> : k \in Velocity!Keys }
                \cup { <<"esc", "v">>, <<"e", "b">>, <<"b", "v">>, <<"e", "t">> }
Verdicts == {"none", "standing", "stop"}
Reached == LET after[n \in 0..5] ==
                 IF n = 0 THEN { Velocity!Started }
                 ELSE UNION { Velocity!Iterated(s, h, verdict, keys) :
                                s \in { t \in after[n - 1] : t.mode # "stop" },
                                h \in {0, 1}, verdict \in Verdicts, keys \in KeyBatches }
           IN  after
Running == { s \in UNION { Reached[n] : n \in 0..4 } : s.mode # "stop" }

\* Neither a latched stop nor a verdict is followed by a step of VELOCITY.
ASSUME NoStepAgainstStop ==
  \A s \in Running, h \in {0, 1}, verdict \in Verdicts :
    LET t == Velocity!BeforeStep(s, h, verdict)
    IN  t.mode = "velocity" => t.estop.state # "latched" /\ verdict = "none"

\* Whoever comes out of VELOCITY stands at the heading of the moment, and keeps it
\* when the ramp ends.
ASSUME StandingKeepsHeading ==
  \A s \in Running, h \in {0, 1}, verdict \in Verdicts :
    LET t == Velocity!BeforeStep(s, h, verdict)
    IN  t.mode = "standing" =>
          /\ s.mode = "velocity" => Velocity!Commanded(t) = h
          /\ Velocity!Commanded(Velocity!StandingStep(t)) = Velocity!Commanded(t)

Stopping(s, verdict) == s.pending = "stop" \/ (s.mode = "velocity" /\ s.pending = Velocity!NoRequest /\ verdict = "stop")
\* A STOP that is queued, or that a verdict asks for, ends the session, unless an
\* emergency stop asks for its exit in the same iteration: the exit then goes to
\* STANDING from wherever the session is, STOP included.
ASSUME StopEndsSession ==
  \A s \in Running, h \in {0, 1}, verdict \in Verdicts :
    Stopping(s, verdict) => (Velocity!BeforeStep(s, h, verdict).mode = "stop" <=> ~s.estop.exit)
\* Both ways of asking for a STOP do meet such an exit.
ASSUME ExitUndoesStop ==
  \A asked \in {"none", "stop"} : \E s \in Running :
    s.pending = asked /\ Stopping(s, "stop") /\ s.estop.exit

\* The push of T stays on the robot when VELOCITY is left before its burst is over.
ASSUME PushOutlivesVelocity == \E s \in Running : s.pushed /\ s.mode = "standing"

-----------------------------------------------------------------------------

\* What a link brings at six polls of one tick each, and the link after them, for a
\* debounce of three polls, of two for idle, and a silence of two ticks.
Packets == [1..6 -> {"none", "idle", "forward", "left"}]
LinkAfter(packets) ==
  LET after[n \in 0..6] ==
        IF n = 0 THEN Velocity!NewLink ELSE Velocity!Polled(after[n - 1], packets[n], n, 3, 2, 2)
  IN  after

\* The intent that is followed, from the packets themselves: the one of the last run
\* of packets that was long enough, of those since the link was last silent.
Heard(packets, n) == { k \in 1..n : packets[k] # "none" }
Quiet(packets, n) == ~\E k \in (n - 2)..n : k \in Heard(packets, n)
Since(packets, n) == { k \in Heard(packets, n) : \A i \in k..n : ~Quiet(packets, i) }
Complete(packets, n, k) ==
  LET heard == Since(packets, n)
      lately == { i \in heard : i <= k /\ Cardinality({ j \in heard : i < j /\ j <= k })
                                          < Velocity!Needed(packets[k], 3, 2) }
  IN  /\ Cardinality(lately) = Velocity!Needed(packets[k], 3, 2)
      /\ \A i \in lately : packets[i] = packets[k]
Followed(packets, n) ==
  LET runs == { k \in Since(packets, n) : Complete(packets, n, k) }
  IN  IF runs = {} THEN "idle" ELSE packets[CHOOSE k \in runs : \A i \in runs : i <= k]

\* What the debouncing of the link follows at each poll is that intent.
ASSUME LinkFollowsRuns ==
  \A packets \in Packets : \A n \in 1..6 : LinkAfter(packets)[n].intent = Followed(packets, n)

\* While the sticks are moved the link is not polled, so that its silence goes
\* unseen: the first packet after it, of any intent, finds the old one followed.
ASSUME OverrideHidesSilence ==
  \E packets \in Packets : \E n \in 1..6 : LET b == LinkAfter(packets)[n] IN
    /\ Velocity!Silent(b, n + 3, 2) /\ b.intent = "forward"
    /\ Velocity!Merged(Velocity!Twist(1, 0, 0), b, Velocity!Polled(b, "none", n + 3, 3, 2, 2)).link = b
    /\ Velocity!LinkTwist(Velocity!Polled(b, "left", n + 4, 3, 2, 2)) = Velocity!Twist(1, 0, 0)

KeyPolls == [1..4 -> {<<>>, <<"w">>, <<"s">>, <<"k">>, <<"w", "k">>, <<"k", "s">>, <<"w", "n">>}]
HeldAfter(polls, release) ==
  LET after[n \in 0..4] ==
        IF n = 0 THEN Velocity!NothingHeld ELSE Velocity!Held(after[n - 1], polls[n], n, release)
  IN  after[4]
Presses(polls, keys) == { p \in (1..4) \X (1..2) : p[2] \in DOMAIN polls[p[1]] /\ polls[p[1]][p[2]] \in keys }
Later(p, q) == p[1] > q[1] \/ (p[1] = q[1] /\ p[2] > q[2])

\* Keys of four polls, one tick apart: an axis moves by the last of its keys, if it
\* came within the release time and no K came after it.
ASSUME KeysMoveWhileHeld ==
  \A polls \in KeyPolls, release \in 0..3 :
    LET lasting(key, other) ==
          \E p \in Presses(polls, {key}) :
            /\ 4 - p[1] <= release
            /\ \A q \in Presses(polls, {other, "k"}) : ~Later(q, p)
        twist == Velocity!KeyTwist(HeldAfter(polls, release))
    IN  /\ (twist.x = 1) = lasting("w", "s") /\ (twist.x = -1) = lasting("s", "w")
        /\ (twist.yaw = 1) = lasting("n", "m") /\ twist.y = 0

PollTimes == { p \in [1..6 -> 0..9] : \A i \in 1..5 : p[i] <= p[i + 1] }
Batch(polls, refresh) ==
  LET after[n \in 0..6] ==
        IF n = 0 THEN Velocity!NewTee ELSE Velocity!TeePolled(after[n - 1], n, polls[n], refresh)
  IN  [n \in 1..6 |-> after[n].batch]

\* Two consumers poll the tee in turn, at times that only grow.  When the first comes
\* once per period and the second within it, both get every batch once; a first poll
\* that comes early gets a batch again.
ASSUME TeeServesBothOnce ==
  \A polls \in PollTimes :
    (\A i \in {1, 3} : polls[i + 2] - polls[i] >= 3) /\ (\A i \in {1, 3, 5} : polls[i + 1] - polls[i] < 3)
    => Batch(polls, 3) = [n \in 1..6 |-> IF n \in {1, 3, 5} THEN n ELSE n - 1]
\* A first poll that comes early does get a batch again.
ASSUME EarlyPollRepeats ==
  \E polls \in PollTimes : polls[3] - polls[1] = 2 /\ Batch(polls, 3)[3] = Batch(polls, 3)[1]

-----------------------------------------------------------------------------
(* The previous action across VELOCITY, for policies of several poses and scales. *)

MimicPolicies == [pose : {0, 4, 60}, scale : {2, 4}, known : BOOLEAN]
VelocityPolicies == [pose : {0, -2}, scale : {1, 2}, known : {TRUE}]
Actions == {-11, -10, -3, 0, 1, 10}
\* The last actions when VELOCITY begins, and after a step of it and the way back.
AtEntry(program, mimic, velocity, action) ==
  Velocity!HandedOver(program, Velocity!Acted(Velocity!NoActions, "mimic", action), mimic, velocity)
AfterReturn(program, mimic, velocity, action, step) ==
  Velocity!HandedBack(program, Velocity!Acted(AtEntry(program, mimic, velocity, action), "velocity", step))
Apart(x, y) == IF x < y THEN y - x ELSE x - y

\* In simulation the first VELOCITY step observes as its previous action the one with
\* which its policy commands what was commanded last, or comes nearest to it.
ASSUME HandOffIsContinuous ==
  \A program \in {"session", "simulation"}, mimic \in MimicPolicies, velocity \in VelocityPolicies, a \in Actions :
    LET last == Velocity!Target(mimic, a)
        claimed == Velocity!Target(velocity, AtEntry(program, mimic, velocity, a).velocity)
    IN  mimic.known =>
          \A other \in -11..11 : Apart(claimed, last) <= Apart(Velocity!Target(velocity, other), last)

\* On the robot it observes the action itself: the same target only by policies of equal
\* pose and scale, and another one where the velocity policy could have commanded it.
ASSUME RobotClaimsAnotherTarget ==
  LET claimed(m, v, a) == Velocity!Target(v, AtEntry("robot", m, v, a).velocity)
  IN  /\ \A m \in MimicPolicies, v \in VelocityPolicies :
           m.known => ((\A a \in Actions : claimed(m, v, a) = Velocity!Target(m, a))
                       <=> m.pose = v.pose /\ m.scale = v.scale)
      /\ \E m \in MimicPolicies, v \in VelocityPolicies, a \in Actions :
           /\ m.known /\ claimed(m, v, a) # Velocity!Target(m, a)
           /\ Velocity!Target(v, AtEntry("session", m, v, a).velocity) = Velocity!Target(m, a)

\* Back in STANDING no program observes what was commanded last: two keep the action of
\* before VELOCITY whatever was done there, and one has none.
ASSUME ReturnIsStale ==
  \A m \in MimicPolicies, v \in VelocityPolicies, a, step \in Actions, program \in Velocity!Programs :
    AfterReturn(program, m, v, a, step).mimic = IF program = "simulation" THEN 0 ELSE a

-----------------------------------------------------------------------------
(* The alignment of references and the steps of the policy, over short sessions. *)

Rest == [at |-> <<9, 9>>, yaw |-> 0, joints |-> 0, arms |-> 0]
Step == INSTANCE PolicyStep WITH Windowed <- FALSE, RestPose <- Rest
Seen == INSTANCE PolicyStep WITH Windowed <- TRUE, RestPose <- Rest

PoseAt(x, yaw, joints) == [at |-> <<x, 1>>, yaw |-> yaw, joints |-> joints, arms |-> joints]
Poses == { PoseAt(x, yaw, 3) : x \in {0, 2}, yaw \in 0..3 }
Robots == { Step!Robot(PoseAt(x, yaw, 5), based) : x \in {1, 4}, yaw \in {0, 1, 2}, based \in BOOLEAN }

-----------------------------------------------------------------------------
(* Alignment. *)

Targets == { Step!Unset, <<<<4, 0>>>> }
First(pose, yaw, target) == Step!Aligned(Step!NewAlignment(target), pose, yaw)

\* The first reference after a reset faces as the robot does, and is on the target or
\* where it was; any later one is moved with it like one rigid body, wherever the
\* robot has turned to.
ASSUME ReferencesMoveAsOne ==
  \A first, later \in Poses, yaw, turned \in 0..3, target \in Targets :
    LET f == First(first, yaw, target)
        l == Step!Aligned(f.alignment, later, turned)
        gap == Step!Minus(later.at, first.at)
    IN  /\ f.pose.yaw = yaw
        /\ f.pose.at = IF target = Step!Unset THEN first.at ELSE Step!Value(target)
        /\ l.alignment = f.alignment
        /\ Step!Minus(l.pose.at, f.pose.at) = Step!Turned(gap, yaw - first.yaw)
        /\ Step!ShortTurn(f.pose.yaw, l.pose.yaw) = Step!ShortTurn(first.yaw, later.yaw)

\* The window of a step is aligned as its pose is, whichever comes first.
ASSUME WindowFollowsPose ==
  \A pose, other \in Poses, yaw \in 0..3, target \in Targets :
    LET window == [poses |-> <<other, pose>>, present |-> 2]
        w == Step!AlignedWindow(Step!NewAlignment(target), window, yaw)
        p == First(pose, yaw, target)
    IN  w.alignment = p.alignment /\ w.window.poses = <<Step!Placed(p.alignment, other), p.pose>>

\* What a policy acts on in its session frame is where the reference is in the world,
\* and moves in the frame as in the world.
ASSUME FrameIsRigid ==
  \A origin, pose, other \in Poses :
    LET frame == Step!FrameOf(origin)
        local(p) == Step!Localized(frame, p)
    IN  /\ Step!Delocalized(frame, local(pose)) = pose
        /\ local(origin).at = <<0, 0>> /\ local(origin).yaw = 0
        /\ Step!AnchorVelocity(local(other), <<local(pose)>>).turned
             = Step!AnchorVelocity(other, <<pose>>).turned

-----------------------------------------------------------------------------
(* Sessions: following, a pause, the robot carried off meanwhile, following. *)

SimTracking(m, pose, robot) == Step!SimFollows(m, pose, Step!NoWindow, robot)
Tracking(m, pose, arms, robot) == Step!RobotFollows(m, pose, Step!NoWindow, arms, robot)

Calm(o, robot, before) ==
  /\ o.observation.pose.yaw = robot.pose.yaw
  /\ o.observation.pose.at = IF robot.based THEN robot.pose.at ELSE Step!Value(before.commanded).at
  /\ o.observation.anchor = Step!Resting
  /\ o.observation.joint = <<0>>

\* The first step after a resume or a change of the arms mode commands no turn, no
\* move of a robot whose base is known, and of any other no move from what was last
\* commanded; its velocities are those of a rest.
ASSUME FirstStepsAreCalm ==
  \A robot, later \in Robots, before, after \in Poses :
    LET sim == SimTracking(Step!SimEnters(Step!Fresh, robot), before, robot).memory
        real == Tracking(Step!RobotEnters(Step!Fresh, robot), before, FALSE, robot).memory
        resumed == SimTracking(Step!SimResumes(Step!SimPauses(sim, Step!Unset, later), later), after, later)
        back == Tracking(Step!RobotResumes(Step!RobotPauses(real, later), FALSE, later), after, FALSE, later)
        arms == Step!SimFollowsArms(Step!SimTogglesArms(sim, TRUE, later), after, Step!NoWindow, later)
    IN  /\ Calm(resumed, later, sim) /\ Calm(back, later, real)
        /\ Calm(arms, later, sim)

\* With a base position the simulation and the robot command the same poses through
\* a pause, a hold and a resume.
ASSUME SimulationAsRobot ==
  \A robot, later \in { r \in Robots : r.based }, before, after \in Poses :
    LET sim == SimTracking(Step!SimResumes(Step!SimEnters(Step!Fresh, robot), robot), before, robot).memory
        real == Tracking(Step!RobotEnters(Step!Fresh, robot), before, FALSE, robot).memory
        simHolds == Step!SimPauses(sim, Step!Unset, later)
        realHolds == Step!RobotPauses(real, later)
    IN  /\ sim.commanded = real.commanded /\ simHolds.hold = realHolds.hold
        /\ SimTracking(Step!SimResumes(simHolds, later), after, later).observation
             = Tracking(Step!RobotResumes(realHolds, FALSE, later), after, FALSE, later).observation

\* Where the two differ: an entry of the simulation puts the first reference where it
\* was recorded, the robot puts it on the base.
ASSUME EntriesDiffer ==
  \E robot \in Robots, pose \in Poses :
    /\ SimTracking(Step!SimEnters(Step!Fresh, robot), pose, robot).observation.pose.at = pose.at
    /\ Tracking(Step!RobotEnters(Step!Fresh, robot), pose, FALSE, robot).observation.pose.at = robot.pose.at
    /\ pose.at # robot.pose.at
\* In the arms mode nothing but the arms follows: whatever the reference, the rest of
\* the command is a standing pose at the yaw where the arms mode was entered.
ASSUME ArmsModeStands ==
  \A robot, later \in Robots, before, after \in Poses :
    LET m == Step!RobotTogglesArms(Tracking(Step!RobotEnters(Step!Fresh, robot), before, FALSE, robot).memory,
                                   TRUE, robot)
        o == Tracking(Tracking(m, before, TRUE, robot).memory, after, TRUE, later).observation
    IN  o.pose = [Step!RobotStanding(robot) EXCEPT !.arms = after.arms]

\* A policy that sees windows is shown a window other than the pose it holds: a hold
\* for want of a fresh reference aligns a pose that is aligned already.
ASSUME HoldIsAlignedTwice ==
  \E robot \in Robots, pose \in Poses :
    LET m == Seen!RobotFollows(Seen!RobotEnters(Seen!Fresh, robot), pose, Seen!NoWindow, FALSE, robot).memory
        held == Seen!RobotHoldPose(m, robot)
        o == Seen!RobotHolds(m, held, Seen!StaticWindow(held, 2), robot).observation
    IN  o.window.poses[1] # held
-----------------------------------------------------------------------------
(* Offline playback: four iterations with up to two keys each, while the robot is *)
(* led where the commanded pose is.                                               *)

Clip == [i \in 0..3 |-> PoseAt(i, i, 10 * i)]
Playing == INSTANCE OfflineSession WITH Duration <- 3, PauseOnEnd <- TRUE, Motion <- Clip, RestPose <- Rest
Ending == INSTANCE OfflineSession WITH Duration <- 3, PauseOnEnd <- FALSE, Motion <- Clip, RestPose <- Rest
Start == Step!Robot(PoseAt(7, 2, 5), TRUE)
ClipKeys == {<<>>, <<"p">>, <<"r">>, <<"q">>, <<"p", "p">>, <<"r", "p">>, <<"p", "r">>}
Moved(s) == Step!Robot([Playing!Commanded(s).observation.pose EXCEPT !.joints = 5], TRUE)
AfterKeys(s, keys) ==
  LET after[n \in 0..2] ==
        IF n = 0 THEN s ELSE IF n > Len(keys) THEN after[n - 1] ELSE Playing!Pressed(after[n - 1], keys[n], Start)
  IN  after[2]
Watched == LET after[n \in 0..5] ==
                 IF n = 0 THEN { Playing!Started(Start) }
                 ELSE { Playing!Iterated(s, Moved(s)) :
                          s \in { k \in { AfterKeys(s, keys) : s \in after[n - 1], keys \in ClipKeys } : ~k.ended } }
           IN  UNION { after[n] : n \in 0..5 }

\* The playback is stopped exactly while the session holds a pose, the pose it has
\* just commanded; and it holds one from the end of the clip on, until a replay.
ASSUME PlaybackHoldsWhatItPlayed ==
  \A s \in Watched :
    /\ s.clip.paused <=> Playing!Holding(s)
    /\ s.clip.finished => Playing!Holding(s)
    /\ \A t \in { AfterKeys(s, <<"p">>) } :
         Playing!Holding(t) /\ s.memory.commanded # Step!Unset =>
           Step!Value(t.memory.hold) = Step!Value(s.memory.commanded)

\* A pause neither skips nor repeats a pose of the clip; a resumed clip goes on where
\* the robot is; its first joint velocity is taken from the robot, where that of a
\* session that was stopped live is none.
ASSUME PauseLosesNothing ==
  \A s \in Watched : ~Playing!Holding(s) =>
    LET stopped == AfterKeys(s, <<"p">>)
        later == Playing!Iterated(stopped, Moved(stopped))
        resumed == AfterKeys(later, <<"p">>)
        o == Playing!Commanded(resumed).observation
    IN  /\ ~Playing!Holding(resumed) /\ resumed.clip = s.clip
        /\ o.pose.at = later.robot.pose.at /\ o.pose.yaw = later.robot.pose.yaw
        /\ o.joint = <<Clip[s.clip.pos].joints - later.robot.pose.joints>>

\* Two presses in one poll are no press, but for what they make the policy forget.
ASSUME TwoPressesPlayOn ==
  \A s \in Watched : AfterKeys(s, <<"p", "p">>).clip = s.clip

\* Without the pause at the end the session ends with the clip, never before.
ASSUME ClipEndsSession ==
  LET after[n \in 0..3] == IF n = 0 THEN Ending!Started(Start)
                           ELSE Ending!Iterated(after[n - 1], Start)
  IN  after[3].ended /\ ~after[2].ended

-----------------------------------------------------------------------------
(* A policy that is loaded, over small files, observations and actions. *)

SingleFile(dim) == <<[name |-> "obs", shape |-> <<1, dim>>]>>
DualFile(dim, length, width) == <<[name |-> "obs", shape |-> <<1, dim>>], [name |-> "obs_history", shape |-> <<1, length, width>>]>>
LoadedPolicy(inputs) == Step!Policy(inputs, <<2, 2>>, <<10, 20>>, <<-3, 5>>)
DualPolicy == LoadedPolicy(DualFile(2, 3, 2))
ObservationRuns == UNION { [1..n -> {<<1, 1>>, <<2, 2>>}] : n \in 1..5 }
FedAll(p, obs) == FoldLeft(Step!Computed, p, obs)

\* The history that is fed has its full length from the first observation on: the newest
\* come last, and before there were enough the first one is repeated.
ASSUME HistoryIsTheNewest ==
  \A obs \in ObservationRuns :
    LET p == FedAll(DualPolicy, obs)
        n == Len(obs)
    IN  /\ ~p.raised /\ Len(p.history) = 3 /\ p.last = obs[n]
        /\ \A i \in 1..3 : p.history[i] = IF n - 3 + i < 1 THEN obs[1] ELSE obs[n - 3 + i]

\* A reset forgets: what is fed after it does not depend on anything from before.
ASSUME ResetForgets ==
  \A before \in { o \in ObservationRuns : Len(o) <= 3 }, obs \in { o \in ObservationRuns : Len(o) <= 3 } :
    FedAll(Step!Forgotten(FedAll(DualPolicy, before)), obs) = FedAll(DualPolicy, obs)

\* An observation of a wrong length is refused and leaves no trace where the file says its
\* length; where it does not, it stays in the history and the policy refuses all that
\* follow until it has been pushed out or forgotten.
ASSUME WrongObservation ==
  \A obs \in { o \in ObservationRuns : Len(o) <= 4 } :
    LET known == FedAll(DualPolicy, obs)
        open == FedAll(LoadedPolicy(DualFile(Step!None, 3, 2)), obs)
        after == Step!Computed(open, <<7>>)
    IN  /\ Step!Computed(known, <<7>>) = [known EXCEPT !.raised = TRUE]
        /\ after.raised /\ Step!Computed(after, <<1, 1>>).raised /\ FedAll(after, <<<<1, 1>>, <<1, 1>>>>).raised
        /\ ~FedAll(after, <<<<1, 1>>, <<1, 1>>, <<1, 1>>>>).raised
        /\ ~Step!Computed(Step!Forgotten(after), <<1, 1>>).raised

-----------------------------------------------------------------------------
ActionValues == {-100, -3, 0, 4, 100, Step!NaN}
\* Whatever the network returns, a target is a number within what the clip and the scale
\* allow around the standing pose, and the pose itself if a number was none.
ASSUME TargetsAreBounded ==
  \A a \in [1..2 -> ActionValues] :
    LET p == DualPolicy
        t == Step!Target(p, a)
        u == Step!Target(p, Step!Action(a))
    IN  /\ Step!TargetValid(p, a)
        /\ \A i \in 1..2 : t[i] \in (p.standing[i] - 6)..(p.standing[i] + 10)
        /\ Step!NaN \in { a[i] : i \in 1..2 } => t = p.standing /\ u = p.standing
        /\ Step!Usable(Step!Action(a))
        /\ Step!NaN \notin { a[i] : i \in 1..2 } => u = t
        /\ \A i, j \in 1..2 : ~(Step!NaN \in { a[k] : k \in 1..2 }) /\ a[i] <= a[j] => t[i] - p.standing[i] <= t[j] - p.standing[j]

\* A range of one number is one around zero, whatever its sign; a mapping of scales is
\* that of the robot's joints, in their order, or refused.
ASSUME SettingsAreChecked ==
  /\ \A x \in -2..2 : Step!ClipValid(<<x>>) /\ Step!ClipRange(<<x>>)[1] = -Step!ClipRange(<<x>>)[2] /\ Step!ClipRange(<<x>>)[2] >= 0
  /\ \A x, y \in -2..2 : Step!ClipValid(<<x, y>>) => Step!ClipRange(<<x, y>>)[1] <= Step!ClipRange(<<x, y>>)[2]
  /\ \A known \in SUBSET {"hip", "knee", "toe"} \ {{}} :
       LET scale == [j \in known |-> IF j = "hip" THEN 1 ELSE 2]
       IN  /\ Step!ScaleValid(scale, <<"knee", "hip">>) <=> known = {"hip", "knee"}
           /\ Step!ScaleValid(scale, <<"knee", "hip">>) => Step!ActionScale(scale, <<"knee", "hip">>) = <<2, 1>>
  /\ \A available \in SUBSET {"cuda", "cpu"}, device \in {"auto", "cuda:0", "cpu"} :
       LET providers == Step!Providers(available, device)
       IN  Last(providers) = "cpu" /\ (Len(providers) = 2 <=> device # "cpu" /\ "cuda" \in available)
  /\ \A file \in { SingleFile(2), DualFile(2, 3, 2), DualFile(2, 3, 2) \o SingleFile(2), SingleFile(2) \o SingleFile(2) } :
       Step!SignatureValid(file) <=> file \in { SingleFile(2), DualFile(2, 3, 2) }

-----------------------------------------------------------------------------
(* The windows of a session, over every set of windows. *)

Window == INSTANCE ViewerProcesses

ViewerRequests == [list : BOOLEAN, names : SUBSET Window!ValidViewers \cup { {"all"}, {"none"}, {"none", "retarget"}, {"window"} }]
\* Whatever is accepted names windows that exist; the robot takes what is accepted for it
\* only, and all of the windows never includes the camera.
ASSUME RequestsAreWindows ==
  \A raw \in ViewerRequests :
    /\ Window!ViewersValid(raw) => Window!Viewers(raw) \subseteq Window!ValidViewers
    /\ Window!RobotViewersValid(raw) => Window!Viewers(raw) \in {{}, {"retarget"}}
    /\ Window!ViewersValid(raw) /\ raw.names \cap {"all", "none"} # {} => ~raw.list /\ "camera" \notin Window!Viewers(raw)

-----------------------------------------------------------------------------
ViewedFrames == { [pose |-> p, skeleton |-> s] : p \in {-2, 0, 1}, s \in BOOLEAN }
\* A step of a window or a write of the session.
WindowSteps(m) ==
  UNION { LET w == m.windows[v]
          IN  (IF w.phase = "starting" THEN { Window!Opened(m, v), Window!Ended(m, v) } ELSE {})
              \cup (IF w.phase = "open" THEN { Window!Drawn(m, v), Window!Ended(m, v) } ELSE {})
              \cup { Window!Written(m, v, f) : f \in ViewedFrames } : v \in DOMAIN m.windows }
WindowStarts == { Window!MocapEnsured(Window!Managed(w, [model |-> model, camera |-> camera]), bones) :
                    w \in { {}, {"mocap"}, {"retarget"}, {"mocap", "retarget"}, {"sim2sim", "camera"} }, model, camera, bones \in BOOLEAN }
WindowRuns == LET after[n \in 0..4] == IF n = 0 THEN WindowStarts ELSE UNION { WindowSteps(m) : m \in after[n - 1] }
              IN  UNION { after[n] : n \in 0..4 }

\* A window draws what was written while it was open, with its feet on the ground, or the
\* array that nobody has written; its lift is found once.
ASSUME WindowsDrawWrites ==
  \A m \in WindowRuns : \A v \in DOMAIN m.windows :
    LET w == m.windows[v]
    IN  /\ w.alive <=> w.phase = "open"
        /\ w.phase = "starting" => w.array = 0 /\ w.shown = Window!None
        /\ v = "retarget" => w.shown \in {Window!None, 0, 1}
        /\ v = "mocap" /\ w.alive /\ w.lift # Window!None => \A f \in ViewedFrames : Window!Drawn(Window!Written(m, v, f), v).windows[v].lift = w.lift
        /\ v = "mocap" /\ w.alive /\ w.lift = Window!None => Window!Drawn(m, v).windows[v].shown >= 0

\* A session that is shown goes on until its last window has gone, and does not begin if
\* nothing that it asked for could be opened: a model without a camera fails, an input
\* without bones or a robot without a model gets a session that ends at once.
ASSUME SessionNeedsAWindow ==
  \A m \in WindowRuns :
    /\ ~Window!HasViewers(m) => Window!GoesOn(m)
    /\ Window!HasViewers(m) => (Window!GoesOn(m) <=> \E v \in DOMAIN m.windows : m.windows[v].phase = "open")
    /\ Window!HasViewers(m) /\ m.windows = [v \in {} |-> Window!Starting] /\ ~m.raised => Window!Ready(m) /\ ~Window!GoesOn(m)
\* A camera that the model lacks is noticed when the other windows are already there, and
\* the bones of the input decide on the mocap window.
ASSUME LateCamera ==
  \A w \in SUBSET Window!ValidViewers : LET m == Window!Managed(w, [model |-> TRUE, camera |-> FALSE])
    IN  /\ m.raised <=> "camera" \in w
        /\ \A bones \in BOOLEAN : DOMAIN Window!MocapEnsured(m, bones).windows = w \ ({"camera"} \cup (IF bones THEN {} ELSE {"mocap"}))

\* Every window that is asked to close closes at its next picture, and none is left.
ASSUME WindowsClose ==
  \A m \in WindowRuns :
    /\ \A v \in DOMAIN m.windows : m.windows[v].phase = "open" => ~Window!Drawn(Window!AskedToClose(m), v).windows[v].alive
    /\ ~Window!AnyActive(Window!Terminated(Window!AskedToClose(m)))

-----------------------------------------------------------------------------
BoneHeights == {Window!None, 0, 5, 90}
\* The camera sees the root and whatever is near it; a bone that is far off is left out
\* only if another one is near, and what is no number never counts.
ASSUME CameraSeesTheBody ==
  \A bones \in [1..3 -> BoneHeights] :
    LET f == Window!Framed(bones, 30, 26)
        seen == { b \in 1..3 : bones[b] # Window!None }
    IN  /\ f.low <= f.high /\ f.distance >= 26 /\ f.distance * 10 >= (f.high - f.low) * 22 - 9
        /\ 1 \in seen => bones[1] \in f.low..f.high
        /\ \A b \in seen :
             bones[b] \notin f.low..f.high
               <=> 1 \in seen /\ bones[b] - bones[1] \notin -30..30 /\ \E c \in seen \ {1} : bones[c] - bones[1] \in -30..30
=============================================================================
