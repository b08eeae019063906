-------------------------- MODULE Actuators_proofs --------------------------
(***************************************************************************)
(* Theorems about what moves the robot: the hands (Effectors), for every   *)
(* set of modes, every configuration of the gate and topics of every       *)
(* capacity, and the motors of the body (G1Bridge), for every number of    *)
(* frames that the sleep after set_damping lasts, two at the least.        *)
(***************************************************************************)
EXTENDS Effectors, G1Bridge, TLAPS

-----------------------------------------------------------------------------
(* The hand workers.                                                       *)

USE DEF Sides, Packets, Targets

\* The policy worker has no HandRuntime: it ends on the first exception.
PolicyNeverDisabled == driver = "policy" => ~failed

HandInv == HandTypeOK /\ FailureLeavesHandsOpen /\ PolicyNeverDisabled

LEMMA PublishedStays ==
  ASSUME NEW M, NEW ch \in Channel(M), NEW m \in M
  PROVE  Published(ch, m) \in Channel(M)
BY CapacityAssumption DEF Published, Channel

LEMMA EmptyChannel == ASSUME NEW M PROVE <<>> \in Channel(M)
BY CapacityAssumption DEF Channel

\* What recv_latest returns is one of the messages of the topic.
LEMMA ReceivedMessage ==
  ASSUME NEW M, NEW ch \in Channel(M), ch # <<>>
  PROVE  Received(ch) \in { <<m>> : m \in M } /\ Received(ch)[1] \in M
<1>1. ch \in Seq(M) /\ Len(ch) \in 1..Len(ch)
  BY DEF Channel
<1>2. ch[Len(ch)] \in M
  BY <1>1
<1> QED
  BY <1>2 DEF Received

\* An attempt to open the hands opens them both, or is known to have raised.
LEMMA OpenAttempt ==
  ASSUME NEW c \in SUBSET Sides,
         \E done \in BOOLEAN : Opened(c, closed', done) /\ missed' = ~done
  PROVE  closed' \in SUBSET Sides /\ missed' \in BOOLEAN /\ (closed' = {} \/ missed')
<1>1. PICK done \in BOOLEAN : Opened(c, closed', done) /\ missed' = ~done
  OBVIOUS
<1>2. CASE done = TRUE
  <2>1. closed' = {} /\ missed' = FALSE
    BY <1>1, <1>2 DEF Opened
  <2> QED
    BY <2>1
<1>3. CASE done = FALSE
  <2>1. closed' \in {c, c \ {"left"}} /\ missed' = TRUE
    BY <1>1, <1>3 DEF Opened
  <2> QED
    BY <2>1
<1> QED
  BY <1>2, <1>3

LEMMA InitHolds == Init => HandInv
<1> SUFFICES ASSUME Init PROVE HandInv
  OBVIOUS
<1>1. modes \in Channel(Packets) /\ targets \in Channel(Targets)
  BY EmptyChannel DEF Init
<1>2. robot \in Packets
  <2>1. PICK m \in RobotModes : robot = [mode |-> m, paused |-> FALSE, session |-> 0]
    BY DEF Init
  <2>2. 0 \in 0..Sessions
    BY EffectorAssumption
  <2> QED
    BY <2>1, <2>2
<1>3. failed = FALSE /\ missed = FALSE
  BY DEF Init
<1>4. HandTypeOK
  BY <1>1, <1>2, <1>3 DEF Init, HandTypeOK
<1> QED
  BY <1>3, <1>4 DEF HandInv, FailureLeavesHandsOpen, PolicyNeverDisabled

LEMMA RobotKeeps == HandInv /\ (Robot \/ OperatorMoves) => HandInv'
<1> SUFFICES ASSUME HandInv, Robot \/ OperatorMoves PROVE HandInv'
  OBVIOUS
<1> USE DEF HandInv, FailureLeavesHandsOpen, PolicyNeverDisabled, RobotRest, mapper, hands
<1>1. CASE ChangeMode
  <2>1. robot' \in Packets
    <3>0. robot \in Packets
      BY DEF HandTypeOK
    <3>1. CASE \E m \in RobotModes \ {robot.mode} :
                 robot' = [robot EXCEPT !.mode = m, !.paused = FALSE]
      BY <3>0, <3>1
    <3>2. CASE /\ robot.session < Sessions
               /\ robot' = [mode |-> "policy", paused |-> FALSE, session |-> robot.session + 1]
      BY <3>0, <3>2, EffectorAssumption
    <3>3. CASE robot' = [robot EXCEPT !.paused = ~@]
      BY <3>0, <3>3
    <3> QED
      BY <1>1, <3>1, <3>2, <3>3 DEF ChangeMode
  <2> QED
    BY <1>1, <2>1 DEF ChangeMode, HandTypeOK
<1>2. CASE PublishMode
  <2>1. modes' \in Channel(Packets)
    BY <1>2, PublishedStays DEF PublishMode, HandTypeOK
  <2> QED
    BY <1>2, <2>1 DEF PublishMode, HandTypeOK
<1>3. CASE PublishTarget
  <2>1. PICK closes \in SUBSET Sides :
          targets' = Published(targets, [session |-> robot.session, closes |-> closes])
    BY <1>3 DEF PublishTarget
  <2>2. [session |-> robot.session, closes |-> closes] \in Targets
    BY DEF HandTypeOK
  <2>3. targets' \in Channel(Targets)
    BY <2>1, <2>2, PublishedStays DEF HandTypeOK
  <2> QED
    BY <1>3, <2>3 DEF PublishTarget, HandTypeOK
<1>4. CASE OperatorMoves
  BY <1>4 DEF OperatorMoves, HandTypeOK
<1> QED
  BY <1>1, <1>2, <1>3, <1>4 DEF Robot

\* The packet that a read leaves as the last one seen.
LEMMA SeenTyped ==
  ASSUME HandTypeOK, seen' = IF modes = <<>> THEN seen ELSE Received(modes)
  PROVE  seen' \in {<<>>} \cup { <<p>> : p \in Packets }
BY ReceivedMessage DEF HandTypeOK

LEMMA ReadModeGateKeeps == HandInv /\ ReadModeGate => HandInv'
<1> SUFFICES ASSUME HandInv, ReadModeGate PROVE HandInv'
  OBVIOUS
<1>1. seen' \in {<<>>} \cup { <<p>> : p \in Packets } /\ modes' \in Channel(Packets)
  BY SeenTyped, EmptyChannel DEF HandInv, ReadModeGate
<1>2. \/ UNCHANGED hands
      \/ \E done \in BOOLEAN : Opened(closed, closed', done) /\ missed' = ~done
  BY DEF ReadModeGate
<1>3. /\ closed' \in SUBSET Sides /\ missed' \in BOOLEAN
      /\ (failed => closed' = {} \/ missed')
  <2>1. CASE UNCHANGED hands
    BY <2>1 DEF HandInv, HandTypeOK, FailureLeavesHandsOpen, hands
  <2>2. CASE \E done \in BOOLEAN : Opened(closed, closed', done) /\ missed' = ~done
    <3>1. closed \in SUBSET Sides
      BY DEF HandInv, HandTypeOK
    <3> QED
      BY <2>2, <3>1, OpenAttempt
  <2> QED
    BY <1>2, <2>1, <2>2
<1> QED
  BY <1>1, <1>3 DEF HandInv, HandTypeOK, FailureLeavesHandsOpen, PolicyNeverDisabled,
     ReadModeGate, mapper

LEMMA TickKeeps == ASSUME NEW due \in BOOLEAN PROVE HandInv /\ Tick(due) => HandInv'
<1> SUFFICES ASSUME HandInv, Tick(due) PROVE HandInv'
  OBVIOUS
<1>1. CASE failed
  BY <1>1 DEF HandInv, HandTypeOK, FailureLeavesHandsOpen, PolicyNeverDisabled, Tick,
     world, mapper, hands
<1>2. CASE ~failed
  <2>1. PICK changes \in SUBSET Sides, close \in SUBSET Sides :
          /\ Send(changes, close)
          /\ \/ driver = "preset" /\ PresetMap(changes, close) /\ UNCHANGED tracking
             \/ driver = "gripper" /\ GripperMap(due, changes, close)
                /\ UNCHANGED <<current, pressed>>
    BY <1>2 DEF Tick
  <2>2. /\ current' \in SUBSET Sides /\ pressed' \in SUBSET Sides
        /\ tracking' \in BOOLEAN
    BY <2>1 DEF PresetMap, GripperMap, HandInv, HandTypeOK
  <2>3. /\ closed' \in SUBSET Sides /\ missed' \in BOOLEAN /\ failed' \in BOOLEAN
        /\ (failed' => closed' = {} \/ missed')
    <3>1. CASE /\ closed' = Sent(closed, changes, close)
               /\ missed' = (missed /\ changes # Sides)
               /\ UNCHANGED failed
      <4>1. closed' \in SUBSET Sides
        BY <3>1 DEF Sent, HandInv, HandTypeOK
      <4>2. missed' \in BOOLEAN
        BY <3>1
      <4>3. failed' = failed
        BY <3>1
      <4> QED
        BY <4>1, <4>2, <4>3, <1>2 DEF HandInv, HandTypeOK
    <3>2. CASE /\ changes # {} /\ failed' = TRUE
               /\ \E sent \in { {}, changes \cap {"left"} }, done \in BOOLEAN :
                    /\ sent # changes
                    /\ Opened(Sent(closed, sent, close), closed', done)
                    /\ missed' = ~done
      <4>1. PICK sent \in { {}, changes \cap {"left"} }, done \in BOOLEAN :
              Opened(Sent(closed, sent, close), closed', done) /\ missed' = ~done
        BY <3>2
      <4>2. Sent(closed, sent, close) \in SUBSET Sides
        BY DEF Sent, HandInv, HandTypeOK
      <4> QED
        BY <4>1, <4>2, <3>2, OpenAttempt
    <3> QED
      BY <2>1, <3>1, <3>2 DEF Send
  <2> QED
    BY <2>2, <2>3 DEF HandInv, HandTypeOK, FailureLeavesHandsOpen, PolicyNeverDisabled,
       Tick, world
<1> QED
  BY <1>1, <1>2

LEMMA CrashKeepsHands ==
  ASSUME NEW c \in SUBSET Sides, Crashes(c)
  PROVE  step' = "off" /\ closed' \in SUBSET Sides /\ missed' \in BOOLEAN
BY OpenAttempt DEF Crashes

LEMMA ReadPolicyModeKeeps == HandInv /\ ReadPolicyMode => HandInv'
<1> SUFFICES ASSUME HandInv, ReadPolicyMode PROVE HandInv'
  OBVIOUS
<1>1. seen' \in {<<>>} \cup { <<p>> : p \in Packets } /\ modes' \in Channel(Packets)
  BY SeenTyped, EmptyChannel DEF HandInv, ReadPolicyMode
<1>2. wasPolicy' \in BOOLEAN
  BY DEF ReadPolicyMode, InPolicy
<1>3. step' \in {"tick", "off"} /\ closed' \in SUBSET Sides /\ missed' \in BOOLEAN
  BY CrashKeepsHands DEF ReadPolicyMode, HandInv, HandTypeOK, hands
<1> QED
  BY <1>1, <1>2, <1>3 DEF HandInv, HandTypeOK, FailureLeavesHandsOpen, PolicyNeverDisabled,
     ReadPolicyMode, mapper

LEMMA ApplyTargetKeeps == HandInv /\ ApplyTarget => HandInv'
<1> SUFFICES ASSUME HandInv, ApplyTarget PROVE HandInv'
  OBVIOUS
<1>1. targets' \in Channel(Targets)
  BY EmptyChannel DEF ApplyTarget
<1>2. step' \in {"mode", "off"} /\ closed' \in SUBSET Sides /\ missed' \in BOOLEAN
  <2>1. CASE UNCHANGED hands /\ step' = "mode"
    BY <2>1 DEF HandInv, HandTypeOK, hands
  <2>2. CASE /\ targets # <<>>
             /\ LET close == Received(targets)[1].closes
                IN \/ step' = "mode" /\ closed' = close /\ missed' = FALSE
                   \/ \E sent \in { {}, {"left"} } : Crashes(Sent(closed, sent, close))
    <3> DEFINE close == Received(targets)[1].closes
    <3>1. close \in SUBSET Sides
      <4>1. targets \in Channel(Targets)
        BY DEF HandInv, HandTypeOK
      <4>2. Received(targets)[1] \in Targets
        BY <4>1, <2>2, ReceivedMessage
      <4> QED
        BY <4>2
    <3>2. \A sent : Sent(closed, sent, close) \in SUBSET Sides
      BY <3>1 DEF Sent, HandInv, HandTypeOK
    <3>3. CASE step' = "mode" /\ closed' = close /\ missed' = FALSE
      BY <3>1, <3>3
    <3>4. CASE \E sent \in { {}, {"left"} } : Crashes(Sent(closed, sent, close))
      BY <3>2, <3>4, CrashKeepsHands
    <3> QED
      BY <2>2, <3>3, <3>4
  <2> QED
    BY <2>1, <2>2 DEF ApplyTarget
<1> QED
  BY <1>1, <1>2 DEF HandInv, HandTypeOK, FailureLeavesHandsOpen, PolicyNeverDisabled,
     ApplyTarget, mapper

LEMMA ShutdownKeeps == HandInv /\ Shutdown => HandInv'
<1> SUFFICES ASSUME HandInv, Shutdown PROVE HandInv'
  OBVIOUS
<1>1. /\ closed' \in SUBSET Sides /\ missed' \in BOOLEAN
      /\ (failed => closed' = {} \/ missed')
  <2>1. CASE UNCHANGED hands
    BY <2>1 DEF HandInv, HandTypeOK, FailureLeavesHandsOpen, hands
  <2>2. CASE \E done \in BOOLEAN : Opened(closed, closed', done) /\ missed' = ~done
    <3>1. closed \in SUBSET Sides
      BY DEF HandInv, HandTypeOK
    <3> QED
      BY <2>2, <3>1, OpenAttempt
  <2> QED
    BY <2>1, <2>2 DEF Shutdown
<1> QED
  BY <1>1 DEF HandInv, HandTypeOK, FailureLeavesHandsOpen, PolicyNeverDisabled,
     Shutdown, world, mapper

\* The inductive invariant of the hand workers.
THEOREM HandSafety == Spec => []HandInv
<1>1. ASSUME HandInv, [Next]_vars PROVE HandInv'
  <2>1. CASE Next
    BY <1>1, <2>1, RobotKeeps, ReadModeGateKeeps, TickKeeps, ReadPolicyModeKeeps,
       ApplyTargetKeeps, ShutdownKeeps DEF Next, Worker
  <2>2. CASE UNCHANGED vars
    BY <1>1, <2>2 DEF HandInv, HandTypeOK, FailureLeavesHandsOpen, PolicyNeverDisabled,
       vars, world, mapper, hands
  <2> QED
    BY <1>1, <2>1, <2>2
<1> QED
  BY InitHolds, <1>1, PTL DEF Spec

\* Every variable of a hand worker keeps its type.
THEOREM HandTypeCorrect == Spec => []HandTypeOK
BY HandSafety, PTL DEF HandInv

\* A hand runtime that failed has opened both hands, or the device refused to.
THEOREM FailureLeavesHandsOpenAlways == Spec => []FailureLeavesHandsOpen
BY HandSafety, PTL DEF HandInv

-----------------------------------------------------------------------------
(* The bridge of a robot without the VELOCITY stack: what the motors are   *)
(* sent before a session has set its first target and after its last.      *)

\* Once the frame that was under way at the request has gone out, every frame is
\* a damping frame; the one after it reaches the motors.
Settling ==
  caller = "settling" =>
    /\ damping
    /\ settled >= 1 => loop # "copy" /\ (loop = "write" => frame = "damping")
    /\ settled >= 2 => frame = "damping" /\ wire = "damping"

\* From then on nothing but damping is under construction until a new target is set.
Released ==
  /\ caller = "joining" => damping /\ wire = "damping"
  /\ caller \in {"joining", "released", "taking"} => frame = "damping" /\ loop # "copy"
  /\ caller \in {"released", "taking"} => damping \/ ~hasTarget
  /\ caller = "released" => loop = "off" /\ wire = "none"

\* A session that has set its target plays that one.
Driven ==
  /\ caller \in {"flagging", "driving", "settling"} => target = "this"
  /\ caller = "driving" => ~damping
  /\ frame \in {"damping", "this"}
  /\ wire \in {"none", "damping", "this"}

BridgeInv == BridgeTypeOK /\ Settling /\ Released /\ Driven

LEMMA SettleBound == Settle \in Nat /\ Settle >= 2
BY G1BridgeAssumption

LEMMA BridgeInvInit == BridgeInit => BridgeInv
<1> SUFFICES ASSUME BridgeInit PROVE BridgeInv  OBVIOUS
<1>1. BridgeTypeOK
  <2>1. settled \in 0..Settle  BY SettleBound DEF BridgeInit
  <2>2. running \in BOOLEAN /\ damping \in BOOLEAN /\ hasTarget \in BOOLEAN  BY DEF BridgeInit
  <2>3. /\ caller \in {"released", "flagging", "taking", "driving", "settling", "joining"}
        /\ loop \in {"off", "test", "damp", "copy", "write"}
        /\ target \in BridgeTargets
    BY DEF BridgeInit, BridgeTargets
  <2>4. frame \in {"damping"} \cup BridgeTargets /\ wire \in {"damping"} \cup BridgeTargets
    BY DEF BridgeInit, BridgeTargets
  <2> QED  BY <2>1, <2>2, <2>3, <2>4 DEF BridgeTypeOK
<1>2. Settling /\ Released /\ Driven  BY DEF BridgeInit, Settling, Released, Driven
<1> QED  BY <1>1, <1>2 DEF BridgeInv

\* Every call of the worker and every step of the thread keeps the invariant.
LEMMA BridgeInvStep == ASSUME ~VelocityStack, BridgeInv, [BridgeNext]_bridgeVars PROVE BridgeInv'
<1> USE SettleBound DEF BridgeInv, BridgeTypeOK, BridgeTargets, Settling, Released, Driven
<1>1. CASE StartPublish  BY <1>1 DEF StartPublish
<1>2. CASE StoreTarget  BY <1>2 DEF StoreTarget, thread
<1>3. CASE StoreFlags  BY <1>3 DEF StoreFlags, thread
<1>4. CASE SetDamping  BY <1>4 DEF SetDamping
<1>5. CASE StopPublish
  <2>1. caller = "settling" /\ settled >= 2 /\ caller' = "joining"
    BY <1>5 DEF StopPublish
  <2>2. UNCHANGED <<damping, hasTarget, target, loop, frame, wire, settled>> /\ running' = FALSE
    BY <1>5 DEF StopPublish, thread
  <2>3. BridgeTypeOK'  BY <2>1, <2>2
  <2>4. damping /\ wire = "damping" /\ frame = "damping" /\ loop # "copy"  BY <2>1
  <2> QED  BY <2>1, <2>2, <2>3, <2>4
<1>6. CASE Join  BY <1>6 DEF Join
<1>7. CASE Test  BY <1>7 DEF Test, worker
<1>8. CASE Damp  BY <1>8 DEF Damp, worker
<1>9. CASE Copy  BY <1>9 DEF Copy, worker
<1>10. CASE Write  BY <1>10 DEF Write, worker
<1>11. CASE UNCHANGED bridgeVars  BY <1>11 DEF bridgeVars, worker, thread
<1> QED
  BY <1>1, <1>2, <1>3, <1>4, <1>5, <1>6, <1>7, <1>8, <1>9, <1>10, <1>11
  DEF BridgeNext, Calls, Thread

LEMMA BridgeInvariant == ASSUME ~VelocityStack PROVE BridgeSpec => []BridgeInv
BY BridgeInvInit, BridgeInvStep, PTL DEF BridgeSpec

\* NoStaleTarget, for every Settle: the thread starts before lock_all_joints has
\* read the pose to hold, and yet sends no target of an earlier session.
THEOREM NoStaleTargetAlways == ASSUME ~VelocityStack PROVE BridgeSpec => []NoStaleTarget
<1>1. BridgeInv => NoStaleTarget  BY DEF BridgeInv, Driven, NoStaleTarget
<1> QED  BY <1>1, BridgeInvariant, PTL

\* ReleasedDamped, for every Settle: motors that are let go of are damped.
THEOREM ReleasedDampedAlways == ASSUME ~VelocityStack PROVE BridgeSpec => []ReleasedDamped
<1>1. BridgeInv => ReleasedDamped  BY DEF BridgeInv, Released, ReleasedDamped
<1> QED  BY <1>1, BridgeInvariant, PTL

\* What RobotControl takes for one variable, publishing, and one command: who moves
\* the motors.  A thread that has not yet written its first frame is silent.
Motors ==
  IF caller = "released" THEN "onboard"
  ELSE IF wire = "none" THEN "silent" ELSE IF wire = "damping" THEN "damped" ELSE "driven"

\* The abstract bridge: it is taken over silent, driven by nothing but the target of the
\* present session, and let go of damped, by the call that joins the thread.
MotorStep ==
  \/ Motors = "onboard" /\ Motors' = "silent" /\ StartPublish
  \/ Motors \in {"silent", "damped", "driven"} /\ Motors' = "damped" /\ Write
  \/ Motors \in {"silent", "damped", "driven"} /\ Motors' = "driven" /\ Write
     /\ target = "this" /\ caller \in {"flagging", "driving", "settling"}
  \/ Motors = "damped" /\ Motors' = "onboard" /\ Join

\* A frame with a target is there only where the session has set one.
LEMMA FramesAreOfTheCaller ==
  ASSUME BridgeInv, frame = "this" PROVE caller \in {"flagging", "driving", "settling"}
BY DEF BridgeInv, BridgeTypeOK, Released

LEMMA MotorsStep ==
  ASSUME ~VelocityStack, BridgeInv, [BridgeNext]_bridgeVars PROVE [MotorStep]_Motors
<1> USE DEF BridgeInv, BridgeTypeOK, BridgeTargets, Driven, Motors
<1>1. CASE StartPublish  BY <1>1 DEF StartPublish, MotorStep, Released
<1>2. CASE StoreTarget \/ StoreFlags \/ SetDamping \/ StopPublish
  BY <1>2 DEF StoreTarget, StoreFlags, SetDamping, StopPublish, thread
<1>3. CASE Join  BY <1>3 DEF Join, MotorStep, Released
<1>4. CASE Test \/ Damp \/ Copy  BY <1>4 DEF Test, Damp, Copy, worker
<1>5. CASE Write
  <2>1. caller # "released" /\ caller' = caller /\ wire' = frame
    BY <1>5 DEF Write, worker, Released
  <2>2. CASE frame = "damping"  BY <1>5, <2>1, <2>2 DEF MotorStep
  <2>3. CASE frame = "this"
    <3>1. caller \in {"flagging", "driving", "settling"}  BY <2>3, FramesAreOfTheCaller
    <3> QED  BY <1>5, <2>1, <2>3, <3>1 DEF MotorStep
  <2> QED  BY <2>2, <2>3
<1>6. CASE UNCHANGED bridgeVars  BY <1>6 DEF bridgeVars, worker, thread
<1> QED
  BY <1>1, <1>2, <1>3, <1>4, <1>5, <1>6 DEF BridgeNext, Calls, Thread

\* Whatever the interleaving of caller and thread, the motors see the machine that
\* RobotControl takes the bridge for: they never go from a position to the onboard
\* controller, nor from there to one that is not of the new session.
THEOREM BridgeImplementsMotors ==
  ASSUME ~VelocityStack PROVE BridgeSpec => Motors = "onboard" /\ [][MotorStep]_Motors
<1>1. BridgeInit => Motors = "onboard"  BY DEF BridgeInit, Motors
<1> QED  BY <1>1, BridgeInvariant, MotorsStep, PTL DEF BridgeSpec

\* The type needs no assumption on how VELOCITY is left.
LEMMA BridgeTypeStep == ASSUME BridgeTypeOK, [BridgeNext]_bridgeVars PROVE BridgeTypeOK'
<1> USE SettleBound DEF BridgeTypeOK, BridgeTargets
<1>1. CASE StartPublish
  <2>1. running' = TRUE /\ running' \in BOOLEAN  BY <1>1 DEF StartPublish
  <2> QED  BY <1>1, <2>1 DEF StartPublish
<1>2. CASE StoreTarget  BY <1>2 DEF StoreTarget, thread
<1>3. CASE StoreFlags
  <2>1. hasTarget' \in BOOLEAN /\ damping' \in BOOLEAN  BY <1>3 DEF StoreFlags
  <2> QED  BY <1>3, <2>1 DEF StoreFlags, thread
<1>4. CASE SetDamping
  <2>1. damping' \in BOOLEAN /\ settled' \in 0..Settle  BY <1>4 DEF SetDamping
  <2> QED  BY <1>4, <2>1 DEF SetDamping
<1>5. CASE StopPublish
  <2>1. running' \in BOOLEAN  BY <1>5 DEF StopPublish
  <2> QED  BY <1>5, <2>1 DEF StopPublish, thread
<1>6. CASE Join  BY <1>6 DEF Join
<1>7. CASE Test \/ Damp \/ Copy \/ Write
  BY <1>7 DEF Test, Damp, Copy, Write, worker
<1>8. CASE UNCHANGED bridgeVars  BY <1>8 DEF bridgeVars, worker, thread
<1> QED
  BY <1>1, <1>2, <1>3, <1>4, <1>5, <1>6, <1>7, <1>8 DEF BridgeNext, Calls, Thread

\* Every variable of the bridge keeps its type, and the frames of the sleep are bounded.
THEOREM BridgeTypeCorrect == BridgeSpec => []BridgeTypeOK
<1>1. BridgeInit => BridgeTypeOK  BY BridgeInvInit DEF BridgeInv
<1> QED  BY <1>1, BridgeTypeStep, PTL DEF BridgeSpec
=============================================================================
