------------------------------ MODULE G1Bridge ------------------------------
(***************************************************************************)
(* What RobotControl takes for one step, looked into: UnitreeG1Robot and   *)
(* the publish thread of third_party/g1_bridge_sdk/src/g1_bridge.cpp.  The *)
(* control worker writes a target and two flags; the thread tests the      *)
(* flags, fills the command frame and writes it to the motors, 200 times a *)
(* second.  Targets are told apart by the session that set them.           *)
(***************************************************************************)
EXTENDS Naturals

CONSTANTS
  VelocityStack,  \* VELOCITY is configured: it is left without damping first
  Settle          \* frames written during the sleep that follows set_damping

ASSUME G1BridgeAssumption == VelocityStack \in BOOLEAN /\ Settle \in Nat \ {0, 1}

VARIABLES
  caller,      \* where the control worker is in its calls
  running,     \* publish_running_
  damping,     \* damping_requested_
  hasTarget,   \* has_target_
  target,      \* target_pos_, target_kp_ and target_kd_
  loop,        \* where the publish thread is
  frame,       \* cmd_, the command under construction
  wire,        \* the last frame written to the motors since they were taken over
  settled      \* frames written since set_damping, counted up to Settle

worker == <<caller, running, damping, hasTarget, target>>
thread == <<loop, frame, wire, settled>>
bridgeVars == <<worker, thread>>

BridgeTargets == {"none", "this", "earlier"}

BridgeTypeOK ==
  /\ caller \in {"released", "flagging", "taking", "driving", "settling", "joining"}
  /\ running \in BOOLEAN /\ damping \in BOOLEAN /\ hasTarget \in BOOLEAN
  /\ target \in BridgeTargets
  /\ loop \in {"off", "test", "damp", "copy", "write"}
  /\ frame \in {"damping"} \cup BridgeTargets /\ wire \in {"damping"} \cup BridgeTargets
  /\ settled \in 0..Settle

BridgeInit ==
  /\ caller = "released" /\ running = FALSE /\ damping = FALSE
  /\ hasTarget = FALSE /\ target = "none"
  /\ loop = "off" /\ frame = "damping" /\ wire = "none" /\ settled = 0

-----------------------------------------------------------------------------
(* The calls of the control worker.                                        *)

\* Mutant of StartPublish: a new session starts with the flags cleared.
StartPublishFresh ==
  /\ caller = "released" /\ caller' = "taking"
  /\ running' = TRUE /\ loop' = "test" /\ damping' = FALSE
  /\ UNCHANGED <<hasTarget, target, frame, wire, settled>>

\* lock_all_joints first starts the thread, and reads the pose to hold only then.
StartPublish ==
  /\ caller = "released" /\ caller' = "taking"
  /\ running' = TRUE /\ loop' = "test"
  /\ UNCHANGED <<damping, hasTarget, target, frame, wire, settled>>

\* set_target, by lock_all_joints or send_positions: the arrays, then the flags.
StoreTarget ==
  /\ caller \in {"taking", "driving"} /\ caller' = "flagging"
  /\ target' = "this"
  /\ UNCHANGED <<running, damping, hasTarget, thread>>

\* Mutant of StoreFlags: an earlier damping request stands.
StoreHasTarget ==
  /\ caller = "flagging" /\ caller' = "driving"
  /\ hasTarget' = TRUE
  /\ UNCHANGED <<running, damping, target, thread>>

StoreFlags ==
  /\ caller = "flagging" /\ caller' = "driving"
  /\ hasTarget' = TRUE /\ damping' = FALSE
  /\ UNCHANGED <<running, target, thread>>

\* set_damping, and the sleep of half a second that every caller of it makes.
SetDamping ==
  /\ caller = "driving" /\ caller' = "settling"
  /\ damping' = TRUE /\ settled' = 0
  /\ UNCHANGED <<running, hasTarget, target, loop, frame, wire>>

\* exit_debug_mode: after damping, or at once when VELOCITY is left by a fall.
StopPublish ==
  /\ \/ caller = "settling" /\ settled = Settle
     \/ caller = "driving" /\ VelocityStack
  /\ caller' = "joining" /\ running' = FALSE
  /\ UNCHANGED <<damping, hasTarget, target, thread>>

\* The thread has ended, and the motors are the onboard controller's again.
Join ==
  /\ caller = "joining" /\ loop = "off"
  /\ caller' = "released"
  /\ target' = "earlier" /\ wire' = "none"
  /\ UNCHANGED <<running, damping, hasTarget, loop, frame, settled>>

Calls == StartPublish \/ StoreTarget \/ StoreFlags \/ SetDamping \/ StopPublish \/ Join

-----------------------------------------------------------------------------
(* publish_loop.                                                           *)

\* Mutant of Test: a target is looked for before a damping request.
TestTargetFirst ==
  /\ loop = "test"
  /\ \/ ~running /\ loop' = "off"
     \/ running /\ hasTarget /\ loop' = "copy"
     \/ running /\ ~hasTarget /\ damping /\ loop' = "damp"
     \/ running /\ ~hasTarget /\ ~damping /\ loop' = "write"
  /\ UNCHANGED <<worker, frame, wire, settled>>

\* With no request and no target yet, the frame stays what it was built as: damping.
Test ==
  /\ loop = "test"
  /\ \/ ~running /\ loop' = "off"
     \/ running /\ damping /\ loop' = "damp"
     \/ running /\ ~damping /\ hasTarget /\ loop' = "copy"
     \/ running /\ ~damping /\ ~hasTarget /\ loop' = "write"
  /\ UNCHANGED <<worker, frame, wire, settled>>

Damp ==
  /\ loop = "damp" /\ loop' = "write" /\ frame' = "damping"
  /\ UNCHANGED <<worker, wire, settled>>

Copy ==
  /\ loop = "copy" /\ loop' = "write" /\ frame' = target
  /\ UNCHANGED <<worker, wire, settled>>

Write ==
  /\ loop = "write" /\ loop' = "test"
  /\ wire' = frame
  /\ settled' = IF settled < Settle THEN settled + 1 ELSE settled
  /\ UNCHANGED <<worker, frame>>

Thread == Test \/ Damp \/ Copy \/ Write

BridgeNext == Calls \/ Thread

BridgeSpec == BridgeInit /\ [][BridgeNext]_bridgeVars

\* The publish thread has a period of its own and never blocks for long; the
\* worker may take any time between two calls, but finishes the call it is in.
BridgeFairSpec == BridgeSpec /\ WF_bridgeVars(Thread) /\ WF_bridgeVars(StoreFlags) /\ WF_bridgeVars(Join)

-----------------------------------------------------------------------------
\* Motors that were driven are let go of damped: the last frame before the thread
\* ends carries no position, in spite of the frame under way at set_damping.
ReleasedDamped == ~VelocityStack /\ caller = "joining" => wire = "damping"

\* A new session never plays an earlier session's target, though the thread starts
\* before the pose to hold is known: the damping request of the release covers it.
NoStaleTarget == ~VelocityStack => wire # "earlier"

\* A target reaches the motors, unless they are damped or released.
TargetReachesMotors ==
  (caller \in {"flagging", "driving"}) ~> (wire = "this" \/ caller \in {"settling", "joining"})
=============================================================================
