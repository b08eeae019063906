---------------------------- MODULE TeleopModes ----------------------------
(***************************************************************************)
(* What the robot-control worker promises its operators: the mode graph of *)
(* the sim2real tutorials, who holds the motors in each mode, and the      *)
(* VELOCITY lock of the emergency stop.  RobotControl implements it.       *)
(***************************************************************************)
VARIABLES
  mode,    \* the mode the worker is in
  lock,    \* "free", "engaged" (stop in progress) or "locked"
  driven   \* the worker, and not the onboard controller, commands the motors

vars == <<mode, lock, driven>>

MocapModes == {"mocap", "arms"}
DrivenModes == {"standing", "velocity"} \cup MocapModes
Modes == DrivenModes \cup {"idle", "damping"}

TypeOK ==
  /\ mode \in Modes
  /\ lock \in {"free", "engaged", "locked"}
  /\ driven \in BOOLEAN

Init == mode = "idle" /\ lock = "free" /\ driven = FALSE

\* Start: take the motors over, from IDLE or DAMPING only.
Start ==
  /\ mode \in {"idle", "damping"} /\ mode' = "standing"
  /\ driven' = TRUE
  /\ UNCHANGED lock

\* Every entry into DAMPING gives the motors back and locks VELOCITY.
Damp ==
  /\ mode' = "damping"
  /\ lock' = "locked"
  /\ driven' = FALSE

EnterMocap == mode = "standing" /\ mode' = "mocap" /\ UNCHANGED <<lock, driven>>

ToggleArms ==
  /\ mode \in MocapModes /\ mode' \in MocapModes \ {mode}
  /\ UNCHANGED <<lock, driven>>

LeaveMocap == mode \in MocapModes /\ mode' = "standing" /\ UNCHANGED <<lock, driven>>

\* VELOCITY is entered from STANDING, and only while nothing holds the lock.
EnterVelocity ==
  /\ mode = "standing" /\ mode' = "velocity"
  /\ lock = "free"
  /\ UNCHANGED <<lock, driven>>

\* VELOCITY is left for STANDING; an engaged stop may lock as it is left.
LeaveVelocity ==
  /\ mode = "velocity" /\ mode' = "standing"
  /\ lock' = lock \/ (lock = "engaged" /\ lock' = "locked")
  /\ UNCHANGED driven

\* The E toggle: engages in VELOCITY, releases whatever is held elsewhere.
Engage == mode = "velocity" /\ lock = "free" /\ lock' = "engaged" /\ UNCHANGED <<mode, driven>>

Release == lock # "free" /\ lock' = "free" /\ UNCHANGED <<mode, driven>>

\* The worker ends: nothing drives the motors any more.
Stop == driven' = FALSE /\ UNCHANGED <<mode, lock>>

Next ==
  \/ Start \/ Damp \/ Stop
  \/ EnterMocap \/ ToggleArms \/ LeaveMocap
  \/ EnterVelocity \/ LeaveVelocity
  \/ Engage \/ Release

Spec == Init /\ [][Next]_vars
=============================================================================
