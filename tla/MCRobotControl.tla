-------------------------- MODULE MCRobotControl --------------------------
(* Small instances of RobotControl for TLC. *)
EXTENDS RobotControl

\* What the operator does with the remote: nothing, one button, or L1+R1.
OneButton(buttons) == {{}, {"LB", "RB"}} \cup { {b} : b \in buttons }
TeleopKeys == OneButton({"start", "A", "B", "X", "Y"})
VelocityKeys == OneButton({"start", "Y"})
StartKey == OneButton({"start"})

\* At most two events in one packet: what two Pico frames within 8 ms can press.
UpToTwo(events) == { <<a>> : a \in events } \cup { <<a, b>> : a, b \in events }
NoEvents == {}
TeleopEvents == UpToTwo({"toggle_arms", "toggle_pause"})
VelocityEvents == UpToTwo({"toggle_velocity", "toggle_estop"})
=============================================================================
