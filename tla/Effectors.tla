----------------------------- MODULE Effectors -----------------------------
(***************************************************************************)
(* The hand workers of sim2real, processes of their own that follow the    *)
(* robot control worker by its mode topic.  The configuration starts one   *)
(* of three:                                                               *)
(*   preset   _run_hand_worker with the Inspire preset mapper,             *)
(*   gripper  _run_hand_worker with the LinkerHand gripper mapper,         *)
(*   policy   _run_high_level_policy_hand_worker; the policy neck worker   *)
(*            has the same shape, with centring for opening.               *)
(* The robot is any robot: it changes its mode freely and publishes it     *)
(* once per control step on a topic that drops what finds it full.         *)
(*                                                                         *)
(* A hand is open or closed, as the device was last told successfully; a   *)
(* write that raises leaves it as it was.  LinkerHand devices skip a pose  *)
(* they were last sent, which changes nothing here.                        *)
(***************************************************************************)
EXTENDS LatestChannel

CONSTANTS
  RobotModes,    \* the modes of the robot, "policy" apart
  TriggerModes,  \* hands.trigger_modes: the modes the trigger acts in
  OpenModes,     \* hands.open_modes: the modes whose entry opens the hands
  Sessions       \* bound on the policy sessions

ASSUME EffectorAssumption ==
  /\ TriggerModes \subseteq RobotModes /\ OpenModes \subseteq RobotModes
  /\ TriggerModes \cap OpenModes = {}
  /\ "policy" \notin RobotModes
  /\ Sessions \in Nat

VARIABLES
  driver,      \* which worker the configuration starts
  robot,       \* mode, pause and session of the robot
  modes,       \* mode topic, robot to worker
  targets,     \* target topic, robot to the policy worker
  squeezed,    \* the sides whose grip and trigger the newest snapshot has down
  fresh,       \* it is younger than frame_timeout_s
  step,        \* what the worker does next
  seen,        \* the last mode packet the worker read, none at first
  wasPolicy,   \* was_in_policy
  current,     \* PresetToggleMapper: the sides it takes for closed (_current)
  pressed,     \* PresetToggleMapper: the sides whose trigger is down (_pressed)
  tracking,    \* GripperMapper._active
  failed,      \* HandRuntime._failed
  closed,      \* the hands that are closed
  missed       \* the last attempt to open the hands raised before it was done

world == <<driver, robot, modes, targets, squeezed, fresh>>
mapper == <<current, pressed, tracking>>
hands == <<closed, missed>>
vars == <<world, step, seen, wasPolicy, mapper, failed, hands>>

Sides == {"left", "right"}
Packets == [mode : RobotModes \cup {"policy"}, paused : BOOLEAN, session : 0..Sessions]
Targets == [session : 0..Sessions, closes : SUBSET Sides]

HandTypeOK ==
  /\ driver \in {"preset", "gripper", "policy"}
  /\ robot \in Packets
  /\ modes \in Channel(Packets) /\ targets \in Channel(Targets)
  /\ squeezed \in SUBSET Sides /\ fresh \in BOOLEAN
  /\ step \in {"mode", "tick", "off"}
  /\ seen \in {<<>>} \cup { <<p>> : p \in Packets }
  /\ wasPolicy \in BOOLEAN /\ tracking \in BOOLEAN /\ failed \in BOOLEAN
  /\ current \in SUBSET Sides /\ pressed \in SUBSET Sides
  /\ closed \in SUBSET Sides /\ missed \in BOOLEAN

\* LinkerHand devices open the hands as they connect; the Inspire device sends
\* nothing, and finds them as the last run left them.
Init ==
  /\ driver \in {"preset", "gripper", "policy"}
  /\ robot \in [mode : RobotModes, paused : {FALSE}, session : {0}]
  /\ modes = <<>> /\ targets = <<>>
  /\ squeezed = {} /\ fresh = FALSE
  /\ step = "mode" /\ seen = <<>> /\ wasPolicy = FALSE
  /\ current = {} /\ pressed = {} /\ tracking = FALSE
  /\ failed = FALSE /\ missed = FALSE
  /\ closed \in SUBSET Sides /\ (driver = "preset" \/ closed = {})

-----------------------------------------------------------------------------
(* The robot control worker and the operator's controllers.                *)

RobotRest == UNCHANGED <<driver, squeezed, fresh, step, seen, wasPolicy, mapper, failed, hands>>

ChangeMode ==
  /\ \/ /\ \E m \in RobotModes \ {robot.mode} :
             robot' = [robot EXCEPT !.mode = m, !.paused = FALSE]
     \/ /\ driver = "policy" /\ robot.mode # "policy" /\ robot.session < Sessions
        /\ robot' = [mode |-> "policy", paused |-> FALSE, session |-> robot.session + 1]
     \/ /\ robot.mode = "policy"
        /\ robot' = [robot EXCEPT !.paused = ~@]
  /\ UNCHANGED <<modes, targets>> /\ RobotRest

PublishMode ==
  /\ modes' = Published(modes, robot)
  /\ UNCHANGED <<robot, targets>> /\ RobotRest

\* A step of POLICY that follows its session sends the hands' share of the action.
PublishTarget ==
  /\ robot.mode = "policy" /\ ~robot.paused
  /\ \E closes \in SUBSET Sides :
       targets' = Published(targets, [session |-> robot.session, closes |-> closes])
  /\ UNCHANGED <<robot, modes>> /\ RobotRest

\* A new snapshot of the controllers, or none for frame_timeout_s, which only the
\* gripper mapper asks about.
OperatorMoves ==
  /\ \/ squeezed' \in SUBSET Sides /\ fresh' = TRUE
     \/ driver = "gripper" /\ fresh' = FALSE /\ UNCHANGED squeezed
  /\ UNCHANGED <<driver, robot, modes, targets, step, seen, wasPolicy, mapper, failed, hands>>

-----------------------------------------------------------------------------
(* The device: poses are sent side by side, and any send may raise.        *)

\* open_all from the closed hands c: done, or raised with some sides opened.
Opened(c, c2, done) ==
  \/ done = TRUE /\ c2 = {}
  \/ done = FALSE /\ c2 \in {c, c \ {"left"}}

\* send_pose for every side in changes, of which close holds those to close.
Sent(c, changes, close) == (c \ changes) \cup (changes \cap close)

-----------------------------------------------------------------------------
(* _run_hand_worker.                                                       *)

Active(p) == p # <<>> /\ p[1].mode \in TriggerModes

\* Mutant of EntersOpenMode: only the end of a trigger mode opens the hands.
LeavesTriggerMode(old, new) ==
  /\ new # <<>> /\ new[1].mode \in OpenModes
  /\ old # <<>> /\ old[1].mode \in TriggerModes

\* A packet with a new mode, in which the hands have to be open.
EntersOpenMode(old, new) ==
  new # <<>> /\ new[1].mode \in OpenModes /\ (old = <<>> \/ old[1].mode # new[1].mode)

\* The mode gate, at the top of the loop; its failures are logged and not repeated.
ReadModeGate ==
  /\ step = "mode" /\ driver # "policy"
  /\ step' = "tick"
  /\ modes' = <<>>
  /\ seen' = IF modes = <<>> THEN seen ELSE Received(modes)
  /\ IF EntersOpenMode(seen, Received(modes))
       THEN \E done \in BOOLEAN : Opened(closed, closed', done) /\ missed' = ~done
       ELSE UNCHANGED hands
  /\ UNCHANGED <<driver, robot, targets, squeezed, fresh, wasPolicy, mapper, failed>>

\* The commands of a tick reach the device, or one of them raises: the runtime
\* is disabled for good and tries to open the hands.
Send(changes, close) ==
  \/ /\ closed' = Sent(closed, changes, close)
     /\ missed' = (missed /\ changes # Sides)
     /\ UNCHANGED failed
  \/ /\ changes # {} /\ failed' = TRUE
     /\ \E sent \in { {}, changes \cap {"left"} }, done \in BOOLEAN :
          /\ sent # changes
          /\ Opened(Sent(closed, sent, close), closed', done)
          /\ missed' = ~done

\* PresetToggleMapper.map: a trigger that is down and was not toggles its hand;
\* within trigger_debounce_s of the last toggle the press is lost.
PresetMap(changes, close) ==
  IF Active(seen)
    THEN \E swallowed \in SUBSET Sides :
           /\ changes = (squeezed \ pressed) \ swallowed
           /\ pressed' = squeezed
           /\ current' = (current \ changes) \cup (changes \ current)
           /\ close = current'
    ELSE changes = {} /\ close = {} /\ UNCHANGED <<current, pressed>>

\* Mutant of GripperMap: an old snapshot is followed like a new one.
GripperMapStale(due, changes, close) ==
  CASE ~Active(seen) -> /\ changes = IF tracking THEN Sides ELSE {}
                        /\ close = {} /\ tracking' = FALSE
    [] Active(seen) /\ ~due -> changes = {} /\ close = {} /\ UNCHANGED tracking
    [] OTHER -> /\ changes = Sides /\ tracking' = TRUE
                /\ close = squeezed

\* GripperMapper.map: the hands follow grip and trigger, and open without a fresh
\* snapshot, without the controller, when the grip is let go, and once when the
\* mode ends.
GripperMap(due, changes, close) ==
  CASE ~Active(seen) -> /\ changes = IF tracking THEN Sides ELSE {}
                        /\ close = {} /\ tracking' = FALSE
    [] Active(seen) /\ ~due -> changes = {} /\ close = {} /\ UNCHANGED tracking
    [] OTHER -> /\ changes = Sides /\ tracking' = TRUE
                /\ close = IF fresh THEN squeezed ELSE {}

\* Mutant of Tick: a runtime that failed goes on.
TickAfterFailure(due) ==
  /\ step = "tick" /\ driver # "policy"
  /\ step' = "mode"
  /\ \E changes, close \in SUBSET Sides :
       /\ Send(changes, close)
       /\ \/ /\ driver = "preset" /\ PresetMap(changes, close)
             /\ UNCHANGED tracking
          \/ /\ driver = "gripper" /\ GripperMap(due, changes, close)
             /\ UNCHANGED <<current, pressed>>
  /\ UNCHANGED <<world, seen, wasPolicy>>

\* HandRuntime.tick with the mapper of the driver; due is the mapper's rate.
Tick(due) ==
  /\ step = "tick" /\ driver # "policy"
  /\ step' = "mode"
  /\ IF failed
       THEN UNCHANGED <<mapper, failed, hands>>
       ELSE \E changes, close \in SUBSET Sides :
              /\ Send(changes, close)
              /\ \/ /\ driver = "preset" /\ PresetMap(changes, close)
                    /\ UNCHANGED tracking
                 \/ /\ driver = "gripper" /\ GripperMap(due, changes, close)
                    /\ UNCHANGED <<current, pressed>>
  /\ UNCHANGED <<world, seen, wasPolicy>>

-----------------------------------------------------------------------------
(* _run_high_level_policy_hand_worker.                                     *)

InPolicy(p) == p # <<>> /\ p[1].mode = "policy"

\* The worker ends on an exception; its finally clause closes the device, which
\* tries to open the hands.
Crashes(c) ==
  /\ step' = "off"
  /\ \E done \in BOOLEAN : Opened(c, closed', done) /\ missed' = ~done

ReadPolicyMode ==
  /\ step = "mode" /\ driver = "policy"
  /\ modes' = <<>>
  /\ seen' = IF modes = <<>> THEN seen ELSE Received(modes)
  /\ wasPolicy' = InPolicy(seen')
  /\ IF wasPolicy /\ ~wasPolicy'
       THEN \/ step' = "tick" /\ closed' = {} /\ missed' = FALSE
            \/ \E c \in {closed, closed \ {"left"}} : Crashes(c)
       ELSE step' = "tick" /\ UNCHANGED hands
  /\ UNCHANGED <<driver, robot, targets, squeezed, fresh, mapper, failed>>

\* _policy_target_is_current, its age apart: targets come in order.
IsCurrent(t) == InPolicy(seen) /\ ~seen[1].paused /\ t.session = seen[1].session

\* recv_latest takes the target in any mode; one that is too old is not applied.
ApplyTarget ==
  /\ step = "tick" /\ driver = "policy"
  /\ targets' = <<>>
  /\ \/ /\ targets # <<>> /\ IsCurrent(Received(targets)[1])
        /\ LET close == Received(targets)[1].closes
           IN \/ step' = "mode" /\ closed' = close /\ missed' = FALSE
              \/ \E sent \in { {}, {"left"} } : Crashes(Sent(closed, sent, close))
     \/ step' = "mode" /\ UNCHANGED hands
  /\ UNCHANGED <<driver, robot, modes, squeezed, fresh, seen, wasPolicy, mapper, failed>>

\* Shutdown: HandRuntime.close, or the finally clause; the Inspire device only
\* closes its publisher.
Shutdown ==
  /\ step \in {"mode", "tick"} /\ step' = "off"
  /\ IF driver = "preset"
       THEN UNCHANGED hands
       ELSE \E done \in BOOLEAN : Opened(closed, closed', done) /\ missed' = ~done
  /\ UNCHANGED <<world, seen, wasPolicy, mapper, failed>>

-----------------------------------------------------------------------------
Robot == ChangeMode \/ PublishMode \/ PublishTarget

Worker == ReadModeGate \/ Tick(TRUE) \/ Tick(FALSE) \/ ReadPolicyMode \/ ApplyTarget

Next == Robot \/ OperatorMoves \/ Worker \/ Shutdown

Spec == Init /\ [][Next]_vars

\* The robot's control loop and the worker's loop run on, and the worker's rate
\* of at most one command per period comes round.
FairSpec ==
  /\ Spec
  /\ WF_vars(PublishMode)
  /\ WF_vars(Worker)
  /\ SF_vars(Tick(TRUE))

-----------------------------------------------------------------------------
(* What the robot's mode asks of the hands.                                *)

MustRest ==
  CASE driver = "policy" -> robot.mode # "policy"
    [] driver = "preset" -> robot.mode \in OpenModes
    [] OTHER             -> robot.mode \notin TriggerModes

\* A robot that stays where the hands must be open finds them open, although mode
\* packets are dropped, unless opening them raises: the worker does not retry.
RestsWhenLeft == []<>(~MustRest \/ closed = {} \/ missed \/ step = "off")

\* A gripper whose operator lets go of the grip, or is no longer heard of, opens.
DeadmanOpens ==
  \A s \in Sides :
    []<>(\/ driver # "gripper" \/ step = "off"
         \/ fresh /\ s \in squeezed
         \/ s \notin closed \/ missed)

\* A hand runtime that failed, even between the two hands, leaves both open for
\* good, unless the device refused to open them as well.
FailureLeavesHandsOpen == failed => closed = {} \/ missed
=============================================================================
