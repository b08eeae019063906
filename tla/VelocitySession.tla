-------------------------- MODULE VelocitySession --------------------------
(***************************************************************************)
(* VelocitySimSession, the simulation session without mocap, as operators  *)
(* on its state: its mode machine, the request it queues, the emergency    *)
(* stop, the heading of its standing reference, and the push of the debug  *)
(* key T.  Headings are numbers as in SimSession; metrics are left out.    *)
(* Then the twists that are commanded, and the actions that are handed     *)
(* from one policy to the other.                                           *)
(***************************************************************************)
EXTENDS Estop, Integers, SequencesExt

CONSTANTS
  RampSteps,  \* transition_duration_s, in STANDING steps
  Burst       \* perturb.burst_policy_steps

NoRequest == "none"
WorldYaw == 0
NoRamp == -1

\* pushed: the pelvis has a force in xfrc_applied, which stays until it is cleared.
Started ==
  [mode |-> "standing", pending |-> NoRequest, estop |-> Inactive,
   standing |-> WorldYaw, ramp |-> NoRamp, steps |-> 0, burst |-> 0, pushed |-> FALSE]

\* request_mode: the last request of an iteration is the one that counts.
Requested(s, m) ==
  IF m = "velocity" /\ s.estop.state = "latched" THEN s
  ELSE IF m = "stop" \/ m # s.mode THEN [s EXCEPT !.pending = m]
  ELSE s

\* _apply_pending_mode, with the robot at heading h.
Switched(s, h) ==
  LET m == s.pending
      t == [s EXCEPT !.pending = NoRequest]
  IN  IF m \in {NoRequest, s.mode} THEN t
      ELSE IF m = "stop" THEN [t EXCEPT !.mode = m, !.estop = OnStanding(@)]
      ELSE [t EXCEPT !.mode = m, !.ramp = h, !.steps = 0,
                     !.estop = IF m = "standing" THEN OnStanding(@) ELSE @]

\* _check_safety
Checked(s, verdict) == IF s.mode = "velocity" /\ verdict # "none" THEN Requested(s, verdict) ELSE s

\* Before the step of an iteration: the request of the last one, the verdict, and
\* the exit request of a stop whose ramp has ended.
BeforeStep(s, h, verdict) ==
  LET t == Switched(Checked(Switched(s, h), verdict), h)
  IN  IF t.estop.exit
        THEN Switched(Requested([t EXCEPT !.estop = ExitConsumed(@)], "standing"), h)
        ELSE t

\* What a STANDING step makes the robot face.
Commanded(s) == IF s.ramp # NoRamp THEN s.ramp ELSE s.standing

\* standing_step: where a ramp has led becomes the reference.
StandingStep(s) ==
  IF s.ramp # NoRamp /\ s.steps >= RampSteps
    THEN [s EXCEPT !.standing = s.ramp, !.ramp = NoRamp]
    ELSE s

\* _apply_perturbation, and velocity_step with the stop e as the clock has aged it.
VelocityStep(s, e) ==
  LET t == [s EXCEPT !.estop = Applied(e)]
  IN  IF s.burst = 0 THEN t ELSE [t EXCEPT !.burst = @ - 1, !.pushed = s.burst > 1]

\* _handle_keyboard; the key that mutes is the twist provider's, and a viewer that
\* is closed is a stop before the keys.
Handled(s, key) ==
  CASE key = "v" -> Requested(s, "velocity")
    [] key = "b" -> Requested(s, "standing")
    [] key = "esc" -> Requested(s, "stop")
    [] key = "e" -> [s EXCEPT !.estop = Toggled(@, s.mode = "velocity")]
    [] key = "t" -> IF s.mode = "velocity" THEN [s EXCEPT !.burst = Burst] ELSE s

Keys == {"v", "b", "esc", "e", "t"}

\* What one iteration of run may make of s.
Iterated(s, h, verdict, keys) ==
  LET t == BeforeStep(s, h, verdict)
      stepped == IF t.mode = "standing" THEN {StandingStep(t)}
                 ELSE { VelocityStep(t, e) : e \in Aged(t.estop) }
  IN  IF t.mode = "stop" THEN {t}
      ELSE { [FoldLeft(Handled, u, keys) EXCEPT !.steps = @ + 1] : u \in stepped }

-----------------------------------------------------------------------------
(* The command providers of VELOCITY: the intents of a BSI link, debounced; the sticks of *)
(* the Pico controllers; the priority of the sticks over the link; the keyboard, whose    *)
(* keys are held to move; and the tee that shares it.  A twist has a direction on each    *)
(* axis; speeds and the smoothing towards them are left out.                              *)

Never == -1
None == "none"

Twist(x, y, yaw) == [x |-> x, y |-> y, yaw |-> yaw]
Still == Twist(0, 0, 0)

-----------------------------------------------------------------------------
(* BsiTwistProvider over DdsIntentSource. *)

Intents == {"idle", "forward", "left", "right"}

\* poll: the newest sample of a drain, one that is no intent taken for idle.
Newest(samples) ==
  IF samples = <<>> THEN None ELSE IF Last(samples) \in Intents THEN Last(samples) ELSE "idle"

NewLink == [intent |-> "idle", command |-> None, length |-> 0, received |-> Never, muted |-> FALSE]

\* Polls in a row that brought an intent before it is followed.
Needed(intent, debounce, idleDebounce) == IF intent = "idle" THEN idleDebounce ELSE debounce

Observed(b, intent, now, debounce, idleDebounce) ==
  LET n == IF intent = b.command THEN b.length + 1 ELSE 1
  IN  [b EXCEPT !.received = now, !.command = intent, !.length = n,
                !.intent = IF n >= Needed(intent, debounce, idleDebounce) THEN intent ELSE @]

Silent(b, now, timeout) == b.received = Never \/ now - b.received > timeout

\* _poll_intent: the packet first, then the silence.
Polled(b, packet, now, debounce, idleDebounce, timeout) ==
  LET o == IF packet = None THEN b ELSE Observed(b, packet, now, debounce, idleDebounce)
  IN  IF Silent(o, now, timeout) THEN [o EXCEPT !.intent = "idle", !.command = None, !.length = 0] ELSE o

\* _target
LinkTwist(b) ==
  CASE b.muted \/ b.intent = "idle" -> Still
    [] ~b.muted /\ b.intent = "forward" -> Twist(1, 0, 0)
    [] ~b.muted /\ b.intent = "left" -> Twist(0, 0, 1)
    [] ~b.muted /\ b.intent = "right" -> Twist(0, 0, -1)

\* reset, which muting survives, and toggle_mute.
LinkReset(b) == [NewLink EXCEPT !.muted = b.muted]
MuteToggled(b) == [b EXCEPT !.muted = ~@]

-----------------------------------------------------------------------------
(* PicoJoystickProvider, MergedTwistProvider, ForwardOnlyCapProvider. *)

\* A snapshot of the controllers: its time, whether both are there, the sticks
\* beyond their dead zone.  maxAge 0 is never too old.
StickTwist(snapshots, now, maxAge) ==
  LET s == snapshots[1]
  IN  IF snapshots = <<>> THEN Still
      ELSE IF ~s.present \/ (maxAge > 0 /\ now - s.time > maxAge) THEN Still
      ELSE Twist(s.leftY, -s.leftX, -s.rightX)

\* get_cmd: sticks that are moved win whole, and the link is not asked then.
Merged(sticks, b, polled) ==
  IF sticks # Still THEN [twist |-> sticks, link |-> b] ELSE [twist |-> LinkTwist(polled), link |-> polled]

ForwardOnly(twist) == Twist(IF twist.x > 0 THEN twist.x ELSE 0, 0, 0)

-----------------------------------------------------------------------------
(* KeyboardTwistProvider and KeyboardTee. *)

KeyMap == [w |-> <<"x", 1>>, s |-> <<"x", -1>>, j |-> <<"y", 1>>,
           l |-> <<"y", -1>>, n |-> <<"yaw", 1>>, m |-> <<"yaw", -1>>]

NotHeld == [sign |-> 0, seen |-> Never]
NothingHeld == [x |-> NotHeld, y |-> NotHeld, yaw |-> NotHeld]

KeySeen(held, key, now) ==
  CASE key = "k" -> NothingHeld
    [] key \in DOMAIN KeyMap -> [held EXCEPT ![KeyMap[key][1]] = [sign |-> KeyMap[key][2], seen |-> now]]
    [] OTHER -> held

\* _observe_events, then the axes that _target_twist drops as released.
Held(held, keys, now, release) ==
  LET after == FoldLeft(LAMBDA h, k : KeySeen(h, k, now), held, keys)
  IN  [a \in DOMAIN held |-> IF now - after[a].seen > release THEN NotHeld ELSE after[a]]

KeyTwist(held) == Twist(held.x.sign, held.y.sign, held.yaw.sign)

\* KeyboardTee.poll, with the keys that wait in the reader.
NewTee == [drained |-> Never, batch |-> <<>>]
TeePolled(tee, waiting, now, refresh) ==
  IF tee.drained = Never \/ now - tee.drained >= refresh
    THEN [drained |-> now, batch |-> waiting]
    ELSE tee

-----------------------------------------------------------------------------
(* The previous action, which both policies observe, across VELOCITY.  A policy commands   *)
(* the joint target pose + scale * action; the programs are VelocitySimSession, the        *)
(* general simulation session and the robot control worker.                                *)

Programs == {"session", "simulation", "robot"}

ActionLimit == 10
Limited(action) == Max({-ActionLimit, Min({action, ActionLimit})})

\* get_target_dof_pos; a policy without a known pose commands offsets.
Target(policy, action) ==
  (IF policy.known THEN policy.pose ELSE 0) + policy.scale * Limited(action)

\* The last actions of the mimic and of the velocity policy.
NoActions == [mimic |-> 0, velocity |-> 0]

\* velocity_prev_action_seed: the action of to that commands what from did last.
Seed(from, to, action) ==
  IF from.known THEN Limited((Target(from, action) - to.pose) \div to.scale) ELSE 0

\* begin_velocity_handoff, and the robot's _enter_velocity, which takes the action as it is.
HandedOver(program, a, mimic, velocity) ==
  [a EXCEPT !.velocity = IF program = "robot" THEN a.mimic ELSE Seed(mimic, velocity, a.mimic)]

\* Back in STANDING the general session forgets the action, and the others keep it.
HandedBack(program, a) == IF program = "simulation" THEN [a EXCEPT !.mimic = 0] ELSE a

\* A step of either policy.
Acted(a, policy, action) == [a EXCEPT ![policy] = action]
=============================================================================
