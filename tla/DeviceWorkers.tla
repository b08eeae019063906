---------------------------- MODULE DeviceWorkers ----------------------------
(******************************************************************************)
(* The devices of the robot below the workers of Effectors, as operators: the *)
(* dexterous hands and the neck.                                              *)
(******************************************************************************)
EXTENDS Integers, Sequences, FiniteSets

CONSTANTS
  Driver,            \* "linkerhand", which is L6 or O6, or "inspire"
  Configured,        \* hands.sides
  OpenPose,          \* the pose of open hands
  ActiveModes,       \* neck.active_modes
  Timeout,           \* neck.frame_timeout_s in ticks
  CentreOnStart,     \* neck.center_on_start
  CentreOnShutdown,  \* neck.center_on_shutdown
  ReleaseOnShutdown  \* neck.release_on_shutdown

-----------------------------------------------------------------------------
(* The hands: what configurations are accepted, what a device was told and what its worker *)
(* publishes of it, how a trigger becomes a pose.  A pose is its number; a write that      *)
(* raises leaves the hand as it was.                                                       *)

Sides == {"left", "right"}
Nothing == -1
Inspire == Driver = "inspire"
\* The Inspire device opens both hands, whatever sides are configured.
Opened == IF Inspire THEN <<"left", "right">> ELSE Configured

-----------------------------------------------------------------------------
(* parse_linkerhand_l6_config and parse_linkerhand_o6_config, lengths of time and *)
(* levels in units; a pose of six bytes.                                          *)

Byte == 0..255
PoseValid(pose) == Len(pose) = 6 /\ \A i \in 1..6 : pose[i] \in Byte
OptionalAlpha(a, unit) == a = Nothing \/ a \in 1..unit

Accepted(c, unit) ==
  /\ c.mode \in {"gripper", "vr_hand_pose"}
  /\ c.sides # <<>> /\ \A i \in DOMAIN c.sides : c.sides[i] \in Sides
  /\ PoseValid(c.open) /\ PoseValid(c.close) /\ (c.mode = "gripper" => PoseValid(c.speed))
  /\ c.hand = "L6" => c.yaw \in Byte
  /\ c.rate > 0 /\ c.timeout > 0 /\ c.somehandRate > 0
  /\ c.deadzone >= 0 /\ 2 * c.deadzone < unit
  /\ c.deadman > 0 /\ c.deadman < unit
  /\ c.iterations = Nothing \/ c.iterations > 0
  /\ OptionalAlpha(c.filter, unit) /\ OptionalAlpha(c.output, unit)

\* The thumb of an L6 does not turn, whatever its poses say.
Poses(c) == IF c.hand = "L6" THEN [open |-> [c.open EXCEPT ![2] = c.yaw], close |-> [c.close EXCEPT ![2] = c.yaw]]
            ELSE [open |-> c.open, close |-> c.close]

-----------------------------------------------------------------------------
(* trigger_to_pose: from open to closed, with a dead zone at each end. *)

RoundedDiv(a, b) ==
  LET q == a \div b
      twice == 2 * (a % b)
  IN  IF twice < b \/ (twice = b /\ q % 2 = 0) THEN q ELSE q + 1

\* _normalize_trigger, of unit - 2 * deadzone.
Normalised(trigger, deadzone, unit) ==
  CASE trigger <= deadzone -> 0
    [] trigger > deadzone /\ trigger >= unit - deadzone -> unit - 2 * deadzone
    [] OTHER -> trigger - deadzone

TriggerPose(c, trigger, unit) ==
  LET span == unit - 2 * c.deadzone
      level == Normalised(trigger, c.deadzone, unit)
      p == Poses(c)
  IN  [i \in 1..6 |-> RoundedDiv(p.open[i] * span + level * (p.close[i] - p.open[i]), span)]

-----------------------------------------------------------------------------
(* A device: the sides it holds, the interfaces that are open, the pose it takes each *)
(* hand to have been sent and the pose that hand has.                                 *)

NewDevice == [held |-> {}, claimed |-> {}, last |-> [s \in Sides |-> Nothing], at |-> [s \in Sides |-> Nothing]]
Done(d) == [device |-> d, raised |-> FALSE]
Raised(d) == [device |-> d, raised |-> TRUE]

\* send_pose; broken holds the sides whose write raises.  The Inspire device notes the
\* pose before it is sent, and sends with a publisher that it opens when there is none.
SentPose(d, side, pose, force, broken) ==
  CASE ~force /\ d.last[side] = pose -> Done(d)
    [] (force \/ d.last[side] # pose) /\ Inspire ->
         LET noted == [d EXCEPT !.last[side] = pose, !.held = Sides]
         IN  IF side \in broken THEN Raised(noted) ELSE Done([noted EXCEPT !.at[side] = pose])
    [] OTHER ->
         CASE side \notin d.held -> Done(d)
           [] side \in d.held /\ side \in broken -> Raised(d)
           [] OTHER -> Done([d EXCEPT !.last[side] = pose, !.at[side] = pose])

\* Commands, one after the other, up to the first that raises.
AllSent(d, commands, broken) ==
  LET after[i \in 0..Len(commands)] ==
        IF i = 0 THEN Done(d)
        ELSE IF after[i - 1].raised THEN after[i - 1]
        ELSE LET c == commands[i] IN SentPose(after[i - 1].device, c.side, c.pose, c.force, broken)
  IN  after[Len(commands)]

OpenCommands(force) == [i \in DOMAIN Opened |-> [side |-> Opened[i], pose |-> OpenPose, force |-> force]]
AllOpened(d, broken) == AllSent(d, OpenCommands(TRUE), broken)

\* close: hands that cannot be opened are closed all the same; an interface that cannot
\* be closed leaves itself and the later ones open, and held.
DeviceClosed(d, broken, stuck) ==
  LET opened == AllOpened(d, broken).device
      first == { i \in DOMAIN Configured : Configured[i] \in d.held \cap stuck }
      freed == { Configured[i] : i \in { j \in DOMAIN Configured : \A k \in first : j < k } } \cap d.held
  IN  CASE Inspire -> Done([d EXCEPT !.held = {}])
        [] ~Inspire /\ first = {} -> Done([opened EXCEPT !.held = {}, !.claimed = @ \ freed])
        [] OTHER -> Raised([opened EXCEPT !.claimed = @ \ freed])

\* connect, with the sides whose interface cannot be had and those that have it and
\* take no speed: those keep it, as they are not held yet.
Connected(d, absent, mute, broken, stuck) ==
  LET bad == { i \in DOMAIN Configured : Configured[i] \in absent \cup mute }
      held == { Configured[i] : i \in { j \in DOMAIN Configured : \A k \in bad : j < k } }
      at == IF bad = {} THEN {} ELSE { Configured[CHOOSE i \in bad : \A k \in bad : i <= k] }
      built == [d EXCEPT !.held = held, !.claimed = held \cup (at \ absent)]
  IN  CASE Inspire -> IF absent = {} THEN Done([d EXCEPT !.held = Sides]) ELSE Raised(d)
        [] ~Inspire /\ bad = {} -> AllOpened(built, broken)
        [] OTHER -> Raised(DeviceClosed(built, broken, stuck).device)

-----------------------------------------------------------------------------
(* HandRuntime, and what _run_hand_worker publishes of it: the poses that the runtime *)
(* returns, of devices with a configuration of their own, which the Inspire lacks.    *)

NewWorker == [device |-> NewDevice, failed |-> FALSE, running |-> TRUE, told |-> [s \in Sides |-> OpenPose]]

Told(w, commands) ==
  [w EXCEPT !.told = [s \in Sides |-> LET of == { i \in DOMAIN commands : commands[i].side = s }
                                      IN  IF of = {} THEN @[s]
                                          ELSE commands[CHOOSE i \in of : \A k \in of : k <= i].pose]]
ToldOpen(w) == IF Inspire THEN w ELSE Told(w, OpenCommands(TRUE))

\* start: a device or a mapper that cannot be started is closed, and ends the worker,
\* which closes it once more.
WorkerClosed(w, broken, stuck) ==
  LET closed == DeviceClosed(w.device, broken, stuck)
      ended == [w EXCEPT !.device = closed.device, !.running = FALSE]
  IN  IF closed.raised THEN ended ELSE ToldOpen(ended)

Started(w, absent, mute, mapper, broken, stuck) ==
  LET connected == Connected(w.device, absent, mute, broken, stuck)
      failed == [w EXCEPT !.device = DeviceClosed(connected.device, broken, stuck).device]
  IN  IF connected.raised \/ ~mapper THEN WorkerClosed(failed, broken, stuck)
      ELSE ToldOpen([w EXCEPT !.device = connected.device])

\* The opening at a change of mode is not published, nor tried again.
ModeOpened(w, broken) == [w EXCEPT !.device = AllOpened(@, broken).device]

\* tick, with the commands of the mapper: one that raises disables the runtime, which
\* opens the hands, of which some may still be broken, and says so if that succeeds.
Ticked(w, commands, broken, still) ==
  LET sent == AllSent(w.device, commands, broken)
      opened == AllOpened(sent.device, still)
      failed == [w EXCEPT !.failed = TRUE, !.device = opened.device]
  IN  CASE w.failed -> w
        [] ~w.failed /\ ~sent.raised -> Told([w EXCEPT !.device = sent.device], commands)
        [] OTHER -> IF opened.raised THEN failed ELSE ToldOpen(failed)

-----------------------------------------------------------------------------
(* SomehandRetargetMapper.map, the mapper of mode vr_hand_pose. *)

NewMapper == [active |-> FALSE, next |-> 0]
Quiet(m) == [mapper |-> m, commands |-> <<>>]

\* seen has the sides whose hand the snapshot shows, and their poses; a hand that is not
\* seen, or in an old snapshot, is left as it is.
Mapped(m, seen, age, active, now, period, timeout) ==
  LET acting == [active |-> TRUE, next |-> now + period]
      frames == SelectSeq(<<"left", "right">>,
                  LAMBDA s : s \in DOMAIN seen /\ \E i \in DOMAIN Configured : Configured[i] = s)
      fresh == age # Nothing /\ age <= timeout
  IN  CASE ~active -> [mapper |-> [m EXCEPT !.active = FALSE],
                       commands |-> IF m.active THEN OpenCommands(TRUE) ELSE <<>>]
        [] active /\ now < m.next -> Quiet(m)
        [] OTHER -> [mapper |-> acting,
                     commands |-> IF fresh THEN [i \in DOMAIN frames |-> [side |-> frames[i], pose |-> seen[frames[i]], force |-> FALSE]]
                                  ELSE <<>>]

-----------------------------------------------------------------------------
(* The two workers that own the neck: _run_neck_worker, which follows the head of the       *)
(* operator, and _run_high_level_policy_neck_worker, which follows the targets of a policy. *)
(* A neck is where it was last moved to, has its torque or not, and is open until its       *)
(* device is closed.                                                                        *)

Centre == 0
Unknown == -1
None == [mode |-> "none"]

Neck(at) == [at |-> at, torque |-> TRUE, open |-> TRUE]
Moved(neck, to, works) == IF works THEN [neck EXCEPT !.at = to] ELSE neck

-----------------------------------------------------------------------------
(* _run_neck_worker *)

\* A start that fails to centre ends the worker before its first iteration.
NeckStarted(works) ==
  [neck |-> Moved(Neck(Unknown), Centre, CentreOnStart /\ works), running |-> ~CentreOnStart \/ works,
   mode |-> None, pose |-> [to |-> Unknown, stamp |-> Unknown]]

\* head_pose_packet: the number of the packet is that of its snapshot.
PoseFits(packet) == packet.seq >= 0 /\ packet.seq = packet.snapshot

\* mode_packet_active: a paused session is a mode of its own.
ModeActive(packet) ==
  packet # None /\ (IF packet.paused THEN "pause" ELSE packet.mode) \in ActiveModes

\* NeckRuntime.tick: no pose, an old pose and one without a rotation move nothing.
Follows(s, now) ==
  /\ ModeActive(s.mode)
  /\ s.pose.stamp # Unknown /\ now - s.pose.stamp <= Timeout
  /\ s.pose.to # Unknown

\* An iteration; packets is what came, each of which may be nothing.  A device that
\* raises is tried again at the next.
NeckIterated(s, packets, now, works) ==
  LET t == [s EXCEPT
              !.pose = IF packets.pose # None /\ PoseFits(packets.pose)
                         THEN [to |-> packets.pose.to, stamp |-> packets.pose.stamp] ELSE @,
              !.mode = IF packets.mode # None THEN packets.mode ELSE @]
  IN  IF packets.command = "shutdown" THEN [s EXCEPT !.running = FALSE]
      ELSE [t EXCEPT !.neck = IF Follows(t, now) THEN Moved(@, t.pose.to, works) ELSE @]

\* NeckRuntime.close: each part is tried, whatever became of the one before.
NeckClosed(neck, centres, releases) ==
  LET moved == Moved(neck, Centre, CentreOnShutdown /\ centres)
  IN  [moved EXCEPT !.torque = ~(ReleaseOnShutdown /\ releases), !.open = FALSE]

-----------------------------------------------------------------------------
(* _run_high_level_policy_neck_worker *)

PolicyStarted(works) ==
  [neck |-> Moved(Neck(Unknown), Centre, CentreOnStart /\ works), running |-> ~CentreOnStart \/ works,
   mode |-> None, was |-> FALSE, last |-> -1, command |-> Centre]

InPolicy(mode) == mode # None /\ mode.mode = "policy"

\* _policy_target_is_current
Current(target, s, now) ==
  /\ target # None /\ InPolicy(s.mode) /\ ~s.mode.paused
  /\ target.session = s.mode.session
  /\ target.seq > s.last
  /\ now - target.stamp \in 0..Timeout

\* An iteration; a device that raises, at the centring or at the move, ends it and
\* the worker.  The state that is published names the command of the worker, which
\* only a move or a centring that worked changes.
PolicyIterated(s, packets, now, centres, moves) ==
  LET t == [s EXCEPT !.mode = IF packets.mode # None THEN packets.mode ELSE @]
      leaves == s.was /\ ~InPolicy(t.mode)
      left == [t EXCEPT !.was = InPolicy(t.mode),
                        !.neck = IF leaves THEN Moved(@, Centre, TRUE) ELSE @,
                        !.command = IF leaves THEN Centre ELSE @]
  IN  CASE packets.command = "shutdown" -> [s EXCEPT !.running = FALSE]
        [] packets.command # "shutdown" /\ leaves /\ ~centres -> [t EXCEPT !.running = FALSE]
        [] OTHER ->
             CASE ~Current(packets.target, left, now) -> left
               [] Current(packets.target, left, now) /\ ~moves -> [left EXCEPT !.running = FALSE]
               [] OTHER -> [left EXCEPT !.neck = Moved(@, packets.target.to, TRUE),
                                        !.command = packets.target.to,
                                        !.last = packets.target.seq]

\* The finally clause centres whatever center_on_shutdown says, and releases nothing
\* when that fails.
PolicyClosed(neck, centres, releases) ==
  LET moved == Moved(neck, Centre, centres)
  IN  [moved EXCEPT !.torque = ~(centres /\ ReleaseOnShutdown /\ releases), !.open = FALSE]
=============================================================================
