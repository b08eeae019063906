---------------------------- MODULE ViewerProcesses ----------------------------
(***************************************************************************)
(* The windows of a session, as operators: ViewerManager of the simulation  *)
(* starts a process for each, writes poses into an array that it shares with *)
(* it and asks it to close at the end; the robot worker has the retarget     *)
(* window alone.  A window is drawn from whatever the array holds.           *)
(***************************************************************************)
EXTENDS Integers, FiniteSets

AllViewers == {"mocap", "retarget", "sim2sim"}
ValidViewers == AllViewers \cup {"camera"}
None == -1000

\* parse_viewers, of a list of names or of one word, which may be that for all, which
\* leaves the camera out, or for none.
Words == {{"all"}, {"none"}}
ViewersValid(raw) == raw.names \subseteq ValidViewers \/ (~raw.list /\ raw.names \in Words)
Viewers(raw) == CASE raw.names = {"all"} -> AllViewers [] raw.names = {"none"} -> {} [] OTHER -> raw.names
\* The robot has only one window.
RobotViewersValid(raw) == ViewersValid(raw) /\ Viewers(raw) \subseteq {"retarget"}

\* A pose is the height of its lowest foot or bone; 0 is the array nobody has written, and
\* real says that it holds a skeleton and not bones that are all in one place.
Starting == [phase |-> "starting", alive |-> FALSE, closing |-> FALSE, array |-> 0, real |-> FALSE, lift |-> None, shown |-> None]

\* ViewerManager.__init__.  A robot without a model has no windows, whatever is asked for;
\* a camera that the model lacks is noticed after the other windows have been started.
Managed(wanted, robot) ==
  LET started == IF ~robot.model THEN {} ELSE wanted \cap ({"sim2sim", "retarget"} \cup (IF robot.camera THEN {"camera"} ELSE {}))
  IN  [wanted |-> wanted, windows |-> [v \in started |-> Starting],
       raised |-> robot.model /\ "camera" \in wanted /\ ~robot.camera]

\* ensure_mocap_viewer: an input that does not name its bones gets no window.
MocapEnsured(m, bones) ==
  IF "mocap" \notin m.wanted \/ "mocap" \in DOMAIN m.windows \/ ~bones THEN m
  ELSE [m EXCEPT !.windows = [v \in DOMAIN @ \cup {"mocap"} |-> IF v = "mocap" THEN Starting ELSE @[v]]]

HasViewers(m) == m.wanted # {}
AnyActive(m) == \E v \in DOMAIN m.windows : m.windows[v].alive
Ready(m) == \A v \in DOMAIN m.windows : m.windows[v].alive
\* SimLoopSession.run: the session waits for its windows for a while, then goes on as long
\* as one is open, or has never wanted any.
GoesOn(m) == ~HasViewers(m) \/ AnyActive(m)

-----------------------------------------------------------------------------
(* The processes.  Each opens its window, draws, and ends when the window is closed or *)
(* the session asks; it may fail at any time.                                           *)

Opened(m, v) == [m EXCEPT !.windows[v].phase = "open", !.windows[v].alive = TRUE]
Ended(m, v) == [m EXCEPT !.windows[v].phase = "gone", !.windows[v].alive = FALSE]

\* robot_viewer_proc with the foot correction that the retarget window has: no foot is
\* drawn below the ground.
OnGround(pose) == IF pose < 0 THEN 0 ELSE pose

\* resolve_mocap_ground_lift_offset and lift_positions_above_ground: the lift is that of
\* the first frame with a skeleton, for good; until then each frame has its own.
Lift(w) == IF w.lift # None THEN w.lift ELSE IF w.real THEN OnGround(-w.array) ELSE None
Lifted(w) == w.array + (IF Lift(w) = None THEN OnGround(-w.array) ELSE Lift(w))

Drawn(m, v) ==
  LET w == m.windows[v]
  IN  IF w.closing THEN Ended(m, v)
      ELSE [m EXCEPT !.windows[v].shown = CASE v = "retarget" -> OnGround(w.array)
                                             [] v = "mocap" -> Lifted(w)
                                             [] OTHER -> w.array,
                     !.windows[v].lift = IF v = "mocap" THEN Lift(w) ELSE None]

\* write_*: what is written while the window is not open is not kept for it.
Written(m, v, frame) ==
  IF v \notin DOMAIN m.windows THEN m
  ELSE IF ~m.windows[v].alive THEN m
  ELSE [m EXCEPT !.windows[v].array = frame.pose, !.windows[v].real = frame.skeleton]

\* shutdown: a process that has not ended within its time is terminated.
AskedToClose(m) == [m EXCEPT !.windows = [v \in DOMAIN @ |-> [@[v] EXCEPT !.closing = TRUE]]]
Terminated(m) == [m EXCEPT !.windows = [v \in {} |-> Starting]]

-----------------------------------------------------------------------------
(* The camera of the mocap window, over the heights of bones, None for one that is not a *)
(* number: it looks at the middle of those that are near the root, if there are two.      *)

Near(bones, reach) ==
  LET seen == { b \in DOMAIN bones : bones[b] # None }
      near == { b \in seen : bones[b] - bones[1] \in (-reach)..reach }
  IN  IF 1 \in seen /\ Cardinality(near) >= 2 THEN near ELSE seen
Framed(bones, reach, least) ==
  LET heights == { bones[b] : b \in Near(bones, reach) }
      low == CHOOSE h \in heights : \A k \in heights : h <= k
      high == CHOOSE h \in heights : \A k \in heights : h >= k
  IN  IF heights = {} THEN [low |-> 0, high |-> 0, distance |-> least]
      ELSE [low |-> low, high |-> high,
            distance |-> IF (high - low) * 22 > least * 10 THEN ((high - low) * 22) \div 10 ELSE least]
=============================================================================
