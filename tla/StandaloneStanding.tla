--------------------------- MODULE StandaloneStanding ---------------------------
(***************************************************************************)
(* The standalone standing controller, a script that stands the robot with  *)
(* the standing path of the robot control worker and nothing else: its run  *)
(* as operators, step by step, each of which may raise.  owner is who moves *)
(* the robot: its own "ai" controller, or none once its mode is released.   *)
(***************************************************************************)
EXTENDS Integers, Sequences

CONSTANTS
  Period,    \* of the control loop, in ticks
  Tolerance, \* by which a cycle may be late
  Interval   \* ticks between two reports on the timing

NoRamp == -1

NewRun(dry) ==
  [at |-> IF dry THEN "prepare" ELSE "debug", dry |-> dry, entered |-> FALSE, owner |-> "ai",
   motors |-> "none", ramp |-> NoRamp, aligned |-> FALSE, stop |-> FALSE, sent |-> 0]
Ended(r) == [r EXCEPT !.at = "cleanup"]

\* _enter_standing, first call: an entry that fails may have released the mode of the
\* robot before it does, and is not undone.
DebugEntered(r, ready, released) ==
  [r EXCEPT !.owner = IF ready \/ released THEN "none" ELSE @,
            !.entered = ready, !.at = IF ready THEN "lock" ELSE "cleanup"]

Locked(r, works) == IF works THEN [r EXCEPT !.motors = "locked", !.at = "prepare"] ELSE Ended(r)

\* The policy is warmed up and reset and the reference turned to the robot's heading;
\* only a run that moves the robot ramps its gains.
Prepared(r, works) ==
  IF works THEN [r EXCEPT !.aligned = TRUE, !.ramp = IF r.dry THEN NoRamp ELSE 0, !.at = "loop"] ELSE Ended(r)

\* _standing_step: the target goes out with the gains of the ramp.
Stepped(r) == IF r.dry THEN r ELSE [r EXCEPT !.motors = "target", !.ramp = @ + 1, !.sent = @ + 1]

\* A cycle of _run_control_loop, or of _run_dry, which asks neither the remote nor the
\* joint velocities.
Cycled(r, buttons, fast, works) ==
  CASE r.stop \/ (~r.dry /\ buttons) -> Ended(r)
    [] ~r.stop /\ ~r.dry /\ ~buttons /\ fast -> Ended([r EXCEPT !.motors = "damping"])
    [] OTHER -> IF works THEN Stepped(r) ELSE Ended(r)

\* The handler of SIGINT and SIGTERM is heard of at the next cycle.
Signalled(r) == [r EXCEPT !.stop = TRUE]

\* _cleanup: motors that took commands are damped, if they can be, and the robot is
\* asked to take itself back; what it answers is not looked at.
Cleaned(r, damps, selects) ==
  IF r.entered
    THEN [r EXCEPT !.motors = "none", !.owner = IF selects THEN "ai" ELSE @, !.at = IF damps THEN "done" ELSE "raised"]
    ELSE [r EXCEPT !.motors = "none", !.at = "done"]

-----------------------------------------------------------------------------
(* _StandaloneTimingReporter *)

NoSample == [samples |-> 0, missed |-> 0, overrun |-> 0]
NewWindow == [since |-> NoRamp, counts |-> NoSample]

\* record: a window ends with the sample that starts an interval after its first.
Recorded(w, start, work, cycle) ==
  LET since == IF w.since = NoRamp THEN start ELSE w.since
      counts == [samples |-> w.counts.samples + 1,
                 missed |-> w.counts.missed + IF cycle > Period + Tolerance THEN 1 ELSE 0,
                 overrun |-> w.counts.overrun + IF work > Period THEN 1 ELSE 0]
  IN  IF start - since >= Interval
        THEN [window |-> [since |-> start, counts |-> NoSample], report |-> <<counts>>]
        ELSE [window |-> [since |-> since, counts |-> counts], report |-> <<>>]
=============================================================================
