------------------------------- MODULE Estop -------------------------------
(***************************************************************************)
(* EstopController of teleopit/sim/estop.py as operators on its state: the *)
(* latch, the age of the 0.3 s command ramp in control iterations, and the *)
(* exit request that is raised when the ramp completes and not yet taken.  *)
(***************************************************************************)
EXTENDS Naturals

CONSTANT EstopRamp   \* ramp_s, in iterations of the control loop

ASSUME EstopRampAssumption == EstopRamp \in Nat

Estops == [state : {"inactive", "ramping", "latched"}, age : 0..EstopRamp, exit : BOOLEAN]

Inactive == [state |-> "inactive", age |-> 0, exit |-> FALSE]

\* toggle(in_velocity): engages in VELOCITY only; a release forgets the ramp
\* and leaves an exit request that nobody consumed where it is.
Toggled(e, inVelocity) ==
  IF e.state # "inactive" THEN [Inactive EXCEPT !.exit = e.exit]
  ELSE IF inVelocity THEN [state |-> "ramping", age |-> 0, exit |-> FALSE]
  ELSE e

\* Mutant of Applied: the completed ramp raises no exit request.
AppliedSilently(e) ==
  IF e.state = "ramping" /\ e.age = EstopRamp THEN [Inactive EXCEPT !.state = "latched"] ELSE e

\* apply(cmd), called once per VELOCITY step: latches when the ramp has elapsed.
Applied(e) ==
  IF e.state = "ramping" /\ e.age = EstopRamp
    THEN [state |-> "latched", age |-> 0, exit |-> TRUE]
    ELSE e

\* consume_exit_request() when it returns True.
ExitConsumed(e) == [e EXCEPT !.exit = FALSE]

\* Mutant of OnStanding: a normal exit leaves the stop ramping.
OnStandingStillRamping(e) == e

\* on_standing(): aborts a ramp, keeps a latch.
OnStanding(e) == IF e.state = "ramping" THEN Inactive ELSE e

\* latch(): locks without an exit request.
Latched == [state |-> "latched", age |-> 0, exit |-> FALSE]

\* What the clock may do to e during one iteration: at least one period goes
\* by, and an iteration that overruns takes the ramp further.
Aged(e) ==
  IF e.state = "ramping" /\ e.age < EstopRamp
    THEN { [e EXCEPT !.age = a] : a \in (e.age + 1)..EstopRamp }
    ELSE {e}
=============================================================================
