------------------------- MODULE SimSession_proofs -------------------------
(***************************************************************************)
(* Proofs about SimSession for every value of its constants: its type, the *)
(* place of the emergency stop, the heading that STANDING and ARMS hold    *)
(* and the references that MOCAP and ARMS follow.                          *)
(***************************************************************************)
EXTENDS SimSession, TLAPS

\* While it stands the session is on a ramp to the heading it has, or holds it; in
\* ARMS it holds it.
Steady ==
  /\ mode = "standing" => (IF ramp # NoRamp THEN ramp ELSE standing) = heading
  /\ mode = "arms" => standing = heading

\* A session that follows has nothing but frames of its own stretch.
OwnFrames == mode \in Following /\ ~paused => timeline \subseteq {leg}

\* What the transitions of the mode machine keep; an exit request never outlives
\* the step that raised it.
SessionInv ==
  /\ mode \in Modes /\ paused \in BOOLEAN /\ (paused => mode \in Following)
  /\ estop \in Estops /\ ~estop.exit
  /\ heading \in Headings /\ standing \in Headings /\ ramp \in Headings \cup {NoRamp}
  /\ steps \in 0..RampSteps
  /\ timeline \subseteq 0..Legs /\ warm \in 0..Warmup /\ leg \in 0..Legs
  /\ StopMatchesMode /\ Steady /\ OwnFrames

\* Between the keys and the step nothing has been played yet, and only a session
\* that follows waits for what it fetched.
PlayedInv ==
  /\ pc = "fetch" => mode \in Following
  /\ HoldsHeading /\ FollowsFreshReference
  /\ pc \in {"keys", "fetch"} => played = NoStep

QueueInv ==
  /\ pico \in Seq(Events) /\ Len(pico) <= PicoMax
  /\ todo \in Seq(Keys) /\ Len(todo) <= BatchMax
  /\ pc \in {"poll", "keys", "fetch", "ended"}

SimInv == SessionInv /\ QueueInv /\ PlayedInv

-----------------------------------------------------------------------------
LEMMA ConstantTypes ==
  /\ EstopRamp \in Nat /\ Turns \in Nat /\ RampSteps \in Nat \ {0} /\ Warmup \in Nat
  /\ Legs \in Nat /\ BatchMax \in Nat /\ PicoMax \in Nat
  /\ WorldYaw \in Headings /\ NoRamp \notin Headings
BY SimAssumption, EstopRampAssumption DEF WorldYaw, Headings, NoRamp

\* A batch is a short sequence of keys.
LEMMA BatchIsSeq ==
  ASSUME NEW b \in Batches
  PROVE  b \in Seq(Keys) /\ Len(b) <= BatchMax
<1>1. PICK n \in 0..BatchMax : b \in [1..n -> Keys]  BY DEF Batches
<1>2. n \in Nat  BY <1>1, ConstantTypes
<1>3. b \in Seq(Keys) /\ Len(b) = n  BY <1>1, <1>2
<1> QED  BY <1>1, <1>3, ConstantTypes

LEMMA EstopFacts ==
  ASSUME NEW e \in Estops, ~e.exit
  PROVE  /\ \A b \in BOOLEAN : /\ Toggled(e, b) \in Estops /\ ~Toggled(e, b).exit
                               /\ Toggled(e, b).state # "latched"
                               /\ ~b /\ e.state # "ramping" => Toggled(e, b).state = "inactive"
         /\ OnStanding(e) \in Estops /\ ~OnStanding(e).exit
         /\ OnStanding(e).state # "ramping"
         /\ \A f \in Aged(e) : /\ f \in Estops /\ ~f.exit /\ f.state = e.state
<1> USE ConstantTypes DEF Estops
<1>1. \A b \in BOOLEAN : /\ Toggled(e, b) \in Estops /\ ~Toggled(e, b).exit
                         /\ Toggled(e, b).state # "latched"
                         /\ ~b /\ e.state # "ramping" => Toggled(e, b).state = "inactive"
  BY DEF Toggled, Inactive
<1>2. OnStanding(e) \in Estops /\ ~OnStanding(e).exit /\ OnStanding(e).state # "ramping"
  BY DEF OnStanding, Inactive
<1>3. \A f \in Aged(e) : f \in Estops /\ ~f.exit /\ f.state = e.state
  BY DEF Aged
<1> QED  BY <1>1, <1>2, <1>3

\* A reset leaves no frame and no count.
LEMMA ResetFacts ==
  ASSUME ResetTracking
  PROVE  timeline' \subseteq 0..Legs /\ warm' \in 0..Warmup /\ OwnFrames'
BY ConstantTypes DEF ResetTracking, OwnFrames

-----------------------------------------------------------------------------
(* The mode machine.                                                       *)

\* Each transition keeps SessionInv, and the heading with it.
LEMMA TransitionKeeps ==
  ASSUME SessionInv,
         EnterMocap \/ EnterVelocity \/ EnterStanding \/ ToggleArms \/ TogglePause
           \/ ToggleEstop \/ Refused
  PROVE  SessionInv'
<1> USE ConstantTypes DEF SessionInv, Modes, Following, Steady, StopMatchesMode
<1>1. CASE EnterMocap
  <2>1. ~paused' /\ paused' \in BOOLEAN  BY <1>1 DEF EnterMocap
  <2> QED  BY <1>1, <2>1, ResetFacts DEF EnterMocap
<1>2. CASE EnterVelocity
  BY <1>2 DEF EnterVelocity, KeepTracking, OwnFrames
<1>3. CASE EnterStanding
  <2>1. ~paused' /\ paused' \in BOOLEAN  BY <1>3 DEF EnterStanding
  <2> QED  BY <1>3, <2>1, ResetFacts DEF EnterStanding
<1>4. CASE ToggleArms
  BY <1>4 DEF ToggleArms, KeepTracking, OwnFrames
<1>5. CASE TogglePause
  BY <1>5, ResetFacts DEF TogglePause
<1>6. CASE ToggleEstop
  <2>1. (mode = "velocity") \in BOOLEAN  OBVIOUS
  <2>2. /\ estop' \in Estops /\ ~estop'.exit /\ estop'.state # "latched"
        /\ mode # "velocity" => estop'.state = "inactive"
    BY <1>6, <2>1, EstopFacts DEF ToggleEstop
  <2> QED  BY <1>6, <2>2 DEF ToggleEstop, KeepTracking, OwnFrames
<1>7. CASE Refused
  BY <1>7 DEF Refused, session, OwnFrames
<1> QED  BY <1>1, <1>2, <1>3, <1>4, <1>5, <1>6, <1>7

\* Leaving VELOCITY, by X, by a verdict or by a completed ramp.
LEMMA ExitKeeps ==
  ASSUME SessionInv, NEW e \in Estops, ~e.exit, heading' \in Headings, ExitVelocity(e)
  PROVE  SessionInv'
<1>1. estop' \in Estops /\ ~estop'.exit /\ estop'.state # "ramping"
  BY EstopFacts DEF ExitVelocity
<1>2. ~paused' /\ paused' \in BOOLEAN  BY DEF ExitVelocity
<1> QED
  BY <1>1, <1>2, ResetFacts, ConstantTypes
  DEF ExitVelocity, SessionInv, Modes, Following, Steady, StopMatchesMode

-----------------------------------------------------------------------------
(* The iteration of the loop.                                              *)

LEMMA SimInit == Init => SimInv
<1> SUFFICES ASSUME Init PROVE SimInv  OBVIOUS
<1>1. estop \in Estops /\ estop.state = "inactive" /\ ~estop.exit
  BY EstopRampAssumption DEF Init, Inactive, Estops
<1>2. SessionInv
  <2>1. ~paused /\ paused \in BOOLEAN  BY DEF Init
  <2>2. timeline = {} /\ warm = 0 /\ leg = 0 /\ steps = 0  BY DEF Init
  <2> QED
    BY <1>1, <2>1, <2>2, ConstantTypes
    DEF Init, SessionInv, Modes, Following, Steady, OwnFrames, StopMatchesMode
<1>3. QueueInv
  <2>1. pico = <<>> /\ todo = <<>> /\ pc = "poll"  BY DEF Init
  <2>2. pico \in Seq(Events) /\ todo \in Seq(Keys) /\ Len(pico) = 0 /\ Len(todo) = 0  BY <2>1
  <2> QED  BY <2>1, <2>2, ConstantTypes DEF QueueInv
<1>4. PlayedInv
  BY DEF Init, PlayedInv, HoldsHeading, FollowsFreshReference, NoStep, Following
<1> QED  BY <1>2, <1>3, <1>4 DEF SimInv

LEMMA PollKeeps == ASSUME SimInv, Poll PROVE SimInv'
<1>1. SessionInv'
  BY DEF SimInv, Poll, session, SessionInv, StopMatchesMode, Steady, OwnFrames
<1>3. todo' \in Seq(Keys) /\ Len(todo') <= BatchMax
  BY BatchIsSeq DEF Poll
<1>4. QueueInv'
  BY <1>3 DEF SimInv, QueueInv, Poll
<1>5. PlayedInv'
  BY DEF Poll, PlayedInv, HoldsHeading, FollowsFreshReference, NoStep, Following
<1> QED  BY <1>1, <1>4, <1>5 DEF SimInv

\* A key takes one of the transitions, or X out of VELOCITY.
LEMMA KeyTransitions ==
  ASSUME SimInv, Keyboard
  PROVE  SessionInv'
<1>1. CASE YPressed  BY <1>1, TransitionKeeps DEF YPressed, SimInv
<1>2. CASE VPressed  BY <1>2, TransitionKeeps DEF VPressed, SimInv
<1>3. CASE XPressed
  <2>1. CASE UNCHANGED heading /\ ExitVelocity(estop)
    <3>1. heading' \in Headings /\ estop \in Estops /\ ~estop.exit
      BY <2>1 DEF SimInv, SessionInv
    <3> QED  BY <2>1, <3>1, ExitKeeps DEF SimInv
  <2> QED  BY <1>3, <2>1, TransitionKeeps DEF XPressed, SimInv
<1>4. CASE APressed  BY <1>4, TransitionKeeps DEF APressed, SimInv
<1>5. CASE BPressed  BY <1>5, TransitionKeeps DEF BPressed, SimInv
<1>6. CASE EPressed  BY <1>6, TransitionKeeps DEF EPressed, SimInv
<1>7. CASE QPressed  BY <1>7, TransitionKeeps DEF QPressed, SimInv
<1> QED  BY <1>1, <1>2, <1>3, <1>4, <1>5, <1>6, <1>7 DEF Keyboard

LEMMA KeyboardKeeps == ASSUME SimInv, Keyboard PROVE SimInv'
<1>1. SessionInv'  BY KeyTransitions
<1>2. PICK k : Pressed(k)
  BY DEF Keyboard, YPressed, VPressed, XPressed, APressed, BPressed, EPressed, QPressed
<1>3. pc' \in {pc, "ended"}
  BY DEF Keyboard, YPressed, VPressed, XPressed, APressed, BPressed, EPressed, QPressed
<1>4. QueueInv'
  <2>1. todo' \in Seq(Keys) /\ Len(todo') <= Len(todo) /\ Len(todo) \in Nat /\ Len(todo') \in Nat
    BY <1>2 DEF Pressed, SimInv, QueueInv
  <2>2. Len(todo') <= BatchMax  BY <2>1, ConstantTypes DEF SimInv, QueueInv
  <2> QED  BY <1>2, <1>3, <2>1, <2>2 DEF Pressed, SimInv, QueueInv
<1>5. PlayedInv'
  <2>1. played' = NoStep /\ pc' # "fetch"  BY <1>2, <1>3 DEF Pressed, SimInv, PlayedInv
  <2> QED  BY <2>1 DEF PlayedInv, HoldsHeading, FollowsFreshReference, NoStep, Following
<1> QED  BY <1>1, <1>4, <1>5 DEF SimInv

LEMMA PicoPressKeeps == ASSUME SimInv, PicoPress PROVE SimInv'
<1>1. SessionInv'
  BY DEF SimInv, PicoPress, session, SessionInv, StopMatchesMode, Steady, OwnFrames
<1>2. pico' \in Seq(Events) /\ Len(pico') <= PicoMax
  <2>1. PICK ev \in Events : pico' = Append(pico, ev)  BY DEF PicoPress
  <2>2. pico \in Seq(Events) /\ Len(pico) \in Nat /\ Len(pico) < PicoMax
    BY DEF SimInv, QueueInv, PicoPress
  <2> QED  BY <2>1, <2>2, ConstantTypes
<1>3. QueueInv'  BY <1>2 DEF SimInv, QueueInv, PicoPress
<1>4. PlayedInv'
  BY DEF SimInv, PicoPress, session, PlayedInv, HoldsHeading, FollowsFreshReference
<1> QED  BY <1>1, <1>3, <1>4 DEF SimInv

\* The steps that end an iteration empty the provider's queue or leave it alone.
StepQueue ==
  /\ pico' \in {<<>>, pico} /\ UNCHANGED todo
  /\ pc' \in {"poll", "fetch", "ended"}

LEMMA StepQueueKeeps == ASSUME QueueInv, StepQueue PROVE QueueInv'
<1>1. pico' \in Seq(Events) /\ Len(pico') <= PicoMax
  <2>1. CASE pico' = <<>>
    <3>1. pico' \in Seq(Events) /\ Len(pico') = 0  BY <2>1
    <3> QED  BY <3>1, ConstantTypes
  <2>2. CASE pico' = pico  BY <2>2 DEF QueueInv
  <2> QED  BY <2>1, <2>2 DEF StepQueue
<1> QED  BY <1>1 DEF StepQueue, QueueInv

\* A new frame is of the present stretch and counts up to the warm-up.
LEMMA FrameFacts ==
  ASSUME SessionInv, FetchFrame
  PROVE  /\ timeline' \subseteq timeline \cup {leg} /\ timeline' \subseteq 0..Legs
         /\ warm' \in 0..Warmup
<1>1. timeline' \subseteq timeline \cup {leg}  BY DEF FetchFrame
<1>2. warm' \in {warm, IF warm < Warmup THEN warm + 1 ELSE warm}  BY DEF FetchFrame
<1>3. warm \in 0..Warmup /\ timeline \subseteq 0..Legs /\ leg \in 0..Legs  BY DEF SessionInv
<1>4. warm' \in 0..Warmup  BY <1>2, <1>3, ConstantTypes
<1> QED  BY <1>1, <1>3, <1>4

LEMMA StandingKeeps == ASSUME SimInv, StandingStep PROVE SimInv'
<1> USE ConstantTypes DEF SimInv
<1>1. QueueInv'
  BY StepQueueKeeps DEF StandingStep, StepQueue, QueueInv
<1>2. (IF ramp # NoRamp THEN ramp ELSE standing) = heading
  BY DEF StandingStep, SessionInv, Steady
<1>3. /\ standing' \in Headings /\ ramp' \in Headings \cup {NoRamp} /\ steps' \in 0..RampSteps
      /\ (IF ramp' # NoRamp THEN ramp' ELSE standing') = heading
  <2>1. CASE ramp = NoRamp
    BY <1>2, <2>1 DEF StandingStep, SessionInv
  <2>2. CASE ramp # NoRamp /\ Finished(steps)
    BY <1>2, <2>2 DEF StandingStep, SessionInv
  <2>3. CASE ramp # NoRamp /\ ~Finished(steps)
    BY <1>2, <2>3 DEF StandingStep, SessionInv, Finished
  <2> QED  BY <2>1, <2>2, <2>3
<1>4. SessionInv'
  BY <1>3 DEF StandingStep, KeepTracking, SessionInv, StopMatchesMode, Steady, OwnFrames
<1>5. PlayedInv'
  <2>1. played' = Plays(heading, {}) /\ mode = "standing" /\ heading' = heading /\ pc' = "poll"
    BY <1>2 DEF StandingStep
  <2> QED  BY <2>1 DEF Plays, PlayedInv, HoldsHeading, FollowsFreshReference, Following
<1> QED  BY <1>1, <1>4, <1>5

LEMMA VelocityKeeps == ASSUME SimInv, VelocityStep PROVE SimInv'
<1> USE ConstantTypes DEF SimInv
<1>1. QueueInv'
  BY StepQueueKeeps DEF VelocityStep, QuietFetch, StepQueue, QueueInv
<1>2. PICK f \in Aged(estop) : Stepped(Applied(f))  BY DEF VelocityStep
<1> DEFINE e == Applied(f)
<1>3. mode = "velocity" /\ heading' \in Headings  BY DEF VelocityStep
<1>4. /\ f \in Estops /\ ~f.exit /\ f.state # "latched"
  BY <1>2, <1>3, EstopFacts DEF SessionInv, StopMatchesMode
<1>5. e \in Estops /\ (~e.exit => e.state # "latched")
  BY <1>4 DEF Applied, Estops
<1>6. SessionInv'
  <2>1. CASE e.exit
    <3>1. ExitConsumed(e) \in Estops /\ ~ExitConsumed(e).exit
      BY <1>5 DEF ExitConsumed, Estops
    <3>2. ExitVelocity(ExitConsumed(e))  BY <1>2, <2>1 DEF Stepped
    <3> QED  BY <1>3, <3>1, <3>2, ExitKeeps
  <2>2. CASE ~e.exit
    <3>1. /\ mode' = mode /\ estop' = e /\ FetchFrame
          /\ UNCHANGED <<paused, standing, ramp, steps, leg>>
      BY <1>2, <2>2 DEF Stepped
    <3>2. timeline' \subseteq 0..Legs /\ warm' \in 0..Warmup
      BY <3>1, FrameFacts
    <3> QED
      BY <1>3, <1>5, <2>2, <3>1, <3>2
      DEF SessionInv, StopMatchesMode, Steady, OwnFrames, Following
  <2> QED  BY <2>1, <2>2
<1>7. PlayedInv'
  <2>1. played' = Plays(heading, {}) /\ pc' = "poll"  BY DEF VelocityStep
  <2> QED  BY <1>3, <2>1 DEF Plays, PlayedInv, HoldsHeading, FollowsFreshReference, Following
<1> QED  BY <1>1, <1>6, <1>7

LEMMA VerdictKeeps == ASSUME SimInv, VelocityVerdict PROVE SimInv'
<1> USE DEF SimInv
<1>1. QueueInv'
  BY StepQueueKeeps DEF VelocityVerdict, QuietFetch, StepQueue, QueueInv
<1>2. SessionInv'
  <2>1. CASE Refused  BY <2>1, TransitionKeeps
  <2>2. CASE UNCHANGED heading /\ ExitVelocity(estop)
    <3>1. heading' \in Headings /\ estop \in Estops /\ ~estop.exit  BY <2>2 DEF SessionInv
    <3> QED  BY <2>2, <3>1, ExitKeeps
  <2> QED  BY <2>1, <2>2 DEF VelocityVerdict
<1>3. PlayedInv'
  BY DEF VelocityVerdict, PlayedInv, HoldsHeading, FollowsFreshReference, NoStep, Following
<1> QED  BY <1>1, <1>2, <1>3

LEMMA FetchKeeps == ASSUME SimInv, Fetch PROVE SimInv'
<1> USE DEF SimInv
<1>1. QueueInv'
  BY StepQueueKeeps DEF Fetch, StepQueue, QueueInv
<1>2. SessionInv'  BY TransitionKeeps DEF Fetch, Refused
<1>3. PlayedInv'
  <2>1. mode' \in Following /\ played' = NoStep
    BY DEF Fetch, KeysHandled, PlayedInv, session, Following
  <2> QED  BY <2>1 DEF PlayedInv, HoldsHeading, FollowsFreshReference, NoStep, Following
<1> QED  BY <1>1, <1>2, <1>3

LEMMA EventKeeps == ASSUME SimInv, HandleEvent PROVE SimInv'
<1> USE DEF SimInv
<1>1. pico \in Seq(Events) /\ pico # <<>> /\ Head(pico) \in Events /\ pico' = Tail(pico)
  BY DEF HandleEvent, QueueInv
<1>2. pico' \in Seq(Events) /\ Len(pico') <= PicoMax
  <2>1. pico' \in Seq(Events) /\ Len(pico') \in Nat /\ Len(pico') <= Len(pico) /\ Len(pico) \in Nat
    BY <1>1
  <2> QED  BY <2>1, ConstantTypes DEF QueueInv
<1>3. QueueInv'  BY <1>2 DEF HandleEvent, QueueInv
<1>4. ToggleArms \/ TogglePause \/ ToggleEstop \/ Refused
  BY <1>1 DEF HandleEvent, Events
<1>5. SessionInv'  BY <1>4, TransitionKeeps
<1>6. mode' \in Following
  <2>1. mode \in Following  BY DEF HandleEvent, PlayedInv
  <2> QED
    BY <1>4, <2>1 DEF ToggleArms, TogglePause, ToggleEstop, Refused, session, Following
<1>7. PlayedInv'
  <2>1. played' = NoStep  BY DEF HandleEvent, PlayedInv
  <2> QED  BY <1>6, <2>1 DEF PlayedInv, HoldsHeading, FollowsFreshReference, NoStep, Following
<1> QED  BY <1>3, <1>5, <1>7

LEMMA HoldKeeps == ASSUME SimInv, HoldStep PROVE SimInv'
<1> USE DEF SimInv
<1>1. QueueInv'
  BY StepQueueKeeps DEF HoldStep, StepQueue, QueueInv
<1>2. SessionInv'  BY TransitionKeeps DEF HoldStep, Refused
<1>3. PlayedInv'
  BY DEF HoldStep, PlayedInv, HoldsHeading, FollowsFreshReference, NoStep, Following
<1> QED  BY <1>1, <1>2, <1>3

LEMMA FollowKeeps == ASSUME SimInv, FollowStep PROVE SimInv'
<1> USE ConstantTypes DEF SimInv
<1>1. QueueInv'
  BY StepQueueKeeps DEF FollowStep, StepQueue, QueueInv
<1>2. mode \in Following /\ ~paused /\ mode' = mode
  BY DEF FollowStep, PlayedInv
<1>3. timeline' \subseteq {leg} /\ timeline' # {} /\ warm' \in 0..Warmup /\ leg' = leg
  <2>1. FetchFrame /\ timeline' # {} /\ leg' = leg  BY DEF FollowStep
  <2>2. timeline \subseteq {leg}  BY <1>2 DEF SessionInv, OwnFrames
  <2> QED  BY <2>1, <2>2, FrameFacts
<1>4. heading' \in Headings /\ (mode = "arms" => heading' = heading)
  <2>1. CASE warm' = Warmup
    <3>1. heading' \in (IF mode = "arms" THEN {heading} ELSE Headings)  BY <2>1 DEF FollowStep
    <3> QED  BY <3>1 DEF SessionInv
  <2>2. CASE warm' # Warmup
    BY <2>2 DEF FollowStep, SessionInv
  <2> QED  BY <2>1, <2>2
<1>5. SessionInv'
  BY <1>2, <1>3, <1>4 DEF FollowStep, SessionInv, StopMatchesMode, Steady, OwnFrames, Following
<1>6. PlayedInv'
  <2>1. CASE warm' = Warmup
    <3>1. played' = Plays(IF mode = "arms" THEN standing ELSE heading, timeline') /\ pc' = "poll"
      BY <2>1 DEF FollowStep
    <3>2. timeline' = {leg}  BY <1>3
    <3>3. mode = "arms" => standing = heading'  BY <1>4 DEF SessionInv, Steady
    <3> QED
      BY <1>2, <1>3, <2>1, <3>1, <3>2, <3>3
      DEF Plays, PlayedInv, HoldsHeading, FollowsFreshReference, Following
  <2>2. CASE warm' # Warmup
    BY <2>2 DEF FollowStep, PlayedInv, HoldsHeading, FollowsFreshReference, NoStep, Following
  <2> QED  BY <2>1, <2>2
<1> QED  BY <1>1, <1>5, <1>6

-----------------------------------------------------------------------------
LEMMA StutterKeeps == ASSUME SimInv, UNCHANGED vars PROVE SimInv'
BY DEF SimInv, SessionInv, QueueInv, PlayedInv, StopMatchesMode, Steady, OwnFrames, HoldsHeading,
       FollowsFreshReference, vars, session

\* Every state property of the session at once, for every configuration.
THEOREM SimSafety == Spec => []SimInv
<1>1. SimInv /\ [Next]_vars => SimInv'
  <2> SUFFICES ASSUME SimInv, [Next]_vars PROVE SimInv'  OBVIOUS
  <2> QED
    BY PollKeeps, KeyboardKeeps, PicoPressKeeps, StandingKeeps, VelocityKeeps, VerdictKeeps,
       FetchKeeps, EventKeeps, HoldKeeps, FollowKeeps, StutterKeeps
    DEF Next, Iteration
<1> QED  BY SimInit, <1>1, PTL DEF Spec

\* Type correctness: no ramp step past the ramp, no frame past the warm-up.
THEOREM SimTypeCorrect == Spec => []SimTypeOK
<1>1. SimInv => SimTypeOK
  BY DEF SimInv, SessionInv, QueueInv, SimTypeOK
<1> QED  BY <1>1, SimSafety, PTL

\* A latched stop is met in STANDING only, a ramping one in VELOCITY only.
THEOREM StopMatchesModeAlways == Spec => []StopMatchesMode
<1>1. SimInv => StopMatchesMode  BY DEF SimInv, SessionInv
<1> QED  BY <1>1, SimSafety, PTL

\* STANDING and ARMS never command a turn, however many ramps came before.
THEOREM HoldsHeadingAlways == Spec => []HoldsHeading
<1>1. SimInv => HoldsHeading  BY DEF SimInv, PlayedInv
<1> QED  BY <1>1, SimSafety, PTL

\* MOCAP and ARMS follow the references of their own stretch only.
THEOREM FollowsFreshReferenceAlways == Spec => []FollowsFreshReference
<1>1. SimInv => FollowsFreshReference  BY DEF SimInv, PlayedInv
<1> QED  BY <1>1, SimSafety, PTL
=============================================================================
