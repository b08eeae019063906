------------------------ MODULE PolicyTeleop_proofs ------------------------
(***************************************************************************)
(* Proofs about PolicyTeleop for every value of its constants: its type,   *)
(* the session of POLICY and the chunks it follows, the client that has    *)
(* lost its host, the end of a pause, and the promise of TeleopModes.      *)
(*                                                                         *)
(* Then what becomes of a chunk (PolicyChunks), for every value and any    *)
(* number of calls: which of its actions is followed when, and how outputs *)
(* approach an action within the limits.                                   *)
(***************************************************************************)
EXTENDS PolicyTeleop, Integers, Sequences, FiniteSetTheorems, WellFoundedInduction, TLAPS

CONSTANTS   \* of the wire and the schedule of a chunk (PolicyChunks)
  MaxHorizon, MaxImage, Width, Circle

Chunk == INSTANCE PolicyChunks

\* The observations that a session can have asked about so far: of a session that
\* was started, with a stamp no younger than the last resume request.
Asked == [session : SessionIds \ {0}, stamp : 0..resumes]

\* The robot's state, whatever its mode: an entry is pending only in STANDING and
\* POLICY alone is paused or resumed, and the chunk is of the session.
RobotInv ==
  /\ mode \in Modes /\ driven \in BOOLEAN /\ latched \in BOOLEAN
  /\ session \in SessionIds /\ sessions \in SessionIds /\ resumes \in Stamps
  /\ pending \in BOOLEAN /\ paused \in BOOLEAN /\ resuming \in BOOLEAN
  /\ chunk \in ReceivedFrom(Asked)
  /\ commands \in Channel(SessionPackets)
  /\ pending => mode = "standing"
  /\ (resuming => paused) /\ (paused => mode = "policy")
  /\ chunk # NoChunk => session # 0 /\ chunk[1].session = session

\* What holds until the robot shuts down: its session is the mode's, and POLICY
\* has a chunk.
Live ==
  /\ session # 0 <=> pending \/ mode = "policy"
  /\ mode = "policy" => chunk # NoChunk

\* Everything that is under way was asked for by a session.
TopicInv ==
  /\ observations \in Channel(Asked) /\ actions \in Channel(Asked)
  /\ statuses \in Channel(StatusPackets)
  /\ request \in ReceivedFrom(Asked)

ClientInv ==
  /\ tick \in {"session", "connect", "observe", "ask", "dead"}
  /\ (tick = "ask" => request # <<>>)
  /\ active \in SessionIds /\ ready \in BOOLEAN /\ clientPaused \in BOOLEAN
  /\ renew \in BOOLEAN
  /\ LostHostIsRenewed /\ (renew => ~ready)

PhaseInv ==
  /\ phase \in {"drain", "control", "deadline", "step", "stopped"}
  /\ dead \in BOOLEAN
  /\ phase # "stopped" => Live

PolicyInv == RobotInv /\ TopicInv /\ ClientInv /\ PhaseInv

\* A step that ends the pause and stays in POLICY has the chunk it needs.
Fresh ==
  mode = "policy" /\ paused /\ ~paused' /\ mode' = "policy"
    => resuming /\ chunk' # NoChunk /\ chunk'[1].stamp = resumes

\* The moves of the mode graph, and the steps that leave it alone.
Moves ==
  \/ UNCHANGED <<mode, driven, latched>>
  \/ mode \in {"idle", "damping"} /\ mode' = "standing" /\ driven' = TRUE /\ UNCHANGED latched
  \/ mode = "standing" /\ mode' = "policy" /\ UNCHANGED <<driven, latched>>
  \/ mode = "policy" /\ mode' = "standing" /\ UNCHANGED <<driven, latched>>
  \/ mode' = "damping" /\ driven' = FALSE /\ latched' = TRUE
  \/ driven' = FALSE /\ UNCHANGED <<mode, latched>>

\* What each of the robot's handlers keeps.
Kept == RobotInv' /\ Live' /\ Fresh /\ Moves /\ resumes' = resumes

-----------------------------------------------------------------------------
LEMMA ConstantTypes == Sessions \in Nat /\ Resumes \in Nat /\ Capacity \in Nat \ {0}
BY PolicyAssumption, CapacityAssumption

\* What publishing to a channel and reading it leave and return.
LEMMA ChannelFacts ==
  ASSUME NEW M
  PROVE  /\ <<>> \in Channel(M)
         /\ \A ch \in Channel(M), m \in M : Published(ch, m) \in Channel(M)
         /\ \A ch \in Channel(M) : /\ Received(ch) \in ReceivedFrom(M)
                                   /\ ch # <<>> => Received(ch) # <<>> /\ Received(ch)[1] \in M
<1>1. <<>> \in Seq(M) /\ Len(<<>>) = 0  OBVIOUS
<1>2. \A ch \in Channel(M), m \in M : Published(ch, m) \in Channel(M)
  BY ConstantTypes DEF Channel, Published
<1>3. ASSUME NEW ch \in Channel(M), ch # <<>>
      PROVE  /\ Received(ch) \in ReceivedFrom(M)
             /\ Received(ch) # <<>> /\ Received(ch)[1] \in M
  <2>1. ch[Len(ch)] \in M  BY <1>3 DEF Channel
  <2> QED  BY <1>3, <2>1 DEF Received, ReceivedFrom
<1>4. Received(<<>>) \in ReceivedFrom(M)  BY DEF Received, ReceivedFrom
<1> QED  BY <1>1, <1>2, <1>3, <1>4, ConstantTypes DEF Channel

\* A channel of some messages is a channel of more.
LEMMA ChannelGrows ==
  ASSUME NEW M, NEW N, M \subseteq N
  PROVE  Channel(M) \subseteq Channel(N) /\ ReceivedFrom(M) \subseteq ReceivedFrom(N)
<1>1. Seq(M) \subseteq Seq(N)  OBVIOUS
<1> QED  BY <1>1 DEF Channel, ReceivedFrom

LEMMA AskedFacts ==
  ASSUME RobotInv
  PROVE  Asked \subseteq Observations
BY ConstantTypes DEF RobotInv, Asked, Observations, SessionIds, Stamps

\* What was under way stays under way as the clock of the stamps goes on.
LEMMA AskedGrows ==
  ASSUME RobotInv, resumes' \in Stamps, resumes' >= resumes
  PROVE  /\ Asked \subseteq Asked'
         /\ Channel(Asked) \subseteq Channel(Asked')
         /\ ReceivedFrom(Asked) \subseteq ReceivedFrom(Asked')
<1>1. Asked \subseteq Asked'
  BY ConstantTypes DEF RobotInv, Asked, SessionIds, Stamps
<1> QED  BY <1>1, ChannelGrows

LEMMA ChunkFacts ==
  /\ NoChunk \in ReceivedFrom(Asked)
  /\ \A a \in Asked : <<a>> \in ReceivedFrom(Asked) /\ <<a>> # NoChunk
BY DEF ReceivedFrom, NoChunk

-----------------------------------------------------------------------------
(* The robot's handlers.                                                   *)

\* A handler that leaves the clock alone leaves the set of possible questions alone.
LEMMA SameAsked == ASSUME resumes' = resumes PROVE Asked' = Asked
BY DEF Asked

LEMMA SendType ==
  ASSUME RobotInv, NEW s \in SessionIds,
         NEW c \in {"start", "pause", "resume", "stop"}, Send(s, c)
  PROVE  commands' \in Channel(SessionPackets)
<1>1. [session |-> s, command |-> c] \in SessionPackets  BY DEF SessionPackets
<1> QED  BY <1>1, ChannelFacts DEF Send, RobotInv

LEMMA StopSessionKeeps ==
  ASSUME RobotInv, StopSession
  PROVE  /\ session' = 0 /\ chunk' = NoChunk /\ pending' = FALSE /\ paused' = FALSE
         /\ resuming' = FALSE /\ sessions' = sessions /\ resumes' = resumes
         /\ commands' \in Channel(SessionPackets)
<1>1. session \in SessionIds  BY DEF RobotInv
<1> QED  BY <1>1, SendType DEF StopSession

\* However it goes, the session is closed when it was open, and nothing is pending.
LEMMA LeaveSessionKeeps ==
  ASSUME RobotInv, Live, LeaveSession
  PROVE  /\ session' = 0 /\ chunk' = NoChunk /\ pending' = FALSE /\ paused' = FALSE
         /\ resuming' = FALSE /\ sessions' = sessions /\ resumes' = resumes
         /\ commands' \in Channel(SessionPackets)
<1>1. CASE mode = "policy" \/ pending
  BY <1>1, StopSessionKeeps DEF LeaveSession
<1>2. CASE ~(mode = "policy" \/ pending)
  <2>1. UNCHANGED <<session, sessions, pending, paused, resuming, resumes, chunk, commands>>
    BY <1>2 DEF LeaveSession, entry, pause
  <2>2. session = 0 /\ pending = FALSE /\ paused = FALSE /\ resuming = FALSE
    BY <1>2 DEF RobotInv, Live
  <2>3. chunk = NoChunk  BY <2>2 DEF RobotInv
  <2> QED  BY <2>1, <2>2, <2>3 DEF RobotInv
<1> QED  BY <1>1, <1>2

\* A robot without a session is sound wherever it stands but in POLICY.
LEMMA WithoutSession ==
  ASSUME RobotInv, mode' \in Modes, mode' # "policy", driven' \in BOOLEAN, latched' \in BOOLEAN,
         session' = 0, chunk' = NoChunk, pending' = FALSE, paused' = FALSE,
         resuming' = FALSE, sessions' = sessions, resumes' = resumes,
         commands' \in Channel(SessionPackets)
  PROVE  RobotInv' /\ Live' /\ Fresh
<1>1. 0 \in SessionIds  BY ConstantTypes DEF SessionIds
<1>2. chunk' \in ReceivedFrom(Asked')  BY ChunkFacts, SameAsked
<1>3. ~paused' /\ paused' \in BOOLEAN /\ ~pending' /\ pending' \in BOOLEAN
      /\ ~resuming' /\ resuming' \in BOOLEAN
  OBVIOUS
<1> QED  BY <1>1, <1>2, <1>3 DEF RobotInv, Live, Fresh

LEMMA EnterStandingKeeps == ASSUME RobotInv, Live, EnterStanding PROVE Kept
<1>1. /\ session' = 0 /\ chunk' = NoChunk /\ pending' = FALSE /\ paused' = FALSE
      /\ resuming' = FALSE /\ sessions' = sessions /\ resumes' = resumes
      /\ commands' \in Channel(SessionPackets)
  BY LeaveSessionKeeps DEF EnterStanding
<1>2. /\ mode' \in Modes /\ mode' # "policy" /\ driven' \in BOOLEAN /\ latched' \in BOOLEAN
      /\ Moves
  BY DEF EnterStanding, RobotInv, Modes, DebugModes, Moves
<1> QED  BY <1>1, <1>2, WithoutSession DEF Kept

LEMMA EnterDampingKeeps == ASSUME RobotInv, Live, EnterDamping PROVE Kept
<1>1. /\ session' = 0 /\ chunk' = NoChunk /\ pending' = FALSE /\ paused' = FALSE
      /\ resuming' = FALSE /\ sessions' = sessions /\ resumes' = resumes
      /\ commands' \in Channel(SessionPackets)
  BY LeaveSessionKeeps DEF EnterDamping
<1>2. /\ mode' \in Modes /\ mode' # "policy" /\ driven' \in BOOLEAN /\ latched' \in BOOLEAN
      /\ Moves
  BY DEF EnterDamping, Modes, Moves
<1> QED  BY <1>1, <1>2, WithoutSession DEF Kept

\* Nothing but the commands changes, and perhaps the place in the pause.
LEMMA SameSession ==
  ASSUME RobotInv, Live, UNCHANGED <<mode, driven, latched, session, sessions, pending,
                                     resumes, chunk>>,
         paused' \in BOOLEAN, resuming' \in BOOLEAN,
         resuming' => paused', paused' => mode = "policy", paused => paused',
         commands' \in Channel(SessionPackets)
  PROVE  Kept
<1>1. chunk' \in ReceivedFrom(Asked')  BY SameAsked DEF RobotInv
<1>2. RobotInv'  BY <1>1 DEF RobotInv
<1>3. Live'  BY DEF Live
<1> QED  BY <1>2, <1>3 DEF Kept, Fresh, Moves

LEMMA IndifferentKeeps == ASSUME RobotInv, Live, Indifferent PROVE Kept
BY SameSession DEF Indifferent, RobotInv, entry, pause

LEMMA PausePolicyKeeps ==
  ASSUME RobotInv, Live, mode = "policy", PausePolicy
  PROVE  Kept
<1>1. commands' \in Channel(SessionPackets)  BY SendType DEF PausePolicy, RobotInv
<1>2. paused' /\ paused' \in BOOLEAN /\ ~resuming' /\ resuming' \in BOOLEAN
  BY DEF PausePolicy
<1> QED  BY <1>1, <1>2, SameSession DEF PausePolicy

LEMMA HandleFaultKeeps == ASSUME RobotInv, Live, HandleFault PROVE Kept
<1>1. CASE mode = "policy" /\ PausePolicy  BY <1>1, PausePolicyKeeps
<1>2. CASE EnterStanding  BY <1>2, EnterStandingKeeps
<1>3. CASE Indifferent  BY <1>3, IndifferentKeeps
<1> QED  BY <1>1, <1>2, <1>3 DEF HandleFault

LEMMA FollowChunkKeeps ==
  ASSUME RobotInv, Live, NEW a \in Asked, Relevant(a), Usable(a), FollowChunk(a)
  PROVE  Kept
<1>1. a.session # 0 /\ a.session = session /\ a.stamp \in 0..resumes
  BY DEF Asked, Relevant, SessionIds
<1>2. /\ mode' = "policy" /\ chunk' = <<a>> /\ chunk'[1] = a
      /\ ~pending' /\ pending' \in BOOLEAN /\ ~paused' /\ paused' \in BOOLEAN
      /\ ~resuming' /\ resuming' \in BOOLEAN
      /\ UNCHANGED <<driven, latched, session, sessions, resumes, commands>>
  BY DEF FollowChunk
<1>3. chunk' \in ReceivedFrom(Asked') /\ chunk' # NoChunk
  BY <1>2, ChunkFacts, SameAsked
<1>4. RobotInv'  BY <1>1, <1>2, <1>3 DEF RobotInv, Modes
<1>5. Live'  BY <1>1, <1>2, <1>3 DEF Live
<1>6. Moves
  <2>1. mode = "policy" \/ mode = "standing"  BY <1>1 DEF Live, RobotInv
  <2> QED  BY <1>2, <2>1 DEF Moves
<1>7. Fresh
  <2>1. SUFFICES ASSUME paused
                 PROVE  resuming /\ chunk' # NoChunk /\ chunk'[1].stamp = resumes
    BY DEF Fresh
  <2>2. resuming  BY <2>1 DEF Relevant
  <2>3. a.stamp >= resumes  BY <2>2 DEF Usable
  <2>4. a.stamp = resumes  BY <1>1, <2>3, ConstantTypes DEF RobotInv, Stamps
  <2> QED  BY <1>2, <1>3, <2>2, <2>4
<1> QED  BY <1>2, <1>4, <1>5, <1>6, <1>7 DEF Kept

LEMMA ReceiveActionKeeps ==
  ASSUME RobotInv, Live, NEW a \in Asked, ReceiveAction(a)
  PROVE  Kept
<1>1. CASE EnterStanding  BY <1>1, EnterStandingKeeps
<1>2. CASE HandleFault  BY <1>2, HandleFaultKeeps
<1>3. CASE Indifferent  BY <1>3, IndifferentKeeps
<1>4. CASE Relevant(a) /\ Usable(a) /\ FollowChunk(a)  BY <1>4, FollowChunkKeeps
<1> QED  BY <1>1, <1>2, <1>3, <1>4 DEF ReceiveAction

-----------------------------------------------------------------------------
(* The robot's steps.                                                      *)

\* What a step of the robot's loop keeps; B alone moves the clock.
Stepped ==
  /\ RobotInv' /\ Live' /\ Fresh /\ Moves
  /\ resumes' >= resumes

LEMMA KeptSteps == ASSUME RobotInv, Kept PROVE Stepped
BY ConstantTypes DEF Kept, Stepped, RobotInv, Stamps

LEMMA DrainKeeps ==
  ASSUME RobotInv, Live, TopicInv, DrainAlarm \/ DrainFault \/ DrainActions
  PROVE  Kept
<1>1. CASE DrainAlarm  BY <1>1, HandleFaultKeeps DEF DrainAlarm
<1>2. CASE DrainFault  BY <1>2, HandleFaultKeeps DEF DrainFault
<1>3. CASE DrainActions
  <2>1. CASE actions = <<>>  BY <1>3, <2>1, IndifferentKeeps DEF DrainActions
  <2>2. CASE actions # <<>>
    <3>1. Received(actions)[1] \in Asked  BY <2>2, ChannelFacts DEF TopicInv
    <3> QED  BY <1>3, <2>2, <3>1, ReceiveActionKeeps DEF DrainActions
  <2> QED  BY <2>1, <2>2
<1> QED  BY <1>1, <1>2, <1>3

LEMMA YPressedKeeps == ASSUME RobotInv, Live, YPressed PROVE Kept
<1>1. sessions' \in SessionIds /\ session' = sessions' /\ session' # 0
  BY ConstantTypes DEF YPressed, RobotInv, SessionIds
<1>2. commands' \in Channel(SessionPackets)
  <2>1. [session |-> session', command |-> "start"] \in SessionPackets
    BY <1>1 DEF SessionPackets
  <2> QED  BY <2>1, ChannelFacts DEF YPressed, RobotInv
<1>3. /\ pending' /\ pending' \in BOOLEAN /\ ~paused' /\ paused' \in BOOLEAN
      /\ ~resuming' /\ resuming' \in BOOLEAN /\ chunk' = NoChunk
      /\ mode = "standing" /\ UNCHANGED <<mode, driven, latched, resumes>>
  BY DEF YPressed
<1>4. chunk' \in ReceivedFrom(Asked')  BY <1>3, ChunkFacts, SameAsked
<1>5. RobotInv'  BY <1>1, <1>2, <1>3, <1>4 DEF RobotInv
<1>6. Live' /\ Fresh /\ Moves  BY <1>1, <1>3 DEF Live, Fresh, Moves
<1> QED  BY <1>3, <1>5, <1>6 DEF Kept

LEMMA BPressedKeeps == ASSUME RobotInv, Live, BPressed PROVE Stepped
<1>1. CASE ~paused /\ PausePolicy
  BY <1>1, PausePolicyKeeps, KeptSteps DEF BPressed
<1>2. CASE /\ paused /\ ~resuming
           /\ resumes < Resumes /\ resumes' = resumes + 1
           /\ resuming' = TRUE
           /\ Send(session, "resume")
           /\ UNCHANGED <<mode, driven, latched, session, sessions, pending, paused, chunk>>
  <2>1. resumes' \in Stamps /\ resumes' >= resumes
    BY <1>2, ConstantTypes DEF RobotInv, Stamps
  <2>2. chunk' \in ReceivedFrom(Asked')  BY <1>2, <2>1, AskedGrows DEF RobotInv
  <2>3. commands' \in Channel(SessionPackets)  BY <1>2, SendType DEF RobotInv
  <2>4. resuming' /\ resuming' \in BOOLEAN /\ paused' /\ mode = "policy"
    BY <1>2 DEF RobotInv
  <2>5. RobotInv'  BY <1>2, <2>1, <2>2, <2>3, <2>4 DEF RobotInv
  <2> QED  BY <1>2, <2>1, <2>4, <2>5 DEF Stepped, Live, Fresh, Moves
<1>3. CASE Indifferent  BY <1>3, IndifferentKeeps, KeptSteps
<1> QED  BY <1>1, <1>2, <1>3 DEF BPressed

\* A repeated command touches its topic only.
LEMMA RepeatKeeps ==
  ASSUME RobotInv, Live, NEW c \in {"start", "pause", "resume"}, Repeat(c),
         UNCHANGED <<mode, driven, latched, entry, pause, chunk>>
  PROVE  Kept
<1>1. commands' \in Channel(SessionPackets)  BY SendType DEF Repeat, RobotInv
<1> QED  BY <1>1, SameSession DEF RobotInv, entry, pause

LEMMA ControlKeeps == ASSUME RobotInv, Live, Control PROVE Stepped
<1>1. CASE EmergencyStop
  BY <1>1, EnterDampingKeeps, IndifferentKeeps, KeptSteps DEF EmergencyStop
<1>2. CASE StartPressed \/ XPressed
  BY <1>2, EnterStandingKeeps, KeptSteps DEF StartPressed, XPressed
<1>3. CASE YPressed  BY <1>3, YPressedKeeps, KeptSteps
<1>4. CASE BPressed  BY <1>4, BPressedKeeps
<1>5. CASE EntryWaits  BY <1>5, RepeatKeeps, KeptSteps DEF EntryWaits
<1>6. CASE Deadline
  BY <1>6, EnterStandingKeeps, IndifferentKeeps, KeptSteps DEF Deadline
<1>7. CASE NoTransition
  <2>1. CASE Indifferent  BY <2>1, IndifferentKeeps, KeptSteps
  <2>2. CASE /\ Repeat(IF resuming \/ ~paused THEN "resume" ELSE "pause")
             /\ UNCHANGED <<mode, driven, latched, entry, pause, chunk>>
    BY <2>2, RepeatKeeps, KeptSteps
  <2> QED  BY <1>7, <2>1, <2>2 DEF NoTransition
<1> QED  BY <1>1, <1>2, <1>3, <1>4, <1>5, <1>6, <1>7 DEF Control

LEMMA StepKeeps ==
  ASSUME RobotInv, Live,
         IdleStep \/ StandingStep \/ FollowStep \/ ResumeStep \/ HoldStep
  PROVE  Kept
BY HandleFaultKeeps, IndifferentKeeps
   DEF IdleStep, StandingStep, FollowStep, ResumeStep, HoldStep

LEMMA RobotSteps ==
  ASSUME PolicyInv, Robot
  PROVE  phase # "stopped" /\ phase' # "stopped" /\ Stepped
<1>1. phase # "stopped" /\ phase' # "stopped"
  BY DEF Robot, DrainAlarm, DrainFault, DrainActions, DrainStep, Control, ControlStep, Transition,
         EmergencyStop, StartPressed, XPressed, YPressed, BPressed, EntryWaits, Deadline,
         NoTransition, IdleStep, StandingStep, FollowStep, ResumeStep, HoldStep, PolicyStep
<1>2. RobotInv /\ Live /\ TopicInv  BY <1>1 DEF PolicyInv, PhaseInv
<1> QED  BY <1>1, <1>2, DrainKeeps, ControlKeeps, StepKeeps, KeptSteps DEF Robot

\* The observation a robot publishes is one its session may ask about.
LEMMA PublishObservationType ==
  ASSUME RobotInv, Live, observations \in Channel(Asked), PublishObservation
  PROVE  observations' \in Channel(Asked)
<1>1. CASE UNCHANGED observations  BY <1>1
<1>2. ASSUME pending \/ mode = "policy", NEW stamp \in 0..resumes,
             observations' = Published(observations, [session |-> session, stamp |-> stamp])
      PROVE  observations' \in Channel(Asked)
  <2>1. [session |-> session, stamp |-> stamp] \in Asked
    BY <1>2 DEF Asked, RobotInv, Live
  <2> QED  BY <1>2, <2>1, ChannelFacts
<1> QED  BY <1>1, <1>2 DEF PublishObservation

\* What the robot does to the topics it reads and to everything that is not its own.
LEMMA RobotElsewhere ==
  ASSUME PolicyInv, Robot
  PROVE  /\ observations' \in Channel(Asked)
         /\ actions' \in {actions, <<>>} /\ statuses' \in {statuses, <<>>}
         /\ UNCHANGED <<client, dead>>
         /\ phase' \in {"drain", "control", "deadline", "step"}
<1> USE DEF PolicyInv, TopicInv
<1>1. CASE DrainAlarm \/ DrainFault \/ DrainActions
  BY <1>1 DEF DrainAlarm, DrainFault, DrainActions, DrainStep
<1>2. CASE Control
  BY <1>2 DEF Control, ControlStep, Transition, EmergencyStop, StartPressed, XPressed, YPressed,
              BPressed, EntryWaits, Deadline, NoTransition
<1>3. CASE IdleStep \/ StandingStep \/ FollowStep \/ ResumeStep \/ HoldStep
  <2>1. phase # "stopped"
    BY <1>3 DEF IdleStep, StandingStep, FollowStep, ResumeStep, HoldStep, PolicyStep
  <2>2. Live  BY <2>1 DEF PhaseInv
  <2>3. PublishObservation \/ UNCHANGED observations
    BY <1>3 DEF IdleStep, StandingStep, FollowStep, ResumeStep, HoldStep
  <2>4. observations' \in Channel(Asked)  BY <2>2, <2>3, PublishObservationType
  <2> QED
    BY <1>3, <2>4 DEF IdleStep, StandingStep, FollowStep, ResumeStep, HoldStep, PolicyStep
<1> QED  BY <1>1, <1>2, <1>3 DEF Robot

LEMMA RobotStepInv == ASSUME PolicyInv, Robot PROVE PolicyInv'
<1>1. /\ observations' \in Channel(Asked)
      /\ actions' \in {actions, <<>>} /\ statuses' \in {statuses, <<>>}
      /\ UNCHANGED <<client, dead>>
      /\ phase' \in {"drain", "control", "deadline", "step"}
  BY RobotElsewhere
<1>2. RobotInv' /\ Live' /\ resumes' >= resumes  BY RobotSteps DEF Stepped
<1>3. resumes' \in Stamps  BY <1>2 DEF RobotInv, Stamps
<1>4. Channel(Asked) \subseteq Channel(Asked') /\ ReceivedFrom(Asked) \subseteq ReceivedFrom(Asked')
  BY <1>2, <1>3, AskedGrows DEF PolicyInv
<1>5. actions' \in Channel(Asked) /\ statuses' \in Channel(StatusPackets) /\ request' = request
  BY <1>1, ChannelFacts DEF PolicyInv, TopicInv, client
<1>6. TopicInv'  BY <1>1, <1>4, <1>5 DEF PolicyInv, TopicInv
<1>7. ClientInv'  BY <1>1 DEF PolicyInv, ClientInv, LostHostIsRenewed, client
<1>8. PhaseInv'  BY <1>1, <1>2 DEF PolicyInv, PhaseInv
<1> QED  BY <1>2, <1>6, <1>7, <1>8 DEF PolicyInv

LEMMA ShutdownInv == ASSUME PolicyInv, Shutdown PROVE PolicyInv' /\ Moves
<1>1. RobotInv /\ Live  BY DEF Shutdown, PolicyInv, PhaseInv
<1>2. /\ phase' = "stopped" /\ driven' = FALSE
      /\ UNCHANGED <<mode, latched, observations, statuses, actions, client, dead>>
  BY DEF Shutdown
<1>3. RobotInv' /\ resumes' = resumes
  <2>1. CASE session # 0
    <3>1. /\ session' = 0 /\ chunk' = NoChunk /\ pending' = FALSE /\ paused' = FALSE
          /\ resuming' = FALSE /\ sessions' = sessions /\ resumes' = resumes
          /\ commands' \in Channel(SessionPackets)
      BY <1>1, <2>1, StopSessionKeeps DEF Shutdown
    <3>2. /\ ~paused' /\ paused' \in BOOLEAN /\ ~pending' /\ pending' \in BOOLEAN
          /\ ~resuming' /\ resuming' \in BOOLEAN
      BY <3>1
    <3>3. 0 \in SessionIds /\ chunk' \in ReceivedFrom(Asked')
      BY <3>1, ChunkFacts, SameAsked, ConstantTypes DEF SessionIds
    <3> QED  BY <1>1, <1>2, <3>1, <3>2, <3>3 DEF RobotInv
  <2>2. CASE session = 0
    <3>1. UNCHANGED <<session, sessions, pending, paused, resuming, resumes, chunk, commands>>
      BY <2>2 DEF Shutdown, entry, pause
    <3> QED  BY <1>1, <1>2, <3>1, SameAsked DEF RobotInv
  <2> QED  BY <2>1, <2>2
<1>4. TopicInv'  BY <1>2, <1>3, SameAsked DEF PolicyInv, TopicInv, client
<1>5. ClientInv'  BY <1>2 DEF PolicyInv, ClientInv, LostHostIsRenewed, client
<1>6. PhaseInv'  BY <1>2 DEF PolicyInv, PhaseInv
<1>7. Moves  BY <1>2 DEF Moves
<1> QED  BY <1>3, <1>4, <1>5, <1>6, <1>7 DEF PolicyInv

-----------------------------------------------------------------------------
(* The client and the input workers.                                       *)

LEMMA TellType ==
  ASSUME TopicInv, NEW s \in SessionIds, NEW status \in {"news", "unavailable", "fault"},
         Tell(s, status)
  PROVE  statuses' \in Channel(StatusPackets)
<1>1. [session |-> s, status |-> status] \in StatusPackets  BY DEF StatusPackets
<1> QED  BY <1>1, ChannelFacts DEF Tell, TopicInv

\* What every handler of a session command leaves of the client.
LEMMA SessionCommands ==
  ASSUME PolicyInv, NEW p \in SessionPackets,
         StartSession(p) \/ PauseRequests(p) \/ ResumeRequests(p) \/ EndSession(p) \/ Ignore(p)
  PROVE  /\ active' \in SessionIds /\ ready' \in BOOLEAN /\ clientPaused' \in BOOLEAN
         /\ renew' \in BOOLEAN
         /\ (active' # 0 /\ renew' => clientPaused') /\ (renew' => ~ready')
         /\ statuses' \in Channel(StatusPackets)
<1> USE DEF PolicyInv, ClientInv, LostHostIsRenewed
<1>0. p.session \in SessionIds /\ 0 \in SessionIds
  BY ConstantTypes DEF SessionPackets, SessionIds
<1>1. CASE StartSession(p)
  <2>1. statuses' \in Channel(StatusPackets)  BY <1>0, <1>1, TellType DEF StartSession
  <2>2. /\ active' \in SessionIds /\ ~ready' /\ ready' \in BOOLEAN
        /\ ~clientPaused' /\ clientPaused' \in BOOLEAN /\ ~renew' /\ renew' \in BOOLEAN
    BY <1>0, <1>1 DEF StartSession
  <2> QED  BY <2>1, <2>2
<1>2. CASE PauseRequests(p)
  <2>1. statuses' \in Channel(StatusPackets)  BY <1>2, TellType DEF PauseRequests
  <2>2. clientPaused' /\ clientPaused' \in BOOLEAN /\ UNCHANGED <<active, ready, renew>>
    BY <1>2 DEF PauseRequests
  <2> QED  BY <2>1, <2>2
<1>3. CASE ResumeRequests(p)
  <2>1. statuses' \in Channel(StatusPackets)  BY <1>3, TellType DEF ResumeRequests
  <2>2. ~clientPaused' /\ clientPaused' \in BOOLEAN /\ UNCHANGED <<active, ready>>
    BY <1>3 DEF ResumeRequests
  <2>3. ~renew' /\ renew' \in BOOLEAN
    <3>1. renew' = (renew /\ ready)  BY <1>3 DEF ResumeRequests
    <3> QED  BY <3>1, Zenon
  <2> QED  BY <2>1, <2>2, <2>3
<1>4. CASE EndSession(p)
  <2>1. statuses' \in Channel(StatusPackets)  BY <1>4, TellType DEF EndSession
  <2>2. /\ active' = 0 /\ ~ready' /\ ready' \in BOOLEAN
        /\ ~clientPaused' /\ clientPaused' \in BOOLEAN /\ renew' = renew
    BY <1>4 DEF EndSession
  <2> QED  BY <1>0, <2>1, <2>2
<1>5. CASE Ignore(p)  BY <1>5 DEF Ignore, TopicInv
<1> QED  BY <1>1, <1>2, <1>3, <1>4, <1>5

\* The client reads and writes its topics and leaves the robot alone.
LEMMA ClientInvStep ==
  ASSUME PolicyInv, Client
  PROVE  /\ ClientInv'
         /\ observations' \in {observations, <<>>} /\ commands' \in {commands, <<>>}
         /\ actions' \in Channel(Asked) /\ statuses' \in Channel(StatusPackets)
         /\ request' \in ReceivedFrom(Asked)
<1> USE DEF PolicyInv, TopicInv
<1>1. CASE ReadSession
  <2>1. /\ tick' = "connect" /\ commands' = <<>>
        /\ UNCHANGED <<request, observations, actions>>
    BY <1>1 DEF ReadSession, ClientStep
  <2>2. /\ active' \in SessionIds /\ ready' \in BOOLEAN /\ clientPaused' \in BOOLEAN
        /\ renew' \in BOOLEAN
        /\ (active' # 0 /\ renew' => clientPaused') /\ (renew' => ~ready')
        /\ statuses' \in Channel(StatusPackets)
    <3>1. CASE commands = <<>>
      BY <1>1, <3>1 DEF ReadSession, ClientInv, LostHostIsRenewed
    <3>2. CASE commands # <<>>
      <4>1. Received(commands)[1] \in SessionPackets  BY <3>2, ChannelFacts DEF RobotInv
      <4> DEFINE p == Received(commands)[1]
      <4>2. \/ StartSession(p) \/ PauseRequests(p) \/ ResumeRequests(p) \/ EndSession(p)
            \/ Ignore(p)
        BY <1>1, <3>2 DEF ReadSession
      <4> QED  BY <4>1, <4>2, SessionCommands
    <3> QED  BY <3>1, <3>2
  <2> QED  BY <2>1, <2>2 DEF ClientInv, LostHostIsRenewed
<1>2. CASE ConnectIfDue
  <2>1. /\ tick' = "observe"
        /\ UNCHANGED <<active, clientPaused, renew, request, commands, observations, actions>>
    BY <1>2 DEF ConnectIfDue, ClientStep
  <2>2. ready' \in BOOLEAN /\ (ready' = ready \/ ~renew)
    BY <1>2 DEF ConnectIfDue, ClientInv
  <2>3. statuses' \in Channel(StatusPackets)
    BY <1>2, TellType DEF ConnectIfDue, ClientInv
  <2> QED  BY <2>1, <2>2, <2>3 DEF ClientInv, LostHostIsRenewed
<1>3. CASE ReadObservation
  <2>1. /\ observations' = <<>>
        /\ UNCHANGED <<active, ready, clientPaused, renew, commands, statuses, actions>>
    BY <1>3 DEF ReadObservation
  <2>2. \/ tick' = "session" /\ request' = request
        \/ tick' = "ask" /\ request' = Received(observations) /\ observations # <<>>
    BY <1>3 DEF ReadObservation, ClientStep
  <2>3. request' \in ReceivedFrom(Asked) /\ (tick' = "ask" => request' # <<>>)
    BY <2>2, ChannelFacts
  <2> QED  BY <2>1, <2>2, <2>3 DEF ClientInv, LostHostIsRenewed
<1>4. CASE PublishAction
  <2>1. /\ tick = "ask" /\ tick' = "session" /\ request' = <<>>
        /\ actions' = Published(actions, request[1])
        /\ UNCHANGED <<active, ready, clientPaused, renew, commands, observations, statuses>>
    BY <1>4 DEF PublishAction, ClientStep
  <2>2. request[1] \in Asked  BY <2>1 DEF ClientInv, ReceivedFrom
  <2>3. actions' \in Channel(Asked) /\ request' \in ReceivedFrom(Asked)
    BY <2>1, <2>2, ChannelFacts DEF ReceivedFrom
  <2> QED  BY <2>1, <2>3 DEF ClientInv, LostHostIsRenewed
<1>5. CASE RequestFails
  <2>1. /\ tick' = "session" /\ ~ready' /\ ready' \in BOOLEAN
        /\ clientPaused' /\ clientPaused' \in BOOLEAN /\ renew' \in BOOLEAN
        /\ request' = <<>>
        /\ UNCHANGED <<active, commands, observations, actions>>
    BY <1>5 DEF RequestFails, ClientStep
  <2>2. statuses' \in Channel(StatusPackets)
    BY <1>5, TellType DEF RequestFails, ClientInv
  <2>3. request' \in ReceivedFrom(Asked)  BY <2>1 DEF ReceivedFrom
  <2> QED  BY <2>1, <2>2, <2>3 DEF ClientInv, LostHostIsRenewed
<1> QED  BY <1>1, <1>2, <1>3, <1>4, <1>5 DEF Client

LEMMA ClientStepInv == ASSUME PolicyInv, Client PROVE PolicyInv' /\ UNCHANGED robot
<1>1. UNCHANGED <<robot, dead>>
  BY DEF Client, ReadSession, ConnectIfDue, ReadObservation, PublishAction, RequestFails,
         ClientStep
<1>2. /\ UNCHANGED <<phase, mode, driven, latched, session, sessions, pending, paused,
                     resuming, resumes, chunk, dead>>
      /\ Asked' = Asked
  BY <1>1, SameAsked DEF robot, entry, pause
<1>3. RobotInv'
  <2>1. commands' \in Channel(SessionPackets)
    BY ClientInvStep, ChannelFacts DEF PolicyInv, RobotInv
  <2> QED  BY <1>2, <2>1 DEF PolicyInv, RobotInv
<1>4. TopicInv'
  <2>1. observations' \in Channel(Asked)
    BY ClientInvStep, ChannelFacts DEF PolicyInv, TopicInv
  <2> QED  BY <1>2, <2>1, ClientInvStep DEF TopicInv
<1>5. PhaseInv'  BY <1>2 DEF PolicyInv, PhaseInv, Live
<1> QED  BY <1>1, <1>3, <1>4, <1>5, ClientInvStep DEF PolicyInv

LEMMA InputExitsInv == ASSUME PolicyInv, InputExits PROVE PolicyInv' /\ UNCHANGED robot
<1>1. /\ UNCHANGED <<robot, active, ready, clientPaused, renew, request, topics>>
      /\ tick' \in {tick, "dead"} /\ dead' \in BOOLEAN
  BY DEF InputExits
<1>2. /\ UNCHANGED <<phase, mode, driven, latched, session, sessions, pending, paused,
                     resuming, resumes, chunk, commands, observations, statuses, actions>>
      /\ Asked' = Asked
  BY <1>1, SameAsked DEF robot, entry, pause, topics
<1>3. RobotInv' /\ TopicInv'  BY <1>1, <1>2 DEF PolicyInv, RobotInv, TopicInv
<1>4. ClientInv'  BY <1>1 DEF PolicyInv, ClientInv, LostHostIsRenewed
<1>5. PhaseInv'  BY <1>1, <1>2 DEF PolicyInv, PhaseInv, Live
<1> QED  BY <1>1, <1>3, <1>4, <1>5 DEF PolicyInv

-----------------------------------------------------------------------------
(* The theorems.                                                           *)

LEMMA PolicyInit == Init => PolicyInv
<1> SUFFICES ASSUME Init PROVE PolicyInv  OBVIOUS
<1>1. 0 \in SessionIds /\ 0 \in Stamps  BY ConstantTypes DEF SessionIds, Stamps
<1>2. /\ ~driven /\ driven \in BOOLEAN /\ ~latched /\ latched \in BOOLEAN
      /\ ~pending /\ pending \in BOOLEAN /\ ~paused /\ paused \in BOOLEAN
      /\ ~resuming /\ resuming \in BOOLEAN /\ ~ready /\ ready \in BOOLEAN
      /\ ~clientPaused /\ clientPaused \in BOOLEAN /\ ~renew /\ renew \in BOOLEAN
      /\ dead \in BOOLEAN
  BY DEF Init
<1>3. RobotInv  BY <1>1, <1>2, ChannelFacts, ChunkFacts DEF Init, RobotInv, Modes
<1>4. TopicInv
  <2>1. request \in ReceivedFrom(Asked)  BY DEF Init, ReceivedFrom
  <2> QED  BY <2>1, ChannelFacts DEF Init, TopicInv
<1>5. ClientInv  BY <1>1, <1>2 DEF Init, ClientInv, LostHostIsRenewed
<1>6. PhaseInv  BY <1>2 DEF Init, PhaseInv, Live
<1> QED  BY <1>3, <1>4, <1>5, <1>6 DEF PolicyInv

LEMMA PolicyStep1 ==
  ASSUME PolicyInv, [Next]_vars
  PROVE  PolicyInv' /\ Moves /\ (phase' # "stopped" => Fresh)
<1>1. CASE Robot  BY <1>1, RobotSteps, RobotStepInv DEF Stepped
<1>2. CASE Shutdown  BY <1>2, ShutdownInv DEF Shutdown
<1>3. CASE Client \/ InputExits
  <2>1. PolicyInv' /\ UNCHANGED robot  BY <1>3, ClientStepInv, InputExitsInv
  <2> QED  BY <2>1 DEF robot, pause, Moves, Fresh
<1>4. CASE UNCHANGED vars
  <2>1. UNCHANGED <<robot, client, topics, dead>>  BY <1>4 DEF vars
  <2>2. /\ UNCHANGED <<phase, mode, driven, latched, session, sessions, pending, paused,
                       resuming, resumes, chunk, commands, observations, statuses, actions,
                       tick, active, ready, clientPaused, renew, request, dead>>
        /\ Asked' = Asked
    BY <2>1, SameAsked DEF robot, entry, pause, topics, client
  <2>3. RobotInv' /\ TopicInv'  BY <2>2 DEF PolicyInv, RobotInv, TopicInv
  <2>4. ClientInv' /\ PhaseInv'
    BY <2>2 DEF PolicyInv, ClientInv, LostHostIsRenewed, PhaseInv, Live
  <2> QED  BY <2>2, <2>3, <2>4 DEF PolicyInv, Moves, Fresh
<1> QED  BY <1>1, <1>2, <1>3, <1>4 DEF Next

\* The invariant that the properties follow from.
THEOREM PolicySafety == Spec => []PolicyInv
<1>1. PolicyInv /\ [Next]_vars => PolicyInv'  BY PolicyStep1
<1> QED  BY PolicyInit, <1>1, PTL DEF Spec

\* Every variable keeps its type: no stamp is younger than the last resume request,
\* no packet names a session that was never started.
THEOREM PolicyTypeCorrect == Spec => []PolicyTypeOK
<1>1. PolicyInv => PolicyTypeOK
  <2> SUFFICES ASSUME PolicyInv PROVE PolicyTypeOK  OBVIOUS
  <2>1. Channel(Asked) \subseteq Channel(Observations)
        /\ ReceivedFrom(Asked) \subseteq ReceivedFrom(Observations)
    BY AskedFacts, ChannelGrows DEF PolicyInv
  <2> QED
    BY <2>1 DEF PolicyInv, RobotInv, TopicInv, ClientInv, PhaseInv, PolicyTypeOK, Actions
<1> QED  BY <1>1, PolicySafety, PTL

\* A session is open exactly while an entry is pending or POLICY runs.
THEOREM SessionMatchesModeAlways == Spec => []SessionMatchesMode
<1>1. PolicyInv => SessionMatchesMode
  BY DEF PolicyInv, PhaseInv, Live, SessionMatchesMode
<1> QED  BY <1>1, PolicySafety, PTL

\* Only chunks of its own session are ever followed.
THEOREM FollowsOwnSessionAlways == Spec => []FollowsOwnSession
<1>1. PolicyInv => FollowsOwnSession
  BY DEF PolicyInv, RobotInv, PhaseInv, Live, FollowsOwnSession
<1> QED  BY <1>1, PolicySafety, PTL

\* A client without its host session does not ask.
THEOREM LostHostIsRenewedAlways == Spec => []LostHostIsRenewed
<1>1. PolicyInv => LostHostIsRenewed  BY DEF PolicyInv, ClientInv
<1> QED  BY <1>1, PolicySafety, PTL

\* A pause ends only with a chunk from after the resume request.
THEOREM ResumesOnFreshChunkAlways == Spec => ResumesOnFreshChunk
<1> DEFINE Resumed ==
      mode = "policy" /\ paused /\ ~paused' /\ mode' = "policy" /\ phase' # "stopped"
        => resuming /\ chunk' # NoChunk /\ chunk'[1].stamp = resumes
<1>1. PolicyInv /\ [Next]_vars => [Resumed]_vars  BY PolicyStep1 DEF Fresh
<1>2. Spec => [][Resumed]_vars  BY <1>1, PolicySafety, PTL DEF Spec
<1> QED  BY <1>2 DEF ResumesOnFreshChunk

\* Each move of the mode graph is one that TeleopModes allows.
LEMMA MovesImplement == ASSUME Moves PROVE [TeleopPromise!Next]_(TeleopPromise!vars)
<1> DEFINE m == IF mode = "policy" THEN "mocap" ELSE mode
           l == IF latched THEN "locked" ELSE "free"
<1>1. CASE UNCHANGED <<mode, driven, latched>>
  BY <1>1 DEF TeleopPromise!vars
<1>2. CASE mode \in {"idle", "damping"} /\ mode' = "standing" /\ driven' = TRUE /\ UNCHANGED latched
  BY <1>2 DEF TeleopPromise!Next, TeleopPromise!Start
<1>3. CASE mode = "standing" /\ mode' = "policy" /\ UNCHANGED <<driven, latched>>
  BY <1>3 DEF TeleopPromise!Next, TeleopPromise!EnterMocap
<1>4. CASE mode = "policy" /\ mode' = "standing" /\ UNCHANGED <<driven, latched>>
  BY <1>4 DEF TeleopPromise!Next, TeleopPromise!LeaveMocap, TeleopPromise!MocapModes
<1>5. CASE mode' = "damping" /\ driven' = FALSE /\ latched' = TRUE
  <2>1. m' = "damping" /\ l' = "locked" /\ driven' = FALSE  BY <1>5
  <2> QED  BY <2>1 DEF TeleopPromise!Next, TeleopPromise!Damp
<1>6. CASE driven' = FALSE /\ UNCHANGED <<mode, latched>>
  BY <1>6 DEF TeleopPromise!Next, TeleopPromise!Stop
<1> QED  BY <1>1, <1>2, <1>3, <1>4, <1>5, <1>6 DEF Moves

\* POLICY keeps the mode graph that TeleopModes promises.
THEOREM PolicyImplementsTeleopModes == Spec => ImplementsTeleopModes
<1>1. Init => TeleopPromise!Init
  <2> SUFFICES ASSUME Init PROVE TeleopPromise!Init  OBVIOUS
  <2>1. mode = "idle" /\ ~latched /\ driven = FALSE  BY DEF Init
  <2> QED  BY <2>1 DEF TeleopPromise!Init
<1>2. PolicyInv /\ [Next]_vars => [TeleopPromise!Next]_(TeleopPromise!vars)
  BY PolicyStep1, MovesImplement
<1> QED
  BY <1>1, <1>2, PolicySafety, PTL DEF Spec, ImplementsTeleopModes, TeleopPromise!Spec

-----------------------------------------------------------------------------
(* Arithmetic, and induction over the numbers of calls.                    *)

LEMMA Division ==
  ASSUME NEW a \in Nat, NEW n \in Nat \ {0}
  PROVE  /\ a \div n \in Nat
         /\ n * (a \div n) <= a /\ a < n * (a \div n) + n
BY Z3

LEMMA Multiple ==
  ASSUME NEW q \in Nat, NEW n \in Nat \ {0}
  PROVE  q * n \in Nat /\ (q * n) \div n = q /\ (q * n) % n = 0
BY Z3

LEMMA QuotientBelow ==
  ASSUME NEW x \in Nat, NEW n \in Nat \ {0}, NEW k \in Nat, x < k * n
  PROVE  x \div n \in Nat /\ x \div n < k
BY Z3

LEMMA QuotientOrder ==
  ASSUME NEW x \in Nat, NEW y \in Nat, NEW n \in Nat \ {0}, x <= y
  PROVE  /\ x \div n \in Nat /\ y \div n \in Nat /\ x \div n <= y \div n
         /\ y <= x + n => y \div n <= x \div n + 1
         /\ x \div n = y \div n => x % n <= y % n
BY Z3

LEMMA LeastNumber ==
  ASSUME NEW T \in SUBSET Nat, T # {}
  PROVE  \E m \in T : \A n \in T : m <= n
<1> DEFINE Below == { 0..n : n \in T }
<1>1. Below \subseteq FiniteSubsetsOf(Nat) /\ Below # {}
  <2>1. ASSUME NEW n \in T PROVE 0..n \in SUBSET Nat /\ IsFiniteSet(0..n)  BY FS_Interval
  <2> QED  BY <2>1 DEF FiniteSubsetsOf
<1>2. PICK least \in Below : \A other \in Below : ~ (<<other, least>> \in StrictSubsetOrdering(Nat))
  <2> HIDE DEF Below
  <2> QED  BY <1>1, FS_StrictSubsetOrderingWellFounded, WFMin
<1>3. PICK m \in T : least = 0..m  OBVIOUS
<1>4. ASSUME NEW n \in T, n < m PROVE FALSE
  <2>1. 0..n \subseteq 0..m /\ m \in 0..m /\ m \notin 0..n  BY <1>4
  <2>2. <<0..n, 0..m>> \in StrictSubsetOrdering(Nat)  BY <2>1 DEF StrictSubsetOrdering
  <2> QED  BY <2>2, <1>2, <1>3
<1> QED  BY <1>4

\* Induction: a set of numbers that has the first of some and with each the next has them all.
LEMMA ReachesAll ==
  ASSUME NEW k \in Nat, NEW T, k \in T, \A n \in Nat : k <= n /\ n \in T => n + 1 \in T
  PROVE  \A n \in Nat : k <= n => n \in T
<1> DEFINE missed == { n \in Nat : k <= n /\ n \notin T }
<1>1. SUFFICES ASSUME missed # {} PROVE FALSE  OBVIOUS
<1>2. PICK m \in missed : \A n \in missed : m <= n
  <2>1. missed \in SUBSET Nat  OBVIOUS
  <2> HIDE DEF missed
  <2> QED  BY <1>1, <2>1, LeastNumber
<1>3. m \in Nat /\ k <= m /\ m \notin T /\ m # k  BY <1>2
<1>4. m - 1 \in Nat /\ k <= m - 1 /\ (m - 1) + 1 = m /\ ~(m <= m - 1)  BY <1>3
<1>5. m - 1 \in T  BY <1>2, <1>4
<1> QED  BY <1>3, <1>4, <1>5

-----------------------------------------------------------------------------
(* The schedule of a chunk's actions, over any calls at any times.         *)

Schedules == [seq : Int, stamp : Int, length : Nat, pausedAt : Nat \cup {Chunk!NotPaused}, shift : Int]

\* A call that leaves the chunk: none, a pause, a resume, each of which may be repeated.
Keeps(s, d, now) == d = s \/ d = Chunk!Paused(s, now) \/ d = Chunk!Resumed(s, now)

\* One that does not: another chunk, or a reset.
Changes(s, d, now, period, hold) ==
  \/ d = Chunk!Fresh
  \/ \E seq, stamp \in Int, length \in Nat :
       Chunk!Acceptable(s, seq, stamp, length, now, period, hold) /\ d = Chunk!Accepted(s, seq, stamp, length, now)

\* A schedule whose pause, if it is in one, began by now.
Scheduled(s, now) == s \in Schedules /\ s.pausedAt <= now

LEMMA KeptSchedule ==
  ASSUME NEW now \in Nat, NEW then \in Nat, now <= then, NEW s, Scheduled(s, now), NEW d, Keeps(s, d, then)
  PROVE  /\ Scheduled(d, then) /\ d.length = s.length
         /\ Chunk!Position(s, now) \in Int
         /\ Chunk!Position(d, then)
              = Chunk!Position(s, now) + (IF s.pausedAt = Chunk!NotPaused THEN then - now ELSE 0)
<1> USE DEF Chunk!NotPaused
<1>1. s \in Schedules /\ s.pausedAt <= now  BY DEF Scheduled
<1>2. CASE d = s
  BY <1>1, <1>2 DEF Scheduled, Schedules, Chunk!Position
<1>3. CASE d = [s EXCEPT !.pausedAt = then] /\ s.pausedAt = -1
  BY <1>1, <1>3 DEF Scheduled, Schedules, Chunk!Position
<1>4. CASE d = [s EXCEPT !.shift = s.shift + (then - s.pausedAt), !.pausedAt = -1] /\ s.pausedAt # -1
  <2>1. s.shift + (then - s.pausedAt) \in Int  BY <1>1 DEF Schedules
  <2>2. /\ d \in Schedules /\ d.length = s.length /\ d.stamp = s.stamp
        /\ d.shift = s.shift + (then - s.pausedAt) /\ d.pausedAt = -1
    BY <1>1, <1>4, <2>1 DEF Schedules
  <2>3. Chunk!Position(d, then) = then - (s.stamp + (s.shift + (then - s.pausedAt)))  BY <2>2 DEF Chunk!Position
  <2>4. Chunk!Position(s, now) = s.pausedAt - (s.stamp + s.shift)  BY <1>4 DEF Chunk!Position
  <2>5. s.stamp \in Int /\ s.shift \in Int /\ s.pausedAt \in Int  BY <1>1 DEF Schedules
  <2>6. Scheduled(d, then)  BY <2>2 DEF Scheduled
  <2>7. Chunk!Position(s, now) \in Int /\ Chunk!Position(d, then) = Chunk!Position(s, now) + 0
    BY <2>3, <2>4, <2>5
  <2> QED  BY <1>4, <2>2, <2>6, <2>7
<1> QED  BY <1>2, <1>3, <1>4 DEF Keeps, Chunk!Paused, Chunk!Resumed

LEMMA ChangedSchedule ==
  ASSUME NEW now \in Nat, NEW s, Scheduled(s, now), NEW then \in Nat, now <= then, NEW d, NEW period, NEW hold,
         Changes(s, d, then, period, hold)
  PROVE  Scheduled(d, then)
<1> USE DEF Chunk!NotPaused
<1>1. s \in Schedules /\ s.pausedAt <= now  BY DEF Scheduled
<1>2. CASE d = Chunk!Fresh
  BY <1>2 DEF Scheduled, Schedules, Chunk!Fresh
<1>3. CASE d # Chunk!Fresh
  <2>1. PICK seq \in Int, stamp \in Int, length \in Nat : d = Chunk!Accepted(s, seq, stamp, length, then)
    BY <1>3 DEF Changes
  <2> QED  BY <1>1, <2>1 DEF Scheduled, Schedules, Chunk!Accepted
<1> QED  BY <1>2, <1>3

\* Calls of the scheduler (HighLevelPolicyScheduler), the n-th at a time that is no earlier
\* than those before.
Called(s, times, period, hold) ==
  /\ times \in [Nat -> Nat] /\ \A n \in Nat : times[n] <= times[n + 1]
  /\ s[0] = Chunk!Fresh
  /\ \A n \in Nat : \/ Keeps(s[n], s[n + 1], times[n + 1])
                    \/ Changes(s[n], s[n + 1], times[n + 1], period, hold)

LEMMA EverScheduled ==
  ASSUME NEW s, NEW times, NEW period, NEW hold, Called(s, times, period, hold), NEW n \in Nat
  PROVE  Scheduled(s[n], times[n])
<1> DEFINE T == { m \in Nat : Scheduled(s[m], times[m]) }
<1>1. times \in [Nat -> Nat] /\ \A m \in Nat : times[m] <= times[m + 1]  BY DEF Called
<1>2. 0 \in T
  BY <1>1 DEF Called, Scheduled, Schedules, Chunk!Fresh, Chunk!NotPaused
<1>3. ASSUME NEW m \in Nat, m \in T PROVE m + 1 \in T
  <2>1. times[m] \in Nat /\ times[m + 1] \in Nat /\ times[m] <= times[m + 1]  BY <1>1
  <2>2. CASE Keeps(s[m], s[m + 1], times[m + 1])  BY <1>3, <2>1, <2>2, KeptSchedule
  <2>3. CASE Changes(s[m], s[m + 1], times[m + 1], period, hold)  BY <1>3, <2>1, <2>3, ChangedSchedule
  <2> QED  BY <2>2, <2>3 DEF Called
<1> HIDE DEF T
<1>4. \A m \in Nat : 0 <= m => m \in T  BY <1>2, <1>3, ReachesAll
<1> QED  BY <1>4 DEF T

\* Calls k + 1 to n leave the chunk that the schedule has after the k-th.
KeptFrom(s, times, k, n) == \A j \in k..(n - 1) : Keeps(s[j], s[j + 1], times[j + 1])

\* The place in a chunk that is kept never goes back nor faster than time.
LEMMA PlaceGoesOn ==
  ASSUME NEW s, NEW times, NEW period, NEW hold, Called(s, times, period, hold),
         NEW k \in Nat, NEW n \in Nat, k <= n, KeptFrom(s, times, k, n)
  PROVE  /\ s[k].length = s[n].length
         /\ Chunk!Position(s[k], times[k]) \in Int /\ Chunk!Position(s[n], times[n]) \in Int
         /\ Chunk!Position(s[k], times[k]) <= Chunk!Position(s[n], times[n])
         /\ Chunk!Position(s[n], times[n]) - Chunk!Position(s[k], times[k]) <= times[n] - times[k]
<1> DEFINE place(m) == Chunk!Position(s[m], times[m])
           T == { m \in Nat : m <= n => /\ s[m].length = s[k].length /\ place(k) <= place(m)
                                        /\ place(m) - place(k) <= times[m] - times[k] }
<1>1. times \in [Nat -> Nat] /\ \A m \in Nat : times[m] <= times[m + 1]  BY DEF Called
<1>2. \A m \in Nat : Scheduled(s[m], times[m])  BY EverScheduled
<1>3. \A m \in Nat : place(m) \in Int
  BY <1>1, <1>2, KeptSchedule DEF Keeps
<1>4. k \in T
  <2>1. place(k) \in Int /\ times[k] \in Int  BY <1>1, <1>3
  <2> HIDE DEF place
  <2> QED  BY <2>1
<1>5. ASSUME NEW m \in Nat, k <= m, m \in T PROVE m + 1 \in T
  <2>1. SUFFICES ASSUME m + 1 <= n
                 PROVE  /\ s[m + 1].length = s[k].length /\ place(k) <= place(m + 1)
                        /\ place(m + 1) - place(k) <= times[m + 1] - times[k]
    OBVIOUS
  <2>2. Keeps(s[m], s[m + 1], times[m + 1])
    <3>1. m \in k..(n - 1)  BY <1>5, <2>1
    <3> QED  BY <3>1 DEF KeptFrom
  <2> DEFINE on == IF s[m].pausedAt = Chunk!NotPaused THEN times[m + 1] - times[m] ELSE 0
  <2>3. times[m] \in Nat /\ times[m + 1] \in Nat /\ times[m] <= times[m + 1] /\ times[k] \in Nat  BY <1>1
  <2>4. s[m + 1].length = s[m].length /\ place(m + 1) = place(m) + on
    BY <1>2, <2>2, <2>3, KeptSchedule
  <2>5. on \in 0..(times[m + 1] - times[m])  BY <2>3
  <2>6. m <= n  BY <2>1
  <2>7. s[m].length = s[k].length /\ place(k) <= place(m) /\ place(m) - place(k) <= times[m] - times[k]
    BY <1>5, <2>6
  <2>8. place(m) \in Int /\ place(k) \in Int  BY <1>3
  <2> HIDE DEF on, place
  <2> QED  BY <2>3, <2>4, <2>5, <2>7, <2>8
<1>6. n \in T
  <2> HIDE DEF T
  <2> QED  BY <1>4, <1>5, ReachesAll
<1> QED  BY <1>3, <1>6

\* A chunk goes on exactly while nothing is paused, however pauses and resumes mix and whatever
\* was played before: it starts at its age when it came, and its place is that and the unpaused
\* time since (pause, resume and _sample_unlimited of HighLevelPolicyScheduler).
THEOREM PausesDoNotCountAlways ==
  ASSUME NEW s, NEW times, NEW period, NEW hold, Called(s, times, period, hold),
         NEW played \in [Nat -> Int],
         \A m \in Nat : played[m + 1] = played[m] + (IF s[m].pausedAt = Chunk!NotPaused THEN times[m + 1] - times[m] ELSE 0),
         NEW k \in Nat, NEW n \in Nat, k <= n, KeptFrom(s, times, k, n)
  PROVE  /\ s[n].length = s[k].length
         /\ Chunk!Position(s[k], times[k]) \in Int
         /\ Chunk!Position(s[n], times[n]) = Chunk!Position(s[k], times[k]) + (played[n] - played[k])
         /\ \A d, seq : \A stamp \in Int, length \in Nat :
              s[k] = Chunk!Accepted(d, seq, stamp, length, times[k]) =>
                Chunk!Position(s[k], times[k]) = times[k] - stamp
<1> DEFINE place(m) == Chunk!Position(s[m], times[m])
           T == { m \in Nat : m <= n => s[m].length = s[k].length /\ place(m) = place(k) + (played[m] - played[k]) }
<1>1. times \in [Nat -> Nat] /\ \A m \in Nat : times[m] <= times[m + 1]  BY DEF Called
<1>2. \A m \in Nat : Scheduled(s[m], times[m])  BY EverScheduled
<1>3. \A m \in Nat : place(m) \in Int
  BY <1>1, <1>2, KeptSchedule DEF Keeps
<1>4. k \in T
  <2>1. place(k) \in Int /\ played[k] \in Int  BY <1>3
  <2> HIDE DEF place
  <2> QED  BY <2>1
<1>5. ASSUME NEW m \in Nat, k <= m, m \in T PROVE m + 1 \in T
  <2>1. SUFFICES ASSUME m + 1 <= n
                 PROVE  s[m + 1].length = s[k].length /\ place(m + 1) = place(k) + (played[m + 1] - played[k])
    OBVIOUS
  <2>2. Keeps(s[m], s[m + 1], times[m + 1])
    <3>1. m \in k..(n - 1)  BY <1>5, <2>1
    <3> QED  BY <3>1 DEF KeptFrom
  <2> DEFINE on == IF s[m].pausedAt = Chunk!NotPaused THEN times[m + 1] - times[m] ELSE 0
  <2>3. times[m] \in Nat /\ times[m + 1] \in Nat /\ times[m] <= times[m + 1]  BY <1>1
  <2>4. s[m + 1].length = s[m].length /\ place(m + 1) = place(m) + on
    BY <1>2, <2>2, <2>3, KeptSchedule
  <2>5. on \in Int  BY <2>3
  <2>6. played[m + 1] = played[m] + on  OBVIOUS
  <2>7. m <= n  BY <2>1
  <2>8. s[m].length = s[k].length /\ place(m) = place(k) + (played[m] - played[k])  BY <1>5, <2>7
  <2>9. place(m) \in Int /\ place(k) \in Int /\ played[m] \in Int /\ played[k] \in Int  BY <1>3
  <2> HIDE DEF on, place
  <2> QED  BY <2>4, <2>5, <2>6, <2>8, <2>9
<1>6. n \in T
  <2> HIDE DEF T
  <2> QED  BY <1>4, <1>5, ReachesAll
<1>7. ASSUME NEW d, NEW seq, NEW stamp \in Int, NEW length \in Nat, s[k] = Chunk!Accepted(d, seq, stamp, length, times[k])
      PROVE  place(k) = times[k] - stamp
  <2>1. times[k] \in Nat  BY <1>1
  <2> QED  BY <1>7, <2>1 DEF Chunk!Accepted, Chunk!Position
<1> QED  BY <1>3, <1>6, <1>7

\* The place in a chunk, held at its first and last action, and whether the chunk is over.
LastPlace(length, period) == (length - 1) * period
HeldPlace(p, end) == IF p <= 0 THEN 0 ELSE IF p >= end THEN end ELSE p
Over(length, p, period, hold) ==
  length = 0 \/ (p > 0 /\ p >= LastPlace(length, period) /\ p > length * period + hold)

\* What is followed, in terms of the place in the chunk: the action at or before it, of those
\* that there are, and the next one unless it is there or at an end.
LEMMA SamplePlace ==
  ASSUME NEW s \in Schedules, NEW now, NEW period \in Nat \ {0}, NEW hold \in Nat, NEW p \in Int,
         p = Chunk!Position(s, now), NEW sample, sample = Chunk!SampleOf(s, now, period, hold),
         NEW place, place = HeldPlace(p, LastPlace(s.length, period))
  PROVE  /\ sample = Chunk!NoSample <=> Over(s.length, p, period, hold)
         /\ sample # Chunk!NoSample =>
              /\ LastPlace(s.length, period) \in Nat /\ place \in 0..LastPlace(s.length, period)
              /\ sample.from = place \div period /\ sample.into = place % period
              /\ sample.to \in {sample.from, sample.from + 1} /\ sample.to \in 0..(s.length - 1)
              /\ sample.into # 0 => sample.to # sample.from
<1> DEFINE last == s.length - 1
           end == last * period
           until == s.length * period
           claim == /\ sample = Chunk!NoSample <=> s.length = 0 \/ (p > 0 /\ p >= end /\ p > until + hold)
                    /\ sample # Chunk!NoSample =>
                         /\ end \in Nat /\ place \in 0..end
                         /\ sample.from = place \div period /\ sample.into = place % period
                         /\ sample.to \in {sample.from, sample.from + 1} /\ sample.to \in 0..last
                         /\ sample.into # 0 => sample.to # sample.from
<1>0. SUFFICES claim  BY DEF Over, LastPlace
<1>13. place = IF p <= 0 THEN 0 ELSE IF p >= end THEN end ELSE p  BY DEF HeldPlace, LastPlace
<1>1. s.length \in Nat  BY DEF Schedules
<1>2. end \in Int /\ until \in Int  BY <1>1
<1>3. Chunk!EndOf(0, s.length, period, hold) = until + hold
  <2>1. Chunk!EndOf(0, s.length, period, hold) = 0 + until + hold  BY DEF Chunk!EndOf
  <2> HIDE DEF until
  <2> QED  BY <1>2, <2>1
<1>4. s.length > 0 => end \in Nat /\ end \div period = last /\ end % period = 0
  <2>1. SUFFICES ASSUME s.length > 0 PROVE end \in Nat /\ end \div period = last /\ end % period = 0  OBVIOUS
  <2>2. last \in Nat  BY <1>1, <2>1
  <2> HIDE DEF last
  <2> QED  BY <2>2, Multiple
<1>5. sample =
        CASE s.length = 0 -> Chunk!NoSample
          [] s.length > 0 /\ p <= 0 -> [from |-> 0, to |-> 0, into |-> 0]
          [] s.length > 0 /\ p > 0 /\ p >= end ->
               IF p > until + hold THEN Chunk!NoSample ELSE [from |-> last, to |-> last, into |-> 0]
          [] OTHER -> [from |-> p \div period, to |-> p \div period + 1, into |-> p % period]
  BY <1>3 DEF Chunk!SampleOf
<1>6. p \in Int  OBVIOUS
<1>7. Chunk!NoSample.from = -1  BY DEF Chunk!NoSample
<1> HIDE DEF end, until
<1>8. CASE s.length = 0  BY <1>5, <1>8
<1>9. CASE s.length > 0 /\ p <= 0
  <2>1. sample = [from |-> 0, to |-> 0, into |-> 0]  BY <1>1, <1>5, <1>6, <1>9
  <2>2. sample # Chunk!NoSample  BY <2>1, <1>7
  <2>3. place = 0 /\ 0 \div period = 0 /\ 0 % period = 0  BY <1>9, <1>13
  <2>4. place \in 0..end /\ 0 \in 0..last  BY <1>1, <1>4, <1>9, <2>3
  <2>5. ~(s.length = 0 \/ (p > 0 /\ p >= end /\ p > until + hold))  BY <1>6, <1>9
  <2> QED  BY <1>4, <1>9, <2>1, <2>2, <2>3, <2>4, <2>5
<1>10. CASE s.length > 0 /\ p > 0 /\ p >= end
  <2>1. CASE p > until + hold
    BY <1>1, <1>5, <1>6, <1>10, <2>1
  <2>2. CASE ~(p > until + hold)
    <3>1. sample = [from |-> last, to |-> last, into |-> 0]  BY <1>1, <1>5, <1>6, <1>10, <2>2
    <3>2. last \in Nat /\ sample # Chunk!NoSample  BY <1>1, <1>7, <1>10, <3>1
    <3>3. place = end  BY <1>6, <1>10, <1>13
    <3>4. place \in 0..end /\ last \in 0..last  BY <1>4, <1>10, <3>2, <3>3
    <3> HIDE DEF last
    <3> QED  BY <1>4, <1>10, <2>2, <3>1, <3>2, <3>3, <3>4
  <2> QED  BY <2>1, <2>2
<1>11. CASE s.length > 0 /\ p > 0 /\ ~(p >= end)
  <2>1. sample = [from |-> p \div period, to |-> p \div period + 1, into |-> p % period]
    BY <1>1, <1>5, <1>6, <1>11
  <2>2. p \in Nat /\ p < end /\ place = p  BY <1>2, <1>6, <1>11, <1>13
  <2>3. p \div period \in Nat /\ p \div period < last
    <3>1. last \in Nat  BY <1>1, <1>11
    <3>2. p < last * period  BY <2>2 DEF end
    <3> HIDE DEF last
    <3> QED  BY <2>2, <3>1, <3>2, QuotientBelow
  <2>4. sample # Chunk!NoSample  BY <1>7, <2>1, <2>3
  <2>5. place \in 0..end /\ end \in Nat  BY <1>4, <1>11, <2>2
  <2>6. p \div period + 1 \in 0..last /\ p \div period + 1 # p \div period  BY <1>1, <2>3
  <2> HIDE DEF last
  <2>7. sample.from = p \div period /\ sample.to = p \div period + 1 /\ sample.into = p % period  BY <2>1
  <2> QED  BY <1>11, <2>2, <2>4, <2>5, <2>6, <2>7
<1>12. s.length = 0 \/ s.length > 0  BY <1>1
<1> HIDE DEF claim
<1> QED  BY <1>1, <1>2, <1>6, <1>8, <1>9, <1>10, <1>11, <1>12

\* A chunk that is accepted can be followed at once (_accept and _sample_unlimited), in a pause or not.
THEOREM AcceptedIsFollowedAlways ==
  ASSUME NEW period \in Nat \ {0}, NEW hold \in Nat, NEW now \in Nat,
         NEW s \in Schedules, NEW seq \in Int, NEW stamp \in Int, NEW length \in Nat,
         Chunk!Acceptable(s, seq, stamp, length, now, period, hold)
  PROVE  Chunk!SampleOf(Chunk!Accepted(s, seq, stamp, length, now), now, period, hold) # Chunk!NoSample
<1> DEFINE d == Chunk!Accepted(s, seq, stamp, length, now)
           p == Chunk!Position(d, now)
           until == length * period
<1>1. /\ d \in Schedules /\ d.length = length /\ d.stamp = stamp /\ d.shift = 0
      /\ d.pausedAt = Chunk!NotPaused \/ d.pausedAt = now
  BY DEF Chunk!Accepted, Schedules
<1>2. p = now - stamp
  <2> HIDE DEF d
  <2> QED  BY <1>1 DEF Chunk!Position
<1>3. until \in Int  OBVIOUS
<1>4. length # 0 /\ now <= stamp + until + hold
  BY DEF Chunk!Acceptable, Chunk!EndOf
<1> HIDE DEF d, until
<1>5. p \in Int /\ ~(p > until + hold)  BY <1>2, <1>3, <1>4
<1>6. ~Over(d.length, p, period, hold)  BY <1>1, <1>4, <1>5 DEF until, Over
<1>7. Chunk!SampleOf(d, now, period, hold) # Chunk!NoSample  BY <1>1, <1>5, <1>6, SamplePlace
<1> QED  BY <1>7 DEF d

\* Until another chunk comes, the action that is followed never goes back, whatever is paused and
\* resumed, and between two looks no further apart than two actions none is skipped; what is
\* followed lies between two actions of the chunk that are next to each other (_sample_unlimited).
THEOREM ActionsInOrderAlways ==
  ASSUME NEW s, NEW times, NEW period \in Nat \ {0}, NEW hold \in Nat, Called(s, times, period, hold),
         NEW k \in Nat, NEW n \in Nat, k <= n, KeptFrom(s, times, k, n),
         Chunk!SampleOf(s[n], times[n], period, hold) # Chunk!NoSample
  PROVE  LET sooner == Chunk!SampleOf(s[k], times[k], period, hold)
             later == Chunk!SampleOf(s[n], times[n], period, hold)
         IN  /\ sooner # Chunk!NoSample
             /\ sooner.from <= later.from /\ (sooner.from = later.from => sooner.into <= later.into)
             /\ times[n] - times[k] <= period => later.from <= sooner.from + 1
             /\ later.from \in 0..later.to /\ later.to <= later.from + 1 /\ later.to < s[n].length
<1> DEFINE sooner == Chunk!SampleOf(s[k], times[k], period, hold)
           later == Chunk!SampleOf(s[n], times[n], period, hold)
           length == s[n].length
           end == LastPlace(length, period)
           p == Chunk!Position(s[k], times[k])
           q == Chunk!Position(s[n], times[n])
           before == HeldPlace(p, end)
           after == HeldPlace(q, end)
<1>1. s[k] \in Schedules /\ s[n] \in Schedules  BY EverScheduled DEF Scheduled
<1>2. times[k] \in Nat /\ times[n] \in Nat  BY DEF Called
<1>3. s[k].length = length /\ p \in Int /\ q \in Int /\ p <= q /\ q - p <= times[n] - times[k]
  BY PlaceGoesOn
<1>4. length \in Nat  BY <1>1 DEF Schedules
<1>5. /\ ~Over(length, q, period, hold) /\ end \in Nat /\ after \in 0..end
      /\ later.from = after \div period /\ later.into = after % period
      /\ later.to \in {later.from, later.from + 1} /\ later.to \in 0..(length - 1)
  BY <1>1, <1>3, SamplePlace
<1>6. ~Over(length, p, period, hold)
  <2> DEFINE until == length * period
  <2>1. until \in Int  BY <1>4
  <2>2. \A x : Over(length, x, period, hold) <=> length = 0 \/ (x > 0 /\ x >= end /\ x > until + hold)
    BY DEF Over
  <2> HIDE DEF length, end, until, p, q, after, later
  <2> QED  BY <1>3, <1>5, <2>1, <2>2
<1> HIDE DEF end
<1>7. /\ sooner # Chunk!NoSample /\ before \in 0..end
      /\ sooner.from = before \div period /\ sooner.into = before % period
  <2>1. before = HeldPlace(p, LastPlace(s[k].length, period))  BY <1>3 DEF end
  <2>2. ~Over(s[k].length, p, period, hold)  BY <1>3, <1>6
  <2>3. LastPlace(s[k].length, period) = end  BY <1>3 DEF end
  <2> HIDE DEF p, before, sooner, length
  <2> QED  BY <1>1, <1>3, <2>1, <2>2, <2>3, SamplePlace DEF p, sooner
<1> HIDE DEF p, q
<1>8. before \in Nat /\ after \in Nat /\ before <= after /\ after - before <= q - p
  BY <1>3, <1>5 DEF HeldPlace
<1> HIDE DEF before, after, sooner, later, length
<1>9. times[n] - times[k] <= period => after <= before + period
  BY <1>2, <1>3, <1>8
<1>10. /\ before \div period \in Nat /\ after \div period \in Nat /\ before \div period <= after \div period
       /\ after <= before + period => after \div period <= before \div period + 1
       /\ before \div period = after \div period => before % period <= after % period
  BY <1>8, QuotientOrder
<1>11. later.from \in 0..later.to /\ later.to <= later.from + 1 /\ later.to < length
  <2>1. later.from \in Nat  BY <1>5, <1>10
  <2> QED  BY <2>1, <1>4, <1>5
<1>12. /\ sooner # Chunk!NoSample
       /\ sooner.from <= later.from /\ (sooner.from = later.from => sooner.into <= later.into)
       /\ times[n] - times[k] <= period => later.from <= sooner.from + 1
  BY <1>5, <1>7, <1>9, <1>10
<1> QED  BY <1>11, <1>12 DEF sooner, later, length

-----------------------------------------------------------------------------
(* The values of a chunk's actions and of the outputs that approach them.  *)

Bounds == { b \in Int \X Int : b[1] <= b[2] }
Limits ==
  [closed : Nat, joint : Bounds, slack : Nat, height : Bounds, neck : Bounds,
   move : Nat, speed : Nat, turn : Nat, rate : Nat]
ActionValues == [place : Int, height : Int, yaw : 0..(Circle - 1), joint : Int, hand : Int, neck : Int]
Allowed(a, l) ==
  /\ Chunk!Within(a.joint, l.joint[1], l.joint[2]) /\ Chunk!Within(a.height, l.height[1], l.height[2])
  /\ Chunk!Within(a.neck, l.neck[1], l.neck[2]) /\ Chunk!Within(a.hand, 0, l.closed)

LEMMA ClippedInside ==
  ASSUME NEW v \in Int, NEW low \in Int, NEW high \in Int, low <= high
  PROVE  Chunk!Clipped(v, low, high) \in Int /\ Chunk!Within(Chunk!Clipped(v, low, high), low, high)
BY DEF Chunk!Clipped, Chunk!Within, Chunk!Least

LEMMA LimitBounds ==
  ASSUME NEW l \in Limits
  PROVE  /\ l.joint[1] \in Int /\ l.joint[2] \in Int /\ l.joint[1] <= l.joint[2]
         /\ l.height[1] \in Int /\ l.height[2] \in Int /\ l.height[1] <= l.height[2]
         /\ l.neck[1] \in Int /\ l.neck[2] \in Int /\ l.neck[1] <= l.neck[2]
<1>1. l.joint \in Bounds /\ l.height \in Bounds /\ l.neck \in Bounds  BY DEF Limits
<1> QED  BY <1>1 DEF Bounds

\* A chunk that is accepted is within every limit once it is projected, no joint of it was moved by
\* more than the slack, and nothing else but the neck was (_validate_actions, _accept).
THEOREM AcceptedIsWithinLimitsAlways ==
  ASSUME NEW l \in Limits, NEW rows \in Seq(ActionValues), NEW horizon \in Nat,
         Chunk!ActionsValid(rows, horizon, l), NEW i \in DOMAIN rows
  PROVE  LET projected == Chunk!Projected(rows, l)[i]
         IN  /\ projected \in ActionValues /\ Allowed(projected, l)
             /\ Chunk!Distance(rows[i].joint, projected.joint) <= l.slack
             /\ projected = [rows[i] EXCEPT !.joint = projected.joint, !.neck = projected.neck]
<1> DEFINE a == rows[i]
           joint == Chunk!Clipped(a.joint, l.joint[1], l.joint[2])
           neck == Chunk!Clipped(a.neck, l.neck[1], l.neck[2])
           projected == Chunk!Projected(rows, l)[i]
<1>1. a \in ActionValues  OBVIOUS
<1>2. projected = [a EXCEPT !.joint = joint, !.neck = neck]  BY DEF Chunk!Projected
<1>3. /\ Chunk!Within(a.hand, 0, l.closed) /\ Chunk!Within(a.height, l.height[1], l.height[2])
      /\ Chunk!Distance(a.joint, joint) <= l.slack
  BY DEF Chunk!ActionsValid
<1>4. a.joint \in Int /\ a.neck \in Int  BY <1>1 DEF ActionValues
<1>5. /\ joint \in Int /\ Chunk!Within(joint, l.joint[1], l.joint[2])
      /\ neck \in Int /\ Chunk!Within(neck, l.neck[1], l.neck[2])
  BY <1>4, LimitBounds, ClippedInside
<1> HIDE DEF joint, neck, projected, a
<1>6. /\ projected \in ActionValues /\ projected.joint = joint /\ projected.neck = neck
      /\ projected.hand = a.hand /\ projected.height = a.height
  BY <1>1, <1>2, <1>5 DEF ActionValues
<1>7. Allowed(projected, l)  BY <1>3, <1>5, <1>6 DEF Allowed
<1> QED  BY <1>2, <1>3, <1>6, <1>7 DEF projected, a

\* How far apart two headings are, the short way, and what is left of a distance after some steps.
Apart(from, to) == Chunk!Distance(0, Chunk!Turn(from, to))
Less(distance, step) == IF distance <= step THEN 0 ELSE distance - step
Left(distance, step, n) == IF distance <= n * step THEN 0 ELSE distance - n * step

LEMMA RestNearby ==
  ASSUME NEW c \in Nat \ {0}, NEW x \in Int, -c <= x, x < 2 * c
  PROVE  x % c = IF x < 0 THEN x + c ELSE IF x >= c THEN x - c ELSE x
BY Z3

LEMMA TurnApproaches ==
  ASSUME Circle \in Nat \ {0}, NEW from \in 0..(Circle - 1), NEW to \in 0..(Circle - 1), NEW most \in Nat
  PROVE  LET new == (from + Chunk!Clipped(Chunk!Turn(from, to), -most, most)) % Circle
         IN  /\ new \in 0..(Circle - 1) /\ Apart(from, to) \in Nat
             /\ Apart(new, to) = Less(Apart(from, to), most)
             /\ Apart(from, to) = 0 => from = to
<1> DEFINE c == Circle
           d == (to - from) % c
           turn == Chunk!Turn(from, to)
           step == Chunk!Clipped(turn, -most, most)
           new == (from + step) % c
           e == (to - new) % c
<1>0. \A x \in Int : -c <= x /\ x < 2 * c => x % c = IF x < 0 THEN x + c ELSE IF x >= c THEN x - c ELSE x
  BY RestNearby
<1>1. d = IF to < from THEN to - from + c ELSE to - from
  <2> DEFINE x == to - from
  <2>1. x \in Int /\ -c <= x /\ x < c  OBVIOUS
  <2> HIDE DEF x
  <2>2. x % c = IF x < 0 THEN x + c ELSE x  BY <1>0, <2>1
  <2> QED  BY <2>2 DEF x
<1>2. turn = IF 2 * d > c THEN d - c ELSE d  BY DEF Chunk!Turn
<1>3. d \in 0..(c - 1)  BY <1>1
<1> HIDE DEF d
<1>4. turn \in Int /\ 2 * turn <= c /\ -c < 2 * turn  BY <1>2, <1>3
<1>5. to = from + turn \/ to = from + turn + c \/ to = from + turn - c  BY <1>1, <1>2, <1>3
<1> HIDE DEF turn
<1>6. /\ step \in Int
      /\ step = IF turn < -most THEN -most ELSE IF turn > most THEN most ELSE turn
  BY <1>4 DEF Chunk!Clipped, Chunk!Least
<1> HIDE DEF step
<1>7. -c <= from + step /\ from + step < 2 * c  BY <1>4, <1>6
<1>8. new = IF from + step < 0 THEN from + step + c ELSE IF from + step >= c THEN from + step - c ELSE from + step
  <2> DEFINE x == from + step
  <2>1. x \in Int  BY <1>6
  <2> HIDE DEF x
  <2>2. x % c = IF x < 0 THEN x + c ELSE IF x >= c THEN x - c ELSE x  BY <1>0, <1>7, <2>1 DEF x
  <2> QED  BY <1>6, <2>2 DEF x, new
<1>9. new \in 0..(c - 1)  BY <1>6, <1>7, <1>8
<1> HIDE DEF new
<1>10. e = IF to < new THEN to - new + c ELSE to - new
  <2> DEFINE x == to - new
  <2>1. x \in Int /\ -c <= x /\ x < c  BY <1>9
  <2> HIDE DEF x
  <2>2. x % c = IF x < 0 THEN x + c ELSE x  BY <1>0, <2>1
  <2> QED  BY <1>9, <2>2 DEF x
<1>11. Chunk!Turn(new, to) = IF 2 * e > c THEN e - c ELSE e  BY DEF Chunk!Turn
<1>12. e \in 0..(c - 1)  BY <1>9, <1>10
<1> HIDE DEF e
<1>13. Chunk!Turn(new, to) = turn - step
  BY <1>4, <1>5, <1>6, <1>7, <1>8, <1>9, <1>10, <1>11, <1>12
<1>14. Apart(new, to) = Less(Apart(from, to), most)
  BY <1>4, <1>6, <1>13 DEF Apart, Chunk!Distance, turn, Less
<1>15. Apart(from, to) \in Nat  BY <1>4 DEF Apart, Chunk!Distance, turn
<1>16. Apart(from, to) = 0 => from = to
  <2>1. Apart(from, to) = 0 => turn = 0  BY <1>4 DEF Apart, Chunk!Distance, turn
  <2> QED  BY <2>1, <1>5
<1> QED  BY <1>9, <1>14, <1>15, <1>16 DEF new, step, turn

LEMMA LeftAfterAStep ==
  ASSUME NEW distance \in Nat, NEW step \in Nat, NEW n \in Nat
  PROVE  /\ Left(distance, step, n) \in Nat /\ Left(distance, step, 0) = distance
         /\ Left(distance, step, n + 1) = Less(Left(distance, step, n), step)
<1> DEFINE gone == n * step
<1>1. gone \in Nat /\ (n + 1) * step = gone + step /\ 0 * step = 0  OBVIOUS
<1> HIDE DEF gone
<1> QED  BY <1>1 DEF Left, Less, gone

\* The part of a shortened displacement exists: it is the number before the first that is too large.
LEMMA ShortenedSize ==
  ASSUME NEW part \in Int, NEW square \in Nat, NEW most \in Nat, most * most < square
  PROVE  \E q \in 0..Chunk!Distance(0, part) :
           /\ q * q * square <= part * part * (most * most)
           /\ part * part * (most * most) < (q + 1) * (q + 1) * square
<1> DEFINE a == Chunk!Distance(0, part)
           bound == part * part * (most * most)
           large == { r \in Nat : bound < r * r * square }
<1>1. a \in Nat /\ part * part = a * a  BY Z3 DEF Chunk!Distance
<1>2. bound \in Nat /\ bound <= a * a * square
  <2>1. a * a \in Nat /\ most * most \in Nat  BY <1>1, Z3
  <2>2. ASSUME NEW x \in Nat, NEW y \in Nat, NEW z \in Nat, y <= z PROVE x * y \in Nat /\ x * y <= x * z  BY <2>2, Z3
  <2>3. a * a * (most * most) \in Nat /\ a * a * (most * most) <= a * a * square  BY <2>1, <2>2
  <2> QED  BY <1>1, <2>3
<1>3. a * a * square < (a + 1) * (a + 1) * square
  <2>1. ASSUME NEW x \in Nat, NEW y \in Nat, NEW z \in Nat, x < y, 0 < z PROVE x * z < y * z  BY <2>1, Z3
  <2>2. a * a \in Nat /\ (a + 1) * (a + 1) \in Nat /\ a * a < (a + 1) * (a + 1)  BY <1>1, Z3
  <2>3. most * most \in Nat  BY Z3
  <2> QED  BY <2>1, <2>2, <2>3
<1> HIDE DEF a, bound
<1>4. a + 1 \in large
  <2>1. (a + 1) * (a + 1) * square \in Int /\ a * a * square \in Int  BY <1>1
  <2> QED  BY <1>1, <1>2, <1>3, <2>1
<1>5. PICK r \in large : \A s \in large : r <= s
  <2>1. large \in SUBSET Nat /\ large # {}  BY <1>4
  <2> HIDE DEF large
  <2> QED  BY <2>1, LeastNumber
<1>6. r # 0  BY <1>2
<1>7. r - 1 \in Nat /\ (r - 1) + 1 = r /\ r - 1 <= a
  <2>1. r \in Nat /\ r <= a + 1  BY <1>4, <1>5
  <2> HIDE DEF large
  <2> QED  BY <1>1, <1>6, <2>1
<1>8. r - 1 \notin large  BY <1>5, <1>7
<1>9. (r - 1) * (r - 1) * square <= bound
  <2>1. (r - 1) * (r - 1) * square \in Int  BY <1>7
  <2> QED  BY <1>2, <1>7, <1>8, <2>1
<1>10. r - 1 \in 0..a  BY <1>1, <1>7
<1> QED  BY <1>5, <1>7, <1>9, <1>10 DEF a, bound

\* Products of the sizes of two parts.
LEMMA Products ==
  /\ \A x, y, z \in Nat : x <= y => x * z \in Nat /\ x * z <= y * z
  /\ \A x, y, z \in Nat : 0 < z /\ x * z <= y * z => x <= y
  /\ \A x \in Int : x * x \in Nat /\ (x * x = 0 => x = 0)
BY Z3

\* What is left of a displacement is a part of it, in its direction.
LEMMA ShortenedInside ==
  ASSUME NEW part \in Int, NEW rest \in Int, NEW most \in Nat
  PROVE  LET short == Chunk!Shortened(part, rest, most)
             square == part * part + rest * rest
         IN  /\ short \in Int
             /\ IF part < 0 THEN part <= short /\ short <= 0 ELSE 0 <= short /\ short <= part
             /\ square <= most * most => short = part
             /\ most * most < square =>
                  /\ short * short * square <= part * part * (most * most)
                  /\ short = 0 => part * part * (most * most) < square
<1> DEFINE short == Chunk!Shortened(part, rest, most)
           square == part * part + rest * rest
           bound == part * part * (most * most)
           P(q) == q * q * square <= bound /\ bound < (q + 1) * (q + 1) * square
           size == CHOOSE q \in 0..Chunk!Distance(0, part) : P(q)
<1>1. square \in Nat /\ most * most \in Nat /\ part * part \in Nat
  <2>1. part * part \in Nat /\ rest * rest \in Nat /\ most * most \in Nat  BY Products
  <2> QED  BY <2>1
<1>2. short = IF square <= most * most THEN part ELSE IF part < 0 THEN -size ELSE size
  BY DEF Chunk!Shortened
<1>3. CASE square <= most * most  BY <1>1, <1>2, <1>3
<1>4. CASE most * most < square
  <2>1. \E q \in 0..Chunk!Distance(0, part) : P(q)
    <3> HIDE DEF square
    <3> QED  BY <1>1, <1>4, ShortenedSize
  <2>2. size \in 0..Chunk!Distance(0, part) /\ P(size)
    <3> HIDE DEF P
    <3> QED  BY <2>1
  <2> HIDE DEF size
  <2>3. size \in Nat /\ short = IF part < 0 THEN -size ELSE size
    BY <1>1, <1>2, <1>4, <2>2 DEF Chunk!Distance
  <2>4. short \in Int /\ IF part < 0 THEN part <= short /\ short <= 0 ELSE 0 <= short /\ short <= part
    BY <2>2, <2>3 DEF Chunk!Distance
  <2>5. short * short = size * size  BY <2>3, Z3
  <2>6. short = 0 => size = 0  BY <2>3
  <2>7. (0 + 1) * (0 + 1) * square = square  BY <1>1
  <2> HIDE DEF short, square, bound
  <2>8. short * short * square <= bound  BY <2>2, <2>5
  <2>9. short = 0 => bound < square  BY <2>2, <2>6, <2>7
  <2> QED  BY <1>1, <1>4, <2>4, <2>8, <2>9 DEF short, square, bound
<1> QED  BY <1>1, <1>3, <1>4

\* The two parts together are no longer than most, and not both nothing.
LEMMA ShortenedTogether ==
  ASSUME NEW part \in Int, NEW rest \in Int, NEW most \in Nat
  PROVE  LET s == Chunk!Shortened(part, rest, most)
             t == Chunk!Shortened(rest, part, most)
         IN  /\ s * s + t * t <= most * most
             /\ most >= 2 /\ s = 0 /\ t = 0 => part = 0 /\ rest = 0
<1> DEFINE s == Chunk!Shortened(part, rest, most)
           t == Chunk!Shortened(rest, part, most)
           p == part * part
           r == rest * rest
           m == most * most
<1>1. p \in Nat /\ r \in Nat /\ m \in Nat  BY Products
<1>2. rest * rest + part * part = part * part + rest * rest  OBVIOUS
<1>3. /\ s \in Int /\ t \in Int
      /\ p + r <= m => s = part /\ t = rest
      /\ m < p + r =>
           /\ s * s * (p + r) <= p * m /\ (s = 0 => p * m < p + r)
           /\ t * t * (p + r) <= r * m /\ (t = 0 => r * m < p + r)
  BY <1>2, ShortenedInside
<1>4. CASE p + r <= m  BY <1>3, <1>4
<1>5. CASE m < p + r
  <2> DEFINE x == s * s
             y == t * t
             n == p + r
  <2>1. x \in Nat /\ y \in Nat /\ n \in Nat /\ 0 < n  BY <1>1, <1>3, <1>5, Products
  <2>2. x * n <= p * m /\ y * n <= r * m  BY <1>3, <1>5
  <2>3. x + y <= m
    <3> HIDE DEF x, y, p, r, m, n
    <3>1. x * n \in Nat /\ y * n \in Nat /\ p * m \in Nat /\ r * m \in Nat  BY <1>1, <2>1, Products
    <3>2. x * n + y * n <= p * m + r * m  BY <2>2, <3>1
    <3>3. (x + y) * n = x * n + y * n /\ (p + r) * m = p * m + r * m /\ (p + r) * m = m * (p + r)
      BY <1>1, <2>1, Z3
    <3>4. (x + y) * n <= m * n  BY <3>2, <3>3 DEF n
    <3> QED  BY <1>1, <2>1, <3>4, Products
  <2>4. ~(most >= 2 /\ s = 0 /\ t = 0)
    <3> SUFFICES ASSUME most >= 2, s = 0, t = 0 PROVE FALSE  OBVIOUS
    <3>1. 4 <= m  BY Z3
    <3>2. p * m < p + r /\ r * m < p + r  BY <1>3, <1>5
    <3> HIDE DEF p, r, m
    <3>3. \A a \in Nat : a * 4 <= a * m  BY <1>1, <3>1, Z3
    <3>4. p * 4 <= p * m /\ r * 4 <= r * m /\ p * m \in Int /\ r * m \in Int  BY <1>1, <3>3
    <3> QED  BY <1>1, <3>2, <3>4
  <2> QED  BY <2>3, <2>4
<1> QED  BY <1>1, <1>4, <1>5

\* How far the root is from where it goes, counting place and height.
RootApart(a, b) == Chunk!Distance(a.place, b.place) + Chunk!Distance(a.height, b.height)
\* From one output to the next the root goes no further than the limits, and no part of it away.
RootMoves(a, b, to, l) ==
  LET along == Chunk!Distance(a.place, b.place)
      up == Chunk!Distance(a.height, b.height)
  IN  /\ along <= l.speed /\ along * along + up * up <= l.move * l.move
      /\ Chunk!Distance(b.place, to.place) = Chunk!Distance(a.place, to.place) - along
      /\ Chunk!Distance(b.height, to.height) = Chunk!Distance(a.height, to.height) - up
      /\ l.move >= 2 /\ l.speed >= 1 => along + up >= 1 \/ RootApart(a, to) = 0

LEMMA LimitedRoot ==
  ASSUME NEW l \in Limits, NEW from \in ActionValues, NEW to \in ActionValues,
         NEW o, o.place \in Int, o.height \in Int,
         o.place = from.place + Chunk!Clipped(Chunk!Shortened(to.place - from.place, to.height - from.height, l.move), -l.speed, l.speed),
         o.height = from.height + Chunk!Shortened(to.height - from.height, to.place - from.place, l.move)
  PROVE  RootMoves(from, o, to, l)
<1> DEFINE part == to.place - from.place
           rest == to.height - from.height
           s == Chunk!Shortened(part, rest, l.move)
           t == Chunk!Shortened(rest, part, l.move)
           c == Chunk!Clipped(s, -l.speed, l.speed)
           along == Chunk!Distance(from.place, o.place)
           up == Chunk!Distance(from.height, o.height)
<1>1. /\ from.place \in Int /\ to.place \in Int /\ from.height \in Int /\ to.height \in Int
      /\ l.move \in Nat /\ l.speed \in Nat /\ part \in Int /\ rest \in Int
  BY DEF ActionValues, Limits
<1>2. /\ s \in Int /\ t \in Int
      /\ IF part < 0 THEN part <= s /\ s <= 0 ELSE 0 <= s /\ s <= part
      /\ IF rest < 0 THEN rest <= t /\ t <= 0 ELSE 0 <= t /\ t <= rest
  <2> HIDE DEF part, rest
  <2> QED  BY <1>1, ShortenedInside
<1>3. s * s + t * t <= l.move * l.move /\ (l.move >= 2 /\ s = 0 /\ t = 0 => part = 0 /\ rest = 0)
  <2> HIDE DEF part, rest
  <2> QED  BY <1>1, ShortenedTogether
<1>4. o.place = from.place + c /\ o.height = from.height + t  OBVIOUS
<1> HIDE DEF s, t
<1>5. c = IF s < -l.speed THEN -l.speed ELSE IF s > l.speed THEN l.speed ELSE s
  BY <1>1, <1>2 DEF Chunk!Clipped, Chunk!Least
<1> HIDE DEF c
<1>6. c \in Int /\ along = (IF c < 0 THEN -c ELSE c) /\ up = (IF t < 0 THEN -t ELSE t)
  BY <1>1, <1>2, <1>4, <1>5 DEF Chunk!Distance
<1> HIDE DEF along, up
<1>7. along \in Nat /\ up \in Nat /\ along <= l.speed  BY <1>1, <1>2, <1>5, <1>6
<1>8. along * along <= s * s /\ up * up = t * t
  <2> DEFINE b == IF s < 0 THEN -s ELSE s
  <2>1. b \in Nat /\ along <= b /\ s * s = b * b  BY <1>1, <1>2, <1>5, <1>6, Z3
  <2> HIDE DEF b
  <2>2. along * along <= b * b  BY <1>7, <2>1, Z3
  <2>3. up * up = t * t  BY <1>2, <1>6, Z3
  <2> QED  BY <2>1, <2>2, <2>3
<1>9. along * along + up * up <= l.move * l.move
  <2>1. along * along \in Int /\ up * up \in Int /\ s * s \in Int /\ t * t \in Int /\ l.move * l.move \in Int
    BY <1>1, <1>2, <1>7
  <2> QED  BY <1>3, <1>8, <2>1
<1>10. /\ Chunk!Distance(o.place, to.place) = Chunk!Distance(from.place, to.place) - along
       /\ Chunk!Distance(o.height, to.height) = Chunk!Distance(from.height, to.height) - up
  BY <1>1, <1>2, <1>4, <1>5, <1>6 DEF Chunk!Distance
<1>11. l.move >= 2 /\ l.speed >= 1 => along + up >= 1 \/ (part = 0 /\ rest = 0)
  BY <1>1, <1>2, <1>3, <1>5, <1>6
<1>12. part = 0 /\ rest = 0 => RootApart(from, to) = 0  BY <1>1 DEF RootApart, Chunk!Distance
<1> QED  BY <1>7, <1>9, <1>10, <1>11, <1>12 DEF RootMoves, along, up

\* One sample on the way from one output to the next.
LEMMA LimitedOutput ==
  ASSUME Circle \in Nat \ {0}, NEW l \in Limits, NEW from \in ActionValues, NEW to \in ActionValues
  PROVE  LET o == Chunk!RateLimited(from, to, l)
         IN  /\ o \in ActionValues /\ o.hand = to.hand /\ o.neck = to.neck
             /\ Allowed(from, l) /\ Allowed(to, l) => Allowed(o, l)
             /\ RootMoves(from, o, to, l)
             /\ Chunk!Distance(o.joint, to.joint) = Less(Chunk!Distance(from.joint, to.joint), l.rate)
             /\ Apart(o.yaw, to.yaw) = Less(Apart(from.yaw, to.yaw), l.turn)
<1> DEFINE along == to.place - from.place
           up == to.height - from.height
           place == from.place + Chunk!Clipped(Chunk!Shortened(along, up, l.move), -l.speed, l.speed)
           height == from.height + Chunk!Shortened(up, along, l.move)
           yaw == (from.yaw + Chunk!Clipped(Chunk!Turn(from.yaw, to.yaw), -l.turn, l.turn)) % Circle
           joint == Chunk!Toward(from.joint, to.joint, l.rate)
           o == Chunk!RateLimited(from, to, l)
<1>1. o = [to EXCEPT !.place = place, !.height = height, !.yaw = yaw, !.joint = joint]
  BY DEF Chunk!RateLimited
<1>2. /\ from.place \in Int /\ from.height \in Int /\ from.joint \in Int /\ from.yaw \in 0..(Circle - 1)
      /\ to.place \in Int /\ to.height \in Int /\ to.joint \in Int /\ to.yaw \in 0..(Circle - 1)
      /\ along \in Int /\ up \in Int
  BY DEF ActionValues
<1>3. l.move \in Nat /\ l.speed \in Nat /\ l.rate \in Nat /\ l.turn \in Nat  BY DEF Limits
<1>4. /\ Chunk!Shortened(along, up, l.move) \in Int /\ Chunk!Shortened(up, along, l.move) \in Int
      /\ IF up < 0 THEN up <= Chunk!Shortened(up, along, l.move) /\ Chunk!Shortened(up, along, l.move) <= 0
                   ELSE 0 <= Chunk!Shortened(up, along, l.move) /\ Chunk!Shortened(up, along, l.move) <= up
  <2> HIDE DEF along, up
  <2> QED  BY <1>2, <1>3, ShortenedInside
<1>5. place \in Int
  <2> DEFINE short == Chunk!Shortened(along, up, l.move)
  <2>1. short \in Int  BY <1>4
  <2> HIDE DEF short
  <2>2. Chunk!Clipped(short, -l.speed, l.speed) \in Int  BY <1>3, <2>1 DEF Chunk!Clipped, Chunk!Least
  <2> QED  BY <1>2, <2>2 DEF short
<1>6. height \in Int /\ ((from.height <= height /\ height <= to.height) \/ (to.height <= height /\ height <= from.height))
  BY <1>2, <1>4
<1>7. /\ joint \in Int /\ ((from.joint <= joint /\ joint <= to.joint) \/ (to.joint <= joint /\ joint <= from.joint))
      /\ Chunk!Distance(joint, to.joint) = Less(Chunk!Distance(from.joint, to.joint), l.rate)
  <2>1. ASSUME NEW v \in Int, NEW w \in Int, NEW most \in Nat
        PROVE  LET x == Chunk!Toward(v, w, most)
               IN  /\ x \in Int /\ ((v <= x /\ x <= w) \/ (w <= x /\ x <= v))
                   /\ Chunk!Distance(x, w) = Less(Chunk!Distance(v, w), most)
    BY <2>1 DEF Chunk!Toward, Chunk!Clipped, Chunk!Least, Chunk!Distance, Less
  <2> DEFINE v == from.joint
             w == to.joint
             most == l.rate
  <2>2. v \in Int /\ w \in Int /\ most \in Nat  BY <1>2, <1>3
  <2> HIDE DEF v, w, most
  <2>3. LET x == Chunk!Toward(v, w, most)
        IN  /\ x \in Int /\ ((v <= x /\ x <= w) \/ (w <= x /\ x <= v))
            /\ Chunk!Distance(x, w) = Less(Chunk!Distance(v, w), most)
    BY <2>1, <2>2
  <2> QED  BY <2>3 DEF v, w, most
<1>8. yaw \in 0..(Circle - 1) /\ Apart(yaw, to.yaw) = Less(Apart(from.yaw, to.yaw), l.turn)
  BY <1>2, <1>3, TurnApproaches
<1> HIDE DEF place, height, yaw, joint, o
<1>9. /\ o \in ActionValues /\ o.place = place /\ o.height = height /\ o.yaw = yaw /\ o.joint = joint
      /\ o.hand = to.hand /\ o.neck = to.neck
  BY <1>1, <1>5, <1>6, <1>7, <1>8 DEF ActionValues
<1>10. Allowed(from, l) /\ Allowed(to, l) => Allowed(o, l)
  BY <1>2, <1>6, <1>7, <1>9, LimitBounds DEF Allowed, Chunk!Within
<1>11. RootMoves(from, o, to, l)  BY <1>5, <1>6, <1>9, LimitedRoot DEF place, height
<1> QED  BY <1>7, <1>8, <1>9, <1>10, <1>11 DEF o

LEMMA Together ==
  ASSUME NEW a \in ActionValues, NEW b \in ActionValues, Circle \in Nat \ {0}
  PROVE  /\ RootApart(a, b) \in Nat
         /\ Chunk!Distance(a.joint, b.joint) \in Nat /\ Apart(a.yaw, b.yaw) \in Nat
         /\ RootApart(a, b) = 0
              /\ Chunk!Distance(a.joint, b.joint) = 0 /\ Apart(a.yaw, b.yaw) = 0
              /\ a.hand = b.hand /\ a.neck = b.neck => a = b
<1>1. \A v, w \in Int : Chunk!Distance(v, w) \in Nat /\ (Chunk!Distance(v, w) = 0 => v = w)  BY DEF Chunk!Distance
<1>2. \A v, w \in 0..(Circle - 1) : Apart(v, w) \in Nat /\ (Apart(v, w) = 0 => v = w)
  BY TurnApproaches
<1>3. /\ a.place \in Int /\ a.height \in Int /\ a.joint \in Int /\ a.yaw \in 0..(Circle - 1)
      /\ b.place \in Int /\ b.height \in Int /\ b.joint \in Int /\ b.yaw \in 0..(Circle - 1)
  BY DEF ActionValues
<1>4. a.place = b.place /\ a.height = b.height /\ a.joint = b.joint /\ a.yaw = b.yaw /\ a.hand = b.hand /\ a.neck = b.neck
        => a = b
  BY DEF ActionValues
<1>5. RootApart(a, b) \in Nat /\ (RootApart(a, b) = 0 => a.place = b.place /\ a.height = b.height)
  <2> DEFINE along == Chunk!Distance(a.place, b.place)
             up == Chunk!Distance(a.height, b.height)
  <2>1. /\ along \in Nat /\ (along = 0 => a.place = b.place)
        /\ up \in Nat /\ (up = 0 => a.height = b.height)
    BY <1>1, <1>3
  <2>2. RootApart(a, b) = along + up  BY DEF RootApart
  <2> HIDE DEF along, up
  <2> QED  BY <2>1, <2>2
<1> QED  BY <1>1, <1>2, <1>3, <1>4, <1>5

\* From an output within the limits a fixed action is approached through outputs within them
\* (_rate_limit_output).  A joint and the heading go by exactly their rates.  Place and height,
\* which are scaled by one norm, share theirs: together they go no further than move in a sample,
\* the place no further than speed, and neither goes away or too far.  Limits of two units and of
\* one, the unit being that of rounding, keep the root from getting stuck: a unit of its way is gone
\* in every sample, so that the action is reached, and then held.
THEOREM OutputsReachActionsAlways ==
  ASSUME Circle \in Nat \ {0}, NEW l \in Limits, NEW from \in ActionValues, NEW to \in ActionValues,
         Allowed(from, l), Allowed(to, l),
         NEW o, o[0] = from, \A n \in Nat : o[n + 1] = Chunk!RateLimited(o[n], to, l),
         NEW n \in Nat
  PROVE  /\ o[n] \in ActionValues /\ Allowed(o[n], l)
         /\ RootMoves(o[n], o[n + 1], to, l)
         /\ Chunk!Distance(o[n].joint, to.joint) = Left(Chunk!Distance(from.joint, to.joint), l.rate, n)
         /\ Apart(o[n].yaw, to.yaw) = Left(Apart(from.yaw, to.yaw), l.turn, n)
         /\ /\ n # 0 /\ l.move >= 2 /\ l.speed >= 1
            /\ RootApart(from, to) <= n
            /\ Chunk!Distance(from.joint, to.joint) <= n * l.rate
            /\ Apart(from.yaw, to.yaw) <= n * l.turn
            => o[n] = to
<1> DEFINE Quick == l.move >= 2 /\ l.speed >= 1
           Holds(m) ==
             /\ o[m] \in ActionValues /\ Allowed(o[m], l)
             /\ Quick => RootApart(o[m], to) <= Left(RootApart(from, to), 1, m)
             /\ Chunk!Distance(o[m].joint, to.joint) = Left(Chunk!Distance(from.joint, to.joint), l.rate, m)
             /\ Apart(o[m].yaw, to.yaw) = Left(Apart(from.yaw, to.yaw), l.turn, m)
             /\ m # 0 => o[m].hand = to.hand /\ o[m].neck = to.neck
           T == { m \in Nat : Holds(m) }
<1>1. l.move \in Nat /\ l.speed \in Nat /\ l.rate \in Nat /\ l.turn \in Nat  BY DEF Limits
<1>2. RootApart(from, to) \in Nat /\ Chunk!Distance(from.joint, to.joint) \in Nat /\ Apart(from.yaw, to.yaw) \in Nat
  BY Together
<1>3. \A distance, step, m \in Nat :
        /\ Left(distance, step, m) \in Nat /\ Left(distance, step, 0) = distance
        /\ Left(distance, step, m + 1) = Less(Left(distance, step, m), step)
  BY LeftAfterAStep
<1>4. 0 \in T
  <2>1. /\ Left(RootApart(from, to), 1, 0) = RootApart(from, to)
        /\ Left(Chunk!Distance(from.joint, to.joint), l.rate, 0) = Chunk!Distance(from.joint, to.joint)
        /\ Left(Apart(from.yaw, to.yaw), l.turn, 0) = Apart(from.yaw, to.yaw)
    BY <1>1, <1>2, <1>3
  <2>2. Holds(0)  BY <1>2, <2>1
  <2> QED  BY <2>2
<1>5. ASSUME NEW m \in Nat, m \in T PROVE m + 1 \in T
  <2>1. Holds(m)  BY <1>5
  <2>2. o[m + 1] = Chunk!RateLimited(o[m], to, l)  OBVIOUS
  <2> DEFINE w == o[m]
             x == o[m + 1]
  <2>3. w \in ActionValues /\ Allowed(w, l) /\ x = Chunk!RateLimited(w, to, l)  BY <2>1, <2>2
  <2>4. /\ Quick => RootApart(w, to) <= Left(RootApart(from, to), 1, m)
        /\ Chunk!Distance(w.joint, to.joint) = Left(Chunk!Distance(from.joint, to.joint), l.rate, m)
        /\ Apart(w.yaw, to.yaw) = Left(Apart(from.yaw, to.yaw), l.turn, m)
    BY <2>1
  <2> HIDE DEF w, x, Holds
  <2>5. /\ x \in ActionValues /\ x.hand = to.hand /\ x.neck = to.neck /\ Allowed(x, l)
        /\ RootMoves(w, x, to, l)
        /\ Chunk!Distance(x.joint, to.joint) = Less(Chunk!Distance(w.joint, to.joint), l.rate)
        /\ Apart(x.yaw, to.yaw) = Less(Apart(w.yaw, to.yaw), l.turn)
    BY <2>3, LimitedOutput
  <2>6. Quick => RootApart(x, to) <= Left(RootApart(from, to), 1, m + 1)
    <3>1. /\ Chunk!Distance(w.place, x.place) \in Nat /\ Chunk!Distance(w.height, x.height) \in Nat
          /\ Chunk!Distance(w.place, to.place) \in Nat /\ Chunk!Distance(w.height, to.height) \in Nat
          /\ Chunk!Distance(x.place, to.place) \in Nat /\ Chunk!Distance(x.height, to.height) \in Nat
      BY <2>3, <2>5 DEF ActionValues, Chunk!Distance
    <3>2. Quick => RootApart(x, to) <= RootApart(w, to) - 1 \/ RootApart(x, to) = 0
      BY <2>5, <3>1 DEF RootMoves, RootApart
    <3>3. RootApart(w, to) \in Nat /\ RootApart(x, to) \in Nat  BY <3>1 DEF RootApart
    <3>4. /\ Left(RootApart(from, to), 1, m) \in Nat
          /\ Left(RootApart(from, to), 1, m + 1) = Less(Left(RootApart(from, to), 1, m), 1)
      <4> DEFINE GoesOn(distance, step) ==
                   /\ Left(distance, step, m) \in Nat
                   /\ Left(distance, step, m + 1) = Less(Left(distance, step, m), step)
      <4>1. \A distance, step \in Nat : GoesOn(distance, step)  BY <1>3
      <4> HIDE DEF GoesOn
      <4>2. GoesOn(RootApart(from, to), 1)  BY <1>2, <4>1
      <4> QED  BY <4>2 DEF GoesOn
    <3> QED  BY <2>4, <3>2, <3>3, <3>4 DEF Less
  <2>7. /\ Chunk!Distance(x.joint, to.joint) = Left(Chunk!Distance(from.joint, to.joint), l.rate, m + 1)
        /\ Apart(x.yaw, to.yaw) = Left(Apart(from.yaw, to.yaw), l.turn, m + 1)
    <3> DEFINE GoesOn(distance, step) == Left(distance, step, m + 1) = Less(Left(distance, step, m), step)
    <3>1. \A distance, step \in Nat : GoesOn(distance, step)  BY <1>3
    <3> HIDE DEF GoesOn
    <3>2. GoesOn(Chunk!Distance(from.joint, to.joint), l.rate) /\ GoesOn(Apart(from.yaw, to.yaw), l.turn)
      BY <1>1, <1>2, <3>1
    <3> QED  BY <2>4, <2>5, <3>2 DEF GoesOn
  <2>8. Holds(m + 1)  BY <2>5, <2>6, <2>7 DEF Holds, x
  <2> QED  BY <2>8
<1>6. Holds(n)
  <2> HIDE DEF T
  <2>1. \A m \in Nat : 0 <= m => m \in T  BY <1>4, <1>5, ReachesAll
  <2> QED  BY <2>1 DEF T
<1>7. RootMoves(o[n], o[n + 1], to, l)
  <2>1. o[n] \in ActionValues /\ o[n + 1] = Chunk!RateLimited(o[n], to, l)  BY <1>6
  <2> DEFINE w == o[n]
             x == o[n + 1]
  <2>2. w \in ActionValues /\ x = Chunk!RateLimited(w, to, l)  BY <2>1
  <2> HIDE DEF w, x
  <2>3. RootMoves(w, x, to, l)  BY <2>2, LimitedOutput
  <2> QED  BY <2>3 DEF w, x
<1>8. ASSUME n # 0, Quick, RootApart(from, to) <= n,
             Chunk!Distance(from.joint, to.joint) <= n * l.rate, Apart(from.yaw, to.yaw) <= n * l.turn
      PROVE  o[n] = to
  <2>1. /\ Left(RootApart(from, to), 1, n) = 0
        /\ Left(Chunk!Distance(from.joint, to.joint), l.rate, n) = 0
        /\ Left(Apart(from.yaw, to.yaw), l.turn, n) = 0
    BY <1>2, <1>8 DEF Left
  <2>2. RootApart(o[n], to) \in Nat /\ RootApart(o[n], to) <= 0  BY <1>6, <1>8, <2>1, Together
  <2> QED  BY <1>6, <1>8, <2>1, <2>2, Together
<1> HIDE DEF T
<1> QED  BY <1>6, <1>7, <1>8
=============================================================================
