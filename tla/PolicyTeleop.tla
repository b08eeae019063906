---------------------------- MODULE PolicyTeleop ----------------------------
(***************************************************************************)
(* POLICY mode: the robot control worker configured for a high-level       *)
(* policy, and HighLevelPolicyWorker, the client that asks a host for      *)
(* chunks of actions.  The robot opens a session, publishes observations   *)
(* made from camera frames and follows the chunks that come back; the two  *)
(* exchange session commands, observations, statuses and actions over      *)
(* latest-only topics, and a supervisor reports dead input workers.        *)
(*                                                                         *)
(* Time is told apart where the code compares it: an observation carries   *)
(* the number of resume requests made before its camera frame was taken.   *)
(* Deadlines pass, chunks run out and repeats fall due at any time.        *)
(***************************************************************************)
EXTENDS LatestChannel

CONSTANTS
  Sessions,  \* bound on the policy sessions ever started
  Resumes    \* bound on the resume requests ever made

ASSUME PolicyAssumption == Sessions \in Nat /\ Resumes \in Nat

VARIABLES
  \* the robot control worker
  phase,        \* where its loop is: "drain", "control", "deadline", "step"
  mode,         \* RobotMode
  driven,       \* the worker, and not the onboard controller, commands the motors
  latched,      \* the emergency stop has latched
  session,      \* _policy_session_id, 0 for None
  sessions,     \* sessions started so far
  pending,      \* _policy_entry_pending
  paused,       \* _policy_paused, and the scheduler's
  resuming,     \* _policy_resume_pending
  resumes,      \* resume requests so far: the clock of the stamps
  chunk,        \* the chunk of the scheduler
  \* topics
  commands, observations, statuses, actions,
  \* the client and the input workers
  tick,         \* what the client does next
  active,       \* _active_session, 0 for None
  ready,        \* the host session is reset
  clientPaused, \* _paused
  renew,        \* _new_session_required
  request,      \* the observation the host is asked about
  dead          \* an input worker has exited: the camera or the client

entry == <<session, sessions, pending>>
pause == <<paused, resuming, resumes>>
robot == <<phase, mode, driven, latched, entry, pause, chunk>>
client == <<tick, active, ready, clientPaused, renew, request>>
topics == <<commands, observations, statuses, actions>>
vars == <<robot, client, topics, dead>>

-----------------------------------------------------------------------------
Modes == {"idle", "standing", "policy", "damping"}
DebugModes == {"standing", "policy"}
SessionIds == 0..Sessions
Stamps == 0..Resumes

SessionPackets == [session : SessionIds, command : {"start", "pause", "resume", "stop"}]
Observations == [session : SessionIds, stamp : Stamps]
StatusPackets == [session : SessionIds, status : {"news", "unavailable", "fault"}]
Actions == Observations   \* an action chunk names the observation it answers
NoChunk == <<>>

PolicyTypeOK ==
  /\ phase \in {"drain", "control", "deadline", "step", "stopped"}
  /\ mode \in Modes
  /\ driven \in BOOLEAN /\ latched \in BOOLEAN
  /\ session \in SessionIds /\ sessions \in SessionIds
  /\ pending \in BOOLEAN /\ paused \in BOOLEAN /\ resuming \in BOOLEAN
  /\ resumes \in Stamps
  /\ chunk \in ReceivedFrom(Observations)
  /\ commands \in Channel(SessionPackets)
  /\ observations \in Channel(Observations)
  /\ statuses \in Channel(StatusPackets)
  /\ actions \in Channel(Actions)
  /\ tick \in {"session", "connect", "observe", "ask", "dead"}
  /\ active \in SessionIds
  /\ ready \in BOOLEAN /\ clientPaused \in BOOLEAN /\ renew \in BOOLEAN
  /\ request \in ReceivedFrom(Observations)
  /\ dead \in BOOLEAN

Init ==
  /\ phase = "drain" /\ mode = "idle" /\ driven = FALSE /\ latched = FALSE
  /\ session = 0 /\ sessions = 0 /\ pending = FALSE
  /\ paused = FALSE /\ resuming = FALSE /\ resumes = 0
  /\ chunk = NoChunk
  /\ commands = <<>> /\ observations = <<>> /\ statuses = <<>>
  /\ actions = <<>>
  /\ tick = "session" /\ active = 0 /\ ready = FALSE /\ clientPaused = FALSE
  /\ renew = FALSE /\ request = <<>> /\ dead = FALSE

-----------------------------------------------------------------------------
(* What the robot's handlers share.                                        *)

\* _publish_high_level_policy_session.
Send(s, c) ==
  commands' = IF s = 0 THEN commands ELSE Published(commands, [session |-> s, command |-> c])

\* Mutant of Repeat: a command is published once.
RepeatNever(c) == UNCHANGED commands

\* With repeat=True, if 0.2 s have gone by since the last one.
Repeat(c) == Send(session, c) \/ UNCHANGED commands

\* _stop_high_level_policy_session.
StopSession ==
  /\ Send(session, "stop")
  /\ session' = 0 /\ chunk' = NoChunk
  /\ pending' = FALSE
  /\ paused' = FALSE /\ resuming' = FALSE
  /\ UNCHANGED <<sessions, resumes>>

\* Mutant of LeaveSession: the session of a pending entry is kept.
LeaveRunningSession ==
  IF mode = "policy"
    THEN StopSession
    ELSE /\ pending' = FALSE
         /\ UNCHANGED <<session, sessions, pause, chunk, commands>>

LeaveSession ==
  IF mode = "policy" \/ pending
    THEN StopSession
    ELSE UNCHANGED <<entry, pause, chunk, commands>>

\* _enter_standing: taking the motors over may fail, coming from a debug mode cannot.
EnterStanding ==
  /\ LeaveSession
  /\ \/ mode \in DebugModes /\ mode' = "standing" /\ UNCHANGED driven
     \/ mode \notin DebugModes /\ mode' = "standing" /\ driven' = TRUE
     \/ mode \notin DebugModes /\ UNCHANGED <<mode, driven>>
  /\ UNCHANGED latched

\* Mutant of EnterDamping: only STANDING hands the motors back.
EnterDampingFromStanding ==
  /\ LeaveSession
  /\ mode' = "damping" /\ latched' = TRUE
  /\ driven' = (driven /\ mode # "standing")

\* _enter_damping.
EnterDamping ==
  /\ LeaveSession
  /\ mode' = "damping" /\ driven' = FALSE /\ latched' = TRUE

PausePolicy ==
  /\ paused' = TRUE /\ resuming' = FALSE
  /\ Send(session, "pause")
  /\ UNCHANGED <<mode, driven, latched, session, sessions, pending, resumes, chunk>>

Indifferent == UNCHANGED <<mode, driven, latched, entry, pause, chunk, commands>>

\* Mutant of HandleFault: a fault that finds the policy paused is ignored.
HandleFaultUnlessPaused ==
  \/ mode = "policy" /\ ~paused /\ PausePolicy
  \/ mode # "policy" /\ pending /\ EnterStanding
  \/ (IF mode = "policy" THEN paused ELSE ~pending) /\ Indifferent

\* _handle_high_level_policy_fault: pause POLICY, or give the entry up.
HandleFault ==
  \/ mode = "policy" /\ (~paused \/ resuming) /\ PausePolicy
  \/ mode # "policy" /\ pending /\ EnterStanding
  \/ (IF mode = "policy" THEN paused /\ ~resuming ELSE ~pending) /\ Indifferent

-----------------------------------------------------------------------------
(* "drain": _drain_ipc and _drain_high_level_policy_ipc.                   *)

DrainStep ==
  /\ phase = "drain" /\ phase' = "control"
  /\ UNCHANGED <<observations, client, dead>>

\* The fault command that the supervisor sends every 0.2 s once an input worker has
\* exited (HighLevelPolicySim2RealRuntime.run): nothing else is read with it.
DrainAlarm ==
  /\ DrainStep /\ dead
  /\ HandleFault
  /\ UNCHANGED <<statuses, actions>>

Terminal(received) ==
  /\ received # <<>> /\ received[1].session = session
  /\ \/ received[1].status = "fault"
     \/ (received[1].status = "unavailable" /\ mode = "policy")

\* A terminal status; the action topic is left unread.
DrainFault ==
  /\ DrainStep
  /\ Terminal(Received(statuses)) /\ statuses' = <<>>
  /\ HandleFault
  /\ UNCHANGED actions

\* Mutant of Relevant: the session of the actions is not compared.
RelevantToAny(a) == paused => resuming

\* Actions of another session, and those under way when POLICY was paused, are dropped.
Relevant(a) == a.session = session /\ (paused => resuming)

\* Mutant of Usable: a chunk from before the resume request ends the pause.
UsableAnyTime(a) == TRUE

\* The stamp of the resume request, and the order HighLevelPolicyScheduler.accept
\* wants; what else it wants of the values is any chunk's to fail.
Usable(a) ==
  /\ resuming => a.stamp >= resumes
  /\ chunk # NoChunk => a.stamp >= chunk[1].stamp

\* _transition_to_high_level_policy, and the end of a resume.
FollowChunk(a) ==
  /\ chunk' = <<a>>
  /\ mode' = "policy" /\ pending' = FALSE
  /\ paused' = FALSE /\ resuming' = FALSE
  /\ UNCHANGED <<driven, latched, session, sessions, resumes, commands>>

\* The deadline of the entry or of the resume has passed, the chunk is stale on
\* arrival, it is not usable, or it is followed.
ReceiveAction(a) ==
  \/ ~Relevant(a) /\ Indifferent
  \/ Relevant(a) /\ pending /\ EnterStanding
  \/ Relevant(a) /\ resuming /\ HandleFault
  \/ Relevant(a) /\ ~pending /\ Indifferent
  \/ Relevant(a) /\ Usable(a) /\ FollowChunk(a)

DrainActions ==
  /\ DrainStep
  /\ ~Terminal(Received(statuses)) /\ statuses' = <<>>
  /\ actions' = <<>>
  /\ IF actions = <<>> THEN Indifferent ELSE ReceiveAction(Received(actions)[1])

-----------------------------------------------------------------------------
(* "control": L1+R1, then _handle_high_level_policy_transitions.           *)

ControlStep ==
  /\ phase = "control"
  /\ UNCHANGED <<observations, statuses, actions, client, dead>>

Transition == ControlStep /\ phase' = "step"

EmergencyStop ==
  /\ ControlStep /\ phase' = "drain"
  /\ IF mode # "damping" THEN EnterDamping ELSE Indifferent

StartPressed ==
  /\ Transition /\ mode \in {"idle", "damping"}
  /\ EnterStanding

XPressed ==
  /\ Transition /\ (mode = "policy" \/ pending)
  /\ EnterStanding

\* _start_high_level_policy_entry_session; only newer camera frames will do.
YPressed ==
  /\ Transition /\ mode = "standing" /\ ~pending
  /\ sessions < Sessions
  /\ sessions' = sessions + 1 /\ session' = sessions'
  /\ commands' = Published(commands, [session |-> session', command |-> "start"])
  /\ pending' = TRUE
  /\ paused' = FALSE /\ resuming' = FALSE
  /\ chunk' = NoChunk
  /\ UNCHANGED <<mode, driven, latched, resumes>>

\* A pending entry: "start" is repeated, then the deadline is looked at.
EntryWaits ==
  /\ ControlStep /\ phase' = "deadline"
  /\ mode = "standing" /\ pending
  /\ Repeat("start")
  /\ UNCHANGED <<mode, driven, latched, entry, pause, chunk>>

Deadline ==
  /\ phase = "deadline" /\ phase' = "step"
  /\ EnterStanding \/ Indifferent
  /\ UNCHANGED <<observations, statuses, actions, client, dead>>

\* _toggle_high_level_policy_pause.
BPressed ==
  /\ Transition /\ mode = "policy"
  /\ \/ ~paused /\ PausePolicy
     \/ /\ paused /\ ~resuming
        /\ resumes < Resumes /\ resumes' = resumes + 1
        /\ resuming' = TRUE
        /\ Send(session, "resume")
        /\ UNCHANGED <<mode, driven, latched, session, sessions, pending, paused, chunk>>
     \/ paused /\ resuming /\ Indifferent

NoTransition ==
  /\ Transition
  /\ \/ /\ mode \in {"idle", "damping"} \/ (mode = "standing" /\ ~pending)
        /\ Indifferent
     \/ /\ mode = "policy"
        /\ Repeat(IF resuming \/ ~paused THEN "resume" ELSE "pause")
        /\ UNCHANGED <<mode, driven, latched, entry, pause, chunk>>

Control ==
  \/ EmergencyStop \/ StartPressed \/ XPressed \/ YPressed \/ BPressed
  \/ EntryWaits \/ Deadline \/ NoTransition

-----------------------------------------------------------------------------
(* "step": one policy step of the mode.                                    *)

PolicyStep ==
  /\ phase = "step" /\ phase' = "drain"
  /\ UNCHANGED <<statuses, actions, client, dead>>

\* _publish_high_level_policy_observation: a frame not used before and recent
\* enough, hands and neck that report their state, a session that is not paused.
PublishObservation ==
  \/ UNCHANGED observations
  \/ /\ pending \/ mode = "policy"
     /\ paused => resuming
     /\ \E stamp \in 0..resumes :
          observations' = Published(observations, [session |-> session, stamp |-> stamp])

IdleStep == PolicyStep /\ mode \notin DebugModes /\ Indifferent /\ UNCHANGED observations

StandingStep == PolicyStep /\ mode = "standing" /\ PublishObservation /\ Indifferent

\* _high_level_policy_step: follow the chunk, or hold the last pose.
FollowStep ==
  /\ PolicyStep /\ mode = "policy" /\ ~paused
  /\ PublishObservation
  /\ Indifferent \/ HandleFault   \* the chunk has run out

ResumeStep ==
  /\ PolicyStep /\ mode = "policy" /\ paused /\ resuming
  /\ PublishObservation
  /\ Indifferent \/ HandleFault   \* the deadline has passed

HoldStep ==
  /\ PolicyStep /\ mode = "policy" /\ paused /\ ~resuming
  /\ Indifferent /\ UNCHANGED observations

\* shutdown(), on the stop event or after an exception.
Shutdown ==
  /\ phase # "stopped" /\ phase' = "stopped"
  /\ IF session # 0 THEN StopSession ELSE UNCHANGED <<entry, pause, chunk, commands>>
  /\ driven' = FALSE
  /\ UNCHANGED <<mode, latched, observations, statuses, actions, client, dead>>

Robot ==
  \/ DrainAlarm \/ DrainFault \/ DrainActions
  \/ Control
  \/ IdleStep \/ StandingStep \/ FollowStep \/ ResumeStep \/ HoldStep

-----------------------------------------------------------------------------
(* HighLevelPolicyWorker.run: a session command, the connection, one request. *)

ClientStep(from, to) ==
  /\ tick = from /\ tick' = to /\ phase # "stopped"
  /\ UNCHANGED <<robot, dead>>

Tell(s, status) == statuses' = Published(statuses, [session |-> s, status |-> status])

\* _handle_session.
StartSession(p) ==
  /\ p.command = "start" /\ p.session # active
  /\ active' = p.session
  /\ ready' = FALSE /\ clientPaused' = FALSE /\ renew' = FALSE
  /\ Tell(p.session, "news")

PauseRequests(p) ==
  /\ p.command = "pause" /\ p.session = active /\ ~clientPaused
  /\ clientPaused' = TRUE
  /\ Tell(active, "news")
  /\ UNCHANGED <<active, ready, renew>>

\* Mutant of ResumeRequests: a session the host has lost is not asked for again.
ResumeWithoutRenewal(p) ==
  /\ p.command = "resume" /\ p.session = active /\ clientPaused
  /\ clientPaused' = FALSE
  /\ Tell(active, "news")
  /\ UNCHANGED <<active, ready, renew>>

ResumeRequests(p) ==
  /\ p.command = "resume" /\ p.session = active /\ clientPaused
  /\ clientPaused' = FALSE /\ renew' = (renew /\ ready)
  /\ Tell(active, "news")
  /\ UNCHANGED <<active, ready>>

EndSession(p) ==
  /\ p.command = "stop" /\ p.session = active
  /\ active' = 0 /\ ready' = FALSE /\ clientPaused' = FALSE
  /\ Tell(active, "news")
  /\ UNCHANGED renew

\* A repeated "start" and whatever is meant for another session or done already.
Ignore(p) ==
  /\ IF p.command = "start"
       THEN p.session = active
       ELSE \/ p.session # active
            \/ p.command = "pause" /\ clientPaused
            \/ p.command = "resume" /\ ~clientPaused
  /\ UNCHANGED <<active, ready, clientPaused, renew, statuses>>

ReadSession ==
  /\ ClientStep("session", "connect")
  /\ commands' = <<>>
  /\ IF commands = <<>>
       THEN UNCHANGED <<active, ready, clientPaused, renew, statuses>>
       ELSE LET p == Received(commands)[1] IN
            \/ StartSession(p) \/ PauseRequests(p) \/ ResumeRequests(p) \/ EndSession(p)
            \/ Ignore(p)
  /\ UNCHANGED <<request, observations, actions>>

\* _connect_if_due: describe and reset the host session, if the backoff is over.
ConnectIfDue ==
  /\ ClientStep("connect", "observe")
  /\ \/ UNCHANGED <<ready, statuses>>
     \/ /\ active # 0 /\ ~ready /\ ~renew
        /\ \/ ready' = TRUE /\ Tell(active, "news")
           \/ ready' = FALSE /\ Tell(active, "unavailable")
  /\ UNCHANGED <<active, clientPaused, renew, request, commands, observations, actions>>

Wanted(o) == o.session = active /\ active # 0 /\ ready /\ ~clientPaused

\* _handle_observation: ask the host, unless the observation is too old or too soon.
ReadObservation ==
  /\ observations' = <<>>
  /\ \/ ClientStep("observe", "session") /\ UNCHANGED request
     \/ /\ observations # <<>> /\ Wanted(Received(observations)[1])
        /\ ClientStep("observe", "ask")
        /\ request' = Received(observations)
  /\ UNCHANGED <<active, ready, clientPaused, renew, commands, statuses, actions>>

PublishAction ==
  /\ ClientStep("ask", "session")
  /\ actions' = Published(actions, request[1])
  /\ request' = <<>>
  /\ UNCHANGED <<active, ready, clientPaused, renew, commands, observations, statuses>>

\* The request times out or is refused, or the answer is not to be trusted.
RequestFails ==
  /\ ClientStep("ask", "session")
  /\ ready' = FALSE /\ clientPaused' = TRUE /\ renew' = TRUE
  /\ Tell(active, "fault")
  /\ request' = <<>>
  /\ UNCHANGED <<active, commands, observations, actions>>

Client == ReadSession \/ ConnectIfDue \/ ReadObservation \/ PublishAction \/ RequestFails

-----------------------------------------------------------------------------
(* The input workers.                                                      *)

InputExits ==
  /\ ~dead /\ dead' = TRUE /\ phase # "stopped"
  /\ tick' \in {tick, "dead"}
  /\ UNCHANGED <<robot, active, ready, clientPaused, renew, request, topics>>

Next == Robot \/ Shutdown \/ Client \/ InputExits

Spec == Init /\ [][Next]_vars

\* Both loops go on: every call of theirs returns or times out.  Time goes by, so
\* that repeats fall due and the report of a dead worker gets through.
FairSpec ==
  /\ Spec
  /\ WF_vars(Robot) /\ WF_vars(Client)
  /\ SF_vars(DrainAlarm)
  /\ SF_vars(NoTransition /\ commands' # commands)

-----------------------------------------------------------------------------
\* A session is open exactly while an entry is pending or POLICY runs: no path out
\* (X, a fault, a timeout, a stale or unsound first chunk, L1+R1) leaves one behind
\* that would accept actions, and none loses the session POLICY depends on.
SessionMatchesMode == phase # "stopped" => (session # 0 <=> pending \/ mode = "policy")

\* The robot follows, and holds for a resume, only a chunk its own session asked
\* for: what an earlier session left under way never reaches the policy.
FollowsOwnSession ==
  /\ chunk # NoChunk => session # 0 /\ chunk[1].session = session
  /\ phase # "stopped" /\ mode = "policy" => chunk # NoChunk

\* A client that has lost its host session is never left asking without one: it is
\* paused until a resume or a new session makes it connect again.
LostHostIsRenewed == active # 0 /\ renew => clientPaused

\* A pause ends only with a chunk computed from a frame taken after the operator
\* asked to resume: requests that were under way at the pause, however they were
\* delayed or reordered with faults and second presses, never move the robot.
ResumesOnFreshChunk ==
  [][mode = "policy" /\ paused /\ ~paused' /\ mode' = "policy" /\ phase' # "stopped"
       => resuming /\ chunk' # NoChunk /\ chunk'[1].stamp = resumes]_vars

\* POLICY keeps the promises a mocap session keeps.
TeleopPromise == INSTANCE TeleopModes
  WITH mode <- IF mode = "policy" THEN "mocap" ELSE mode,
       lock <- IF latched THEN "locked" ELSE "free"
ImplementsTeleopModes == TeleopPromise!Spec

\* A paused robot stops the requests of its client although "pause" can be lost,
\* and although the client's own fault races the repeated "resume".
PauseReachesClient ==
  []<>((paused /\ ~resuming /\ tick # "dead" /\ phase # "stopped") => clientPaused)

\* With an input worker dead the robot does not go on following, nor waiting to.
DeadInputPausesPolicy ==
  (dead /\ mode = "policy")
    ~> (mode # "policy" \/ (paused /\ ~resuming) \/ phase = "stopped")
=============================================================================
