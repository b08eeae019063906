------------------------- MODULE PicoTeleop_proofs -------------------------
(***************************************************************************)
(* The two processes of Pico teleoperation: connecting the topics takes    *)
(* nothing away from what RobotControl_proofs shows of the robot alone.    *)
(***************************************************************************)
EXTENDS PicoTeleop, RobotControl_proofs

LEMMA PublicationType ==
  ASSUME TypeOK, PicoTypeOK, NEW valid \in BOOLEAN
  PROVE  Publication(valid) \in Channel(Packets)
<1>1. [valid |-> valid, afterArm |-> armed, paused |-> FALSE] \in Packets
  BY DEF Packets, TypeOK
<1> QED  BY <1>1, ChannelProperties DEF Publication, PicoTypeOK

LEMMA PicoTypeInit == PicoInit => PicoTypeOK
<1> SUFFICES ASSUME PicoInit PROVE PicoTypeOK  OBVIOUS
<1>1. warm \in 0..Warmup  BY PicoAssumption DEF PicoInit
<1>2. references \in Channel(Packets)  BY ChannelProperties DEF PicoInit
<1> QED  BY <1>1, <1>2 DEF PicoInit, PicoTypeOK

\* The reference worker keeps its own state and its topic well typed.
LEMMA WorkerType == ASSUME TypeOK, PicoTypeOK, PicoWorker, crossed' \in BOOLEAN PROVE PicoTypeOK'
<1> USE PicoAssumption DEF PicoTypeOK
<1>1. CASE LoseCommand  BY <1>1 DEF LoseCommand, workerState
<1>2. CASE Subscribe  BY <1>2 DEF Subscribe
<1>3. CASE ReadCommand
  <2>1. workerArmed' \in BOOLEAN /\ memory' \in {"clean", "this", "earlier"} /\ warm' \in 0..Warmup
    <3>1. Obey(Received(commands))  BY <1>3 DEF ReadCommand
    <3>2. (Received(commands) = <<"arm">>) \in BOOLEAN  OBVIOUS
    <3>3. CASE Received(commands) = <<"disarm">> \/ (Received(commands) = <<"arm">> /\ ~workerArmed)
      <4>1. workerArmed' = (Received(commands) = <<"arm">>) /\ Reset  BY <3>1, <3>3, Zenon DEF Obey
      <4>2. workerArmed' \in BOOLEAN  BY <4>1, <3>2, Zenon
      <4> QED  BY <4>1, <4>2 DEF Reset
    <3>4. CASE ~(Received(commands) = <<"disarm">> \/ (Received(commands) = <<"arm">> /\ ~workerArmed))
      BY <3>1, <3>4, Zenon DEF Obey
    <3> QED  BY <3>3, <3>4
  <2> QED  BY <1>3, <2>1 DEF ReadCommand
<1>4. CASE NoFrame  BY <1>4 DEF NoFrame, TreatFrame
<1>5. CASE InvalidFrame  BY <1>5, PublicationType DEF InvalidFrame, TreatFrame
<1>6. CASE ValidFrame
  <2>1. memory' \in {"clean", "this", "earlier"} /\ warm' \in 0..Warmup
    BY <1>6 DEF ValidFrame, Retarget
  <2>2. references' \in Channel(Packets)  BY <1>6, PublicationType DEF ValidFrame
  <2> QED  BY <1>6, <2>1, <2>2 DEF ValidFrame, TreatFrame
<1>7. CASE RetargetFails  BY <1>7 DEF RetargetFails, TreatFrame, Retarget
<1>8. CASE StopRetargeting  BY <1>8 DEF StopRetargeting
<1> QED
  BY <1>1, <1>2, <1>3, <1>4, <1>5, <1>6, <1>7, <1>8 DEF PicoWorker

\* Packets that a new arm request outdates stay packets.
LEMMA OutdatedType ==
  ASSUME NEW ch \in Channel(Packets)
  PROVE  [i \in DOMAIN ch |-> [ch[i] EXCEPT !.afterArm = FALSE]] \in Channel(Packets)
<1> DEFINE out == [i \in DOMAIN ch |-> [ch[i] EXCEPT !.afterArm = FALSE]]
<1>1. ch \in Seq(Packets) /\ Len(ch) <= Capacity  BY DEF Channel
<1>2. DOMAIN ch = 1..Len(ch) /\ Len(ch) \in Nat  BY <1>1
<1>3. \A i \in 1..Len(ch) : ch[i] \in Packets  BY <1>1
<1>4. \A p \in Packets : [p EXCEPT !.afterArm = FALSE] \in Packets  BY DEF Packets
<1>5. out \in Seq(Packets) /\ Len(out) = Len(ch)
  BY <1>2, <1>3, <1>4
<1> QED  BY <1>1, <1>5 DEF Channel

LEMMA RobotType == ASSUME PicoTypeOK, PicoRobot, crossed' \in BOOLEAN PROVE PicoTypeOK'
<1> USE DEF PicoTypeOK
<1>1. CASE \E age \in 0..2 : RobotDrains(age)
  BY <1>1, ChannelProperties DEF RobotDrains, workerState
<1>2. CASE RobotReads
  <2>1. references' \in Channel(Packets)  BY <1>2, OutdatedType DEF RobotReads
  <2>2. memory' \in {"clean", "this", "earlier"}  BY <1>2 DEF RobotReads
  <2> QED  BY <1>2, <2>1, <2>2 DEF RobotReads
<1>3. CASE RobotPublishes \/ RobotActs
  BY <1>3 DEF RobotPublishes, RobotActs, workerState
<1> QED  BY <1>1, <1>2, <1>3 DEF PicoRobot

LEMMA PicoTypeStep ==
  ASSUME TypeOK, PicoTypeOK, [PicoNext]_<<picoVars, crossed>> PROVE PicoTypeOK'
<1>1. crossed' \in BOOLEAN  BY DEF PicoNext, Crosses, Settles, PicoTypeOK
<1>2. CASE RobotEnds \/ TrackingChanges \/ UNCHANGED picoVars
  BY <1>1, <1>2 DEF RobotEnds, TrackingChanges, picoVars, workerState, PicoTypeOK
<1>3. CASE PicoRobot  BY <1>1, <1>3, RobotType
<1>4. CASE PicoWorker  BY <1>1, <1>4, WorkerType
<1> QED  BY <1>2, <1>3, <1>4 DEF PicoNext

\* Every step of the composition is a step of the robot worker, or none.
LEMMA StepOfRobot == ASSUME PicoTypeOK, [PicoNext]_<<picoVars, crossed>> PROVE [Next]_vars
<1>1. CASE PicoWorker
  BY <1>1 DEF PicoWorker, LoseCommand, Subscribe, ReadCommand, NoFrame, InvalidFrame, ValidFrame,
              RetargetFails, StopRetargeting, TreatFrame, Next
<1>2. CASE \E age \in 0..2 : RobotDrains(age)
  <2>1. Received(references) \in ReceivedFrom(Packets)  BY ChannelProperties DEF PicoTypeOK
  <2>2. PICK age \in 0..2, evs \in ReceivedFrom(EventTuples) :
          Drain(Received(references), evs, age)
    BY <1>2 DEF RobotDrains
  <2> QED  BY <2>1, <2>2 DEF Next, Loop, ReadIpc
<1>3. CASE RobotReads \/ RobotPublishes \/ RobotActs \/ RobotEnds
  BY <1>3 DEF RobotReads, RobotPublishes, RobotActs, RobotEnds, Next, Loop
<1>4. CASE TrackingChanges \/ UNCHANGED picoVars  BY <1>4 DEF TrackingChanges, picoVars
<1> QED  BY <1>1, <1>2, <1>3, <1>4 DEF PicoNext, PicoRobot

\* The composition implements the robot worker, so every theorem of
\* RobotControl_proofs holds of a robot that follows a Pico operator.
THEOREM PicoTeleopIsRobotControl == PicoSpec => Spec /\ [](TypeOK /\ PicoTypeOK)
<1>1. TypeOK /\ PicoTypeOK /\ [PicoNext]_<<picoVars, crossed>> => TypeOK' /\ PicoTypeOK' /\ [Next]_vars
  BY PicoTypeStep, StepOfRobot, TypeStep
<1>2. PicoInit => Init /\ TypeOK /\ PicoTypeOK
  BY PicoTypeInit, TypeInit DEF PicoInit
<1> QED  BY <1>1, <1>2, PTL DEF PicoSpec, Spec

\* The retargeting worker and its topics keep their types.
THEOREM PicoTypeCorrect == PicoSpec => []PicoTypeOK
BY PicoTeleopIsRobotControl, PTL

-----------------------------------------------------------------------------
(* A session owns the retargeter.  As long as no request crosses a command, the DISARM  *)
(* of the last session has been read before the ARM of the next is sent, so that the    *)
(* worker resets at every ARM.                                                          *)

\* Unless they cross, an armed robot has no DISARM under way, an idle one nothing else,
\* and a worker that is armed without its robot is about to be told.
CommandsInv ==
  ~crossed /\ tick # "stopped" =>
    /\ armed => \A i \in DOMAIN commands : commands[i] # "disarm"
    /\ ~armed => commands \in {<<>>, <<"disarm">>}
    /\ ~armed /\ workerArmed => commands = <<"disarm">>

\* The robot has, or will get, a reference that lets it start the session it asked for.
Sent(i) == references[i].valid /\ references[i].afterArm
Promised == (reference.known /\ reference.valid) \/ \E i \in DOMAIN references : Sent(i)

\* An idle worker remembers nothing.  Unless commands cross, a running one remembers
\* nothing of an earlier request, and what the robot may start on was made with memory
\* of this one.
MemoryInv ==
  /\ tick = "starting" => ~workerArmed
  /\ ~workerArmed => memory = "clean"
  /\ ~crossed /\ memory = "earlier" => tick = "stopped"
  /\ ~crossed /\ armed /\ Promised => workerArmed /\ memory = "this"

OwnInv == CommandsInv /\ MemoryInv /\ SessionOwnsRetargeter

LEMMA OwnInit == PicoInit => OwnInv
<1> SUFFICES ASSUME PicoInit PROVE OwnInv  OBVIOUS
<1>1. CommandsInv  BY DEF PicoInit, Init, CommandsInv
<1>2. MemoryInv  BY DEF PicoInit, Init, MemoryInv
<1>3. SessionOwnsRetargeter  BY DEF PicoInit, Init, SessionOwnsRetargeter, MocapModes
<1> QED  BY <1>1, <1>2, <1>3 DEF OwnInv

\* A session that runs has the gate armed.
LEMMA SessionArmed == ASSUME Safe, mode \in MocapModes PROVE armed
BY PicoAssumption DEF Safe, MocapRunsOnPostArmReference

\* What a publication adds to the topic is the packet itself or nothing.
LEMMA PublishedPackets ==
  ASSUME TypeOK, PicoTypeOK, NEW valid \in BOOLEAN, references' = Publication(valid)
  PROVE  \A i \in DOMAIN references' :
           \/ i \in DOMAIN references /\ references'[i] = references[i]
           \/ references'[i].valid = valid
<1> DEFINE p == [valid |-> valid, afterArm |-> armed, paused |-> FALSE]
<1>1. references \in Seq(Packets) /\ p \in Packets  BY DEF PicoTypeOK, Channel, Packets, TypeOK
<1>2. CASE Len(references) < Capacity
  <2>1. references' = Append(references, p)  BY <1>2 DEF Publication, Published
  <2>2. Len(references') = Len(references) + 1 /\ DOMAIN references' = 1..Len(references')
    BY <1>1, <2>1
  <2>3. \A i \in 1..Len(references) : references'[i] = references[i]  BY <1>1, <2>1
  <2>4. references'[Len(references) + 1] = p  BY <1>1, <2>1
  <2>5. DOMAIN references = 1..Len(references) /\ Len(references) \in Nat  BY <1>1
  <2> QED  BY <2>2, <2>3, <2>4, <2>5
<1>3. CASE ~(Len(references) < Capacity)  BY <1>3 DEF Publication, Published
<1> QED  BY <1>2, <1>3

\* Whatever crosses, a worker that starts is idle, and one that is idle remembers nothing.
LEMMA IdleIsClean ==
  ASSUME PicoWorker, tick = "starting" => ~workerArmed, ~workerArmed => memory = "clean"
  PROVE  (tick' = "starting" => ~workerArmed') /\ (~workerArmed' => memory' = "clean")
<1>1. CASE ReadCommand
  <2>1. Obey(Received(commands)) /\ tick' = "frame"  BY <1>1 DEF ReadCommand
  <2>2. CASE Received(commands) = <<"disarm">> \/ (Received(commands) = <<"arm">> /\ ~workerArmed)
    BY <2>1, <2>2 DEF Obey, Reset
  <2>3. CASE ~(Received(commands) = <<"disarm">> \/ (Received(commands) = <<"arm">> /\ ~workerArmed))
    BY <2>1, <2>3 DEF Obey
  <2> QED  BY <2>2, <2>3
<1>2. CASE LoseCommand \/ Subscribe \/ NoFrame \/ StopRetargeting
  BY <1>2 DEF LoseCommand, Subscribe, NoFrame, StopRetargeting, TreatFrame, workerState
<1>3. CASE InvalidFrame \/ ValidFrame \/ RetargetFails
  BY <1>3 DEF InvalidFrame, ValidFrame, RetargetFails, TreatFrame
<1> QED  BY <1>1, <1>2, <1>3 DEF PicoWorker

\* Where commands crossed, a step of the worker ends that only when both are idle.
LEMMA SettledOwns ==
  ASSUME Safe, PicoTypeOK, OwnInv, PicoWorker, Settles, crossed
  PROVE  OwnInv'
<1>1. UNCHANGED <<mode, armed, reference, phase>>
  BY DEF PicoWorker, LoseCommand, Subscribe, ReadCommand, NoFrame, InvalidFrame, ValidFrame,
         RetargetFails, StopRetargeting, TreatFrame, CommandsTaken, vars, gate
<1>2. /\ tick' = "starting" => ~workerArmed'
      /\ ~workerArmed' => memory' = "clean"
  BY IdleIsClean DEF OwnInv, MemoryInv
<1>3. CASE armed \/ workerArmed' \/ commands' # <<>>
  <2>1. crossed'  BY <1>3 DEF Settles
  <2> QED  BY <1>2, <2>1 DEF OwnInv, CommandsInv, MemoryInv, SessionOwnsRetargeter
<1>4. CASE ~armed /\ ~workerArmed' /\ commands' = <<>>
  <2>1. mode \notin MocapModes  BY <1>4, SessionArmed
  <2>2. ~armed' /\ mode' \notin MocapModes /\ memory' = "clean"  BY <1>1, <1>2, <1>4, <2>1
  <2> QED  BY <1>2, <1>4, <2>2 DEF OwnInv, CommandsInv, MemoryInv, SessionOwnsRetargeter
<1> QED  BY <1>3, <1>4

LEMMA WorkerOwns ==
  ASSUME TypeOK, Safe, PicoTypeOK, OwnInv, PicoWorker, Settles
  PROVE  OwnInv'
<1> USE DEF OwnInv
<1> SUFFICES ASSUME ~crossed PROVE OwnInv'  BY SettledOwns
<1>0. ~crossed'  BY DEF Settles
<1>1. CASE LoseCommand \/ Subscribe \/ NoFrame \/ StopRetargeting
  <2>1. /\ UNCHANGED <<mode, armed, reference, phase, references, workerArmed, memory>>
        /\ commands' \in {commands, <<>>} /\ (commands' # commands => tick = "starting")
        /\ tick' = "starting" => tick = "starting"
        /\ tick = "stopped" => tick' = "stopped"
    BY <1>1 DEF LoseCommand, Subscribe, NoFrame, StopRetargeting, TreatFrame, CommandsTaken, vars,
                gate, workerState
  <2>2. CommandsInv'
    <3>1. CASE commands' = commands  BY <1>0, <2>1, <3>1 DEF CommandsInv
    <3>2. CASE commands' = <<>> /\ tick = "starting"
      BY <1>0, <2>1, <3>2 DEF CommandsInv, MemoryInv
    <3> QED  BY <2>1, <3>1, <3>2
  <2>3. MemoryInv'  BY <1>0, <2>1 DEF MemoryInv, Promised, Sent
  <2>4. SessionOwnsRetargeter'  BY <1>0, <2>1 DEF SessionOwnsRetargeter
  <2> QED  BY <2>2, <2>3, <2>4
<1>2. CASE ReadCommand
  <2>1. /\ tick = "command" /\ tick' = "frame" /\ commands' = <<>>
        /\ Obey(Received(commands))
        /\ UNCHANGED <<mode, armed, reference, phase, references>>
    BY <1>2 DEF ReadCommand, CommandsTaken, vars, gate
  <2>2. /\ armed => Received(commands) # <<"disarm">>
        /\ ~armed => Received(commands) = commands
    <3>1. CASE armed
      <4>1. commands # <<>> => Len(commands) \in DOMAIN commands
        BY DEF TypeOK, Channel
      <4> QED  BY <1>0, <2>1, <3>1, <4>1 DEF CommandsInv, Received
    <3>2. CASE ~armed  BY <2>1, <3>2 DEF CommandsInv, Received
    <3> QED  BY <3>1, <3>2
  <2>3. CASE armed /\ workerArmed
    <3>1. UNCHANGED <<workerArmed, memory>>
      BY <2>1, <2>2, <2>3 DEF Obey, CommandsInv
    <3> QED
      BY <1>0, <2>1, <2>3, <3>1 DEF CommandsInv, MemoryInv, Promised, Sent, SessionOwnsRetargeter
  <2>4. CASE armed /\ ~workerArmed
    <3>1. ~Promised /\ mode \notin MocapModes  BY <2>4 DEF MemoryInv, SessionOwnsRetargeter
    <3>2. memory' = "clean"  BY <2>1, <2>4 DEF Obey, Reset, MemoryInv
    <3> QED
      BY <1>0, <2>1, <2>4, <3>1, <3>2 DEF CommandsInv, MemoryInv, Promised, Sent, SessionOwnsRetargeter
  <2>5. CASE ~armed
    <3>1. mode \notin MocapModes  BY <2>5, SessionArmed
    <3>2. commands # <<"arm">>  BY <2>1, <2>5 DEF CommandsInv
    <3>3. ~workerArmed' /\ memory' = "clean"
      <4>1. CASE commands = <<"disarm">>
        <5>1. <<"disarm">> # <<"arm">>  OBVIOUS
        <5>2. Received(commands) = commands  BY <2>2, <2>5
        <5>3. workerArmed' = (commands = <<"arm">>) /\ Reset
          BY <2>1, <4>1, <5>2, Zenon DEF Obey
        <5> QED  BY <4>1, <5>1, <5>3, Zenon DEF Reset
      <4>2. CASE commands # <<"disarm">>
        BY <2>1, <2>2, <2>5, <3>2, <4>2 DEF Obey, CommandsInv, MemoryInv
      <4> QED  BY <4>1, <4>2
    <3> QED
      BY <1>0, <2>1, <2>5, <3>1, <3>3 DEF CommandsInv, MemoryInv, SessionOwnsRetargeter
  <2> QED  BY <2>3, <2>4, <2>5
<1>3. CASE InvalidFrame
  <2>1. /\ tick = "frame" /\ tick' = "command" /\ workerArmed
        /\ UNCHANGED <<mode, armed, reference, phase, commands, workerArmed, memory>>
        /\ references' = Publication(FALSE)
    BY <1>3 DEF InvalidFrame, TreatFrame, vars, gate
  <2>2. Promised' => Promised
    BY <2>1, PublishedPackets DEF Promised, Sent
  <2> QED  BY <1>0, <2>1, <2>2 DEF CommandsInv, MemoryInv, SessionOwnsRetargeter
<1>4. CASE ValidFrame \/ RetargetFails
  <2>1. /\ tick = "frame" /\ tick' = "command" /\ workerArmed
        /\ UNCHANGED <<mode, armed, reference, phase, commands, workerArmed>>
        /\ Retarget
    BY <1>4 DEF ValidFrame, RetargetFails, TreatFrame, vars, gate
  <2>2. memory' = "this"  BY <2>1 DEF Retarget, MemoryInv, PicoTypeOK
  <2> QED  BY <1>0, <2>1, <2>2 DEF CommandsInv, MemoryInv, SessionOwnsRetargeter
<1> QED  BY <1>1, <1>2, <1>3, <1>4 DEF PicoWorker

\* A step of the robot that touches neither the gate nor the topics.
LEMMA QuietOwns ==
  ASSUME Safe, OwnInv, ~crossed' => ~crossed,
         UNCHANGED <<armed, commands, reference, references, tick, workerArmed, memory>>,
         mode' \in MocapModes => mode \in MocapModes
  PROVE  OwnInv'
BY DEF OwnInv, CommandsInv, MemoryInv, Promised, Sent, SessionOwnsRetargeter

LEMMA DrainsOwns ==
  ASSUME TypeOK, Safe, PicoTypeOK, OwnInv, NEW age \in 0..2, RobotDrains(age), Crosses
  PROVE  OwnInv'
<1> USE DEF OwnInv
<1>1. PICK evs \in ReceivedFrom(EventTuples) : Drain(Received(references), evs, age)
  BY DEF RobotDrains
<1>2. /\ UNCHANGED <<armed, commands, tick, workerArmed, memory, mode>>
      /\ references' = <<>> /\ phase = "drain"
  BY <1>1 DEF RobotDrains, workerState, Drain
<1>3. armed /\ Promised' => Promised
  <2>1. CASE references # <<>> /\ Accepts(Head(Received(references)))
    <3> DEFINE p == references[Len(references)]
    <3>1. Received(references) = <<p>> /\ Head(<<p>>) = p  BY <2>1 DEF Received
    <3>2. references \in Seq(Packets) /\ Len(references) \in DOMAIN references
      BY <2>1 DEF PicoTypeOK, Channel
    <3>3. NoteReference(p, age)  BY <1>1, <2>1, <3>1 DEF Drain
    <3>4. armed => p.afterArm  BY <2>1, <3>1 DEF Accepts
    <3> QED  BY <1>2, <3>2, <3>3, <3>4 DEF NoteReference, Promised, Sent
  <2>2. CASE ~(references # <<>> /\ Accepts(Head(Received(references))))
    <3>1. UNCHANGED reference  BY <1>1, <2>2 DEF Drain, Received
    <3> QED  BY <1>2, <3>1 DEF Promised
  <2> QED  BY <2>1, <2>2
<1>4. ~crossed' => ~crossed  BY DEF Crosses
<1> QED  BY <1>2, <1>3, <1>4 DEF CommandsInv, MemoryInv, SessionOwnsRetargeter

\* What a step of the robot does to request, gate and topic: nothing, an end of whatever
\* was asked for, a new request, or the session that was asked for.
Stays ==
  /\ UNCHANGED <<armed, reference>>
  /\ mode' \in MocapModes => mode \in MocapModes
  /\ \/ UNCHANGED commands
     \/ armed /\ \E c \in {"arm", "pause", "resume"} : Send(c)
Ends ==
  /\ armed' = FALSE /\ mode' \notin MocapModes
  /\ IF armed THEN Send("disarm") ELSE UNCHANGED commands
Begins ==
  /\ ~armed /\ armed' = TRUE /\ reference' = NoReference /\ mode' \notin MocapModes
  /\ Send("arm")
Starts == armed /\ Promised /\ UNCHANGED <<armed, reference, commands>>

\* What a sent command leaves under way.
LEMMA SentCommand ==
  ASSUME TypeOK, NEW c \in ReferenceCommands, Send(c)
  PROVE  /\ commands = <<>> => commands' = <<c>>
         /\ \A i \in DOMAIN commands' : commands'[i] = c \/ (i \in DOMAIN commands /\ commands'[i] = commands[i])
<1>1. commands \in Seq(ReferenceCommands)  BY DEF TypeOK, Channel
<1>2. CASE Len(commands) < Capacity
  <2>1. commands' = Append(commands, c)  BY <1>2 DEF Send, Published
  <2>2. Len(commands') = Len(commands) + 1 /\ DOMAIN commands' = 1..Len(commands')
    BY <1>1, <2>1
  <2>3. \A i \in 1..Len(commands) : commands'[i] = commands[i]  BY <1>1, <2>1
  <2>4. commands'[Len(commands) + 1] = c  BY <1>1, <2>1
  <2>5. DOMAIN commands = 1..Len(commands) /\ Len(commands) \in Nat  BY <1>1
  <2>6. commands = <<>> => commands' = <<c>>  BY <2>1
  <2> QED  BY <2>2, <2>3, <2>4, <2>5, <2>6
<1>3. CASE ~(Len(commands) < Capacity)
  <2>1. commands' = commands  BY <1>3 DEF Send, Published
  <2>2. commands # <<>>  BY <1>3, CapacityAssumption
  <2> QED  BY <2>1, <2>2
<1> QED  BY <1>2, <1>3

LEMMA DisarmEnds ==
  ASSUME Disarm, mode' \notin MocapModes PROVE Ends
BY DEF Disarm, Ends

LEMMA EntersAsIdle ==
  /\ EnterStanding => Disarm /\ mode' \notin MocapModes
  /\ EnterDamping => Disarm /\ mode' \notin MocapModes
BY DEF EnterStanding, EnterDamping, TakeOver, TakeOverFails, ReturnToStanding, Land, DebugModes, MocapModes

LEMMA ControlMoves ==
  ASSUME TypeOK, Safe, ReadKeys
  PROVE  Stays \/ Ends \/ Begins \/ Starts
<1> USE PicoAssumption
<1>1. PICK keys \in RemoteInputs : Control(keys)  BY DEF ReadKeys
<1>2. CASE EmergencyStop(keys)
  <2>1. CASE mode # "damping"  BY <1>2, <2>1, EntersAsIdle, DisarmEnds DEF EmergencyStop
  <2>2. CASE mode = "damping"  BY <1>2, <2>2 DEF EmergencyStop, gate, Stays
  <2> QED  BY <2>1, <2>2
<1>3. CASE StartPressed(keys)  BY <1>3, EntersAsIdle, DisarmEnds DEF StartPressed
<1>4. CASE PursueMocapEntry(keys)
  <2>0. mode \notin MocapModes  BY <1>4 DEF PursueMocapEntry, MocapModes
  <2>1. CASE ~armed /\ ArmReference /\ UNCHANGED mode
    BY <2>0, <2>1 DEF ArmReference, ClearReferenceGate, Begins
  <2>2. CASE armed /\ RepeatArm /\ UNCHANGED mode
    BY <2>2 DEF RepeatArm, gate, Stays
  <2>3. CASE armed /\ CanSwitchToMocap /\ TransitionToMocap
    BY <2>3 DEF CanSwitchToMocap, TransitionToMocap, gate, Promised, Starts
  <2>4. CASE UNCHANGED <<mode, gate, commands>>  BY <2>4 DEF gate, Stays
  <2> QED  BY <1>4, <2>1, <2>2, <2>3, <2>4 DEF PursueMocapEntry
<1>5. CASE CommandPlayback(keys)
  <2>1. armed  BY <1>5, SessionArmed DEF CommandPlayback
  <2> QED
    BY <1>5, <2>1 DEF CommandPlayback, ReplayClip, ReplayPressed, PauseOrResume, gate, Stays
<1>6. CASE ReturnPressed(keys)  BY <1>6, EntersAsIdle, DisarmEnds DEF ReturnPressed
<1>7. CASE NoTransition(keys)  BY <1>7 DEF NoTransition, gate, Stays
<1> QED  BY <1>1, <1>2, <1>3, <1>4, <1>5, <1>6, <1>7 DEF Control

LEMMA ActMoves ==
  ASSUME HandleEvent \/ Step \/ Stop
  PROVE  Stays \/ Ends
<1>1. CASE HandleEvent
  <2>1. CASE EnterStanding  BY <2>1, EntersAsIdle, DisarmEnds
  <2>2. CASE UNCHANGED <<armed, reference, commands>> /\ (mode' \in MocapModes => mode \in MocapModes)
    BY <2>2 DEF Stays
  <2> QED
    BY <1>1, <2>1, <2>2 DEF HandleEvent, ToggleVelocity, ToggleEstop, ToggleArms, TogglePause, EventsDone,
                EnterVelocity, CanEnterVelocity, gate, MocapModes
<1>2. CASE Step
  <2>1. CASE EnterStanding \/ EnterDamping  BY <2>1, EntersAsIdle, DisarmEnds
  <2>2. CASE UNCHANGED <<armed, reference, commands, mode>>  BY <2>2 DEF Stays
  <2> QED
    BY <1>2, <2>1, <2>2 DEF Step, IdleStep, StandingStep, MocapStep, VelocityStep, PolicyStep, gate
<1>3. CASE Stop  BY <1>3 DEF Stop, Shutdown, gate, Stays
<1> QED  BY <1>1, <1>2, <1>3

\* Such a step keeps what the worker and the robot owe each other; where it crosses a
\* command, nothing is owed any more until both are idle.
LEMMA MoveOwns ==
  ASSUME TypeOK, Safe, PicoTypeOK, OwnInv, Crosses,
         UNCHANGED <<tick, workerArmed>>,
         IF ~armed /\ armed'
           THEN /\ references' = [i \in DOMAIN references |-> [references[i] EXCEPT !.afterArm = FALSE]]
                /\ memory' = IF memory = "this" THEN "earlier" ELSE memory
           ELSE UNCHANGED <<references, memory>>,
         Stays \/ Ends \/ Begins \/ Starts
  PROVE  OwnInv'
<1> USE DEF OwnInv
<1>1. ~crossed' => ~crossed /\ (commands = <<>> \/ UNCHANGED armed)  BY DEF Crosses, TypeOK
<1>2. /\ tick' = "starting" => ~workerArmed'
      /\ ~workerArmed' => memory' = "clean"
  BY DEF MemoryInv
<1>3. CASE crossed'
  BY <1>2, <1>3 DEF CommandsInv, MemoryInv, SessionOwnsRetargeter
<1>4. CASE ~crossed' /\ Stays
  <2>1. UNCHANGED <<references, memory, reference, armed>>  BY <1>4 DEF Stays
  <2>2. CommandsInv'
    <3>1. CASE UNCHANGED commands  BY <1>1, <1>4, <2>1, <3>1 DEF CommandsInv
    <3>2. CASE armed /\ \E c \in {"arm", "pause", "resume"} : Send(c)
      <4>1. PICK c \in {"arm", "pause", "resume"} : Send(c)  BY <3>2
      <4>2. c \in ReferenceCommands /\ c # "disarm"  BY DEF ReferenceCommands
      <4>3. \A i \in DOMAIN commands' : commands'[i] = c \/ (i \in DOMAIN commands /\ commands'[i] = commands[i])
        BY <4>1, <4>2, SentCommand
      <4> QED  BY <1>1, <1>4, <2>1, <3>2, <4>2, <4>3 DEF CommandsInv
    <3> QED  BY <1>4, <3>1, <3>2 DEF Stays
  <2>3. MemoryInv'  BY <1>1, <1>4, <2>1 DEF MemoryInv, Promised, Sent
  <2> QED  BY <1>1, <1>4, <2>1, <2>2, <2>3 DEF SessionOwnsRetargeter, Stays
<1>5. CASE ~crossed' /\ Ends
  <2>1. UNCHANGED <<references, memory>>  BY <1>5 DEF Ends
  <2>2. CommandsInv'
    <3>1. CASE armed
      <4>1. commands = <<>> /\ Send("disarm")  BY <1>1, <1>5, <3>1 DEF Ends
      <4>2. commands' = <<"disarm">>  BY <4>1, SentCommand DEF ReferenceCommands
      <4> QED  BY <1>5, <4>2 DEF CommandsInv, Ends
    <3>2. CASE ~armed  BY <1>1, <1>5, <3>2 DEF CommandsInv, Ends
    <3> QED  BY <3>1, <3>2
  <2>3. MemoryInv'  BY <1>1, <1>5, <2>1 DEF MemoryInv, Ends
  <2> QED  BY <1>5, <2>2, <2>3 DEF SessionOwnsRetargeter, Ends
<1>6. CASE ~crossed' /\ Begins
  <2>0. commands = <<>>  BY <1>1, <1>6 DEF Begins
  <2>1. tick # "stopped" => ~workerArmed /\ memory = "clean"
    BY <1>1, <1>6, <2>0 DEF CommandsInv, MemoryInv, Begins
  <2>2. /\ references' = [i \in DOMAIN references |-> [references[i] EXCEPT !.afterArm = FALSE]]
        /\ memory' = IF memory = "this" THEN "earlier" ELSE memory
    BY <1>6 DEF Begins
  <2>3. ~Promised'
    <3>1. \A i \in DOMAIN references : references[i] \in Packets  BY DEF PicoTypeOK, Channel
    <3>2. \A i \in DOMAIN references' : ~references'[i].afterArm  BY <2>2, <3>1 DEF Packets
    <3> QED  BY <1>6, <3>2 DEF Promised, Sent, NoReference, Begins
  <2>4. CommandsInv'
    <3>1. commands' = <<"arm">>  BY <1>6, <2>0, SentCommand DEF ReferenceCommands, Begins
    <3> QED  BY <1>6, <3>1 DEF CommandsInv, Begins
  <2>5. MemoryInv'  BY <1>2, <1>6, <2>1, <2>2, <2>3 DEF MemoryInv, Begins
  <2> QED  BY <1>6, <2>4, <2>5 DEF SessionOwnsRetargeter, Begins
<1>7. CASE ~crossed' /\ Starts
  <2>1. UNCHANGED <<references, memory>>  BY <1>7 DEF Starts
  <2>2. CommandsInv'  BY <1>1, <1>7 DEF CommandsInv, Starts
  <2>3. MemoryInv'  BY <1>1, <1>7, <2>1 DEF MemoryInv, Promised, Sent, Starts
  <2> QED  BY <1>1, <1>7, <2>1, <2>2, <2>3 DEF MemoryInv, SessionOwnsRetargeter, Starts
<1> QED  BY <1>3, <1>4, <1>5, <1>6, <1>7

LEMMA RobotOwns ==
  ASSUME TypeOK, Safe, PicoTypeOK, OwnInv, PicoRobot \/ RobotEnds, Crosses
  PROVE  OwnInv'
<1>0. ~crossed' => ~crossed  BY DEF Crosses
<1>1. CASE \E age \in 0..2 : RobotDrains(age)  BY <1>1, DrainsOwns
<1>2. CASE RobotReads
  BY <1>2, ControlMoves, MoveOwns DEF RobotReads
<1>3. CASE RobotPublishes
  <2>1. /\ UNCHANGED <<armed, commands, references, tick, workerArmed, memory, mode>>
        /\ reference'.known = reference.known /\ reference'.valid = reference.valid
    BY <1>3 DEF RobotPublishes, Publish, workerState, TypeOK, References
  <2>2. CommandsInv'  BY <1>0, <2>1 DEF OwnInv, CommandsInv
  <2>3. MemoryInv'  BY <1>0, <2>1 DEF OwnInv, MemoryInv, Promised, Sent
  <2> QED  BY <1>0, <2>1, <2>2, <2>3 DEF OwnInv, SessionOwnsRetargeter
<1>4. CASE RobotActs
  <2>1. UNCHANGED <<references, tick, workerArmed, memory>>
    BY <1>4 DEF RobotActs, workerState
  <2>2. Stays \/ Ends  BY <1>4, ActMoves DEF RobotActs
  <2>3. ~(~armed /\ armed')  BY <2>2 DEF Stays, Ends
  <2> QED  BY <2>1, <2>2, <2>3, MoveOwns
<1>5. CASE RobotEnds
  BY <1>0, <1>5, QuietOwns DEF RobotEnds, Raise, RequestStop, Shutdown, gate, workerState
<1> QED  BY <1>1, <1>2, <1>3, <1>4, <1>5 DEF PicoRobot

\* As long as commands do not cross, a session owns a retargeter that was reset for it,
\* whatever is lost, late or conflated on the way, whether the robot walks in between or
\* not, and however long topics, ramps and warm-ups are.
THEOREM SessionOwnsRetargeterAlways == PicoSpec => []SessionOwnsRetargeter
<1>1. TypeOK /\ Safe /\ PicoTypeOK /\ OwnInv /\ [PicoNext]_<<picoVars, crossed>> => OwnInv'
  <2>1. ASSUME Safe, OwnInv, (TrackingChanges /\ UNCHANGED crossed) \/ UNCHANGED <<picoVars, crossed>>
        PROVE  OwnInv'
    BY <2>1, QuietOwns DEF TrackingChanges, picoVars, vars, gate, workerState
  <2> QED  BY <2>1, WorkerOwns, RobotOwns DEF PicoNext
<1>2. OwnInv => SessionOwnsRetargeter  BY DEF OwnInv
<1> QED  BY <1>1, <1>2, OwnInit, PicoTeleopIsRobotControl, Safety, PTL DEF PicoSpec
=============================================================================
