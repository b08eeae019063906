---------------------------- MODULE MCPicoTeleop ----------------------------
(* Small instances of PicoTeleop for TLC, of the timeline and the input of its worker, *)
(* and of the worker that owns the input.                                               *)
EXTENDS PicoTeleop, Integers, FiniteSets

Input == INSTANCE RealtimeInput WITH HealthEvery <- 2

\* What the operator does with the remote: nothing, one button, or X with Y.
EntryKeys == {{}, {"start"}, {"Y"}, {"X", "Y"}}
NoEvents == {}

Timeline == INSTANCE ReferenceTimeline

\* Stamps of the frames that arrive, in any order, and the buffer after them; the
\* pose of a frame is the number of its arrival.
Arrivals == UNION { [1..n -> 0..4] : n \in 1..4 }
Buffered(times, window) ==
  LET after[n \in 0..Len(times)] ==
        IF n = 0 THEN <<>> ELSE Timeline!Appended(after[n - 1], times[n], n, window)
  IN  after[Len(times)]
Latest(times) == CHOOSE t \in { times[i] : i \in DOMAIN times } : \A i \in DOMAIN times : times[i] <= t

\* The buffer stays in order of time, whatever arrives late or twice, and its
\* newest frame has the last pose and the latest time.
ASSUME BufferStaysOrdered ==
  \A times \in Arrivals, window \in 1..4 :
    LET frames == Buffered(times, window)
    IN  /\ \A i, j \in DOMAIN frames : i < j => frames[i].time < frames[j].time
        /\ Timeline!Newest(frames) = Timeline!Frame(Latest(times), Len(times))

\* A sample lies between two neighbours, and trimming shows only at the edge: in
\* the window a sample is what all frames would give, or the frame just after its
\* target, for want of the one before.
ASSUME WindowSuffices ==
  \A times \in Arrivals, window \in 1..4 :
    LET all == Buffered(times, 9)
        frames == Buffered(times, window)
    IN  \A target \in (Latest(times) - window)..(Latest(times) + 1) :
          LET sample == Timeline!SampleAt(frames, target)
          IN  /\ sample.kind = "interpolate" =>
                   /\ sample.older.time < target /\ target <= sample.newer.time
                   /\ ~\E i \in DOMAIN all :
                        sample.older.time < all[i].time /\ all[i].time < sample.newer.time
              /\ \/ sample.at = Timeline!SampleAt(all, target).at
                 \/ /\ sample.at > target /\ sample.newer = Timeline!Oldest(frames)
                    /\ ~\E i \in DOMAIN all : target <= all[i].time /\ all[i].time < sample.at

\* A configuration that passes validation asks for nothing that is not yet there
\* and for nothing from before the window.
ASSUME SupportedStaysInside ==
  \A steps \in UNION { [1..n -> -2..2] : n \in 1..3 }, delay, window \in 0..6 :
    Timeline!ValidSteps(steps) /\ Timeline!Supported(steps, 2, delay, window) =>
      \A i \in DOMAIN steps : steps[i] * 2 - delay \in (-window)..0

\* What the provider reads: four frames, of three bodies of which "d" is degenerate
\* or of none, at times in no order; a tenth of a time unit is one tick.
Readings == [1..4 -> {"none", "a", "b", "d"} \X {0, 10, 30}]
Provided(readings, size) ==
  LET after[n \in 0..4] ==
        IF n = 0 THEN Input!NewProvider
        ELSE Input!AcceptFrame(after[n - 1], readings[n][1], readings[n][1] = "d", readings[n][2], 15, size)
  IN  after[4]

\* However the stamps of frames jump, cached frames are in order of time, none lie
\* further apart than the gap, so that no pose is interpolated across one, and all
\* that know the ground know it from one body, which came after the last gap too.
ASSUME CacheIsContinuous ==
  \A readings \in Readings :
    LET frames == Provided(readings, 4).cache.frames
    IN  /\ \A i, j \in DOMAIN frames : i < j =>
             /\ frames[i].time < frames[j].time
             /\ j = i + 1 => frames[j].time - frames[i].time <= 15
             /\ frames[i].body[2] \in {"none", frames[j].body[2]}
        /\ \A j \in DOMAIN frames :
             frames[j].body[2] \in {"none"} \cup ({ frames[i].body[1] : i \in 1..j } \ {"d"})

\* The two providers' ways to search the cache find the same place.
ASSUME SamplersAgree ==
  \A readings \in Readings :
    LET frames == Provided(readings, 2).cache.frames
    IN  frames # <<>> =>
          \A target \in -1..33 : Input!PicoSample(frames, target) = Input!UdpSample(frames, target)

\* A button over five polls, the time passed before each and whether it is down.
Presses == [1..5 -> (0..2) \X BOOLEAN]
PolledAt(presses) ==
  LET at[n \in 0..5] == IF n = 0 THEN 0 ELSE at[n - 1] + presses[n][1] IN at
Polled(presses, debounce) ==
  LET at == PolledAt(presses)
      after[n \in 0..5] ==
        IF n = 0 THEN Input!NewButton
        ELSE Input!PolledButton(after[n - 1], presses[n][2], at[n], debounce)
  IN  after
EventAt(presses, debounce, n) ==
  Input!Emits(Polled(presses, debounce)[n - 1], presses[n][2], PolledAt(presses)[n], debounce)

\* Two events of a button are presses with a release between, at least the
\* debounce apart, and a press that long after the last event gives one.
ASSUME EventsArePresses ==
  \A presses \in Presses, debounce \in {0, 3} :
    LET at == PolledAt(presses)
        events == { n \in 1..5 : EventAt(presses, debounce, n) }
    IN  /\ \A m, n \in events : m < n =>
             at[n] - at[m] >= debounce /\ \E k \in (m + 1)..(n - 1) : ~presses[k][2]
        /\ \A n \in 2..5 :
             presses[n][2] /\ ~presses[n - 1][2] /\ (\A m \in events : m < n => at[n] - at[m] >= debounce)
               => n \in events

-----------------------------------------------------------------------------
(* The worker of the Pico input and its video. *)

\* What the streams give in two iterations: numbers that stay, grow or begin anew, while
\* one stream and the events do as they like.
IoValues == {Input!Nothing, 1, 2}
Given == { [s \in Input!Streams |-> IF s = odd THEN v ELSE IF s = "events" THEN e ELSE n] :
             n \in {1, 2}, odd \in Input!Streams \ {"events"}, v \in IoValues \cup {Input!Raises},
             e \in {Input!Nothing, Input!Raises, 1} }
IoScripts == [1..2 -> Given]
IoOutcome(script, n) ==
  LET after[k \in 0..2] ==
        IF k = 0 THEN Input!Quiet(Input!NewWorker(TRUE))
        ELSE IF ~after[k - 1].worker.running THEN Input!Quiet(after[k - 1].worker)
        ELSE Input!Iterated(after[k - 1].worker, script[k], "none", k)
  IN  after[n]
WithoutHead(script) == [k \in 1..2 |-> [script[k] EXCEPT !["head"] = Input!Nothing]]

\* A worker that goes on has published every number that a stream gave, and a number
\* that a stream repeats once only.
ASSUME NumbersGoOutOnce ==
  \A script \in IoScripts : \A s \in Input!Streams \ {"events"} :
    LET first == IoOutcome(script, 1)
        second == IoOutcome(script, 2)
        gave(n) == script[n][s] >= 0
    IN  second.worker.running /\ second.worker.head =>
          /\ s \in first.published <=> gave(1)
          /\ s \in second.published <=> gave(2) /\ script[2][s] # script[1][s]

\* What becomes of the head changes nothing for the other streams, and a head that
\* failed is not heard of again.
ASSUME HeadFailsAlone ==
  \A script \in IoScripts : \A n \in 1..2 :
    LET o == IoOutcome(script, n)
        p == IoOutcome(WithoutHead(script), n)
    IN  /\ o.published \ {"head"} = p.published \ {"head"}
        /\ o.worker.running = p.worker.running /\ o.body = p.body
        /\ "head" \in o.published => \A k \in 1..n : script[k]["head"] # Input!Raises

\* Control events are not lost to a body that cannot be read, and name the last body
\* frame that went out; a worker that fails has let go what was asked before.
ASSUME EventsNameBody ==
  \A script \in IoScripts : \A n \in 1..2 :
    LET o == IoOutcome(script, n)
        bodies == { k \in 1..n : "body" \in IoOutcome(script, k).published }
    IN  (n = 1 \/ IoOutcome(script, 1).worker.running) /\ script[n]["events"] = 1 =>
          /\ "events" \in o.published
          /\ o.body = IF bodies = {} THEN -1
                      ELSE script[CHOOSE k \in bodies : \A i \in bodies : i <= k]["body"]

-----------------------------------------------------------------------------
(* The thread of the Pico input, together with its worker. *)

\* Three frames, each a tick or longer than the gap after the last, and who asks for events
\* between them: nobody, pop_control_events, or the packet of a frame.
PollConfig == [gap |-> 15, size |-> 2, debounce |-> 0, source |-> "body"]
PollScripts == [1..3 -> {"none", "a", "b", Input!Misshapen, Input!Unreadable} \X {1, 20} \X {{}, {"pause", "arms"}}]
Readers == [1..3 -> {"nobody", "pop", "packet"}]
PolledFrameAt(script, n) ==
  LET at[k \in 0..3] == IF k = 0 THEN 0 ELSE at[k - 1] + script[k][2]
  IN  [seq |-> n, time |-> at[n], down |-> script[n][3], head |-> TRUE, hand |-> "active",
       body |-> script[n][1], made |-> "none"]
Read(q, reader) ==
  CASE reader = "nobody" -> q [] reader = "pop" -> Input!Popped(q) [] OTHER -> Input!PacketTaken(q)
Reads(q, reader) == reader = "pop" \/ (reader = "packet" /\ Input!HasFrame(q))
Inputs(script, readers) ==
  LET after[n \in 0..3] ==
        IF n = 0 THEN [input |-> Input!NewInput, got |-> <<>>]
        ELSE LET q == Input!PolledFrame(after[n - 1].input, PolledFrameAt(script, n), PollConfig)
                 left == Read(q, readers[n])
             IN  [input |-> left, got |-> after[n - 1].got \o (IF Reads(q, readers[n]) THEN q.events ELSE <<>>)]
  IN  after
Ended(script, n) == \E k \in 1..n : script[k][1] = Input!Unreadable
\* The presses, of the frames that the thread lives to see, the one it dies of included.
PressesSeen(script) ==
  LET new(n) == script[n][3] # {} /\ (n = 1 \/ script[n - 1][3] = {}) /\ ~Ended(script, n - 1)
      at(n) == IF new(n) THEN <<<<"pause", n>>, <<"arms", n>>>> ELSE <<>>
  IN  at(1) \o at(2) \o at(3)

\* Whoever reads them, and whether a body can be seen or not, events are read once each
\* and in order; what has not been read is still there.
ASSUME EventsComeOnce ==
  \A script \in PollScripts, readers \in Readers :
    LET last == Inputs(script, readers)[3]
    IN  last.got \o last.input.events = PressesSeen(script)

\* The worker that iterates once after every frame, and twice more.
Worked(script) ==
  LET inputs == Inputs(script, [n \in 1..3 |-> "nobody"])
      after[n \in 0..5] ==
        IF n = 0 THEN Input!Quiet(Input!NewWorker(TRUE))
        ELSE Input!Iterated(after[n - 1].worker,
                            Input!Offered(Input!Popped(inputs[IF n <= 3 THEN n ELSE 3].input)), "none", n)
  IN  after
Usable(body) == body \notin {"none", Input!Misshapen, Input!Unreadable}
Newer(script, n) ==
  LET before == { k \in 1..(n - 1) : Usable(script[k][1]) }
  IN  before = {} \/ script[CHOOSE k \in before : \A i \in before : i <= k][1] # script[n][1]

\* Every frame that the thread lives to see is published, its body if it is one and not
\* that of before; bodies that cannot be used keep nothing else back.
ASSUME FramesArePublished ==
  \A script \in PollScripts : \A n \in 1..3 :
    LET out == Worked(script)[n].published
    IN  IF Ended(script, n - 1) THEN out = {}
        ELSE /\ {"head", "controller", "hand"} \subseteq out
             /\ "body" \in out <=> Usable(script[n][1]) /\ Newer(script, n)

\* A frame whose body is no numbers ends the thread, and nothing is published any more;
\* the worker does not notice, and its health packets go on.
ASSUME DeadInputLooksHealthy ==
  \A script \in PollScripts :
    LET q == Inputs(script, [n \in 1..3 |-> "nobody"])[3].input
        worked == Worked(script)
    IN  /\ Input!Available(q) <=> ~Ended(script, 3)
        /\ ~Input!Available(q) =>
             /\ worked[4].published = {} /\ worked[5].published = {}
             /\ worked[5].worker.running /\ (worked[4].beats \/ worked[5].beats)

\* Whatever a datagram is, the socket is open exactly while the thread lives, which a close
\* ends after one more datagram; the last good frame is there for ever.
Datagrams == {"none", "a", "b", "socket fails", Input!Unreadable}
ASSUME ReceiverLetsGo ==
  \A script \in [1..4 -> Datagrams], close \in 1..5 :
    LET after[n \in 0..5] ==
          IF n = 0 THEN Input!NewReceiver
          ELSE LET u == IF n = close THEN Input!UdpClosed(after[n - 1]) ELSE after[n - 1]
               IN  Input!UdpPolled(u, IF n = 5 THEN "none" ELSE script[n], n, 2)
        fails == { n \in 1..4 : script[n] \in {"socket fails", Input!Unreadable} }
        good == { n \in 1..4 : script[n] \in {"a", "b"} /\ n <= close /\ \A k \in fails : n < k }
    IN  /\ \A n \in 0..5 : after[n].socket <=> after[n].poll # "ended"
        /\ \A n \in 0..5 : Input!UdpAvailable(after[n]) <=> n < close /\ \A k \in fails : n < k
        /\ after[5].ready <=> good # {}
        /\ good # {} => LET last == CHOOSE n \in good : \A k \in good : k <= n
                        IN  Input!UdpPacket(after[5]) = [body |-> script[last], time |-> last, seq |-> Cardinality(good)]

-----------------------------------------------------------------------------
(* A body of the trackers, and a recording in the place of the device. *)

\* Whether head, left and right tracker are there in each of five frames, a tick apart.
TrackerScripts == [1..5 -> [head : BOOLEAN, left : BOOLEAN, right : BOOLEAN]]
Wrists(script) ==
  LET after[n \in 0..5] ==
        IF n = 0 THEN [held |-> Input!NewWrists, made |-> FALSE]
        ELSE Input!Synthesized(after[n - 1].held, script[n].head, script[n], n, 2)
  IN  after
SeenLately(script, side, n) == \E k \in (n - 2)..n : k >= 1 /\ script[k][side]

\* No body is made without the head, nor with a wrist that was last seen longer ago than
\* the hold; with head and both trackers there is one.
ASSUME BodiesAreRecent ==
  \A script \in TrackerScripts : \A n \in 1..5 :
    LET made == Wrists(script)[n].made
    IN  /\ made => script[n].head /\ SeenLately(script, "left", n) /\ SeenLately(script, "right", n)
        /\ script[n].head /\ script[n].left /\ script[n].right => made

\* The hold of the right wrist begins only where there was a left one: a right tracker
\* that was seen a moment ago may still be missed, never so the left one.
ASSUME LeftHidesRight ==
  LET missed(side) == \E script \in TrackerScripts :
        /\ \A n \in 1..5 : script[n].head
        /\ script[5][IF side = "right" THEN "left" ELSE "right"]
        /\ script[4][side] /\ ~Wrists(script)[5].made
  IN  missed("right") /\ ~missed("left")

\* What the poll loop of the provider gets in twelve passes, half a tick of timeout apart.
Recordings == UNION { [1..n -> [seq : 1..3, time : {0, 2, 4}]] : n \in 1..3 }
Replayed(records, loop) ==
  LET after[n \in 0..12] ==
        IF n = 0 THEN [replay |-> Input!NewReplay, now |-> 0, after |-> -1, frames |-> <<>>]
        ELSE LET p == after[n - 1]
                 o == Input!ReplayPass(records, loop, p.replay, p.now, 1, p.after)
             IN  [replay |-> o.replay, after |-> o.after,
                  now |-> IF o.kind = "timeout" THEN o.now + 1 ELSE o.now,
                  frames |-> IF o.kind = "frame" THEN Append(p.frames, [frame |-> o.frame, now |-> o.now]) ELSE p.frames]
  IN  after[12]
InOrder(records) ==
  \A i, j \in DOMAIN records : i < j => records[i].seq < records[j].seq /\ records[i].time <= records[j].time

\* Numbers rise across rounds, whatever the recording; no frame comes before its time; and
\* of a recording in order every record comes in every round, no further apart at the seam
\* than within, so that the seam is a gap only if the first interval is one.
ASSUME ReplayGoesOn ==
  \A records \in Recordings, loop \in BOOLEAN :
    LET frames == Replayed(records, loop).frames
        n == Len(records)
        apart(k) == frames[k + 1].frame.time - frames[k].frame.time
    IN  /\ \A k \in 1..(Len(frames) - 1) : frames[k].frame.seq < frames[k + 1].frame.seq
        /\ \A k \in DOMAIN frames : frames[k].now >= frames[k].frame.time
        /\ InOrder(records) =>
             /\ \A k \in DOMAIN frames :
                  frames[k].frame.seq = records[((k - 1) % n) + 1].seq + ((k - 1) \div n) * Input!Span(records)
             /\ IF loop THEN Len(frames) > n ELSE Len(frames) = n
             /\ \A k \in 1..(Len(frames) - 1) :
                  k % n = 0 => apart(k) = IF n = 1 THEN Input!LoneStep ELSE apart(1)

-----------------------------------------------------------------------------
Video == INSTANCE CameraStreams WITH FramePeriod <- 3

\* A camera thread after some steps, and its runtime: whether it is to stop may change
\* only once.
CameraResults == {"ok", "empty", "fails", "fatal"}
Threads == LET after[n \in 0..4] ==
                 IF n = 0 THEN { Video!NewThread }
                 ELSE { Video!ThreadStep(t, result, FALSE) : t \in after[n - 1], result \in CameraResults }
           IN  UNION { after[n] : n \in 0..4 }

\* Whatever the camera does, its stream is open only while frames are waited for, a
\* thread that breaks is not waited for, and one that is told to stop ends within two
\* calls and with one more frame at most.
ASSUME CameraIsLetGo ==
  \A t \in Threads :
    /\ t.open <=> t.at = "streaming"
    /\ t.error => t.ready /\ t.at = "ended"
    /\ t.at # "loading" => \A result, next \in CameraResults :
         LET last == Video!ThreadStep(t, result, TRUE)
         IN  /\ last.at = "ended" /\ ~last.open
             /\ last.pushed <= t.pushed + 1
             /\ Video!ThreadStep(last, next, TRUE) = last

\* A camera that is lost comes back by itself, as often as it is lost.
ASSUME CameraComesBack ==
  \A t \in { u \in Threads : u.at = "waiting" } :
    LET again == Video!ThreadStep(Video!ThreadStep(t, "ok", FALSE), "ok", FALSE)
    IN  again.open /\ ~again.error

VideoConfigs == { c \in [enabled : BOOLEAN, source : {"none", "realsense", "mujoco", "test-pattern"}, fps : {0, 30}] :
                    Video!ConfigValid(c) }
\* No thread goes on that nobody can stop, from whatever start and after every tick; a
\* producer that breaks is gone with the next one.
ASSUME NoOrphanCamera ==
  \A c \in VideoConfigs, takes, camera \in BOOLEAN, t \in Threads, later \in CameraResults :
    LET v == Video!Started(c, takes, camera, t)
        w == [v EXCEPT !.thread = IF v.producer.kind = "realsense" THEN Video!ThreadStep(@, later, v.stop) ELSE @]
        ticked == Video!Ticked(w, 1, TRUE)
    IN  /\ v.producer.kind = "none" => v.thread.at \in {"loading", "ended"}
        /\ v.producer.kind # "none" => Video!BridgeSource(c) = "frames"
        /\ ticked.producer.kind = "none" => ticked.stop \/ ticked.thread = Video!NewThread
        /\ v.thread.error => v.producer.kind = "none"
        /\ ticked.thread.error => ticked.producer.kind = "none"

TickTimes == { p \in [1..4 -> 0..6] : \A i \in 1..3 : p[i] <= p[i + 1] }
\* Rendered frames are a period apart however the ticks come, and none follows one
\* that failed.
ASSUME FramesArePaced ==
  \A times \in TickTimes, fails \in 1..5 :
    LET v == Video!Started([enabled |-> TRUE, source |-> "mujoco", fps |-> 30], TRUE, TRUE, Video!NewThread)
        after[n \in 0..4] == IF n = 0 THEN v ELSE Video!Ticked(after[n - 1], times[n], n # fails)
        rendered == { n \in 1..4 : Video!Due(after[n - 1], times[n]) }
    IN  \A n, k \in rendered : n < k => times[k] - times[n] >= 3 /\ n # fails
=============================================================================
