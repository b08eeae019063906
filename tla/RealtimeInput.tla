--------------------------- MODULE RealtimeInput ---------------------------
(***************************************************************************)
(* The input providers that turn a stream of frames into packets, as       *)
(* operators: RealtimeFrameCache, what the poll thread of                  *)
(* Pico4InputProvider does with a frame, the receiver of                   *)
(* UDPBVHInputProvider, and the sampling of both.  A body is any value.    *)
(* Each of these runs under the provider's lock, as one step.              *)
(***************************************************************************)
EXTENDS Integers, SequencesExt

CONSTANT HealthEvery   \* ticks between two health packets

Never == -1       \* no time yet
NoBody == "none"  \* tracking is inactive, or the frame has the wrong shape
Tick == 1         \* what a frame that is not newer is moved past the last one

-----------------------------------------------------------------------------
(* RealtimeFrameCache: a bounded buffer and a count that outlives it. *)

EmptyCache == [frames |-> <<>>, seq |-> 0]

CacheAppend(cache, body, time, size) ==
  LET grown == Append(cache.frames, [body |-> body, time |-> time])
  IN  [frames |-> SubSeq(grown, 1 + IF Len(grown) > size THEN Len(grown) - size ELSE 0, Len(grown)),
       seq |-> cache.seq + 1]

CacheCleared(cache) == [cache EXCEPT !.frames = <<>>]

LatestPacket(cache) == [body |-> Last(cache.frames).body, time |-> Last(cache.frames).time, seq |-> cache.seq]

-----------------------------------------------------------------------------
(* Pico4InputProvider. *)

NewProvider == [cache |-> EmptyCache, raw |-> NoBody, last |-> Never, ground |-> NoBody]

\* A frame that came longer than gap after the last one; gap 0 is never.
AfterGap(p, time, gap) == p.last # Never /\ gap > 0 /\ time - p.last > gap

StampOf(p, time) == IF p.last # Never /\ time <= p.last THEN p.last + Tick ELSE time

\* _apply_ground_alignment: the body that tells how high the ground is, which one
\* that is degenerate cannot.
Ground(ground, body, degenerate) == IF ground = NoBody /\ ~degenerate THEN body ELSE ground

\* _accept_pico_frame: without a body, or with the body of the last frame, nothing
\* is cached.  After a gap the cache and the ground start anew.
AcceptFrame(p, body, degenerate, time, gap, size) ==
  LET restart == AfterGap(p, time, gap)
      cache == IF restart THEN CacheCleared(p.cache) ELSE p.cache
      ground == Ground(IF restart THEN NoBody ELSE p.ground, body, degenerate)
      stamp == StampOf(p, time)
  IN  IF body \in {NoBody, p.raw} THEN p
      ELSE [cache |-> CacheAppend(cache, <<body, ground>>, stamp, size),
            raw |-> body, last |-> stamp, ground |-> ground]

\* A button, or a grip past its threshold: whether it was down, when it last
\* gave an event.
NewButton == [down |-> FALSE, last |-> Never]

\* _poll_button_control_event, _poll_grip_control_event: a press that is new, the
\* debounce after the last event.
Emits(b, down, time, debounce) == down /\ ~b.down /\ (b.last = Never \/ time - b.last >= debounce)

PolledButton(b, down, time, debounce) ==
  [down |-> down, last |-> IF Emits(b, down, time, debounce) THEN time ELSE b.last]

-----------------------------------------------------------------------------
(* The poll thread of Pico4InputProvider with all that it keeps of a frame, and those who  *)
(* read it.  A frame has a number, a time, the roles of the buttons that are down, what    *)
(* can be read of head, hand and body, and the body that was made of the trackers.  A      *)
(* configuration c has the gap, the size of the cache, the debounce and the arm source.    *)

Misshapen == "misshapen"    \* joints of another number
Unreadable == "unreadable"  \* joints that are no numbers

Roles == <<"pause", "arms", "estop", "mute", "velocity">>

\* A snapshot is numbered with its frame.
NewInput ==
  [poll |-> "running", after |-> Never, snapshot |-> [seq |-> Never],
   buttons |-> [r \in Range(Roles) |-> NewButton], events |-> <<>>, provider |-> NewProvider]

\* _accept_head_pose_snapshot: the torso is known from a body of the device only.
HeadRead(f) == [hmd |-> f.head, torso |-> f.body \notin {NoBody, Misshapen, Unreadable}]

\* _read_hand_state: a hand of the wrong shape is there and not active.
HandRead(hand) == [present |-> hand # "none", active |-> hand = "active"]

Snapshot(f) == [seq |-> f.seq, time |-> f.time, head |-> HeadRead(f), hand |-> HandRead(f.hand)]

\* _poll_control_events: every role in turn.
Emitted(q, f, c) ==
  SelectSeq(Roles, LAMBDA r : Emits(q.buttons[r], r \in f.down, f.time, c.debounce))

Noted(q, f, c) ==
  LET emitted == Emitted(q, f, c)
  IN  [q EXCEPT !.snapshot = Snapshot(f),
                !.events = @ \o [i \in DOMAIN emitted |-> <<emitted[i], f.seq>>],
                !.buttons = [r \in Range(Roles) |->
                               PolledButton(@[r], r \in f.down, f.time, c.debounce)]]

\* The body of the device if there is one, else that of the trackers.
BodyOf(f, c) ==
  LET body == IF f.body = NoBody /\ c.source = "tracker" THEN f.made ELSE f.body
  IN  IF body = Misshapen THEN NoBody ELSE body

\* _accept_pico_frame: joints that are no numbers raise, and nothing catches it.
Accepted(q, f, c) ==
  IF f.body = Unreadable THEN [Noted(q, f, c) EXCEPT !.poll = "ended"]
  ELSE [Noted(q, f, c) EXCEPT !.after = f.seq,
          !.provider = AcceptFrame(@, BodyOf(f, c), FALSE, f.time, c.gap, c.size)]

\* _poll_loop, until the provider is closed: a wait that times out or fails is repeated.
PolledFrame(q, f, c) == IF q.poll = "running" THEN Accepted(q, f, c) ELSE q
Available(q) == q.poll = "running"

\* has_frame; get_frame_packet waits for the first frame and then has the last for ever.
HasFrame(q) == q.provider.cache.frames # <<>>
FramePacket(q) == LatestPacket(q.provider.cache)

\* pop_control_events, and get_realtime_input_packet, which leaves them if it has no frame.
Popped(q) == [q EXCEPT !.events = <<>>]
PacketTaken(q) == IF HasFrame(q) THEN Popped(q) ELSE q

-----------------------------------------------------------------------------
(* TrackerArmSynthesizer: a body from the head and two trackers, each of which is held     *)
(* for a while when it is lost.                                                            *)

\* When each wrist was seen last.
NewWrists == [left |-> Never, right |-> Never]

WristSeen(held, side, valid, now) == IF valid THEN [held EXCEPT ![side] = now] ELSE held
WristKnown(held, side, now, hold) == held[side] # Never /\ now - held[side] <= hold

\* synthesize: the right wrist is not looked at unless there is a left one, and neither
\* without the head.
Synthesized(held, head, valid, now, hold) ==
  LET left == WristSeen(held, "left", valid["left"], now)
      both == WristSeen(left, "right", valid["right"], now)
  IN  IF ~head THEN [held |-> held, made |-> FALSE]
      ELSE IF ~WristKnown(left, "left", now, hold) THEN [held |-> left, made |-> FALSE]
      ELSE [held |-> both, made |-> WristKnown(both, "right", now, hold)]

-----------------------------------------------------------------------------
(* TrackerReplayBridge: a recording in the place of the device, at its own pace.  A record *)
(* has a number and a time.                                                                *)

LoneStep == 1  \* the period of a recording of one record

\* _relative_timeline: nothing is before the first record.
Elapsed(records, i) == Max({0, records[i].time - records[1].time})

\* One round lasts until the last record and the first interval; its numbers follow
\* those of the round before.
Round(records) ==
  Elapsed(records, Len(records)) + IF Len(records) > 1 THEN Elapsed(records, 2) ELSE LoneStep
Numbers(records) == { records[i].seq : i \in DOMAIN records }
Span(records) == Max(Numbers(records)) - Min(Numbers(records)) + 1

NewReplay == [cursor |-> 1, round |-> 0]

\* At the end of the recording the next round begins, if there is one.
Rewound(records, loop, r) ==
  IF r.cursor > Len(records) /\ loop THEN [cursor |-> 1, round |-> r.round + 1] ELSE r

\* frame_from_record, renumbered and restamped.
ReplayFrame(records, r) ==
  [seq |-> records[r.cursor].seq + r.round * Span(records),
   time |-> r.round * Round(records) + Elapsed(records, r.cursor)]

\* One pass of the loop of wait_frame: a record that is too far off stays for the next
\* call, one that is not newer is skipped.
ReplayPass(records, loop, r, now, timeout, after) ==
  LET at == Rewound(records, loop, r)
      frame == ReplayFrame(records, at)
      next == [at EXCEPT !.cursor = @ + 1]
  IN  IF at.cursor > Len(records) \/ frame.time > now + timeout
        THEN [kind |-> "timeout", replay |-> at, now |-> now, after |-> after]
      ELSE [kind |-> IF frame.seq <= after THEN "skip" ELSE "frame", replay |-> next,
            now |-> Max({now, frame.time}), after |-> Max({after, frame.seq}), frame |-> frame]

-----------------------------------------------------------------------------
(* sample_frame: the frame at a time, between two neighbours of the cache. *)

\* The place of a sample: the pair of frames, and the time between them.
Between(older, newer, target) ==
  IF older = newer \/ target >= newer.time THEN [older |-> newer, newer |-> newer, at |-> newer.time]
  ELSE IF target <= older.time THEN [older |-> older, newer |-> older, at |-> older.time]
  ELSE [older |-> older, newer |-> newer, at |-> target]

Ends(frames, target) ==
  IF target <= Head(frames).time THEN Between(Head(frames), Head(frames), target)
  ELSE Between(Last(frames), Last(frames), target)

\* Pico4InputProvider: the first pair that ends at or after the target.
PicoSample(frames, target) ==
  LET ends == { i \in 2..Len(frames) : target <= frames[i].time }
  IN  IF target <= Head(frames).time \/ ends = {} THEN Ends(frames, target)
      ELSE Between(frames[Min(ends) - 1], frames[Min(ends)], target)

\* UDPBVHInputProvider: the last pair that holds the target.
UdpSample(frames, target) ==
  LET pairs == { i \in 2..Len(frames) : frames[i - 1].time <= target /\ target <= frames[i].time }
  IN  IF pairs = {} THEN Ends(frames, target)
      ELSE Between(frames[Max(pairs) - 1], frames[Max(pairs)], target)

\* _process_packet: a datagram of the wrong length is passed over.
UdpReceived(cache, body, now, size) == IF body = NoBody THEN cache ELSE CacheAppend(cache, body, now, size)

\* The receiver thread: what it received, whether a frame ever came, whether its socket is
\* open.  It ends when the socket fails, and when a frame cannot be processed; either
\* way it closes the socket.
NewReceiver == [poll |-> "running", cache |-> EmptyCache, ready |-> FALSE, socket |-> TRUE]

ReceiverEnds(u) == [u EXCEPT !.poll = "ended", !.socket = FALSE]

\* _receiver_loop: close is seen once the datagram that is waited for has come or not.
UdpPolled(u, got, now, size) ==
  LET kept == [u EXCEPT !.cache = UdpReceived(@, got, now, size), !.ready = @ \/ got # NoBody]
  IN  IF u.poll = "ended" THEN u
      ELSE IF got \in {Unreadable, "socket fails"} THEN ReceiverEnds(u)
      ELSE IF u.poll = "closing" THEN ReceiverEnds(kept) ELSE kept

\* close, is_available; get_frame waits for the first frame and then has the last for ever.
UdpClosed(u) == [u EXCEPT !.poll = IF @ = "running" THEN "closing" ELSE @]
UdpAvailable(u) == u.poll = "running"
UdpPacket(u) == LatestPacket(u.cache)

-----------------------------------------------------------------------------
(* _run_pico_io_worker: what one iteration of the worker that owns the Pico input publishes. *)
(* Every stream is numbered, and a number that was just published is not published again.    *)

\* The streams in the order in which an iteration asks them.
Asked == <<"head", "body", "events", "controller", "hand">>
Streams == Range(Asked)
Nothing == -2   \* what a stream gives when it has nothing,
Raises == -3    \* or when asking it raises

\* The head has a publisher if the neck is enabled and its socket could be had.
NewWorker(neck) ==
  [running |-> TRUE, failed |-> FALSE, head |-> neck, last |-> [s \in Streams |-> -1], health |-> 0]

\* A head stream that raises loses its publisher for good, a body frame that cannot be
\* read is passed over; any other stream ends the worker with what comes after it.
Crashing(given) == { i \in DOMAIN Asked : Asked[i] \notin {"head", "body"} /\ given[Asked[i]] = Raises }
GetsTo(given, s) == \A i \in Crashing(given) : \E k \in 1..(i - 1) : Asked[k] = s

\* The streams whose packets go out; control events are not numbered.
Published(w, given) ==
  { s \in Streams : /\ GetsTo(given, s) /\ given[s] >= 0
                    /\ s = "head" => w.head
                    /\ s # "events" => given[s] # w.last[s] }

\* The head is known to have failed only while it is asked.
HeadKept(w, given) == w.head /\ given["head"] # Raises

Quiet(w) == [worker |-> w, published |-> {}, body |-> w.last["body"], beats |-> FALSE]
Iterated(w, given, command, now) ==
  LET out == Published(w, given)
      last == [s \in Streams |-> IF s \in out THEN given[s] ELSE w.last[s]]
      beats == Crashing(given) = {} /\ now - w.health >= HealthEvery
      crashed == Crashing(given) # {}
  IN  IF command = "shutdown" THEN Quiet([w EXCEPT !.running = FALSE])
      ELSE [worker |-> [running |-> ~crashed, failed |-> crashed, head |-> HeadKept(w, given),
                        last |-> last, health |-> IF beats THEN now ELSE w.health],
            \* events go out with the number of the body frame of the moment
            published |-> out, body |-> last["body"], beats |-> beats]

\* What an iteration finds in a Pico4InputProvider.
Offered(q) ==
  [s \in Streams |->
     CASE s = "body" /\ HasFrame(q)         -> FramePacket(q).seq
       [] s = "events" /\ q.events # <<>>   -> 1
       [] s \in {"head", "controller", "hand"} /\ q.snapshot.seq # Never -> q.snapshot.seq
       [] OTHER                             -> Nothing]
=============================================================================
