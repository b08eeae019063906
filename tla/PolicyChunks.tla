---------------------------- MODULE PolicyChunks ----------------------------
(*****************************************************************************)
(* What becomes of a chunk of a high-level policy, as operators: the wire it *)
(* comes over (HighLevelPolicyClient and its protocol), what the scheduler   *)
(* lets through of its values and how fast they may change, and which of its *)
(* actions is followed when (HighLevelPolicyScheduler).                      *)
(*****************************************************************************)
EXTENDS Integers, SequencesExt

CONSTANTS
  MaxHorizon,  \* MAX_ACTION_HORIZON
  MaxImage,    \* MAX_IMAGE_BYTES
  Width,       \* bytes of a float32
  Circle       \* bound: headings 0..Circle-1 of a turn

(* HighLevelPolicyClient: one request at a time over a REQ socket, which a request that *)
(* is not answered in time gives up with all that may still come on it, and what an     *)
(* answer must say to be taken.  Bytes of arrays and images are counted, not kept.      *)

-----------------------------------------------------------------------------
(* The REQ socket, and what is under way on this and on earlier ones. *)

Opened == [socket |-> 0, closed |-> FALSE]

\* _request: of the replies that have come, ZMQ delivers none that answers another
\* socket; without one the socket is recreated.
Deliverable(c, replies) == { r \in replies : r.socket = c.socket }
NoReply == [socket |-> -1]
Waited(c, replies) ==
  IF Deliverable(c, replies) = {} THEN [client |-> [c EXCEPT !.socket = @ + 1], reply |-> NoReply]
  ELSE [client |-> c, reply |-> CHOOSE r \in Deliverable(c, replies) : TRUE]

-----------------------------------------------------------------------------
(* float32 arrays: encode_float32_array, decode_float32_array. *)

AnyLength == -1
Count(shape) == FoldSeq(LAMBDA n, product : n * product, 1, shape)
Encoded(shape, finite) ==
  [dtype |-> "<f4", shape |-> shape, bytes |-> Count(shape) * Width, finite |-> finite]
Decodes(array, expected) ==
  /\ array.dtype = "<f4" /\ Len(array.shape) = Len(expected)
  /\ \A i \in DOMAIN expected :
       array.shape[i] >= 0 /\ (expected[i] = AnyLength \/ array.shape[i] = expected[i])
  /\ array.bytes = Count(array.shape) * Width
  /\ array.finite

-----------------------------------------------------------------------------
(* What a request is refused for before it is sent, and an answer after it came. *)

\* get_action: the image, the state vectors and the reference pose of an observation.
Sendable(o) ==
  /\ o.image \in 4..MaxImage /\ o.markers
  /\ o.body = Encoded(<<29>>, TRUE) /\ o.dex = Encoded(<<12>>, TRUE) /\ o.neck = Encoded(<<2>>, TRUE)
  /\ o.pose = Encoded(<<7>>, TRUE) /\ o.unit
  /\ o.seq >= 0 /\ o.stamp >= 0

\* _parse_reply: the error that the host reports, or a fault of the envelope.
Envelope(request, reply) ==
  CASE ~reply.formed \/ reply.endpoint # request.endpoint -> "invalid_response"
    [] reply.formed /\ reply.endpoint = request.endpoint /\ ~reply.ok -> reply.code
    [] OTHER -> "ok"

\* ping and reset
PingAnswer(data) == IF data.ready \in BOOLEAN THEN "ok" ELSE "invalid_response"
ResetAnswer(request, data) ==
  IF data.session = request.session /\ data.reset THEN "ok" ELSE "invalid_response"

\* describe: the first of its checks that fails.
DescribeAnswer(data) ==
  CASE ~data.schemas -> "schema_mismatch"
    [] data.schemas /\ data.fps # 30 -> "invalid_response"
    [] data.schemas /\ data.fps = 30 /\ data.ready # TRUE -> "policy_not_ready"
    [] OTHER -> IF data.horizon \in 1..MaxHorizon THEN "ok" ELSE "invalid_response"

\* get_action: an answer to another session, to another observation, then its values.
ActionAnswer(request, data) ==
  LET echoes == data.seq = request.seq /\ data.stamp = request.stamp
      chunk == data.fps = 30 /\ data.actions.shape[1] \in 1..MaxHorizon
      mine == data.session = request.session
  IN  CASE ~mine -> "session_mismatch"
        [] mine /\ ~echoes -> "stale_response"
        [] mine /\ echoes /\ data.fps = 30 /\ ~Decodes(data.actions, <<AnyLength, 50>>) -> "invalid_array"
        [] OTHER -> IF chunk THEN "ok" ELSE "invalid_response"

Answer(request, reply) ==
  IF Envelope(request, reply) # "ok" THEN Envelope(request, reply)
  ELSE CASE request.endpoint = "ping" -> PingAnswer(reply.data)
         [] request.endpoint = "describe" -> DescribeAnswer(reply.data)
         [] request.endpoint = "reset" -> ResetAnswer(request, reply.data)
         [] request.endpoint = "get_action" -> ActionAnswer(request, reply.data)

\* One call of the client: its client after it and what became of the request.
Called(c, request, replies) ==
  LET w == Waited(c, replies)
  IN  [client |-> w.client,
       result |-> IF w.reply = NoReply THEN "transport" ELSE Answer(request, w.reply)]

-----------------------------------------------------------------------------
(* The values of a chunk and their limits.  An action has a place on a line, a height, a *)
(* heading out of Circle, a joint, a hand closure and a neck angle; a limit record holds *)
(* the bounds of the safety config.                                                      *)

Least(a, b) == IF a <= b THEN a ELSE b
Within(v, low, high) == low <= v /\ v <= high
Clipped(v, low, high) == IF v < low THEN low ELSE Least(v, high)
Distance(a, b) == IF a <= b THEN b - a ELSE a - b

\* _validate_actions: one bad action refuses the chunk; a joint may be beyond its
\* limits by no more than the slack it is projected over.
ActionsValid(actions, horizon, l) ==
  /\ Len(actions) \in 1..horizon
  /\ \A i \in DOMAIN actions :
       /\ Within(actions[i].hand, 0, l.closed)
       /\ Distance(actions[i].joint, Clipped(actions[i].joint, l.joint[1], l.joint[2])) <= l.slack
       /\ Within(actions[i].height, l.height[1], l.height[2])

Projected(actions, l) ==
  [i \in DOMAIN actions |->
     [actions[i] EXCEPT !.joint = Clipped(@, l.joint[1], l.joint[2]),
                        !.neck = Clipped(@, l.neck[1], l.neck[2])]]

\* From one value towards another, no further than most.
Toward(from, to, most) == from + Clipped(to - from, -most, most)

\* The turn to a heading, the short way.
Turn(from, to) == LET d == (to - from) % Circle IN IF 2 * d > Circle THEN d - Circle ELSE d

\* One part of a displacement whose other part is rest, shortened so that the norm of the
\* two is most at most: both by one factor, rounded towards zero.
Shortened(part, rest, most) ==
  LET square == part * part + rest * rest
      bound == part * part * (most * most)
      size == CHOOSE q \in 0..Distance(0, part) : q * q * square <= bound /\ bound < (q + 1) * (q + 1) * square
  IN  IF square <= most * most THEN part ELSE IF part < 0 THEN -size ELSE size

\* _rate_limit_output: the body moves towards the action, its place and height together
\* no further than move and its place no further than speed; hands and neck do not wait.
RateLimited(previous, desired, l) ==
  LET along == desired.place - previous.place
      up == desired.height - previous.height
  IN  [desired EXCEPT
         !.place = previous.place + Clipped(Shortened(along, up, l.move), -l.speed, l.speed),
         !.height = previous.height + Shortened(up, along, l.move),
         !.yaw = (previous.yaw + Clipped(Turn(previous.yaw, @), -l.turn, l.turn)) % Circle,
         !.joint = Toward(previous.joint, @, l.rate)]

\* sample: the first output of a session is the action itself.
Output(previous, desired, l) ==
  IF previous = <<>> THEN desired ELSE RateLimited(previous[1], desired, l)

-----------------------------------------------------------------------------
(* Which action is followed.  Time is in ticks; period is the time between two actions of *)
(* a chunk, hold how long the last one is held; the values of actions are left out.       *)

NotPaused == -1
NoSample == [from |-> -1, to |-> -1, into |-> 0]

\* reset: no chunk, no pause; stamp and sequence of the last chunk are forgotten.
Fresh == [seq |-> -1, stamp |-> -1, length |-> 0, pausedAt |-> NotPaused, shift |-> 0]

EndOf(stamp, length, period, hold) == stamp + length * period + hold

\* _accept: newer than the last chunk in both counts, not of the future and not over.
Acceptable(s, seq, stamp, length, now, period, hold) ==
  /\ seq > s.seq /\ stamp > s.stamp /\ stamp <= now /\ length > 0
  /\ now <= EndOf(stamp, length, period, hold)

\* A chunk that is accepted in a pause starts its own pause.
Accepted(s, seq, stamp, length, now) ==
  [seq |-> seq, stamp |-> stamp, length |-> length, shift |-> 0,
   pausedAt |-> IF s.pausedAt = NotPaused THEN NotPaused ELSE now]

Paused(s, now) == IF s.pausedAt = NotPaused THEN [s EXCEPT !.pausedAt = now] ELSE s

Resumed(s, now) ==
  IF s.pausedAt = NotPaused THEN s
  ELSE [s EXCEPT !.shift = @ + (now - s.pausedAt), !.pausedAt = NotPaused]

\* _sample_unlimited: how far into the chunk the present is, with its pauses cut out.
Position(s, now) == (IF s.pausedAt = NotPaused THEN now ELSE s.pausedAt) - (s.stamp + s.shift)

\* The actions that a sample lies between, and how far: the first one held before
\* its time, the last one for hold after its own.
SampleOf(s, now, period, hold) ==
  LET p == Position(s, now)
      last == s.length - 1
      at(i) == [from |-> i, to |-> i, into |-> 0]
  IN  CASE s.length = 0 -> NoSample
        [] s.length > 0 /\ p <= 0 -> at(0)
        [] s.length > 0 /\ p > 0 /\ p >= last * period ->
             IF p > EndOf(0, s.length, period, hold) THEN NoSample ELSE at(last)
        [] OTHER -> [from |-> p \div period, to |-> p \div period + 1, into |-> p % period]

-----------------------------------------------------------------------------
(* What was followed when, to tell the host of the reference that a camera *)
(* frame was taken under.                                                  *)

\* _record_reference: of each output, and again of the last one when a pause begins
\* and when it ends.
Recorded(history, time, pose, size) ==
  LET kept == IF history # <<>> /\ Last(history).time = time THEN Front(history) ELSE history
      grown == Append(kept, [time |-> time, pose |-> pose])
  IN  SubSeq(grown, 1 + IF Len(grown) > size THEN Len(grown) - size ELSE 0, Len(grown))

\* reference_root_pose_at: between the poses recorded before and after, unless gap or
\* more lies between them; the ends beyond the ends.
RootAt(history, time, gap) ==
  LET newer == { i \in DOMAIN history : history[i].time > time }
      right == CHOOSE i \in newer : \A j \in newer : i <= j
      before(i) == [left |-> history[i].pose, right |-> history[i].pose, into |-> 0]
  IN  CASE time <= Head(history).time -> before(1)
        [] time > Head(history).time /\ newer = {} -> before(Len(history))
        [] OTHER ->
             IF history[right].time - history[right - 1].time > gap THEN before(right - 1)
             ELSE [left |-> history[right - 1].pose, right |-> history[right].pose,
                   into |-> time - history[right - 1].time]
=============================================================================
