--------------------------- MODULE MCPolicyTeleop ---------------------------
(* PolicyTeleop for TLC, and what a policy, its client and its schedule promise of *)
(* chunks, over short scripts.                                                     *)
EXTENDS PolicyTeleop, Integers, FiniteSets, Sequences

Chunk == INSTANCE PolicyChunks WITH MaxHorizon <- 50, MaxImage <- 1572864, Width <- 4, Circle <- 8

\* What happens at each tick: a chunk observed some ticks ago, a pause, a resume.
Happenings == {"chunk0", "chunk3", "pause", "resume", "nothing"}
Scripts == [1..5 -> Happenings]
Lengths == {1, 3}
Period == 2
Hold == 0

\* The schedule after tick n; a chunk that is not acceptable is refused.
Offer(s, length, stamp, n) ==
  IF Chunk!Acceptable(s, n, stamp, length, n, Period, Hold)
    THEN Chunk!Accepted(s, n, stamp, length, n) ELSE s
Played(script, length) ==
  LET after[n \in 0..5] ==
        IF n = 0 THEN Chunk!Fresh
        ELSE CASE script[n] = "chunk0" -> Offer(after[n - 1], length, n, n)
               [] script[n] = "chunk3" -> Offer(after[n - 1], length, n - 3, n)
               [] script[n] = "pause" -> Chunk!Paused(after[n - 1], n)
               [] script[n] = "resume" -> Chunk!Resumed(after[n - 1], n)
               [] OTHER -> after[n - 1]
  IN  after

\* A chunk goes on exactly while nothing is paused, however pauses, resumes and
\* later chunks mix: its place is its age when it came plus the unpaused ticks since.
ASSUME PausesDoNotCount ==
  \A script \in Scripts, length \in Lengths :
    LET s == Played(script, length)
    IN  \A n \in 1..5 : s[n].length > 0 =>
          Chunk!Position(s[n], n) =
            (s[n].seq - s[n].stamp)
              + Cardinality({ k \in s[n].seq..(n - 1) : s[k].pausedAt = Chunk!NotPaused })

\* A chunk that is accepted can be followed at once.
ASSUME AcceptedIsFollowed ==
  \A script \in Scripts, length \in Lengths : \A n \in 1..5 :
    LET s == Played(script, length)[n]
    IN  s.length > 0 /\ s.seq = n => Chunk!SampleOf(s, n, Period, Hold) # Chunk!NoSample

\* Until another chunk comes, the action that is followed never goes back, and no
\* action is skipped from one tick to the next.
ASSUME ActionsInOrder ==
  \A script \in Scripts, length \in Lengths : \A n \in 1..4 :
    LET s == Played(script, length)
        now == Chunk!SampleOf(s[n], n, Period, Hold)
        later == Chunk!SampleOf(s[n + 1], n + 1, Period, Hold)
    IN  s[n].seq = s[n + 1].seq /\ later # Chunk!NoSample =>
          later.from \in now.from..(now.from + 1)

\* A control step every Beat ticks follows a new pose, or pauses, or resumes.
Steps == [1..6 -> {"follow", "pause", "resume"}]
Beat == 2
Gap == 5
Poses(script) ==
  LET first == [history |-> Chunk!Recorded(<<>>, 0, 0, 10), pose |-> 0, holds |-> FALSE]
      recorded(s, n, pose, holds) ==
        [history |-> Chunk!Recorded(s.history, n * Beat, pose, 10), pose |-> pose, holds |-> holds]
      after[n \in 0..6] ==
        IF n = 0 THEN first
        ELSE LET s == after[n - 1]
             IN  CASE script[n] # "pause" /\ ~s.holds -> recorded(s, n, n, FALSE)
                   [] script[n] = "pause" /\ ~s.holds -> recorded(s, n, s.pose, TRUE)
                   [] script[n] = "resume" /\ s.holds -> recorded(s, n, s.pose, FALSE)
                   [] OTHER -> s
  IN  after

\* The reference told for a camera frame lies between the poses followed before and
\* after it was taken; one that was taken in a pause is told the pose held in it.
ASSUME ReferenceWasFollowed ==
  \A script \in Steps :
    LET s == Poses(script)
    IN  \A time \in 0..(6 * Beat - 1) :
          LET n == time \div Beat
              root == Chunk!RootAt(s[6].history, time, Gap)
          IN  /\ root.left = s[n].pose
              /\ root.right \in {s[n].pose, s[n + 1].pose}
              /\ s[n].holds => root.right = s[n].pose

-----------------------------------------------------------------------------
(* The client of a high-level policy and the limits of its actions. *)

-----------------------------------------------------------------------------
(* Three requests in a row.  The host answers each of them after some rounds, or *)
(* never (Late), right, for another session, for another observation, or with a   *)
(* chunk cut short; it may also repeat its answer to the request before.          *)

Late == 9
HostAnswers == {"right", "session", "observation", "short", "error"}
HostScripts == [1..3 -> (0..2) \cup {Late}] \X [1..3 -> HostAnswers]
RequestOf(n) == [endpoint |-> "get_action", session |-> 7, seq |-> n, stamp |-> 100 + n]
Rows == Chunk!Encoded(<<3, 50>>, TRUE)
ReplyTo(n, socket, answer) ==
  [socket |-> socket, of |-> n, formed |-> TRUE, endpoint |-> "get_action",
   ok |-> answer # "error", code |-> "busy",
   data |-> [session |-> IF answer = "session" THEN 6 ELSE 7, seq |-> IF answer = "observation" THEN n - 1 ELSE n,
             stamp |-> 100 + n, fps |-> 30,
             actions |-> IF answer = "short" THEN [Rows EXCEPT !.bytes = @ - 4] ELSE Rows]]

\* The sockets that the requests went out on, and what became of them.
CallsOf(script) ==
  LET delay == script[1]
      after[n \in 0..3] ==
        IF n = 0 THEN [client |-> Chunk!Opened, sent |-> <<>>, results |-> <<>>]
        ELSE LET s == after[n - 1]
                 sent == Append(s.sent, s.client.socket)
                 come == { ReplyTo(k, sent[k], script[2][k]) : k \in { i \in 1..n : i + delay[i] = n } }
                 call == Chunk!Called(s.client, RequestOf(n), come)
             IN  [client |-> call.client, sent |-> sent, results |-> Append(s.results, call.result)]
  IN  after[3]

\* A request is answered by the host's answer to itself or by nothing, however late
\* the answers to the ones before it come; and only the right one is taken.
ASSUME AnswersAreToRequests ==
  \A script \in HostScripts :
    LET results == CallsOf(script).results
    IN  \A n \in 1..3 :
          /\ results[n] = "ok" <=> script[1][n] = 0 /\ script[2][n] = "right"
          /\ results[n] = "transport" <=> script[1][n] # 0

\* An answer that is refused leaves the socket to the next request, one that is late
\* takes it away.
ASSUME RefusalKeepsSocket ==
  \A script \in HostScripts :
    LET calls == CallsOf(script)
    IN  \A n \in 1..2 : (calls.sent[n + 1] = calls.sent[n]) = (calls.results[n] # "transport")

\* Were late answers delivered, the echo of the observation alone would refuse them.
ASSUME EchoRefusesLateAnswer ==
  \A n, of \in 1..3, answer \in HostAnswers \ {"observation"} :
    n # of => Chunk!Answer(RequestOf(n), ReplyTo(of, 0, answer)) # "ok"

ArrayShapes == { <<n>> : n \in 0..3 } \cup { <<n, k>> : n \in 0..3, k \in 0..2 }
Expected == ArrayShapes \cup { <<Chunk!AnyLength, k>> : k \in 0..2 }
\* An array that was encoded is decoded with its shape or not at all, whatever shape
\* is expected; one that lost bytes is not.
ASSUME ArraysKeepShape ==
  \A shape \in ArrayShapes, expected \in Expected, finite \in BOOLEAN :
    LET array == Chunk!Encoded(shape, finite)
        fits == Len(shape) = Len(expected)
                  /\ \A i \in DOMAIN shape : expected[i] \in {shape[i], Chunk!AnyLength}
    IN  /\ Chunk!Decodes(array, expected) = (finite /\ fits)
        /\ ~Chunk!Decodes([array EXCEPT !.bytes = @ + 4], expected)

\* A request that may be sent fits a message of MAX_REQUEST_BYTES with half a kilobyte
\* for its field names, and a chunk of MaxHorizon actions one of MAX_RESPONSE_BYTES.
ASSUME MessagesFit ==
  /\ 1572864 + 1024 + 128 + 4 * (29 + 12 + 2 + 7) + 512 <= 2097152
  /\ Chunk!Encoded(<<50, 50>>, TRUE).bytes + 512 <= 262144

-----------------------------------------------------------------------------
(* The values of the actions. *)

ActionBounds == [closed |-> 2, joint |-> <<1, 4>>, slack |-> 1, height |-> <<0, 3>>, neck |-> <<1, 2>>,
                 move |-> 2, speed |-> 1, turn |-> 1, rate |-> 1]
LimitAction(joint, height, yaw) ==
  [place |-> 2 * joint, height |-> height, yaw |-> yaw, joint |-> joint, hand |-> 1, neck |-> 3]
LimitActions == { LimitAction(joint, height, yaw) : joint \in 0..6, height \in {-1, 0, 3, 4}, yaw \in {0, 3, 4, 7} }
LimitChunks == { <<a>> : a \in LimitActions } \cup { <<a, b>> : a \in LimitActions, b \in { c \in LimitActions : c.yaw = 0 } }
InBounds(a) == Chunk!Within(a.joint, 1, 4) /\ Chunk!Within(a.height, 0, 3) /\ Chunk!Within(a.neck, 1, 2)

\* A chunk that is accepted is within every limit once it is projected, and no joint
\* of it was moved by more than the slack.
ASSUME AcceptedIsWithinLimits ==
  \A rows \in LimitChunks :
    LET projected == Chunk!Projected(rows, ActionBounds)
    IN  Chunk!ActionsValid(rows, 2, ActionBounds) =>
          \A i \in DOMAIN rows :
            InBounds(projected[i]) /\ Chunk!Distance(rows[i].joint, projected[i].joint) <= 1

GoodActions == { Chunk!Projected(<<a>>, ActionBounds)[1] :
                   a \in { b \in LimitActions : Chunk!ActionsValid(<<b>>, 1, ActionBounds) } }
OutputsOf(from, to) ==
  LET after[n \in 0..13] ==
        IF n = 0 THEN from ELSE Chunk!RateLimited(after[n - 1], to, ActionBounds)
  IN  after
\* How far apart two headings of the eight are, whichever way is shorter.
HeadingsApart(a, b) == LET d == (a - b) % 8 IN IF d > 4 THEN 8 - d ELSE d
RootApart(a, b) == Chunk!Distance(a.place, b.place) + Chunk!Distance(a.height, b.height)
Largest(parts) == CHOOSE p \in parts : \A q \in parts : q <= p
TurnAndJoint(from, to) == { HeadingsApart(from.yaw, to.yaw), Chunk!Distance(from.joint, to.joint) }
SoonestOf(from, to) ==
  Largest(TurnAndJoint(from, to)
          \cup { Chunk!Distance(from.place, to.place), (Chunk!Distance(from.height, to.height) + 1) \div 2 })
LatestOf(from, to) == Largest(TurnAndJoint(from, to) \cup { RootApart(from, to) })

\* From an output within the limits, a fixed action is reached through outputs within
\* them, no part of one further from it than of the one before, and no two in a row further
\* apart than the limits: not sooner than its slowest part alone would be, and although place
\* and height share a limit never later than going one unit at a time; and the first output
\* of a session is not slowed.
ASSUME OutputsReachActions ==
  \A from, to \in GoodActions :
    LET o == OutputsOf(from, to)
    IN  /\ \A n \in 0..13 : InBounds(o[n])
        /\ \A n \in 1..13 :
             LET place == Chunk!Distance(o[n - 1].place, o[n].place)
                 height == Chunk!Distance(o[n - 1].height, o[n].height)
             IN  /\ place <= 1 /\ place * place + height * height <= 4
                 /\ Chunk!Distance(o[n].place, to.place) = Chunk!Distance(o[n - 1].place, to.place) - place
                 /\ Chunk!Distance(o[n].height, to.height) = Chunk!Distance(o[n - 1].height, to.height) - height
                 /\ Chunk!Distance(o[n].joint, to.joint) <= Chunk!Distance(o[n - 1].joint, to.joint)
                 /\ HeadingsApart(o[n].yaw, to.yaw) <= HeadingsApart(o[n - 1].yaw, to.yaw)
                 /\ HeadingsApart(o[n - 1].yaw, o[n].yaw) <= 1
        /\ \A n \in 0..13 : /\ o[n] = to => n >= SoonestOf(from, to)
                            /\ n >= LatestOf(from, to) => o[n] = to
        /\ Chunk!Output(<<>>, to, ActionBounds) = to
=============================================================================
