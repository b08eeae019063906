----------------------------- MODULE MCRecording -----------------------------
(* The instance of RecordingSession for TLC, with the checks of what an episode holds, *)
(* over all configurations and over short sessions of its reviewer.                    *)
EXTENDS RecordingSession

Review == INSTANCE Reviewers

CameraKeys == {"", "camera", "action", "observation.state.hand", "timestamp"}
RecordingConfigs ==
  [key : CameraKeys, width : {0, 2}, height : {2}, fps : {0, 30}, robot : {"unitree_g1_29dof", "other"},
   hand : Review!Hands \cup {"inspire_ftp"}, neck : Review!Necks]

\* Whatever recording is configured can be reviewed, unless its camera takes the name of
\* what is recorded beside it, or of what would be; it cannot with a feature less, nor
\* with a device that it was not recorded with.
ASSUME WrittenSchemasLoad ==
  \A c \in RecordingConfigs : Review!ConfigValid(c) =>
    LET s == Review!Schema(c)
        without(key) == [s EXCEPT !.features = [k \in DOMAIN @ \ {key} |-> @[k]]]
    IN  /\ Review!SchemaLoads(s) <=> c.key = "camera"
        /\ \A key \in DOMAIN s.features : ~Review!SchemaLoads(without(key))
        /\ \A hand \in Review!Hands, neck \in Review!Necks :
             Review!SchemaLoads(s) /\ Review!SchemaLoads([s EXCEPT !.hand = hand, !.neck = neck]) =>
               Review!Stored(hand, neck) = Review!Stored(c.hand, c.neck)

-----------------------------------------------------------------------------
HandConfig(hand) == [key |-> "camera", width |-> 2, height |-> 2, fps |-> 30, robot |-> "unitree_g1_29dof",
                     hand |-> hand, neck |-> "none"]
\* A frame as it should be, and those that differ from it in one part.
FrameInputs(hand) ==
  LET held(key) == key \in Review!Stored(hand, "none")
      whole == [image |-> <<2, 2, 3>>, mode |-> 1, finite |-> TRUE, oriented |-> TRUE,
                dims |-> [key \in DOMAIN Review!AllVectors |-> IF held(key) THEN Review!AllVectors[key] ELSE Review!None]]
  IN  { whole, [whole EXCEPT !.image = <<2, 3, 3>>], [whole EXCEPT !.mode = 4], [whole EXCEPT !.finite = FALSE],
        [whole EXCEPT !.oriented = FALSE], [whole EXCEPT !.dims["action"] = 35], [whole EXCEPT !.dims["action.neck"] = 2],
        [whole EXCEPT !.dims["action.hand"] = IF @ = Review!None THEN 12 ELSE Review!None] }
FrameRuns(hand) ==
  LET after[n \in 0..3] ==
        IF n = 0 THEN {Review!NewEpisode(HandConfig(hand))}
        ELSE { Review!FrameAdded(HandConfig(hand), e, f, failure).episode :
                 e \in after[n - 1], f \in FrameInputs(hand), failure \in {"none", "encoding", "writing"} }
  IN  UNION { after[n] : n \in 0..3 }

\* A frame that is refused leaves its episode as it was.  What is saved can be reviewed if
\* no failure came after its last frame, none left a picture behind, and its numbers are
\* usable, which is all that is not looked at when they are taken; the manifest sees the
\* first of the three only.  A failure that is the last is seen, whatever it was.
ASSUME TakenFramesLoad ==
  \A hand \in {"none", "linkerhand_l6"} : \A e \in FrameRuns(hand) :
    LET c == HandConfig(hand)
        s == Review!Schema(c)
        entry == Review!Saved(c, e, 0, "task")
        even == Len(e.rows) = e.frames
        usable == \A i \in DOMAIN e.rows : e.rows[i].finite /\ e.rows[i].oriented
    IN  /\ e.frames > 0 => (Review!ManifestLoads(s, <<entry>>) <=> even)
        /\ e.frames > 0 => (Review!EpisodeLoads(s, entry) <=> even /\ e.pictures = e.frames /\ usable)
        /\ e.pictures >= e.frames /\ Len(e.rows) \in {e.frames, e.frames + 1}
        /\ \A f \in FrameInputs(hand), failure \in {"none", "encoding", "writing"} :
             LET x == Review!FrameAdded(c, e, f, failure)
             IN  IF ~Review!FrameFits(c, f) THEN x = [episode |-> e, raised |-> TRUE]
                 ELSE /\ x.raised <=> failure # "none"
                      /\ Review!ManifestLoads(s, <<Review!Saved(c, x.episode, 0, "task")>>) <=> failure = "none"

-----------------------------------------------------------------------------
\* Short sessions of the reviewer: one episode does not load, one has a frame that does
\* not decode, or everything is as it should be.
Whole == <<[frames |-> 3, loads |-> TRUE, decodes |-> 0..2], [frames |-> 1, loads |-> TRUE, decodes |-> {0}]>>
Reviewed == <<[frames |-> 3, loads |-> TRUE, decodes |-> 0..2], [frames |-> 1, loads |-> TRUE, decodes |-> {0}],
              [frames |-> 2, loads |-> FALSE, decodes |-> {0, 1}], [frames |-> 2, loads |-> TRUE, decodes |-> {0}]>>
UserActs(r, episodes) ==
  { r } \cup { Review!Scrubbed(r, f) : f \in 0..(episodes[r.episode].frames - 1) }
  \cup { Review!Selected(r, e) : e \in DOMAIN episodes } \cup { Review!SpeedSet(r, 8) }
  \cup { Review!Pressed(r, a) : a \in {"toggle_play", "restart", "previous", "next"} }
  \cup { Review!ReferenceChosen(r, ~r.reference), Review!JointChosen(r), Review!HandChosen(r) }
NothingLate == [episode |-> Review!None, scrub |-> Review!None]
\* Something is asked before an iteration and between its parts.
ReviewSteps(r, episodes) ==
  LET between(u) == UserActs(Review!Processed(u, episodes, NothingLate), episodes)
  IN  { Review!Advanced(v, episodes, elapsed) : v \in UNION { between(u) : u \in UserActs(r, episodes) }, elapsed \in {3, 6} }
SessionsOf(episodes) ==
  LET after[n \in 0..3] ==
        IF n = 0 THEN { Review!Started(e) : e \in { x \in DOMAIN episodes : Review!CanStart(episodes, x) } }
        ELSE UNION { ReviewSteps(r, episodes) : r \in { q \in after[n - 1] : q.running } }
  IN  UNION { after[n] : n \in 0..3 }
ReviewRuns == SessionsOf(Reviewed)

\* Nothing that is asked ends the reviewer of a whole recording: not a scrub for the
\* episode before, nor a button past the first or last.
ASSUME WholeRecordingsRunOn == \A r \in SessionsOf(Whole) : r.running

\* One video is open, that of the episode that is shown, with its charts, and none once the
\* reviewer has gone; an episode that cannot be read never takes the place of another.
ASSUME OneVideoOpen ==
  \A r \in ReviewRuns :
    /\ r.videos = IF r.running THEN {r.episode} ELSE {}
    /\ Reviewed[r.episode].loads /\ r.charts = r.episode

\* The frame that is shown is one of its episode, even if a scrub was of another one, and
\* slider, dropdown and reference are as shown when nothing waits; no playback runs on from
\* the end, and what is left of a frame is less than one.
ASSUME FrameIsShown ==
  \A r \in { q \in ReviewRuns : q.running } :
    /\ r.frame \in Reviewed[r.episode].decodes /\ r.part \in 0..15
    /\ r.scrub = Review!None => r.slider = r.frame
    /\ r.asked = Review!None => r.dropdown = r.episode
    /\ r.actions = <<>> => r.overlay = r.reference
    /\ r.playing /\ r.frame = Review!LastFrame(r, Reviewed) => r.frame = 0

\* What is asked for while the request before it is read is lost.  Slider and dropdown go
\* back to what is shown all the same, unless that is what the first request asked for.
ASSUME LostScrubIsUndone ==
  \A r \in { q \in ReviewRuns : q.running /\ q.asked = Review!None /\ q.actions = <<>> } :
    /\ \A frame, late \in 0..(Reviewed[r.episode].frames - 1) :
         LET u == Review!Scrubbed(r, frame)
             q == Review!Processed(u, Reviewed, [NothingLate EXCEPT !.scrub = late])
         IN  q.running => q.scrub = Review!None /\ (u.scrub # r.frame => q.slider = q.frame)
    /\ \A chosen, late \in DOMAIN Reviewed :
         LET u == Review!Selected(r, chosen)
             q == Review!Processed(u, Reviewed, [NothingLate EXCEPT !.episode = late])
         IN  q.running => q.asked = Review!None /\ (chosen # r.episode => q.dropdown = q.episode)
=============================================================================
