------------------------------ MODULE Reviewers ------------------------------
(**********************************************************************************)
(* What an episode of a recording holds, as operators: the schema that the        *)
(* recorder writes, the frames it takes, what view_recording.py requires of both, *)
(* and its reviewer; and view_dataset.py, the viewer of a motion data set.  The   *)
(* callbacks of their panels leave requests that a loop takes up.                 *)
(* RecordingSession has the files of a recording and their fate.                  *)
(**********************************************************************************)
EXTENDS Integers, Sequences, FiniteSets, SequencesExt, TLC

None == -1

-----------------------------------------------------------------------------
(* The features of a recording.  A column has a type and the shape of one row; its *)
(* names are counted.  A vector's name says how many numbers it has.               *)

ModeCodes == ("standing" :> 0) @@ ("mocap" :> 1) @@ ("arms" :> 2) @@ ("pause" :> 3)
Hands == {"none", "linkerhand_l6", "linkerhand_o6"}
Necks == {"none", "openneck"}

Scalars == ("frame_index" :> "int64") @@ ("timestamp" :> "float64") @@ ("observation.mode" :> "int8")
Vectors == ("observation.state" :> 68) @@ ("action" :> 36)
HandVectors == ("observation.state.hand" :> 12) @@ ("action.hand" :> 12)
NeckVectors == ("observation.state.neck" :> 2) @@ ("action.neck" :> 2)
AllVectors == Vectors @@ HandVectors @@ NeckVectors

\* What is kept in the HDF5 file of an episode, with a hand and a neck or without.
Stored(hand, neck) ==
  DOMAIN Scalars \cup DOMAIN Vectors
  \cup (IF hand = "none" THEN {} ELSE DOMAIN HandVectors) \cup (IF neck = "none" THEN {} ELSE DOMAIN NeckVectors)
Type(key) == IF key \in DOMAIN Scalars THEN Scalars[key] ELSE "float32"
Shape(key) == IF key \in DOMAIN Scalars THEN <<>> ELSE <<AllVectors[key]>>

\* build_recording_schema, of entries that have been parsed.
ConfigValid(c) ==
  /\ c.key # "" /\ c.width > 0 /\ c.height > 0 /\ c.fps > 0
  /\ c.robot = "unitree_g1_29dof" /\ c.hand \in Hands /\ c.neck \in Necks

\* hdf5_schema.  The camera's feature comes last, and takes the place of one that has its key.
Feature(key) ==
  [dtype |-> Type(key), shape |-> Shape(key), names |-> IF key \in DOMAIN Scalars THEN 0 ELSE AllVectors[key],
   values |-> IF key = "observation.mode" THEN ModeCodes ELSE << >>]
Video(c) == [dtype |-> "video", shape |-> <<c.height, c.width, 3>>, names |-> 3, values |-> << >>]
Schema(c) ==
  [format |-> "teleopit_hdf5", version |-> 4, fps |-> c.fps, hand |-> c.hand, neck |-> c.neck,
   features |-> (c.key :> Video(c)) @@ [key \in Stored(c.hand, c.neck) |-> Feature(key)]]

-----------------------------------------------------------------------------
(* load_recording_dataset: the schema, then the manifest, each entry with its files. *)

Shaped(s, key, shape) == key \in DOMAIN s.features /\ s.features[key].shape = shape
Named(s, key, count) == key \in DOMAIN s.features /\ s.features[key].names = count
Videos(s) == { key \in DOMAIN s.features : s.features[key].dtype = "video" }
PictureShape(shape) == Len(shape) = 3 /\ shape[3] = 3 /\ \A i \in 1..3 : shape[i] > 0
ModesUsable(modes) == DOMAIN modes # {} /\ IsInjective(modes)
\* A device that the schema names has its two features, one that it does not name has none.
DeviceFits(s, kind, vectors) ==
  IF kind = "none" THEN DOMAIN vectors \cap DOMAIN s.features = {}
  ELSE \A key \in DOMAIN vectors : Shaped(s, key, <<vectors[key]>>) /\ Named(s, key, vectors[key])

SchemaLoads(s) ==
  /\ s.format = "teleopit_hdf5" /\ s.version = 4 /\ s.fps > 0
  /\ \A key \in DOMAIN Scalars \cup DOMAIN Vectors : Shaped(s, key, Shape(key))
  /\ Cardinality(Videos(s)) = 1 /\ \A key \in Videos(s) : PictureShape(s.features[key].shape)
  /\ ModesUsable(s.features["observation.mode"].values) /\ Named(s, "action", 36)
  /\ DeviceFits(s, s.hand, HandVectors) /\ DeviceFits(s, s.neck, NeckVectors)

\* _validate_hdf5_episode: every column is there, as long as the manifest says, with the
\* type and the shape that the schema says.
FileFits(s, columns, frames) ==
  \A key \in Stored(s.hand, s.neck) :
    /\ key \in DOMAIN columns
    /\ columns[key].shape = <<frames>> \o s.features[key].shape /\ columns[key].dtype = s.features[key].dtype

\* _resolve_recording_path: a path is that of a file of the recording, or of nothing that
\* the reviewer takes: it leads out of the recording, is absolute, or no file is there.
EntryLoads(s, entry, place) ==
  /\ entry.index = place - 1 /\ entry.frames > 0 /\ entry.task # ""
  /\ \A key \in Videos(s) : key \in DOMAIN entry.videos /\ entry.videos[key].resolves
  /\ entry.data.resolves /\ FileFits(s, entry.data.columns, entry.frames)
ManifestLoads(s, entries) == entries # <<>> /\ \A i \in DOMAIN entries : EntryLoads(s, entries[i], i)

-----------------------------------------------------------------------------
(* TeleopitHDF5Recorder.  An episode's columns are resized together, so that it has rows; *)
(* a time is a number of frames.  finite says that a row's numbers are, oriented that its *)
(* two orientations are not zero, which no check asks of a frame.                         *)

NewEpisode(c) == [frames |-> 0, rows |-> <<>>, pictures |-> 0]
\* What a row holds before it is written.
Blank == [index |-> 0, time |-> 0, mode |-> 0, finite |-> TRUE, oriented |-> FALSE]
RowOf(f, place) == [index |-> place, time |-> place, mode |-> f.mode, finite |-> f.finite, oriented |-> f.oriented]

\* dims has the lengths of a frame's vectors, None for one that it lacks.
FrameFits(c, f) ==
  /\ f.image = <<c.height, c.width, 3>> /\ f.mode \in { ModeCodes[name] : name \in DOMAIN ModeCodes }
  /\ \A key \in DOMAIN AllVectors : f.dims[key] = IF key \in Stored(c.hand, c.neck) THEN AllVectors[key] ELSE None

\* add_frame: the columns grow before the picture is encoded, and the picture is encoded
\* before the row is written; what fails on the way leaves what was done before it.
FrameAdded(c, e, f, failure) ==
  LET grown == SubSeq(Append(e.rows, Blank), 1, e.frames + 1)
  IN  CASE ~FrameFits(c, f) -> [episode |-> e, raised |-> TRUE]
        [] FrameFits(c, f) /\ failure = "encoding" -> [episode |-> [e EXCEPT !.rows = grown], raised |-> TRUE]
        [] FrameFits(c, f) /\ failure = "writing" ->
             [episode |-> [e EXCEPT !.rows = grown, !.pictures = @ + 1], raised |-> TRUE]
        [] OTHER -> [episode |-> [frames |-> e.frames + 1, pictures |-> e.pictures + 1,
                                  rows |-> [grown EXCEPT ![e.frames + 1] = RowOf(f, e.frames)]],
                     raised |-> FALSE]

\* save_episode: the manifest's entry, with the files that it names.
ColumnsOf(c, e) ==
  [key \in Stored(c.hand, c.neck) |-> [dtype |-> Type(key), shape |-> <<Len(e.rows)>> \o Shape(key)]]
Saved(c, e, index, task) ==
  [index |-> index, frames |-> e.frames, task |-> task,
   data |-> [resolves |-> TRUE, columns |-> ColumnsOf(c, e), rows |-> e.rows],
   videos |-> c.key :> [resolves |-> TRUE, pictures |-> e.pictures, fps |-> c.fps, shape |-> <<c.height, c.width, 3>>]]

-----------------------------------------------------------------------------
(* One episode is opened: load_episode_review_data and RecordingVideoReader. *)

RowsUsable(s, rows, frames) ==
  /\ [i \in DOMAIN rows |-> rows[i].index] = [i \in 1..frames |-> i - 1]
  /\ \A i \in DOMAIN rows : rows[i].finite
  /\ \A i \in 1..(frames - 1) : rows[i].time < rows[i + 1].time
  /\ LET codes == s.features["observation.mode"].values
     IN  \A i \in DOMAIN rows : \E name \in DOMAIN codes : codes[name] = rows[i].mode
  /\ \A i \in DOMAIN rows : rows[i].oriented
VideoOpens(s, video, frames) == video.pictures = frames /\ video.fps = s.fps
EpisodeLoads(s, entry) ==
  /\ RowsUsable(s, entry.data.rows, entry.frames)
  /\ \A key \in Videos(s) : VideoOpens(s, entry.videos[key], entry.frames)
\* read_frame refuses a picture of another shape.
PictureReads(s, video) == \A key \in Videos(s) : video.shape = s.features[key].shape

-----------------------------------------------------------------------------
(* RecordingReviewerApp, over episodes that have frames, load or not, and have frames *)
(* that decode.  Speed is in quarters, part in sixteenths of a frame; videos has the   *)
(* captures that are open, charts and overlay what the panel and the scene show.       *)

\* main and __init__: the first frame of the first episode must be there.
CanStart(episodes, first) == first \in DOMAIN episodes /\ episodes[first].loads /\ 0 \in episodes[first].decodes
Started(first) ==
  [episode |-> first, dropdown |-> first, frame |-> 0, slider |-> 0, playing |-> FALSE, speed |-> 4, part |-> 0,
   reference |-> TRUE, overlay |-> TRUE, charts |-> first, scrub |-> None, asked |-> None, joint |-> FALSE, hand |-> FALSE,
   actions |-> <<>>, videos |-> {first}, running |-> TRUE]

\* The callbacks of the panel.  The server calls those of slider and dropdown when the
\* loop sets them, too: what is shown already is not asked for.
Scrubbed(r, frame) == [r EXCEPT !.slider = frame, !.scrub = IF frame # r.frame THEN frame ELSE @]
Selected(r, episode) == [r EXCEPT !.dropdown = episode, !.asked = IF episode # r.episode THEN episode ELSE @]
Pressed(r, action) == [r EXCEPT !.actions = Append(@, action)]
ReferenceChosen(r, on) == [r EXCEPT !.reference = on, !.actions = Append(@, "refresh")]
JointChosen(r) == [r EXCEPT !.joint = TRUE]
HandChosen(r) == [r EXCEPT !.hand = TRUE]
SpeedSet(r, speed) == [r EXCEPT !.speed = speed]

Playing(r, on) == [r EXCEPT !.playing = on, !.part = 0]
Charted(r) == [r EXCEPT !.charts = r.episode]
LastFrame(r, episodes) == episodes[r.episode].frames - 1
Held(value, least, most) == IF value < least THEN least ELSE IF value > most THEN most ELSE value

\* run is left, by an exception or by the keyboard, and its finally clause closes the video.
Closed(r) == [r EXCEPT !.running = FALSE, !.videos = {}]

\* _set_frame: the frame of the moment is not shown again unless it is forced; one that
\* does not decode ends the reviewer, as everything does that raises in its loop.
Shown(r, episodes, frame, force) ==
  LET held == Held(frame, 0, LastFrame(r, episodes))
  IN  CASE ~r.running \/ (~force /\ held = r.frame) -> r
        [] r.running /\ (force \/ held # r.frame) /\ held \notin episodes[r.episode].decodes -> Closed(r)
        [] OTHER -> [r EXCEPT !.frame = held, !.slider = held, !.overlay = r.reference]

\* _load_episode: the new episode and its video are there before the old one is closed.
Loaded(r, episodes, episode) ==
  LET held == Held(episode, 1, Len(episodes))
      opened == [Playing(r, FALSE) EXCEPT !.episode = held, !.dropdown = held, !.charts = held,
                                          !.videos = (@ \cup {held}) \ {r.episode}]
  IN  CASE ~r.running \/ held = r.episode -> r
        [] r.running /\ held # r.episode /\ ~episodes[held].loads -> Closed(Playing(r, FALSE))
        [] OTHER -> Shown(opened, episodes, 0, TRUE)

\* _process_pending, its buttons.
Toggled(r, episodes) ==
  LET s == IF r.frame >= LastFrame(r, episodes) THEN Shown(r, episodes, 0, FALSE) ELSE r
  IN  IF s.running THEN Playing(s, ~s.playing) ELSE s
Acted(r, episodes, action) ==
  CASE ~r.running -> r
    [] r.running /\ action = "toggle_play" -> Toggled(r, episodes)
    [] r.running /\ action = "restart" -> Shown(Playing(r, FALSE), episodes, 0, TRUE)
    [] r.running /\ action = "refresh" -> Shown(r, episodes, r.frame, TRUE)
    [] r.running /\ action = "previous" -> Loaded(r, episodes, r.episode - 1)
    [] r.running /\ action = "next" -> Loaded(r, episodes, r.episode + 1)

\* The rest of _process_pending, in its order: the episode, the joint of the charts, the
\* hand's channel, the scrub, then the buttons.  What a callback asks for between the read
\* of a request and its reset is lost; late has such requests, or None.
EpisodeTaken(r, episodes, late) ==
  IF r.asked = None THEN r
  ELSE Loaded([(IF late = None THEN r ELSE Selected(r, late)) EXCEPT !.asked = None], episodes, r.asked)
JointTaken(r, episodes) ==
  IF r.joint /\ r.running THEN Shown([Charted(r) EXCEPT !.joint = FALSE], episodes, r.frame, TRUE) ELSE r
HandTaken(r) == IF r.hand /\ r.running THEN [Charted(r) EXCEPT !.hand = FALSE] ELSE r
ScrubTaken(r, episodes, late) ==
  IF r.scrub = None \/ ~r.running THEN r
  ELSE Shown(Playing([(IF late = None THEN r ELSE Scrubbed(r, late)) EXCEPT !.scrub = None], FALSE), episodes, r.scrub, FALSE)
Processed(r, episodes, late) ==
  LET ready == ScrubTaken(HandTaken(JointTaken(EpisodeTaken(r, episodes, late.episode), episodes)), episodes, late.scrub)
      act(q, action) == Acted(q, episodes, action)
  IN  FoldLeft(act, [ready EXCEPT !.actions = <<>>], ready.actions)

\* The rest of an iteration of run, so many quarters of a frame after the one before.
Advanced(r, episodes, elapsed) ==
  LET part == r.part + elapsed * r.speed
      to == r.frame + part \div 16
      rest == [r EXCEPT !.part = part % 16]
      ended == Shown(rest, episodes, LastFrame(r, episodes), FALSE)
  IN  CASE ~r.running \/ ~r.playing -> r
        [] r.running /\ r.playing /\ part < 16 -> rest
        [] r.running /\ r.playing /\ part >= 16 /\ to < LastFrame(r, episodes) -> Shown(rest, episodes, to, FALSE)
        [] OTHER -> IF ended.running THEN Playing(ended, FALSE) ELSE ended

-----------------------------------------------------------------------------
(* view_dataset.py: clips are found in the shards, put into an order, loaded one at a time *)
(* and played.                                                                             *)

\* discover_dataset_clips, of shards that have or lack the lengths of their clips, in the
\* order of their paths; name is the place of a shard's path among them as a text.
Discovered(shards) ==
  LET ClipsOf(i) == [k \in 1..Min({Len(shards[i].frames), Len(shards[i].fps)}) |->
                       [shard |-> shards[i].name, index |-> k - 1, frames |-> shards[i].frames[k], fps |-> shards[i].fps[k]]]
  IN  FlattenSeq([i \in DOMAIN shards |-> ClipsOf(i)])
CanDiscover(shards) == (\A i \in DOMAIN shards : shards[i].described) /\ Discovered(shards) # <<>>

\* DatasetSession.  By length, clips of one length keep the order in which they were
\* found, and one without a rate has none; by shard, the clips of a shard go by the
\* digits of their number, so that 10 comes before 2.
LengthIn(a, rate) == IF a.fps > 0 THEN a.frames * (IF rate > 0 THEN rate ELSE 1) ELSE 0
Longer(a, b) == LengthIn(a, b.fps) > LengthIn(b, a.fps)
Digits(number) == IF number < 10 THEN <<number>> ELSE <<number \div 10, number % 10>>
DigitsBefore(a, b) ==
  LET x == Digits(a)
      y == Digits(b)
  IN  \/ x[1] < y[1]
      \/ x[1] = y[1] /\ Len(x) < Len(y)
      \/ x[1] = y[1] /\ Len(x) = 2 /\ Len(y) = 2 /\ x[2] < y[2]
Ordered(clips, sort) ==
  LET before(i, j) ==
        IF sort = "duration_desc" THEN Longer(clips[i], clips[j]) \/ (~Longer(clips[j], clips[i]) /\ i < j)
        ELSE clips[i].shard < clips[j].shard \/ (clips[i].shard = clips[j].shard /\ DigitsBefore(clips[i].index, clips[j].index))
  IN  [k \in DOMAIN clips |-> CHOOSE i \in DOMAIN clips : Cardinality({ j \in DOMAIN clips \ {i} : before(j, i) }) = k - 1]

\* The jump box and the buttons of its range.
Jumped(position, total) == IF position < 1 THEN 1 ELSE IF position > total THEN total ELSE position

-----------------------------------------------------------------------------
(* DatasetViewerApp.  A clip has frames, and loads or not; loaded is the clip that the *)
(* player holds.  Speed and time are in quarters.                                      *)

Opened == [cursor |-> 1, loaded |-> None, frames |-> 0, frame |-> 0, slider |-> 0, limit |-> 1,
           playing |-> FALSE, speed |-> 4, actions |-> <<>>, scrub |-> None, jump |-> None, error |-> FALSE,
           since |-> 0]

\* The server calls the callback of a widget that the loop sets, too: its loads and its
\* frames clear what they asked for themselves.
Load(v, clips) ==
  LET clip == clips[v.cursor]
  IN  IF ~clip.loads THEN [v EXCEPT !.error = TRUE]
      ELSE [v EXCEPT !.loaded = v.cursor, !.frames = clip.frames, !.frame = 0, !.slider = 0,
                     !.limit = IF clip.frames > 1 THEN clip.frames - 1 ELSE 0, !.playing = FALSE,
                     !.actions = <<>>, !.scrub = None, !.jump = None, !.error = FALSE]

\* What the player shows of the frame that the viewer names.
ShownFrame(v) == IF v.frame > v.frames - 1 THEN v.frames - 1 ELSE v.frame

Scrub(v, frame) == [v EXCEPT !.slider = frame, !.scrub = frame]
Jump(v, position) == [v EXCEPT !.jump = position]
Click(v, action) == [v EXCEPT !.actions = Append(@, action)]
SetSpeed(v, speed) == [v EXCEPT !.speed = speed]

FasterSpeed(speed) == CASE speed = 4 -> 8 [] speed = 8 -> 16 [] speed = 16 -> 32 [] OTHER -> 4

Taken(v, action, clips) ==
  CASE action = "toggle_play" -> [v EXCEPT !.playing = ~@]
    [] action = "restart" -> [v EXCEPT !.frame = 0, !.slider = 0, !.scrub = None]
    [] action = "prev" -> Load([v EXCEPT !.cursor = IF @ > 1 THEN @ - 1 ELSE @], clips)
    [] action = "next" -> Load([v EXCEPT !.cursor = IF @ < Len(clips) THEN @ + 1 ELSE @], clips)
    [] action = "speed_up" -> [v EXCEPT !.speed = FasterSpeed(@)]

\* prev and next end a round: what was asked after them waits for the next one, unless
\* the clip that they load clears it.
Round(actions) ==
  LET ends == { i \in DOMAIN actions : actions[i] \in {"prev", "next"} }
  IN  IF ends = {} THEN Len(actions) ELSE Min(ends)

\* _process_pending: a scrub waits while the clip plays; a jump ends the round before any
\* button.
Pending(v, clips) ==
  LET scrubbed == IF v.scrub # None /\ ~v.playing THEN [v EXCEPT !.scrub = None, !.frame = v.scrub] ELSE v
      last == Round(v.actions)
      rest == SubSeq(v.actions, last + 1, Len(v.actions))
      take(u, action) == Taken(u, action, clips)
  IN  IF v.jump # None THEN Load([scrubbed EXCEPT !.jump = None, !.cursor = Jumped(v.jump, Len(clips))], clips)
      ELSE FoldLeft(take, [scrubbed EXCEPT !.actions = rest], SubSeq(v.actions, 1, last))

\* The rest of an iteration of run, so many quarters of a frame after the one before.
\* What is left of a frame when the clip moves on is dropped.
Played(v, elapsed) ==
  LET due == ((v.since + elapsed) * v.speed) \div 16
      to == v.frame + due
  IN  CASE ~v.playing \/ v.frames = 0 -> [v EXCEPT !.since = 0]
        [] v.playing /\ v.frames > 0 /\ due < 1 -> [v EXCEPT !.since = @ + elapsed]
        [] OTHER -> [v EXCEPT !.frame = IF to >= v.frames THEN 0 ELSE to, !.slider = IF to >= v.frames THEN 0 ELSE to,
                              !.playing = to < v.frames, !.scrub = None, !.since = 0]
=============================================================================
