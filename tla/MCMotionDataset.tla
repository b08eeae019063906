--------------------------- MODULE MCMotionDataset ---------------------------
(* A small instance of MotionDataset for TLC, the windows of its shards, and what makes *)
(* clips, trains on them and shows them.                                                 *)
EXTENDS MotionDataset, Integers, Sequences, FiniteSetsExt, TLC

EnvClips == {1, 2}
ClipStarts == <<1, 0>>
ClipEnds == <<5, 2>>
Training == INSTANCE MotionSampling WITH
  Envs <- {1, 2}, Clips <- EnvClips, ClipStarts <- ClipStarts, ClipEnds <- ClipEnds, Step <- 2, LongestLeft <- 9,
  SamplingMode <- "rewind", ResampleOnClipEnd <- TRUE, RewindMin <- 1, RewindMax <- 2
Playing == INSTANCE MotionSampling WITH
  Envs <- {1, 2}, Clips <- EnvClips, ClipStarts <- ClipStarts, ClipEnds <- ClipEnds, Step <- 2, LongestLeft <- 9,
  SamplingMode <- "start", ResampleOnClipEnd <- FALSE, RewindMin <- 1, RewindMax <- 2

SourceSets == { {1, 2, 3}, {2} }

\* The chunks of the pool share out the clips, in order and none empty.
ASSUME ChunksPartition ==
  \A clips \in (SUBSET (1..6)) \ {{}} : \A n \in 1..Cardinality(clips) :
    LET part(u) == Chunk(clips, n, u)
    IN  /\ UNION { part(u) : u \in Chunks(clips, n) } = clips
        /\ \A u \in Chunks(clips, n) : part(u) # {}
        /\ \A u, v \in Chunks(clips, n) : u < v => \A c \in part(u), d \in part(v) : c < d

-----------------------------------------------------------------------------

Timeline == INSTANCE ReferenceTimeline

StepLists == UNION { [1..n -> -2..2] : n \in 1..3 }
TrainedSteps == { s \in StepLists : Training!ValidSteps(s) }
Ticks == 3   \* of a frame

\* A policy that was trained on some reference steps can be deployed with them.
ASSUME TrainedStepsCanRun == \A s \in TrainedSteps : Timeline!ValidSteps(s)

\* The windows of a clip lie inside it and cover it, and any overlap + 1 frames in a
\* row are together in one of them.
ASSUME WindowsCoverClips ==
  \A length \in 1..11, most \in 2..5 : \A overlap \in 0..(most - 1) :
    LET size == IF length <= most THEN length ELSE most
        starts == Training!WindowStarts(length, most, overlap)
        together(a, b) == \E s \in starts : s <= a /\ b < s + size
    IN  /\ \A s \in starts : s >= 0 /\ s + size <= length
        /\ \A a \in 0..(length - 1) :
             together(a, Min({a + overlap, length - 1}))

\* Cutting a clip loses no sample, if the overlap is what the steps reach and one
\* frame for the interpolation: every centre of the clip is one of some window.
ASSUME CutsLoseNoSample ==
  \A s \in TrainedSteps, length \in 1..9, most \in 2..6 : \A overlap \in 0..(most - 1) :
    LET size == IF length <= most THEN length ELSE most
        centred(from, n, c) == c \in (from + Training!FirstCentre(s))..(from + Training!EndOfCentres(n, s) - 1)
    IN  overlap >= Training!Future(s) + Training!History(s) + 1 =>
          \A c \in 0..(length - 1) :
            centred(0, length, c) =>
              \E w \in Training!WindowStarts(length, most, overlap) : centred(w, size, c)

\* The frames of a sample are the frames around its steps, all of the window: no
\* time is wrapped and no index clamped.
ASSUME SamplesStayInWindow ==
  \A s \in TrainedSteps, length \in 1..8 :
    Training!LongEnough([start |-> 0, length |-> length], s) =>
      /\ Training!Centres(length, s, Ticks) # {}
      /\ \A t \in Training!Centres(length, s, Ticks) : \A k \in DOMAIN s :
           LET at == t + s[k] * Ticks
               pair == Training!Frames(t, s, length, Ticks)[k]
           IN  pair[2] = pair[1] + 1 /\ pair[1] * Ticks <= at /\ at < pair[2] * Ticks

\* Nor is one after control steps, rewinds of at least a step and the ends of
\* windows: the centre stays one.  (A rewind of no step may leave it at the end.)
ASSUME CentresStayCentres ==
  \A s \in TrainedSteps, length \in 2..7, dt \in 1..4 :
    LET centres == Training!Centres(length, s, Ticks)
        rewound(t) == { Training!Rewound(t, n * dt, s, Ticks) : n \in 1..3 }
        held == { Training!HeldAtEnd(length, s, Ticks) }
    IN  Training!LongEnough([start |-> 0, length |-> length], s) =>
          \A t \in centres :
            /\ rewound(t) \subseteq centres
            /\ Training!Advanced(t, dt, rewound(t + dt), length, s, Ticks) \subseteq centres
            /\ Training!Advanced(t, dt, held, length, s, Ticks) \subseteq centres

Shards == [ windows : { <<>> } \cup { <<v, w>> : v, w \in [start : 0..1, length : {2, 4}] },
            frames : {5, 6} ]
FramesBefore(shards, i, s) ==
  MapThenSumSet(LAMBDA j : IF Training!Usable(shards[j], s) = <<>> THEN 0 ELSE shards[j].frames, 1..(i - 1))

\* Every clip of the benchmark is the window that the library knows by its number,
\* whatever shards were passed over before it.
ASSUME BenchmarkNumbersAgree ==
  \A s \in { <<0>>, <<0, 1, -1>> } : \A one, two, three \in Shards :
    LET shards == <<one, two, three>>
        specs == Training!ClipSpecs(shards, s)
        loaded == Training!Loaded(shards, s)
    IN  /\ Len(specs) = Len(loaded.windows)
        /\ \A i \in DOMAIN specs :
             /\ loaded.windows[i].length = specs[i].window.length
             /\ loaded.windows[i].start = specs[i].window.start + FramesBefore(shards, specs[i].shard, s)
             /\ loaded.windows[i].start + loaded.windows[i].length <= loaded.frames

-----------------------------------------------------------------------------
(* What becomes of clips of up to five frames, each a mark of its clip and place.      *)

Bodies == <<"pelvis", "torso">>
Recorded(i, length, fps) == [fps |-> fps, names |-> Bodies, frames |-> [k \in 1..length |-> {<<i, k>>}]]
ClipLists == { <<Recorded(1, a, f)>> : a \in 1..5, f \in {1, 2, 3} }
             \cup { <<Recorded(1, a, f), Recorded(2, b, g)>> : a \in {1, 4}, b \in {2, 5}, f, g \in {1, 2} }
ShardOf(clips, target) == Training!Sharded(Training!Merged(clips, target), 3, 1)

\* Resampling keeps the first frame and, unless one is left, the last; the order of the
\* others; and the length of the clip to half of a frame.
ASSUME RetimedClipsAgree ==
  \A length \in 1..9, fps \in 1..4, target \in 1..4 :
    LET new == Training!Retimed(Recorded(1, length, fps), target)
        places(i) == { m[2] : m \in new.frames[i] }
        n == Len(new.frames)
    IN  /\ new.fps = target /\ places(1) = {1} /\ (n > 1 => places(n) = {length})
        /\ \A i \in 1..(n - 1) : \A a \in places(i), b \in places(i + 1) : a <= b + 1 /\ Min(places(i)) <= Min(places(i + 1))
        /\ n = 1 \/ 2 * (n * fps - length * target) \in -fps..fps

\* Each clip is found in its shard under its number, at the rate of the build, whatever
\* clips are before it; the statistics count every clip and every frame once.
ASSUME ShardsHoldTheClips ==
  \A clips \in ClipLists, target \in 1..2 :
    LET shard == ShardOf(clips, target)
        counted == Training!Counted(<<shard, shard>>)
    IN  /\ Training!CanMerge(clips, target) /\ Training!CanCut(3, 1) /\ Training!WindowsInside(shard)
        /\ \A i \in DOMAIN clips : Training!CanRead(shard, i - 1) /\ Training!ClipAt(shard, i - 1) = Training!Retimed(clips[i], target)
        /\ ~Training!CanRead(shard, Len(clips))
        /\ counted.clips = 2 * Len(clips) /\ counted.frames = 2 * shard.frames
        /\ counted.windows = 2 * Len(shard.windows) /\ counted.shards = 2

\* The velocities of a clip are computed of its own frames, and those of every frame are.
ASSUME VelocitiesStayInClips ==
  \A clips \in ClipLists, target \in 1..2 :
    LET shard == Training!Derived(ShardOf(clips, target))
    IN  /\ Training!CanDerive(shard)
        /\ \A i \in DOMAIN shard.data :
             /\ shard.velocity[i] # Training!Uninitialized
             /\ \A m \in shard.velocity[i], n \in shard.data[i] : m[1] = n[1]

\* What training reads around a time of a window is what its clip holds around that time:
\* merging, cutting, loading behind other shards and interpolating agree about the rows.
ASSUME SamplesAreOfTheClip ==
  \A one \in { <<Recorded(1, a, 1)>> : a \in {1, 4} }, two \in ClipLists, s \in { <<0>>, <<0, 1>>, <<0, 1, -1>> } :
    LET shards == <<Training!Derived(ShardOf(one, 1)), Training!Derived(ShardOf(two, 1))>>
        rows == Training!LoadedRows(shards, s)
        loaded == Training!Loaded(shards, s)
        clip(w) == Training!ClipAt(IF w.start < FramesBefore(shards, 2, s) THEN shards[1] ELSE shards[2], w.source)
    IN  Training!CanTrain(shards, s, {"pelvis"}) =>
          \A i \in DOMAIN loaded.windows : \A t \in Training!Centres(loaded.windows[i].length, s, Ticks), k \in DOMAIN s :
            LET w == loaded.windows[i]
                pair == Training!Rows(w, t, s, Ticks)[k]
                at == w.offset + (t + s[k] * Ticks) \div Ticks
            IN  /\ rows[pair[1]] = clip(w).frames[at + 1]
                /\ w.length > 1 => rows[pair[2]] = clip(w).frames[at + 2]

\* A clip is taken only if all its arrays are as long as its joints, over which it is
\* resampled and cut, and as wide as training reads them; so is a training shard.
Drifts(shape, places, step) == { [shape EXCEPT ![i] = @ + step] : i \in places }
ASSUME ArraysAgree ==
  \A key \in DOMAIN Training!Shapes(2, 2), by \in {-1, 1} :
    LET good == [fps |-> 1, arrays |-> Training!Shapes(2, 2), names |-> Bodies, finite |-> TRUE, turned |-> TRUE]
        rows == [c \in Training!WindowColumns |-> 3] @@ [c \in Training!SourceColumns |-> 1]
        file(arrays) == [derived |-> TRUE, arrays |-> arrays, names |-> Bodies, rows |-> rows]
        shape == good.arrays[key]
    IN  /\ Training!ClipAccepted(good) /\ Training!TrainingShardValid(file(good.arrays))
        /\ \A drifted \in Drifts(shape, DOMAIN shape, by) :
             LET arrays == [good.arrays EXCEPT ![key] = drifted]
             IN  /\ ~Training!ClipAccepted([good EXCEPT !.arrays = arrays])
                 /\ Training!TrainingShardValid(file(arrays)) <=> key \in Training!Rooted

\* A rollout compares the robot with references of its own window, none held.
ASSUME RolloutsStayInWindow ==
  \A s \in TrainedSteps, length \in 2..7, dt \in 1..4, n \in 1..6 :
    /\ Training!LongEnough([start |-> 0, length |-> length], s)
    /\ Training!Eligible(length, s, Ticks, dt, n)
    => \A k \in 0..(n - 1) :
         Training!FirstCentre(s) * Ticks + k * dt \in Training!Centres(length, s, Ticks)

-----------------------------------------------------------------------------
(* The environments of a training run, over all runs of three steps. *)

\* The two configurations of the checks are ones that the code takes.
ASSUME TrainingConfigs == Training!ConfigAccepted /\ Playing!ConfigAccepted

Begun == Training!Resampled(Training!NewCommand(1), {1, 2}, {})
EnvRuns == LET after[n \in 0..3] ==
                 IF n = 0 THEN Begun
                 ELSE UNION { Training!Updated(c, failed) : c \in after[n - 1], failed \in SUBSET {1, 2} }
                      \cup UNION { Training!Resampled(c, {1}, failed) : c \in after[n - 1], failed \in SUBSET {1} }
           IN  UNION { after[n] : n \in 0..3 }

\* Nothing that is kept of a reference is older than the reference, whichever environment
\* was reset last; only the targets relative to the robot wait for the next step.
ASSUME CachesAreCurrent ==
  \A c \in EnvRuns :
    /\ c.frames = c.at /\ c.local = c.at /\ c.feet = c.at
    /\ \A d \in Training!Updated(c, {}) : d.relative = d.at

\* Every environment stays at a time it can be sampled at, through ends of clips and
\* failures at them.
ASSUME EnvironmentsStaySampled ==
  \A c \in EnvRuns : \A e \in {1, 2} : c.at[e] \in Training!Drawn

\* Resetting one environment moves its robot alone, onto the reference it is given; a
\* failed one is put back into its own clip, no later than it failed, or anywhere.
ASSUME ResetsAreApart ==
  \A c \in EnvRuns : \A d \in Training!Resampled(c, {1}, {1}) :
    /\ d.robot[1] = d.at[1] /\ d.robot[2] = c.robot[2] /\ d.at[2] = c.at[2]
    /\ \A r \in Training!Rewinds(c.at[1]) : r.clip = c.at[1].clip /\ r.time <= c.at[1].time

EnvLists == { <<1>>, <<2, 1>> }
\* A reset to given times happens to all environments that are named, or to none.
ASSUME ResetToIsWhole ==
  \A c \in Begun : \A envs \in EnvLists, clips \in [1..2 -> 1..3], times \in [1..2 -> {0, 1, 5}] :
    LET n == Len(envs)
        d == Training!ResetTo(c, envs, SubSeq(clips, 1, n), SubSeq(times, 1, n))
        fits(i) == clips[i] \in EnvClips /\ times[i] >= ClipStarts[clips[i]] /\ times[i] < ClipEnds[clips[i]]
    IN  IF \A i \in 1..n : fits(i)
          THEN \A i \in 1..n : /\ d.at[envs[i]] = [clip |-> clips[i], time |-> times[i]]
                               /\ d.robot[envs[i]] = d.at[envs[i]] /\ d.frames = d.at /\ d.left[envs[i]] = 9
          ELSE d = c

\* When clips are played to their ends, a robot is not moved again: its reference stays
\* just before the end.
ASSUME PlayedClipsHold ==
  \A c \in Playing!Resampled(Playing!NewCommand(1), {1, 2}, {}) :
    LET after[n \in 0..4] == IF n = 0 THEN c ELSE CHOOSE d \in Playing!Updated(after[n - 1], {}) : TRUE
    IN  \A e \in {1, 2} :
          /\ after[4].at[e] = [clip |-> c.at[e].clip, time |-> ClipEnds[c.at[e].clip] - 1]
          /\ after[4].robot = c.robot

-----------------------------------------------------------------------------
(* The recorder of motion clips, over all interleavings of its thread and its terminal *)
(* in seven ticks.                                                                     *)

Rec == INSTANCE ClipRecorder WITH Period <- 2, MinFrames <- 2, MaxDuration <- 0
Limited == INSTANCE ClipRecorder WITH Period <- 2, MinFrames <- 2, MaxDuration <- 4

\* The two configurations of the checks are ones that the code takes.
ASSUME RecorderConfigs == Rec!ConfigAccepted /\ Limited!ConfigAccepted

\* A recorder, the copy its terminal writes, and with what number and when the frames
\* of that copy began; the Pico sends a new frame, the same again, or nothing.
ClipStart == [rec |-> Rec!Named(Rec!Recorder, "walk"), copy |-> <<>>, began |-> 0, from |-> 0, took |-> <<>>]
Feed(r) == {Rec!None, r.last, r.last + 1}
TerminalStep(x, key, now) ==
  LET k == Rec!KeyPressed(x.rec, key, now)
  IN  IF key = "none" THEN x
      ELSE [x EXCEPT !.rec = k.recorder,
                     !.copy = IF k.command = "save" THEN <<x.rec.frames>> ELSE <<>>,
                     !.took = IF k.command = "save" THEN Append(@, now - x.from) ELSE @,
                     !.began = IF key = "r" /\ ~x.rec.recording THEN x.rec.last + 1 ELSE @,
                     !.from = IF key = "r" /\ ~x.rec.recording THEN now ELSE @]
ClipStep(x, frame, good, key, now) ==
  LET y == [x EXCEPT !.rec = Rec!ThreadTicked(@, frame, good, now)]
  IN  IF x.copy # <<>> THEN [y EXCEPT !.rec = Rec!Saved(@, x.copy[1], key # "d"), !.copy = <<>>]
      ELSE TerminalStep(y, key, now)
ClipRuns == LET after[n \in 0..7] ==
                  IF n = 0 THEN {ClipStart}
                  ELSE UNION { { ClipStep(x, frame, good, key, n) :
                                   frame \in Feed(x.rec), good \in BOOLEAN, key \in {"none", "r", "s", "d", "n"} } :
                               x \in after[n - 1] }
            IN  UNION { after[n] : n \in 0..7 }

\* A clip has frames of its own recording alone, in order and none twice, although the
\* thread goes on while it is written; nothing stays in the buffer between recordings.
ASSUME ClipsAreWhole ==
  \A x \in ClipRuns :
    LET clips == x.rec.clips
    IN  /\ ~x.rec.recording => x.rec.frames = <<>>
        /\ \A i \in DOMAIN clips : Len(clips[i].frames) >= 2
        /\ \A i \in DOMAIN clips : \A j, k \in DOMAIN clips[i].frames :
             j < k => clips[i].frames[j] < clips[i].frames[k]
        /\ \A k \in DOMAIN x.rec.frames : x.rec.frames[k] >= x.began

\* Played at the target rate, a clip takes at most a frame longer than its recording
\* did; it takes less when the Pico was slow.
ASSUME ClipsRunNoSlower ==
  \A x \in ClipRuns : \A i \in DOMAIN x.rec.clips :
    2 * (Len(x.rec.clips[i].frames) - 1) <= x.took[i]

\* A recording whose thread has failed gets no longer, and however its command ends
\* the recorder does not go on.
ASSUME FailureIsHeardOf ==
  \A x \in ClipRuns : x.rec.failed =>
    /\ \A frame \in Feed(x.rec), now \in 8..9 : Rec!ThreadTicked(x.rec, frame, TRUE, now) = x.rec
    /\ \A command \in {"quit", "next"} : Rec!Goes(x.rec, command, "walk") = "raise"

\* With a longest duration, no recording outlives it, and one that was too slow to be a
\* clip by then is given up.
ASSUME LongRecordingsEnd ==
  \A x \in ClipRuns : x.rec.recording =>
    LET up == Limited!TimeIsUp(x.rec, x.rec.since + 4)
    IN  /\ up = IF Len(x.rec.frames) >= 2 THEN "save" ELSE "raise"
        /\ Limited!TimeIsUp(x.rec, x.rec.since + 3) = "none"

\* A name is given to one clip only, and a file is never left half written.
ASSUME ClipFilesAreKept ==
  /\ \A taken \in SUBSET (0..3) : Rec!Path(taken, 3) \in ((0..3) \ taken) \cup {Rec!None}
  /\ \A taken \in SUBSET (0..3) : Rec!Path(taken, 3) = Rec!None <=> taken = 0..3
  /\ \A n \in 0..3, fps \in 0..1, finite, works \in BOOLEAN :
       LET frames == [i \in 1..n |-> i]
           w == Rec!Written(<<9>>, frames, fps, finite, works)
       IN  w.file \in {<<9>>, frames} /\ (w.raised <=> w.file = <<9>>) /\ ~w.temporary

-----------------------------------------------------------------------------
(* The viewer of a data set, over short sessions. *)

View == INSTANCE Reviewers

ViewedShard(name, frames, fps, described) == [name |-> name, frames |-> frames, fps |-> fps, described |-> described]
ViewedShards == { <<ViewedShard(1, <<3, 1>>, <<f, 1>>, d)>> : f \in 0..2, d \in BOOLEAN }
  \cup { <<ViewedShard(1, <<>>, <<>>, TRUE), ViewedShard(2, [i \in 1..12 |-> i], [i \in 1..12 |-> 2], TRUE)>> }
  \cup { <<ViewedShard(name, <<2>>, <<1>>, TRUE), ViewedShard(3 - name, <<6, 4>>, <<2, 2>>, TRUE)>> : name \in {1, 2} }

\* An order shows every clip once.  By length no longer clip comes later; by shard the
\* clips come as they were found if no shard has more than ten and the paths of the shards
\* are in the order of their texts, and otherwise they do not.
ASSUME OrderShowsAll ==
  \A shards \in { s \in ViewedShards : View!CanDiscover(s) } :
    LET clips == View!Discovered(shards)
        long == View!Ordered(clips, "duration_desc")
        plain == View!Ordered(clips, "shard")
        few == \A i \in DOMAIN shards : Len(shards[i].frames) <= 10
        named == \A i, j \in DOMAIN shards : i < j => shards[i].name < shards[j].name
    IN  /\ \A order \in {long, plain} :
             Len(order) = Len(clips) /\ { order[i] : i \in DOMAIN order } = DOMAIN clips
        /\ \A i, j \in DOMAIN long : i < j => ~View!Longer(clips[long[j]], clips[long[i]])
        /\ \A i, j \in DOMAIN plain : clips[plain[i]].index = 1 /\ clips[plain[j]].index = 10 => i < j
        /\ (few /\ named) <=> (plain = [i \in DOMAIN clips |-> i])
\* A data set with a shard that does not say how long its clips are is refused.
ASSUME CutShardsAreRefused ==
  \A shards \in ViewedShards : View!CanDiscover(shards) <=> \A i \in DOMAIN shards : shards[i].described

-----------------------------------------------------------------------------
ViewedClips == <<[frames |-> 3, loads |-> TRUE], [frames |-> 2, loads |-> FALSE], [frames |-> 1, loads |-> TRUE]>>
\* The slider of the panel has the range of the clip that is loaded.
ViewerInputs(v) ==
  { v } \cup { View!Scrub(v, f) : f \in {0, v.limit} } \cup { View!Jump(v, p) : p \in {0, 2, 4} } \cup { View!SetSpeed(v, 1) }
  \cup { View!Click(v, a) : a \in {"toggle_play", "restart", "prev", "next", "speed_up"} }
ViewerSteps(v) ==
  { View!Played(q, e) : q \in UNION { ViewerInputs(View!Pending(u, ViewedClips)) : u \in ViewerInputs(v) }, e \in {1, 5} }
ViewerRuns == LET after[n \in 0..2] == IF n = 0 THEN {View!Load(View!Opened, ViewedClips)} ELSE UNION { ViewerSteps(v) : v \in after[n - 1] }
              IN  UNION { after[n] : n \in 0..2 }

\* The player, the frame and the slider are always those of one clip that could be read,
\* and the error is shown whenever the panel names another one.
ASSUME OneClipIsShown ==
  \A v \in ViewerRuns :
    /\ v.loaded \in {1, 3} /\ v.frames = ViewedClips[v.loaded].frames /\ v.limit = v.frames - 1
    /\ v.cursor \in DOMAIN ViewedClips
    /\ (v.cursor # v.loaded) <=> v.error
    /\ v.frame \in 0..v.limit /\ View!ShownFrame(v) = v.frame
    /\ v.scrub = View!None => v.slider = v.frame

\* A clip that is asked for, by its number or by the buttons, can be reached past one that
\* does not load, and asking for it forgets what was asked of the one before.
ASSUME ClipsAreReached ==
  \A v \in ViewerRuns : \A p \in {1, 3} :
    LET u == View!Pending(View!Jump(v, p), ViewedClips)
    IN  u.cursor = p /\ u.loaded = p /\ u.frame = 0 /\ u.actions = <<>> /\ u.scrub = View!None /\ ~u.playing

\* A clip that plays is slower than its rate by what is dropped of a frame at each step,
\* and never faster; a playback that runs over the end stops at the first frame.
ASSUME PlaybackIsNeverFaster ==
  \A v \in ViewerRuns, e \in {1, 5} :
    LET u == View!Played(v, e)
    IN  /\ v.playing /\ u.playing => (u.frame - v.frame) * 16 <= (v.since + e) * v.speed
        /\ v.playing /\ ~u.playing => u.frame = 0 /\ v.frame * 16 + (v.since + e) * v.speed >= v.frames * 16
        /\ ~v.playing => u.frame = v.frame
        /\ v.playing /\ u.frame < v.frame => ~u.playing

\* The slider cannot move a clip that plays: what was asked waits, and is forgotten when
\* the next frame is shown.
ASSUME SliderWaits ==
  \A v \in { w \in ViewerRuns : w.playing /\ w.jump = View!None /\ w.actions = <<>> } :
    LET u == View!Pending(View!Scrub(v, v.limit), ViewedClips)
    IN  u.frame = v.frame /\ u.scrub = v.limit /\ \A e \in {1, 5} : View!Played(u, e).since = 0 => View!Played(u, e).scrub = View!None

\* A button that comes after one for another clip acts on the clip of before if the other
\* does not load, and on none if it does.
ASSUME LaterButtons ==
  \A v \in { w \in ViewerRuns : w.cursor = 1 /\ w.jump = View!None /\ w.actions = <<>> } :
    LET u == View!Pending(View!Click(View!Click(v, "next"), "next"), ViewedClips)
        w == View!Pending(View!Click(View!Click(u, "toggle_play"), "prev"), ViewedClips)
    IN  u.error /\ u.loaded = v.loaded /\ u.actions = <<"next">> /\ w.loaded = 3 /\ w.actions = <<>> /\ ~w.playing
=============================================================================
