--------------------------- MODULE MotionSampling ---------------------------
(*****************************************************************************)
(* The clips of a training run, as operators: how they are cut into windows, *)
(* put into shards, loaded and sampled around a centre (dataset_lib.py,      *)
(* commands.py), how the benchmark plans its rollouts (benchmarking.py), and *)
(* MotionCommand itself.                                                     *)
(*****************************************************************************)
EXTENDS Integers, Sequences, FiniteSetsExt, SequencesExt, TLC

CONSTANTS
  Envs,
  Clips,        \* the clips of the library
  ClipStarts,   \* the first centre of a clip, in ticks,
  ClipEnds,     \* and the end of its centres
  Step,         \* ticks of a control step
  LongestLeft,  \* resampling_time_range[1]
  SamplingMode, ResampleOnClipEnd, RewindMin, RewindMax

-----------------------------------------------------------------------------
(* A shard is a record of its number of frames and of its windows, each a start and a     *)
(* length; steps is the sequence of window_steps.  Times are counted in ticks, of which a *)
(* frame lasts several.                                                                   *)

\* parse_window_steps: 0 comes first, and no step forward follows a step back.
ValidSteps(steps) ==
  /\ steps # <<>> /\ steps[1] = 0
  /\ \A i, j \in DOMAIN steps : i < j /\ steps[i] < 0 => steps[j] < 0

Future(steps) == Max({0} \cup { steps[i] : i \in DOMAIN steps })
History(steps) == -Min({0} \cup { steps[i] : i \in DOMAIN steps })

\* _window_clip_ranges: the starts of the windows of a clip; all of them have
\* most frames, or the only one all of the clip.
WindowStarts(length, most, overlap) ==
  IF length <= most
    THEN {0}
    ELSE { s \in 0..(length - most) : s % (most - overlap) = 0 } \cup {length - most}

\* compute_clip_sample_ranges: frames that a sample may be centred on or after.
FirstCentre(steps) == History(steps)
EndOfCentres(length, steps) ==
  IF length = 1 /\ Future(steps) = 0 /\ History(steps) = 0 THEN 1 ELSE length - 1 - Future(steps)

-----------------------------------------------------------------------------
(* What a shard holds.  A clip is a record of its rate, the names of its bodies and its frames; *)
(* a frame is the set of the recorded frames that went into it.                                 *)

\* The arrays of a clip of t frames and n bodies; the first four have no bodies.
Joints == 29
Shapes(t, n) ==
  ("root_pos" :> <<t, 3>>) @@ ("root_quat_w" :> <<t, 4>>) @@ ("joint_pos" :> <<t, Joints>>) @@ ("joint_vel" :> <<t, Joints>>)
  @@ ("body_pos_w" :> <<t, n, 3>>) @@ ("body_quat_w" :> <<t, n, 4>>)
  @@ ("body_lin_vel_w" :> <<t, n, 3>>) @@ ("body_ang_vel_w" :> <<t, n, 3>>)
Rooted == {"root_pos", "root_quat_w"}

\* inspect_clip_dict, of the shapes of a clip's arrays, the names of its bodies and whether its
\* numbers are finite and its orientations are not zero.
ClipAccepted(c) ==
  /\ c.fps > 0 /\ DOMAIN Shapes(1, 1) \subseteq DOMAIN c.arrays
  /\ Len(c.arrays["joint_pos"]) = 2 /\ Len(c.arrays["body_pos_w"]) = 3
  /\ LET shapes == Shapes(c.arrays["joint_pos"][1], Len(c.names))
     IN  c.arrays["joint_pos"][1] > 0 /\ c.names # <<>> /\ \A key \in DOMAIN shapes : c.arrays[key] = shapes[key]
  /\ c.finite /\ c.turned

\* resample_along_time: new frame i lies at (i - 1) * (old - 1) / (new - 1) of the old ones, and
\* is mixed of the two around it.
Mixed(frames, new) ==
  LET spread == IF new > 1 THEN new - 1 ELSE 1
      at(i) == (i - 1) * (Len(frames) - 1)
      before(i) == frames[at(i) \div spread + 1]
  IN  IF Len(frames) = new THEN frames
      ELSE [i \in 1..new |-> IF at(i) % spread = 0 THEN before(i) ELSE before(i) \cup frames[at(i) \div spread + 2]]

\* Python's round takes the even one of two that are equally near.
Rounded(n, d) == IF 2 * (n % d) < d \/ (2 * (n % d) = d /\ (n \div d) % 2 = 0) THEN n \div d ELSE n \div d + 1
Retimed(clip, target) ==
  IF clip.fps = target THEN clip
  ELSE [clip EXCEPT !.fps = target, !.frames = Mixed(@, Max({1, Rounded(Len(@) * target, clip.fps)}))]

\* merge_npz_files and merge_clip_dicts_payload, to the rate that every build gives.
CanMerge(clips, target) ==
  clips # <<>> /\ target > 0 /\ \A i \in DOMAIN clips : clips[i].fps > 0 /\ clips[i].names = clips[1].names
Merged(clips, target) ==
  LET parts == [i \in DOMAIN clips |-> Retimed(clips[i], target).frames]
      source(i) == [start |-> Len(FlattenSeq(SubSeq(parts, 1, i - 1))), length |-> Len(parts[i]), fps |-> target]
  IN  [names |-> clips[1].names, data |-> FlattenSeq(parts), sources |-> [i \in DOMAIN clips |-> source(i)]]

\* write_hdf5_motion_shard: the windows of its clips, which know where they come from.
CanCut(most, overlap) == most > 1 /\ overlap \in 0..(most - 1)
Sharded(merged, most, overlap) ==
  LET first(s, k) == IF s.length <= most THEN 0 ELSE Min({(k - 1) * (most - overlap), s.length - most})
      window(i, s, k) == [start |-> s.start + first(s, k), length |-> Min({s.length, most}), fps |-> s.fps,
                          source |-> i - 1, offset |-> first(s, k)]
      cut(i, s) == [k \in 1..Cardinality(WindowStarts(s.length, most, overlap)) |-> window(i, s, k)]
  IN  merged @@ [frames |-> Len(merged.data), windows |-> FlattenSeq([i \in DOMAIN merged.sources |-> cut(i, merged.sources[i])])]

\* read_hdf5_source_clip
CanRead(shard, index) == index \in 0..(Len(shard.sources) - 1)
ClipAt(shard, index) ==
  LET s == shard.sources[index + 1]
  IN  [fps |-> s.fps, names |-> shard.names, frames |-> SubSeq(shard.data, s.start + 1, s.start + s.length)]

\* write_precomputed_motion_shard: the velocity at a frame comes from its neighbours in its
\* own clip, none for a clip of one frame; a frame of no clip keeps what np.empty found.
Velocity(frames, i) == IF Len(frames) = 1 THEN {} ELSE frames[Max({1, i - 1})] \cup frames[Min({Len(frames), i + 1})]
Uninitialized == {"uninitialized"}
CanDerive(shard) == \A i \in DOMAIN shard.sources : shard.sources[i].length > 0 /\ shard.sources[i].fps > 0
Derived(shard) ==
  LET last(i) == Max({-1} \cup { k \in 0..(Len(shard.sources) - 1) : i - shard.sources[k + 1].start \in 1..shard.sources[k + 1].length })
      velocity(i) == IF last(i) = -1 THEN Uninitialized
                     ELSE Velocity(ClipAt(shard, last(i)).frames, i - shard.sources[last(i) + 1].start)
  IN  shard @@ [velocity |-> [i \in DOMAIN shard.data |-> velocity(i)]]

\* validate_precomputed_motion_shard, of a file's arrays and of the lengths of its columns, and
\* the check of its windows in _load_all_precomputed_motion.
WindowColumns == {"clip_starts", "clip_lengths", "clip_fps", "source_clip_ids", "source_start_frames"}
SourceColumns == {"source_clip_starts", "source_clip_lengths", "source_clip_fps"}
TrainingShardValid(file) ==
  /\ file.derived
  /\ DOMAIN Shapes(1, 1) \ Rooted \subseteq DOMAIN file.arrays
  /\ LET shapes == Shapes(file.arrays["joint_pos"][1], Len(file.names))
     IN  \A key \in DOMAIN shapes \ Rooted : file.arrays[key] = shapes[key]
  /\ \A columns \in {WindowColumns, SourceColumns} :
       columns \subseteq DOMAIN file.rows /\ \A a, b \in columns : file.rows[a] = file.rows[b]
WindowsInside(shard) == \A i \in DOMAIN shard.windows : shard.windows[i].start >= 0 /\ shard.windows[i].start + shard.windows[i].length <= shard.frames

\* compute_dataset_stats
CanCount(shards) == shards # <<>> /\ \A i \in DOMAIN shards : shards[i].names = shards[1].names
Counted(shards) ==
  LET sum(of(_)) == FoldLeft(LAMBDA n, shard : n + of(shard), 0, shards)
  IN  [shards |-> Len(shards), windows |-> sum(LAMBDA s : Len(s.windows)), frames |-> sum(LAMBDA s : s.frames),
       clips |-> sum(LAMBDA s : Cardinality({ s.windows[i].source : i \in DOMAIN s.windows }))]

-----------------------------------------------------------------------------
(* Loading a data set of shards, in the order of their paths.              *)

LongEnough(window, steps) == window.length >= History(steps) + 1 + Future(steps) + 1

Usable(shard, steps) == SelectSeq(shard.windows, LAMBDA w : LongEnough(w, steps))

Moved(windows, base) ==
  [ i \in DOMAIN windows |-> [windows[i] EXCEPT !.start = @ + base] ]

\* _load_all_precomputed_motion: the frames of shards without a usable window are
\* not loaded, those of the others are put behind one another.
Loaded(shards, steps) ==
  FoldLeft(LAMBDA all, shard :
             IF Usable(shard, steps) = <<>> THEN all
             ELSE [frames |-> all.frames + shard.frames,
                   windows |-> all.windows \o Moved(Usable(shard, steps), all.frames)],
           [frames |-> 0, windows |-> <<>>], shards)

\* What its arrays hold, row by row.
LoadedRows(shards, steps) ==
  FlattenSeq([ i \in DOMAIN shards |-> IF Usable(shards[i], steps) = <<>> THEN <<>> ELSE shards[i].data ])

\* MotionLib, which is asked for some of the bodies.
CanTrain(shards, steps, bodies) ==
  /\ CanCount(shards) /\ bodies \subseteq ToSet(shards[1].names)
  /\ \A i \in DOMAIN shards : WindowsInside(shards[i])
  /\ Loaded(shards, steps).windows # <<>>

\* load_clip_specs: the benchmark numbers clips itself.
ClipSpecs(shards, steps) ==
  FlattenSeq([ i \in DOMAIN shards |->
    LET windows == Usable(shards[i], steps)
    IN  [ k \in DOMAIN windows |-> [shard |-> i, window |-> windows[k]] ] ])

-----------------------------------------------------------------------------
(* A sample of a window of so many frames.                                 *)

\* _compute_interpolation_state: the time wraps at the end of the window, and the
\* two frames around each step are clamped to it.
Wrapped(time, length, ticks) == IF length = 1 THEN 0 ELSE time % ((length - 1) * ticks)
Clamped(i, length) == IF i < 0 THEN 0 ELSE IF i >= length THEN length - 1 ELSE i
Before(time, step, length, ticks) == (Wrapped(time, length, ticks) + step * ticks) \div ticks
Frames(time, steps, length, ticks) ==
  [ k \in DOMAIN steps |->
      LET i == Before(time, steps[k], length, ticks)
      IN  <<Clamped(i, length), Clamped(i + 1, length)>> ]

\* get_window_frames: the rows of a window that the library knows.
Rows(window, time, steps, ticks) ==
  LET pairs == Frames(time, steps, window.length, ticks)
  IN  [ k \in DOMAIN steps |-> <<window.start + pairs[k][1] + 1, window.start + pairs[k][2] + 1>> ]

Centres(length, steps, ticks) ==
  (FirstCentre(steps) * ticks)..(EndOfCentres(length, steps) * ticks - 1)

\* _rewind_sampling, of an episode that failed at this time.
Rewound(time, back, steps, ticks) == Max({time - back, FirstCentre(steps) * ticks})

\* _update_command, with dt the ticks of a control step: at the end of the window one
\* of the new samples is taken, or the time held at the last tick before the end.
Advanced(time, dt, resampled, length, steps, ticks) ==
  IF time + dt < EndOfCentres(length, steps) * ticks THEN {time + dt} ELSE resampled

HeldAtEnd(length, steps, ticks) == EndOfCentres(length, steps) * ticks - 1

\* build_benchmark_plan: who gets a rollout of so many control steps, which starts
\* at the first centre.
Eligible(length, steps, ticks, dt, control_steps) ==
  (EndOfCentres(length, steps) - FirstCentre(steps)) * ticks >= control_steps * dt

-----------------------------------------------------------------------------
(* The environments of a training run, each at a time of a clip, and what is kept of their *)
(* references between the steps.  Whatever is computed from the reference is named by the  *)
(* clip and the time that it was computed for; what is drawn at random is a set.           *)

\* _validate_rewind_sampling_cfg, the probability apart.
ConfigAccepted == SamplingMode = "rewind" => RewindMin >= 0 /\ RewindMax >= RewindMin

Nowhere == [clip |-> 0, time |-> -1]
Everywhere(x) == [e \in Envs |-> x]

\* __init__: the environments begin at the start of the first clip, where none of them
\* has been put yet.
NewCommand(first) ==
  LET origin == Everywhere([clip |-> first, time |-> 0])
  IN  [at |-> origin, frames |-> origin, robot |-> Everywhere(Nowhere), feet |-> origin,
       local |-> Everywhere(Nowhere), relative |-> Everywhere(Nowhere), left |-> Everywhere(0)]

\* _refresh_frame_cache, _refresh_body_local_cache and _update_feet_standing, of every
\* environment; the last two read the frames.
FramesRefreshed(c) == [c EXCEPT !.frames = c.at]
LocalRefreshed(c) == [c EXCEPT !.local = c.frames, !.feet = c.frames]

\* _reset_envs_to_current_reference: these robots are put on their references.
Placed(c, envs) ==
  LET fresh == FramesRefreshed(c)
  IN  IF envs = {} THEN c
      ELSE LocalRefreshed([fresh EXCEPT !.robot = [e \in Envs |-> IF e \in envs THEN fresh.frames[e] ELSE @[e]]])

-----------------------------------------------------------------------------
(* _resample_command *)

Later(a, b) == IF a > b THEN a ELSE b
Drawn == UNION { { [clip |-> k, time |-> t] : t \in ClipStarts[k]..(ClipEnds[k] - 1) } : k \in Clips }

\* An episode that failed may be taken up again some steps before it did; any other
\* goes on somewhere else.
Rewinds(at) ==
  { [clip |-> at.clip, time |-> Later(at.time - n * Step, ClipStarts[at.clip])] : n \in RewindMin..RewindMax }
SamplesOf(at, failed) ==
  CASE SamplingMode = "start" -> { [clip |-> k, time |-> ClipStarts[k]] : k \in Clips }
    [] SamplingMode = "uniform" -> Drawn
    [] SamplingMode = "rewind" -> IF failed THEN Drawn \cup Rewinds(at) ELSE Drawn

\* The outcomes for these environments, of which some failed.
Resampled(c, envs, failed) ==
  LET news == { f \in [Envs -> UNION { SamplesOf(c.at[e], e \in failed) : e \in envs } \cup { c.at[e] : e \in Envs }] :
                  \A e \in Envs : IF e \in envs THEN f[e] \in SamplesOf(c.at[e], e \in failed) ELSE f[e] = c.at[e] }
  IN  { Placed([c EXCEPT !.at = f], envs) : f \in news }

-----------------------------------------------------------------------------
(* _update_command: every reference goes on by a step, and one that is at the end of its *)
(* clip is drawn anew or stays just before the end.                                      *)

AStepLater(at) == [at EXCEPT !.time = @ + Step]
Held(at) == [at EXCEPT !.time = ClipEnds[at.clip] - 1]
Refreshed(c) == LET d == LocalRefreshed(FramesRefreshed(c)) IN [d EXCEPT !.relative = d.frames]
Updated(c, failed) ==
  LET later == [c EXCEPT !.at = [e \in Envs |-> AStepLater(@[e])]]
      over == { e \in Envs : later.at[e].time >= ClipEnds[later.at[e].clip] }
      held == [later EXCEPT !.at = [e \in Envs |-> IF e \in over THEN Held(@[e]) ELSE @[e]]]
  IN  { Refreshed(d) : d \in IF over # {} /\ ResampleOnClipEnd THEN Resampled(later, over, failed) ELSE {held} }

-----------------------------------------------------------------------------
(* reset_to_motion: environments, clips and times that belong together by their places. *)

ResetValid(envs, clips, times) ==
  /\ Len(envs) = Len(clips) /\ Len(clips) = Len(times)
  /\ \A i \in DOMAIN clips : clips[i] \in Clips /\ times[i] \in ClipStarts[clips[i]]..(ClipEnds[clips[i]] - 1)
ResetTo(c, envs, clips, times) ==
  LET of(e) == { i \in DOMAIN envs : envs[i] = e }
      chosen == { envs[i] : i \in DOMAIN envs }
      given(e) == CHOOSE i \in of(e) : TRUE
  IN  IF ~ResetValid(envs, clips, times) THEN c
      ELSE Placed([c EXCEPT !.at = [e \in Envs |-> IF e \in chosen THEN [clip |-> clips[given(e)], time |-> times[given(e)]] ELSE @[e]],
                            !.left = [e \in Envs |-> IF e \in chosen THEN LongestLeft ELSE @[e]]], chosen)
=============================================================================
