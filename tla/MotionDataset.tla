--------------------------- MODULE MotionDataset ---------------------------
(***************************************************************************)
(* The motion data sets of training: build_dataset.py writes HDF5 shards   *)
(* into the data set's directory, precompute_dataset.py derives a training *)
(* shard from every shard it finds there, and training loads every shard   *)
(* it finds in the directory of those.  One command runs at a time; it may *)
(* fail anywhere, and an interrupt ends it together with its pool.         *)
(*                                                                         *)
(* A build takes one of two routes: "batch" converts chunks of clips in a  *)
(* pool and renames their files, "clips" converts clip by clip into a      *)
(* cache of its own and merges that.  A clip in a file is known by its     *)
(* name, by the build that converted it and by whether that build was done *)
(* with it (pkl and bvh clips lie in the cache before preprocessing).      *)
(***************************************************************************)
EXTENDS Naturals, FiniteSets

CONSTANTS
  Clips,     \* names of clips, numbers in the order of their paths
  Inputs,    \* the sets of clips that the sources may hold
  MaxJobs,   \* bound on --jobs
  Builds     \* bound on the builds

ASSUME DatasetAssumption ==
  /\ Clips \subseteq Nat /\ Inputs \subseteq (SUBSET Clips) \ {{}}
  /\ \A clips \in Inputs : IsFiniteSet(clips)
  /\ MaxJobs \in Nat \ {0} /\ Builds \in Nat

VARIABLES
  minimal,   \* files of the data set's directory
  cache,     \* its clips/ directory
  training,  \* files of the precomputed directory
  gen,       \* number of the present or last build
  input,     \* clips of its sources
  valid,     \* those that preprocessing keeps
  jobs,      \* its workers, min(jobs, clips)
  route,     \* "batch" or "clips"
  phase,     \* where it is, "idle" when it has ended
  queued, running, raised,   \* its pool: tasks, and kinds of exceptions raised
  next,      \* the chunk to rename next
  fellBack,  \* the shards were written serially after the pool failed
  done,      \* the last build ended well
  todo,      \* precompute: shards yet to treat
  writing,   \* those with a temporary file
  force,     \* --force
  derived    \* the last command was a precompute --force that succeeded

data == <<minimal, cache, training>>
pool == <<queued, running, raised>>
plan == <<input, valid, jobs, route>>
build == <<gen, plan, phase, pool, next, fellBack, done>>
precompute == <<todo, writing, force, derived>>
vars == <<data, build, precompute>>

Units == 0..(MaxJobs - 1)
Files == {"shard", "chunk"} \X Units
Copies == Clips \X (1..Builds) \X BOOLEAN
Absent == [state |-> "absent", clips |-> {}]
Torn == [state |-> "torn", clips |-> {}]
Whole(copies) == [state |-> "whole", clips |-> copies]
Empty == [f \in Files |-> Absent]
NoClips == [c \in Clips |-> Absent]
Converted(clips) == { <<c, gen, TRUE>> : c \in clips }

\* find_motion_shards: a file that does not open is passed over (one that opens and
\* is not complete fails the command); names that begin with a dot are not.
Found(dir) == { f \in Files : dir[f].state = "whole" }

Init ==
  /\ minimal = Empty /\ cache = NoClips /\ training = Empty
  /\ gen = 0 /\ input = {} /\ valid = {} /\ jobs = 1 /\ route = "batch"
  /\ phase = "idle" /\ queued = {} /\ running = {} /\ raised = {}
  /\ next = 0 /\ fellBack = FALSE /\ done = FALSE
  /\ todo = {} /\ writing = {} /\ force = FALSE /\ derived = FALSE

Idle == phase = "idle" /\ todo = {}

-----------------------------------------------------------------------------
(* build_dataset.py. *)

\* The clips of chunk u of _batch_convert_split.
ChunkSize(clips, n) == (Cardinality(clips) + n - 1) \div n
Place(clips, c) == Cardinality({ d \in clips : d < c })
Chunk(clips, n, u) == { c \in clips : Place(clips, c) \div ChunkSize(clips, n) = u }
Chunks(clips, n) == { u \in 0..(n - 1) : u * ChunkSize(clips, n) < Cardinality(clips) }

\* Mutant of ClearShards: the files of chunks are left.
ClearNamedShards == [ f \in Files |-> IF f[1] = "shard" THEN Absent ELSE minimal[f] ]

\* _clear_existing_motion_shards, of both kinds of names.
ClearShards == Empty

NewBuild(clips, n) ==
  /\ Idle /\ gen < Builds
  /\ gen' = gen + 1 /\ jobs' = n
  /\ input' = clips /\ valid' \in SUBSET clips
  /\ UNCHANGED <<running, raised, next>>
  /\ derived' = FALSE /\ UNCHANGED <<training, todo, writing, force>>

\* _build_dataset_batch: chunks for a pool, or all clips in this process.
StartBatch ==
  /\ \E clips \in Inputs, n \in 1..MaxJobs :
       /\ n <= Cardinality(clips) /\ NewBuild(clips, n)
       /\ phase' = IF n = 1 THEN "serial" ELSE "pool"
       /\ queued' = IF n = 1 THEN {} ELSE Chunks(clips, n)
  /\ route' = "batch" /\ done' = FALSE /\ fellBack' = FALSE
  /\ minimal' = ClearShards
  /\ cache' \in {cache, NoClips}

\* The clips route clears its cache, and the data set only with --force.
StartClips ==
  /\ \E clips \in Inputs :
       NewBuild(clips, 1) /\ queued' = clips
  /\ route' = "clips" /\ phase' = "pool" /\ done' = FALSE
  /\ cache' = NoClips
  /\ \/ minimal' = Empty /\ fellBack' = FALSE
     \/ UNCHANGED <<minimal, fellBack>>

\* The sources cannot be read; --force has removed the directory before.  An
\* interrupt may cut the removal of the old shards.
StartFails ==
  /\ Idle
  /\ \E left \in SUBSET Found(minimal) :
       minimal' = [ f \in Files |-> IF f \in left THEN minimal[f] ELSE Absent ]
  /\ cache' \in {cache, NoClips}
  /\ done' = FALSE /\ derived' = FALSE
  /\ UNCHANGED <<training, gen, plan, phase, pool, next, fellBack, todo, writing, force>>

BuildRest == UNCHANGED <<training, gen, precompute>>
BuildGoesOn == UNCHANGED <<plan, done>> /\ BuildRest

\* The process ends, and its locals with it.
Ends(well) ==
  /\ phase' = "idle" /\ done' = well
  /\ input' = {} /\ valid' = (IF well THEN valid ELSE {}) /\ jobs' = 1 /\ route' = "batch"
  /\ queued' = {} /\ running' = {} /\ raised' = {} /\ next' = 0
  /\ BuildRest

GoesTo(p) == phase' = p /\ UNCHANGED <<pool, next>> /\ BuildGoesOn

\* The clips of chunk u that preprocessing keeps.
Kept(u) == Chunk(input, jobs, u) \cap valid

\* A worker opens the file of its task.  The redo is a loop of one process.
Begin(u) ==
  /\ phase \in {"pool", "redo"} /\ u \in queued
  /\ phase = "redo" => running \cup raised = {}
  /\ queued' = queued \ {u} /\ running' = running \cup {u}
  /\ IF route = "clips"
       THEN /\ \E state \in {Torn, Whole({<<u, gen, FALSE>>})} : cache' = [cache EXCEPT ![u] = state]
            /\ UNCHANGED minimal
       ELSE /\ minimal' = IF Kept(u) = {} THEN minimal ELSE [minimal EXCEPT ![<<"chunk", u>>] = Torn]
            /\ UNCHANGED cache
  /\ UNCHANGED <<phase, raised, next, fellBack>> /\ BuildGoesOn

\* The task ends; a filtered clip leaves no file.
End(u) ==
  /\ phase \in {"pool", "redo"} /\ u \in running
  /\ running' = running \ {u}
  /\ IF route = "clips"
       THEN /\ cache' = [cache EXCEPT ![u] = IF u \in valid THEN Whole(Converted({u})) ELSE Absent]
            /\ UNCHANGED minimal
       ELSE /\ minimal' = IF Kept(u) = {} THEN minimal
                          ELSE [minimal EXCEPT ![<<"chunk", u>>] = Whole(Converted(Kept(u)))]
            /\ UNCHANGED cache
  /\ UNCHANGED <<phase, queued, raised, next, fellBack>> /\ BuildGoesOn

\* A task raises, or the pool refuses it with an OSError.  The clips route turns what is
\* raised by the conversion itself into a RuntimeError, but not what is raised around it.
RaiseTask(u) ==
  /\ phase \in {"pool", "redo"}
  /\ \/ u \in running /\ running' = running \ {u} /\ UNCHANGED queued
        /\ \E kind \in {"error", "os"} :
             raised' = raised \cup {IF phase = "redo" THEN "error" ELSE kind}
     \/ phase = "pool" /\ u \in queued /\ queued' = queued \ {u} /\ UNCHANGED running
        /\ raised' = raised \cup {"os"}
  /\ UNCHANGED <<minimal, cache, phase, next, fellBack>> /\ BuildGoesOn

AllConverted ==
  /\ queued = {} /\ raised = {}
  /\ GoesTo(IF route = "clips" THEN "merge" ELSE "rename") /\ UNCHANGED fellBack

\* What run_conversion_tasks and _batch_convert_split do without a pool.
RedoClips == route = "clips" /\ phase' = "redo" /\ queued' = input /\ UNCHANGED fellBack
FallBack == route = "batch" /\ phase' = "serial" /\ queued' = {} /\ fellBack' = TRUE

\* The pool is left once nothing runs; the first exception to come out of it
\* decides, and takes back what is queued.  An OSError is taken for a pool that
\* is not to be had, and all is done again in this process.
PoolEnds ==
  /\ phase \in {"pool", "redo"} /\ running = {}
  /\ \/ AllConverted
     \/ "error" \in raised /\ Ends(FALSE) /\ UNCHANGED fellBack
     \/ /\ "os" \in raised /\ raised' = {}
        /\ RedoClips \/ FallBack
        /\ UNCHANGED <<running, next>> /\ BuildGoesOn
  /\ UNCHANGED <<minimal, cache>>

\* Shards that the rename loop has made so far.
Renamed == { u \in Units : minimal[<<"shard", u>>] # Absent }

\* tmp_path.replace(final_path), for the chunks that kept a clip.
Rename ==
  /\ phase = "rename" /\ next < jobs /\ next' = next + 1
  /\ minimal' = IF minimal[<<"chunk", next>>] = Absent THEN minimal
                ELSE [minimal EXCEPT ![<<"shard", Cardinality(Renamed)>>] = minimal[<<"chunk", next>>],
                                     ![<<"chunk", next>>] = Absent]
  /\ UNCHANGED <<cache, phase, pool, fellBack>> /\ BuildGoesOn

RenameEnds ==
  /\ phase = "rename" /\ next = jobs
  /\ Ends(Renamed # {}) /\ UNCHANGED <<minimal, cache, fellBack>>

\* All clips of the sources in one shard, opened and then done.
SerialBegins ==
  /\ phase = "serial"
  /\ IF valid = {}
       THEN Ends(FALSE) /\ UNCHANGED minimal
       ELSE GoesTo("write") /\ minimal' = [minimal EXCEPT ![<<"shard", 0>>] = Torn]
  /\ UNCHANGED <<cache, fellBack>>

\* The clips of the cache that the sources name, if all of them can be read.
Merged == UNION { cache[c].clips : c \in input }

\* The rows are collected and checked before the old shards go.
MergeBegins ==
  /\ phase = "merge"
  /\ IF Merged = {} \/ \E c \in input : cache[c] = Torn
       THEN Ends(FALSE) /\ UNCHANGED <<minimal, fellBack>>
       ELSE /\ GoesTo("write") /\ fellBack' = FALSE
            /\ minimal' = [ClearShards EXCEPT ![<<"shard", 0>>] = Torn]
  /\ UNCHANGED cache

ShardWritten ==
  /\ phase = "write"
  /\ minimal' = [minimal EXCEPT ![<<"shard", 0>>] =
                   Whole(IF route = "clips" THEN Merged ELSE Converted(valid))]
  /\ IF route = "clips" THEN GoesTo("clear") ELSE Ends(TRUE)
  /\ UNCHANGED <<cache, fellBack>>

\* The clips route clears its cache once its shard is complete.
CacheCleared ==
  /\ phase = "clear" /\ Ends(TRUE)
  /\ cache' = NoClips /\ UNCHANGED <<minimal, fellBack>>

\* An exception outside of the pool, or an interrupt anywhere: files stay as they are.
BuildStops ==
  /\ phase # "idle" /\ Ends(FALSE)
  /\ UNCHANGED <<minimal, cache, fellBack>>

-----------------------------------------------------------------------------
(* precompute_dataset.py. *)

PrecomputeRest == UNCHANGED <<minimal, cache, build>>

StartPrecompute ==
  /\ Idle /\ Found(minimal) # {}
  /\ todo' = Found(minimal) /\ writing' = {} /\ force' \in BOOLEAN /\ derived' = FALSE
  /\ UNCHANGED training /\ PrecomputeRest

\* The command has treated f, and ends with the last shard.
Treated(f) ==
  /\ todo' = todo \ {f} /\ writing' = writing \ {f}
  /\ derived' = (force /\ todo = {f}) /\ force' = (force /\ todo # {f})

\* Mutant of Exists: --force is not asked about.
ExistsAlready(f) == training[f].state = "whole"

Exists(f) == training[f].state = "whole" /\ ~force

KeepExisting(f) ==
  /\ f \in todo /\ Exists(f)
  /\ Treated(f) /\ UNCHANGED training /\ PrecomputeRest

\* Mutant of WriteTemporary: the training shard is opened in its place.
WriteInPlace(f) ==
  /\ f \in todo \ writing /\ ~Exists(f)
  /\ writing' = writing \cup {f} /\ training' = [training EXCEPT ![f] = Torn]
  /\ UNCHANGED <<todo, force, derived>> /\ PrecomputeRest

\* The derived arrays go to <shard>.h5.tmp, over one that an interrupt left.
WriteTemporary(f) ==
  /\ f \in todo \ writing /\ ~Exists(f)
  /\ writing' = writing \cup {f}
  /\ UNCHANGED <<training, todo, force, derived>> /\ PrecomputeRest

\* tmp_path.replace(output)
Replace(f) ==
  /\ f \in writing
  /\ training' = [training EXCEPT ![f] = minimal[f]]
  /\ Treated(f) /\ PrecomputeRest

PrecomputeStops ==
  /\ todo # {} /\ todo' = {} /\ writing' = {} /\ force' = FALSE /\ derived' = FALSE
  /\ UNCHANGED training /\ PrecomputeRest

-----------------------------------------------------------------------------
Start == StartBatch \/ StartClips \/ StartFails \/ StartPrecompute

Work ==
  \/ \E u \in Units \cup Clips : Begin(u) \/ End(u)
  \/ PoolEnds \/ Rename \/ RenameEnds \/ SerialBegins \/ MergeBegins \/ ShardWritten \/ CacheCleared

Derive == \E f \in Files : KeepExisting(f) \/ WriteTemporary(f) \/ Replace(f)

Stops == BuildStops \/ PrecomputeStops \/ \E u \in Units \cup Clips : RaiseTask(u)

Next == Start \/ Work \/ Derive \/ Stops

Spec == Init /\ [][Next]_vars

-----------------------------------------------------------------------------
(* Properties. *)

\* A build that reports success has left the clips that its preprocessing kept
\* and nothing else: none of an earlier build, of its cache or of its leftovers,
\* none that was not preprocessed, and no chunk is lost between the workers.
\* (Not so after the fallback, which leaves the chunks that were done.)
FinishedBuildIsExact ==
  done /\ ~fellBack =>
    /\ UNION { minimal[f].clips : f \in Files } = Converted(valid)
    /\ \A f \in Files : minimal[f] # Torn

Names(file) == { copy[1] : copy \in file.clips }

\* However builds end and whatever they find, no clip is in two shards that a precompute
\* would find: not converted twice by one build, nor once by each of two.
NoClipTwice ==
  ~fellBack => \A f, g \in Files : f # g => Names(minimal[f]) \cap Names(minimal[g]) = {}

\* Training, which passes over shards that do not open, never meets one: a
\* precompute that is interrupted leaves the old training shard or the new one.
TrainingReadsWholeShards == \A f \in Files : training[f] # Torn

\* After a precompute --force that succeeded, every shard of the data set is
\* trained on as it is now, whatever was interrupted before.
ForcedPrecomputeIsCurrent ==
  derived => \A f \in Found(minimal) : training[f] = minimal[f]
=============================================================================
