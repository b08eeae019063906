------------------------ MODULE MotionDataset_proofs ------------------------
(***************************************************************************)
(* The motion data sets, for every set of clips, every bound on the        *)
(* workers and every number of builds: what a build that succeeds leaves,  *)
(* what any build may leave, and what training reads.                      *)
(*                                                                         *)
(* Then what is drawn from them and played back, for every value and every *)
(* length: the windows and centres of a shard's clips (MotionSampling),    *)
(* the buffer of timed references (ReferenceTimeline) and the references   *)
(* of training.  These need an induction, which is by the least number of  *)
(* a set of counterexamples.                                               *)
(***************************************************************************)
EXTENDS MotionDataset, Integers, Sequences, FiniteSetTheorems, SequenceTheorems, WellFoundedInduction, TLAPS

CONSTANTS   \* of the training whose samples are drawn from the data set (MotionSampling)
  Envs, EnvClips, ClipStarts, ClipEnds, Step, LongestLeft, SamplingMode, ResampleOnClipEnd, RewindMin, RewindMax

Training == INSTANCE MotionSampling WITH Clips <- EnvClips
Timeline == INSTANCE ReferenceTimeline

-----------------------------------------------------------------------------
(* The chunks of a batch partition its clips.                              *)

LEMMA Division ==
  ASSUME NEW a \in Nat, NEW n \in Nat \ {0}
  PROVE  /\ a \div n \in Nat
         /\ n * (a \div n) <= a /\ a < n * (a \div n) + n
BY Z3

LEMMA ProductOrder ==
  ASSUME NEW q \in Nat, NEW n \in Nat, NEW s \in Nat \ {0}, q * s < n * s
  PROVE  q < n
BY Z3

LEMMA PlaceBound ==
  ASSUME NEW clips \in SUBSET Nat, IsFiniteSet(clips), NEW c \in clips
  PROVE  Place(clips, c) \in Nat /\ Place(clips, c) < Cardinality(clips)
<1> DEFINE before == { d \in clips : d < c }
<1>1. before \in SUBSET clips /\ c \notin before  OBVIOUS
<1>2. IsFiniteSet(before) /\ Cardinality(before) <= Cardinality(clips) /\ Cardinality(before) # Cardinality(clips)
  BY <1>1, FS_Subset
<1>3. Cardinality(before) \in Nat /\ Cardinality(clips) \in Nat  BY <1>2, FS_CardinalityType
<1> QED  BY <1>2, <1>3 DEF Place

LEMMA ChunksCover ==
  ASSUME NEW clips \in SUBSET Nat, IsFiniteSet(clips), NEW n \in Nat \ {0}, NEW c \in clips
  PROVE  /\ Place(clips, c) \div ChunkSize(clips, n) \in Chunks(clips, n)
         /\ c \in Chunk(clips, n, Place(clips, c) \div ChunkSize(clips, n))
<1> DEFINE size == ChunkSize(clips, n)
           count == Cardinality(clips)
           u == Place(clips, c) \div size
<1>1. count \in Nat /\ count # 0  BY FS_CardinalityType, FS_EmptySet
<1>2. size \in Nat \ {0} /\ count <= n * size
  <2>1. count + n - 1 \in Nat /\ count + n - 1 >= n  BY <1>1
  <2>2. size \in Nat /\ n * size <= count + n - 1 /\ count + n - 1 < n * size + n
    BY <2>1, Division DEF ChunkSize
  <2>3. size # 0  BY <2>1, <2>2
  <2> QED  BY <1>1, <2>2, <2>3
<1>3. Place(clips, c) \in Nat /\ Place(clips, c) < count  BY PlaceBound
<1>4. u \in Nat /\ size * u <= Place(clips, c)  BY <1>2, <1>3, Division
<1>5. u * size < count /\ u * size < n * size
  <2>1. u * size = size * u  BY <1>2, <1>4
  <2>2. n * size \in Nat /\ size * u \in Nat  BY <1>2, <1>4
  <2> HIDE DEF u, size, count
  <2> QED  BY <2>1, <2>2, <1>1, <1>2, <1>3, <1>4
<1>6. u < n  BY <1>2, <1>4, <1>5, ProductOrder
<1>7. u \in Chunks(clips, n)  BY <1>4, <1>5, <1>6 DEF Chunks
<1> QED  BY <1>7 DEF Chunk

\* A chunk that has no clip to start at holds none.
LEMMA NoSuchChunk ==
  ASSUME NEW clips \in SUBSET Nat, IsFiniteSet(clips), NEW n \in Nat \ {0},
         NEW u, u \notin Chunks(clips, n)
  PROVE  Chunk(clips, n, u) = {}
BY ChunksCover DEF Chunk

\* No clip is in two chunks.
LEMMA ChunksApart ==
  ASSUME NEW clips, NEW n, NEW u, NEW v, u # v
  PROVE  Chunk(clips, n, u) \cap Chunk(clips, n, v) = {}
BY DEF Chunk

-----------------------------------------------------------------------------
(* Files and what is in them.                                              *)

States == [state : {"absent", "torn", "whole"}, clips : SUBSET Copies]

LEMMA StateFacts ==
  /\ Absent \in States /\ Torn \in States /\ Absent # Torn
  /\ Absent.clips = {} /\ Torn.clips = {}
  /\ \A S \in SUBSET Copies : Whole(S) \in States
  /\ \A S : Whole(S) # Absent /\ Whole(S) # Torn /\ Whole(S).clips = S /\ Whole(S).state = "whole"
  /\ Absent.state # "whole" /\ Torn.state # "whole"
BY DEF States, Absent, Torn, Whole

LEMMA FileNames ==
  /\ \A u \in Units : <<"shard", u>> \in Files /\ <<"chunk", u>> \in Files
  /\ \A f \in Files : \E u \in Units : f = <<"shard", u>> \/ f = <<"chunk", u>>
  /\ \A u, v : <<"shard", u>> # <<"chunk", v>>
  /\ \A u, v : u # v => <<"shard", u>> # <<"shard", v>> /\ <<"chunk", u>> # <<"chunk", v>>
BY DEF Files

LEMMA Directories ==
  /\ Empty \in [Files -> States] /\ NoClips \in [Clips -> States]
  /\ \A f \in Files : Empty[f] = Absent
BY StateFacts DEF Empty, NoClips

LEMMA FirstUnit == 0 \in Units /\ MaxJobs \in Nat \ {0} /\ Units \subseteq Nat
BY DatasetAssumption DEF Units

\* What a file of these clips is when it is done.
Of(clips) == IF clips = {} THEN Absent ELSE Whole(Converted(clips))

LEMMA OfFacts ==
  ASSUME NEW clips
  PROVE  /\ Of(clips).clips = Converted(clips) /\ Of(clips) # Torn
         /\ Of(clips) = Absent <=> clips = {}
         /\ gen \in 1..Builds /\ clips \subseteq Clips => Of(clips) \in States /\ Converted(clips) \subseteq Copies
<1>1. Converted({}) = {}  BY DEF Converted
<1>2. ASSUME gen \in 1..Builds, clips \subseteq Clips PROVE Converted(clips) \in SUBSET Copies
  <2>1. \A c \in clips : <<c, gen, TRUE>> \in Copies  BY <1>2, Zenon DEF Copies
  <2> QED  BY <2>1, Zenon DEF Converted
<1> QED  BY <1>1, <1>2, StateFacts DEF Of

\* The names in a file are those of the clips it was made of.
LEMMA NamesOf ==
  /\ \A clips : Names(Of(clips)) = clips
  /\ Names(Absent) = {} /\ Names(Torn) = {}
  /\ \A x, y : x.clips \subseteq y.clips => Names(x) \subseteq Names(y)
<1>1. ASSUME NEW clips PROVE Names(Of(clips)) = clips
  <2>1. \A c : <<c, gen, TRUE>>[1] = c  OBVIOUS
  <2>2. Of(clips).clips = { <<c, gen, TRUE>> : c \in clips }  BY OfFacts DEF Converted
  <2>3. \A n : n \in Names(Of(clips)) <=> \E c \in clips : n = <<c, gen, TRUE>>[1]  BY <2>2, Zenon DEF Names
  <2>4. \A n : n \in Names(Of(clips)) <=> n \in clips  BY <2>1, <2>3
  <2> QED  BY <2>4
<1> QED  BY <1>1, StateFacts DEF Names

Disjoint(dir) == \A f, g \in Files : f # g => Names(dir[f]) \cap Names(dir[g]) = {}

LEMMA KeptApart ==
  ASSUME NEW u, NEW v, u # v
  PROVE  Names(Of(Kept(u))) \cap Names(Of(Kept(v))) = {}
<1>1. Kept(u) \cap Kept(v) = {}  BY ChunksApart DEF Kept
<1> QED  BY <1>1, NamesOf

\* Unfinished files of chunks, and finished ones, share no clip.
LEMMA ChunkFilesDisjoint ==
  ASSUME NEW dir,
         \A u \in Units : dir[<<"shard", u>>] = Absent /\ dir[<<"chunk", u>>] \in {Absent, Torn, Of(Kept(u))}
  PROVE  Disjoint(dir)
<1> SUFFICES ASSUME NEW f \in Files, NEW g \in Files, f # g PROVE Names(dir[f]) \cap Names(dir[g]) = {}
  BY DEF Disjoint
<1>1. PICK u \in Units, v \in Units : /\ f = <<"shard", u>> \/ f = <<"chunk", u>>
                                      /\ g = <<"shard", v>> \/ g = <<"chunk", v>>
  BY FileNames
<1>2. Names(dir[f]) = {} \/ (f = <<"chunk", u>> /\ dir[f] = Of(Kept(u)))  BY <1>1, NamesOf
<1>3. Names(dir[g]) = {} \/ (g = <<"chunk", v>> /\ dir[g] = Of(Kept(v)))  BY <1>1, NamesOf
<1>4. CASE f = <<"chunk", u>> /\ g = <<"chunk", v>> /\ dir[f] = Of(Kept(u)) /\ dir[g] = Of(Kept(v))
  BY <1>4, KeptApart
<1> QED  BY <1>2, <1>3, <1>4

LEMMA FewerClipsDisjoint ==
  ASSUME NEW old, NEW new, Disjoint(old), \A f \in Files : new[f].clips \subseteq old[f].clips
  PROVE  Disjoint(new)
<1>1. \A f \in Files : Names(new[f]) \subseteq Names(old[f])  BY NamesOf
<1> QED  BY <1>1 DEF Disjoint

LEMMA EmptyDisjoint == Disjoint(Empty)
BY Directories, NamesOf DEF Disjoint

-----------------------------------------------------------------------------
(* The inductive invariant.                                                *)

DataOK ==
  /\ minimal \in [Files -> States] /\ cache \in [Clips -> States] /\ training \in [Files -> States]

PlanOK ==
  /\ gen \in 0..Builds /\ jobs \in 1..MaxJobs
  /\ input \in SUBSET Clips /\ valid \in SUBSET Clips

StageOK ==
  /\ route \in {"batch", "clips"}
  /\ phase \in {"idle", "pool", "redo", "rename", "serial", "merge", "write", "clear"}
  /\ queued \in SUBSET (Units \cup Clips) /\ running \in SUBSET (Units \cup Clips)
  /\ raised \in SUBSET {"error", "os"} /\ next \in 0..MaxJobs
  /\ fellBack \in BOOLEAN /\ done \in BOOLEAN

DeriveOK ==
  /\ todo \in SUBSET Files /\ writing \in SUBSET Files
  /\ force \in BOOLEAN /\ derived \in BOOLEAN

TypeOK == DataOK /\ PlanOK /\ StageOK /\ DeriveOK

\* One command runs at a time, and a precompute treats shards that it found.
Exclusive ==
  /\ phase = "idle" \/ todo = {}
  /\ done => phase = "idle"
  /\ derived => phase = "idle" /\ todo = {}
  /\ force => todo # {}
  /\ writing \subseteq todo /\ todo \subseteq Found(minimal)

Planned == phase # "idle" => input \in Inputs /\ valid \subseteq input /\ gen \in 1..Builds

Resting ==
  /\ phase \notin {"pool", "redo"} => queued = {} /\ running = {} /\ raised = {}
  /\ phase # "rename" => next = 0

Routes ==
  /\ phase \in {"redo", "merge"} => route = "clips"
  /\ phase \in {"rename", "serial"} => route = "batch"

\* A clip that is neither queued nor running, when nothing was raised, is done with.
CachePool ==
  phase \in {"pool", "redo"} /\ route = "clips" =>
    /\ queued \cup running \subseteq input
    /\ raised = {} => \A c \in input \ (queued \cup running) : cache[c] = Of({c} \cap valid)

ChunkFiles ==
  \A u \in Units :
    /\ minimal[<<"shard", u>>] = Absent /\ minimal[<<"chunk", u>>] \in {Absent, Torn, Of(Kept(u))}
    /\ Kept(u) = {} => minimal[<<"chunk", u>>] = Absent

\* So is a chunk, whose file is its own.
ChunkPool ==
  phase = "pool" /\ route = "batch" =>
    /\ queued \cup running \subseteq Chunks(input, jobs)
    /\ ~fellBack /\ ChunkFiles
    /\ raised = {} => \A u \in Units \ (queued \cup running) : minimal[<<"chunk", u>>] = Of(Kept(u))

\* The chunks from next on wait to be renamed; those before it are the shards
\* from 0 on, each of them once.
ChunksWait == \A u \in Units : minimal[<<"chunk", u>>] = IF u < next THEN Absent ELSE Of(Kept(u))
ShardsInOrder == \E k \in 0..next : Renamed = 0..(k - 1)
ShardsAreChunks == \A s \in Renamed : \E v \in 0..(next - 1) : minimal[<<"shard", s>>] = Of(Kept(v))
ChunksAreShards ==
  \A v \in 0..(next - 1) : Kept(v) # {} => \E s \in Units : minimal[<<"shard", s>>] = Of(Kept(v))

Renaming ==
  phase = "rename" =>
    /\ next <= jobs /\ ~fellBack
    /\ ChunksWait /\ ShardsInOrder /\ ShardsAreChunks /\ ChunksAreShards

\* The one shard that is written is written into an empty directory, from clips
\* that are all done with.
Writing ==
  /\ phase = "serial" /\ ~fellBack => minimal = Empty
  /\ phase = "merge" => \A c \in input : cache[c] = Of({c} \cap valid)
  /\ phase = "write" /\ ~fellBack => minimal = [Empty EXCEPT ![<<"shard", 0>>] = Torn]
  /\ phase = "write" /\ route = "clips" => Merged = Converted(valid)
  /\ phase = "clear" /\ ~fellBack => minimal = [Empty EXCEPT ![<<"shard", 0>>] = Whole(Converted(valid))]

\* A precompute --force that runs has treated what it no longer has to do.
Forcing == force => \A f \in Found(minimal) \ todo : training[f] = minimal[f]

BuildInv ==
  /\ Planned /\ Resting /\ Routes
  /\ CachePool /\ ChunkPool /\ Renaming /\ Writing
  /\ NoClipTwice /\ FinishedBuildIsExact

DeriveInv == Forcing /\ TrainingReadsWholeShards /\ ForcedPrecomputeIsCurrent

IInv == TypeOK /\ Exclusive /\ BuildInv /\ DeriveInv

LEMMA TwiceIsDisjoint == NoClipTwice <=> (fellBack \/ Disjoint(minimal))
BY DEF NoClipTwice, Disjoint

LEMMA IInvInit == Init => IInv
<1> SUFFICES ASSUME Init PROVE IInv  OBVIOUS
<1> USE DEF Init
<1>1. TypeOK
  <2>1. DataOK  BY Directories DEF DataOK
  <2>2. PlanOK  BY FirstUnit, DatasetAssumption DEF PlanOK
  <2>3. StageOK
    <3>1. next \in 0..MaxJobs  BY FirstUnit
    <3> QED  BY <3>1 DEF StageOK
  <2>4. DeriveOK  BY DEF DeriveOK
  <2> QED  BY <2>1, <2>2, <2>3, <2>4 DEF TypeOK
<1>2. Exclusive  BY DEF Exclusive
<1>3. Planned /\ Resting /\ Routes /\ CachePool /\ ChunkPool /\ Renaming /\ Writing
  BY DEF Planned, Resting, Routes, CachePool, ChunkPool, Renaming, Writing
<1>4. NoClipTwice  BY EmptyDisjoint, TwiceIsDisjoint
<1>5. FinishedBuildIsExact  BY DEF FinishedBuildIsExact
<1>6. DeriveInv
  BY Directories, StateFacts DEF DeriveInv, Forcing, TrainingReadsWholeShards, ForcedPrecomputeIsCurrent
<1> QED  BY <1>1, <1>2, <1>3, <1>4, <1>5, <1>6 DEF IInv, BuildInv

-----------------------------------------------------------------------------
(* precompute_dataset.py.                                                  *)

\* The plan of a build stands until the next one.
SamePlan == UNCHANGED <<gen, input, valid, jobs>>

LEMMA PlanStands ==
  ASSUME SamePlan
  PROVE  /\ \A u : Kept(u)' = Kept(u) /\ Of(Kept(u))' = Of(Kept(u))
         /\ \A c : Of({c} \cap valid)' = Of({c} \cap valid)
         /\ Converted(valid)' = Converted(valid)
<1>1. \A S : { <<c, gen', TRUE>> : c \in S } = Converted(S)  BY Zenon DEF SamePlan, Converted
<1>2. \A u : Kept(u)' = Kept(u)  BY DEF SamePlan, Kept
<1>3. \A u : Of(Kept(u))' = Of(Kept(u))  BY <1>1, <1>2 DEF Of, Converted
<1>4. \A c : Of({c} \cap valid)' = Of({c} \cap valid)  BY <1>1 DEF SamePlan, Of, Converted
<1>5. Converted(valid)' = Converted(valid)  BY <1>1 DEF SamePlan, Converted
<1> QED  BY <1>2, <1>3, <1>4, <1>5

\* What it leaves alone is all that the invariant of the builds speaks about.
LEMMA BuildUntouched == ASSUME BuildInv, PrecomputeRest PROVE BuildInv'
<1>1. /\ UNCHANGED <<minimal, cache, gen, input, valid, jobs, route, phase>>
      /\ UNCHANGED <<queued, running, raised, next, fellBack, done>>
  BY DEF PrecomputeRest, build, plan, pool
<1>2. SamePlan  BY <1>1 DEF SamePlan
<1>3. Planned' /\ Resting' /\ Routes'  BY <1>1 DEF BuildInv, Planned, Resting, Routes
<1>4. CachePool'  BY <1>1, <1>2, PlanStands DEF BuildInv, CachePool
<1>5. ChunkPool'  BY <1>1, <1>2, PlanStands DEF BuildInv, ChunkPool, ChunkFiles
<1>6. Renaming'
  BY <1>1, <1>2, PlanStands
  DEF BuildInv, Renaming, ChunksWait, ShardsInOrder, ShardsAreChunks, ChunksAreShards, Renamed
<1>7. Writing'
  <2>1. Merged' = Merged  BY <1>1 DEF Merged
  <2> QED  BY <1>1, <1>2, <2>1, PlanStands DEF BuildInv, Writing
<1>8. NoClipTwice'  BY <1>1 DEF BuildInv, NoClipTwice
<1>9. FinishedBuildIsExact'  BY <1>1, <1>2, PlanStands DEF BuildInv, FinishedBuildIsExact
<1> QED  BY <1>3, <1>4, <1>5, <1>6, <1>7, <1>8, <1>9 DEF BuildInv

LEMMA FoundIsWhole ==
  ASSUME TypeOK, NEW f \in Found(minimal)
  PROVE  f \in Files /\ minimal[f] \in States /\ minimal[f] # Torn
BY StateFacts DEF Found, TypeOK, DataOK

\* A shard that is treated is current, or was there without --force.
LEMMA TreatedStep ==
  ASSUME IInv, NEW f \in todo, Treated(f), PrecomputeRest,
         \/ UNCHANGED training /\ ~force
         \/ training' = [training EXCEPT ![f] = minimal[f]]
  PROVE  IInv'
<1> USE DEF PrecomputeRest, build, plan, pool, Treated
<1>1. f \in Files /\ f \in Found(minimal) /\ todo \subseteq Found(minimal) /\ phase = "idle" /\ ~derived
  BY DEF IInv, Exclusive, TypeOK, DeriveOK
<1>2. minimal[f] \in States /\ minimal[f] # Torn  BY <1>1, FoundIsWhole DEF IInv
<1>3. Found(minimal)' = Found(minimal)  BY DEF Found
<1>4. training' \in [Files -> States] /\ \A g \in Files : training'[g] = IF g = f /\ training' # training THEN minimal[f] ELSE training[g]
  BY <1>1, <1>2 DEF IInv, TypeOK, DataOK
<1>5. force => training'[f] = minimal[f] /\ \A g \in Files \ {f} : training'[g] = training[g]
  BY <1>1 DEF IInv, TypeOK, DataOK
<1>6. TypeOK'
  <2>1. DataOK' /\ PlanOK' /\ StageOK'  BY <1>4 DEF IInv, TypeOK, DataOK, PlanOK, StageOK
  <2>2. todo' \in SUBSET Files /\ writing' \in SUBSET Files  BY DEF IInv, TypeOK, DeriveOK
  <2>3. force' \in BOOLEAN /\ derived' \in BOOLEAN  OBVIOUS
  <2> QED  BY <2>1, <2>2, <2>3 DEF TypeOK, DeriveOK
<1>7. Exclusive'
  <2>1. /\ derived' => todo' = {}
        /\ force' => todo' # {}
        /\ writing' \subseteq todo' /\ todo' \subseteq Found(minimal)'
        /\ phase' = "idle"
    BY <1>1, <1>3 DEF IInv, Exclusive
  <2> QED  BY <2>1 DEF Exclusive
<1>8. \A g \in Found(minimal) \ todo' : force => training'[g] = minimal[g]
  <2> SUFFICES ASSUME NEW g \in Found(minimal), g \notin todo', force PROVE training'[g] = minimal[g]
    OBVIOUS
  <2>1. g \in Files  BY DEF Found
  <2>2. CASE g = f  BY <2>2, <1>5
  <2>3. CASE g # f
    <3>1. g \notin todo  BY <2>3
    <3>2. training[g] = minimal[g]  BY <3>1 DEF IInv, DeriveInv, Forcing
    <3> QED  BY <3>2, <2>1, <2>3, <1>5
  <2> QED  BY <2>2, <2>3
<1>9. DeriveInv'
  <2>1. Forcing'  BY <1>3, <1>8 DEF Forcing
  <2>2. TrainingReadsWholeShards'
    BY <1>2, <1>4 DEF IInv, DeriveInv, TrainingReadsWholeShards, Torn
  <2>3. ForcedPrecomputeIsCurrent'
    <3>1. derived' => force /\ todo' = {}  OBVIOUS
    <3> QED  BY <3>1, <1>3, <1>8 DEF ForcedPrecomputeIsCurrent
  <2> QED  BY <2>1, <2>2, <2>3 DEF DeriveInv
<1> QED  BY <1>6, <1>7, <1>9, BuildUntouched DEF IInv

LEMMA PrecomputeSteps ==
  ASSUME IInv, StartPrecompute \/ Derive \/ PrecomputeStops
  PROVE  IInv'
<1> USE DEF PrecomputeRest, build, plan, pool
<1>1. CASE StartPrecompute \/ PrecomputeStops
  <2>1. /\ UNCHANGED <<minimal, training, phase>> /\ PrecomputeRest /\ phase = "idle"
        /\ writing' = {} /\ derived' = FALSE /\ force' \in BOOLEAN
        /\ todo' = Found(minimal) \/ (todo' = {} /\ force' = FALSE)
        /\ force' => todo' # {}
    BY <1>1 DEF StartPrecompute, PrecomputeStops, Idle, IInv, Exclusive
  <2>2. Found(minimal)' = Found(minimal) /\ Found(minimal) \subseteq Files  BY <2>1 DEF Found
  <2>3. TypeOK'
    <3>1. DataOK' /\ PlanOK' /\ StageOK'  BY <2>1 DEF IInv, TypeOK, DataOK, PlanOK, StageOK
    <3>2. DeriveOK'  BY <2>1, <2>2 DEF DeriveOK
    <3> QED  BY <3>1, <3>2 DEF TypeOK
  <2>4. Exclusive'  BY <2>1, <2>2 DEF Exclusive
  <2>5. Forcing'  BY <2>1, <2>2 DEF Forcing
  <2>6. TrainingReadsWholeShards' /\ ForcedPrecomputeIsCurrent'
    BY <2>1 DEF IInv, DeriveInv, TrainingReadsWholeShards, ForcedPrecomputeIsCurrent
  <2> QED  BY <2>1, <2>3, <2>4, <2>5, <2>6, BuildUntouched DEF IInv, DeriveInv
<1>2. ASSUME NEW f \in Files, KeepExisting(f) PROVE IInv'
  BY <1>2, TreatedStep DEF KeepExisting, Exists
<1>3. ASSUME NEW f \in Files, WriteTemporary(f) PROVE IInv'
  <2>1. /\ UNCHANGED <<minimal, training, todo, force, derived, phase>> /\ PrecomputeRest
        /\ writing' = writing \cup {f} /\ f \in todo
    BY <1>3 DEF WriteTemporary
  <2>2. Found(minimal)' = Found(minimal)  BY <2>1 DEF Found
  <2>3. TypeOK'
    <3>1. DataOK' /\ PlanOK' /\ StageOK'  BY <2>1 DEF IInv, TypeOK, DataOK, PlanOK, StageOK
    <3>2. DeriveOK'  BY <2>1, <1>3 DEF DeriveOK, IInv, TypeOK
    <3> QED  BY <3>1, <3>2 DEF TypeOK
  <2>4. Exclusive'  BY <2>1, <2>2 DEF IInv, Exclusive
  <2>5. DeriveInv'
    BY <2>1, <2>2 DEF IInv, DeriveInv, Forcing, TrainingReadsWholeShards, ForcedPrecomputeIsCurrent
  <2> QED  BY <2>1, <2>3, <2>4, <2>5, BuildUntouched DEF IInv
<1>4. ASSUME NEW f \in Files, Replace(f) PROVE IInv'
  BY <1>4, TreatedStep DEF Replace, IInv, Exclusive
<1> QED  BY <1>1, <1>2, <1>3, <1>4 DEF Derive

-----------------------------------------------------------------------------
(* build_dataset.py: what its steps leave of the training files.           *)

LEMMA BuildLeavesTraining ==
  ASSUME IInv, phase # "idle", BuildRest, done' => phase' = "idle", DataOK', StageOK', PlanOK', BuildInv'
  PROVE  IInv'
<1>1. todo = {} /\ ~derived /\ ~force /\ writing = {}  BY DEF IInv, Exclusive
<1>2. todo' = {} /\ ~derived' /\ ~force' /\ writing' = {} /\ training' = training
  BY <1>1 DEF BuildRest, precompute
<1>3. DeriveOK'
  <2>1. UNCHANGED <<todo, writing, force, derived>>  BY DEF BuildRest, precompute
  <2> QED  BY <2>1 DEF IInv, TypeOK, DeriveOK
<1>4. Exclusive'  BY <1>2 DEF Exclusive
<1>5. DeriveInv'
  BY <1>2 DEF IInv, DeriveInv, Forcing, TrainingReadsWholeShards, ForcedPrecomputeIsCurrent
<1> QED  BY <1>3, <1>4, <1>5 DEF IInv, TypeOK

\* Nothing is claimed of the stages of a build once it has ended.
LEMMA EndsStep ==
  ASSUME IInv, phase # "idle", NEW well \in BOOLEAN, Ends(well),
         minimal' \in [Files -> States], cache' \in [Clips -> States], fellBack' \in BOOLEAN,
         NoClipTwice', well => FinishedBuildIsExact'
  PROVE  IInv'
<1>1. /\ phase' = "idle" /\ done' = well /\ input' = {} /\ jobs' = 1 /\ route' = "batch"
      /\ queued' = {} /\ running' = {} /\ raised' = {} /\ next' = 0
      /\ valid' \in {valid, {}} /\ training' = training /\ gen' = gen /\ BuildRest
  BY DEF Ends, BuildRest
<1>2. DataOK' /\ PlanOK'
  BY <1>1, FirstUnit DEF IInv, TypeOK, DataOK, PlanOK
<1>3. StageOK'
  <2>1. next' \in 0..MaxJobs  BY <1>1, FirstUnit
  <2>2. done' \in BOOLEAN  BY <1>1
  <2> QED  BY <1>1, <2>1, <2>2 DEF StageOK
<1>4. Planned' /\ Resting' /\ Routes' /\ CachePool' /\ ChunkPool' /\ Renaming' /\ Writing'
  BY <1>1 DEF Planned, Resting, Routes, CachePool, ChunkPool, Renaming, Writing
<1>5. FinishedBuildIsExact'  BY <1>1 DEF FinishedBuildIsExact
<1> QED  BY <1>1, <1>2, <1>3, <1>4, <1>5, BuildLeavesTraining DEF BuildInv

-----------------------------------------------------------------------------
(* A build begins.                                                         *)

\* Any command that begins finds nothing of a precompute under way.
LEMMA CommandBegins ==
  ASSUME IInv, Idle, derived' = FALSE, UNCHANGED <<training, todo, writing, force>>, done' = FALSE,
         DataOK', StageOK', PlanOK', BuildInv'
  PROVE  IInv'
<1>1. todo = {} /\ ~force /\ writing = {}  BY DEF IInv, Exclusive, Idle
<1>2. todo' = {} /\ ~force' /\ writing' = {} /\ ~derived'  BY <1>1
<1>3. DeriveOK'  BY DEF IInv, TypeOK, DeriveOK
<1>4. Exclusive'  BY <1>2 DEF Exclusive
<1>5. DeriveInv'
  BY <1>2 DEF IInv, DeriveInv, Forcing, TrainingReadsWholeShards, ForcedPrecomputeIsCurrent
<1> QED  BY <1>3, <1>4, <1>5 DEF IInv, TypeOK

LEMMA InputFacts ==
  ASSUME NEW clips \in Inputs
  PROVE  clips \in SUBSET Clips /\ clips \in SUBSET Nat /\ IsFiniteSet(clips) /\ clips # {}
BY DatasetAssumption

LEMMA StartBatchStep == ASSUME IInv, StartBatch PROVE IInv'
<1>1. PICK clips \in Inputs, n \in 1..MaxJobs :
        /\ NewBuild(clips, n)
        /\ phase' = IF n = 1 THEN "serial" ELSE "pool"
        /\ queued' = IF n = 1 THEN {} ELSE Chunks(clips, n)
  BY DEF StartBatch
<1>2. /\ route' = "batch" /\ done' = FALSE /\ fellBack' = FALSE
      /\ minimal' = Empty /\ cache' \in {cache, NoClips}
  BY DEF StartBatch, ClearShards
<1>3. /\ Idle /\ gen < Builds /\ gen' = gen + 1 /\ jobs' = n
      /\ input' = clips /\ valid' \in SUBSET clips
      /\ UNCHANGED <<running, raised, next, training, todo, writing, force>> /\ derived' = FALSE
  BY <1>1 DEF NewBuild
<1>4. running = {} /\ raised = {} /\ next = 0  BY <1>3 DEF Idle, IInv, BuildInv, Resting
<1>5. gen' \in 1..Builds  BY <1>3, DatasetAssumption DEF IInv, TypeOK, PlanOK
<1>6. n \in Nat \ {0}  BY FirstUnit
<1>7. DataOK'  BY <1>2, <1>3, Directories DEF IInv, TypeOK, DataOK
<1>8. PlanOK'
  <2>1. gen' \in 0..Builds  BY <1>5
  <2> QED  BY <2>1, <1>3, InputFacts DEF PlanOK
<1>9. StageOK'
  <2>1. Chunks(clips, n) \subseteq Units  BY FirstUnit DEF Chunks, Units
  <2>2. next' \in 0..MaxJobs  BY <1>3, <1>4, FirstUnit
  <2>3. phase' \in {"serial", "pool"} /\ queued' \in SUBSET (Units \cup Clips)  BY <1>1, <2>1
  <2> QED  BY <1>2, <1>3, <1>4, <2>2, <2>3 DEF StageOK
<1>10. Planned' /\ Resting' /\ Routes' /\ CachePool' /\ Renaming'
  BY <1>1, <1>2, <1>3, <1>4, <1>5 DEF Planned, Resting, Routes, CachePool, Renaming
<1>11. ASSUME NEW u \in Units PROVE minimal'[<<"shard", u>>] = Absent /\ minimal'[<<"chunk", u>>] = Absent
  BY <1>2, FileNames, Directories
<1>12. \A u \in Units \ queued' : n # 1 => Kept(u)' = {}
  <2>1. ASSUME NEW u \in Units, u \notin Chunks(clips, n) PROVE Chunk(input', jobs', u) = {}
    BY <1>3, <1>6, <2>1, NoSuchChunk, InputFacts
  <2> QED  BY <1>1, <2>1 DEF Kept
<1>13. ChunkPool'
  <2>1. ChunkFiles'  BY <1>11 DEF ChunkFiles
  <2>2. \A u \in Units \ queued' : n # 1 => Of(Kept(u))' = Absent  BY <1>12 DEF Of
  <2> QED  BY <1>1, <1>2, <1>3, <1>4, <1>11, <2>1, <2>2 DEF ChunkPool
<1>14. Writing'  BY <1>1, <1>2 DEF Writing
<1>15. NoClipTwice' /\ FinishedBuildIsExact'
  BY <1>2, EmptyDisjoint DEF NoClipTwice, FinishedBuildIsExact, Disjoint
<1> QED
  BY <1>2, <1>3, <1>7, <1>8, <1>9, <1>10, <1>13, <1>14, <1>15, CommandBegins DEF BuildInv

LEMMA StartClipsStep == ASSUME IInv, StartClips PROVE IInv'
<1>1. PICK clips \in Inputs : NewBuild(clips, 1) /\ queued' = clips  BY DEF StartClips
<1>2. /\ route' = "clips" /\ phase' = "pool" /\ done' = FALSE /\ cache' = NoClips
      /\ (minimal' = Empty /\ fellBack' = FALSE) \/ UNCHANGED <<minimal, fellBack>>
  BY DEF StartClips
<1>3. /\ Idle /\ gen < Builds /\ gen' = gen + 1 /\ jobs' = 1
      /\ input' = clips /\ valid' \in SUBSET clips
      /\ UNCHANGED <<running, raised, next, training, todo, writing, force>> /\ derived' = FALSE
  BY <1>1 DEF NewBuild
<1>4. running = {} /\ raised = {} /\ next = 0  BY <1>3 DEF Idle, IInv, BuildInv, Resting
<1>5. gen' \in 1..Builds  BY <1>3, DatasetAssumption DEF IInv, TypeOK, PlanOK
<1>6. DataOK'  BY <1>2, <1>3, Directories DEF IInv, TypeOK, DataOK
<1>7. PlanOK'
  <2>1. gen' \in 0..Builds /\ jobs' \in 1..MaxJobs  BY <1>3, <1>5, FirstUnit
  <2> QED  BY <2>1, <1>3, InputFacts DEF PlanOK
<1>8. StageOK'
  <2>1. next' \in 0..MaxJobs /\ queued' \in SUBSET (Units \cup Clips)
    BY <1>1, <1>3, <1>4, FirstUnit, InputFacts
  <2>2. fellBack' \in BOOLEAN  BY <1>2 DEF IInv, TypeOK, StageOK
  <2> QED  BY <1>2, <1>3, <1>4, <2>1, <2>2 DEF StageOK
<1>9. Planned' /\ Resting' /\ Routes' /\ CachePool' /\ ChunkPool' /\ Renaming' /\ Writing'
  BY <1>1, <1>2, <1>3, <1>4, <1>5
  DEF Planned, Resting, Routes, CachePool, ChunkPool, Renaming, Writing
<1>10. NoClipTwice'
  BY <1>2, EmptyDisjoint DEF NoClipTwice, Disjoint, IInv, BuildInv
<1>11. FinishedBuildIsExact'  BY <1>2 DEF FinishedBuildIsExact
<1> QED  BY <1>2, <1>3, <1>6, <1>7, <1>8, <1>9, <1>10, <1>11, CommandBegins DEF BuildInv

LEMMA StartFailsStep == ASSUME IInv, StartFails PROVE IInv'
<1>1. PICK left \in SUBSET Found(minimal) :
        minimal' = [ f \in Files |-> IF f \in left THEN minimal[f] ELSE Absent ]
  BY DEF StartFails
<1>2. /\ Idle /\ cache' \in {cache, NoClips} /\ done' = FALSE /\ derived' = FALSE
      /\ UNCHANGED <<training, gen, plan, phase, pool, next, fellBack, todo, writing, force>>
  BY DEF StartFails
<1>3. phase = "idle" /\ phase' = "idle"  BY <1>2 DEF Idle
<1>4. minimal' \in [Files -> States] /\ \A f \in Files : minimal'[f].clips \subseteq minimal[f].clips
  BY <1>1, StateFacts DEF IInv, TypeOK, DataOK
<1>5. DataOK' /\ PlanOK' /\ StageOK'
  BY <1>2, <1>4, Directories DEF plan, pool, IInv, TypeOK, DataOK, PlanOK, StageOK
<1>6. Planned' /\ Resting' /\ Routes' /\ CachePool' /\ ChunkPool' /\ Renaming' /\ Writing'
  BY <1>2, <1>3
  DEF pool, IInv, BuildInv, Planned, Resting, Routes, CachePool, ChunkPool, Renaming, Writing
<1>7. NoClipTwice'
  <2>1. fellBack \/ Disjoint(minimal)  BY TwiceIsDisjoint DEF IInv, BuildInv
  <2>2. fellBack' \/ Disjoint(minimal')  BY <1>2, <1>4, <2>1, FewerClipsDisjoint
  <2> QED  BY <2>2 DEF NoClipTwice, Disjoint
<1>8. FinishedBuildIsExact'  BY <1>2 DEF FinishedBuildIsExact
<1> QED  BY <1>2, <1>5, <1>6, <1>7, <1>8, CommandBegins DEF BuildInv

-----------------------------------------------------------------------------
(* The pool.                                                               *)

PoolPhase == phase \in {"pool", "redo"}

\* In a pool a step may change the queue, the files and what was raised.
LEMMA PoolStep ==
  ASSUME IInv, PoolPhase, UNCHANGED <<phase, next, fellBack>>, BuildGoesOn,
         minimal' \in [Files -> States], cache' \in [Clips -> States],
         queued' \subseteq queued, running' \subseteq queued \cup running, raised' \in SUBSET {"error", "os"},
         CachePool', ChunkPool', NoClipTwice'
  PROVE  IInv'
<1>1. UNCHANGED <<input, valid, jobs, route, done, training, gen, phase, next, fellBack>> /\ BuildRest
  BY DEF BuildGoesOn, BuildRest, plan
<1>2. ~done /\ phase # "idle"  BY DEF IInv, Exclusive, PoolPhase
<1>3. DataOK' /\ PlanOK' /\ StageOK'
  BY <1>1 DEF IInv, TypeOK, DataOK, PlanOK, StageOK
<1>4. Planned' /\ Resting' /\ Routes' /\ Renaming' /\ Writing' /\ FinishedBuildIsExact'
  BY <1>1, <1>2
  DEF PoolPhase, IInv, BuildInv, Planned, Resting, Routes, Renaming, Writing, FinishedBuildIsExact
<1> QED  BY <1>1, <1>2, <1>3, <1>4, BuildLeavesTraining DEF BuildInv

\* In the batch route the files of the pool are the chunks' own.
LEMMA ChunkStep ==
  ASSUME IInv, PoolPhase, route = "batch", UNCHANGED <<phase, next, fellBack, cache>>, BuildGoesOn,
         queued' \subseteq queued, running' \subseteq queued \cup running, raised' \in SUBSET {"error", "os"},
         NEW u \in Units,
         \/ UNCHANGED minimal
         \/ /\ Kept(u) # {}
            /\ \E s \in {Torn, Of(Kept(u))} : minimal' = [minimal EXCEPT ![<<"chunk", u>>] = s],
         raised' = {} => /\ raised = {}
                         /\ u \notin queued' \cup running' => minimal'[<<"chunk", u>>] = Of(Kept(u))
                         /\ queued \cup running \subseteq queued' \cup running' \cup {u}
                         /\ u \in queued \cup running
  PROVE  IInv'
<1>1. UNCHANGED <<input, valid, jobs, route, gen>> /\ SamePlan
  BY DEF BuildGoesOn, BuildRest, plan, SamePlan
<1>2. phase = "pool" /\ ~fellBack /\ ChunkFiles /\ queued \cup running \subseteq Chunks(input, jobs)
  BY DEF IInv, BuildInv, ChunkPool, Routes, PoolPhase
<1>3. \A v \in Units : Of(Kept(v)) \in States
  <2>1. \A v \in Units : Kept(v) \subseteq Clips  BY DEF Kept, IInv, TypeOK, PlanOK
  <2>2. gen \in 1..Builds  BY <1>2 DEF IInv, BuildInv, Planned
  <2> QED  BY <2>1, <2>2, OfFacts
<1>4. minimal' \in [Files -> States]
  BY <1>3, StateFacts, FileNames DEF IInv, TypeOK, DataOK
<1>5. \A v \in Units : /\ minimal'[<<"shard", v>>] = Absent
                       /\ minimal'[<<"chunk", v>>] \in {Absent, Torn, Of(Kept(v))}
                       /\ Kept(v) = {} => minimal'[<<"chunk", v>>] = Absent
                       /\ v # u => minimal'[<<"chunk", v>>] = minimal[<<"chunk", v>>]
  BY <1>2, FileNames DEF ChunkFiles, IInv, TypeOK, DataOK
<1>6. raised' = {} => \A v \in Units \ (queued' \cup running') : minimal'[<<"chunk", v>>] = Of(Kept(v))
  <2> SUFFICES ASSUME raised' = {}, NEW v \in Units, v \notin queued' \cup running'
               PROVE  minimal'[<<"chunk", v>>] = Of(Kept(v))
    OBVIOUS
  <2>1. CASE v = u  BY <2>1
  <2>2. CASE v # u
    <3>1. v \notin queued \cup running  BY <2>2
    <3>2. minimal[<<"chunk", v>>] = Of(Kept(v))  BY <3>1, <1>2 DEF IInv, BuildInv, ChunkPool
    <3> QED  BY <3>2, <2>2, <1>5
  <2> QED  BY <2>1, <2>2
<1>7. ChunkPool'
  <2>1. ChunkFiles'  BY <1>1, <1>5, PlanStands DEF ChunkFiles
  <2>2. \A v \in Units : Of(Kept(v))' = Of(Kept(v))  BY <1>1, PlanStands
  <2> QED  BY <1>1, <1>2, <1>6, <2>1, <2>2 DEF ChunkPool
<1>8. NoClipTwice'
  <2>1. Disjoint(minimal')  BY <1>5, ChunkFilesDisjoint
  <2> QED  BY <2>1 DEF NoClipTwice, Disjoint
<1>9. CachePool'  BY <1>1 DEF CachePool
<1>10. cache' \in [Clips -> States]  BY DEF IInv, TypeOK, DataOK
<1> QED  BY <1>4, <1>7, <1>8, <1>9, <1>10, PoolStep

\* In the clips route they are the clips' own, in the cache.
LEMMA CacheStep ==
  ASSUME IInv, PoolPhase, route = "clips", UNCHANGED <<phase, next, fellBack, minimal>>, BuildGoesOn,
         queued' \subseteq queued, running' \subseteq queued \cup running, raised' \in SUBSET {"error", "os"},
         NEW u \in queued \cup running,
         UNCHANGED cache \/ \E s \in States : cache' = [cache EXCEPT ![u] = s],
         raised' = {} => /\ raised = {}
                         /\ u \notin queued' \cup running' => cache'[u] = Of({u} \cap valid)
                         /\ queued \cup running \subseteq queued' \cup running' \cup {u}
  PROVE  IInv'
<1>1. UNCHANGED <<input, valid, jobs, route, gen>> /\ SamePlan
  BY DEF BuildGoesOn, BuildRest, plan, SamePlan
<1>2. queued \cup running \subseteq input /\ input \subseteq Clips
  BY DEF IInv, BuildInv, CachePool, PoolPhase, TypeOK, PlanOK
<1>3. cache' \in [Clips -> States] /\ \A c \in Clips : c # u => cache'[c] = cache[c]
  BY <1>2 DEF IInv, TypeOK, DataOK
<1>4. raised' = {} => \A c \in input \ (queued' \cup running') : cache'[c] = Of({c} \cap valid)
  <2> SUFFICES ASSUME raised' = {}, NEW c \in input, c \notin queued' \cup running'
               PROVE  cache'[c] = Of({c} \cap valid)
    OBVIOUS
  <2>1. CASE c = u  BY <2>1
  <2>2. CASE c # u
    <3>1. c \notin queued \cup running  BY <2>2
    <3>2. cache[c] = Of({c} \cap valid)  BY <3>1 DEF IInv, BuildInv, CachePool, PoolPhase
    <3> QED  BY <3>2, <2>2, <1>2, <1>3
  <2> QED  BY <2>1, <2>2
<1>5. CachePool'
  <2>1. \A c : Of({c} \cap valid)' = Of({c} \cap valid)  BY <1>1, PlanStands
  <2>2. queued' \cup running' \subseteq input  BY <1>2
  <2> QED  BY <1>1, <1>4, <2>1, <2>2 DEF CachePool
<1>6. ChunkPool'  BY <1>1 DEF ChunkPool
<1>7. NoClipTwice' /\ minimal' \in [Files -> States]
  BY DEF NoClipTwice, IInv, BuildInv, TypeOK, DataOK
<1> QED  BY <1>3, <1>5, <1>6, <1>7, PoolStep

\* A task of the batch route is a unit, which chunks never outnumber.
LEMMA TasksAreUnits ==
  ASSUME IInv, PoolPhase, route = "batch"
  PROVE  queued \cup running \subseteq Units
<1>1. queued \cup running \subseteq Chunks(input, jobs)
  BY DEF IInv, BuildInv, ChunkPool, Routes, PoolPhase
<1>2. Chunks(input, jobs) \subseteq Units  BY FirstUnit DEF Chunks, Units, IInv, TypeOK, PlanOK
<1> QED  BY <1>1, <1>2

LEMMA BeginStep == ASSUME IInv, NEW u \in Units \cup Clips, Begin(u) PROVE IInv'
<1>1. /\ PoolPhase /\ u \in queued
      /\ queued' = queued \ {u} /\ running' = running \cup {u}
      /\ UNCHANGED <<phase, raised, next, fellBack>> /\ BuildGoesOn
  BY DEF Begin, PoolPhase
<1>2. raised' \in SUBSET {"error", "os"}  BY <1>1 DEF IInv, TypeOK, StageOK
<1>3. CASE route = "clips"
  <2>1. UNCHANGED minimal /\ \E s \in {Torn, Whole({<<u, gen, FALSE>>})} : cache' = [cache EXCEPT ![u] = s]
    BY <1>3 DEF Begin
  <2>2. {<<u, gen, FALSE>>} \in SUBSET Copies
    <3>1. u \in Clips  BY <1>1, <1>3 DEF IInv, BuildInv, CachePool, PoolPhase, TypeOK, PlanOK
    <3>2. gen \in 1..Builds  BY <1>1 DEF IInv, BuildInv, Planned, PoolPhase
    <3>3. <<u, gen, FALSE>> \in Copies  BY <3>1, <3>2, Zenon DEF Copies
    <3> QED  BY <3>3
  <2>3. \E s \in States : cache' = [cache EXCEPT ![u] = s]  BY <2>1, <2>2, StateFacts
  <2> QED  BY <1>1, <1>2, <1>3, <2>1, <2>3, CacheStep
<1>4. CASE route = "batch"
  <2>1. /\ minimal' = IF Kept(u) = {} THEN minimal ELSE [minimal EXCEPT ![<<"chunk", u>>] = Torn]
        /\ UNCHANGED cache
    BY <1>4 DEF Begin
  <2>2. u \in Units  BY <1>1, <1>4, TasksAreUnits
  <2> QED  BY <1>1, <1>2, <1>4, <2>1, <2>2, ChunkStep
<1> QED  BY <1>3, <1>4 DEF IInv, TypeOK, StageOK

LEMMA EndStep == ASSUME IInv, NEW u \in Units \cup Clips, End(u) PROVE IInv'
<1>1. /\ PoolPhase /\ u \in running
      /\ running' = running \ {u}
      /\ UNCHANGED <<phase, queued, raised, next, fellBack>> /\ BuildGoesOn
  BY DEF End, PoolPhase
<1>2. raised' \in SUBSET {"error", "os"}  BY <1>1 DEF IInv, TypeOK, StageOK
<1>3. CASE route = "clips"
  <2>1. /\ cache' = [cache EXCEPT ![u] = IF u \in valid THEN Whole(Converted({u})) ELSE Absent]
        /\ UNCHANGED minimal
    BY <1>3 DEF End
  <2>2. u \in Clips  BY <1>1, <1>3 DEF IInv, BuildInv, CachePool, PoolPhase, TypeOK, PlanOK
  <2>3. (IF u \in valid THEN Whole(Converted({u})) ELSE Absent) = Of({u} \cap valid)
    <3>1. CASE u \in valid
      <4>1. {u} \cap valid = {u}  BY <3>1
      <4> QED  BY <3>1, <4>1 DEF Of
    <3>2. CASE u \notin valid
      <4>1. {u} \cap valid = {}  BY <3>2
      <4> QED  BY <3>2, <4>1 DEF Of
    <3> QED  BY <3>1, <3>2
  <2>4. Of({u} \cap valid) \in States
    <3>1. gen \in 1..Builds  BY <1>1 DEF IInv, BuildInv, Planned, PoolPhase
    <3> QED  BY <2>2, <3>1, OfFacts
  <2>5. cache'[u] = Of({u} \cap valid)  BY <2>1, <2>2, <2>3 DEF IInv, TypeOK, DataOK
  <2>6. \E s \in States : cache' = [cache EXCEPT ![u] = s]  BY <2>1, <2>3, <2>4
  <2> QED  BY <1>1, <1>2, <1>3, <2>1, <2>5, <2>6, CacheStep
<1>4. CASE route = "batch"
  <2>1. /\ minimal' = IF Kept(u) = {} THEN minimal
                      ELSE [minimal EXCEPT ![<<"chunk", u>>] = Whole(Converted(Kept(u)))]
        /\ UNCHANGED cache
    BY <1>4 DEF End
  <2>2. u \in Units  BY <1>1, <1>4, TasksAreUnits
  <2>3. Kept(u) # {} => Whole(Converted(Kept(u))) = Of(Kept(u))  BY DEF Of
  <2>4. minimal'[<<"chunk", u>>] = Of(Kept(u))
    <3>1. CASE Kept(u) = {}
      <4>1. minimal[<<"chunk", u>>] = Absent
        BY <1>1, <1>4, <2>2, <3>1 DEF IInv, BuildInv, ChunkPool, ChunkFiles, Routes, PoolPhase
      <4> QED  BY <2>1, <3>1, <4>1 DEF Of
    <3>2. CASE Kept(u) # {}
      BY <2>1, <2>2, <2>3, <3>2, FileNames DEF IInv, TypeOK, DataOK
    <3> QED  BY <3>1, <3>2
  <2> QED  BY <1>1, <1>2, <1>4, <2>1, <2>2, <2>3, <2>4, ChunkStep
<1> QED  BY <1>3, <1>4 DEF IInv, TypeOK, StageOK

LEMMA RaiseStep == ASSUME IInv, NEW u \in Units \cup Clips, RaiseTask(u) PROVE IInv'
<1>1. /\ PoolPhase /\ UNCHANGED <<minimal, cache, phase, next, fellBack>> /\ BuildGoesOn
      /\ u \in queued \cup running
      /\ queued' \subseteq queued /\ running' \subseteq running
      /\ \E kind \in {"error", "os"} : raised' = raised \cup {kind}
  BY DEF RaiseTask, PoolPhase
<1>2. raised' # {} /\ raised' \in SUBSET {"error", "os"}  BY <1>1 DEF IInv, TypeOK, StageOK
<1>3. CASE route = "clips"  BY <1>1, <1>2, <1>3, CacheStep
<1>4. CASE route = "batch"
  <2>1. u \in Units  BY <1>1, <1>4, TasksAreUnits
  <2> QED  BY <1>1, <1>2, <1>4, <2>1, ChunkStep
<1> QED  BY <1>3, <1>4 DEF IInv, TypeOK, StageOK

\* A stage that follows the pool, or another, with nothing left in the pool.
LEMMA StageStep ==
  ASSUME IInv, phase # "idle", BuildGoesOn,
         minimal' \in [Files -> States], cache' \in [Clips -> States], fellBack' \in BOOLEAN,
         phase' \in {"rename", "serial", "merge", "write", "clear"}, next' \in 0..MaxJobs,
         queued' = {}, running' = {}, raised' = {},
         phase' # "rename" => next' = 0, Routes', Renaming', Writing', NoClipTwice'
  PROVE  IInv'
<1>1. UNCHANGED <<input, valid, jobs, route, done, training, gen>> /\ BuildRest
  BY DEF BuildGoesOn, BuildRest, plan
<1>2. ~done  BY DEF IInv, Exclusive
<1>3. DataOK' /\ PlanOK' /\ StageOK'
  BY <1>1 DEF IInv, TypeOK, DataOK, PlanOK, StageOK
<1>4. Planned' /\ Resting' /\ CachePool' /\ ChunkPool' /\ FinishedBuildIsExact'
  BY <1>1, <1>2
  DEF IInv, BuildInv, Planned, Resting, CachePool, ChunkPool, FinishedBuildIsExact
<1> QED  BY <1>1, <1>2, <1>3, <1>4, BuildLeavesTraining DEF BuildInv

LEMMA PoolEndsStep == ASSUME IInv, PoolEnds PROVE IInv'
<1>1. PoolPhase /\ phase # "idle" /\ running = {} /\ UNCHANGED <<minimal, cache>>
  BY DEF PoolEnds, PoolPhase
<1>2. minimal' \in [Files -> States] /\ cache' \in [Clips -> States] /\ next = 0 /\ ~done
  BY <1>1 DEF IInv, TypeOK, DataOK, BuildInv, Resting, Exclusive, PoolPhase
<1>3. CASE AllConverted
  <2>1. /\ queued = {} /\ raised = {} /\ UNCHANGED <<pool, next, fellBack>> /\ BuildGoesOn
        /\ phase' = IF route = "clips" THEN "merge" ELSE "rename"
    BY <1>3 DEF AllConverted, GoesTo
  <2>2. /\ UNCHANGED <<input, valid, jobs, route, gen>> /\ SamePlan
        /\ queued' = {} /\ running' = {} /\ raised' = {} /\ next' = 0
    BY <1>1, <1>2, <2>1 DEF BuildGoesOn, BuildRest, plan, pool, SamePlan
  <2>3. route \in {"batch", "clips"} /\ fellBack' \in BOOLEAN
    BY <2>1 DEF IInv, TypeOK, StageOK
  <2>4. NoClipTwice'  BY <1>1, <2>1 DEF NoClipTwice, IInv, BuildInv
  <2>5. CASE route = "clips"
    <3>1. \A c \in input : cache[c] = Of({c} \cap valid)
      BY <1>1, <2>1, <2>5 DEF IInv, BuildInv, CachePool, PoolPhase
    <3>2. Writing'  BY <1>1, <2>1, <2>2, <2>5, <3>1, PlanStands DEF Writing
    <3>3. Routes' /\ Renaming'  BY <2>1, <2>2, <2>5 DEF Routes, Renaming
    <3> QED  BY <1>1, <1>2, <2>1, <2>2, <2>3, <2>4, <2>5, <3>2, <3>3, FirstUnit, StageStep
  <2>6. CASE route = "batch"
    <3>1. /\ ~fellBack /\ ChunkFiles
          /\ \A u \in Units : minimal[<<"chunk", u>>] = Of(Kept(u))
      BY <1>1, <2>1, <2>6 DEF IInv, BuildInv, ChunkPool, Routes, PoolPhase
    <3>2. ChunksWait'
      <4>1. \A u \in Units : ~(u < 0)  BY FirstUnit
      <4>2. \A u \in Units : minimal'[<<"chunk", u>>] = Of(Kept(u))'  BY <1>1, <2>2, <3>1, PlanStands
      <4> QED  BY <2>2, <4>1, <4>2 DEF ChunksWait
    <3>3. Renamed' = {}  BY <1>1, <3>1 DEF Renamed, ChunkFiles
    <3>4. ShardsInOrder' /\ ShardsAreChunks' /\ ChunksAreShards'
      <4>1. 0 \in 0..next' /\ 0..(0 - 1) = {} /\ 0..(next' - 1) = {}  BY <2>2
      <4> QED  BY <3>3, <4>1 DEF ShardsInOrder, ShardsAreChunks, ChunksAreShards
    <3>5. next' <= jobs'  BY <2>2, FirstUnit DEF IInv, TypeOK, PlanOK
    <3>6. Renaming'  BY <2>1, <3>1, <3>2, <3>4, <3>5 DEF Renaming
    <3>7. Writing' /\ Routes'  BY <2>1, <2>2, <2>6 DEF Writing, Routes
    <3> QED  BY <1>1, <1>2, <2>1, <2>2, <2>3, <2>4, <2>6, <3>6, <3>7, FirstUnit, StageStep
  <2> QED  BY <2>3, <2>5, <2>6
<1>4. CASE Ends(FALSE) /\ UNCHANGED fellBack
  <2>1. NoClipTwice' /\ fellBack' \in BOOLEAN
    BY <1>1, <1>4 DEF NoClipTwice, IInv, BuildInv, TypeOK, StageOK
  <2> QED  BY <1>1, <1>2, <1>4, <2>1, EndsStep
<1>5. CASE /\ raised' = {} /\ (RedoClips \/ FallBack)
           /\ UNCHANGED <<running, next>> /\ BuildGoesOn
  <2>1. UNCHANGED <<input, valid, jobs, route, done, training, gen>> /\ BuildRest
    BY <1>5 DEF BuildGoesOn, BuildRest, plan
  <2>2. route \in {"batch", "clips"}  BY DEF IInv, TypeOK, StageOK
  <2>3. CASE route = "batch"
    <3> FallBack  BY <1>5, <2>3 DEF RedoClips
    <3>1. Routes' /\ Renaming' /\ Writing' /\ NoClipTwice'
      BY <1>1, <1>5, <2>1, <2>3 DEF FallBack, Routes, Renaming, Writing, NoClipTwice
    <3> QED  BY <1>1, <1>2, <1>5, <2>1, <2>3, <3>1, FirstUnit, StageStep DEF FallBack
  <2>4. CASE route = "clips"
    <3> RedoClips  BY <1>5, <2>4 DEF FallBack
    <3>1. DataOK' /\ PlanOK' /\ StageOK'
      BY <1>1, <1>2, <1>5, <2>1, <2>4 DEF RedoClips, IInv, TypeOK, DataOK, PlanOK, StageOK
    <3>2. Planned' /\ Resting' /\ Routes' /\ CachePool' /\ ChunkPool' /\ Renaming' /\ Writing'
      BY <1>1, <1>2, <1>5, <2>1, <2>4
      DEF RedoClips, IInv, BuildInv, PoolPhase, Planned, Resting, Routes, CachePool, ChunkPool, Renaming, Writing
    <3>3. NoClipTwice' /\ FinishedBuildIsExact'
      BY <1>1, <1>2, <1>5, <2>1, <2>4
      DEF RedoClips, NoClipTwice, FinishedBuildIsExact, IInv, BuildInv
    <3> QED  BY <1>1, <1>2, <2>1, <3>1, <3>2, <3>3, BuildLeavesTraining DEF BuildInv
  <2> QED  BY <2>2, <2>3, <2>4
<1> QED  BY <1>3, <1>4, <1>5 DEF PoolEnds

-----------------------------------------------------------------------------
(* The shards get their names.                                             *)

LEMMA CountInitial ==
  ASSUME NEW k \in Nat
  PROVE  Cardinality(0..(k - 1)) = k
<1>1. Cardinality(0..(k - 1)) = IF 0 > k - 1 THEN 0 ELSE (k - 1) - 0 + 1  BY FS_Interval
<1> QED  BY <1>1

\* The chunk at next becomes the next shard, if it has a clip.
LEMMA RenameStep == ASSUME IInv, Rename PROVE IInv'
<1>1. /\ phase = "rename" /\ next < jobs /\ next' = next + 1
      /\ UNCHANGED <<cache, phase, queued, running, raised, fellBack, input, valid, jobs, route, gen>>
      /\ BuildGoesOn /\ SamePlan
  BY DEF Rename, BuildGoesOn, BuildRest, plan, pool, SamePlan
<1>2. /\ ~fellBack /\ ChunksWait /\ ShardsInOrder /\ ShardsAreChunks /\ ChunksAreShards
      /\ queued = {} /\ running = {} /\ raised = {} /\ Disjoint(minimal)
  BY <1>1, TwiceIsDisjoint DEF IInv, BuildInv, Renaming, Resting
<1>3. PICK k \in 0..next : Renamed = 0..(k - 1)  BY <1>2 DEF ShardsInOrder
<1>4. next \in Units /\ next \in Nat /\ k \in Units /\ k \in Nat /\ k <= next
      /\ Cardinality(Renamed) = k /\ next' \in 0..MaxJobs /\ next' <= jobs
  <2>1. next \in Nat /\ jobs \in Nat /\ jobs <= MaxJobs /\ MaxJobs \in Nat
    BY FirstUnit DEF IInv, TypeOK, PlanOK, StageOK
  <2> QED  BY <1>1, <1>3, <2>1, CountInitial DEF Units
<1>5. minimal[<<"shard", k>>] = Absent
  <2>1. k \notin Renamed  BY <1>3, <1>4
  <2> QED  BY <1>4, <2>1 DEF Renamed
<1>6. minimal[<<"chunk", next>>] = Of(Kept(next))  BY <1>2, <1>4 DEF ChunksWait
<1> DEFINE isEmpty == Kept(next) = {}
<1>7. /\ isEmpty => minimal' = minimal
      /\ ~isEmpty => minimal' = [minimal EXCEPT ![<<"shard", k>>] = Of(Kept(next)), ![<<"chunk", next>>] = Absent]
  BY <1>4, <1>6, OfFacts DEF Rename
<1>8. Of(Kept(next)) \in States /\ <<"shard", k>> \in Files /\ <<"chunk", next>> \in Files
  <2>1. Kept(next) \subseteq Clips  BY DEF Kept, IInv, TypeOK, PlanOK
  <2>2. gen \in 1..Builds  BY <1>1 DEF IInv, BuildInv, Planned
  <2> QED  BY <1>4, <2>1, <2>2, OfFacts, FileNames
<1>9. minimal' \in [Files -> States]
  BY <1>7, <1>8, StateFacts DEF IInv, TypeOK, DataOK
<1>10. ASSUME NEW u \in Units
       PROVE  /\ minimal'[<<"chunk", u>>] = IF u < next' THEN Absent ELSE Of(Kept(u))
              /\ minimal'[<<"shard", u>>] = IF u = k THEN Of(Kept(next)) ELSE minimal[<<"shard", u>>]
  <2>1. u \in Nat /\ <<"chunk", u>> \in Files /\ <<"shard", u>> \in Files  BY FirstUnit, FileNames
  <2>2. minimal[<<"chunk", u>>] = IF u < next THEN Absent ELSE Of(Kept(u))  BY <1>2 DEF ChunksWait
  <2>3. isEmpty => Of(Kept(next)) = Absent  BY OfFacts
  <2>4. u < next' <=> u < next \/ u = next  BY <1>1, <1>4, <2>1
  <2>5. CASE isEmpty  BY <1>5, <1>7, <2>2, <2>3, <2>4, <2>5
  <2>6. CASE ~isEmpty
    <3>1. minimal'[<<"chunk", u>>] = IF u = next THEN Absent ELSE minimal[<<"chunk", u>>]
      BY <1>7, <1>8, <2>1, <2>6, FileNames DEF IInv, TypeOK, DataOK
    <3>2. minimal'[<<"shard", u>>] = IF u = k THEN Of(Kept(next)) ELSE minimal[<<"shard", u>>]
      BY <1>7, <1>8, <2>1, <2>6, FileNames DEF IInv, TypeOK, DataOK
    <3> QED  BY <2>2, <2>4, <3>1, <3>2
  <2> QED  BY <2>5, <2>6
<1>11. \A u : Of(Kept(u))' = Of(Kept(u)) /\ Kept(u)' = Kept(u)  BY <1>1, PlanStands
<1>12. ChunksWait'  BY <1>10, <1>11 DEF ChunksWait
<1>13. Renamed' = IF isEmpty THEN Renamed ELSE Renamed \cup {k}
  <2>1. \A u \in Units : minimal'[<<"shard", u>>] # Absent <=>
                           IF u = k THEN ~isEmpty ELSE u \in Renamed
    BY <1>10, OfFacts DEF Renamed
  <2>2. Renamed' = { u \in Units : IF u = k THEN ~isEmpty ELSE u \in Renamed }  BY <2>1 DEF Renamed
  <2>3. Renamed \subseteq Units /\ k \notin Renamed  BY <1>5 DEF Renamed
  <2> QED  BY <1>4, <2>2, <2>3
<1>14. ShardsInOrder'
  <2>1. CASE isEmpty
    <3>1. k \in 0..next'  BY <1>1, <1>4
    <3> QED  BY <1>3, <1>13, <2>1, <3>1 DEF ShardsInOrder
  <2>2. CASE ~isEmpty
    <3>1. k + 1 \in 0..next' /\ 0..((k + 1) - 1) = (0..(k - 1)) \cup {k}  BY <1>1, <1>4
    <3> QED  BY <1>3, <1>13, <2>2, <3>1 DEF ShardsInOrder
  <2> QED  BY <2>1, <2>2
<1>15. 0..(next - 1) \subseteq 0..(next' - 1) /\ next \in 0..(next' - 1)
       /\ \A v \in 0..(next' - 1) : v = next \/ v \in 0..(next - 1)
  BY <1>1, <1>4
<1>16. ShardsAreChunks'
  <2> SUFFICES ASSUME NEW s \in Renamed'
               PROVE  \E v \in 0..(next' - 1) : minimal'[<<"shard", s>>] = Of(Kept(v))
    BY <1>11, <1>15 DEF ShardsAreChunks
  <2>1. s \in Units  BY DEF Renamed
  <2>2. CASE s = k  BY <1>10, <1>15, <2>1, <2>2
  <2>3. CASE s # k
    <3>1. s \in Renamed  BY <1>13, <2>3
    <3> QED  BY <1>2, <1>10, <1>15, <2>1, <2>3, <3>1 DEF ShardsAreChunks
  <2> QED  BY <2>2, <2>3
<1>17. ChunksAreShards'
  <2> SUFFICES ASSUME NEW v \in 0..(next' - 1), Kept(v) # {}
               PROVE  \E s \in Units : minimal'[<<"shard", s>>] = Of(Kept(v))
    BY <1>11, <1>15 DEF ChunksAreShards
  <2>1. CASE v = next  BY <1>4, <1>10, <2>1
  <2>2. CASE v # next
    <3>1. v \in 0..(next - 1)  BY <1>15, <2>2
    <3>2. PICK s \in Units : minimal[<<"shard", s>>] = Of(Kept(v))  BY <1>2, <3>1 DEF ChunksAreShards
    <3>3. s # k  BY <1>5, <3>2, OfFacts
    <3> QED  BY <1>10, <3>2, <3>3
  <2> QED  BY <2>1, <2>2
<1>18. Disjoint(minimal')
  <2> SUFFICES ASSUME NEW f \in Files, NEW g \in Files, f # g
               PROVE  Names(minimal'[f]) \cap Names(minimal'[g]) = {}
    BY DEF Disjoint
  <2>1. \A x \in Files : /\ x # <<"shard", k>> => Names(minimal'[x]) \subseteq Names(minimal[x])
                         /\ x = <<"shard", k>> => Names(minimal'[x]) \subseteq Names(minimal[<<"chunk", next>>])
                         /\ x = <<"chunk", next>> => Names(minimal'[x]) = {}
    <3> SUFFICES ASSUME NEW x \in Files
                 PROVE  /\ x # <<"shard", k>> => Names(minimal'[x]) \subseteq Names(minimal[x])
                        /\ x = <<"shard", k>> => Names(minimal'[x]) \subseteq Names(minimal[<<"chunk", next>>])
                        /\ x = <<"chunk", next>> => Names(minimal'[x]) = {}
      OBVIOUS
    <3>1. PICK u \in Units : x = <<"shard", u>> \/ x = <<"chunk", u>>  BY FileNames
    <3>2. x = <<"chunk", next>> => minimal'[x] = Absent
      <4>1. next < next'  BY <1>1, <1>4
      <4> QED  BY <1>4, <1>10, <4>1
    <3>3. x = <<"shard", k>> => minimal'[x] = minimal[<<"chunk", next>>]  BY <1>4, <1>6, <1>10
    <3>4. x = <<"chunk", u>> => minimal'[x] \in {Absent, minimal[x]}
      <4>1. u < next => u < next'  BY <1>1, <1>4, FirstUnit
      <4>2. minimal[<<"chunk", u>>] = IF u < next THEN Absent ELSE Of(Kept(u))  BY <1>2 DEF ChunksWait
      <4> QED  BY <1>10, <4>1, <4>2
    <3>5. x = <<"shard", u>> /\ u # k => minimal'[x] = minimal[x]  BY <1>10
    <3> QED  BY <3>1, <3>2, <3>3, <3>4, <3>5, NamesOf
  <2>2. \A x \in Files : x # <<"chunk", next>> => Names(minimal[x]) \cap Names(minimal[<<"chunk", next>>]) = {}
    BY <1>2, <1>8 DEF Disjoint
  <2>3. Names(minimal[f]) \cap Names(minimal[g]) = {}  BY <1>2 DEF Disjoint
  <2> QED  BY <2>1, <2>2, <2>3
<1>19. NoClipTwice'  BY <1>18 DEF NoClipTwice, Disjoint
<1>20. Renaming'  BY <1>1, <1>2, <1>4, <1>12, <1>14, <1>16, <1>17 DEF Renaming
<1>21. Routes' /\ Writing' /\ fellBack' \in BOOLEAN /\ cache' \in [Clips -> States]
  BY <1>1 DEF Routes, Writing, IInv, BuildInv, TypeOK, DataOK, StageOK
<1> QED  BY <1>1, <1>2, <1>4, <1>9, <1>19, <1>20, <1>21, StageStep

LEMMA FinishedExactly ==
  ASSUME NEW dir, \A f \in Files : dir[f] # Torn, UNION { dir[f].clips : f \in Files } = Converted(valid),
         minimal' = dir, UNCHANGED gen, valid' = valid
  PROVE  FinishedBuildIsExact'
<1>1. Converted(valid)' = Converted(valid)  BY Zenon DEF Converted
<1> QED  BY <1>1 DEF FinishedBuildIsExact

\* All chunks have been renamed: what the shards hold is what was kept of them.
LEMMA RenameEndsStep == ASSUME IInv, RenameEnds PROVE IInv'
<1>1. phase = "rename" /\ next = jobs /\ Ends(Renamed # {}) /\ UNCHANGED <<minimal, cache, fellBack>>
  BY DEF RenameEnds
<1>2. /\ ~fellBack /\ ChunksWait /\ ShardsInOrder /\ ShardsAreChunks /\ ChunksAreShards
      /\ input \in SUBSET Nat /\ IsFiniteSet(input) /\ valid \subseteq input /\ jobs \in Nat \ {0}
  BY <1>1, InputFacts, FirstUnit DEF IInv, BuildInv, Planned, Renaming, TypeOK, PlanOK
<1>3. ASSUME NEW u \in Units PROVE minimal[<<"chunk", u>>] = Absent
  <2>1. CASE u < next  BY <1>2, <2>1 DEF ChunksWait
  <2>2. CASE ~(u < next)
    <3>1. u \notin Chunks(input, jobs)  BY <1>1, <1>2, <2>2, FirstUnit DEF Chunks
    <3>2. Kept(u) = {}  BY <1>2, <3>1, NoSuchChunk DEF Kept
    <3>3. minimal[<<"chunk", u>>] = Of(Kept(u))  BY <1>2, <2>2 DEF ChunksWait
    <3> QED  BY <3>2, <3>3 DEF Of
  <2> QED  BY <2>1, <2>2
<1>4. ASSUME NEW f \in Files
      PROVE  minimal[f] = Absent \/ \E v : minimal[f] = Of(Kept(v))
  <2>1. PICK u \in Units : f = <<"shard", u>> \/ f = <<"chunk", u>>  BY FileNames
  <2> QED  BY <1>2, <1>3, <2>1 DEF ShardsAreChunks, Renamed
<1>5. \A f \in Files : minimal[f] # Torn  BY <1>4, StateFacts, OfFacts
<1>6. \A f \in Files : minimal[f].clips \subseteq Converted(valid)
  <2>1. \A v : Converted(Kept(v)) \subseteq Converted(valid)  BY DEF Converted, Kept
  <2> QED  BY <1>4, <2>1, StateFacts, OfFacts
<1>7. ASSUME NEW c \in valid PROVE \E f \in Files : <<c, gen, TRUE>> \in minimal[f].clips
  <2> DEFINE v == Place(input, c) \div ChunkSize(input, jobs)
  <2>1. v \in Chunks(input, jobs) /\ c \in Chunk(input, jobs, v)  BY <1>2, ChunksCover
  <2>2. v \in 0..(next - 1) /\ c \in Kept(v)  BY <1>1, <2>1 DEF Chunks, Kept
  <2> HIDE DEF v
  <2>3. PICK s \in Units : minimal[<<"shard", s>>] = Of(Kept(v))  BY <1>2, <2>2 DEF ChunksAreShards
  <2>4. <<c, gen, TRUE>> \in Converted(Kept(v))  BY <2>2, Zenon DEF Converted
  <2>5. <<c, gen, TRUE>> \in minimal[<<"shard", s>>].clips  BY <2>3, <2>4, OfFacts
  <2> QED  BY <2>5, FileNames
<1>8. UNION { minimal[f].clips : f \in Files } = Converted(valid)
  <2>1. Converted(valid) \subseteq UNION { minimal[f].clips : f \in Files }
    BY <1>7, Zenon DEF Converted
  <2> QED  BY <1>6, <2>1
<1>9. Renamed # {} => FinishedBuildIsExact'
  <2>1. Renamed # {} => valid' = valid /\ gen' = gen  BY <1>1 DEF Ends, BuildRest
  <2> QED  BY <1>1, <1>5, <1>8, <2>1, FinishedExactly
<1>10. NoClipTwice' /\ minimal' \in [Files -> States] /\ cache' \in [Clips -> States] /\ fellBack' \in BOOLEAN
  BY <1>1 DEF NoClipTwice, IInv, BuildInv, TypeOK, DataOK, StageOK
<1>11. (Renamed # {}) \in BOOLEAN  OBVIOUS
<1> QED  BY <1>1, <1>9, <1>10, <1>11, EndsStep

-----------------------------------------------------------------------------
(* One shard for all clips.                                                *)

\* It is alone in the directory, whatever is in it.
OneShard(s) == [Empty EXCEPT ![<<"shard", 0>>] = s]

LEMMA OneShardFacts ==
  ASSUME NEW s
  PROVE  /\ <<"shard", 0>> \in Files /\ OneShard(s)[<<"shard", 0>>] = s
         /\ \A f \in Files : f # <<"shard", 0>> => OneShard(s)[f] = Absent
         /\ s \in States => OneShard(s) \in [Files -> States]
         /\ \A t : [OneShard(t) EXCEPT ![<<"shard", 0>>] = s] = OneShard(s)
<1>1. <<"shard", 0>> \in Files  BY FileNames, FirstUnit
<1> QED  BY <1>1, Directories DEF OneShard, Empty

LEMMA OneShardDisjoint == ASSUME NEW s PROVE Disjoint(OneShard(s))
<1>1. \A f \in Files : f # <<"shard", 0>> => Names(OneShard(s)[f]) = {}
  <2>1. \A f \in Files : f # <<"shard", 0>> => OneShard(s)[f] = Absent  BY OneShardFacts
  <2> QED  BY <2>1, NamesOf
<1> QED  BY <1>1 DEF Disjoint

LEMMA SerialBeginsStep == ASSUME IInv, SerialBegins PROVE IInv'
<1>1. phase = "serial" /\ UNCHANGED <<cache, fellBack>> /\ route = "batch"
  BY DEF SerialBegins, IInv, BuildInv, Routes
<1>2. cache' \in [Clips -> States] /\ fellBack' \in BOOLEAN
  BY <1>1 DEF IInv, TypeOK, DataOK, StageOK
<1>3. CASE valid = {}
  <2>1. Ends(FALSE) /\ UNCHANGED minimal  BY <1>3 DEF SerialBegins
  <2>2. NoClipTwice' /\ minimal' \in [Files -> States]
    BY <1>1, <2>1 DEF NoClipTwice, IInv, BuildInv, TypeOK, DataOK
  <2> QED  BY <1>1, <1>2, <2>1, <2>2, EndsStep
<1>4. CASE valid # {}
  <2>1. GoesTo("write") /\ minimal' = [minimal EXCEPT ![<<"shard", 0>>] = Torn]
    BY <1>4 DEF SerialBegins
  <2>2. phase' = "write" /\ UNCHANGED <<queued, running, raised, next, route>> /\ BuildGoesOn
    BY <2>1 DEF GoesTo, pool, BuildGoesOn, plan
  <2>3. queued' = {} /\ running' = {} /\ raised' = {} /\ next' = 0
    BY <1>1, <2>2 DEF IInv, BuildInv, Resting
  <2>4. ~fellBack => minimal' = OneShard(Torn)
    BY <1>1, <2>1 DEF IInv, BuildInv, Writing, OneShard
  <2>5. minimal' \in [Files -> States]
    BY <2>1, StateFacts DEF IInv, TypeOK, DataOK
  <2>6. NoClipTwice'
    <3>1. fellBack' \/ Disjoint(minimal')  BY <1>1, <2>4, OneShardDisjoint
    <3> QED  BY <3>1 DEF NoClipTwice, Disjoint
  <2>7. Routes' /\ Renaming' /\ Writing'
    BY <1>1, <2>2, <2>4 DEF Routes, Renaming, Writing, OneShard
  <2> QED  BY <1>1, <1>2, <2>2, <2>3, <2>5, <2>6, <2>7, FirstUnit, StageStep
<1> QED  BY <1>3, <1>4

\* The cache of a merge holds what was kept of each clip.
LEMMA MergedIsKept ==
  ASSUME valid \subseteq input, \A c \in input : cache[c] = Of({c} \cap valid)
  PROVE  Merged = Converted(valid)
<1>1. \A c \in input : cache[c].clips = Converted({c} \cap valid)  BY OfFacts
<1>2. \A x : x \in Merged <=> \E c \in input : x \in Converted({c} \cap valid)
  BY <1>1 DEF Merged
<1>3. \A x : x \in Converted(valid) <=> \E c \in input : x \in Converted({c} \cap valid)
  BY DEF Converted
<1> QED  BY <1>2, <1>3

LEMMA MergeBeginsStep == ASSUME IInv, MergeBegins PROVE IInv'
<1>1. /\ phase = "merge" /\ UNCHANGED cache /\ route = "clips" /\ valid \subseteq input
      /\ \A c \in input : cache[c] = Of({c} \cap valid)
  BY DEF MergeBegins, IInv, BuildInv, Routes, Writing, Planned
<1>2. cache' \in [Clips -> States]  BY <1>1 DEF IInv, TypeOK, DataOK
<1>3. CASE Ends(FALSE) /\ UNCHANGED <<minimal, fellBack>>
  <2>1. NoClipTwice' /\ minimal' \in [Files -> States] /\ fellBack' \in BOOLEAN
    BY <1>1, <1>3 DEF NoClipTwice, IInv, BuildInv, TypeOK, DataOK, StageOK
  <2> QED  BY <1>1, <1>2, <1>3, <2>1, EndsStep
<1>4. CASE /\ GoesTo("write") /\ fellBack' = FALSE
           /\ minimal' = [ClearShards EXCEPT ![<<"shard", 0>>] = Torn]
  <2>1. /\ phase' = "write" /\ UNCHANGED <<queued, running, raised, next>> /\ BuildGoesOn
        /\ UNCHANGED <<input, valid, jobs, route, gen>> /\ SamePlan
    BY <1>4 DEF GoesTo, pool, BuildGoesOn, BuildRest, plan, SamePlan
  <2>2. queued' = {} /\ running' = {} /\ raised' = {} /\ next' = 0
    BY <1>1, <2>1 DEF IInv, BuildInv, Resting
  <2>3. minimal' = OneShard(Torn)  BY <1>4 DEF ClearShards, OneShard
  <2>4. minimal' \in [Files -> States]  BY <2>3, OneShardFacts, StateFacts
  <2>5. NoClipTwice'
    <3>1. Disjoint(minimal')  BY <2>3, OneShardDisjoint
    <3> QED  BY <3>1 DEF NoClipTwice, Disjoint
  <2>6. Writing'
    <3>1. Merged' = Merged  BY <1>1, <2>1 DEF Merged
    <3>2. Merged' = Converted(valid)'  BY <1>1, <2>1, <3>1, MergedIsKept, PlanStands
    <3> QED  BY <2>1, <2>3, <3>2 DEF Writing, OneShard
  <2>7. Routes' /\ Renaming'  BY <1>1, <2>1 DEF Routes, Renaming
  <2>8. fellBack' \in BOOLEAN  BY <1>4
  <2>9. 0 \in 0..MaxJobs  BY FirstUnit
  <2> QED  BY <1>1, <1>2, <2>1, <2>2, <2>4, <2>5, <2>6, <2>7, <2>8, <2>9, StageStep
<1> QED  BY <1>1, <1>3, <1>4 DEF MergeBegins

\* A data set of one shard, all that was kept, is exact.
LEMMA OneShardIsExact ==
  ASSUME minimal' = OneShard(Whole(Converted(valid))), UNCHANGED <<valid, gen>>
  PROVE  FinishedBuildIsExact'
<1> DEFINE dir == OneShard(Whole(Converted(valid)))
<1>1. /\ <<"shard", 0>> \in Files /\ dir[<<"shard", 0>>] = Whole(Converted(valid))
      /\ \A f \in Files : f # <<"shard", 0>> => dir[f] = Absent
  BY OneShardFacts
<1>2. minimal' = dir  OBVIOUS
<1> HIDE DEF dir
<1>3. \A f \in Files : dir[f] # Torn  BY <1>1, StateFacts
<1>4. \A f \in Files : dir[f].clips = IF f = <<"shard", 0>> THEN Converted(valid) ELSE {}
  BY <1>1, StateFacts
<1>5. UNION { dir[f].clips : f \in Files } = Converted(valid)  BY <1>1, <1>4
<1> QED  BY <1>2, <1>3, <1>5, FinishedExactly

LEMMA ShardWrittenStep == ASSUME IInv, ShardWritten PROVE IInv'
<1>1. /\ phase = "write" /\ UNCHANGED <<cache, fellBack>>
      /\ minimal' = [minimal EXCEPT ![<<"shard", 0>>] =
                       Whole(IF route = "clips" THEN Merged ELSE Converted(valid))]
  BY DEF ShardWritten
<1>2. minimal' = [minimal EXCEPT ![<<"shard", 0>>] = Whole(Converted(valid))]
  BY <1>1 DEF IInv, BuildInv, Writing
<1>3. Whole(Converted(valid)) \in States
  <2>1. gen \in 1..Builds /\ valid \subseteq Clips
    BY <1>1 DEF IInv, BuildInv, Planned, TypeOK, PlanOK
  <2> QED  BY <2>1, OfFacts, StateFacts
<1>4. minimal' \in [Files -> States] /\ cache' \in [Clips -> States] /\ fellBack' \in BOOLEAN
  BY <1>1, <1>2, <1>3 DEF IInv, TypeOK, DataOK, StageOK
<1>5. ~fellBack => minimal' = OneShard(Whole(Converted(valid)))
  <2>1. ~fellBack => minimal = OneShard(Torn)  BY <1>1 DEF IInv, BuildInv, Writing, OneShard
  <2> QED  BY <1>2, <2>1, OneShardFacts
<1>6. NoClipTwice'
  <2>1. fellBack' \/ Disjoint(minimal')  BY <1>1, <1>5, OneShardDisjoint
  <2> QED  BY <2>1 DEF NoClipTwice, Disjoint
<1>7. CASE route # "clips"
  <2>1. Ends(TRUE)  BY <1>7 DEF ShardWritten
  <2>2. valid' = valid /\ gen' = gen  BY <2>1 DEF Ends, BuildRest
  <2>3. FinishedBuildIsExact'
    <3>1. CASE fellBack  BY <1>1, <3>1 DEF FinishedBuildIsExact
    <3>2. CASE ~fellBack  BY <1>5, <2>2, <3>2, OneShardIsExact
    <3> QED  BY <3>1, <3>2
  <2> QED  BY <1>1, <1>4, <1>6, <2>1, <2>3, EndsStep
<1>8. CASE route = "clips"
  <2>1. GoesTo("clear")  BY <1>8 DEF ShardWritten
  <2>2. /\ phase' = "clear" /\ UNCHANGED <<queued, running, raised, next>> /\ BuildGoesOn
        /\ UNCHANGED <<input, valid, jobs, route, gen>> /\ SamePlan
    BY <2>1 DEF GoesTo, pool, BuildGoesOn, BuildRest, plan, SamePlan
  <2>3. queued' = {} /\ running' = {} /\ raised' = {} /\ next' = 0
    BY <1>1, <2>2 DEF IInv, BuildInv, Resting
  <2>4. Writing'
    <3>1. ~fellBack' => minimal' = OneShard(Whole(Converted(valid)'))  BY <1>1, <1>5, <2>2, PlanStands
    <3> QED  BY <2>2, <3>1 DEF Writing, OneShard
  <2>5. Routes' /\ Renaming'  BY <1>8, <2>2 DEF Routes, Renaming
  <2>6. 0 \in 0..MaxJobs  BY FirstUnit
  <2> QED  BY <1>1, <1>4, <1>6, <2>2, <2>3, <2>4, <2>5, <2>6, StageStep
<1> QED  BY <1>7, <1>8

LEMMA CacheClearedStep == ASSUME IInv, CacheCleared PROVE IInv'
<1>1. /\ phase = "clear" /\ Ends(TRUE) /\ cache' = NoClips /\ UNCHANGED <<minimal, fellBack>>
  BY DEF CacheCleared
<1>2. valid' = valid /\ gen' = gen  BY <1>1 DEF Ends, BuildRest
<1>3. minimal' \in [Files -> States] /\ cache' \in [Clips -> States] /\ fellBack' \in BOOLEAN
  BY <1>1, Directories DEF IInv, TypeOK, DataOK, StageOK
<1>4. NoClipTwice'  BY <1>1 DEF NoClipTwice, IInv, BuildInv
<1>5. FinishedBuildIsExact'
  <2>1. CASE fellBack  BY <1>1, <2>1 DEF FinishedBuildIsExact
  <2>2. CASE ~fellBack
    <3>1. minimal' = OneShard(Whole(Converted(valid)))
      BY <1>1, <2>2 DEF IInv, BuildInv, Writing, OneShard
    <3> QED  BY <1>2, <3>1, OneShardIsExact
  <2> QED  BY <2>1, <2>2
<1> QED  BY <1>1, <1>3, <1>4, <1>5, EndsStep

LEMMA BuildStopsStep == ASSUME IInv, BuildStops PROVE IInv'
<1>1. phase # "idle" /\ Ends(FALSE) /\ UNCHANGED <<minimal, cache, fellBack>>  BY DEF BuildStops
<1>2. NoClipTwice' /\ minimal' \in [Files -> States] /\ cache' \in [Clips -> States] /\ fellBack' \in BOOLEAN
  BY <1>1 DEF NoClipTwice, IInv, BuildInv, TypeOK, DataOK, StageOK
<1> QED  BY <1>1, <1>2, EndsStep

-----------------------------------------------------------------------------
LEMMA IInvStep == ASSUME IInv, [Next]_vars PROVE IInv'
<1>1. CASE Start
  BY <1>1, StartBatchStep, StartClipsStep, StartFailsStep, PrecomputeSteps DEF Start
<1>2. CASE Work
  BY <1>2, BeginStep, EndStep, PoolEndsStep, RenameStep, RenameEndsStep, SerialBeginsStep,
     MergeBeginsStep, ShardWrittenStep, CacheClearedStep DEF Work
<1>3. CASE Derive  BY <1>3, PrecomputeSteps
<1>4. CASE Stops  BY <1>4, BuildStopsStep, PrecomputeSteps, RaiseStep DEF Stops
<1>5. CASE UNCHANGED vars
  <2>1. PrecomputeRest /\ UNCHANGED <<training, todo, writing, force, derived, minimal, phase, done>>
    BY <1>5 DEF vars, data, build, precompute, PrecomputeRest
  <2>2. BuildInv'  BY <2>1, BuildUntouched DEF IInv
  <2>3. TypeOK'
    BY <2>1 DEF PrecomputeRest, build, plan, pool, IInv, TypeOK, DataOK, PlanOK, StageOK, DeriveOK
  <2>4. Found(minimal)' = Found(minimal)  BY <2>1 DEF Found
  <2>5. Exclusive' /\ DeriveInv'
    BY <2>1, <2>4 DEF IInv, Exclusive, DeriveInv, Forcing, TrainingReadsWholeShards, ForcedPrecomputeIsCurrent
  <2> QED  BY <2>2, <2>3, <2>5 DEF IInv
<1> QED  BY <1>1, <1>2, <1>3, <1>4, <1>5 DEF Next

LEMMA DatasetInvariant == Spec => []IInv
BY IInvInit, IInvStep, PTL DEF Spec

\* Every variable of the data sets keeps its type, for all clips, workers and builds.
THEOREM DatasetTypeCorrect == Spec => []TypeOK
<1>1. IInv => TypeOK  BY DEF IInv
<1> QED  BY <1>1, DatasetInvariant, PTL

\* FinishedBuildIsExact, for every set of clips and every number of workers: the
\* chunks of _batch_convert_split lose no clip and repeat none, the pool passes on
\* what each worker finished, and the renaming overwrites no shard.
THEOREM FinishedBuildIsExactAlways == Spec => []FinishedBuildIsExact
<1>1. IInv => FinishedBuildIsExact  BY DEF IInv, BuildInv
<1> QED  BY <1>1, DatasetInvariant, PTL

\* NoClipTwice, by the names of clips: wherever a build fails or is interrupted, and
\* whatever build follows it on either route, no clip is in two files, neither two of one
\* build nor one of each.
THEOREM NoClipTwiceAlways == Spec => []NoClipTwice
<1>1. IInv => NoClipTwice  BY DEF IInv, BuildInv
<1> QED  BY <1>1, DatasetInvariant, PTL

\* TrainingReadsWholeShards, wherever a precompute is interrupted.
THEOREM TrainingReadsWholeShardsAlways == Spec => []TrainingReadsWholeShards
<1>1. IInv => TrainingReadsWholeShards  BY DEF IInv, DeriveInv
<1> QED  BY <1>1, DatasetInvariant, PTL

\* ForcedPrecomputeIsCurrent: --force leaves no shard as an earlier command had it.
THEOREM ForcedPrecomputeIsCurrentAlways == Spec => []ForcedPrecomputeIsCurrent
<1>1. IInv => ForcedPrecomputeIsCurrent  BY DEF IInv, DeriveInv
<1> QED  BY <1>1, DatasetInvariant, PTL

-----------------------------------------------------------------------------
(* Least and greatest numbers.  There is no induction over an operator, but finite sets are *)
(* well founded under inclusion, and 0..n is one.                                            *)

LEMMA LeastNumber ==
  ASSUME NEW T \in SUBSET Nat, T # {}
  PROVE  \E m \in T : \A n \in T : m <= n
<1> DEFINE Below == { 0..n : n \in T }
<1>1. Below \subseteq FiniteSubsetsOf(Nat) /\ Below # {}
  <2>1. ASSUME NEW n \in T PROVE 0..n \in SUBSET Nat /\ IsFiniteSet(0..n)  BY FS_Interval
  <2> QED  BY <2>1 DEF FiniteSubsetsOf
<1>2. PICK least \in Below : \A other \in Below : ~ (<<other, least>> \in StrictSubsetOrdering(Nat))
  <2> HIDE DEF Below
  <2> QED  BY <1>1, FS_StrictSubsetOrderingWellFounded, WFMin
<1>3. PICK m \in T : least = 0..m  OBVIOUS
<1>4. ASSUME NEW n \in T, n < m PROVE FALSE
  <2>1. 0..n \subseteq 0..m /\ m \in 0..m /\ m \notin 0..n  BY <1>4
  <2>2. <<0..n, 0..m>> \in StrictSubsetOrdering(Nat)  BY <2>1 DEF StrictSubsetOrdering
  <2> QED  BY <2>2, <1>2, <1>3
<1> QED  BY <1>4

LEMMA GreatestOfBounded ==
  ASSUME NEW S \in SUBSET Int, S # {}, NEW b \in Int, \A x \in S : x <= b
  PROVE  \E m \in S : \A x \in S : x <= m
<1> DEFINE gaps == { b - x : x \in S }
<1>1. gaps \in SUBSET Nat /\ gaps # {}
  <2>1. \A x \in S : b - x \in Nat  OBVIOUS
  <2> QED  BY <2>1
<1>2. PICK g \in gaps : \A h \in gaps : g <= h
  <2> HIDE DEF gaps
  <2> QED  BY <1>1, LeastNumber
<1>3. PICK m \in S : g = b - m  OBVIOUS
<1>4. ASSUME NEW x \in S PROVE x <= m
  <2>1. b - x \in gaps  OBVIOUS
  <2>2. b - m <= b - x  BY <2>1, <1>2, <1>3
  <2> QED  BY <2>2
<1> QED  BY <1>4

LEMMA LeastOfBounded ==
  ASSUME NEW S \in SUBSET Int, S # {}, NEW b \in Int, \A x \in S : b <= x
  PROVE  \E m \in S : \A x \in S : m <= x
<1> DEFINE gaps == { x - b : x \in S }
<1>1. gaps \in SUBSET Nat /\ gaps # {}
  <2>1. \A x \in S : x - b \in Nat  OBVIOUS
  <2> QED  BY <2>1
<1>2. PICK g \in gaps : \A h \in gaps : g <= h
  <2> HIDE DEF gaps
  <2> QED  BY <1>1, LeastNumber
<1>3. PICK m \in S : g = m - b  OBVIOUS
<1>4. ASSUME NEW x \in S PROVE m <= x
  <2>1. x - b \in gaps  OBVIOUS
  <2>2. m - b <= x - b  BY <2>1, <1>2, <1>3
  <2> QED  BY <2>2
<1> QED  BY <1>4

\* No sequence of numbers is without bounds: the first prefix without would have one more
\* number than one with.
LEMMA SequencesAreBounded ==
  ASSUME NEW s \in Seq(Int)
  PROVE  \E b \in Nat : \A i \in DOMAIN s : -b <= s[i] /\ s[i] <= b
<1> DEFINE Bounded(k, b) == \A i \in 1..k : -b <= s[i] /\ s[i] <= b
           unbounded == { k \in 0..Len(s) : ~\E b \in Nat : Bounded(k, b) }
<1>1. ASSUME unbounded # {} PROVE FALSE
  <2>1. unbounded \in SUBSET Nat  OBVIOUS
  <2>2. PICK k \in unbounded : \A n \in unbounded : k <= n
    <3> HIDE DEF unbounded
    <3> QED  BY <1>1, <2>1, LeastNumber
  <2>3. k # 0
    <3>1. Bounded(0, 0)  OBVIOUS
    <3> QED  BY <3>1
  <2>4. k - 1 \in 0..Len(s) /\ ~ (k <= k - 1)  BY <2>3
  <2>5. k - 1 \notin unbounded
    <3> HIDE DEF unbounded
    <3> QED  BY <2>2, <2>4
  <2>6. s[k] \in Int  BY <2>3
  <2>11. PICK b \in Nat : Bounded(k - 1, b)  BY <2>4, <2>5
  <2> DEFINE most == IF s[k] >= 0 THEN b + s[k] ELSE b - s[k]
  <2>7. most \in Nat /\ b <= most /\ -most <= s[k] /\ s[k] <= most  BY <2>6
  <2>8. \A i \in 1..(k - 1) : s[i] \in Int  BY <2>2
  <2>9. ASSUME NEW i \in 1..k PROVE -most <= s[i] /\ s[i] <= most
    <3>1. CASE i = k  BY <3>1, <2>7
    <3>2. CASE i \in 1..(k - 1)
      <4> HIDE DEF most
      <4> QED  BY <3>2, <2>11, <2>7, <2>8
    <3> QED  BY <3>1, <3>2
  <2>10. Bounded(k, most)  BY <2>9
  <2> HIDE DEF most, Bounded
  <2> QED  BY <2>2, <2>7, <2>10
<1>2. Len(s) \notin unbounded  BY <1>1
<1>3. PICK b \in Nat : Bounded(Len(s), b)  BY <1>2
<1>4. DOMAIN s = 1..Len(s)  OBVIOUS
<1> QED  BY <1>3, <1>4

\* What the numbers of a sequence reach up and down from zero.
Reached(s) == {0} \cup { s[i] : i \in DOMAIN s }

LEMMA ReachedExtremes ==
  ASSUME NEW s \in Seq(Int)
  PROVE  /\ Reached(s) \in SUBSET Int /\ 0 \in Reached(s) /\ \A i \in DOMAIN s : s[i] \in Reached(s)
         /\ \E m \in Reached(s) : \A x \in Reached(s) : x <= m
         /\ \E m \in Reached(s) : \A x \in Reached(s) : m <= x
<1>1. PICK b \in Nat : \A i \in DOMAIN s : -b <= s[i] /\ s[i] <= b  BY SequencesAreBounded
<1>2. Reached(s) \in SUBSET Int /\ 0 \in Reached(s) /\ \A i \in DOMAIN s : s[i] \in Reached(s)  BY DEF Reached
<1>3. \A x \in Reached(s) : -b <= x /\ x <= b  BY <1>1 DEF Reached
<1>4. b \in Int /\ -b \in Int /\ Reached(s) # {}  BY <1>2
<1>5. \E m \in Reached(s) : \A x \in Reached(s) : x <= m  BY <1>2, <1>3, <1>4, GreatestOfBounded
<1>6. \E m \in Reached(s) : \A x \in Reached(s) : m <= x  BY <1>2, <1>3, <1>4, LeastOfBounded
<1> QED  BY <1>2, <1>5, <1>6

LEMMA Reach ==
  ASSUME NEW s \in Seq(Int)
  PROVE  /\ Training!Future(s) \in Nat /\ Training!History(s) \in Nat
         /\ \A i \in DOMAIN s : -Training!History(s) <= s[i] /\ s[i] <= Training!Future(s)
<1> DEFINE top == Training!Max(Reached(s))
           bottom == Training!Min(Reached(s))
<1>1. Reached(s) \in SUBSET Int /\ 0 \in Reached(s) /\ \A i \in DOMAIN s : s[i] \in Reached(s)  BY ReachedExtremes
<1>2. top \in Reached(s) /\ \A x \in Reached(s) : x <= top
  <2>1. \E m \in Reached(s) : \A x \in Reached(s) : m >= x  BY <1>1, ReachedExtremes
  <2>2. top \in Reached(s) /\ \A x \in Reached(s) : top >= x  BY <2>1 DEF Training!Max
  <2> QED  BY <2>2, <1>1
<1>3. bottom \in Reached(s) /\ \A x \in Reached(s) : bottom <= x  BY ReachedExtremes DEF Training!Min
<1>4. Training!Future(s) = top /\ Training!History(s) = -bottom
  BY DEF Training!Future, Training!History, Reached
<1>5. top \in Int /\ bottom \in Int /\ 0 <= top /\ bottom <= 0  BY <1>1, <1>2, <1>3
<1>6. ASSUME NEW i \in DOMAIN s PROVE bottom <= s[i] /\ s[i] <= top  BY <1>1, <1>2, <1>3
<1> HIDE DEF top, bottom
<1>7. Training!Future(s) \in Nat /\ Training!History(s) \in Nat /\ -Training!History(s) = bottom  BY <1>4, <1>5
<1> QED  BY <1>4, <1>6, <1>7

-----------------------------------------------------------------------------
(* The windows of a clip.                                                  *)

LEMMA MultipleHasNoRest ==
  ASSUME NEW k \in Nat, NEW d \in Nat \ {0}
  PROVE  (k * d) % d = 0
<1>1. k * d \in Nat  OBVIOUS
<1> QED  BY <1>1, Z3

Size(length, most) == IF length <= most THEN length ELSE most

\* The windows of a clip lie inside it and cover it, and any overlap + 1 frames in a row are
\* together in one of them (_window_clip_ranges), however long the clip and its windows are.
THEOREM WindowsCoverClipsAlways ==
  ASSUME NEW length \in Nat \ {0}, NEW most \in Nat \ {0}, NEW overlap \in 0..(most - 1)
  PROVE  /\ \A w \in Training!WindowStarts(length, most, overlap) : w \in Nat /\ w + Size(length, most) <= length
         /\ \A a, b \in 0..(length - 1) : a <= b /\ b <= a + overlap =>
              \E w \in Training!WindowStarts(length, most, overlap) : w <= a /\ b < w + Size(length, most)
<1> DEFINE size == Size(length, most)
           starts == Training!WindowStarts(length, most, overlap)
           stride == most - overlap
<1>1. CASE length <= most
  BY <1>1 DEF Training!WindowStarts, Size
<1>2. CASE length > most
  <2>1. starts = { w \in 0..(length - most) : w % stride = 0 } \cup {length - most} /\ size = most
    BY <1>2 DEF Training!WindowStarts, Size
  <2>2. stride \in Nat \ {0} /\ stride = most - overlap  OBVIOUS
  <2>3. \A w \in starts : w \in Nat /\ w + size <= length  BY <2>1, <1>2
  <2>4. ASSUME NEW a \in 0..(length - 1), NEW b \in 0..(length - 1), b <= a + overlap
        PROVE  \E w \in starts : w <= a /\ b < w + size
    <3> DEFINE quotient == a \div stride
               w == quotient * stride
    <3> HIDE DEF stride
    <3>6. quotient \in Nat /\ stride * quotient <= a /\ a < stride * quotient + stride
      <4>1. a \in Nat  OBVIOUS
      <4> QED  BY <2>2, <4>1, Division, Zenon
    <3> HIDE DEF quotient
    <3>7. w % stride = 0  BY <2>2, <3>6, MultipleHasNoRest, Zenon
    <3>1. w \in Nat /\ w % stride = 0  BY <2>2, <3>6, <3>7
    <3>2. w = stride * quotient  BY <2>2, <3>6
    <3>3. w <= a /\ a < w + stride  BY <3>2, <3>6
    <3> HIDE DEF w, starts, size
    <3>4. CASE w <= length - most
      <4>1. w \in starts  BY <2>1, <3>1, <3>4
      <4>2. b < w + most  BY <2>2, <2>4, <3>1, <3>3
      <4> QED  BY <2>1, <4>1, <4>2, <3>3
    <3>5. CASE w > length - most
      <4>1. length - most \in starts /\ length - most <= a /\ b < length  BY <2>1, <3>1, <3>3, <3>5
      <4>2. b < (length - most) + most  BY <4>1
      <4> QED  BY <2>1, <4>1, <4>2
    <3> QED  BY <3>1, <3>4, <3>5
  <2> QED  BY <2>3, <2>4
<1> QED  BY <1>1, <1>2

\* Cutting a clip loses no sample, if the overlap is what the steps reach and one frame for the
\* interpolation: every centre of the clip is one of some window (compute_clip_sample_ranges).
THEOREM CutsLoseNoSampleAlways ==
  ASSUME NEW steps \in Seq(Int), NEW length \in Nat \ {0}, NEW most \in Nat \ {0}, NEW overlap \in 0..(most - 1),
         overlap >= Training!Future(steps) + Training!History(steps) + 1,
         NEW c \in Training!FirstCentre(steps)..(Training!EndOfCentres(length, steps) - 1)
  PROVE  \E w \in Training!WindowStarts(length, most, overlap) :
           c \in (w + Training!FirstCentre(steps))..(w + Training!EndOfCentres(Size(length, most), steps) - 1)
<1> DEFINE size == Size(length, most)
           F == Training!Future(steps)
           H == Training!History(steps)
           starts == Training!WindowStarts(length, most, overlap)
<1>1. F \in Nat /\ H \in Nat  BY Reach
<1>2. CASE length <= most
  <2>1. 0 \in starts /\ size = length  BY <1>2 DEF Training!WindowStarts, Size
  <2>2. Training!FirstCentre(steps) \in Int /\ Training!EndOfCentres(length, steps) \in Int
    BY <1>1 DEF Training!FirstCentre, Training!EndOfCentres
  <2>3. c \in (0 + Training!FirstCentre(steps))..(0 + Training!EndOfCentres(length, steps) - 1)  BY <2>2
  <2> QED  BY <2>1, <2>3
<1>3. CASE length > most
  <2>1. size = most /\ length # 1 /\ most > 1  BY <1>1, <1>3 DEF Size
  <2>2. c >= H /\ c < length - 1 - F /\ c \in Int
    BY <1>1, <2>1 DEF Training!FirstCentre, Training!EndOfCentres
  <2> DEFINE a == c - H
             b == c + F + 1
  <2>3. a \in 0..(length - 1) /\ b \in 0..(length - 1) /\ a <= b /\ b <= a + overlap  BY <1>1, <2>2
  <2>7. /\ \A w \in starts : w \in Nat
        /\ \A x, y \in 0..(length - 1) :
             x <= y /\ y <= x + overlap => \E w \in starts : w <= x /\ y < w + size
    <3> HIDE DEF a, b
    <3> QED  BY WindowsCoverClipsAlways
  <2>4. PICK w \in starts : w <= a /\ b < w + most
    <3> HIDE DEF a, b, starts, size
    <3> QED  BY <2>1, <2>3, <2>7
  <2>5. w \in Int
    <3> HIDE DEF starts
    <3> QED  BY <2>7
  <2>6. c \in (w + H)..(w + (most - 1 - F) - 1)
    <3>1. w <= c - H /\ c + F + 1 < w + most /\ most \in Int  BY <2>4
    <3> HIDE DEF starts, F, H
    <3> QED  BY <3>1, <1>1, <2>2, <2>5
  <2> QED  BY <2>1, <2>4, <2>6 DEF Training!FirstCentre, Training!EndOfCentres
<1> QED  BY <1>2, <1>3

-----------------------------------------------------------------------------
(* A sample of a window.                                                   *)

LEMMA ProductMonotone ==
  ASSUME NEW a \in Int, NEW b \in Int, NEW n \in Nat, a <= b
  PROVE  a * n \in Int /\ b * n \in Int /\ a * n <= b * n
BY Z3

LEMMA QuotientBelow ==
  ASSUME NEW x \in Nat, NEW n \in Nat \ {0}, NEW k \in Nat, x < k * n
  PROVE  x \div n \in Nat /\ x \div n < k /\ (x \div n) * n <= x /\ x < (x \div n + 1) * n
BY Z3

LEMMA SmallRest ==
  ASSUME NEW x \in Nat, NEW n \in Nat \ {0}, x < n
  PROVE  x % n = x
BY Z3

\* The frames of a sample are the frames around its steps, all of the window: no time is wrapped
\* and no index clamped (_compute_interpolation_state), whatever the steps and the rate.
THEOREM SamplesStayInWindowAlways ==
  ASSUME NEW steps \in Seq(Int), NEW window \in [start : Nat, length : Nat], NEW ticks \in Nat \ {0},
         Training!LongEnough(window, steps)
  PROVE  /\ Training!Centres(window.length, steps, ticks) # {}
         /\ \A t \in Training!Centres(window.length, steps, ticks), k \in DOMAIN steps :
              LET at == t + steps[k] * ticks
                  pair == Training!Frames(t, steps, window.length, ticks)[k]
              IN  /\ pair[1] \in Nat /\ pair[2] = pair[1] + 1 /\ pair[2] < window.length
                  /\ pair[1] * ticks <= at /\ at < pair[2] * ticks
<1> DEFINE F == Training!Future(steps)
           H == Training!History(steps)
           length == window.length
           last == length - 1
<1>1. /\ F \in Nat /\ H \in Nat
      /\ \A i \in DOMAIN steps : steps[i] \in Int /\ -H <= steps[i] /\ steps[i] <= F
  BY Reach
<1>2. length \in Nat /\ length >= H + 1 + F + 1  BY DEF Training!LongEnough
<1> HIDE DEF F, H, length
<1>3. Training!Centres(length, steps, ticks) = (H * ticks)..((last - F) * ticks - 1)
  <2>1. length # 1  BY <1>1, <1>2
  <2> QED  BY <2>1 DEF Training!Centres, Training!FirstCentre, Training!EndOfCentres, F, H
<1>4. /\ H * ticks \in Nat /\ (last - F) * ticks \in Nat /\ last * ticks \in Nat \ {0}
      /\ H * ticks < (last - F) * ticks /\ (last - F) * ticks <= last * ticks
  <2>1. H * ticks \in Int /\ (H + 1) * ticks \in Int /\ (last - F) * ticks \in Int /\ last * ticks \in Int
    BY <1>1, <1>2
  <2>2. 0 * ticks <= H * ticks /\ (H + 1) * ticks <= (last - F) * ticks /\ (last - F) * ticks <= last * ticks
    BY <1>1, <1>2, ProductMonotone
  <2>3. (H + 1) * ticks = H * ticks + ticks  BY <1>1
  <2> QED  BY <2>1, <2>2, <2>3
<1>5. Training!Centres(length, steps, ticks) # {}
  <2>1. H * ticks \in Training!Centres(length, steps, ticks)  BY <1>3, <1>4
  <2> QED  BY <2>1
<1>6. ASSUME NEW t \in Training!Centres(length, steps, ticks), NEW k \in DOMAIN steps
      PROVE  LET at == t + steps[k] * ticks
                 pair == Training!Frames(t, steps, length, ticks)[k]
             IN  /\ pair[1] \in Nat /\ pair[2] = pair[1] + 1 /\ pair[2] < length
                 /\ pair[1] * ticks <= at /\ at < pair[2] * ticks
  <2> DEFINE s == steps[k]
             at == t + s * ticks
             i == at \div ticks
             pair == Training!Frames(t, steps, length, ticks)[k]
  <2>1. t \in Nat /\ H * ticks <= t /\ t < (last - F) * ticks  BY <1>3, <1>4
  <2>2. s \in Int /\ 0 <= H + s /\ (last - F) + s <= last  BY <1>1, <1>2
  <2> HIDE DEF s
  <2>3. at \in Nat /\ at < last * ticks
    <3>1. 0 * ticks <= (H + s) * ticks /\ ((last - F) + s) * ticks <= last * ticks
      BY <1>1, <1>2, <2>2, ProductMonotone
    <3>2. (H + s) * ticks = H * ticks + s * ticks  BY <1>1, <2>2
    <3>3. ((last - F) + s) * ticks = (last - F) * ticks + s * ticks  BY <1>1, <1>2, <2>2
    <3>4. s * ticks \in Int /\ H * ticks \in Int /\ (last - F) * ticks \in Int  BY <1>1, <1>2, <2>2
    <3> QED  BY <3>1, <3>2, <3>3, <3>4, <1>4, <2>1
  <2>4. Training!Wrapped(t, length, ticks) = t
    <3>1. length # 1 /\ t < last * ticks
      <4>1. length # 1  BY <1>1, <1>2
      <4> DEFINE top == last * ticks
                 below == (last - F) * ticks
      <4>2. t < below /\ below <= top /\ t \in Nat /\ below \in Nat /\ top \in Nat  BY <1>4, <2>1
      <4> HIDE DEF top, below
      <4>3. t < top  BY <4>2
      <4> QED  BY <4>1, <4>3 DEF top
    <3>2. t % (last * ticks) = t  BY <3>1, <1>4, <2>1, SmallRest
    <3> QED  BY <3>1, <3>2 DEF Training!Wrapped
  <2>5. /\ i \in Nat /\ i < last /\ i * ticks <= at /\ at < (i + 1) * ticks
    <3>1. last \in Nat  BY <1>1, <1>2
    <3> HIDE DEF last, at
    <3> QED  BY <3>1, <2>3, QuotientBelow
  <2>6. Training!Before(t, s, length, ticks) = i  BY <2>4 DEF Training!Before
  <2> HIDE DEF i
  <2>7. Training!Clamped(i, length) = i /\ Training!Clamped(i + 1, length) = i + 1
    BY <1>2, <2>5 DEF Training!Clamped
  <2>8. pair = <<i, i + 1>>  BY <2>6, <2>7 DEF Training!Frames, s
  <2>9. i + 1 < length  BY <1>2, <2>5
  <2> QED  BY <2>5, <2>8, <2>9 DEF s
<1> QED  BY <1>5, <1>6 DEF length

\* The centre of a sample stays one: when it goes back by no less than it has gone on since
\* (_rewind_sampling), when it is held at the end, and so after a control step (_update_command).
THEOREM CentresStayCentresAlways ==
  ASSUME NEW steps \in Seq(Int), NEW window \in [start : Nat, length : Nat], NEW ticks \in Nat \ {0},
         Training!LongEnough(window, steps),
         NEW t \in Training!Centres(window.length, steps, ticks)
  PROVE  LET centres == Training!Centres(window.length, steps, ticks)
         IN  /\ Training!HeldAtEnd(window.length, steps, ticks) \in centres
             /\ \A gone, back \in Nat : back >= gone => Training!Rewound(t + gone, back, steps, ticks) \in centres
             /\ \A dt \in Nat, resampled \in SUBSET centres :
                  Training!Advanced(t, dt, resampled, window.length, steps, ticks) \subseteq centres
<1> DEFINE start == Training!FirstCentre(steps) * ticks
           end == Training!EndOfCentres(window.length, steps) * ticks
           centres == Training!Centres(window.length, steps, ticks)
<1>1. centres = start..(end - 1)  BY DEF Training!Centres
<1>2. start \in Int /\ end \in Int
  <2>1. Training!FirstCentre(steps) \in Int /\ Training!EndOfCentres(window.length, steps) \in Int
    BY Reach DEF Training!FirstCentre, Training!EndOfCentres
  <2> QED  BY <2>1
<1>3. Training!HeldAtEnd(window.length, steps, ticks) = end - 1  BY DEF Training!HeldAtEnd
<1> HIDE DEF start, end, centres
<1>4. t \in Int /\ start <= t /\ t < end  BY <1>1, <1>2 DEF centres
<1>5. end - 1 \in centres  BY <1>1, <1>2, <1>4
<1>6. ASSUME NEW gone \in Nat, NEW back \in Nat, back >= gone
      PROVE  Training!Rewound(t + gone, back, steps, ticks) \in centres
  <2> DEFINE latest == Training!Max({(t + gone) - back, start})
  <2>1. latest \in {(t + gone) - back, start} /\ latest >= (t + gone) - back /\ latest >= start
    <3>1. \E x \in {(t + gone) - back, start} : \A y \in {(t + gone) - back, start} : x >= y  BY <1>2, <1>4
    <3> QED  BY <3>1 DEF Training!Max
  <2>2. latest = Training!Rewound(t + gone, back, steps, ticks)  BY DEF Training!Rewound, start
  <2>3. latest \in Int /\ start <= latest /\ latest < end  BY <1>2, <1>4, <1>6, <2>1
  <2> HIDE DEF latest
  <2>4. latest \in centres  BY <1>1, <1>2, <2>3
  <2> QED  BY <2>2, <2>4
<1>7. ASSUME NEW dt \in Nat, NEW resampled \in SUBSET centres
      PROVE  Training!Advanced(t, dt, resampled, window.length, steps, ticks) \subseteq centres
  <2>1. t + dt < end => t + dt \in centres  BY <1>1, <1>2, <1>4
  <2> QED  BY <2>1 DEF Training!Advanced, end
<1> QED  BY <1>3, <1>5, <1>6, <1>7 DEF centres

\* A rollout of the benchmark compares the robot with references of its own window, none held
\* (build_benchmark_plan).
THEOREM RolloutsStayInWindowAlways ==
  ASSUME NEW steps \in Seq(Int), NEW window \in [start : Nat, length : Nat], NEW ticks \in Nat \ {0},
         NEW dt \in Nat \ {0}, NEW control_steps \in Nat,
         Training!Eligible(window.length, steps, ticks, dt, control_steps),
         NEW k \in 0..(control_steps - 1)
  PROVE  Training!FirstCentre(steps) * ticks + k * dt \in Training!Centres(window.length, steps, ticks)
<1> DEFINE first == Training!FirstCentre(steps)
           end == Training!EndOfCentres(window.length, steps)
<1>1. first \in Int /\ end \in Int  BY Reach DEF Training!FirstCentre, Training!EndOfCentres
<1>2. (end - first) * ticks >= control_steps * dt  BY DEF Training!Eligible
<1> HIDE DEF first, end
<1>3. (k + 1) * dt <= control_steps * dt /\ 0 * dt <= k * dt  BY ProductMonotone
<1>4. (k + 1) * dt = k * dt + dt /\ k * dt \in Int /\ control_steps * dt \in Int  OBVIOUS
<1>5. (end - first) * ticks = end * ticks - first * ticks /\ end * ticks \in Int /\ first * ticks \in Int  BY <1>1
<1>6. first * ticks + k * dt \in (first * ticks)..(end * ticks - 1)
  <2> DEFINE from == first * ticks
             to == end * ticks
             gone == k * dt
             all == control_steps * dt
  <2>1. /\ from \in Int /\ to \in Int /\ gone \in Int /\ all \in Int
        /\ to - from >= all /\ gone + dt <= all /\ 0 <= gone
    BY <1>2, <1>3, <1>4, <1>5
  <2> HIDE DEF from, to, gone, all
  <2>2. from + gone \in from..(to - 1)  BY <2>1
  <2> QED  BY <2>2 DEF from, to, gone
<1> QED  BY <1>6 DEF Training!Centres, first, end

-----------------------------------------------------------------------------
(* The buffer of timed references.                                         *)

TimedFrame(Poses) == [time : Int, pose : Poses]
Ordered(frames) == \A i, j \in DOMAIN frames : i < j => frames[i].time < frames[j].time
Inside(frames, window) == { i \in DOMAIN frames : frames[i].time >= Timeline!Newest(frames).time - window }

\* A buffer with its frames in order of time, and at least one.
Buffer(frames, Poses) == frames \in Seq(TimedFrame(Poses)) /\ frames # <<>> /\ Ordered(frames)

LEMMA FramesAreTimed ==
  ASSUME NEW Poses, NEW frames \in Seq(TimedFrame(Poses))
  PROVE  /\ Len(frames) \in Nat /\ DOMAIN frames = 1..Len(frames)
         /\ \A i \in 1..Len(frames) : frames[i] \in TimedFrame(Poses) /\ frames[i].time \in Int
<1>1. \A i \in 1..Len(frames) : frames[i] \in TimedFrame(Poses)  OBVIOUS
<1>2. \A f \in TimedFrame(Poses) : f.time \in Int  BY DEF TimedFrame
<1> QED  BY <1>1, <1>2

\* append puts a pose behind the others, or in the place of the newest.
LEMMA StoredIsOrdered ==
  ASSUME NEW Poses, NEW time \in Int, NEW pose \in Poses,
         NEW frames \in Seq(TimedFrame(Poses)), Ordered(frames)
  PROVE  LET stored == Timeline!Stored(frames, time, pose)
         IN  /\ Buffer(stored, Poses)
             /\ Timeline!Newest(stored).pose = pose /\ time <= Timeline!Newest(stored).time
             /\ IF frames # <<>> /\ time <= Timeline!Newest(frames).time
                  THEN Timeline!Newest(stored).time = Timeline!Newest(frames).time
                  ELSE Timeline!Newest(stored).time = time
<1> DEFINE stored == Timeline!Stored(frames, time, pose)
           n == Len(frames)
<1>1. CASE frames # <<>> /\ time <= Timeline!Newest(frames).time
  <2>1. n \in Nat \ {0} /\ n \in DOMAIN frames /\ frames[n] \in TimedFrame(Poses)  BY <1>1
  <2>2. stored = [frames EXCEPT ![n] = [frames[n] EXCEPT !.pose = pose]]
    BY <1>1 DEF Timeline!Stored
  <2>3. [frames[n] EXCEPT !.pose = pose] \in TimedFrame(Poses)  BY <2>1 DEF TimedFrame
  <2>4. stored \in Seq(TimedFrame(Poses)) /\ Len(stored) = n /\ DOMAIN stored = DOMAIN frames
    BY <2>1, <2>2, <2>3
  <2>5. stored[n].pose = pose /\ \A i \in DOMAIN frames : stored[i].time = frames[i].time
    BY <2>1, <2>2 DEF TimedFrame
  <2>6. Ordered(stored)  BY <2>4, <2>5 DEF Ordered
  <2> HIDE DEF stored
  <2> QED  BY <1>1, <2>1, <2>4, <2>5, <2>6 DEF Buffer, Timeline!Newest, stored
<1>2. CASE ~(frames # <<>> /\ time <= Timeline!Newest(frames).time)
  <2>1. stored = Append(frames, [time |-> time, pose |-> pose])
    BY <1>2 DEF Timeline!Stored, Timeline!Frame
  <2>2. [time |-> time, pose |-> pose] \in TimedFrame(Poses)  BY DEF TimedFrame
  <2>3. /\ stored \in Seq(TimedFrame(Poses)) /\ Len(stored) = n + 1
        /\ stored[n + 1] = [time |-> time, pose |-> pose]
        /\ \A i \in 1..n : stored[i] = frames[i]
    BY <2>1, <2>2
  <2>4. \A i \in 1..n : frames[i].time < time
    <3>1. \A i \in 1..n : frames[i].time \in Int  BY FramesAreTimed
    <3>2. n > 0 => frames[n].time < time  BY <1>2, <3>1 DEF Timeline!Newest
    <3> QED  BY <3>1, <3>2 DEF Ordered
  <2>5. Ordered(stored)  BY <2>3, <2>4 DEF Ordered
  <2> HIDE DEF stored
  <2> QED  BY <1>2, <2>3, <2>5 DEF Buffer, Timeline!Newest, stored
<1> QED  BY <1>1, <1>2

\* _trim leaves the frames inside the window, the newest among them.
LEMMA FirstInside ==
  ASSUME NEW Poses, NEW frames, Buffer(frames, Poses), NEW window \in Nat
  PROVE  LET first == Timeline!Min(Inside(frames, window))
         IN  /\ first \in 1..Len(frames) /\ Timeline!Trimmed(frames, window) = SubSeq(frames, first, Len(frames))
             /\ \A i \in 1..Len(frames) : i \in Inside(frames, window) <=> first <= i
<1> DEFINE inside == Inside(frames, window)
           first == Timeline!Min(inside)
           last == Len(frames)
<1>1. /\ last \in Nat \ {0} /\ DOMAIN frames = 1..last
      /\ \A i \in 1..last : frames[i].time \in Int
      /\ Timeline!Newest(frames).time = frames[last].time
  <2>1. frames \in Seq(TimedFrame(Poses)) /\ frames # <<>>  BY DEF Buffer
  <2>2. last # 0  BY <2>1
  <2> QED  BY <2>1, <2>2, FramesAreTimed DEF Timeline!Newest
<1>2. inside \in SUBSET Nat /\ inside \subseteq 1..last /\ last \in inside  BY <1>1 DEF Inside
<1> HIDE DEF inside, last
<1>3. \E m \in inside : \A i \in inside : m <= i  BY <1>2, LeastNumber
<1>4. first \in inside /\ \A i \in inside : first <= i  BY <1>3 DEF Timeline!Min
<1> HIDE DEF first
<1>5. ASSUME NEW i \in 1..last, first <= i PROVE i \in inside
  <2>1. first \in 1..last /\ frames[first].time >= frames[last].time - window
    BY <1>1, <1>2, <1>4 DEF inside, Inside
  <2>2. frames[first].time <= frames[i].time
    BY <1>1, <1>5, <2>1 DEF Buffer, Ordered
  <2> QED  BY <1>1, <2>1, <2>2 DEF inside, Inside
<1>6. Timeline!Trimmed(frames, window) = SubSeq(frames, first, last)
  BY DEF Timeline!Trimmed, first, inside, Inside, last
<1> QED  BY <1>2, <1>4, <1>5, <1>6 DEF first, inside, last

LEMMA TrimmedIsOrdered ==
  ASSUME NEW Poses, NEW frames, Buffer(frames, Poses), NEW window \in Nat
  PROVE  LET kept == Timeline!Trimmed(frames, window)
         IN  /\ Buffer(kept, Poses) /\ Timeline!Newest(kept) = Timeline!Newest(frames)
             /\ \A i \in DOMAIN kept : kept[i].time >= Timeline!Newest(frames).time - window
<1> DEFINE first == Timeline!Min(Inside(frames, window))
           last == Len(frames)
           kept == Timeline!Trimmed(frames, window)
<1>1. /\ first \in 1..last /\ kept = SubSeq(frames, first, last)
      /\ \A i \in 1..last : i \in Inside(frames, window) <=> first <= i
  BY FirstInside
<1>2. frames \in Seq(TimedFrame(Poses)) /\ last \in Nat  BY DEF Buffer
<1> HIDE DEF first, kept
<1>3. /\ kept \in Seq(TimedFrame(Poses)) /\ Len(kept) = last - first + 1
      /\ \A i \in 1..Len(kept) : first + i - 1 \in first..last /\ kept[i] = frames[first + i - 1]
  BY <1>1, <1>2
<1>4. Ordered(kept)
  <2>1. \A i, j \in 1..last : i < j => frames[i].time < frames[j].time
    BY <1>2, FramesAreTimed DEF Buffer, Ordered
  <2>2. ASSUME NEW i \in 1..Len(kept), NEW j \in 1..Len(kept), i < j
        PROVE  kept[i].time < kept[j].time
    <3>1. first + i - 1 \in 1..last /\ first + j - 1 \in 1..last /\ first + i - 1 < first + j - 1
      BY <1>1, <1>2, <1>3, <2>2
    <3> QED  BY <1>3, <2>1, <3>1
  <2>3. DOMAIN kept = 1..Len(kept)  BY <1>3
  <2> QED  BY <2>2, <2>3 DEF Ordered
<1>5. Timeline!Newest(kept) = Timeline!Newest(frames)
  <2>1. Len(kept) \in 1..Len(kept) /\ first + Len(kept) - 1 = last  BY <1>1, <1>2, <1>3
  <2> QED  BY <1>3, <2>1 DEF Timeline!Newest
<1>6. ASSUME NEW i \in DOMAIN kept PROVE kept[i].time >= Timeline!Newest(frames).time - window
  <2>1. first + i - 1 \in Inside(frames, window) /\ kept[i] = frames[first + i - 1]
    BY <1>1, <1>2, <1>3
  <2> QED  BY <2>1 DEF Inside
<1>7. kept # <<>>
  <2>1. Len(kept) # 0  BY <1>1, <1>2, <1>3
  <2> QED  BY <2>1
<1> QED  BY <1>3, <1>4, <1>5, <1>6, <1>7 DEF Buffer, kept

\* A buffer that lacks only frames outside the window is trimmed to the same.
LEMMA SuffixIsTrimmedAlike ==
  ASSUME NEW Poses, NEW whole, NEW suffix, Buffer(whole, Poses), Buffer(suffix, Poses),
         NEW window \in Nat, NEW lost \in Nat, Len(whole) = lost + Len(suffix),
         \A i \in 1..Len(suffix) : suffix[i] = whole[lost + i],
         \A i \in 1..lost : whole[i].time < Timeline!Newest(whole).time - window
  PROVE  Timeline!Trimmed(suffix, window) = Timeline!Trimmed(whole, window)
<1> DEFINE n == Len(whole)
           k == Len(suffix)
           a == Timeline!Min(Inside(whole, window))
           b == Timeline!Min(Inside(suffix, window))
<1>1. /\ a \in 1..n /\ Timeline!Trimmed(whole, window) = SubSeq(whole, a, n)
      /\ \A i \in 1..n : i \in Inside(whole, window) <=> a <= i
  BY FirstInside
<1>2. /\ b \in 1..k /\ Timeline!Trimmed(suffix, window) = SubSeq(suffix, b, k)
      /\ \A i \in 1..k : i \in Inside(suffix, window) <=> b <= i
  BY FirstInside
<1>3. /\ n \in Nat /\ k \in Nat /\ whole \in Seq(TimedFrame(Poses)) /\ suffix \in Seq(TimedFrame(Poses))
      /\ DOMAIN whole = 1..n /\ DOMAIN suffix = 1..k
      /\ \A i \in 1..n : whole[i].time \in Int
  BY FramesAreTimed DEF Buffer
<1> HIDE DEF a, b
<1>4. Timeline!Newest(suffix) = Timeline!Newest(whole)
  <2>1. k \in 1..k /\ lost + k = n  BY <1>2, <1>3
  <2> QED  BY <2>1 DEF Timeline!Newest
<1>5. \A i \in 1..k : i \in Inside(suffix, window) <=> lost + i \in Inside(whole, window)
  BY <1>3, <1>4 DEF Inside
<1>6. a > lost
  <2>1. a \in Inside(whole, window)  BY <1>1
  <2>2. n \in 1..n /\ Timeline!Newest(whole).time \in Int  BY <1>1, <1>3 DEF Timeline!Newest
  <2>3. whole[a].time >= Timeline!Newest(whole).time - window  BY <2>1 DEF Inside
  <2> QED  BY <1>1, <1>3, <2>2, <2>3
<1>7. a = lost + b
  <2>1. a - lost \in 1..k /\ lost + (a - lost) = a  BY <1>1, <1>3, <1>6
  <2>2. b <= a - lost
    <3> DEFINE c == a - lost
    <3>1. c \in 1..k /\ lost + c = a /\ a \in Inside(whole, window)  BY <1>1, <2>1
    <3> HIDE DEF c
    <3>2. b <= c  BY <1>2, <1>5, <3>1
    <3> QED  BY <3>2 DEF c
  <2>3. lost + b \in 1..n /\ lost + b \in Inside(whole, window)  BY <1>2, <1>3, <1>5
  <2>4. a <= lost + b  BY <1>1, <2>3
  <2> QED  BY <1>1, <1>2, <2>2, <2>4
<1>8. SubSeq(suffix, b, k) = SubSeq(whole, a, n)
  <2> DEFINE left == SubSeq(suffix, b, k)
             right == SubSeq(whole, a, n)
  <2>1. /\ left \in Seq(TimedFrame(Poses)) /\ Len(left) = k - b + 1
        /\ \A i \in 1..(k - b + 1) : left[i] = suffix[b + i - 1]
    BY <1>2, <1>3
  <2>2. /\ right \in Seq(TimedFrame(Poses)) /\ Len(right) = n - a + 1
        /\ \A i \in 1..(n - a + 1) : right[i] = whole[a + i - 1]
    BY <1>1, <1>3
  <2>3. n - a = k - b  BY <1>1, <1>2, <1>3, <1>7
  <2>4. ASSUME NEW i \in 1..(k - b + 1) PROVE left[i] = right[i]
    <3>1. b + i - 1 \in 1..k /\ lost + (b + i - 1) = a + i - 1  BY <1>2, <1>3, <1>7
    <3> QED  BY <2>1, <2>2, <2>3, <3>1
  <2> HIDE DEF left, right
  <2>5. left = right
    <3>1. Len(left) = Len(right) /\ \A i \in 1..Len(left) : left[i] = right[i]  BY <1>1, <1>2, <1>3, <1>7, <2>1, <2>2, <2>4
    <3> QED  BY <2>1, <2>2, <3>1, SeqEqual
  <2> QED  BY <2>5 DEF left, right
<1> QED  BY <1>1, <1>2, <1>8

\* Trimming after every frame is trimming once.
LEMMA TrimmedOnce ==
  ASSUME NEW Poses, NEW frames, Buffer(frames, Poses), NEW time \in Int, NEW pose \in Poses, NEW window \in Nat
  PROVE  Timeline!Appended(Timeline!Trimmed(frames, window), time, pose, window)
           = Timeline!Trimmed(Timeline!Stored(frames, time, pose), window)
<1> DEFINE kept == Timeline!Trimmed(frames, window)
           first == Timeline!Min(Inside(frames, window))
           n == Len(frames)
           k == Len(kept)
           whole == Timeline!Stored(frames, time, pose)
           suffix == Timeline!Stored(kept, time, pose)
           lost == first - 1
<1>1. /\ first \in 1..n /\ kept = SubSeq(frames, first, n)
      /\ \A i \in 1..n : i \in Inside(frames, window) <=> first <= i
  BY FirstInside
<1>2. Buffer(kept, Poses) /\ Timeline!Newest(kept) = Timeline!Newest(frames)  BY TrimmedIsOrdered
<1>3. /\ frames \in Seq(TimedFrame(Poses)) /\ n \in Nat /\ frames # <<>> /\ DOMAIN frames = 1..n
      /\ \A i \in 1..n : frames[i] \in TimedFrame(Poses) /\ frames[i].time \in Int
      /\ kept \in Seq(TimedFrame(Poses)) /\ k \in Nat /\ kept # <<>> /\ DOMAIN kept = 1..k
  BY <1>2, FramesAreTimed DEF Buffer
<1> HIDE DEF first, kept
<1>4. /\ k = n - first + 1 /\ lost \in Nat /\ n = lost + k
      /\ \A i \in 1..k : kept[i] = frames[lost + i]
  BY <1>1, <1>3
<1>5. /\ Buffer(whole, Poses) /\ Buffer(suffix, Poses)
      /\ Timeline!Newest(frames).time <= Timeline!Newest(whole).time
  <2>1. Timeline!Newest(frames).time \in Int
    <3>1. n \in 1..n  BY <1>1, <1>3
    <3> QED  BY <1>3, <3>1 DEF Timeline!Newest
  <2>2. Ordered(frames) /\ Ordered(kept)  BY <1>2 DEF Buffer
  <2>3. Buffer(suffix, Poses)  BY <1>3, <2>2, StoredIsOrdered
  <2>4. /\ Buffer(whole, Poses)
        /\ IF frames # <<>> /\ time <= Timeline!Newest(frames).time
             THEN Timeline!Newest(whole).time = Timeline!Newest(frames).time
             ELSE Timeline!Newest(whole).time = time
    BY <1>3, <2>2, StoredIsOrdered
  <2> HIDE DEF whole, suffix
  <2> QED  BY <1>3, <2>1, <2>3, <2>4
<1>6. /\ Len(whole) = lost + Len(suffix)
      /\ \A i \in 1..Len(suffix) : suffix[i] = whole[lost + i]
      /\ \A i \in 1..lost : whole[i] = frames[i]
  <2>1. CASE time <= Timeline!Newest(frames).time
    <3>1. whole = [frames EXCEPT ![n] = [frames[n] EXCEPT !.pose = pose]]
      BY <1>3, <2>1 DEF Timeline!Stored
    <3>2. suffix = [kept EXCEPT ![k] = [kept[k] EXCEPT !.pose = pose]]
      BY <1>2, <1>3, <2>1 DEF Timeline!Stored
    <3>3. n \in 1..n /\ k \in 1..k /\ lost < n /\ [frames[n] EXCEPT !.pose = pose] \in TimedFrame(Poses)
      <4>1. n \in 1..n /\ k \in 1..k /\ lost < n
        <5>1. first \in 1..n  BY <1>1
        <5>2. n \in Nat /\ k \in Nat /\ k = n - first + 1  BY <1>3, <1>4
        <5> HIDE DEF n, k, whole, suffix
        <5> QED  BY <5>1, <5>2
      <4>2. \A f \in TimedFrame(Poses) : [f EXCEPT !.pose = pose] \in TimedFrame(Poses)  BY DEF TimedFrame
      <4>3. frames[n] \in TimedFrame(Poses)  BY <1>3, <4>1
      <4> QED  BY <4>1, <4>2, <4>3
    <3>4. kept[k] = frames[n]  BY <1>4, <3>3
    <3> DEFINE newest == [frames[n] EXCEPT !.pose = pose]
    <3> HIDE DEF newest, whole, suffix
    <3>5. whole = [frames EXCEPT ![n] = newest] /\ suffix = [kept EXCEPT ![k] = newest]
      BY <3>1, <3>2, <3>4 DEF newest
    <3>6. Len(whole) = n /\ Len(suffix) = k  BY <1>3, <3>3, <3>5 DEF newest
    <3>7. ASSUME NEW i \in 1..k PROVE suffix[i] = whole[lost + i]
      <4>1. lost + i \in 1..n /\ (lost + i = n <=> i = k)  BY <1>4, <1>3
      <4> QED  BY <1>3, <1>4, <3>5, <4>1
    <3>8. \A i \in 1..lost : i \in 1..n /\ i # n  BY <1>3, <1>4, <3>3
    <3> QED  BY <1>3, <1>4, <3>5, <3>6, <3>7, <3>8
  <2>2. CASE ~(time <= Timeline!Newest(frames).time)
    <3> DEFINE newest == [time |-> time, pose |-> pose]
    <3>1. whole = Append(frames, newest) /\ suffix = Append(kept, newest)
      BY <1>2, <2>2 DEF Timeline!Stored, Timeline!Frame
    <3> HIDE DEF newest, whole, suffix
    <3>2. /\ Len(whole) = n + 1 /\ Len(suffix) = k + 1 /\ whole[n + 1] = newest /\ suffix[k + 1] = newest
          /\ \A i \in 1..n : whole[i] = frames[i]
          /\ \A i \in 1..k : suffix[i] = kept[i]
      BY <1>3, <3>1
    <3>3. ASSUME NEW i \in 1..(k + 1) PROVE suffix[i] = whole[lost + i]
      <4>1. CASE i = k + 1
        <5>1. lost + i = n + 1  BY <1>3, <1>4, <4>1
        <5> QED  BY <3>2, <4>1, <5>1
      <4>2. CASE i \in 1..k
        <5>1. lost + i \in 1..n  BY <1>3, <1>4, <4>2
        <5> QED  BY <1>4, <3>2, <4>2, <5>1
      <4> QED  BY <1>3, <4>1, <4>2
    <3>4. \A i \in 1..lost : i \in 1..n  BY <1>3, <1>4
    <3> QED  BY <1>3, <1>4, <3>2, <3>3, <3>4
  <2> QED  BY <2>1, <2>2
<1>7. \A i \in 1..lost : whole[i].time < Timeline!Newest(whole).time - window
  <2>1. Timeline!Newest(frames).time \in Int /\ Timeline!Newest(whole).time \in Int
    <3>1. n \in 1..n  BY <1>1, <1>3
    <3>2. \A x \in {whole} : Len(x) \in 1..Len(x) => x[Len(x)].time \in Int
      BY <1>5, FramesAreTimed DEF Buffer
    <3>3. Len(whole) \in 1..Len(whole)
      <4> HIDE DEF whole
      <4> QED  BY <1>5 DEF Buffer
    <3> QED  BY <1>3, <3>1, <3>2, <3>3 DEF Timeline!Newest
  <2>2. ASSUME NEW i \in 1..lost PROVE frames[i].time < Timeline!Newest(frames).time - window
    <3>1. i \in 1..n /\ ~(first <= i)  BY <1>1, <1>3, <1>4
    <3>2. i \notin Inside(frames, window)  BY <1>1, <3>1
    <3> QED  BY <1>3, <2>1, <3>1, <3>2 DEF Inside
  <2>3. \A i \in 1..lost : frames[i].time \in Int  BY <1>3, <1>4
  <2> HIDE DEF whole, suffix, lost
  <2> QED  BY <1>5, <1>6, <2>1, <2>2, <2>3
<1>8. Timeline!Trimmed(suffix, window) = Timeline!Trimmed(whole, window)
  <2> HIDE DEF whole, suffix, lost
  <2> QED  BY <1>4, <1>5, <1>6, <1>7, SuffixIsTrimmedAlike
<1> QED  BY <1>8 DEF Timeline!Appended, kept

\* The buffer after any number of frames, of whatever times, is what the window leaves of all of
\* them: in order of time, none older than the window, with the latest time and the last pose at
\* the end (append and _trim of ReferenceTimeline).
THEOREM BufferStaysOrderedAlways ==
  ASSUME NEW Poses, NEW times \in [Nat -> Int], NEW poses \in [Nat -> Poses], NEW window \in Nat,
         NEW all, all[0] = <<>>, \A n \in Nat : all[n + 1] = Timeline!Stored(all[n], times[n], poses[n]),
         NEW buffer, buffer[0] = <<>>,
         \A n \in Nat : buffer[n + 1] = Timeline!Appended(buffer[n], times[n], poses[n], window),
         NEW n \in Nat \ {0}
  PROVE  /\ buffer[n] = Timeline!Trimmed(all[n], window)
         /\ Buffer(all[n], Poses) /\ Buffer(buffer[n], Poses)
         /\ \A i \in DOMAIN buffer[n] : buffer[n][i].time >= Timeline!Newest(buffer[n]).time - window
         /\ Timeline!Newest(buffer[n]).pose = poses[n - 1]
         /\ \E k \in 0..(n - 1) : Timeline!Newest(buffer[n]).time = times[k]
         /\ \A k \in 0..(n - 1) : times[k] <= Timeline!Newest(buffer[n]).time
<1> DEFINE Holds(m) ==
             /\ buffer[m] = Timeline!Trimmed(all[m], window) /\ Buffer(all[m], Poses)
             /\ Timeline!Newest(all[m]).pose = poses[m - 1]
             /\ \E k \in 0..(m - 1) : Timeline!Newest(all[m]).time = times[k]
             /\ \A k \in 0..(m - 1) : times[k] <= Timeline!Newest(all[m]).time
           failing == { m \in Nat \ {0} : ~Holds(m) }
<1>1. ASSUME NEW m \in Nat, NEW frames \in Seq(TimedFrame(Poses)), Ordered(frames), all[m] = frames
      PROVE  /\ Buffer(all[m + 1], Poses) /\ Timeline!Newest(all[m + 1]).pose = poses[m]
             /\ times[m] <= Timeline!Newest(all[m + 1]).time
             /\ IF frames # <<>> /\ times[m] <= Timeline!Newest(frames).time
                  THEN Timeline!Newest(all[m + 1]).time = Timeline!Newest(frames).time
                  ELSE Timeline!Newest(all[m + 1]).time = times[m]
  <2>1. all[m + 1] = Timeline!Stored(frames, times[m], poses[m]) /\ times[m] \in Int /\ poses[m] \in Poses
    BY <1>1
  <2> DEFINE time == times[m]
             pose == poses[m]
  <2> HIDE DEF Holds, failing, time, pose
  <2>2. time \in Int /\ pose \in Poses /\ all[m + 1] = Timeline!Stored(frames, time, pose)
    BY <2>1 DEF time, pose
  <2> DEFINE stored == Timeline!Stored(frames, time, pose)
  <2>3. /\ Buffer(stored, Poses) /\ Timeline!Newest(stored).pose = pose
        /\ time <= Timeline!Newest(stored).time
        /\ IF frames # <<>> /\ time <= Timeline!Newest(frames).time
             THEN Timeline!Newest(stored).time = Timeline!Newest(frames).time
             ELSE Timeline!Newest(stored).time = time
    <3>1. time \in Int /\ pose \in Poses /\ frames \in Seq(TimedFrame(Poses)) /\ Ordered(frames)  BY <1>1, <2>2
    <3> QED  BY ONLY <3>1, StoredIsOrdered
  <2>4. all[m + 1] = stored  BY <2>2
  <2> HIDE DEF stored
  <2> QED  BY <2>3, <2>4 DEF time, pose
<1>2. Holds(1)
  <2>1. <<>> \in Seq(TimedFrame(Poses)) /\ Ordered(<<>>)  BY DEF Ordered
  <2>2. /\ Buffer(all[1], Poses) /\ Timeline!Newest(all[1]).pose = poses[0]
        /\ Timeline!Newest(all[1]).time = times[0]
    <3>1. 0 \in Nat /\ 0 + 1 = 1  OBVIOUS
    <3> HIDE DEF Holds, failing
    <3> QED  BY <1>1, <2>1, <3>1
  <2>3. buffer[1] = Timeline!Trimmed(all[1], window)
    <3>1. 0 \in Nat /\ 0 + 1 = 1  OBVIOUS
    <3>2. buffer[1] = Timeline!Appended(<<>>, times[0], poses[0], window)  BY <3>1
    <3>3. all[1] = Timeline!Stored(<<>>, times[0], poses[0])  BY <3>1
    <3> QED  BY <3>2, <3>3 DEF Timeline!Appended
  <2>4. times[0] \in Int /\ \A k \in 0..(1 - 1) : k = 0  OBVIOUS
  <2> QED  BY <2>2, <2>3, <2>4
<1>3. ASSUME NEW m \in Nat \ {0}, Holds(m) PROVE Holds(m + 1)
  <2>1. all[m] \in Seq(TimedFrame(Poses)) /\ Ordered(all[m]) /\ all[m] # <<>>  BY <1>3 DEF Buffer
  <2>2. /\ Buffer(all[m + 1], Poses) /\ Timeline!Newest(all[m + 1]).pose = poses[m]
        /\ times[m] <= Timeline!Newest(all[m + 1]).time
        /\ IF times[m] <= Timeline!Newest(all[m]).time
             THEN Timeline!Newest(all[m + 1]).time = Timeline!Newest(all[m]).time
             ELSE Timeline!Newest(all[m + 1]).time = times[m]
    <3> HIDE DEF Holds, failing
    <3> QED  BY <1>1, <2>1
  <2>3. buffer[m + 1] = Timeline!Trimmed(all[m + 1], window)
    <3>1. /\ buffer[m + 1] = Timeline!Appended(Timeline!Trimmed(all[m], window), times[m], poses[m], window)
          /\ all[m + 1] = Timeline!Stored(all[m], times[m], poses[m])
          /\ Buffer(all[m], Poses) /\ times[m] \in Int /\ poses[m] \in Poses
      BY <1>3
    <3> HIDE DEF Holds, failing
    <3> QED  BY <3>1, TrimmedOnce
  <2>4. Timeline!Newest(all[m]).time \in Int /\ m \in 0..m
    <3>1. PICK k \in 0..(m - 1) : Timeline!Newest(all[m]).time = times[k]  BY <1>3
    <3> QED  BY <3>1
  <2>5. \A k \in 0..m : k \in 0..(m - 1) \/ k = m  OBVIOUS
  <2>6. \A k \in 0..m : times[k] <= Timeline!Newest(all[m + 1]).time
    <3>1. \A k \in 0..(m - 1) : times[k] \in Int /\ times[k] <= Timeline!Newest(all[m]).time  BY <1>3
    <3>2. times[m] \in Int  OBVIOUS
    <3> DEFINE was == Timeline!Newest(all[m]).time
               now == Timeline!Newest(all[m + 1]).time
    <3>3. was \in Int /\ times[m] <= now /\ now = IF times[m] <= was THEN was ELSE times[m]
      <4> HIDE DEF Holds, failing
      <4> QED  BY <2>2, <2>4
    <3> HIDE DEF Holds, failing, was, now
    <3>4. was <= now /\ now \in Int  BY <3>2, <3>3
    <3>5. ASSUME NEW k \in 0..(m - 1) PROVE times[k] <= now
      <4>1. times[k] \in Int /\ times[k] <= was  BY <3>1 DEF was
      <4> QED  BY <3>3, <3>4, <4>1
    <3> QED  BY <2>5, <3>3, <3>5 DEF now
  <2>7. \E k \in 0..m : Timeline!Newest(all[m + 1]).time = times[k]
    <3>1. PICK k \in 0..(m - 1) : Timeline!Newest(all[m]).time = times[k]  BY <1>3
    <3>2. k \in 0..m  BY <3>1
    <3> HIDE DEF Holds, failing
    <3> QED  BY <2>2, <2>4, <3>1, <3>2
  <2>8. (m + 1) - 1 = m  OBVIOUS
  <2> QED  BY <2>2, <2>3, <2>6, <2>7, <2>8
<1>4. failing = {}
  <2>1. SUFFICES ASSUME failing # {} PROVE FALSE  OBVIOUS
  <2>2. failing \in SUBSET Nat  OBVIOUS
  <2>3. PICK m \in failing : \A k \in failing : m <= k
    <3> HIDE DEF failing
    <3> QED  BY <2>1, <2>2, LeastNumber
  <2>4. m \in Nat /\ m # 0 /\ ~Holds(m)  BY <2>3
  <2> HIDE DEF Holds
  <2>5. m # 1  BY <1>2, <2>4
  <2>6. m - 1 \in Nat \ {0} /\ (m - 1) + 1 = m /\ ~(m <= m - 1)  BY <2>4, <2>5
  <2>7. Holds(m - 1)  BY <2>3, <2>6
  <2>8. Holds((m - 1) + 1)  BY <1>3, <2>6, <2>7
  <2> QED  BY <2>4, <2>6, <2>8
<1>5. Holds(n)  BY <1>4
<1>6. /\ Buffer(buffer[n], Poses) /\ Timeline!Newest(buffer[n]) = Timeline!Newest(all[n])
      /\ \A i \in DOMAIN buffer[n] : buffer[n][i].time >= Timeline!Newest(all[n]).time - window
  <2>1. buffer[n] = Timeline!Trimmed(all[n], window) /\ Buffer(all[n], Poses)  BY <1>5
  <2> HIDE DEF Holds, failing
  <2> QED  BY <2>1, TrimmedIsOrdered
<1> QED  BY <1>5, <1>6

\* The places of the ends of a buffer, and which case of sample_at applies.
LEMMA EndsOfBuffer ==
  ASSUME NEW Poses, NEW frames, Buffer(frames, Poses)
  PROVE  /\ Len(frames) \in Nat \ {0} /\ DOMAIN frames = 1..Len(frames)
         /\ \A i \in 1..Len(frames) : frames[i].time \in Int
         /\ \A i, j \in 1..Len(frames) : i < j => frames[i].time < frames[j].time
         /\ Timeline!Oldest(frames) = frames[1] /\ Timeline!Newest(frames) = frames[Len(frames)]
<1>1. frames \in Seq(TimedFrame(Poses)) /\ frames # <<>>  BY DEF Buffer
<1>2. Len(frames) # 0  BY <1>1
<1> QED  BY <1>1, <1>2, FramesAreTimed DEF Buffer, Ordered, Timeline!Oldest, Timeline!Newest

\* What sample_at returns of an ordered buffer: an end, or the neighbours of the target.
LEMMA SampleCases ==
  ASSUME NEW Poses, NEW frames, Buffer(frames, Poses), NEW target \in Int
  PROVE  LET sample == Timeline!SampleAt(frames, target)
             first == frames[1]
             last == frames[Len(frames)]
         IN  \/ /\ target <= first.time \/ Len(frames) = 1
                /\ sample.at = first.time /\ sample.newer = first /\ sample.kind # "interpolate"
             \/ /\ Len(frames) > 1 /\ first.time < target /\ target >= last.time
                /\ sample.at = last.time /\ sample.kind # "interpolate"
             \/ /\ Len(frames) > 1 /\ first.time < target /\ target < last.time
                /\ sample.at = target /\ sample.kind = "interpolate"
                /\ \E i \in 2..Len(frames) :
                     /\ sample.older = frames[i - 1] /\ sample.newer = frames[i]
                     /\ frames[i - 1].time < target /\ target <= frames[i].time
<1> DEFINE n == Len(frames)
           sample == Timeline!SampleAt(frames, target)
           later == { i \in 2..n : target <= frames[i].time }
           after == Timeline!Min(later)
<1>1. /\ n \in Nat \ {0} /\ \A i \in 1..n : frames[i].time \in Int
      /\ \A i, j \in 1..n : i < j => frames[i].time < frames[j].time
      /\ Timeline!Oldest(frames) = frames[1] /\ Timeline!Newest(frames) = frames[n]
  BY EndsOfBuffer
<1>2. CASE n = 1
  <2>1. sample = Timeline!Held("single_frame", frames[1])  BY <1>1, <1>2 DEF Timeline!SampleAt
  <2> QED  BY <1>2, <2>1 DEF Timeline!Held, Timeline!Sample
<1>3. CASE n > 1 /\ target <= frames[1].time
  <2>1. ~(target >= frames[n].time)
    <3>1. 1 \in 1..n /\ n \in 1..n /\ 1 < n  BY <1>1, <1>3
    <3>2. frames[1].time < frames[n].time /\ frames[1].time \in Int /\ frames[n].time \in Int  BY <1>1, <3>1
    <3> QED  BY <1>3, <3>2
  <2>2. sample = Timeline!Held("fallback_oldest", frames[1])
    BY <1>1, <1>3, <2>1 DEF Timeline!SampleAt
  <2> QED  BY <1>3, <2>2 DEF Timeline!Held, Timeline!Sample
<1>4. CASE n > 1 /\ ~(target <= frames[1].time) /\ target >= frames[n].time
  <2>1. sample = Timeline!Held("fallback_latest", frames[n])  BY <1>1, <1>4 DEF Timeline!SampleAt
  <2>2. frames[1].time < target
    <3>1. 1 \in 1..n  BY <1>1
    <3> QED  BY <1>1, <1>4, <3>1
  <2> QED  BY <1>4, <2>1, <2>2 DEF Timeline!Held, Timeline!Sample
<1>5. CASE n > 1 /\ ~(target <= frames[1].time) /\ ~(target >= frames[n].time)
  <2>1. sample = Timeline!Sample("interpolate", target, frames[after - 1], frames[after])
    BY <1>1, <1>5 DEF Timeline!SampleAt
  <2>2. /\ frames[1].time < target /\ target < frames[n].time /\ n \in 2..n
        /\ frames[1].time \in Int /\ frames[n].time \in Int
    <3>1. 1 \in 1..n /\ n \in 1..n  BY <1>1
    <3> QED  BY <1>1, <1>5, <3>1
  <2>3. later \in SUBSET Nat /\ n \in later  BY <2>2
  <2>4. \E m \in later : \A i \in later : m <= i
    <3> HIDE DEF later
    <3> QED  BY <2>3, LeastNumber
  <2>5. after \in later /\ \A i \in later : after <= i  BY <2>4 DEF Timeline!Min
  <2> HIDE DEF after
  <2>6. after \in 2..n /\ target <= frames[after].time  BY <2>5
  <2>7. frames[after - 1].time < target
    <3>1. CASE after = 2  BY <2>2, <3>1
    <3>2. CASE after # 2
      <4>1. after - 1 \in 2..n /\ after - 1 \in 1..n /\ ~(after <= after - 1)  BY <2>6, <3>2
      <4>2. after - 1 \notin later
        <5> HIDE DEF later
        <5> QED  BY <2>5, <4>1
      <4>3. ~(target <= frames[after - 1].time)  BY <4>1, <4>2
      <4> QED  BY <1>1, <4>1, <4>3
    <3> QED  BY <3>1, <3>2
  <2> HIDE DEF later, sample
  <2>8. /\ sample.at = target /\ sample.kind = "interpolate"
        /\ sample.older = frames[after - 1] /\ sample.newer = frames[after]
    BY <2>1 DEF Timeline!Sample
  <2> QED  BY <1>5, <2>2, <2>6, <2>7, <2>8 DEF sample
<1>6. n = 1 \/ n > 1
  <2>1. n \in Nat \ {0}  BY <1>1
  <2> HIDE DEF n
  <2> QED  BY <2>1
<1> QED
  <2> HIDE DEF n, sample
  <2> QED  BY <1>2, <1>3, <1>4, <1>5, <1>6 DEF n, sample

\* A sample lies between two neighbours, and trimming shows only at the edge: in the window a
\* sample of what is left is at the time at which one of all frames is, or it is the frame just
\* after its target, for want of the one before (sample_at and _trim).
THEOREM WindowSufficesAlways ==
  ASSUME NEW Poses, NEW all, Buffer(all, Poses), NEW window \in Nat,
         NEW target \in Int, target >= Timeline!Newest(all).time - window
  PROVE  LET kept == Timeline!Trimmed(all, window)
             sample == Timeline!SampleAt(kept, target)
         IN  /\ sample.kind = "interpolate" =>
                  /\ sample.older.time < target /\ target <= sample.newer.time
                  /\ ~\E i \in DOMAIN all : sample.older.time < all[i].time /\ all[i].time < sample.newer.time
             /\ \/ sample.at = Timeline!SampleAt(all, target).at
                \/ /\ sample.at > target /\ sample.newer = Timeline!Oldest(kept)
                   /\ ~\E i \in DOMAIN all : target <= all[i].time /\ all[i].time < sample.at
<1> DEFINE kept == Timeline!Trimmed(all, window)
           sample == Timeline!SampleAt(kept, target)
           whole == Timeline!SampleAt(all, target)
           n == Len(all)
           k == Len(kept)
           first == Timeline!Min(Inside(all, window))
           lost == first - 1
<1>1. /\ first \in 1..n /\ kept = SubSeq(all, first, n)
      /\ \A i \in 1..n : i \in Inside(all, window) <=> first <= i
  BY FirstInside
<1>2. Buffer(kept, Poses)  BY TrimmedIsOrdered
<1> HIDE DEF first, kept
<1>3. /\ n \in Nat \ {0} /\ DOMAIN all = 1..n
      /\ \A i \in 1..n : all[i].time \in Int
      /\ \A i, j \in 1..n : i < j => all[i].time < all[j].time
      /\ Timeline!Newest(all) = all[n]
  BY EndsOfBuffer
<1>4. /\ k \in Nat \ {0} /\ \A i \in 1..k : kept[i].time \in Int
      /\ Timeline!Oldest(kept) = kept[1]
  BY <1>2, EndsOfBuffer
<1>5. /\ lost \in Nat /\ k = n - lost /\ \A i \in 1..k : lost + i \in 1..n /\ kept[i] = all[lost + i]
  <2>1. all \in Seq(TimedFrame(Poses))  BY DEF Buffer
  <2>2. /\ Len(SubSeq(all, first, n)) = n - first + 1
        /\ \A i \in 1..(n - first + 1) : SubSeq(all, first, n)[i] = all[first + i - 1]
    BY <1>1, <1>3, <2>1
  <2> QED  BY <1>1, <1>3, <2>2
<1>6. \A i \in 1..lost : all[i].time < target
  <2>1. ASSUME NEW i \in 1..lost PROVE all[i].time < target
    <3>1. i \in 1..n /\ ~(first <= i) /\ n \in 1..n  BY <1>1, <1>3, <1>5
    <3>2. i \notin Inside(all, window)  BY <1>1, <3>1
    <3>3. all[i].time < all[n].time - window  BY <1>3, <3>1, <3>2 DEF Inside
    <3> QED  BY <1>3, <3>1, <3>3
  <2> QED  BY <2>1
<1>7. kept[1] = all[first] /\ kept[k] = all[n] /\ lost + 1 = first
  <2>1. 1 \in 1..k /\ k \in 1..k /\ lost + 1 = first /\ lost + k = n  BY <1>1, <1>3, <1>4, <1>5
  <2> QED  BY <1>5, <2>1
<1>8. \/ /\ target <= all[first].time \/ k = 1
         /\ sample.at = all[first].time /\ sample.newer = kept[1] /\ sample.kind # "interpolate"
      \/ /\ k > 1 /\ all[first].time < target /\ target >= all[n].time
         /\ sample.at = all[n].time /\ sample.kind # "interpolate"
      \/ /\ k > 1 /\ all[first].time < target /\ target < all[n].time
         /\ sample.at = target /\ sample.kind = "interpolate"
         /\ \E i \in 2..k :
              /\ sample.older = kept[i - 1] /\ sample.newer = kept[i]
              /\ kept[i - 1].time < target /\ target <= kept[i].time
  BY <1>2, <1>7, SampleCases
<1>9. \/ (target <= all[1].time \/ n = 1) /\ whole.at = all[1].time
      \/ n > 1 /\ all[1].time < target /\ target >= all[n].time /\ whole.at = all[n].time
      \/ n > 1 /\ all[1].time < target /\ target < all[n].time /\ whole.at = target
  BY SampleCases
<1> HIDE DEF sample, whole, lost
<1>10. ASSUME sample.kind = "interpolate"
       PROVE  /\ sample.older.time < target /\ target <= sample.newer.time
              /\ ~\E j \in DOMAIN all : sample.older.time < all[j].time /\ all[j].time < sample.newer.time
  <2>1. PICK i \in 2..k : /\ sample.older = kept[i - 1] /\ sample.newer = kept[i]
                          /\ kept[i - 1].time < target /\ target <= kept[i].time
    BY <1>8, <1>10
  <2> DEFINE p == lost + i - 1
  <2>2. p \in 1..n /\ p + 1 \in 1..n /\ kept[i - 1] = all[p] /\ kept[i] = all[p + 1]
    <3>1. i - 1 \in 1..k /\ i \in 1..k /\ lost + (i - 1) = p /\ lost + i = p + 1  BY <1>5, <1>4
    <3> QED  BY <1>5, <3>1
  <2> HIDE DEF p
  <2>3. ASSUME NEW j \in 1..n, all[p].time < all[j].time, all[j].time < all[p + 1].time PROVE FALSE
    <3>1. CASE j < p  BY <1>3, <2>2, <2>3, <3>1
    <3>2. CASE j = p  BY <1>3, <2>2, <2>3, <3>2
    <3>3. CASE j = p + 1  BY <1>3, <2>2, <2>3, <3>3
    <3>4. CASE j > p + 1  BY <1>3, <2>2, <2>3, <3>4
    <3> QED  BY <2>2, <3>1, <3>2, <3>3, <3>4
  <2> QED  BY <1>3, <2>1, <2>2, <2>3
<1>11. \/ sample.at = whole.at
       \/ /\ sample.at > target /\ sample.newer = Timeline!Oldest(kept)
          /\ ~\E j \in DOMAIN all : target <= all[j].time /\ all[j].time < sample.at
  <2> DEFINE start == all[1].time
             edge == all[first].time
             end == all[n].time
  <2>1. /\ 1 \in 1..n /\ n \in 1..n /\ first \in 1..n /\ (1 < first => start < edge) /\ (first < n => edge < end)
        /\ start \in Int /\ edge \in Int /\ end \in Int
    BY <1>1, <1>3
  <2>5. k = n - first + 1 /\ n \in Nat /\ first \in Nat /\ 1 <= first /\ first <= n
    <3>1. n \in Nat /\ first \in 1..n /\ lost \in Nat /\ k = n - lost /\ lost + 1 = first  BY <1>1, <1>3, <1>5, <1>7
    <3> HIDE DEF n, k, first
    <3> QED  BY <3>1
  <2>6. \/ (target <= edge \/ k = 1) /\ sample.at = edge
        \/ k > 1 /\ edge < target /\ target >= end /\ sample.at = end
        \/ k > 1 /\ edge < target /\ target < end /\ sample.at = target
    BY <1>8
  <2>7. \/ (target <= start \/ n = 1) /\ whole.at = start
        \/ n > 1 /\ start < target /\ target >= end /\ whole.at = end
        \/ n > 1 /\ start < target /\ target < end /\ whole.at = target
    BY <1>9
  <2>8. (first = 1 => start = edge) /\ (first = n => edge = end) /\ (n = 1 => first = 1)
    <3>1. n = 1 => first = 1
      <4> HIDE DEF n, k, first
      <4> QED  BY <2>5
    <3> QED  BY <3>1
  <2>2. CASE target < all[first].time
    <3>1. sample.at = all[first].time /\ sample.newer = kept[1]  BY <1>8, <2>1, <2>2
    <3>2. ASSUME NEW j \in 1..n, target <= all[j].time, all[j].time < all[first].time PROVE FALSE
      <4>1. CASE j < first
        <5>1. j \in 1..lost  BY <1>1, <1>5, <1>7, <4>1
        <5>2. all[j].time < target /\ all[j].time \in Int  BY <1>3, <1>6, <5>1
        <5> QED  BY <3>2, <5>2
      <4>2. CASE j = first  BY <2>1, <3>2, <4>2
      <4>3. CASE j > first
        <5>1. all[first].time < all[j].time /\ all[j].time \in Int  BY <1>1, <1>3, <4>3
        <5> QED  BY <2>1, <3>2, <5>1
      <4> QED  BY <1>1, <1>3, <4>1, <4>2, <4>3
    <3> QED  BY <1>3, <1>4, <2>1, <2>2, <3>1, <3>2
  <2>3. CASE edge <= target
    <3> HIDE DEF start, edge, end, k, n, first
    <3>1. start <= edge /\ edge <= end /\ start \in Int /\ edge \in Int /\ end \in Int  BY <2>1, <2>5, <2>8
    <3>2. CASE target >= end
      <4>1. sample.at = end  BY <2>1, <2>3, <2>5, <2>6, <2>8, <3>1, <3>2
      <4>2. whole.at = end  BY <2>1, <2>3, <2>5, <2>7, <2>8, <3>1, <3>2
      <4> QED  BY <4>1, <4>2
    <3>3. CASE target < end
      <4>1. first < n  BY <2>3, <2>5, <2>8, <3>1, <3>3
      <4>2. sample.at = target  BY <2>3, <2>5, <2>6, <3>1, <3>3, <4>1
      <4>3. whole.at = target  BY <2>3, <2>5, <2>7, <3>1, <3>3, <4>1
      <4> QED  BY <4>2, <4>3
    <3> QED  BY <3>1, <3>2, <3>3
  <2> QED  BY <2>1, <2>2, <2>3
<1> QED  BY <1>10, <1>11 DEF sample, whole, kept

\* A configuration that passes validation (parse_reference_steps, validate_runtime_support) asks
\* for nothing that is not yet there and for nothing from before the window.
THEOREM SupportedStaysInsideAlways ==
  ASSUME NEW steps \in Seq(Int), NEW dt \in Nat, NEW delay \in Int, NEW window \in Int,
         Timeline!Supported(steps, dt, delay, window)
  PROVE  \A i \in DOMAIN steps : steps[i] * dt - delay \in (-window)..0
<1> DEFINE top == Timeline!Max(Reached(steps))
           bottom == Timeline!Min(Reached(steps))
<1>1. Reached(steps) \in SUBSET Int /\ \A i \in DOMAIN steps : steps[i] \in Reached(steps)
  BY ReachedExtremes
<1>2. top \in Reached(steps) /\ \A x \in Reached(steps) : x <= top
  <2>1. \E m \in Reached(steps) : \A x \in Reached(steps) : m >= x  BY <1>1, ReachedExtremes
  <2>2. top \in Reached(steps) /\ \A x \in Reached(steps) : top >= x  BY <2>1 DEF Timeline!Max
  <2> QED  BY <2>2, <1>1
<1>3. bottom \in Reached(steps) /\ \A x \in Reached(steps) : bottom <= x
  BY ReachedExtremes DEF Timeline!Min
<1>4. Timeline!Steps(steps) = Reached(steps)  BY DEF Timeline!Steps, Reached
<1>5. delay >= top * dt /\ window >= delay - bottom * dt
  BY <1>4 DEF Timeline!Supported, Timeline!RequiredDelay, Timeline!RequiredWindow
<1> HIDE DEF top, bottom
<1>6. ASSUME NEW i \in DOMAIN steps PROVE steps[i] * dt - delay \in (-window)..0
  <2> DEFINE s == steps[i]
             low == bottom * dt
             high == top * dt
             at == s * dt
  <2>1. s \in Int /\ bottom \in Int /\ top \in Int /\ bottom <= s /\ s <= top  BY <1>1, <1>2, <1>3
  <2> HIDE DEF s
  <2>2. low <= at /\ at <= high /\ low \in Int /\ at \in Int /\ high \in Int  BY <2>1, ProductMonotone
  <2>3. delay >= high /\ window >= delay - low  BY <1>5
  <2> HIDE DEF low, high, at
  <2>4. at - delay \in (-window)..0  BY <2>2, <2>3
  <2> QED  BY <2>4 DEF at, s
<1> QED  BY <1>6

-----------------------------------------------------------------------------
(* MotionCommand, over training of any length.                             *)

\* What the configuration and the library guarantee: a clip that is loaded has a centre.
Library ==
  /\ Envs # {} /\ ClipStarts \in [EnvClips -> Nat] /\ ClipEnds \in [EnvClips -> Nat]
  /\ \A k \in EnvClips : ClipStarts[k] < ClipEnds[k]
  /\ Step \in Nat /\ LongestLeft \in Nat /\ ResampleOnClipEnd \in BOOLEAN
  /\ SamplingMode \in {"start", "uniform", "rewind"}
  /\ RewindMin \in Nat /\ RewindMax \in Nat

Places == [clip : EnvClips \cup {0}, time : Int]
AllPlaces == [Envs -> Places]
Commands ==
  [at : AllPlaces, frames : AllPlaces, robot : AllPlaces, feet : AllPlaces, local : AllPlaces, relative : AllPlaces,
   left : [Envs -> Nat]]

Current(c) == c.frames = c.at /\ c.local = c.at /\ c.feet = c.at
Sampled(c) == \A e \in Envs : c.at[e] \in Training!Drawn
CommandInv(c) == c \in Commands /\ Current(c) /\ Sampled(c)

LEMMA DrawnPlaces ==
  ASSUME Library
  PROVE  \A place : place \in Training!Drawn <=>
           /\ place \in Places /\ place.clip \in EnvClips
           /\ ClipStarts[place.clip] <= place.time /\ place.time < ClipEnds[place.clip]
<1>1. \A k \in EnvClips : ClipStarts[k] \in Nat /\ ClipEnds[k] \in Nat  BY DEF Library
<1>2. ASSUME NEW place \in Training!Drawn
      PROVE  /\ place \in Places /\ place.clip \in EnvClips
             /\ ClipStarts[place.clip] <= place.time /\ place.time < ClipEnds[place.clip]
  <2>1. PICK k \in EnvClips : place \in { [clip |-> k, time |-> t] : t \in ClipStarts[k]..(ClipEnds[k] - 1) }
    BY DEF Training!Drawn
  <2>2. PICK t \in ClipStarts[k]..(ClipEnds[k] - 1) : place = [clip |-> k, time |-> t]  BY <2>1
  <2>3. t \in Int /\ ClipStarts[k] <= t /\ t < ClipEnds[k]  BY <1>1, <2>2
  <2> QED  BY <2>2, <2>3 DEF Places
<1>3. ASSUME NEW place \in Places, place.clip \in EnvClips,
             ClipStarts[place.clip] <= place.time, place.time < ClipEnds[place.clip]
      PROVE  place \in Training!Drawn
  <2>1. place.time \in Int /\ place = [clip |-> place.clip, time |-> place.time]  BY DEF Places
  <2>2. place.time \in ClipStarts[place.clip]..(ClipEnds[place.clip] - 1)  BY <1>1, <1>3, <2>1
  <2>3. place \in { [clip |-> place.clip, time |-> t] : t \in ClipStarts[place.clip]..(ClipEnds[place.clip] - 1) }
    BY <2>1, <2>2
  <2> QED  BY <1>3, <2>3 DEF Training!Drawn
<1> QED  BY <1>2, <1>3

\* _reset_envs_to_current_reference: these robots alone are moved, and nothing is left stale.
LEMMA PlacedCommand ==
  ASSUME NEW c \in Commands, NEW envs \in SUBSET Envs
  PROVE  LET d == Training!Placed(c, envs)
         IN  /\ d \in Commands /\ d.at = c.at
             /\ envs # {} \/ Current(c) => Current(d)
             /\ \A e \in Envs : d.robot[e] = IF e \in envs THEN c.at[e] ELSE c.robot[e]
             /\ d.left = c.left
<1>1. CASE envs = {}
  BY <1>1 DEF Training!Placed
<1>2. CASE envs # {}
  <2> DEFINE fresh == [c EXCEPT !.frames = c.at]
             robots == [e \in Envs |-> IF e \in envs THEN fresh.frames[e] ELSE fresh.robot[e]]
             moved == [fresh EXCEPT !.robot = robots]
             d == [moved EXCEPT !.local = moved.frames, !.feet = moved.frames]
  <2>1. d = Training!Placed(c, envs)
    BY <1>2 DEF Training!Placed, Training!FramesRefreshed, Training!LocalRefreshed
  <2>2. fresh \in Commands /\ fresh.frames = c.at /\ fresh.at = c.at /\ fresh.robot = c.robot /\ fresh.left = c.left
    BY DEF Commands
  <2> HIDE DEF fresh
  <2>3. robots \in AllPlaces /\ \A e \in Envs : robots[e] = IF e \in envs THEN c.at[e] ELSE c.robot[e]
    BY <2>2 DEF Commands, AllPlaces
  <2> HIDE DEF robots
  <2>4. /\ moved \in Commands /\ moved.robot = robots /\ moved.frames = c.at /\ moved.at = c.at
        /\ moved.left = c.left
    BY <2>2, <2>3 DEF Commands
  <2> HIDE DEF moved
  <2>5. /\ d \in Commands /\ d.robot = robots /\ d.frames = c.at /\ d.at = c.at /\ d.local = c.at /\ d.feet = c.at
        /\ d.left = c.left
    BY <2>4 DEF Commands
  <2> HIDE DEF d
  <2> QED  BY <2>1, <2>3, <2>5 DEF Current
<1> QED  BY <1>1, <1>2

\* What _resample_command may take: a place with a centre, as long as a rewind gets back from
\* beyond the end of the clip.
LEMMA SamplesAreDrawn ==
  ASSUME Library, NEW at \in Places, at.clip \in EnvClips, NEW failed \in BOOLEAN,
         SamplingMode = "rewind" /\ failed => at.time - RewindMin * Step < ClipEnds[at.clip]
  PROVE  Training!SamplesOf(at, failed) \subseteq Training!Drawn
<1>1. \A k \in EnvClips : ClipStarts[k] \in Nat /\ ClipEnds[k] \in Nat /\ ClipStarts[k] < ClipEnds[k]
  BY DEF Library
<1>2. ASSUME NEW k \in EnvClips PROVE [clip |-> k, time |-> ClipStarts[k]] \in Training!Drawn
  <2>1. [clip |-> k, time |-> ClipStarts[k]] \in Places  BY <1>1 DEF Places
  <2> QED  BY <1>1, <2>1, DrawnPlaces
<1>3. ASSUME SamplingMode = "rewind", failed PROVE Training!Rewinds(at) \subseteq Training!Drawn
  <2>1. SUFFICES ASSUME NEW place \in Training!Rewinds(at) PROVE place \in Training!Drawn  OBVIOUS
  <2>2. PICK n \in RewindMin..RewindMax :
          place = [clip |-> at.clip, time |-> Training!Later(at.time - n * Step, ClipStarts[at.clip])]
    BY DEF Training!Rewinds
  <2>3. RewindMin \in Nat /\ RewindMax \in Nat /\ Step \in Nat  BY DEF Library
  <2> DEFINE back == n * Step
             least == RewindMin * Step
  <2>4. n \in Int /\ RewindMin <= n  BY <2>2, <2>3
  <2>5. least \in Int /\ back \in Int /\ least <= back  BY <2>3, <2>4, ProductMonotone
  <2>6. at.time \in Int /\ at.time - least < ClipEnds[at.clip]  BY <1>3 DEF Places
  <2> HIDE DEF back, least
  <2> DEFINE time == Training!Later(at.time - back, ClipStarts[at.clip])
  <2>7. time \in Int /\ ClipStarts[at.clip] <= time /\ time < ClipEnds[at.clip]
    BY <1>1, <2>5, <2>6 DEF Training!Later
  <2>8. place = [clip |-> at.clip, time |-> time]  BY <2>2 DEF back
  <2> HIDE DEF time
  <2>9. place \in Places /\ place.clip = at.clip /\ place.time = time  BY <2>7, <2>8 DEF Places
  <2> QED  BY <2>7, <2>9, DrawnPlaces
<1>4. CASE SamplingMode = "start"
  BY <1>2, <1>4 DEF Training!SamplesOf
<1>5. CASE SamplingMode = "uniform"
  BY <1>5 DEF Training!SamplesOf
<1>6. CASE SamplingMode = "rewind"
  BY <1>3, <1>6 DEF Training!SamplesOf
<1> QED  BY <1>4, <1>5, <1>6 DEF Library

\* _resample_command draws for these environments, from which others have gone nowhere.
LEMMA ResampledCommand ==
  ASSUME Library, NEW c \in Commands, NEW envs \in SUBSET Envs, NEW failed \in SUBSET Envs,
         envs # {} \/ Current(c),
         \A e \in envs : /\ c.at[e].clip \in EnvClips
                         /\ SamplingMode = "rewind" /\ e \in failed =>
                              c.at[e].time - RewindMin * Step < ClipEnds[c.at[e].clip],
         \A e \in Envs \ envs : c.at[e] \in Training!Drawn,
         NEW d \in Training!Resampled(c, envs, failed)
  PROVE  /\ CommandInv(d)
         /\ \A e \in Envs : d.robot[e] = IF e \in envs THEN d.at[e] ELSE c.robot[e]
         /\ \A e \in Envs \ envs : d.at[e] = c.at[e]
<1>1. PICK f : /\ d = Training!Placed([c EXCEPT !.at = f], envs)
               /\ f = [e \in Envs |-> f[e]]
               /\ \A e \in Envs : IF e \in envs THEN f[e] \in Training!SamplesOf(c.at[e], e \in failed)
                                                ELSE f[e] = c.at[e]
  BY DEF Training!Resampled
<1>2. \A e \in Envs : c.at[e] \in Places  BY DEF Commands, AllPlaces
<1>3. ASSUME NEW e \in Envs PROVE f[e] \in Training!Drawn
  <2>1. CASE e \in envs
    <3>1. (e \in failed) \in BOOLEAN  OBVIOUS
    <3>2. Training!SamplesOf(c.at[e], e \in failed) \subseteq Training!Drawn
      BY <1>2, <2>1, <3>1, SamplesAreDrawn
    <3> QED  BY <1>1, <2>1, <3>2
  <2>2. CASE e \notin envs  BY <1>1, <2>2
  <2> QED  BY <2>1, <2>2
<1>4. f \in AllPlaces
  <2>1. \A e \in Envs : f[e] \in Places  BY <1>3, DrawnPlaces
  <2> QED  BY <1>1, <2>1 DEF AllPlaces
<1> DEFINE drawn == [c EXCEPT !.at = f]
<1>5. drawn \in Commands /\ drawn.at = f /\ drawn.robot = c.robot  BY <1>4 DEF Commands
<1>6. envs # {} \/ Current(drawn)
  <2>1. SUFFICES ASSUME envs = {} PROVE Current(drawn)  OBVIOUS
  <2>2. c.at = [e \in Envs |-> c.at[e]] /\ \A e \in Envs : f[e] = c.at[e]
    BY <1>1, <2>1 DEF Commands, AllPlaces
  <2>3. f = c.at  BY <1>1, <2>2
  <2>4. /\ Current(c) /\ drawn.frames = c.frames /\ drawn.local = c.local /\ drawn.feet = c.feet
    BY <2>1 DEF Commands
  <2> QED  BY <1>5, <2>3, <2>4 DEF Current
<1> HIDE DEF drawn
<1>7. /\ d \in Commands /\ d.at = f /\ Current(d)
      /\ \A e \in Envs : d.robot[e] = IF e \in envs THEN f[e] ELSE c.robot[e]
  <2>1. d = Training!Placed(drawn, envs)  BY <1>1 DEF drawn
  <2> QED  BY <1>5, <1>6, <2>1, PlacedCommand
<1> QED  BY <1>1, <1>3, <1>7 DEF CommandInv, Sampled

LEMMA RefreshedCommand ==
  ASSUME NEW c \in Commands
  PROVE  LET d == Training!Refreshed(c)
         IN  /\ d \in Commands /\ Current(d) /\ d.at = c.at /\ d.relative = c.at /\ d.robot = c.robot
<1> DEFINE framed == [c EXCEPT !.frames = c.at]
           local == [framed EXCEPT !.local = framed.frames, !.feet = framed.frames]
           d == [local EXCEPT !.relative = local.frames]
<1>1. d = Training!Refreshed(c)
  BY DEF Training!Refreshed, Training!FramesRefreshed, Training!LocalRefreshed
<1>2. framed \in Commands /\ framed.frames = c.at /\ framed.at = c.at /\ framed.robot = c.robot  BY DEF Commands
<1> HIDE DEF framed
<1>3. /\ local \in Commands /\ local.frames = c.at /\ local.at = c.at /\ local.local = c.at /\ local.feet = c.at
      /\ local.robot = c.robot
  BY <1>2 DEF Commands
<1> HIDE DEF local
<1>4. /\ d \in Commands /\ d.frames = c.at /\ d.at = c.at /\ d.local = c.at /\ d.feet = c.at /\ d.relative = c.at
      /\ d.robot = c.robot
  BY <1>3 DEF Commands
<1> HIDE DEF d
<1> QED  BY <1>1, <1>4 DEF Current

\* _update_command
LEMMA UpdatedCommand ==
  ASSUME Library, SamplingMode = "rewind" /\ ResampleOnClipEnd => RewindMin # 0,
         NEW c, CommandInv(c), NEW failed \in SUBSET Envs, NEW d \in Training!Updated(c, failed)
  PROVE  CommandInv(d) /\ d.relative = d.at
<1> DEFINE later == [c EXCEPT !.at = [e \in Envs |-> Training!AStepLater(c.at[e])]]
           over == { e \in Envs : later.at[e].time >= ClipEnds[later.at[e].clip] }
           held == [later EXCEPT !.at = [e \in Envs |-> IF e \in over THEN Training!Held(later.at[e]) ELSE later.at[e]]]
<1>1. PICK x \in (IF over # {} /\ ResampleOnClipEnd THEN Training!Resampled(later, over, failed) ELSE {held}) :
        d = Training!Refreshed(x)
  BY DEF Training!Updated
<1>2. /\ Step \in Nat /\ RewindMin \in Nat
      /\ \A k \in EnvClips : ClipStarts[k] \in Nat /\ ClipEnds[k] \in Nat /\ ClipStarts[k] < ClipEnds[k]
  BY DEF Library
<1>3. /\ c \in Commands /\ Current(c)
      /\ \A e \in Envs : /\ c.at[e] \in Places /\ c.at[e].clip \in EnvClips
                         /\ ClipStarts[c.at[e].clip] <= c.at[e].time /\ c.at[e].time < ClipEnds[c.at[e].clip]
  BY DrawnPlaces DEF CommandInv, Sampled
<1>10. \A place \in Places : LET ahead == Training!AStepLater(place)
                             IN  /\ ahead \in Places /\ ahead.clip = place.clip /\ ahead.time = place.time + Step
                                 /\ place.time \in Int
  BY <1>2 DEF Training!AStepLater, Places
<1>4. /\ later \in Commands
      /\ \A e \in Envs : later.at[e] = Training!AStepLater(c.at[e])
  <2>1. [e \in Envs |-> Training!AStepLater(c.at[e])] \in AllPlaces
    BY <1>3, <1>10 DEF AllPlaces
  <2> QED  BY <1>3, <2>1 DEF Commands
<1> HIDE DEF later
<1>5. \A e \in Envs : /\ later.at[e] \in Places /\ later.at[e].clip = c.at[e].clip
                      /\ later.at[e].time = c.at[e].time + Step /\ c.at[e].time \in Int
  BY <1>3, <1>4, <1>10
<1>6. \A e \in Envs \ over : later.at[e] \in Training!Drawn
  <2>1. SUFFICES ASSUME NEW e \in Envs, e \notin over PROVE later.at[e] \in Training!Drawn  OBVIOUS
  <2>2. later.at[e].time < ClipEnds[later.at[e].clip] /\ ClipStarts[later.at[e].clip] <= later.at[e].time
    BY <1>2, <1>3, <1>5, <2>1
  <2> QED  BY <1>3, <1>5, <2>2, DrawnPlaces
<1>7. CommandInv(x) \/ (x \in Commands /\ Sampled(x))
  <2>1. CASE over # {} /\ ResampleOnClipEnd
    <3>1. x \in Training!Resampled(later, over, failed)  BY <1>1, <2>1
    <3>2. ASSUME NEW e \in over
          PROVE  /\ later.at[e].clip \in EnvClips
                 /\ SamplingMode = "rewind" /\ e \in failed =>
                      later.at[e].time - RewindMin * Step < ClipEnds[later.at[e].clip]
      <4>1. e \in Envs /\ later.at[e].clip \in EnvClips  BY <1>3, <1>5
      <4>2. ASSUME SamplingMode = "rewind"
            PROVE  later.at[e].time - RewindMin * Step < ClipEnds[later.at[e].clip]
        <5> DEFINE back == RewindMin * Step
        <5>1. 1 <= RewindMin  BY <1>2, <2>1, <4>2
        <5>2. 1 * Step <= back /\ back \in Int  BY <1>2, <5>1, ProductMonotone
        <5> HIDE DEF back
        <5>3. Step <= back  BY <1>2, <5>2
        <5>4. later.at[e].time - back < ClipEnds[later.at[e].clip]
          BY <1>2, <1>3, <1>5, <4>1, <5>2, <5>3
        <5> QED  BY <5>4 DEF back
      <4> QED  BY <4>1, <4>2
    <3> HIDE DEF over
    <3>3. over \in SUBSET Envs  BY DEF over
    <3> QED  BY <1>4, <1>6, <2>1, <3>1, <3>2, <3>3, ResampledCommand
  <2>2. CASE ~(over # {} /\ ResampleOnClipEnd)
    <3>1. x = held  BY <1>1, <2>2
    <3> DEFINE places == [e \in Envs |-> IF e \in over THEN Training!Held(later.at[e]) ELSE later.at[e]]
    <3>2. ASSUME NEW e \in Envs PROVE places[e] \in Training!Drawn
      <4>1. CASE e \in over
        <5>1. places[e] = [later.at[e] EXCEPT !.time = ClipEnds[later.at[e].clip] - 1]
          BY <4>1 DEF Training!Held
        <5> HIDE DEF places, over
        <5>2. /\ places[e] \in Places /\ places[e].clip = later.at[e].clip
              /\ places[e].time = ClipEnds[later.at[e].clip] - 1
          BY <1>2, <1>3, <1>5, <5>1 DEF Places
        <5>3. ClipStarts[places[e].clip] <= places[e].time /\ places[e].time < ClipEnds[places[e].clip]
          BY <1>2, <1>3, <1>5, <5>2
        <5> QED  BY <1>3, <1>5, <5>2, <5>3, DrawnPlaces
      <4>2. CASE e \notin over  BY <1>6, <4>2
      <4> QED  BY <4>1, <4>2
    <3>3. held = [later EXCEPT !.at = places]  OBVIOUS
    <3>4. places \in AllPlaces
      <4>1. \A e \in Envs : places[e] \in Places  BY <3>2, DrawnPlaces
      <4>2. places = [e \in Envs |-> places[e]]  OBVIOUS
      <4> HIDE DEF places
      <4> QED  BY <4>1, <4>2 DEF AllPlaces
    <3> HIDE DEF places
    <3>5. x \in Commands /\ x.at = places  BY <1>4, <3>1, <3>3, <3>4 DEF Commands
    <3> QED  BY <3>2, <3>5 DEF Sampled
  <2> QED  BY <2>1, <2>2
<1>8. x \in Commands /\ Sampled(x)  BY <1>7 DEF CommandInv
<1>9. d \in Commands /\ Current(d) /\ d.at = x.at /\ d.relative = x.at  BY <1>1, <1>8, RefreshedCommand
<1> QED  BY <1>8, <1>9 DEF CommandInv, Sampled

\* reset_to_motion puts the environments it names at places with a centre, or changes nothing.
LEMMA ResetCommand ==
  ASSUME Library, NEW c, CommandInv(c), NEW envs \in Seq(Envs), NEW clips, NEW times
  PROVE  CommandInv(Training!ResetTo(c, envs, clips, times))
<1> DEFINE of(e) == { i \in DOMAIN envs : envs[i] = e }
           chosen == { envs[i] : i \in DOMAIN envs }
           given(e) == CHOOSE i \in of(e) : TRUE
           places == [e \in Envs |-> IF e \in chosen THEN [clip |-> clips[given(e)], time |-> times[given(e)]] ELSE c.at[e]]
           lefts == [e \in Envs |-> IF e \in chosen THEN LongestLeft ELSE c.left[e]]
           reset == [c EXCEPT !.at = places, !.left = lefts]
<1>1. CASE ~Training!ResetValid(envs, clips, times)
  BY <1>1 DEF Training!ResetTo
<1>2. CASE Training!ResetValid(envs, clips, times)
  <2>1. Training!ResetTo(c, envs, clips, times) = Training!Placed(reset, chosen)
    BY <1>2 DEF Training!ResetTo
  <2>2. chosen \in SUBSET Envs  OBVIOUS
  <2>3. c \in Commands /\ Current(c) /\ \A e \in Envs : c.at[e] \in Training!Drawn  BY DEF CommandInv, Sampled
  <2>4. ASSUME NEW e \in chosen
        PROVE  [clip |-> clips[given(e)], time |-> times[given(e)]] \in Training!Drawn
    <3>1. given(e) \in DOMAIN envs  OBVIOUS
    <3>2. DOMAIN envs = DOMAIN clips
      BY <1>2 DEF Training!ResetValid
    <3> DEFINE i == given(e)
    <3> HIDE DEF i
    <3>3. clips[i] \in EnvClips /\ times[i] \in ClipStarts[clips[i]]..(ClipEnds[clips[i]] - 1)
      BY <1>2, <3>1, <3>2 DEF Training!ResetValid, i
    <3>4. [clip |-> clips[i], time |-> times[i]] \in { [clip |-> clips[i], time |-> t] : t \in ClipStarts[clips[i]]..(ClipEnds[clips[i]] - 1) }
      BY <3>3
    <3>5. [clip |-> clips[i], time |-> times[i]] \in Training!Drawn  BY <3>3, <3>4 DEF Training!Drawn
    <3> QED  BY <3>5 DEF i
  <2> HIDE DEF chosen, given
  <2>5. \A e \in Envs : places[e] \in Training!Drawn  BY <2>3, <2>4
  <2>6. places \in AllPlaces
    <3>1. \A e \in Envs : places[e] \in Places  BY <2>5, DrawnPlaces
    <3>2. places = [e \in Envs |-> places[e]]  OBVIOUS
    <3> HIDE DEF places
    <3> QED  BY <3>1, <3>2 DEF AllPlaces
  <2>7. chosen # {} \/ places = c.at
    <3>1. SUFFICES ASSUME chosen = {} PROVE places = c.at  OBVIOUS
    <3>2. c.at = [e \in Envs |-> c.at[e]]  BY <2>3 DEF Commands, AllPlaces
    <3>3. places = [e \in Envs |-> c.at[e]]  BY <3>1
    <3> QED  BY <3>2, <3>3
  <2>8. lefts \in [Envs -> Nat]  BY <2>3 DEF Library, Commands
  <2> HIDE DEF places, lefts
  <2>9. /\ reset \in Commands /\ reset.at = places /\ reset.frames = c.frames /\ reset.local = c.local
        /\ reset.feet = c.feet
    BY <2>3, <2>6, <2>8 DEF Commands
  <2> HIDE DEF reset
  <2>10. chosen # {} \/ Current(reset)  BY <2>3, <2>7, <2>9 DEF Current
  <2> DEFINE d == Training!Placed(reset, chosen)
  <2>11. d \in Commands /\ d.at = reset.at /\ Current(d)  BY <2>2, <2>9, <2>10, PlacedCommand
  <2> HIDE DEF d
  <2>12. CommandInv(d)  BY <2>5, <2>9, <2>11 DEF CommandInv, Sampled
  <2> QED  BY <2>1, <2>12 DEF d
<1> QED  BY <1>1, <1>2

\* The environments that are not named are where a sample may be, and so is everything in force;
\* of those that are named, one that failed is not too far beyond the end of its clip.
MayResample(c, envs, failed) ==
  /\ c \in Commands
  /\ envs # {} \/ Current(c)
  /\ \A e \in envs : /\ c.at[e].clip \in EnvClips
                     /\ SamplingMode = "rewind" /\ e \in failed =>
                          c.at[e].time - RewindMin * Step < ClipEnds[c.at[e].clip]
  /\ \A e \in Envs \ envs : c.at[e] \in Training!Drawn

LEMMA MayResampleKeeps ==
  ASSUME Library, NEW c, NEW envs \in SUBSET Envs, NEW failed \in SUBSET Envs, MayResample(c, envs, failed),
         NEW d \in Training!Resampled(c, envs, failed)
  PROVE  CommandInv(d)
BY ResampledCommand DEF MayResample

LEMMA SampledMayResample ==
  ASSUME Library, NEW c, CommandInv(c), NEW envs \in SUBSET Envs, NEW failed \in SUBSET Envs
  PROVE  MayResample(c, envs, failed)
<1>1. c \in Commands /\ Current(c) /\ \A e \in Envs : c.at[e] \in Training!Drawn  BY DEF CommandInv, Sampled
<1>2. ASSUME NEW e \in envs
      PROVE  /\ c.at[e].clip \in EnvClips /\ c.at[e].time - RewindMin * Step < ClipEnds[c.at[e].clip]
  <2> DEFINE place == c.at[e]
             back == RewindMin * Step
  <2>1. place \in Places /\ place.clip \in EnvClips /\ place.time < ClipEnds[place.clip]
    BY <1>1, DrawnPlaces
  <2>2. RewindMin \in Nat /\ Step \in Nat /\ ClipEnds[place.clip] \in Nat  BY <2>1 DEF Library
  <2>3. back \in Nat  BY <2>2, ProductMonotone
  <2>4. place.time \in Int  BY <2>1 DEF Places
  <2> HIDE DEF back, place
  <2>5. place.time - back < ClipEnds[place.clip]  BY <2>1, <2>2, <2>3, <2>4
  <2> QED  BY <2>1, <2>5 DEF back, place
<1> QED  BY <1>1, <1>2 DEF MayResample

LEMMA BegunCommand ==
  ASSUME Library, NEW first \in EnvClips, NEW c \in Training!Resampled(Training!NewCommand(first), Envs, {})
  PROVE  CommandInv(c)
<1> DEFINE new == Training!NewCommand(first)
<1>1. new \in Commands /\ \A e \in Envs : new.at[e].clip = first
  <2>1. [clip |-> first, time |-> 0] \in Places /\ [clip |-> 0, time |-> -1] \in Places  BY DEF Places
  <2>2. \A place \in Places : Training!Everywhere(place) \in AllPlaces
    BY DEF Training!Everywhere, AllPlaces
  <2>3. Training!Everywhere(0) \in [Envs -> Nat]  BY DEF Training!Everywhere
  <2>4. new.at = Training!Everywhere([clip |-> first, time |-> 0])  BY DEF Training!NewCommand
  <2>5. \A e \in Envs : new.at[e] = [clip |-> first, time |-> 0]  BY <2>4 DEF Training!Everywhere
  <2>6. new \in Commands  BY <2>1, <2>2, <2>3 DEF Training!NewCommand, Training!Nowhere, Commands
  <2> QED  BY <2>5, <2>6
<1> HIDE DEF new
<1>2. c \in Training!Resampled(new, Envs, {})  BY DEF new
<1>3. Envs # {} /\ Envs \in SUBSET Envs /\ {} \in SUBSET Envs  BY DEF Library
<1> QED  BY <1>1, <1>2, <1>3, ResampledCommand

\* Training of any length: every environment stays at a time it can be sampled at, through the
\* ends of clips, failures and resets of some or all of them, and nothing that is kept of a
\* reference is older than the reference (MotionCommand).  A rewind that goes back by no step
\* would leave an environment beyond the end of its clip, which the configuration does not refuse.
THEOREM TrainingStaysSampledAlways ==
  ASSUME Library, SamplingMode = "rewind" /\ ResampleOnClipEnd => RewindMin # 0,
         NEW first \in EnvClips, NEW run, run[0] \in Training!Resampled(Training!NewCommand(first), Envs, {}),
         \A n \in Nat :
           \/ \E failed \in SUBSET Envs : run[n + 1] \in Training!Updated(run[n], failed)
           \/ \E envs, failed \in SUBSET Envs : run[n + 1] \in Training!Resampled(run[n], envs, failed)
           \/ \E envs \in Seq(Envs), clips \in Seq(Int), times \in Seq(Int) :
                run[n + 1] = Training!ResetTo(run[n], envs, clips, times),
         NEW n \in Nat
  PROVE  /\ Sampled(run[n]) /\ Current(run[n])
         /\ \A failed \in SUBSET Envs : \A c \in Training!Updated(run[n], failed) : c.relative = c.at
<1> DEFINE Holds(m) == CommandInv(run[m])
           failing == { m \in Nat : ~Holds(m) }
<1>1. Holds(0)  BY BegunCommand
<1>2. ASSUME NEW m \in Nat, Holds(m) PROVE Holds(m + 1)
  <2>1. CASE \E failed \in SUBSET Envs : run[m + 1] \in Training!Updated(run[m], failed)
    BY <1>2, <2>1, UpdatedCommand
  <2>2. CASE \E envs, failed \in SUBSET Envs : run[m + 1] \in Training!Resampled(run[m], envs, failed)
    <3>1. PICK envs \in SUBSET Envs, failed \in SUBSET Envs : run[m + 1] \in Training!Resampled(run[m], envs, failed)
      BY <2>2
    <3>2. CommandInv(run[m])  BY <1>2
    <3>3. MayResample(run[m], envs, failed)  BY <3>2, SampledMayResample
    <3>4. CommandInv(run[m + 1])  BY <3>1, <3>3, MayResampleKeeps
    <3> QED  BY <3>4
  <2>3. CASE \E envs \in Seq(Envs), clips \in Seq(Int), times \in Seq(Int) :
               run[m + 1] = Training!ResetTo(run[m], envs, clips, times)
    BY <1>2, <2>3, ResetCommand
  <2> QED  BY <2>1, <2>2, <2>3
<1>3. failing = {}
  <2>1. SUFFICES ASSUME failing # {} PROVE FALSE  OBVIOUS
  <2>2. failing \in SUBSET Nat  OBVIOUS
  <2>3. PICK m \in failing : \A k \in failing : m <= k
    <3> HIDE DEF failing
    <3> QED  BY <2>1, <2>2, LeastNumber
  <2>4. m \in Nat /\ ~Holds(m)  BY <2>3
  <2> HIDE DEF Holds
  <2>5. m # 0  BY <1>1, <2>4
  <2>6. m - 1 \in Nat /\ (m - 1) + 1 = m /\ ~(m <= m - 1)  BY <2>4, <2>5
  <2>7. Holds(m - 1)  BY <2>3, <2>6
  <2>8. Holds((m - 1) + 1)  BY <1>2, <2>6, <2>7
  <2> QED  BY <2>4, <2>6, <2>8
<1>4. CommandInv(run[n])  BY <1>3
<1>5. \A failed \in SUBSET Envs : \A c \in Training!Updated(run[n], failed) : c.relative = c.at
  BY <1>4, UpdatedCommand
<1> QED  BY <1>4, <1>5 DEF CommandInv
=============================================================================
