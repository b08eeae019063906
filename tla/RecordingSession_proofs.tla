---------------------- MODULE RecordingSession_proofs ----------------------
(***************************************************************************)
(* Proofs about RecordingSession for every value of its constants: what a  *)
(* descriptor of the frame ring stands for; and, as shipped, with episodes *)
(* discarded at the end, that saved episodes load, that nothing else is    *)
(* left between episodes, and that the dataset implements EpisodeLog.      *)
(***************************************************************************)
EXTENDS RecordingSession, TLAPS

Sealed == {"close", "video", "data", "manifest"}   \* a save before its entry

\* A slot holds the newest of the frames written to it, and a reader knows of no
\* frame that was not written.
RingInv ==
  /\ RingTypeOK
  /\ copying => seq < Frames
  /\ latest \in -1..seq - 1
  /\ \A k \in 1..Len(video) : video[k] \in 0..seq - 1
  /\ \A n \in 0..seq - 1 : slots[SlotOf(n)] >= n
  /\ \A s \in 0..Slots - 1 :
       slots[s] < seq /\ (slots[s] >= 0 => SlotOf(slots[s]) = s)

WorldInv ==
  /\ recordable \in BOOLEAN /\ stop \in BOOLEAN
  /\ records \in Channel(BOOLEAN) /\ commands \in Channel(Commands)
  /\ runs \in 0..Runs
  /\ record \in {"none", "yes", "no"} /\ fresh \in BOOLEAN

DatasetInv ==
  /\ frames \in Nat /\ index \in 0..Episodes
  /\ tmpVideo \in Nat \cup {NoFile} /\ tmpData \in Nat \cup {NoFile}
  /\ videos \in [Indices -> Nat \cup {NoFile}] /\ data \in [Indices -> Nat \cup {NoFile}]
  /\ manifest \in Seq(Nat \ {0}) /\ Len(manifest) <= Episodes
  /\ SavedEpisodesLoad

\* No file but those of saved episodes and, in the second, of the one being saved.
NoneLeft(files) == \A i \in Indices \ Committed : files[i] = NoFile
OneLeft(files) == \A i \in Indices \ Committed : i # index => files[i] = NoFile

\* An output of the episode under its temporary name, and under its final one.
Written(file, files) == file = (IF open THEN frames ELSE NoFile) /\ NoneLeft(files)
Moved(file, files) == file = NoFile /\ files[index] = frames /\ OneLeft(files)

\* What is on the disk follows from where the worker is.
EpisodeInv ==
  /\ phase \in Phases /\ leaving \in BOOLEAN /\ active \in BOOLEAN /\ open \in BOOLEAN
  /\ leaving => phase \in {"finally", "down"}
  /\ phase = "recover" => ~open /\ ~active
  /\ phase \in Loop \cup Sealed \cup {"advance"} => active = open
  /\ phase \in {"copy", "advance"} \cup Sealed => open
  /\ phase \in Sealed => frames > 0
  /\ phase \in Loop \cup Sealed => index = Len(manifest)
  /\ phase \in Loop \cup Sealed /\ open => index < Episodes
  /\ phase \in Loop \cup {"close", "video"} => Written(tmpVideo, videos)
  /\ phase \in Loop \cup {"close", "video", "data"} => Written(tmpData, data)
  /\ phase \in {"data", "manifest"} => Moved(tmpVideo, videos)
  /\ phase = "manifest" => Moved(tmpData, data)
  /\ phase = "advance" => /\ index + 1 = Len(manifest)
                          /\ tmpVideo = NoFile /\ tmpData = NoFile
                          /\ NoneLeft(videos) /\ NoneLeft(data)

\* The frames of the episode that is being taken, as EpisodeLog counts them.
Taken == IF phase # "down" /\ open /\ index = Len(manifest) THEN frames ELSE -1

\* The steps of the log.
LogStep ==
  \/ UNCHANGED manifest /\ Taken' \in {Taken, -1}
  \/ UNCHANGED manifest /\ Taken = -1 /\ Taken' = 0
  \/ UNCHANGED manifest /\ Taken >= 0 /\ Taken' = Taken + 1
  \/ Taken > 0 /\ manifest' = Append(manifest, Taken) /\ Taken' = -1

\* What each step of the worker keeps.
Kept == DatasetInv' /\ EpisodeInv' /\ LogStep

-----------------------------------------------------------------------------
LEMMA ConstantTypes ==
  /\ Slots \in Nat \ {0} /\ Frames \in Nat /\ Episodes \in Nat /\ Runs \in Nat
  /\ Capacity \in Nat \ {0} /\ DiscardOnShutdown \in BOOLEAN
BY RingAssumption, RecordingAssumption, CapacityAssumption

LEMMA ChannelFacts ==
  ASSUME NEW M
  PROVE  /\ <<>> \in Channel(M)
         /\ \A ch \in Channel(M), m \in M : Published(ch, m) \in Channel(M)
         /\ \A ch \in Channel(M) : ch # <<>> => ch[Len(ch)] \in M
<1>1. <<>> \in Seq(M) /\ Len(<<>>) = 0  OBVIOUS
<1> QED  BY <1>1, ConstantTypes DEF Channel, Published

-----------------------------------------------------------------------------
(* The frame ring.                                                         *)

LEMMA SlotRange == ASSUME NEW n \in Nat PROVE SlotOf(n) \in 0..Slots - 1
BY ConstantTypes DEF SlotOf

\* Two frames of one slot are a whole turn of the ring apart.
LEMMA SameSlot ==
  ASSUME NEW n \in Nat, NEW m \in Nat, n <= m, m < n + Slots, SlotOf(n) = SlotOf(m)
  PROVE  m = n
<1> DEFINE a == n \div Slots
           b == m \div Slots
<1>1. /\ a \in Int /\ b \in Int
      /\ n = Slots * a + (n % Slots) /\ m = Slots * b + (m % Slots)
  BY ConstantTypes
<1>2. n % Slots = m % Slots  BY DEF SlotOf
<1> HIDE DEF a, b
<1>3. ~(b >= a + 1)
  <2> SUFFICES ASSUME b >= a + 1 PROVE FALSE  OBVIOUS
  <2>1. Slots * b >= Slots * (a + 1)  BY <1>1, ConstantTypes
  <2>2. Slots * (a + 1) = Slots * a + Slots  BY <1>1, ConstantTypes
  <2> QED  BY <1>1, <1>2, <2>1, <2>2, ConstantTypes
<1>4. ~(a >= b + 1)
  <2> SUFFICES ASSUME a >= b + 1 PROVE FALSE  OBVIOUS
  <2>1. Slots * a >= Slots * (b + 1)  BY <1>1, ConstantTypes
  <2>2. Slots * (b + 1) = Slots * b + Slots  BY <1>1, ConstantTypes
  <2> QED  BY <1>1, <1>2, <2>1, <2>2, ConstantTypes
<1>5. a = b  BY <1>1, <1>3, <1>4
<1> QED  BY <1>1, <1>2, <1>5

\* A new ring, with a reader that has seen nothing.
RingEmpty == RingInit /\ latest = -1

LEMMA RingStart == RingEmpty => RingInv
<1> SUFFICES ASSUME RingEmpty PROVE RingInv  OBVIOUS
<1> USE DEF RingEmpty, RingInit
<1>1. RingTypeOK
  <2>1. video \in Channel(0..Frames - 1)  BY ChannelFacts
  <2>2. copying \in BOOLEAN  OBVIOUS
  <2>3. seq \in 0..Frames  BY ConstantTypes
  <2>4. slots \in [0..Slots - 1 -> -1..Frames - 1]  BY ConstantTypes
  <2> QED  BY <2>1, <2>2, <2>3, <2>4 DEF RingTypeOK
<1>2. \A s \in 0..Slots - 1 : slots[s] = -1  OBVIOUS
<1>3. ~copying /\ latest \in -1..seq - 1  OBVIOUS
<1>4. \A k \in 1..Len(video) : video[k] \in 0..seq - 1  OBVIOUS
<1>5. \A n \in 0..seq - 1 : slots[SlotOf(n)] >= n  OBVIOUS
<1> QED  BY <1>1, <1>2, <1>3, <1>4, <1>5 DEF RingInv

LEMMA BeginWriteKeeps ==
  ASSUME RingInv, BeginWrite, UNCHANGED latest
  PROVE  RingInv'
<1>1. copying' /\ copying' \in BOOLEAN /\ seq < Frames /\ UNCHANGED <<seq, slots, video, latest>>
  BY DEF BeginWrite
<1> QED  BY <1>1 DEF RingInv, RingTypeOK, SlotOf

LEMMA EndWriteKeeps ==
  ASSUME RingInv, EndWrite, UNCHANGED latest
  PROVE  RingInv'
<1> USE ConstantTypes
<1>0. seq \in Nat /\ seq < Frames /\ seq \in 0..Frames - 1 /\ seq + 1 \in 0..Frames
  BY DEF RingInv, RingTypeOK, EndWrite
<1>1. /\ ~copying' /\ copying' \in BOOLEAN /\ seq' = seq + 1 /\ latest' = latest
      /\ slots' = [slots EXCEPT ![SlotOf(seq)] = seq]
      /\ video' = Published(video, seq)
  BY DEF EndWrite
<1>2. SlotOf(seq) \in 0..Slots - 1  BY <1>0, SlotRange
<1>3. slots \in [0..Slots - 1 -> -1..Frames - 1] /\ video \in Channel(0..Frames - 1)
  BY DEF RingInv, RingTypeOK
<1>4. slots' \in [0..Slots - 1 -> -1..Frames - 1] /\ slots'[SlotOf(seq)] = seq
      /\ \A s \in 0..Slots - 1 : s # SlotOf(seq) => slots'[s] = slots[s]
  BY <1>0, <1>1, <1>2, <1>3
<1>5. RingTypeOK'
  <2>1. video' \in Channel(0..Frames - 1)  BY <1>0, <1>1, <1>3, ChannelFacts
  <2> QED  BY <1>0, <1>1, <1>4, <2>1 DEF RingTypeOK
<1>6. ASSUME NEW k \in 1..Len(video') PROVE video'[k] \in 0..seq' - 1
  <2>1. video \in Seq(0..Frames - 1)  BY <1>3 DEF Channel
  <2>2. CASE video' = video
    <3>1. video[k] \in 0..seq - 1  BY <1>6, <2>2 DEF RingInv
    <3> QED  BY <1>0, <1>1, <2>2, <3>1
  <2>3. CASE video' = Append(video, seq)
    <3>1. Len(video') = Len(video) + 1 /\ video'[Len(video) + 1] = seq
          /\ \A j \in 1..Len(video) : video'[j] = video[j]
      BY <1>0, <2>1, <2>3
    <3>2. CASE k = Len(video) + 1  BY <1>0, <1>1, <3>1, <3>2
    <3>3. CASE k # Len(video) + 1
      <4>1. k \in 1..Len(video)  BY <1>6, <2>1, <3>1, <3>3
      <4>2. video[k] \in 0..seq - 1  BY <4>1 DEF RingInv
      <4> QED  BY <1>0, <1>1, <3>1, <4>1, <4>2
    <3> QED  BY <3>2, <3>3
  <2> QED  BY <1>1, <2>2, <2>3 DEF Published
<1>7. ASSUME NEW n \in 0..seq' - 1 PROVE slots'[SlotOf(n)] >= n
  <2>1. SlotOf(n) \in 0..Slots - 1  BY <1>0, <1>1, SlotRange
  <2>2. CASE SlotOf(n) = SlotOf(seq)  BY <1>0, <1>1, <1>4, <2>2
  <2>3. CASE SlotOf(n) # SlotOf(seq)
    <3>1. n \in 0..seq - 1  BY <1>0, <1>1, <2>3
    <3> QED  BY <1>4, <2>1, <2>3, <3>1 DEF RingInv
  <2> QED  BY <2>2, <2>3
<1>8. ASSUME NEW s \in 0..Slots - 1
      PROVE  slots'[s] < seq' /\ (slots'[s] >= 0 => SlotOf(slots'[s]) = s)
  <2>1. CASE s = SlotOf(seq)  BY <1>0, <1>1, <1>4, <2>1
  <2>2. CASE s # SlotOf(seq)
    <3>1. slots[s] < seq /\ (slots[s] >= 0 => SlotOf(slots[s]) = s) /\ slots[s] \in Int
      BY <1>3 DEF RingInv
    <3> QED  BY <1>0, <1>1, <1>4, <2>2, <3>1
  <2> QED  BY <2>1, <2>2
<1>9. latest' \in -1..seq' - 1  BY <1>0, <1>1 DEF RingInv
<1>10. \A n : SlotOf(n)' = SlotOf(n)  BY DEF SlotOf
<1> QED  BY <1>1, <1>5, <1>6, <1>7, <1>8, <1>9 DEF RingInv, SlotOf

\* The invariant gives the frame a descriptor stands for.
LEMMA DescriptorHolds == ASSUME RingInv PROVE DescribedFrame
<1> USE ConstantTypes
<1> SUFFICES ASSUME NEW n \in { video[k] : k \in 1..Len(video) } \cup ({latest} \ {-1})
             PROVE  /\ slots[SlotOf(n)] >= n
                    /\ ~Lapped(n) => slots[SlotOf(n)] = n
  BY DEF DescribedFrame
<1>1. n \in 0..seq - 1  BY DEF RingInv, RingTypeOK
<1>2. seq \in Nat /\ n \in Nat  BY <1>1 DEF RingInv, RingTypeOK
<1>3. SlotOf(n) \in 0..Slots - 1  BY <1>2, SlotRange
<1> DEFINE m == slots[SlotOf(n)]
<1>4. m \in Int /\ m >= n /\ m < seq /\ m >= 0 /\ SlotOf(m) = SlotOf(n)
  <2>1. m >= n  BY <1>1 DEF RingInv
  <2>2. m \in Int  BY <1>3 DEF RingInv, RingTypeOK
  <2>3. m < seq /\ (m >= 0 => SlotOf(m) = SlotOf(n))  BY <1>3 DEF RingInv
  <2> QED  BY <1>2, <2>1, <2>2, <2>3
<1>5. ~Lapped(n) => m = n
  <2> SUFFICES ASSUME ~Lapped(n) PROVE m = n  OBVIOUS
  <2>1. seq <= n + Slots  BY <1>2 DEF Lapped
  <2>2. m \in Nat /\ m < n + Slots  BY <1>2, <1>4, <2>1
  <2> HIDE DEF m
  <2> QED  BY <1>2, <1>4, <2>2, SameSlot
<1> QED  BY <1>4, <1>5

-----------------------------------------------------------------------------
(* The dataset.                                                            *)

LEMMA TakenType ==
  ASSUME DatasetInv
  PROVE  Taken \in Nat \cup {-1}
BY DEF DatasetInv, Taken

\* Where the loop has ended, nothing is asked of the dataset but its saved episodes.
LEMMA Ended ==
  ASSUME DatasetInv, EpisodeInv, phase' \in {"finally", "down"},
         leaving' \in BOOLEAN, active' \in BOOLEAN, open' \in BOOLEAN,
         DatasetInv', UNCHANGED manifest, Taken' \in {Taken, -1}
  PROVE  Kept
<1>1. EpisodeInv'  BY DEF EpisodeInv, Phases, Loop, Sealed
<1> QED  BY <1>1 DEF Kept, LogStep

\* Nothing of the dataset or of the episode changes.
LEMMA SameDataset ==
  ASSUME DatasetInv, UNCHANGED <<episode, disk>>
  PROVE  /\ DatasetInv'
         /\ UNCHANGED <<open, frames, index, tmpVideo, tmpData, videos, data, manifest>>
         /\ Committed' = Committed
BY DEF DatasetInv, SavedEpisodesLoad, Loads, Committed, episode, disk, tmp

LEMMA RaiseKeeps ==
  ASSUME DatasetInv, EpisodeInv, phase # "down", Raise, UNCHANGED <<episode, disk>>
  PROVE  Kept
<1>1. /\ DatasetInv'
      /\ UNCHANGED <<open, frames, index, tmpVideo, tmpData, videos, data, manifest>>
  BY SameDataset
<1>2. phase' \in {"finally", "down"} /\ leaving' \in BOOLEAN /\ active' = active
  <2>1. leaving' = TRUE /\ leaving' \in BOOLEAN  BY DEF Raise
  <2> QED  BY <2>1 DEF Raise
<1>3. Taken' \in {Taken, -1}  BY <1>1, <1>2 DEF Taken
<1> QED  BY <1>1, <1>2, <1>3, Ended DEF EpisodeInv

\* The worker moves on within the loop, or to the end, and touches nothing.
LEMMA GoOnKeeps ==
  ASSUME DatasetInv, EpisodeInv,
         phase \in Loop /\ (phase' \in Loop \ {"copy"} \/ (phase' = "copy" /\ open)),
         UNCHANGED <<leaving, active, episode, disk>>
  PROVE  Kept
<1>1. /\ DatasetInv' /\ Committed' = Committed
      /\ UNCHANGED <<leaving, active, open, frames, index, tmpVideo, tmpData, videos, data,
                     manifest>>
  BY SameDataset
<1>2. phase' \in Loop /\ phase # "down" /\ phase' # "down" /\ Loop \cap Sealed = {}
  BY DEF Loop, Sealed
<1>3. Written(tmpVideo, videos)' /\ Written(tmpData, data)'
  BY <1>1 DEF EpisodeInv, Written, NoneLeft
<1>4. EpisodeInv'
  BY <1>1, <1>2, <1>3 DEF EpisodeInv, Phases, Loop, Sealed
<1>5. Taken' = Taken  BY <1>1, <1>2 DEF Taken
<1> QED  BY <1>1, <1>4, <1>5 DEF Kept, LogStep

\* The dataset after an episode was dropped, whether there was one or not.
LEMMA DiscardKeeps ==
  ASSUME DatasetInv, EpisodeInv,
         \/ phase \in Loop /\ phase' \in Loop \ {"copy"}
         \/ phase \in {"finally"} /\ phase' = "down",
         DiscardEpisode, active' = FALSE, leaving' = leaving
  PROVE  Kept
<1>1. /\ open' = FALSE /\ open' \in BOOLEAN /\ ~open' /\ index' = index
      /\ UNCHANGED <<videos, data, manifest>>
      /\ frames' \in Nat /\ tmpVideo' \in Nat \cup {NoFile} /\ tmpData' \in Nat \cup {NoFile}
      /\ phase \in Loop => tmpVideo' = NoFile /\ tmpData' = NoFile
  <2>1. CASE open
    <3>1. /\ open' = FALSE /\ frames' = 0 /\ tmpVideo' = NoFile /\ tmpData' = NoFile
          /\ UNCHANGED <<index, videos, data, manifest>>
      BY <2>1 DEF DiscardEpisode, CloseEpisode, ResetEpisode
    <3> QED  BY <3>1
  <2>2. CASE ~open
    <3>1. UNCHANGED <<open, frames, index, tmpVideo, tmpData, videos, data, manifest>>
      BY <2>2 DEF DiscardEpisode, episode, disk, tmp
    <3>2. open = FALSE  BY <2>2 DEF EpisodeInv
    <3>3. phase \in Loop => tmpVideo = NoFile /\ tmpData = NoFile
      BY <2>2 DEF EpisodeInv, Written
    <3> QED  BY <3>1, <3>2, <3>3 DEF DatasetInv
  <2> QED  BY <2>1, <2>2 DEF EpisodeInv
<1>2. active' \in BOOLEAN /\ ~active'  OBVIOUS
<1>3. Committed' = Committed  BY <1>1 DEF Committed
<1>4. DatasetInv'
  <2>1. SavedEpisodesLoad'  BY <1>1, <1>3 DEF DatasetInv, SavedEpisodesLoad, Loads
  <2> QED  BY <1>1, <2>1 DEF DatasetInv
<1>5. Taken' = -1  BY <1>1 DEF Taken
<1>6. CASE phase \in {"finally"} /\ phase' = "down"
  BY <1>1, <1>2, <1>4, <1>5, <1>6, Ended DEF EpisodeInv
<1>7. CASE phase \in Loop /\ phase' \in Loop \ {"copy"}
  <2>1. Written(tmpVideo, videos)' /\ Written(tmpData, data)'
    BY <1>1, <1>3, <1>7 DEF EpisodeInv, Written, NoneLeft
  <2>2. ~leaving /\ leaving' \in BOOLEAN /\ index' = Len(manifest')
    BY <1>1, <1>7 DEF EpisodeInv, Loop
  <2>3. phase' \in Phases /\ phase' \notin Sealed
        /\ phase' \notin {"recover", "copy", "advance", "finally", "down"}
    BY <1>7 DEF Phases, Loop, Sealed
  <2>4. EpisodeInv'  BY <1>1, <1>2, <2>1, <2>2, <2>3 DEF EpisodeInv, Sealed
  <2> QED  BY <1>1, <1>4, <1>5, <2>4 DEF Kept, LogStep
<1> QED  BY <1>6, <1>7

-----------------------------------------------------------------------------
(* The steps of the worker.                                                *)

\* Removing a file that no entry names disturbs no saved episode.
LEMMA UncommittedRemoved ==
  ASSUME NEW files, files \in [Indices -> Nat \cup {NoFile}], NEW i \in Uncommitted(files)
  PROVE  /\ [files EXCEPT ![i] = NoFile] \in [Indices -> Nat \cup {NoFile}]
         /\ \A j \in Committed : [files EXCEPT ![i] = NoFile][j] = files[j]
BY DEF Uncommitted, Committed

LEMMA RecoverKeeps ==
  ASSUME DatasetInv, EpisodeInv, RecoverVideo \/ RecoverData \/ RecoverTmp
  PROVE  Kept
<1> USE DEF DatasetInv
<1>1. /\ phase = "recover" /\ ~open /\ UNCHANGED <<phase, leaving, active, open, frames, index>>
      /\ UNCHANGED manifest
  BY DEF RecoverVideo, RecoverData, RecoverTmp, Step, worker, episode, EpisodeInv
<1>2. Committed' = Committed  BY <1>1 DEF Committed
<1>3. EpisodeInv'  BY <1>1 DEF EpisodeInv, Loop, Sealed
<1>4. Taken' = Taken  BY <1>1 DEF Taken
<1>5. DatasetInv'
  <2>1. CASE RecoverVideo
    <3>1. PICK i \in Uncommitted(videos) : videos' = [videos EXCEPT ![i] = NoFile]
      BY <2>1 DEF RecoverVideo
    <3>2. UNCHANGED <<tmpVideo, tmpData, data>>  BY <2>1 DEF RecoverVideo, tmp
    <3>3. /\ videos' \in [Indices -> Nat \cup {NoFile}]
          /\ \A j \in Committed : videos'[j] = videos[j]
      BY <3>1, UncommittedRemoved
    <3>4. SavedEpisodesLoad'  BY <1>1, <1>2, <3>2, <3>3 DEF SavedEpisodesLoad, Loads
    <3> QED  BY <1>1, <3>2, <3>3, <3>4
  <2>2. CASE RecoverData
    <3>1. PICK i \in Uncommitted(data) : data' = [data EXCEPT ![i] = NoFile]
      BY <2>2 DEF RecoverData
    <3>2. UNCHANGED <<tmpVideo, tmpData, videos>>  BY <2>2 DEF RecoverData, tmp
    <3>3. /\ data' \in [Indices -> Nat \cup {NoFile}]
          /\ \A j \in Committed : data'[j] = data[j]
      BY <3>1, UncommittedRemoved
    <3>4. SavedEpisodesLoad'  BY <1>1, <1>2, <3>2, <3>3 DEF SavedEpisodesLoad, Loads
    <3> QED  BY <1>1, <3>2, <3>3, <3>4
  <2>3. CASE RecoverTmp
    <3>1. tmpVideo' = NoFile /\ tmpData' = NoFile /\ UNCHANGED <<videos, data>>
      BY <2>3 DEF RecoverTmp
    <3>2. SavedEpisodesLoad'  BY <1>1, <1>2, <3>1 DEF SavedEpisodesLoad, Loads
    <3> QED  BY <1>1, <3>1, <3>2
  <2> QED  BY <2>1, <2>2, <2>3
<1> QED  BY <1>1, <1>3, <1>4, <1>5 DEF Kept, LogStep

LEMMA RecoveredKeeps == ASSUME DatasetInv, EpisodeInv, Recovered PROVE Kept
<1>1. /\ phase = "recover" /\ phase' = "command" /\ ~open /\ ~active /\ ~leaving
      /\ index' = Len(manifest) /\ tmpVideo = NoFile /\ tmpData = NoFile
      /\ UNCHANGED <<leaving, active, open, frames, tmpVideo, tmpData, videos, data, manifest>>
  BY DEF Recovered, Step, disk, tmp, EpisodeInv
<1>2. Committed' = Committed  BY <1>1 DEF Committed
<1>3. DatasetInv'
  <2>1. SavedEpisodesLoad'  BY <1>1, <1>2 DEF DatasetInv, SavedEpisodesLoad, Loads
  <2> QED  BY <1>1, <2>1 DEF DatasetInv
<1>4. Written(tmpVideo, videos)' /\ Written(tmpData, data)'
  BY <1>1, <1>2 DEF Recovered, Uncommitted, Written, NoneLeft
<1>5. EpisodeInv'  BY <1>1, <1>4 DEF EpisodeInv, Phases, Loop, Sealed
<1>6. Taken' = Taken  BY <1>1 DEF Taken
<1> QED  BY <1>1, <1>3, <1>5, <1>6 DEF Kept, LogStep

LEMMA StartAcceptedKeeps == ASSUME DatasetInv, EpisodeInv, StartAccepted PROVE Kept
<1>1. phase = "command" /\ ~active /\ index < Episodes
  BY DEF StartAccepted, Command, Step
<1>2. CASE Collides
  BY <1>1, <1>2, RaiseKeeps DEF StartAccepted
<1>3. CASE ~Collides
  <2>1. /\ open' = TRUE /\ frames' = 0 /\ tmpVideo' = 0 /\ tmpData' = 0 /\ active' = TRUE
        /\ phase' = "frame" /\ UNCHANGED <<leaving, index, videos, data, manifest>>
    BY <1>3 DEF StartAccepted, StartEpisode, GoOn
  <2>2. open' /\ open' \in BOOLEAN /\ active' /\ active' \in BOOLEAN  BY <2>1
  <2>3. ~leaving /\ ~open /\ index = Len(manifest) /\ NoneLeft(videos) /\ NoneLeft(data)
    BY <1>1 DEF EpisodeInv, Loop, Written
  <2>4. Committed' = Committed  BY <2>1 DEF Committed
  <2>5. DatasetInv'
    <3>1. SavedEpisodesLoad'  BY <2>1, <2>4 DEF DatasetInv, SavedEpisodesLoad, Loads
    <3> QED  BY <2>1, <3>1 DEF DatasetInv
  <2>6. Written(tmpVideo, videos)' /\ Written(tmpData, data)'
    BY <2>1, <2>2, <2>3, <2>4 DEF Written, NoneLeft
  <2>7. EpisodeInv'
    BY <1>1, <2>1, <2>2, <2>3, <2>6 DEF EpisodeInv, Phases, Loop, Sealed
  <2>8. Taken = -1 /\ Taken' = 0  BY <2>1, <2>2, <2>3 DEF Taken
  <2> QED  BY <2>1, <2>5, <2>7, <2>8 DEF Kept, LogStep
<1> QED  BY <1>2, <1>3

LEMMA AddFrameKeeps == ASSUME DatasetInv, EpisodeInv, AddFrame PROVE Kept
<1>1. /\ phase = "copy" /\ phase' = "stale" /\ frames' = frames + 1
      /\ tmpVideo' = tmpVideo + 1 /\ tmpData' = tmpData + 1
      /\ UNCHANGED <<leaving, active, open, index, videos, data, manifest>>
  BY DEF AddFrame, Step, GoOn
<1>2. /\ open /\ active = open /\ ~leaving /\ index = Len(manifest) /\ index < Episodes
      /\ tmpVideo = frames /\ tmpData = frames /\ NoneLeft(videos) /\ NoneLeft(data)
  BY <1>1 DEF EpisodeInv, Loop, Written
<1>3. Committed' = Committed  BY <1>1 DEF Committed
<1>4. DatasetInv'
  <2>1. SavedEpisodesLoad'  BY <1>1, <1>3 DEF DatasetInv, SavedEpisodesLoad, Loads
  <2> QED  BY <1>1, <1>2, <2>1 DEF DatasetInv
<1>5. Written(tmpVideo, videos)' /\ Written(tmpData, data)'
  BY <1>1, <1>2, <1>3 DEF Written, NoneLeft
<1>6. EpisodeInv'  BY <1>1, <1>2, <1>5 DEF EpisodeInv, Phases, Loop, Sealed
<1>7. Taken' = Taken + 1 /\ Taken >= 0  BY <1>1, <1>2 DEF Taken, DatasetInv
<1> QED  BY <1>1, <1>4, <1>6, <1>7 DEF Kept, LogStep

\* A step that fails while an episode is open leaves its files for the end to remove.
LEMMA AddFrameFailsKeeps == ASSUME DatasetInv, EpisodeInv, AddFrameFails PROVE Kept
<1>1. /\ phase = "copy" /\ UNCHANGED <<open, frames, index, videos, data, manifest>>
      /\ tmpData' \in {tmpData, tmpData + 1}
      /\ tmpVideo' \in tmpVideo..(tmpVideo + tmpData' - tmpData)
  BY DEF AddFrameFails, Step, episode
<1>2. phase' \in {"finally", "down"} /\ leaving' \in BOOLEAN /\ active' = active
  <2>1. leaving' = TRUE /\ leaving' \in BOOLEAN  BY DEF AddFrameFails, Raise
  <2> QED  BY <2>1 DEF AddFrameFails, Raise
<1>3. tmpVideo = frames /\ tmpData = frames /\ frames \in Nat
  BY <1>1 DEF EpisodeInv, Loop, Written, DatasetInv
<1>4. tmpVideo' \in Nat /\ tmpData' \in Nat  BY <1>1, <1>3
<1>5. DatasetInv'
  <2>1. SavedEpisodesLoad'  BY <1>1 DEF DatasetInv, SavedEpisodesLoad, Loads, Committed
  <2> QED  BY <1>1, <1>4, <2>1 DEF DatasetInv
<1>6. Taken' \in {Taken, -1}  BY <1>1 DEF Taken
<1> QED  BY <1>1, <1>2, <1>5, <1>6, Ended DEF EpisodeInv

\* The episode is sound and goes on to be saved.
LEMMA CloseStarts ==
  ASSUME DatasetInv, EpisodeInv, phase = "command", active, frames > 0, GoOn("close"),
         UNCHANGED <<active, episode, disk>>
  PROVE  Kept
<1>1. /\ DatasetInv' /\ Committed' = Committed
      /\ UNCHANGED <<leaving, active, open, frames, index, tmpVideo, tmpData, videos, data,
                     manifest>>
      /\ phase' = "close"
  BY SameDataset DEF GoOn
<1>2. Written(tmpVideo, videos)' /\ Written(tmpData, data)'
  BY <1>1 DEF EpisodeInv, Loop, Written, NoneLeft
<1>3. EpisodeInv'  BY <1>1, <1>2 DEF EpisodeInv, Phases, Loop, Sealed
<1>4. Taken' = Taken  BY <1>1 DEF Taken
<1> QED  BY <1>1, <1>3, <1>4 DEF Kept, LogStep

LEMMA KeysKeep == ASSUME DatasetInv, EpisodeInv, SaveKey \/ DiscardKey PROVE Kept
<1>1. phase = "command"  BY DEF SaveKey, DiscardKey, Command, Step
<1>2. CASE Discard("frame")
  BY <1>1, <1>2, DiscardKeeps DEF Discard, GoOn, Loop
<1>3. CASE GoOn("frame") /\ UNCHANGED <<active, episode, disk>>
  BY <1>1, <1>3, GoOnKeeps DEF GoOn, Loop
<1>4. CASE active /\ fresh /\ frames > 0 /\ GoOn("close") /\ UNCHANGED <<active, episode, disk>>
  BY <1>1, <1>4, CloseStarts
<1> QED  BY <1>2, <1>3, <1>4 DEF SaveKey, DiscardKey, SaveOrDiscard

LEMMA LoopKeeps ==
  ASSUME DatasetInv, EpisodeInv,
         \/ NoCommand \/ LeaveLoop \/ StartRefused \/ StartFails
         \/ NoFrame \/ SkipFrame \/ ModeNotRecordable \/ TakeFrame \/ StaleCheck
  PROVE  Kept
<1>1. CASE NoCommand \/ StartRefused
  BY <1>1, GoOnKeeps DEF NoCommand, StartRefused, Command, Step, GoOn, Loop
<1>2. CASE LeaveLoop
  <2>1. /\ phase = "command" /\ phase' = "finally" /\ leaving' = TRUE
        /\ leaving' \in BOOLEAN /\ active' = active /\ UNCHANGED <<episode, disk>>
    BY <1>2 DEF LeaveLoop, Step
  <2>2. /\ DatasetInv'
        /\ UNCHANGED <<open, frames, index, manifest>>
    BY <2>1, SameDataset
  <2>3. Taken' = Taken  BY <2>1, <2>2 DEF Taken
  <2> QED  BY <2>1, <2>2, <2>3, Ended DEF EpisodeInv
<1>3. CASE StartFails
  BY <1>3, RaiseKeeps DEF StartFails, Command, Step
<1>4. CASE NoFrame \/ SkipFrame
  BY <1>4, GoOnKeeps DEF NoFrame, SkipFrame, HandleVideo, ReadTopics, Loop
<1>5. CASE ModeNotRecordable
  BY <1>5, DiscardKeeps DEF ModeNotRecordable, HandleVideo, ReadTopics, Loop
<1>6. CASE TakeFrame
  <2>1. phase = "frame" /\ phase' = "copy" /\ active /\ UNCHANGED <<leaving, active, episode, disk>>
    BY <1>6 DEF TakeFrame, HandleVideo, ReadTopics
  <2>2. open  BY <2>1 DEF EpisodeInv, Loop
  <2> QED  BY <2>1, <2>2, GoOnKeeps DEF Loop
<1>7. CASE StaleCheck
  <2>1. phase = "stale"  BY <1>7 DEF StaleCheck, Step
  <2>2. CASE Discard("command")
    BY <2>1, <2>2, DiscardKeeps DEF Discard, GoOn, Loop
  <2>3. CASE GoOn("command") /\ UNCHANGED <<active, episode, disk>>
    BY <2>1, <2>3, GoOnKeeps DEF GoOn, Loop
  <2> QED  BY <1>7, <2>2, <2>3 DEF StaleCheck
<1> QED  BY <1>1, <1>2, <1>3, <1>4, <1>5, <1>6, <1>7

-----------------------------------------------------------------------------
(* save_episode.                                                           *)

\* The episode being saved has a name of its own.
LEMMA OwnName ==
  ASSUME DatasetInv, EpisodeInv, phase \in Sealed
  PROVE  /\ index \in Indices /\ index \notin Committed /\ index = Len(manifest)
         /\ index \in Nat /\ Len(manifest) \in Nat
         /\ open /\ active = open /\ ~leaving /\ frames \in Nat /\ frames > 0
BY ConstantTypes DEF DatasetInv, EpisodeInv, Sealed, Indices, Committed

\* A file under the name of the episode disturbs no saved one.
LEMMA OwnFile ==
  ASSUME NEW files \in [Indices -> Nat \cup {NoFile}], NEW f \in Nat \cup {NoFile},
         index \in Indices, index \notin Committed
  PROVE  /\ [files EXCEPT ![index] = f] \in [Indices -> Nat \cup {NoFile}]
         /\ [files EXCEPT ![index] = f][index] = f
         /\ \A j \in Indices : j # index => [files EXCEPT ![index] = f][j] = files[j]
         /\ \A j \in Committed : [files EXCEPT ![index] = f][j] = files[j]
BY DEF Committed

LEMMA MoveVideoKeeps == ASSUME DatasetInv, EpisodeInv, MoveVideo PROVE Kept
<1>1. /\ phase = "video" /\ phase' = "data" /\ tmpVideo' = NoFile
      /\ videos' = [videos EXCEPT ![index] = tmpVideo]
      /\ UNCHANGED <<leaving, active, open, frames, index, tmpData, data, manifest>>
  BY DEF MoveVideo, Saving, Step, GoOn, episode
<1>2. /\ index \in Indices /\ index \notin Committed /\ index = Len(manifest)
      /\ open /\ active = open /\ ~leaving /\ frames > 0
  BY <1>1, OwnName DEF Sealed
<1>3. tmpVideo = frames /\ NoneLeft(videos) /\ Written(tmpData, data) /\ index < Episodes
  BY <1>1, <1>2 DEF EpisodeInv, Sealed, Written
<1>4. Committed' = Committed  BY <1>1 DEF Committed
<1>5. /\ videos' \in [Indices -> Nat \cup {NoFile}] /\ videos'[index] = frames
      /\ \A j \in Indices : j # index => videos'[j] = videos[j]
      /\ \A j \in Committed : videos'[j] = videos[j]
  BY <1>1, <1>2, <1>3, OwnFile DEF DatasetInv
<1>6. DatasetInv'
  <2>1. SavedEpisodesLoad'  BY <1>1, <1>4, <1>5 DEF DatasetInv, SavedEpisodesLoad, Loads
  <2> QED  BY <1>1, <1>5, <2>1 DEF DatasetInv
<1>7. Moved(tmpVideo, videos)' /\ Written(tmpData, data)'
  BY <1>1, <1>3, <1>4, <1>5 DEF Moved, Written, NoneLeft, OneLeft
<1>8. EpisodeInv'  BY <1>1, <1>2, <1>3, <1>7 DEF EpisodeInv, Phases, Loop, Sealed
<1>9. Taken' = Taken  BY <1>1 DEF Taken
<1> QED  BY <1>1, <1>6, <1>8, <1>9 DEF Kept, LogStep

LEMMA MoveDataKeeps == ASSUME DatasetInv, EpisodeInv, MoveData PROVE Kept
<1>1. /\ phase = "data" /\ phase' = "manifest" /\ tmpData' = NoFile
      /\ data' = [data EXCEPT ![index] = tmpData]
      /\ UNCHANGED <<leaving, active, open, frames, index, tmpVideo, videos, manifest>>
  BY DEF MoveData, Saving, Step, GoOn, episode
<1>2. /\ index \in Indices /\ index \notin Committed /\ index = Len(manifest)
      /\ open /\ active = open /\ ~leaving /\ frames > 0
  BY <1>1, OwnName DEF Sealed
<1>3. tmpData = frames /\ NoneLeft(data) /\ Moved(tmpVideo, videos) /\ index < Episodes
  BY <1>1, <1>2 DEF EpisodeInv, Sealed, Written
<1>4. Committed' = Committed  BY <1>1 DEF Committed
<1>5. /\ data' \in [Indices -> Nat \cup {NoFile}] /\ data'[index] = frames
      /\ \A j \in Indices : j # index => data'[j] = data[j]
      /\ \A j \in Committed : data'[j] = data[j]
  BY <1>1, <1>2, <1>3, OwnFile DEF DatasetInv
<1>6. DatasetInv'
  <2>1. SavedEpisodesLoad'  BY <1>1, <1>4, <1>5 DEF DatasetInv, SavedEpisodesLoad, Loads
  <2> QED  BY <1>1, <1>5, <2>1 DEF DatasetInv
<1>7. Moved(tmpVideo, videos)' /\ Moved(tmpData, data)'
  BY <1>1, <1>3, <1>4, <1>5 DEF Moved, NoneLeft, OneLeft
<1>8. EpisodeInv'  BY <1>1, <1>2, <1>3, <1>7 DEF EpisodeInv, Phases, Loop, Sealed
<1>9. Taken' = Taken  BY <1>1 DEF Taken
<1> QED  BY <1>1, <1>6, <1>8, <1>9 DEF Kept, LogStep

\* The entry is the last thing written, and everything it needs is in place.
LEMMA AppendManifestKeeps == ASSUME DatasetInv, EpisodeInv, AppendManifest PROVE Kept
<1>1. /\ phase = "manifest" /\ phase' = "advance" /\ manifest' = Append(manifest, frames)
      /\ UNCHANGED <<leaving, active, open, frames, index, tmpVideo, tmpData, videos, data>>
  BY DEF AppendManifest, Saving, Step, GoOn, episode, tmp
<1>2. /\ index \in Indices /\ index \notin Committed /\ index = Len(manifest)
      /\ index \in Nat /\ Len(manifest) \in Nat
      /\ open /\ active = open /\ ~leaving /\ frames \in Nat /\ frames > 0
  BY <1>1, OwnName DEF Sealed
<1>3. Moved(tmpVideo, videos) /\ Moved(tmpData, data) /\ index < Episodes
  BY <1>1, <1>2 DEF EpisodeInv, Sealed
<1>4. /\ manifest' \in Seq(Nat \ {0}) /\ Len(manifest') = index + 1
      /\ manifest'[index + 1] = frames
      /\ \A j \in 1..Len(manifest) : manifest'[j] = manifest[j]
  BY <1>1, <1>2 DEF DatasetInv
<1>5. Committed' = Committed \cup {index}  BY <1>2, <1>4 DEF Committed
<1>6. SavedEpisodesLoad'
  <2>1. SUFFICES ASSUME NEW i \in Committed' PROVE Loads(manifest[i + 1], i)'
    BY DEF SavedEpisodesLoad
  <2>2. CASE i = index  BY <1>1, <1>2, <1>3, <1>4, <2>2 DEF Loads, Moved
  <2>3. CASE i \in Committed
    <3>1. Loads(manifest[i + 1], i) /\ i + 1 \in 1..Len(manifest)
      BY <1>2, <2>3 DEF DatasetInv, SavedEpisodesLoad, Committed
    <3> QED  BY <1>1, <1>4, <3>1 DEF Loads
  <2> QED  BY <1>5, <2>2, <2>3
<1>7. DatasetInv'
  <2>1. Len(manifest') <= Episodes  BY <1>2, <1>3, <1>4, ConstantTypes
  <2> QED  BY <1>1, <1>4, <1>6, <2>1 DEF DatasetInv
<1>8. NoneLeft(videos)' /\ NoneLeft(data)'
  BY <1>1, <1>3, <1>5 DEF Moved, NoneLeft, OneLeft
<1>9. EpisodeInv'
  BY <1>1, <1>2, <1>3, <1>4, <1>8 DEF EpisodeInv, Phases, Loop, Sealed, Moved
<1>10. Taken = frames /\ Taken' = -1  BY <1>1, <1>2, <1>4 DEF Taken
<1> QED  BY <1>1, <1>2, <1>7, <1>9, <1>10 DEF Kept, LogStep

LEMMA SaveFailsKeeps == ASSUME DatasetInv, EpisodeInv, SaveFails PROVE Kept
<1>1. /\ phase \in Sealed /\ phase # "down"
      /\ videos' = [videos EXCEPT ![index] = NoFile]
      /\ data' = [data EXCEPT ![index] = NoFile]
      /\ tmpVideo' = NoFile /\ tmpData' = NoFile
      /\ open' = FALSE /\ open' \in BOOLEAN /\ ~open' /\ frames' = 0
      /\ UNCHANGED <<index, manifest>>
  BY DEF SaveFails, Saving, Step, Sealed, ResetEpisode
<1>2. phase' \in {"finally", "down"} /\ leaving' \in BOOLEAN /\ active' = active
  <2>1. leaving' = TRUE /\ leaving' \in BOOLEAN  BY DEF SaveFails, Raise
  <2> QED  BY <2>1 DEF SaveFails, Raise
<1>3. index \in Indices /\ index \notin Committed  BY <1>1, OwnName
<1>4. Committed' = Committed  BY <1>1 DEF Committed
<1>5. DatasetInv'
  <2>1. /\ videos' \in [Indices -> Nat \cup {NoFile}]
        /\ \A j \in Committed : videos'[j] = videos[j]
    BY <1>1, <1>3, OwnFile DEF DatasetInv
  <2>2. /\ data' \in [Indices -> Nat \cup {NoFile}]
        /\ \A j \in Committed : data'[j] = data[j]
    BY <1>1, <1>3, OwnFile DEF DatasetInv
  <2>3. SavedEpisodesLoad'
    BY <1>1, <1>4, <2>1, <2>2 DEF DatasetInv, SavedEpisodesLoad, Loads
  <2> QED  BY <1>1, <2>1, <2>2, <2>3 DEF DatasetInv
<1>6. Taken' = -1  BY <1>1 DEF Taken
<1> QED  BY <1>1, <1>2, <1>5, <1>6, Ended DEF EpisodeInv

LEMMA SavedKeeps == ASSUME DatasetInv, EpisodeInv, Saved PROVE Kept
<1>1. /\ phase = "advance" /\ ~leaving /\ phase' = "frame" /\ index' = index + 1
      /\ open' = FALSE /\ open' \in BOOLEAN /\ ~open' /\ frames' = 0
      /\ active' = FALSE /\ active' \in BOOLEAN /\ ~active'
      /\ UNCHANGED <<leaving, tmpVideo, tmpData, videos, data, manifest>>
  BY DEF Saved, Saving, Step, GoOn, ResetEpisode, disk, tmp, EpisodeInv
<1>2. /\ index + 1 = Len(manifest) /\ tmpVideo = NoFile /\ tmpData = NoFile
      /\ NoneLeft(videos) /\ NoneLeft(data)
  BY <1>1 DEF EpisodeInv
<1>3. Committed' = Committed  BY <1>1 DEF Committed
<1>4. DatasetInv'
  <2>1. SavedEpisodesLoad'  BY <1>1, <1>3 DEF DatasetInv, SavedEpisodesLoad, Loads
  <2> QED  BY <1>1, <1>2, <2>1, ConstantTypes DEF DatasetInv
<1>5. Written(tmpVideo, videos)' /\ Written(tmpData, data)'
  BY <1>1, <1>2, <1>3 DEF Written, NoneLeft
<1>6. EpisodeInv'  BY <1>1, <1>2, <1>5 DEF EpisodeInv, Phases, Loop, Sealed
<1>7. Taken' = -1  BY <1>1 DEF Taken
<1> QED  BY <1>1, <1>4, <1>6, <1>7 DEF Kept, LogStep

LEMMA SavingKeeps ==
  ASSUME DiscardOnShutdown, DatasetInv, EpisodeInv,
         \/ CloseOutputs \/ CloseFails \/ MoveVideo \/ MoveData \/ AppendManifest
         \/ SaveFails \/ Saved \/ Finally
  PROVE  Kept
<1>1. CASE CloseOutputs
  <2>1. /\ DatasetInv' /\ Committed' = Committed /\ phase = "close" /\ phase' = "video"
        /\ UNCHANGED <<leaving, active, open, frames, index, tmpVideo, tmpData, videos, data,
                       manifest>>
    BY <1>1, SameDataset DEF CloseOutputs, Saving, Step, GoOn
  <2>2. Written(tmpVideo, videos)' /\ Written(tmpData, data)'
    BY <2>1 DEF EpisodeInv, Written, NoneLeft
  <2>3. EpisodeInv'  BY <2>1, <2>2 DEF EpisodeInv, Phases, Loop, Sealed
  <2>4. Taken' = Taken  BY <2>1 DEF Taken
  <2> QED  BY <2>1, <2>3, <2>4 DEF Kept, LogStep
<1>2. CASE CloseFails  BY <1>2, RaiseKeeps DEF CloseFails, Saving, Step
<1>3. CASE Finally
  BY <1>3, DiscardKeeps DEF Finally, Saving, Step, Discard, GoOn
<1> QED
  BY <1>1, <1>2, <1>3, MoveVideoKeeps, MoveDataKeeps, AppendManifestKeeps, SaveFailsKeeps,
     SavedKeeps

LEMMA WorkKeeps ==
  ASSUME DiscardOnShutdown, DatasetInv, EpisodeInv, Work
  PROVE  Kept
BY RecoverKeeps, RecoveredKeeps, LoopKeeps, StartAcceptedKeeps, KeysKeep, AddFrameKeeps,
   AddFrameFailsKeeps, SavingKeeps DEF Work

-----------------------------------------------------------------------------
(* The rest of the program, and the end of a process.                      *)

Outside ==
  \/ Camera(BeginWrite) \/ Camera(EndWrite)
  \/ RobotRecords \/ RobotEntersDamping \/ RobotStands
  \/ \E c \in Commands : PressKey(c)
  \/ Stop \/ CameraTimesOut

LEMMA SameEpisode ==
  ASSUME DatasetInv, EpisodeInv, UNCHANGED <<phase, leaving, active, episode, disk>>
  PROVE  Kept
<1>1. /\ DatasetInv' /\ Committed' = Committed
      /\ UNCHANGED <<phase, leaving, active, open, frames, index, tmpVideo, tmpData, videos,
                     data, manifest>>
  BY SameDataset
<1>2. /\ Written(tmpVideo, videos)' = Written(tmpVideo, videos)
      /\ Written(tmpData, data)' = Written(tmpData, data)
      /\ Moved(tmpVideo, videos)' = Moved(tmpVideo, videos)
      /\ Moved(tmpData, data)' = Moved(tmpData, data)
      /\ NoneLeft(videos)' = NoneLeft(videos) /\ NoneLeft(data)' = NoneLeft(data)
  BY <1>1 DEF Written, Moved, NoneLeft, OneLeft
<1>3. EpisodeInv'  BY <1>1, <1>2 DEF EpisodeInv
<1>4. Taken' = Taken  BY <1>1 DEF Taken
<1> QED  BY <1>1, <1>3, <1>4 DEF Kept, LogStep

LEMMA OutsideKeeps == ASSUME DatasetInv, EpisodeInv, Outside PROVE Kept
<1>1. UNCHANGED <<phase, leaving, active, episode, disk>>
  BY DEF Outside, Camera, RobotRecords, RobotEntersDamping, RobotStands, RobotStep, PressKey,
         Stop, CameraTimesOut, worker
<1> QED  BY <1>1, SameEpisode

LEMMA EndKeeps == ASSUME DatasetInv, EpisodeInv, Interrupt \/ Kill PROVE Kept
<1>1. CASE Interrupt  BY <1>1, RaiseKeeps DEF Interrupt
<1>2. CASE Kill
  <2>1. phase' = "down" /\ UNCHANGED <<leaving, active, episode, disk>>  BY <1>2 DEF Kill
  <2>2. DatasetInv' /\ UNCHANGED <<open, frames, index, manifest>>  BY <2>1, SameDataset
  <2>3. Taken' = -1  BY <2>1 DEF Taken
  <2> QED  BY <2>1, <2>2, <2>3, Ended DEF EpisodeInv
<1> QED  BY <1>1, <1>2

LEMMA RestartKeeps == ASSUME DatasetInv, EpisodeInv, Restart PROVE Kept
<1>1. /\ phase = "down" /\ phase' \in {"recover", "down"}
      /\ ~leaving' /\ leaving' \in BOOLEAN /\ ~active' /\ active' \in BOOLEAN
      /\ ~open' /\ open' \in BOOLEAN /\ frames' = 0
      /\ UNCHANGED <<index, tmpVideo, tmpData, videos, data, manifest>>
  BY DEF Restart, disk, tmp
<1>2. DatasetInv'
  <2>1. SavedEpisodesLoad'  BY <1>1 DEF DatasetInv, SavedEpisodesLoad, Loads, Committed
  <2> QED  BY <1>1, <2>1 DEF DatasetInv
<1>3. EpisodeInv'  BY <1>1 DEF EpisodeInv, Phases, Loop, Sealed
<1>4. Taken' = -1  BY <1>1 DEF Taken
<1> QED  BY <1>1, <1>2, <1>3, <1>4 DEF Kept, LogStep

LEMMA EpisodeStep ==
  ASSUME DiscardOnShutdown, DatasetInv, EpisodeInv, [Next]_vars
  PROVE  Kept
<1>1. CASE UNCHANGED vars  BY <1>1, SameEpisode DEF vars, worker
<1> QED
  BY <1>1, WorkKeeps, OutsideKeeps, EndKeeps, RestartKeeps DEF Next, Outside

\* What is not the dataset.
LEMMA RingStep == ASSUME RingInv, [Next]_vars PROVE RingInv'
<1>1. CASE Camera(BeginWrite)  BY <1>1, BeginWriteKeeps DEF Camera, worker
<1>2. CASE Camera(EndWrite)  BY <1>2, EndWriteKeeps DEF Camera, worker
<1>3. CASE Restart
  <2>1. RingEmpty'  BY <1>3 DEF Restart, NewRing, RingEmpty, RingInit
  <2>2. RingEmpty' => RingInv'  BY RingStart, PTL
  <2> QED  BY <2>1, <2>2
<1>4. CASE NoFrame \/ SkipFrame \/ ModeNotRecordable \/ TakeFrame
  <2>1. video' = <<>> /\ UNCHANGED <<seq, copying, slots>>
        /\ latest' \in {latest} \cup { video[k] : k \in 1..Len(video) }
    <3>1. \A t : ReadTopics(t) => video' = <<>> /\ UNCHANGED <<seq, copying, slots>>
      BY DEF ReadTopics
    <3>2. NewFrame => video[Len(video)] \in { video[k] : k \in 1..Len(video) }
      <4> SUFFICES ASSUME NewFrame PROVE Len(video) \in 1..Len(video)  OBVIOUS
      <4> QED  BY DEF NewFrame, RingInv, RingTypeOK, Channel
    <3> QED  BY <1>4, <3>1, <3>2 DEF NoFrame, SkipFrame, ModeNotRecordable, TakeFrame, HandleVideo
  <2>2. video' \in Channel(0..Frames - 1)  BY <2>1, ChannelFacts
  <2>3. \A k \in 1..Len(video') : video'[k] \in 0..seq' - 1  BY <2>1
  <2>4. latest' \in -1..seq' - 1
    <3>1. { video[k] : k \in 1..Len(video) } \subseteq 0..seq - 1  BY DEF RingInv
    <3>2. 0..seq - 1 \subseteq -1..seq - 1  BY DEF RingInv, RingTypeOK
    <3> QED  BY <2>1, <3>1, <3>2 DEF RingInv
  <2> QED  BY <2>1, <2>2, <2>3, <2>4 DEF RingInv, RingTypeOK, SlotOf
<1>5. CASE UNCHANGED <<seq, copying, slots, video, latest>>
  BY <1>5 DEF RingInv, RingTypeOK, SlotOf
<1>6. CASE \/ RobotRecords \/ RobotEntersDamping \/ RobotStands
           \/ \E c \in Commands : PressKey(c)
           \/ Stop \/ CameraTimesOut \/ Interrupt \/ Kill
  <2>1. UNCHANGED <<ring, latest>>
    BY <1>6 DEF RobotRecords, RobotEntersDamping, RobotStands, RobotStep, PressKey, Stop,
                CameraTimesOut, Step, Interrupt, Raise, Kill, worker
  <2> QED  BY <1>5, <2>1 DEF ring
<1>7. CASE \/ RecoverVideo \/ RecoverData \/ RecoverTmp \/ Recovered
           \/ NoCommand \/ LeaveLoop \/ StartRefused \/ StartAccepted \/ StartFails
           \/ SaveKey \/ DiscardKey
  <2>1. UNCHANGED <<ring, latest>>
    BY <1>7 DEF RecoverVideo, RecoverData, RecoverTmp, Recovered, NoCommand, LeaveLoop,
                StartRefused, StartAccepted, StartFails, SaveKey, DiscardKey, SaveOrDiscard,
                Discard, Command, Step, GoOn, Raise, worker
  <2> QED  BY <1>5, <2>1 DEF ring
<1>8. CASE \/ AddFrame \/ AddFrameFails \/ StaleCheck
           \/ CloseOutputs \/ CloseFails \/ MoveVideo \/ MoveData \/ AppendManifest
           \/ SaveFails \/ Saved \/ Finally
  <2>1. UNCHANGED <<ring, latest>>
    BY <1>8 DEF AddFrame, AddFrameFails, StaleCheck, CloseOutputs, CloseFails, MoveVideo,
                MoveData, AppendManifest, SaveFails, Saved, Finally, SaveOrDiscard, Discard,
                Saving, Step, GoOn, Raise
  <2> QED  BY <1>5, <2>1 DEF ring
<1>9. CASE UNCHANGED vars  BY <1>5, <1>9 DEF vars, ring, worker
<1> QED  BY <1>1, <1>2, <1>3, <1>4, <1>6, <1>7, <1>8, <1>9 DEF Next, Work

LEMMA WorldOutside ==
  ASSUME WorldInv, Outside \/ Interrupt \/ Kill \/ Restart
  PROVE  WorldInv'
<1> USE DEF WorldInv
<1>1. CASE RobotRecords \/ RobotEntersDamping \/ RobotStands
  <2>1. PICK b \in BOOLEAN, publish \in BOOLEAN : RobotStep(b, publish)
    BY <1>1 DEF RobotRecords, RobotEntersDamping, RobotStands
  <2>2. records' \in Channel(BOOLEAN)  BY <2>1, ChannelFacts DEF RobotStep
  <2>3. recordable' \in BOOLEAN /\ UNCHANGED <<commands, stop, runs, record, fresh>>
    BY <2>1 DEF RobotStep, worker
  <2> QED  BY <2>2, <2>3
<1>2. CASE (\E c \in Commands : PressKey(c)) \/ Stop
  <2>1. PICK c \in Commands : commands' = Published(commands, c)
    BY <1>2 DEF PressKey, Stop, Commands
  <2>2. commands' \in Channel(Commands)  BY <2>1, ChannelFacts
  <2>3. stop' \in BOOLEAN /\ UNCHANGED <<recordable, records, runs, record, fresh>>
    BY <1>2 DEF PressKey, Stop, worker
  <2> QED  BY <2>2, <2>3
<1>3. CASE Restart
  <2>1. records' \in Channel(BOOLEAN) /\ commands' \in Channel(Commands)
    BY <1>3, ChannelFacts DEF Restart
  <2>2. runs' \in 0..Runs  BY <1>3, ConstantTypes DEF Restart
  <2>3. /\ recordable' \in BOOLEAN /\ stop' \in BOOLEAN /\ fresh' \in BOOLEAN
        /\ record' = "none"
    BY <1>3 DEF Restart
  <2> QED  BY <2>1, <2>2, <2>3
<1>4. CASE CameraTimesOut
  BY <1>4 DEF CameraTimesOut, Step
<1>5. CASE Camera(BeginWrite) \/ Camera(EndWrite) \/ Interrupt \/ Kill
  BY <1>5 DEF Camera, Interrupt, Raise, Kill, world, worker
<1> QED  BY <1>1, <1>2, <1>3, <1>4, <1>5 DEF Outside

LEMMA WorldWork == ASSUME WorldInv, Work PROVE WorldInv'
<1> USE DEF WorldInv
<1>1. CASE NoFrame \/ SkipFrame \/ ModeNotRecordable \/ TakeFrame
  <2>1. PICK to : ReadTopics(to)
    BY <1>1 DEF NoFrame, SkipFrame, ModeNotRecordable, TakeFrame, HandleVideo
  <2>2. records' \in Channel(BOOLEAN)  BY <2>1, ChannelFacts DEF ReadTopics
  <2>3. record' \in {"none", "yes", "no"}  BY <2>1 DEF ReadTopics, RecordOf
  <2>4. UNCHANGED <<recordable, commands, stop, runs>>  BY <2>1 DEF ReadTopics
  <2>5. fresh' \in BOOLEAN
    BY <1>1 DEF NoFrame, SkipFrame, ModeNotRecordable, TakeFrame, HandleVideo
  <2> QED  BY <2>2, <2>3, <2>4, <2>5
<1>2. CASE \/ NoCommand \/ LeaveLoop \/ StartRefused \/ StartAccepted \/ StartFails
           \/ SaveKey \/ DiscardKey
  <2>1. /\ commands' = <<>> /\ stop' \in BOOLEAN
        /\ UNCHANGED <<recordable, records, runs, record, fresh>>
    BY <1>2 DEF NoCommand, LeaveLoop, StartRefused, StartAccepted, StartFails, SaveKey,
                DiscardKey, SaveOrDiscard, Discard, Command, Step, GoOn, Raise
  <2>2. commands' \in Channel(Commands)  BY <2>1, ChannelFacts
  <2> QED  BY <2>1, <2>2
<1>3. CASE \/ RecoverVideo \/ RecoverData \/ RecoverTmp \/ Recovered
           \/ AddFrame \/ AddFrameFails \/ StaleCheck
  BY <1>3 DEF RecoverVideo, RecoverData, RecoverTmp, Recovered, AddFrame, AddFrameFails,
              StaleCheck, Discard, Step, GoOn, Raise, worker
<1>4. CASE \/ CloseOutputs \/ CloseFails \/ MoveVideo \/ MoveData \/ AppendManifest
           \/ SaveFails \/ Saved \/ Finally
  BY <1>4 DEF CloseOutputs, CloseFails, MoveVideo, MoveData, AppendManifest, SaveFails, Saved,
              Finally, SaveOrDiscard, Discard, Saving, Step, GoOn, Raise
<1> QED  BY <1>1, <1>2, <1>3, <1>4 DEF Work

LEMMA WorldStep == ASSUME WorldInv, [Next]_vars PROVE WorldInv'
<1>1. CASE UNCHANGED vars  BY <1>1 DEF vars, world, worker, WorldInv
<1> QED  BY <1>1, WorldOutside, WorldWork DEF Next, Outside

-----------------------------------------------------------------------------
(* The theorems.                                                           *)

\* However the worker is late, killed or started again, a descriptor stands for its
\* frame until the ring is lapped, and for a newer one afterwards.
THEOREM DescribedFrameAlways == Spec => []DescribedFrame
<1>1. Init => RingInv  BY RingStart DEF Init, RingEmpty
<1>2. RingInv /\ [Next]_vars => RingInv'  BY RingStep
<1>3. RingInv => DescribedFrame  BY DescriptorHolds
<1> QED  BY <1>1, <1>2, <1>3, PTL DEF Spec

LEMMA RecordingInit == Init => RingInv /\ WorldInv /\ DatasetInv /\ EpisodeInv
<1> SUFFICES ASSUME Init PROVE RingInv /\ WorldInv /\ DatasetInv /\ EpisodeInv  OBVIOUS
<1> USE ConstantTypes
<1>1. RingInv  BY RingStart DEF Init, RingEmpty
<1>2. WorldInv
  <2>1. records \in Channel(BOOLEAN) /\ commands \in Channel(Commands)
    BY ChannelFacts DEF Init
  <2>2. ~stop /\ stop \in BOOLEAN /\ ~fresh /\ fresh \in BOOLEAN  BY DEF Init
  <2>3. runs \in 0..Runs  BY DEF Init
  <2> QED  BY <2>1, <2>2, <2>3 DEF Init, WorldInv
<1>3. manifest = <<>> /\ manifest \in Seq(Nat \ {0}) /\ Len(manifest) = 0
  BY DEF Init
<1>4. DatasetInv
  <2>1. SavedEpisodesLoad  BY <1>3 DEF SavedEpisodesLoad, Committed
  <2> QED  BY <1>3, <2>1 DEF Init, DatasetInv
<1>5. EpisodeInv
  <2>1. /\ ~leaving /\ leaving \in BOOLEAN /\ ~active /\ active \in BOOLEAN
        /\ ~open /\ open \in BOOLEAN /\ phase = "recover"
    BY DEF Init
  <2> QED  BY <2>1 DEF EpisodeInv, Phases, Loop, Sealed
<1> QED  BY <1>1, <1>2, <1>4, <1>5

\* The invariant of the dataset, which the place of the worker gives away.
THEOREM DatasetSafety ==
  ASSUME DiscardOnShutdown
  PROVE  Spec => [](DatasetInv /\ EpisodeInv)
<1>1. DatasetInv /\ EpisodeInv /\ [Next]_vars => DatasetInv' /\ EpisodeInv'
  BY EpisodeStep DEF Kept
<1>2. Init => DatasetInv /\ EpisodeInv  BY RecordingInit
<1> QED  BY <1>1, <1>2, PTL DEF Spec

\* Every variable keeps its type; no entry of the manifest is an empty episode.
THEOREM RecordingTypeCorrect ==
  ASSUME DiscardOnShutdown
  PROVE  Spec => []RecordingTypeOK
<1>1. RingInv /\ WorldInv /\ [Next]_vars => RingInv' /\ WorldInv'  BY RingStep, WorldStep
<1>2. RingInv /\ WorldInv /\ DatasetInv /\ EpisodeInv => RecordingTypeOK
  <2> SUFFICES ASSUME RingInv, WorldInv, DatasetInv, EpisodeInv PROVE RecordingTypeOK
    OBVIOUS
  <2>1. latest \in -1..Frames - 1
    BY ConstantTypes DEF RingInv, RingTypeOK
  <2> QED  BY <2>1 DEF RingInv, WorldInv, DatasetInv, EpisodeInv, RecordingTypeOK
<1> QED  BY <1>1, <1>2, RecordingInit, DatasetSafety, PTL DEF Spec

\* Whatever fails, interrupts or kills the worker, every saved episode can be reviewed.
THEOREM SavedEpisodesLoadAlways ==
  ASSUME DiscardOnShutdown
  PROVE  Spec => []SavedEpisodesLoad
<1>1. DatasetInv => SavedEpisodesLoad  BY DEF DatasetInv
<1> QED  BY <1>1, DatasetSafety, PTL

\* Between episodes there is nothing on the disk but the saved ones.
THEOREM OnlySavedBetweenEpisodesAlways ==
  ASSUME DiscardOnShutdown
  PROVE  Spec => []OnlySavedBetweenEpisodes
<1>1. EpisodeInv => OnlySavedBetweenEpisodes
  BY DEF EpisodeInv, OnlySavedBetweenEpisodes, Written, NoneLeft, Uncommitted, Loop
<1> QED  BY <1>1, DatasetSafety, PTL

\* An episode enters the dataset as a whole or not at all, and stays as it is.
THEOREM RecordingImplementsEpisodeLog ==
  ASSUME DiscardOnShutdown
  PROVE  Spec => ImplementsEpisodeLog
<1>1. Init => Log!Init
  <2> SUFFICES ASSUME Init PROVE Log!Init  OBVIOUS
  <2>1. ~open /\ manifest = <<>>  BY DEF Init
  <2> QED  BY <2>1 DEF Log!Init
<1>2. DatasetInv /\ EpisodeInv /\ [Next]_vars => [Log!Next]_<<manifest, Taken>>
  <2> SUFFICES ASSUME DatasetInv, EpisodeInv, [Next]_vars
               PROVE  Log!Next \/ UNCHANGED <<manifest, Taken>>
    OBVIOUS
  <2>1. LogStep  BY EpisodeStep DEF Kept
  <2>2. Taken \in Nat \cup {-1}  BY TakenType
  <2>3. CASE UNCHANGED manifest /\ Taken' \in {Taken, -1}
    BY <2>2, <2>3 DEF Log!Next, Log!Drop, Taken
  <2>4. CASE UNCHANGED manifest /\ Taken = -1 /\ Taken' = 0
    BY <2>4 DEF Log!Next, Log!Open, Taken
  <2>5. CASE UNCHANGED manifest /\ Taken >= 0 /\ Taken' = Taken + 1
    BY <2>5 DEF Log!Next, Log!Take, Taken
  <2>6. CASE Taken > 0 /\ manifest' = Append(manifest, Taken) /\ Taken' = -1
    BY <2>6 DEF Log!Next, Log!Commit, Taken
  <2> QED  BY <2>1, <2>3, <2>4, <2>5, <2>6 DEF LogStep
<1> QED
  BY <1>1, <1>2, DatasetSafety, PTL DEF Spec, ImplementsEpisodeLog, Log!Spec, Taken
=============================================================================
