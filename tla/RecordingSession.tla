-------------------------- MODULE RecordingSession --------------------------
(***************************************************************************)
(* Recording: the keys the supervisor polls in the terminal, the recording *)
(* worker, and the TeleopitHDF5Recorder that writes an episode as an HDF5  *)
(* file and an MP4 file and commits it in a manifest.  Frames come through *)
(* FrameRing, the robot's state over a latest-only topic.  The worker may  *)
(* be interrupted (Ctrl-C reaches every process of the terminal) or killed *)
(* between any two steps, and the next run recovers the dataset.           *)
(*                                                                         *)
(* A file is the number of frames it holds, NoFile when it is absent.      *)
(***************************************************************************)
EXTENDS FrameRing

CONSTANTS
  Episodes,           \* bound on the episodes ever saved
  Runs,               \* bound on the runs of the program after the first
  DiscardOnShutdown   \* recording.discard_on_shutdown

ASSUME RecordingAssumption ==
  Episodes \in Nat /\ Runs \in Nat /\ DiscardOnShutdown \in BOOLEAN

VARIABLES
  \* the robot control worker and the supervisor
  recordable,  \* the robot's mode is one that is recorded
  records,     \* topic: was the mode recordable when the step was published
  commands,    \* topic: what the operator's keys ask for
  stop,        \* the shared stop event
  runs,        \* restarts so far
  \* the worker
  phase,       \* where it is
  leaving,     \* it is in the finally block of run()
  record,      \* _latest_record
  latest,      \* _latest_video_seq
  fresh,       \* a frame was received within _CAMERA_TIMEOUT_S
  active,      \* _active
  \* the recorder
  open,        \* _active of the recorder
  frames,      \* _frames_in_episode
  index,       \* _next_episode_index
  \* the dataset
  tmpVideo, tmpData,   \* the files of the open episode under .tmp
  videos, data,        \* the files of every episode under their final names
  manifest             \* episodes.jsonl: the frames of every entry

world == <<recordable, records, commands, stop, runs>>
worker == <<phase, leaving, record, latest, fresh, active>>
episode == <<open, frames, index>>
tmp == <<tmpVideo, tmpData>>
disk == <<tmp, videos, data, manifest>>
vars == <<ring, world, worker, episode, disk>>

-----------------------------------------------------------------------------
NoFile == -1
Indices == 0..Episodes - 1
Committed == 0..Len(manifest) - 1
Commands == {"record_start", "record_save", "record_discard", "shutdown"}
Phases == {"down", "recover", "command", "frame", "copy", "stale",
           "close", "video", "data", "manifest", "advance", "finally"}
Loop == {"command", "frame", "copy", "stale"}

Init ==
  /\ RingInit
  /\ recordable \in BOOLEAN
  /\ records = <<>> /\ commands = <<>> /\ stop = FALSE /\ runs = 0
  /\ phase = "recover" /\ leaving = FALSE /\ record = "none"
  /\ latest = -1 /\ fresh = FALSE /\ active = FALSE
  /\ open = FALSE /\ frames = 0 /\ index = 0
  /\ tmpVideo = NoFile /\ tmpData = NoFile
  /\ videos = [i \in Indices |-> NoFile] /\ data = [i \in Indices |-> NoFile]
  /\ manifest = <<>>

-----------------------------------------------------------------------------
(* The rest of the program, while the worker runs.                         *)

Camera(Write) == Write /\ phase # "down" /\ UNCHANGED <<world, worker, episode, disk>>

RobotStep(isRecordable, publish) ==
  /\ phase # "down"
  /\ recordable' = isRecordable
  /\ records' = IF publish THEN Published(records, isRecordable) ELSE records
  /\ UNCHANGED <<ring, commands, stop, runs, worker, episode, disk>>

\* Every step of STANDING, MOCAP and ARMS publishes a record step.
RobotRecords == recordable /\ RobotStep(TRUE, TRUE)

\* _enter_damping publishes one, and DAMPING publishes none afterwards.
RobotEntersDamping == recordable /\ RobotStep(FALSE, TRUE)

RobotStands == ~recordable /\ RobotStep(TRUE, FALSE)

\* The supervisor polls the terminal and publishes the command of a key.
PressKey(c) ==
  /\ phase # "down" /\ ~stop
  /\ commands' = Published(commands, c)
  /\ stop' = (c = "shutdown")
  /\ UNCHANGED <<ring, recordable, records, runs, worker, episode, disk>>

\* A critical worker has died, or the supervisor was interrupted: shutdown().
Stop ==
  /\ phase # "down" /\ ~stop
  /\ stop' = TRUE
  /\ commands' = Published(commands, "shutdown")
  /\ UNCHANGED <<ring, recordable, records, runs, worker, episode, disk>>

-----------------------------------------------------------------------------
(* TeleopitHDF5Recorder, as operators over the episode and the dataset.    *)

ResetEpisode == open' = FALSE /\ frames' = 0

CloseEpisode(files) ==
  /\ ResetEpisode
  /\ tmpVideo' = NoFile /\ tmpData' = NoFile
  /\ UNCHANGED <<index, files>>

\* discard_episode: nothing happens without an open episode.
DiscardEpisode ==
  IF open THEN CloseEpisode(<<videos, data, manifest>>) ELSE UNCHANGED <<episode, disk>>

\* start_episode, when it finds no file under the final names.
Collides == videos[index] # NoFile \/ data[index] # NoFile

StartEpisode ==
  /\ open' = TRUE /\ frames' = 0
  /\ tmpVideo' = 0 /\ tmpData' = 0
  /\ UNCHANGED <<index, videos, data, manifest>>

-----------------------------------------------------------------------------
(* run() of the worker.  Step is a step of it at one place of the loop.    *)

Step(from) == phase = from /\ UNCHANGED <<ring, recordable, runs>>

\* An exception ends the loop, and a second one the finally block.
Raise ==
  /\ phase' = IF leaving THEN "down" ELSE "finally"
  /\ leaving' = TRUE
  /\ UNCHANGED <<record, latest, fresh, active>>

GoOn(to) == phase' = to /\ UNCHANGED <<leaving, record, latest, fresh>>

Discard(to) == DiscardEpisode /\ active' = FALSE /\ GoOn(to)

\* create(): a manifest that names a missing file is refused.
Readable == \A i \in Committed : videos[i] # NoFile /\ data[i] # NoFile

\* The program is started again: new topics, a new ring, an empty memory.
Restart ==
  /\ phase = "down" /\ runs < Runs
  /\ runs' = runs + 1
  /\ NewRing
  /\ recordable' \in BOOLEAN
  /\ records' = <<>> /\ commands' = <<>> /\ stop' = FALSE
  /\ phase' = IF Readable THEN "recover" ELSE "down"
  /\ leaving' = FALSE /\ record' = "none" /\ latest' = -1 /\ fresh' = FALSE
  /\ active' = FALSE /\ open' = FALSE /\ frames' = 0
  /\ UNCHANGED <<index, disk>>

\* _discard_uncommitted_episode_files unlinks what no entry names.
Uncommitted(files) == { i \in Indices \ Committed : files[i] # NoFile }

RecoverVideo ==
  /\ Step("recover")
  /\ \E i \in Uncommitted(videos) : videos' = [videos EXCEPT ![i] = NoFile]
  /\ UNCHANGED <<records, commands, stop, worker, episode, tmp, data, manifest>>

RecoverData ==
  /\ Step("recover")
  /\ \E i \in Uncommitted(data) : data' = [data EXCEPT ![i] = NoFile]
  /\ UNCHANGED <<records, commands, stop, worker, episode, tmp, videos, manifest>>

RecoverTmp ==
  /\ Step("recover")
  /\ tmpVideo # NoFile \/ tmpData # NoFile
  /\ tmpVideo' = NoFile /\ tmpData' = NoFile
  /\ UNCHANGED <<records, commands, stop, worker, episode, videos, data, manifest>>

\* Mutant of Recovered: the videos of unsaved episodes are still there.
RecoveredSavingVideos ==
  /\ Step("recover")
  /\ Uncommitted(data) = {}
  /\ tmpVideo = NoFile /\ tmpData = NoFile
  /\ index' = Len(manifest)
  /\ phase' = "command"
  /\ UNCHANGED <<records, commands, stop, leaving, record, latest, fresh, active,
                 open, frames, disk>>

Recovered ==
  /\ Step("recover")
  /\ Uncommitted(videos) = {} /\ Uncommitted(data) = {}
  /\ tmpVideo = NoFile /\ tmpData = NoFile
  /\ index' = Len(manifest)
  /\ phase' = "command"
  /\ UNCHANGED <<records, commands, stop, leaving, record, latest, fresh, active,
                 open, frames, disk>>

\* A second without a frame: time that passes between two checks of it.
CameraTimesOut ==
  /\ Step("command") \/ Step("stale")
  /\ fresh
  /\ fresh' = FALSE
  /\ UNCHANGED <<records, commands, stop, phase, leaving, record, latest, active,
                 episode, disk>>

-----------------------------------------------------------------------------
(* _handle_command                                                         *)

Command(c) ==
  /\ Step("command") /\ ~stop
  /\ Received(commands) = c
  /\ commands' = <<>>
  /\ UNCHANGED <<records, stop>>

NoCommand == Command(<<>>) /\ GoOn("frame") /\ UNCHANGED <<active, episode, disk>>

LeaveLoop ==
  /\ Step("command")
  /\ stop \/ Received(commands) = <<"shutdown">>
  /\ stop' = TRUE /\ commands' = <<>>
  /\ phase' = "finally" /\ leaving' = TRUE
  /\ UNCHANGED <<records, record, latest, fresh, active, episode, disk>>

\* _start_episode, refused; no episode starts past the bound either.
StartRefused ==
  /\ Command(<<"record_start">>)
  /\ active \/ record # "yes" \/ ~fresh \/ index = Episodes
  /\ GoOn("frame")
  /\ UNCHANGED <<active, episode, disk>>

StartAccepted ==
  /\ Command(<<"record_start">>)
  /\ ~active /\ record = "yes" /\ fresh /\ index < Episodes
  /\ IF Collides
       THEN Raise /\ UNCHANGED <<episode, disk>>
       ELSE StartEpisode /\ active' = TRUE /\ GoOn("frame")

\* A file or the encoder cannot be opened: the partial episode is removed.
StartFails ==
  /\ Command(<<"record_start">>)
  /\ ~active /\ record = "yes" /\ fresh /\ index < Episodes
  /\ Raise
  /\ UNCHANGED <<episode, disk>>

\* Mutant of SaveOrDiscard: an empty episode is saved too.
SaveOrDiscardEmpty(next) ==
  \/ Discard(next)
  \/ fresh /\ GoOn("close") /\ UNCHANGED <<active, episode, disk>>

\* _save_episode: an episode that is stale, empty or short is discarded.
SaveOrDiscard(next) ==
  \/ Discard(next)
  \/ fresh /\ frames > 0 /\ GoOn("close") /\ UNCHANGED <<active, episode, disk>>

SaveKey ==
  /\ Command(<<"record_save">>)
  /\ IF active THEN SaveOrDiscard("frame")
               ELSE GoOn("frame") /\ UNCHANGED <<active, episode, disk>>

DiscardKey ==
  /\ Command(<<"record_discard">>)
  /\ IF active THEN Discard("frame")
               ELSE GoOn("frame") /\ UNCHANGED <<active, episode, disk>>

-----------------------------------------------------------------------------
(* The frame: record, then video, then the check of the camera.            *)

RecordOf(ch) ==
  IF ch = <<>> THEN record ELSE IF ch[Len(ch)] THEN "yes" ELSE "no"

ReadTopics(to) ==
  /\ phase = "frame" /\ phase' = to
  /\ record' = RecordOf(records)
  /\ records' = <<>> /\ video' = <<>>
  /\ UNCHANGED <<seq, copying, slots, recordable, commands, stop, runs, leaving>>

NewFrame == video # <<>> /\ video[Len(video)] # latest

NoFrame ==
  /\ ReadTopics("stale")
  /\ ~NewFrame
  /\ UNCHANGED <<latest, fresh, active, episode, disk>>

HandleVideo(to) ==
  /\ ReadTopics(to)
  /\ NewFrame
  /\ latest' = video[Len(video)] /\ fresh' = TRUE

\* No episode, or a hand or the neck has yet to report its state.
SkipFrame ==
  /\ HandleVideo("stale")
  /\ active => record' = "yes"
  /\ UNCHANGED <<active, episode, disk>>

ModeNotRecordable ==
  /\ HandleVideo("stale")
  /\ active /\ record' = "no"
  /\ DiscardEpisode /\ active' = FALSE

TakeFrame ==
  /\ HandleVideo("copy")
  /\ active /\ record' = "yes"
  /\ UNCHANGED <<active, episode, disk>>

AddFrame ==
  /\ Step("copy") /\ GoOn("stale")
  /\ tmpVideo' = tmpVideo + 1 /\ tmpData' = tmpData + 1
  /\ frames' = frames + 1
  /\ UNCHANGED <<records, commands, stop, active, open, index, videos, data, manifest>>

\* Mutant of AddFrameFails: the loop goes on after a frame that failed.
AddFrameFailsQuietly ==
  /\ Step("copy") /\ GoOn("stale")
  /\ tmpData' \in {tmpData, tmpData + 1}
  /\ tmpVideo' \in tmpVideo..(tmpVideo + tmpData' - tmpData)
  /\ UNCHANGED <<records, commands, stop, active, episode, videos, data, manifest>>

\* The frame is refused, or the disk or the encoder fails: the rows are
\* resized before the frame is encoded, and the count comes last.
AddFrameFails ==
  /\ Step("copy") /\ Raise
  /\ tmpData' \in {tmpData, tmpData + 1}
  /\ tmpVideo' \in tmpVideo..(tmpVideo + tmpData' - tmpData)
  /\ UNCHANGED <<records, commands, stop, episode, videos, data, manifest>>

\* Mutant of StaleCheck: a camera that falls silent goes unnoticed.
NoStaleCheck ==
  /\ Step("stale") /\ GoOn("command")
  /\ UNCHANGED <<records, commands, stop, active, episode, disk>>

StaleCheck ==
  /\ Step("stale")
  /\ IF active /\ ~fresh THEN Discard("command")
                         ELSE GoOn("command") /\ UNCHANGED <<active, episode, disk>>
  /\ UNCHANGED <<records, commands, stop>>

-----------------------------------------------------------------------------
(* save_episode, one effect on the dataset at a time.                      *)

Saving(from) == Step(from) /\ UNCHANGED <<records, commands, stop>>

CloseOutputs == Saving("close") /\ GoOn("video") /\ UNCHANGED <<active, episode, disk>>

CloseFails == Saving("close") /\ Raise /\ UNCHANGED <<episode, disk>>

MoveVideo ==
  /\ Saving("video") /\ GoOn("data")
  /\ tmpVideo # NoFile
  /\ videos' = [videos EXCEPT ![index] = tmpVideo]
  /\ tmpVideo' = NoFile
  /\ UNCHANGED <<active, episode, tmpData, data, manifest>>

MoveData ==
  /\ Saving("data") /\ GoOn("manifest")
  /\ tmpData # NoFile
  /\ data' = [data EXCEPT ![index] = tmpData]
  /\ tmpData' = NoFile
  /\ UNCHANGED <<active, episode, tmpVideo, videos, manifest>>

\* _append_manifest_entry replaces the manifest by a longer one.
AppendManifest ==
  /\ Saving("manifest") /\ GoOn("advance")
  /\ manifest' = Append(manifest, frames)
  /\ UNCHANGED <<active, episode, tmp, videos, data>>

\* The except branch unlinks every file of the episode.
SaveFails ==
  /\ \E p \in {"video", "data", "manifest"} : Saving(p)
  /\ Raise
  /\ videos' = [videos EXCEPT ![index] = NoFile]
  /\ data' = [data EXCEPT ![index] = NoFile]
  /\ tmpVideo' = NoFile /\ tmpData' = NoFile
  /\ ResetEpisode
  /\ UNCHANGED <<index, manifest>>

Saved ==
  /\ Saving("advance")
  /\ GoOn(IF leaving THEN "down" ELSE "frame")
  /\ index' = index + 1
  /\ ResetEpisode
  /\ active' = FALSE
  /\ UNCHANGED disk

-----------------------------------------------------------------------------
(* The end of the worker.                                                  *)

Finally ==
  /\ Saving("finally")
  /\ IF active /\ ~DiscardOnShutdown THEN SaveOrDiscard("down") ELSE Discard("down")

\* KeyboardInterrupt, at any step of the loop, of a save or of the end.
Interrupt ==
  /\ phase \notin {"down", "recover"}
  /\ Raise
  /\ UNCHANGED <<ring, world, episode, disk>>

\* terminate() after the join timeout, or a crash of the process.  What has been written
\* stays: a loss of power, which only the manifest is synchronised against, is left out.
Kill ==
  /\ phase # "down"
  /\ phase' = "down"
  /\ UNCHANGED <<ring, world, leaving, record, latest, fresh, active, episode, disk>>

Work ==
  \/ RecoverVideo \/ RecoverData \/ RecoverTmp \/ Recovered
  \/ NoCommand \/ LeaveLoop \/ StartRefused \/ StartAccepted \/ StartFails
  \/ SaveKey \/ DiscardKey
  \/ NoFrame \/ SkipFrame \/ ModeNotRecordable \/ TakeFrame
  \/ AddFrame \/ AddFrameFails \/ StaleCheck
  \/ CloseOutputs \/ CloseFails \/ MoveVideo \/ MoveData \/ AppendManifest
  \/ SaveFails \/ Saved \/ Finally

Next ==
  \/ Camera(BeginWrite) \/ Camera(EndWrite)
  \/ RobotRecords \/ RobotEntersDamping \/ RobotStands
  \/ \E c \in Commands : PressKey(c)
  \/ Stop \/ CameraTimesOut
  \/ Work
  \/ Interrupt \/ Kill \/ Restart

Spec == Init /\ [][Next]_vars

\* The loop of the worker runs as long as its process does.
FairSpec == Spec /\ WF_vars(Work)

-----------------------------------------------------------------------------
RecordingTypeOK ==
  /\ RingTypeOK
  /\ recordable \in BOOLEAN /\ stop \in BOOLEAN /\ leaving \in BOOLEAN
  /\ records \in Channel(BOOLEAN) /\ commands \in Channel(Commands)
  /\ runs \in 0..Runs
  /\ phase \in Phases
  /\ record \in {"none", "yes", "no"}
  /\ latest \in -1..Frames - 1
  /\ fresh \in BOOLEAN /\ active \in BOOLEAN /\ open \in BOOLEAN
  /\ frames \in Nat /\ index \in 0..Episodes
  /\ tmpVideo \in Nat \cup {NoFile} /\ tmpData \in Nat \cup {NoFile}
  /\ videos \in [Indices -> Nat \cup {NoFile}] /\ data \in [Indices -> Nat \cup {NoFile}]
  /\ manifest \in Seq(Nat \ {0}) /\ Len(manifest) <= Episodes

\* What the viewer requires before it shows a dataset: both files of every
\* entry are there and hold as many frames as the entry says.
Loads(entry, i) == entry > 0 /\ videos[i] = entry /\ data[i] = entry

\* However the worker was stopped, every episode of the manifest can be
\* reviewed: the dataset is never left with an entry that runs ahead of its
\* files (save_episode moves both files before it appends the entry).
SavedEpisodesLoad == \A i \in Committed : Loads(manifest[i + 1], i)

\* Between episodes the dataset holds the saved episodes and nothing else, so
\* that the next one finds its names free and no entry is skipped: whatever a
\* crash, a failed save or a discarded episode left behind is gone.
OnlySavedBetweenEpisodes ==
  phase \in Loop /\ ~open =>
    /\ index = Len(manifest)
    /\ tmpVideo = NoFile /\ tmpData = NoFile
    /\ Uncommitted(videos) = {} /\ Uncommitted(data) = {}

\* A descriptor stands for its own frame until the writer comes back to the
\* slot, and never for an older one: a late reader of the ring gets a newer
\* frame than it asked for, which is how far a lapped ring goes wrong.
DescribedFrame ==
  \A n \in { video[k] : k \in 1..Len(video) } \cup ({latest} \ {-1}) :
    /\ slots[SlotOf(n)] >= n
    /\ ~Lapped(n) => slots[SlotOf(n)] = n

\* An episode is saved as a whole or not at all, and at most one is open.
Log == INSTANCE EpisodeLog WITH
  log <- manifest,
  taken <- IF phase # "down" /\ open /\ index = Len(manifest) THEN frames ELSE -1
ImplementsEpisodeLog == Log!Spec

\* A camera that stays silent ends the episode, whatever keys are pressed.
SilentCameraEndsEpisode == (active /\ ~fresh) ~> (~active \/ fresh \/ phase = "down")
=============================================================================
