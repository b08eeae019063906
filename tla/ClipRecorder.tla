------------------------------- MODULE ClipRecorder -------------------------------
(***************************************************************************)
(* The recorder of Pico motion clips, as operators: a thread that retargets *)
(* what the Pico sends, and a terminal that names, starts, saves and drops  *)
(* clips, over one RecordingState whose every operation holds its lock.     *)
(* A frame is the number it has at the provider.                            *)
(***************************************************************************)
EXTENDS Integers, Sequences

CONSTANTS
  Period,      \* ticks of a frame at the target rate
  MinFrames,   \* record.min_frames
  MaxDuration  \* record.max_duration_s in ticks, 0 for none

\* What main accepts.
ConfigAccepted == Period > 0 /\ MinFrames >= 2

NoName == "none"
None == -1

\* RecordingState, the thread, and the clips that were written.
Recorder ==
  [name |-> NoName, recording |-> FALSE, frames |-> <<>>, since |-> None,
   last |-> None, next |-> 0, failed |-> FALSE, clips |-> <<>>]

Emptied(r) == [r EXCEPT !.recording = FALSE, !.frames = <<>>, !.since = None]
Named(r, name) == [r EXCEPT !.name = name, !.frames = <<>>, !.since = None]
RecordingStarted(r, now) ==
  IF r.recording THEN r ELSE [r EXCEPT !.recording = TRUE, !.frames = <<>>, !.since = now]
Appended(r, frame) == IF r.recording THEN [r EXCEPT !.frames = Append(@, frame)] ELSE r

\* RetargetRecordingWorker._run, at most once a period: a frame that is not the last
\* one again is retargeted, shown and appended; one that cannot be ends the thread.
ThreadTicked(r, frame, valid, now) ==
  LET due == [r EXCEPT !.next = now + Period]
  IN  CASE r.failed \/ now < r.next -> r
        [] ~r.failed /\ now >= r.next /\ frame \in {None, r.last} -> due
        [] OTHER -> IF valid THEN [Appended(due, frame) EXCEPT !.last = frame]
                    ELSE [due EXCEPT !.failed = TRUE]

\* What the terminal saves is a copy, which takes a while to write: the thread goes on
\* with the recording, and what it adds is dropped with the rest.
Saves(r) == r.name # NoName /\ Len(r.frames) >= MinFrames
Saved(r, frames, writes) ==
  IF writes THEN [Emptied(r) EXCEPT !.clips = Append(@, [name |-> r.name, frames |-> frames])] ELSE r

\* A key of _record_one_clip, and the command that it ends with, if any; saving is
\* the terminal's next step.
KeyPressed(r, key, now) ==
  CASE key = "q" -> [recorder |-> IF r.recording THEN Emptied(r) ELSE r, command |-> "quit"]
    [] key = "n" -> [recorder |-> r, command |-> IF r.recording THEN "none" ELSE "next"]
    [] key = "r" -> [recorder |-> IF r.name = NoName THEN r ELSE RecordingStarted(r, now), command |-> "none"]
    [] key = "d" -> [recorder |-> Emptied(r), command |-> "next"]
    [] key = "s" -> [recorder |-> r, command |-> IF Saves(r) THEN "save" ELSE "none"]

\* A recording that has gone on for long enough is saved, or raises if it is too short.
TimeIsUp(r, now) ==
  CASE ~r.recording \/ MaxDuration = 0 \/ now - r.since < MaxDuration -> "none"
    [] OTHER -> IF Saves(r) THEN "save" ELSE "raise"

\* main, after a command: a thread that failed is heard of now, and raises.
Goes(r, command, name) ==
  CASE r.failed -> "raise"
    [] ~r.failed /\ command = "quit" -> "stop"
    [] OTHER -> IF name = NoName THEN "stop" ELSE "prompt"

-----------------------------------------------------------------------------
(* unique_clip_path, with the numbers of the names of one second; the dataset spec. *)

Path(taken, limit) ==
  LET free == { i \in 0..limit : i \notin taken }
  IN  IF free = {} THEN None ELSE CHOOSE i \in free : \A k \in free : i <= k
SpecKept(exists, overwrite) == exists /\ ~overwrite

\* write_motion_clip_npz: the clip is whole or as it was, and no temporary file is left;
\* what cannot be a clip is refused before anything is written.
ClipValid(frames, fps, finite) == Len(frames) >= 2 /\ fps > 0 /\ finite
Written(file, frames, fps, finite, works) ==
  IF ClipValid(frames, fps, finite) /\ works THEN [file |-> frames, temporary |-> FALSE, raised |-> FALSE]
  ELSE [file |-> file, temporary |-> FALSE, raised |-> TRUE]
=============================================================================
