----------------------------- MODULE ClipPlayback -----------------------------
(***************************************************************************)
(* OfflinePlaybackController: where a clip is played, for the BVH worker of *)
(* the robot and for the simulation.  Positions are numbered 0..Duration,  *)
(* and Duration is the last sample, the one playback finishes on.          *)
(***************************************************************************)
EXTENDS Naturals

CONSTANTS
  Duration,    \* ticks of the clip
  PauseOnEnd   \* playback.pause_on_end

Playback == [pos : 0..Duration, paused : BOOLEAN, finished : BOOLEAN]

Replayed == [pos |-> 0, paused |-> FALSE, finished |-> FALSE]
Paused(p) == [p EXCEPT !.paused = TRUE]

\* Mutant of Resumed: a finished clip is resumed.
ResumedAlways(p) == [p EXCEPT !.paused = FALSE]

\* resume, which no caller gets to once the clip has finished.
Resumed(p) == IF p.finished THEN p ELSE [p EXCEPT !.paused = FALSE]

Finished == [pos |-> Duration, paused |-> PauseOnEnd, finished |-> TRUE]

Advanced(p) ==
  IF p.paused \/ p.finished THEN p
  ELSE IF p.pos + 1 >= Duration THEN Finished ELSE [p EXCEPT !.pos = @ + 1]
=============================================================================
