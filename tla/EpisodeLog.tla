----------------------------- MODULE EpisodeLog -----------------------------
(***************************************************************************)
(* What a recording promises: a log of episodes, each with the number of   *)
(* its frames, and at most one episode that is being taken.  Saving adds   *)
(* that episode to the log at once and as a whole; anything else, a crash  *)
(* included, drops it; nothing in the log ever changes.                    *)
(***************************************************************************)
EXTENDS Integers, Sequences

VARIABLES
  log,    \* the frames of every saved episode
  taken   \* the frames of the episode being taken, -1 when there is none

Init == log = <<>> /\ taken = -1

Open == taken = -1 /\ taken' = 0 /\ UNCHANGED log

Take == taken >= 0 /\ taken' = taken + 1 /\ UNCHANGED log

Commit == taken > 0 /\ log' = Append(log, taken) /\ taken' = -1

Drop == taken >= 0 /\ taken' = -1 /\ UNCHANGED log

Next == Open \/ Take \/ Commit \/ Drop

Spec == Init /\ [][Next]_<<log, taken>>
=============================================================================
