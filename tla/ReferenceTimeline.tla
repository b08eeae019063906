------------------------- MODULE ReferenceTimeline -------------------------
(***************************************************************************)
(* The buffer of timed references of sim/reference_timeline.py and the     *)
(* windows sampled from it, as operators.  Time is counted in ticks, the   *)
(* pose of a frame is any value; a sample is the pair of frames that it    *)
(* lies between, its place between them being (at - older) / (newer -      *)
(* older).                                                                 *)
(***************************************************************************)
EXTENDS Integers, Sequences, FiniteSetsExt

Frame(time, pose) == [time |-> time, pose |-> pose]

Oldest(frames) == frames[1]
Newest(frames) == frames[Len(frames)]

\* append: a frame that is not newer replaces the pose of the newest one.
Stored(frames, time, pose) ==
  IF frames # <<>> /\ time <= Newest(frames).time
    THEN [frames EXCEPT ![Len(frames)].pose = pose]
    ELSE Append(frames, Frame(time, pose))

\* _trim: what lies before the window goes, but never the newest.
Trimmed(frames, window) ==
  LET inside == { i \in DOMAIN frames : frames[i].time >= Newest(frames).time - window }
  IN  SubSeq(frames, Min(inside), Len(frames))

Appended(frames, time, pose, window) == Trimmed(Stored(frames, time, pose), window)

Sample(kind, at, older, newer) == [kind |-> kind, at |-> at, older |-> older, newer |-> newer]
Held(kind, frame) == Sample(kind, frame.time, frame, frame)

\* sample_at: held at the ends, between two neighbours elsewhere.
SampleAt(frames, target) ==
  LET after == Min({ i \in 2..Len(frames) : target <= frames[i].time })
  IN  CASE Len(frames) = 1 -> Held("single_frame", Newest(frames))
        [] Len(frames) > 1 /\ target <= Oldest(frames).time -> Held("fallback_oldest", Oldest(frames))
        [] Len(frames) > 1 /\ target >= Newest(frames).time -> Held("fallback_latest", Newest(frames))
        [] OTHER -> Sample("interpolate", target, frames[after - 1], frames[after])

-----------------------------------------------------------------------------
(* ReferenceWindowBuilder; steps is a sequence of numbers of policy steps. *)

\* parse_reference_steps: 0 is there, and after the first step no step forward
\* follows a step back.
ValidSteps(steps) ==
  /\ \E i \in DOMAIN steps : steps[i] = 0
  /\ \A i, j \in 2..Len(steps) : i < j /\ steps[i] < 0 => steps[j] < 0

Steps(steps) == { steps[i] : i \in DOMAIN steps } \cup {0}
RequiredDelay(steps, dt) == Max(Steps(steps)) * dt
RequiredWindow(steps, dt, delay) == delay - Min(Steps(steps)) * dt

\* validate_runtime_support
Supported(steps, dt, delay, window) ==
  delay >= RequiredDelay(steps, dt) /\ window >= RequiredWindow(steps, dt, delay)

SampledWindow(frames, steps, dt, base) ==
  [ i \in DOMAIN steps |-> SampleAt(frames, base + steps[i] * dt) ]
=============================================================================
