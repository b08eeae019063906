----------------------------- MODULE FrameRing -----------------------------
(***************************************************************************)
(* The shared-memory ring of video frames: SharedFrameRingWriter in the    *)
(* camera's process and the latest-only topic that carries its             *)
(* descriptors.  Frames are numbered; frame n goes to slot n % Slots, and  *)
(* its descriptor is published once it is copied there.  Nothing tells the *)
(* writer what a reader still holds: a slow reader is lapped.              *)
(***************************************************************************)
EXTENDS LatestChannel, Integers

CONSTANTS
  Slots,    \* slots of the ring
  Frames    \* bound on the frames the camera ever delivers

ASSUME RingAssumption == Slots \in Nat \ {0} /\ Frames \in Nat

VARIABLES
  seq,      \* _seq: the frames that have been written
  copying,  \* frame seq is being copied into its slot
  slots,    \* the oldest frame some pixel of each slot belongs to, -1 at first
  video     \* descriptors that the reader has not received

ring == <<seq, copying, slots, video>>

SlotOf(n) == n % Slots

RingInit ==
  /\ seq = 0
  /\ copying = FALSE
  /\ slots = [s \in 0..Slots - 1 |-> -1]
  /\ video = <<>>

\* The camera's process starts again, with a ring of its own.
NewRing ==
  /\ seq' = 0
  /\ copying' = FALSE
  /\ slots' = [s \in 0..Slots - 1 |-> -1]
  /\ video' = <<>>

\* Mutant of BeginWrite: the descriptor goes out before the pixels.
BeginWritePublishing ==
  /\ ~copying /\ seq < Frames
  /\ copying' = TRUE
  /\ video' = Published(video, seq)
  /\ UNCHANGED <<seq, slots>>

\* np.copyto starts: the slot mixes two frames from here on.
BeginWrite ==
  /\ ~copying /\ seq < Frames
  /\ copying' = TRUE
  /\ UNCHANGED <<seq, slots, video>>

\* The copy is complete and the descriptor goes out.
EndWrite ==
  /\ copying
  /\ copying' = FALSE
  /\ slots' = [slots EXCEPT ![SlotOf(seq)] = seq]
  /\ video' = Published(video, seq)
  /\ seq' = seq + 1

\* The writer has come back to the slot of frame n, or is doing so now.
Lapped(n) == seq + (IF copying THEN 1 ELSE 0) > n + Slots

RingTypeOK ==
  /\ seq \in 0..Frames
  /\ copying \in BOOLEAN
  /\ slots \in [0..Slots - 1 -> -1..Frames - 1]
  /\ video \in Channel(0..Frames - 1)
=============================================================================
