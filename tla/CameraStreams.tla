---------------------------- MODULE CameraStreams ----------------------------
(********************************************************************************)
(* The two users of a camera, as operators: PicoVideoRuntime and its producers, *)
(* the video that the worker of the Pico input, or the simulation, may stream   *)
(* beside what it does, and _run_high_level_policy_camera_worker.               *)
(********************************************************************************)
EXTENDS Naturals

CONSTANT FramePeriod   \* ticks between two rendered frames

-----------------------------------------------------------------------------
(* pico_video.py: a RealSense producer has a thread that reconnects; a MuJoCo one renders *)
(* when it is ticked.                                                                     *)

\* parse_pico_video_config
ConfigValid(c) ==
  c.enabled => c.source \in {"realsense", "mujoco", "test-pattern"} /\ c.fps > 0
BridgeSource(c) ==
  CASE ~c.enabled -> "none"
    [] c.enabled /\ c.source = "test-pattern" -> "test-pattern"
    [] OTHER -> "frames"

-----------------------------------------------------------------------------
(* _RealSenseVideoProducer._run, one step for each call that waits or may fail. *)

NewThread == [at |-> "loading", open |-> FALSE, ready |-> FALSE, error |-> FALSE, pushed |-> 0]
Ended(t) == [t EXCEPT !.at = "ended", !.open = FALSE]

\* A fault that is no Exception, or one of closing the pipeline, ends the thread.
Broken(t) == [Ended(t) EXCEPT !.ready = TRUE, !.error = TRUE]
\* Any other loses the stream, which is closed: a callback that raises too.
Lost(t) == [t EXCEPT !.at = "waiting", !.open = FALSE]

ThreadStep(t, result, stop) ==
  CASE t.at = "loading" -> IF result = "ok" THEN [t EXCEPT !.at = "opening"] ELSE Broken(t)
    [] t.at \in {"opening", "streaming"} /\ result = "fatal" -> Broken(t)
    [] t.at = "opening" /\ result # "fatal" ->
         CASE stop -> Ended(t)
           [] ~stop /\ result = "ok" -> [t EXCEPT !.at = "streaming", !.open = TRUE, !.ready = TRUE]
           [] OTHER -> Lost(t)
    [] t.at = "streaming" /\ result # "fatal" ->
         LET framed == [t EXCEPT !.pushed = IF result = "ok" THEN @ + 1 ELSE @]
         IN  CASE stop -> Ended(framed)
               [] ~stop /\ result \in {"ok", "empty"} -> framed
               [] OTHER -> Lost(t)
    [] t.at = "waiting" -> IF stop THEN Ended(t) ELSE [t EXCEPT !.at = "opening"]
    [] t.at = "ended" -> t

-----------------------------------------------------------------------------
(* PicoVideoRuntime. *)

NoProducer == [kind |-> "none"]
Stopped(v) == [v EXCEPT !.stopped = TRUE, !.stop = TRUE, !.producer = NoProducer]

\* start: takes is what becomes of a frame, which nobody need take; without a model a
\* robot has no camera.  RealSense is waited for until its thread, far as it then is,
\* is ready or some time has passed.
Runtime == [producer |-> NoProducer, stopped |-> FALSE, stop |-> FALSE, thread |-> NewThread]
Started(c, takes, camera, thread) ==
  CASE ~c.enabled \/ c.source = "test-pattern" \/ ~takes -> Runtime
    [] c.enabled /\ takes /\ c.source = "realsense" ->
         IF thread.error THEN [Runtime EXCEPT !.thread = thread, !.stop = TRUE]
         ELSE [Runtime EXCEPT !.producer = [kind |-> "realsense"], !.thread = thread]
    [] c.enabled /\ takes /\ c.source = "mujoco" ->
         IF camera THEN [Runtime EXCEPT !.producer = [kind |-> "mujoco", next |-> 0]] ELSE Runtime

\* The MuJoCo frames of a tick.
Due(v, now) == v.producer.kind = "mujoco" /\ ~v.stopped /\ now >= v.producer.next

\* tick: a producer that failed is stopped, and whoever ticks goes on.
Ticked(v, now, renders) ==
  CASE v.producer.kind = "none" \/ v.stopped -> v
    [] v.producer.kind = "realsense" /\ ~v.stopped -> IF v.thread.error THEN Stopped(v) ELSE v
    [] Due(v, now) -> IF renders THEN [v EXCEPT !.producer.next = now + FramePeriod] ELSE Stopped(v)
    [] OTHER -> v

-----------------------------------------------------------------------------
(* A camera that opens the device it is told to, or the first it finds and from then on *)
(* that one, and that resets the hardware of a stream that stalls.                      *)

AnyDevice == "any"

\* What a RealSense camera worker starts with; a test pattern needs no device.
CameraStarted(source, device) ==
  [running |-> TRUE, source |-> source, device |-> device, open |-> "none", frames |-> 0, resets |-> {}]

\* found is the device that opening gets to, of the one that is asked for, or none.
\* After a failure the worker waits for a second, which a stop cuts short.
Opens(c, found) ==
  IF found = "none" THEN c
  ELSE [c EXCEPT !.open = found, !.device = IF @ = AnyDevice THEN found ELSE @]

\* A stream that times out, or brings no color, is stopped, and its device reset.
Stalls(c) == [c EXCEPT !.open = "none", !.resets = @ \cup {c.open}]
Captures(c) == [c EXCEPT !.frames = @ + 1]

\* One iteration: a command that asks for the end, a device to open, what it brings.
CameraIterated(c, command, found, brings) ==
  LET opened == IF c.open = "none" THEN Opens(c, found) ELSE c
  IN  CASE command = "shutdown" -> [c EXCEPT !.running = FALSE]
        [] command # "shutdown" /\ c.source # "realsense" -> Captures(c)
        [] OTHER -> CASE opened.open = "none" -> opened
                      [] opened.open # "none" /\ brings = "frame" -> Captures(opened)
                      [] OTHER -> Stalls(opened)

\* The finally clause: the stream is stopped, its device is not reset.
CameraClosed(c) == [c EXCEPT !.open = "none", !.running = FALSE]
=============================================================================
