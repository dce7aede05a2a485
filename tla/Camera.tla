------------------------------- MODULE Camera -------------------------------
(***************************************************************************)
(* uvc/main.c: a program that takes one picture with a camera.  It shares  *)
(* a handful of mapped buffers with the driver: it queues them, the driver *)
(* fills them in that order, and each call of camera_frame waits for the   *)
(* next filled one, copies it to camera->head and queues it again.  Five   *)
(* calls are meant to skip the first frames; the picture is made of what   *)
(* the sixth leaves in head.                                               *)
(*                                                                         *)
(* Frames are numbered as the camera produces them.  An ioctl that still   *)
(* fails after the retries of xioctl is an ioctl that fails.               *)
(***************************************************************************)
EXTENDS Naturals, Sequences

CONSTANTS NBuf,      \* buffer_count: as many buffers as the driver grants
          MaxFrames  \* the frames the camera produces in the program's life

ASSUME CameraAssumption ==
    /\ NBuf \in Nat \ {0}
    /\ MaxFrames \in Nat

VARIABLES pc,        \* where the program is
          calls,     \* calls of camera_frame that have returned
          missed,    \* history: those that brought no frame
          buf,       \* the buffer VIDIOC_DQBUF returned, or NoBuf
          head,      \* the frame in camera->head, or Nothing
          data,      \* the frame in each buffer, Nothing or Partial
          incoming,  \* the buffers the driver will fill, the next one first
          outgoing,  \* the buffers it has filled, the oldest first
          frame      \* the last frame the camera has produced

vars == <<pc, calls, missed, buf, head, data, incoming, outgoing, frame>>
driverVars == <<data, incoming, outgoing, frame>>

Buffers == 1..NBuf
NoBuf == 0

\* Memory nobody has written to, and a frame the driver is still writing.
Nothing == 0
Partial == MaxFrames + 1

\* Before each function of main; select stands for the beginning of
\* camera_frame, copy and qbuf for the rest of camera_capture, convert for
\* yuyv2rgb and jpeg.  failed: quit() or a crash has ended the process.
PC == {"open", "init", "start", "select", "copy", "qbuf", "convert", "stop",
       "finish", "close", "done", "failed"}

Streaming == pc \in {"select", "copy", "qbuf", "convert", "stop"}

\* The loop of five calls and the one after it; and a variant of Calls, like
\* those further down, with a mistake that the checks must notice.
OneCallLess == 5                \* of Calls: the loop without the last call
Calls == 6

-----------------------------------------------------------------------------
Init ==
    /\ pc = "open"
    /\ calls = 0 /\ missed = 0
    /\ buf = NoBuf
    /\ head = Nothing
    /\ data = [b \in Buffers |-> Nothing]
    /\ incoming = <<>> /\ outgoing = <<>>
    /\ frame = 0

Goto(from, to) ==
    /\ pc = from
    /\ pc' = to

\* camera_frame returns to the loop, or to the end of it.
Return(from) ==
    /\ Goto(from, IF calls + 1 = Calls THEN "convert" ELSE "select")
    /\ calls' = calls + 1

\* Variants of the actions below with a mistake each: the checks of the
\* properties must notice them.  They are not part of the specification.
HeadOfFirst ==                  \* of Copy: buf.index is not used
    /\ Goto("copy", "qbuf")
    /\ head' = data[1]
    /\ UNCHANGED <<calls, missed, buf, driverVars>>
RequeueFirst ==                 \* of Dequeue: VIDIOC_QBUF before memcpy
    /\ outgoing # <<>>
    /\ Goto("select", "copy")
    /\ buf' = Head(outgoing)
    /\ outgoing' = Tail(outgoing)
    /\ incoming' = Append(incoming, buf')
    /\ UNCHANGED <<calls, missed, head, data, frame>>
TryAgain ==                     \* of TimesOut: while (!camera_frame(...));
    /\ outgoing = <<>>
    /\ Goto("select", "select")
    /\ missed' = missed
    /\ UNCHANGED <<calls, buf, head, driverVars>>

\* camera_open.
Open ==
    /\ Goto("open", "init")
    /\ UNCHANGED <<calls, missed, buf, head, driverVars>>

\* camera_init: the buffers are requested and mapped, head is allocated.
CameraInit ==
    /\ Goto("init", "start")
    /\ UNCHANGED <<calls, missed, buf, head, driverVars>>

\* camera_start: VIDIOC_QBUF for every buffer, VIDIOC_STREAMON.
CameraStart ==
    /\ Goto("start", "select")
    /\ incoming' = [b \in Buffers |-> b]
    /\ UNCHANGED <<calls, missed, buf, head, data, outgoing, frame>>

\* camera_frame: select reports nothing for a second, or an error, upon which
\* VIDIOC_DQBUF fails.
TimesOut ==
    /\ outgoing = <<>>
    /\ Return("select")
    /\ missed' = missed + 1
    /\ UNCHANGED <<buf, head, driverVars>>

\* camera_capture: VIDIOC_DQBUF fails although there is a frame.
DequeueFails ==
    /\ outgoing # <<>>
    /\ Return("select")
    /\ missed' = missed + 1
    /\ UNCHANGED <<buf, head, driverVars>>

\* VIDIOC_DQBUF returns the oldest buffer that is filled.
Dequeue ==
    /\ outgoing # <<>>
    /\ Goto("select", "copy")
    /\ buf' = Head(outgoing)
    /\ outgoing' = Tail(outgoing)
    /\ UNCHANGED <<calls, missed, head, data, incoming, frame>>

\* memcpy to camera->head.
Copy ==
    /\ Goto("copy", "qbuf")
    /\ head' = data[buf]
    /\ UNCHANGED <<calls, missed, buf, driverVars>>

\* VIDIOC_QBUF gives the buffer back.
Requeue ==
    /\ Return("qbuf")
    /\ incoming' = Append(incoming, buf)
    /\ buf' = NoBuf
    /\ UNCHANGED <<missed, head, data, outgoing, frame>>

\* It fails, and nobody knows the buffer any more.
RequeueFails ==
    /\ Return("qbuf")
    /\ buf' = NoBuf
    /\ UNCHANGED <<missed, head, driverVars>>

\* yuyv2rgb and jpeg: the picture is made of what is in head.
Convert ==
    /\ Goto("convert", "stop")
    /\ UNCHANGED <<calls, missed, buf, head, driverVars>>

\* camera_stop: VIDIOC_STREAMOFF takes all buffers from the driver.
Stop ==
    /\ Goto("stop", "finish")
    /\ incoming' = <<>> /\ outgoing' = <<>>
    /\ data' = [b \in Buffers |-> IF data[b] = Partial THEN Nothing ELSE data[b]]
    /\ UNCHANGED <<calls, missed, buf, head, frame>>

\* camera_finish: the buffers are unmapped, head is freed.
Finish ==
    /\ Goto("finish", "close")
    /\ head' = Nothing
    /\ data' = [b \in Buffers |-> Nothing]
    /\ UNCHANGED <<calls, missed, buf, incoming, outgoing, frame>>

\* camera_close and return 0.
Close ==
    /\ Goto("close", "done")
    /\ UNCHANGED <<calls, missed, buf, head, driverVars>>

\* quit(), at the ioctls and calls whose failure is looked at; or a crash,
\* for instance of jpeg because fopen failed.  The kernel stops the stream.
Quit ==
    /\ pc \in {"open", "init", "start", "select", "convert", "stop", "close"}
    /\ pc' = "failed"
    /\ incoming' = <<>> /\ outgoing' = <<>>
    /\ data' = [b \in Buffers |-> Nothing]
    /\ UNCHANGED <<calls, missed, buf, head, frame>>

-----------------------------------------------------------------------------
Writing == incoming # <<>> /\ data[Head(incoming)] = Partial

\* The driver begins to write the next frame into the next buffer.
FillStart ==
    /\ Streaming /\ frame < MaxFrames
    /\ incoming # <<>> /\ ~Writing
    /\ data' = [data EXCEPT ![Head(incoming)] = Partial]
    /\ UNCHANGED <<pc, calls, missed, buf, head, incoming, outgoing, frame>>

\* The frame is complete.
FillEnd ==
    /\ Streaming /\ frame < MaxFrames
    /\ Writing
    /\ frame' = frame + 1
    /\ data' = [data EXCEPT ![Head(incoming)] = frame']
    /\ outgoing' = Append(outgoing, Head(incoming))
    /\ incoming' = Tail(incoming)
    /\ UNCHANGED <<pc, calls, missed, buf, head>>

\* There is no buffer for a frame: it is dropped.
Drop ==
    /\ Streaming /\ frame < MaxFrames
    /\ incoming = <<>>
    /\ frame' = frame + 1
    /\ UNCHANGED <<pc, calls, missed, buf, head, data, incoming, outgoing>>

Ended == pc \in {"done", "failed"} /\ UNCHANGED vars

-----------------------------------------------------------------------------
Step ==
    \/ Open \/ CameraInit \/ CameraStart \/ TimesOut \/ DequeueFails \/ Dequeue
    \/ Copy \/ Requeue \/ RequeueFails \/ Convert \/ Stop \/ Finish \/ Close

Driver == FillStart \/ FillEnd \/ Drop

Next == Step \/ Quit \/ Driver \/ Ended

\* The program runs.  Nothing has to fail, and the camera need not deliver.
Spec == Init /\ [][Next]_vars /\ WF_vars(Step)

-----------------------------------------------------------------------------
TypeOK ==
    /\ pc \in PC
    /\ calls \in 0..Calls /\ missed \in 0..calls
    /\ buf \in Buffers \cup {NoBuf} /\ (buf # NoBuf <=> pc \in {"copy", "qbuf"})
    /\ head \in Nothing..MaxFrames
    /\ data \in [Buffers -> Nothing..Partial]
    /\ incoming \in Seq(Buffers) /\ outgoing \in Seq(Buffers)
    /\ frame \in 0..MaxFrames

\* A buffer belongs to one party at a time: while the program copies it, it
\* is in no queue of the driver, and no queue holds a buffer twice.  (A
\* failed VIDIOC_QBUF may leave it with nobody.)
OneOwner ==
    LET queued == incoming \o outgoing IN
    /\ \A i, j \in 1..Len(queued) : queued[i] = queued[j] => i = j
    /\ \A i \in 1..Len(queued) : queued[i] # buf

\* No buffer is unmapped under the driver.
IdleWhenUnmapped ==
    pc \in {"finish", "close", "done", "failed"} =>
        incoming = <<>> /\ outgoing = <<>>

\* What is in head is replaced by later frames only, and always by whole
\* ones, whatever was dropped, missed or lost in between.
LaterFrames ==
    [][pc # "finish" /\ head' # head => head' \in (head + 1)..MaxFrames]_vars

\* The picture is at least the sixth frame, less one for every call that
\* brought none: no frame is copied twice, the first frames are skipped.
SixthFrame ==
    pc = "stop" => head + missed >= 6

\* The program comes to an end even if the camera delivers nothing.
Terminates == <>(pc \in {"done", "failed"})

\* uvc/main.c:253 says: skip 5 frames for booting a cam.
SkipsFiveFrames == pc = "stop" => head > 5

=============================================================================
