----------------------------- MODULE CameraTest -----------------------------
(***************************************************************************)
(* The camera test (camera_service.cpp, camera_test_page.cpp): the page's  *)
(* constructor takes libcamera's manager, the camera, buffers from a DMA   *)
(* heap or from libcamera itself, requests and the stream, each of which   *)
(* may fail; libcamera's thread completes requests meanwhile, and its      *)
(* callback converts the frame and gives the request back.  Leaving takes  *)
(* it all down again, in an order in which no callback reads a buffer that *)
(* is unmapped.                                                            *)
(*                                                                         *)
(* The page is a position, `cam_at', and what it holds.                    *)
(***************************************************************************)
EXTENDS Integers, Sequences

CONSTANTS
  Buffers,         (* requests, 1 .. n: the validated buffer count          *)
  MaxOpened        (* bound: pages opened                                   *)

VARIABLES
  cam_at,          (* where the page is                                     *)
  cam_held,        (* what was taken and not given back                     *)
  cam_leaving,     (* it is the page that goes, not only its start          *)
  cam_running,     (* running_                                              *)
  requests,        (* by request: where it is                               *)
  cam_callback,    (* at: where request_complete is; of: its request        *)
  frame_ready,     (* frame_ready_                                          *)
  in_sequence,     (* whether evidence is taken: a test is running          *)
  cam_evidence,    (* evidence_recorded_                                    *)
  cam_opened       (* pages opened                                          *)

pageVars == <<in_sequence, cam_evidence, cam_opened>>
camVars  == <<cam_at, cam_held, cam_leaving, cam_running, requests, cam_callback, frame_ready,
              pageVars>>

Requests  == 1 .. Buffers
Gone      == [i \in Requests |-> "none"]
AtRest    == [at |-> "idle", of |-> 0]

CallbackAt(at) == cam_callback.at = at

-----------------------------------------------------------------------------
(* start: each step is taken, or fails and everything is given back.       *)

Stays(what) == UNCHANGED what
Fail        == cam_at' = "off" /\ cam_leaving' = FALSE

(* The constructor: find_mipi_csi_camera asks with a manager of its own,   *)
(* and stops it.                                                           *)
OpenCamera ==
  /\ cam_at = "closed" /\ cam_opened < MaxOpened /\ cam_opened' = cam_opened + 1
  /\ in_sequence' \in BOOLEAN /\ cam_evidence' = FALSE
  /\ cam_at' \in {"manager", "error"}
  /\ UNCHANGED <<cam_held, cam_leaving, cam_running, requests, cam_callback, frame_ready>>

(* A step of start that takes something and is followed by the next.       *)
Takes(at, what, next) ==
  /\ cam_at = at
  /\ \/ cam_at' = next /\ cam_held' = cam_held \cup what /\ Stays(cam_leaving)
     \/ Fail /\ Stays(cam_held)
  /\ UNCHANGED <<cam_running, requests, cam_callback, frame_ready, pageVars>>

(* A manager that does not start, or has no camera, is there all the same. *)
StartManager ==
  /\ cam_at = "manager" /\ cam_held' = cam_held \cup {"manager"}
  /\ \/ cam_at' = "acquire" /\ Stays(cam_leaving)
     \/ Fail
  /\ UNCHANGED <<cam_running, requests, cam_callback, frame_ready, pageVars>>

Acquire   == Takes("acquire", {"camera"}, "configure")
(* prepare_configuration: invalid, or not 640 x 480 YUV420.                *)
Configure == Takes("configure", {}, "heap")

(* allocate_from_heap; what it has allocated when it fails it clears.      *)
AllocateFromHeap ==
  /\ cam_at = "heap"
  /\ \/ cam_at' = "requests" /\ cam_held' = cam_held \cup {"buffers"}
     \/ cam_at' = "allocator" /\ Stays(cam_held)
  /\ UNCHANGED <<cam_leaving, cam_running, requests, cam_callback, frame_ready, pageVars>>

AllocateWithLibcamera == Takes("allocator", {"buffers", "allocator"}, "requests")

(* create_requests; clear_capture_resources when it fails.                 *)
CreateRequests ==
  /\ cam_at = "requests"
  /\ \/ /\ cam_at' = "start" /\ Stays(<<cam_held, cam_leaving>>)
        /\ requests' = [i \in Requests |-> "idle"]
     \/ /\ Fail /\ Stays(requests)
        /\ cam_held' = cam_held \ {"buffers", "allocator"}
  /\ UNCHANGED <<cam_running, cam_callback, frame_ready, pageVars>>

(* The stream, `running' and the callback.                                 *)
StartStream ==
  /\ cam_at = "start"
  /\ \/ /\ cam_at' = "queue" /\ Stays(cam_leaving) /\ cam_running' = TRUE
        /\ cam_held' = cam_held \cup {"stream", "callback"}
     \/ Fail /\ Stays(<<cam_held, cam_running>>)
  /\ UNCHANGED <<requests, cam_callback, frame_ready, pageVars>>

(* The requests are queued one by one, and may complete at once.           *)
QueueRequest ==
  /\ cam_at = "queue"
  /\ \E i \in Requests :
       /\ requests[i] = "idle" /\ \A j \in 1 .. i - 1 : requests[j] # "idle"
       /\ \/ requests' = [requests EXCEPT ![i] = "queued"] /\ Stays(<<cam_at, cam_leaving>>)
          \/ Fail /\ Stays(requests)
  /\ UNCHANGED <<cam_held, cam_running, cam_callback, frame_ready, pageVars>>

Started ==
  /\ cam_at = "queue" /\ \A i \in Requests : requests[i] # "idle"
  /\ cam_at' = "open"
  /\ UNCHANGED <<cam_held, cam_leaving, cam_running, requests, cam_callback, frame_ready, pageVars>>

-----------------------------------------------------------------------------
(* The page.                                                               *)

(* update_preview_frame_: evidence with the first frame, once, and again   *)
(* with every frame while it is not taken.                                 *)
ShowFrame ==
  /\ cam_at = "open" /\ frame_ready
  /\ cam_evidence' = (cam_evidence \/ in_sequence)
  /\ UNCHANGED <<cam_at, cam_held, cam_leaving, cam_running, requests, cam_callback, frame_ready,
                 in_sequence, cam_opened>>

(* ~CameraTestPage, with a preview or with an error.                       *)
CloseCamera ==
  /\ cam_at \in {"open", "error"}
  /\ cam_at' = IF cam_at = "open" THEN "off" ELSE "closed"
  /\ cam_leaving' = TRUE
  /\ UNCHANGED <<cam_held, cam_running, requests, cam_callback, frame_ready, pageVars>>

-----------------------------------------------------------------------------
(* stop.                                                                   *)

(* Mutant: the buffers are unmapped while the stream still runs.           *)
ClearFirst == <<"off", "disconnect", "clear", "halt", "release", "closed">>
StopOrder == <<"off", "disconnect", "halt", "clear", "release", "closed">>

NextStop ==
  LET next == CHOOSE s \in {StopOrder[k + 1] : k \in {k \in 1 .. 5 : StopOrder[k] = cam_at}} : TRUE
  IN IF next = "closed" /\ ~cam_leaving THEN "error" ELSE next
StopStep(at, given) ==
  /\ cam_at = at /\ cam_at' = NextStop /\ cam_held' = cam_held \ given
  /\ UNCHANGED <<cam_leaving, cam_callback, pageVars>>

TurnOff ==
  StopStep("off", {}) /\ cam_running' = FALSE /\ UNCHANGED <<requests, frame_ready>>
Disconnect ==
  StopStep("disconnect", {"callback"}) /\ UNCHANGED <<cam_running, requests, frame_ready>>

(* Camera::stop, if it was started: it waits for the callback that runs,   *)
(* and cancels the requests, which nobody is told of any more.             *)
Halt ==
  /\ StopStep("halt", {"stream"})
  /\ "stream" \in cam_held => CallbackAt("idle")
  /\ requests' = [i \in Requests |-> IF requests[i] = "queued" THEN "dropped" ELSE requests[i]]
  /\ UNCHANGED <<cam_running, frame_ready>>

(* clear_capture_resources                                                 *)
Clear ==
  /\ StopStep("clear", {"buffers", "allocator"}) /\ requests' = Gone
  /\ UNCHANGED <<cam_running, frame_ready>>

(* The camera, then the manager; the preview is deleted.                   *)
Release ==
  /\ StopStep("release", {"camera", "manager"}) /\ frame_ready' = FALSE
  /\ UNCHANGED <<cam_running, requests>>

-----------------------------------------------------------------------------
(* libcamera's thread: request_complete.                                   *)

CameraThread   == <<cam_at, cam_held, cam_leaving, cam_running, pageVars>>
Becomes(where) == requests' = [requests EXCEPT ![cam_callback.of] = where] /\ cam_callback' = AtRest
GoesTo(at)     == cam_callback' = [cam_callback EXCEPT !.at = at] /\ UNCHANGED requests

(* A queued request completes; once disconnected, nobody is told.          *)
Complete(i) ==
  /\ CallbackAt("idle") /\ requests[i] = "queued" /\ "stream" \in cam_held
  /\ IF "callback" \in cam_held
     THEN cam_callback' = [at |-> "completed", of |-> i]
          /\ requests' = [requests EXCEPT ![i] = "completed"]
     ELSE requests' = [requests EXCEPT ![i] = "dropped"] /\ UNCHANGED cam_callback
  /\ UNCHANGED <<CameraThread, frame_ready>>

(* Mutant: a request that completes while stopping waits for the preview.  *)
CheckWhenRunning ==
  /\ CallbackAt("completed") /\ cam_running
  /\ \E at \in {"copy", "requeue"} : GoesTo(at)
  /\ UNCHANGED <<CameraThread, frame_ready>>

(* Not while stopping; a request that has an error is given back as it is. *)
CheckRequest ==
  /\ CallbackAt("completed")
  /\ IF cam_running THEN \E at \in {"copy", "requeue"} : GoesTo(at) ELSE Becomes("dropped")
  /\ UNCHANGED <<CameraThread, frame_ready>>

(* copy_framebuffer reads the mapped buffer, unless its layout is wrong or *)
(* it cannot be synchronised; when that cannot be ended, there is no frame.*)
CopyFrame ==
  /\ CallbackAt("copy")
  /\ GoesTo("requeue") /\ frame_ready' \in {frame_ready, TRUE}
  /\ UNCHANGED CameraThread

(* A request that is not taken back is lost; the preview goes on with the  *)
(* others, and stands still when all are.                                  *)
Requeue ==
  /\ CallbackAt("requeue")
  /\ \E where \in {"queued", "lost"} : Becomes(where)
  /\ UNCHANGED <<CameraThread, frame_ready>>

-----------------------------------------------------------------------------
CamInit ==
  /\ cam_at = "closed" /\ cam_held = {} /\ cam_leaving = FALSE /\ cam_running = FALSE
  /\ requests = Gone /\ cam_callback = AtRest /\ frame_ready = FALSE
  /\ in_sequence = FALSE /\ cam_evidence = FALSE /\ cam_opened = 0

CamStart ==
  \/ StartManager \/ Acquire \/ Configure \/ AllocateFromHeap \/ AllocateWithLibcamera
  \/ CreateRequests \/ StartStream \/ QueueRequest \/ Started
CamStop     == TurnOff \/ Disconnect \/ Halt \/ Clear \/ Release
CamCallback == CheckRequest \/ CopyFrame \/ Requeue
CamNext ==
  \/ OpenCamera \/ CamStart \/ ShowFrame \/ CloseCamera \/ CamStop \/ CamCallback
  \/ \E i \in Requests : Complete(i)

-----------------------------------------------------------------------------
(* What the callback computes of a pixel.                                  *)

CaptureSize == [w |-> 640, h |-> 480]
PreviewSize == [w |-> 226, h |-> 170]

(* Mutant: the turned picture begins one after the last.                   *)
SourceFrom(at, source, preview) == source - (at * source) \div preview

(* The camera is mounted the other way round.                              *)
SourceOf(at, source, preview) == source - 1 - (at * source) \div preview

Clamp(v) == IF v < 0 THEN 0 ELSE IF v > 255 THEN 255 ELSE v

(* Mutant: red is made of the other chroma.                                *)
SwappedRgb(y, u, v) ==
  LET c == IF y < 16 THEN 0 ELSE y - 16
  IN <<Clamp((298 * c + 409 * (u - 128) + 128) \div 256),
       Clamp((298 * c - 100 * (u - 128) - 208 * (v - 128) + 128) \div 256),
       Clamp((298 * c + 516 * (v - 128) + 128) \div 256)>>

Rgb(y, u, v) ==
  LET c == IF y < 16 THEN 0 ELSE y - 16
  IN <<Clamp((298 * c + 409 * (v - 128) + 128) \div 256),
       Clamp((298 * c - 100 * (u - 128) - 208 * (v - 128) + 128) \div 256),
       Clamp((298 * c + 516 * (u - 128) + 128) \div 256)>>

-----------------------------------------------------------------------------
(* Properties.                                                             *)

(* stop: after a start that failed, at whatever step, as after a preview,  *)
(* everything taken was given back.  No callback reads a buffer that is    *)
(* not mapped, or meets a camera that is gone.  No request is forgotten:   *)
(* each is with the camera, with the callback, or was lost.  Evidence is   *)
(* of a camera that gave a frame, and only of a test.                      *)
CameraHandsBack ==
  /\ cam_at \in {"closed", "error"} =>
       cam_held = {} /\ requests = Gone /\ CallbackAt("idle") /\ ~cam_running /\ ~frame_ready
  /\ CallbackAt("copy") => "buffers" \in cam_held
  /\ ~CallbackAt("idle") => {"manager", "camera", "stream"} \subseteq cam_held
  /\ \A i \in Requests : requests[i] # "none" => "buffers" \in cam_held
  /\ cam_at = "open" =>
       \A i \in Requests : requests[i] \in {"queued", "lost"} \/ cam_callback.of = i
  /\ cam_at = "open" /\ cam_evidence => frame_ready /\ in_sequence

(* The constructor and the destructor come to an end.                      *)
CameraSettles ==
  cam_at \notin {"closed", "error", "open"} ~> cam_at \in {"closed", "error", "open"}

(* copy_framebuffer: every pixel of the preview is read within the planes  *)
(* of a stride that is at least the width, and a colour that was encoded   *)
(* (BT.601) comes out as it was, but for rounding.                         *)
Levels == {0, 96, 128, 192, 255}
Encoded(r, g, b) ==
  <<(66 * r + 129 * g + 25 * b + 128) \div 256 + 16,
    (112 * b - 38 * r - 74 * g + 128) \div 256 + 128,
    (112 * r - 94 * g - 18 * b + 128) \div 256 + 128>>
Near(a, b) == a - b \in -3 .. 3
PixelsSound ==
  /\ \A side \in {"w", "h"} : \A at \in 0 .. PreviewSize[side] - 1 :
       SourceOf(at, CaptureSize[side], PreviewSize[side]) \in 0 .. CaptureSize[side] - 1
  /\ \A r, g, b \in Levels :
       LET yuv == Encoded(r, g, b)
           rgb == Rgb(yuv[1], yuv[2], yuv[3])
       IN Near(rgb[1], r) /\ Near(rgb[2], g) /\ Near(rgb[3], b)
=============================================================================
