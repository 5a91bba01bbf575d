------------------------------ MODULE DcsExchange ------------------------------
(***************************************************************************)
(* The file protocol by which the Python orchestrator captures a frame in  *)
(* DCS.  Three programs share the directory Saved Games/DCS/Logs: the      *)
(* orchestrator (capture_one_frame and DCSExchange), the DCS hook          *)
(* (Hooks.lua) and the DCS export script (Export.lua).  They exchange five *)
(* message files, one snapshot per token and one screenshot per token.     *)
(*                                                                         *)
(* The two Lua scripts run as callbacks of the one DCS main thread, so the *)
(* export callback never runs inside a hook callback; the orchestrator     *)
(* interleaves with every step of both.  An acknowledgement is replaced in *)
(* one step: the window in which Lua has removed the old file and not yet  *)
(* renamed the new one is not modelled.                                    *)
(*                                                                         *)
(* An operator whose name ends in _Bug is the definition that follows it   *)
(* with one mistake; no specification uses it.  The project's mutation     *)
(* runs put it in the place of that definition and expect a violation.     *)
(***************************************************************************)
EXTENDS Naturals, Sequences

CONSTANTS
  MaxAttempts,   \* bound: calls of capture_one_frame in a behaviour
  MaxNow,        \* bound: steps the simulated world takes
  ProbeFirst,    \* runtime.probe_before_capture and no --skip-camera-move
  PauseFirst,    \* runtime.pause_first_capture
  Faults         \* the faults the environment of this instance may inject

FaultNames ==
  { "abort",       \* the orchestrator times out, fails or is killed
    "unlink",      \* a stale exchange file cannot be deleted
    "ackwrite",    \* Lua cannot replace an acknowledgement
    "setpause",    \* DCS.setPause raises inside a capture
    "startpause",  \* DCS.setPause raises in onSimulationStart
    "snapshot",    \* the export environment writes no snapshot
    "screenshot",  \* DCS.makeScreenShot raises
    "camera",      \* LoSetCameraPosition is missing or raises
    "mission",     \* the mission is restarted while a capture is waiting
    "dcs_restart"  \* the DCS process dies while a capture is waiting
  }

ASSUME ConstantsAssumption ==
  /\ MaxAttempts \in Nat
  /\ MaxNow \in Nat \ {0}
  /\ ProbeFirst \in BOOLEAN
  /\ PauseFirst \in BOOLEAN
  /\ Faults \subseteq FaultNames

(***************************************************************************)
(* Tokens.  Each capture_one_frame draws fresh uuid4 tokens: one for the   *)
(* frame, one for the probe and one for the camera request.  A token is    *)
(* the number of the attempt that drew it and its role.                    *)
(***************************************************************************)
Roles == {"frame", "probe", "camera"}
Token(a, r) == [attempt |-> a, role |-> r]
Tokens == [attempt : 1..MaxAttempts, role : Roles]
StartupToken == Token(0, "startup")
NoToken == Token(0, "none")
AnyToken == Tokens \cup {StartupToken, NoToken}

\* What a message file says.  shot is capture_screenshot of a request.
Status == {"pause_pending", "pending", "paused", "done", "applied", "error"}
Msg == [tok : AnyToken, status : Status, shot : BOOLEAN]
NoFile == [tok |-> NoToken, status |-> "error", shot |-> FALSE]
\* The status field left out.
Ack_Bug(t, s) == [tok |-> t, status |-> "", shot |-> FALSE]

Ack(t, s) == [tok |-> t, status |-> s, shot |-> FALSE]

Files == {"request", "screenshot_ack", "pause_ack", "camera_request", "camera_ack"}

\* What telemetry or an image shows: an instant of the world and a camera.
View == [at : 0..MaxNow, camera : AnyToken]
NoView == [at |-> 0, camera |-> StartupToken]

VARIABLES
  (* the shared directory *)
  fs,                     \* the message files
  snapshot,               \* cv_snapshots/snapshot_<token>.json
  screenshot,             \* ScreenShots/<frame>_<token>.png, complete
  (* the simulator *)
  paused, now, camera,
  rendering,              \* a screenshot taken and not yet on the disk
  (* Hooks.lua *)
  active, last_processed_token, last_pause_token, paused_by_cv,
  hpc, hreq,              \* position and request of the running callback
  (* Export.lua *)
  pending_camera_request, last_camera_token,
  (* the orchestrator *)
  ppc, mode, cleared, attempt, camera_ack_status,
  dataset                 \* the frames whose metadata has been written

files    == <<fs, snapshot, screenshot>>
simVars  == <<paused, now, camera, rendering>>
hookVars == <<active, last_processed_token, last_pause_token, paused_by_cv, hpc, hreq>>
exportVars == <<pending_camera_request, last_camera_token>>
pyVars   == <<ppc, mode, cleared, attempt, camera_ack_status, dataset>>
vars == <<files, simVars, hookVars, exportVars, pyVars>>

Present(f) == fs[f] # NoFile
Write(f, m) == fs' = [fs EXCEPT ![f] = m]

\* The token of the capture the orchestrator is busy with.
CameraToken == Token(attempt, "camera")
CurrentToken == Token(attempt, mode)

HereNow == [at |-> now, camera |-> camera]
NotRendering == [tok |-> NoToken, view |-> NoView]
NoCameraRequest == [tok |-> NoToken, stage |-> "jump"]

Frame == [tok : Tokens, telemetry : View, image : View,
          camera_status : {"none", "applied", "error"}]

HookPCs == {"idle", "pause", "snapshot", "shoot", "ack", "ack_error", "release"}
PyPCs == {"idle", "clear_frame", "clear_probe", "clear_capture", "request", "wait_pause",
          "promote", "wait_snapshot", "plan", "camera_request", "wait_camera",
          "wait_ack", "wait_file"}

TypeOK ==
  /\ fs \in [Files -> Msg]
  /\ snapshot \in [Tokens -> View]
  /\ screenshot \in [Tokens -> View]
  /\ paused \in BOOLEAN /\ now \in 1..MaxNow /\ camera \in AnyToken
  /\ rendering \in [tok : AnyToken, view : View]
  /\ active \in BOOLEAN /\ paused_by_cv \in BOOLEAN
  /\ last_processed_token \in AnyToken /\ last_pause_token \in AnyToken
  /\ hpc \in HookPCs /\ hreq \in Msg
  /\ pending_camera_request \in [tok : AnyToken, stage : {"jump", "verify"}]
  /\ last_camera_token \in AnyToken
  /\ ppc \in PyPCs /\ mode \in {"frame", "probe"} /\ cleared \in 0..5
  /\ attempt \in 0..MaxAttempts
  /\ camera_ack_status \in {"none", "applied", "error"}
  /\ dataset \subseteq Frame

Init ==
  /\ fs = [f \in Files |-> NoFile]
  /\ snapshot = [t \in Tokens |-> NoView]
  /\ screenshot = [t \in Tokens |-> NoView]
  /\ paused = FALSE /\ now = 1 /\ camera = NoToken
  /\ rendering = NotRendering
  /\ active = FALSE /\ paused_by_cv = FALSE
  /\ last_processed_token = NoToken /\ last_pause_token = NoToken
  /\ hpc = "idle" /\ hreq = NoFile
  /\ pending_camera_request = NoCameraRequest /\ last_camera_token = NoToken
  /\ ppc = "idle" /\ mode = "frame" /\ cleared = 0 /\ attempt = 0
  /\ camera_ack_status = "none"
  /\ dataset = {}

-----------------------------------------------------------------------------
(***************************************************************************)
(* The orchestrator.                                                       *)
(***************************************************************************)
Goto(l) == ppc' = l

\* capture_one_frame: a new frame token, then clear_artifacts.
BeginFrame ==
  /\ ppc = "idle" /\ attempt < MaxAttempts
  /\ attempt' = attempt + 1 /\ mode' = "frame" /\ cleared' = 0
  /\ camera_ack_status' = "none"
  /\ Goto("clear_frame")
  /\ UNCHANGED <<files, simVars, hookVars, exportVars, dataset>>

\* clear_artifacts deletes all five files, clear_capture_exchange the first three.
\* With the last of those three go the snapshot and the screenshot of the token,
\* which no other program touches while the token is unused.
ClearOrder == <<"request", "screenshot_ack", "pause_ack", "camera_request", "camera_ack">>
ClearCount == IF ppc = "clear_capture" THEN 3 ELSE 5

ClearOneFile ==
  /\ ppc \in {"clear_frame", "clear_probe", "clear_capture"}
  /\ cleared < ClearCount
  /\ cleared' = cleared + 1
  /\ \/ Write(ClearOrder[cleared + 1], NoFile)
     \/ "unlink" \in Faults /\ UNCHANGED fs      \* OSError: a warning
  /\ IF cleared = 2
       THEN /\ snapshot' = [snapshot EXCEPT ![CurrentToken] = NoView]
            /\ screenshot' = [screenshot EXCEPT ![CurrentToken] = NoView]
       ELSE UNCHANGED <<snapshot, screenshot>>
  /\ UNCHANGED <<simVars, hookVars, exportVars, ppc, mode, attempt, camera_ack_status, dataset>>

ClearDone ==
  /\ ppc \in {"clear_frame", "clear_probe", "clear_capture"}
  /\ cleared = ClearCount
  /\ cleared' = 0
  /\ IF ppc = "clear_frame"
       THEN IF ProbeFirst THEN mode' = "probe" /\ Goto("clear_probe")
                          ELSE mode' = "frame" /\ Goto("clear_capture")
       ELSE mode' = mode /\ Goto("request")
  /\ UNCHANGED <<files, simVars, hookVars, exportVars, attempt, camera_ack_status, dataset>>

\* request_capture: pause_pending when pause-first, else pending at once.
RequestCapture ==
  /\ ppc = "request"
  /\ Write("request", [tok |-> CurrentToken, shot |-> mode = "frame",
                       status |-> IF PauseFirst THEN "pause_pending" ELSE "pending"])
  /\ Goto(IF PauseFirst THEN "wait_pause" ELSE "wait_snapshot")
  /\ UNCHANGED <<snapshot, screenshot, simVars, hookVars, exportVars,
                 mode, cleared, attempt, camera_ack_status, dataset>>

\* The token of the acknowledgement is not compared.
SeePauseAck_Bug ==
  /\ ppc = "wait_pause"
  /\ fs["pause_ack"].status = "paused"
  /\ Goto("promote")
  /\ UNCHANGED <<files, simVars, hookVars, exportVars,
                 mode, cleared, attempt, camera_ack_status, dataset>>

\* wait_for_pause_ack
SeePauseAck ==
  /\ ppc = "wait_pause"
  /\ fs["pause_ack"].tok = CurrentToken /\ fs["pause_ack"].status = "paused"
  /\ Goto("promote")
  /\ UNCHANGED <<files, simVars, hookVars, exportVars,
                 mode, cleared, attempt, camera_ack_status, dataset>>

\* The acknowledged request is rewritten as pending.
PromoteRequest ==
  /\ ppc = "promote"
  /\ Write("request", [tok |-> CurrentToken, shot |-> mode = "frame", status |-> "pending"])
  /\ Goto("wait_snapshot")
  /\ UNCHANGED <<snapshot, screenshot, simVars, hookVars, exportVars,
                 mode, cleared, attempt, camera_ack_status, dataset>>

\* wait_for_snapshot: the probe never waits for the hook's acknowledgement.
SeeSnapshot ==
  /\ ppc = "wait_snapshot"
  /\ snapshot[CurrentToken] # NoView
  /\ Goto(IF mode = "probe" THEN "plan" ELSE "wait_ack")
  /\ UNCHANGED <<files, simVars, hookVars, exportVars,
                 mode, cleared, attempt, camera_ack_status, dataset>>

\* plan_camera_pose finds a target, or none and the camera stays.
PlanCamera ==
  /\ ppc = "plan"
  /\ \/ Goto("camera_request") /\ mode' = mode
     \/ Goto("clear_capture") /\ mode' = "frame"
  /\ UNCHANGED <<files, simVars, hookVars, exportVars,
                 cleared, attempt, camera_ack_status, dataset>>

RequestCamera ==
  /\ ppc = "camera_request"
  /\ Write("camera_request", [tok |-> CameraToken, status |-> "pending", shot |-> FALSE])
  /\ Goto("wait_camera")
  /\ UNCHANGED <<snapshot, screenshot, simVars, hookVars, exportVars,
                 mode, cleared, attempt, camera_ack_status, dataset>>

\* Any acknowledgement counts as a success.
SeeCameraAck_Bug ==
  /\ ppc = "wait_camera"
  /\ \/ fs["camera_ack"].tok = CameraToken /\ camera_ack_status' = "applied"
     \/ "abort" \in Faults /\ camera_ack_status' = "error"
  /\ mode' = "frame"
  /\ Goto("clear_capture")
  /\ UNCHANGED <<files, simVars, hookVars, exportVars, cleared, attempt, dataset>>

\* wait_for_camera_ack: any exception, the timeout included, becomes "error"
\* and the capture goes on.
SeeCameraAck ==
  /\ ppc = "wait_camera"
  /\ \/ /\ fs["camera_ack"].tok = CameraToken
        /\ camera_ack_status' = IF fs["camera_ack"].status = "applied" THEN "applied" ELSE "error"
     \/ "abort" \in Faults /\ camera_ack_status' = "error"
  /\ mode' = "frame"
  /\ Goto("clear_capture")
  /\ UNCHANGED <<files, simVars, hookVars, exportVars, cleared, attempt, dataset>>

\* wait_for_screenshot: first the acknowledgement, then the file it names.
SeeScreenshotAck ==
  /\ ppc = "wait_ack"
  /\ fs["screenshot_ack"].tok = CurrentToken /\ fs["screenshot_ack"].status = "done"
  /\ Goto("wait_file")
  /\ UNCHANGED <<files, simVars, hookVars, exportVars,
                 mode, cleared, attempt, camera_ack_status, dataset>>

\* The telemetry of the probe is kept instead of the frame's own.
CommitFrame_Bug ==
  /\ ppc = "wait_file"
  /\ screenshot[CurrentToken] # NoView
  /\ dataset' = dataset \cup
       {[tok |-> CurrentToken, telemetry |-> snapshot[Token(attempt, "probe")],
         image |-> screenshot[CurrentToken], camera_status |-> camera_ack_status]}
  /\ Goto("idle")
  /\ UNCHANGED <<files, simVars, hookVars, exportVars,
                 mode, cleared, attempt, camera_ack_status>>

\* The copied image and the snapshot become one frame of the dataset.
CommitFrame ==
  /\ ppc = "wait_file"
  /\ screenshot[CurrentToken] # NoView
  /\ dataset' = dataset \cup
       {[tok |-> CurrentToken, telemetry |-> snapshot[CurrentToken],
         image |-> screenshot[CurrentToken], camera_status |-> camera_ack_status]}
  /\ Goto("idle")
  /\ UNCHANGED <<files, simVars, hookVars, exportVars,
                 mode, cleared, attempt, camera_ack_status>>

\* An acknowledgement that reports an error raises RuntimeError.
ErrorAck ==
  \/ /\ ppc = "wait_pause"
     /\ fs["pause_ack"].tok = CurrentToken /\ fs["pause_ack"].status # "paused"
  \/ /\ ppc = "wait_ack"
     /\ fs["screenshot_ack"].tok = CurrentToken /\ fs["screenshot_ack"].status # "done"

\* A timeout, an error acknowledgement, an unexpected exception or the death
\* of the process ends the run; every exchange file stays where it is.
AbortRun ==
  /\ ppc # "idle"
  /\ ErrorAck \/ "abort" \in Faults
  /\ Goto("idle")
  /\ UNCHANGED <<files, simVars, hookVars, exportVars,
                 mode, cleared, attempt, camera_ack_status, dataset>>

PyNext ==
  \/ BeginFrame \/ ClearOneFile \/ ClearDone \/ RequestCapture \/ SeePauseAck
  \/ PromoteRequest \/ SeeSnapshot \/ PlanCamera \/ RequestCamera \/ SeeCameraAck
  \/ SeeScreenshotAck \/ CommitFrame \/ AbortRun

-----------------------------------------------------------------------------
(***************************************************************************)
(* Hooks.lua.                                                              *)
(***************************************************************************)
WriteAck(f, m) ==
  \/ Write(f, m)
  \/ "ackwrite" \in Faults /\ UNCHANGED fs

\* The token processed last is not remembered.
HookReadRequest_Bug ==
  /\ active /\ hpc = "idle" /\ Present("request")
  /\ hreq' = fs["request"] /\ hpc' = "pause"
  /\ UNCHANGED <<files, simVars, exportVars, pyVars,
                 active, last_processed_token, last_pause_token, paused_by_cv>>

\* onSimulationFrame reads the request.  Only the orchestrator writes it, with
\* all its fields and by an atomic replace, so it is never torn nor nameless.
HookReadRequest ==
  /\ active /\ hpc = "idle" /\ Present("request")
  /\ fs["request"].status = "pending" => fs["request"].tok # last_processed_token
  /\ hreq' = fs["request"] /\ hpc' = "pause"
  /\ UNCHANGED <<files, simVars, exportVars, pyVars,
                 active, last_processed_token, last_pause_token, paused_by_cv>>

\* The two stages of the request are not told apart.
AfterPause_Bug == "snapshot"

AfterPause == IF hreq.status = "pending" THEN "snapshot" ELSE "idle"

\* Any pause held is taken for the pause of this request.
HookPauseHeld_Bug ==
  /\ hpc = "pause"
  /\ paused_by_cv
  /\ hpc' = AfterPause
  /\ UNCHANGED <<files, simVars, exportVars, pyVars,
                 active, last_processed_token, last_pause_token, paused_by_cv, hreq>>

\* pause_for_request: the pause is already held for this token; no new ack.
HookPauseHeld ==
  /\ hpc = "pause"
  /\ paused_by_cv /\ last_pause_token = hreq.tok
  /\ hpc' = AfterPause
  /\ UNCHANGED <<files, simVars, exportVars, pyVars,
                 active, last_processed_token, last_pause_token, paused_by_cv, hreq>>

\* The acknowledgement is written but DCS.setPause is not called.
HookPause_Bug ==
  /\ hpc = "pause"
  /\ ~(paused_by_cv /\ last_pause_token = hreq.tok)
  /\ last_pause_token' = hreq.tok
  /\ paused_by_cv' = TRUE /\ hpc' = AfterPause
  /\ WriteAck("pause_ack", Ack(hreq.tok, "paused"))
  /\ UNCHANGED <<snapshot, screenshot, simVars, exportVars, pyVars,
                 active, last_processed_token, hreq>>

HookPause ==
  /\ hpc = "pause"
  /\ ~(paused_by_cv /\ last_pause_token = hreq.tok)
  /\ last_pause_token' = hreq.tok
  /\ \/ /\ paused' = TRUE /\ paused_by_cv' = TRUE
        /\ WriteAck("pause_ack", Ack(hreq.tok, "paused"))
        /\ hpc' = AfterPause
     \/ /\ "setpause" \in Faults
        /\ UNCHANGED <<paused, paused_by_cv>>
        /\ WriteAck("pause_ack", Ack(hreq.tok, "error"))
        /\ hpc' = "idle"
  /\ UNCHANGED <<snapshot, screenshot, now, camera, rendering, exportVars, pyVars,
                 active, last_processed_token, hreq>>

\* request_export_snapshot: a snapshot that exists is taken as it is; else the
\* export environment writes one (CV_DATASET_CAPTURE_NOW) or fails, and the
\* next onSimulationFrame tries again.
HookSnapshot ==
  /\ hpc = "snapshot"
  /\ \/ /\ snapshot[hreq.tok] # NoView
        /\ UNCHANGED snapshot /\ hpc' = "shoot"
     \/ /\ snapshot[hreq.tok] = NoView
        /\ snapshot' = [snapshot EXCEPT ![hreq.tok] = HereNow]
        /\ hpc' = "shoot"
     \/ /\ snapshot[hreq.tok] = NoView /\ "snapshot" \in Faults
        /\ UNCHANGED snapshot /\ hpc' = "idle"
  /\ UNCHANGED <<fs, screenshot, simVars, exportVars, pyVars,
                 active, last_processed_token, last_pause_token, paused_by_cv, hreq>>

\* perform_capture: nothing to shoot for a probe; else remove the old file and
\* call DCS.makeScreenShot, which grabs the view and writes the file later.
\* (A file still being written for an older token is forgotten: nobody waits
\* for it.)
HookShoot ==
  /\ hpc = "shoot"
  /\ \/ /\ ~hreq.shot
        /\ hpc' = "ack" /\ UNCHANGED <<screenshot, rendering>>
     \/ /\ hreq.shot
        /\ screenshot' = [screenshot EXCEPT ![hreq.tok] = NoView]
        /\ \/ rendering' = [tok |-> hreq.tok, view |-> HereNow] /\ hpc' = "ack"
           \/ "screenshot" \in Faults /\ hpc' = "ack_error" /\ UNCHANGED rendering
  /\ UNCHANGED <<fs, snapshot, paused, now, camera, exportVars, pyVars,
                 active, last_processed_token, last_pause_token, paused_by_cv, hreq>>

\* A capture that failed writes its acknowledgement and leaves.
HookWriteAck_Bug ==
  /\ hpc \in {"ack", "ack_error"}
  /\ WriteAck("screenshot_ack", Ack(hreq.tok, IF hpc = "ack" THEN "done" ELSE "error"))
  /\ IF hpc = "ack" THEN hpc' = "release" /\ UNCHANGED last_processed_token
                    ELSE hpc' = "idle" /\ last_processed_token' = hreq.tok
  /\ UNCHANGED <<snapshot, screenshot, simVars, exportVars, pyVars,
                 active, last_pause_token, paused_by_cv, hreq>>

HookWriteAck ==
  /\ hpc \in {"ack", "ack_error"}
  /\ WriteAck("screenshot_ack", Ack(hreq.tok, IF hpc = "ack" THEN "done" ELSE "error"))
  /\ hpc' = "release"
  /\ UNCHANGED <<snapshot, screenshot, simVars, exportVars, pyVars,
                 active, last_processed_token, last_pause_token, paused_by_cv, hreq>>

\* last_processed_token and release_pause_after_capture.
HookRelease ==
  /\ hpc = "release"
  /\ last_processed_token' = hreq.tok
  /\ \/ paused_by_cv /\ paused' = FALSE /\ paused_by_cv' = FALSE
     \/ /\ paused_by_cv => "setpause" \in Faults
        /\ UNCHANGED <<paused, paused_by_cv>>
  /\ hpc' = "idle"
  /\ UNCHANGED <<files, now, camera, rendering, exportVars, pyVars,
                 active, last_pause_token, hreq>>

HookNext ==
  \/ HookReadRequest \/ HookPauseHeld \/ HookPause \/ HookSnapshot
  \/ HookShoot \/ HookWriteAck \/ HookRelease

-----------------------------------------------------------------------------
(***************************************************************************)
(* Export.lua: apply_camera_request, once per frame.                       *)
(***************************************************************************)
CameraRequestLive ==
  /\ active /\ hpc = "idle" /\ Present("camera_request")
  /\ fs["camera_request"].tok # last_camera_token

CameraRequestGone ==
  /\ active /\ hpc = "idle" /\ ~Present("camera_request")
  /\ pending_camera_request' = NoCameraRequest
  /\ UNCHANGED <<files, simVars, hookVars, pyVars, last_camera_token>>

\* A token not seen before enters the free-camera stage.
CameraEnter ==
  /\ CameraRequestLive
  /\ pending_camera_request.tok # fs["camera_request"].tok
  /\ pending_camera_request' = [tok |-> fs["camera_request"].tok, stage |-> "jump"]
  /\ UNCHANGED <<files, simVars, hookVars, pyVars, last_camera_token>>

CameraJump ==
  /\ CameraRequestLive
  /\ pending_camera_request = [tok |-> fs["camera_request"].tok, stage |-> "jump"]
  /\ \/ /\ camera' = fs["camera_request"].tok
        /\ pending_camera_request' = [pending_camera_request EXCEPT !.stage = "verify"]
        /\ UNCHANGED <<fs, last_camera_token>>
     \/ /\ "camera" \in Faults
        /\ WriteAck("camera_ack", Ack(fs["camera_request"].tok, "error"))
        /\ last_camera_token' = fs["camera_request"].tok
        /\ pending_camera_request' = NoCameraRequest
        /\ UNCHANGED camera
  /\ UNCHANGED <<snapshot, screenshot, paused, now, rendering, hookVars, pyVars>>

CameraVerify ==
  /\ CameraRequestLive
  /\ pending_camera_request = [tok |-> fs["camera_request"].tok, stage |-> "verify"]
  /\ WriteAck("camera_ack", Ack(fs["camera_request"].tok, "applied"))
  /\ last_camera_token' = fs["camera_request"].tok
  /\ pending_camera_request' = NoCameraRequest
  /\ UNCHANGED <<snapshot, screenshot, simVars, hookVars, pyVars>>

ExportNext == CameraRequestGone \/ CameraEnter \/ CameraJump \/ CameraVerify

-----------------------------------------------------------------------------
(***************************************************************************)
(* The simulator, as the scripts use it.                                   *)
(***************************************************************************)
Tick ==
  /\ active /\ ~paused /\ now < MaxNow
  /\ now' = now + 1
  /\ UNCHANGED <<files, paused, camera, rendering, hookVars, exportVars, pyVars>>

\* The screenshot file appears some time after makeScreenShot returned.
ScreenshotWritten ==
  /\ rendering # NotRendering
  /\ screenshot' = [screenshot EXCEPT ![rendering.tok] = rendering.view]
  /\ rendering' = NotRendering
  /\ UNCHANGED <<fs, snapshot, paused, now, camera, hookVars, exportVars, pyVars>>

\* onSimulationStart: a mission begins, in a world of its own, and is paused.
SimulationStart ==
  /\ ~active /\ now < MaxNow
  /\ active' = TRUE /\ now' = now + 1 /\ camera' = NoToken
  /\ \/ /\ paused' = TRUE /\ paused_by_cv' = TRUE
        /\ WriteAck("pause_ack", Ack(StartupToken, "paused"))
     \/ /\ "startpause" \in Faults
        /\ paused' = FALSE /\ UNCHANGED paused_by_cv
        /\ WriteAck("pause_ack", Ack(StartupToken, "error"))
  /\ UNCHANGED <<snapshot, screenshot, rendering, exportVars, pyVars,
                 last_processed_token, last_pause_token, hpc, hreq>>

\* onSimulationStop: the hook keeps its variables, the export script loses its.
SimulationStop ==
  /\ active /\ hpc = "idle" /\ now < MaxNow
  /\ ppc = "idle" \/ "mission" \in Faults
  /\ active' = FALSE
  /\ pending_camera_request' = NoCameraRequest /\ last_camera_token' = NoToken
  /\ UNCHANGED <<files, simVars, pyVars,
                 last_processed_token, last_pause_token, paused_by_cv, hpc, hreq>>

\* The DCS process ends: closed by close_dcs or killed by launch_dcs between
\* runs, or it dies in the middle of a capture.  All Lua state is lost.
DcsExit ==
  /\ now < MaxNow
  /\ ppc = "idle" \/ "dcs_restart" \in Faults
  /\ active' = FALSE /\ paused' = FALSE /\ paused_by_cv' = FALSE
  /\ rendering' = NotRendering
  /\ last_processed_token' = NoToken /\ last_pause_token' = NoToken
  /\ hpc' = "idle" /\ hreq' = NoFile
  /\ pending_camera_request' = NoCameraRequest /\ last_camera_token' = NoToken
  /\ UNCHANGED <<files, now, camera, pyVars>>

DcsNext == Tick \/ ScreenshotWritten \/ SimulationStart \/ SimulationStop \/ DcsExit

-----------------------------------------------------------------------------
Next == PyNext \/ HookNext \/ ExportNext \/ DcsNext

Spec == Init /\ [][Next]_vars

(***************************************************************************)
(* What the programs' own loops justify: the orchestrator keeps polling,   *)
(* DCS keeps calling the callbacks, a launched DCS starts its mission and  *)
(* a screenshot that was taken reaches the disk.  Nobody is obliged to     *)
(* begin a frame, to stop the mission or to let the world advance; the     *)
(* orchestrator ends a run when it reads an error, and may always do so    *)
(* where the instance lets it time out.                                    *)
(***************************************************************************)
PyStep ==
  \/ ClearOneFile \/ ClearDone \/ RequestCapture \/ SeePauseAck
  \/ PromoteRequest \/ SeeSnapshot \/ PlanCamera \/ RequestCamera \/ SeeCameraAck
  \/ SeeScreenshotAck \/ CommitFrame \/ AbortRun

Fairness ==
  /\ WF_vars(PyStep) /\ WF_vars(HookNext) /\ WF_vars(ExportNext)
  /\ WF_vars(ScreenshotWritten) /\ WF_vars(SimulationStart)

FairSpec == Spec /\ Fairness

-----------------------------------------------------------------------------
(***************************************************************************)
(* Properties.                                                             *)
(***************************************************************************)

\* A frame of the dataset never mixes two moments: the telemetry and the image
\* come from one instant of the world and one camera pose, whatever stale file
\* an aborted run, a probe or a mission restart left in the directory.
FramePairing == \A f \in dataset : f.telemetry = f.image

\* Between the moment the orchestrator has seen its pause acknowledgement and
\* the moment the snapshot is written nothing lets the world run again: not the
\* release of an older capture, not the end of the probe.
Capturing == ppc \in {"promote", "wait_snapshot"}
ConfirmedPauseHolds ==
  PauseFirst /\ Capturing /\ active /\ snapshot[CurrentToken] = NoView => paused

\* dcs_export/README.md: no snapshot before the confirmed pause.  The snapshot
\* of the capture in progress exists only after the orchestrator has seen the
\* acknowledgement and promoted the request.
SnapshotAfterConfirmedPause ==
  PauseFirst /\ ppc \in {"request", "wait_pause", "promote"}
    => snapshot[CurrentToken] = NoView

\* Both together: the snapshot is taken inside the pause that was confirmed for it.
SnapshotInPause == ConfirmedPauseHolds /\ SnapshotAfterConfirmedPause

\* While the orchestrator waits for a capture, its token is photographed at most
\* once, also when the mission restarts around the request and while the file of
\* the first picture is still being written: makeScreenShot would remove the first
\* picture and take another under a snapshot that stays (last_processed_token in
\* Hooks.lua).  Nor is a picture that was taken lost while it is waited for.
ShotTaken(t) == screenshot[t] # NoView \/ rendering.tok = t
Shoots(t) == HookShoot /\ hreq.shot /\ hreq.tok = t
PhotographStep ==
  ppc \in {"wait_snapshot", "wait_ack", "wait_file"} /\ ShotTaken(CurrentToken)
    => ShotTaken(CurrentToken)' /\ ~Shoots(CurrentToken)
PhotographedOnce == [][PhotographStep]_vars

\* A frame that says its camera request was applied shows the requested pose,
\* unless a mission that began in between has taken the camera back.
AppliedCameraIsInFrame ==
  \A f \in dataset :
    f.camera_status = "applied" =>
      \/ f.telemetry.camera = Token(f.tok.attempt, "camera")
      \/ "mission" \in Faults /\ f.telemetry.camera = NoToken

\* Every frame begun is committed, or ends with the error the hook reported for
\* it, when no more fails than the deletion of old files, the pause at mission
\* start, a screenshot or a camera request: no order of the two scripts and the
\* orchestrator, and no leftover file, leaves them waiting for each other.
Committed(a) == \E f \in dataset : f.tok = Token(a, "frame")
ErrorReported(a) ==
  ppc = "idle" /\ fs["screenshot_ack"] = Ack(Token(a, "frame"), "error")
CaptureCompletes ==
  \A a \in 1..MaxAttempts :
    (attempt = a /\ ppc # "idle") ~> (Committed(a) \/ ErrorReported(a))

\* A capture that paused the world lets it run again, also when its screenshot
\* failed: the failure path of perform_capture releases the pause as well.
CaptureUnpauses == ppc = "promote" ~> ~paused

\* The protocol implements PairedCapture: an exposure is a screenshot that
\* reached the disk, and keeping a frame pairs it with equal telemetry.
Paired == INSTANCE PairedCapture WITH
  Views <- View, exposure <- screenshot,
  kept <- {[tok |-> f.tok, telemetry |-> f.telemetry, image |-> f.image] : f \in dataset}
PairedSpec == Paired!Spec
=============================================================================
