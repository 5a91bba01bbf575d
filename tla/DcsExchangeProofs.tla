--------------------------- MODULE DcsExchangeProofs ---------------------------
(***************************************************************************)
(* Proofs about DcsExchange for every number of attempts, every length of  *)
(* the simulated time and every setting of the two configuration flags.    *)
(* The safety theorems assume that the DCS process does not die while a    *)
(* capture waits and that DCS.setPause does not raise in onSimulationStart;*)
(* every other fault may happen.                                           *)
(***************************************************************************)
EXTENDS DcsExchange, TLAPS

(***************************************************************************)
(* The inductive invariant.                                                *)
(***************************************************************************)

\* The request file is the orchestrator's: empty or a request of a real token.
RequestWellFormed(m) ==
  m.tok \in Tokens /\ m.status \in {"pause_pending", "pending"}
FilesOK ==
  /\ fs["request"] = NoFile \/ RequestWellFormed(fs["request"])
  /\ fs["camera_request"] = NoFile \/ fs["camera_request"].tok \in Tokens

\* Where the hook callback stands says what it holds.
InCapture == hpc \in {"snapshot", "shoot", "ack", "ack_error", "release"}
HookOK ==
  /\ hpc # "idle" => active /\ RequestWellFormed(hreq)
  /\ InCapture => paused /\ paused_by_cv /\ hreq.status = "pending"
  /\ active /\ paused_by_cv => paused
  /\ rendering # NotRendering => rendering.tok \in Tokens /\ rendering.view # NoView

\* A token nobody but the orchestrator can know yet.
BeforeRequest ==
  ppc \in {"clear_frame", "clear_probe", "clear_capture", "request"}
FreshToken(t) ==
  \/ t.attempt > attempt
  \/ t.attempt = attempt /\ t.role = mode /\ BeforeRequest
  \/ t.attempt = attempt /\ t.role = "frame" /\ mode = "probe" /\ ppc # "idle"
  \/ t.attempt = attempt /\ t.role = "probe" /\ ppc = "clear_frame"
Unseen(t) ==
  /\ \A f \in Files : fs[f].tok # t
  /\ snapshot[t] = NoView /\ screenshot[t] = NoView
  /\ rendering.tok # t /\ hreq.tok # t
  /\ last_processed_token # t /\ last_pause_token # t
FreshOK == \A t \in Tokens : FreshToken(t) => Unseen(t)

\* The mode follows the position of the orchestrator.
PyOK ==
  /\ ppc = "clear_frame" => mode = "frame"
  /\ ppc = "clear_capture" => mode = "frame"
  /\ ppc \in {"clear_probe", "plan", "camera_request", "wait_camera"} => mode = "probe"
  /\ ppc \in {"wait_ack", "wait_file"} => mode = "frame"
  /\ ppc # "idle" => attempt \in 1..MaxAttempts
  /\ ppc \in {"wait_pause", "promote"} => PauseFirst

\* After the request of the current capture has been written.
Waiting == ppc \in {"wait_pause", "promote", "wait_snapshot", "wait_ack", "wait_file"}
Announced == ppc \in {"wait_pause", "promote"}
AfterSnapshot == hpc \in {"shoot", "ack", "ack_error", "release"}
CaptureOK ==
  Waiting =>
    LET t == CurrentToken IN
    /\ fs["request"].tok = t
    /\ fs["request"].status = IF Announced THEN "pause_pending" ELSE "pending"
    /\ screenshot[t] # NoView => screenshot[t] = snapshot[t]
    /\ rendering.tok = t => rendering.view = snapshot[t]
    /\ hpc = "shoot" /\ hreq.tok = t => snapshot[t] = HereNow
    /\ hpc = "shoot" /\ hreq.tok = t => ~ShotTaken(t)
    /\ AfterSnapshot /\ hreq.tok = t => snapshot[t] # NoView
    /\ snapshot[t] # NoView =>
         \/ AfterSnapshot /\ hreq.tok = t
         \/ hpc = "idle" /\ last_processed_token = t
    /\ Announced => snapshot[t] = NoView /\ (hreq.tok = t => hreq.status = "pause_pending")

\* Once the hook has acknowledged the pause of the current capture it is no
\* longer inside an older callback, and the world stands still.
Acknowledged ==
  \/ ppc = "wait_pause" /\ fs["pause_ack"].tok = CurrentToken /\ fs["pause_ack"].status = "paused"
  \/ ppc = "promote"
  \/ PauseFirst /\ ppc = "wait_snapshot" /\ snapshot[CurrentToken] = NoView
PauseOK ==
  Acknowledged =>
    /\ hpc # "idle" => hreq.tok = CurrentToken
    /\ active => paused

IInv ==
  /\ TypeOK
  /\ FilesOK
  /\ HookOK
  /\ FreshOK
  /\ PyOK
  /\ CaptureOK
  /\ PauseOK
  /\ FramePairing

-----------------------------------------------------------------------------
(***************************************************************************)
(* Type correctness.                                                       *)
(***************************************************************************)
TypeInv == TypeOK /\ PyOK

LEMMA TokenTypes ==
  /\ StartupToken \in AnyToken /\ NoToken \in AnyToken
  /\ StartupToken \notin Tokens /\ NoToken \notin Tokens
  /\ NoFile \in Msg /\ NoView \in View
  /\ \A a \in 1..MaxAttempts, r \in Roles : Token(a, r) \in Tokens
  /\ \A i \in 0..4 : ClearOrder[i + 1] \in Files
<1> USE ConstantsAssumption
<1>1. StartupToken \in AnyToken /\ NoToken \in AnyToken
  BY DEF AnyToken
<1>2. StartupToken \notin Tokens /\ NoToken \notin Tokens
  BY DEF StartupToken, NoToken, Token, Tokens
<1>3. NoFile \in Msg /\ NoView \in View
  BY <1>1 DEF NoFile, Msg, Status, NoView, View
<1>4. \A a \in 1..MaxAttempts, r \in Roles : Token(a, r) \in Tokens
  BY DEF Token, Tokens
<1>5. \A i \in 0..4 : ClearOrder[i + 1] \in Files
  BY DEF ClearOrder, Files
<1> QED BY <1>1, <1>2, <1>3, <1>4, <1>5

LEMMA TypeInit == Init => TypeInv
<1> SUFFICES ASSUME Init PROVE TypeInv
  OBVIOUS
<1> USE TokenTypes, ConstantsAssumption DEF Init
<1>1. fs \in [Files -> Msg] /\ snapshot \in [Tokens -> View] /\ screenshot \in [Tokens -> View]
  OBVIOUS
<1>2. now \in 1..MaxNow /\ rendering \in [tok : AnyToken, view : View]
  BY DEF NotRendering
<1>3. pending_camera_request \in [tok : AnyToken, stage : {"jump", "verify"}]
  BY DEF NoCameraRequest
<1>4. paused \in BOOLEAN /\ active \in BOOLEAN /\ paused_by_cv \in BOOLEAN
  OBVIOUS
<1>5. hreq \in Msg /\ dataset \subseteq Frame /\ camera \in AnyToken
      /\ last_processed_token \in AnyToken /\ last_pause_token \in AnyToken
      /\ last_camera_token \in AnyToken
  OBVIOUS
<1>6. hpc \in HookPCs /\ ppc \in PyPCs /\ mode \in {"frame", "probe"} /\ cleared \in 0..5
      /\ attempt \in 0..MaxAttempts /\ camera_ack_status \in {"none", "applied", "error"}
  BY DEF HookPCs, PyPCs
<1>7. PyOK
  BY DEF PyOK
<1> HIDE DEF Init
<1> QED
  BY <1>1, <1>2, <1>3, <1>4, <1>5, <1>6, <1>7 DEF TypeInv, TypeOK

LEMMA TypePy == TypeInv /\ PyNext => TypeInv'
<1> SUFFICES ASSUME TypeInv, PyNext PROVE TypeInv'
  OBVIOUS
<1> USE TokenTypes, ConstantsAssumption
    DEF TypeInv, TypeOK, PyOK, Goto, Write, files, simVars, hookVars, exportVars, pyVars, PyPCs
<1>0. ASSUME ppc # "idle"
      PROVE  \A s \in Status, b \in BOOLEAN :
               /\ [tok |-> CurrentToken, shot |-> b, status |-> s] \in Msg
               /\ [tok |-> CameraToken, status |-> s, shot |-> b] \in Msg
  <2>1. CurrentToken \in AnyToken /\ CameraToken \in AnyToken
    BY <1>0 DEF CurrentToken, CameraToken, AnyToken, Roles
  <2> QED BY <2>1 DEF Msg
<1>1. CASE BeginFrame BY <1>1 DEF BeginFrame
<1>2. CASE ClearOneFile
  BY <1>2 DEF ClearOneFile, ClearCount
<1>3. CASE ClearDone BY <1>3 DEF ClearDone, ClearCount
<1>4. CASE RequestCapture BY <1>0, <1>4 DEF RequestCapture, Status
<1>5. CASE SeePauseAck BY <1>5 DEF SeePauseAck
<1>6. CASE PromoteRequest BY <1>0, <1>6 DEF PromoteRequest, Status
<1>7. CASE SeeSnapshot BY <1>7 DEF SeeSnapshot
<1>8. CASE PlanCamera BY <1>8 DEF PlanCamera
<1>9. CASE RequestCamera BY <1>0, <1>9 DEF RequestCamera, Status
<1>10. CASE SeeCameraAck BY <1>10 DEF SeeCameraAck
<1>11. CASE SeeScreenshotAck BY <1>11 DEF SeeScreenshotAck
<1>12. CASE CommitFrame BY <1>12 DEF CommitFrame, CurrentToken, Frame, Roles
<1>13. CASE AbortRun BY <1>13 DEF AbortRun
<1> QED
  BY <1>1, <1>2, <1>3, <1>4, <1>5, <1>6, <1>7, <1>8, <1>9, <1>10, <1>11, <1>12, <1>13
  DEF PyNext

LEMMA TypeDcs == TypeInv /\ (HookNext \/ ExportNext \/ DcsNext) => TypeInv'
<1> SUFFICES ASSUME TypeInv, HookNext \/ ExportNext \/ DcsNext PROVE TypeInv'
  OBVIOUS
<1> USE TokenTypes, ConstantsAssumption
    DEF TypeInv, TypeOK, PyOK, Write, WriteAck, files, simVars, hookVars, exportVars, pyVars, HookPCs
<1>1. \A t \in AnyToken, s \in Status : Ack(t, s) \in Msg
  BY DEF Ack, Msg
<1>2. hreq.tok \in AnyToken /\ HereNow \in View /\ fs["request"] \in Msg
      /\ fs["camera_request"].tok \in AnyToken
  BY DEF Msg, HereNow, View, Files
<1>3. NotRendering \in [tok : AnyToken, view : View]
  BY DEF NotRendering
<1>4. NoCameraRequest \in [tok : AnyToken, stage : {"jump", "verify"}]
  BY DEF NoCameraRequest
<1> USE <1>1, <1>2, <1>3, <1>4
<1>5. CASE HookReadRequest BY <1>5 DEF HookReadRequest
<1>6. CASE HookPauseHeld BY <1>6 DEF HookPauseHeld, AfterPause
<1>7. CASE HookPause
  <2>1. Ack(hreq.tok, "paused") \in Msg /\ Ack(hreq.tok, "error") \in Msg
    BY DEF Status
  <2>2. fs' \in [Files -> Msg]
    BY <1>7, <2>1 DEF HookPause
  <2>3. paused' \in BOOLEAN /\ paused_by_cv' \in BOOLEAN /\ hpc' \in HookPCs
    BY <1>7 DEF HookPause, AfterPause
  <2> QED BY <1>7, <2>2, <2>3 DEF HookPause
<1>8. CASE HookSnapshot BY <1>8 DEF HookSnapshot
<1>9. CASE HookShoot BY <1>9 DEF HookShoot
<1>10. CASE HookWriteAck BY <1>10 DEF HookWriteAck, Status
<1>11. CASE HookRelease BY <1>11 DEF HookRelease
<1>12. CASE CameraRequestGone BY <1>12 DEF CameraRequestGone
<1>13. CASE CameraEnter BY <1>13 DEF CameraEnter
<1>14. CASE CameraJump BY <1>14 DEF CameraJump, Status
<1>15. CASE CameraVerify BY <1>15 DEF CameraVerify, Status
<1>16. CASE Tick BY <1>16 DEF Tick
<1>17. CASE ScreenshotWritten
  <2>1. rendering.view \in View
    OBVIOUS
  <2>2. screenshot' \in [Tokens -> View]
    BY <1>17, <2>1 DEF ScreenshotWritten
  <2> QED BY <1>17, <2>2 DEF ScreenshotWritten
<1>18. CASE SimulationStart
  <2>1. Ack(StartupToken, "paused") \in Msg /\ Ack(StartupToken, "error") \in Msg
    BY DEF Status
  <2>2. now + 1 \in 1..MaxNow
    BY <1>18 DEF SimulationStart
  <2>3. fs' \in [Files -> Msg]
    BY <1>18, <2>1 DEF SimulationStart
  <2> QED BY <1>18, <2>2, <2>3 DEF SimulationStart
<1>19. CASE SimulationStop BY <1>19 DEF SimulationStop
<1>20. CASE DcsExit BY <1>20 DEF DcsExit
<1> QED
  BY <1>5, <1>6, <1>7, <1>8, <1>9, <1>10, <1>11, <1>12, <1>13, <1>14, <1>15,
     <1>16, <1>17, <1>18, <1>19, <1>20
  DEF HookNext, ExportNext, DcsNext

LEMMA TypeStutter == TypeInv /\ UNCHANGED vars => TypeInv'
  BY DEF TypeInv, TypeOK, PyOK, vars, files, simVars, hookVars, exportVars, pyVars

\* Every variable of the protocol keeps its type, whatever faults occur: no
\* program writes a message, a token or a frame of another shape than the
\* readers expect (Hooks.lua, Export.lua and dcs_exchange.py).
THEOREM TypeCorrect == Spec => []TypeOK
<1>1. TypeInv /\ [Next]_vars => TypeInv'
  BY TypePy, TypeDcs, TypeStutter DEF Next
<1>2. TypeInv => TypeOK
  BY DEF TypeInv
<1> QED BY TypeInit, <1>1, <1>2, PTL DEF Spec

-----------------------------------------------------------------------------
(***************************************************************************)
(* The pairing of telemetry and image, and the pause.                      *)
(***************************************************************************)

\* The faults the safety theorems exclude: the DCS process dies while a capture
\* waits, and DCS.setPause raises in onSimulationStart.
SafeFaults == "dcs_restart" \notin Faults /\ "startpause" \notin Faults

\* The request files only ever hold what the orchestrator writes.
LEMMA FilesStep == ASSUME TypeInv, FilesOK, Next PROVE FilesOK'
<1> USE TokenTypes
    DEF TypeInv, TypeOK, PyOK, FilesOK, Write, WriteAck, files, simVars, hookVars, exportVars, pyVars
<1>1. CASE ClearOneFile
  BY <1>1 DEF ClearOneFile, ClearOrder, ClearCount, Files
<1>2. CASE RequestCapture
  BY <1>2 DEF RequestCapture, CurrentToken, RequestWellFormed, Files, Roles, Goto
<1>3. CASE PromoteRequest
  BY <1>3 DEF PromoteRequest, CurrentToken, RequestWellFormed, Files, Roles, Goto
<1>4. CASE RequestCamera
  BY <1>4 DEF RequestCamera, CameraToken, Files, Roles, Goto
<1>5. ASSUME BeginFrame \/ ClearDone \/ SeePauseAck \/ SeeSnapshot \/ PlanCamera
             \/ SeeCameraAck \/ SeeScreenshotAck \/ CommitFrame \/ AbortRun
      PROVE  FilesOK'
  <2>1. UNCHANGED fs
    BY <1>5 DEF BeginFrame, ClearDone, SeePauseAck, SeeSnapshot, PlanCamera,
                SeeCameraAck, SeeScreenshotAck, CommitFrame, AbortRun
  <2> QED BY <2>1 DEF RequestWellFormed
<1>6. ASSUME HookNext \/ ExportNext \/ DcsNext
      PROVE  FilesOK'
  <2>1. UNCHANGED <<fs["request"], fs["camera_request"]>>
    BY <1>6 DEF HookNext, HookReadRequest, HookPauseHeld, HookPause, HookSnapshot, HookShoot,
       HookWriteAck, HookRelease, ExportNext, CameraRequestGone, CameraEnter, CameraJump,
       CameraVerify, DcsNext, Tick, ScreenshotWritten, SimulationStart, SimulationStop, DcsExit, Files
  <2> QED BY <2>1 DEF RequestWellFormed
<1> QED
  BY <1>1, <1>2, <1>3, <1>4, <1>5, <1>6 DEF Next, PyNext

\* A callback that is inside a capture holds the pause it took for it.
LEMMA HookStep == ASSUME SafeFaults, TypeInv, FilesOK, HookOK, Next PROVE HookOK'
<1> USE TokenTypes, ConstantsAssumption
    DEF TypeInv, TypeOK, PyOK, HookOK, InCapture, RequestWellFormed,
        files, simVars, hookVars, exportVars, pyVars
<1>1. CASE HookReadRequest BY <1>1 DEF HookReadRequest, FilesOK, Present
<1>2. CASE HookPauseHeld BY <1>2 DEF HookPauseHeld, AfterPause
<1>3. CASE HookPause BY <1>3 DEF HookPause, AfterPause
<1>4. CASE HookSnapshot BY <1>4 DEF HookSnapshot
<1>5. CASE HookShoot
  <2>1. HereNow # NoView
    BY DEF HereNow, NoView
  <2> QED BY <1>5, <2>1 DEF HookShoot
<1>6. CASE HookWriteAck BY <1>6 DEF HookWriteAck
<1>7. CASE HookRelease BY <1>7 DEF HookRelease
<1>8. CASE ScreenshotWritten BY <1>8 DEF ScreenshotWritten
<1>9. CASE SimulationStart BY <1>9 DEF SimulationStart, SafeFaults
<1>10. CASE SimulationStop BY <1>10 DEF SimulationStop
<1>11. CASE DcsExit BY <1>11 DEF DcsExit
<1>12. ASSUME PyNext \/ ExportNext \/ Tick PROVE HookOK'
  <2>1. UNCHANGED <<paused, rendering, hookVars>>
    BY <1>12 DEF PyNext, BeginFrame, ClearOneFile, ClearDone, RequestCapture, SeePauseAck,
       PromoteRequest, SeeSnapshot, PlanCamera, RequestCamera, SeeCameraAck, SeeScreenshotAck,
       CommitFrame, AbortRun, ExportNext, CameraRequestGone, CameraEnter, CameraJump,
       CameraVerify, Tick
  <2> QED BY <2>1
<1> QED
  BY <1>1, <1>2, <1>3, <1>4, <1>5, <1>6, <1>7, <1>8, <1>9, <1>10, <1>11, <1>12
  DEF Next, HookNext, DcsNext

\* A token that appears anywhere in the next state appeared in this one, or the
\* orchestrator has just written it.
LEMMA FreshLua ==
  ASSUME TypeInv, FreshOK, HookNext \/ ExportNext \/ DcsNext PROVE FreshOK'
<1> SUFFICES ASSUME NEW t \in Tokens, FreshToken(t)' PROVE Unseen(t)'
  BY DEF FreshOK
<1> USE TokenTypes
    DEF TypeInv, TypeOK, Write, WriteAck, Ack, Unseen, Files,
        files, simVars, hookVars, exportVars, pyVars
<1>1. FreshToken(t)
  <2>1. UNCHANGED pyVars
    BY DEF HookNext, HookReadRequest, HookPauseHeld, HookPause, HookSnapshot, HookShoot,
       HookWriteAck, HookRelease, ExportNext, CameraRequestGone, CameraEnter, CameraJump,
       CameraVerify, DcsNext, Tick, ScreenshotWritten, SimulationStart, SimulationStop, DcsExit
  <2> QED BY <2>1 DEF FreshToken, BeforeRequest
<1>2. Unseen(t) /\ t # NoToken /\ t # StartupToken
  BY <1>1 DEF FreshOK
<1>3. CASE HookReadRequest BY <1>2, <1>3 DEF HookReadRequest
<1>4. CASE HookPauseHeld BY <1>2, <1>4 DEF HookPauseHeld
<1>5. CASE HookPause BY <1>2, <1>5 DEF HookPause
<1>6. CASE HookSnapshot BY <1>2, <1>6 DEF HookSnapshot
<1>7. CASE HookShoot BY <1>2, <1>7 DEF HookShoot
<1>8. CASE HookWriteAck BY <1>2, <1>8 DEF HookWriteAck
<1>9. CASE HookRelease BY <1>2, <1>9 DEF HookRelease
<1>10. CASE CameraRequestGone \/ CameraEnter \/ Tick \/ SimulationStop
  BY <1>2, <1>10 DEF CameraRequestGone, CameraEnter, Tick, SimulationStop
<1>11. CASE CameraJump BY <1>2, <1>11 DEF CameraJump
<1>12. CASE CameraVerify BY <1>2, <1>12 DEF CameraVerify
<1>13. CASE ScreenshotWritten BY <1>2, <1>13 DEF ScreenshotWritten, NotRendering
<1>14. CASE SimulationStart BY <1>2, <1>14 DEF SimulationStart
<1>15. CASE DcsExit BY <1>2, <1>15 DEF DcsExit, NotRendering, NoFile
<1> QED
  BY <1>3, <1>4, <1>5, <1>6, <1>7, <1>8, <1>9, <1>10, <1>11, <1>12, <1>13, <1>14, <1>15
  DEF HookNext, ExportNext, DcsNext

LEMMA FreshPy == ASSUME TypeInv, FreshOK, PyNext PROVE FreshOK'
<1> SUFFICES ASSUME NEW t \in Tokens, FreshToken(t)' PROVE Unseen(t)'
  BY DEF FreshOK
<1> USE TokenTypes
    DEF TypeInv, TypeOK, PyOK, FreshOK, FreshToken, BeforeRequest, Unseen, Goto, Write, Files,
        CurrentToken, Token, Tokens, files, simVars, hookVars, exportVars, pyVars
<1>1. CASE BeginFrame BY <1>1 DEF BeginFrame
<1>2. CASE ClearOneFile BY <1>2 DEF ClearOneFile, NoFile
<1>3. CASE ClearDone BY <1>3 DEF ClearDone
<1>4. CASE RequestCapture BY <1>4 DEF RequestCapture
<1>5. CASE SeePauseAck BY <1>5 DEF SeePauseAck
<1>6. CASE PromoteRequest BY <1>6 DEF PromoteRequest
<1>7. CASE SeeSnapshot BY <1>7 DEF SeeSnapshot
<1>8. CASE PlanCamera BY <1>8 DEF PlanCamera
<1>9. CASE RequestCamera BY <1>9 DEF RequestCamera, CameraToken
<1>10. CASE SeeCameraAck BY <1>10 DEF SeeCameraAck
<1>11. CASE SeeScreenshotAck BY <1>11 DEF SeeScreenshotAck
<1>12. CASE CommitFrame BY <1>12 DEF CommitFrame
<1>13. CASE AbortRun BY <1>13 DEF AbortRun
<1> QED
  BY <1>1, <1>2, <1>3, <1>4, <1>5, <1>6, <1>7, <1>8, <1>9, <1>10, <1>11, <1>12, <1>13
  DEF PyNext

\* No step of DCS or of its scripts breaks the pairing of the capture in progress:
\* the snapshot of its token is written once, in a paused world, and what is
\* photographed afterwards is that same view.
LEMMA CaptureDcs ==
  ASSUME SafeFaults, TypeInv, FilesOK, HookOK, CaptureOK, HookNext \/ ExportNext \/ DcsNext
  PROVE  CaptureOK'
<1>1. UNCHANGED pyVars
  BY DEF pyVars, HookNext, HookReadRequest, HookPauseHeld, HookPause, HookSnapshot, HookShoot,
     HookWriteAck, HookRelease, ExportNext, CameraRequestGone, CameraEnter, CameraJump,
     CameraVerify, DcsNext, Tick, ScreenshotWritten, SimulationStart, SimulationStop, DcsExit
<1> SUFFICES ASSUME Waiting PROVE CaptureOK'
  BY <1>1 DEF CaptureOK, Waiting, pyVars
<1>2. CurrentToken \in Tokens /\ CurrentToken # NoToken /\ CurrentToken' = CurrentToken
      /\ Waiting' = Waiting /\ Announced' = Announced
  BY <1>1, TokenTypes DEF TypeInv, TypeOK, PyOK, Waiting, Announced, CurrentToken, Roles, pyVars
<1> USE <1>1, <1>2, TokenTypes
    DEF TypeInv, TypeOK, HookOK, InCapture, CaptureOK, AfterSnapshot, ShotTaken, HereNow,
        Write, WriteAck, Files, files, simVars, hookVars, exportVars, pyVars
<1>3. CASE HookReadRequest BY <1>3 DEF HookReadRequest
<1>4. CASE HookPauseHeld BY <1>4 DEF HookPauseHeld, AfterPause
<1>5. CASE HookPause BY <1>5 DEF HookPause, AfterPause
<1>6. CASE HookSnapshot
  <2>1. CASE hreq.tok = CurrentToken
    <3>1. snapshot[CurrentToken] = NoView /\ ~Announced
      BY <1>6, <2>1 DEF HookSnapshot
    <3>2. screenshot[CurrentToken] = NoView
      BY <3>1
    <3>3. rendering.tok # CurrentToken
      BY <3>1 DEF NotRendering
    <3>4. HereNow # NoView /\ HereNow' = HereNow
      BY <1>6, ConstantsAssumption DEF HookSnapshot, NoView
    <3> QED BY <1>6, <2>1, <3>1, <3>2, <3>3, <3>4 DEF HookSnapshot
  <2>2. CASE hreq.tok # CurrentToken
    <3>1. snapshot'[CurrentToken] = snapshot[CurrentToken]
      BY <1>6, <2>2 DEF HookSnapshot
    <3> QED BY <1>6, <2>2, <3>1 DEF HookSnapshot
  <2> QED BY <2>1, <2>2
<1>7. CASE HookShoot BY <1>7 DEF HookShoot
<1>8. CASE HookWriteAck BY <1>8 DEF HookWriteAck
<1>9. CASE HookRelease BY <1>9 DEF HookRelease
<1>10. CASE CameraRequestGone \/ CameraEnter \/ CameraVerify \/ SimulationStop
  BY <1>10 DEF CameraRequestGone, CameraEnter, CameraVerify, CameraRequestLive, SimulationStop
<1>11. CASE CameraJump BY <1>11 DEF CameraJump, CameraRequestLive
<1>12. CASE Tick BY <1>12 DEF Tick
<1>13. CASE ScreenshotWritten BY <1>13 DEF ScreenshotWritten, NotRendering
<1>14. CASE SimulationStart BY <1>14 DEF SimulationStart
<1>15. CASE DcsExit BY <1>15 DEF DcsExit, SafeFaults, Waiting
<1> QED
  BY <1>3, <1>4, <1>5, <1>6, <1>7, <1>8, <1>9, <1>10, <1>11, <1>12, <1>13, <1>14, <1>15
  DEF HookNext, ExportNext, DcsNext

\* A capture begins with a token nobody has seen; its request is changed only by
\* the promotion.
LEMMA CapturePy == ASSUME TypeInv, FreshOK, CaptureOK, PyNext PROVE CaptureOK'
<1> USE TokenTypes
    DEF TypeInv, TypeOK, PyOK, Waiting, Announced, CurrentToken, Goto, Write, Files,
        ShotTaken, HereNow, files, simVars, hookVars, exportVars, pyVars
<1>1. CASE RequestCapture
  <2>1. CurrentToken \in Tokens /\ Unseen(CurrentToken)
    BY <1>1 DEF RequestCapture, FreshOK, FreshToken, BeforeRequest, Token, Roles
  <2>2. CurrentToken' = CurrentToken
    BY <1>1 DEF RequestCapture
  <2> HIDE DEF CurrentToken
  <2> QED BY <1>1, <2>1, <2>2 DEF RequestCapture, CaptureOK, Unseen
<1>2. ASSUME SeePauseAck \/ PromoteRequest \/ SeeSnapshot \/ SeeScreenshotAck, Waiting'
      PROVE  CaptureOK'
  <2>1. Waiting /\ CurrentToken' = CurrentToken /\ CurrentToken \in Tokens
    BY <1>2 DEF SeePauseAck, PromoteRequest, SeeSnapshot, SeeScreenshotAck, Roles
  <2>2. UNCHANGED <<snapshot, screenshot, rendering, hpc, hreq, now, camera, last_processed_token>>
    BY <1>2 DEF SeePauseAck, PromoteRequest, SeeSnapshot, SeeScreenshotAck, hookVars
  <2>3. fs'["request"].tok = CurrentToken
    BY <1>2, <2>1 DEF SeePauseAck, PromoteRequest, SeeSnapshot, SeeScreenshotAck, CaptureOK
  <2>4. /\ Announced' => Announced
        /\ fs'["request"].status = IF Announced' THEN "pause_pending" ELSE "pending"
    BY <1>2, <2>1 DEF SeePauseAck, PromoteRequest, SeeSnapshot, SeeScreenshotAck, CaptureOK
  <2> HIDE DEF CurrentToken, Announced, Waiting
  <2> QED BY <2>1, <2>2, <2>3, <2>4 DEF CaptureOK, AfterSnapshot
<1>3. ASSUME BeginFrame \/ ClearOneFile \/ ClearDone \/ PlanCamera \/ RequestCamera
             \/ SeeCameraAck \/ CommitFrame \/ AbortRun
      PROVE  ~Waiting'
  BY <1>3 DEF BeginFrame, ClearOneFile, ClearDone, PlanCamera, RequestCamera, SeeCameraAck,
              CommitFrame, AbortRun
<1> QED
  BY <1>1, <1>2, <1>3 DEF PyNext, CaptureOK

\* After the acknowledgement of its own token nothing in DCS ends the pause before
\* the snapshot is written.
LEMMA PauseDcs ==
  ASSUME SafeFaults, TypeInv, FilesOK, HookOK, CaptureOK, PauseOK,
         HookNext \/ ExportNext \/ DcsNext
  PROVE  PauseOK'
<1>1. UNCHANGED pyVars
  BY DEF pyVars, HookNext, HookReadRequest, HookPauseHeld, HookPause, HookSnapshot, HookShoot,
     HookWriteAck, HookRelease, ExportNext, CameraRequestGone, CameraEnter, CameraJump,
     CameraVerify, DcsNext, Tick, ScreenshotWritten, SimulationStart, SimulationStop, DcsExit
<1>2. CurrentToken \in Tokens \/ ppc = "idle"
  BY TokenTypes DEF TypeInv, TypeOK, PyOK, CurrentToken, Roles
<1>3. CurrentToken' = CurrentToken /\ UNCHANGED <<ppc, mode, attempt>>
  BY <1>1 DEF CurrentToken, pyVars
<1> USE <1>2, <1>3, TokenTypes
    DEF TypeInv, TypeOK, HookOK, InCapture, Waiting, Announced, CaptureOK, PauseOK, Acknowledged,
        AfterSnapshot, Write, WriteAck, Ack, Files, files, simVars, hookVars, exportVars
<1>4. CASE HookReadRequest BY <1>4 DEF HookReadRequest
<1>5. CASE HookPauseHeld BY <1>5 DEF HookPauseHeld
<1>6. CASE HookPause BY <1>6 DEF HookPause
<1>7. CASE HookSnapshot BY <1>7 DEF HookSnapshot
<1>8. CASE HookShoot BY <1>8 DEF HookShoot
<1>9. CASE HookWriteAck BY <1>9 DEF HookWriteAck
<1>10. CASE HookRelease BY <1>10 DEF HookRelease
<1>11. CASE CameraRequestGone \/ CameraEnter \/ CameraVerify \/ CameraJump
  BY <1>11 DEF CameraRequestGone, CameraEnter, CameraVerify, CameraJump, CameraRequestLive
<1>12. CASE Tick \/ ScreenshotWritten BY <1>12 DEF Tick, ScreenshotWritten
<1>13. CASE SimulationStart BY <1>13 DEF SimulationStart, SafeFaults
<1>14. CASE SimulationStop BY <1>14 DEF SimulationStop
<1>15. CASE DcsExit BY <1>15 DEF DcsExit, SafeFaults
<1> QED
  BY <1>4, <1>5, <1>6, <1>7, <1>8, <1>9, <1>10, <1>11, <1>12, <1>13, <1>14, <1>15
  DEF HookNext, ExportNext, DcsNext

\* The orchestrator promotes only what was acknowledged for its own token.
LEMMA PausePy == ASSUME TypeInv, FreshOK, PauseOK, PyNext PROVE PauseOK'
<1> USE TokenTypes
    DEF TypeInv, TypeOK, PyOK, PauseOK, Acknowledged, CurrentToken, Goto, Write, Files,
        files, simVars, hookVars, exportVars, pyVars
<1>1. CASE RequestCapture
  <2>1. CurrentToken \in Tokens /\ Unseen(CurrentToken)
    BY <1>1 DEF RequestCapture, FreshOK, FreshToken, BeforeRequest, Token, Roles
  <2> QED BY <1>1, <2>1 DEF RequestCapture, Unseen
<1>2. CASE SeePauseAck BY <1>2 DEF SeePauseAck
<1>3. CASE PromoteRequest BY <1>3 DEF PromoteRequest
<1>4. ASSUME BeginFrame \/ ClearOneFile \/ ClearDone \/ PlanCamera \/ RequestCamera \/ SeeSnapshot
             \/ SeeCameraAck \/ SeeScreenshotAck \/ CommitFrame \/ AbortRun
      PROVE  ~Acknowledged'
  BY <1>4 DEF BeginFrame, ClearOneFile, ClearDone, PlanCamera, RequestCamera, SeeSnapshot,
              SeeCameraAck, SeeScreenshotAck, CommitFrame, AbortRun
<1> QED
  BY <1>1, <1>2, <1>3, <1>4 DEF PyNext

\* Only CommitFrame extends the dataset, with views CaptureOK says are equal.
LEMMA PairingStep == ASSUME CaptureOK, FramePairing, Next PROVE FramePairing'
<1>1. CASE CommitFrame
  BY <1>1 DEF CommitFrame, CaptureOK, FramePairing, Waiting
<1>2. CASE ~CommitFrame
  <2>1. UNCHANGED dataset
    BY <1>2 DEF Next, PyNext, BeginFrame, ClearOneFile, ClearDone, RequestCapture, SeePauseAck,
       PromoteRequest, SeeSnapshot, PlanCamera, RequestCamera, SeeCameraAck, SeeScreenshotAck,
       AbortRun, pyVars, HookNext, HookReadRequest, HookPauseHeld, HookPause, HookSnapshot,
       HookShoot, HookWriteAck, HookRelease, ExportNext, CameraRequestGone, CameraEnter,
       CameraJump, CameraVerify, DcsNext, Tick, ScreenshotWritten, SimulationStart,
       SimulationStop, DcsExit
  <2> QED BY <2>1 DEF FramePairing
<1> QED BY <1>1, <1>2

\* The inductive invariant holds initially.
LEMMA InvInit == Init => IInv
<1> SUFFICES ASSUME Init PROVE IInv
  OBVIOUS
<1>1. TypeInv
  BY TypeInit
<1>2. FilesOK /\ HookOK /\ CaptureOK /\ PauseOK /\ FramePairing
  BY DEF Init, FilesOK, HookOK, InCapture, Files, CaptureOK, Waiting, PauseOK, Acknowledged, FramePairing
<1>3. FreshOK
  BY TokenTypes DEF Init, FreshOK, Unseen, NoFile, NotRendering
<1> QED BY <1>1, <1>2, <1>3 DEF IInv, TypeInv

\* Every step keeps the inductive invariant.
LEMMA InvStep == ASSUME SafeFaults PROVE IInv /\ [Next]_vars => IInv'
<1> SUFFICES ASSUME IInv, [Next]_vars PROVE IInv'
  OBVIOUS
<1>1. CASE UNCHANGED vars
  BY <1>1 DEF vars, files, simVars, hookVars, exportVars, pyVars, IInv, TypeOK, FilesOK,
     RequestWellFormed, HookOK, InCapture, FreshOK, FreshToken, BeforeRequest, Unseen, PyOK,
     CaptureOK, Waiting, Announced, AfterSnapshot, ShotTaken, HereNow, PauseOK, Acknowledged,
     CurrentToken, FramePairing
<1>2. CASE Next
  <2>1. TypeInv /\ FilesOK /\ HookOK /\ FreshOK /\ CaptureOK /\ PauseOK /\ FramePairing
    BY DEF IInv, TypeInv
  <2>2. PyNext \/ HookNext \/ ExportNext \/ DcsNext
    BY <1>2 DEF Next
  <2>3. TypeInv'
    BY <2>1, <2>2, TypePy, TypeDcs
  <2>4. FilesOK' /\ HookOK' /\ FramePairing'
    BY <1>2, <2>1, FilesStep, HookStep, PairingStep
  <2>5. FreshOK'
    BY <2>1, <2>2, FreshPy, FreshLua
  <2>6. CaptureOK' /\ PauseOK'
    BY <2>1, <2>2, CapturePy, CaptureDcs, PausePy, PauseDcs
  <2> QED BY <2>3, <2>4, <2>5, <2>6 DEF IInv, TypeInv
<1> QED BY <1>1, <1>2

\* The inductive invariant holds in every reachable state of the three programs.
THEOREM InvHolds == ASSUME SafeFaults PROVE Spec => []IInv
<1>1. IInv /\ [Next]_vars => IInv'
  BY InvStep
<1> QED BY InvInit, <1>1, PTL DEF Spec

\* The telemetry and the image of every frame capture_one_frame commits show one
\* moment and one camera pose, for every number of attempts, aborted captures,
\* undeletable files, lost acknowledgements and mission restarts.
THEOREM PairingCorrect == ASSUME SafeFaults PROVE Spec => []FramePairing
<1>1. IInv => FramePairing
  BY DEF IInv
<1> QED BY InvHolds, <1>1, PTL

\* Pause-first: while a promoted request has no snapshot the mission is paused
\* (pause_for_request and release_pause_after_capture of Hooks.lua).
LEMMA PauseCorrect == ASSUME SafeFaults PROVE Spec => []ConfirmedPauseHolds
<1>1. ASSUME IInv PROVE ConfirmedPauseHolds
  BY <1>1 DEF IInv, PauseOK, Acknowledged, ConfirmedPauseHolds, Capturing
<1> QED BY InvHolds, <1>1, PTL

\* No snapshot of a pause-first capture exists before its pause was acknowledged
\* (request_capture and wait_for_pause_ack in dcs_exchange.py).
LEMMA SnapshotCorrect == ASSUME SafeFaults PROVE Spec => []SnapshotAfterConfirmedPause
<1>1. ASSUME IInv PROVE SnapshotAfterConfirmedPause
  <2>1. CASE ppc = "request"
    <3>1. CurrentToken \in Tokens /\ FreshToken(CurrentToken)
      BY <1>1, <2>1, TokenTypes
      DEF IInv, TypeOK, PyOK, CurrentToken, Roles, FreshToken, BeforeRequest, Token
    <3> QED BY <1>1, <3>1 DEF IInv, FreshOK, Unseen, SnapshotAfterConfirmedPause
  <2>2. CASE ppc \in {"wait_pause", "promote"}
    BY <1>1, <2>2 DEF IInv, CaptureOK, Waiting, Announced, SnapshotAfterConfirmedPause
  <2> QED BY <2>1, <2>2 DEF SnapshotAfterConfirmedPause
<1> QED BY InvHolds, <1>1, PTL

\* A pause-first capture takes its snapshot inside its own confirmed pause, which
\* neither the probe's leftovers nor the release of an older capture ends early
\* (dcs_exchange.py:119-204, Hooks.lua:221-260, 570-600).
THEOREM SnapshotInPauseHolds == ASSUME SafeFaults PROVE Spec => []SnapshotInPause
<1>1. ConfirmedPauseHolds /\ SnapshotAfterConfirmedPause => SnapshotInPause
  BY DEF SnapshotInPause
<1> QED BY PauseCorrect, SnapshotCorrect, <1>1, PTL

\* A capture that is being waited for is never photographed a second time, not
\* even while its first picture is still being written (last_processed_token in
\* Hooks.lua), so its image cannot be replaced under its snapshot.
THEOREM PhotographedOnceHolds == ASSUME SafeFaults PROVE Spec => PhotographedOnce
<1>1. ASSUME IInv, Next PROVE PhotographStep
  <2> SUFFICES ASSUME ppc \in {"wait_snapshot", "wait_ack", "wait_file"}, ShotTaken(CurrentToken)
               PROVE  ShotTaken(CurrentToken)' /\ ~Shoots(CurrentToken)
    BY DEF PhotographStep
  <2>1. CurrentToken \in Tokens
    BY <1>1, TokenTypes DEF IInv, TypeOK, PyOK, CurrentToken, Roles
  <2>2. CurrentToken' = CurrentToken
    BY <1>1 DEF Next, PyNext, BeginFrame, ClearOneFile, ClearDone, RequestCapture, SeePauseAck,
       PromoteRequest, SeeSnapshot, PlanCamera, RequestCamera, SeeCameraAck, SeeScreenshotAck,
       CommitFrame, AbortRun, pyVars, HookNext, HookReadRequest, HookPauseHeld, HookPause,
       HookSnapshot, HookShoot, HookWriteAck, HookRelease, ExportNext, CameraRequestGone,
       CameraEnter, CameraJump, CameraVerify, DcsNext, Tick, ScreenshotWritten, SimulationStart,
       SimulationStop, DcsExit, CurrentToken
  <2>3. ~Shoots(CurrentToken)
    BY <1>1 DEF IInv, CaptureOK, Waiting, Shoots, HookShoot
  <2>4. CASE HookShoot
    <3>1. hreq.shot => hreq.tok # CurrentToken
      BY <2>3, <2>4 DEF Shoots
    <3>2. snapshot[CurrentToken] # NoView
      BY <1>1, <2>1, TokenTypes DEF IInv, HookOK, CaptureOK, Waiting, ShotTaken, NotRendering
    <3>3. hreq.tok = CurrentToken
      BY <1>1, <2>4, <3>2 DEF IInv, CaptureOK, Waiting, AfterSnapshot, HookShoot
    <3>4. UNCHANGED <<screenshot, rendering>>
      BY <2>4, <3>1, <3>3 DEF HookShoot
    <3> QED BY <2>2, <2>3, <3>4 DEF ShotTaken
  <2>5. CASE ScreenshotWritten
    <3>1. CASE rendering.tok = CurrentToken
      BY <1>1, <2>1, <2>2, <2>3, <2>5, <3>1 DEF IInv, TypeOK, HookOK, ShotTaken, ScreenshotWritten
    <3>2. CASE rendering.tok # CurrentToken
      BY <1>1, <2>1, <2>2, <2>3, <2>5, <3>2 DEF IInv, TypeOK, ShotTaken, ScreenshotWritten
    <3> QED BY <3>1, <3>2
  <2>6. CASE ~(HookShoot \/ ScreenshotWritten)
    <3>1. UNCHANGED <<screenshot, rendering>>
      BY <1>1, <2>6 DEF Next, PyNext, BeginFrame, ClearOneFile, ClearDone, RequestCapture,
         SeePauseAck, PromoteRequest, SeeSnapshot, PlanCamera, RequestCamera, SeeCameraAck,
         SeeScreenshotAck, CommitFrame, AbortRun, files, simVars, HookNext, HookReadRequest,
         HookPauseHeld, HookPause, HookSnapshot, HookWriteAck, HookRelease, ExportNext,
         CameraRequestGone, CameraEnter, CameraJump, CameraVerify, DcsNext, Tick,
         SimulationStart, SimulationStop, DcsExit, SafeFaults
    <3> QED BY <2>2, <2>3, <3>1 DEF ShotTaken
  <2> QED BY <2>4, <2>5, <2>6
<1>2. IInv /\ [Next]_vars => [PhotographStep]_vars
  BY <1>1
<1> QED BY InvHolds, <1>2, PTL DEF Spec, PhotographedOnce

\* The file protocol implements the abstract capture of PairedCapture: writing the
\* screenshot is an exposure, CommitFrame keeps a pair of equal views, clear_artifacts
\* and makeScreenShot drop an exposure, and every other step is a stutter.
THEOREM ImplementsPaired == ASSUME SafeFaults PROVE Spec => PairedSpec
<1>1. Init => Paired!Init
  BY DEF Init, Paired!Init
<1>2. ASSUME IInv, Next PROVE Paired!Next \/ UNCHANGED Paired!vars
    <2>1. CASE ClearOneFile
    <3>1. CurrentToken \in Tokens
      BY <1>2, <2>1, TokenTypes DEF ClearOneFile, IInv, TypeOK, PyOK, CurrentToken, Roles
    <3> QED BY <2>1, <3>1 DEF ClearOneFile, Paired!Next, Paired!Discard, Paired!vars, pyVars
  <2>2. CASE CommitFrame
    <3>1. /\ CurrentToken \in Tokens
          /\ screenshot[CurrentToken] # NoView
          /\ snapshot[CurrentToken] = screenshot[CurrentToken]
      BY <1>2, <2>2, TokenTypes DEF CommitFrame, IInv, TypeOK, PyOK, CurrentToken, Roles, CaptureOK, Waiting
    <3> DEFINE New == [tok |-> CurrentToken, telemetry |-> snapshot[CurrentToken],
                       image |-> screenshot[CurrentToken], camera_status |-> camera_ack_status]
               Pair(f) == [tok |-> f.tok, telemetry |-> f.telemetry, image |-> f.image]
               Kept(D) == {Pair(f) : f \in D}
    <3>2. dataset' = dataset \cup {New}
      BY <2>2 DEF CommitFrame
    <3>3. Kept(dataset') = Kept(dataset) \cup {Pair(New)}
      BY <3>2
    <3>4. Pair(New) = [tok |-> CurrentToken, telemetry |-> screenshot[CurrentToken],
                       image |-> screenshot[CurrentToken]]
      BY <3>1
    <3>5. PICK t \in Tokens : t = CurrentToken
      BY <3>1
    <3>6. Paired!Keep(t)
      BY <2>2, <3>1, <3>3, <3>4, <3>5 DEF CommitFrame, Paired!Keep, files
    <3> QED BY <3>6 DEF Paired!Next
  <2>3. CASE HookShoot
    <3>1. hreq.tok \in Tokens
      BY <1>2, <2>3 DEF IInv, HookOK, RequestWellFormed, HookShoot
    <3> QED BY <2>3, <3>1 DEF HookShoot, Paired!Next, Paired!Discard, Paired!vars, pyVars
  <2>4. CASE ScreenshotWritten
    <3>1. rendering.tok \in Tokens /\ rendering.view \in View
      BY <1>2, <2>4, TokenTypes DEF IInv, TypeOK, HookOK, ScreenshotWritten
    <3> QED BY <2>4, <3>1 DEF ScreenshotWritten, Paired!Next, Paired!Expose, pyVars
  <2>5. CASE ~(ClearOneFile \/ CommitFrame \/ HookShoot \/ ScreenshotWritten)
    <3>1. UNCHANGED <<screenshot, dataset>>
      BY <1>2, <2>5 DEF Next, PyNext, BeginFrame, ClearDone, RequestCapture, SeePauseAck,
         PromoteRequest, SeeSnapshot, PlanCamera, RequestCamera, SeeCameraAck, SeeScreenshotAck,
         AbortRun, files, pyVars, HookNext, HookReadRequest, HookPauseHeld, HookPause,
         HookSnapshot, HookWriteAck, HookRelease, ExportNext, CameraRequestGone, CameraEnter,
         CameraJump, CameraVerify, DcsNext, Tick, SimulationStart, SimulationStop, DcsExit
    <3> QED BY <3>1 DEF Paired!vars
  <2> QED BY <2>1, <2>2, <2>3, <2>4, <2>5
<1>3. IInv /\ [Next]_vars => [Paired!Next]_Paired!vars
  <2>1. UNCHANGED vars => UNCHANGED Paired!vars
    BY DEF vars, files, pyVars, Paired!vars
  <2> QED BY <1>2, <2>1
<1> QED BY InvHolds, <1>1, <1>3, PTL DEF Spec, PairedSpec, Paired!Spec

-----------------------------------------------------------------------------
(***************************************************************************)
(* The camera pose of a frame.                                             *)
(***************************************************************************)
SteadyMission == "mission" \notin Faults /\ "dcs_restart" \notin Faults

\* The camera request of this attempt has not been written.
BeforeCameraRequest ==
  \/ ppc = "clear_frame"
  \/ mode = "probe" /\ ppc \in {"clear_probe", "request", "wait_pause", "promote",
                                "wait_snapshot", "plan", "camera_request"}
\* The request of this attempt was served and nothing has moved the camera since.
PoseHeld ==
  /\ active /\ camera = CameraToken /\ last_camera_token = CameraToken
  /\ fs["camera_request"].tok = CameraToken
CameraOK ==
  /\ active /\ pending_camera_request.stage = "verify" => camera = pending_camera_request.tok
  /\ ~active => pending_camera_request = NoCameraRequest
  /\ BeforeCameraRequest =>
       /\ camera_ack_status = "none" /\ hreq.tok # CameraToken
       /\ \A f \in Files : fs[f].tok # CameraToken
  /\ ppc # "idle" /\ fs["camera_ack"].tok = CameraToken /\ fs["camera_ack"].status = "applied"
       => PoseHeld
  /\ ppc # "idle" /\ camera_ack_status = "applied" =>
       /\ PoseHeld /\ mode = "frame"
       /\ snapshot[CurrentToken] # NoView => snapshot[CurrentToken].camera = CameraToken
  /\ ppc \in {"wait_ack", "wait_file"} => snapshot[CurrentToken] # NoView

CameraInv == TypeInv /\ FreshOK /\ CameraOK /\ AppliedCameraIsInFrame

\* The orchestrator asks for a camera pose once per attempt, with a new token.
LEMMA CameraPy == ASSUME TypeInv, FreshOK, CameraOK, PyNext PROVE CameraOK'
<1> USE TokenTypes
    DEF TypeInv, TypeOK, PyOK, CameraOK, BeforeCameraRequest, PoseHeld, CameraToken, Token, Ack,
        Goto, Write, Files, files, simVars, hookVars, exportVars, pyVars
<1>1. CASE BeginFrame
  <2>1. (\A f \in Files : fs[f].tok # Token(attempt + 1, "camera"))
        /\ hreq.tok # Token(attempt + 1, "camera")
    <3>1. Token(attempt + 1, "camera") \in Tokens
      BY <1>1, ConstantsAssumption DEF BeginFrame, Roles, Tokens
    <3> QED BY <3>1 DEF FreshOK, FreshToken, Unseen
  <2> QED BY <1>1, <2>1 DEF BeginFrame
<1>2. CASE ClearOneFile
  <2>1. CASE ppc = "clear_capture"
    BY <1>2, <2>1 DEF ClearOneFile, ClearOrder, ClearCount, NoFile, CurrentToken
  <2>2. CASE ppc # "clear_capture"
    <3>1. BeforeCameraRequest /\ ~(ppc' = "idle") /\ camera_ack_status' = "none"
      BY <1>2, <2>2 DEF ClearOneFile
    <3>2. \A f \in Files : fs'[f] = fs[f] \/ fs'[f] = NoFile
      BY <1>2 DEF ClearOneFile, ClearOrder
    <3>3. NoFile.tok # Token(attempt, "camera") /\ UNCHANGED <<attempt, hreq>>
      BY <1>2, <3>1, TokenTypes DEF ClearOneFile, NoFile, NoToken, Roles
    <3> QED BY <1>2, <3>1, <3>2, <3>3 DEF ClearOneFile
  <2> QED BY <2>1, <2>2
<1>3. CASE ClearDone BY <1>3 DEF ClearDone, CurrentToken
<1>4. CASE RequestCapture BY <1>4 DEF RequestCapture, CurrentToken
<1>5. CASE SeePauseAck BY <1>5 DEF SeePauseAck, CurrentToken
<1>6. CASE PromoteRequest BY <1>6 DEF PromoteRequest, CurrentToken
<1>7. CASE SeeSnapshot BY <1>7 DEF SeeSnapshot, CurrentToken
<1>8. CASE PlanCamera BY <1>8 DEF PlanCamera, CurrentToken
<1>9. CASE RequestCamera BY <1>9 DEF RequestCamera, CurrentToken
<1>10. CASE SeeCameraAck
  <2>1. snapshot[CurrentToken]' = NoView
    BY <1>10 DEF SeeCameraAck, FreshOK, FreshToken, Unseen, CurrentToken, Roles
  <2> QED BY <1>10, <2>1 DEF SeeCameraAck
<1>11. CASE SeeScreenshotAck BY <1>11 DEF SeeScreenshotAck, CurrentToken
<1>12. CASE CommitFrame BY <1>12 DEF CommitFrame
<1>13. CASE AbortRun BY <1>13 DEF AbortRun
<1> QED
  BY <1>1, <1>2, <1>3, <1>4, <1>5, <1>6, <1>7, <1>8, <1>9, <1>10, <1>11, <1>12, <1>13
  DEF PyNext

\* Only a newer camera request moves the camera while the mission runs.
LEMMA CameraDcs ==
  ASSUME SteadyMission, TypeInv, CameraOK, HookNext \/ ExportNext \/ DcsNext
  PROVE  CameraOK'
<1>1. UNCHANGED pyVars
  BY DEF pyVars, HookNext, HookReadRequest, HookPauseHeld, HookPause, HookSnapshot, HookShoot,
     HookWriteAck, HookRelease, ExportNext, CameraRequestGone, CameraEnter, CameraJump,
     CameraVerify, DcsNext, Tick, ScreenshotWritten, SimulationStart, SimulationStop, DcsExit
<1>2. /\ CurrentToken' = CurrentToken /\ CameraToken' = CameraToken
      /\ BeforeCameraRequest' = BeforeCameraRequest
      /\ UNCHANGED <<ppc, mode, camera_ack_status>>
      /\ ppc # "idle" => CurrentToken \in Tokens /\ CameraToken \in Tokens
      /\ BeforeCameraRequest => ppc # "idle"
  BY <1>1, TokenTypes
  DEF TypeInv, TypeOK, PyOK, CurrentToken, CameraToken, BeforeCameraRequest, Roles, pyVars
<1> USE <1>2, TokenTypes
    DEF TypeInv, TypeOK, CameraOK, PoseHeld, Ack, NoCameraRequest, CameraRequestLive,
        Write, WriteAck, Files, files, simVars, hookVars, exportVars
<1>3. CASE HookReadRequest BY <1>3 DEF HookReadRequest
<1>4. CASE HookPauseHeld BY <1>4 DEF HookPauseHeld
<1>5. CASE HookPause BY <1>5 DEF HookPause
<1>6. CASE HookSnapshot BY <1>6 DEF HookSnapshot, HereNow
<1>7. CASE HookShoot BY <1>7 DEF HookShoot
<1>8. CASE HookWriteAck BY <1>8 DEF HookWriteAck
<1>9. CASE HookRelease BY <1>9 DEF HookRelease
<1>10. CASE CameraRequestGone BY <1>10 DEF CameraRequestGone
<1>11. CASE CameraEnter BY <1>11 DEF CameraEnter
<1>12. CASE CameraJump BY <1>12 DEF CameraJump
<1>13. CASE CameraVerify BY <1>13 DEF CameraVerify
<1>14. CASE Tick \/ ScreenshotWritten BY <1>14 DEF Tick, ScreenshotWritten
<1>15. CASE SimulationStart BY <1>15 DEF SimulationStart
<1>16. CASE SimulationStop BY <1>16 DEF SimulationStop, SteadyMission
<1>17. CASE DcsExit BY <1>17 DEF DcsExit, SteadyMission
<1> QED
  BY <1>3, <1>4, <1>5, <1>6, <1>7, <1>8, <1>9, <1>10, <1>11, <1>12, <1>13, <1>14, <1>15, <1>16, <1>17
  DEF HookNext, ExportNext, DcsNext

\* The camera invariant holds initially.
LEMMA CameraInit == Init => CameraInv
<1> SUFFICES ASSUME Init PROVE CameraInv
  OBVIOUS
<1>1. TypeInv
  BY TypeInit
<1>2. CameraOK /\ AppliedCameraIsInFrame
  BY TokenTypes DEF Init, CameraOK, BeforeCameraRequest, NoCameraRequest, AppliedCameraIsInFrame
<1>3. FreshOK
  BY InvInit DEF IInv
<1> QED BY <1>1, <1>2, <1>3 DEF CameraInv

\* Every step keeps the camera invariant.
LEMMA CameraStep == ASSUME SteadyMission PROVE CameraInv /\ [Next]_vars => CameraInv'
<1> SUFFICES ASSUME CameraInv, [Next]_vars PROVE CameraInv'
  OBVIOUS
<1>1. CASE UNCHANGED vars
  BY <1>1 DEF vars, files, simVars, hookVars, exportVars, pyVars, CameraInv, TypeInv, TypeOK, PyOK,
     FreshOK, FreshToken, BeforeRequest, Unseen, CameraOK, BeforeCameraRequest, PoseHeld,
     CameraToken, CurrentToken, AppliedCameraIsInFrame
<1>2. CASE Next
  <2>1. TypeInv'
    BY <1>2, TypePy, TypeDcs DEF CameraInv, Next
  <2>2. FreshOK'
    BY <1>2, FreshLua, FreshPy DEF CameraInv, Next
  <2>3. CameraOK'
    BY <1>2, CameraPy, CameraDcs DEF CameraInv, Next
  <2>4. AppliedCameraIsInFrame'
    <3>1. CASE CommitFrame
      BY <3>1 DEF CommitFrame, CameraInv, CameraOK, CurrentToken, CameraToken, Token,
         AppliedCameraIsInFrame
    <3>2. CASE ~CommitFrame
      <4>1. UNCHANGED dataset
        BY <1>2, <3>2 DEF Next, PyNext, BeginFrame, ClearOneFile, ClearDone, RequestCapture,
           SeePauseAck, PromoteRequest, SeeSnapshot, PlanCamera, RequestCamera, SeeCameraAck,
           SeeScreenshotAck, AbortRun, HookNext, HookReadRequest, HookPauseHeld, HookPause,
           HookSnapshot, HookShoot, HookWriteAck, HookRelease, ExportNext, CameraRequestGone,
           CameraEnter, CameraJump, CameraVerify, DcsNext, Tick, ScreenshotWritten,
           SimulationStart, SimulationStop, DcsExit, pyVars
      <4> QED BY <4>1 DEF AppliedCameraIsInFrame, CameraInv
    <3> QED BY <3>1, <3>2
  <2> QED BY <2>1, <2>2, <2>3, <2>4 DEF CameraInv
<1> QED BY <1>1, <1>2

\* In a mission that keeps running, a frame recorded with an applied camera
\* request shows the pose of exactly that request (apply_camera_request of
\* Export.lua and capture_one_frame): no later file, token or probe moves the
\* camera between the acknowledgement and the photograph.
THEOREM CameraCorrect == ASSUME SteadyMission PROVE Spec => []AppliedCameraIsInFrame
<1>1. CameraInv /\ [Next]_vars => CameraInv'
  BY CameraStep
<1>2. CameraInv => AppliedCameraIsInFrame
  BY DEF CameraInv
<1> QED BY CameraInit, <1>1, <1>2, PTL DEF Spec
=============================================================================
