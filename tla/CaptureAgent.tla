----------------------------- MODULE CaptureAgent -----------------------------
(***************************************************************************)
(* The Windows runner agent and the clients that ask it for captures.      *)
(* The agent is one process with several threads: an HTTP handler thread   *)
(* per request, the command-folder watcher, and one worker thread per      *)
(* accepted capture, which runs the orchestrator and then the adapter as   *)
(* subprocesses.  They share CaptureRunner (active run id, stop flag) and  *)
(* StatusStore (statuses in memory and one mirror file per run).  A client *)
(* is a request-capture command: it submits over HTTP or by writing a      *)
(* command file, then polls the status until it is final.                  *)
(*                                                                         *)
(* What CaptureRunner and StatusStore do while they hold their lock is one *)
(* step; what happens between two locked sections is separate steps.  An   *)
(* operator whose name ends in _Bug is the definition that follows it with *)
(* one mistake, used only by the project's mutation runs.                  *)
(***************************************************************************)
EXTENDS Naturals, FiniteSets

CONSTANTS
  Runs,          \* run ids
  NoRun,
  Via,           \* the transport of each run's client
  MaxRequests,   \* bound: request-capture commands per run id
  MaxStops,      \* bound: stop calls
  Faults         \* the faults the environment of this instance may inject

FaultNames ==
  { "process",      \* a subprocess fails, times out or cannot be launched
    "statuswrite",  \* the status file cannot be replaced (held open by a reader)
    "lostreply",    \* the HTTP reply does not reach the client in time
    "giveup",       \* the client's own timeout
    "restart"       \* the agent process dies and is started again
  }

ASSUME ConstantsAssumption ==
  /\ NoRun \notin Runs
  /\ Via \in [Runs -> {"http", "shared"}]
  /\ MaxRequests \in Nat /\ MaxStops \in Nat
  /\ Faults \subseteq FaultNames

VARIABLES
  (* CaptureRunner *)
  active, stop_flag,
  spc,            \* position of the submit call for a run
  wpc,            \* position of the worker thread of a run
  kpc,            \* position of the stop call for a run
  job,            \* the request a run's worker was started for
  (* StatusStore *)
  status, disk,
  (* CommandFolderWatcher and the command files *)
  todo, watch, cmd, renamed,
  (* the clients *)
  cpc, req,
  (* the machine *)
  up, orphans,    \* the agent runs; adapters a dead agent left running
  dataset,        \* the request whose capture the target data set holds
  complete,       \* history: the request for which a worker's adapter last succeeded
  beside,         \* history: runs accepted while a dead agent's adapter for them ran
  served, stops   \* history: jobs accepted, number of stop calls

runnerVars == <<active, stop_flag, spc, wpc, kpc, job>>
storeVars == <<status, disk>>
watchVars == <<todo, watch, cmd, renamed>>
clientVars == <<cpc, req>>
dataVars == <<dataset, complete>>
worldVars == <<up, orphans, dataVars, beside, served, stops>>
vars == <<runnerVars, storeVars, watchVars, clientVars, worldVars>>

Final == {"success", "failed", "stopped"}
Status == {"none", "queued", "running"} \cup Final
Requests == 0..MaxRequests
NoCommand == [state |-> "absent", n |-> 0]
WatchIdle == [pc |-> "idle", run |-> NoRun, n |-> 0]
Ended == {"success", "failed", "error"}
Orphan == [run : Runs, n : Requests]

SubmitPCs == {"none", "clear", "upsert", "start"}
WorkerPCs == {"none", "begin", "check0", "orchestrator", "check1", "adapter",
              "check2", "success", "fail", "finally"}
ClientPCs == {"idle", "posting", "posted", "writing", "waiting"} \cup Ended

TypeOK ==
  /\ active \in Runs \cup {NoRun} /\ stop_flag \in BOOLEAN
  /\ spc \in [Runs -> SubmitPCs] /\ wpc \in [Runs -> WorkerPCs]
  /\ kpc \in [Runs -> {"none", "set", "update"}]
  /\ job \in [Runs -> Requests]
  /\ status \in [Runs -> Status] /\ disk \in [Runs -> Status]
  /\ todo \subseteq Runs
  /\ watch \in [pc : {"idle", "submit", "accepting", "handled", "invalid"},
                run : Runs \cup {NoRun}, n : Requests]
  /\ cmd \in [Runs -> [state : {"absent", "open", "ready"}, n : Requests]]
  /\ renamed \subseteq Runs \X {"handled", "invalid"}
  /\ cpc \in [Runs -> ClientPCs] /\ req \in [Runs -> Requests]
  /\ up \in BOOLEAN /\ orphans \subseteq Orphan
  /\ dataset \in [Runs -> Requests] /\ complete \in [Runs -> Requests]
  /\ beside \subseteq Runs
  /\ served \subseteq Runs \X Requests
  /\ stops \in 0..MaxStops

Init ==
  /\ active = NoRun /\ stop_flag = FALSE
  /\ spc = [r \in Runs |-> "none"] /\ wpc = [r \in Runs |-> "none"]
  /\ kpc = [r \in Runs |-> "none"] /\ job = [r \in Runs |-> 0]
  /\ status = [r \in Runs |-> "none"] /\ disk = [r \in Runs |-> "none"]
  /\ todo = {} /\ watch = WatchIdle
  /\ cmd = [r \in Runs |-> NoCommand] /\ renamed = {}
  /\ cpc = [r \in Runs |-> "idle"] /\ req = [r \in Runs |-> 0]
  /\ up = TRUE /\ orphans = {}
  /\ dataset = [r \in Runs |-> 0] /\ complete = [r \in Runs |-> 0]
  /\ beside = {}
  /\ served = {} /\ stops = 0

-----------------------------------------------------------------------------
(***************************************************************************)
(* StatusStore.  Memory is changed first; when the mirror file cannot be   *)
(* replaced the call raises with the new status already in memory.         *)
(***************************************************************************)
Stored(r, s) ==
  /\ status' = [status EXCEPT ![r] = s]
  /\ disk' = [disk EXCEPT ![r] = s]

StoreRaises(r, s) ==
  /\ "statuswrite" \in Faults
  /\ status' = [status EXCEPT ![r] = s]
  /\ UNCHANGED disk

-----------------------------------------------------------------------------
(***************************************************************************)
(* CaptureRunner.submit, called by an HTTP handler or by the watcher.      *)
(***************************************************************************)

\* Whether an adapter that a dead agent started may still replace the run's data set.
AdapterLeft(r) == \E o \in orphans : o.run = r

\* The active run is not looked at.
Accept_Bug(r, n) ==
  /\ spc[r] = "none" /\ wpc[r] = "none"
  /\ active' = r
  /\ spc' = [spc EXCEPT ![r] = "clear"]
  /\ job' = [job EXCEPT ![r] = n]
  /\ served' = served \cup {<<r, n>>}
  /\ beside' = IF AdapterLeft(r) THEN beside \cup {r} ELSE beside \ {r}

\* The first locked section: an idle agent takes the run.
Accept(r, n) ==
  /\ active = NoRun
  /\ active' = r
  /\ spc' = [spc EXCEPT ![r] = "clear"]
  /\ job' = [job EXCEPT ![r] = n]
  /\ served' = served \cup {<<r, n>>}
  /\ beside' = IF AdapterLeft(r) THEN beside \cup {r} ELSE beside \ {r}

SubmitClear(r) ==
  /\ spc[r] = "clear"
  /\ stop_flag' = FALSE
  /\ spc' = [spc EXCEPT ![r] = "upsert"]
  /\ UNCHANGED <<active, wpc, kpc, job, storeVars, watchVars, clientVars, worldVars>>

\* The caller learns that the upsert raised: the handler thread dies with its
\* connection, the watcher abandons the scan.  The run stays active.
SubmitRaises(r) ==
  /\ StoreRaises(r, "queued")
  /\ spc' = [spc EXCEPT ![r] = "none"]
  /\ IF watch.pc = "accepting" /\ watch.run = r
       THEN watch' = WatchIdle /\ todo' = {} /\ UNCHANGED cpc
       ELSE /\ cpc' = [cpc EXCEPT ![r] = IF @ = "posted" THEN "error" ELSE @]
            /\ UNCHANGED <<watch, todo>>

\* The status of an earlier capture with this run id is kept.
SubmitUpsert_Bug(r) ==
  /\ spc[r] = "upsert"
  /\ IF status[r] = "none" THEN Stored(r, "queued") ELSE UNCHANGED storeVars
  /\ spc' = [spc EXCEPT ![r] = "start"]
  /\ UNCHANGED <<watch, todo, cpc>>
  /\ UNCHANGED <<active, stop_flag, wpc, kpc, job, cmd, renamed, req, worldVars>>

SubmitUpsert(r) ==
  /\ spc[r] = "upsert"
  /\ \/ /\ Stored(r, "queued")
        /\ spc' = [spc EXCEPT ![r] = "start"]
        /\ UNCHANGED <<watch, todo, cpc>>
     \/ SubmitRaises(r)
  /\ UNCHANGED <<active, stop_flag, wpc, kpc, job, cmd, renamed, req, worldVars>>

\* The worker thread starts and the caller is told: 202, or rename the file.
SubmitStart(r) ==
  /\ spc[r] = "start"
  /\ spc' = [spc EXCEPT ![r] = "none"]
  /\ wpc' = [wpc EXCEPT ![r] = "begin"]
  /\ IF watch.pc = "accepting" /\ watch.run = r
       THEN watch' = [watch EXCEPT !.pc = "handled"] /\ UNCHANGED cpc
       ELSE /\ cpc' = [cpc EXCEPT ![r] = IF @ = "posted" THEN "waiting" ELSE @]
            /\ UNCHANGED watch
  /\ UNCHANGED <<active, stop_flag, kpc, job, storeVars, todo, cmd, renamed, req, worldVars>>

-----------------------------------------------------------------------------
(***************************************************************************)
(* CaptureRunner._run, the worker thread.  No action of the worker but the *)
(* end of a subprocess changes anything outside the runner and the store.  *)
(***************************************************************************)
WorkerGoto(r, l) == wpc' = [wpc EXCEPT ![r] = l]
WorkerFrame == UNCHANGED <<stop_flag, spc, kpc, job, watchVars, clientVars,
                           up, orphans, beside, served, stops>>

\* An update of the status, and where an exception of its own leads.
WorkerUpdate(r, s, l) ==
  \/ Stored(r, s) /\ WorkerGoto(r, l)
  \/ StoreRaises(r, s) /\ WorkerGoto(r, "fail")

\* The phase is stored where the status belongs.
WorkerBegin_Bug(r) ==
  /\ wpc[r] = "begin"
  /\ WorkerUpdate(r, "launching_dcs", "check0")
  /\ WorkerFrame /\ UNCHANGED <<active, dataVars>>

WorkerBegin(r) ==
  /\ wpc[r] = "begin"
  /\ WorkerUpdate(r, "running", "check0")
  /\ WorkerFrame /\ UNCHANGED <<active, dataVars>>

WorkerCheckStart(r) ==
  /\ wpc[r] = "check0"
  /\ WorkerGoto(r, IF stop_flag THEN "finally" ELSE "orchestrator")
  /\ WorkerFrame /\ UNCHANGED <<active, storeVars, dataVars>>

OrchestratorEnds(r) ==
  /\ wpc[r] = "orchestrator"
  /\ \/ WorkerGoto(r, "check1")
     \/ "process" \in Faults /\ WorkerGoto(r, "fail")
  /\ WorkerFrame /\ UNCHANGED <<active, storeVars, dataVars>>

\* Stopped during the capture, or on to phase "normalizing" and the adapter.
WorkerCheckCapture(r) ==
  /\ wpc[r] = "check1"
  /\ IF stop_flag THEN WorkerUpdate(r, "stopped", "finally")
                  ELSE WorkerUpdate(r, status[r], "adapter")
  /\ WorkerFrame /\ UNCHANGED <<active, dataVars>>

AdapterEnds(r) ==
  /\ wpc[r] = "adapter"
  /\ \/ /\ WorkerGoto(r, "check2")
        /\ dataset' = [dataset EXCEPT ![r] = job[r]]
        /\ complete' = [complete EXCEPT ![r] = job[r]]
     \/ "process" \in Faults /\ WorkerGoto(r, "fail") /\ UNCHANGED dataVars
  /\ WorkerFrame /\ UNCHANGED <<active, storeVars>>

WorkerCheckNormalize(r) ==
  /\ wpc[r] = "check2"
  /\ IF stop_flag THEN WorkerUpdate(r, "stopped", "finally")
                  ELSE WorkerGoto(r, "success") /\ UNCHANGED storeVars
  /\ WorkerFrame /\ UNCHANGED <<active, dataVars>>

WorkerSuccess(r) ==
  /\ wpc[r] = "success"
  /\ WorkerUpdate(r, "success", "finally")
  /\ WorkerFrame /\ UNCHANGED <<active, dataVars>>

\* The failure of a subprocess is logged and not reported.
WorkerFail_Bug(r) ==
  /\ wpc[r] = "fail"
  /\ WorkerGoto(r, "finally") /\ UNCHANGED storeVars
  /\ WorkerFrame /\ UNCHANGED <<active, dataVars>>

\* Every exception of _run; an exception of this update ends the thread too.
WorkerFail(r) ==
  /\ wpc[r] = "fail"
  /\ Stored(r, "failed") \/ StoreRaises(r, "failed")
  /\ WorkerGoto(r, "finally")
  /\ WorkerFrame /\ UNCHANGED <<active, dataVars>>

\* The slot is given back only by a capture that ended in success.
WorkerFinally_Bug(r) ==
  /\ wpc[r] = "finally"
  /\ active' = IF status[r] = "success" THEN NoRun ELSE active
  /\ WorkerGoto(r, "none")
  /\ WorkerFrame /\ UNCHANGED <<storeVars, dataVars>>

WorkerFinally(r) ==
  /\ wpc[r] = "finally"
  /\ active' = NoRun
  /\ WorkerGoto(r, "none")
  /\ WorkerFrame /\ UNCHANGED <<storeVars, dataVars>>

Worker(r) ==
  \/ WorkerBegin(r) \/ WorkerCheckStart(r) \/ OrchestratorEnds(r)
  \/ WorkerCheckCapture(r) \/ AdapterEnds(r) \/ WorkerCheckNormalize(r)
  \/ WorkerSuccess(r) \/ WorkerFail(r) \/ WorkerFinally(r)

-----------------------------------------------------------------------------
(***************************************************************************)
(* CaptureRunner.stop.  The agent is built without a process_terminator,   *)
(* so a stop never ends a subprocess.                                      *)
(***************************************************************************)
StopCheck(r) ==
  /\ up /\ stops < MaxStops
  /\ active = r /\ kpc[r] = "none"
  /\ kpc' = [kpc EXCEPT ![r] = "set"]
  /\ stops' = stops + 1
  /\ UNCHANGED <<active, stop_flag, spc, wpc, job, storeVars, watchVars, clientVars,
                 up, orphans, dataVars, beside, served>>

StopSet(r) ==
  /\ kpc[r] = "set"
  /\ stop_flag' = TRUE
  /\ kpc' = [kpc EXCEPT ![r] = "update"]
  /\ UNCHANGED <<active, spc, wpc, job, storeVars, watchVars, clientVars, worldVars>>

\* A stop gives the slot back although the subprocess still runs.
StopUpdate_Bug(r) ==
  /\ kpc[r] = "update"
  /\ IF status[r] = "none" THEN UNCHANGED storeVars
     ELSE Stored(r, "stopped") \/ StoreRaises(r, "stopped")
  /\ kpc' = [kpc EXCEPT ![r] = "none"]
  /\ active' = NoRun
  /\ UNCHANGED <<stop_flag, spc, wpc, job, watchVars, clientVars, worldVars>>

\* A run the store does not know yet is left alone.
StopUpdate(r) ==
  /\ kpc[r] = "update"
  /\ IF status[r] = "none" THEN UNCHANGED storeVars
     ELSE Stored(r, "stopped") \/ StoreRaises(r, "stopped")
  /\ kpc' = [kpc EXCEPT ![r] = "none"]
  /\ UNCHANGED <<active, stop_flag, spc, wpc, job, watchVars, clientVars, worldVars>>

-----------------------------------------------------------------------------
(***************************************************************************)
(* CommandFolderWatcher._scan_once.  The files of one scan are visited in  *)
(* some order; the watcher waits while its own submit call is running.     *)
(***************************************************************************)
WatchFrame == UNCHANGED <<stop_flag, wpc, kpc, storeVars, clientVars,
                          up, orphans, dataVars, stops>>

WatchScan ==
  /\ up /\ watch.pc = "idle" /\ todo = {}
  /\ todo' = {r \in Runs : cmd[r].state # "absent"} /\ todo' # {}
  /\ WatchFrame /\ UNCHANGED <<active, spc, job, served, beside, watch, cmd, renamed>>

\* A file that is still being written does not parse.
WatchRead(r) ==
  /\ watch.pc = "idle" /\ r \in todo
  /\ todo' = todo \ {r}
  /\ watch' = [pc |-> IF cmd[r].state = "ready" THEN "submit" ELSE "invalid",
               run |-> r, n |-> cmd[r].n]
  /\ WatchFrame /\ UNCHANGED <<active, spc, job, served, beside, cmd, renamed>>

WatchSubmit ==
  /\ watch.pc = "submit"
  /\ \/ Accept(watch.run, watch.n) /\ watch' = [watch EXCEPT !.pc = "accepting"]
     \/ /\ active # NoRun         \* left for the next tick
        /\ watch' = WatchIdle
        /\ UNCHANGED <<active, spc, job, served, beside>>
  /\ WatchFrame /\ UNCHANGED <<todo, cmd, renamed>>

\* A handled command stays in the folder.
WatchMark_Bug ==
  /\ watch.pc \in {"handled", "invalid"}
  /\ renamed' = renamed \cup {<<watch.run, watch.pc>>}
  /\ UNCHANGED cmd
  /\ watch' = WatchIdle
  /\ WatchFrame /\ UNCHANGED <<active, spc, job, served, beside, todo>>

\* _mark_handled.  Path.rename takes along whatever the file holds by now.  On
\* Windows it fails when the target exists or the file is open; that is logged.
WatchMark ==
  /\ watch.pc \in {"handled", "invalid"}
  /\ LET target == <<watch.run, watch.pc>> IN
     IF target \in renamed \/ cmd[watch.run].state = "open"
       THEN UNCHANGED <<cmd, renamed>>
       ELSE /\ renamed' = renamed \cup {target}
            /\ cmd' = [cmd EXCEPT ![watch.run] = NoCommand]
  /\ watch' = WatchIdle
  /\ WatchFrame /\ UNCHANGED <<active, spc, job, served, beside, todo>>

Watcher == WatchScan \/ (\E r \in Runs : WatchRead(r)) \/ WatchSubmit \/ WatchMark

-----------------------------------------------------------------------------
(***************************************************************************)
(* The clients: cmd_request_capture with AgentClient.                      *)
(***************************************************************************)
ClientGoto(r, l) == cpc' = [cpc EXCEPT ![r] = l]

\* A new request, or a further one with the same run id.  write_text opens and
\* empties the command file first.
Request(r) ==
  /\ cpc[r] \in {"idle"} \cup Ended /\ req[r] < MaxRequests
  /\ req' = [req EXCEPT ![r] = @ + 1]
  /\ IF Via[r] = "http"
       THEN ClientGoto(r, "posting") /\ UNCHANGED cmd
       ELSE /\ ClientGoto(r, "writing")
            /\ cmd' = [cmd EXCEPT ![r] = [state |-> "open", n |-> req[r] + 1]]
  /\ UNCHANGED <<runnerVars, storeVars, todo, watch, renamed, worldVars>>

\* The command is complete and the client reports accepted = True.
CommandWritten(r) ==
  /\ cpc[r] = "writing"
  /\ cmd' = [cmd EXCEPT ![r].state = "ready"]
  /\ ClientGoto(r, "waiting")
  /\ UNCHANGED <<runnerVars, storeVars, todo, watch, renamed, req, worldVars>>

\* POST /capture/start.  A busy agent answers 409, which urlopen raises; so
\* does an agent that is not running.
Post(r) ==
  /\ cpc[r] = "posting"
  /\ \/ up /\ Accept(r, req[r]) /\ ClientGoto(r, "posted")
     \/ /\ up => active # NoRun
        /\ ClientGoto(r, "error") /\ UNCHANGED <<active, spc, job, served, beside>>
  /\ UNCHANGED <<stop_flag, wpc, kpc, storeVars, watchVars, req,
                 up, orphans, dataVars, stops>>

\* get_status reads the memory of the agent or the mirror file; only a final
\* status ends the wait.
Seen(r) == IF Via[r] = "http" THEN status[r] ELSE disk[r]

Poll(r) ==
  /\ cpc[r] = "waiting"
  /\ \/ /\ Via[r] = "http" => up
        /\ Seen(r) \in Final
        /\ ClientGoto(r, IF Seen(r) = "success" THEN "success" ELSE "failed")
     \/ Via[r] = "http" /\ ~up /\ ClientGoto(r, "error")
  /\ UNCHANGED <<runnerVars, storeVars, watchVars, req, worldVars>>

GiveUp(r) ==
  /\ \/ cpc[r] = "posted" /\ "lostreply" \in Faults
     \/ cpc[r] = "waiting" /\ "giveup" \in Faults
  /\ ClientGoto(r, "error")
  /\ UNCHANGED <<runnerVars, storeVars, watchVars, req, worldVars>>

-----------------------------------------------------------------------------
(***************************************************************************)
(* The agent process dies and is started again.  Its threads and its       *)
(* memory are gone; the subprocess it was waiting for goes on.  A leftover *)
(* orchestrator only adds to the directory the adapter reads, which this   *)
(* module does not have; a leftover adapter is an orphan.                  *)
(***************************************************************************)
InDcs(r) == wpc[r] \in {"orchestrator", "adapter"}

AgentDies ==
  /\ up /\ "restart" \in Faults
  /\ up' = FALSE
  /\ orphans' = orphans \cup
       {[run |-> r, n |-> job[r]] : r \in {x \in Runs : wpc[x] = "adapter"}}
  /\ active' = NoRun /\ stop_flag' = FALSE
  /\ spc' = [r \in Runs |-> "none"] /\ wpc' = [r \in Runs |-> "none"]
  /\ kpc' = [r \in Runs |-> "none"]
  /\ status' = [r \in Runs |-> "none"]
  /\ todo' = {} /\ watch' = WatchIdle
  /\ cpc' = [r \in Runs |-> IF cpc[r] = "posted" THEN "error" ELSE cpc[r]]
  /\ UNCHANGED <<job, disk, cmd, renamed, req, dataVars, beside, served, stops>>

AgentStarts ==
  /\ ~up /\ up' = TRUE
  /\ UNCHANGED <<runnerVars, storeVars, watchVars, clientVars,
                 orphans, dataVars, beside, served, stops>>

\* Nobody waits for a leftover adapter any more.  When it succeeds it replaces the
\* target data set (--overwrite), whatever has been captured in the meantime.
OrphanEnds(o) ==
  /\ o \in orphans /\ orphans' = orphans \ {o}
  /\ \/ dataset' = [dataset EXCEPT ![o.run] = o.n]
     \/ "process" \in Faults /\ UNCHANGED dataset
  /\ UNCHANGED <<runnerVars, storeVars, watchVars, clientVars,
                 up, complete, beside, served, stops>>

-----------------------------------------------------------------------------
Submit(r) == SubmitClear(r) \/ SubmitUpsert(r) \/ SubmitStart(r)
Stop(r) == StopCheck(r) \/ StopSet(r) \/ StopUpdate(r)
Client(r) == Request(r) \/ CommandWritten(r) \/ Post(r) \/ Poll(r) \/ GiveUp(r)

Next ==
  \/ Watcher \/ AgentDies \/ AgentStarts
  \/ \E r \in Runs : Submit(r) \/ Worker(r) \/ Stop(r) \/ Client(r)
  \/ \E o \in orphans : OrphanEnds(o)

Spec == Init /\ [][Next]_vars

(***************************************************************************)
(* Threads are scheduled, subprocesses end (subprocess.run has a timeout), *)
(* the watcher and the clients keep polling.  Nobody is obliged to make a  *)
(* request or to stop one.                                                 *)
(***************************************************************************)
Fairness ==
  /\ WF_vars(Watcher)
  /\ \A r \in Runs : /\ WF_vars(Submit(r)) /\ WF_vars(Worker(r))
                     /\ WF_vars(StopSet(r) \/ StopUpdate(r))
                     /\ WF_vars(CommandWritten(r) \/ Post(r) \/ Poll(r))

FairSpec == Spec /\ Fairness

-----------------------------------------------------------------------------
(***************************************************************************)
(* Properties.                                                             *)
(***************************************************************************)

\* "Run one DCS capture at a time": whatever handlers, watcher, workers and
\* stops do, no two captures of one agent process have a subprocess running.
OneCapture == \A r, s \in Runs : InDcs(r) /\ InDcs(s) => r = s

\* A client that reports success got the data set of its own request: a worker's
\* adapter succeeded for it, not for an older request with the same run id, and
\* its capture is what the dataset holds.  The one exception is a request that was
\* accepted while the adapter of a dead agent was still running for this run id:
\* _run_subprocess has no way to know of it, and it may replace the data last.
FreshSuccess ==
  \A r \in Runs : cpc[r] = "success" =>
    /\ complete[r] = req[r]
    /\ r \notin beside => dataset[r] = req[r]

\* A request is captured once: no command is accepted a second time.
ServedOnce ==
  [][active = NoRun /\ active' # NoRun
       => <<active', job'[active']>> \notin served]_<<active, job, served>>

\* As long as nobody called stop, an idle agent has no run queued or running in
\* its store, whatever failed and however often it was restarted: whoever polls
\* it gets a final status.  (A stop that arrives between submit and the first
\* update of the worker breaks this: see the README.)
IdleMeansSettled ==
  stops = 0 /\ active = NoRun =>
    \A r \in Runs : status[r] \notin {"queued", "running"}

\* The agent never stays busy for ever with one capture, except where the upsert of
\* submit raised: then the slot is taken by a queued run that has no worker thread
\* to give it back.
NeverStarted(r) == active = r /\ spc[r] = "none" /\ wpc[r] = "none" /\ status[r] = "queued"
BecomesIdle == \A r \in Runs : active = r ~> active # r \/ NeverStarted(r)

\* Every request ends with an answer for its client.
ClientEnds(r) == cpc[r] \in {"posting", "posted", "writing", "waiting"} ~> cpc[r] \in Ended
HttpClientsEnd == \A r \in Runs : Via[r] = "http" => ClientEnds(r)

\* The agent implements the single slot of JobSlot.
Slot == INSTANCE JobSlot WITH slot <- active, working <- {r \in Runs : InDcs(r)}
SlotSpec == Slot!Spec
=============================================================================
