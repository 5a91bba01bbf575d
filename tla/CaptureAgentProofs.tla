-------------------------- MODULE CaptureAgentProofs --------------------------
(***************************************************************************)
(* Proofs about CaptureAgent for every set of run ids, every number of     *)
(* requests and stop calls and every set of faults, except where a theorem *)
(* says otherwise.                                                         *)
(***************************************************************************)
EXTENDS CaptureAgent, TLAPS

\* The watcher holds a run unless it is between two files.
TypeInv == TypeOK /\ (watch.pc # "idle" => watch.run \in Runs)

\* A leftover adapter ends.
OrphanStep == \E o \in orphans : OrphanEnds(o)

(***************************************************************************)
(* The slot: a submit call between its locked sections and a worker thread *)
(* exist for the active run only, and not both.                            *)
(***************************************************************************)
Holder(r) ==
  /\ spc[r] # "none" \/ wpc[r] # "none" => active = r
  /\ spc[r] # "none" => wpc[r] = "none"
SlotInv == TypeInv /\ \A r \in Runs : Holder(r)

-----------------------------------------------------------------------------
(***************************************************************************)
(* Types.                                                                  *)
(***************************************************************************)
LEMMA TypeInit == Init => TypeInv
<1> SUFFICES ASSUME Init PROVE TypeInv
  OBVIOUS
<1> USE ConstantsAssumption DEF Init, Requests
<1>0. 0 \in Requests
  OBVIOUS
<1>1. /\ active \in Runs \cup {NoRun} /\ stop_flag \in BOOLEAN
      /\ spc \in [Runs -> SubmitPCs] /\ wpc \in [Runs -> WorkerPCs]
      /\ kpc \in [Runs -> {"none", "set", "update"}] /\ job \in [Runs -> Requests]
  BY <1>0 DEF SubmitPCs, WorkerPCs
<1>2. /\ status \in [Runs -> Status] /\ disk \in [Runs -> Status]
      /\ cpc \in [Runs -> ClientPCs] /\ req \in [Runs -> Requests]
      /\ dataset \in [Runs -> Requests] /\ complete \in [Runs -> Requests]
  BY DEF Status, ClientPCs
<1>3. /\ todo \subseteq Runs /\ renamed \subseteq Runs \X {"handled", "invalid"}
      /\ served \subseteq Runs \X Requests
      /\ up \in BOOLEAN /\ orphans \subseteq Orphan /\ beside \subseteq Runs /\ stops \in 0..MaxStops
  OBVIOUS
<1>4. watch.pc = "idle" /\ watch \in [pc : {"idle", "submit", "accepting", "handled", "invalid"},
                run : Runs \cup {NoRun}, n : Requests]
  BY DEF WatchIdle
<1>5. cmd \in [Runs -> [state : {"absent", "open", "ready"}, n : Requests]]
  BY DEF NoCommand
<1> HIDE DEF Init
<1> QED BY <1>1, <1>2, <1>3, <1>4, <1>5 DEF TypeInv, TypeOK

\* The store keeps its shape, whether the mirror file could be written or not.
LEMMA TypeStore ==
  ASSUME TypeInv, NEW r \in Runs, NEW s \in Status, Stored(r, s) \/ StoreRaises(r, s)
  PROVE  status' \in [Runs -> Status] /\ disk' \in [Runs -> Status]
<1>1. status \in [Runs -> Status] /\ disk \in [Runs -> Status]
  BY DEF TypeInv, TypeOK
<1> QED BY <1>1 DEF Stored, StoreRaises

LEMMA TypeAccept ==
  ASSUME TypeInv, NEW r \in Runs, NEW n \in Requests, Accept(r, n)
  PROVE  /\ active' \in Runs \cup {NoRun} /\ spc' \in [Runs -> SubmitPCs]
         /\ job' \in [Runs -> Requests] /\ served' \subseteq Runs \X Requests
         /\ beside' \subseteq Runs
  BY DEF TypeInv, TypeOK, Accept, SubmitPCs

LEMMA TypeSubmit == ASSUME TypeInv, NEW r \in Runs, Submit(r) PROVE TypeInv'
<1> USE DEF TypeInv, TypeOK, SubmitPCs, WorkerPCs, ClientPCs, Ended, WatchIdle, Requests,
        runnerVars, storeVars, watchVars, clientVars, worldVars, dataVars
<1>1. CASE SubmitClear(r) BY <1>1 DEF SubmitClear
<1>2. CASE SubmitUpsert(r)
  <2>1. status' \in [Runs -> Status] /\ disk' \in [Runs -> Status]
    BY <1>2, TypeStore DEF SubmitUpsert, SubmitRaises, Status
  <2>2. spc' \in [Runs -> SubmitPCs]
    BY <1>2 DEF SubmitUpsert, SubmitRaises
  <2>4. cpc' \in [Runs -> ClientPCs]
    <3>1. CASE UNCHANGED cpc
      BY <3>1
    <3>2. CASE cpc' = [cpc EXCEPT ![r] = IF @ = "posted" THEN "error" ELSE @]
      BY <3>2
    <3> QED BY <1>2, <3>1, <3>2 DEF SubmitUpsert, SubmitRaises
  <2>3. todo' \subseteq Runs
        /\ watch' \in [pc : {"idle", "submit", "accepting", "handled", "invalid"},
                       run : Runs \cup {NoRun}, n : Requests]
    BY <1>2, ConstantsAssumption DEF SubmitUpsert, SubmitRaises
  <2>5. watch'.pc # "idle" => watch'.run \in Runs
    BY <1>2 DEF SubmitUpsert, SubmitRaises
  <2> HIDE DEF WatchIdle
  <2> QED BY <1>2, <2>1, <2>2, <2>3, <2>4, <2>5 DEF SubmitUpsert
<1>3. CASE SubmitStart(r) BY <1>3 DEF SubmitStart
<1> QED BY <1>1, <1>2, <1>3 DEF Submit

LEMMA TypeWorker == ASSUME TypeInv, NEW r \in Runs, Worker(r) PROVE TypeInv'
<1>1. /\ status' \in [Runs -> Status] /\ disk' \in [Runs -> Status]
      /\ wpc' \in [Runs -> WorkerPCs]
      /\ active' \in Runs \cup {NoRun} /\ complete' \in [Runs -> Requests]
      /\ dataset' \in [Runs -> Requests]
      /\ WorkerFrame
  <2> USE TypeStore
      DEF TypeInv, TypeOK, WorkerPCs, Status, Final, WorkerGoto, WorkerUpdate, storeVars, dataVars
  <2>1. CASE WorkerBegin(r) BY <2>1 DEF WorkerBegin
  <2>2. CASE WorkerCheckStart(r) BY <2>2 DEF WorkerCheckStart
  <2>3. CASE OrchestratorEnds(r) BY <2>3 DEF OrchestratorEnds
  <2>4. CASE WorkerCheckCapture(r)
    <3>1. status[r] \in Status
      BY DEF TypeInv, TypeOK
    <3>2. \E u \in Status : Stored(r, u) \/ StoreRaises(r, u)
      BY <2>4, <3>1 DEF WorkerCheckCapture
    <3> QED BY <2>4, <3>2 DEF WorkerCheckCapture
  <2>5. CASE AdapterEnds(r)
    <3>1. job[r] \in Requests /\ complete \in [Runs -> Requests]
          /\ dataset \in [Runs -> Requests]
      BY DEF TypeInv, TypeOK
    <3> QED BY <2>5, <3>1 DEF AdapterEnds
  <2>6. CASE WorkerCheckNormalize(r) BY <2>6 DEF WorkerCheckNormalize
  <2>7. CASE WorkerSuccess(r) BY <2>7 DEF WorkerSuccess
  <2>8. CASE WorkerFail(r) BY <2>8 DEF WorkerFail
  <2>9. CASE WorkerFinally(r) BY <2>9 DEF WorkerFinally
  <2> QED BY <2>1, <2>2, <2>3, <2>4, <2>5, <2>6, <2>7, <2>8, <2>9 DEF Worker
<1> QED BY <1>1 DEF TypeInv, TypeOK, WorkerFrame, watchVars, clientVars

LEMMA TypeStop == ASSUME TypeInv, NEW r \in Runs, Stop(r) PROVE TypeInv'
<1> USE DEF TypeInv, TypeOK, runnerVars, storeVars, watchVars, clientVars, worldVars, dataVars
<1>1. CASE StopCheck(r) BY <1>1, ConstantsAssumption DEF StopCheck
<1>2. CASE StopSet(r) BY <1>2 DEF StopSet
<1>3. CASE StopUpdate(r)
  <2>1. status' \in [Runs -> Status] /\ disk' \in [Runs -> Status]
    BY <1>3, TypeStore DEF StopUpdate, Status, Final
  <2> QED BY <1>3, <2>1 DEF StopUpdate
<1> QED BY <1>1, <1>2, <1>3 DEF Stop

LEMMA TypeWatch == ASSUME TypeInv, Watcher PROVE TypeInv'
<1> USE ConstantsAssumption
    DEF TypeInv, TypeOK, WatchFrame, WatchIdle, NoCommand, Requests,
        runnerVars, storeVars, watchVars, clientVars, worldVars, dataVars
<1>1. CASE WatchScan BY <1>1 DEF WatchScan
<1>2. ASSUME NEW r \in Runs, WatchRead(r) PROVE TypeInv'
  BY <1>2 DEF WatchRead
<1>3. CASE WatchSubmit
  <2>1. watch.run \in Runs /\ watch.n \in Requests
    BY <1>3 DEF WatchSubmit
  <2>2. CASE Accept(watch.run, watch.n)
    <3>1. /\ active' \in Runs \cup {NoRun} /\ spc' \in [Runs -> SubmitPCs]
          /\ job' \in [Runs -> Requests] /\ served' \subseteq Runs \X Requests
          /\ beside' \subseteq Runs
      BY <2>1, <2>2, TypeAccept
    <3> HIDE DEF Requests
    <3>2. /\ watch' \in [pc : {"idle", "submit", "accepting", "handled", "invalid"},
                         run : Runs \cup {NoRun}, n : Requests]
          /\ watch'.run \in Runs
      BY <1>3, <2>1, <2>2 DEF WatchSubmit, Accept
    <3>3. WatchFrame /\ UNCHANGED <<todo, cmd, renamed>>
      BY <1>3 DEF WatchSubmit
    <3> QED BY <3>1, <3>2, <3>3
  <2>3. CASE ~Accept(watch.run, watch.n)
    BY <1>3, <2>3 DEF WatchSubmit
  <2> QED BY <2>2, <2>3
<1>4. CASE WatchMark
  <2>1. watch.run \in Runs /\ NoCommand \in [state : {"absent", "open", "ready"}, n : Requests]
    BY <1>4 DEF WatchMark
  <2>2. cmd' \in [Runs -> [state : {"absent", "open", "ready"}, n : Requests]]
        /\ renamed' \subseteq Runs \X {"handled", "invalid"}
    <3> HIDE DEF NoCommand
    <3>1. CASE UNCHANGED <<cmd, renamed>>
      BY <3>1
    <3>2. CASE ~UNCHANGED <<cmd, renamed>>
      <4>1. cmd' = [cmd EXCEPT ![watch.run] = NoCommand]
            /\ renamed' = renamed \cup {<<watch.run, watch.pc>>}
        BY <1>4, <3>2 DEF WatchMark
      <4>2. watch.pc \in {"handled", "invalid"}
        BY <1>4 DEF WatchMark
      <4> QED BY <2>1, <4>1, <4>2
    <3> QED BY <3>1, <3>2
  <2> QED BY <1>4, <2>2 DEF WatchMark
<1> QED BY <1>1, <1>2, <1>3, <1>4 DEF Watcher

LEMMA TypeClient == ASSUME TypeInv, NEW r \in Runs, Client(r) PROVE TypeInv'
<1> USE ConstantsAssumption
    DEF TypeInv, TypeOK, ClientPCs, Ended, ClientGoto, Requests,
        runnerVars, storeVars, watchVars, clientVars, worldVars, dataVars
<1>1. CASE Request(r)
  <2>1. req[r] + 1 \in Requests
    BY <1>1 DEF Request
  <2>2. req' \in [Runs -> Requests] /\ cpc' \in [Runs -> ClientPCs]
    BY <1>1, <2>1 DEF Request
  <2>3. cmd' \in [Runs -> [state : {"absent", "open", "ready"}, n : Requests]]
    BY <1>1, <2>1 DEF Request
  <2> QED BY <1>1, <2>2, <2>3 DEF Request
<1>2. CASE CommandWritten(r) BY <1>2 DEF CommandWritten
<1>3. CASE Post(r)
  <2>1. req[r] \in Requests
    OBVIOUS
  <2>2. CASE Accept(r, req[r])
    <3>1. /\ active' \in Runs \cup {NoRun} /\ spc' \in [Runs -> SubmitPCs]
          /\ job' \in [Runs -> Requests] /\ served' \subseteq Runs \X Requests
          /\ beside' \subseteq Runs
      BY <2>1, <2>2, TypeAccept
    <3> HIDE DEF Requests
    <3>2. cpc' \in [Runs -> ClientPCs]
      BY <1>3, <2>2 DEF Post, Accept
    <3> QED BY <1>3, <3>1, <3>2 DEF Post
  <2>3. CASE ~Accept(r, req[r])
    BY <1>3, <2>3 DEF Post
  <2> QED BY <2>2, <2>3
<1>4. CASE Poll(r) BY <1>4 DEF Poll
<1>5. CASE GiveUp(r) BY <1>5 DEF GiveUp
<1> QED BY <1>1, <1>2, <1>3, <1>4, <1>5 DEF Client

LEMMA TypeStep == TypeInv /\ [Next]_vars => TypeInv'
<1> SUFFICES ASSUME TypeInv, [Next]_vars PROVE TypeInv'
  OBVIOUS
<1>1. CASE UNCHANGED vars
  BY <1>1 DEF vars, TypeInv, TypeOK, runnerVars, storeVars, watchVars, clientVars, worldVars, dataVars
<1>2. CASE AgentStarts \/ OrphanStep
  <2>1. CASE AgentStarts
    BY <2>1 DEF AgentStarts, TypeInv, TypeOK, runnerVars, storeVars, watchVars, clientVars, dataVars
  <2>2. ASSUME NEW o \in orphans, OrphanEnds(o) PROVE TypeInv'
    <3>1. o.run \in Runs /\ o.n \in Requests
      BY <2>2 DEF TypeInv, TypeOK, Orphan
    <3> QED BY <2>2, <3>1 DEF OrphanEnds, TypeInv, TypeOK, runnerVars, storeVars, watchVars, clientVars
  <2> QED BY <1>2, <2>1, <2>2 DEF OrphanStep
<1>3. CASE AgentDies
  <2> USE <1>3 DEF AgentDies
  <2>1. watch' \in [pc : {"idle", "submit", "accepting", "handled", "invalid"},
                    run : Runs \cup {NoRun}, n : Requests] /\ watch'.pc = "idle"
    BY ConstantsAssumption DEF WatchIdle, Requests
  <2>2. /\ spc' \in [Runs -> SubmitPCs] /\ wpc' \in [Runs -> WorkerPCs]
        /\ kpc' \in [Runs -> {"none", "set", "update"}] /\ status' \in [Runs -> Status]
    BY DEF SubmitPCs, WorkerPCs, Status
  <2>3. cpc' \in [Runs -> ClientPCs]
    BY DEF TypeInv, TypeOK, ClientPCs, Ended
  <2>4. orphans' \subseteq Orphan
    BY DEF TypeInv, TypeOK, Orphan
  <2> QED BY <2>1, <2>2, <2>3, <2>4 DEF TypeInv, TypeOK, dataVars
<1> QED
  BY <1>1, <1>2, <1>3, TypeSubmit, TypeWorker, TypeStop, TypeWatch, TypeClient DEF Next, OrphanStep

\* Every variable of the agent and its clients keeps its type (CaptureRunner,
\* StatusStore, CommandFolderWatcher and AgentClient), whatever faults occur.
THEOREM TypeCorrect == Spec => []TypeOK
<1>1. TypeInv => TypeOK
  BY DEF TypeInv
<1> QED BY TypeInit, TypeStep, <1>1, PTL DEF Spec

-----------------------------------------------------------------------------
(***************************************************************************)
(* The slot.                                                               *)
(***************************************************************************)

\* Nobody but submit, the end of a worker and the death of the agent touches the
\* slot; a stop call, a client and the watcher between its submits do not.
LEMMA SlotFrame ==
  ASSUME \/ \E r \in Runs : Stop(r) \/ Request(r) \/ CommandWritten(r)
                            \/ Poll(r) \/ GiveUp(r) \/ WatchRead(r)
         \/ WatchScan \/ WatchMark \/ AgentStarts \/ OrphanStep
  PROVE  UNCHANGED <<active, spc, wpc, job, complete>>
  BY DEF Stop, StopCheck, StopSet, StopUpdate, OrphanStep, OrphanEnds, Request, CommandWritten, Poll, GiveUp,
     WatchRead, WatchScan, WatchMark, AgentStarts, WatchFrame, runnerVars, worldVars, dataVars

LEMMA SlotWorker ==
  ASSUME SlotInv, NEW r \in Runs, Worker(r)
  PROVE  /\ active = r /\ spc[r] = "none" /\ UNCHANGED <<spc, job>>
         /\ \/ wpc'[r] # "none" /\ UNCHANGED active
            \/ wpc[r] = "finally" /\ wpc'[r] = "none" /\ active' = NoRun
         /\ \A s \in Runs \ {r} : wpc'[s] = wpc[s]
<1>1. wpc[r] # "none" /\ active = r /\ spc[r] = "none"
  BY DEF Worker, WorkerBegin, WorkerCheckStart, OrchestratorEnds, WorkerCheckCapture, AdapterEnds,
     WorkerCheckNormalize, WorkerSuccess, WorkerFail, WorkerFinally, SlotInv, Holder
<1>2. wpc \in [Runs -> WorkerPCs]
  BY DEF SlotInv, TypeInv, TypeOK
<1>3. UNCHANGED <<spc, job>>
  BY DEF Worker, WorkerBegin, WorkerCheckStart, OrchestratorEnds, WorkerCheckCapture, AdapterEnds,
     WorkerCheckNormalize, WorkerSuccess, WorkerFail, WorkerFinally, WorkerFrame
<1>4. \/ WorkerFinally(r)
      \/ UNCHANGED active /\ \E l \in WorkerPCs \ {"none"} : WorkerGoto(r, l)
  BY DEF Worker, WorkerBegin, WorkerCheckStart, OrchestratorEnds, WorkerCheckCapture, AdapterEnds,
     WorkerCheckNormalize, WorkerSuccess, WorkerFail, WorkerUpdate, WorkerPCs
<1> QED BY <1>1, <1>2, <1>3, <1>4 DEF WorkerFinally, WorkerGoto

LEMMA SlotStep == SlotInv /\ [Next]_vars => SlotInv'
<1> SUFFICES ASSUME SlotInv, [Next]_vars PROVE \A s \in Runs : Holder(s)'
  BY TypeStep DEF SlotInv
<1> USE ConstantsAssumption DEF SlotInv, Holder
<1>0. TypeOK
  BY DEF TypeInv
<1>1. CASE UNCHANGED vars BY <1>1 DEF vars, runnerVars
<1>2. ASSUME NEW r \in Runs, NEW n \in Requests, Accept(r, n), UNCHANGED wpc
      PROVE  \A s \in Runs : Holder(s)'
  BY <1>0, <1>2 DEF Accept, TypeOK
<1>3. ASSUME NEW r \in Runs, Submit(r) PROVE \A s \in Runs : Holder(s)'
  BY <1>0, <1>3 DEF Submit, SubmitClear, SubmitUpsert, SubmitRaises, SubmitStart, TypeOK
<1>4. ASSUME NEW r \in Runs, Worker(r) PROVE \A s \in Runs : Holder(s)'
  BY <1>4, SlotWorker
<1>5. CASE AgentDies BY <1>0, <1>5 DEF AgentDies
<1>6. CASE WatchSubmit
  BY <1>0, <1>2, <1>6 DEF WatchSubmit, WatchFrame, TypeInv, TypeOK
<1>7. ASSUME NEW r \in Runs, Post(r) PROVE \A s \in Runs : Holder(s)'
  BY <1>0, <1>2, <1>7 DEF Post, TypeOK
<1>8. ASSUME UNCHANGED <<active, spc, wpc>> PROVE \A s \in Runs : Holder(s)'
  BY <1>8
<1> QED
  BY <1>1, <1>3, <1>4, <1>5, <1>6, <1>7, <1>8, SlotFrame DEF Next, Watcher, Client, OrphanStep

THEOREM SlotHolds == Spec => []SlotInv
<1>1. Init => SlotInv
  BY TypeInit DEF Init, SlotInv, Holder
<1> QED BY <1>1, SlotStep, PTL DEF Spec

\* CaptureRunner runs one capture at a time: for any number of run ids, handler
\* threads, command files and stop calls no two captures of an agent process ever
\* have a subprocess running.
THEOREM OneCaptureHolds == Spec => []OneCapture
<1>1. SlotInv => OneCapture
  BY DEF SlotInv, Holder, OneCapture, InDcs
<1> QED BY SlotHolds, <1>1, PTL

\* The agent implements JobSlot: a submit takes the slot, the start of a
\* subprocess is work, its end is rest, and only the end of the worker thread
\* gives the slot back.
THEOREM ImplementsJobSlot == Spec => SlotSpec
<1> DEFINE W == {r \in Runs : InDcs(r)}
<1>1. Init => Slot!Init
  BY DEF Init, Slot!Init, InDcs
<1>2. ASSUME SlotInv, Next PROVE Slot!Next \/ UNCHANGED Slot!vars
  <2> USE ConstantsAssumption
  <2>1. ASSUME NEW r \in Runs, Worker(r) PROVE Slot!Next \/ UNCHANGED Slot!vars
    <3>1. active = r /\ W \in {{}, {r}} /\ W' \in {{}, {r}}
      BY <1>2, <2>1, SlotWorker DEF SlotInv, Holder, InDcs
    <3>2. \/ UNCHANGED active
          \/ active' = NoRun /\ W = {} /\ W' = {}
      BY <1>2, <2>1, <3>1, SlotWorker DEF SlotInv, InDcs
    <3> HIDE DEF W
    <3>3. Slot!Work(r) \/ Slot!Rest(r) \/ Slot!Release(r) \/ UNCHANGED <<active, W>>
      BY <3>1, <3>2 DEF Slot!Work, Slot!Rest, Slot!Release, W
    <3> QED BY <3>3 DEF Slot!Next, Slot!vars, W
  <2>2. ASSUME NEW r \in Runs, NEW n, Accept(r, n), UNCHANGED wpc
        PROVE  Slot!Next
    <3>1. W = {} /\ UNCHANGED W
      BY <1>2, <2>2 DEF Accept, SlotInv, Holder, InDcs
    <3>2. Slot!Take(r)
      BY <2>2, <3>1 DEF Accept, Slot!Take
    <3> QED BY <3>2 DEF Slot!Next
  <2>3. ASSUME UNCHANGED <<active, wpc>> PROVE UNCHANGED Slot!vars
    BY <2>3 DEF Slot!vars, InDcs
  <2>4. ASSUME NEW r \in Runs, Submit(r) PROVE UNCHANGED Slot!vars
    <3>1. UNCHANGED active /\ \A s \in Runs : InDcs(s)' = InDcs(s)
      BY <1>2, <2>4 DEF SlotInv, TypeInv, TypeOK, Holder, InDcs, Submit, SubmitClear,
         SubmitUpsert, SubmitRaises, SubmitStart
    <3> QED BY <3>1 DEF Slot!vars
  <2>5. ASSUME NEW r \in Runs, Post(r) PROVE Slot!Next \/ UNCHANGED Slot!vars
    BY <2>2, <2>3, <2>5 DEF Post
  <2>6. CASE WatchSubmit
    <3>1. watch.run \in Runs
      BY <1>2, <2>6 DEF WatchSubmit, SlotInv, TypeInv
    <3> QED BY <2>2, <2>3, <2>6, <3>1 DEF WatchSubmit, WatchFrame
  <2>7. CASE AgentDies
    <3>1. active' = NoRun /\ W' = {}
      BY <2>7 DEF AgentDies, InDcs
    <3> QED BY <3>1 DEF Slot!Next, Slot!Crash
  <2> QED
    BY <1>2, <2>1, <2>3, <2>4, <2>5, <2>6, <2>7, SlotFrame DEF Next, Watcher, Client, OrphanStep
<1>3. SlotInv /\ [Next]_vars => [Slot!Next]_Slot!vars
  <2>1. UNCHANGED vars => UNCHANGED Slot!vars
    BY DEF vars, runnerVars, Slot!vars, InDcs
  <2> QED BY <1>2, <2>1
<1> QED BY SlotHolds, <1>1, <1>3, PTL DEF Spec, SlotSpec, Slot!Spec

-----------------------------------------------------------------------------
(***************************************************************************)
(* Statuses that stay behind.                                              *)
(***************************************************************************)
NoStop == stop_flag = FALSE /\ \A r \in Runs : kpc[r] = "none"
Unstopped == stops = 0 => NoStop
Settled(r) ==
  /\ status[r] \in {"queued", "running"} => active = r
  /\ wpc[r] = "finally" => status[r] \in Final
SettledInv == SlotInv /\ Unstopped /\ (stops = 0 => \A r \in Runs : Settled(r))

LEMMA UnstoppedStep ==
  ASSUME TypeOK, Unstopped, [Next]_vars PROVE Unstopped' /\ (stops' = 0 => stops = 0)
  BY ConstantsAssumption DEF Unstopped, NoStop, TypeOK, Next, AgentDies, AgentStarts, OrphanStep, OrphanEnds, Watcher, WatchScan, WatchRead,
     WatchSubmit, Accept, WatchMark, WatchFrame, Submit, SubmitClear, SubmitUpsert, SubmitStart, Worker,
     WorkerBegin, WorkerCheckStart, OrchestratorEnds, WorkerCheckCapture, AdapterEnds,
     WorkerCheckNormalize, WorkerSuccess, WorkerFail, WorkerFinally, WorkerFrame, Stop, StopCheck,
     StopSet, StopUpdate, Client, Request, CommandWritten, Post, Poll, GiveUp, runnerVars, worldVars, vars

LEMMA SettledStep == SettledInv /\ [Next]_vars => SettledInv'
<1> SUFFICES ASSUME SettledInv, [Next]_vars, stops' = 0 PROVE \A s \in Runs : Settled(s)'
  BY SlotStep, UnstoppedStep DEF SettledInv, SlotInv, TypeInv
<1>a. stops = 0
  BY UnstoppedStep DEF SettledInv, SlotInv, TypeInv
<1> USE ConstantsAssumption DEF Settled
<1>0. /\ SlotInv /\ NoStop /\ \A s \in Runs : Settled(s)
      /\ active \in Runs \cup {NoRun}
      /\ status \in [Runs -> Status] /\ wpc \in [Runs -> WorkerPCs]
  BY <1>a DEF SettledInv, Unstopped, SlotInv, TypeInv, TypeOK
<1>1. ASSUME UNCHANGED <<active, wpc, status>> PROVE \A s \in Runs : Settled(s)'
  BY <1>0, <1>1
<1>2. ASSUME NEW r \in Runs, NEW n, Accept(r, n), UNCHANGED <<wpc, status>>
      PROVE  \A s \in Runs : Settled(s)'
  BY <1>0, <1>2 DEF Accept
<1>3. ASSUME NEW r \in Runs, Submit(r) PROVE \A s \in Runs : Settled(s)'
  <2>1. active = r
    BY <1>0, <1>3 DEF Submit, SubmitClear, SubmitUpsert, SubmitStart, SlotInv, Holder
  <2> QED
    BY <1>0, <1>3, <2>1 DEF Submit, SubmitClear, SubmitUpsert, SubmitRaises, SubmitStart,
       Stored, StoreRaises, storeVars, Final, SlotInv, Holder
<1>4. ASSUME NEW r \in Runs, Worker(r) PROVE \A s \in Runs : Settled(s)'
  <2>1. /\ active = r /\ \A s \in Runs \ {r} : wpc'[s] = wpc[s] /\ status'[s] = status[s]
        /\ \/ UNCHANGED active
           \/ wpc[r] = "finally" /\ wpc'[r] = "none" /\ UNCHANGED status
    BY <1>0, <1>4, SlotWorker
    DEF Worker, WorkerBegin, WorkerCheckStart, OrchestratorEnds, WorkerCheckCapture, AdapterEnds,
        WorkerCheckNormalize, WorkerSuccess, WorkerFail, WorkerFinally, WorkerUpdate, Stored,
        StoreRaises, storeVars
  <2>2. stop_flag = FALSE
    BY <1>0 DEF NoStop
  <2>3. wpc'[r] = "finally" => status'[r] \in Final
    BY <1>0, <1>4, <2>2
    DEF Worker, WorkerBegin, WorkerCheckStart, OrchestratorEnds, WorkerCheckCapture, AdapterEnds,
        WorkerCheckNormalize, WorkerSuccess, WorkerFail, WorkerFinally, WorkerUpdate, WorkerGoto,
        Stored, StoreRaises, storeVars, Final
  <2>4. active' # active => status'[r] \in Final
    BY <1>0, <2>1
  <2> QED BY <1>0, <2>1, <2>3, <2>4 DEF Final
<1>5. CASE AgentDies BY <1>0, <1>5 DEF AgentDies
<1>6. ASSUME NEW r \in Runs, Stop(r) PROVE \A s \in Runs : Settled(s)'
  <2>1. StopCheck(r)
    BY <1>0, <1>6 DEF Stop, StopSet, StopUpdate, NoStop
  <2> QED BY <1>1, <2>1 DEF StopCheck, storeVars
<1>7. CASE WatchSubmit
  <2>1. watch.run \in Runs
    BY <1>0, <1>7 DEF WatchSubmit, SlotInv, TypeInv
  <2> QED BY <1>1, <1>2, <1>7, <2>1 DEF WatchSubmit, WatchFrame, storeVars
<1>8. ASSUME NEW r \in Runs, Post(r) PROVE \A s \in Runs : Settled(s)'
  BY <1>1, <1>2, <1>8 DEF Post, storeVars
<1>9. ASSUME NEW r \in Runs, Client(r), ~Post(r) PROVE \A s \in Runs : Settled(s)'
  BY <1>1, <1>9 DEF Client, Request, CommandWritten, Poll, GiveUp, runnerVars, storeVars
<1>10. CASE WatchScan \/ WatchMark \/ AgentStarts
            \/ OrphanStep \/ \E r \in Runs : WatchRead(r)
  BY <1>1, <1>10 DEF WatchScan, WatchMark, AgentStarts, WatchRead, OrphanStep, OrphanEnds, WatchFrame,
     runnerVars, storeVars
<1>11. CASE UNCHANGED vars
  BY <1>1, <1>11 DEF vars, runnerVars, storeVars
<1> QED
  BY <1>3, <1>4, <1>5, <1>6, <1>7, <1>8, <1>9, <1>10, <1>11 DEF Next, Watcher, OrphanStep

\* When nobody stops a capture, an idle agent has no run left in "queued" or
\* "running": every exit of CaptureRunner._run has stored a final status before
\* the slot is free, even when a subprocess or the mirror file failed.
THEOREM SettledHolds == Spec => []IdleMeansSettled
<1>1. SettledInv /\ [Next]_vars => SettledInv'
  BY SettledStep
<1>2. Init => SettledInv
  BY TypeInit DEF Init, SettledInv, SlotInv, Holder, Unstopped, NoStop, Settled, Final
<1>3. SettledInv => IdleMeansSettled
  BY ConstantsAssumption DEF SettledInv, Settled, IdleMeansSettled
<1> QED BY <1>1, <1>2, <1>3, PTL DEF Spec

-----------------------------------------------------------------------------
(***************************************************************************)
(* What a client over HTTP believes.                                       *)
(***************************************************************************)
AllHttp == \A r \in Runs : Via[r] = "http"

\* No command file exists, so the watcher has nothing to submit.
NoCommands ==
  /\ \A r \in Runs : cmd[r].state = "absent" /\ cpc[r] # "writing"
  /\ todo = {} /\ watch.pc = "idle"

\* The status a waiting client reads is of its own request: the upsert of the
\* submit it awaited has replaced whatever an older capture left.
Fresh(r) ==
  /\ cpc[r] \in {"posted", "waiting", "success"} => job[r] = req[r]
  /\ cpc[r] = "posted" => spc[r] # "none"
  /\ spc[r] = "start" => status[r] # "success"
  /\ wpc[r] \in {"check2", "success"} => complete[r] = job[r]
  /\ cpc[r] = "waiting" /\ status[r] = "success" => complete[r] = req[r]
  /\ cpc[r] = "success" => complete[r] = req[r]
FreshInv == SlotInv /\ NoCommands /\ \A r \in Runs : Fresh(r)

\* The data set a client of a reported success finds is the one that was captured
\* for it: a leftover adapter of this run id exists only after an agent died in the
\* capture before, and then nothing is known of the run until it is accepted again,
\* which is when it is counted as running beside the leftover.
AtRest(r) == wpc[r] \in {"none", "fail", "finally"}
Unmixed(r) ==
  /\ spc[r] # "none" => cpc[r] \notin {"waiting", "success"}
  /\ status[r] = "success" \/ cpc[r] = "success" => AtRest(r)
  /\ r \notin beside =>
       /\ AdapterLeft(r) => /\ spc[r] = "none" /\ wpc[r] = "none" /\ status[r] = "none"
                            /\ cpc[r] # "success"
       /\ wpc[r] \in {"check2", "success"} => dataset[r] = job[r]
       /\ cpc[r] = "waiting" /\ status[r] = "success" => dataset[r] = req[r]
       /\ cpc[r] = "success" => dataset[r] = req[r]
DataInv == FreshInv /\ \A r \in Runs : Unmixed(r)

LEMMA NoCommandsStep == ASSUME AllHttp PROVE TypeOK /\ NoCommands /\ [Next]_vars => NoCommands'
<1> SUFFICES ASSUME TypeOK, NoCommands, [Next]_vars PROVE NoCommands'
  OBVIOUS
<1>0. cpc \in [Runs -> ClientPCs]
  BY DEF TypeOK
<1>1. CASE \E r \in Runs : Submit(r)
  BY <1>0, <1>1 DEF NoCommands, Submit, SubmitClear, SubmitUpsert, SubmitRaises, SubmitStart,
     watchVars, clientVars
<1>2. CASE \E r \in Runs : Worker(r)
  BY <1>2 DEF NoCommands, Worker, WorkerBegin, WorkerCheckStart, OrchestratorEnds,
     WorkerCheckCapture, AdapterEnds, WorkerCheckNormalize, WorkerSuccess, WorkerFail,
     WorkerFinally, WorkerFrame, watchVars, clientVars
<1>3. ASSUME NEW r \in Runs, Client(r) PROVE NoCommands'
  <2>1. UNCHANGED watchVars
    BY <1>3 DEF NoCommands, AllHttp, Client, Request, CommandWritten, Post, Poll, GiveUp, watchVars
  <2>2. \E l \in ClientPCs \ {"writing"} : ClientGoto(r, l)
    BY <1>3 DEF NoCommands, AllHttp, Client, Request, CommandWritten, Post, Poll, GiveUp,
       ClientPCs, Ended
  <2> QED BY <1>0, <2>1, <2>2 DEF watchVars, NoCommands, ClientGoto
<1>4. CASE AgentDies
  BY <1>4 DEF AgentDies, NoCommands, WatchIdle
<1>5. CASE Watcher
  <2>1. ~WatchScan
    BY DEF WatchScan, NoCommands
  <2> QED BY <1>5, <2>1 DEF Watcher, WatchRead, WatchSubmit, WatchMark, NoCommands
<1>6. CASE UNCHANGED vars \/ AgentStarts \/ OrphanStep \/ \E r \in Runs : Stop(r)
  BY <1>6 DEF NoCommands, AgentStarts, OrphanStep, OrphanEnds, Stop, StopCheck, StopSet, StopUpdate,
     watchVars, clientVars, vars
<1> QED BY <1>1, <1>2, <1>3, <1>4, <1>5, <1>6 DEF Next, OrphanStep

LEMMA FreshStep == ASSUME AllHttp PROVE FreshInv /\ [Next]_vars => FreshInv'
<1> SUFFICES ASSUME FreshInv, [Next]_vars PROVE \A s \in Runs : Fresh(s)'
  BY SlotStep, NoCommandsStep DEF FreshInv, SlotInv, TypeInv
<1>0. /\ SlotInv /\ NoCommands /\ \A s \in Runs : Fresh(s) /\ Holder(s)
      /\ active \in Runs \cup {NoRun} /\ spc \in [Runs -> SubmitPCs]
      /\ wpc \in [Runs -> WorkerPCs] /\ status \in [Runs -> Status]
      /\ cpc \in [Runs -> ClientPCs] /\ req \in [Runs -> Requests]
      /\ job \in [Runs -> Requests] /\ complete \in [Runs -> Requests]
  BY DEF FreshInv, SlotInv, TypeInv, TypeOK
<1> USE ConstantsAssumption DEF Fresh, dataVars
<1>1. CASE UNCHANGED <<cpc, req, job, spc, status, wpc, complete>>
  BY <1>0, <1>1
<1>2. ASSUME NEW r \in Runs, Submit(r) PROVE \A s \in Runs : Fresh(s)'
  <2>1. CASE SubmitClear(r)
    BY <1>0, <2>1 DEF SubmitClear, storeVars, clientVars, worldVars
  <2>2. CASE SubmitUpsert(r)
    BY <1>0, <2>2
    DEF SubmitUpsert, SubmitRaises, Stored, StoreRaises, worldVars, Holder, NoCommands
  <2>3. CASE SubmitStart(r)
    BY <1>0, <2>3 DEF SubmitStart, storeVars, worldVars, Holder, NoCommands
  <2> QED BY <1>2, <2>1, <2>2, <2>3 DEF Submit
<1>3. ASSUME NEW r \in Runs, Worker(r) PROVE \A s \in Runs : Fresh(s)'
  <2>0. /\ UNCHANGED <<spc, job, cpc, req>> /\ spc[r] = "none"
        /\ \A s \in Runs \ {r} : /\ wpc'[s] = wpc[s] /\ status'[s] = status[s]
                                 /\ complete'[s] = complete[s]
    BY <1>0, <1>3, SlotWorker
    DEF Worker, WorkerBegin, WorkerCheckStart, OrchestratorEnds, WorkerCheckCapture, AdapterEnds,
        WorkerCheckNormalize, WorkerSuccess, WorkerFail, WorkerFinally, WorkerUpdate, Stored,
        StoreRaises, storeVars, WorkerFrame, clientVars
  <2>1. \/ complete'[r] = complete[r] \/ complete'[r] = job[r]
    BY <1>0, <1>3
    DEF Worker, WorkerBegin, WorkerCheckStart, OrchestratorEnds, WorkerCheckCapture, AdapterEnds,
        WorkerCheckNormalize, WorkerSuccess, WorkerFail, WorkerFinally
  <2>2. status'[r] = "success" => status[r] = "success" \/ wpc[r] = "success"
    BY <1>0, <1>3
    DEF Worker, WorkerBegin, WorkerCheckStart, OrchestratorEnds, WorkerCheckCapture, AdapterEnds,
        WorkerCheckNormalize, WorkerSuccess, WorkerFail, WorkerFinally, WorkerUpdate, Stored,
        StoreRaises, storeVars
  <2>3. wpc'[r] \in {"check2", "success"} => complete'[r] = job[r]
    BY <1>0, <1>3
    DEF Worker, WorkerBegin, WorkerCheckStart, OrchestratorEnds, WorkerCheckCapture, AdapterEnds,
        WorkerCheckNormalize, WorkerSuccess, WorkerFail, WorkerFinally, WorkerUpdate, WorkerGoto
  <2> QED BY <1>0, <2>0, <2>1, <2>2, <2>3
<1>4. ASSUME NEW r \in Runs, Stop(r) PROVE \A s \in Runs : Fresh(s)'
  <2>1. UNCHANGED <<cpc, req, job, spc, wpc, complete>>
    BY <1>4 DEF Stop, StopCheck, StopSet, StopUpdate, clientVars, worldVars
  <2>2. \A s \in Runs : status'[s] = "success" => status[s] = "success"
    BY <1>0, <1>4 DEF Stop, StopCheck, StopSet, StopUpdate, Stored, StoreRaises, storeVars
  <2> QED BY <1>0, <2>1, <2>2
<1>5. ASSUME NEW r \in Runs, Client(r) PROVE \A s \in Runs : Fresh(s)'
  <2>1. CASE Request(r)
    BY <1>0, <2>1 DEF Request, ClientGoto, runnerVars, storeVars, worldVars, Ended
  <2>2. CASE CommandWritten(r)
    BY <1>0, <2>2 DEF CommandWritten, NoCommands
  <2>3. CASE Post(r)
    <3>1. CASE Accept(r, req[r]) /\ ClientGoto(r, "posted")
      BY <1>0, <2>3, <3>1 DEF Post, Accept, ClientGoto, storeVars, Holder
    <3>2. CASE ClientGoto(r, "error") /\ UNCHANGED <<active, spc, job, served>>
      BY <1>0, <2>3, <3>2 DEF Post, ClientGoto, storeVars
    <3> QED BY <2>3, <3>1, <3>2 DEF Post
  <2>4. CASE Poll(r)
    BY <1>0, <2>4 DEF Poll, Seen, AllHttp, ClientGoto, runnerVars, storeVars, worldVars
  <2>5. CASE GiveUp(r)
    BY <1>0, <2>5 DEF GiveUp, ClientGoto, runnerVars, storeVars, worldVars
  <2> QED BY <1>5, <2>1, <2>2, <2>3, <2>4, <2>5 DEF Client
<1>6. CASE AgentDies
  BY <1>0, <1>6 DEF AgentDies
<1>7. CASE UNCHANGED vars \/ AgentStarts \/ Watcher \/ OrphanStep
  BY <1>0, <1>1, <1>7 DEF vars, AgentStarts, Watcher, OrphanStep, OrphanEnds, dataVars, WatchScan, WatchRead, WatchSubmit,
     WatchMark, NoCommands, runnerVars, storeVars, clientVars, worldVars
<1> QED BY <1>2, <1>3, <1>4, <1>5, <1>6, <1>7 DEF Next, OrphanStep

LEMMA DataStep == ASSUME AllHttp PROVE DataInv /\ [Next]_vars => DataInv'
<1> SUFFICES ASSUME DataInv, [Next]_vars PROVE \A s \in Runs : Unmixed(s)'
  BY FreshStep DEF DataInv
<1>0. /\ SlotInv /\ NoCommands /\ \A s \in Runs : Fresh(s) /\ Holder(s) /\ Unmixed(s)
      /\ active \in Runs \cup {NoRun} /\ spc \in [Runs -> SubmitPCs]
      /\ wpc \in [Runs -> WorkerPCs] /\ status \in [Runs -> Status]
      /\ cpc \in [Runs -> ClientPCs] /\ req \in [Runs -> Requests]
      /\ job \in [Runs -> Requests] /\ dataset \in [Runs -> Requests]
      /\ orphans \subseteq Orphan /\ beside \subseteq Runs
  BY DEF DataInv, FreshInv, SlotInv, TypeInv, TypeOK
<1> USE ConstantsAssumption DEF Unmixed, AtRest, AdapterLeft, dataVars
<1>1. CASE UNCHANGED <<cpc, req, job, spc, status, wpc, dataset, beside, orphans>>
  BY <1>0, <1>1
<1>2. ASSUME NEW r \in Runs, Submit(r) PROVE \A s \in Runs : Unmixed(s)'
  <2>1. CASE SubmitClear(r)
    BY <1>0, <2>1 DEF SubmitClear, storeVars, clientVars, worldVars, dataVars
  <2>2. CASE SubmitUpsert(r)
    BY <1>0, <2>2
    DEF SubmitUpsert, SubmitRaises, Stored, StoreRaises, worldVars, dataVars, Holder, NoCommands
  <2>3. CASE SubmitStart(r)
    BY <1>0, <2>3 DEF SubmitStart, storeVars, worldVars, dataVars, Holder, NoCommands, Fresh
  <2> QED BY <1>2, <2>1, <2>2, <2>3 DEF Submit
<1>3. ASSUME NEW r \in Runs, Worker(r) PROVE \A s \in Runs : Unmixed(s)'
  <2>0. /\ UNCHANGED <<spc, job, cpc, req, beside, orphans>> /\ spc[r] = "none" /\ wpc[r] # "none"
        /\ \A s \in Runs \ {r} : /\ wpc'[s] = wpc[s] /\ status'[s] = status[s]
                                 /\ dataset'[s] = dataset[s]
    BY <1>0, <1>3, SlotWorker
    DEF Worker, WorkerBegin, WorkerCheckStart, OrchestratorEnds, WorkerCheckCapture, AdapterEnds,
        WorkerCheckNormalize, WorkerSuccess, WorkerFail, WorkerFinally, WorkerUpdate, Stored,
        StoreRaises, storeVars, dataVars, WorkerFrame, clientVars
  <2>1. ~AtRest(r) \/ UNCHANGED dataset
    BY <1>0, <1>3
    DEF Worker, WorkerBegin, WorkerCheckStart, OrchestratorEnds, WorkerCheckCapture, AdapterEnds,
        WorkerCheckNormalize, WorkerSuccess, WorkerFail, WorkerFinally, dataVars
  <2>2. status'[r] = "success" => (status[r] = "success" \/ wpc[r] = "success") /\ AtRest(r)'
    BY <1>0, <1>3
    DEF Worker, WorkerBegin, WorkerCheckStart, OrchestratorEnds, WorkerCheckCapture, AdapterEnds,
        WorkerCheckNormalize, WorkerSuccess, WorkerFail, WorkerFinally, WorkerUpdate, WorkerGoto,
        Stored, StoreRaises, storeVars
  <2>3. wpc'[r] \in {"check2", "success"} =>
          dataset'[r] = job[r] \/ (wpc[r] = "check2" /\ UNCHANGED dataset)
    BY <1>0, <1>3
    DEF Worker, WorkerBegin, WorkerCheckStart, OrchestratorEnds, WorkerCheckCapture, AdapterEnds,
        WorkerCheckNormalize, WorkerSuccess, WorkerFail, WorkerFinally, WorkerUpdate, WorkerGoto,
        dataVars
  <2>4. AtRest(r) => AtRest(r)'
    BY <1>0, <1>3
    DEF Worker, WorkerBegin, WorkerCheckStart, OrchestratorEnds, WorkerCheckCapture, AdapterEnds,
        WorkerCheckNormalize, WorkerSuccess, WorkerFail, WorkerFinally, WorkerGoto
  <2>5. Unmixed(r)'
    <3>1. /\ (r \notin beside => ~AdapterLeft(r)) /\ AdapterLeft(r)' = AdapterLeft(r)
      BY <1>0, <2>0
    <3>2. /\ spc'[r] = "none" /\ (status'[r] = "success" \/ cpc'[r] = "success" => AtRest(r)')
      BY <1>0, <2>0, <2>2, <2>4
    <3>3. r \notin beside /\ wpc'[r] \in {"check2", "success"} => dataset'[r] = job[r]
      BY <1>0, <2>3
    <3>4. r \notin beside /\ cpc[r] = "success" => dataset'[r] = req[r]
      BY <1>0, <2>1
    <3>5. r \notin beside /\ cpc[r] = "waiting" /\ status'[r] = "success" => dataset'[r] = req[r]
      <4> SUFFICES ASSUME r \notin beside, cpc[r] = "waiting", status'[r] = "success"
                   PROVE  dataset'[r] = req[r]
        OBVIOUS
      <4>1. CASE status[r] = "success"
        BY <1>0, <2>1, <4>1
      <4>2. CASE wpc[r] = "success"
        <5>1. UNCHANGED dataset
          BY <1>3, <4>2 DEF Worker, WorkerBegin, WorkerCheckStart, OrchestratorEnds,
             WorkerCheckCapture, AdapterEnds, WorkerCheckNormalize, WorkerSuccess, WorkerFail,
             WorkerFinally, dataVars
        <5> QED BY <1>0, <4>2, <5>1 DEF Fresh
      <4> QED BY <2>2, <4>1, <4>2
    <3> QED BY <2>0, <3>1, <3>2, <3>3, <3>4, <3>5
  <2>6. ASSUME NEW s \in Runs \ {r} PROVE Unmixed(s)'
    BY <1>0, <2>0
  <2> QED BY <2>5, <2>6
<1>4. ASSUME NEW r \in Runs, Stop(r) PROVE \A s \in Runs : Unmixed(s)'
  <2>1. UNCHANGED <<cpc, req, job, spc, wpc, dataset, beside, orphans>>
    BY <1>4 DEF Stop, StopCheck, StopSet, StopUpdate, clientVars, worldVars, dataVars
  <2>2. \A s \in Runs : /\ status'[s] = "success" => status[s] = "success"
                        /\ status[s] = "none" => status'[s] = "none"
    BY <1>0, <1>4 DEF Stop, StopCheck, StopSet, StopUpdate, Stored, StoreRaises, storeVars
  <2> QED BY <1>0, <2>1, <2>2
<1>5. ASSUME NEW r \in Runs, Client(r) PROVE \A s \in Runs : Unmixed(s)'
  <2>1. CASE Request(r)
    BY <1>0, <2>1 DEF Request, ClientGoto, runnerVars, storeVars, worldVars, dataVars, Ended
  <2>2. CASE CommandWritten(r)
    BY <1>0, <2>2 DEF CommandWritten, NoCommands
  <2>3. CASE Post(r)
    <3>1. CASE Accept(r, req[r]) /\ ClientGoto(r, "posted")
      BY <1>0, <2>3, <3>1 DEF Post, Accept, ClientGoto, storeVars, dataVars, Holder
    <3>2. CASE ClientGoto(r, "error") /\ UNCHANGED <<active, spc, job, served, beside>>
      BY <1>0, <2>3, <3>2 DEF Post, ClientGoto, storeVars, dataVars
    <3> QED BY <2>3, <3>1, <3>2 DEF Post
  <2>4. CASE Poll(r)
    BY <1>0, <2>4 DEF Poll, Seen, AllHttp, ClientGoto, runnerVars, storeVars, worldVars, dataVars
  <2>5. CASE GiveUp(r)
    BY <1>0, <2>5 DEF GiveUp, ClientGoto, runnerVars, storeVars, worldVars, dataVars
  <2> QED BY <1>5, <2>1, <2>2, <2>3, <2>4, <2>5 DEF Client
<1>6. CASE AgentDies
  <2>1. /\ UNCHANGED <<req, job, dataset, beside>>
        /\ \A s \in Runs : /\ spc'[s] = "none" /\ wpc'[s] = "none" /\ status'[s] = "none"
                           /\ cpc'[s] = cpc[s] \/ cpc'[s] = "error"
    BY <1>6 DEF AgentDies, dataVars
  <2>2. ASSUME NEW s \in Runs, AdapterLeft(s)' PROVE AdapterLeft(s) \/ wpc[s] = "adapter"
    BY <1>6, <2>2 DEF AgentDies
  <2> QED BY <1>0, <2>1, <2>2
<1>7. ASSUME NEW o \in orphans, OrphanEnds(o) PROVE \A s \in Runs : Unmixed(s)'
  <2>1. /\ UNCHANGED <<cpc, req, job, spc, status, wpc, beside>> /\ orphans' \subseteq orphans
        /\ \A s \in Runs : s # o.run => dataset'[s] = dataset[s]
    BY <1>0, <1>7 DEF OrphanEnds, runnerVars, storeVars, clientVars
  <2>2. o.run \in Runs /\ AdapterLeft(o.run)
    BY <1>0, <1>7 DEF Orphan
  <2>3. Unmixed(o.run)'
    BY <1>0, <2>1, <2>2
  <2>4. ASSUME NEW s \in Runs, s # o.run PROVE Unmixed(s)'
    BY <1>0, <2>1, <2>4
  <2> QED BY <2>3, <2>4
<1>8. CASE UNCHANGED vars \/ AgentStarts \/ Watcher
  BY <1>0, <1>1, <1>8 DEF vars, AgentStarts, Watcher, WatchScan, WatchRead, WatchSubmit,
     WatchMark, NoCommands, runnerVars, storeVars, clientVars, worldVars, dataVars
<1> QED BY <1>2, <1>3, <1>4, <1>5, <1>6, <1>7, <1>8 DEF Next

\* A request-capture over HTTP that reports success got the data set of its own
\* request, with any number of run ids, repeated requests under one run id, stop
\* calls, failures and agent restarts (the upsert in CaptureRunner.submit comes
\* before the reply that lets AgentClient.wait_for_status poll).  A leftover adapter
\* spoils it only for a request that was accepted while it was running.
THEOREM FreshSuccessHttp == ASSUME AllHttp PROVE Spec => []FreshSuccess
<1>1. DataInv /\ [Next]_vars => DataInv'
  BY DataStep
<1>2. Init => DataInv
  BY TypeInit, ConstantsAssumption
  DEF Init, DataInv, FreshInv, SlotInv, Holder, NoCommands, NoCommand, WatchIdle, Fresh, Unmixed,
      AtRest, AdapterLeft
<1>3. DataInv => FreshSuccess
  BY DEF DataInv, FreshInv, Fresh, Unmixed, FreshSuccess
<1> QED BY <1>1, <1>2, <1>3, PTL DEF Spec

-----------------------------------------------------------------------------
(***************************************************************************)
(* A request is served once.  Over HTTP nothing can repeat it: a client    *)
(* posts a request once.  A command file is read again at every tick until *)
(* it is renamed, so there the argument follows the file.                  *)
(***************************************************************************)
\* The limits of the promise: a restarted agent serves again what it had not
\* renamed, and the file of a second command under one run id is never renamed,
\* because the target exists.
OnceAssumption ==
  \A r \in Runs : Via[r] = "http" \/ (MaxRequests <= 1 /\ "restart" \notin Faults)

\* The watcher has a command of the run in hand.
With(r) == watch.pc # "idle" /\ watch.run = r
Taken(r) == \E n \in Requests : <<r, n>> \in served

HttpOnce(r) ==
  /\ cmd[r].state = "absent" /\ r \notin todo /\ ~With(r) /\ cpc[r] # "writing"
  /\ \A n \in Requests :
       <<r, n>> \in served => n <= req[r] /\ (cpc[r] = "posting" => n # req[r])

\* A command file that has been renamed does not come back, and the watcher
\* submits a file that is there.
Folder(r) ==
  /\ cpc[r] \notin {"posting", "posted"}
  /\ cpc[r] = "writing" <=> cmd[r].state = "open"
  /\ cmd[r].state # "absent" => req[r] > 0
  /\ \A k \in {"handled", "invalid"} :
       <<r, k>> \in renamed => req[r] > 0 /\ cmd[r].state = "absent"
  /\ r \in todo => cmd[r].state # "absent" /\ ~With(r)
  /\ With(r) => cmd[r].state # "absent"
  /\ With(r) /\ watch.pc \in {"submit", "accepting", "handled"} => cmd[r].state = "ready"
  /\ With(r) /\ watch.pc = "accepting" => active = r /\ spc[r] # "none"

\* After it was accepted the file is gone or about to be renamed, or the submit
\* call raised and the agent stays busy with the run for ever.
FolderOnce(r) ==
  Taken(r) =>
    \/ active = r /\ spc[r] = "none" /\ wpc[r] = "none"
    \/ With(r) /\ watch.pc \in {"accepting", "handled"}
    \/ cmd[r].state = "absent" /\ req[r] > 0

OnceInv == /\ SlotInv
           /\ \A r \in Runs : IF Via[r] = "http" THEN HttpOnce(r) ELSE Folder(r) /\ FolderOnce(r)

\* The types the two arguments use.
LEMMA OnceTypes ==
  ASSUME SlotInv
  PROVE /\ active \in Runs \cup {NoRun} /\ NoRun \notin Runs /\ spc \in [Runs -> SubmitPCs]
        /\ wpc \in [Runs -> WorkerPCs] /\ job \in [Runs -> Requests]
        /\ watch \in [pc : {"idle", "submit", "accepting", "handled", "invalid"},
                      run : Runs \cup {NoRun}, n : Requests]
        /\ watch.pc # "idle" => watch.run \in Runs
        /\ cmd \in [Runs -> [state : {"absent", "open", "ready"}, n : Requests]]
        /\ cpc \in [Runs -> ClientPCs] /\ req \in [Runs -> Requests] /\ Requests \subseteq Nat
        /\ \A r \in Runs : Holder(r)
BY ConstantsAssumption DEF SlotInv, TypeInv, TypeOK, Requests

\* The steps that change nothing the two arguments speak of.
Aside == OrphanStep \/ \E r \in Runs : Stop(r)

LEMMA AsideFrame ==
  ASSUME Aside \/ AgentStarts \/ UNCHANGED vars
  PROVE UNCHANGED <<active, spc, wpc, watchVars, clientVars, served>>
BY DEF Aside, Stop, StopCheck, StopSet, StopUpdate, OrphanStep, OrphanEnds, AgentStarts, vars, runnerVars,
  worldVars

LEMMA HttpOnceStep ==
  ASSUME OnceInv, [Next]_vars, NEW s \in Runs, Via[s] = "http"
  PROVE HttpOnce(s)'
<1>0. /\ HttpOnce(s) /\ cpc \in [Runs -> ClientPCs] /\ req \in [Runs -> Requests]
      /\ Requests \subseteq Nat
      /\ cmd \in [Runs -> [state : {"absent", "open", "ready"}, n : Requests]]
      /\ watch.pc # "idle" => watch.run \in Runs \ {s}
  BY OnceTypes DEF OnceInv, HttpOnce, With
<1>1. ASSUME UNCHANGED <<watchVars, served>>, req'[s] = req[s], cpc'[s] # "writing",
             cpc'[s] = "posting" => cpc[s] = "posting"
      PROVE HttpOnce(s)'
  BY <1>0, <1>1 DEF HttpOnce, With, watchVars
<1>2. ASSUME NEW r \in Runs, Submit(r) PROVE HttpOnce(s)'
  <2>1. UNCHANGED <<cmd, req, served>> /\ todo' \subseteq todo
        /\ (watch'.pc # "idle" => watch.pc # "idle" /\ watch'.run = watch.run)
    <3>1. CASE SubmitClear(r)
      BY <3>1 DEF SubmitClear, watchVars, clientVars, worldVars
    <3>2. CASE SubmitUpsert(r)
      BY <3>2 DEF SubmitUpsert, SubmitRaises, worldVars, WatchIdle
    <3>3. CASE SubmitStart(r)
      BY <3>3, OnceTypes DEF SubmitStart, worldVars, OnceInv
    <3> QED BY <1>2, <3>1, <3>2, <3>3 DEF Submit
  <2>2. cpc'[s] = cpc[s] \/ cpc'[s] \in {"error", "waiting"}
    BY <1>0, <1>2 DEF Submit, SubmitClear, SubmitUpsert, SubmitRaises, SubmitStart, clientVars
  <2> QED BY <1>0, <2>1, <2>2 DEF HttpOnce, With
<1>3. ASSUME NEW r \in Runs, Worker(r) PROVE HttpOnce(s)'
  <2>1. WorkerFrame
    BY <1>3 DEF Worker, WorkerBegin, WorkerCheckStart, OrchestratorEnds, WorkerCheckCapture,
       AdapterEnds, WorkerCheckNormalize, WorkerSuccess, WorkerFail, WorkerFinally
  <2> QED BY <1>0, <1>1, <2>1 DEF WorkerFrame, clientVars, HttpOnce
<1>4. ASSUME NEW r \in Runs, Client(r) PROVE HttpOnce(s)'
  <2>1. CASE r # s
    <3>1. todo' = todo /\ watch' = watch /\ req'[s] = req[s] /\ cpc'[s] = cpc[s]
          /\ cmd'[s] = cmd[s]
      BY <1>0, <1>4, <2>1 DEF Client, Request, CommandWritten, Post, Poll, GiveUp, ClientGoto,
         watchVars
    <3>2. \A n : <<s, n>> \in served' => <<s, n>> \in served
      BY <1>4, <2>1 DEF Client, Request, CommandWritten, Post, Poll, GiveUp, Accept, worldVars
    <3> QED BY <1>0, <3>1, <3>2 DEF HttpOnce, With
  <2>2. CASE r = s /\ Request(s)
    <3>1. /\ UNCHANGED <<watchVars, served>> /\ req'[s] = req[s] + 1 /\ cpc'[s] = "posting"
          /\ req[s] \in Nat
      BY <1>0, <2>2 DEF Request, ClientGoto, watchVars, worldVars
    <3>2. \A n \in Requests : n <= req[s] => n <= req'[s] /\ n # req'[s]
      <4> SUFFICES ASSUME NEW n \in Nat, n <= req[s] PROVE n <= req'[s] /\ n # req'[s]
        BY <1>0
      <4> QED BY <3>1
    <3> QED BY <1>0, <3>1, <3>2 DEF HttpOnce, With, watchVars
  <2>3. CASE r = s /\ Post(s)
    <3>0. req[s] \in Nat
      BY <1>0
    <3>1. UNCHANGED <<watchVars, req>> /\ cpc'[s] \in {"posted", "error"} /\ req[s] <= req[s]
      <4>1. UNCHANGED <<watchVars, req>> /\ cpc'[s] \in {"posted", "error"}
        BY <1>0, <2>3 DEF Post, ClientGoto
      <4> QED BY <3>0, <4>1
    <3>2. served' \subseteq served \cup {<<s, req[s]>>}
      BY <2>3 DEF Post, Accept
    <3> QED BY <1>0, <3>1, <3>2 DEF HttpOnce, With, watchVars
  <2>4. CASE r = s /\ (CommandWritten(s) \/ Poll(s) \/ GiveUp(s))
    <3>1. ~CommandWritten(s)
      BY <1>0 DEF CommandWritten, HttpOnce
    <3>2. UNCHANGED <<watchVars, req, served>> /\ cpc'[s] \in {"success", "failed", "error"}
      BY <1>0, <2>4, <3>1 DEF Poll, GiveUp, ClientGoto, worldVars
    <3> QED BY <1>1, <3>2
  <2> QED BY <1>4, <2>1, <2>2, <2>3, <2>4 DEF Client
<1>5. CASE WatchScan
  <2>1. todo' = {r \in Runs : cmd[r].state # "absent"} /\ UNCHANGED <<watch, cmd, cpc, req, served>>
    BY <1>5 DEF WatchScan, WatchFrame, clientVars
  <2> QED BY <1>0, <2>1 DEF HttpOnce, With
<1>6. ASSUME NEW r \in Runs, WatchRead(r) PROVE HttpOnce(s)'
  <2>1. r \in todo /\ todo' \subseteq todo /\ watch'.run = r /\ UNCHANGED <<cmd, cpc, req, served>>
    BY <1>6 DEF WatchRead, WatchFrame, clientVars
  <2> QED BY <1>0, <2>1 DEF HttpOnce, With
<1>7. CASE WatchSubmit
  <2>1. /\ watch.run \in Runs \ {s} /\ UNCHANGED <<todo, cmd, cpc, req>>
        /\ served' \subseteq served \cup {<<watch.run, watch.n>>}
    BY <1>0, <1>7 DEF WatchSubmit, WatchFrame, clientVars, Accept
  <2>2. watch'.pc # "idle" => watch'.run = watch.run
    BY <1>7, OnceTypes DEF WatchSubmit, WatchIdle, OnceInv
  <2> QED BY <1>0, <2>1, <2>2 DEF HttpOnce, With
<1>8. CASE WatchMark
  <2>1. /\ watch.run \in Runs \ {s} /\ UNCHANGED <<todo, cpc, req, served>> /\ watch'.pc = "idle"
        /\ cmd'[s] = cmd[s]
    BY <1>0, <1>8 DEF WatchMark, WatchFrame, WatchIdle, clientVars
  <2> QED BY <1>0, <2>1 DEF HttpOnce, With
<1>9. CASE AgentDies
  <2>1. /\ watch'.pc = "idle" /\ todo' = {} /\ UNCHANGED <<cmd, req, served>>
        /\ cpc'[s] = cpc[s] \/ cpc'[s] = "error"
    BY <1>0, <1>9 DEF AgentDies, WatchIdle
  <2> QED BY <1>0, <2>1 DEF HttpOnce, With
<1>10. CASE UNCHANGED vars \/ AgentStarts \/ Aside
  BY <1>0, <1>1, <1>10, AsideFrame DEF clientVars, HttpOnce
<1> QED BY <1>2, <1>3, <1>4, <1>5, <1>6, <1>7, <1>8, <1>9, <1>10 DEF Next, Watcher, Aside, OrphanStep

LEMMA FolderStep ==
  ASSUME OnceInv, OnceAssumption, [Next]_vars, NEW s \in Runs, Via[s] # "http"
  PROVE Folder(s)' /\ FolderOnce(s)'
<1>0. /\ SlotInv /\ Folder(s) /\ FolderOnce(s) /\ Holder(s)
      /\ MaxRequests <= 1 /\ "restart" \notin Faults
  BY OnceTypes DEF OnceInv, OnceAssumption
<1> USE DEF With, Taken
<1>a. /\ active \in Runs \cup {NoRun} /\ NoRun \notin Runs
      /\ spc \in [Runs -> SubmitPCs] /\ wpc \in [Runs -> WorkerPCs]
      /\ cmd \in [Runs -> [state : {"absent", "open", "ready"}, n : Requests]]
      /\ cpc \in [Runs -> ClientPCs] /\ req \in [Runs -> Requests] /\ Requests \subseteq Nat
      /\ watch \in [pc : {"idle", "submit", "accepting", "handled", "invalid"},
                    run : Runs \cup {NoRun}, n : Requests]
      /\ watch.pc # "idle" => watch.run \in Runs
  BY <1>0, OnceTypes
<1>1. ASSUME UNCHANGED <<watchVars, served, active>>, req'[s] = req[s], cpc'[s] = cpc[s],
             spc'[s] = spc[s], wpc'[s] = wpc[s]
      PROVE Folder(s)' /\ FolderOnce(s)'
  BY <1>0, <1>1 DEF Folder, FolderOnce, watchVars
<1>2. ASSUME NEW r \in Runs, Submit(r) PROVE Folder(s)' /\ FolderOnce(s)'
  <2>0. active = r /\ spc[r] # "none" /\ wpc[r] = "none" /\ UNCHANGED <<active, req, cmd, renamed, served>>
    <3>1. spc[r] # "none" /\ UNCHANGED <<active, req, cmd, renamed, served>>
      BY <1>2 DEF Submit, SubmitClear, SubmitUpsert, SubmitStart, clientVars, watchVars, worldVars
    <3> QED BY <1>0, <3>1, OnceTypes DEF Holder
  <2>1. CASE r # s
    <3>1. /\ spc'[s] = spc[s] /\ wpc'[s] = wpc[s] /\ cpc'[s] = cpc[s]
          /\ todo' \subseteq todo
          /\ watch' = watch \/ (watch.pc = "accepting" /\ watch.run = r)
          /\ watch'.pc # "idle" => watch'.run = watch.run
      BY <1>2, <1>a, <2>1 DEF Submit, SubmitClear, SubmitUpsert, SubmitRaises, SubmitStart,
         clientVars, watchVars, worldVars, WatchIdle
    <3>2. ~With(s) => ~With(s)'
      BY <2>1, <3>1
    <3>3. With(s)' => watch' = watch
      BY <2>1, <3>1
    <3> QED BY <1>0, <2>0, <2>1, <3>1, <3>2, <3>3 DEF Folder, FolderOnce
  <2>2. CASE r = s /\ SubmitClear(s)
    <3>1. spc'[s] = "upsert" /\ UNCHANGED <<wpc, watchVars, cpc>>
      BY <1>a, <2>2 DEF SubmitClear, clientVars
    <3> QED BY <1>0, <2>0, <2>2, <3>1 DEF Folder, FolderOnce, watchVars
  <2>3. CASE r = s /\ SubmitUpsert(s) /\ spc'[s] = "start"
    <3>1. UNCHANGED <<wpc, watch, todo>> /\ cpc'[s] = cpc[s]
      BY <1>0, <1>a, <2>3 DEF SubmitUpsert, SubmitRaises, Folder
    <3> QED BY <1>0, <2>0, <2>3, <3>1 DEF Folder, FolderOnce
  <2>4. CASE r = s /\ SubmitUpsert(s) /\ spc'[s] # "start"
    <3>1. spc'[s] = "none" /\ wpc' = wpc /\ SubmitRaises(s)
      BY <1>a, <2>4 DEF SubmitUpsert, SubmitRaises
    <3>2. CASE watch.pc = "accepting" /\ watch.run = s
      <4>1. watch'.pc = "idle" /\ todo' = {} /\ cpc' = cpc
        BY <3>1, <3>2 DEF SubmitRaises, WatchIdle
      <4> QED BY <1>0, <2>0, <2>4, <3>1, <4>1 DEF Folder, FolderOnce
    <3>3. CASE ~(watch.pc = "accepting" /\ watch.run = s)
      <4>1. UNCHANGED <<watch, todo>> /\ cpc'[s] = cpc[s]
        BY <1>0, <1>a, <3>1, <3>3 DEF SubmitRaises, Folder
      <4> QED BY <1>0, <2>0, <2>4, <3>1, <3>3, <4>1 DEF Folder, FolderOnce
    <3> QED BY <3>2, <3>3
  <2>5. CASE r = s /\ SubmitStart(s)
    <3>1. spc'[s] = "none" /\ wpc'[s] = "begin" /\ todo' = todo
      BY <1>a, <2>5 DEF SubmitStart
    <3>2. CASE watch.pc = "accepting" /\ watch.run = s
      <4>1. watch'.pc = "handled" /\ watch'.run = s /\ cpc' = cpc
        BY <1>a, <2>5, <3>2 DEF SubmitStart
      <4> QED BY <1>0, <2>0, <2>5, <3>1, <3>2, <4>1 DEF Folder, FolderOnce
    <3>3. CASE ~(watch.pc = "accepting" /\ watch.run = s)
      <4>1. watch' = watch /\ cpc'[s] = cpc[s]
        BY <1>0, <1>a, <2>5, <3>3 DEF SubmitStart, Folder
      <4> QED BY <1>0, <2>0, <2>5, <3>1, <3>3, <4>1 DEF Folder, FolderOnce
    <3> QED BY <3>2, <3>3
  <2> QED BY <1>2, <2>1, <2>2, <2>3, <2>4, <2>5 DEF Submit
<1>3. ASSUME NEW r \in Runs, Worker(r) PROVE Folder(s)' /\ FolderOnce(s)'
  <2>1. active = r /\ wpc[r] # "none" /\ spc[r] = "none" /\ WorkerFrame
        /\ \A q \in Runs \ {r} : wpc'[q] = wpc[q]
    <3>1. wpc[r] # "none" /\ WorkerFrame /\ \A q \in Runs \ {r} : wpc'[q] = wpc[q]
      BY <1>3, <1>a DEF Worker, WorkerBegin, WorkerCheckStart, OrchestratorEnds,
         WorkerCheckCapture, AdapterEnds, WorkerCheckNormalize, WorkerSuccess, WorkerFail,
         WorkerFinally, WorkerUpdate, WorkerGoto
    <3> QED BY <1>0, <3>1, OnceTypes DEF Holder
  <2>2. UNCHANGED <<spc, watch, todo, cmd, renamed, cpc, req, served>>
    BY <2>1 DEF WorkerFrame, watchVars, clientVars
  <2>3. ~(active = s /\ spc[s] # "none") /\ ~(active = s /\ wpc[s] = "none")
    BY <2>1
  <2> QED BY <1>0, <2>2, <2>3 DEF Folder, FolderOnce
<1>4. ASSUME NEW r \in Runs, Client(r) PROVE Folder(s)' /\ FolderOnce(s)'
  <2>1. UNCHANGED <<todo, watch, renamed, wpc>>
    BY <1>4 DEF Client, Request, CommandWritten, Post, Poll, GiveUp, runnerVars, watchVars
  <2>2. CASE r # s
    <3>1. req'[s] = req[s] /\ cpc'[s] = cpc[s] /\ cmd'[s] = cmd[s]
      BY <1>4, <1>a, <2>2 DEF Client, Request, CommandWritten, Post, Poll, GiveUp, ClientGoto,
         watchVars
    <3>2. (\A n : <<s, n>> \in served' => <<s, n>> \in served) /\ spc'[s] = spc[s]
          /\ (active' = active \/ active = NoRun)
      BY <1>4, <1>a, <2>2 DEF Client, Request, CommandWritten, Post, Poll, GiveUp, Accept,
         runnerVars, worldVars
    <3>3. active = s => active' = s
      BY <1>a, <3>2
    <3> QED BY <1>0, <2>1, <3>1, <3>2, <3>3 DEF Folder, FolderOnce
  <2>3. CASE r = s /\ Request(s)
    <3>1. req[s] = 0 /\ req'[s] > 0
      <4>1. req[s] \in Nat
        BY <1>a
      <4>2. req[s] < MaxRequests /\ req'[s] = req[s] + 1
        BY <1>a, <2>3 DEF Request
      <4> QED BY <1>0, <4>1, <4>2, ConstantsAssumption
    <3>2. cmd[s].state = "absent" /\ s \notin todo /\ ~With(s) /\ ~(active = s /\ spc[s] # "none" /\ With(s))
      BY <1>0, <3>1 DEF Folder
    <3>3. /\ cpc'[s] = "writing" /\ cmd'[s].state = "open" /\ UNCHANGED <<active, spc, served>>
      BY <1>a, <2>3 DEF Request, ClientGoto, runnerVars, worldVars
    <3>4. \A k \in {"handled", "invalid"} : <<s, k>> \notin renamed
      BY <1>0, <3>1 DEF Folder
    <3>5. Taken(s) => active = s /\ spc[s] = "none" /\ wpc[s] = "none"
      BY <1>0, <3>1, <3>2 DEF FolderOnce
    <3> QED BY <2>1, <3>1, <3>2, <3>3, <3>4, <3>5 DEF Folder, FolderOnce
  <2>4. CASE r = s /\ CommandWritten(s)
    <3>1. /\ cmd[s].state = "open" /\ cmd'[s].state = "ready" /\ cpc'[s] = "waiting"
          /\ UNCHANGED <<active, spc, served, req>>
      BY <1>0, <1>a, <2>4 DEF CommandWritten, ClientGoto, runnerVars, worldVars, Folder
    <3> QED BY <1>0, <2>1, <3>1 DEF Folder, FolderOnce
  <2>5. CASE r = s /\ Post(s)
    BY <1>0, <2>5 DEF Post, Folder
  <2>6. CASE r = s /\ (Poll(s) \/ GiveUp(s))
    <3>1. /\ cpc[s] \in {"waiting", "posted"} /\ cpc'[s] \in {"success", "failed", "error"}
          /\ UNCHANGED <<active, spc, served, req, cmd>>
      BY <1>a, <2>6 DEF Poll, GiveUp, ClientGoto, runnerVars, worldVars, watchVars
    <3> QED BY <1>0, <2>1, <3>1 DEF Folder, FolderOnce
  <2> QED BY <1>4, <2>2, <2>3, <2>4, <2>5, <2>6 DEF Client
<1>5. CASE WatchScan
  <2>1. /\ todo' = {r \in Runs : cmd[r].state # "absent"} /\ watch.pc = "idle"
        /\ UNCHANGED <<active, spc, wpc, watch, cmd, renamed, cpc, req, served>>
    BY <1>5 DEF WatchScan, WatchFrame, clientVars
  <2> QED BY <1>0, <2>1 DEF Folder, FolderOnce
<1>6. ASSUME NEW r \in Runs, WatchRead(r) PROVE Folder(s)' /\ FolderOnce(s)'
  <2>1. /\ r \in todo /\ todo' = todo \ {r} /\ watch.pc = "idle" /\ watch'.run = r
        /\ watch'.pc = IF cmd[r].state = "ready" THEN "submit" ELSE "invalid"
        /\ UNCHANGED <<active, spc, wpc, cmd, renamed, cpc, req, served>>
    BY <1>6 DEF WatchRead, WatchFrame, clientVars
  <2> QED BY <1>0, <2>1 DEF Folder, FolderOnce
<1>7. CASE WatchSubmit
  <2>1. /\ watch.pc = "submit" /\ watch.run \in Runs /\ watch.n \in Requests
        /\ UNCHANGED <<todo, cmd, renamed, cpc, req, wpc>>
    BY <1>7, <1>a DEF WatchSubmit, WatchFrame, clientVars
  <2>2. CASE watch' = WatchIdle /\ UNCHANGED <<active, spc, job, served>>
    BY <1>0, <2>1, <2>2 DEF Folder, FolderOnce, WatchIdle
  <2>3. CASE Accept(watch.run, watch.n) /\ watch' = [watch EXCEPT !.pc = "accepting"]
    <3>1. /\ active = NoRun /\ active' = watch.run /\ watch'.pc = "accepting"
          /\ watch'.run = watch.run /\ spc' = [spc EXCEPT ![watch.run] = "clear"]
          /\ served' = served \cup {<<watch.run, watch.n>>}
      BY <1>a, <2>3 DEF Accept
    <3>2. CASE watch.run = s
      <4>1. spc'[s] = "clear" /\ cmd[s].state = "ready"
        BY <1>0, <1>a, <2>1, <3>1, <3>2 DEF Folder
      <4> QED BY <1>0, <2>1, <3>1, <3>2, <4>1 DEF Folder, FolderOnce
    <3>3. CASE watch.run # s
      <4>1. spc'[s] = spc[s] /\ active # s /\ \A n : <<s, n>> \in served' => <<s, n>> \in served
        BY <1>a, <3>1, <3>3
      <4> QED BY <1>0, <2>1, <3>1, <3>3, <4>1 DEF Folder, FolderOnce
    <3> QED BY <3>2, <3>3
  <2> QED BY <1>7, <2>2, <2>3 DEF WatchSubmit
<1>8. CASE WatchMark
  <2>1. /\ watch.pc \in {"handled", "invalid"} /\ watch.run \in Runs /\ watch'.pc = "idle"
        /\ UNCHANGED <<active, spc, wpc, todo, cpc, req, served>>
    BY <1>8, <1>a DEF WatchMark, WatchFrame, WatchIdle, clientVars
  <2>2. CASE watch.run # s
    <3>1. cmd'[s] = cmd[s] /\ \A k : <<s, k>> \in renamed' => <<s, k>> \in renamed
      BY <1>8, <1>a, <2>1, <2>2 DEF WatchMark
    <3> QED BY <1>0, <2>1, <2>2, <3>1 DEF Folder, FolderOnce
  <2>3. CASE watch.run = s
    <3>1. cmd[s].state # "absent" /\ req[s] > 0 /\ <<s, watch.pc>> \notin renamed /\ s \notin todo
      BY <1>0, <2>1, <2>3 DEF Folder
    <3>2. CASE cmd[s].state = "open"
      <4>1. UNCHANGED <<cmd, renamed>> /\ watch.pc = "invalid"
        BY <1>0, <1>8, <2>1, <2>3, <3>2 DEF WatchMark, Folder
      <4> QED BY <1>0, <2>1, <2>3, <3>1, <3>2, <4>1 DEF Folder, FolderOnce
    <3>3. CASE cmd[s].state # "open"
      <4>1. cmd'[s].state = "absent"
        BY <1>8, <1>a, <2>3, <3>1, <3>3 DEF WatchMark, NoCommand
      <4>2. cpc[s] # "writing"
        BY <1>0, <3>3 DEF Folder
      <4> QED BY <1>0, <2>1, <2>3, <3>1, <4>1, <4>2 DEF Folder, FolderOnce
    <3> QED BY <3>2, <3>3
  <2> QED BY <2>2, <2>3
<1>9. ~AgentDies
  BY <1>0 DEF AgentDies
<1>10. CASE UNCHANGED vars \/ AgentStarts \/ Aside
  BY <1>1, <1>10, AsideFrame DEF clientVars
<1> QED BY <1>2, <1>3, <1>4, <1>5, <1>6, <1>7, <1>8, <1>9, <1>10 DEF Next, Watcher, Aside, OrphanStep

\* No request is captured twice, whatever stops, failures of subprocesses and of
\* status writes, lost replies and impatient clients come in between: over HTTP
\* with any number of requests and agent restarts, and through the command
\* folder as long as a run id is asked for once and the agent is not restarted
\* (CommandFolderWatcher._scan_once and _mark_handled).
THEOREM ServedOnceHolds == ASSUME OnceAssumption PROVE Spec => ServedOnce
<1>1. Init => OnceInv
  BY TypeInit, ConstantsAssumption
  DEF Init, OnceInv, SlotInv, Holder, HttpOnce, Folder, FolderOnce, With, Taken, NoCommand, WatchIdle
<1>2. OnceInv /\ [Next]_vars => OnceInv'
  <2> SUFFICES ASSUME OnceInv, [Next]_vars PROVE OnceInv'
    OBVIOUS
  <2>1. SlotInv'
    BY SlotStep DEF OnceInv
  <2> QED BY <2>1, HttpOnceStep, FolderStep DEF OnceInv
<1>3. ASSUME OnceInv, [Next]_vars, active = NoRun, active' # NoRun
      PROVE <<active', job'[active']>> \notin served
  <2>1. \A r \in Runs : ~Submit(r) /\ ~Worker(r)
    <3>1. \A r \in Runs : Holder(r) /\ r # NoRun
      BY <1>3, OnceTypes DEF OnceInv
    <3> QED BY <1>3, <3>1, SlotWorker DEF Holder, Submit, SubmitClear, SubmitUpsert, SubmitStart,
         OnceInv
  <2>2. ~WatchMark /\ ~WatchScan /\ ~AgentDies /\ ~AgentStarts /\ ~Aside
        /\ ~(UNCHANGED vars) /\ (\A r \in Runs : ~WatchRead(r))
    BY <1>3, AsideFrame DEF WatchMark, WatchScan, WatchRead, AgentDies
  <2>3. \A r \in Runs : Client(r) => Post(r)
    BY <1>3 DEF Client, Request, CommandWritten, Poll, GiveUp, runnerVars
  <2>4. ASSUME NEW r \in Runs, Post(r) PROVE <<active', job'[active']>> \notin served
    <3>1. /\ Accept(r, req[r]) /\ cpc[r] = "posting" /\ req[r] \in Requests
          /\ job \in [Runs -> Requests]
      BY <1>3, <2>4, OnceTypes DEF Post, OnceInv
    <3>2. active' = r /\ job'[active'] = req[r]
      BY <3>1 DEF Accept
    <3>3. HttpOnce(r)
      BY <1>3, <3>1 DEF OnceInv, Folder
    <3> QED BY <3>1, <3>2, <3>3 DEF HttpOnce
  <2>5. ASSUME WatchSubmit PROVE <<active', job'[active']>> \notin served
    <3>1. /\ watch.pc = "submit" /\ watch.run \in Runs /\ watch.n \in Requests
          /\ Accept(watch.run, watch.n) /\ job \in [Runs -> Requests]
      BY <1>3, <2>5, OnceTypes DEF WatchSubmit, OnceInv
    <3>2. active' = watch.run /\ job'[active'] = watch.n
      BY <3>1 DEF Accept
    <3>3. Folder(watch.run) /\ FolderOnce(watch.run)
      BY <1>3, <3>1 DEF OnceInv, HttpOnce, With
    <3>4. cmd[watch.run].state # "absent" /\ active # watch.run
      BY <1>3, <3>1, <3>3, ConstantsAssumption DEF Folder, With
    <3>5. ~Taken(watch.run)
      BY <3>1, <3>3, <3>4 DEF FolderOnce
    <3> QED BY <3>1, <3>2, <3>5 DEF Taken
  <2> QED BY <1>3, <2>1, <2>2, <2>3, <2>4, <2>5 DEF Next, Watcher, Aside, OrphanStep
<1> QED BY <1>1, <1>2, <1>3, PTL DEF Spec, ServedOnce
=============================================================================
