---------------------------- MODULE RunLifecycle ----------------------------
(***************************************************************************)
(* The life of a run in SessionRunService (sessions/runs/run_service.py):  *)
(* creating it or attaching to it, starting and resuming its worker task,  *)
(* stopping it, finalising it, and restarting the server.                  *)
(*                                                                         *)
(* Everything runs on one asyncio event loop, so a handler is atomic       *)
(* between two awaits and an action is the code between two awaits.  The   *)
(* durable state is the run_runtime row; the sets and registries are the   *)
(* service's memory.  A driver is a request that creates, starts or        *)
(* resumes a run; a stopper is a request that stops one; a worker is the   *)
(* asyncio task that executes one.                                         *)
(***************************************************************************)
EXTENDS FiniteSets

CONSTANTS Runs,          \* run ids, each used for one run
          Sessions,
          SessionOf,     \* the session each run id belongs to
          Drivers,       \* concurrent create / start / resume requests
          Stoppers,      \* concurrent stop requests
          Workers,       \* worker task objects alive at once
          StoreMayFail,  \* whether the database may refuse a write or an event
          CanRestart,    \* whether the server process can be restarted
          None

ASSUME RunLifecycleAssumption ==
  /\ SessionOf \in [Runs -> Sessions]
  /\ None \notin Runs \cup Workers \cup Drivers
  /\ StoreMayFail \in BOOLEAN
  /\ CanRestart \in BOOLEAN

VARIABLES
  row,        \* status column of run_runtime; "none" when there is no row
  pending,    \* _pending_runs
  running,    \* _running_run_ids (and the injection manager's active runs)
  resumeReq,  \* _resume_requested_runs
  active,     \* ActiveSessionRunRegistry
  lock,       \* holder of _run_creation_lock
  task,       \* _RunTaskRegistry._run_tasks
  stopReq,    \* _RunTaskRegistry._run_stop_requested
  dpc, drun, dsess, dseen, dwrk, ddet,   \* drivers: position and locals
  spc, srun,                             \* stoppers: position and run
  wpc, wrun, wseen, gate, cancel,        \* workers: position, run, events
  lost        \* history: runs whose finalisation can no longer happen

memory == <<pending, running, resumeReq, active, lock, task, stopReq>>
driverVars == <<dpc, drun, dsess, dseen, dwrk, ddet>>
stopperVars == <<spc, srun>>
workerVars == <<wpc, wrun, wseen, gate, cancel>>
vars == <<row, memory, driverVars, stopperVars, workerVars, lost>>

Status == {"queued", "running", "stopping", "paused", "stopped",
           "completed", "failed"}
Recoverable == {"queued", "running", "paused", "stopped"}
Resumable == {"queued", "paused", "stopped"}
Ended == {"completed", "failed", "stopped"}
\* What the coordinator's tasks write to the row while a run executes.
RunnerStatus == {"running", "paused", "stopped", "failed"}

Rows == Status \cup {"none"}

\* Positions of a driver that is waiting for a row, and where it goes next.
AfterRead == [load |-> "loaded", verify |-> "verified", lose |-> "lostRead",
              resume |-> "resumeRead", inspect |-> "inspected",
              finRead |-> "finReg"]

Creating == {"lookup", "load", "loaded", "revive", "created", "ensureRow",
             "remember"}
Starting == {"startRow", "startEvent", "resumeRow", "resumeEvent"}
FailingStart == {"inspect", "inspected", "finalize"}
DriverPc == Creating \cup Starting \cup FailingStart \cup DOMAIN AfterRead
              \cup {"idle", "start", "verified", "lostRead", "resumeRead",
                    "finReg"}
StopperPc == {"idle", "pop", "pendingWrite", "mark"}
AtGate == {"born", "gated", "gateDone"}
Executing == {"runner", "termWrite", "termTail", "pauseWrite", "errWrite",
              "stopWrite", "exceptTail"}
BeforeFinalize == AtGate \cup Executing
                    \cup {"cancelWrite", "cancelTail", "cleanup", "finalize"}
WorkerPc == BeforeFinalize \cup {"finRead", "finReg", "done"}

Init ==
  /\ row = [r \in Runs |-> "none"]
  /\ pending = {} /\ running = {} /\ resumeReq = {} /\ stopReq = {}
  /\ active = [s \in Sessions |-> None]
  /\ lock = None
  /\ task = [r \in Runs |-> None]
  /\ dpc = [d \in Drivers |-> "idle"]
  /\ drun = [d \in Drivers |-> None]
  /\ dsess = [d \in Drivers |-> None]
  /\ dseen = [d \in Drivers |-> "none"]
  /\ dwrk = [d \in Drivers |-> None]
  /\ ddet = [d \in Drivers |-> FALSE]
  /\ spc = [s \in Stoppers |-> "idle"]
  /\ srun = [s \in Stoppers |-> None]
  /\ wpc = [w \in Workers |-> "done"]
  /\ wrun = [w \in Workers |-> None]
  /\ wseen = [w \in Workers |-> "none"]
  /\ gate = [w \in Workers |-> "closed"]
  /\ cancel = [w \in Workers |-> FALSE]
  /\ lost = {}

-----------------------------------------------------------------------------
(* Shared pieces *)

Goto(d, pc) == dpc' = [dpc EXCEPT ![d] = pc]

DriverDone(d) ==
  /\ Goto(d, "idle")
  /\ drun' = [drun EXCEPT ![d] = None]
  /\ dsess' = [dsess EXCEPT ![d] = None]
  /\ dseen' = [dseen EXCEPT ![d] = "none"]
  /\ dwrk' = [dwrk EXCEPT ![d] = None]
  /\ ddet' = [ddet EXCEPT ![d] = FALSE]

\* A request known by its run id: the row exists or the run is queued.
Known(r) == row[r] # "none" \/ r \in pending

Remember(r) == active' = [active EXCEPT ![SessionOf[r]] = r]

\* With the bug: _running_run_ids.discard is forgotten.
FinalizeMemoryKeepsRunning(r) ==
  /\ task' = [task EXCEPT ![r] = None]
  /\ pending' = pending \ {r}
  /\ resumeReq' = resumeReq \ {r}
  /\ lost' = lost \ {r}
  /\ UNCHANGED <<running, active, lock, stopReq>>

\* _finalize_run_async up to its await.
FinalizeMemory(r) ==
  /\ task' = [task EXCEPT ![r] = None]
  /\ running' = running \ {r}
  /\ pending' = pending \ {r}
  /\ resumeReq' = resumeReq \ {r}
  /\ lost' = lost \ {r}
  /\ UNCHANGED <<active, lock, stopReq>>

\* _finalize_run_async after its await, with the status it read.
FinalizeRegistry(r, seen) ==
  active' = [active EXCEPT ![SessionOf[r]] =
               IF seen \in Recoverable
               THEN IF @ \in {None, r} THEN r ELSE @
               ELSE IF @ = r THEN None ELSE @]

\* The answer of a database read; the handler acts on it in a later step.
ReadRow(d) ==
  /\ dpc[d] \in DOMAIN AfterRead
  /\ dseen' = [dseen EXCEPT ![d] = row[drun[d]]]
  /\ Goto(d, AfterRead[dpc[d]])
  /\ UNCHANGED <<row, memory, drun, dsess, dwrk, ddet, stopperVars, workerVars,
                 lost>>

-----------------------------------------------------------------------------
(* Creating a run: _create_run_local_async, under _run_creation_lock *)

\* A run id nobody has used: new_trace_id().
Fresh(s, r) ==
  /\ SessionOf[r] = s
  /\ ~Known(r)
  /\ \A d \in Drivers : drun[d] # r
  /\ \A p \in Stoppers : srun[p] # r

\* Bound: no request enters once the session's run ids are used up.
CreateEnter(d, s) ==
  /\ dpc[d] = "idle"
  /\ lock = None
  /\ \E r \in Runs : Fresh(s, r)
  /\ lock' = d
  /\ dsess' = [dsess EXCEPT ![d] = s]
  /\ Goto(d, "lookup")
  /\ UNCHANGED <<row, pending, running, resumeReq, active, task, stopReq,
                 drun, dseen, dwrk, ddet, stopperVars, workerVars, lost>>

\* _queue_new_run_async up to its first await: a fresh id, queued in memory.
QueueRun(d, r) ==
  /\ Fresh(dsess[d], r)
  /\ pending' = pending \cup {r}
  /\ drun' = [drun EXCEPT ![d] = r]
  /\ dseen' = [dseen EXCEPT ![d] = "none"]
  /\ Goto(d, "ensureRow")
  /\ UNCHANGED <<row, running, resumeReq, lock, task, stopReq, dsess, dwrk,
                 ddet, stopperVars, workerVars, lost>>

CreateLookup(d) ==
  /\ dpc[d] = "lookup"
  /\ \/ /\ active[dsess[d]] = None
        /\ \E r \in Runs : QueueRun(d, r)
        /\ UNCHANGED active
     \/ /\ active[dsess[d]] # None
        /\ drun' = [drun EXCEPT ![d] = active[dsess[d]]]
        /\ Goto(d, "load")
        /\ UNCHANGED <<row, memory, dsess, dseen, dwrk, ddet, stopperVars,
                       workerVars, lost>>

\* The registered run turns out not to be recoverable: drop it, queue a new one.
CreateDropStale(d, r) ==
  /\ dpc[d] = "loaded"
  /\ dseen[d] \notin Recoverable \cup {"none"}
  /\ active' = [active EXCEPT ![SessionOf[drun[d]]] =
                  IF @ = drun[d] THEN None ELSE @]
  /\ QueueRun(d, r)

\* An open approval or question, a paused subagent or another run kind.
CreateRefuse(d) ==
  /\ dpc[d] = "loaded"
  /\ dseen[d] \in Recoverable \cup {"none"}
  /\ lock' = None
  /\ DriverDone(d)
  /\ UNCHANGED <<row, pending, running, resumeReq, active, task, stopReq,
                 stopperVars, workerVars, lost>>

QueuedOnly(r) == r \in pending \ running

\* Merge into a queued run, or append to the coordinator of a running one.
CreateAttach(d) ==
  /\ dpc[d] = "loaded"
  /\ dseen[d] \in Recoverable \cup {"none"}
  /\ QueuedOnly(drun[d]) \/ drun[d] \in running
  /\ Goto(d, "created")
  /\ UNCHANGED <<row, memory, drun, dsess, dseen, dwrk, ddet, stopperVars,
                 workerVars, lost>>

CreateAttachRecoverable(d) ==
  /\ dpc[d] = "loaded"
  /\ dseen[d] \in {"paused", "stopped"}
  /\ ~QueuedOnly(drun[d]) /\ drun[d] \notin running
  /\ Goto(d, "revive")
  /\ UNCHANGED <<row, memory, drun, dsess, dseen, dwrk, ddet, stopperVars,
                 workerVars, lost>>

\* Read as queued or running, but by now neither: no branch applies.
CreateFallThrough(d, r) ==
  /\ dpc[d] = "loaded"
  /\ dseen[d] \in {"queued", "running", "none"}
  /\ ~QueuedOnly(drun[d]) /\ drun[d] \notin running
  /\ QueueRun(d, r)
  /\ UNCHANGED active

\* The request leaves the lock with a run id and goes on to start it, in a
\* detached task (schedule_run_start) or directly (the gateways).
CreateReturn(d) ==
  /\ lock' = None
  /\ ddet' \in {[ddet EXCEPT ![d] = b] : b \in BOOLEAN}
  /\ dsess' = [dsess EXCEPT ![d] = None]
  /\ dseen' = [dseen EXCEPT ![d] = "none"]
  /\ Goto(d, "start")
  /\ UNCHANGED <<row, pending, running, task, stopReq, drun, dwrk, stopperVars,
                 workerVars, lost>>

CreateAttached(d) ==
  /\ dpc[d] = "created"
  /\ CreateReturn(d)
  /\ UNCHANGED <<resumeReq, active>>

CreateRevive(d) ==
  /\ dpc[d] = "revive"
  /\ resumeReq' = resumeReq \cup {drun[d]}
  /\ CreateReturn(d)
  /\ UNCHANGED active

EnsureRow(d) ==
  /\ dpc[d] = "ensureRow"
  /\ row' = [row EXCEPT ![drun[d]] = IF @ = "none" THEN "queued" ELSE @]
  /\ Goto(d, "remember")
  /\ UNCHANGED <<memory, drun, dsess, dseen, dwrk, ddet, stopperVars,
                 workerVars, lost>>

CreateQueued(d) ==
  /\ dpc[d] = "remember"
  /\ Remember(drun[d])
  /\ CreateReturn(d)
  /\ UNCHANGED resumeReq

-----------------------------------------------------------------------------
(* Resuming a run: _resume_run_local_async *)

ResumeBegin(d, r) ==
  /\ dpc[d] = "idle"
  /\ Known(r)
  /\ r \notin running
  /\ drun' = [drun EXCEPT ![d] = r]
  /\ \/ /\ r \in pending
        /\ IF r \in resumeReq
           THEN UNCHANGED <<resumeReq, active>>
           ELSE resumeReq' = resumeReq \cup {r} /\ Remember(r)
        /\ Goto(d, "start")
     \/ /\ r \notin pending
        /\ Goto(d, "resume")
        /\ UNCHANGED <<resumeReq, active>>
  /\ UNCHANGED <<row, pending, running, lock, task, stopReq, dsess, dseen, dwrk,
                 ddet, stopperVars, workerVars, lost>>

ResumeDecide(d) ==
  /\ dpc[d] = "resumeRead"
  /\ IF dseen[d] \in Resumable
     THEN /\ IF drun[d] \in resumeReq
             THEN UNCHANGED <<resumeReq, active>>
             ELSE /\ resumeReq' = resumeReq \cup {drun[d]}
                  /\ Remember(drun[d])
          /\ Goto(d, "start")
          /\ dseen' = [dseen EXCEPT ![d] = "none"]
          /\ UNCHANGED <<drun, dsess, dwrk, ddet>>
     ELSE DriverDone(d) /\ UNCHANGED <<resumeReq, active>>
  /\ UNCHANGED <<row, pending, running, lock, task, stopReq, stopperVars,
                 workerVars, lost>>

-----------------------------------------------------------------------------
(* Starting a run: _ensure_run_started_local_async *)

\* A task slot that no registry entry and no handler still refers to.
FreeWorker(w) ==
  /\ wpc[w] = "done"
  /\ \A r \in Runs : task[r] # w
  /\ \A d \in Drivers : dwrk[d] # w

\* running.add, injection activate, register the startup-gated worker task.
Launch(d, w, pc) ==
  /\ FreeWorker(w)
  /\ running' = running \cup {drun[d]}
  /\ task' = [task EXCEPT ![drun[d]] = w]
  /\ stopReq' = stopReq \ {drun[d]}
  /\ wpc' = [wpc EXCEPT ![w] = "born"]
  /\ wrun' = [wrun EXCEPT ![w] = drun[d]]
  /\ gate' = [gate EXCEPT ![w] = "closed"]
  /\ cancel' = [cancel EXCEPT ![w] = FALSE]
  /\ dwrk' = [dwrk EXCEPT ![d] = w]
  /\ Goto(d, pc)
  /\ UNCHANGED <<row, pending, active, lock, drun, dsess, dseen, ddet,
                 stopperVars, wseen, lost>>

\* An error of the start: reported by the detached task, else by the caller.
StartError(d) ==
  IF ddet[d]
  THEN Goto(d, "inspect") /\ UNCHANGED <<drun, dsess, dseen, dwrk, ddet>>
  ELSE DriverDone(d)

StartAlreadyRunning(d) ==
  /\ dpc[d] = "start"
  /\ drun[d] \in running
  /\ DriverDone(d)
  /\ UNCHANGED <<row, memory, stopperVars, workerVars, lost>>

StartNew(d, w) ==
  /\ dpc[d] = "start"
  /\ QueuedOnly(drun[d])
  /\ Launch(d, w, "startRow")
  /\ UNCHANGED resumeReq

\* Neither running nor queued: read the row to resume it or to report it lost.
StartInspect(d) ==
  /\ dpc[d] = "start"
  /\ drun[d] \notin running \cup pending
  /\ Goto(d, IF drun[d] \in resumeReq THEN "verify" ELSE "lose")
  /\ UNCHANGED <<row, memory, drun, dsess, dseen, dwrk, ddet, stopperVars,
                 workerVars, lost>>

StartResume(d, w) ==
  /\ dpc[d] = "verified"
  /\ dseen[d] \in Resumable
  /\ Launch(d, w, "resumeRow")
  /\ resumeReq' = resumeReq \ {drun[d]}

StartRefused(d) ==
  /\ dpc[d] = "verified"
  /\ dseen[d] \notin Resumable
  /\ StartError(d)
  /\ UNCHANGED <<row, memory, stopperVars, workerVars, lost>>

StartLost(d) ==
  /\ dpc[d] = "lostRead"
  /\ IF dseen[d] \in Ended THEN DriverDone(d) ELSE StartError(d)
  /\ UNCHANGED <<row, memory, stopperVars, workerVars, lost>>

StartRow(d) ==
  /\ dpc[d] \in {"startRow", "resumeRow"}
  /\ row' = [row EXCEPT ![drun[d]] = "running"]
  /\ Goto(d, IF dpc[d] = "startRow" THEN "startEvent" ELSE "resumeEvent")
  /\ UNCHANGED <<memory, drun, dsess, dseen, dwrk, ddet, stopperVars,
                 workerVars, lost>>

\* With the bug: startup_done is not set when a stop was requested.
StartEventForgetsStop(d) ==
  /\ dpc[d] \in {"startEvent", "resumeEvent"}
  /\ gate' = [gate EXCEPT ![dwrk[d]] =
                IF wpc[dwrk[d]] = "done" \/ drun[d] \in stopReq THEN @ ELSE "ready"]
  /\ DriverDone(d)
  /\ UNCHANGED <<row, memory, stopperVars, wpc, wrun, wseen, cancel, lost>>

\* RUN_STARTED / RUN_RESUMED is published; open the gate unless stopped.
StartEvent(d) ==
  /\ dpc[d] \in {"startEvent", "resumeEvent"}
  /\ gate' = [gate EXCEPT ![dwrk[d]] =
                IF wpc[dwrk[d]] = "done" THEN @
                ELSE IF drun[d] \in stopReq THEN "done" ELSE "ready"]
  /\ DriverDone(d)
  /\ UNCHANGED <<row, memory, stopperVars, wpc, wrun, wseen, cancel, lost>>

\* `except BaseException` of the two start functions.  Publishing the event
\* of a resumed run cannot fail (safe_publish_run_event_async).
StartFail(d) ==
  /\ StoreMayFail
  /\ dpc[d] \in Starting \ {"resumeEvent"}
  /\ gate' = [gate EXCEPT ![dwrk[d]] =
                IF wpc[dwrk[d]] = "done" THEN @ ELSE "failed"]
  /\ cancel' = [cancel EXCEPT ![dwrk[d]] = wpc[dwrk[d]] # "done"]
  /\ task' = [task EXCEPT ![drun[d]] = None]
  /\ lost' = IF ddet[d] THEN lost ELSE lost \cup {drun[d]}
  /\ IF ddet[d]
     THEN Goto(d, "inspect") /\ dwrk' = [dwrk EXCEPT ![d] = None]
          /\ UNCHANGED <<drun, dsess, dseen, ddet>>
     ELSE DriverDone(d)
  /\ UNCHANGED <<row, pending, running, resumeReq, active, lock, stopReq,
                 stopperVars, wpc, wrun, wseen>>

-----------------------------------------------------------------------------
(* _handle_run_start_failed_async, in the detached start task *)

\* With the bug: a start that failed is not finalised.
FailStartedOnlyMarks(d) ==
  /\ dpc[d] = "inspected"
  /\ row' = [row EXCEPT ![drun[d]] =
               IF dseen[d] \in Ended \cup {"none"} THEN @ ELSE "failed"]
  /\ DriverDone(d)
  /\ UNCHANGED <<memory, stopperVars, workerVars, lost>>

FailStarted(d) ==
  /\ dpc[d] = "inspected"
  /\ row' = [row EXCEPT ![drun[d]] =
               IF dseen[d] \in Ended \cup {"none"} THEN @ ELSE "failed"]
  /\ Goto(d, "finalize")
  /\ UNCHANGED <<memory, drun, dsess, dseen, dwrk, ddet, stopperVars,
                 workerVars, lost>>

DriverFinalize(d) ==
  /\ dpc[d] = "finalize"
  /\ FinalizeMemory(drun[d])
  /\ Goto(d, "finRead")
  /\ UNCHANGED <<row, drun, dsess, dseen, dwrk, ddet, stopperVars, workerVars>>

DriverFinalized(d) ==
  /\ dpc[d] = "finReg"
  /\ FinalizeRegistry(drun[d], dseen[d])
  /\ DriverDone(d)
  /\ UNCHANGED <<row, pending, running, resumeReq, lock, task, stopReq,
                 stopperVars, workerVars, lost>>

-----------------------------------------------------------------------------
(* Stopping a run: _stop_run_local_async *)

StopGoto(s, pc) == spc' = [spc EXCEPT ![s] = pc]

StopperDone(s) ==
  /\ StopGoto(s, "idle")
  /\ srun' = [srun EXCEPT ![s] = None]

\* A queued run: its open questions are completed first (an await).
StopQueued(s, r) ==
  /\ spc[s] = "idle"
  /\ QueuedOnly(r)
  /\ StopGoto(s, "pop")
  /\ srun' = [srun EXCEPT ![s] = r]
  /\ UNCHANGED <<row, memory, driverVars, workerVars, lost>>

\* With the bug: the run is flagged but its task is not cancelled.
StopRequestOnlyFlags(s, r) ==
  /\ spc[s] = "idle"
  /\ Known(r)
  /\ ~QueuedOnly(r)
  /\ stopReq' = stopReq \cup {r}
  /\ IF task[r] = None
     THEN UNCHANGED stopperVars
     ELSE StopGoto(s, "mark") /\ srun' = [srun EXCEPT ![s] = r]
  /\ UNCHANGED <<row, pending, running, resumeReq, active, lock, task,
                 driverVars, workerVars, lost>>

\* With the bug: the task is dropped from the registry when it is cancelled.
StopRequestUnregisters(s, r) ==
  /\ spc[s] = "idle"
  /\ Known(r)
  /\ ~QueuedOnly(r)
  /\ task[r] # None
  /\ cancel' = [cancel EXCEPT ![task[r]] = wpc[task[r]] # "done"]
  /\ task' = [task EXCEPT ![r] = None]
  /\ StopGoto(s, "mark")
  /\ srun' = [srun EXCEPT ![s] = r]
  /\ stopReq' = stopReq \cup {r}
  /\ UNCHANGED <<row, pending, running, resumeReq, active, lock, driverVars,
                 wpc, wrun, wseen, gate, lost>>

\* request_run_stop: flag the run, cancel its registered task.
StopRequest(s, r) ==
  /\ spc[s] = "idle"
  /\ Known(r)
  /\ ~QueuedOnly(r)
  /\ stopReq' = stopReq \cup {r}
  /\ IF task[r] = None
     THEN UNCHANGED <<cancel, stopperVars>>
     ELSE /\ cancel' = [cancel EXCEPT ![task[r]] = wpc[task[r]] # "done"]
          /\ StopGoto(s, "mark")
          /\ srun' = [srun EXCEPT ![s] = r]
  /\ UNCHANGED <<row, pending, running, resumeReq, active, lock, task,
                 driverVars, wpc, wrun, wseen, gate, lost>>

\* After the await the run is popped from _pending_runs, whoever holds it now.
StopPop(s) ==
  /\ spc[s] = "pop"
  /\ IF srun[s] \in pending
     THEN StopGoto(s, "pendingWrite") /\ UNCHANGED srun
     ELSE StopperDone(s)
  /\ pending' = pending \ {srun[s]}
  /\ UNCHANGED <<row, running, resumeReq, active, lock, task, stopReq,
                 driverVars, workerVars, lost>>

StopPendingWrite(s) ==
  /\ spc[s] = "pendingWrite"
  /\ row' = [row EXCEPT ![srun[s]] = IF @ = "none" THEN @ ELSE "stopped"]
  /\ StopperDone(s)
  /\ UNCHANGED <<memory, driverVars, workerVars, lost>>

\* The status is marked after the cancellation was requested.
StopMark(s) ==
  /\ spc[s] = "mark"
  /\ row' = [row EXCEPT ![srun[s]] = IF @ = "none" THEN @ ELSE "stopping"]
  /\ StopperDone(s)
  /\ UNCHANGED <<memory, driverVars, workerVars, lost>>

-----------------------------------------------------------------------------
(* The worker task: _run_after_startup, _worker, _finalize_run_async.      *)
(* cancel[w] is a pending asyncio cancellation: the task's next await      *)
(* raises it, so a step that goes on normally needs ~cancel[w].            *)

WorkerGoto(w, pc) == wpc' = [wpc EXCEPT ![w] = pc]

WorkerStep(w, from, to) ==
  /\ wpc[w] = from
  /\ ~cancel[w]
  /\ WorkerGoto(w, to)
  /\ UNCHANGED <<memory, driverVars, stopperVars, wrun, wseen, gate, cancel,
                 lost>>

Enter(w) == WorkerStep(w, "born", "gated") /\ UNCHANGED row

\* With the bug: the task does not wait for startup_ready.
OpenGateUnready(w) == WorkerStep(w, "gated", "runner") /\ UNCHANGED row

OpenGate(w) ==
  /\ gate[w] = "ready"
  /\ WorkerStep(w, "gated", "runner")
  /\ UNCHANGED row

WorkerDone(w) ==
  /\ WorkerGoto(w, "done")
  /\ wrun' = [wrun EXCEPT ![w] = None]
  /\ wseen' = [wseen EXCEPT ![w] = "none"]
  /\ gate' = [gate EXCEPT ![w] = "closed"]
  /\ cancel' = [cancel EXCEPT ![w] = FALSE]

\* The task ends without finalising its run.  After a failed startup that is
\* intended: the starter has taken over.
Die(w) ==
  /\ WorkerDone(w)
  /\ lost' = IF gate[w] = "failed" THEN lost ELSE lost \cup {wrun[w]}
  /\ UNCHANGED <<memory, driverVars, stopperVars>>

\* Cancelled before its first step, or cancelled again or failing in the
\* startup-cancelled path, whose code has no `finally`.
DieUnfinalized(w) ==
  /\ \/ cancel[w]
     \/ StoreMayFail /\ wpc[w] \in {"cancelWrite", "cancelTail"}
  /\ \/ /\ wpc[w] \in {"born", "gateDone", "cancelTail"}
        /\ UNCHANGED row
     \/ /\ wpc[w] = "cancelWrite"
        /\ row' \in {row, [row EXCEPT ![wrun[w]] = "stopped"]}
  /\ Die(w)

CancelAtGate(w) ==
  /\ wpc[w] = "gated"
  /\ cancel[w]
  /\ WorkerGoto(w, "gateDone")
  /\ cancel' = [cancel EXCEPT ![w] = FALSE]
  /\ UNCHANGED <<row, memory, driverVars, stopperVars, wrun, wseen, gate, lost>>

\* startup_done is set: record the stop, or leave it to the failed starter.
LeaveGate(w) ==
  /\ gate[w] \in {"done", "ready"}
  /\ WorkerStep(w, "gateDone", "cancelWrite")
  /\ UNCHANGED row

LeaveFailedGate(w) ==
  /\ wpc[w] = "gateDone"
  /\ gate[w] = "failed"
  /\ Die(w)
  /\ UNCHANGED row

\* With the bug: a status that RunRuntimeStatus does not have is stored.
CancelWriteCancelled(w) ==
  /\ WorkerStep(w, "cancelWrite", "cancelTail")
  /\ row' = [row EXCEPT ![wrun[w]] = "cancelled"]

CancelWrite(w) ==
  /\ WorkerStep(w, "cancelWrite", "cancelTail")
  /\ row' = [row EXCEPT ![wrun[w]] = "stopped"]

CancelTail(w) == WorkerStep(w, "cancelTail", "finalize") /\ UNCHANGED row

\* The coordinator's task execution writes the status while it runs, and
\* while it unwinds after a cancellation.
RunnerWrite(w) ==
  /\ wpc[w] = "runner"
  /\ \E st \in RunnerStatus : row' = [row EXCEPT ![wrun[w]] = st]
  /\ UNCHANGED <<memory, driverVars, stopperVars, workerVars, lost>>

\* _safe_runtime_update_async: a write that the database refuses is logged,
\* and the worker goes on.
SafeUpdate(w, statuses) ==
  \/ \E st \in statuses : row' = [row EXCEPT ![wrun[w]] = st]
  \/ StoreMayFail /\ UNCHANGED row

RunnerReturns(w) == WorkerStep(w, "runner", "termWrite") /\ UNCHANGED row
RunnerPauses(w) == WorkerStep(w, "runner", "pauseWrite") /\ UNCHANGED row
RunnerRaises(w) == WorkerStep(w, "runner", "errWrite") /\ UNCHANGED row

TermWrite(w) ==
  /\ WorkerStep(w, "termWrite", "termTail")
  /\ SafeUpdate(w, {"completed", "failed"})

\* The terminal event, the session-end hooks (which may raise) and the board.
TermTail(w) ==
  /\ WorkerStep(w, "termTail", "cleanup") \/ WorkerStep(w, "termTail", "errWrite")
  /\ UNCHANGED row

PauseWrite(w) ==
  /\ WorkerStep(w, "pauseWrite", "exceptTail")
  /\ SafeUpdate(w, {"paused"})

\* The stop hooks of the error result raise: nothing is written.
ErrHooksRaise(w) == WorkerStep(w, "errWrite", "cleanup") /\ UNCHANGED row

ErrWrite(w) ==
  /\ WorkerStep(w, "errWrite", "exceptTail")
  /\ SafeUpdate(w, {"completed", "failed"})

StopWrite(w) ==
  /\ WorkerStep(w, "stopWrite", "exceptTail")
  /\ SafeUpdate(w, {"stopped"})

\* The events, notifications and hooks after the write of an except body.
ExceptTail(w) == WorkerStep(w, "exceptTail", "cleanup") /\ UNCHANGED row

\* What the write interrupted at each position may still have stored.
Interrupted(w) ==
  CASE wpc[w] \in {"termWrite", "errWrite"} -> {"completed", "failed"}
    [] wpc[w] = "pauseWrite" -> {"paused"}
    [] wpc[w] = "stopWrite" -> {"stopped"}
    [] OTHER -> {}

\* A cancellation inside the try is handled as a stop; inside one of the
\* except bodies it goes straight to the finally.
CancelWorker(w) ==
  /\ wpc[w] \in Executing
  /\ cancel[w]
  /\ WorkerGoto(w, IF wpc[w] \in {"runner", "termWrite", "termTail"}
                   THEN "stopWrite" ELSE "cleanup")
  /\ cancel' = [cancel EXCEPT ![w] = FALSE]
  /\ \/ UNCHANGED row
     \/ \E st \in Interrupted(w) : row' = [row EXCEPT ![wrun[w]] = st]
  /\ UNCHANGED <<memory, driverVars, stopperVars, wrun, wseen, gate, lost>>

\* The finally: stop the run's foreground background tasks, then finalise.
CleanUp(w) == WorkerStep(w, "cleanup", "finalize") /\ UNCHANGED row

\* Cancelled while the finally stops them: the finalisation is skipped.
CancelCleanUp(w) ==
  /\ wpc[w] = "cleanup"
  /\ cancel[w]
  /\ Die(w)
  /\ UNCHANGED row

\* The finalisation runs in a shielded task of its own: a cancellation waits.
Finalize(w) ==
  /\ wpc[w] = "finalize"
  /\ FinalizeMemory(wrun[w])
  /\ WorkerGoto(w, "finRead")
  /\ cancel' = [cancel EXCEPT ![w] = FALSE]
  /\ UNCHANGED <<row, driverVars, stopperVars, wrun, wseen, gate>>

FinalizeRead(w) ==
  /\ wpc[w] = "finRead"
  /\ wseen' = [wseen EXCEPT ![w] = row[wrun[w]]]
  /\ WorkerGoto(w, "finReg")
  /\ UNCHANGED <<row, memory, driverVars, stopperVars, wrun, gate, cancel, lost>>

Finalized(w) ==
  /\ wpc[w] = "finReg"
  /\ FinalizeRegistry(wrun[w], wseen[w])
  /\ WorkerDone(w)
  /\ UNCHANGED <<row, pending, running, resumeReq, lock, task, stopReq,
                 driverVars, stopperVars, lost>>

-----------------------------------------------------------------------------
(* The process dies and comes back: memory is gone, the rows of queued and *)
(* running runs become stopped, the registry is rebuilt newest row first.  *)

Interruptible == {"queued", "running"}

\* Rows rewritten by the restart are newer than every other row.
Hydrated(s) ==
  LET mine == {r \in Runs : SessionOf[r] = s}
      interrupted == {r \in mine : row[r] \in Interruptible}
  IN IF interrupted # {} THEN interrupted
     ELSE {r \in mine : row[r] \in Recoverable}

Restart ==
  /\ CanRestart
  /\ row' = [r \in Runs |-> IF row[r] \in Interruptible THEN "stopped" ELSE row[r]]
  /\ pending' = {} /\ running' = {} /\ resumeReq' = {} /\ stopReq' = {}
  /\ active' \in [Sessions -> Runs \cup {None}]
  /\ \A s \in Sessions : IF Hydrated(s) = {} THEN active'[s] = None
                         ELSE active'[s] \in Hydrated(s)
  /\ lock' = None
  /\ task' = [r \in Runs |-> None]
  /\ dpc' = [d \in Drivers |-> "idle"]
  /\ drun' = [d \in Drivers |-> None]
  /\ dsess' = [d \in Drivers |-> None]
  /\ dseen' = [d \in Drivers |-> "none"]
  /\ dwrk' = [d \in Drivers |-> None]
  /\ ddet' = [d \in Drivers |-> FALSE]
  /\ spc' = [s \in Stoppers |-> "idle"]
  /\ srun' = [s \in Stoppers |-> None]
  /\ wpc' = [w \in Workers |-> "done"]
  /\ wrun' = [w \in Workers |-> None]
  /\ wseen' = [w \in Workers |-> "none"]
  /\ gate' = [w \in Workers |-> "closed"]
  /\ cancel' = [w \in Workers |-> FALSE]
  /\ lost' = {}

-----------------------------------------------------------------------------

DriverBegins(d) ==
  \/ \E s \in Sessions : CreateEnter(d, s)
  \/ \E r \in Runs : ResumeBegin(d, r)

DriverContinues(d) ==
  \/ ReadRow(d)
  \/ CreateLookup(d) \/ CreateRefuse(d) \/ CreateAttach(d)
  \/ CreateAttachRecoverable(d) \/ CreateAttached(d) \/ CreateRevive(d)
  \/ EnsureRow(d) \/ CreateQueued(d)
  \/ \E r \in Runs : CreateDropStale(d, r) \/ CreateFallThrough(d, r)
  \/ ResumeDecide(d)
  \/ StartAlreadyRunning(d) \/ StartInspect(d) \/ StartRefused(d)
  \/ \E w \in Workers : StartNew(d, w) \/ StartResume(d, w)
  \/ StartLost(d) \/ StartRow(d) \/ StartEvent(d) \/ StartFail(d)
  \/ FailStarted(d) \/ DriverFinalize(d) \/ DriverFinalized(d)

StopperBegins(s) == \E r \in Runs : StopQueued(s, r) \/ StopRequest(s, r)

StopperContinues(s) == StopPop(s) \/ StopPendingWrite(s) \/ StopMark(s)

\* What the runner does, and when it ends, is up to the model and its tools.
RunnerActs(w) ==
  RunnerWrite(w) \/ RunnerReturns(w) \/ RunnerPauses(w) \/ RunnerRaises(w)

WorkerContinues(w) ==
  \/ Enter(w) \/ OpenGate(w) \/ DieUnfinalized(w) \/ CancelAtGate(w)
  \/ LeaveGate(w) \/ LeaveFailedGate(w) \/ CancelWrite(w) \/ CancelTail(w)
  \/ TermWrite(w) \/ TermTail(w) \/ PauseWrite(w)
  \/ ErrHooksRaise(w) \/ ErrWrite(w) \/ StopWrite(w) \/ ExceptTail(w) \/ CancelWorker(w)
  \/ CleanUp(w) \/ CancelCleanUp(w)
  \/ Finalize(w) \/ FinalizeRead(w) \/ Finalized(w)

Next ==
  \/ \E d \in Drivers : DriverBegins(d) \/ DriverContinues(d)
  \/ \E s \in Stoppers : StopperBegins(s) \/ StopperContinues(s)
  \/ \E w \in Workers : RunnerActs(w) \/ WorkerContinues(w)
  \/ Restart

Spec == Init /\ [][Next]_vars

\* The event loop runs every ready callback: a handler or task that is not
\* waiting for the model provider goes on.
Fairness ==
  /\ \A d \in Drivers : WF_vars(DriverContinues(d))
  /\ \A s \in Stoppers : WF_vars(StopperContinues(s))
  /\ \A w \in Workers : WF_vars(WorkerContinues(w))

FairSpec == Spec /\ Fairness

-----------------------------------------------------------------------------
(* Properties *)

\* Every variable has its type: the rows hold a RunRuntimeStatus, the
\* registries hold ids, and each handler is at one of its positions.
TypeOK ==
  /\ row \in [Runs -> Rows]
  /\ pending \subseteq Runs /\ running \subseteq Runs
  /\ resumeReq \subseteq Runs /\ stopReq \subseteq Runs /\ lost \subseteq Runs
  /\ active \in [Sessions -> Runs \cup {None}]
  /\ lock \in Drivers \cup {None}
  /\ task \in [Runs -> Workers \cup {None}]
  /\ dpc \in [Drivers -> DriverPc]
  /\ drun \in [Drivers -> Runs \cup {None}]
  /\ dsess \in [Drivers -> Sessions \cup {None}]
  /\ dseen \in [Drivers -> Rows]
  /\ dwrk \in [Drivers -> Workers \cup {None}]
  /\ ddet \in [Drivers -> BOOLEAN]
  /\ spc \in [Stoppers -> StopperPc]
  /\ srun \in [Stoppers -> Runs \cup {None}]
  /\ wpc \in [Workers -> WorkerPc]
  /\ wrun \in [Workers -> Runs \cup {None}]
  /\ wseen \in [Workers -> Rows]
  /\ gate \in [Workers -> {"closed", "done", "ready", "failed"}]
  /\ cancel \in [Workers -> BOOLEAN]

\* While _start_new_run_worker_async or _start_resume_worker_async still
\* writes the startup row and event, the task it launched is held at the
\* startup gate, whatever stops it meanwhile: no agent work precedes
\* RUN_STARTED, and the task of one start is never taken over by another.
GateHoldsWorker ==
  \A d \in Drivers : dpc[d] \in Starting =>
    /\ wpc[dwrk[d]] \in AtGate \cup {"done"}
    /\ gate[dwrk[d]] = "closed"
    /\ wpc[dwrk[d]] # "done" => wrun[dwrk[d]] = drun[d]

Owner(w, r) == wpc[w] \in BeforeFinalize /\ wrun[w] = r /\ gate[w] # "failed"

\* A run in _running_run_ids can still leave it, otherwise it can be neither
\* stopped nor resumed: a worker, or a detached start that failed, has yet to
\* run _finalize_run_async for it.  The exceptions are the windows recorded in
\* "lost", where a task ends without finalising its run.
RunningHasOwner ==
  \A r \in running :
    \/ r \in lost
    \/ \E w \in Workers : Owner(w, r)
    \/ \E d \in Drivers : drun[d] = r /\ dpc[d] \in FailingStart

\* request_run_stop reaches every executing worker: it is the task registered
\* for its run, and the run is known as running.
ExecutingIsRegistered ==
  \A w \in Workers : wpc[w] \in Executing =>
    task[wrun[w]] = w /\ wrun[w] \in running

ExecutingWorkers == {w \in Workers : wpc[w] \in Executing}

Lease == INSTANCE RunLease WITH holder <- task, executing <- ExecutingWorkers

\* With one starter the lifecycle implements RunLease: _running_run_ids and the
\* task registry grant a run to one worker at a time, and stops, failed starts
\* and finalisations never withdraw the grant of a worker that is executing.
LeaseSpec == Lease!Spec

\* A worker task does not wait at the startup gate for ever: its starter opens
\* or fails the gate, or a stop takes the task past it.
GateOpens ==
  \A w \in Workers : wpc[w] \in AtGate ~> wpc[w] \notin AtGate

\* A stop of a run with a worker task settles (_stop_run_local_async): the run
\* leaves _running_run_ids, or its task died in a window recorded in "lost".
StopSettles ==
  \A r \in Runs :
    (r \in stopReq /\ task[r] # None) ~> (r \notin running \/ r \in lost)

\* "Run {run_id} is already running" (_resume_run_local_async): resuming a
\* run that already executes is rejected, so one worker executes a run.
OneWorkerPerRun ==
  \A v, w \in Workers :
    wpc[v] \in Executing /\ wpc[w] \in Executing /\ wrun[v] = wrun[w] => v = w

\* The status "stopping" means that the run is being stopped and has not
\* reached its end: some task is still going to finish it.
StoppingIsInProgress ==
  \A r \in Runs : row[r] = "stopping" =>
    \E w \in Workers : wpc[w] # "done" /\ wrun[w] = r

\* "Run {run_id} is stopping. Wait for it to stop before continuing."
\* (_assert_auto_attach_allowed_async): input to a session whose run is
\* stopping waits, so no other run of the session executes until it stopped.
StoppingBlocksSession ==
  \A v, w \in Workers :
    /\ wpc[v] \in Executing
    /\ wpc[w] \in Executing
    /\ SessionOf[wrun[v]] = SessionOf[wrun[w]]
    /\ row[wrun[v]] = "stopping"
    => v = w

=============================================================================
