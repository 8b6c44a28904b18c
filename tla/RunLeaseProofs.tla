--------------------------- MODULE RunLeaseProofs ---------------------------
(***************************************************************************)
(* With one starter, RunLifecycle implements RunLease: the theorem says    *)
(* what the absence of concurrent starts buys, for every number of runs,   *)
(* workers and stop requests, with failing starts and restarts.            *)
(***************************************************************************)
EXTENDS RunLifecycleProofs

OneStarter == \A d, e \in Drivers : d = e

\* Worker w has yet to finalise its run.
Live(w) == wpc[w] \in BeforeFinalize /\ gate[w] # "failed"

\* A live worker is the registered one; only running runs are registered.
Registered ==
  /\ \A w \in Workers : Live(w) => task[wrun[w]] = w /\ wrun[w] \in running
  /\ \A r \in Runs \ running : task[r] = None

\* A worker whose start failed never leaves the gate alive.
FailedAtGate == \A w \in Workers : gate[w] = "failed" => wpc[w] \in AtGate

\* What the one starter knows of its run at each position.
StarterKnows ==
  \A d \in Drivers :
    /\ dpc[d] \in Starting => task[drun[d]] = dwrk[d]
    /\ dpc[d] \in FailingStart => task[drun[d]] = None
    /\ dpc[d] \in {"verify", "verified", "lose", "lostRead"} => drun[d] \notin running

LeaseInv == Registered /\ FailedAtGate /\ StarterKnows

-----------------------------------------------------------------------------
(* LeaseInv is inductive *)

\* The starter moves, and the registries and the workers stay as they are.
LEMMA LeaseStarterMoves ==
  ASSUME OneStarter, LeaseInv, NEW d \in Drivers,
         UNCHANGED <<running, task, workerVars>>,
         dpc'[d] \in Starting => task[drun'[d]] = dwrk'[d],
         dpc'[d] \in FailingStart => task[drun'[d]] = None,
         dpc'[d] \in {"verify", "verified", "lose", "lostRead"}
           => drun'[d] \notin running
  PROVE  LeaseInv'
BY DEF OneStarter, LeaseInv, Registered, FailedAtGate, StarterKnows, Live,
       workerVars

\* A launch registers a new worker for a run that is not running.
LEMMA LeaseLaunch ==
  ASSUME OneStarter, TypeInv, LeaseInv, NEW d \in Drivers, NEW w \in Workers,
         NEW pc \in Starting, drun[d] \in Runs \ running, Launch(d, w, pc)
  PROVE  LeaseInv'
<1>1. /\ wpc[w] = "done"
      /\ running' = running \cup {drun[d]}
      /\ task' = [task EXCEPT ![drun[d]] = w]
      /\ drun' = drun
      /\ dpc' = [dpc EXCEPT ![d] = pc]
      /\ dwrk' = [dwrk EXCEPT ![d] = w]
      /\ wpc' = [wpc EXCEPT ![w] = "born"]
      /\ wrun' = [wrun EXCEPT ![w] = drun[d]]
      /\ gate' = [gate EXCEPT ![w] = "closed"]
  BY DEF Launch, FreeWorker, Goto
<1> USE <1>1 DEF TypeInv, TypeOK, LeaseInv
<1>2. Registered'
  <2>1. \A v \in Workers : Live(v)' => task'[wrun'[v]] = v /\ wrun'[v] \in running'
    BY DEF Registered, Live
  <2>2. \A r \in Runs \ running' : task'[r] = None
    BY DEF Registered
  <2> QED BY <2>1, <2>2 DEF Registered
<1>3. FailedAtGate'
  BY DEF FailedAtGate, AtGate
<1>4. StarterKnows'
  BY DEF OneStarter, StarterKnows, Starting, FailingStart
<1> QED BY <1>2, <1>3, <1>4

\* The worker of a failed start is no longer registered, and not live.
LEMMA LeaseStartFail ==
  ASSUME OneStarter, TypeInv, GateInv, LeaseInv, NEW d \in Drivers, StartFail(d)
  PROVE  LeaseInv'
<1>1. /\ dpc[d] \in Starting
      /\ drun[d] \in Runs
      /\ wpc' = wpc /\ wrun' = wrun /\ running' = running
      /\ task' = [task EXCEPT ![drun[d]] = None]
      /\ gate' = [gate EXCEPT ![dwrk[d]] =
                    IF wpc[dwrk[d]] = "done" THEN @ ELSE "failed"]
  BY DEF StartFail, Starting, TypeInv, TypeOK, Located
<1>2. /\ dpc'[d] \in {"inspect", "idle"}
      /\ dpc'[d] = "inspect" => drun'[d] = drun[d]
  BY DEF StartFail, DriverDone, Goto, TypeInv, TypeOK
<1>3. task[drun[d]] = dwrk[d] /\ dwrk[d] \in Workers
  BY <1>1 DEF LeaseInv, StarterKnows, TypeInv, Located
<1>4. wpc[dwrk[d]] \in AtGate \cup {"done"}
  BY <1>1 DEF GateInv, GateHoldsWorker
<1>5. Registered'
  <2>1. \A v \in Workers : Live(v)' => Live(v) /\ v # dwrk[d]
    BY <1>1, <1>3 DEF Live, TypeInv, TypeOK, BeforeFinalize, AtGate, Executing
  <2>2. \A v \in Workers : Live(v)' => wrun[v] # drun[d]
    BY <2>1, <1>3 DEF LeaseInv, Registered
  <2>3. \A v \in Workers : Live(v)' => task'[wrun'[v]] = v /\ wrun'[v] \in running'
    BY <1>1, <2>1, <2>2 DEF LeaseInv, Registered, TypeInv, TypeOK
  <2>4. \A r \in Runs \ running' : task'[r] = None
    BY <1>1 DEF LeaseInv, Registered, TypeInv, TypeOK
  <2> QED BY <2>3, <2>4 DEF Registered
<1>6. FailedAtGate'
  BY <1>1, <1>4 DEF LeaseInv, FailedAtGate, TypeInv, TypeOK
<1>7. StarterKnows'
  BY <1>1, <1>2 DEF OneStarter, StarterKnows, Starting, FailingStart, TypeInv, TypeOK
<1> QED BY <1>5, <1>6, <1>7 DEF LeaseInv

\* _finalize_run_async forgets a run whose live workers, if any, have finished.
LEMMA LeaseFinalizes ==
  ASSUME TypeInv, LeaseInv, NEW q \in Runs, FinalizeMemory(q),
         \A w \in Workers : Live(w)' => Live(w) /\ wrun'[w] = wrun[w] /\ wrun[w] # q,
         \A w \in Workers : gate'[w] = "failed" => wpc'[w] \in AtGate,
         StarterKnows'
  PROVE  LeaseInv'
<1>1. task' = [task EXCEPT ![q] = None] /\ running' = running \ {q}
  BY DEF FinalizeMemory
<1>2. Registered'
  BY <1>1 DEF LeaseInv, Registered, TypeInv, TypeOK
<1>3. FailedAtGate'
  BY DEF FailedAtGate
<1> QED BY <1>2, <1>3 DEF LeaseInv

\* The steps of a starter keep its worker the registered one,
LEMMA LeaseDriver ==
  ASSUME OneStarter, TypeInv, GateInv, LeaseInv, NEW d \in Drivers,
         DriverBegins(d) \/ DriverContinues(d)
  PROVE  LeaseInv'
<1> USE AfterReadLemma DEF TypeInv, TypeOK, memory, Starting, FailingStart
<1>1. ASSUME NEW s \in Sessions, CreateEnter(d, s) PROVE LeaseInv'
  BY <1>1, LeaseStarterMoves DEF CreateEnter, Goto
<1>2. ASSUME NEW r \in Runs, ResumeBegin(d, r) PROVE LeaseInv'
  BY <1>2, LeaseStarterMoves DEF ResumeBegin, Goto
<1>3. CASE ReadRow(d)
  BY <1>3, LeaseStarterMoves DEF ReadRow, Goto, LeaseInv, StarterKnows
<1>4. CASE CreateLookup(d)
  BY <1>4, LeaseStarterMoves DEF CreateLookup, QueueRun, Goto
<1>5. CASE CreateRefuse(d)
  BY <1>5, LeaseStarterMoves DEF CreateRefuse, DriverDone, Goto
<1>6. CASE CreateAttach(d)
  BY <1>6, LeaseStarterMoves DEF CreateAttach, Goto
<1>7. CASE CreateAttachRecoverable(d)
  BY <1>7, LeaseStarterMoves DEF CreateAttachRecoverable, Goto
<1>8. CASE CreateAttached(d)
  BY <1>8, LeaseStarterMoves DEF CreateAttached, CreateReturn, Goto
<1>9. CASE CreateRevive(d)
  BY <1>9, LeaseStarterMoves DEF CreateRevive, CreateReturn, Goto
<1>10. CASE EnsureRow(d)
  BY <1>10, LeaseStarterMoves DEF EnsureRow, Goto
<1>11. CASE CreateQueued(d)
  BY <1>11, LeaseStarterMoves DEF CreateQueued, CreateReturn, Goto
<1>12. CASE ResumeDecide(d)
  BY <1>12, LeaseStarterMoves DEF ResumeDecide, DriverDone, Goto
<1>13. CASE StartAlreadyRunning(d)
  BY <1>13, LeaseStarterMoves DEF StartAlreadyRunning, DriverDone, Goto
<1>14. CASE StartInspect(d)
  BY <1>14, LeaseStarterMoves DEF StartInspect, Goto
<1>15. CASE StartRefused(d)
  BY <1>15, LeaseStarterMoves DEF StartRefused, StartError, DriverDone,
     Goto, Located, LeaseInv, StarterKnows, Registered
<1>16. CASE StartLost(d)
  BY <1>16, LeaseStarterMoves DEF StartLost, StartError, DriverDone, Goto,
     Located, LeaseInv, StarterKnows, Registered
<1>17. CASE StartRow(d)
  BY <1>17, LeaseStarterMoves DEF StartRow, Goto, LeaseInv, StarterKnows
<1>18. CASE FailStarted(d)
  BY <1>18, LeaseStarterMoves DEF FailStarted, Goto, LeaseInv, StarterKnows
<1>19. CASE DriverFinalized(d)
  BY <1>19, LeaseStarterMoves DEF DriverFinalized, DriverDone, Goto
<1>20. ASSUME NEW r \in Runs, CreateDropStale(d, r) PROVE LeaseInv'
  BY <1>20, LeaseStarterMoves DEF CreateDropStale, QueueRun, Goto
<1>21. ASSUME NEW r \in Runs, CreateFallThrough(d, r) PROVE LeaseInv'
  BY <1>21, LeaseStarterMoves DEF CreateFallThrough, QueueRun, Goto
<1>22. ASSUME NEW w \in Workers, StartNew(d, w) PROVE LeaseInv'
  BY <1>22, LeaseLaunch DEF StartNew, QueuedOnly
<1>23. ASSUME NEW w \in Workers, StartResume(d, w) PROVE LeaseInv'
  BY <1>23, LeaseLaunch DEF StartResume, Located, LeaseInv, StarterKnows
<1>24. CASE StartEvent(d)
  <2>1. /\ UNCHANGED <<wpc, wrun, running, task>>
        /\ dpc'[d] = "idle"
        /\ \A v \in Workers : gate'[v] = "failed" <=> gate[v] = "failed"
    BY <1>24 DEF StartEvent, DriverDone, Goto, Located, GateInv, GateHoldsWorker
  <2> QED BY <2>1 DEF OneStarter, LeaseInv, Registered, FailedAtGate, StarterKnows, Live
<1>25. CASE StartFail(d)
  BY <1>25, LeaseStartFail
<1>26. CASE DriverFinalize(d)
  <2>1. /\ FinalizeMemory(drun[d])
        /\ UNCHANGED <<wpc, wrun, gate>>
        /\ dpc'[d] = "finRead"
        /\ dpc[d] = "finalize" /\ drun[d] \in Runs
    BY <1>26 DEF DriverFinalize, Goto, workerVars, Located
  <2>2. task[drun[d]] = None
    BY <2>1 DEF LeaseInv, StarterKnows
  <2>3. \A w \in Workers : Live(w)' => Live(w) /\ wrun'[w] = wrun[w] /\ wrun[w] # drun[d]
    BY <2>1, <2>2, RunLifecycleAssumption DEF Live, LeaseInv, Registered
  <2>4. StarterKnows'
    BY <2>1 DEF OneStarter, StarterKnows
  <2> QED BY <2>1, <2>3, <2>4, LeaseFinalizes DEF LeaseInv, FailedAtGate
<1> QED
  BY <1>1, <1>2, <1>3, <1>4, <1>5, <1>6, <1>7, <1>8, <1>9, <1>10, <1>11,
     <1>12, <1>13, <1>14, <1>15, <1>16, <1>17, <1>18, <1>19, <1>20, <1>21,
     <1>22, <1>23, <1>24, <1>25, <1>26
  DEF DriverBegins, DriverContinues

\* A worker that moves on, and is no more live than it was.
LEMMA LeaseWorkerMoves ==
  ASSUME LeaseInv, NEW w \in Workers,
         UNCHANGED <<running, task, dpc, drun, dwrk>>,
         \A v \in Workers \ {w} :
           wpc'[v] = wpc[v] /\ wrun'[v] = wrun[v] /\ gate'[v] = gate[v],
         Live(w)' => Live(w) /\ wrun'[w] = wrun[w],
         gate'[w] = "failed" => wpc'[w] \in AtGate
  PROVE  LeaseInv'
BY DEF LeaseInv, Registered, FailedAtGate, StarterKnows, Live

\* so do those of the workers,
LEMMA LeaseWorker ==
  ASSUME TypeInv, GateInv, LeaseInv, NEW w \in Workers,
         RunnerActs(w) \/ WorkerContinues(w)
  PROVE  LeaseInv'
<1> USE DEF TypeInv, TypeOK, memory, driverVars, BeforeFinalize, AtGate, Executing,
            Live
<1>0. gate[w] = "failed" => wpc[w] \in AtGate
  BY DEF LeaseInv, FailedAtGate
<1>1. CASE RunnerWrite(w)
  BY <1>0, <1>1, LeaseWorkerMoves DEF RunnerWrite, workerVars
<1>2. CASE RunnerReturns(w)
  BY <1>0, <1>2, LeaseWorkerMoves DEF RunnerReturns, WorkerStep, WorkerGoto
<1>3. CASE RunnerPauses(w)
  BY <1>0, <1>3, LeaseWorkerMoves DEF RunnerPauses, WorkerStep, WorkerGoto
<1>4. CASE RunnerRaises(w)
  BY <1>0, <1>4, LeaseWorkerMoves DEF RunnerRaises, WorkerStep, WorkerGoto
<1>5. CASE Enter(w)
  BY <1>0, <1>5, LeaseWorkerMoves DEF Enter, WorkerStep, WorkerGoto
<1>6. CASE OpenGate(w)
  BY <1>0, <1>6, LeaseWorkerMoves DEF OpenGate, WorkerStep, WorkerGoto
<1>7. CASE LeaveGate(w)
  BY <1>0, <1>7, LeaseWorkerMoves DEF LeaveGate, WorkerStep, WorkerGoto
<1>8. CASE CancelWrite(w)
  BY <1>0, <1>8, LeaseWorkerMoves DEF CancelWrite, WorkerStep, WorkerGoto
<1>9. CASE CancelTail(w)
  BY <1>0, <1>9, LeaseWorkerMoves DEF CancelTail, WorkerStep, WorkerGoto
<1>10. CASE TermWrite(w)
  BY <1>0, <1>10, LeaseWorkerMoves DEF TermWrite, SafeUpdate, WorkerStep, WorkerGoto
<1>11. CASE TermTail(w)
  BY <1>0, <1>11, LeaseWorkerMoves DEF TermTail, WorkerStep, WorkerGoto
<1>12. CASE PauseWrite(w)
  BY <1>0, <1>12, LeaseWorkerMoves DEF PauseWrite, SafeUpdate, WorkerStep, WorkerGoto
<1>13. CASE ErrHooksRaise(w) \/ ErrWrite(w)
  BY <1>0, <1>13, LeaseWorkerMoves DEF ErrHooksRaise, ErrWrite, SafeUpdate, WorkerStep, WorkerGoto
<1>14. CASE StopWrite(w)
  BY <1>0, <1>14, LeaseWorkerMoves DEF StopWrite, SafeUpdate, WorkerStep, WorkerGoto
<1>15. CASE ExceptTail(w)
  BY <1>0, <1>15, LeaseWorkerMoves DEF ExceptTail, WorkerStep, WorkerGoto
<1>16. CASE CleanUp(w)
  BY <1>0, <1>16, LeaseWorkerMoves DEF CleanUp, WorkerStep, WorkerGoto
<1>17. CASE CancelAtGate(w)
  BY <1>0, <1>17, LeaseWorkerMoves DEF CancelAtGate, WorkerGoto
<1>18. CASE CancelWorker(w)
  BY <1>0, <1>18, LeaseWorkerMoves DEF CancelWorker, WorkerGoto
<1>19. CASE FinalizeRead(w)
  BY <1>0, <1>19, LeaseWorkerMoves DEF FinalizeRead, WorkerGoto
<1>20. CASE DieUnfinalized(w)
  BY <1>20, LeaseWorkerMoves DEF DieUnfinalized, Die, WorkerDone, WorkerGoto
<1>21. CASE LeaveFailedGate(w)
  BY <1>21, LeaseWorkerMoves DEF LeaveFailedGate, Die, WorkerDone, WorkerGoto
<1>22. CASE CancelCleanUp(w)
  BY <1>22, LeaseWorkerMoves DEF CancelCleanUp, Die, WorkerDone, WorkerGoto
<1>23. CASE Finalized(w)
  BY <1>23, LeaseWorkerMoves DEF Finalized, WorkerDone, WorkerGoto
<1>24. CASE Finalize(w)
  <2>1. /\ wpc[w] = "finalize" /\ wpc' = [wpc EXCEPT ![w] = "finRead"]
        /\ FinalizeMemory(wrun[w]) /\ UNCHANGED <<wrun, gate, dpc, drun, dwrk>>
    BY <1>24 DEF Finalize, WorkerGoto
  <2>2. wrun[w] \in Runs /\ gate[w] # "failed" /\ task[wrun[w]] = w
    BY <1>0, <2>1 DEF Located, LeaseInv, Registered
  <2>3. \A v \in Workers : Live(v)' => Live(v) /\ wrun'[v] = wrun[v] /\ wrun[v] # wrun[w]
    BY <2>1, <2>2 DEF LeaseInv, Registered
  <2>4. \A d \in Drivers : dpc[d] \in Starting => drun[d] # wrun[w]
    BY <2>1, <2>2 DEF LeaseInv, StarterKnows, GateInv, GateHoldsWorker
  <2>5. task' = [task EXCEPT ![wrun[w]] = None] /\ running' \subseteq running
    BY <2>1 DEF FinalizeMemory
  <2>6. StarterKnows'
    <3>1. \A d \in Drivers : dpc'[d] \in Starting => task'[drun'[d]] = dwrk'[d]
      BY <2>1, <2>4, <2>5 DEF LeaseInv, StarterKnows, Starting
    <3>2. \A d \in Drivers : dpc'[d] \in FailingStart => task'[drun'[d]] = None
      BY <2>1, <2>2, <2>5 DEF LeaseInv, StarterKnows
    <3>3. \A d \in Drivers : dpc'[d] \in {"verify", "verified", "lose", "lostRead"}
                               => drun'[d] \notin running'
      BY <2>1, <2>5 DEF LeaseInv, StarterKnows
    <3> QED BY <3>1, <3>2, <3>3 DEF StarterKnows
  <2>7. \A v \in Workers : gate'[v] = "failed" => wpc'[v] \in AtGate
    BY <2>1, <2>2 DEF LeaseInv, FailedAtGate
  <2> QED BY <2>1, <2>2, <2>3, <2>6, <2>7, LeaseFinalizes
<1> QED
  BY <1>1, <1>2, <1>3, <1>4, <1>5, <1>6, <1>7, <1>8, <1>9, <1>10, <1>11,
     <1>12, <1>13, <1>14, <1>15, <1>16, <1>17, <1>18, <1>19, <1>20, <1>21,
     <1>22, <1>23, <1>24
  DEF RunnerActs, WorkerContinues

\* a stop changes no position and no grant,
LEMMA StopperKeeps ==
  ASSUME NEW s \in Stoppers, StopperBegins(s) \/ StopperContinues(s)
  PROVE  UNCHANGED <<running, task, dpc, drun, dwrk, wpc, wrun, gate>>
BY DEF StopperBegins, StopperContinues, StopQueued, StopRequest, StopPop,
       StopPendingWrite, StopMark, memory, driverVars, workerVars

\* and with them every step keeps the invariant,
LEMMA LeaseStep ==
  ASSUME OneStarter
  PROVE  TypeInv /\ GateInv /\ LeaseInv /\ [Next]_vars => LeaseInv'
<1> SUFFICES ASSUME TypeInv, GateInv, LeaseInv, [Next]_vars PROVE LeaseInv'
  OBVIOUS
<1> USE DEF LeaseInv, Registered, FailedAtGate, StarterKnows, Live
<1>1. CASE Restart
  BY <1>1 DEF Restart, Starting, FailingStart, BeforeFinalize, AtGate, Executing
<1>2. CASE UNCHANGED vars
  BY <1>2 DEF vars, memory, driverVars, workerVars
<1>3. ASSUME NEW s \in Stoppers, StopperBegins(s) \/ StopperContinues(s)
      PROVE  LeaseInv'
  BY <1>3, StopperKeeps
<1> QED BY <1>1, <1>2, <1>3, LeaseDriver, LeaseWorker DEF Next

\* which holds at the start.
LEMMA LeaseInit == Init => LeaseInv
BY DEF Init, LeaseInv, Registered, FailedAtGate, StarterKnows, Live, Starting,
       FailingStart, BeforeFinalize, AtGate, Executing

\* With one starter a stop reaches every executing worker: none executes a run
\* that the task registry or _running_run_ids has forgotten.
THEOREM RegisteredCorrect ==
  ASSUME OneStarter
  PROVE  Spec => []ExecutingIsRegistered
<1>1. Init => GateInv
  BY DEF Init, GateInv, GateHoldsWorker, Starting
<1>2. LeaseInv => ExecutingIsRegistered
  BY DEF LeaseInv, Registered, FailedAtGate, Live, ExecutingIsRegistered,
         BeforeFinalize, Executing, AtGate
<1> QED BY <1>1, <1>2, LeaseInit, LeaseStep, GateStep, TypeCorrect, PTL DEF Spec

-----------------------------------------------------------------------------
(* Every step of the lifecycle is a step of RunLease, or leaves it alone *)

\* To unregister a task that does not execute is to withdraw its grant.
LEMMA LeaseWithdraws ==
  ASSUME TypeInv, NEW r \in Runs,
         task' = [task EXCEPT ![r] = None], wpc' = wpc,
         task[r] # None => wpc[task[r]] \notin Executing
  PROVE  [Lease!Next]_Lease!vars
<1>1. ExecutingWorkers' = ExecutingWorkers
  BY DEF ExecutingWorkers
<1>2. CASE task[r] = None
  BY <1>1, <1>2 DEF Lease!vars, TypeInv, TypeOK
<1>3. CASE task[r] # None
  <2>1. task[r] \notin ExecutingWorkers \cup {None}
    BY <1>3 DEF ExecutingWorkers
  <2> QED BY <1>1, <2>1 DEF Lease!Withdraw, Lease!Next
<1> QED BY <1>2, <1>3

\* A launch grants the run to a worker that holds none.
LEMMA LeaseGrants ==
  ASSUME TypeInv, LeaseInv, NEW d \in Drivers, NEW w \in Workers,
         NEW pc, drun[d] \in Runs \ running, Launch(d, w, pc)
  PROVE  [Lease!Next]_Lease!vars
<1>1. /\ wpc[w] = "done" /\ wpc' = [wpc EXCEPT ![w] = "born"]
      /\ task' = [task EXCEPT ![drun[d]] = w]
      /\ \A r \in Runs : task[r] # w
  BY DEF Launch, FreeWorker
<1>2. task[drun[d]] = None
  BY DEF LeaseInv, Registered
<1>3. w \notin ExecutingWorkers /\ ExecutingWorkers' = ExecutingWorkers
  BY <1>1 DEF ExecutingWorkers, Executing, TypeInv, TypeOK
<1>4. Lease!Grant(drun[d], w)
  BY <1>1, <1>2, <1>3 DEF Lease!Grant
<1> QED BY <1>4 DEF Lease!Next

\* A starter's step grants, withdraws or changes nothing of the lease.
LEMMA ImplementsDriver ==
  ASSUME OneStarter, TypeInv, GateInv, LeaseInv, NEW d \in Drivers,
         DriverBegins(d) \/ DriverContinues(d)
  PROVE  [Lease!Next]_Lease!vars
<1>1. ASSUME NEW w \in Workers, StartNew(d, w) PROVE [Lease!Next]_Lease!vars
  BY <1>1, LeaseGrants DEF StartNew, QueuedOnly, TypeInv, TypeOK
<1>2. ASSUME NEW w \in Workers, StartResume(d, w) PROVE [Lease!Next]_Lease!vars
  BY <1>2, LeaseGrants DEF StartResume, TypeInv, Located, LeaseInv, StarterKnows
<1>3. CASE StartFail(d)
  <2>1. /\ dpc[d] \in Starting /\ drun[d] \in Runs
        /\ task' = [task EXCEPT ![drun[d]] = None] /\ wpc' = wpc
    BY <1>3 DEF StartFail, Starting, TypeInv, Located
  <2>2. wpc[task[drun[d]]] \notin Executing
    BY <2>1 DEF LeaseInv, StarterKnows, GateInv, GateHoldsWorker, AtGate, Executing
  <2> QED BY <2>1, <2>2, LeaseWithdraws
<1>4. CASE DriverFinalize(d)
  <2>1. /\ drun[d] \in Runs /\ task[drun[d]] = None /\ wpc' = wpc
        /\ task' = [task EXCEPT ![drun[d]] = None]
    BY <1>4 DEF DriverFinalize, FinalizeMemory, workerVars, TypeInv, Located,
                LeaseInv, StarterKnows, FailingStart
  <2> QED BY <2>1, LeaseWithdraws
<1>5. CASE UNCHANGED <<task, wpc>>
  BY <1>5 DEF Lease!vars, ExecutingWorkers
<1>6. \/ UNCHANGED <<task, wpc>>
      \/ \E w \in Workers : StartNew(d, w) \/ StartResume(d, w)
      \/ StartFail(d) \/ DriverFinalize(d)
  BY DEF DriverBegins, DriverContinues, memory, workerVars, CreateEnter,
         ResumeBegin, ReadRow, CreateLookup, CreateRefuse, CreateAttach,
         CreateAttachRecoverable, CreateAttached, CreateRevive, CreateReturn,
         EnsureRow, CreateQueued, CreateDropStale, CreateFallThrough, QueueRun,
         ResumeDecide, StartAlreadyRunning, StartInspect, StartRefused, StartLost,
         StartRow, StartEvent, FailStarted, DriverFinalized
<1> QED BY <1>1, <1>2, <1>3, <1>4, <1>5, <1>6

\* Only OpenGate makes a worker begin; it ends executing, or keeps its status.
LEMMA ImplementsWorker ==
  ASSUME TypeInv, LeaseInv, NEW w \in Workers, RunnerActs(w) \/ WorkerContinues(w)
  PROVE  [Lease!Next]_Lease!vars
<1> USE DEF TypeInv, TypeOK
<1>1. CASE OpenGate(w)
  <2>1. /\ wpc[w] = "gated" /\ wpc' = [wpc EXCEPT ![w] = "runner"] /\ task' = task
        /\ gate[w] # "failed"
    BY <1>1 DEF OpenGate, WorkerStep, WorkerGoto, memory
  <2>2. wrun[w] \in Runs /\ task[wrun[w]] = w
    BY <2>1 DEF Located, LeaseInv, Registered, Live, BeforeFinalize, AtGate
  <2>3. w \notin ExecutingWorkers /\ ExecutingWorkers' = ExecutingWorkers \cup {w}
    BY <2>1 DEF ExecutingWorkers, Executing
  <2>4. w # None
    BY RunLifecycleAssumption
  <2> QED BY <2>1, <2>2, <2>3, <2>4 DEF Lease!Begin, Lease!Next
<1>2. CASE Finalize(w)
  <2>1. /\ wpc[w] = "finalize" /\ wrun[w] \in Runs
        /\ task' = [task EXCEPT ![wrun[w]] = None]
        /\ wpc' = [wpc EXCEPT ![w] = "finRead"]
    BY <1>2 DEF Finalize, FinalizeMemory, WorkerGoto, Located
  <2>2. task[wrun[w]] = w
    BY <2>1 DEF LeaseInv, Registered, FailedAtGate, Live, BeforeFinalize, AtGate
  <2>3. w \notin ExecutingWorkers /\ ExecutingWorkers' = ExecutingWorkers
    BY <2>1 DEF ExecutingWorkers, Executing
  <2>4. w # None
    BY RunLifecycleAssumption
  <2> QED BY <2>1, <2>2, <2>3, <2>4 DEF Lease!Withdraw, Lease!Next
<1>3. CASE /\ task' = task
           /\ \A v \in Workers \ {w} : wpc'[v] = wpc[v]
           /\ wpc'[w] \in Executing => wpc[w] \in Executing
  <2>1. CASE wpc'[w] \in Executing <=> wpc[w] \in Executing
    BY <1>3, <2>1 DEF Lease!vars, ExecutingWorkers
  <2>2. CASE wpc[w] \in Executing /\ wpc'[w] \notin Executing
    <3>1. w \in ExecutingWorkers /\ ExecutingWorkers' = ExecutingWorkers \ {w}
      BY <1>3, <2>2 DEF ExecutingWorkers
    <3> QED BY <1>3, <3>1 DEF Lease!End, Lease!Next
  <2> QED BY <1>3, <2>1, <2>2
<1>4. ~OpenGate(w) /\ ~Finalize(w) =>
        /\ task' = task
        /\ \A v \in Workers \ {w} : wpc'[v] = wpc[v]
        /\ wpc'[w] \in Executing => wpc[w] \in Executing
  <2> USE DEF memory, workerVars, WorkerStep, WorkerGoto, WorkerDone, Die, Executing
  <2>1. CASE RunnerActs(w)
    BY <2>1 DEF RunnerActs, RunnerWrite, RunnerReturns, RunnerPauses, RunnerRaises
  <2>2. CASE \/ Enter(w) \/ DieUnfinalized(w) \/ CancelAtGate(w) \/ LeaveGate(w)
             \/ LeaveFailedGate(w) \/ CancelWrite(w) \/ CancelTail(w)
    BY <2>2 DEF Enter, DieUnfinalized, CancelAtGate, LeaveGate, LeaveFailedGate,
                CancelWrite, CancelTail
  <2>3. CASE \/ TermWrite(w) \/ TermTail(w) \/ PauseWrite(w)
             \/ ErrHooksRaise(w) \/ ErrWrite(w)
             \/ StopWrite(w) \/ ExceptTail(w) \/ CancelWorker(w)
    BY <2>3 DEF TermWrite, TermTail, PauseWrite, ErrHooksRaise, ErrWrite, StopWrite, ExceptTail,
                CancelWorker
  <2>4. CASE CleanUp(w) \/ CancelCleanUp(w) \/ FinalizeRead(w) \/ Finalized(w)
    BY <2>4 DEF CleanUp, CancelCleanUp, FinalizeRead, Finalized
  <2> QED BY <2>1, <2>2, <2>3, <2>4 DEF WorkerContinues
<1> QED BY <1>1, <1>2, <1>3, <1>4

\* Every step of the lifecycle is one of the lease or a stutter.
LEMMA ImplementsStep ==
  ASSUME OneStarter
  PROVE  TypeInv /\ GateInv /\ LeaseInv /\ [Next]_vars => [Lease!Next]_Lease!vars
<1> SUFFICES ASSUME TypeInv, GateInv, LeaseInv, [Next]_vars
             PROVE  [Lease!Next]_Lease!vars
  OBVIOUS
<1>1. CASE Restart
  <2>1. task' = [r \in Runs |-> None] /\ ExecutingWorkers' = {}
    BY <1>1 DEF Restart, ExecutingWorkers, Executing
  <2> QED BY <2>1 DEF Lease!Crash, Lease!Next
<1>2. CASE UNCHANGED vars
  BY <1>2 DEF vars, memory, workerVars, Lease!vars, ExecutingWorkers
<1>3. ASSUME NEW s \in Stoppers, StopperBegins(s) \/ StopperContinues(s)
      PROVE  [Lease!Next]_Lease!vars
  BY <1>3, StopperKeeps DEF Lease!vars, ExecutingWorkers
<1> QED BY <1>1, <1>2, <1>3, ImplementsDriver, ImplementsWorker DEF Next

\* With one starter the lifecycle implements RunLease: a run is granted to one
\* worker at a time, only that worker executes it, and neither a stop nor a
\* failed start nor a finalisation withdraws the grant while it executes.
THEOREM LeaseCorrect ==
  ASSUME OneStarter
  PROVE  Spec => LeaseSpec
<1>1. Init => GateInv
  BY DEF Init, GateInv, GateHoldsWorker, Starting
<1>2. Init => Lease!Init
  BY DEF Init, Lease!Init, ExecutingWorkers, Executing
<1> QED
  BY <1>1, <1>2, LeaseInit, LeaseStep, GateStep, ImplementsStep, TypeCorrect, PTL
  DEF Spec, LeaseSpec, Lease!Spec

=============================================================================
