------------------------- MODULE RunLifecycleProofs -------------------------
(***************************************************************************)
(* Type correctness and the two ownership invariants of RunLifecycle, for  *)
(* every number of runs, sessions, requests and workers.                   *)
(***************************************************************************)
EXTENDS RunLifecycle, TLAPS

\* Where a handler or a task has picked its run, session or worker.
Located ==
  /\ \A d \in Drivers : dpc[d] \notin {"idle", "lookup"} => drun[d] \in Runs
  /\ \A d \in Drivers : dpc[d] \in {"lookup", "load", "loaded"} => dsess[d] \in Sessions
  /\ \A d \in Drivers : dpc[d] \in Starting => dwrk[d] \in Workers
  /\ \A s \in Stoppers : spc[s] # "idle" => srun[s] \in Runs
  /\ \A w \in Workers : wpc[w] # "done" => wrun[w] \in Runs

TypeInv == TypeOK /\ Located

\* Where a handler goes on after it has read the row.
LEMMA AfterReadLemma ==
  /\ DOMAIN AfterRead = {"load", "verify", "lose", "resume", "inspect", "finRead"}
  /\ AfterRead["load"] = "loaded"
  /\ AfterRead["verify"] = "verified"
  /\ AfterRead["lose"] = "lostRead"
  /\ AfterRead["resume"] = "resumeRead"
  /\ AfterRead["inspect"] = "inspected"
  /\ AfterRead["finRead"] = "finReg"
BY DEF AfterRead

\* The idle server is of its types.
LEMMA TypeInit == Init => TypeInv
BY RunLifecycleAssumption
   DEF Init, TypeInv, TypeOK, Located, Rows, Status, DriverPc, Creating, Starting,
       FailingStart, StopperPc, WorkerPc, BeforeFinalize, AtGate, Executing

\* The steps of a create, resume or start keep the types and the locals,
LEMMA TypeDriver ==
  ASSUME TypeInv, NEW d \in Drivers, DriverBegins(d) \/ DriverContinues(d)
  PROVE  TypeInv'
<1> USE RunLifecycleAssumption, AfterReadLemma
    DEF TypeInv, TypeOK, Located, memory, driverVars, stopperVars, workerVars
<1> USE DEF Rows, Status, DriverPc, Creating, Starting, FailingStart
<1>1. ASSUME NEW s \in Sessions, CreateEnter(d, s) PROVE TypeInv'
  BY <1>1 DEF CreateEnter, Goto
<1>2. ASSUME NEW r \in Runs, ResumeBegin(d, r) PROVE TypeInv'
  BY <1>2 DEF ResumeBegin, Remember, Known, Goto
<1>3. CASE ReadRow(d)
  BY <1>3 DEF ReadRow, Goto
<1>4. CASE CreateLookup(d)
  BY <1>4 DEF CreateLookup, QueueRun, Fresh, Known, Goto
<1>5. CASE CreateRefuse(d)
  BY <1>5 DEF CreateRefuse, DriverDone, Goto
<1>6. CASE CreateAttach(d)
  BY <1>6 DEF CreateAttach, Goto
<1>7. CASE CreateAttachRecoverable(d)
  BY <1>7 DEF CreateAttachRecoverable, Goto
<1>8. CASE CreateAttached(d)
  BY <1>8 DEF CreateAttached, CreateReturn, Goto
<1>9. CASE CreateRevive(d)
  BY <1>9 DEF CreateRevive, CreateReturn, Goto
<1>10. CASE EnsureRow(d)
  BY <1>10 DEF EnsureRow, Goto
<1>11. CASE CreateQueued(d)
  BY <1>11 DEF CreateQueued, CreateReturn, Remember, Goto
<1>12. CASE ResumeDecide(d)
  <2>1. CASE dseen[d] \in Resumable /\ drun[d] \in resumeReq
    BY <1>12, <2>1 DEF ResumeDecide, Remember, DriverDone, Goto
  <2>2. CASE dseen[d] \in Resumable /\ drun[d] \notin resumeReq
    BY <1>12, <2>2 DEF ResumeDecide, Remember, DriverDone, Goto
  <2>3. CASE dseen[d] \notin Resumable
    <3>1. DriverDone(d) BY <1>12, <2>3 DEF ResumeDecide
    <3>2. UNCHANGED <<row, memory, stopperVars, workerVars, lost>>
      BY <1>12, <2>3 DEF ResumeDecide
    <3> QED BY <3>1, <3>2 DEF DriverDone, Goto
  <2> QED BY <2>1, <2>2, <2>3
<1>13. CASE StartAlreadyRunning(d)
  BY <1>13 DEF StartAlreadyRunning, DriverDone, Goto
<1>14. CASE StartInspect(d)
  BY <1>14 DEF StartInspect, Goto
<1>15. CASE StartRefused(d)
  <2>1. CASE ddet[d]
    BY <1>15, <2>1 DEF StartRefused, StartError, DriverDone, Goto
  <2>2. CASE ~ddet[d]
    <3>1. DriverDone(d) BY <1>15, <2>2 DEF StartRefused, StartError
    <3>2. UNCHANGED <<row, memory, stopperVars, workerVars, lost>>
      BY <1>15, <2>2 DEF StartRefused
    <3> QED BY <3>1, <3>2 DEF DriverDone, Goto
  <2> QED BY <2>1, <2>2
<1>16. CASE StartLost(d)
  <2>1. CASE dseen[d] \in Ended \/ ~ddet[d]
    <3>1. DriverDone(d) BY <1>16, <2>1 DEF StartLost, StartError
    <3>2. UNCHANGED <<row, memory, stopperVars, workerVars, lost>>
      BY <1>16, <2>1 DEF StartLost
    <3> QED BY <3>1, <3>2 DEF DriverDone, Goto
  <2>2. CASE dseen[d] \notin Ended /\ ddet[d]
    BY <1>16, <2>2 DEF StartLost, StartError, DriverDone, Goto
  <2> QED BY <2>1, <2>2
<1>17. CASE StartRow(d)
  BY <1>17 DEF StartRow, Goto
<1>18. CASE StartEvent(d)
  BY <1>18 DEF StartEvent, DriverDone, Goto
<1>19. CASE StartFail(d)
  <2>1. CASE ddet[d]
    BY <1>19, <2>1 DEF StartFail, DriverDone, Goto
  <2>2. CASE ~ddet[d]
    <3>1. DriverDone(d) BY <1>19, <2>2 DEF StartFail
    <3>2. UNCHANGED <<row, pending, running, resumeReq, active, lock, stopReq,
                       stopperVars, wpc, wrun, wseen>>
      BY <1>19, <2>2 DEF StartFail
    <3>3. /\ gate' \in [Workers -> {"closed", "done", "ready", "failed"}]
          /\ task' \in [Runs -> Workers \cup {None}]
          /\ lost' \subseteq Runs
      BY <1>19, <2>2 DEF StartFail
    <3>4. cancel' \in [Workers -> BOOLEAN]
      BY <1>19, <2>2 DEF StartFail
    <3> QED BY <3>1, <3>2, <3>3, <3>4 DEF DriverDone, Goto
  <2> QED BY <2>1, <2>2
<1>20. CASE FailStarted(d)
  BY <1>20 DEF FailStarted, Goto
<1>21. CASE DriverFinalize(d)
  BY <1>21 DEF DriverFinalize, FinalizeMemory, Goto
<1>22. CASE DriverFinalized(d)
  BY <1>22 DEF DriverFinalized, FinalizeRegistry, DriverDone, Goto
<1>23. ASSUME NEW r \in Runs, CreateDropStale(d, r) PROVE TypeInv'
  BY <1>23 DEF CreateDropStale, QueueRun, Fresh, Known, Goto
<1>24. ASSUME NEW r \in Runs, CreateFallThrough(d, r) PROVE TypeInv'
  BY <1>24 DEF CreateFallThrough, QueueRun, Fresh, Known, Goto
<1>25. ASSUME NEW w \in Workers, StartNew(d, w) PROVE TypeInv'
  BY <1>25 DEF StartNew, Launch, FreeWorker, Goto, WorkerPc, BeforeFinalize, AtGate
<1>26. ASSUME NEW w \in Workers, StartResume(d, w) PROVE TypeInv'
  BY <1>26 DEF StartResume, Launch, FreeWorker, Goto, WorkerPc, BeforeFinalize, AtGate
<1> QED
  BY <1>1, <1>2, <1>3, <1>4, <1>5, <1>6, <1>7, <1>8, <1>9, <1>10, <1>11, <1>12,
     <1>13, <1>14, <1>15, <1>16, <1>17, <1>18, <1>19, <1>20, <1>21, <1>22, <1>23,
     <1>24, <1>25, <1>26
  DEF DriverBegins, DriverContinues

\* so do those of a stop,
LEMMA TypeStopper ==
  ASSUME TypeInv, NEW s \in Stoppers, StopperBegins(s) \/ StopperContinues(s)
  PROVE  TypeInv'
<1> USE RunLifecycleAssumption
    DEF TypeInv, TypeOK, Located, memory, driverVars, stopperVars, workerVars
<1> USE DEF Rows, Status, StopperPc, StopGoto, StopperDone
<1>1. ASSUME NEW r \in Runs, StopQueued(s, r) PROVE TypeInv'
  BY <1>1 DEF StopQueued
<1>2. ASSUME NEW r \in Runs, StopRequest(s, r) PROVE TypeInv'
  <2>1. CASE task[r] = None
    BY <1>2, <2>1 DEF StopRequest
  <2>2. CASE task[r] # None
    <3>1. cancel' \in [Workers -> BOOLEAN]
      <4>1. cancel' = [cancel EXCEPT ![task[r]] = wpc[task[r]] # "done"]
        BY <1>2, <2>2, Zenon DEF StopRequest
      <4>2. cancel \in [Workers -> BOOLEAN] /\ (wpc[task[r]] # "done") \in BOOLEAN
        OBVIOUS
      <4> QED
        BY <4>1, <4>2, Zenon
    <3>2. spc' = [spc EXCEPT ![s] = "mark"] /\ srun' = [srun EXCEPT ![s] = r]
      BY <1>2, <2>2, Zenon DEF StopRequest
    <3>3. stopReq' = stopReq \cup {r}
      BY <1>2, Zenon DEF StopRequest
    <3>4. UNCHANGED <<row, pending, running, resumeReq, active, lock, task,
                      driverVars, wpc, wrun, wseen, gate, lost>>
      BY <1>2, Zenon DEF StopRequest
    <3>5. TypeOK'
      BY <3>1, <3>2, <3>3, <3>4
    <3>6. Located'
      BY <3>2, <3>4
    <3> QED BY <3>5, <3>6
  <2> QED BY <2>1, <2>2
<1>3. CASE StopPop(s)
  BY <1>3 DEF StopPop
<1>4. CASE StopPendingWrite(s)
  BY <1>4 DEF StopPendingWrite
<1>5. CASE StopMark(s)
  BY <1>5 DEF StopMark
<1> QED
  BY <1>1, <1>2, <1>3, <1>4, <1>5 DEF StopperBegins, StopperContinues

\* of a worker,
LEMMA TypeWorker ==
  ASSUME TypeInv, NEW w \in Workers, RunnerActs(w) \/ WorkerContinues(w)
  PROVE  TypeInv'
<1> USE RunLifecycleAssumption
    DEF TypeInv, TypeOK, Located, memory, driverVars, stopperVars, workerVars
<1> USE DEF Rows, Status, WorkerPc, BeforeFinalize, AtGate, Executing
<1>1. CASE RunnerWrite(w)
  BY <1>1 DEF RunnerWrite, RunnerStatus
<1>2. CASE RunnerReturns(w)
  BY <1>2 DEF RunnerReturns, WorkerStep, WorkerGoto
<1>3. CASE RunnerPauses(w)
  BY <1>3 DEF RunnerPauses, WorkerStep, WorkerGoto
<1>4. CASE RunnerRaises(w)
  BY <1>4 DEF RunnerRaises, WorkerStep, WorkerGoto
<1>5. CASE Enter(w)
  BY <1>5 DEF Enter, WorkerStep, WorkerGoto
<1>6. CASE OpenGate(w)
  BY <1>6 DEF OpenGate, WorkerStep, WorkerGoto
<1>7. CASE DieUnfinalized(w)
  BY <1>7 DEF DieUnfinalized, Die, WorkerDone, WorkerGoto
<1>8. CASE CancelAtGate(w)
  BY <1>8 DEF CancelAtGate, WorkerGoto
<1>9. CASE LeaveGate(w)
  BY <1>9 DEF LeaveGate, WorkerStep, WorkerGoto
<1>10. CASE LeaveFailedGate(w)
  BY <1>10 DEF LeaveFailedGate, Die, WorkerDone, WorkerGoto
<1>11. CASE CancelWrite(w)
  BY <1>11 DEF CancelWrite, WorkerStep, WorkerGoto
<1>12. CASE CancelTail(w)
  BY <1>12 DEF CancelTail, WorkerStep, WorkerGoto
<1>13. CASE TermWrite(w)
  BY <1>13 DEF TermWrite, SafeUpdate, WorkerStep, WorkerGoto
<1>14. CASE TermTail(w)
  BY <1>14 DEF TermTail, WorkerStep, WorkerGoto
<1>15. CASE PauseWrite(w)
  BY <1>15 DEF PauseWrite, SafeUpdate, WorkerStep, WorkerGoto
<1>16. CASE ErrHooksRaise(w) \/ ErrWrite(w)
  BY <1>16 DEF ErrHooksRaise, ErrWrite, SafeUpdate, WorkerStep, WorkerGoto
<1>17. CASE StopWrite(w)
  BY <1>17 DEF StopWrite, SafeUpdate, WorkerStep, WorkerGoto
<1>18. CASE ExceptTail(w)
  BY <1>18 DEF ExceptTail, WorkerStep, WorkerGoto
<1>19. CASE CancelWorker(w)
  BY <1>19 DEF CancelWorker, Interrupted, WorkerGoto
<1>20. CASE CleanUp(w)
  BY <1>20 DEF CleanUp, WorkerStep, WorkerGoto
<1>21. CASE CancelCleanUp(w)
  BY <1>21 DEF CancelCleanUp, Die, WorkerDone, WorkerGoto
<1>22. CASE Finalize(w)
  BY <1>22 DEF Finalize, FinalizeMemory, WorkerGoto
<1>23. CASE FinalizeRead(w)
  BY <1>23 DEF FinalizeRead, WorkerGoto
<1>24. CASE Finalized(w)
  BY <1>24 DEF Finalized, FinalizeRegistry, WorkerDone, WorkerGoto
<1> QED
  BY <1>1, <1>2, <1>3, <1>4, <1>5, <1>6, <1>7, <1>8, <1>9, <1>10, <1>11,
     <1>12, <1>13, <1>14, <1>15, <1>16, <1>17, <1>18, <1>19, <1>20, <1>21,
     <1>22, <1>23, <1>24
  DEF RunnerActs, WorkerContinues

\* of a restart,
LEMMA TypeRestart == ASSUME TypeInv, Restart PROVE TypeInv'
BY RunLifecycleAssumption
   DEF Restart, Hydrated, TypeInv, TypeOK, Located, Rows, Status, DriverPc,
       Starting, StopperPc, WorkerPc

\* and with them every step.
LEMMA TypeStep == TypeInv /\ [Next]_vars => TypeInv'
<1> SUFFICES ASSUME TypeInv, [Next]_vars PROVE TypeInv'
  OBVIOUS
<1>1. CASE Next
  BY <1>1, TypeDriver, TypeStopper, TypeWorker, TypeRestart DEF Next
<1>2. CASE UNCHANGED vars
  BY <1>2 DEF vars, memory, driverVars, stopperVars, workerVars, TypeInv,
              TypeOK, Located
<1> QED BY <1>1, <1>2

\* TypeInv is the inductive strengthening of TypeOK: a handler past its first
\* step has a run, so what it copies into rows and registries has its type.
THEOREM TypeCorrect == Spec => []TypeInv
<1> QED BY TypeInit, TypeStep, PTL DEF Spec

\* Every reachable state of the run lifecycle is well typed: no handler of
\* SessionRunService acts on a run, session or task it has not got.
THEOREM TypeSafe == Spec => []TypeOK
<1>1. TypeInv => TypeOK
  BY DEF TypeInv
<1> QED BY <1>1, TypeCorrect, PTL

-----------------------------------------------------------------------------
(* GateHoldsWorker: each start holds its own worker at a closed gate. *)

GateInv ==
  /\ GateHoldsWorker
  /\ \A d, e \in Drivers :
       dpc[d] \in Starting /\ dpc[e] \in Starting /\ dwrk[d] = dwrk[e] => d = e

\* A request that moves to a position outside the start holds nothing.
LEMMA GateLeaves ==
  ASSUME TypeInv, GateInv, NEW d \in Drivers,
         dpc'[d] \notin Starting,
         \A e \in Drivers \ {d} :
           dpc'[e] = dpc[e] /\ drun'[e] = drun[e] /\ dwrk'[e] = dwrk[e],
         UNCHANGED workerVars
  PROVE  GateInv'
BY DEF TypeInv, TypeOK, Located, GateInv, GateHoldsWorker, workerVars

\* A launch takes a worker that no start holds.
LEMMA GateLaunch ==
  ASSUME TypeInv, GateInv, NEW d \in Drivers, NEW w \in Workers, NEW pc \in Starting,
         dpc[d] \notin Starting, dpc[d] # "idle", dpc[d] # "lookup", Launch(d, w, pc)
  PROVE  GateInv'
<1> USE DEF TypeInv, TypeOK, Located, GateInv, GateHoldsWorker, Starting, AtGate
<1>1. \A e \in Drivers : dwrk[e] # w
  BY DEF Launch, FreeWorker
<1>2. /\ dpc' = [dpc EXCEPT ![d] = pc]
      /\ dwrk' = [dwrk EXCEPT ![d] = w]
      /\ wpc' = [wpc EXCEPT ![w] = "born"]
      /\ wrun' = [wrun EXCEPT ![w] = drun[d]]
      /\ gate' = [gate EXCEPT ![w] = "closed"]
      /\ drun' = drun
  BY DEF Launch, Goto
<1> QED BY <1>1, <1>2

\* The steps of the starters keep each started worker at its own gate,
LEMMA GateDriver ==
  ASSUME TypeInv, GateInv, NEW d \in Drivers,
         DriverBegins(d) \/ DriverContinues(d)
  PROVE  GateInv'
<1> USE AfterReadLemma DEF TypeInv, TypeOK, memory, driverVars, Starting
<1>1. ASSUME NEW s \in Sessions, CreateEnter(d, s) PROVE GateInv'
  BY <1>1, GateLeaves DEF CreateEnter, Goto
<1>2. ASSUME NEW r \in Runs, ResumeBegin(d, r) PROVE GateInv'
  BY <1>2, GateLeaves DEF ResumeBegin, Goto
<1>3. CASE ReadRow(d)
  BY <1>3, GateLeaves DEF ReadRow, Goto
<1>4. CASE CreateLookup(d)
  BY <1>4, GateLeaves DEF CreateLookup, QueueRun, Goto
<1>5. CASE CreateRefuse(d)
  BY <1>5, GateLeaves DEF CreateRefuse, DriverDone, Goto
<1>6. CASE CreateAttach(d)
  BY <1>6, GateLeaves DEF CreateAttach, Goto
<1>7. CASE CreateAttachRecoverable(d)
  BY <1>7, GateLeaves DEF CreateAttachRecoverable, Goto
<1>8. CASE CreateAttached(d)
  BY <1>8, GateLeaves DEF CreateAttached, CreateReturn, Goto
<1>9. CASE CreateRevive(d)
  BY <1>9, GateLeaves DEF CreateRevive, CreateReturn, Goto
<1>10. CASE EnsureRow(d)
  BY <1>10, GateLeaves DEF EnsureRow, Goto
<1>11. CASE CreateQueued(d)
  BY <1>11, GateLeaves DEF CreateQueued, CreateReturn, Goto
<1>12. CASE ResumeDecide(d)
  BY <1>12, GateLeaves DEF ResumeDecide, DriverDone, Goto
<1>13. CASE StartAlreadyRunning(d)
  BY <1>13, GateLeaves DEF StartAlreadyRunning, DriverDone, Goto
<1>14. CASE StartInspect(d)
  BY <1>14, GateLeaves DEF StartInspect, Goto
<1>15. CASE StartRefused(d)
  BY <1>15, GateLeaves DEF StartRefused, StartError, DriverDone, Goto
<1>16. CASE StartLost(d)
  BY <1>16, GateLeaves DEF StartLost, StartError, DriverDone, Goto
<1>17. CASE FailStarted(d)
  BY <1>17, GateLeaves DEF FailStarted, Goto
<1>18. CASE DriverFinalize(d)
  BY <1>18, GateLeaves DEF DriverFinalize, Goto
<1>19. CASE DriverFinalized(d)
  BY <1>19, GateLeaves DEF DriverFinalized, DriverDone, Goto
<1>20. ASSUME NEW r \in Runs, CreateDropStale(d, r) PROVE GateInv'
  BY <1>20, GateLeaves DEF CreateDropStale, QueueRun, Goto
<1>21. ASSUME NEW r \in Runs, CreateFallThrough(d, r) PROVE GateInv'
  BY <1>21, GateLeaves DEF CreateFallThrough, QueueRun, Goto
<1>22. ASSUME NEW w \in Workers, StartNew(d, w) PROVE GateInv'
  BY <1>22, GateLaunch DEF StartNew
<1>23. ASSUME NEW w \in Workers, StartResume(d, w) PROVE GateInv'
  BY <1>23, GateLaunch DEF StartResume
<1>24. CASE StartRow(d)
  BY <1>24 DEF StartRow, Goto, Located, GateInv, GateHoldsWorker, workerVars
<1>25. CASE StartEvent(d)
  BY <1>25 DEF StartEvent, DriverDone, Goto, Located, GateInv, GateHoldsWorker
<1>26. CASE StartFail(d)
  <2>1. /\ dpc[d] \in Starting
        /\ dpc'[d] \notin Starting
        /\ \A e \in Drivers \ {d} :
             dpc'[e] = dpc[e] /\ drun'[e] = drun[e] /\ dwrk'[e] = dwrk[e]
    BY <1>26 DEF StartFail, DriverDone, Goto
  <2>2. /\ \A v \in Workers \ {dwrk[d]} : gate'[v] = gate[v]
        /\ wpc' = wpc /\ wrun' = wrun
    BY <1>26 DEF StartFail
  <2> QED BY <2>1, <2>2 DEF Located, GateInv, GateHoldsWorker
<1> QED
  BY <1>1, <1>2, <1>3, <1>4, <1>5, <1>6, <1>7, <1>8, <1>9, <1>10, <1>11,
     <1>12, <1>13, <1>14, <1>15, <1>16, <1>17, <1>18, <1>19, <1>20, <1>21,
     <1>22, <1>23, <1>24, <1>25, <1>26
  DEF DriverBegins, DriverContinues

\* A worker held by a start only moves within the gate, or ends there.
LEMMA GateWorker ==
  ASSUME TypeInv, GateInv, NEW w \in Workers, RunnerActs(w) \/ WorkerContinues(w)
  PROVE  GateInv'
<1> USE DEF TypeInv, TypeOK, Located, GateInv, GateHoldsWorker, Starting, AtGate,
            driverVars, workerVars
<1>1. CASE RunnerWrite(w)
  BY <1>1 DEF RunnerWrite
<1>2. CASE RunnerReturns(w)
  BY <1>2 DEF RunnerReturns, WorkerStep, WorkerGoto
<1>3. CASE RunnerPauses(w)
  BY <1>3 DEF RunnerPauses, WorkerStep, WorkerGoto
<1>4. CASE RunnerRaises(w)
  BY <1>4 DEF RunnerRaises, WorkerStep, WorkerGoto
<1>5. CASE Enter(w)
  BY <1>5 DEF Enter, WorkerStep, WorkerGoto
<1>6. CASE OpenGate(w)
  BY <1>6 DEF OpenGate, WorkerStep, WorkerGoto
<1>7. CASE DieUnfinalized(w)
  BY <1>7 DEF DieUnfinalized, Die, WorkerDone, WorkerGoto
<1>8. CASE CancelAtGate(w)
  BY <1>8 DEF CancelAtGate, WorkerGoto
<1>9. CASE LeaveGate(w)
  BY <1>9 DEF LeaveGate, WorkerStep, WorkerGoto
<1>10. CASE LeaveFailedGate(w)
  BY <1>10 DEF LeaveFailedGate, Die, WorkerDone, WorkerGoto
<1>11. CASE CancelWrite(w)
  BY <1>11 DEF CancelWrite, WorkerStep, WorkerGoto
<1>12. CASE CancelTail(w)
  BY <1>12 DEF CancelTail, WorkerStep, WorkerGoto
<1>13. CASE TermWrite(w)
  BY <1>13 DEF TermWrite, SafeUpdate, WorkerStep, WorkerGoto
<1>14. CASE TermTail(w)
  BY <1>14 DEF TermTail, WorkerStep, WorkerGoto
<1>15. CASE PauseWrite(w)
  BY <1>15 DEF PauseWrite, SafeUpdate, WorkerStep, WorkerGoto
<1>16. CASE ErrHooksRaise(w) \/ ErrWrite(w)
  BY <1>16 DEF ErrHooksRaise, ErrWrite, SafeUpdate, WorkerStep, WorkerGoto
<1>17. CASE StopWrite(w)
  BY <1>17 DEF StopWrite, SafeUpdate, WorkerStep, WorkerGoto
<1>18. CASE ExceptTail(w)
  BY <1>18 DEF ExceptTail, WorkerStep, WorkerGoto
<1>19. CASE CancelWorker(w)
  BY <1>19 DEF CancelWorker, Executing, WorkerGoto
<1>20. CASE CleanUp(w)
  BY <1>20 DEF CleanUp, WorkerStep, WorkerGoto
<1>21. CASE CancelCleanUp(w)
  BY <1>21 DEF CancelCleanUp, Die, WorkerDone, WorkerGoto
<1>22. CASE Finalize(w)
  BY <1>22 DEF Finalize, WorkerGoto
<1>23. CASE FinalizeRead(w)
  BY <1>23 DEF FinalizeRead, WorkerGoto
<1>24. CASE Finalized(w)
  BY <1>24 DEF Finalized, WorkerDone, WorkerGoto
<1> QED
  BY <1>1, <1>2, <1>3, <1>4, <1>5, <1>6, <1>7, <1>8, <1>9, <1>10, <1>11,
     <1>12, <1>13, <1>14, <1>15, <1>16, <1>17, <1>18, <1>19, <1>20, <1>21,
     <1>22, <1>23, <1>24
  DEF RunnerActs, WorkerContinues

\* those of a stop leave starters and gates alone,
LEMMA GateStopper ==
  ASSUME TypeInv, GateInv, NEW s \in Stoppers,
         StopperBegins(s) \/ StopperContinues(s)
  PROVE  GateInv'
<1>1. UNCHANGED <<dpc, drun, dwrk, wpc, wrun, gate>>
  BY DEF StopperBegins, StopperContinues, StopQueued, StopRequest, StopPop,
         StopPendingWrite, StopMark, driverVars, workerVars
<1> QED BY <1>1 DEF GateInv, GateHoldsWorker

\* and with them every step keeps it.
LEMMA GateStep == TypeInv /\ GateInv /\ [Next]_vars => GateInv'
<1> SUFFICES ASSUME TypeInv, GateInv, [Next]_vars PROVE GateInv'
  OBVIOUS
<1>1. CASE Restart
  BY <1>1 DEF Restart, GateInv, GateHoldsWorker, Starting
<1>2. CASE UNCHANGED vars
  BY <1>2 DEF vars, driverVars, workerVars, GateInv, GateHoldsWorker
<1> QED BY <1>1, <1>2, GateDriver, GateStopper, GateWorker DEF Next

\* No worker passes the startup gate before its start handler has written the
\* startup row and event, whatever else runs.
THEOREM GateCorrect == Spec => []GateHoldsWorker
<1>1. Init => GateInv
  BY DEF Init, GateInv, GateHoldsWorker, Starting
<1>2. Spec => []GateInv
  BY <1>1, GateStep, TypeCorrect, PTL DEF Spec
<1>3. GateInv => GateHoldsWorker
  BY DEF GateInv
<1> QED BY <1>2, <1>3, PTL

-----------------------------------------------------------------------------
(* RunningHasOwner: a running run keeps someone who will finalise it. *)

\* A request that is not finalising a failed start owns nothing; if it is, it
\* keeps its run until it finalises it.
LEMMA OwnerDriverMoves ==
  ASSUME TypeInv, RunningHasOwner, NEW d \in Drivers,
         dpc[d] \in FailingStart => dpc'[d] \in FailingStart /\ drun'[d] = drun[d],
         \A e \in Drivers \ {d} : dpc'[e] = dpc[e] /\ drun'[e] = drun[e],
         running' = running, lost' = lost, UNCHANGED workerVars
  PROVE  RunningHasOwner'
BY DEF RunningHasOwner, Owner, workerVars

\* A launched worker owns the run it is launched for.
LEMMA OwnerLaunch ==
  ASSUME TypeInv, RunningHasOwner, NEW d \in Drivers, NEW w \in Workers, NEW pc,
         dpc[d] \in {"start", "verified"}, Launch(d, w, pc)
  PROVE  RunningHasOwner'
<1>1. /\ wpc[w] = "done"
      /\ running' = running \cup {drun[d]}
      /\ lost' = lost
      /\ drun' = drun
      /\ dpc' = [dpc EXCEPT ![d] = pc]
      /\ wpc' = [wpc EXCEPT ![w] = "born"]
      /\ wrun' = [wrun EXCEPT ![w] = drun[d]]
      /\ gate' = [gate EXCEPT ![w] = "closed"]
  BY DEF Launch, FreeWorker, Goto
<1>2. Owner(w, drun[d])'
  BY <1>1 DEF Owner, BeforeFinalize, AtGate, TypeInv, TypeOK
<1>3. \A v \in Workers, r \in Runs : Owner(v, r) => Owner(v, r)'
  BY <1>1 DEF Owner, BeforeFinalize, AtGate, Executing, TypeInv, TypeOK
<1>4. \A e \in Drivers : dpc[e] \in FailingStart => dpc'[e] = dpc[e]
  BY <1>1 DEF FailingStart, TypeInv, TypeOK
<1>5. running \subseteq Runs
  BY DEF TypeInv, TypeOK
<1> QED BY <1>1, <1>2, <1>3, <1>4, <1>5 DEF RunningHasOwner

\* _finalize_run_async takes the run out of the running runs.
LEMMA OwnerFinalizes ==
  ASSUME RunningHasOwner, NEW q, FinalizeMemory(q),
         \A w \in Workers, r \in Runs \ {q} : Owner(w, r) => Owner(w, r)',
         \A d \in Drivers : dpc[d] \in FailingStart /\ drun[d] # q =>
           dpc'[d] \in FailingStart /\ drun'[d] = drun[d],
         running \subseteq Runs
  PROVE  RunningHasOwner'
BY DEF RunningHasOwner, FinalizeMemory

\* A failed start leaves its run to the request that reports the failure.
LEMMA OwnerStartFail ==
  ASSUME TypeInv, GateInv, RunningHasOwner, NEW d \in Drivers, StartFail(d)
  PROVE  RunningHasOwner'
<1>1. /\ dpc[d] \in Starting
      /\ wpc' = wpc /\ wrun' = wrun /\ running' = running
      /\ \A v \in Workers \ {dwrk[d]} : gate'[v] = gate[v]
      /\ wpc[dwrk[d]] = "done" => gate' = gate
  BY DEF StartFail, Starting, TypeInv, TypeOK
<1>2. \A v \in Workers, r \in Runs : Owner(v, r) => r = drun[d] \/ Owner(v, r)'
  BY <1>1 DEF Owner, GateInv, GateHoldsWorker
<1>3. \A e \in Drivers \ {d} : dpc'[e] = dpc[e] /\ drun'[e] = drun[e]
  BY DEF StartFail, DriverDone, Goto, TypeInv, TypeOK
<1>4. dpc[d] \notin FailingStart
  BY <1>1 DEF Starting, FailingStart
<1>5. CASE ddet[d]
  <2>1. dpc'[d] = "inspect" /\ drun'[d] = drun[d] /\ lost' = lost
    BY <1>5 DEF StartFail, Goto, TypeInv, TypeOK
  <2> QED BY <1>1, <1>2, <1>3, <1>4, <2>1
          DEF RunningHasOwner, FailingStart, TypeInv, TypeOK
<1>6. CASE ~ddet[d]
  <2>1. lost' = lost \cup {drun[d]}
    BY <1>6 DEF StartFail
  <2> QED BY <1>1, <1>2, <1>3, <1>4, <2>1 DEF RunningHasOwner, TypeInv, TypeOK
<1> QED BY <1>5, <1>6

\* The steps of the starters keep every running run its owner,
LEMMA OwnerDriver ==
  ASSUME TypeInv, GateInv, RunningHasOwner, NEW d \in Drivers,
         DriverBegins(d) \/ DriverContinues(d)
  PROVE  RunningHasOwner'
<1> USE AfterReadLemma DEF TypeInv, TypeOK, memory, FailingStart
<1>1. ASSUME NEW s \in Sessions, CreateEnter(d, s) PROVE RunningHasOwner'
  BY <1>1, OwnerDriverMoves DEF CreateEnter, Goto
<1>2. ASSUME NEW r \in Runs, ResumeBegin(d, r) PROVE RunningHasOwner'
  BY <1>2, OwnerDriverMoves DEF ResumeBegin, Goto
<1>3. CASE ReadRow(d)
  BY <1>3, OwnerDriverMoves DEF ReadRow, Goto
<1>4. CASE CreateLookup(d)
  BY <1>4, OwnerDriverMoves DEF CreateLookup, QueueRun, Goto
<1>5. CASE CreateRefuse(d)
  BY <1>5, OwnerDriverMoves DEF CreateRefuse, DriverDone, Goto
<1>6. CASE CreateAttach(d)
  BY <1>6, OwnerDriverMoves DEF CreateAttach, Goto
<1>7. CASE CreateAttachRecoverable(d)
  BY <1>7, OwnerDriverMoves DEF CreateAttachRecoverable, Goto
<1>8. CASE CreateAttached(d)
  BY <1>8, OwnerDriverMoves DEF CreateAttached, CreateReturn, Goto
<1>9. CASE CreateRevive(d)
  BY <1>9, OwnerDriverMoves DEF CreateRevive, CreateReturn, Goto
<1>10. CASE EnsureRow(d)
  BY <1>10, OwnerDriverMoves DEF EnsureRow, Goto
<1>11. CASE CreateQueued(d)
  BY <1>11, OwnerDriverMoves DEF CreateQueued, CreateReturn, Goto
<1>12. CASE ResumeDecide(d)
  BY <1>12, OwnerDriverMoves DEF ResumeDecide, DriverDone, Goto
<1>13. CASE StartAlreadyRunning(d)
  BY <1>13, OwnerDriverMoves DEF StartAlreadyRunning, DriverDone, Goto
<1>14. CASE StartInspect(d)
  BY <1>14, OwnerDriverMoves DEF StartInspect, Goto
<1>15. CASE StartRefused(d)
  BY <1>15, OwnerDriverMoves DEF StartRefused, StartError, DriverDone, Goto
<1>16. CASE StartLost(d)
  BY <1>16, OwnerDriverMoves DEF StartLost, StartError, DriverDone, Goto
<1>17. CASE StartRow(d)
  BY <1>17, OwnerDriverMoves DEF StartRow, Goto
<1>18. CASE FailStarted(d)
  BY <1>18, OwnerDriverMoves DEF FailStarted, Goto
<1>19. CASE DriverFinalized(d)
  BY <1>19, OwnerDriverMoves DEF DriverFinalized, DriverDone, Goto
<1>20. ASSUME NEW r \in Runs, CreateDropStale(d, r) PROVE RunningHasOwner'
  BY <1>20, OwnerDriverMoves DEF CreateDropStale, QueueRun, Goto
<1>21. ASSUME NEW r \in Runs, CreateFallThrough(d, r) PROVE RunningHasOwner'
  BY <1>21, OwnerDriverMoves DEF CreateFallThrough, QueueRun, Goto
<1>22. ASSUME NEW w \in Workers, StartNew(d, w) PROVE RunningHasOwner'
  BY <1>22, OwnerLaunch DEF StartNew
<1>23. ASSUME NEW w \in Workers, StartResume(d, w) PROVE RunningHasOwner'
  BY <1>23, OwnerLaunch DEF StartResume
<1>24. CASE StartEvent(d)
  <2>1. /\ dpc[d] \in {"startEvent", "resumeEvent"}
        /\ wpc' = wpc /\ wrun' = wrun /\ running' = running /\ lost' = lost
        /\ \A e \in Drivers \ {d} : dpc'[e] = dpc[e] /\ drun'[e] = drun[e]
    BY <1>24 DEF StartEvent, DriverDone, Goto
  <2>2. \A v \in Workers : gate[v] # "failed" => gate'[v] # "failed"
    BY <1>24 DEF StartEvent
  <2> QED BY <2>1, <2>2 DEF RunningHasOwner, Owner
<1>25. CASE StartFail(d)
  BY <1>25, OwnerStartFail
<1>26. CASE DriverFinalize(d)
  <2>1. UNCHANGED <<wpc, wrun, gate, drun>>
    BY <1>26 DEF DriverFinalize, workerVars
  <2>2. \A e \in Drivers \ {d} : dpc'[e] = dpc[e]
    BY <1>26 DEF DriverFinalize, Goto
  <2>3. FinalizeMemory(drun[d])
    BY <1>26 DEF DriverFinalize
  <2> QED BY <2>1, <2>2, <2>3, OwnerFinalizes DEF Owner
<1> QED
  BY <1>1, <1>2, <1>3, <1>4, <1>5, <1>6, <1>7, <1>8, <1>9, <1>10, <1>11,
     <1>12, <1>13, <1>14, <1>15, <1>16, <1>17, <1>18, <1>19, <1>20, <1>21,
     <1>22, <1>23, <1>24, <1>25, <1>26
  DEF DriverBegins, DriverContinues

\* A worker that moves on before its finalisation still owns its run.
LEMMA OwnerWorkerMoves ==
  ASSUME TypeInv, RunningHasOwner, NEW w \in Workers,
         wpc'[w] \in BeforeFinalize,
         \A v \in Workers \ {w} : wpc'[v] = wpc[v],
         UNCHANGED <<running, lost, wrun, gate, dpc, drun>>
  PROVE  RunningHasOwner'
BY DEF RunningHasOwner, Owner

\* A worker that dies unfinalised leaves its run among the lost ones.
LEMMA OwnerDies ==
  ASSUME TypeInv, RunningHasOwner, NEW w \in Workers, Die(w)
  PROVE  RunningHasOwner'
<1>1. /\ UNCHANGED <<running, dpc, drun>>
      /\ lost \subseteq lost'
      /\ gate[w] # "failed" => wrun[w] \in lost'
      /\ \A v \in Workers \ {w} :
           wpc'[v] = wpc[v] /\ wrun'[v] = wrun[v] /\ gate'[v] = gate[v]
  BY DEF Die, WorkerDone, WorkerGoto, memory, driverVars, TypeInv, TypeOK
<1>2. \A v \in Workers, r \in Runs : Owner(v, r) => r \in lost' \/ Owner(v, r)'
  BY <1>1 DEF Owner
<1>3. running \subseteq Runs
  BY DEF TypeInv, TypeOK
<1> QED BY <1>1, <1>2, <1>3 DEF RunningHasOwner

\* so do those of the workers,
LEMMA OwnerWorker ==
  ASSUME TypeInv, RunningHasOwner, NEW w \in Workers,
         RunnerActs(w) \/ WorkerContinues(w)
  PROVE  RunningHasOwner'
<1> USE DEF TypeInv, TypeOK, memory, driverVars, BeforeFinalize, AtGate, Executing
<1>1. CASE RunnerWrite(w)
  BY <1>1, OwnerWorkerMoves DEF RunnerWrite, workerVars
<1>2. CASE RunnerReturns(w)
  BY <1>2, OwnerWorkerMoves DEF RunnerReturns, WorkerStep, WorkerGoto
<1>3. CASE RunnerPauses(w)
  BY <1>3, OwnerWorkerMoves DEF RunnerPauses, WorkerStep, WorkerGoto
<1>4. CASE RunnerRaises(w)
  BY <1>4, OwnerWorkerMoves DEF RunnerRaises, WorkerStep, WorkerGoto
<1>5. CASE Enter(w)
  BY <1>5, OwnerWorkerMoves DEF Enter, WorkerStep, WorkerGoto
<1>6. CASE OpenGate(w)
  BY <1>6, OwnerWorkerMoves DEF OpenGate, WorkerStep, WorkerGoto
<1>7. CASE LeaveGate(w)
  BY <1>7, OwnerWorkerMoves DEF LeaveGate, WorkerStep, WorkerGoto
<1>8. CASE CancelWrite(w)
  BY <1>8, OwnerWorkerMoves DEF CancelWrite, WorkerStep, WorkerGoto
<1>9. CASE CancelTail(w)
  BY <1>9, OwnerWorkerMoves DEF CancelTail, WorkerStep, WorkerGoto
<1>10. CASE TermWrite(w)
  BY <1>10, OwnerWorkerMoves DEF TermWrite, SafeUpdate, WorkerStep, WorkerGoto
<1>11. CASE TermTail(w)
  BY <1>11, OwnerWorkerMoves DEF TermTail, WorkerStep, WorkerGoto
<1>12. CASE PauseWrite(w)
  BY <1>12, OwnerWorkerMoves DEF PauseWrite, SafeUpdate, WorkerStep, WorkerGoto
<1>13. CASE ErrHooksRaise(w) \/ ErrWrite(w)
  BY <1>13, OwnerWorkerMoves DEF ErrHooksRaise, ErrWrite, SafeUpdate, WorkerStep, WorkerGoto
<1>14. CASE StopWrite(w)
  BY <1>14, OwnerWorkerMoves DEF StopWrite, SafeUpdate, WorkerStep, WorkerGoto
<1>15. CASE ExceptTail(w)
  BY <1>15, OwnerWorkerMoves DEF ExceptTail, WorkerStep, WorkerGoto
<1>16. CASE CleanUp(w)
  BY <1>16, OwnerWorkerMoves DEF CleanUp, WorkerStep, WorkerGoto
<1>17. CASE CancelAtGate(w)
  BY <1>17, OwnerWorkerMoves DEF CancelAtGate, WorkerGoto
<1>18. CASE CancelWorker(w)
  BY <1>18, OwnerWorkerMoves DEF CancelWorker, WorkerGoto
<1>19. CASE DieUnfinalized(w)
  BY <1>19, OwnerDies DEF DieUnfinalized
<1>20. CASE LeaveFailedGate(w)
  BY <1>20, OwnerDies DEF LeaveFailedGate
<1>21. CASE CancelCleanUp(w)
  BY <1>21, OwnerDies DEF CancelCleanUp
<1>22. CASE Finalize(w)
  <2>1. FinalizeMemory(wrun[w]) /\ UNCHANGED <<wrun, gate, dpc, drun>>
    BY <1>22 DEF Finalize
  <2>2. \A v \in Workers \ {w} : wpc'[v] = wpc[v]
    BY <1>22 DEF Finalize, WorkerGoto
  <2> QED BY <2>1, <2>2, OwnerFinalizes DEF Owner
<1>23. CASE FinalizeRead(w)
  <2>1. wpc[w] = "finRead" /\ UNCHANGED <<running, lost, wrun, gate, dpc, drun>>
    BY <1>23 DEF FinalizeRead
  <2>2. \A v \in Workers \ {w} : wpc'[v] = wpc[v]
    BY <1>23 DEF FinalizeRead, WorkerGoto
  <2> QED BY <2>1, <2>2 DEF RunningHasOwner, Owner
<1>24. CASE Finalized(w)
  <2>1. wpc[w] = "finReg" /\ UNCHANGED <<running, lost, dpc, drun>>
    BY <1>24 DEF Finalized
  <2>2. \A v \in Workers \ {w} :
          wpc'[v] = wpc[v] /\ wrun'[v] = wrun[v] /\ gate'[v] = gate[v]
    BY <1>24 DEF Finalized, WorkerDone, WorkerGoto
  <2> QED BY <2>1, <2>2 DEF RunningHasOwner, Owner
<1> QED
  BY <1>1, <1>2, <1>3, <1>4, <1>5, <1>6, <1>7, <1>8, <1>9, <1>10, <1>11,
     <1>12, <1>13, <1>14, <1>15, <1>16, <1>17, <1>18, <1>19, <1>20, <1>21,
     <1>22, <1>23, <1>24
  DEF RunnerActs, WorkerContinues

\* of the stops,
LEMMA OwnerStopper ==
  ASSUME RunningHasOwner, NEW s \in Stoppers, StopperBegins(s) \/ StopperContinues(s)
  PROVE  RunningHasOwner'
<1>1. UNCHANGED <<running, lost, dpc, drun, wpc, wrun, gate>>
  BY DEF StopperBegins, StopperContinues, StopQueued, StopRequest, StopPop,
         StopPendingWrite, StopMark, memory, driverVars, workerVars
<1> QED BY <1>1 DEF RunningHasOwner, Owner

\* and with them every step.
LEMMA OwnerStep ==
  TypeInv /\ GateInv /\ RunningHasOwner /\ [Next]_vars => RunningHasOwner'
<1> SUFFICES ASSUME TypeInv, GateInv, RunningHasOwner, [Next]_vars
             PROVE  RunningHasOwner'
  OBVIOUS
<1>1. CASE Restart
  BY <1>1 DEF Restart, RunningHasOwner
<1>2. CASE UNCHANGED vars
  BY <1>2 DEF vars, memory, driverVars, workerVars, RunningHasOwner, Owner
<1> QED BY <1>1, <1>2, OwnerDriver, OwnerStopper, OwnerWorker DEF Next

\* A run never stays in _running_run_ids with nobody left to finalise it,
\* outside the windows that "lost" names.
THEOREM OwnerCorrect == Spec => []RunningHasOwner
<1>1. Init => GateInv /\ RunningHasOwner
  BY DEF Init, GateInv, GateHoldsWorker, Starting, RunningHasOwner
<1>2. TypeInv /\ GateInv /\ RunningHasOwner /\ [Next]_vars
        => (GateInv /\ RunningHasOwner)'
  BY GateStep, OwnerStep
<1> QED BY <1>1, <1>2, TypeCorrect, PTL DEF Spec

=============================================================================
