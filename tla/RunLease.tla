------------------------------ MODULE RunLease ------------------------------
(***************************************************************************)
(* What starting, stopping and finalising a run promise together: a run is *)
(* granted to one worker task at a time, only the worker that holds the    *)
(* grant executes the run, and the grant is never withdrawn under a worker *)
(* that is still executing, short of the whole process going down.         *)
(* RunLifecycle implements it with the task registry as the grant.         *)
(***************************************************************************)
CONSTANTS Runs, Workers, None

VARIABLES holder,     \* the worker each run is granted to
          executing   \* the workers executing the run they hold

vars == <<holder, executing>>

Init ==
  /\ holder = [r \in Runs |-> None]
  /\ executing = {}

Grant(r, w) ==
  /\ holder[r] = None
  /\ \A q \in Runs : holder[q] # w
  /\ w \notin executing
  /\ holder' = [holder EXCEPT ![r] = w]
  /\ UNCHANGED executing

Begin(r) ==
  /\ holder[r] \notin executing \cup {None}
  /\ executing' = executing \cup {holder[r]}
  /\ UNCHANGED holder

End(w) ==
  /\ w \in executing
  /\ executing' = executing \ {w}
  /\ UNCHANGED holder

Withdraw(r) ==
  /\ holder[r] \notin executing \cup {None}
  /\ holder' = [holder EXCEPT ![r] = None]
  /\ UNCHANGED executing

Crash ==
  /\ holder' = [r \in Runs |-> None]
  /\ executing' = {}

Next ==
  \/ \E r \in Runs, w \in Workers : Grant(r, w)
  \/ \E r \in Runs : Begin(r) \/ Withdraw(r)
  \/ \E w \in Workers : End(w)
  \/ Crash

Spec == Init /\ [][Next]_vars
=============================================================================
