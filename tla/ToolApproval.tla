---------------------------- MODULE ToolApproval ----------------------------
(***************************************************************************)
(* Tool approvals of one run: the tool calls that wait for an approval     *)
(* (tools/runtime/execution.py), the tickets of ApprovalTicketRepository,  *)
(* the entries of ToolApprovalManager, the threads that wait on them and   *)
(* the requests that approve or deny (sessions/runs/run_interactions.py).  *)
(*                                                                         *)
(* The calls and the requests are coroutines of the event loop and every   *)
(* await separates two actions; the waits are threads of a pool.  The      *)
(* ticket is a row that survives a restart, the entry is memory.           *)
(***************************************************************************)
EXTENDS Integers, FiniteSets, Sequences

CONSTANTS Calls,       \* tool calls; a ticket has the id of the call that asked
          Signatures,  \* what a ticket may be reused for: instance, tool, input
          SigOf,       \* the signature of each call
          Keeping,     \* calls of a tool that keeps its ticket approved
          Requests,    \* requests to resolve an approval
          Threads,     \* TOOL_APPROVAL_WORKER_COUNT
          MaxBreaks,   \* bound on the stops of the run and the restarts
          None

ASSUME ToolApprovalAssumption ==
  /\ SigOf \in [Calls -> Signatures]
  /\ Keeping \subseteq Calls
  /\ Threads \in Nat \ {0}
  /\ MaxBreaks \in Nat
  /\ None \notin Calls

VARIABLES
  ticket,   \* status of each ticket's row
  newer,    \* the tickets whose updated_at is later than that of each
  entry,    \* the entry of a ticket in the manager, by the call that opened it
  signal,   \* action of the entry that a call opened, once its event is set
  pc,       \* position of each call in execute_tool
  tk,       \* ticket that the call goes by
  thread,   \* the thread that waits for the call
  held,     \* entry that the thread waits on
  answer,   \* what the wait returned
  queue,    \* calls whose wait has no thread yet
  req,      \* position of each request
  want,     \* its ticket and the decision
  rowRead,  \* run status that it read
  seen,     \* whether it found the entry
  live, row,            \* the run: in _running_run_ids; status of its row
  breaks,               \* counter of their bound
  decided   \* history: what was ever recorded on which ticket, the decisions
            \* of requests and the time-outs of waits

tickets == <<ticket, newer>>
manager == <<entry, signal>>
waits == <<thread, held, answer, queue>>
calls == <<pc, tk>>
requests == <<req, want, rowRead, seen>>
run == <<live, row, breaks>>
vars == <<tickets, manager, waits, calls, requests, run, decided>>

\* ApprovalTicketStatus; "none" has no row.
Decisions == {"approved", "denied"}
Outcomes == Decisions \cup {"timed_out"}
Statuses == Decisions \cup {"none", "requested", "timed_out", "completed"}

Active == {"started", "missed", "found", "opened", "awaiting", "settling",
           "reading", "approved", "executing"}
Ended == {"executed", "refused", "late", "raised", "cancelled"}
Pending == {"asked", "checked", "recorded"}

\* The call has closed the entry of its ticket, if it waited.
Closed == {"settling", "reading", "approved", "executing", "executed",
           "refused", "late"}

Init ==
  /\ ticket = [k \in Calls |-> "none"]
  /\ newer = [k \in Calls |-> {}]
  /\ entry = [k \in Calls |-> None]
  /\ signal = [c \in Calls |-> "none"]
  /\ pc = [c \in Calls |-> "idle"] /\ tk = [c \in Calls |-> None]
  /\ thread = [c \in Calls |-> "none"]
  /\ held = [c \in Calls |-> None]
  /\ answer = [c \in Calls |-> "none"]
  /\ queue = <<>>
  /\ req = [u \in Requests |-> "idle"]
  /\ want = [u \in Requests |-> <<>>]
  /\ rowRead = [u \in Requests |-> "none"]
  /\ seen = [u \in Requests |-> FALSE]
  /\ live = TRUE /\ row = "running" /\ breaks = 0
  /\ decided = {}

Goto(c, p) == pc' = [pc EXCEPT ![c] = p]

\* A write of a ticket's row, which also sets updated_at.
Write(k, status) ==
  /\ ticket' = [ticket EXCEPT ![k] = status]
  /\ newer' = [j \in Calls |-> IF j = k THEN {} ELSE newer[j] \cup {k}]

\* The history keeps every outcome: no guard reads it, and none is forgotten.
Record(k, outcomes) == decided' = decided \cup ({k} \X outcomes)

-----------------------------------------------------------------------------
(* A tool call asks for its approval *)

Start(c) ==
  /\ pc[c] = "idle" /\ live /\ row # "stopping"
  /\ Goto(c, "started")
  /\ UNCHANGED <<tickets, manager, waits, tk, requests, run, decided>>

\* find_reusable_async: the newest open ticket of an identical call.
FindReusable(c) ==
  LET open == {k \in Calls : /\ SigOf[k] = SigOf[c]
                             /\ ticket[k] \in {"requested", "approved"}}
  IN /\ pc[c] = "started"
     /\ \/ open = {} /\ Goto(c, "missed") /\ UNCHANGED tk
        \/ \E k \in open :
             /\ newer[k] \cap open = {}
             /\ tk' = [tk EXCEPT ![c] = k]
             /\ Goto(c, IF ticket[k] = "requested" THEN "found" ELSE "approved")
     /\ UNCHANGED <<tickets, manager, waits, requests, run, decided>>

\* Each call has a tool_call_id of its own, so the upsert inserts a row.
UpsertRequested(c) ==
  /\ pc[c] = "missed"
  /\ Write(c, "requested")
  /\ tk' = [tk EXCEPT ![c] = c]
  /\ Goto(c, "found")
  /\ UNCHANGED <<manager, waits, requests, run, decided>>

\* mutant: a ticket of before a restart is not opened again
OpenApprovalOwn(c) ==
  /\ pc[c] = "found"
  /\ entry' = [entry EXCEPT ![tk[c]] =
                 IF @ = None /\ tk[c] = c THEN c ELSE @]
  /\ Goto(c, "opened")
  /\ UNCHANGED <<tickets, signal, waits, tk, requests, run, decided>>

\* The entry of an identical call is shared.
OpenApproval(c) ==
  /\ pc[c] = "found"
  /\ entry' = [entry EXCEPT ![tk[c]] = IF @ = None THEN c ELSE @]
  /\ Goto(c, "opened")
  /\ UNCHANGED <<tickets, signal, waits, tk, requests, run, decided>>

\* The row of the run is paused, and the wait given to the pool.
SubmitWait(c) ==
  /\ pc[c] = "opened"
  /\ row' = "paused"
  /\ thread' = [thread EXCEPT ![c] = "queued"]
  /\ queue' = Append(queue, c)
  /\ Goto(c, "awaiting")
  /\ UNCHANGED <<tickets, manager, held, answer, tk, requests, live, breaks,
                 decided>>

-----------------------------------------------------------------------------
(* The pool of threads: wait_for_approval *)

Busy == {c \in Calls : thread[c] = "waiting"}

\* A free thread takes the next wait and looks its entry up.
StartWait ==
  /\ queue # <<>> /\ Cardinality(Busy) < Threads
  /\ LET c == Head(queue) IN
       IF entry[tk[c]] = None
         THEN /\ thread' = [thread EXCEPT ![c] = "none"]
              /\ answer' = [answer EXCEPT ![c] = "unregistered"]
              /\ UNCHANGED held
         ELSE /\ thread' = [thread EXCEPT ![c] = "waiting"]
              /\ held' = [held EXCEPT ![c] = entry[tk[c]]]
              /\ UNCHANGED answer
  /\ queue' = Tail(queue)
  /\ UNCHANGED <<tickets, manager, calls, requests, run, decided>>

\* The call of the wait may have been cancelled meanwhile.
EndWait(c, result) ==
  /\ thread' = [thread EXCEPT ![c] = "none"]
  /\ held' = [held EXCEPT ![c] = None]
  /\ answer' = [answer EXCEPT ![c] =
                  IF pc[c] = "awaiting" THEN result ELSE "none"]
  /\ UNCHANGED <<tickets, manager, queue, calls, requests, run, decided>>

Wake(c) ==
  /\ thread[c] = "waiting" /\ signal[held[c]] # "none"
  /\ EndWait(c, signal[held[c]])

\* mutant: a wait times out only while its ticket is still requested
TimeOutWhileRequested(c) ==
  /\ thread[c] = "waiting" /\ signal[held[c]] = "none"
  /\ pc[c] = "awaiting" => ticket[tk[c]] = "requested"
  /\ EndWait(c, "timed_out")

TimeOut(c) ==
  /\ thread[c] = "waiting" /\ signal[held[c]] = "none"
  /\ EndWait(c, "timed_out")

-----------------------------------------------------------------------------
(* The call goes on *)

\* mutant: the exception is settled like an answer
RaiseSettles(c) ==
  /\ pc[c] = "awaiting" /\ answer[c] = "unregistered"
  /\ Goto(c, "settling")
  /\ UNCHANGED <<tickets, manager, waits, tk, requests, run, decided>>

\* wait_for_approval raised a KeyError: nothing catches it.
Raise(c) ==
  /\ pc[c] = "awaiting" /\ answer[c] = "unregistered"
  /\ Goto(c, "raised")
  /\ answer' = [answer EXCEPT ![c] = "none"]
  /\ UNCHANGED <<tickets, manager, thread, held, queue, tk, requests, run,
                 decided>>

CloseApproval(c) ==
  /\ pc[c] = "awaiting" /\ answer[c] \notin {"none", "unregistered"}
  /\ entry' = [entry EXCEPT ![tk[c]] = None]
  /\ Goto(c, "settling")
  /\ UNCHANGED <<tickets, signal, waits, tk, requests, run, decided>>

\* mutant: the time-out is written without expected_status
SettleAlways(c) ==
  /\ pc[c] = "settling"
  /\ Write(tk[c], answer[c]) /\ Record(tk[c], {answer[c]} \ Decisions)
  /\ Goto(c, "reading")
  /\ UNCHANGED <<manager, waits, tk, requests, run>>

\* What the wait returned is written if the ticket is still requested.
Settle(c) ==
  /\ pc[c] = "settling"
  /\ IF ticket[tk[c]] = "requested"
       THEN Write(tk[c], answer[c]) /\ Record(tk[c], {answer[c]} \ Decisions)
       ELSE UNCHANGED <<tickets, decided>>
  /\ Goto(c, "reading")
  /\ UNCHANGED <<manager, waits, tk, requests, run>>

\* _approval_resolution_from_ticket
Resolution(c) ==
  CASE ticket[tk[c]] \in {"approved", "completed"} -> "approved"
    [] ticket[tk[c]] = "denied" -> "refused"
    [] OTHER -> "late"

\* The call goes by the row.  A refusal leaves the run's row paused.
ReadResolution(c) ==
  /\ pc[c] = "reading"
  /\ Goto(c, Resolution(c))
  /\ row' = IF Resolution(c) = "approved" THEN row ELSE "paused"
  /\ answer' = [answer EXCEPT ![c] = "none"]
  /\ UNCHANGED <<tickets, manager, thread, held, queue, tk, requests, live,
                 breaks, decided>>

Execute(c) ==
  /\ pc[c] = "approved"
  /\ row' = "running"
  /\ Goto(c, "executing")
  /\ UNCHANGED <<tickets, manager, waits, tk, requests, live, breaks,
                 decided>>

\* The tool succeeded or failed; mark_completed_async.
Finish(c) ==
  /\ pc[c] = "executing"
  /\ Goto(c, "executed")
  /\ IF c \in Keeping THEN UNCHANGED tickets ELSE Write(tk[c], "completed")
  /\ UNCHANGED <<manager, waits, tk, requests, run, decided>>

-----------------------------------------------------------------------------
(* A request approves or denies: resolve_tool_approval_async *)

At(u, p) == req' = [req EXCEPT ![u] = p]

Answered(u) ==
  /\ At(u, "done")
  /\ want' = [want EXCEPT ![u] = <<>>]
  /\ rowRead' = [rowRead EXCEPT ![u] = "none"]
  /\ seen' = [seen EXCEPT ![u] = FALSE]

\* The user sees an open ticket; the row of its run is read.
Ask(u, k, decision) ==
  /\ req[u] = "idle" /\ ticket[k] = "requested"
  /\ At(u, "asked")
  /\ want' = [want EXCEPT ![u] = <<k, decision>>]
  /\ rowRead' = [rowRead EXCEPT ![u] = row]
  /\ UNCHANGED <<tickets, manager, waits, calls, seen, run, decided>>

RunRefuses(u) == rowRead[u] = "stopping" \/ (~live /\ rowRead[u] = "stopped")

Check(u) ==
  /\ req[u] = "asked"
  /\ IF RunRefuses(u)
       THEN Answered(u)
       ELSE /\ At(u, "checked")
            /\ seen' = [seen EXCEPT ![u] = entry[want[u][1]] # None]
            /\ rowRead' = [rowRead EXCEPT ![u] = "none"]
            /\ UNCHANGED want
  /\ UNCHANGED <<tickets, manager, waits, calls, run, decided>>

\* mutant: the row is written without expected_status
DecideAlways(u) ==
  LET k == want[u][1] IN
  /\ req[u] = "checked"
  /\ Write(k, want[u][2]) /\ Record(k, {want[u][2]})
  /\ At(u, "recorded")
  /\ UNCHANGED <<manager, waits, calls, want, rowRead, seen, run>>

\* The decision is written if the ticket is still requested, else refused.
Decide(u) ==
  LET k == want[u][1] IN
  /\ req[u] = "checked"
  /\ IF ticket[k] = "requested"
       THEN /\ Write(k, want[u][2]) /\ Record(k, {want[u][2]})
            /\ At(u, "recorded")
            /\ UNCHANGED <<want, rowRead, seen>>
       ELSE Answered(u) /\ UNCHANGED <<tickets, decided>>
  /\ UNCHANGED <<manager, waits, calls, run>>

\* A grant for later calls cannot be stored: the request fails behind its
\* decision.
GrantFails(u) ==
  /\ req[u] = "recorded" /\ want[u][2] = "approved"
  /\ Answered(u)
  /\ UNCHANGED <<tickets, manager, waits, calls, run, decided>>

\* The waiting thread is woken, if the entry was there and still is.
ResolveApproval(u) ==
  LET e == entry[want[u][1]] IN
  /\ req[u] = "recorded"
  /\ signal' = IF seen[u] /\ e # None
                 THEN [signal EXCEPT ![e] = want[u][2]] ELSE signal
  /\ Answered(u)
  /\ UNCHANGED <<tickets, entry, waits, calls, run, decided>>

-----------------------------------------------------------------------------
(* The run around them *)

CancelCalls ==
  /\ pc' = [c \in Calls |-> IF pc[c] \in Active THEN "cancelled" ELSE pc[c]]
  /\ tk' = [c \in Calls |-> IF pc[c] \in Active THEN None ELSE tk[c]]
  /\ answer' = [c \in Calls |-> IF pc[c] \in Active THEN "none" ELSE answer[c]]
  /\ queue' = <<>>

\* A stop cancels the calls.  A wait without a thread is taken from the pool,
\* one that has a thread keeps it, and no entry is closed.
Stop ==
  /\ live /\ row # "stopping" /\ breaks < MaxBreaks
  /\ row' = "stopping" /\ breaks' = breaks + 1
  /\ CancelCalls
  /\ thread' = [c \in Calls |->
                  IF thread[c] = "queued" THEN "none" ELSE thread[c]]
  /\ UNCHANGED <<tickets, manager, held, requests, live, decided>>

Stopped ==
  /\ live /\ row = "stopping"
  /\ row' = "stopped" /\ live' = FALSE
  /\ UNCHANGED <<tickets, manager, waits, calls, requests, breaks, decided>>

Resume ==
  /\ ~live /\ row \in {"paused", "stopped"}
  /\ live' = TRUE /\ row' = "running"
  /\ UNCHANGED <<tickets, manager, waits, calls, requests, breaks, decided>>

\* The server starts again: the rows are left, and a running run is stopped.
Restart ==
  /\ breaks < MaxBreaks
  /\ breaks' = breaks + 1
  /\ live' = FALSE
  /\ row' = IF row = "running" THEN "stopped" ELSE row
  /\ entry' = [k \in Calls |-> None]
  /\ CancelCalls
  /\ thread' = [c \in Calls |-> "none"]
  /\ req' = [u \in Requests |-> IF req[u] \in Pending THEN "done" ELSE req[u]]
  /\ want' = [u \in Requests |-> <<>>]
  /\ rowRead' = [u \in Requests |-> "none"]
  /\ seen' = [u \in Requests |-> FALSE]
  /\ held' = [c \in Calls |-> None]
  /\ UNCHANGED <<tickets, signal, decided>>

-----------------------------------------------------------------------------
CallStep(c) ==
  \/ FindReusable(c) \/ UpsertRequested(c) \/ OpenApproval(c) \/ SubmitWait(c)
  \/ Raise(c) \/ CloseApproval(c) \/ Settle(c) \/ ReadResolution(c)
  \/ Execute(c) \/ Finish(c)

ThreadStep(c) == Wake(c) \/ TimeOut(c)

RequestStep(u) ==
  \/ Check(u) \/ Decide(u) \/ GrantFails(u) \/ ResolveApproval(u)

Next ==
  \/ \E c \in Calls : Start(c) \/ CallStep(c) \/ ThreadStep(c)
  \/ StartWait
  \/ \E u \in Requests, k \in Calls, d \in Decisions : Ask(u, k, d)
  \/ \E u \in Requests : RequestStep(u)
  \/ Stop \/ Stopped \/ Resume \/ Restart

Spec == Init /\ [][Next]_vars

\* The event loop and the pool take every step that stays possible; a wait
\* ends at its time-out at the latest.  A user need not answer.
FairSpec ==
  /\ Spec
  /\ WF_vars(StartWait)
  /\ \A c \in Calls : WF_vars(CallStep(c)) /\ WF_vars(ThreadStep(c))

-----------------------------------------------------------------------------
(* Properties *)

\* Every variable keeps its type: a wait never ends without an answer that its
\* call knows, and a ticket keeps one of the statuses of ApprovalTicketStatus.
TicketTypes ==
  /\ ticket \in [Calls -> Statuses] /\ newer \in [Calls -> SUBSET Calls]
ManagerTypes ==
  /\ entry \in [Calls -> Calls \cup {None}]
  /\ signal \in [Calls -> Decisions \cup {"none"}]
CallTypes ==
  /\ pc \in [Calls -> Active \cup Ended \cup {"idle"}]
  /\ tk \in [Calls -> Calls \cup {None}]
WaitTypes ==
  /\ thread \in [Calls -> {"none", "queued", "waiting"}]
  /\ held \in [Calls -> Calls \cup {None}]
  /\ answer \in [Calls -> Decisions \cup {"none", "timed_out", "unregistered"}]
  /\ queue \in Seq(Calls)
RequestTypes ==
  /\ req \in [Requests -> Pending \cup {"idle", "done"}]
  /\ want \in [Requests -> (Calls \X Decisions) \cup {<<>>}]
  /\ rowRead \in [Requests -> {"none", "running", "paused", "stopping",
                               "stopped"}]
  /\ seen \in [Requests -> BOOLEAN]
RunTypes ==
  /\ live \in BOOLEAN /\ row \in {"running", "paused", "stopping", "stopped"}
  /\ breaks \in Nat
HistoryTypes == decided \subseteq Calls \X Outcomes

TypeOK ==
  /\ TicketTypes /\ ManagerTypes /\ CallTypes /\ WaitTypes /\ RequestTypes
  /\ RunTypes /\ HistoryTypes

\* What a ticket's row says of its outcome.
Says(k, outcome) ==
  \/ ticket[k] = outcome
  \/ ticket[k] = "completed" /\ outcome = "approved"

\* The only outcome that anything ever recorded on a ticket.
Only(k, outcome) ==
  \A o \in Outcomes : <<k, o>> \in decided <=> o = outcome

\* What is recorded on a ticket first is final: of all the requests that decide
\* it and the waits that time out on it, at most one ever records its outcome,
\* whatever stops, restarts and identical calls that reuse the ticket come
\* between, and the ticket's row says that outcome for ever after.
DecisionStands ==
  \A k \in Calls, o \in Outcomes : <<k, o>> \in decided <=> Says(k, o)

\* A call ends as its user decided: it executes only if its ticket was approved
\* and nothing else was ever recorded on it, it is refused only if it was
\* denied, and it is told of a time-out only if no request ever recorded a
\* decision, also when it shares the ticket of another call, or goes by one of
\* before a stop or a restart.
AnswerFollowsDecision ==
  \A c \in Calls :
    /\ pc[c] \in {"approved", "executing", "executed"}
         => Only(tk[c], "approved")
    /\ pc[c] = "refused" => Only(tk[c], "denied")
    /\ pc[c] = "late" => Only(tk[c], "timed_out")

\* Shared or not, the wait of a call fails to find its entry only because an
\* identical call, which was answered first, closed the entry of their ticket:
\* an entry is missing neither after a restart nor after a stop.
UnregisteredWasShared ==
  \A c \in Calls :
    answer[c] = "unregistered"
      => \E b \in Calls \ {c} : tk[b] = tk[c] /\ pc[b] \in Closed

\* Every call that asks for an approval ends, behind however many waits for
\* the threads of the pool, cancelled ones included, with or without an answer
\* of its user, and also when the request that approved it missed the entry
\* and woke nobody.
CallSettles ==
  \A c \in Calls : pc[c] \in Active ~> pc[c] \in Ended

=============================================================================
