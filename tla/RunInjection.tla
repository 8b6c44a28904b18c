---------------------------- MODULE RunInjection ----------------------------
(***************************************************************************)
(* Messages injected into a run that executes: RunInjectionManager         *)
(* (sessions/runs/injection_queue.py) and the turn boundaries of the       *)
(* coordinator's model loop (agents/execution/session_runtime.py), from    *)
(* the activation of the run to its deactivation.                          *)
(*                                                                         *)
(* The model loop and the handlers that inject share one event loop, so an *)
(* action is the code between two awaits and a message may arrive at every *)
(* await.  A message is an inject of the user (queued or interrupting), a  *)
(* follow-up of a chat, or a reminder of the system.                       *)
(***************************************************************************)
EXTENDS Integers, Sequences, FiniteSets

CONSTANTS Injects,      \* messages of POST /runs/{id}/inject
          Followups,    \* messages attached to the active run by a create
          Reminders,    \* system reminders with guidance delivery
          MaxRequests,  \* bound on the model requests of the behaviour
          MaxRestarts   \* bound on retries, recoveries and rebuilt iterations

Messages == Injects \cup Followups \cup Reminders

ASSUME RunInjectionAssumption ==
  /\ Injects \cap Followups = {}
  /\ Reminders \cap (Injects \cup Followups) = {}
  /\ MaxRequests \in Nat
  /\ MaxRestarts \in Nat

VARIABLES
  active,     \* RunInjectionManager._active_runs holds the run
  queue,      \* _queues[run][coordinator instance]
  sent,       \* messages whose handler has run
  history,    \* the coordinator's conversation in the message repository
  pc,         \* position of the model loop
  view,       \* messages in the context of the running model iteration
  buffered,   \* buffered_messages: not yet persisted
  resp,       \* kind of the latest model response
  batch,      \* drained injections that are being applied
  requests, restarts,   \* counters of the two bounds
  announced,  \* messages whose INJECTION_APPLIED was published
  gone,       \* history: discarded, or held by a turn or a run that ended
  late,       \* history: accepted after the final answer's boundary
  order       \* history: accepted messages of the user, in order

loop == <<pc, view, buffered, resp, batch>>
bounds == <<requests, restarts>>
vars == <<active, queue, sent, history, loop, bounds, announced,
          gone, late, order>>

\* Positions behind the boundary of a final answer.
Answered == {"final", "accepted", "answered"}
Idle == {"failed", "broken", "accepted", "answered", "closed"}
LoopPc == Idle \cup {"boot", "top", "ready", "request", "tools", "commit",
                     "boundary", "apply", "publish", "append", "rebuild",
                     "final"}

\* Conversation items.  A call and its result carry the number of the request.
Prompt(ids) == [kind |-> "prompt", ids |-> ids, n |-> 0]
Call(n) == [kind |-> "call", ids |-> {}, n |-> n]
Result(n) == [kind |-> "result", ids |-> {}, n |-> n]
Answer(n) == [kind |-> "answer", ids |-> {}, n |-> n]

IdsOf(s) == UNION {s[i].ids : i \in DOMAIN s}

KindOf(m) == IF m \in Reminders THEN "reminder" ELSE "user"

\* created_at is told by the number of messages sent before; reminders differ
\* in it, and a merged message may tie with the next one of the user.
Entry(ids, kind, force) ==
  [ids |-> ids, kind |-> kind, force |-> force, at |-> Cardinality(sent)]

IdsIn(q) == UNION {e.ids : e \in q}

Reminding(q) == {e \in q : e.kind = "reminder"}
Users(q) == {e \in q : e.kind = "user"}
Forced(q) == {e \in q : e.force}
Promotable(q) == {e \in Users(q) : ~e.force}

\* Order of (priority, created_at): reminders first, each kind as it came.
Before(d, e) ==
  \/ d.kind = "reminder" /\ e.kind = "user"
  \/ d.kind = e.kind /\ d.at < e.at

First(q) == CHOOSE e \in q : \A d \in q : ~Before(d, e)

\* The public messages of the user in a batch become one message.
Coalesce(q) ==
  IF Users(q) = {} THEN q
  ELSE Reminding(q) \cup {[First(Users(q)) EXCEPT !.ids = IdsIn(Users(q))]}

\* Calls among the first i messages without their result.
OpenCalls(s, i) ==
  {s[j].n : j \in {k \in 1..i : s[k].kind = "call"}}
    \ {s[j].n : j \in {k \in 1..i : s[k].kind = "result"}}

\* mutant: whatever is buffered may be stored
SafeLengthAll(s) == Len(s)

\* last_committable_index
SafeLength(s) ==
  CHOOSE i \in 0..Len(s) :
    /\ OpenCalls(s, i) = {}
    /\ \A j \in (i + 1)..Len(s) : OpenCalls(s, j) # {}

HasPendingCalls(s) == SafeLength(s) < Len(s)

Init ==
  /\ active = TRUE
  /\ queue = {}
  /\ sent = {}
  /\ history = <<Prompt({})>>
  /\ pc = "boot"
  /\ view = {} /\ buffered = <<>> /\ resp = "none" /\ batch = {}
  /\ requests = 0 /\ restarts = 0
  /\ announced = {} /\ gone = {} /\ late = {} /\ order = <<>>

-----------------------------------------------------------------------------
(* The handlers that inject *)

\* Each handler first awaits rows: the inject and the force look for a RUNNING
\* coordinator, the create for an active run.  What they saw may be past when
\* they go on, so only what is tested again guards the step: is the run still
\* active.  Without that the inject and the force raise KeyError.
Accept(m, force) ==
  /\ active
  /\ queue' = queue \cup {Entry({m}, KindOf(m), force)}
  /\ order' = IF m \in Injects /\ ~force THEN Append(order, m) ELSE order
  /\ late' = IF pc \in Answered THEN late \cup {m} ELSE late

\* inject_to_coordinator_async, with either delivery mode.
Inject(m) ==
  /\ m \in Injects \ sent
  /\ sent' = sent \cup {m}
  /\ \E force \in BOOLEAN : Accept(m, force)
  /\ UNCHANGED <<active, history, loop, bounds, announced, gone>>

Remind(m) ==
  /\ m \in Reminders \ sent
  /\ sent' = sent \cup {m}
  /\ Accept(m, FALSE)
  /\ UNCHANGED <<active, history, loop, bounds, announced, gone>>

\* append_followup_to_coordinator: stored at once, and enqueued as well.
AppendFollowup(m) ==
  /\ m \in Followups \ sent
  /\ sent' = sent \cup {m}
  /\ history' = Append(history, Prompt({m}))
  /\ \/ Accept(m, FALSE)
     \/ ~active /\ UNCHANGED <<queue, order, late>>
  /\ UNCHANGED <<active, loop, bounds, announced, gone>>

Merged == Entry(IdsIn(Promotable(queue)), "user", TRUE)

\* mutant: the promoted message is appended but its originals stay queued
ForceQueuedKeeps ==
  /\ active /\ Promotable(queue) # {}
  /\ queue' = queue \cup {Merged}
  /\ UNCHANGED <<active, sent, history, loop, bounds, announced, gone, late,
                 order>>

\* force_user_queued_to_interrupt: ValueError when there is nothing to force.
ForceQueued ==
  /\ active /\ Promotable(queue) # {}
  /\ queue' = (queue \ Promotable(queue)) \cup {Merged}
  /\ UNCHANGED <<active, sent, history, loop, bounds, announced, gone, late,
                 order>>

-----------------------------------------------------------------------------
(* Draining the queue and applying what was drained *)

\* mutant: draining the interrupts empties the queue
DrainInterruptAll ==
  /\ Forced(queue) # {}
  /\ queue' = {}
  /\ batch' = Coalesce(Forced(queue))
  /\ pc' = "apply"
  /\ late' = {}
  /\ UNCHANGED <<active, sent, history, view, buffered, resp, bounds,
                 announced, gone, order>>

\* drain_interrupt; the checks leave the response that is being streamed.
DrainInterrupt ==
  /\ Forced(queue) # {}
  /\ queue' = queue \ Forced(queue)
  /\ batch' = Coalesce(Forced(queue))
  /\ pc' = "apply"
  /\ late' = {}
  /\ UNCHANGED <<active, sent, history, view, buffered, resp, bounds,
                 announced, gone, order>>

NoInterrupt == Forced(queue) = {}

\* mutant: a batch that was discarded as a whole is applied all the same
DrainAllApplies(final) ==
  LET keep == IF final THEN Users(queue) ELSE queue
  IN /\ queue # {}
     /\ queue' = {}
     /\ gone' = gone \cup (IdsIn(queue) \ IdsIn(keep))
     /\ batch' = Coalesce(keep)
     /\ pc' = "apply"

\* drain_at_boundary and the disposition: a final answer discards guidance.
DrainAll(final) ==
  LET keep == IF final THEN Users(queue) ELSE queue
  IN /\ queue # {}
     /\ queue' = {}
     /\ gone' = gone \cup (IdsIn(queue) \ IdsIn(keep))
     /\ batch' = Coalesce(keep)
     /\ pc' = IF keep # {} THEN "apply" ELSE "final"

Interruptible == {"top", "ready", "request", "tools", "final"}

Interrupt == pc \in Interruptible /\ DrainInterrupt

\* apply_injections first persists what is complete.
ApplyCommit ==
  /\ pc = "apply"
  /\ history' = history \o SubSeq(buffered, 1, SafeLength(buffered))
  /\ buffered' = SubSeq(buffered, SafeLength(buffered) + 1, Len(buffered))
  /\ pc' = "publish"
  /\ UNCHANGED <<active, queue, sent, view, resp, batch, bounds,
                 announced, gone, late, order>>

Publish ==
  /\ pc = "publish"
  /\ announced' = announced \cup First(batch).ids
  /\ pc' = "append"
  /\ UNCHANGED <<active, queue, sent, history, view, buffered, resp,
                 batch, bounds, gone, late, order>>

\* append_user_prompt_if_missing_async
AppendIfMissing(ids) ==
  IF history # <<>> /\ history[Len(history)] = Prompt(ids) THEN history
  ELSE Append(history, Prompt(ids))

AppendPrompt ==
  /\ pc = "append"
  /\ history' = AppendIfMissing(First(batch).ids)
  /\ batch' = batch \ {First(batch)}
  /\ pc' = IF batch' = {} THEN "rebuild" ELSE "publish"
  /\ UNCHANGED <<active, queue, sent, view, buffered, resp, bounds,
                 announced, gone, late, order>>

\* mutant: the iteration goes on with the context it had
RebuildContextStale ==
  /\ view' = view
  /\ buffered' = <<>> /\ resp' = "none"
  /\ pc' = "top"

\* _build_agent_iteration_context reads the conversation again.
RebuildContext ==
  /\ view' = IdsOf(history)
  /\ buffered' = <<>> /\ resp' = "none"
  /\ pc' = "top"

Rebuild ==
  /\ pc = "rebuild"
  /\ RebuildContext
  /\ UNCHANGED <<active, queue, sent, history, batch, bounds, announced, gone,
                 late, order>>

-----------------------------------------------------------------------------
(* The model loop *)

\* Start of an attempt: the context is built, reminders that wait are applied.
Boot ==
  /\ pc = "boot"
  /\ view' = IdsOf(history)
  /\ batch' = Reminding(queue)
  /\ queue' = Users(queue)
  /\ pc' = IF batch' = {} THEN "top" ELSE "publish"
  /\ UNCHANGED <<active, sent, history, buffered, resp, bounds,
                 announced, gone, late, order>>

TopDrain ==
  /\ pc = "top" /\ NoInterrupt
  /\ DrainAll(FALSE)
  /\ UNCHANGED <<active, sent, history, view, buffered, resp, bounds,
                 announced, late, order>>

TopPass ==
  /\ pc = "top" /\ queue = {}
  /\ pc' = "ready"
  /\ UNCHANGED <<active, queue, sent, history, view, buffered, resp,
                 batch, bounds, announced, gone, late, order>>

\* The spec checkpoint, a tool call that failed its validation, or new tools
\* of the auto harness after the final answer: the iteration starts again.
RestartIteration ==
  /\ \/ pc = "ready"
     \/ pc = "boundary" /\ resp = "calls" /\ ~HasPendingCalls(buffered)
     \/ pc = "final" /\ NoInterrupt
  /\ restarts < MaxRestarts
  /\ restarts' = restarts + 1
  /\ RebuildContext
  /\ late' = {}
  /\ UNCHANGED <<active, queue, sent, history, batch, requests, announced,
                 gone, order>>

StartRequest ==
  /\ pc = "ready" /\ NoInterrupt
  /\ requests < MaxRequests
  /\ requests' = requests + 1
  /\ pc' = "request"
  /\ UNCHANGED <<active, queue, sent, history, view, buffered, resp,
                 batch, restarts, announced, gone, late, order>>

\* The stream ends with tool calls or with the answer.
Respond ==
  /\ pc = "request" /\ NoInterrupt
  /\ pc' = "commit"
  /\ \/ resp' = "calls" /\ buffered' = Append(buffered, Call(requests))
     \/ resp' = "answer" /\ buffered' = Append(buffered, Answer(requests))
  /\ UNCHANGED <<active, queue, sent, history, view, batch, bounds,
                 announced, gone, late, order>>

ToolsReturn ==
  /\ pc = "tools" /\ NoInterrupt
  /\ buffered' = Append(buffered, Result(requests))
  /\ pc' = "commit"
  /\ UNCHANGED <<active, queue, sent, history, view, resp, batch,
                 bounds, announced, gone, late, order>>

\* process_safe_boundary: commit_ready_messages, then the queue.
CommitReady ==
  /\ pc = "commit"
  /\ history' = history \o SubSeq(buffered, 1, SafeLength(buffered))
  /\ buffered' = SubSeq(buffered, SafeLength(buffered) + 1, Len(buffered))
  /\ pc' = "boundary"
  /\ UNCHANGED <<active, queue, sent, view, resp, batch, bounds,
                 announced, gone, late, order>>

BoundaryPending ==
  /\ pc = "boundary" /\ HasPendingCalls(buffered)
  /\ pc' = "tools"
  /\ UNCHANGED <<active, queue, sent, history, view, buffered, resp,
                 batch, bounds, announced, gone, late, order>>

BoundaryDrain ==
  /\ pc = "boundary" /\ ~HasPendingCalls(buffered)
  /\ DrainAll(resp = "answer")
  /\ UNCHANGED <<active, sent, history, view, buffered, resp, bounds,
                 announced, late, order>>

\* mutant: the boundary of an answer does not look at the queue
BoundaryPassBlind ==
  /\ pc = "boundary" /\ ~HasPendingCalls(buffered)
  /\ resp = "answer" \/ queue = {}
  /\ pc' = IF resp = "answer" THEN "final" ELSE "ready"
  /\ UNCHANGED <<active, queue, sent, history, view, buffered, resp,
                 batch, bounds, announced, gone, late, order>>

BoundaryPass ==
  /\ pc = "boundary" /\ ~HasPendingCalls(buffered)
  /\ queue = {}
  /\ pc' = IF resp = "answer" THEN "final" ELSE "ready"
  /\ resp' = IF resp = "answer" THEN resp ELSE "none"
  /\ UNCHANGED <<active, queue, sent, history, view, buffered,
                 batch, bounds, announced, gone, late, order>>

AcceptAnswer ==
  /\ pc = "final" /\ NoInterrupt
  /\ pc' = "accepted"
  /\ UNCHANGED <<active, queue, sent, history, view, buffered, resp,
                 batch, bounds, announced, gone, late, order>>

\* A provider error: the attempt is made again, or resumed behind the tool
\* results that were stored.
RetryAttempt ==
  /\ pc = "request"
  /\ restarts < MaxRestarts
  /\ restarts' = restarts + 1
  /\ pc' = "boot"
  /\ buffered' = <<>> /\ resp' = "none" /\ view' = {}
  /\ UNCHANGED <<active, queue, sent, history, batch, requests, announced,
                 gone, late, order>>

\* A stop, or an error that is not retried.
Fail ==
  /\ pc \notin Idle
  /\ pc' = "failed"
  /\ gone' = gone \cup IdsIn(batch)
  /\ batch' = {} /\ buffered' = <<>> /\ resp' = "none" /\ view' = {}
  /\ UNCHANGED <<active, queue, sent, history, bounds, announced, late, order>>

\* The task execution marks the agent ended.
MarkEnded ==
  /\ pc \in {"accepted", "failed"}
  /\ pc' = IF pc = "accepted" THEN "answered" ELSE "broken"
  /\ UNCHANGED <<active, queue, sent, history, view, buffered, resp,
                 batch, bounds, announced, gone, late, order>>

\* run_with_auto_recovery tells the coordinator and executes it again.
AutoRecover ==
  /\ pc = "broken"
  /\ restarts < MaxRestarts
  /\ restarts' = restarts + 1
  /\ history' = Append(history, Prompt({}))
  /\ pc' = "boot"
  /\ late' = {}
  /\ UNCHANGED <<active, queue, sent, view, buffered, resp, batch, requests,
                 announced, gone, order>>

\* The worker finalises the run: deactivate drops the queues.
Deactivate ==
  /\ pc \in {"answered", "broken"}
  /\ active' = FALSE
  /\ gone' = gone \cup IdsIn(queue)
  /\ queue' = {}
  /\ pc' = "closed"
  /\ view' = {} /\ resp' = "none"
  /\ UNCHANGED <<sent, history, buffered, batch, bounds, announced, late,
                 order>>

Send(m) ==
  \/ Inject(m) \/ Remind(m) \/ AppendFollowup(m)

Apply == ApplyCommit \/ Publish \/ AppendPrompt \/ Rebuild

Turn ==
  \/ Boot \/ TopDrain \/ TopPass \/ RestartIteration \/ StartRequest
  \/ Respond \/ ToolsReturn \/ CommitReady
  \/ BoundaryPending \/ BoundaryDrain \/ BoundaryPass \/ AcceptAnswer
  \/ RetryAttempt \/ Fail

Next ==
  \/ \E m \in Messages : Send(m)
  \/ ForceQueued
  \/ Interrupt \/ Apply \/ Turn
  \/ MarkEnded \/ AutoRecover \/ Deactivate

Spec == Init /\ [][Next]_vars

-----------------------------------------------------------------------------
(* Properties *)

Items ==
  [kind : {"prompt", "call", "result", "answer"}, ids : SUBSET Messages,
   n : 0..MaxRequests]
Entries ==
  [ids : SUBSET Messages, kind : {"user", "reminder"}, force : BOOLEAN,
   at : Nat]

\* The types; an injection in hand or in the queue is of one message or more.
TypeOK ==
  /\ active \in BOOLEAN
  /\ queue \subseteq Entries /\ batch \subseteq Entries
  /\ sent \subseteq Messages
  /\ history \in Seq(Items) /\ buffered \in Seq(Items)
  /\ pc \in LoopPc
  /\ view \subseteq Messages /\ announced \subseteq Messages
  /\ gone \subseteq Messages /\ late \subseteq Messages
  /\ resp \in {"none", "calls", "answer"}
  /\ requests \in 0..MaxRequests /\ restarts \in 0..MaxRestarts
  /\ order \in Seq(Messages)
  /\ pc \in {"apply", "publish", "append"} => batch # {}

\* The stored conversation never holds a tool call without its result right
\* behind it, whatever is injected, forced or attached while tools execute
\* (last_committable_index, commit_all_safe_messages_async).
PairsIntact ==
  \A i \in DOMAIN history :
    /\ history[i].kind = "call" =>
         /\ i + 1 \in DOMAIN history
         /\ history[i + 1] = Result(history[i].n)
    /\ history[i].kind = "result" =>
         i - 1 \in DOMAIN history /\ history[i - 1] = Call(history[i].n)

\* An answer is accepted only from an iteration whose context held every
\* message that was accepted before the answer's boundary, except the ones
\* discarded there or held by a turn that broke
\* (apply_queued_injections_at_boundary with final_answer_ready).
AnswerSeesInjections ==
  pc \in {"accepted", "answered"} => IdsIn(queue) \subseteq late

\* Every message the model was told of is in the context of the answer.
AnswerSeesHistory ==
  pc \in {"accepted", "answered"} =>
    {m \in Injects \cup Reminders : m \in IdsOf(history)} \subseteq view

Shown(m) ==
  \E i \in DOMAIN history : history[i].kind = "prompt" /\ m \in history[i].ids
Times(m) == Cardinality({i \in DOMAIN history : m \in history[i].ids})

\* An inject enters the conversation once, a follow-up, which is stored when
\* it is attached, at most once more; and of two queued injects of the user the
\* earlier is never left waiting when the later is shown, even if they are
\* forced (First, Coalesce, Merged: force_user_queued_to_interrupt).
ShownOnceInOrder ==
  /\ \A m \in Messages : Times(m) <= IF m \in Followups THEN 2 ELSE 1
  /\ \A i, j \in DOMAIN order :
       i < j /\ Shown(order[j]) =>
         order[i] \notin IdsIn(queue) \cup IdsIn(batch)

\* The injection queue and the turn boundaries implement the mailbox.
Mailbox ==
  INSTANCE RunMailbox WITH
    open <- active,
    waiting <- IdsIn(queue),
    taken <- IdsIn(batch),
    shown <- (announced \cap IdsOf(history)) \ (IdsIn(batch) \cup gone)
MailboxSpec == Mailbox!Spec

=============================================================================
