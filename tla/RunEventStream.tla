--------------------------- MODULE RunEventStream ---------------------------
(***************************************************************************)
(* Run events: RunEventHub (sessions/runs/event_stream.py), the event log  *)
(* and the run states it writes, and the streams SessionRunService serves  *)
(* from them: one run until its end or its pause, one run until its end    *)
(* (the Discord and WeChat reply watchers), or several runs over one       *)
(* connection.                                                             *)
(*                                                                         *)
(* A publication holds the publish lock while it inserts the event, reads  *)
(* and writes the state of the run and puts the event on the subscribers'  *)
(* queues, with an await at each.  A stream subscribes, reads the log      *)
(* behind its offset, yields what it read and then what its queue holds.   *)
(***************************************************************************)
EXTENDS Integers, Sequences

CONSTANTS Runs,           \* runs that publish
          Publishers,     \* tasks and threads that publish
          Streams,        \* connections; a reconnect is another stream
          MaxEvents,      \* bound on the events logged
          PublishMayFail, \* a write to the log or to the run state may fail
          None

ASSUME RunEventStreamAssumption ==
  /\ MaxEvents \in Nat
  /\ PublishMayFail \in BOOLEAN
  /\ None \notin Publishers

VARIABLES
  log,      \* rows of the events table; the id of a row is its position
  state,    \* last_event_id and status of run_states by run
  applied,  \* history: ids whose run state was written
  lock,     \* _publish_lock
  pub,      \* publication of each publisher
  subs,     \* _subscribers: the streams that have a queue, by run
  stream    \* local state of stream_run_events and
            \* stream_multiplexed_run_events, by stream

hub == <<log, state, applied, lock, pub>>
vars == <<hub, subs, stream>>

\* RunEventType as far as a stream or the run state goes by it: "delta" is an
\* output of the model, "settled" the answer to an approval, "completed" also
\* stands for a failed run.  Any other event acts as one of these: a tool's
\* result leaves a paused run paused and is ignored behind a stop.
Steps == {"delta", "settled"}
Kinds == Steps \cup {"paused", "resumed", "stopped", "completed"}
Terminal == {"stopped", "completed"}
\* stream_run_events with and without stop_on_pause, and the multiplexed one.
Modes == {"single", "tolerant", "multiplexed"}

NoState == [last |-> 0, status |-> "none"]
Idle == [at |-> "idle", run |-> None, kind |-> None, id |-> 0, read |-> NoState]
Fresh == [phase |-> "new", mode |-> "single", watch |-> {},
          after |-> [r \in Runs |-> 0], mark |-> [r \in Runs |-> 0],
          backlog |-> {}, done |-> {}, queue |-> [r \in Runs |-> <<>>],
          seen |-> <<>>]

Ids == 1..MaxEvents
RunStates == [last : 0..MaxEvents,
              status : {"none", "running", "paused", "stopped", "completed"}]
Publications ==
  [at : {"idle", "emit", "read", "write", "notify"}, run : Runs \cup {None},
   kind : Kinds \cup {None}, id : 0..MaxEvents, read : RunStates]
Connections ==
  [phase : {"new", "reading", "replaying", "live", "ended"}, mode : Modes,
   watch : SUBSET Runs, after : [Runs -> -1..MaxEvents],
   mark : [Runs -> 0..MaxEvents], backlog : SUBSET Ids, done : SUBSET Runs,
   queue : [Runs -> Seq(Ids)], seen : Seq(Ids)]

\* The variables hold what the code's types say, and the lock is held exactly
\* by the publisher that is in the middle of a publication.
TypeOK ==
  /\ log \in Seq([run : Runs, kind : Kinds])
  /\ Len(log) <= MaxEvents
  /\ state \in [Runs -> RunStates]
  /\ applied \subseteq 1..Len(log)
  /\ lock \in Publishers \cup {None}
  /\ pub \in [Publishers -> Publications]
  /\ \A p \in Publishers : pub[p].at # "idle" <=> lock = p
  /\ subs \in [Runs -> SUBSET Streams]
  /\ stream \in [Streams -> Connections]

Init ==
  /\ log = <<>>
  /\ state = [r \in Runs |-> NoState]
  /\ applied = {}
  /\ lock = None
  /\ pub = [p \in Publishers |-> Idle]
  /\ subs = [r \in Runs |-> {}]
  /\ stream = [s \in Streams |-> Fresh]

-----------------------------------------------------------------------------
(* Publishing.                                                             *)

IdsOf(r) == {i \in 1..Len(log) : log[i].run = r}

\* Where the life of the run is, from the events it has published.
LastKind(r) ==
  LET lifecycle == {i \in IdsOf(r) : log[i].kind \notin Steps}
  IN IF lifecycle = {} THEN "resumed"
     ELSE log[CHOOSE i \in lifecycle : \A j \in lifecycle : j <= i].kind

\* What a run publishes next: a paused or stopped run is resumed, steps of its
\* tasks may straggle, and a late stop follows the completion it raced with.
Publishable(r) ==
  {"delta"} \cup CASE LastKind(r) = "resumed" -> {"paused", "stopped", "completed"}
                   [] LastKind(r) = "paused" -> {"resumed", "stopped", "settled"}
                   [] LastKind(r) = "stopped" -> {"resumed", "settled"}
                   [] LastKind(r) = "completed" -> {"stopped"}

\* apply_run_event_to_state: a completed run is frozen, a stopped one ignores
\* what is left of its steps, but not the answers to what it had asked.
Applied(previous, kind, id) ==
  IF \/ previous.status = "completed"
     \/ previous.status = "stopped" /\ kind = "delta"
  THEN previous
  ELSE [last |-> id,
        status |-> CASE kind \in {"delta", "resumed"} -> "running"
                     [] kind = "settled" -> previous.status
                     [] OTHER -> kind]

\* Mutant of Notified: streams that still replay are passed over.
NotifiedWhenLive(r, id) ==
  [s \in Streams |->
     IF s \in subs[r] /\ stream[s].phase = "live"
     THEN [stream[s] EXCEPT !.queue[r] = Append(@, id)]
     ELSE stream[s]]

\* The event is put on the queue of every subscriber of its run.
Notified(r, id) ==
  [s \in Streams |->
     IF s \in subs[r] THEN [stream[s] EXCEPT !.queue[r] = Append(@, id)]
     ELSE stream[s]]

\* publish_async, or publish from a thread: the lock is free.
AcquirePublishLock(p, r, kind) ==
  /\ lock = None
  /\ pub[p].at = "idle"
  /\ Len(log) < MaxEvents
  /\ kind \in Publishable(r)
  /\ lock' = p
  /\ pub' = [pub EXCEPT ![p] = [Idle EXCEPT !.at = "emit", !.run = r, !.kind = kind]]
  /\ UNCHANGED <<log, state, applied, subs, stream>>

EmitEvent(p) ==
  /\ pub[p].at = "emit"
  /\ log' = Append(log, [run |-> pub[p].run, kind |-> pub[p].kind])
  /\ pub' = [pub EXCEPT ![p].at = "read", ![p].id = Len(log) + 1]
  /\ UNCHANGED <<state, applied, lock, subs, stream>>

\* apply_event_async reads the state of the run ...
ReadRunState(p) ==
  /\ pub[p].at = "read"
  /\ pub' = [pub EXCEPT ![p].at = "write", ![p].read = state[pub[p].run]]
  /\ UNCHANGED <<log, state, applied, lock, subs, stream>>

\* ... and writes what the event makes of it.
WriteRunState(p) ==
  /\ pub[p].at = "write"
  /\ state' = [state EXCEPT ![pub[p].run] = Applied(pub[p].read, pub[p].kind, pub[p].id)]
  /\ applied' = applied \cup {pub[p].id}
  /\ pub' = [pub EXCEPT ![p].at = "notify"]
  /\ UNCHANGED <<log, lock, subs, stream>>

\* Mutant of ReleasePublishLock: a failed publication keeps the lock.
ReleasePublishLockLeaks(p) ==
  /\ lock' = IF pub[p].at = "notify" THEN None ELSE lock
  /\ pub' = [pub EXCEPT ![p] = Idle]

\* The finally of the publication.
ReleasePublishLock(p) ==
  /\ lock' = None
  /\ pub' = [pub EXCEPT ![p] = Idle]

NotifySubscribers(p) ==
  /\ pub[p].at = "notify"
  /\ stream' = Notified(pub[p].run, pub[p].id)
  /\ ReleasePublishLock(p)
  /\ UNCHANGED <<log, state, applied, subs>>

\* The insert or the state write raises: what was done before stays.
PublishFails(p) ==
  /\ PublishMayFail
  /\ pub[p].at \in {"emit", "read", "write"}
  /\ ReleasePublishLock(p)
  /\ UNCHANGED <<log, state, applied, subs, stream>>

\* Mutant of PublishFromLoop: it does not ask for the lock.
PublishFromLoopUnlocked(r, kind) ==
  LET id == Len(log) + 1
  IN /\ Len(log) < MaxEvents
     /\ kind \in Publishable(r)
     /\ log' = Append(log, [run |-> r, kind |-> kind])
     /\ state' = [state EXCEPT ![r] = Applied(@, kind, id)]
     /\ applied' = applied \cup {id}
     /\ stream' = Notified(r, id)
     /\ UNCHANGED <<lock, pub, subs>>

\* publish from the event loop: no await, and an exception if the lock is held.
PublishFromLoop(r, kind) ==
  LET id == Len(log) + 1
  IN /\ lock = None
     /\ Len(log) < MaxEvents
     /\ kind \in Publishable(r)
     /\ log' = Append(log, [run |-> r, kind |-> kind])
     /\ state' = [state EXCEPT ![r] = Applied(@, kind, id)]
     /\ applied' = applied \cup {id}
     /\ stream' = Notified(r, id)
     /\ UNCHANGED <<lock, pub, subs>>

-----------------------------------------------------------------------------
(* Streams.                                                                *)

Offsets(r) == {0} \cup IdsOf(r)

\* The generator is gone.
Closed == [Fresh EXCEPT !.phase = "ended"]

\* The event is yielded; if it ends what the stream shows of the run, the rest
\* is done when the client comes back for the next event.
EndsStream(mode, kind) ==
  kind \in Terminal \/ (kind = "paused" /\ mode # "tolerant")

Yielded(c, id) ==
  [c EXCEPT !.seen = Append(@, id),
            !.done = IF EndsStream(c.mode, log[id].kind) THEN @ \cup {log[id].run} ELSE @]

\* A request subscribes before it reads the log; a negative offset asks for
\* no replay.
Subscribe(s, mode, watch, after) ==
  /\ stream[s].phase = "new"
  /\ stream' = [stream EXCEPT
       ![s] = [Fresh EXCEPT
                 !.phase = IF \E r \in watch : after[r] < 0 THEN "live" ELSE "reading",
                 !.mode = mode, !.watch = watch, !.after = after]]
  /\ subs' = [r \in Runs |-> IF r \in watch THEN subs[r] \cup {s} ELSE subs[r]]
  /\ UNCHANGED hub

Offset(r, id) == [q \in Runs |-> IF q = r THEN id ELSE 0]

OpenStream(s) ==
  \E r \in Runs, mode \in {"single", "tolerant"} :
    \E id \in {-1} \cup Offsets(r) : Subscribe(s, mode, {r}, Offset(r, id))

OpenMultiplexed(s) ==
  \E watch \in SUBSET Runs \ {{}} :
    \E after \in {f \in [Runs -> 0..Len(log)] :
                    \A r \in Runs : f[r] \in IF r \in watch THEN Offsets(r) ELSE {0}} :
      Subscribe(s, "multiplexed", watch, after)

\* list_by_trace_after_id and list_by_traces_after_ids: the rows behind the
\* offsets, to be yielded in the order of their ids.
Rows(c) ==
  {i \in 1..Len(log) : log[i].run \in c.watch /\ i > c.after[log[i].run]}

IsLeast(id, ids) == id \in ids /\ \A i \in ids : id <= i

\* The last row of a run, or 0.
IsHighWatermark(id, r, rows) ==
  LET ids == {i \in rows : log[i].run = r}
  IN IF ids = {} THEN id = 0 ELSE id \in ids /\ \A i \in ids : i <= id

ReadLog(s) ==
  /\ stream[s].phase = "reading"
  /\ LET rows == Rows(stream[s])
     IN \E mark \in [Runs -> 0..Len(log)] :
          /\ IF stream[s].mode = "multiplexed"
             THEN \A r \in Runs : IsHighWatermark(mark[r], r, rows)
             ELSE mark = stream[s].mark
          /\ stream' = [stream EXCEPT ![s].phase = "replaying", ![s].backlog = rows,
                                      ![s].mark = mark]
  /\ UNCHANGED <<hub, subs>>

ReplayEvent(s, id) ==
  LET c == stream[s]
  IN /\ c.phase = "replaying"
     /\ c.mode # "multiplexed"
     /\ c.done = {}
     /\ IsLeast(id, c.backlog)
     /\ stream' = [stream EXCEPT
          ![s] = [Yielded(c, id) EXCEPT !.backlog = @ \ {id}, !.mark[log[id].run] = id]]
     /\ UNCHANGED <<hub, subs>>

\* The multiplexed stream yields no row of a run behind its end or pause.
ReplayMultiplexed(s, id) ==
  LET c == stream[s]
      rest == [c EXCEPT !.backlog = @ \ {id}]
  IN /\ c.phase = "replaying"
     /\ c.mode = "multiplexed"
     /\ IsLeast(id, c.backlog)
     /\ stream' = [stream EXCEPT
          ![s] = IF log[id].run \in c.done THEN rest ELSE Yielded(rest, id)]
     /\ UNCHANGED <<hub, subs>>

\* Mutant of LiveEvent: the last event of the replay is shown again.
LiveEventRepeats(s, r) ==
  LET c == stream[s]
      id == Head(c.queue[r])
      rest == [c EXCEPT !.queue[r] = Tail(@)]
  IN /\ c.phase = "live"
     /\ c.done = {}
     /\ c.queue[r] # <<>>
     /\ stream' = [stream EXCEPT ![s] = IF id < c.mark[r] THEN rest ELSE Yielded(rest, id)]
     /\ UNCHANGED <<hub, subs>>

\* The next event of a queue, unless the replay has shown it.
LiveEvent(s, r) ==
  LET c == stream[s]
      id == Head(c.queue[r])
      rest == [c EXCEPT !.queue[r] = Tail(@)]
  IN /\ c.phase = "live"
     /\ c.done = {}
     /\ c.queue[r] # <<>>
     /\ stream' = [stream EXCEPT ![s] = IF id <= c.mark[r] THEN rest ELSE Yielded(rest, id)]
     /\ UNCHANGED <<hub, subs>>

\* The last event ended stream_run_events: it unsubscribes its queue and, at the
\* end of the run, every queue of the run.
EndSingle(s) ==
  LET c == stream[s]
      last == log[c.seen[Len(c.seen)]]
  IN /\ c.mode # "multiplexed"
     /\ c.done # {}
     /\ stream' = [stream EXCEPT ![s] = Closed]
     /\ subs' = [subs EXCEPT
          ![last.run] = IF last.kind \in Terminal THEN {} ELSE @ \ {s}]
     /\ UNCHANGED hub

\* The multiplexed stream gives up the runs that ended or paused, with every
\* queue they have, and goes on with the others.
LeaveRuns(s) ==
  LET c == stream[s]
  IN /\ c.mode = "multiplexed"
     /\ c.backlog = {}
     /\ c.phase = "replaying" \/ (c.phase = "live" /\ c.done # {})
     /\ stream' = [stream EXCEPT
          ![s] = IF c.watch = c.done THEN Closed
                 ELSE [c EXCEPT !.phase = "live", !.watch = @ \ c.done, !.done = {},
                                !.queue = [r \in Runs |-> IF r \in c.done THEN <<>> ELSE @[r]]]]
     /\ subs' = [r \in Runs |-> IF r \in c.done THEN {} ELSE subs[r]]
     /\ UNCHANGED hub

\* The replay of stream_run_events is over.
GoLive(s) ==
  /\ stream[s].phase = "replaying"
  /\ stream[s].mode # "multiplexed"
  /\ stream[s].backlog = {}
  /\ stream[s].done = {}
  /\ stream' = [stream EXCEPT ![s].phase = "live"]
  /\ UNCHANGED <<hub, subs>>

\* The client goes away: the finally of the generator.
Disconnect(s) ==
  /\ stream[s].phase \in {"reading", "replaying", "live"}
  /\ stream' = [stream EXCEPT ![s] = Closed]
  /\ subs' = [r \in Runs |-> IF r \in stream[s].watch THEN subs[r] \ {s} ELSE subs[r]]
  /\ UNCHANGED hub

\* The server restarts: the tables stay.
Restart ==
  /\ lock' = None
  /\ pub' = [p \in Publishers |-> Idle]
  /\ subs' = [r \in Runs |-> {}]
  /\ stream' = [s \in Streams |-> IF stream[s].phase = "new" THEN Fresh ELSE Closed]
  /\ UNCHANGED <<log, state, applied>>

-----------------------------------------------------------------------------
Publish(p) ==
  \/ EmitEvent(p)
  \/ ReadRunState(p)
  \/ WriteRunState(p)
  \/ NotifySubscribers(p)
  \/ PublishFails(p)

Serve(s) ==
  \/ ReadLog(s)
  \/ \E id \in Ids : ReplayEvent(s, id) \/ ReplayMultiplexed(s, id)
  \/ GoLive(s)
  \/ \E r \in Runs : LiveEvent(s, r)
  \/ EndSingle(s)
  \/ LeaveRuns(s)

Next ==
  \/ \E p \in Publishers, r \in Runs, kind \in Kinds : AcquirePublishLock(p, r, kind)
  \/ \E p \in Publishers : Publish(p)
  \/ \E r \in Runs, kind \in Kinds : PublishFromLoop(r, kind)
  \/ \E s \in Streams : OpenStream(s) \/ OpenMultiplexed(s) \/ Serve(s) \/ Disconnect(s)
  \/ Restart

Spec == Init /\ [][Next]_vars

-----------------------------------------------------------------------------
Watching(s, r) == r \in stream[s].watch

\* A stream yields the events of a run once and in the order of their ids, from
\* its log and from its queue, and leaves out none behind its offset (or behind
\* the first it yields) but those whose publication failed half way: what is
\* published while it subscribes, reads and replays is neither lost nor
\* yielded twice.
NoGapNoRepeat ==
  \A s \in Streams :
    LET c == stream[s]
        ids == {c.seen[n] : n \in 1..Len(c.seen)}
        SameRun(i, j) == log[i].run = log[j].run
    IN /\ \A m, n \in 1..Len(c.seen) :
            m < n /\ SameRun(c.seen[m], c.seen[n]) => c.seen[m] < c.seen[n]
       /\ \A i \in ids, j \in applied :
            /\ SameRun(i, j)
            /\ j < i
            /\ IF c.after[log[i].run] >= 0 THEN c.after[log[i].run] < j
               ELSE \E k \in ids : SameRun(k, i) /\ k < j
            => j \in ids

\* run_states is what the log says: the state of a run is the fold of its
\* applied events in the order of their ids, although each publication reads
\* and writes it at different times.
StateFollowsLog ==
  \A r \in Runs :
    LET fold[i \in 0..Len(log)] ==
          IF i = 0 THEN NoState
          ELSE IF i \in applied /\ log[i].run = r
               THEN Applied(fold[i - 1], log[i].kind, i)
               ELSE fold[i - 1]
    IN state[r] = fold[Len(log)]

\* A stream that waits at an empty queue of the hub, with no publication under
\* way, has shown every event behind its offset: none was published between
\* its subscription and its replay, or between its replay and its first wait,
\* without reaching it, the end of the run last of all.
IdleStreamIsCurrent ==
  \A s \in Streams, r \in Runs :
    LET c == stream[s]
    IN /\ c.phase = "live"
       /\ r \in c.watch \ c.done
       /\ s \in subs[r]
       /\ c.queue[r] = <<>>
       /\ lock = None
       /\ c.after[r] >= 0
       => \A id \in applied : log[id].run = r /\ id > c.after[r]
                               => \E n \in 1..Len(c.seen) : c.seen[n] = id

\* "pause does not clear other subscribers": as long as a run has no terminal
\* event, a stream that waits for its events keeps its queue at the hub.
PauseKeepsSubscribers ==
  \A s \in Streams, r \in Runs :
    /\ stream[s].phase = "live"
    /\ Watching(s, r)
    /\ \A i \in IdsOf(r) : log[i].kind \notin Terminal
    => s \in subs[r]

-----------------------------------------------------------------------------
=============================================================================
