------------------------ MODULE RunEventStreamProofs ------------------------
(***************************************************************************)
(* Proofs about RunEventStream: type correctness, that a stream yields     *)
(* every event behind its offset once and in order, that it has shown      *)
(* every event when it waits, and that the run states are the fold of the  *)
(* log.                                                                    *)
(***************************************************************************)
EXTENDS RunEventStream, TLAPS

Elems(q) == {q[n] : n \in 1..Len(q)}
Ascending(q) == \A m, n \in 1..Len(q) : m < n => q[m] < q[n]
OfRun(ids, r) == {i \in ids : log[i].run = r}

Seen(s) == Elems(stream[s].seen)
Queued(s, r) == Elems(stream[s].queue[r])

\* The ids of a run that the stream has yielded or has at hand.
Held(s, r) == OfRun(Seen(s) \cup stream[s].backlog, r) \cup Queued(s, r)

\* The id is behind the offset, or behind one of these ids.
Behind(s, r, ids, j) ==
  IF stream[s].after[r] >= 0 THEN stream[s].after[r] < j ELSE \E k \in ids : k < j

Active(s) == stream[s].phase \in {"replaying", "live"}
Asked(s) == stream[s].watch \ stream[s].done
InFlight(p) == pub[p].at \in {"read", "write", "notify"}

-----------------------------------------------------------------------------
\* The id of a publication that is under way is the last of the log.
PubInv ==
  \A p \in Publishers :
    /\ pub[p].at # "idle" => pub[p].run \in Runs /\ pub[p].kind \in Kinds
    /\ pub[p].at = "emit" => Len(log) < MaxEvents
    /\ InFlight(p) => /\ pub[p].id = Len(log)
                      /\ Len(log) > 0
                      /\ log[Len(log)].run = pub[p].run

\* What a stream has at hand is in the log and of the runs it watches.
InLog(s) ==
  /\ Seen(s) \subseteq 1..Len(log)
  /\ stream[s].backlog \subseteq 1..Len(log)
  /\ \A i \in stream[s].backlog : log[i].run \in stream[s].watch
  /\ \A r \in Runs : /\ stream[s].mark[r] <= Len(log)
                     /\ \A i \in Queued(s, r) : /\ i \in 1..Len(log)
                                                /\ log[i].run = r
                                                /\ r \in stream[s].watch

\* What a stream has in each of its phases.
Phases(s) ==
  /\ stream[s].phase \in {"new", "ended", "reading"} =>
       /\ stream[s].seen = <<>> /\ stream[s].backlog = {} /\ stream[s].done = {}
       /\ \A r \in Runs : stream[s].mark[r] = 0
  /\ stream[s].phase \in {"new", "ended"} => stream[s].watch = {}
  /\ stream[s].phase = "reading" => \A r \in stream[s].watch : stream[s].after[r] >= 0
  /\ stream[s].phase = "live" => stream[s].backlog = {}

\* A stream has queues of the runs it watches only; unless it is multiplexed it
\* watches one run, the run of all it has yielded.
Watched(s) ==
  /\ \A r \in Runs : s \in subs[r] => r \in stream[s].watch
  /\ stream[s].done # {} => stream[s].seen # <<>>
  /\ stream[s].mode # "multiplexed" =>
       /\ \A q, r \in stream[s].watch : q = r
       /\ \A i \in Seen(s) : log[i].run \in stream[s].watch

\* What was yielded and what is left of the replay is in the order of ids.
SeenOrdered(s) ==
  /\ \A m, n \in 1..Len(stream[s].seen) :
       /\ m < n
       /\ log[stream[s].seen[m]].run = log[stream[s].seen[n]].run
       => stream[s].seen[m] < stream[s].seen[n]
  /\ \A i \in Seen(s), j \in stream[s].backlog : log[i].run = log[j].run => i < j
  /\ stream[s].mode = "multiplexed" =>
       \A i \in stream[s].backlog : i <= stream[s].mark[log[i].run]

\* So is the queue, which is ahead of what was yielded behind the watermark.
QueueOrdered(s) ==
  \A r \in Runs :
    /\ Ascending(stream[s].queue[r])
    /\ \A i \in OfRun(Seen(s), r) : i > stream[s].mark[r] =>
         /\ \A q \in Queued(s, r) : i < q
         /\ \A p \in Publishers : InFlight(p) => i < pub[p].id
    /\ \A q \in Queued(s, r), p \in Publishers : InFlight(p) => q < pub[p].id

\* The replay has no gap up to its watermark and up to what is left of it.
Replayed(s) ==
  Active(s) =>
    \A r \in Asked(s), j \in 1..Len(log) :
      /\ log[j].run = r
      /\ stream[s].after[r] < j
      /\ \/ j <= stream[s].mark[r]
         \/ \E i \in stream[s].backlog : log[i].run = r /\ j <= i
      => j \in Seen(s) \cup stream[s].backlog

\* What the stream has at hand of a run has no gap.
HeldClosed(s) ==
  Active(s) =>
    \A r \in Asked(s) : \A i \in Held(s, r), j \in applied :
      log[j].run = r /\ j < i /\ Behind(s, r, Held(s, r), j) => j \in Held(s, r)

\* What it has yielded has none.
SeenClosed(s) ==
  \A r \in Runs : \A i \in OfRun(Seen(s), r), j \in applied :
    log[j].run = r /\ j < i /\ Behind(s, r, OfRun(Seen(s), r), j) => j \in Seen(s)

\* A stream that is subscribed has all that was published, or is about to.
HeldComplete(s) ==
  Active(s) =>
    \A r \in Asked(s) : s \in subs[r] =>
      \A j \in applied :
        log[j].run = r /\ Behind(s, r, Held(s, r), j)
        => \/ j \in Held(s, r)
           \/ \E p \in Publishers : pub[p].at = "notify" /\ pub[p].id = j

StreamInv(s) ==
  /\ InLog(s)
  /\ Phases(s)
  /\ Watched(s)
  /\ SeenOrdered(s)
  /\ QueueOrdered(s)
  /\ Replayed(s)
  /\ HeldClosed(s)
  /\ SeenClosed(s)
  /\ HeldComplete(s)

IInv == TypeOK /\ PubInv /\ \A s \in Streams : StreamInv(s)

-----------------------------------------------------------------------------
(* Sequences of ids.                                                       *)

\* The elements of a queue grow by what is put on it.
LEMMA ElemsAppend ==
  ASSUME NEW S, NEW q \in Seq(S), NEW x \in S
  PROVE  Elems(Append(q, x)) = Elems(q) \cup {x}
BY DEF Elems

\* The elements of a queue are its head and what is behind it.
LEMMA ElemsTail ==
  ASSUME NEW S, NEW q \in Seq(S), q # <<>>
  PROVE  /\ Head(q) \in S
         /\ Tail(q) \in Seq(S)
         /\ Elems(q) = {Head(q)} \cup Elems(Tail(q))
<1>1. Head(q) \in S /\ Tail(q) \in Seq(S)
  OBVIOUS
<1>2. Elems(q) \subseteq {Head(q)} \cup Elems(Tail(q))
  <2>1. SUFFICES ASSUME NEW n \in 1..Len(q), n # 1
                 PROVE  q[n] \in Elems(Tail(q))
    BY DEF Elems
  <2>2. Len(q) \in Nat /\ Len(Tail(q)) = Len(q) - 1
    BY <1>1
  <2>3. n - 1 \in 1..Len(Tail(q))
    BY <2>1, <2>2
  <2>4. Tail(q)[n - 1] = q[n]
    BY <2>3
  <2>. QED  BY <2>3, <2>4 DEF Elems
<1>3. {Head(q)} \cup Elems(Tail(q)) \subseteq Elems(q)
  BY DEF Elems
<1>. QED  BY <1>1, <1>2, <1>3

\* A queue stays in order when a greater id is put on it.
LEMMA AscendingAppend ==
  ASSUME NEW S \in SUBSET Int, NEW q \in Seq(S), NEW x \in S, Ascending(q),
         \A y \in Elems(q) : y < x
  PROVE  Ascending(Append(q, x))
BY DEF Ascending, Elems

\* The head of a queue in order is its least, and its tail is in order.
LEMMA AscendingTail ==
  ASSUME NEW S \in SUBSET Int, NEW q \in Seq(S), q # <<>>, Ascending(q)
  PROVE  /\ Ascending(Tail(q))
         /\ \A y \in Elems(Tail(q)) : Head(q) < y
<1>1. /\ Len(q) \in Nat \ {0}
      /\ Len(Tail(q)) = Len(q) - 1
      /\ \A n \in 1..Len(Tail(q)) : Tail(q)[n] = q[n + 1]
      /\ Head(q) = q[1]
  OBVIOUS
<1>2. \A n \in 1..Len(Tail(q)) : n + 1 \in 1..Len(q) /\ 1 < n + 1
  BY <1>1
<1>3. Ascending(Tail(q))
  BY <1>1, <1>2 DEF Ascending
<1>4. \A y \in Elems(Tail(q)) : Head(q) < y
  BY <1>1, <1>2 DEF Ascending, Elems
<1>. QED  BY <1>3, <1>4

\* What is in a sequence has the type of its elements.
LEMMA ElementType ==
  ASSUME NEW S, NEW q \in Seq(S), NEW n \in 1..Len(q)
  PROVE  q[n] \in S
OBVIOUS

-----------------------------------------------------------------------------
(* Types.                                                                  *)

\* The initial state is well-typed and nothing is under way.
LEMMA TypeInit == Init => TypeOK /\ PubInv
BY RunEventStreamAssumption
   DEF Init, TypeOK, PubInv, RunStates, NoState, Publications, Idle, Connections, Fresh,
       Modes, Ids, InFlight

\* What apply_run_event_to_state returns is a run state.
LEMMA AppliedType ==
  ASSUME NEW previous \in RunStates, NEW kind \in Kinds, NEW id \in 0..MaxEvents
  PROVE  Applied(previous, kind, id) \in RunStates
BY DEF Applied, RunStates, Kinds, Steps

\* Putting an id on the queues of a run leaves every stream well-formed.
LEMMA NotifiedType ==
  ASSUME stream \in [Streams -> Connections], NEW r \in Runs, NEW id \in Ids
  PROVE  Notified(r, id) \in [Streams -> Connections]
<1>1. ASSUME NEW s \in Streams
      PROVE  [stream[s] EXCEPT !.queue[r] = Append(@, id)] \in Connections
  <2>1. stream[s] \in Connections
    OBVIOUS
  <2>2. Append(stream[s].queue[r], id) \in Seq(Ids)
    BY <2>1 DEF Connections
  <2>. QED  BY <2>1, <2>2 DEF Connections
<1>. QED  BY <1>1 DEF Notified

\* Yielding an id of the log leaves a stream well-formed.
LEMMA YieldedType ==
  ASSUME TypeOK, NEW c \in Connections, NEW id \in 1..Len(log)
  PROVE  Yielded(c, id) \in Connections
<1>0. log \in Seq([run : Runs, kind : Kinds]) /\ Len(log) <= MaxEvents
  BY DEF TypeOK
<1>1. log[id].run \in Runs
  <2>1. log[id] \in [run : Runs, kind : Kinds]
    BY <1>0, ElementType
  <2>. QED  BY <2>1
<1>2. id \in Ids
  BY <1>0, RunEventStreamAssumption DEF Ids
<1>3. Append(c.seen, id) \in Seq(Ids)
  BY <1>2 DEF Connections
<1>. QED  BY <1>1, <1>3 DEF Yielded, Connections

\* A stream that is new or gone is a stream.
LEMMA FreshType == Fresh \in Connections /\ Closed \in Connections
<1>1. /\ [r \in Runs |-> 0] \in [Runs -> -1..MaxEvents]
      /\ [r \in Runs |-> 0] \in [Runs -> 0..MaxEvents]
  BY RunEventStreamAssumption
<1>2. [r \in Runs |-> <<>>] \in [Runs -> Seq(Ids)] /\ <<>> \in Seq(Ids)
  OBVIOUS
<1>3. Fresh \in Connections
  BY <1>1, <1>2 DEF Fresh, Connections, Modes
<1>. QED  BY <1>3 DEF Closed, Connections

\* A publisher that publishes nothing has a publication's type.
LEMMA IdleType == Idle \in Publications
BY RunEventStreamAssumption DEF Idle, Publications, RunStates, NoState

\* A step of a publisher leaves the hub's variables well-formed and the
\* publication under way at the end of the log.
LEMMA TypePublish ==
  ASSUME TypeOK, PubInv,
         \/ \E p \in Publishers, r \in Runs, kind \in Kinds : AcquirePublishLock(p, r, kind)
         \/ \E p \in Publishers : Publish(p)
         \/ \E r \in Runs, kind \in Kinds : PublishFromLoop(r, kind)
         \/ Restart
  PROVE  TypeOK' /\ PubInv'
<1>. USE RunEventStreamAssumption
<1>0. /\ Len(log) \in Nat
      /\ \A p, q \in Publishers : pub[p].at # "idle" /\ pub[q].at # "idle" => p = q
      /\ lock = None => \A p \in Publishers : pub[p].at = "idle"
  BY DEF TypeOK
<1>1. ASSUME NEW p \in Publishers, NEW r \in Runs, NEW kind \in Kinds,
             AcquirePublishLock(p, r, kind)
      PROVE  TypeOK' /\ PubInv'
  <2>1. /\ pub' = [pub EXCEPT ![p] = [Idle EXCEPT !.at = "emit", !.run = r, !.kind = kind]]
        /\ lock' = p /\ lock = None
        /\ Len(log) < MaxEvents
        /\ UNCHANGED <<log, state, applied, subs, stream>>
    BY <1>1 DEF AcquirePublishLock
  <2>2. [Idle EXCEPT !.at = "emit", !.run = r, !.kind = kind] \in Publications
    BY IdleType DEF Publications
  <2>3. TypeOK'
    BY <1>0, <2>1, <2>2 DEF TypeOK, Idle
  <2>4. PubInv'
    BY <1>0, <2>1 DEF TypeOK, PubInv, InFlight, Idle
  <2>. QED  BY <2>3, <2>4
<1>2. ASSUME NEW p \in Publishers, EmitEvent(p)
      PROVE  TypeOK' /\ PubInv'
  <2>1. /\ pub' = [pub EXCEPT ![p].at = "read", ![p].id = Len(log) + 1]
        /\ log' = Append(log, [run |-> pub[p].run, kind |-> pub[p].kind])
        /\ UNCHANGED <<state, applied, lock, subs, stream>>
        /\ pub[p].at = "emit"
    BY <1>2 DEF EmitEvent
  <2>2. pub[p].run \in Runs /\ pub[p].kind \in Kinds /\ Len(log) < MaxEvents
    BY <2>1 DEF PubInv
  <2>3. /\ log' \in Seq([run : Runs, kind : Kinds])
        /\ Len(log') = Len(log) + 1
        /\ log'[Len(log')].run = pub[p].run
    BY <2>1, <2>2 DEF TypeOK
  <2>4. /\ pub' \in [Publishers -> Publications]
        /\ \A q \in Publishers : pub'[q].at # "idle" <=> lock' = q
    <3>1. pub[p] \in Publications /\ Len(log) + 1 \in 0..MaxEvents
      BY <1>0, <2>2 DEF TypeOK
    <3>2. [pub[p] EXCEPT !.at = "read", !.id = Len(log) + 1] \in Publications
      BY <3>1 DEF Publications
    <3>3. pub' = [pub EXCEPT ![p] = [pub[p] EXCEPT !.at = "read", !.id = Len(log) + 1]]
      BY <2>1
    <3>. QED  BY <2>1, <3>1, <3>2, <3>3 DEF TypeOK, Publications
  <2>5. Len(log') <= MaxEvents /\ applied' \subseteq 1..Len(log')
    BY <1>0, <2>1, <2>2, <2>3 DEF TypeOK
  <2>6. TypeOK'
    BY <2>1, <2>3, <2>4, <2>5 DEF TypeOK
  <2>7. PubInv'
    BY <1>0, <2>1, <2>2, <2>3 DEF TypeOK, PubInv, InFlight, Publications
  <2>. QED  BY <2>6, <2>7
<1>3. ASSUME NEW p \in Publishers, ReadRunState(p)
      PROVE  TypeOK' /\ PubInv'
  <2>1. /\ pub' = [pub EXCEPT ![p].at = "write", ![p].read = state[pub[p].run]]
        /\ UNCHANGED <<log, state, applied, lock, subs, stream>>
        /\ pub[p].at = "read"
    BY <1>3 DEF ReadRunState
  <2>2. pub[p].run \in Runs /\ state[pub[p].run] \in RunStates
    BY <2>1 DEF TypeOK, PubInv
  <2>3. /\ pub' \in [Publishers -> Publications]
        /\ \A q \in Publishers : pub'[q].at # "idle" <=> lock' = q
    <3>1. pub[p] \in Publications
      BY DEF TypeOK
    <3>2. [pub[p] EXCEPT !.at = "write", !.read = state[pub[p].run]] \in Publications
      BY <2>2, <3>1 DEF Publications
    <3>3. pub' = [pub EXCEPT ![p] = [pub[p] EXCEPT !.at = "write",
                                                   !.read = state[pub[p].run]]]
      BY <2>1
    <3>. QED  BY <2>1, <3>1, <3>2, <3>3 DEF TypeOK, Publications
  <2>4. TypeOK'
    BY <2>1, <2>3 DEF TypeOK
  <2>5. PubInv'
    BY <1>0, <2>1, <2>2 DEF TypeOK, PubInv, InFlight, Publications
  <2>. QED  BY <2>4, <2>5
<1>4. ASSUME NEW p \in Publishers, WriteRunState(p)
      PROVE  TypeOK' /\ PubInv'
  <2>1. /\ pub' = [pub EXCEPT ![p].at = "notify"]
        /\ state' = [state EXCEPT ![pub[p].run] =
                       Applied(pub[p].read, pub[p].kind, pub[p].id)]
        /\ applied' = applied \cup {pub[p].id}
        /\ UNCHANGED <<log, lock, subs, stream>>
        /\ pub[p].at = "write"
    BY <1>4 DEF WriteRunState
  <2>2. /\ pub[p].run \in Runs /\ pub[p].kind \in Kinds /\ pub[p].id \in 1..Len(log)
        /\ pub[p].id \in 0..MaxEvents /\ pub[p].read \in RunStates
    BY <1>0, <2>1 DEF TypeOK, PubInv, InFlight, Publications
  <2>3. Applied(pub[p].read, pub[p].kind, pub[p].id) \in RunStates
    BY <2>2, AppliedType
  <2>4. /\ pub' \in [Publishers -> Publications]
        /\ \A q \in Publishers : pub'[q].at # "idle" <=> lock' = q
    <3>1. /\ pub \in [Publishers -> Publications] /\ pub[p] \in Publications
          /\ \A q \in Publishers : pub[q].at # "idle" <=> lock = q
      BY DEF TypeOK
    <3>2. [pub[p] EXCEPT !.at = "notify"] \in Publications
      BY <3>1 DEF Publications
    <3>3. pub' = [pub EXCEPT ![p] = [pub[p] EXCEPT !.at = "notify"]]
      BY <2>1
    <3>. QED  BY <2>1, <3>1, <3>2, <3>3 DEF Publications
  <2>5. state' \in [Runs -> RunStates] /\ applied' \subseteq 1..Len(log')
    BY <2>1, <2>2, <2>3 DEF TypeOK
  <2>6. TypeOK'
    BY <2>1, <2>4, <2>5 DEF TypeOK
  <2>7. PubInv'
    BY <1>0, <2>1, <2>2 DEF TypeOK, PubInv, InFlight, Publications
  <2>. QED  BY <2>6, <2>7
<1>5. ASSUME NEW p \in Publishers, NotifySubscribers(p)
      PROVE  TypeOK' /\ PubInv'
  <2>1. /\ pub' = [pub EXCEPT ![p] = Idle]
        /\ lock' = None
        /\ stream' = Notified(pub[p].run, pub[p].id)
        /\ UNCHANGED <<log, state, applied, subs>>
        /\ pub[p].at = "notify"
    BY <1>5 DEF NotifySubscribers, ReleasePublishLock
  <2>2. pub[p].run \in Runs /\ pub[p].id \in Ids
    BY <1>0, <2>1 DEF TypeOK, PubInv, InFlight, Ids
  <2>3. stream' \in [Streams -> Connections]
    BY <2>1, <2>2, NotifiedType DEF TypeOK
  <2>4. Idle \in Publications
    BY IdleType
  <2>5. TypeOK'
    BY <1>0, <2>1, <2>3, <2>4 DEF TypeOK, Idle
  <2>6. PubInv'
    BY <1>0, <2>1 DEF TypeOK, PubInv, InFlight, Idle
  <2>. QED  BY <2>5, <2>6
<1>6. ASSUME NEW p \in Publishers, PublishFails(p)
      PROVE  TypeOK' /\ PubInv'
  <2>1. /\ pub' = [pub EXCEPT ![p] = Idle]
        /\ lock' = None
        /\ UNCHANGED <<log, state, applied, subs, stream>>
        /\ pub[p].at # "idle"
    BY <1>6 DEF PublishFails, ReleasePublishLock
  <2>2. Idle \in Publications
    BY IdleType
  <2>3. TypeOK'
    BY <1>0, <2>1, <2>2 DEF TypeOK, Idle
  <2>4. PubInv'
    BY <1>0, <2>1 DEF TypeOK, PubInv, InFlight, Idle
  <2>. QED  BY <2>3, <2>4
<1>7. ASSUME NEW r \in Runs, NEW kind \in Kinds, PublishFromLoop(r, kind)
      PROVE  TypeOK' /\ PubInv'
  <2>1. /\ lock = None
        /\ Len(log) < MaxEvents
        /\ log' = Append(log, [run |-> r, kind |-> kind])
        /\ state' = [state EXCEPT ![r] = Applied(state[r], kind, Len(log) + 1)]
        /\ applied' = applied \cup {Len(log) + 1}
        /\ stream' = Notified(r, Len(log) + 1)
        /\ UNCHANGED <<lock, pub, subs>>
    BY <1>7 DEF PublishFromLoop
  <2>2. Len(log) + 1 \in Ids /\ Len(log) + 1 \in 0..MaxEvents
    BY <1>0, <2>1 DEF Ids
  <2>3. stream' \in [Streams -> Connections]
    BY <2>1, <2>2, NotifiedType DEF TypeOK
  <2>4. Applied(state[r], kind, Len(log) + 1) \in RunStates
    BY <2>2, AppliedType DEF TypeOK
  <2>5. /\ log' \in Seq([run : Runs, kind : Kinds])
        /\ Len(log') = Len(log) + 1
    BY <2>1 DEF TypeOK
  <2>6. Len(log') <= MaxEvents /\ applied' \subseteq 1..Len(log')
    <3>1. applied \subseteq 1..Len(log)
      BY DEF TypeOK
    <3>2. /\ Len(log) \in Nat /\ Len(log) < MaxEvents /\ Len(log') = Len(log) + 1
          /\ applied' = applied \cup {Len(log) + 1}
      BY <1>0, <2>1, <2>5
    <3>3. Len(log') <= MaxEvents
      BY <3>2
    <3>4. \A x \in applied' : x \in 1..Len(log')
      BY <3>1, <3>2
    <3>. QED  BY <3>3, <3>4
  <2>7. state' \in [Runs -> RunStates]
    BY <2>1, <2>4 DEF TypeOK
  <2>8. TypeOK'
    BY <2>1, <2>3, <2>5, <2>6, <2>7 DEF TypeOK
  <2>9. PubInv'
    BY <1>0, <2>1 DEF TypeOK, PubInv, InFlight
  <2>. QED  BY <2>8, <2>9
<1>8. ASSUME Restart
      PROVE  TypeOK' /\ PubInv'
  <2>1. /\ lock' = None
        /\ pub' = [p \in Publishers |-> Idle]
        /\ subs' = [r \in Runs |-> {}]
        /\ stream' = [s \in Streams |-> IF stream[s].phase = "new" THEN Fresh ELSE Closed]
        /\ UNCHANGED <<log, state, applied>>
    BY <1>8 DEF Restart
  <2>2. Idle \in Publications
    BY IdleType
  <2>3. TypeOK'
    BY <2>1, <2>2, FreshType DEF TypeOK, Idle
  <2>4. PubInv'
    BY <2>1 DEF PubInv, InFlight, Idle
  <2>. QED  BY <2>3, <2>4
<1>. QED  BY <1>1, <1>2, <1>3, <1>4, <1>5, <1>6, <1>7, <1>8 DEF Publish

\* A step of a stream leaves the stream and its subscriptions well-formed.
LEMMA TypeServe ==
  ASSUME TypeOK, PubInv, NEW s \in Streams, InLog(s),
         OpenStream(s) \/ OpenMultiplexed(s) \/ Serve(s) \/ Disconnect(s)
  PROVE  TypeOK' /\ PubInv'
<1>. USE RunEventStreamAssumption
<1>. DEFINE c == stream[s]
<1>0. /\ Len(log) \in Nat /\ Len(log) <= MaxEvents
      /\ log \in Seq([run : Runs, kind : Kinds])
      /\ c \in Connections
      /\ stream \in [Streams -> Connections]
      /\ subs \in [Runs -> SUBSET Streams]
  BY DEF TypeOK
<1>a. \A i \in 1..Len(log) : log[i].run \in Runs /\ i \in Ids
  <2>1. \A i \in 1..Len(log) : log[i] \in [run : Runs, kind : Kinds]
    BY <1>0, ElementType
  <2>. QED  BY <1>0, <2>1 DEF Ids
<1>b. ASSUME stream' \in [Streams -> Connections], subs' \in [Runs -> SUBSET Streams],
             UNCHANGED hub
      PROVE  TypeOK' /\ PubInv'
  BY <1>b DEF TypeOK, PubInv, InFlight, hub
<1>c. ASSUME NEW d \in Connections, stream' = [stream EXCEPT ![s] = d]
      PROVE  stream' \in [Streams -> Connections]
  BY <1>0, <1>c
<1>1. ASSUME NEW mode \in Modes, NEW watch \in SUBSET Runs,
             NEW after \in [Runs -> -1..MaxEvents], Subscribe(s, mode, watch, after)
      PROVE  TypeOK' /\ PubInv'
  <2>. DEFINE d == [Fresh EXCEPT
                      !.phase = IF \E r \in watch : after[r] < 0 THEN "live" ELSE "reading",
                      !.mode = mode, !.watch = watch, !.after = after]
  <2>1. stream' = [stream EXCEPT ![s] = d] /\ UNCHANGED hub
    BY <1>1 DEF Subscribe
  <2>2. d \in Connections
    BY FreshType DEF Connections
  <2>3. subs' \in [Runs -> SUBSET Streams]
    BY <1>0, <1>1 DEF Subscribe
  <2>. QED  BY <1>b, <1>c, <2>1, <2>2, <2>3
<1>2. ASSUME OpenStream(s)  PROVE TypeOK' /\ PubInv'
  <2>1. PICK r \in Runs, mode \in {"single", "tolerant"} :
          \E id \in {-1} \cup Offsets(r) : Subscribe(s, mode, {r}, Offset(r, id))
    BY <1>2 DEF OpenStream
  <2>2. PICK id \in {-1} \cup Offsets(r) : Subscribe(s, mode, {r}, Offset(r, id))
    BY <2>1
  <2>3. id \in -1..MaxEvents
    BY <1>0, <2>2 DEF Offsets, IdsOf
  <2>4. Offset(r, id) \in [Runs -> -1..MaxEvents]
    BY <2>3 DEF Offset
  <2>. QED  BY <1>1, <2>2, <2>4 DEF Modes
<1>3. ASSUME OpenMultiplexed(s)  PROVE TypeOK' /\ PubInv'
  <2>1. PICK watch \in SUBSET Runs, after \in [Runs -> 0..Len(log)] :
          Subscribe(s, "multiplexed", watch, after)
    BY <1>3 DEF OpenMultiplexed
  <2>2. after \in [Runs -> -1..MaxEvents]
    BY <1>0, <2>1
  <2>. QED  BY <1>1, <2>1, <2>2 DEF Modes
<1>4. ASSUME ReadLog(s)  PROVE TypeOK' /\ PubInv'
  <2>1. PICK mark \in [Runs -> 0..Len(log)] :
          stream' = [stream EXCEPT ![s].phase = "replaying", ![s].backlog = Rows(c),
                                   ![s].mark = mark]
    BY <1>4 DEF ReadLog
  <2>. DEFINE d == [c EXCEPT !.phase = "replaying", !.backlog = Rows(c), !.mark = mark]
  <2>2. mark \in [Runs -> 0..MaxEvents]
    BY <1>0, <2>1
  <2>3. Rows(c) \in SUBSET Ids
    BY <1>a DEF Rows
  <2>4. d \in Connections
    BY <1>0, <2>2, <2>3 DEF Connections
  <2>5. stream' = [stream EXCEPT ![s] = d]
    BY <2>1
  <2>. QED  BY <1>0, <1>4, <1>b, <1>c, <2>4, <2>5 DEF ReadLog
<1>5. ASSUME NEW id \in Ids, ReplayEvent(s, id)  PROVE TypeOK' /\ PubInv'
  <2>1. id \in 1..Len(log)
    BY <1>5 DEF ReplayEvent, IsLeast, InLog
  <2>2. Yielded(c, id) \in Connections
    BY <1>0, <2>1, YieldedType
  <2>. DEFINE y == Yielded(c, id)
              d == [y EXCEPT !.backlog = @ \ {id}, !.mark[log[id].run] = id]
  <2>3. id \in 0..MaxEvents
    BY <1>0, <2>1
  <2>4. d \in Connections
    BY <2>2, <2>3 DEF Connections
  <2>5. stream' = [stream EXCEPT ![s] = d]
    BY <1>5 DEF ReplayEvent
  <2>. QED  BY <1>0, <1>5, <1>b, <1>c, <2>4, <2>5 DEF ReplayEvent
<1>6. ASSUME NEW id \in Ids, ReplayMultiplexed(s, id)  PROVE TypeOK' /\ PubInv'
  <2>1. id \in 1..Len(log)
    BY <1>6 DEF ReplayMultiplexed, IsLeast, InLog
  <2>. DEFINE rest == [c EXCEPT !.backlog = @ \ {id}]
              d == IF log[id].run \in c.done THEN rest ELSE Yielded(rest, id)
  <2>2. rest \in Connections
    BY <1>0 DEF Connections
  <2>3. d \in Connections
    BY <2>1, <2>2, YieldedType
  <2>4. stream' = [stream EXCEPT ![s] = d]
    BY <1>6 DEF ReplayMultiplexed
  <2>. QED  BY <1>0, <1>6, <1>b, <1>c, <2>3, <2>4 DEF ReplayMultiplexed
<1>7. ASSUME GoLive(s)  PROVE TypeOK' /\ PubInv'
  <2>. DEFINE d == [c EXCEPT !.phase = "live"]
  <2>1. d \in Connections /\ stream' = [stream EXCEPT ![s] = d]
    BY <1>0, <1>7 DEF GoLive, Connections
  <2>. QED  BY <1>0, <1>7, <1>b, <1>c, <2>1 DEF GoLive
<1>8. ASSUME NEW r \in Runs, LiveEvent(s, r)  PROVE TypeOK' /\ PubInv'
  <2>. DEFINE id == Head(c.queue[r])
              rest == [c EXCEPT !.queue[r] = Tail(@)]
              d == IF id <= c.mark[r] THEN rest ELSE Yielded(rest, id)
  <2>1. c.queue[r] \in Seq(Ids) /\ c.queue[r] # <<>>
    BY <1>0, <1>8 DEF LiveEvent, Connections
  <2>2. id \in Queued(s, r) /\ Tail(c.queue[r]) \in Seq(Ids)
    BY <2>1, ElemsTail DEF Queued
  <2>3. id \in 1..Len(log)
    BY <2>2 DEF InLog
  <2>4. rest \in Connections
    BY <1>0, <2>2 DEF Connections
  <2>5. d \in Connections
    BY <2>3, <2>4, YieldedType
  <2>6. stream' = [stream EXCEPT ![s] = d]
    BY <1>8 DEF LiveEvent
  <2>. QED  BY <1>0, <1>8, <1>b, <1>c, <2>5, <2>6 DEF LiveEvent
<1>9. ASSUME EndSingle(s)  PROVE TypeOK' /\ PubInv'
  <2>1. stream' = [stream EXCEPT ![s] = Closed] /\ UNCHANGED hub
    BY <1>9 DEF EndSingle
  <2>2. subs' \in [Runs -> SUBSET Streams]
    BY <1>0, <1>9 DEF EndSingle
  <2>. QED  BY <1>b, <1>c, <2>1, <2>2, FreshType
<1>10. ASSUME LeaveRuns(s)  PROVE TypeOK' /\ PubInv'
  <2>. DEFINE rest == [c EXCEPT !.phase = "live", !.watch = @ \ c.done, !.done = {},
                         !.queue = [r \in Runs |-> IF r \in c.done THEN <<>> ELSE @[r]]]
              d == IF c.watch = c.done THEN Closed ELSE rest
  <2>1. c.queue \in [Runs -> Seq(Ids)] /\ <<>> \in Seq(Ids)
    BY <1>0 DEF Connections
  <2>2. [r \in Runs |-> IF r \in c.done THEN <<>> ELSE c.queue[r]] \in [Runs -> Seq(Ids)]
    BY <2>1
  <2>3. rest \in Connections
    BY <1>0, <2>2 DEF Connections
  <2>4. stream' = [stream EXCEPT ![s] = d]
    BY <1>10 DEF LeaveRuns
  <2>5. subs' \in [Runs -> SUBSET Streams]
    BY <1>0, <1>10 DEF LeaveRuns
  <2>. QED  BY <1>10, <1>b, <1>c, <2>3, <2>4, <2>5, FreshType DEF LeaveRuns
<1>11. ASSUME Disconnect(s)  PROVE TypeOK' /\ PubInv'
  <2>1. stream' = [stream EXCEPT ![s] = Closed] /\ UNCHANGED hub
    BY <1>11 DEF Disconnect
  <2>2. subs' \in [Runs -> SUBSET Streams]
    BY <1>0, <1>11 DEF Disconnect
  <2>. QED  BY <1>b, <1>c, <2>1, <2>2, FreshType
<1>. QED  BY <1>2, <1>3, <1>4, <1>5, <1>6, <1>7, <1>8, <1>9, <1>10, <1>11 DEF Serve

-----------------------------------------------------------------------------
(* Streams.                                                                *)

\* A stream that is gone, or not there yet, has nothing.
LEMMA ClosedInv ==
  ASSUME TypeOK', NEW s \in Streams, stream'[s] \in {Closed, Fresh},
         \A r \in Runs : s \notin subs'[r]
  PROVE  StreamInv(s)'
<1>1. /\ stream'[s].seen = <<>>
      /\ stream'[s].backlog = {}
      /\ stream'[s].watch = {}
      /\ stream'[s].done = {}
      /\ stream'[s].phase \in {"new", "ended"}
      /\ \A r \in Runs : stream'[s].queue[r] = <<>> /\ stream'[s].mark[r] = 0
  BY DEF Closed, Fresh
<1>2. Seen(s)' = {} /\ \A r \in Runs : Queued(s, r)' = {}
  BY <1>1 DEF Seen, Queued, Elems
<1>3. Len(log') \in Nat
  BY DEF TypeOK
<1>4. InLog(s)' /\ Phases(s)' /\ Watched(s)'
  BY <1>1, <1>2, <1>3 DEF InLog, Phases, Watched
<1>5. SeenOrdered(s)'
  BY <1>1, <1>2 DEF SeenOrdered
<1>6. QueueOrdered(s)'
  BY <1>1, <1>2 DEF QueueOrdered, Ascending, OfRun
<1>7. Replayed(s)' /\ HeldClosed(s)' /\ HeldComplete(s)'
  BY <1>1 DEF Replayed, HeldClosed, HeldComplete, Active
<1>8. SeenClosed(s)'
  BY <1>2 DEF SeenClosed, OfRun
<1>. QED  BY <1>4, <1>5, <1>6, <1>7, <1>8 DEF StreamInv

\* The rows of the log stay what they are.
LogGrows == Len(log) <= Len(log') /\ \A i \in 1..Len(log) : log'[i] = log[i]

\* A step that leaves the stream alone: what is written to the run states is at
\* the end of the log, and about to be notified if it is of a run of the stream.
LEMMA Undisturbed ==
  ASSUME TypeOK, TypeOK', LogGrows, NEW s \in Streams, StreamInv(s),
         stream'[s] = stream[s],
         \A r \in Runs : s \in subs'[r] => s \in subs[r],
         \A p \in Publishers : InFlight(p)' =>
           (InFlight(p) /\ pub'[p].id = pub[p].id) \/ pub'[p].id > Len(log),
         \A p \in Publishers : pub[p].at = "notify" =>
           \/ pub'[p].at = "notify" /\ pub'[p].id = pub[p].id
           \/ s \notin subs'[log'[pub[p].id].run],
         \A j \in applied' :
           \/ j \in applied
           \/ /\ j >= Len(log)
              /\ \/ \E p \in Publishers : pub'[p].at = "notify" /\ pub'[p].id = j
                 \/ s \notin subs'[log'[j].run]
  PROVE  StreamInv(s)'
<1>1. /\ Len(log) \in Nat /\ Len(log') \in Nat
      /\ applied \subseteq 1..Len(log) /\ applied' \subseteq 1..Len(log')
  BY DEF TypeOK
<1>2. /\ Seen(s)' = Seen(s)
      /\ \A r \in Runs : Queued(s, r)' = Queued(s, r)
  BY DEF Seen, Queued
<1>3. /\ Seen(s) \subseteq 1..Len(log)
      /\ stream[s].backlog \subseteq 1..Len(log)
      /\ \A r \in Runs : Queued(s, r) \subseteq 1..Len(log) /\ stream[s].mark[r] <= Len(log)
  BY DEF StreamInv, InLog
<1>4. \A r \in Runs : stream[s].mark[r] \in Nat
  BY DEF TypeOK, Connections
<1>5. \A r \in Runs : /\ (OfRun(Seen(s), r))' = OfRun(Seen(s), r)
                      /\ Held(s, r)' = Held(s, r)
  BY <1>2, <1>3 DEF OfRun, Held, LogGrows
<1>6. \A r \in Runs : Held(s, r) \subseteq 1..Len(log) /\ OfRun(Seen(s), r) \subseteq 1..Len(log)
  BY <1>3 DEF OfRun, Held
<1>7. InLog(s)'
  BY <1>1, <1>2, <1>3, <1>4 DEF StreamInv, InLog, LogGrows
<1>8. Phases(s)' /\ Watched(s)'
  BY <1>2, <1>3 DEF StreamInv, Phases, Watched, LogGrows
<1>9. SeenOrdered(s)'
  <2>1. \A n \in 1..Len(stream[s].seen) : stream[s].seen[n] \in 1..Len(log)
    BY <1>3 DEF Seen, Elems
  <2>. QED  BY <1>2, <1>3, <2>1 DEF StreamInv, SeenOrdered, LogGrows
<1>10. QueueOrdered(s)'
  <2>1. SUFFICES ASSUME NEW r \in Runs
                 PROVE  /\ Ascending(stream[s].queue[r])
                        /\ \A i \in OfRun(Seen(s), r) : i > stream[s].mark[r] =>
                             /\ \A q \in Queued(s, r) : i < q
                             /\ \A p \in Publishers : InFlight(p)' => i < pub'[p].id
                        /\ \A q \in Queued(s, r), p \in Publishers :
                             InFlight(p)' => q < pub'[p].id
    BY <1>2, <1>5 DEF QueueOrdered, Ascending
  <2>2. /\ Ascending(stream[s].queue[r])
        /\ \A i \in OfRun(Seen(s), r) : i > stream[s].mark[r] =>
             /\ \A q \in Queued(s, r) : i < q
             /\ \A p \in Publishers : InFlight(p) => i < pub[p].id
        /\ \A q \in Queued(s, r), p \in Publishers : InFlight(p) => q < pub[p].id
    BY DEF StreamInv, QueueOrdered
  <2>3. \A i \in 1..Len(log), p \in Publishers :
          InFlight(p)' => (InFlight(p) /\ pub'[p].id = pub[p].id) \/ i < pub'[p].id
    BY <1>1 DEF TypeOK, Publications
  <2>4. \A i \in OfRun(Seen(s), r) \cup Queued(s, r) : i \in 1..Len(log)
    BY <1>3, <1>6
  <2>. QED  BY <2>2, <2>3, <2>4
<1>11. Replayed(s)'
  <2>1. SUFFICES ASSUME Active(s), NEW r \in Asked(s), NEW j \in 1..Len(log'),
                        log'[j].run = r, stream[s].after[r] < j,
                        \/ j <= stream[s].mark[r]
                        \/ \E i \in stream[s].backlog : log'[i].run = r /\ j <= i
                 PROVE  j \in Seen(s) \cup stream[s].backlog
    BY <1>2 DEF Replayed, Active, Asked
  <2>2. r \in Runs
    BY DEF TypeOK, Connections, Asked
  <2>3. j \in 1..Len(log)
    BY <1>1, <1>3, <1>4, <2>1, <2>2
  <2>4. \A i \in stream[s].backlog : log'[i] = log[i]
    BY <1>3 DEF LogGrows
  <2>. QED  BY <2>1, <2>3, <2>4 DEF StreamInv, Replayed, LogGrows
<1>a. \A r \in Asked(s) : r \in Runs
  BY DEF TypeOK, Connections, Asked
<1>12. HeldClosed(s)'
  <2>1. SUFFICES ASSUME Active(s), NEW r \in Asked(s), NEW i \in Held(s, r),
                        NEW j \in applied', log'[j].run = r, j < i,
                        Behind(s, r, Held(s, r), j)
                 PROVE  j \in Held(s, r)
    BY <1>5, <1>a DEF HeldClosed, Active, Asked, Behind
  <2>2. i \in 1..Len(log)
    BY <1>6, <1>a
  <2>3. j \in applied /\ j \in 1..Len(log)
    BY <1>1, <2>1, <2>2
  <2>. QED  BY <2>1, <2>3 DEF StreamInv, HeldClosed, LogGrows
<1>13. SeenClosed(s)'
  BY <1>1, <1>2, <1>5, <1>6 DEF StreamInv, SeenClosed, Behind, LogGrows
<1>14. HeldComplete(s)'
  <2>1. SUFFICES ASSUME Active(s), NEW r \in Asked(s), s \in subs'[r],
                        NEW j \in applied', log'[j].run = r, Behind(s, r, Held(s, r), j)
                 PROVE  \/ j \in Held(s, r)
                        \/ \E p \in Publishers : pub'[p].at = "notify" /\ pub'[p].id = j
    BY <1>5, <1>a DEF HeldComplete, Active, Asked, Behind
  <2>2. CASE j \in applied
    <3>1. j \in 1..Len(log) /\ log[j].run = r /\ s \in subs[r]
      BY <1>1, <1>a, <2>1, <2>2 DEF LogGrows
    <3>2. j \in Held(s, r) \/ \E p \in Publishers : pub[p].at = "notify" /\ pub[p].id = j
      BY <2>1, <2>2, <3>1 DEF StreamInv, HeldComplete
    <3>. QED  BY <2>1, <3>2
  <2>. QED  BY <2>1, <2>2
<1>. QED  BY <1>7, <1>8, <1>9, <1>10, <1>11, <1>12, <1>13, <1>14 DEF StreamInv

\* An id of a run that ends the log is put on the queues of its subscribers,
\* and no other publication is under way.
LEMMA Delivered ==
  ASSUME TypeOK, TypeOK', LogGrows, NEW s \in Streams, StreamInv(s),
         NEW r0 \in Runs, NEW id \in 1..Len(log'), Len(log) <= id,
         log'[id].run = r0, applied' \subseteq applied \cup {id},
         stream' = Notified(r0, id), subs' = subs,
         \A p \in Publishers : ~InFlight(p)',
         \A p \in Publishers : pub[p].at = "notify" => pub[p].id = id,
         \A i \in Queued(s, r0) : i < id,
         \A i \in OfRun(Seen(s), r0) : i > stream[s].mark[r0] => i < id
  PROVE  StreamInv(s)'
<1>1. /\ Len(log) \in Nat /\ Len(log') \in Nat
      /\ applied \subseteq 1..Len(log) /\ applied' \subseteq 1..Len(log')
      /\ \A r \in Runs : stream[s].queue[r] \in Seq(Ids) /\ stream[s].mark[r] \in Nat
      /\ stream[s].queue \in [Runs -> Seq(Ids)]
      /\ Asked(s) \subseteq Runs
      /\ id \in Ids
  <2>1. Len(log') <= MaxEvents /\ Len(log') \in Nat /\ stream[s] \in Connections
    BY DEF TypeOK
  <2>2. id \in Ids
    BY <2>1, RunEventStreamAssumption DEF Ids
  <2>3. /\ Len(log) \in Nat /\ Len(log') \in Nat
        /\ applied \subseteq 1..Len(log) /\ applied' \subseteq 1..Len(log')
    BY DEF TypeOK
  <2>. QED  BY <2>1, <2>2, <2>3 DEF Connections, Asked
<1>2. CASE s \notin subs[r0]
  <2>1. stream'[s] = stream[s]
    BY <1>2 DEF Notified
  <2>2. s \notin subs'[log'[id].run]
    BY <1>2
  <2>. QED  BY <1>1, <2>1, <2>2, Undisturbed
<1>3. CASE s \in subs[r0]
  <2>1. /\ stream'[s].queue = [stream[s].queue EXCEPT ![r0] = Append(@, id)]
        /\ stream'[s].seen = stream[s].seen
        /\ stream'[s].backlog = stream[s].backlog
        /\ stream'[s].mark = stream[s].mark
        /\ stream'[s].watch = stream[s].watch
        /\ stream'[s].done = stream[s].done
        /\ stream'[s].phase = stream[s].phase
        /\ stream'[s].mode = stream[s].mode
        /\ stream'[s].after = stream[s].after
    <3>1. stream[s] \in Connections
      BY DEF TypeOK
    <3>2. stream'[s] = [stream[s] EXCEPT !.queue[r0] = Append(@, id)]
      BY <1>3 DEF Notified
    <3>. QED  BY <3>1, <3>2 DEF Connections
  <2>2. /\ Seen(s)' = Seen(s)
        /\ Active(s)' <=> Active(s)
        /\ Asked(s)' = Asked(s)
        /\ \A r \in Runs : Queued(s, r)' = Queued(s, r) \cup (IF r = r0 THEN {id} ELSE {})
    BY <1>1, <2>1, ElemsAppend DEF Seen, Queued, Active, Asked
  <2>3. /\ Seen(s) \subseteq 1..Len(log)
        /\ stream[s].backlog \subseteq 1..Len(log)
        /\ \A r \in Runs : Queued(s, r) \subseteq 1..Len(log) /\ stream[s].mark[r] <= Len(log)
    BY DEF StreamInv, InLog
  <2>4. \A r \in Runs :
          /\ (OfRun(Seen(s), r))' = OfRun(Seen(s), r)
          /\ Held(s, r)' = Held(s, r) \cup (IF r = r0 THEN {id} ELSE {})
          /\ Held(s, r) \subseteq 1..Len(log)
          /\ OfRun(Seen(s), r) \subseteq 1..Len(log)
    BY <2>1, <2>2, <2>3 DEF OfRun, Held, LogGrows
  <2>5. InLog(s)'
    <3>1. r0 \in stream[s].watch
      BY <1>3 DEF StreamInv, Watched
    <3>2. /\ \A i \in 1..Len(log) : i \in 1..Len(log') /\ log'[i] = log[i]
          /\ Len(log) <= Len(log')
      BY <1>1 DEF LogGrows
    <3>3. /\ \A i \in stream[s].backlog : log[i].run \in stream[s].watch
          /\ \A r \in Runs : \A i \in Queued(s, r) : log[i].run = r /\ r \in stream[s].watch
      BY DEF StreamInv, InLog
    <3>4. /\ (Seen(s) \subseteq 1..Len(log))'
          /\ (stream[s].backlog \subseteq 1..Len(log))'
          /\ \A i \in stream'[s].backlog : log'[i].run \in stream'[s].watch
      BY <2>1, <2>2, <2>3, <3>2, <3>3
    <3>5. ASSUME NEW r \in Runs  PROVE stream'[s].mark[r] <= Len(log')
      BY <1>1, <2>1, <2>3, <3>2
    <3>6. ASSUME NEW r \in Runs, NEW i \in Queued(s, r)'
          PROVE  i \in 1..Len(log') /\ log'[i].run = r /\ r \in stream'[s].watch
      BY <2>1, <2>2, <2>3, <3>1, <3>2, <3>3
    <3>. QED  BY <3>4, <3>5, <3>6 DEF InLog
  <2>6. Phases(s)' /\ Watched(s)'
    BY <2>1, <2>2, <2>3 DEF StreamInv, Phases, Watched, LogGrows
  <2>7. SeenOrdered(s)'
    <3>1. \A n \in 1..Len(stream[s].seen) : stream[s].seen[n] \in 1..Len(log)
      BY <2>3 DEF Seen, Elems
    <3>2. \A i \in 1..Len(log) : log'[i].run = log[i].run
      BY DEF LogGrows
    <3>3. SeenOrdered(s)
      BY DEF StreamInv
    <3>4. \A m, n \in 1..Len(stream[s].seen) :
            /\ m < n
            /\ log'[stream[s].seen[m]].run = log'[stream[s].seen[n]].run
            => stream[s].seen[m] < stream[s].seen[n]
      BY <3>1, <3>2, <3>3 DEF SeenOrdered
    <3>5. \A i \in Seen(s), j \in stream[s].backlog : log'[i].run = log'[j].run => i < j
      BY <2>3, <3>2, <3>3 DEF SeenOrdered
    <3>6. stream[s].mode = "multiplexed" =>
            \A i \in stream[s].backlog : i <= stream[s].mark[log'[i].run]
      BY <2>3, <3>2, <3>3 DEF SeenOrdered
    <3>. QED  BY <2>1, <2>2, <3>4, <3>5, <3>6 DEF SeenOrdered
  <2>8. QueueOrdered(s)'
    <3>1. SUFFICES ASSUME NEW r \in Runs
                   PROVE  /\ Ascending(stream'[s].queue[r])
                          /\ \A i \in OfRun(Seen(s), r) : i > stream[s].mark[r] =>
                               \A q \in Queued(s, r)' : i < q
      BY <2>1, <2>2, <2>4 DEF QueueOrdered, Ascending
    <3>2. /\ Ascending(stream[s].queue[r])
          /\ \A i \in OfRun(Seen(s), r) : i > stream[s].mark[r] =>
               \A q \in Queued(s, r) : i < q
      BY DEF StreamInv, QueueOrdered
    <3>3. CASE r = r0
      <4>1. stream[s].queue[r] \in Seq(Ids) /\ Ids \in SUBSET Int
        BY <1>1 DEF Ids
      <4>2. Ascending(Append(stream[s].queue[r], id))
        BY <1>1, <3>2, <3>3, <4>1, AscendingAppend DEF Queued
      <4>. QED  BY <1>1, <2>1, <2>2, <3>2, <3>3, <4>2
    <3>4. CASE r # r0
      BY <1>1, <2>1, <2>2, <3>2, <3>4
    <3>. QED  BY <3>3, <3>4
  <2>9. Replayed(s)'
    <3>1. SUFFICES ASSUME Active(s), NEW r \in Asked(s), NEW j \in 1..Len(log'),
                          log'[j].run = r, stream[s].after[r] < j,
                          \/ j <= stream[s].mark[r]
                          \/ \E i \in stream[s].backlog : log'[i].run = r /\ j <= i
                   PROVE  j \in Seen(s) \cup stream[s].backlog
      BY <2>1, <2>2 DEF Replayed
    <3>2. j \in 1..Len(log)
      BY <1>1, <2>3, <3>1
    <3>3. \A i \in stream[s].backlog : log'[i] = log[i]
      BY <2>3 DEF LogGrows
    <3>. QED  BY <3>1, <3>2, <3>3 DEF StreamInv, Replayed, LogGrows
  <2>10. ASSUME NEW r \in Runs, NEW j \in Nat, j <= id, Behind(s, r, Held(s, r), j)'
         PROVE  Behind(s, r, Held(s, r), j)
    BY <1>1, <2>1, <2>4, <2>10 DEF Behind
  <2>11. HeldClosed(s)'
    <3>1. SUFFICES ASSUME Active(s), NEW r \in Asked(s), NEW i \in Held(s, r)',
                          NEW j \in applied', log'[j].run = r, j < i,
                          Behind(s, r, Held(s, r), j)'
                   PROVE  j \in Held(s, r)'
      BY <2>2 DEF HeldClosed
    <3>2. r \in Runs /\ i <= id /\ i \in Nat
      <4>1. r \in Runs
        BY <1>1
      <4>2. i \in Held(s, r) \/ i = id
        BY <2>4, <4>1
      <4>. QED  BY <1>1, <2>4, <4>1, <4>2
    <3>3. j \in applied /\ j \in 1..Len(log) /\ j \in Nat /\ j <= id
      BY <1>1, <3>1, <3>2
    <3>4. Behind(s, r, Held(s, r), j) /\ log[j].run = r
      BY <2>10, <3>1, <3>2, <3>3 DEF LogGrows
    <3>5. CASE i \in Held(s, r)
      BY <2>4, <3>1, <3>2, <3>3, <3>4, <3>5 DEF StreamInv, HeldClosed
    <3>6. CASE i = id /\ r = r0
      <4>1. j \in Held(s, r) \/ \E p \in Publishers : pub[p].at = "notify" /\ pub[p].id = j
        BY <1>3, <3>1, <3>3, <3>4, <3>6 DEF StreamInv, HeldComplete
      <4>. QED  BY <1>1, <2>4, <3>1, <3>2, <3>3, <3>6, <4>1
    <3>. QED  BY <2>4, <3>2, <3>5, <3>6
  <2>12. SeenClosed(s)'
    <3>1. SUFFICES ASSUME NEW r \in Runs, NEW i \in OfRun(Seen(s), r),
                          NEW j \in applied', log'[j].run = r, j < i,
                          Behind(s, r, OfRun(Seen(s), r), j)'
                   PROVE  j \in Seen(s)
      BY <2>2, <2>4 DEF SeenClosed, Behind
    <3>2. j \in applied /\ j \in 1..Len(log)
      BY <1>1, <2>4, <3>1
    <3>. QED  BY <2>1, <2>4, <3>1, <3>2 DEF StreamInv, SeenClosed, Behind, LogGrows
  <2>13. HeldComplete(s)'
    <3>1. SUFFICES ASSUME Active(s), NEW r \in Asked(s), s \in subs[r],
                          NEW j \in applied', log'[j].run = r, j # id,
                          Behind(s, r, Held(s, r), j)'
                   PROVE  j \in Held(s, r)'
      BY <1>1, <2>2, <2>4 DEF HeldComplete
    <3>2. j \in applied /\ j \in 1..Len(log) /\ j \in Nat /\ j <= id /\ r \in Runs
      BY <1>1, <3>1
    <3>3. Behind(s, r, Held(s, r), j) /\ log[j].run = r
      BY <2>10, <3>1, <3>2 DEF LogGrows
    <3>4. j \in Held(s, r) \/ \E p \in Publishers : pub[p].at = "notify" /\ pub[p].id = j
      BY <3>1, <3>2, <3>3 DEF StreamInv, HeldComplete
    <3>. QED  BY <2>4, <3>1, <3>2, <3>4
  <2>. QED  BY <2>5, <2>6, <2>7, <2>8, <2>9, <2>11, <2>12, <2>13 DEF StreamInv
<1>. QED  BY <1>2, <1>3

\* The inductive invariant holds when the server starts.
LEMMA InitInv == Init => IInv
<1>. SUFFICES ASSUME Init  PROVE IInv
  OBVIOUS
<1>1. TypeOK /\ PubInv
  BY TypeInit
<1>2. ASSUME NEW s \in Streams  PROVE StreamInv(s)
  <2>1. /\ stream[s] = Fresh /\ Len(log) \in Nat
        /\ \A r \in Runs : s \notin subs[r]
    BY <1>1 DEF Init, TypeOK
  <2>2. /\ stream[s].seen = <<>> /\ stream[s].backlog = {} /\ stream[s].watch = {}
        /\ stream[s].done = {} /\ stream[s].phase = "new"
        /\ \A r \in Runs : stream[s].queue[r] = <<>> /\ stream[s].mark[r] = 0
    BY <2>1 DEF Fresh
  <2>3. Seen(s) = {} /\ \A r \in Runs : Queued(s, r) = {}
    BY <2>2 DEF Seen, Queued, Elems
  <2>4. InLog(s) /\ Phases(s) /\ Watched(s)
    BY <2>1, <2>2, <2>3 DEF InLog, Phases, Watched
  <2>5. SeenOrdered(s) /\ QueueOrdered(s)
    BY <2>2, <2>3 DEF SeenOrdered, QueueOrdered, Ascending, OfRun
  <2>6. Replayed(s) /\ HeldClosed(s) /\ HeldComplete(s) /\ SeenClosed(s)
    BY <2>2, <2>3 DEF Replayed, HeldClosed, HeldComplete, SeenClosed, Active, OfRun
  <2>. QED  BY <2>4, <2>5, <2>6 DEF StreamInv
<1>. QED  BY <1>1, <1>2 DEF IInv

\* A publication, whole or failed, and a restart keep the invariant of a stream.
LEMMA PublishInv ==
  ASSUME IInv,
         \/ \E p \in Publishers, r \in Runs, kind \in Kinds : AcquirePublishLock(p, r, kind)
         \/ \E p \in Publishers : Publish(p)
         \/ \E r \in Runs, kind \in Kinds : PublishFromLoop(r, kind)
         \/ Restart
  PROVE  IInv'
<1>. USE RunEventStreamAssumption
<1>0. /\ TypeOK /\ PubInv /\ TypeOK' /\ PubInv'
      /\ \A t \in Streams : StreamInv(t)
  BY TypePublish DEF IInv
<1>a. /\ Len(log) \in Nat
      /\ applied \subseteq 1..Len(log)
      /\ \A p, q \in Publishers : pub[p].at # "idle" /\ pub[q].at # "idle" => p = q
      /\ lock = None => \A p \in Publishers : pub[p].at = "idle"
      /\ pub \in [Publishers -> Publications]
      /\ stream \in [Streams -> Connections]
  BY <1>0 DEF TypeOK
<1>. SUFFICES ASSUME NEW t \in Streams  PROVE StreamInv(t)'
  BY <1>0 DEF IInv
<1>b. StreamInv(t)
  BY <1>0
<1>1. ASSUME NEW p \in Publishers, NEW r \in Runs, NEW kind \in Kinds,
             AcquirePublishLock(p, r, kind)
      PROVE  StreamInv(t)'
  <2>1. /\ pub' = [pub EXCEPT ![p] = [Idle EXCEPT !.at = "emit", !.run = r, !.kind = kind]]
        /\ lock = None
        /\ UNCHANGED <<log, applied, subs, stream>>
    BY <1>1 DEF AcquirePublishLock
  <2>2. \A q \in Publishers : ~InFlight(q)' /\ pub[q].at # "notify"
    BY <1>a, <2>1 DEF InFlight, Idle
  <2>3. LogGrows
    BY <1>a, <2>1 DEF LogGrows
  <2>. QED  BY <1>0, <1>b, <2>1, <2>2, <2>3, Undisturbed
<1>2. ASSUME NEW p \in Publishers, EmitEvent(p)
      PROVE  StreamInv(t)'
  <2>1. /\ pub' = [pub EXCEPT ![p].at = "read", ![p].id = Len(log) + 1]
        /\ log' = Append(log, [run |-> pub[p].run, kind |-> pub[p].kind])
        /\ UNCHANGED <<applied, subs, stream>>
        /\ pub[p].at = "emit"
    BY <1>2 DEF EmitEvent
  <2>2. \A q \in Publishers : /\ InFlight(q)' => pub'[q].id > Len(log)
                              /\ pub[q].at # "notify"
    BY <1>a, <2>1 DEF InFlight, Publications
  <2>3. LogGrows
    <3>1. log \in Seq([run : Runs, kind : Kinds])
      BY <1>0 DEF TypeOK
    <3>. QED  BY <2>1, <3>1 DEF LogGrows
  <2>. QED  BY <1>0, <1>b, <2>1, <2>2, <2>3, Undisturbed
<1>3. ASSUME NEW p \in Publishers, ReadRunState(p)
      PROVE  StreamInv(t)'
  <2>1. /\ pub' = [pub EXCEPT ![p].at = "write", ![p].read = state[pub[p].run]]
        /\ UNCHANGED <<log, applied, subs, stream>>
        /\ pub[p].at = "read"
    BY <1>3 DEF ReadRunState
  <2>2. \A q \in Publishers : /\ InFlight(q)' => InFlight(q) /\ pub'[q].id = pub[q].id
                              /\ pub[q].at # "notify"
    BY <1>a, <2>1 DEF InFlight, Publications
  <2>3. LogGrows
    BY <1>a, <2>1 DEF LogGrows
  <2>. QED  BY <1>0, <1>b, <2>1, <2>2, <2>3, Undisturbed
<1>4. ASSUME NEW p \in Publishers, WriteRunState(p)
      PROVE  StreamInv(t)'
  <2>1. /\ pub' = [pub EXCEPT ![p].at = "notify"]
        /\ applied' = applied \cup {pub[p].id}
        /\ UNCHANGED <<log, subs, stream>>
        /\ pub[p].at = "write"
        /\ pub[p].id = Len(log)
    BY <1>0, <1>4 DEF WriteRunState, PubInv, InFlight
  <2>2. \A q \in Publishers : /\ InFlight(q)' => InFlight(q) /\ pub'[q].id = pub[q].id
                              /\ pub[q].at # "notify"
    BY <1>a, <2>1 DEF InFlight, Publications
  <2>3. pub'[p].at = "notify" /\ pub'[p].id = Len(log)
    BY <1>a, <2>1 DEF Publications
  <2>4. LogGrows
    BY <1>a, <2>1 DEF LogGrows
  <2>. QED  BY <1>0, <1>a, <1>b, <2>1, <2>2, <2>3, <2>4, Undisturbed
<1>5. ASSUME NEW p \in Publishers, NotifySubscribers(p)
      PROVE  StreamInv(t)'
  <2>1. /\ pub' = [pub EXCEPT ![p] = Idle]
        /\ stream' = Notified(pub[p].run, pub[p].id)
        /\ UNCHANGED <<log, applied, subs>>
        /\ pub[p].at = "notify"
    BY <1>5 DEF NotifySubscribers, ReleasePublishLock
  <2>2. /\ InFlight(p) /\ pub[p].run \in Runs /\ pub[p].id = Len(log) /\ Len(log) > 0
        /\ log[pub[p].id].run = pub[p].run
    BY <1>0, <2>1 DEF PubInv, InFlight
  <2>3. \A q \in Publishers : ~InFlight(q)' /\ (pub[q].at = "notify" => q = p)
    BY <1>a, <2>1 DEF InFlight, Idle
  <2>4. LogGrows
    BY <1>a, <2>1 DEF LogGrows
  <2>5. /\ \A i \in Queued(t, pub[p].run) : i < pub[p].id
        /\ \A i \in OfRun(Seen(t), pub[p].run) :
             i > stream[t].mark[pub[p].run] => i < pub[p].id
    BY <1>b, <2>2 DEF StreamInv, QueueOrdered
  <2>. QED  BY <1>0, <1>a, <1>b, <2>1, <2>2, <2>3, <2>4, <2>5, Delivered
<1>6. ASSUME NEW p \in Publishers, PublishFails(p)
      PROVE  StreamInv(t)'
  <2>1. /\ pub' = [pub EXCEPT ![p] = Idle]
        /\ UNCHANGED <<log, applied, subs, stream>>
        /\ pub[p].at \in {"emit", "read", "write"}
    BY <1>6 DEF PublishFails, ReleasePublishLock
  <2>2. \A q \in Publishers : ~InFlight(q)' /\ pub[q].at # "notify"
    BY <1>a, <2>1 DEF InFlight, Idle
  <2>3. LogGrows
    BY <1>a, <2>1 DEF LogGrows
  <2>. QED  BY <1>0, <1>b, <2>1, <2>2, <2>3, Undisturbed
<1>7. ASSUME NEW r \in Runs, NEW kind \in Kinds, PublishFromLoop(r, kind)
      PROVE  StreamInv(t)'
  <2>. DEFINE id == Len(log) + 1
  <2>1. /\ lock = None
        /\ log' = Append(log, [run |-> r, kind |-> kind])
        /\ applied' = applied \cup {id}
        /\ stream' = Notified(r, id)
        /\ UNCHANGED <<pub, subs>>
    BY <1>7 DEF PublishFromLoop
  <2>2. \A q \in Publishers : ~InFlight(q)' /\ pub[q].at # "notify"
    BY <1>a, <2>1 DEF InFlight
  <2>3. LogGrows /\ id \in 1..Len(log') /\ log'[id].run = r
    <3>1. log \in Seq([run : Runs, kind : Kinds])
      BY <1>0 DEF TypeOK
    <3>. QED  BY <2>1, <3>1 DEF LogGrows
  <2>4. /\ \A i \in Queued(t, r) : i < id
        /\ \A i \in OfRun(Seen(t), r) : i < id
    BY <1>a, <1>b DEF StreamInv, InLog, OfRun
  <2>. QED  BY <1>0, <1>a, <1>b, <2>1, <2>2, <2>3, <2>4, Delivered
<1>8. ASSUME Restart
      PROVE  StreamInv(t)'
  <2>1. stream'[t] \in {Closed, Fresh} /\ \A r \in Runs : t \notin subs'[r]
    BY <1>8 DEF Restart
  <2>. QED  BY <1>0, <2>1, ClosedInv
<1>. QED  BY <1>1, <1>2, <1>3, <1>4, <1>5, <1>6, <1>7, <1>8 DEF Publish

-----------------------------------------------------------------------------
(* A step of a stream: the hub does not change.                            *)

\* A request that asks for a replay reads the log first; one that does not
\* takes what is published from now on.
LEMMA SubscribeInv ==
  ASSUME TypeOK, TypeOK', NEW s \in Streams, StreamInv(s),
         NEW mode \in Modes, NEW watch \in SUBSET Runs, NEW after \in [Runs -> -1..MaxEvents],
         Subscribe(s, mode, watch, after),
         (\A r \in watch : after[r] < 0) \/ (\A r \in watch : after[r] >= 0),
         mode # "multiplexed" => \A q, r \in watch : q = r
  PROVE  StreamInv(s)'
<1>. DEFINE d == stream'[s]
<1>1. /\ d.phase = IF \E r \in watch : after[r] < 0 THEN "live" ELSE "reading"
      /\ d.mode = mode /\ d.watch = watch /\ d.after = after
      /\ d.seen = <<>> /\ d.backlog = {} /\ d.done = {}
      /\ \A r \in Runs : d.queue[r] = <<>> /\ d.mark[r] = 0
  <2>1. stream \in [Streams -> Connections]
    BY DEF TypeOK
  <2>. QED  BY <2>1 DEF Subscribe, Fresh
<1>2. /\ UNCHANGED <<log, applied, pub>> /\ Len(log) \in Nat
      /\ \A r \in Runs : s \in subs'[r] => r \in watch
  <2>1. stream[s].watch = {}
    BY DEF Subscribe, StreamInv, Phases
  <2>. QED  BY <2>1 DEF Subscribe, hub, TypeOK, StreamInv, Watched
<1>3. Seen(s)' = {} /\ \A r \in Runs : Queued(s, r)' = {}
  BY <1>1 DEF Seen, Queued, Elems
<1>4. InLog(s)'
  BY <1>1, <1>2, <1>3 DEF InLog
<1>5. Phases(s)' /\ Watched(s)'
  BY <1>1, <1>2, <1>3 DEF Phases, Watched
<1>6. SeenOrdered(s)' /\ QueueOrdered(s)'
  BY <1>1, <1>3 DEF SeenOrdered, QueueOrdered, Ascending, OfRun
<1>7. Replayed(s)' /\ SeenClosed(s)'
  BY <1>1, <1>2, <1>3 DEF Replayed, SeenClosed, OfRun, Asked
<1>8. HeldClosed(s)' /\ HeldComplete(s)'
  <2>1. SUFFICES ASSUME Active(s)'
                 PROVE  HeldClosed(s)' /\ HeldComplete(s)'
    BY DEF HeldClosed, HeldComplete
  <2>2. \A r \in watch : after[r] < 0
    BY <1>1, <2>1 DEF Active
  <2>3. \A r \in watch : Held(s, r)' = {}
    BY <1>1, <1>3 DEF Held, OfRun
  <2>4. \A r \in watch : \A j : ~Behind(s, r, Held(s, r), j)'
    <3>1. \A r \in watch : after[r] \in Int
      OBVIOUS
    <3>. QED  BY <1>1, <2>2, <2>3, <3>1 DEF Behind
  <2>. QED  BY <1>1, <2>3, <2>4 DEF HeldClosed, HeldComplete, Asked
<1>. QED  BY <1>4, <1>5, <1>6, <1>7, <1>8 DEF StreamInv

\* What the stream reads from the log is all there is behind its offsets.
LEMMA ReadLogInv ==
  ASSUME TypeOK, TypeOK', NEW s \in Streams, StreamInv(s), ReadLog(s)
  PROVE  StreamInv(s)'
<1>. DEFINE c == stream[s]
            d == stream'[s]
<1>1. PICK mark \in [Runs -> 0..Len(log)] :
        /\ IF c.mode = "multiplexed"
           THEN \A r \in Runs : IsHighWatermark(mark[r], r, Rows(c))
           ELSE mark = c.mark
        /\ stream' = [stream EXCEPT ![s].phase = "replaying", ![s].backlog = Rows(c),
                                    ![s].mark = mark]
  BY DEF ReadLog
<1>2. /\ d.phase = "replaying" /\ d.backlog = Rows(c) /\ d.mark = mark
      /\ d.mode = c.mode /\ d.watch = c.watch /\ d.after = c.after /\ d.seen = <<>>
      /\ d.done = {} /\ d.queue = c.queue
  <2>1. c \in Connections /\ stream \in [Streams -> Connections]
    BY DEF TypeOK
  <2>2. c.seen = <<>> /\ c.done = {}
    BY DEF ReadLog, StreamInv, Phases
  <2>. QED  BY <1>1, <2>1, <2>2 DEF Connections
<1>3. /\ UNCHANGED <<log, applied, pub, subs>> /\ Len(log) \in Nat
      /\ applied \subseteq 1..Len(log)
      /\ c.watch \subseteq Runs /\ \A r \in c.watch : c.after[r] >= 0
      /\ \A r \in Runs : c.after[r] \in Int
  <2>1. c \in Connections
    BY DEF TypeOK
  <2>2. \A r \in c.watch : c.after[r] >= 0
    BY DEF ReadLog, StreamInv, Phases
  <2>3. UNCHANGED <<log, applied, pub, subs>>
    BY DEF ReadLog, hub
  <2>4. Len(log) \in Nat /\ applied \subseteq 1..Len(log)
    BY DEF TypeOK
  <2>. QED  BY <2>1, <2>2, <2>3, <2>4 DEF Connections
<1>4. Seen(s)' = {} /\ \A r \in Runs : Queued(s, r)' = Queued(s, r)
  BY <1>2 DEF Seen, Queued, Elems
<1>5. \A j \in 1..Len(log) : /\ j \in Rows(c) => log[j].run \in c.watch
                             /\ log[j].run \in c.watch /\ c.after[log[j].run] < j => j \in Rows(c)
  BY <1>3 DEF Rows
<1>6. Rows(c) \subseteq 1..Len(log)
  BY DEF Rows
<1>7. InLog(s)'
  <2>1. \A r \in Runs : /\ mark[r] <= Len(log)
                        /\ \A i \in Queued(s, r) : /\ i \in 1..Len(log)
                                                   /\ log[i].run = r
                                                   /\ r \in c.watch
    BY <1>1, <1>3 DEF StreamInv, InLog
  <2>. QED  BY <1>2, <1>3, <1>4, <1>5, <1>6, <2>1 DEF InLog
<1>8. Phases(s)' /\ Watched(s)'
  BY <1>2, <1>3, <1>4 DEF StreamInv, Phases, Watched
<1>9. SeenOrdered(s)'
  <2>1. c.mode = "multiplexed" => \A i \in Rows(c) : i <= mark[log[i].run]
    <3>1. \A i \in Rows(c) : log[i].run \in Runs
      BY <1>3, <1>5, <1>6
    <3>. QED  BY <1>1, <1>6, <3>1 DEF IsHighWatermark
  <2>. QED  BY <1>2, <1>3, <1>4, <2>1 DEF SeenOrdered
<1>10. QueueOrdered(s)'
  BY <1>2, <1>3, <1>4 DEF StreamInv, QueueOrdered, OfRun, InFlight
<1>11. Replayed(s)'
  BY <1>2, <1>3, <1>5 DEF Replayed, Asked
<1>12. HeldClosed(s)' /\ HeldComplete(s)'
  <2>1. \A r \in c.watch, j \in applied :
          log[j].run = r /\ Behind(s, r, Held(s, r), j)' => j \in Held(s, r)'
    BY <1>2, <1>3, <1>5 DEF Behind, Held, OfRun
  <2>2. Asked(s)' = c.watch
    BY <1>2 DEF Asked
  <2>. QED  BY <1>3, <2>1, <2>2 DEF HeldClosed, HeldComplete
<1>13. SeenClosed(s)'
  BY <1>4 DEF SeenClosed, OfRun
<1>. QED  BY <1>7, <1>8, <1>9, <1>10, <1>11, <1>12, <1>13 DEF StreamInv

\* A stream that has an id of a run at hand, with no gap below it, yields it.
LEMMA YieldInv ==
  ASSUME TypeOK, TypeOK', NEW s \in Streams, StreamInv(s), Active(s),
         UNCHANGED <<hub, subs>>,
         stream'[s].phase = stream[s].phase, stream'[s].mode = stream[s].mode,
         stream'[s].watch = stream[s].watch, stream'[s].after = stream[s].after,
         stream[s].done \subseteq stream'[s].done,
         NEW id \in 1..Len(log), NEW r0 \in Asked(s), log[id].run = r0, id \in Held(s, r0),
         stream'[s].seen = Append(stream[s].seen, id),
         stream'[s].backlog = stream[s].backlog \ {id},
         \A i \in OfRun(Seen(s), r0) : i < id,
         \A i \in OfRun(stream[s].backlog, r0) : id <= i,
         \A r \in Runs : /\ Ascending(stream'[s].queue[r])
                         /\ Queued(s, r)' \subseteq Queued(s, r)
                         /\ Queued(s, r) \subseteq Queued(s, r)' \cup {id},
         \A r \in Runs : \/ stream'[s].mark[r] = stream[s].mark[r]
                         \/ r = r0 /\ stream'[s].mark[r] = id /\ id \in stream[s].backlog,
         stream[s].mode = "multiplexed" => stream'[s].mark = stream[s].mark,
         id > stream'[s].mark[r0] =>
           /\ \A q \in Queued(s, r0)' : id < q
           /\ \A p \in Publishers : InFlight(p) => id < pub[p].id,
         \A j \in applied :
           log[j].run = r0 /\ j < id /\ Behind(s, r0, Held(s, r0), j) => j \in Seen(s)
  PROVE  StreamInv(s)'
<1>. DEFINE c == stream[s]
            d == stream'[s]
<1>1. /\ log' = log /\ applied' = applied /\ pub' = pub /\ subs' = subs
      /\ \A p \in Publishers : InFlight(p)' <=> InFlight(p)
  BY DEF hub, InFlight
<1>2. /\ Len(log) \in Nat /\ applied \subseteq 1..Len(log)
      /\ c.seen \in Seq(Ids) /\ c.watch \subseteq Runs /\ r0 \in Runs /\ id \in Ids
  <2>1. c \in Connections /\ Len(log) <= MaxEvents /\ Len(log) \in Nat
    BY DEF TypeOK
  <2>2. id \in Ids
    BY <2>1, RunEventStreamAssumption DEF Ids
  <2>3. applied \subseteq 1..Len(log)
    BY DEF TypeOK
  <2>. QED  BY <2>1, <2>2, <2>3 DEF Connections, Asked
<1>3. /\ Seen(s) \subseteq 1..Len(log) /\ c.backlog \subseteq 1..Len(log)
      /\ \A r \in Runs : Queued(s, r) \subseteq 1..Len(log) /\ c.mark[r] <= Len(log)
      /\ \A r \in Runs : \A i \in Queued(s, r) : log[i].run = r
  BY DEF StreamInv, InLog
<1>4. Seen(s)' = Seen(s) \cup {id}
  BY <1>2, ElemsAppend DEF Seen
<1>5. \A r \in Runs : /\ Held(s, r)' = Held(s, r)
                      /\ OfRun(Seen(s), r)' = OfRun(Seen(s) \cup {id}, r)
  <2>1. SUFFICES ASSUME NEW r \in Runs
                 PROVE  Held(s, r)' = Held(s, r)
    BY <1>1, <1>4 DEF OfRun
  <2>2. OfRun(Seen(s) \cup c.backlog, r)' = OfRun(Seen(s) \cup c.backlog \cup {id}, r)
    BY <1>1, <1>4 DEF OfRun
  <2>3. CASE r = r0
    BY <1>3, <2>2, <2>3 DEF Held, OfRun
  <2>4. CASE r # r0
    BY <1>3, <2>2, <2>4 DEF Held, OfRun
  <2>. QED  BY <2>3, <2>4
<1>6. Asked(s)' \subseteq Asked(s) /\ Asked(s) \subseteq Runs /\ Active(s)' /\ r0 \in c.watch
  BY <1>2 DEF Asked, Active
<1>7. InLog(s)'
  <2>1. \A r \in Runs : d.mark[r] <= Len(log)
    BY <1>2, <1>3
  <2>2. \A i \in c.backlog : log[i].run \in c.watch
    BY DEF StreamInv, InLog
  <2>3. \A r \in Runs : \A i \in Queued(s, r) : r \in c.watch
    BY DEF StreamInv, InLog
  <2>. QED  BY <1>1, <1>3, <1>4, <2>1, <2>2, <2>3 DEF InLog
<1>8. Phases(s)'
  BY DEF StreamInv, Phases, Active
<1>9. Watched(s)'
  <2>1. Watched(s) /\ d.seen # <<>>
    BY <1>2 DEF StreamInv
  <2>. QED  BY <1>1, <1>4, <1>6, <2>1 DEF Watched
<1>10. SeenOrdered(s)'
  <2>1. SeenOrdered(s)
    BY DEF StreamInv
  <2>2. \A n \in 1..Len(c.seen) : c.seen[n] \in Seen(s)
    BY DEF Seen, Elems
  <2>3. \A m, n \in 1..Len(d.seen) :
          m < n /\ log[d.seen[m]].run = log[d.seen[n]].run => d.seen[m] < d.seen[n]
    <3>1. SUFFICES ASSUME NEW m \in 1..Len(d.seen), NEW n \in 1..Len(d.seen), m < n,
                          log[d.seen[m]].run = log[d.seen[n]].run
                   PROVE  d.seen[m] < d.seen[n]
      OBVIOUS
    <3>2. /\ Len(c.seen) \in Nat /\ Len(d.seen) = Len(c.seen) + 1
          /\ d.seen[Len(c.seen) + 1] = id
          /\ \A k \in 1..Len(c.seen) : d.seen[k] = c.seen[k]
      BY <1>2
    <3>3. m \in 1..Len(c.seen)
      BY <3>1, <3>2
    <3>4. CASE n = Len(c.seen) + 1
      BY <2>2, <3>1, <3>2, <3>3, <3>4 DEF OfRun
    <3>5. CASE n \in 1..Len(c.seen)
      BY <2>1, <3>1, <3>2, <3>3, <3>5 DEF SeenOrdered
    <3>. QED  BY <3>2, <3>4, <3>5
  <2>4. \A i \in Seen(s) \cup {id}, j \in d.backlog : log[i].run = log[j].run => i < j
    <3>1. \A j \in d.backlog : log[id].run = log[j].run => id < j
      BY <1>3 DEF OfRun
    <3>. QED  BY <2>1, <3>1 DEF SeenOrdered
  <2>5. d.mode = "multiplexed" => \A i \in d.backlog : i <= d.mark[log[i].run]
    BY <2>1 DEF SeenOrdered
  <2>. QED  BY <1>1, <1>4, <2>3, <2>4, <2>5 DEF SeenOrdered
<1>11. QueueOrdered(s)'
  <2>1. QueueOrdered(s)
    BY DEF StreamInv
  <2>2. SUFFICES ASSUME NEW r \in Runs
                 PROVE  /\ \A i \in OfRun(Seen(s), r)' : i > d.mark[r] =>
                             /\ \A q \in Queued(s, r)' : i < q
                             /\ \A p \in Publishers : InFlight(p)' => i < pub'[p].id
                        /\ \A q \in Queued(s, r)', p \in Publishers :
                             InFlight(p)' => q < pub'[p].id
    BY DEF QueueOrdered
  <2>3. \A q \in Queued(s, r)', p \in Publishers : InFlight(p) => q < pub[p].id
    BY <2>1 DEF QueueOrdered
  <2>4. ASSUME NEW i \in OfRun(Seen(s) \cup {id}, r), i > d.mark[r]
        PROVE  /\ \A q \in Queued(s, r)' : i < q
               /\ \A p \in Publishers : InFlight(p) => i < pub[p].id
    <3>1. CASE i = id
      BY <2>4, <3>1 DEF OfRun
    <3>2. CASE i \in OfRun(Seen(s), r)
      <4>1. i > c.mark[r]
        BY <1>3, <2>4, <3>2 DEF OfRun
      <4>. QED  BY <2>1, <3>2, <4>1 DEF QueueOrdered
    <3>. QED  BY <2>4, <3>1, <3>2 DEF OfRun
  <2>. QED  BY <1>1, <1>5, <2>3, <2>4
<1>12. Replayed(s)'
  <2>1. SUFFICES ASSUME NEW r \in Asked(s), NEW j \in 1..Len(log),
                        log[j].run = r, c.after[r] < j,
                        \/ j <= d.mark[r]
                        \/ \E i \in d.backlog : log[i].run = r /\ j <= i
                 PROVE  j \in Seen(s) \cup {id} \cup d.backlog
    BY <1>1, <1>4, <1>6 DEF Replayed
  <2>2. \/ j <= c.mark[r]
        \/ \E i \in c.backlog : log[i].run = r /\ j <= i
    BY <1>6, <2>1
  <2>3. j \in Seen(s) \cup c.backlog
    BY <2>1, <2>2 DEF StreamInv, Replayed
  <2>. QED  BY <2>3
<1>13. HeldClosed(s)' /\ HeldComplete(s)'
  <2>1. HeldClosed(s) /\ HeldComplete(s)
    BY DEF StreamInv
  <2>2. \A r \in Asked(s) : /\ Held(s, r)' = Held(s, r)
                            /\ \A j : Behind(s, r, Held(s, r), j)' <=> Behind(s, r, Held(s, r), j)
    BY <1>5, <1>6 DEF Behind
  <2>3. HeldClosed(s)'
    <3>1. SUFFICES ASSUME NEW r \in Asked(s)', NEW i \in Held(s, r)', NEW j \in applied',
                          log'[j].run = r, j < i, Behind(s, r, Held(s, r), j)'
                   PROVE  j \in Held(s, r)'
      BY DEF HeldClosed
    <3>2. r \in Asked(s)
      BY <1>6
    <3>3. /\ i \in Held(s, r) /\ j \in applied /\ log[j].run = r
          /\ Behind(s, r, Held(s, r), j)
      BY <1>1, <2>2, <3>1, <3>2
    <3>4. j \in Held(s, r)
      BY <2>1, <3>1, <3>2, <3>3 DEF HeldClosed
    <3>. QED  BY <2>2, <3>2, <3>4
  <2>4. HeldComplete(s)'
    <3>1. SUFFICES ASSUME NEW r \in Asked(s), s \in subs[r],
                          NEW j \in applied, log[j].run = r, Behind(s, r, Held(s, r), j)
                   PROVE  \/ j \in Held(s, r)
                          \/ \E p \in Publishers : pub[p].at = "notify" /\ pub[p].id = j
      BY <1>1, <1>6, <2>2 DEF HeldComplete
    <3>. QED  BY <2>1, <3>1 DEF HeldComplete
  <2>. QED  BY <2>3, <2>4
<1>14. SeenClosed(s)'
  <2>0. SUFFICES ASSUME NEW r \in Runs, NEW i \in OfRun(Seen(s), r)', NEW j \in applied',
                        log'[j].run = r, j < i, Behind(s, r, OfRun(Seen(s), r), j)'
                 PROVE  j \in Seen(s)'
    BY DEF SeenClosed
  <2>1. /\ i \in OfRun(Seen(s) \cup {id}, r)
        /\ j \in applied /\ log[j].run = r /\ j < i
        /\ Behind(s, r, OfRun(Seen(s), r), j)'
    BY <1>1, <1>5, <2>0
  <2>2. IF c.after[r] >= 0 THEN c.after[r] < j
        ELSE \E k \in OfRun(Seen(s) \cup {id}, r) : k < j
    <3>1. OfRun(Seen(s), r)' = OfRun(Seen(s) \cup {id}, r)
      BY <1>5
    <3>2. IF d.after[r] >= 0 THEN d.after[r] < j ELSE \E k \in OfRun(Seen(s), r)' : k < j
      BY <2>1 DEF Behind
    <3>. QED  BY <3>1, <3>2
  <2>3. CASE i = id
    <3>1. r = r0
      BY <2>1, <2>3 DEF OfRun
    <3>2. OfRun(Seen(s) \cup {id}, r0) \subseteq Held(s, r0)
      BY DEF OfRun, Held
    <3>3. Behind(s, r0, Held(s, r0), j)
      BY <2>2, <3>1, <3>2 DEF Behind
    <3>. QED  BY <1>4, <2>1, <2>3, <3>1, <3>3
  <2>4. CASE i \in OfRun(Seen(s), r)
    <3>1. \A k \in OfRun(Seen(s) \cup {id}, r) : k < j => k \in OfRun(Seen(s), r)
      BY <1>2, <1>3, <2>1, <2>4 DEF OfRun
    <3>2. Behind(s, r, OfRun(Seen(s), r), j)
      BY <2>2, <3>1 DEF Behind
    <3>. QED  BY <1>4, <2>1, <2>4, <3>2 DEF StreamInv, SeenClosed
  <2>. QED  BY <1>4, <2>1, <2>3, <2>4 DEF OfRun
<1>. QED  BY <1>7, <1>8, <1>9, <1>10, <1>11, <1>12, <1>13, <1>14 DEF StreamInv

\* A stream drops what it has at hand of runs it no longer shows, and ids that
\* it has shown or that are not behind its offset.
LEMMA DropInv ==
  ASSUME TypeOK, TypeOK', NEW s \in Streams, StreamInv(s), Active(s),
         UNCHANGED hub, InLog(s)', Phases(s)', Watched(s)',
         Asked(s)' \subseteq Asked(s),
         \A r \in Asked(s)' : s \in subs'[r] => s \in subs[r],
         stream'[s].after = stream[s].after, stream'[s].seen = stream[s].seen,
         stream'[s].mode = stream[s].mode, stream'[s].mark = stream[s].mark,
         stream'[s].backlog \subseteq stream[s].backlog,
         \A r \in Asked(s)' : OfRun(stream[s].backlog, r) \subseteq stream'[s].backlog,
         \A r \in Runs : /\ Ascending(stream'[s].queue[r])
                         /\ Queued(s, r)' \subseteq Queued(s, r),
         \A r \in Asked(s)' : \A i \in Queued(s, r) :
           \/ i \in Queued(s, r)'
           \/ i \in Seen(s)
           \/ i <= stream[s].after[r]
  PROVE  StreamInv(s)'
<1>. DEFINE c == stream[s]
            d == stream'[s]
<1>1. /\ log' = log /\ applied' = applied /\ pub' = pub
      /\ \A p \in Publishers : InFlight(p)' <=> InFlight(p)
  BY DEF hub, InFlight
<1>2. /\ Len(log) \in Nat /\ applied \subseteq 1..Len(log)
      /\ \A r \in Runs : c.after[r] \in Int
      /\ Asked(s) \subseteq Runs
  <2>1. c \in Connections
    BY DEF TypeOK
  <2>2. Len(log) \in Nat /\ applied \subseteq 1..Len(log)
    BY DEF TypeOK
  <2>. QED  BY <2>1, <2>2 DEF Connections, Asked
<1>3. Seen(s)' = Seen(s)
  BY DEF Seen
<1>5. \A r \in Runs : OfRun(Seen(s), r)' = OfRun(Seen(s), r)
  BY <1>1, <1>3 DEF OfRun
<1>6. \A r \in Asked(s)' :
        /\ OfRun(Seen(s) \cup c.backlog, r)' = OfRun(Seen(s) \cup c.backlog, r)
        /\ Held(s, r)' \subseteq Held(s, r)
        /\ \A j \in Held(s, r) : \/ j \in Held(s, r)'
                                 \/ j <= c.after[r] /\ j \in Queued(s, r)
  <2>1. SUFFICES ASSUME NEW r \in Asked(s)'
                 PROVE  /\ OfRun(Seen(s) \cup c.backlog, r)' = OfRun(Seen(s) \cup c.backlog, r)
                        /\ Held(s, r)' \subseteq Held(s, r)
                        /\ \A j \in Held(s, r) : \/ j \in Held(s, r)'
                                                 \/ j <= c.after[r] /\ j \in Queued(s, r)
    OBVIOUS
  <2>2. OfRun(Seen(s) \cup c.backlog, r)' = OfRun(Seen(s) \cup c.backlog, r)
    BY <1>1, <1>3, <2>1 DEF OfRun
  <2>3. \A i \in Queued(s, r) : log[i].run = r
    BY <1>2 DEF StreamInv, InLog
  <2>4. r \in Runs
    BY <1>2
  <2>5. Held(s, r) = OfRun(Seen(s) \cup c.backlog, r) \cup Queued(s, r)
    BY DEF Held
  <2>6. Held(s, r)' = OfRun(Seen(s) \cup c.backlog, r)' \cup Queued(s, r)'
    BY DEF Held
  <2>7. \A i \in Seen(s) \cap Queued(s, r) : i \in OfRun(Seen(s) \cup c.backlog, r)
    BY <2>3 DEF OfRun
  <2>. QED  BY <2>2, <2>4, <2>5, <2>6, <2>7
<1>7. \A r \in Asked(s)' : \A j \in Held(s, r) :
        Behind(s, r, Held(s, r), j)' => j \in Held(s, r)'
  <2>1. SUFFICES ASSUME NEW r \in Asked(s)', NEW j \in Held(s, r), j <= c.after[r],
                        j \in Queued(s, r), Behind(s, r, Held(s, r), j)'
                 PROVE  FALSE
    BY <1>6
  <2>2. j \in 1..Len(log) /\ r \in Runs
    BY <1>2, <2>1 DEF StreamInv, InLog
  <2>. QED  BY <1>2, <2>1, <2>2 DEF Behind
<1>8. \A r \in Asked(s)' : \A j : Behind(s, r, Held(s, r), j)' => Behind(s, r, Held(s, r), j)
  BY <1>6 DEF Behind
<1>9. SeenOrdered(s)'
  <2>1. SeenOrdered(s)
    BY DEF StreamInv
  <2>. QED  BY <1>1, <1>3, <2>1 DEF SeenOrdered
<1>10. QueueOrdered(s)'
  <2>1. QueueOrdered(s)
    BY DEF StreamInv
  <2>2. SUFFICES ASSUME NEW r \in Runs
                 PROVE  /\ \A i \in OfRun(Seen(s), r)' : i > d.mark[r] =>
                             /\ \A q \in Queued(s, r)' : i < q
                             /\ \A p \in Publishers : InFlight(p)' => i < pub'[p].id
                        /\ \A q \in Queued(s, r)', p \in Publishers :
                             InFlight(p)' => q < pub'[p].id
    BY DEF QueueOrdered
  <2>. QED  BY <1>1, <1>5, <2>1 DEF QueueOrdered
<1>11. Replayed(s)'
  <2>1. SUFFICES ASSUME NEW r \in Asked(s)', NEW j \in 1..Len(log),
                        log[j].run = r, c.after[r] < j,
                        \/ j <= c.mark[r]
                        \/ \E i \in d.backlog : log[i].run = r /\ j <= i
                 PROVE  j \in Seen(s) \cup d.backlog
    BY <1>1, <1>3 DEF Replayed
  <2>2. j \in Seen(s) \cup c.backlog
    BY <2>1 DEF StreamInv, Replayed
  <2>. QED  BY <2>1, <2>2 DEF OfRun
<1>12. HeldClosed(s)'
  <2>1. SUFFICES ASSUME NEW r \in Asked(s)', NEW i \in Held(s, r)', NEW j \in applied',
                        log'[j].run = r, j < i, Behind(s, r, Held(s, r), j)'
                 PROVE  j \in Held(s, r)'
    BY DEF HeldClosed
  <2>2. /\ i \in Held(s, r) /\ r \in Asked(s) /\ j \in applied /\ log[j].run = r
        /\ Behind(s, r, Held(s, r), j)
    BY <1>1, <1>6, <1>8, <2>1
  <2>3. j \in Held(s, r)
    BY <2>1, <2>2 DEF StreamInv, HeldClosed
  <2>. QED  BY <1>7, <2>1, <2>3
<1>13. SeenClosed(s)'
  <2>1. \A r \in Runs : \A j : Behind(s, r, OfRun(Seen(s), r), j)' <=>
                             Behind(s, r, OfRun(Seen(s), r), j)
    BY <1>5 DEF Behind
  <2>2. SUFFICES ASSUME NEW r \in Runs, NEW i \in OfRun(Seen(s), r)', NEW j \in applied',
                        log'[j].run = r, j < i, Behind(s, r, OfRun(Seen(s), r), j)'
                 PROVE  j \in Seen(s)'
    BY DEF SeenClosed
  <2>. QED  BY <1>1, <1>3, <1>5, <2>1, <2>2 DEF StreamInv, SeenClosed
<1>14. HeldComplete(s)'
  <2>1. SUFFICES ASSUME NEW r \in Asked(s)', s \in subs'[r], NEW j \in applied',
                        log'[j].run = r, Behind(s, r, Held(s, r), j)'
                 PROVE  \/ j \in Held(s, r)'
                        \/ \E p \in Publishers : pub'[p].at = "notify" /\ pub'[p].id = j
    BY DEF HeldComplete
  <2>2. /\ r \in Asked(s) /\ s \in subs[r] /\ j \in applied /\ log[j].run = r
        /\ Behind(s, r, Held(s, r), j)
    BY <1>1, <1>8, <2>1
  <2>3. j \in Held(s, r) \/ \E p \in Publishers : pub[p].at = "notify" /\ pub[p].id = j
    BY <2>2 DEF StreamInv, HeldComplete
  <2>. QED  BY <1>1, <1>7, <2>1, <2>3
<1>. QED  BY <1>9, <1>10, <1>11, <1>12, <1>13, <1>14 DEF StreamInv

\* The next row of the replay is the next event of its run: nothing at hand is
\* before it, and the log has no gap up to it.
LEMMA ReplayGap ==
  ASSUME TypeOK, NEW s \in Streams, StreamInv(s), stream[s].phase = "replaying",
         NEW id, IsLeast(id, stream[s].backlog),
         NEW r0, log[id].run = r0, r0 \notin stream[s].done
  PROVE  /\ id \in 1..Len(log) /\ r0 \in Asked(s) /\ id \in Held(s, r0)
         /\ \A i \in OfRun(Seen(s), r0) : i < id
         /\ \A i \in OfRun(stream[s].backlog, r0) : id <= i
         /\ \A j \in applied :
              log[j].run = r0 /\ j < id /\ Behind(s, r0, Held(s, r0), j) => j \in Seen(s)
<1>. DEFINE c == stream[s]
<1>1. id \in c.backlog /\ \A i \in c.backlog : id <= i
  BY DEF IsLeast
<1>2. /\ id \in 1..Len(log) /\ r0 \in Asked(s) /\ r0 \in Runs
      /\ applied \subseteq 1..Len(log) /\ Len(log) \in Nat /\ c.after[r0] \in Int
  <2>1. c \in Connections /\ applied \subseteq 1..Len(log) /\ Len(log) \in Nat
    BY DEF TypeOK
  <2>2. id \in 1..Len(log) /\ r0 \in c.watch
    BY <1>1 DEF StreamInv, InLog
  <2>. QED  BY <2>1, <2>2 DEF Connections, Asked
<1>3. id \in Held(s, r0)
  BY <1>1 DEF Held, OfRun
<1>4. \A i \in OfRun(Seen(s), r0) : i < id
  BY <1>1 DEF StreamInv, SeenOrdered, OfRun
<1>5. ASSUME NEW j \in applied, log[j].run = r0, j < id, Behind(s, r0, Held(s, r0), j)
      PROVE  j \in Seen(s)
  <2>1. c.after[r0] < j /\ j \in 1..Len(log)
    BY <1>2, <1>5 DEF Behind
  <2>2. j \in Seen(s) \cup c.backlog
    BY <1>1, <1>2, <1>5, <2>1 DEF StreamInv, Replayed, Active
  <2>3. ~(id <= j)
    BY <1>2, <1>5, <2>1
  <2>. QED  BY <1>1, <2>2, <2>3
<1>. QED  BY <1>1, <1>2, <1>3, <1>4, <1>5 DEF OfRun

\* The replay keeps the invariant.
LEMMA ReplayInv ==
  ASSUME TypeOK, TypeOK', NEW s \in Streams, StreamInv(s), NEW id \in Ids,
         ReplayEvent(s, id) \/ ReplayMultiplexed(s, id)
  PROVE  StreamInv(s)'
<1>. DEFINE c == stream[s]
            d == stream'[s]
            r0 == log[id].run
<1>1. /\ c \in Connections /\ stream \in [Streams -> Connections] /\ Active(s)
      /\ c.phase = "replaying" /\ IsLeast(id, c.backlog) /\ UNCHANGED <<hub, subs>>
  BY DEF TypeOK, ReplayEvent, ReplayMultiplexed, Active
<1>2. \A r \in Runs : Ascending(c.queue[r])
  BY DEF StreamInv, QueueOrdered
<1>3. CASE ReplayEvent(s, id)
  <2>1. /\ d.phase = c.phase /\ d.mode = c.mode /\ d.watch = c.watch /\ d.after = c.after
        /\ d.seen = Append(c.seen, id) /\ d.backlog = c.backlog \ {id} /\ d.queue = c.queue
        /\ c.done \subseteq d.done /\ d.mark = [c.mark EXCEPT ![r0] = id]
        /\ c.mode # "multiplexed" /\ c.done = {}
    BY <1>1, <1>3 DEF ReplayEvent, Yielded, Connections
  <2>2. /\ id \in 1..Len(log) /\ r0 \in Asked(s) /\ r0 \in Runs /\ id \in Held(s, r0)
        /\ \A i \in OfRun(Seen(s), r0) : i < id
        /\ \A i \in OfRun(c.backlog, r0) : id <= i
        /\ \A j \in applied :
             log[j].run = r0 /\ j < id /\ Behind(s, r0, Held(s, r0), j) => j \in Seen(s)
    <3>1. r0 \notin c.done
      BY <2>1
    <3>. HIDE DEF r0
    <3>2. r0 \in Asked(s) => r0 \in Runs
      BY <1>1 DEF Asked, Connections
    <3>. QED  BY <1>1, <3>1, <3>2, ReplayGap DEF r0
  <2>3. \A r \in Runs : Queued(s, r)' = Queued(s, r)
    BY <2>1 DEF Queued
  <2>4. c.mark \in [Runs -> 0..MaxEvents] /\ id \in c.backlog /\ id \in Int
    BY <1>1 DEF Connections, IsLeast, Ids
  <2>5. \A r \in Runs : \/ d.mark[r] = c.mark[r]
                        \/ r = r0 /\ d.mark[r] = id /\ id \in c.backlog
    BY <2>1, <2>4
  <2>6. d.mark[r0] = id /\ ~(id > d.mark[r0])
    BY <2>1, <2>2, <2>4
  <2>7. \A r \in Runs : /\ Ascending(d.queue[r])
                        /\ Queued(s, r)' \subseteq Queued(s, r)
                        /\ Queued(s, r) \subseteq Queued(s, r)' \cup {id}
    BY <1>2, <2>1, <2>3
  <2>. HIDE DEF r0
  <2>. QED  BY <1>1, <2>1, <2>2, <2>5, <2>6, <2>7, YieldInv DEF r0
<1>4. CASE ReplayMultiplexed(s, id) /\ r0 \notin c.done
  <2>1. /\ d.phase = c.phase /\ d.mode = c.mode /\ d.watch = c.watch /\ d.after = c.after
        /\ d.seen = Append(c.seen, id) /\ d.backlog = c.backlog \ {id} /\ d.queue = c.queue
        /\ c.done \subseteq d.done /\ d.mark = c.mark
        /\ c.mode = "multiplexed"
    BY <1>1, <1>4 DEF ReplayMultiplexed, Yielded, Connections
  <2>2. /\ id \in 1..Len(log) /\ r0 \in Asked(s) /\ r0 \in Runs /\ id \in Held(s, r0)
        /\ \A i \in OfRun(Seen(s), r0) : i < id
        /\ \A i \in OfRun(c.backlog, r0) : id <= i
        /\ \A j \in applied :
             log[j].run = r0 /\ j < id /\ Behind(s, r0, Held(s, r0), j) => j \in Seen(s)
    <3>1. r0 \notin c.done
      BY <1>4
    <3>. HIDE DEF r0
    <3>2. r0 \in Asked(s) => r0 \in Runs
      BY <1>1 DEF Asked, Connections
    <3>. QED  BY <1>1, <3>1, <3>2, ReplayGap DEF r0
  <2>3. \A r \in Runs : Queued(s, r)' = Queued(s, r)
    BY <2>1 DEF Queued
  <2>4. c.mark \in [Runs -> 0..MaxEvents] /\ id \in c.backlog /\ id \in Int
    BY <1>1 DEF Connections, IsLeast, Ids
  <2>5. id <= c.mark[r0]
    BY <2>1, <2>4 DEF StreamInv, SeenOrdered
  <2>6. ~(id > d.mark[r0])
    BY <2>1, <2>2, <2>4, <2>5
  <2>7. \A r \in Runs : /\ Ascending(d.queue[r])
                        /\ Queued(s, r)' \subseteq Queued(s, r)
                        /\ Queued(s, r) \subseteq Queued(s, r)' \cup {id}
    BY <1>2, <2>1, <2>3
  <2>8. \A r \in Runs : d.mark[r] = c.mark[r]
    BY <2>1
  <2>. HIDE DEF r0
  <2>. QED  BY <1>1, <2>1, <2>2, <2>6, <2>7, <2>8, YieldInv DEF r0
<1>5. CASE ReplayMultiplexed(s, id) /\ r0 \in c.done
  <2>1. /\ d.phase = c.phase /\ d.mode = c.mode /\ d.watch = c.watch /\ d.after = c.after
        /\ d.seen = c.seen /\ d.backlog = c.backlog \ {id} /\ d.queue = c.queue
        /\ d.done = c.done /\ d.mark = c.mark
    BY <1>1, <1>5 DEF ReplayMultiplexed, Connections
  <2>2. /\ Seen(s)' = Seen(s) /\ \A r \in Runs : Queued(s, r)' = Queued(s, r)
        /\ Asked(s)' = Asked(s) /\ Asked(s) \subseteq Runs
    BY <1>1, <2>1 DEF Seen, Queued, Asked, Connections
  <2>3. log' = log /\ subs' = subs
    BY <1>1 DEF hub
  <2>4. InLog(s)' /\ Phases(s)' /\ Watched(s)'
    BY <1>1, <2>1, <2>2, <2>3 DEF StreamInv, InLog, Phases, Watched
  <2>5. \A r \in Asked(s)' : OfRun(c.backlog, r) \subseteq d.backlog
    BY <1>5, <2>1 DEF OfRun, Asked
  <2>. QED  BY <1>1, <1>2, <2>1, <2>2, <2>3, <2>4, <2>5, DropInv
<1>. QED  BY <1>3, <1>4, <1>5

\* Waiting at the queues keeps the invariant: the head of a queue is passed over
\* if the replay has shown it, and is the next event of its run if not.
LEMMA LiveInv ==
  ASSUME TypeOK, TypeOK', NEW s \in Streams, StreamInv(s), NEW r0 \in Runs, LiveEvent(s, r0)
  PROVE  StreamInv(s)'
<1>. DEFINE c == stream[s]
            d == stream'[s]
            id == Head(c.queue[r0])
            rest == [c EXCEPT !.queue[r0] = Tail(@)]
<1>1. /\ c \in Connections /\ stream \in [Streams -> Connections] /\ Active(s)
      /\ c.phase = "live" /\ c.done = {} /\ c.backlog = {} /\ UNCHANGED <<hub, subs>>
      /\ c.queue[r0] \in Seq(Ids) /\ c.queue[r0] # <<>> /\ c.queue \in [Runs -> Seq(Ids)]
      /\ c.mark \in [Runs -> 0..MaxEvents] /\ c.after \in [Runs -> -1..MaxEvents]
      /\ applied \subseteq 1..Len(log) /\ Len(log) \in Nat
  <2>1. c.phase = "live" /\ c.backlog = {}
    BY DEF LiveEvent, StreamInv, Phases
  <2>2. /\ c \in Connections /\ stream \in [Streams -> Connections]
        /\ applied \subseteq 1..Len(log) /\ Len(log) \in Nat
    BY DEF TypeOK
  <2>3. c.done = {} /\ c.queue[r0] # <<>> /\ UNCHANGED <<hub, subs>>
    BY DEF LiveEvent
  <2>. QED  BY <2>1, <2>2, <2>3 DEF Active, Connections
<1>2. /\ id \in Ids /\ Tail(c.queue[r0]) \in Seq(Ids)
      /\ Queued(s, r0) = {id} \cup Elems(Tail(c.queue[r0]))
  BY <1>1, ElemsTail DEF Queued
<1>3. \A r \in Runs : Ascending(c.queue[r])
  BY DEF StreamInv, QueueOrdered
<1>4. /\ Ascending(Tail(c.queue[r0]))
      /\ \A y \in Elems(Tail(c.queue[r0])) : id < y
  <2>1. Ids \in SUBSET Int
    BY DEF Ids
  <2>. QED  BY <1>1, <1>3, <2>1, AscendingTail
<1>5. id \in 1..Len(log) /\ log[id].run = r0 /\ r0 \in c.watch /\ r0 \in Asked(s)
  BY <1>1, <1>2 DEF StreamInv, InLog, Asked
<1>6. CASE id <= c.mark[r0]
  <2>1. d = rest
    BY <1>1, <1>6 DEF LiveEvent
  <2>2. /\ d.phase = c.phase /\ d.mode = c.mode /\ d.watch = c.watch /\ d.after = c.after
        /\ d.seen = c.seen /\ d.backlog = c.backlog /\ d.done = c.done /\ d.mark = c.mark
        /\ d.queue = [c.queue EXCEPT ![r0] = Tail(c.queue[r0])]
    BY <1>1, <2>1 DEF Connections
  <2>3. /\ Seen(s)' = Seen(s) /\ Asked(s)' = Asked(s) /\ Asked(s) \subseteq Runs
        /\ \A r \in Runs :
             Queued(s, r)' = IF r = r0 THEN Elems(Tail(c.queue[r0])) ELSE Queued(s, r)
    BY <1>1, <2>2 DEF Seen, Queued, Asked, Connections
  <2>4. \A r \in Runs : /\ Ascending(d.queue[r])
                        /\ Queued(s, r)' \subseteq Queued(s, r)
    BY <1>1, <1>2, <1>3, <1>4, <2>2, <2>3
  <2>5. log' = log /\ subs' = subs
    BY <1>1 DEF hub
  <2>6. InLog(s)' /\ Phases(s)' /\ Watched(s)'
    BY <1>1, <2>2, <2>3, <2>4, <2>5 DEF StreamInv, InLog, Phases, Watched
  <2>7. id \in Seen(s) \/ id <= c.after[r0]
    BY <1>1, <1>5, <1>6 DEF StreamInv, Replayed
  <2>8. \A r \in Asked(s)' : \A i \in Queued(s, r) :
          i \in Queued(s, r)' \/ i \in Seen(s) \/ i <= c.after[r]
    BY <1>2, <2>3, <2>7
  <2>. QED  BY <1>1, <2>2, <2>3, <2>4, <2>5, <2>6, <2>8, DropInv DEF OfRun
<1>7. CASE ~(id <= c.mark[r0])
  <2>1. d = Yielded(rest, id)
    BY <1>1, <1>7 DEF LiveEvent
  <2>2. /\ d.phase = c.phase /\ d.mode = c.mode /\ d.watch = c.watch /\ d.after = c.after
        /\ d.seen = Append(c.seen, id) /\ d.backlog = {} /\ c.done \subseteq d.done
        /\ d.mark = c.mark /\ d.queue = [c.queue EXCEPT ![r0] = Tail(c.queue[r0])]
    BY <1>1, <2>1 DEF Connections, Yielded
  <2>3. \A r \in Runs :
          Queued(s, r)' = IF r = r0 THEN Elems(Tail(c.queue[r0])) ELSE Queued(s, r)
    BY <1>1, <2>2 DEF Queued
  <2>4. \A r \in Runs : /\ Ascending(d.queue[r])
                        /\ Queued(s, r)' \subseteq Queued(s, r)
                        /\ Queued(s, r) \subseteq Queued(s, r)' \cup {id}
    BY <1>1, <1>2, <1>3, <1>4, <2>2, <2>3
  <2>5. id \in Held(s, r0)
    BY <1>2 DEF Held
  <2>6. \A i \in OfRun(Seen(s), r0) : i < id
    <3>1. ASSUME NEW i \in OfRun(Seen(s), r0)
          PROVE  i < id
      <4>1. i \in Int /\ c.mark[r0] \in Int /\ id \in Int
        BY <1>1, <1>2 DEF StreamInv, InLog, OfRun, Ids
      <4>2. CASE i > c.mark[r0]
        BY <1>2, <4>2 DEF StreamInv, QueueOrdered
      <4>3. CASE ~(i > c.mark[r0])
        BY <1>7, <4>1, <4>3
      <4>. QED  BY <4>2, <4>3
    <3>. QED  BY <3>1
  <2>7. /\ \A q \in Queued(s, r0)' : id < q
        /\ \A p \in Publishers : InFlight(p) => id < pub[p].id
    BY <1>2, <1>4, <2>3 DEF StreamInv, QueueOrdered
  <2>8. ASSUME NEW j \in applied, log[j].run = r0, j < id, Behind(s, r0, Held(s, r0), j)
        PROVE  j \in Seen(s)
    <3>1. j \in Held(s, r0)
      BY <1>1, <1>5, <2>5, <2>8 DEF StreamInv, HeldClosed
    <3>2. j \notin Queued(s, r0)
      BY <1>1, <1>2, <1>4, <2>8 DEF Ids
    <3>. QED  BY <1>1, <3>1, <3>2 DEF Held, OfRun
  <2>9. \A r \in Runs : d.mark[r] = c.mark[r]
    BY <2>2
  <2>. HIDE DEF id
  <2>. QED  BY <1>1, <1>5, <2>2, <2>4, <2>5, <2>6, <2>7, <2>8, <2>9, YieldInv DEF OfRun
<1>. QED  BY <1>6, <1>7

\* So does going live after the replay.
LEMMA GoLiveInv ==
  ASSUME TypeOK, TypeOK', NEW s \in Streams, StreamInv(s), GoLive(s)
  PROVE  StreamInv(s)'
<1>. DEFINE c == stream[s]
            d == stream'[s]
<1>1. /\ c \in Connections /\ stream \in [Streams -> Connections] /\ Active(s)
      /\ UNCHANGED <<hub, subs>> /\ c.backlog = {}
  BY DEF TypeOK, GoLive, Active
<1>2. /\ d.phase = "live" /\ d.mode = c.mode /\ d.watch = c.watch /\ d.after = c.after
      /\ d.seen = c.seen /\ d.backlog = c.backlog /\ d.done = c.done /\ d.mark = c.mark
      /\ d.queue = c.queue
  BY <1>1 DEF GoLive, Connections
<1>3. /\ Seen(s)' = Seen(s) /\ Asked(s)' = Asked(s)
      /\ \A r \in Runs : Queued(s, r)' = Queued(s, r)
  BY <1>2 DEF Seen, Queued, Asked
<1>4. log' = log /\ subs' = subs
  BY <1>1 DEF hub
<1>5. InLog(s)' /\ Phases(s)' /\ Watched(s)'
  BY <1>1, <1>2, <1>3, <1>4 DEF StreamInv, InLog, Phases, Watched
<1>6. \A r \in Runs : Ascending(d.queue[r])
  BY <1>2 DEF StreamInv, QueueOrdered
<1>7. Asked(s) \subseteq Runs
  BY <1>1 DEF Asked, Connections
<1>. QED  BY <1>1, <1>2, <1>3, <1>4, <1>5, <1>6, <1>7, DropInv DEF OfRun

\* And so does giving up the runs that ended.
LEMMA LeaveRunsInv ==
  ASSUME TypeOK, TypeOK', NEW s \in Streams, StreamInv(s), LeaveRuns(s)
  PROVE  StreamInv(s)'
<1>. DEFINE c == stream[s]
            d == stream'[s]
<1>1. /\ c \in Connections /\ stream \in [Streams -> Connections] /\ Active(s)
      /\ UNCHANGED hub /\ log' = log /\ c.backlog = {} /\ c.mode = "multiplexed"
      /\ subs' = [r \in Runs |-> IF r \in c.done THEN {} ELSE subs[r]]
  BY DEF TypeOK, LeaveRuns, Active, hub
<1>2. CASE c.watch = c.done
  <2>1. stream'[s] = Closed
    BY <1>1, <1>2 DEF LeaveRuns
  <2>2. \A r \in Runs : s \notin subs'[r]
    BY <1>1, <1>2 DEF StreamInv, Watched
  <2>. QED  BY <2>1, <2>2, ClosedInv
<1>3. CASE c.watch # c.done
  <2>1. d = [c EXCEPT !.phase = "live", !.watch = @ \ c.done, !.done = {},
                      !.queue = [r \in Runs |-> IF r \in c.done THEN <<>> ELSE @[r]]]
    BY <1>1, <1>3 DEF LeaveRuns
  <2>2. /\ d.phase = "live" /\ d.mode = c.mode /\ d.watch = c.watch \ c.done
        /\ d.after = c.after /\ d.seen = c.seen /\ d.backlog = {} /\ d.done = {}
        /\ d.mark = c.mark
        /\ \A r \in Runs : d.queue[r] = IF r \in c.done THEN <<>> ELSE c.queue[r]
    BY <1>1, <2>1 DEF Connections
  <2>3. /\ Seen(s)' = Seen(s) /\ Asked(s)' = Asked(s) /\ Asked(s) \subseteq Runs
        /\ \A r \in Runs : Queued(s, r)' = IF r \in c.done THEN {} ELSE Queued(s, r)
    BY <1>1, <2>2 DEF Seen, Queued, Asked, Elems, Connections
  <2>4. \A r \in Runs : Ascending(d.queue[r])
    BY <2>2 DEF StreamInv, QueueOrdered, Ascending
  <2>5. InLog(s)' /\ Phases(s)'
    BY <1>1, <2>2, <2>3 DEF StreamInv, InLog, Phases
  <2>6. Watched(s)'
    BY <1>1, <2>2, <2>3 DEF StreamInv, Watched
  <2>7. \A r \in Asked(s)' : (s \in subs'[r] => s \in subs[r]) /\ Queued(s, r)' = Queued(s, r)
    BY <1>1, <2>3 DEF Asked
  <2>. QED  BY <1>1, <2>2, <2>3, <2>4, <2>5, <2>6, <2>7, DropInv DEF OfRun
<1>. QED  BY <1>2, <1>3

\* A step of one stream keeps the invariant of all.
LEMMA ServeInv ==
  ASSUME IInv, NEW s \in Streams,
         OpenStream(s) \/ OpenMultiplexed(s) \/ Serve(s) \/ Disconnect(s)
  PROVE  IInv'
<1>1. TypeOK /\ PubInv /\ StreamInv(s) /\ \A t \in Streams : StreamInv(t)
  BY DEF IInv
<1>2. TypeOK' /\ PubInv'
  BY <1>1, TypeServe DEF StreamInv
<1>3. /\ UNCHANGED hub
      /\ \A t \in Streams \ {s} : /\ stream'[t] = stream[t]
                                  /\ \A r \in Runs : t \in subs'[r] => t \in subs[r]
  <2>1. stream \in [Streams -> Connections] /\ subs \in [Runs -> SUBSET Streams]
    BY <1>1 DEF TypeOK
  <2>2. ASSUME NEW mode, NEW watch, NEW after, Subscribe(s, mode, watch, after)
        PROVE  /\ UNCHANGED hub
               /\ \A t \in Streams \ {s} : /\ stream'[t] = stream[t]
                                           /\ \A r \in Runs : t \in subs'[r] => t \in subs[r]
    BY <2>1, <2>2 DEF Subscribe
  <2>3. CASE OpenStream(s)
    BY <2>2, <2>3 DEF OpenStream
  <2>4. CASE OpenMultiplexed(s)
    BY <2>2, <2>4 DEF OpenMultiplexed
  <2>5. CASE ReadLog(s) \/ GoLive(s) \/ EndSingle(s) \/ LeaveRuns(s) \/ Disconnect(s)
    BY <2>1, <2>5 DEF ReadLog, GoLive, EndSingle, LeaveRuns, Disconnect
  <2>6. CASE \E id \in Ids : ReplayEvent(s, id) \/ ReplayMultiplexed(s, id)
    BY <2>1, <2>6 DEF ReplayEvent, ReplayMultiplexed
  <2>7. CASE \E r \in Runs : LiveEvent(s, r)
    BY <2>1, <2>7 DEF LiveEvent
  <2>. QED  BY <2>3, <2>4, <2>5, <2>6, <2>7 DEF Serve
<1>4. ASSUME NEW t \in Streams \ {s}
      PROVE  StreamInv(t)'
  <2>1. log' = log /\ applied' = applied /\ pub' = pub
    BY <1>3 DEF hub
  <2>2. LogGrows
    BY <1>1, <2>1 DEF LogGrows, TypeOK
  <2>3. \A p \in Publishers : InFlight(p)' => InFlight(p)
    BY <2>1 DEF InFlight
  <2>. QED  BY <1>1, <1>2, <1>3, <2>1, <2>2, <2>3, Undisturbed
<1>5. StreamInv(s)'
  <2>1. CASE OpenStream(s)
    <3>1. PICK r \in Runs, mode \in {"single", "tolerant"} :
            \E id \in {-1} \cup Offsets(r) : Subscribe(s, mode, {r}, Offset(r, id))
      BY <2>1 DEF OpenStream
    <3>2. PICK id \in {-1} \cup Offsets(r) : Subscribe(s, mode, {r}, Offset(r, id))
      BY <3>1
    <3>3. id \in -1..MaxEvents
      BY <1>1, <3>2, RunEventStreamAssumption DEF Offsets, IdsOf, TypeOK
    <3>4. Offset(r, id) \in [Runs -> -1..MaxEvents]
      BY <3>3, RunEventStreamAssumption DEF Offset
    <3>5. (\A q \in {r} : Offset(r, id)[q] < 0) \/ (\A q \in {r} : Offset(r, id)[q] >= 0)
      BY <3>3 DEF Offset
    <3>6. mode \in Modes /\ {r} \in SUBSET Runs
      BY <3>1 DEF Modes
    <3>. QED  BY <1>1, <1>2, <3>2, <3>4, <3>5, <3>6, SubscribeInv
  <2>2. CASE OpenMultiplexed(s)
    <3>1. PICK watch \in SUBSET Runs, after \in [Runs -> 0..Len(log)] :
            Subscribe(s, "multiplexed", watch, after)
      BY <2>2 DEF OpenMultiplexed
    <3>2. after \in [Runs -> -1..MaxEvents] /\ \A r \in watch : after[r] >= 0
      BY <1>1, <3>1, RunEventStreamAssumption DEF TypeOK
    <3>. QED  BY <1>1, <1>2, <3>1, <3>2, SubscribeInv DEF Modes
  <2>3. CASE ReadLog(s)
    BY <1>1, <1>2, <2>3, ReadLogInv
  <2>4. CASE \E id \in Ids : ReplayEvent(s, id) \/ ReplayMultiplexed(s, id)
    BY <1>1, <1>2, <2>4, ReplayInv
  <2>5. CASE GoLive(s)
    BY <1>1, <1>2, <2>5, GoLiveInv
  <2>6. CASE \E r \in Runs : LiveEvent(s, r)
    BY <1>1, <1>2, <2>6, LiveInv
  <2>7. CASE EndSingle(s)
    <3>1. /\ stream' = [stream EXCEPT ![s] = Closed]
          /\ stream[s].mode # "multiplexed" /\ stream[s].done # {}
      BY <2>7 DEF EndSingle
    <3>2. /\ stream \in [Streams -> Connections] /\ subs \in [Runs -> SUBSET Streams]
          /\ stream[s].seen \in Seq(Ids)
      BY <1>1 DEF TypeOK, Connections
    <3>3. stream[s].seen # <<>>
      BY <1>1, <3>1 DEF StreamInv, Watched
    <3>4. stream[s].seen[Len(stream[s].seen)] \in Seen(s)
      BY <3>2, <3>3 DEF Seen, Elems
    <3>5. \A r \in Runs : s \in subs[r] => r = log[stream[s].seen[Len(stream[s].seen)]].run
      BY <1>1, <3>1, <3>4 DEF StreamInv, Watched
    <3>6. \A r \in Runs : s \notin subs'[r]
      BY <2>7, <3>2, <3>5 DEF EndSingle
    <3>7. stream'[s] = Closed
      BY <3>1, <3>2
    <3>. QED  BY <1>2, <3>6, <3>7, ClosedInv
  <2>8. CASE LeaveRuns(s)
    BY <1>1, <1>2, <2>8, LeaveRunsInv
  <2>9. CASE Disconnect(s)
    <3>1. stream'[s] = Closed
      BY <1>1, <2>9 DEF Disconnect, TypeOK
    <3>2. \A r \in Runs : s \notin subs'[r]
      BY <1>1, <2>9 DEF Disconnect, StreamInv, Watched
    <3>. QED  BY <1>2, <3>1, <3>2, ClosedInv
  <2>. QED  BY <2>1, <2>2, <2>3, <2>4, <2>5, <2>6, <2>7, <2>8, <2>9 DEF Serve
<1>. QED  BY <1>2, <1>4, <1>5 DEF IInv

-----------------------------------------------------------------------------
(* The theorems.                                                           *)

\* Every step keeps the inductive invariant.
LEMMA StepInv == IInv /\ [Next]_vars => IInv'
<1>1. ASSUME IInv, Next  PROVE IInv'
  BY <1>1, PublishInv, ServeInv DEF Next
<1>2. ASSUME IInv, UNCHANGED vars  PROVE IInv'
  <2>1. log' = log /\ applied' = applied /\ pub' = pub /\ subs' = subs /\ stream' = stream
    BY <1>2 DEF vars, hub
  <2>2. TypeOK' /\ PubInv'
    BY <1>2 DEF IInv, TypeOK, PubInv, InFlight, vars, hub
  <2>3. LogGrows
    BY <1>2, <2>1 DEF LogGrows, IInv, TypeOK
  <2>4. \A p \in Publishers : InFlight(p)' => InFlight(p)
    BY <2>1 DEF InFlight
  <2>5. \A t \in Streams : StreamInv(t)'
    BY <1>2, <2>1, <2>2, <2>3, <2>4, Undisturbed DEF IInv
  <2>. QED  BY <2>2, <2>5 DEF IInv
<1>. QED  BY <1>1, <1>2

\* The inductive invariant holds in every state the hub and its streams reach.
THEOREM Invariance == Spec => []IInv
<1>. QED  BY InitInv, StepInv, PTL DEF Spec

\* The variables of the hub and of its streams keep their types, and the publish
\* lock is held exactly by the publication under way.
THEOREM TypeSafe == Spec => []TypeOK
<1>1. IInv => TypeOK
  BY DEF IInv
<1>. QED  BY <1>1, Invariance, PTL

\* A stream yields the events of a run once, in order and without a gap: what is
\* published while it subscribes, reads the log and replays it is neither lost
\* nor repeated.
THEOREM EventsOnceInOrder == Spec => []NoGapNoRepeat
<1>1. IInv => NoGapNoRepeat
  <2>. SUFFICES ASSUME IInv, NEW s \in Streams
                PROVE  /\ \A m, n \in 1..Len(stream[s].seen) :
                            /\ m < n
                            /\ log[stream[s].seen[m]].run = log[stream[s].seen[n]].run
                            => stream[s].seen[m] < stream[s].seen[n]
                       /\ \A i \in Seen(s), j \in applied :
                            /\ log[i].run = log[j].run
                            /\ j < i
                            /\ IF stream[s].after[log[i].run] >= 0
                               THEN stream[s].after[log[i].run] < j
                               ELSE \E k \in Seen(s) : log[k].run = log[i].run /\ k < j
                            => j \in Seen(s)
    BY DEF NoGapNoRepeat, Seen, Elems
  <2>1. TypeOK /\ InLog(s) /\ SeenOrdered(s) /\ SeenClosed(s)
    BY DEF IInv, StreamInv
  <2>2. \A i \in Seen(s) : log[i].run \in Runs
    <3>1. log \in Seq([run : Runs, kind : Kinds])
      BY <2>1 DEF TypeOK
    <3>2. \A i \in Seen(s) : log[i] \in [run : Runs, kind : Kinds]
      BY <2>1, <3>1, ElementType DEF InLog
    <3>. QED  BY <3>2
  <2>. QED  BY <2>1, <2>2 DEF SeenOrdered, SeenClosed, Behind, OfRun
<1>. QED  BY <1>1, Invariance, PTL

\* A stream that waits at an empty queue has shown every event behind its
\* offset: none is lost between its replay and its first wait.
THEOREM IdleIsCurrent == Spec => []IdleStreamIsCurrent
<1>1. IInv => IdleStreamIsCurrent
  <2>. SUFFICES ASSUME IInv, NEW s \in Streams, NEW r \in Runs,
                       stream[s].phase = "live", r \in stream[s].watch \ stream[s].done,
                       s \in subs[r], stream[s].queue[r] = <<>>, lock = None,
                       stream[s].after[r] >= 0,
                       NEW id \in applied, log[id].run = r, id > stream[s].after[r]
                PROVE  id \in Seen(s)
    BY DEF IdleStreamIsCurrent, Seen, Elems
  <2>1. TypeOK /\ InLog(s) /\ Phases(s) /\ HeldComplete(s)
    BY DEF IInv, StreamInv
  <2>2. \A p \in Publishers : pub[p].at = "idle"
    BY <2>1, RunEventStreamAssumption DEF TypeOK
  <2>3. Behind(s, r, Held(s, r), id)
    BY <2>1 DEF Behind, TypeOK, Connections
  <2>4. id \in Held(s, r)
    BY <2>1, <2>2, <2>3 DEF HeldComplete, Active, Asked
  <2>5. stream[s].backlog = {} /\ Queued(s, r) = {}
    BY <2>1 DEF Phases, Queued, Elems
  <2>. QED  BY <2>4, <2>5 DEF Held, OfRun
<1>. QED  BY <1>1, Invariance, PTL

-----------------------------------------------------------------------------
(* The run state and the log.  StateFollowsLog is about a recursive        *)
(* function, of which nothing is known before it is shown to exist.  The   *)
(* invariant FoldInv therefore says of the log at hand that the function   *)
(* exists and that every such function ends in the state of the run; each  *)
(* step extends the function by the row it adds or applies.                *)

\* f is the fold of the events ids of the run over the rows.
IsFold(f, rows, ids, r) ==
  f = [i \in 0..Len(rows) |->
         IF i = 0 THEN NoState
         ELSE IF i \in ids /\ rows[i].run = r
              THEN Applied(f[i - 1], rows[i].kind, i)
              ELSE f[i - 1]]

FoldsTo(rows, ids, r, v) ==
  /\ \E f : IsFold(f, rows, ids, r)
  /\ \A f : IsFold(f, rows, ids, r) => f[Len(rows)] = v

FoldInv == \A r \in Runs : FoldsTo(log, applied, r, state[r])

\* The row of a publication is of its kind and not applied yet, and the state
\* it has read is still that of the run when it writes it.
Unwritten ==
  \A p \in Publishers :
    /\ InFlight(p) => log[pub[p].id].kind = pub[p].kind
    /\ pub[p].at \in {"read", "write"} => pub[p].id \notin applied
    /\ pub[p].at = "write" => pub[p].read = state[pub[p].run]

FollowInv == FoldInv /\ Unwritten

\* A row that is not applied leaves the fold as it was.
LEMMA FoldAppend ==
  ASSUME NEW R, NEW rows \in Seq(R), NEW e \in R, NEW r, NEW v,
         NEW ids, ids \subseteq 1..Len(rows), FoldsTo(rows, ids, r, v)
  PROVE  FoldsTo(Append(rows, e), ids, r, v)
<1>. DEFINE n == Len(rows)
            more == Append(rows, e)
<1>1. /\ n \in Nat
      /\ Len(more) = n + 1
      /\ \A i \in 1..n : more[i] = rows[i]
      /\ n + 1 \notin ids
  OBVIOUS
<1>2. PICK f : IsFold(f, rows, ids, r)
  BY DEF FoldsTo
<1>3. IsFold([i \in 0..n + 1 |-> IF i = n + 1 THEN f[n] ELSE f[i]], more, ids, r)
  <2>. DEFINE g == [i \in 0..n + 1 |-> IF i = n + 1 THEN f[n] ELSE f[i]]
              Row(i) == IF i = 0 THEN NoState
                        ELSE IF i \in ids /\ more[i].run = r
                             THEN Applied(g[i - 1], more[i].kind, i)
                             ELSE g[i - 1]
  <2>1. g[n + 1] = f[n] /\ \A i \in 0..n : g[i] = f[i]
    BY <1>1
  <2>2. g[n + 1] = Row(n + 1)
    BY <1>1, <2>1
  <2>3. ASSUME NEW i \in 0..n  PROVE g[i] = Row(i)
    <3>1. f[i] = IF i = 0 THEN NoState
                 ELSE IF i \in ids /\ rows[i].run = r
                      THEN Applied(f[i - 1], rows[i].kind, i)
                      ELSE f[i - 1]
      BY <1>2 DEF IsFold
    <3>2. CASE i = 0
      BY <2>1, <3>1, <3>2
    <3>3. CASE i # 0
      <4>1. i \in 1..n /\ i - 1 \in 0..n
        BY <1>1, <3>3
      <4>. QED  BY <1>1, <2>1, <3>1, <3>3, <4>1
    <3>. QED  BY <3>2, <3>3
  <2>4. \A i \in 0..n + 1 : g[i] = Row(i)
    BY <1>1, <2>2, <2>3
  <2>5. g = [i \in 0..n + 1 |-> Row(i)]
    <3>. HIDE DEF Row
    <3>. QED  BY <2>4
  <2>. QED  BY <1>1, <2>5 DEF IsFold
<1>4. ASSUME NEW g, IsFold(g, more, ids, r)  PROVE g[n + 1] = v
  <2>. DEFINE h == [i \in 0..n |-> g[i]]
              Row(i) == IF i = 0 THEN NoState
                        ELSE IF i \in ids /\ rows[i].run = r
                             THEN Applied(h[i - 1], rows[i].kind, i)
                             ELSE h[i - 1]
  <2>1. ASSUME NEW i \in 0..n + 1
        PROVE  g[i] = IF i = 0 THEN NoState
                      ELSE IF i \in ids /\ more[i].run = r
                           THEN Applied(g[i - 1], more[i].kind, i)
                           ELSE g[i - 1]
    BY <1>1, <1>4 DEF IsFold
  <2>2. ASSUME NEW i \in 0..n  PROVE h[i] = Row(i)
    <3>1. CASE i = 0
      BY <1>1, <2>1, <3>1
    <3>2. CASE i # 0
      <4>1. i \in 1..n /\ i - 1 \in 0..n /\ i \in 0..n + 1
        BY <1>1, <3>2
      <4>. QED  BY <1>1, <2>1, <3>2, <4>1
    <3>. QED  BY <3>1, <3>2
  <2>3. h = [i \in 0..n |-> Row(i)]
    <3>. HIDE DEF Row
    <3>. QED  BY <2>2
  <2>4. h[n] = v
    BY <2>3 DEF IsFold, FoldsTo
  <2>5. g[n + 1] = g[n]
    BY <1>1, <2>1
  <2>. QED  BY <1>1, <2>4, <2>5
<1>. QED  BY <1>1, <1>3, <1>4 DEF FoldsTo

\* To apply the last row is to apply it to what the fold has been.
LEMMA FoldApply ==
  ASSUME NEW R, NEW rows \in Seq(R), NEW r, NEW v, rows # <<>>,
         NEW ids, Len(rows) \notin ids, FoldsTo(rows, ids, r, v)
  PROVE  FoldsTo(rows, ids \cup {Len(rows)}, r,
                 IF rows[Len(rows)].run = r
                 THEN Applied(v, rows[Len(rows)].kind, Len(rows)) ELSE v)
<1>. DEFINE n == Len(rows)
            more == ids \cup {n}
            w == IF rows[n].run = r THEN Applied(v, rows[n].kind, n) ELSE v
<1>1. n \in Nat /\ n # 0 /\ n - 1 \in 0..n /\ n \in 0..n /\ n - 1 # n
  OBVIOUS
<1>2. PICK f : IsFold(f, rows, ids, r)
  BY DEF FoldsTo
<1>3. ASSUME NEW i \in 0..n
      PROVE  f[i] = IF i = 0 THEN NoState
                    ELSE IF i \in ids /\ rows[i].run = r
                         THEN Applied(f[i - 1], rows[i].kind, i)
                         ELSE f[i - 1]
  BY <1>2 DEF IsFold
<1>4. f[n] = v /\ f[n - 1] = v
  BY <1>1, <1>2, <1>3 DEF FoldsTo
<1>5. IsFold([i \in 0..n |-> IF i = n THEN w ELSE f[i]], rows, more, r)
  <2>. DEFINE g == [i \in 0..n |-> IF i = n THEN w ELSE f[i]]
              Row(i) == IF i = 0 THEN NoState
                        ELSE IF i \in more /\ rows[i].run = r
                             THEN Applied(g[i - 1], rows[i].kind, i)
                             ELSE g[i - 1]
  <2>1. g[n] = w /\ \A i \in 0..n : i # n => g[i] = f[i]
    BY <1>1
  <2>2. g[n] = Row(n)
    BY <1>1, <1>4, <2>1
  <2>3. ASSUME NEW i \in 0..n, i # n  PROVE g[i] = Row(i)
    <3>1. CASE i = 0
      BY <1>3, <2>1, <2>3, <3>1
    <3>2. CASE i # 0
      <4>1. i - 1 \in 0..n /\ i - 1 # n
        BY <1>1, <2>3, <3>2
      <4>2. i \in more <=> i \in ids
        BY <2>3
      <4>. QED  BY <1>3, <2>1, <2>3, <3>2, <4>1, <4>2
    <3>. QED  BY <3>1, <3>2
  <2>4. \A i \in 0..n : g[i] = Row(i)
    BY <2>2, <2>3
  <2>5. g = [i \in 0..n |-> Row(i)]
    <3>. HIDE DEF Row
    <3>. QED  BY <2>4
  <2>. QED  BY <2>5 DEF IsFold
<1>6. ASSUME NEW g, IsFold(g, rows, more, r)  PROVE g[n] = w
  <2>. DEFINE h == [i \in 0..n |-> IF i = n THEN g[n - 1] ELSE g[i]]
              Row(i) == IF i = 0 THEN NoState
                        ELSE IF i \in ids /\ rows[i].run = r
                             THEN Applied(h[i - 1], rows[i].kind, i)
                             ELSE h[i - 1]
  <2>1. ASSUME NEW i \in 0..n
        PROVE  g[i] = IF i = 0 THEN NoState
                      ELSE IF i \in more /\ rows[i].run = r
                           THEN Applied(g[i - 1], rows[i].kind, i)
                           ELSE g[i - 1]
    BY <1>6 DEF IsFold
  <2>2. h[n] = g[n - 1] /\ \A i \in 0..n : i # n => h[i] = g[i]
    BY <1>1
  <2>3. h[n] = Row(n)
    BY <1>1, <2>2
  <2>4. ASSUME NEW i \in 0..n, i # n  PROVE h[i] = Row(i)
    <3>1. CASE i = 0
      BY <2>1, <2>2, <2>4, <3>1
    <3>2. CASE i # 0
      <4>1. i - 1 \in 0..n /\ i - 1 # n
        BY <1>1, <2>4, <3>2
      <4>2. i \in more <=> i \in ids
        BY <2>4
      <4>. QED  BY <2>1, <2>2, <2>4, <3>2, <4>1, <4>2
    <3>. QED  BY <3>1, <3>2
  <2>5. \A i \in 0..n : h[i] = Row(i)
    BY <2>3, <2>4
  <2>6. h = [i \in 0..n |-> Row(i)]
    <3>. HIDE DEF Row
    <3>. QED  BY <2>5
  <2>7. h[n] = v
    BY <2>6 DEF IsFold, FoldsTo
  <2>. QED  BY <1>1, <2>1, <2>2, <2>7
<1>. QED  BY <1>5, <1>6 DEF FoldsTo

\* The fold of the empty log is the state no event has written.
LEMMA FoldInit ==
  ASSUME NEW r  PROVE FoldsTo(<<>>, {}, r, NoState)
<1>. DEFINE f == [i \in 0..0 |-> NoState]
<1>1. Len(<<>>) = 0 /\ 0 \in 0..0 /\ \A i \in 0..0 : i = 0
  OBVIOUS
<1>2. IsFold(f, <<>>, {}, r)
  BY <1>1 DEF IsFold
<1>3. ASSUME NEW g, IsFold(g, <<>>, {}, r)  PROVE g[0] = NoState
  BY <1>1, <1>3 DEF IsFold
<1>. QED  BY <1>1, <1>2, <1>3 DEF FoldsTo

\* Nothing is published and nothing was: each run has the state of no event.
LEMMA FollowInit == Init => FollowInv
BY FoldInit DEF Init, FollowInv, FoldInv, Unwritten, InFlight, Idle

\* A row is added: the fold stays until the row is applied.
LEMMA FollowEmit ==
  ASSUME TypeOK, FollowInv, NEW e \in [run : Runs, kind : Kinds], NEW r \in Runs
  PROVE  /\ FoldsTo(Append(log, e), applied, r, state[r])
         /\ Append(log, e) # <<>>
         /\ Len(Append(log, e)) = Len(log) + 1
         /\ Append(log, e)[Len(log) + 1] = e
         /\ Len(log) + 1 \notin applied
<1>1. log \in Seq([run : Runs, kind : Kinds]) /\ applied \subseteq 1..Len(log)
  BY DEF TypeOK
<1>2. FoldsTo(log, applied, r, state[r])
  BY DEF FollowInv, FoldInv
<1>3. FoldsTo(Append(log, e), applied, r, state[r])
  BY <1>1, <1>2, FoldAppend
<1>4. /\ Append(log, e) # <<>> /\ Len(Append(log, e)) = Len(log) + 1
      /\ Append(log, e)[Len(log) + 1] = e
  BY <1>1
<1>5. Len(log) \in Nat /\ Len(log) + 1 \notin applied
  BY <1>1
<1>. QED  BY <1>3, <1>4, <1>5

\* Every step of a publication keeps the run states and the log in step.
LEMMA FollowPublish ==
  ASSUME IInv, FollowInv, NEW p \in Publishers, Publish(p)
  PROVE  FollowInv'
<1>. USE DEF InFlight
<1>1. TypeOK /\ PubInv /\ FoldInv /\ Unwritten
  BY DEF IInv, FollowInv
<1>2. \A q \in Publishers : pub[q].at # "idle" <=> q = p
  <2>1. pub[p].at # "idle"
    BY DEF Publish, EmitEvent, ReadRunState, WriteRunState, NotifySubscribers, PublishFails
  <2>. QED  BY <1>1, <2>1 DEF TypeOK
<1>3. /\ log \in Seq([run : Runs, kind : Kinds])
      /\ applied \subseteq 1..Len(log)
      /\ pub \in [Publishers -> Publications]
      /\ state \in [Runs -> RunStates]
      /\ pub[p].run \in Runs /\ pub[p].kind \in Kinds
  BY <1>1, <1>2 DEF TypeOK, PubInv
<1>4. CASE EmitEvent(p)
  <2>. DEFINE e == [run |-> pub[p].run, kind |-> pub[p].kind]
  <2>1. e \in [run : Runs, kind : Kinds]
    BY <1>3
  <2>2. /\ log' = Append(log, e) /\ applied' = applied /\ state' = state
        /\ pub' = [pub EXCEPT ![p].at = "read", ![p].id = Len(log) + 1]
    BY <1>4 DEF EmitEvent
  <2>3. FoldInv'
    <3>. HIDE DEF e
    <3>. QED  BY <1>1, <2>1, <2>2, FollowEmit DEF FoldInv, FollowInv
  <2>4. log'[Len(log) + 1] = e /\ Len(log) + 1 \notin applied
    <3>. HIDE DEF e
    <3>. QED  BY <1>1, <1>3, <2>1, <2>2, FollowEmit
  <2>5. pub'[p].at = "read" /\ pub'[p].id = Len(log) + 1 /\ pub'[p].kind = pub[p].kind
    BY <1>3, <2>2 DEF Publications
  <2>6. \A q \in Publishers : q # p => pub'[q] = pub[q]
    BY <1>3, <2>2
  <2>7. Unwritten'
    BY <1>2, <1>3, <2>2, <2>4, <2>5, <2>6 DEF Unwritten
  <2>. QED  BY <2>3, <2>7 DEF FollowInv
<1>5. CASE ReadRunState(p)
  <2>1. UNCHANGED <<log, applied, state>>
    BY <1>5 DEF ReadRunState
  <2>2. /\ pub'[p].at = "write" /\ pub'[p].read = state[pub[p].run]
        /\ pub'[p].id = pub[p].id /\ pub'[p].kind = pub[p].kind
        /\ pub'[p].run = pub[p].run
        /\ \A q \in Publishers : q # p => pub'[q] = pub[q]
    BY <1>3, <1>5 DEF ReadRunState, Publications
  <2>3. pub[p].at = "read"
    BY <1>5 DEF ReadRunState
  <2>4. FoldInv'
    BY <1>1, <2>1 DEF FoldInv
  <2>5. Unwritten'
    BY <1>1, <1>2, <2>1, <2>2, <2>3 DEF Unwritten
  <2>. QED  BY <2>4, <2>5 DEF FollowInv
<1>6. CASE WriteRunState(p)
  <2>. DEFINE n == Len(log)
              r == pub[p].run
  <2>1. /\ pub[p].at = "write" /\ log' = log
        /\ applied' = applied \cup {pub[p].id}
        /\ state' = [state EXCEPT ![r] = Applied(pub[p].read, pub[p].kind, pub[p].id)]
    BY <1>6 DEF WriteRunState
  <2>2. /\ pub[p].id = n /\ n > 0 /\ n \notin applied /\ log # <<>>
        /\ log[n].run = r /\ log[n].kind = pub[p].kind /\ pub[p].read = state[r]
    BY <1>1, <2>1, <1>3 DEF PubInv, Unwritten
  <2>3. applied' = applied \cup {n} /\ state' = [state EXCEPT ![r] = Applied(state[r], log[n].kind, n)]
    BY <2>1, <2>2
  <2>4. FoldInv'
    <3>. SUFFICES ASSUME NEW q \in Runs
                  PROVE  FoldsTo(log, applied \cup {n}, q, state'[q])
      BY <2>1, <2>3 DEF FoldInv
    <3>1. FoldsTo(log, applied, q, state[q])
      BY <1>1 DEF FoldInv
    <3>2. FoldsTo(log, applied \cup {n}, q,
                  IF log[n].run = q THEN Applied(state[q], log[n].kind, n) ELSE state[q])
      BY <1>3, <2>2, <3>1, FoldApply
    <3>3. state'[q] = IF log[n].run = q THEN Applied(state[q], log[n].kind, n) ELSE state[q]
      BY <1>3, <2>2, <2>3
    <3>. QED  BY <3>2, <3>3
  <2>5. /\ pub'[p].at = "notify" /\ pub'[p].id = pub[p].id /\ pub'[p].kind = pub[p].kind
        /\ \A q \in Publishers : q # p => pub'[q] = pub[q]
    BY <1>3, <1>6 DEF WriteRunState, Publications
  <2>6. Unwritten'
    BY <1>2, <2>1, <2>2, <2>5 DEF Unwritten
  <2>. QED  BY <2>4, <2>6 DEF FollowInv
<1>7. CASE NotifySubscribers(p) \/ PublishFails(p)
  <2>1. UNCHANGED <<log, applied, state>> /\ pub' = [pub EXCEPT ![p] = Idle]
    BY <1>7 DEF NotifySubscribers, PublishFails, ReleasePublishLock
  <2>2. \A q \in Publishers : pub'[q].at = "idle"
    BY <1>2, <1>3, <2>1 DEF Idle
  <2>. QED  BY <1>1, <2>1, <2>2 DEF FollowInv, FoldInv, Unwritten
<1>. QED  BY <1>4, <1>5, <1>6, <1>7 DEF Publish

\* So does the publication from the event loop, which adds and applies at once.
LEMMA FollowFromLoop ==
  ASSUME IInv, FollowInv, NEW r \in Runs, NEW kind \in Kinds, PublishFromLoop(r, kind)
  PROVE  FollowInv'
<1>. DEFINE e == [run |-> r, kind |-> kind]
            n == Len(log) + 1
            rows == Append(log, e)
<1>1. TypeOK /\ FollowInv /\ FoldInv /\ e \in [run : Runs, kind : Kinds]
  BY DEF IInv, FollowInv
<1>2. /\ lock = None /\ log' = rows /\ applied' = applied \cup {n} /\ pub' = pub
      /\ state' = [state EXCEPT ![r] = Applied(@, kind, n)]
  BY DEF PublishFromLoop
<1>3. rows \in Seq([run : Runs, kind : Kinds]) /\ state \in [Runs -> RunStates]
  BY <1>1 DEF TypeOK
<1>4. FoldInv'
  <2>. SUFFICES ASSUME NEW q \in Runs
                PROVE  FoldsTo(rows, applied \cup {n}, q, state'[q])
    BY <1>2 DEF FoldInv
  <2>1. /\ FoldsTo(rows, applied, q, state[q]) /\ rows # <<>>
        /\ Len(rows) = n /\ rows[n] = e /\ n \notin applied
    <3>. HIDE DEF e
    <3>. QED  BY <1>1, FollowEmit
  <2>2. FoldsTo(rows, applied \cup {n}, q,
                IF rows[n].run = q THEN Applied(state[q], rows[n].kind, n) ELSE state[q])
    <3>. HIDE DEF rows, n
    <3>. QED  BY <1>3, <2>1, FoldApply
  <2>3. state'[q] = IF rows[n].run = q THEN Applied(state[q], rows[n].kind, n) ELSE state[q]
    <3>. HIDE DEF rows, n
    <3>. QED  BY <1>2, <1>3, <2>1
  <2>. QED  BY <2>2, <2>3
<1>5. \A p \in Publishers : pub'[p].at = "idle"
  BY <1>1, <1>2, RunEventStreamAssumption DEF TypeOK
<1>. QED  BY <1>4, <1>5 DEF FollowInv, Unwritten, InFlight

\* The streams and the restart write neither the log nor the run states.
LEMMA FollowStep == IInv /\ FollowInv /\ [Next]_vars => FollowInv'
<1>. SUFFICES ASSUME IInv, FollowInv, [Next]_vars  PROVE FollowInv'
  OBVIOUS
<1>1. ASSUME NEW p \in Publishers, NEW r \in Runs, NEW kind \in Kinds,
             AcquirePublishLock(p, r, kind)
      PROVE  FollowInv'
  <2>1. UNCHANGED <<log, applied, state>>
    BY <1>1 DEF AcquirePublishLock
  <2>2. /\ pub'[p].at = "emit"
        /\ \A q \in Publishers : q # p => pub'[q] = pub[q]
    BY <1>1 DEF AcquirePublishLock, IInv, TypeOK, Idle
  <2>. QED  BY <2>1, <2>2 DEF FollowInv, FoldInv, Unwritten, InFlight
<1>2. ASSUME UNCHANGED hub  PROVE FollowInv'
  BY <1>2 DEF hub, FollowInv, FoldInv, Unwritten, InFlight
<1>3. ASSUME NEW s \in Streams, OpenStream(s) \/ OpenMultiplexed(s) \/ Serve(s) \/ Disconnect(s)
      PROVE  UNCHANGED hub
  BY <1>3 DEF OpenStream, OpenMultiplexed, Subscribe, Serve, ReadLog, ReplayEvent,
              ReplayMultiplexed, GoLive, LiveEvent, EndSingle, LeaveRuns, Disconnect
<1>4. ASSUME Restart  PROVE FollowInv'
  <2>1. UNCHANGED <<log, applied, state>> /\ \A p \in Publishers : pub'[p].at = "idle"
    BY <1>4 DEF Restart, Idle
  <2>. QED  BY <2>1 DEF FollowInv, FoldInv, Unwritten, InFlight
<1>5. UNCHANGED vars => UNCHANGED hub
  BY DEF vars
<1>. QED  BY <1>1, <1>2, <1>3, <1>4, <1>5, FollowPublish, FollowFromLoop DEF Next

\* The state of each run is the fold of its applied events in the order of
\* their ids, although a publication reads and writes it at different times:
\* the publish lock keeps what it has read true until it is written.
THEOREM RunStateIsFold == Spec => []StateFollowsLog
<1>1. FollowInv => StateFollowsLog
  <2>. SUFFICES ASSUME FollowInv, NEW r \in Runs
                PROVE  LET fold[i \in 0..Len(log)] ==
                             IF i = 0 THEN NoState
                             ELSE IF i \in applied /\ log[i].run = r
                                  THEN Applied(fold[i - 1], log[i].kind, i)
                                  ELSE fold[i - 1]
                       IN state[r] = fold[Len(log)]
    BY DEF StateFollowsLog
  <2>. DEFINE fold == CHOOSE f : IsFold(f, log, applied, r)
  <2>1. IsFold(fold, log, applied, r)
    BY DEF FollowInv, FoldInv, FoldsTo
  <2>2. state[r] = fold[Len(log)]
    <3>. HIDE DEF fold
    <3>. QED  BY <2>1 DEF FollowInv, FoldInv, FoldsTo
  <2>. QED  BY <2>2, Zenon DEF IsFold
<1>2. Spec => [](IInv /\ FollowInv)
  BY InitInv, FollowInit, StepInv, FollowStep, PTL DEF Spec
<1>. QED  BY <1>1, <1>2, PTL

=============================================================================
