------------------------- MODULE RunInjectionProofs -------------------------
(***************************************************************************)
(* Proofs about RunInjection, for every set of messages and every number   *)
(* of requests and restarts: the stored conversation, what an answer has   *)
(* seen, and that a message is shown once and in order.                    *)
(***************************************************************************)
EXTENDS RunInjection, FiniteSetTheorems, SequenceTheorems,
        WellFoundedInduction, TLAPS

InHand == {"apply", "publish", "append"}

\* Positions with a context that holds the stored conversation.
Current == {"top", "ready", "request", "tools", "commit", "boundary", "final",
            "accepted", "answered"}

Kinds(q) ==
  \A e \in q :
    /\ e.kind = "reminder" => e.ids \subseteq Reminders /\ ~e.force
    /\ e.kind = "user" => e.ids \subseteq Injects \cup Followups

Disjoint(q) == \A d, e \in q : d # e => d.ids \cap e.ids = {}

\* A message is in one entry of the queue or of the batch, which is empty
\* unless it is being applied and holds one message of the user at most.
EntriesOK ==
  /\ Kinds(queue) /\ Kinds(batch)
  /\ Disjoint(queue) /\ Disjoint(batch)
  /\ IdsIn(queue) \cap IdsIn(batch) = {}
  /\ \A d, e \in Users(batch) : d = e
  /\ batch # {} <=> pc \in InHand

\* What the loop has buffered at each of its positions.
BufferOK ==
  /\ pc = "tools" => resp = "calls" /\ buffered = <<Call(requests)>>
  /\ pc = "commit" =>
       \/ resp = "answer" /\ buffered = <<Answer(requests)>>
       \/ /\ resp = "calls"
          /\ buffered \in {<<Call(requests)>>,
                           <<Call(requests), Result(requests)>>}
  /\ pc = "boundary" =>
       /\ resp # "none"
       /\ buffered # <<>> => resp = "calls" /\ buffered = <<Call(requests)>>
  /\ pc \in InHand \cup {"rebuild"} => buffered \in {<<>>, <<Call(requests)>>}
  /\ pc \notin InHand \cup {"rebuild", "tools", "commit", "boundary"} =>
       buffered = <<>>

Pending == IdsIn(queue) \cup IdsIn(batch)

\* Only what was sent is anywhere, and what waits was neither announced nor
\* given up.
SentOnly ==
  /\ IsFiniteSet(sent)
  /\ Pending \cup announced \cup gone \cup late \cup IdsOf(history)
       \subseteq sent
  /\ \A i \in DOMAIN order : order[i] \in Injects \cap sent
  /\ announced \cap IdsIn(queue) = {}
  /\ gone \cap Pending = {}
  /\ pc = "append" => First(batch).ids \subseteq announced

\* What waits or is being applied is not in the conversation, but for the copy
\* of a follow-up that is stored when it is attached.
TimesOK ==
  \A m \in Messages :
    /\ m \in Pending => Times(m) <= IF m \in Followups THEN 1 ELSE 0
    /\ Times(m) <= IF m \in Followups THEN 2 ELSE 1

\* Of two injects the later one, b, does not overtake a.
Ordered(a, b) ==
  /\ Shown(b) => a \notin Pending
  /\ b \in IdsIn(batch) => a \notin IdsIn(queue)
  /\ b \in IdsIn(Forced(queue)) => a \notin IdsIn(Promotable(queue))

OrderOK ==
  \A i, j \in DOMAIN order : i < j => Ordered(order[i], order[j])

SeenOK ==
  /\ pc \in Answered => IdsIn(queue) \subseteq late
  /\ pc \in Current =>
       {m \in Injects \cup Reminders : m \in IdsOf(history)} \subseteq view

IInv ==
  /\ TypeOK /\ EntriesOK /\ BufferOK /\ SentOnly /\ TimesOK /\ OrderOK
  /\ SeenOK /\ PairsIntact

-----------------------------------------------------------------------------
(* Queues and batches *)

\* The head of a batch in the order of (priority, created_at) exists.
LEMMA FirstIn ==
  ASSUME NEW q \in SUBSET Entries, q # {}
  PROVE  First(q) \in q
<1> DEFINE S == IF Reminding(q) = {} THEN q ELSE Reminding(q)
           T == {e.at : e \in S}
<1>1. S \subseteq q /\ S # {}
  BY DEF Reminding
<1>2. T \subseteq Nat /\ T # {}
  BY <1>1 DEF Entries
<1>3. PICK n \in T : \A k \in T : ~(<<k, n>> \in OpToRel(<, Nat))
  <2> HIDE DEF T
  <2> QED
    BY <1>2, WFMin, NatLessThanWellFounded, Zenon
<1>4. \A k \in T : ~(k < n)
  BY <1>2, <1>3 DEF OpToRel
<1>5. PICK e \in S : e.at = n
  OBVIOUS
<1>6. \A d \in S : ~(d.at < e.at)
  BY <1>4, <1>5
<1>7. \A d \in q : ~Before(d, e)
  BY <1>1, <1>5, <1>6 DEF Before, Reminding, Entries
<1> QED
  BY <1>1, <1>5, <1>7 DEF First

\* Coalescing keeps the messages, one by one in their entries, and leaves one
\* entry of the user.
LEMMA CoalesceLemma ==
  ASSUME NEW q \in SUBSET Entries, Kinds(q), Disjoint(q)
  PROVE  /\ Coalesce(q) \subseteq Entries
         /\ Kinds(Coalesce(q)) /\ Disjoint(Coalesce(q))
         /\ IdsIn(Coalesce(q)) = IdsIn(q)
         /\ Coalesce(q) = {} <=> q = {}
         /\ \A d, e \in Users(Coalesce(q)) : d = e
<1>1. CASE Users(q) = {}
  <2>1. Coalesce(q) = q
    BY <1>1 DEF Coalesce
  <2> QED
    BY <1>1, <2>1
<1>2. CASE Users(q) # {}
  <2> DEFINE u == First(Users(q))
             m == [u EXCEPT !.ids = IdsIn(Users(q))]
             c == Reminding(q) \cup {m}
  <2>1. u \in q /\ u \in Entries /\ u.kind = "user"
    <3>1. Users(q) \in SUBSET Entries
      BY DEF Users
    <3>2. u \in Users(q)
      BY <1>2, <3>1, FirstIn
    <3> QED
      BY <3>2 DEF Users
  <2>2. IdsIn(Users(q)) \subseteq (Injects \cup Followups) \cap Messages
    BY DEF IdsIn, Users, Kinds, Entries
  <2> HIDE DEF u
  <2>3. m \in Entries /\ m.kind = "user" /\ m.ids = IdsIn(Users(q))
    BY <2>1, <2>2 DEF Entries
  <2> HIDE DEF m
  <2>4. c \subseteq Entries /\ Kinds(c)
    BY <2>2, <2>3 DEF Kinds, Reminding
  <2>5. IdsIn(c) = IdsIn(Reminding(q)) \cup IdsIn(Users(q))
    BY <2>3 DEF IdsIn
  <2>6. IdsIn(c) = IdsIn(q)
    <3>1. \A e \in q : e \in Reminding(q) \/ e \in Users(q)
      BY DEF Reminding, Users, Entries
    <3>2. Reminding(q) \subseteq q /\ Users(q) \subseteq q
      BY DEF Reminding, Users
    <3> QED
      BY <2>5, <3>1, <3>2 DEF IdsIn
  <2>7. Disjoint(c)
    <3>1. \A d, e \in Reminding(q) : d # e => d.ids \cap e.ids = {}
      BY DEF Disjoint, Reminding
    <3>2. \A e \in Reminding(q) : e.ids \cap m.ids = {}
      BY <2>2, <2>3, RunInjectionAssumption DEF Reminding, Kinds
    <3> QED
      BY <3>1, <3>2 DEF Disjoint
  <2>8. \A d, e \in Users(c) : d = e
    BY DEF Users, Reminding
  <2>9. Coalesce(q) = c
    BY <1>2 DEF Coalesce, c, m, u
  <2>10. c # {} /\ q # {}
    BY <1>2 DEF Users
  <2> HIDE DEF c
  <2> QED
    BY <2>4, <2>6, <2>7, <2>8, <2>9, <2>10
<1> QED
  BY <1>1, <1>2

\* A part of a queue holds the messages that the rest does not.
LEMMA PartLemma ==
  ASSUME NEW q \in SUBSET Entries, Kinds(q), Disjoint(q), NEW p \in SUBSET q
  PROVE  /\ p \subseteq Entries /\ Kinds(p) /\ Disjoint(p)
         /\ IdsIn(p) \cap IdsIn(q \ p) = {}
         /\ IdsIn(p) \cup IdsIn(q \ p) = IdsIn(q)
BY DEF Kinds, Disjoint, IdsIn

-----------------------------------------------------------------------------
(* The stored conversation *)

Places(h, m) == {i \in DOMAIN h : m \in h[i].ids}
TimesIn(h, m) == Cardinality(Places(h, m))
ShownIn(h, m) == \E i \in DOMAIN h : h[i].kind = "prompt" /\ m \in h[i].ids
PairsIn(h) ==
  \A i \in DOMAIN h :
    /\ h[i].kind = "call" =>
         i + 1 \in DOMAIN h /\ h[i + 1] = Result(h[i].n)
    /\ h[i].kind = "result" =>
         i - 1 \in DOMAIN h /\ h[i - 1] = Call(h[i].n)

\* The properties of the stored conversation are those of its sequence.
LEMMA InHistory ==
  /\ PairsIntact <=> PairsIn(history)
  /\ \A m : Times(m) = TimesIn(history, m)
  /\ \A m : Shown(m) <=> ShownIn(history, m)
BY DEF PairsIntact, PairsIn, Times, TimesIn, Places, Shown, ShownIn

\* A message stands in finitely many places of a conversation.
LEMMA PlacesFinite ==
  ASSUME NEW h \in Seq(Items), NEW m
  PROVE  /\ IsFiniteSet(Places(h, m)) /\ TimesIn(h, m) \in Nat
         /\ m \notin IdsOf(h) => TimesIn(h, m) = 0
<1>1. DOMAIN h = 1..Len(h) /\ Len(h) \in Nat
  OBVIOUS
<1>2. IsFiniteSet(DOMAIN h)
  BY <1>1, FS_Interval
<1>3. Places(h, m) \subseteq DOMAIN h
  BY DEF Places
<1>4. IsFiniteSet(Places(h, m)) /\ TimesIn(h, m) \in Nat
  BY <1>2, <1>3, FS_Subset, FS_CardinalityType DEF TimesIn
<1>5. m \notin IdsOf(h) => Places(h, m) = {}
  BY DEF Places, IdsOf
<1> QED
  BY <1>4, <1>5, FS_EmptySet DEF TimesIn

\* A prompt that is appended shows its messages once more, and the others as
\* often as before.
LEMMA StoredPrompt ==
  ASSUME NEW h \in Seq(Items), NEW ids \in SUBSET Messages
  PROVE  LET g == Append(h, Prompt(ids)) IN
           /\ g \in Seq(Items)
           /\ IdsOf(g) = IdsOf(h) \cup ids
           /\ \A m : m \notin ids => TimesIn(g, m) = TimesIn(h, m)
           /\ \A m : TimesIn(g, m) <= TimesIn(h, m) + 1
           /\ \A m : ShownIn(g, m) => ShownIn(h, m) \/ m \in ids
           /\ PairsIn(h) => PairsIn(g)
<1> DEFINE g == Append(h, Prompt(ids))
           n == Len(h) + 1
<1>1. Prompt(ids) \in Items
  BY RunInjectionAssumption DEF Prompt, Items
<1>2. /\ g \in Seq(Items)
      /\ DOMAIN h = 1..Len(h) /\ DOMAIN g = 1..n /\ Len(h) \in Nat
      /\ g[n] = Prompt(ids) /\ \A i \in DOMAIN h : g[i] = h[i]
  BY <1>1
<1>3. Prompt(ids).ids = ids /\ Prompt(ids).kind = "prompt"
  BY DEF Prompt
<1> HIDE DEF g
<1>4. DOMAIN g = DOMAIN h \cup {n} /\ n \notin DOMAIN h
  BY <1>2
<1>5. IdsOf(g) = IdsOf(h) \cup ids
  BY <1>2, <1>3, <1>4 DEF IdsOf
<1>6. ASSUME NEW m, m \notin ids PROVE Places(g, m) = Places(h, m)
  BY <1>2, <1>3, <1>4, <1>6 DEF Places
<1>7. ASSUME NEW m, m \in ids PROVE Places(g, m) = Places(h, m) \cup {n}
  BY <1>2, <1>3, <1>4, <1>7 DEF Places
<1>8. ASSUME NEW m PROVE TimesIn(g, m) <= TimesIn(h, m) + 1
  <2>1. IsFiniteSet(Places(h, m)) /\ TimesIn(h, m) \in Nat
    BY PlacesFinite
  <2>2. CASE m \in ids
    <3>1. n \notin Places(h, m)
      BY <1>4 DEF Places
    <3>2. Cardinality(Places(h, m) \cup {n}) = Cardinality(Places(h, m)) + 1
      BY <2>1, <3>1, FS_AddElement
    <3>3. Places(g, m) = Places(h, m) \cup {n}
      BY <1>7, <2>2
    <3> QED
      BY <2>1, <3>2, <3>3 DEF TimesIn
  <2>3. CASE m \notin ids
    BY <1>6, <2>1, <2>3 DEF TimesIn
  <2> QED
    BY <2>2, <2>3
<1>9. \A m : ShownIn(g, m) => ShownIn(h, m) \/ m \in ids
  BY <1>2, <1>3, <1>4 DEF ShownIn
<1>10. PairsIn(h) => PairsIn(g)
  <2>1. HAVE PairsIn(h)
  <2>2. ASSUME NEW i \in DOMAIN h
        PROVE  /\ g[i].kind = "call" =>
                    i + 1 \in DOMAIN g /\ g[i + 1] = Result(g[i].n)
               /\ g[i].kind = "result" =>
                    i - 1 \in DOMAIN g /\ g[i - 1] = Call(g[i].n)
    BY <1>2, <1>4, <2>1, <2>2 DEF PairsIn
  <2>3. g[n].kind = "prompt"
    BY <1>2, <1>3
  <2> QED
    BY <1>4, <2>2, <2>3 DEF PairsIn
<1> QED
  BY <1>2, <1>5, <1>6, <1>8, <1>9, <1>10 DEF g, TimesIn

\* The complete part of a round of the model.
Rounds(n) == {<<>>, <<Answer(n)>>, <<Call(n), Result(n)>>}

\* What the loop buffers in an iteration is a sequence.
LEMMA RoundsAreSeqs ==
  ASSUME NEW n, NEW S, Answer(n) \in S, Call(n) \in S, Result(n) \in S
  PROVE  Rounds(n) \cup {<<Call(n)>>} \subseteq Seq(S)
<1>1. \A x, y \in S : <<>> \in Seq(S) /\ <<x>> \in Seq(S) /\ <<x, y>> \in Seq(S)
  OBVIOUS
<1> QED
  BY <1>1 DEF Rounds

\* What is committed shows no message, and no call without its result.
LEMMA StoredRound ==
  ASSUME NEW h \in Seq(Items), NEW n \in 0..MaxRequests, NEW c \in Rounds(n)
  PROVE  LET g == h \o c IN
           /\ g \in Seq(Items)
           /\ IdsOf(g) = IdsOf(h)
           /\ \A m : TimesIn(g, m) = TimesIn(h, m)
           /\ \A m : ShownIn(g, m) => ShownIn(h, m)
           /\ PairsIn(h) => PairsIn(g)
<1> DEFINE g == h \o c
           D == DOMAIN g \ DOMAIN h
<1>1. c \in Seq(Items)
  <2>1. /\ Answer(n) \in Items /\ Call(n) \in Items /\ Result(n) \in Items
    BY DEF Answer, Call, Result, Items
  <2> QED
    BY <2>1, RoundsAreSeqs
<1>2. /\ g \in Seq(Items)
      /\ DOMAIN h = 1..Len(h) /\ DOMAIN g = 1..(Len(h) + Len(c))
      /\ Len(h) \in Nat /\ Len(c) \in {0, 1, 2}
      /\ \A i \in DOMAIN h : g[i] = h[i]
      /\ \A i \in D : g[i] = c[i - Len(h)]
  BY <1>1 DEF Rounds
<1>3. \A i \in D : g[i].ids = {} /\ g[i].kind # "prompt"
  BY <1>2 DEF Rounds, Answer, Call, Result
<1>4. \/ c = <<>>
      \/ Len(c) = 1 /\ g[Len(h) + 1] = Answer(n)
      \/ Len(c) = 2 /\ g[Len(h) + 1] = Call(n) /\ g[Len(h) + 2] = Result(n)
  <2>1. CASE c = <<Answer(n)>>
    BY <1>1, <2>1
  <2>2. CASE c = <<Call(n), Result(n)>>
    BY <1>1, <2>2
  <2> QED
    BY <2>1, <2>2 DEF Rounds
<1>5. DOMAIN h \subseteq DOMAIN g
  BY <1>2
<1> HIDE DEF g
<1>6. IdsOf(g) = IdsOf(h)
  BY <1>2, <1>3, <1>5 DEF IdsOf
<1>7. \A m : Places(g, m) = Places(h, m)
  BY <1>2, <1>3, <1>5 DEF Places
<1>8. \A m : ShownIn(g, m) => ShownIn(h, m)
  BY <1>2, <1>3, <1>5 DEF ShownIn
<1>9. PairsIn(h) => PairsIn(g)
  <2>1. HAVE PairsIn(h)
  <2>2. ASSUME NEW i \in DOMAIN h
        PROVE  /\ g[i].kind = "call" =>
                    i + 1 \in DOMAIN g /\ g[i + 1] = Result(g[i].n)
               /\ g[i].kind = "result" =>
                    i - 1 \in DOMAIN g /\ g[i - 1] = Call(g[i].n)
    BY <1>2, <1>5, <2>1, <2>2 DEF PairsIn
  <2>3. ASSUME NEW i \in D
        PROVE  /\ g[i].kind = "call" =>
                    i + 1 \in DOMAIN g /\ g[i + 1] = Result(g[i].n)
               /\ g[i].kind = "result" =>
                    i - 1 \in DOMAIN g /\ g[i - 1] = Call(g[i].n)
    <3>1. CASE c = <<>>
      BY <1>2, <2>3, <3>1
    <3>2. CASE Len(c) = 1 /\ g[Len(h) + 1] = Answer(n)
      <4>1. g[i] = Answer(n)
        BY <1>2, <2>3, <3>2
      <4> QED
        BY <4>1 DEF Answer
    <3>3. CASE /\ Len(c) = 2
               /\ g[Len(h) + 1] = Call(n) /\ g[Len(h) + 2] = Result(n)
      <4>1. CASE i = Len(h) + 1
        BY <1>2, <3>3, <4>1 DEF Call
      <4>2. CASE i = Len(h) + 2
        <5>1. g[i] = Result(n) /\ g[i - 1] = Call(n) /\ i - 1 \in DOMAIN g
          BY <1>2, <3>3, <4>2
        <5> QED
          BY <5>1 DEF Result
      <4> QED
        BY <1>2, <2>3, <3>3, <4>1, <4>2
    <3> QED
      BY <1>4, <3>1, <3>2, <3>3
  <2> QED
    BY <2>2, <2>3 DEF PairsIn
<1> QED
  BY <1>2, <1>6, <1>7, <1>8, <1>9 DEF g, TimesIn

\* Everything that is buffered is committed, but for a call that waits.
LEMMA Committable ==
  ASSUME NEW n, NEW s \in Rounds(n) \cup {<<Call(n)>>}
  PROVE  /\ SubSeq(s, 1, SafeLength(s)) =
              IF s = <<Call(n)>> THEN <<>> ELSE s
         /\ SubSeq(s, SafeLength(s) + 1, Len(s)) =
              IF s = <<Call(n)>> THEN s ELSE <<>>
         /\ HasPendingCalls(s) <=> s = <<Call(n)>>
<1> DEFINE Safe(i) == /\ OpenCalls(s, i) = {}
                      /\ \A j \in (i + 1)..Len(s) : OpenCalls(s, j) # {}
<1>1. OpenCalls(s, 0) = {}
  BY DEF OpenCalls
<1>2. /\ s \in Seq({Call(n), Result(n), Answer(n)}) /\ Len(s) \in Nat
      /\ SubSeq(s, 1, Len(s)) = s
      /\ SubSeq(s, 1, 0) = <<>> /\ SubSeq(s, Len(s) + 1, Len(s)) = <<>>
  <2>1. s \in Seq({Call(n), Result(n), Answer(n)})
    BY RoundsAreSeqs
  <2> QED
    BY <2>1, SubSeqFull, SubSeqEmpty
<1>3. CASE s \in Rounds(n)
  <2>1. OpenCalls(s, Len(s)) = {} /\ s # <<Call(n)>>
    <3>1. CASE s = <<>>
      BY <1>1, <3>1
    <3>2. CASE s = <<Answer(n)>>
      BY <3>2 DEF OpenCalls, Answer, Call
    <3>3. CASE s = <<Call(n), Result(n)>>
      BY <3>3 DEF OpenCalls, Call, Result
    <3> QED
      BY <1>3, <3>1, <3>2, <3>3 DEF Rounds
  <2>2. Safe(Len(s)) /\ Len(s) \in 0..Len(s)
    BY <1>2, <2>1
  <2>3. ASSUME NEW i \in 0..Len(s), Safe(i) PROVE i = Len(s)
    <3>1. CASE i < Len(s)
      <4>1. Len(s) \in (i + 1)..Len(s)
        BY <1>2, <3>1
      <4> QED
        BY <2>1, <2>3, <4>1, Zenon
    <3>2. Len(s) \in Nat
      BY <1>2
    <3> HIDE DEF Safe
    <3> QED
      BY <3>1, <3>2
  <2>4. SafeLength(s) = Len(s)
    BY <2>2, <2>3 DEF SafeLength
  <2>5. ~HasPendingCalls(s)
    BY <1>2, <2>4 DEF HasPendingCalls
  <2>6. /\ SubSeq(s, 1, SafeLength(s)) = s
        /\ SubSeq(s, SafeLength(s) + 1, Len(s)) = <<>>
    BY <1>2, <2>4
  <2> QED
    BY <2>1, <2>5, <2>6, Zenon
<1>4. CASE s = <<Call(n)>>
  <2>1. n \in OpenCalls(s, 1) /\ Len(s) = 1
    BY <1>4 DEF OpenCalls, Call
  <2>2. \A i \in 0..Len(s) : Safe(i) <=> i = 0
    BY <1>1, <2>1
  <2>3. SafeLength(s) = 0
    BY <2>1, <2>2 DEF SafeLength
  <2>4. HasPendingCalls(s)
    BY <2>1, <2>3 DEF HasPendingCalls
  <2>5. /\ SubSeq(s, 1, SafeLength(s)) = <<>>
        /\ SubSeq(s, SafeLength(s) + 1, Len(s)) = s
    BY <1>2, <2>3
  <2> QED
    BY <1>4, <2>4, <2>5, Zenon
<1> QED
  BY <1>3, <1>4

-----------------------------------------------------------------------------
(* What a step does to the conversation *)

\* The step stores a prompt with these messages, or nothing about any.
Shows(ids) ==
  /\ history' \in Seq(Items)
  /\ IdsOf(history') = IdsOf(history) \cup ids
  /\ \A m : m \notin ids => Times(m)' = Times(m)
  /\ \A m : Times(m)' <= Times(m) + 1
  /\ \A m : Shown(m)' => Shown(m) \/ m \in ids
  /\ PairsIntact => PairsIntact'

\* The same of the conversation behind a step.
LEMMA InNextHistory ==
  /\ PairsIntact' <=> PairsIn(history')
  /\ \A m : Times(m)' = TimesIn(history', m)
  /\ \A m : Shown(m)' <=> ShownIn(history', m)
BY DEF PairsIntact, PairsIn, Times, TimesIn, Places, Shown, ShownIn

\* A step that leaves the conversation alone shows nothing,
LEMMA ShowsNothing ==
  ASSUME history \in Seq(Items), history' = history
  PROVE  Shows({})
<1>1. \A m : TimesIn(history, m) <= TimesIn(history, m) + 1
  BY PlacesFinite
<1> QED
  BY <1>1, InHistory, InNextHistory DEF Shows

\* one that appends a prompt shows the messages of the prompt,
LEMMA ShowsPrompt ==
  ASSUME history \in Seq(Items), NEW ids \in SUBSET Messages,
         history' = Append(history, Prompt(ids))
  PROVE  Shows(ids)
BY StoredPrompt, InHistory, InNextHistory DEF Shows

\* also if it leaves a prompt out that is the last item already,
LEMMA ShowsIfMissing ==
  ASSUME history \in Seq(Items), NEW ids \in SUBSET Messages,
         history' = AppendIfMissing(ids)
  PROVE  Shows(ids)
<1>1. CASE history # <<>> /\ history[Len(history)] = Prompt(ids)
  <2>1. history' = history
    BY <1>1 DEF AppendIfMissing
  <2>2. Shows({})
    BY <2>1, ShowsNothing
  <2>3. Len(history) \in DOMAIN history
    BY <1>1
  <2>4. ids \subseteq IdsOf(history)
    BY <1>1, <2>3 DEF IdsOf, Prompt
  <2> QED
    BY <2>2, <2>4 DEF Shows
<1>2. CASE ~(history # <<>> /\ history[Len(history)] = Prompt(ids))
  <2>1. history' = Append(history, Prompt(ids))
    BY <1>2 DEF AppendIfMissing
  <2> QED
    BY <2>1, ShowsPrompt
<1> QED
  BY <1>1, <1>2

\* and one that commits what the loop has buffered shows nothing.
LEMMA ShowsCommitted ==
  ASSUME history \in Seq(Items), requests \in 0..MaxRequests,
         buffered \in Rounds(requests) \cup {<<Call(requests)>>},
         history' = history \o SubSeq(buffered, 1, SafeLength(buffered))
  PROVE  Shows({})
<1> DEFINE c == SubSeq(buffered, 1, SafeLength(buffered))
<1>1. c \in Rounds(requests)
  <2>1. c = IF buffered = <<Call(requests)>> THEN <<>> ELSE buffered
    BY Committable
  <2> HIDE DEF c
  <2> QED
    BY <2>1 DEF Rounds
<1> HIDE DEF c
<1> DEFINE g == history \o c
<1>2. /\ g \in Seq(Items) /\ IdsOf(g) = IdsOf(history)
      /\ \A m : TimesIn(g, m) = TimesIn(history, m)
      /\ \A m : ShownIn(g, m) => ShownIn(history, m)
      /\ PairsIn(history) => PairsIn(g)
  BY <1>1, StoredRound
<1>3. history' = g
  BY DEF c
<1> HIDE DEF g
<1>4. \A m : TimesIn(history, m) <= TimesIn(history, m) + 1
  BY PlacesFinite
<1>5. history' \in Seq(Items) /\ IdsOf(history') = IdsOf(history) \cup {}
  BY <1>2, <1>3
<1>6. \A m : Times(m)' = Times(m) /\ Times(m)' <= Times(m) + 1
  BY <1>2, <1>3, <1>4, InHistory, InNextHistory
<1>7. /\ \A m : Shown(m)' => Shown(m)
      /\ PairsIntact => PairsIntact'
  BY <1>2, <1>3, InHistory, InNextHistory
<1> QED
  BY <1>5, <1>6, <1>7 DEF Shows

-----------------------------------------------------------------------------
(* What a step does to the queue and the batch *)

\* A step that takes p into the turn and leaves nothing of it in the queue.
Takes(p) ==
  /\ p \subseteq queue
  /\ queue' \subseteq queue \ p
  /\ batch = {} /\ batch' = Coalesce(p)

\* Taking a part of the queue as a batch keeps each message in one entry.
LEMMA TakesLemma ==
  ASSUME TypeOK, EntriesOK, NEW p, Takes(p)
  PROVE  /\ queue' \subseteq Entries /\ batch' \subseteq Entries
         /\ Kinds(queue)' /\ Kinds(batch)' /\ Disjoint(queue)' /\ Disjoint(batch)'
         /\ IdsIn(queue') \cap IdsIn(batch') = {}
         /\ \A d, e \in Users(batch)' : d = e
         /\ IdsIn(batch') = IdsIn(p)
         /\ batch' = {} <=> p = {}
<1>1. /\ queue \in SUBSET Entries /\ Kinds(queue) /\ Disjoint(queue)
      /\ p \in SUBSET queue /\ queue' \in SUBSET queue
      /\ queue' \subseteq queue \ p /\ batch' = Coalesce(p)
  BY DEF TypeOK, EntriesOK, Takes
<1>2. /\ p \in SUBSET Entries /\ Kinds(p) /\ Disjoint(p)
      /\ IdsIn(p) \cap IdsIn(queue \ p) = {}
  BY <1>1, PartLemma
<1>3. queue' \subseteq Entries /\ Kinds(queue') /\ Disjoint(queue')
  BY <1>1, PartLemma
<1>4. IdsIn(queue') \subseteq IdsIn(queue \ p)
  BY <1>1 DEF IdsIn
<1>5. /\ batch' \subseteq Entries /\ Kinds(batch') /\ Disjoint(batch')
      /\ IdsIn(batch') = IdsIn(p)
      /\ batch' = {} <=> p = {}
      /\ \A d, e \in Users(batch') : d = e
  BY <1>1, <1>2, CoalesceLemma
<1> QED
  BY <1>2, <1>3, <1>4, <1>5 DEF Kinds, Disjoint, Users

\* Every drain takes the part of the queue that it is for, and all of it.
LEMMA Drains ==
  ASSUME TypeOK, EntriesOK
  PROVE  /\ Interrupt => /\ Takes(Forced(queue))
                         /\ queue' = queue \ Forced(queue)
                         /\ Forced(queue) # {} /\ pc' = "apply"
         /\ Boot => /\ Takes(Reminding(queue)) /\ queue' = Users(queue)
                    /\ pc' = IF batch' = {} THEN "top" ELSE "publish"
         /\ TopDrain => /\ Takes(queue) /\ queue' = {}
                        /\ pc' = "apply" /\ queue # {} /\ UNCHANGED gone
         /\ BoundaryDrain =>
              \E p \in {queue, Users(queue)} :
                /\ Takes(p) /\ queue' = {}
                /\ gone' = gone \cup (IdsIn(queue) \ IdsIn(p))
                /\ pc' = IF p # {} THEN "apply" ELSE "final"
                /\ p # queue => resp = "answer"
                /\ queue # {}
<1>1. pc \notin InHand => batch = {}
  BY DEF EntriesOK
<1>2. /\ Forced(queue) \subseteq queue /\ Users(queue) \subseteq queue
      /\ Reminding(queue) \subseteq queue
  BY DEF Forced, Users, Reminding
<1>3. ASSUME Interrupt
      PROVE  /\ Takes(Forced(queue)) /\ queue' = queue \ Forced(queue)
             /\ Forced(queue) # {} /\ pc' = "apply"
  BY <1>1, <1>2, <1>3
     DEF Interrupt, DrainInterrupt, Interruptible, InHand, Takes
<1>4. ASSUME Boot
      PROVE  /\ Takes(Reminding(queue)) /\ queue' = Users(queue)
             /\ pc' = IF batch' = {} THEN "top" ELSE "publish"
  <2>1. Coalesce(Reminding(queue)) = Reminding(queue)
    BY DEF Coalesce, Reminding, Users
  <2>2. Users(queue) \subseteq queue \ Reminding(queue)
    BY DEF Reminding, Users
  <2> QED
    BY <1>1, <1>2, <1>4, <2>1, <2>2 DEF Boot, Takes, InHand
<1>5. ASSUME TopDrain
      PROVE  /\ Takes(queue) /\ queue' = {} /\ pc' = "apply" /\ queue # {}
             /\ UNCHANGED gone
  BY <1>1, <1>5 DEF TopDrain, DrainAll, Takes, InHand
<1>6. ASSUME BoundaryDrain
      PROVE  \E p \in {queue, Users(queue)} :
               /\ Takes(p) /\ queue' = {}
               /\ gone' = gone \cup (IdsIn(queue) \ IdsIn(p))
               /\ pc' = IF p # {} THEN "apply" ELSE "final"
               /\ p # queue => resp = "answer"
               /\ queue # {}
  <2> DEFINE p == IF resp = "answer" THEN Users(queue) ELSE queue
  <2>1. /\ p \in {queue, Users(queue)} /\ p \subseteq queue
        /\ p # queue => resp = "answer"
    BY <1>2
  <2>2. /\ queue' = {} /\ queue # {} /\ batch' = Coalesce(p) /\ batch = {}
        /\ gone' = gone \cup (IdsIn(queue) \ IdsIn(p))
        /\ pc' = IF p # {} THEN "apply" ELSE "final"
    BY <1>1, <1>6 DEF BoundaryDrain, DrainAll, InHand
  <2> HIDE DEF p
  <2> QED
    BY <2>1, <2>2 DEF Takes
<1> QED
  BY <1>3, <1>4, <1>5, <1>6

\* A handler adds the entry of one new message.
Adds(m) ==
  /\ active /\ active' = active
  /\ m \in Messages \ sent /\ sent' = sent \cup {m}
  /\ \E force \in BOOLEAN :
       /\ queue' = queue \cup {Entry({m}, KindOf(m), force)}
       /\ force => m \in Injects
       /\ order' = IF m \in Injects /\ ~force THEN Append(order, m) ELSE order
  /\ late' = IF pc \in Answered THEN late \cup {m} ELSE late
  /\ UNCHANGED <<pc, batch, announced, gone, view>>

\* What a handler does: it adds a message, or stores a follow-up only.
LEMMA Sends ==
  ASSUME NEW m \in Messages, Send(m)
  PROVE  \/ Adds(m)
         \/ /\ AppendFollowup(m) /\ m \in Messages \ sent
            /\ sent' = sent \cup {m}
            /\ UNCHANGED <<active, queue, pc, batch, announced, gone, view, late,
                           order>>
<1> USE RunInjectionAssumption
<1>1. CASE Inject(m)
  BY <1>1 DEF Inject, Accept, Adds, loop
<1>2. CASE Remind(m)
  <2>1. m \notin Injects
    BY <1>2 DEF Remind
  <2> QED
    BY <1>2, <2>1 DEF Remind, Accept, Adds, loop
<1>3. CASE AppendFollowup(m)
  <2>1. m \notin Injects
    BY <1>3 DEF AppendFollowup
  <2> QED
    BY <1>3, <2>1 DEF AppendFollowup, Accept, Adds, loop
<1> QED
  BY <1>1, <1>2, <1>3 DEF Send

\* The other steps that leave queue and batch alone.
Still ==
  \/ ApplyCommit \/ Publish \/ Rebuild \/ TopPass \/ RestartIteration
  \/ StartRequest \/ Respond \/ ToolsReturn \/ CommitReady \/ BoundaryPending
  \/ BoundaryPass \/ AcceptAnswer \/ RetryAttempt \/ MarkEnded \/ AutoRecover
  \/ UNCHANGED vars

\* The kinds of steps.
LEMMA NextCases ==
  ASSUME [Next]_vars
  PROVE  \/ \E m \in Messages : Send(m)
         \/ ForceQueued \/ Interrupt \/ Boot \/ TopDrain \/ BoundaryDrain
         \/ AppendPrompt \/ Fail \/ Deactivate \/ Still
BY DEF Next, Apply, Turn, Still

\* What the steps that take no message and give none up leave as it is.
LEMMA StillLemma ==
  ASSUME Still
  PROVE  /\ UNCHANGED <<active, queue, batch, sent, gone, order>>
         /\ pc' \in InHand <=> pc \in InHand
         /\ late' \in {late, {}}
         /\ announced' = IF pc = "publish" /\ Publish
                         THEN announced \cup First(batch).ids ELSE announced
         /\ pc' = "append" => pc = "append" \/ Publish
<1> USE DEF ApplyCommit, Publish, Rebuild, RebuildContext, TopPass,
            RestartIteration, StartRequest, Respond, ToolsReturn, CommitReady,
            BoundaryPending, BoundaryPass, AcceptAnswer, RetryAttempt,
            MarkEnded, AutoRecover, vars, loop
<1>1. /\ UNCHANGED <<active, queue, batch, sent, gone, order>>
      /\ pc' \in InHand <=> pc \in InHand
      /\ late' \in {late, {}}
      /\ announced' = IF pc = "publish" /\ Publish
                      THEN announced \cup First(batch).ids ELSE announced
  BY DEF Still, InHand
<1>2. ASSUME Publish
      PROVE  pc = "publish"
  BY <1>2
<1>3. ASSUME \/ ApplyCommit \/ Rebuild \/ TopPass \/ RestartIteration
             \/ StartRequest \/ Respond \/ ToolsReturn \/ CommitReady
      PROVE  pc' # "append"
  BY <1>3
<1>4. ASSUME \/ BoundaryPending \/ BoundaryPass \/ AcceptAnswer
             \/ RetryAttempt \/ MarkEnded \/ AutoRecover
      PROVE  pc' # "append"
  BY <1>4
<1>5. ASSUME UNCHANGED vars
      PROVE  pc' = pc
  BY <1>5
<1> HIDE DEF ApplyCommit, Publish, Rebuild, RebuildContext, TopPass,
             RestartIteration, StartRequest, Respond, ToolsReturn, CommitReady,
             BoundaryPending, BoundaryPass, AcceptAnswer, RetryAttempt,
             MarkEnded, AutoRecover, vars, loop
<1>6. pc' = "append" => pc = "append" \/ Publish
  BY <1>2, <1>3, <1>4, <1>5 DEF Still
<1> QED
  BY <1>1, <1>6

\* The context is kept, read again, or given up for a new attempt.
LEMMA StillView ==
  ASSUME Still
  PROVE  /\ view' \in {view, IdsOf(history), {}}
         /\ \/ pc' = "boot"
            \/ view' = IdsOf(history) /\ history' = history
            \/ /\ view' = view
               /\ history' = history \/ ApplyCommit \/ CommitReady
               /\ pc' \in Current => pc \in Current
BY DEF Still, ApplyCommit, Publish, Rebuild, RebuildContext, TopPass,
       RestartIteration, StartRequest, Respond, ToolsReturn, CommitReady,
       BoundaryPending, BoundaryPass, AcceptAnswer, RetryAttempt, MarkEnded,
       AutoRecover, vars, loop, Current

\* A step leaves what the conversation shows as it is, but for a follow-up
\* that is stored and the head of a batch that is shown.
LEMMA StepShows ==
  ASSUME TypeOK, EntriesOK, BufferOK
  PROVE  /\ \A m \in Messages : AppendFollowup(m) => Shows({m})
         /\ \A m \in Messages : Inject(m) \/ Remind(m) => Shows({})
         /\ AppendPrompt => Shows(First(batch).ids)
         /\ ForceQueued \/ Interrupt \/ Boot \/ TopDrain \/ BoundaryDrain
              => Shows({})
         /\ Fail \/ Deactivate \/ Still => Shows({})
<1>1. history \in Seq(Items) /\ requests \in 0..MaxRequests
  BY DEF TypeOK
<1>2. ASSUME NEW m \in Messages, AppendFollowup(m) PROVE Shows({m})
  BY <1>1, <1>2, ShowsPrompt DEF AppendFollowup
<1>3. ASSUME NEW m \in Messages, Inject(m) \/ Remind(m) PROVE Shows({})
  BY <1>1, <1>3, ShowsNothing DEF Inject, Remind
<1>4. ASSUME AppendPrompt PROVE Shows(First(batch).ids)
  <2>1. First(batch) \in Entries
    BY <1>4, FirstIn DEF AppendPrompt, TypeOK
  <2> QED
    BY <1>1, <1>4, <2>1, ShowsIfMissing DEF AppendPrompt, Entries
<1>5. ASSUME ForceQueued \/ Interrupt \/ Boot \/ TopDrain \/ BoundaryDrain
      PROVE  Shows({})
  <2>1. history' = history
    BY <1>5
       DEF ForceQueued, Interrupt, DrainInterrupt, Boot, TopDrain,
           BoundaryDrain
  <2> QED
    BY <1>1, <2>1, ShowsNothing
<1>6. ASSUME ApplyCommit \/ CommitReady PROVE Shows({})
  <2>1. buffered \in Rounds(requests) \cup {<<Call(requests)>>}
    BY <1>6 DEF ApplyCommit, CommitReady, BufferOK, Rounds, InHand
  <2> QED
    BY <1>1, <1>6, <2>1, ShowsCommitted DEF ApplyCommit, CommitReady
<1>7. ASSUME AutoRecover PROVE Shows({})
  BY <1>1, <1>7, ShowsPrompt DEF AutoRecover
<1>8. ASSUME Fail \/ Deactivate \/ Still, ~ApplyCommit, ~CommitReady,
             ~AutoRecover
      PROVE  Shows({})
  <2>1. history' = history
    BY <1>8
       DEF Fail, Deactivate, Still, Publish, Rebuild, TopPass,
           RestartIteration, StartRequest, Respond, ToolsReturn,
           BoundaryPending, BoundaryPass, AcceptAnswer, RetryAttempt,
           MarkEnded, vars
  <2> QED
    BY <1>1, <2>1, ShowsNothing
<1> QED
  BY <1>2, <1>3, <1>4, <1>5, <1>6, <1>7, <1>8

\* Every step keeps each message in one entry.
LEMMA EntriesStep ==
  ASSUME TypeOK, EntriesOK, SentOnly, [Next]_vars
  PROVE  EntriesOK'
<1> USE DEF EntriesOK
<1>1. ASSUME NEW m \in Messages, Send(m) PROVE EntriesOK'
  <2>1. CASE UNCHANGED <<queue, batch, pc>>
    BY <2>1 DEF Kinds, Disjoint, IdsIn, Users
  <2>2. CASE Adds(m)
    <3>0. PICK force \in BOOLEAN :
            /\ queue' = queue \cup {Entry({m}, KindOf(m), force)}
            /\ force => m \in Injects
      BY <2>2 DEF Adds
    <3> DEFINE e == Entry({m}, KindOf(m), force)
    <3>1. /\ queue' = queue \cup {e}
          /\ e.ids = {m} /\ e.kind = KindOf(m) /\ e.force = force
      BY <3>0 DEF Entry
    <3> HIDE DEF e
    <3>2. /\ m \notin IdsIn(queue) /\ m \notin IdsIn(batch)
          /\ batch' = batch /\ pc' = pc
      BY <2>2 DEF Adds, SentOnly, Pending
    <3>3. Kinds(queue')
      <4>1. CASE m \in Reminders
        BY <3>0, <3>1, <4>1, RunInjectionAssumption DEF Kinds, KindOf
      <4>2. CASE m \notin Reminders
        BY <3>1, <4>2 DEF Kinds, KindOf, Messages
      <4> QED
        BY <4>1, <4>2
    <3>4. Disjoint(queue')
      BY <3>1, <3>2 DEF Disjoint, IdsIn
    <3>5. IdsIn(queue') \cap IdsIn(batch) = {}
      BY <3>1, <3>2 DEF IdsIn
    <3> QED
      BY <3>2, <3>3, <3>4, <3>5 DEF Kinds, Disjoint, Users
  <2> QED
    BY <1>1, <2>1, <2>2, Sends
<1>2. CASE ForceQueued
  <2> DEFINE P == Promotable(queue)
             R == queue \ P
  <2>1. queue' = R \cup {Merged} /\ UNCHANGED <<batch, pc>>
    BY <1>2 DEF ForceQueued, loop
  <2>2. /\ Merged.ids = IdsIn(P) /\ Merged.kind = "user"
        /\ P \subseteq queue /\ R \subseteq queue
    BY DEF Merged, Entry, Promotable, Users
  <2>3. IdsIn(P) \subseteq Injects \cup Followups
    BY DEF Kinds, IdsIn, Promotable, Users
  <2> HIDE DEF P
  <2>4. /\ IdsIn(P) \cap IdsIn(R) = {}
        /\ IdsIn(P) \cup IdsIn(R) = IdsIn(queue)
    BY <2>2, PartLemma DEF TypeOK
  <2>5. Kinds(R) /\ Disjoint(R)
    BY <2>2 DEF Kinds, Disjoint
  <2> HIDE DEF R
  <2>6. Kinds(queue') /\ Disjoint(queue')
    <3>1. \A e \in R : e.ids \cap IdsIn(P) = {}
      BY <2>4 DEF IdsIn
    <3>2. Kinds(queue')
      BY <2>1, <2>2, <2>3, <2>5 DEF Kinds
    <3> QED
      BY <2>1, <2>2, <2>5, <3>1, <3>2 DEF Disjoint
  <2>7. IdsIn(queue') = IdsIn(queue)
    <3>1. IdsIn(queue') = IdsIn(R) \cup Merged.ids
      BY <2>1 DEF IdsIn
    <3> QED
      BY <2>2, <2>4, <3>1
  <2> QED
    BY <2>1, <2>6, <2>7 DEF Kinds, Disjoint, Users
<1>3. CASE Interrupt
  BY <1>3, Drains, TakesLemma DEF InHand
<1>4. CASE Boot
  BY <1>4, Drains, TakesLemma DEF InHand
<1>5. CASE TopDrain
  BY <1>5, Drains, TakesLemma DEF InHand
<1>6. CASE BoundaryDrain
  BY <1>6, Drains, TakesLemma DEF InHand
<1>7. CASE AppendPrompt
  <2>1. /\ queue' = queue /\ batch' \subseteq batch
        /\ pc' \in InHand <=> batch' # {}
    BY <1>7 DEF AppendPrompt, InHand
  <2>2. IdsIn(batch') \subseteq IdsIn(batch) /\ Users(batch') \subseteq Users(batch)
    BY <2>1 DEF IdsIn, Users
  <2> QED
    BY <2>1, <2>2 DEF Kinds, Disjoint, Users
<1>8. CASE Fail
  BY <1>8 DEF Fail, InHand, Kinds, Disjoint, IdsIn, Users
<1>9. CASE Deactivate
  BY <1>9 DEF Deactivate, InHand, Kinds, Disjoint, IdsIn, Users
<1>10. CASE Still
  BY <1>10, StillLemma DEF Kinds, Disjoint, IdsIn, Users
<1> QED
  BY <1>1, <1>2, <1>3, <1>4, <1>5, <1>6, <1>7, <1>8, <1>9, <1>10, NextCases

-----------------------------------------------------------------------------
(* The invariants, step by step *)

\* Appending to a sequence of one item gives a sequence of two.
LEMMA AppendToOne ==
  ASSUME NEW x, NEW y
  PROVE  Append(<<x>>, y) = <<x, y>>
<1> DEFINE s == Append(<<x>>, y)
           t == <<x, y>>
<1>1. /\ s \in Seq({x, y}) /\ t \in Seq({x, y})
      /\ Len(s) = 2 /\ Len(t) = 2
      /\ s[1] = x /\ s[2] = y /\ t[1] = x /\ t[2] = y
  OBVIOUS
<1> HIDE DEF s, t
<1>2. \A i \in 1..Len(s) : s[i] = t[i]
  BY <1>1
<1>3. s = t
  BY <1>1, <1>2, SeqEqual
<1> QED
  BY <1>3 DEF s, t

\* The loop buffers the round it is in, and nothing behind a restart.
LEMMA BufferStep ==
  ASSUME TypeOK, EntriesOK, BufferOK, [Next]_vars
  PROVE  BufferOK'
<1> USE DEF BufferOK, InHand
<1>1. ASSUME NEW m \in Messages, Send(m) PROVE BufferOK'
  BY <1>1 DEF Send, Inject, Remind, AppendFollowup, loop, bounds
<1>2. CASE ForceQueued
  BY <1>2 DEF ForceQueued, loop, bounds
<1>3. CASE Interrupt
  BY <1>3 DEF Interrupt, DrainInterrupt, Interruptible, bounds
<1>4. CASE Boot
  BY <1>4 DEF Boot, bounds
<1>5. CASE TopDrain
  BY <1>5 DEF TopDrain, DrainAll, bounds
<1>6. CASE AppendPrompt
  BY <1>6 DEF AppendPrompt, bounds
<1>7. CASE Fail \/ RetryAttempt \/ RestartIteration \/ Rebuild
  BY <1>7 DEF Fail, RetryAttempt, RestartIteration, Rebuild, RebuildContext
<1>8. CASE Deactivate \/ MarkEnded \/ AutoRecover
  BY <1>8 DEF Deactivate, MarkEnded, AutoRecover, bounds
<1>9. CASE TopPass \/ StartRequest \/ AcceptAnswer \/ Publish
  BY <1>9 DEF TopPass, StartRequest, AcceptAnswer, Publish, bounds
<1>10. CASE UNCHANGED vars
  BY <1>10 DEF vars, loop, bounds
<1>11. CASE ApplyCommit \/ CommitReady
  <2>1. buffered \in Rounds(requests) \cup {<<Call(requests)>>}
    BY <1>11 DEF ApplyCommit, CommitReady, Rounds
  <2>2. buffered' = IF buffered = <<Call(requests)>> THEN buffered ELSE <<>>
    BY <1>11, <2>1, Committable DEF ApplyCommit, CommitReady
  <2>3. /\ UNCHANGED <<requests, resp>>
        /\ \/ pc = "apply" /\ pc' = "publish"
           \/ pc = "commit" /\ pc' = "boundary"
    BY <1>11 DEF ApplyCommit, CommitReady, bounds
  <2>4. <<Answer(requests)>> # <<Call(requests)>>
    BY DEF Answer, Call
  <2>5. CASE pc = "apply"
    BY <2>2, <2>3, <2>5
  <2>6. CASE pc = "commit"
    BY <2>2, <2>3, <2>4, <2>6
  <2> QED
    BY <2>3, <2>5, <2>6
<1>12. ASSUME pc = "boundary"
       PROVE  HasPendingCalls(buffered) <=> buffered = <<Call(requests)>>
  <2>1. buffered \in Rounds(requests) \cup {<<Call(requests)>>}
    BY <1>12 DEF Rounds
  <2> QED
    BY <2>1, Committable
<1>13. CASE BoundaryPending
  BY <1>12, <1>13 DEF BoundaryPending, bounds
<1>14. CASE BoundaryPass
  BY <1>12, <1>14 DEF BoundaryPass, bounds
<1>15. CASE BoundaryDrain
  BY <1>12, <1>15 DEF BoundaryDrain, DrainAll, bounds
<1>16. CASE Respond
  <2>1. buffered = <<>> /\ requests' = requests
    BY <1>16 DEF Respond, bounds
  <2>2. \A x : Append(<<>>, x) = <<x>>
    OBVIOUS
  <2> QED
    BY <1>16, <2>1, <2>2 DEF Respond
<1>17. CASE ToolsReturn
  <2>1. buffered = <<Call(requests)>> /\ requests' = requests /\ resp' = resp
    BY <1>17 DEF ToolsReturn, bounds
  <2>2. \A x, y : Append(<<x>>, y) = <<x, y>>
    BY AppendToOne
  <2> QED
    BY <1>17, <2>1, <2>2 DEF ToolsReturn
<1> QED
  BY <1>1, <1>2, <1>3, <1>4, <1>5, <1>6, <1>7, <1>8, <1>9, <1>10, <1>11,
     <1>13, <1>14, <1>15, <1>16, <1>17, NextCases DEF Still

\* Where the messages are behind a step of each kind.
LEMMA AddsLemma ==
  ASSUME NEW m, Adds(m)
  PROVE  IdsIn(queue') = IdsIn(queue) \cup {m}
<1>1. PICK force \in BOOLEAN :
        queue' = queue \cup {Entry({m}, KindOf(m), force)}
  BY DEF Adds
<1>2. Entry({m}, KindOf(m), force).ids = {m}
  BY DEF Entry
<1> QED
  BY <1>1, <1>2 DEF IdsIn

\* A force changes entries of the queue, and keeps their messages.
LEMMA ForcesLemma ==
  ASSUME ForceQueued
  PROVE  /\ IdsIn(queue') = IdsIn(queue)
         /\ UNCHANGED <<batch, pc, sent, announced, gone, late, order, view>>
<1>1. queue' = (queue \ Promotable(queue)) \cup {Merged}
  BY DEF ForceQueued
<1>2. Merged.ids = IdsIn(Promotable(queue)) /\ Promotable(queue) \subseteq queue
  BY DEF Merged, Entry, Promotable, Users
<1>3. IdsIn(queue') = IdsIn(queue)
  BY <1>1, <1>2 DEF IdsIn
<1> QED
  BY <1>3 DEF ForceQueued, loop

\* What is taken as a batch leaves the queue.
LEMMA TakesIds ==
  ASSUME TypeOK, EntriesOK, NEW p, Takes(p)
  PROVE  /\ IdsIn(batch') = IdsIn(p) /\ IdsIn(p) \subseteq IdsIn(queue)
         /\ IdsIn(queue') \subseteq IdsIn(queue) \ IdsIn(p)
         /\ IdsIn(batch) = {}
<1>1. /\ p \subseteq queue /\ queue' \subseteq queue /\ batch = {}
  BY DEF Takes
<1>2. IdsIn(p) \subseteq IdsIn(queue) /\ IdsIn(queue') \subseteq IdsIn(queue)
  BY <1>1 DEF IdsIn
<1>3. IdsIn(batch') = IdsIn(p) /\ IdsIn(queue') \cap IdsIn(batch') = {}
  BY TakesLemma
<1> QED
  BY <1>1, <1>2, <1>3 DEF IdsIn

\* The entry that is applied next leaves the others in the batch.
LEMMA HeadLemma ==
  ASSUME TypeOK, EntriesOK, pc \in InHand
  PROVE  /\ First(batch) \in batch /\ First(batch) \in Entries
         /\ First(batch).ids \subseteq IdsIn(batch)
         /\ IdsIn(batch \ {First(batch)}) = IdsIn(batch) \ First(batch).ids
<1>1. First(batch) \in batch /\ batch \subseteq Entries
  BY FirstIn DEF EntriesOK, TypeOK
<1>2. \A e \in batch \ {First(batch)} : e.ids \cap First(batch).ids = {}
  BY <1>1 DEF EntriesOK, Disjoint
<1> QED
  BY <1>1, <1>2 DEF IdsIn

\* The ways of the messages: each step adds one, regroups those in the queue,
\* takes some into the batch and gives some up, or shows some.
LEMMA StepIds ==
  ASSUME TypeOK, EntriesOK, [Next]_vars
  PROVE  \/ \E m \in Messages : Send(m)
         \/ ForceQueued
         \/ \E p : /\ Takes(p) /\ UNCHANGED <<sent, announced, order>>
                   /\ pc' # "append" /\ late' \in {late, {}}
                   /\ \/ gone' = gone
                      \/ BoundaryDrain /\ queue' = {}
                         /\ gone' = gone \cup (IdsIn(queue) \ IdsIn(p))
         \/ AppendPrompt
         \/ Fail
         \/ Deactivate
         \/ Still
<1>1. CASE Interrupt
  <2>1. UNCHANGED <<sent, announced, order, gone>> /\ late' = {}
    BY <1>1 DEF Interrupt, DrainInterrupt
  <2> QED
    BY <1>1, <2>1, Drains
<1>2. CASE Boot
  <2>1. UNCHANGED <<sent, announced, order, gone, late>>
    BY <1>2 DEF Boot
  <2>2. pc' # "append"
    BY <1>2 DEF Boot
  <2> QED
    BY <1>2, <2>1, <2>2, Drains
<1>3. CASE TopDrain
  <2>1. UNCHANGED <<sent, announced, order, late>>
    BY <1>3 DEF TopDrain
  <2> QED
    BY <1>3, <2>1, Drains
<1>4. CASE BoundaryDrain
  <2>1. UNCHANGED <<sent, announced, order, late>>
    BY <1>4 DEF BoundaryDrain
  <2>2. pc' # "append"
    BY <1>4 DEF BoundaryDrain, DrainAll
  <2> QED
    BY <1>4, <2>1, <2>2, Drains
<1> QED
  BY <1>1, <1>2, <1>3, <1>4, NextCases

\* Only what was sent is anywhere behind every step.
LEMMA SentStep ==
  ASSUME TypeOK, EntriesOK, BufferOK, SentOnly, [Next]_vars
  PROVE  SentOnly'
<1> USE DEF SentOnly, Pending
<1>1. ASSUME NEW m \in Messages, Send(m) PROVE SentOnly'
  <2>1. IsFiniteSet(sent \cup {m})
    BY FS_AddElement
  <2>2. IdsOf(history') \subseteq IdsOf(history) \cup {m}
    <3>1. CASE AppendFollowup(m)
      <4>1. history \in Seq(Items) /\ history' = Append(history, Prompt({m}))
        BY <3>1 DEF AppendFollowup, TypeOK
      <4>2. Shows({m})
        BY <4>1, ShowsPrompt
      <4> QED
        BY <4>2 DEF Shows
    <3>2. CASE Inject(m) \/ Remind(m)
      BY <3>2 DEF Inject, Remind
    <3> QED
      BY <1>1, <3>1, <3>2 DEF Send
  <2>3. CASE Adds(m)
    <3>1. /\ m \notin sent /\ sent' = sent \cup {m}
          /\ late' \subseteq late \cup {m}
          /\ UNCHANGED <<pc, batch, announced, gone>>
      BY <2>3 DEF Adds
    <3>2. \A i \in DOMAIN order' : order'[i] \in Injects \cap sent'
      BY <2>3 DEF Adds, TypeOK
    <3>3. IdsIn(queue') = IdsIn(queue) \cup {m} /\ IdsIn(batch') = IdsIn(batch)
      BY <2>3, <3>1, AddsLemma
    <3> QED
      BY <2>1, <2>2, <3>1, <3>2, <3>3
  <2>4. CASE /\ m \in Messages \ sent /\ sent' = sent \cup {m}
             /\ UNCHANGED <<queue, pc, batch, announced, gone, view, late, order>>
    BY <2>1, <2>2, <2>4
  <2> QED
    BY <1>1, <2>3, <2>4, Sends
<1>2. CASE ForceQueued
  <2>1. history' = history
    BY <1>2 DEF ForceQueued
  <2> QED
    BY <1>2, <2>1, ForcesLemma
<1>3. ASSUME NEW p, Takes(p), UNCHANGED <<sent, announced, order>>,
             pc' # "append", late' \in {late, {}}, history' = history,
             \/ gone' = gone
             \/ queue' = {} /\ gone' = gone \cup (IdsIn(queue) \ IdsIn(p))
      PROVE  SentOnly'
  <2>1. IdsIn({}) = {}
    BY DEF IdsIn
  <2> QED
    BY <1>3, <2>1, TakesIds
<1>4. CASE AppendPrompt
  <2>1. /\ pc = "append" /\ pc' # "append"
        /\ batch' = batch \ {First(batch)}
        /\ UNCHANGED <<queue, sent, announced, gone, late, order>>
    BY <1>4 DEF AppendPrompt
  <2>2. /\ First(batch).ids \subseteq IdsIn(batch)
        /\ IdsIn(batch') \subseteq IdsIn(batch)
    BY <2>1, HeadLemma DEF InHand
  <2>3. IdsOf(history') = IdsOf(history) \cup First(batch).ids
    BY <1>4, StepShows DEF Shows
  <2> QED
    BY <2>1, <2>2, <2>3
<1>5. CASE Fail
  <2>1. IdsIn(batch') = {}
    BY <1>5 DEF Fail, IdsIn
  <2> QED
    BY <1>5, <2>1 DEF Fail, EntriesOK
<1>6. CASE Deactivate
  <2>1. IdsIn(queue') = {}
    BY <1>6 DEF Deactivate, IdsIn
  <2>2. IdsIn(batch) = {}
    BY <1>6 DEF Deactivate, EntriesOK, InHand, IdsIn
  <2> QED
    BY <1>6, <2>1, <2>2 DEF Deactivate
<1>7. CASE Still
  <2>1. /\ UNCHANGED <<queue, batch, sent, gone, order>>
        /\ late' \in {late, {}}
        /\ announced' = IF pc = "publish" /\ Publish
                        THEN announced \cup First(batch).ids ELSE announced
    BY <1>7, StillLemma
  <2>2. IdsOf(history') = IdsOf(history)
    BY <1>7, StepShows DEF Shows
  <2>3. pc' = "append" => pc = "append" \/ Publish
    BY <1>7, StillLemma
  <2>4. Publish => pc = "publish"
    BY DEF Publish
  <2>5. pc = "publish" => First(batch).ids \subseteq IdsIn(batch)
    BY HeadLemma DEF InHand
  <2>6. IdsIn(queue) \cap IdsIn(batch) = {}
    BY DEF EntriesOK
  <2> QED
    BY <2>1, <2>2, <2>3, <2>4, <2>5, <2>6
<1> QED
  <2>1. ASSUME Interrupt \/ Boot \/ TopDrain \/ BoundaryDrain
        PROVE  history' = history
    BY <2>1
       DEF Interrupt, DrainInterrupt, Boot, TopDrain, BoundaryDrain
  <2> QED
    BY <1>1, <1>2, <1>3, <1>4, <1>5, <1>6, <1>7, <2>1, StepIds, NextCases

\* Every step keeps the types.
LEMMA TypeStep ==
  ASSUME TypeOK, EntriesOK, BufferOK, SentOnly, [Next]_vars
  PROVE  TypeOK'
<1> USE DEF TypeOK
<1>1. queue' \subseteq Entries /\ batch' \subseteq Entries
  <2>1. \A ids \in SUBSET Messages : \A kind \in {"user", "reminder"} :
          \A force \in BOOLEAN : Entry(ids, kind, force) \in Entries
    BY FS_CardinalityType DEF Entry, Entries, SentOnly
  <2>2. ASSUME NEW m \in Messages, Send(m)
        PROVE  queue' \subseteq Entries /\ batch' = batch
    <3>1. CASE Adds(m)
      <4>1. PICK force \in BOOLEAN :
              queue' = queue \cup {Entry({m}, KindOf(m), force)}
        BY <3>1 DEF Adds
      <4>2. Entry({m}, KindOf(m), force) \in Entries
        BY <2>1 DEF KindOf
      <4> QED
        BY <3>1, <4>1, <4>2 DEF Adds
    <3> QED
      BY <2>2, <3>1, Sends
  <2>3. CASE ForceQueued
    <3>1. IdsIn(Promotable(queue)) \in SUBSET Messages
      BY DEF IdsIn, Promotable, Users, Entries
    <3>2. Merged \in Entries
      BY <2>1, <3>1 DEF Merged
    <3> QED
      BY <2>3, <3>2 DEF ForceQueued, loop
  <2>4. CASE Interrupt \/ Boot \/ TopDrain \/ BoundaryDrain
    BY <2>4, Drains, TakesLemma
  <2>5. CASE AppendPrompt \/ Fail \/ Deactivate
    BY <2>5 DEF AppendPrompt, Fail, Deactivate
  <2>6. CASE Still
    BY <2>6, StillLemma
  <2> QED
    BY <2>2, <2>3, <2>4, <2>5, <2>6, NextCases
<1>2. history' \in Seq(Items)
  <2>1. ASSUME NEW m \in Messages, Send(m) PROVE history' \in Seq(Items)
    BY <2>1, StepShows DEF Send, Shows
  <2> QED
    BY <2>1, StepShows, NextCases DEF Shows
<1>3. /\ active' \in BOOLEAN /\ pc' \in LoopPc
      /\ resp' \in {"none", "calls", "answer"}
      /\ requests' \in 0..MaxRequests /\ restarts' \in 0..MaxRestarts
  <2> USE RunInjectionAssumption DEF LoopPc, Idle, Interruptible, loop, bounds
  <2>1. ASSUME NEW m \in Messages, Send(m)
        PROVE  UNCHANGED <<active, pc, resp, requests, restarts>>
    BY <2>1 DEF Send, Inject, Remind, AppendFollowup
  <2>2. CASE ForceQueued \/ Interrupt \/ Boot
    BY <2>2 DEF ForceQueued, Interrupt, DrainInterrupt, Boot
  <2>3. CASE TopDrain \/ BoundaryDrain \/ AppendPrompt
    BY <2>3 DEF TopDrain, BoundaryDrain, DrainAll, AppendPrompt
  <2>4. CASE Fail \/ Deactivate \/ MarkEnded
    BY <2>4 DEF Fail, Deactivate, MarkEnded
  <2>5. CASE ApplyCommit \/ Publish \/ Rebuild \/ TopPass \/ RestartIteration
    BY <2>5
       DEF ApplyCommit, Publish, Rebuild, RebuildContext, TopPass,
           RestartIteration
  <2>6. CASE StartRequest \/ Respond \/ ToolsReturn \/ CommitReady
    BY <2>6 DEF StartRequest, Respond, ToolsReturn, CommitReady
  <2>7. CASE BoundaryPending \/ BoundaryPass \/ AcceptAnswer \/ UNCHANGED vars
    BY <2>7 DEF BoundaryPending, BoundaryPass, AcceptAnswer, vars
  <2>8. CASE AutoRecover \/ RetryAttempt
    BY <2>8 DEF AutoRecover, RetryAttempt
  <2> QED
    BY <2>1, <2>2, <2>3, <2>4, <2>5, <2>6, <2>7, <2>8, NextCases DEF Still
<1>4. buffered' \in Seq(Items)
  <2>1. buffered' \in Rounds(requests') \cup {<<Call(requests')>>}
    BY BufferStep DEF BufferOK, Rounds
  <2>2. /\ Answer(requests') \in Items /\ Call(requests') \in Items
        /\ Result(requests') \in Items
    BY <1>3 DEF Answer, Call, Result, Items
  <2> QED
    BY <2>1, <2>2, RoundsAreSeqs
<1>5. sent' \subseteq Messages /\ order' \in Seq(Messages)
  <2>1. ASSUME NEW m \in Messages, Send(m)
        PROVE  sent' \subseteq Messages /\ order' \in Seq(Messages)
    <3>1. \A x \in Messages : Append(order, x) \in Seq(Messages)
      OBVIOUS
    <3>2. CASE Adds(m)
      BY <3>1, <3>2 DEF Adds
    <3> QED
      BY <2>1, <3>2, Sends
  <2>2. CASE AppendPrompt \/ Fail \/ Deactivate \/ ForceQueued
    BY <2>2 DEF AppendPrompt, Fail, Deactivate, ForceQueued
  <2> QED
    BY <2>1, <2>2, StepIds, StillLemma
<1>6. view' \subseteq Messages
  <2>1. IdsOf(history) \subseteq Messages
    BY DEF SentOnly
  <2>2. view' \in {view, IdsOf(history), {}}
    <3>1. ASSUME NEW m \in Messages, Send(m) PROVE view' = view
      BY <3>1, Sends DEF Adds
    <3>2. CASE ForceQueued \/ Interrupt \/ Boot \/ TopDrain \/ BoundaryDrain
      BY <3>2
         DEF ForceQueued, Interrupt, DrainInterrupt, Boot, TopDrain,
             BoundaryDrain, loop
    <3>3. CASE AppendPrompt \/ Fail \/ Deactivate
      BY <3>3 DEF AppendPrompt, Fail, Deactivate
    <3>4. CASE Still
      BY <3>4, StillView
    <3> QED
      BY <3>1, <3>2, <3>3, <3>4, NextCases
  <2> QED
    BY <2>1, <2>2
<1>7. /\ announced' \subseteq Messages /\ gone' \subseteq Messages
      /\ late' \subseteq Messages
  BY <1>5, SentStep DEF SentOnly
<1>8. pc' \in {"apply", "publish", "append"} => batch' # {}
  BY EntriesStep DEF EntriesOK, InHand
<1> QED
  BY <1>1, <1>2, <1>3, <1>4, <1>5, <1>6, <1>7, <1>8

\* What waits behind a step: a new message is added, the head that was shown
\* is taken out, and nothing else comes in.
LEMMA Waits ==
  ASSUME TypeOK, EntriesOK, [Next]_vars
  PROVE  /\ \A m \in Messages : Send(m) => Pending' \subseteq Pending \cup {m}
         /\ AppendPrompt => Pending' = Pending \ First(batch).ids
         /\ \/ \E m \in Messages : Send(m)
            \/ AppendPrompt
            \/ Pending' \subseteq Pending
<1> USE DEF Pending
<1>1. ASSUME NEW m \in Messages, Send(m)
      PROVE  Pending' \subseteq Pending \cup {m}
  <2>1. ASSUME Adds(m) PROVE Pending' \subseteq Pending \cup {m}
    <3>1. batch' = batch /\ IdsIn(batch') = IdsIn(batch)
      BY <2>1 DEF Adds
    <3> QED
      BY <2>1, <3>1, AddsLemma
  <2>2. ASSUME UNCHANGED <<queue, batch>> PROVE Pending' \subseteq Pending
    BY <2>2
  <2> QED
    BY <1>1, <2>1, <2>2, Sends
<1>2. ASSUME AppendPrompt PROVE Pending' = Pending \ First(batch).ids
  <2>1. /\ pc \in InHand /\ queue' = queue
        /\ batch' = batch \ {First(batch)}
    BY <1>2 DEF AppendPrompt, InHand
  <2>2. /\ First(batch).ids \subseteq IdsIn(batch)
        /\ IdsIn(batch') = IdsIn(batch) \ First(batch).ids
    BY <2>1, HeadLemma
  <2> QED
    BY <2>1, <2>2 DEF EntriesOK
<1>3. ASSUME NEW p, Takes(p) PROVE Pending' \subseteq Pending
  BY <1>3, TakesIds
<1>4. ASSUME Fail \/ Deactivate PROVE Pending' \subseteq Pending
  BY <1>4 DEF Fail, Deactivate, IdsIn
<1>5. ASSUME ForceQueued \/ Still PROVE Pending' \subseteq Pending
  BY <1>5, ForcesLemma, StillLemma
<1> QED
  BY <1>1, <1>2, <1>3, <1>4, <1>5, StepIds

\* A step that is not a handler or the end of a batch's head shows nothing.
LEMMA ShowsCases ==
  ASSUME TypeOK, EntriesOK, BufferOK, SentOnly, [Next]_vars
  PROVE  \/ \E m \in Messages : /\ Send(m) /\ m \notin sent
                               /\ \/ Shows({})
                                  \/ AppendFollowup(m) /\ Shows({m})
         \/ AppendPrompt /\ Shows(First(batch).ids)
         \/ Pending' \subseteq Pending /\ Shows({})
<1>1. ASSUME NEW m \in Messages, Send(m)
      PROVE  /\ m \notin sent
             /\ Shows({}) \/ (AppendFollowup(m) /\ Shows({m}))
  BY <1>1, StepShows DEF Send, Inject, Remind, AppendFollowup
<1>2. ASSUME ~AppendPrompt, ~\E m \in Messages : Send(m)
      PROVE  Pending' \subseteq Pending /\ Shows({})
  BY <1>2, Waits, StepShows, NextCases
<1> QED
  BY <1>1, <1>2, StepShows

\* Every step shows a message that waits once.
LEMMA TimesStep ==
  ASSUME TypeOK, EntriesOK, BufferOK, SentOnly, TimesOK, [Next]_vars
  PROVE  TimesOK'
<1> SUFFICES ASSUME NEW m \in Messages
             PROVE  LET n == IF m \in Followups THEN 1 ELSE 0 IN
                      /\ m \in Pending' => Times(m)' <= n
                      /\ Times(m)' <= n + 1
  BY DEF TimesOK
<1> DEFINE n == IF m \in Followups THEN 1 ELSE 0
           t == Times(m)
           u == Times(m)'
<1>1. n \in Nat /\ (m \in Pending => t <= n) /\ t <= n + 1
  BY DEF TimesOK
<1>2. /\ t \in Nat /\ u \in Nat
      /\ m \notin sent => t = 0
  <2>1. history \in Seq(Items) /\ history' \in Seq(Items)
    BY TypeStep DEF TypeOK
  <2>2. m \notin sent => m \notin IdsOf(history)
    BY DEF SentOnly
  <2> QED
    BY <2>1, <2>2, PlacesFinite, InHistory, InNextHistory
<1>3. \A ids : Shows(ids) => u <= t + 1 /\ (m \notin ids => u = t)
  BY DEF Shows
<1>4. AppendFollowup(m) => n = 1
  BY DEF AppendFollowup
<1>5. \A x \in Messages : Send(x) => Pending' \subseteq Pending \cup {x}
  BY Waits
<1>6. AppendPrompt => /\ First(batch).ids \subseteq Pending
                      /\ Pending' = Pending \ First(batch).ids
  <2>1. AppendPrompt => pc \in InHand
    BY DEF AppendPrompt, InHand
  <2> QED
    BY <2>1, HeadLemma, Waits DEF Pending
<1> HIDE DEF n, t, u
<1>7. CASE AppendPrompt /\ Shows(First(batch).ids)
  <2>1. u <= t + 1 /\ (m \notin First(batch).ids => u = t)
    BY <1>3, <1>7
  <2> QED
    BY <1>1, <1>2, <1>6, <1>7, <2>1 DEF n, u
<1>8. CASE Pending' \subseteq Pending /\ Shows({})
  <2>1. u = t
    BY <1>3, <1>8
  <2> QED
    BY <1>1, <1>2, <1>8, <2>1 DEF n, u
<1>9. ASSUME NEW x \in Messages, Send(x), x \notin sent,
             Shows({}) \/ (AppendFollowup(x) /\ Shows({x}))
      PROVE  (m \in Pending' => u <= n) /\ u <= n + 1
  <2>1. CASE m = x
    <3>1. t = 0
      BY <1>2, <1>9, <2>1
    <3>2. CASE Shows({})
      BY <1>1, <1>2, <1>3, <3>1, <3>2
    <3>3. CASE AppendFollowup(x) /\ Shows({x})
      BY <1>1, <1>2, <1>3, <1>4, <2>1, <3>1, <3>3
    <3> QED
      BY <1>9, <3>2, <3>3
  <2>2. CASE m # x
    <3>1. u = t
      BY <1>3, <1>9, <2>2
    <3>2. m \in Pending' => m \in Pending
      BY <1>5, <1>9, <2>2
    <3> QED
      BY <1>1, <1>2, <3>1, <3>2
  <2> QED
    BY <2>1, <2>2
<1>10. (m \in Pending' => u <= n) /\ u <= n + 1
  BY <1>7, <1>8, <1>9, ShowsCases DEF n, u
<1> QED
  BY <1>10 DEF n, u

\* Every step keeps the calls and their results together.
LEMMA PairsStep ==
  ASSUME TypeOK, EntriesOK, BufferOK, SentOnly, PairsIntact, [Next]_vars
  PROVE  PairsIntact'
BY ShowsCases DEF Shows

\* No step lets the later one of two injects overtake,
LEMMA OrderedStep ==
  ASSUME TypeOK, EntriesOK, BufferOK, SentOnly, [Next]_vars,
         NEW a \in Injects \cap sent, NEW b \in Injects \cap sent,
         Ordered(a, b)
  PROVE  Ordered(a, b)'
<1>1. ASSUME Shown(b)' => Shown(b), Pending' \subseteq Pending,
             IdsIn(batch') \subseteq IdsIn(batch),
             IdsIn(queue') \subseteq IdsIn(queue),
             Forced(queue') \subseteq Forced(queue),
             Promotable(queue') \subseteq Promotable(queue)
      PROVE  Ordered(a, b)'
  BY <1>1 DEF Ordered, IdsIn
<1>2. ASSUME NEW q \in SUBSET Entries, Kinds(q), NEW m \in Injects \cap IdsIn(q)
      PROVE  \E e \in Users(q) : m \in e.ids
  <2>1. m \notin Reminders
    BY RunInjectionAssumption
  <2> QED
    BY <1>2, <2>1 DEF IdsIn, Users, Kinds, Entries
<1>3. /\ (Interrupt \/ Boot \/ TopDrain \/ BoundaryDrain) => (Shown(b)' => Shown(b))
      /\ (ForceQueued \/ Fail \/ Deactivate \/ Still) => (Shown(b)' => Shown(b))
  BY StepShows DEF Shows
<1>4. ASSUME NEW x \in Messages, Send(x) PROVE Ordered(a, b)'
  <2>1. x # a /\ x # b
    BY <1>4, Sends DEF Adds
  <2>2. Shown(b)' => Shown(b)
    BY <1>4, <2>1, StepShows DEF Shows, Send
  <2>3. Pending' \subseteq Pending \cup {x} /\ batch' = batch
    BY <1>4, Waits, Sends DEF Adds
  <2>4. CASE queue' = queue
    BY <2>1, <2>2, <2>3, <2>4 DEF Ordered
  <2>5. CASE Adds(x)
    <3>1. PICK force \in BOOLEAN :
            queue' = queue \cup {Entry({x}, KindOf(x), force)}
      BY <2>5 DEF Adds
    <3> DEFINE e == Entry({x}, KindOf(x), force)
    <3>2. queue' = queue \cup {e} /\ e.ids = {x}
      BY <3>1 DEF Entry
    <3> HIDE DEF e
    <3>3. /\ Forced(queue') \subseteq Forced(queue) \cup {e}
          /\ Promotable(queue') \subseteq Promotable(queue) \cup {e}
      BY <3>2 DEF Forced, Promotable, Users
    <3> QED
      BY <2>1, <2>2, <2>3, <3>2, <3>3 DEF Ordered, IdsIn
  <2> QED
    BY <1>4, <2>4, <2>5, Sends
<1>5. CASE ForceQueued
  <2>1. Promotable(queue') = {}
    <3>1. queue' = (queue \ Promotable(queue)) \cup {Merged} /\ Merged.force
      BY <1>5 DEF ForceQueued, Merged, Entry
    <3> QED
      BY <3>1 DEF Promotable, Users
  <2>2. /\ IdsIn(queue') = IdsIn(queue) /\ IdsIn(batch') = IdsIn(batch)
        /\ a \notin IdsIn({})
    BY <1>5, ForcesLemma DEF IdsIn
  <2> QED
    BY <1>3, <1>5, <2>1, <2>2 DEF Ordered, Pending
<1>6. CASE Interrupt
  <2>1. /\ Takes(Forced(queue)) /\ queue' = queue \ Forced(queue)
    BY <1>6, Drains
  <2>2. IdsIn(batch') = IdsIn(Forced(queue)) /\ Pending' \subseteq Pending
    BY <2>1, TakesIds DEF Pending
  <2>3. b \in IdsIn(batch') => a \notin IdsIn(queue')
    <3>1. HAVE b \in IdsIn(batch')
    <3>2. a \notin IdsIn(Promotable(queue))
      BY <2>2, <3>1 DEF Ordered
    <3>3. Users(queue') \subseteq Promotable(queue)
      BY <2>1 DEF Users, Promotable, Forced
    <3>4. queue' \in SUBSET Entries /\ Kinds(queue')
      BY <2>1 DEF TypeOK, EntriesOK, Kinds
    <3> QED
      BY <1>2, <3>2, <3>3, <3>4 DEF IdsIn
  <2>4. Forced(queue') = {} /\ b \notin IdsIn({})
    BY <2>1 DEF Forced, IdsIn
  <2> QED
    BY <1>3, <1>6, <2>2, <2>3, <2>4 DEF Ordered
<1>7. CASE Boot
  <2>1. Takes(Reminding(queue)) /\ queue' = Users(queue)
    BY <1>7, Drains
  <2>2. IdsIn(batch') = IdsIn(Reminding(queue)) /\ Pending' \subseteq Pending
    BY <2>1, TakesIds DEF Pending
  <2>3. b \notin IdsIn(batch')
    <3>1. b \notin Reminders
      BY RunInjectionAssumption
    <3> QED
      BY <2>2, <3>1 DEF EntriesOK, Kinds, Reminding, IdsIn
  <2>4. /\ Forced(queue') \subseteq Forced(queue)
        /\ Promotable(queue') \subseteq Promotable(queue)
    BY <2>1 DEF Forced, Promotable, Users
  <2> QED
    BY <1>3, <1>7, <2>2, <2>3, <2>4 DEF Ordered, IdsIn
<1>8. CASE TopDrain \/ BoundaryDrain
  <2>1. queue' = {} /\ Pending' \subseteq Pending
    BY <1>8, Drains, TakesIds DEF Pending
  <2>2. IdsIn(queue') = {} /\ Forced(queue') = {} /\ Promotable(queue') = {}
    BY <2>1 DEF IdsIn, Forced, Promotable, Users
  <2> QED
    BY <1>3, <1>8, <2>1, <2>2 DEF Ordered, IdsIn
<1>9. CASE AppendPrompt
  <2> DEFINE h == First(batch)
  <2>1. /\ pc \in InHand /\ queue' = queue /\ batch' = batch \ {h}
    BY <1>9 DEF AppendPrompt, InHand
  <2>2. /\ h \in batch /\ h \in Entries /\ h.ids \subseteq IdsIn(batch)
        /\ IdsIn(batch') \subseteq IdsIn(batch)
    BY <2>1, HeadLemma
  <2>3. Pending' \subseteq Pending /\ (Shown(b)' => Shown(b) \/ b \in h.ids)
    BY <1>9, Waits, StepShows DEF Shows
  <2>4. b \in h.ids => a \notin Pending'
    <3>1. HAVE b \in h.ids
    <3>2. a \notin IdsIn(queue')
      BY <2>1, <2>2, <3>1 DEF Ordered
    <3>3. h \in Users(batch)
      <4>1. b \notin Reminders
        BY RunInjectionAssumption
      <4> QED
        BY <2>2, <3>1, <4>1 DEF EntriesOK, Kinds, Users, Entries
    <3>4. Users(batch') = {}
      BY <2>1, <3>3 DEF EntriesOK, Users
    <3>5. batch' \in SUBSET Entries /\ Kinds(batch')
      BY <2>1 DEF TypeOK, EntriesOK, Kinds
    <3>6. a \notin IdsIn(batch')
      BY <1>2, <3>4, <3>5
    <3> QED
      BY <3>2, <3>6 DEF Pending
  <2> HIDE DEF h
  <2> QED
    BY <2>1, <2>2, <2>3, <2>4 DEF Ordered
<1>10. CASE Fail \/ Deactivate
  <2>1. queue' \subseteq queue /\ batch' \subseteq batch
    BY <1>10 DEF Fail, Deactivate
  <2> QED
    BY <1>1, <1>3, <1>10, <2>1 DEF Pending, IdsIn, Forced, Promotable, Users
<1>11. CASE Still
  <2>1. queue' = queue /\ batch' = batch
    BY <1>11, StillLemma
  <2> QED
    BY <1>1, <1>3, <1>11, <2>1 DEF Pending
<1> QED
  BY <1>4, <1>5, <1>6, <1>7, <1>8, <1>9, <1>10, <1>11, NextCases

\* be they any two that were accepted.
LEMMA OrderStep ==
  ASSUME TypeOK, EntriesOK, BufferOK, SentOnly, OrderOK, [Next]_vars
  PROVE  OrderOK'
<1>1. \A a, b \in Injects \cap sent : Ordered(a, b) => Ordered(a, b)'
  BY OrderedStep
<1>2. SUFFICES \A i, j \in DOMAIN order' : i < j =>
                 \E a, b : a = order'[i] /\ b = order'[j] /\ Ordered(a, b)'
  BY <1>2 DEF OrderOK, Ordered, Shown
<1>3. \A i, j \in DOMAIN order : i < j =>
        /\ order[i] \in Injects \cap sent /\ order[j] \in Injects \cap sent
        /\ Ordered(order[i], order[j])
  BY DEF OrderOK, SentOnly
<1>4. \A i, j \in DOMAIN order : i < j =>
        \E a, b : a = order[i] /\ b = order[j] /\ Ordered(a, b)'
  <2> SUFFICES ASSUME NEW i \in DOMAIN order, NEW j \in DOMAIN order, i < j
               PROVE  \E a, b : a = order[i] /\ b = order[j] /\ Ordered(a, b)'
    OBVIOUS
  <2>1. PICK a, b : a = order[i] /\ b = order[j]
    OBVIOUS
  <2>2. a \in Injects \cap sent /\ b \in Injects \cap sent /\ Ordered(a, b)
    BY <1>3, <2>1 DEF Ordered, Shown
  <2> QED
    BY <1>1, <2>1, <2>2
<1>5. CASE order' = order
  BY <1>4, <1>5
<1>6. ASSUME NEW m \in Messages, Send(m), order' # order
      PROVE  \A i, j \in DOMAIN order' : i < j =>
               \E a, b : a = order'[i] /\ b = order'[j] /\ Ordered(a, b)'
  <2>1. /\ m \in Injects \ sent /\ order' = Append(order, m)
        /\ queue' = queue \cup {Entry({m}, KindOf(m), FALSE)}
        /\ batch' = batch
    BY <1>6, Sends DEF Adds
  <2>2. history' = history
    BY <1>6, <2>1, RunInjectionAssumption
       DEF Send, Inject, Remind, AppendFollowup
  <2>3. /\ m \notin IdsOf(history) /\ m \notin IdsIn(batch)
        /\ m \notin IdsIn(queue)
    BY <2>1 DEF SentOnly, Pending
  <2>4. ~Shown(m)'
    BY <2>2, <2>3 DEF Shown, IdsOf
  <2>5. m \notin IdsIn(Forced(queue'))
    <3>1. ~Entry({m}, KindOf(m), FALSE).force
      BY DEF Entry
    <3> QED
      BY <2>1, <2>3, <3>1 DEF Forced, IdsIn
  <2>6. \A a : Ordered(a, m)'
    BY <2>1, <2>3, <2>4, <2>5 DEF Ordered
  <2>7. /\ DOMAIN order = 1..Len(order) /\ Len(order) \in Nat
        /\ DOMAIN order' = 1..(Len(order) + 1)
        /\ order'[Len(order) + 1] = m
        /\ \A i \in DOMAIN order : order'[i] = order[i]
    BY <2>1 DEF TypeOK
  <2> SUFFICES ASSUME NEW i \in DOMAIN order', NEW j \in DOMAIN order', i < j
               PROVE  \E a, b : a = order'[i] /\ b = order'[j] /\ Ordered(a, b)'
    OBVIOUS
  <2>8. CASE j = Len(order) + 1
    <3>1. order'[j] = m
      BY <2>7, <2>8
    <3>2. PICK a : a = order'[i]
      OBVIOUS
    <3> QED
      BY <2>6, <3>1, <3>2
  <2>9. CASE j # Len(order) + 1
    <3>1. i \in DOMAIN order /\ j \in DOMAIN order
      BY <2>7, <2>9
    <3>2. order'[i] = order[i] /\ order'[j] = order[j]
      BY <2>7, <3>1
    <3> QED
      BY <1>4, <3>1, <3>2
  <2> QED
    BY <2>8, <2>9
<1>7. ForceQueued \/ AppendPrompt \/ Fail \/ Deactivate => order' = order
  BY DEF ForceQueued, AppendPrompt, Fail, Deactivate
<1> QED
  BY <1>5, <1>6, <1>7, StepIds, StillLemma

\* Every step keeps the context up to date with the conversation.
LEMMA SeenStep ==
  ASSUME TypeOK, EntriesOK, BufferOK, SentOnly, SeenOK, [Next]_vars
  PROVE  SeenOK'
<1>1. pc' \in Answered => IdsIn(queue') \subseteq late'
  <2> USE DEF Answered
  <2>0. pc \in Answered => IdsIn(queue) \subseteq late
    BY DEF SeenOK
  <2>1. ASSUME NEW m \in Messages, Send(m)
        PROVE  pc' \in Answered => IdsIn(queue') \subseteq late'
    <3>1. CASE Adds(m)
      <4>1. IdsIn(queue') = IdsIn(queue) \cup {m}
        BY <3>1, AddsLemma
      <4> QED
        BY <2>0, <3>1, <4>1 DEF Adds
    <3>2. CASE UNCHANGED <<queue, pc, late>>
      BY <2>0, <3>2
    <3> QED
      BY <2>1, <3>1, <3>2, Sends
  <2>2. CASE ForceQueued
    BY <2>0, <2>2, ForcesLemma
  <2>3. CASE Interrupt \/ Boot \/ TopDrain \/ BoundaryDrain
    <3>1. IdsIn({}) = {}
      BY DEF IdsIn
    <3> QED
      BY <2>3, <3>1, Drains
  <2>4. CASE AppendPrompt \/ Fail \/ Deactivate
    BY <2>4 DEF AppendPrompt, Fail, Deactivate
  <2>5. CASE Still
    <3>1. queue' = queue
      BY <2>5, StillLemma
    <3>2. \/ pc' \notin Answered
          \/ queue = {}
          \/ pc \in Answered /\ late' = late
      BY <2>5
         DEF Still, ApplyCommit, Publish, Rebuild, RebuildContext, TopPass,
             RestartIteration, StartRequest, Respond, ToolsReturn,
             CommitReady, BoundaryPending, BoundaryPass, AcceptAnswer,
             RetryAttempt, MarkEnded, AutoRecover, vars, loop
    <3> QED
      BY <2>0, <3>1, <3>2 DEF IdsIn
  <2> QED
    BY <2>1, <2>2, <2>3, <2>4, <2>5, NextCases
<1>2. pc' \in Current =>
        {m \in Injects \cup Reminders : m \in IdsOf(history')} \subseteq view'
  <2> DEFINE Known == Injects \cup Reminders
  <2>0. pc \in Current => IdsOf(history) \cap Known \subseteq view
    BY DEF SeenOK
  <2>1. \A ids : Shows(ids) => IdsOf(history') = IdsOf(history) \cup ids
    BY DEF Shows
  <2> SUFFICES ASSUME pc' \in Current
               PROVE  IdsOf(history') \cap Known \subseteq view'
    OBVIOUS
  <2> HIDE DEF Known
  <2>2. ASSUME NEW m \in Messages, Send(m)
        PROVE  IdsOf(history') \cap Known \subseteq view'
    <3>1. pc' = pc /\ view' = view
      BY <2>2, Sends DEF Adds
    <3>2. CASE Inject(m) \/ Remind(m)
      BY <2>0, <2>1, <3>1, <3>2, StepShows
    <3>3. CASE AppendFollowup(m)
      <4>1. m \notin Known
        BY <3>3, RunInjectionAssumption DEF AppendFollowup, Known
      <4>2. IdsOf(history') = IdsOf(history) \cup {m}
        BY <2>1, <3>3, StepShows
      <4> QED
        BY <2>0, <3>1, <4>1, <4>2
    <3> QED
      BY <2>2, <3>2, <3>3 DEF Send
  <2>3. CASE ForceQueued \/ Boot
    BY <2>0, <2>3 DEF ForceQueued, Boot, loop, Current
  <2>4. CASE Interrupt \/ TopDrain \/ AppendPrompt \/ Fail \/ Deactivate
    <3>1. pc' \notin Current
      BY <2>4
         DEF Interrupt, DrainInterrupt, TopDrain, DrainAll, AppendPrompt,
             Fail, Deactivate, Current
    <3> QED
      BY <3>1
  <2>5. CASE BoundaryDrain
    BY <2>0, <2>5 DEF BoundaryDrain, Current
  <2>6. CASE Still
    <3>1. IdsOf(history') = IdsOf(history)
      BY <2>1, <2>6, StepShows
    <3>2. \/ view' = IdsOf(history)
          \/ view' = view /\ pc \in Current
      BY <2>6, StillView DEF Current
    <3> QED
      BY <2>0, <3>1, <3>2
  <2> QED
    BY <2>2, <2>3, <2>4, <2>5, <2>6, NextCases
<1> QED
  BY <1>1, <1>2 DEF SeenOK

-----------------------------------------------------------------------------
(* The theorems *)

\* The invariant holds before the first message.
LEMMA Initially ==
  Init => IInv
<1> SUFFICES ASSUME Init PROVE IInv
  OBVIOUS
<1> USE RunInjectionAssumption DEF Init
<1>1. TypeOK
  <2>1. Prompt({}) \in Items
    BY DEF Prompt, Items
  <2> QED
    BY <2>1 DEF TypeOK, LoopPc, Idle
<1>2. history = <<Prompt({})>> /\ IdsOf(history) = {} /\ IdsIn({}) = {}
  BY DEF IdsOf, IdsIn, Prompt
<1>3. EntriesOK /\ BufferOK
  BY <1>2 DEF EntriesOK, BufferOK, Kinds, Disjoint, Users, InHand
<1>4. SentOnly
  BY <1>2, FS_EmptySet DEF SentOnly, Pending
<1>5. TimesOK
  <2>1. \A m : Times(m) = 0
    <3>1. history \in Seq(Items)
      BY <1>1 DEF TypeOK
    <3> QED
      BY <1>2, <3>1, PlacesFinite, InHistory
  <2> QED
    BY <1>2, <2>1 DEF TimesOK, Pending
<1>6. OrderOK
  BY DEF OrderOK
<1>7. SeenOK
  BY DEF SeenOK, Answered, Current
<1>8. PairsIntact
  BY DEF PairsIntact, Prompt
<1> QED
  BY <1>1, <1>3, <1>4, <1>5, <1>6, <1>7, <1>8 DEF IInv

\* The inductive invariant holds in every state of a run.
LEMMA Invariance == Spec => []IInv
<1>1. IInv /\ [Next]_vars => IInv'
  BY TypeStep, EntriesStep, BufferStep, SentStep, TimesStep, OrderStep,
     SeenStep, PairsStep DEF IInv
<1> QED
  BY Initially, <1>1, PTL DEF Spec

\* Every state of the injection queue and of the model loop is well formed,
\* and a batch that is being applied is not empty.
THEOREM TypeSafe == Spec => []TypeOK
<1>1. IInv => TypeOK
  BY DEF IInv
<1> QED
  BY Invariance, <1>1, PTL

\* No tool call is stored without its result right behind it, whatever is
\* injected, forced or attached while the tools execute, in any number of
\* requests (last_committable_index).
THEOREM PairsStayIntact == Spec => []PairsIntact
<1>1. IInv => PairsIntact
  BY DEF IInv
<1> QED
  BY Invariance, <1>1, PTL

\* What still waits when an answer is accepted arrived behind the answer's
\* boundary (apply_queued_injections_at_boundary).
THEOREM AnswersSeeInjections == Spec => []AnswerSeesInjections
<1>1. IInv => AnswerSeesInjections
  BY DEF IInv, SeenOK, AnswerSeesInjections, Answered
<1> QED
  BY Invariance, <1>1, PTL

\* Every inject and reminder in the stored conversation is in the context that
\* the accepted answer comes from.
THEOREM AnswersSeeHistory == Spec => []AnswerSeesHistory
<1>1. IInv => AnswerSeesHistory
  BY DEF IInv, SeenOK, AnswerSeesHistory, Current
<1> QED
  BY Invariance, <1>1, PTL

\* No inject is shown twice, a follow-up at most twice, and a later inject is
\* never shown while an earlier one waits, forced or not.
THEOREM ShownOnce == Spec => []ShownOnceInOrder
<1>1. IInv => ShownOnceInOrder
  <2> SUFFICES ASSUME IInv PROVE ShownOnceInOrder
    OBVIOUS
  <2>1. \A m \in Messages : Times(m) <= IF m \in Followups THEN 2 ELSE 1
    BY DEF IInv, TimesOK
  <2>2. \A i, j \in DOMAIN order :
          i < j /\ Shown(order[j]) =>
            order[i] \notin IdsIn(queue) \cup IdsIn(batch)
    BY DEF IInv, OrderOK, Ordered, Pending
  <2> QED
    BY <2>1, <2>2 DEF ShownOnceInOrder
<1> QED
  BY Invariance, <1>1, PTL

=============================================================================
