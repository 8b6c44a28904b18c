------------------------- MODULE MessagePoolProofs -------------------------
(***************************************************************************)
(* Proofs about MessagePool for any number of chats, messages, runs and    *)
(* restarts: the types, the order in which the messages of a chat are      *)
(* taken in hand, and that a chat has one busy run.                        *)
(***************************************************************************)
EXTENDS MessagePool, TLAPS

\* A record that may stand in row r.
Storable(rec, r) ==
  /\ rec \in Records
  /\ rec.status # "none"
  /\ rec.chat = pool[r].chat
  /\ rec.status = "waiting" => rec.run # NoRun \/ r \in overwritten

\* What the locals of the handler hold at its positions,
HandlerLocated ==
  /\ hpc \in {"stored", "ack"} => count \in Rows
  /\ hpc = "ack" => Storable(hsnap, count)

\* and those of the worker.
WorkerLocated ==
  /\ \A r \in batch : r <= count
  /\ wpc \in {"write", "claimed", "ask", "starting", "sending"} => hand \in batch
  /\ wpc = "write" => Storable(wrec, hand)
  /\ wpc \in {"claimed", "ask", "starting"} => phase = "process"
  /\ wpc = "write" /\ then \in {"claimed", "ask"} => phase = "process"
  /\ wpc = "write" => (then = "idle" <=> phase = "touch")
  /\ wpc = "write" /\ phase = "touch" => batch = {hand}
  /\ wpc = "idle" => phase = "touch" /\ batch = {}
  /\ phase = "touch" => wpc \in {"idle", "write"}
  /\ wpc = "starting" => wrun \in 1..created
  /\ wpc = "sending" => snaps[hand].run # NoRun

\* A listed run is still the row's, or the row was overwritten.
SnapsLocated ==
  \A r \in Rows :
    /\ phase # "finalize" \/ r \notin batch => snaps[r].run = NoRun
    /\ r \in batch /\ snaps[r].run # NoRun =>
         pool[r].run # NoRun \/ r \in overwritten

RunsLocated == \A i \in 1..created : runs[i].row \in 1..count

TypeInv ==
  TypeOK /\ HandlerLocated /\ WorkerLocated /\ SnapsLocated /\ RunsLocated

\* The row is in hand, or its message has been started.
Holds(r) ==
  \/ pool[r].status \in InFlight
  \/ r \in batch /\ (phase # "touch" \/ wrec.status \in InFlight)
Begun(r) == Holds(r) \/ \E i \in 1..created : runs[i].row = r

\* The row is done, and the worker is not about to make it active.
Quiet(e) ==
  /\ pool[e].status \notin Active
  /\ e \in batch => phase = "touch" /\ wrec.status \notin Active

\* Behind a message that was taken in hand nothing of its chat is left.
OrderInv ==
  \A r, e \in Rows :
    e < r /\ pool[e].chat = pool[r].chat /\ {r, e} \cap overwritten = {} =>
      (Begun(r) => Quiet(e))

\* A chat has one run that keeps its session busy.
BusyInv ==
  \A i, j \in 1..created :
    ChatOfRun(i) = ChatOfRun(j) /\ Busy(runs[i].status) /\ Busy(runs[j].status)
      => i = j

-----------------------------------------------------------------------------
(* Types *)

USE MessagePoolAssumption DEF Rows, Runs, NoRun

\* A capped counter stays within its bound.
LEMMA CappedRange ==
  ASSUME NEW n \in Nat, NEW bound \in Nat
  PROVE  Capped(n, bound) \in 0..bound
BY DEF Capped

\* The empty pool is of its types.
LEMMA TypeInit == Init => TypeInv
<1> SUFFICES ASSUME Init PROVE TypeInv
  OBVIOUS
<1>1. TypeOK
  BY DEF Init, TypeOK, Record, Unlisted, Records, Listings, ServiceRuns,
         Processing, Delivery, Terminal, Executing
<1>2. HandlerLocated /\ WorkerLocated /\ SnapsLocated /\ RunsLocated
  BY DEF Init, HandlerLocated, WorkerLocated, SnapsLocated, RunsLocated, Unlisted
<1> QED BY <1>1, <1>2 DEF TypeInv

\* Changing the status, or the status and the reply, of a record.
LEMMA RecordEdit ==
  ASSUME NEW p \in Records, NEW s \in Processing, NEW q \in Delivery
  PROVE  /\ [p EXCEPT !.status = s] \in Records
         /\ [p EXCEPT !.status = s].status = s
         /\ [p EXCEPT !.status = s].chat = p.chat
         /\ [p EXCEPT !.status = s].run = p.run
         /\ [p EXCEPT !.status = s, !.reply = q] \in Records
         /\ [p EXCEPT !.status = s, !.reply = q].status = s
         /\ [p EXCEPT !.status = s, !.reply = q].chat = p.chat
         /\ [p EXCEPT !.status = s, !.reply = q].run = p.run
BY DEF Records

\* The records an update makes of a stored row.
LEMMA EditStatus ==
  ASSUME TypeInv, NEW r \in 1..count,
         NEW s \in Processing \ {"none", "waiting"}
  PROVE  Storable([pool[r] EXCEPT !.status = s], r)
<1>1. pool[r] \in Records
  BY DEF TypeInv, TypeOK
<1>2. "sent" \in Delivery
  BY DEF Delivery
<1> QED BY <1>1, <1>2, RecordEdit DEF Storable

\* A row of a new status and reply may be stored if it names its run.
LEMMA EditReply ==
  ASSUME TypeInv, NEW r \in 1..count, NEW s \in Processing \ {"none"},
         NEW q \in Delivery,
         s = "waiting" => pool[r].run # NoRun \/ r \in overwritten
  PROVE  Storable([pool[r] EXCEPT !.status = s, !.reply = q], r)
<1> DEFINE rec == [pool[r] EXCEPT !.status = s, !.reply = q]
<1>1. pool[r] \in Records
  BY DEF TypeInv, TypeOK
<1>2. /\ rec \in Records
      /\ rec.status = s
      /\ rec.chat = pool[r].chat
      /\ rec.run = pool[r].run
  BY <1>1 DEF Records
<1> HIDE DEF rec
<1>3. s # "none" /\ (s = "waiting" => rec.run # NoRun \/ r \in overwritten)
  BY <1>2
<1>4. rec.status # "none" /\ rec.chat = pool[r].chat
  BY <1>2
<1>5. Storable(rec, r)
  BY <1>2, <1>3, <1>4 DEF Storable
<1> QED BY <1>5 DEF rec

\* So may what a failed attempt makes of a row,
LEMMA FailureStorable ==
  ASSUME TypeInv, NEW r \in 1..count, NEW n \in 0..MaxAttempts
  PROVE  Storable(Failure(pool[r], n), r)
BY EditStatus DEF Failure, Processing

\* and the row as it is.
LEMMA RowStorable ==
  ASSUME TypeInv, NEW r \in 1..count
  PROVE  Storable(pool[r], r)
BY DEF TypeInv, TypeOK, Storable

\* The worker begins an update of a row of its pass.
LEMMA UpdateKeepsTypes ==
  ASSUME TypeInv, phase # "touch",
         NEW r \in batch, NEW rec, Storable(rec, r),
         NEW next \in {"next", "claimed", "ask"},
         next # "next" => phase = "process",
         hand' = r, Update(rec, next),
         UNCHANGED <<pool, count, handler, phase, batch, snaps, wrun, created,
                     restarts, marks>>,
         runs' \in [Runs -> ServiceRuns],
         \A i \in Runs : runs'[i].row = runs[i].row
  PROVE  TypeInv'
<1>1. TypeOK'
  BY DEF TypeInv, TypeOK, Update, Storable, handler, marks
<1>2. HandlerLocated'
  BY DEF TypeInv, HandlerLocated, Storable, handler, marks
<1>3. WorkerLocated'
  BY DEF TypeInv, WorkerLocated, Storable, Update, marks
<1>4. SnapsLocated'
  BY DEF TypeInv, SnapsLocated, marks
<1>5. RunsLocated'
  <2>1. \A i \in 1..created : i \in Runs
    BY DEF TypeInv, TypeOK
  <2> QED BY <2>1 DEF TypeInv, RunsLocated
<1> QED BY <1>1, <1>2, <1>3, <1>4, <1>5 DEF TypeInv

\* The worker goes on without an update; the row it may drop is done.
LEMMA MoveKeepsTypes ==
  ASSUME TypeInv, phase # "touch", wpc # "write",
         NEW next \in {"next", "ask", "starting", "sending"},
         wpc' = next,
         next \in {"ask", "starting"} => phase = "process",
         next # "next" => hand' \in batch',
         hand' \in 0..MaxRows,
         next = "starting" => wrun' \in 1..created',
         next = "sending" => snaps[hand'].run # NoRun /\ snaps' = snaps,
         batch' \subseteq batch,
         snaps' \in [Rows -> Listings],
         \A r \in Rows : snaps'[r].run \in {snaps[r].run, NoRun},
         \A r \in batch \ batch' : snaps'[r].run = NoRun,
         wrun' \in 0..MaxRuns,
         UNCHANGED <<pool, count, handler, phase, wrec, then, restarts, marks>>,
         created' \in 0..MaxRuns,
         runs' \in [Runs -> ServiceRuns],
         \A i \in 1..created' : runs'[i].row \in 1..count
  PROVE  TypeInv'
<1>1. TypeOK'
  BY DEF TypeInv, TypeOK, handler, marks
<1>2. HandlerLocated'
  BY DEF TypeInv, HandlerLocated, Storable, handler, marks
<1>3. WorkerLocated'
  BY DEF TypeInv, TypeOK, WorkerLocated
<1>4. SnapsLocated' /\ RunsLocated'
  BY DEF TypeInv, TypeOK, SnapsLocated, RunsLocated, marks
<1> QED BY <1>1, <1>2, <1>3, <1>4 DEF TypeInv

\* The handler changes rows and the runs their status.
LEMMA HandlerKeepsTypes ==
  ASSUME TypeInv,
         UNCHANGED <<worker, created, restarts, stranded, unsure>>,
         count' \in count..MaxRows,
         pool' \in [Rows -> Records],
         \A r \in Rows : pool'[r].status = "none" <=> r > count',
         \A r \in 1..count : pool'[r].chat = pool[r].chat,
         overwritten \subseteq overwritten', overwritten' \subseteq Rows,
         \A r \in Rows : pool'[r].status = "waiting" =>
                           pool'[r].run # NoRun \/ r \in overwritten',
         \A r \in 1..count : pool[r].run # NoRun =>
                              pool'[r].run # NoRun \/ r \in overwritten',
         hpc' \in {"idle", "stored", "ack", "clear"},
         hsnap' \in Records \cup {<<>>}, hchat' \in Chats \cup {<<>>},
         HandlerLocated',
         runs' \in [Runs -> ServiceRuns],
         \A i \in Runs : runs'[i].row = runs[i].row
  PROVE  TypeInv'
<1>1. UNCHANGED <<wpc, phase, batch, snaps, hand, wrec, then, wrun>>
  BY DEF worker
<1>2. count \in 0..MaxRows /\ count' \in 0..MaxRows
  BY DEF TypeInv, TypeOK
<1>3. TypeOK'
  BY <1>1, <1>2 DEF TypeInv, TypeOK
<1>4. WorkerLocated'
  BY <1>1, <1>2 DEF TypeInv, TypeOK, WorkerLocated, Storable
<1>5. SnapsLocated' /\ RunsLocated'
  BY <1>1, <1>2 DEF TypeInv, TypeOK, WorkerLocated, SnapsLocated, RunsLocated
<1> QED BY <1>3, <1>4, <1>5 DEF TypeInv

\* What is used of the types again and again.
LEMMA Typed ==
  ASSUME TypeInv
  PROVE  /\ count \in 0..MaxRows /\ batch \subseteq Rows
         /\ runs \in [Runs -> ServiceRuns] /\ created \in 0..MaxRuns
         /\ snaps \in [Rows -> Listings]
         /\ \A r \in 1..count : r \in Rows /\ pool[r] \in Records
<1>1. /\ count \in 0..MaxRows /\ batch \subseteq Rows
      /\ runs \in [Runs -> ServiceRuns] /\ created \in 0..MaxRuns
      /\ snaps \in [Rows -> Listings] /\ pool \in [Rows -> Records]
  BY DEF TypeInv, TypeOK
<1>2. \A r \in 1..count : r \in Rows
  BY <1>1
<1> QED BY <1>1, <1>2

\* The row that the worker is on.
LEMMA InHand ==
  ASSUME TypeInv, wpc \in {"claimed", "ask", "starting", "sending"}
  PROVE  /\ hand \in batch /\ hand \in 1..count
         /\ phase # "touch"
         /\ wpc # "sending" => phase = "process"
BY DEF TypeInv, TypeOK, WorkerLocated

\* A row that the worker has listed is there.
LEMMA Listed ==
  ASSUME TypeInv, wpc = "next", NEW r \in batch
  PROVE  phase # "touch" /\ r \in 1..count /\ r \in Rows
BY DEF TypeInv, TypeOK, WorkerLocated

\* The handler's steps keep the types and what the locals hold,
LEMMA HandlerStep == TypeInv /\ Handle => TypeInv'
<1> SUFFICES ASSUME TypeInv, Handle PROVE TypeInv'
  OBVIOUS
<1>0. /\ count \in 0..MaxRows
      /\ \A r \in 1..count : pool[r] \in Records
  BY DEF TypeInv, TypeOK
<1>1. ASSUME NEW c \in Chats, Deliver(c) PROVE TypeInv'
  <2>1. Record(c, "queued", "pending") \in Records
    BY DEF Record, Records, Processing, Delivery
  <2>2. HandlerLocated'
    BY <1>1 DEF TypeInv, TypeOK, HandlerLocated, Deliver
  <2> QED BY <1>0, <1>1, <2>1, <2>2, HandlerKeepsTypes
       DEF TypeInv, TypeOK, Deliver, service, marks, Record
<1>2. ASSUME NEW c \in Chats, DeliverAnswer(c) PROVE TypeInv'
  <2>1. Record(c, "completed", "skipped") \in Records
    BY DEF Record, Records, Processing, Delivery
  <2>2. HandlerLocated'
    BY <1>2 DEF TypeInv, TypeOK, HandlerLocated, DeliverAnswer, handler
  <2>3. /\ pool' \in [Rows -> Records]
        /\ \A r \in Rows : pool'[r].status = "none" <=> r > count'
        /\ \A r \in 1..count : pool'[r] = pool[r]
        /\ \A r \in Rows : pool'[r].status = "waiting" => pool'[r] = pool[r]
    BY <1>2, <2>1 DEF TypeInv, TypeOK, DeliverAnswer, Record
  <2>4. /\ hpc' = hpc /\ hsnap' = hsnap /\ hchat' = hchat
        /\ overwritten' = overwritten /\ stranded' = stranded /\ unsure' = unsure
        /\ runs' = runs /\ created' = created /\ worker' = worker
        /\ restarts' = restarts /\ count' \in count..MaxRows
    BY <1>0, <1>2 DEF DeliverAnswer, handler, service, marks
  <2> QED BY <2>2, <2>3, <2>4, HandlerKeepsTypes DEF TypeInv, TypeOK
<1>3. ASSUME NEW c \in Chats, ClearBegin(c) PROVE TypeInv'
  <2>1. runs' \in [Runs -> ServiceRuns] /\ \A i \in Runs : runs'[i].row = runs[i].row
    <3>1. PICK stopped :
            runs' = [i \in Runs |->
                       IF i \in stopped
                         THEN [runs[i] EXCEPT !.status = Stopped(@)] ELSE runs[i]]
      BY <1>3 DEF ClearBegin
    <3>2. \A i \in Runs : Stopped(runs[i].status) \in Terminal \cup Executing \cup {"none"}
      BY DEF Stopped, TypeInv, TypeOK, ServiceRuns, Terminal, Executing
    <3> QED BY <3>1, <3>2 DEF TypeInv, TypeOK, ServiceRuns
  <2>2. HandlerLocated'
    BY <1>3 DEF TypeInv, TypeOK, HandlerLocated, ClearBegin
  <2>3. /\ hpc' = "clear" /\ hsnap' = hsnap /\ hchat' = c
        /\ overwritten' = overwritten /\ stranded' = stranded /\ unsure' = unsure
        /\ pool' = pool /\ created' = created /\ worker' = worker
        /\ restarts' = restarts /\ count' = count
    BY <1>3 DEF ClearBegin, marks
  <2>4. count' \in count..MaxRows /\ hsnap' \in Records \cup {<<>>}
    BY <1>0, <2>3 DEF TypeInv, TypeOK
  <2> QED BY <2>1, <2>2, <2>3, <2>4, HandlerKeepsTypes DEF TypeInv, TypeOK
<1>4. CASE AckRead
  <2>1. Storable(pool[count], count) /\ pool[count] \in Records
    BY <1>0, <1>4, RowStorable DEF AckRead, TypeInv, HandlerLocated
  <2>2. HandlerLocated'
    BY <1>4, <2>1 DEF TypeInv, TypeOK, HandlerLocated, AckRead, Storable, marks
  <2> QED BY <1>0, <1>4, <2>1, <2>2, HandlerKeepsTypes
       DEF TypeInv, TypeOK, AckRead, service, marks
<1>5. CASE AckWrite
  <2>1. Storable(hsnap, count) /\ count \in Rows
    BY <1>5 DEF AckWrite, TypeInv, HandlerLocated
  <2>2. HandlerLocated'
    BY <1>5 DEF HandlerLocated, AckWrite
  <2>3. /\ pool' \in [Rows -> Records]
        /\ \A r \in Rows : pool'[r].status = "none" <=> r > count'
        /\ \A r \in 1..count : pool'[r].chat = pool[r].chat
    BY <1>5, <2>1 DEF AckWrite, Storable, TypeInv, TypeOK
  <2>4. /\ \A r \in Rows : pool'[r].status = "waiting" =>
                             pool'[r].run # NoRun \/ r \in overwritten'
        /\ \A r \in 1..count : pool[r].run # NoRun =>
                                 pool'[r].run # NoRun \/ r \in overwritten'
    <3>1. /\ pool' = [pool EXCEPT ![count] = hsnap]
          /\ overwritten' = IF pool[count] = hsnap THEN overwritten
                                                   ELSE overwritten \cup {count}
      BY <1>5 DEF AckWrite
    <3>2. /\ \A r \in Rows : pool'[r] = IF r = count THEN hsnap ELSE pool[r]
          /\ \A r \in 1..count : r \in Rows
      BY <1>0, <3>1 DEF TypeInv, TypeOK
    <3>3. \A r \in Rows : pool[r].status = "waiting" =>
                            pool[r].run # NoRun \/ r \in overwritten
      BY DEF TypeInv, TypeOK
    <3> QED BY <2>1, <3>1, <3>2, <3>3 DEF Storable
  <2>5. /\ hpc' = "idle" /\ hsnap' = <<>> /\ hchat' = hchat
        /\ overwritten \subseteq overwritten' /\ overwritten' \subseteq Rows
        /\ stranded' = stranded /\ unsure' = unsure
        /\ runs' = runs /\ created' = created /\ worker' = worker
        /\ restarts' = restarts /\ count' = count
    BY <1>5, <2>1 DEF TypeInv, TypeOK, AckWrite, service
  <2>6. count' \in count..MaxRows /\ hchat \in Chats \cup {<<>>}
        /\ runs \in [Runs -> ServiceRuns]
    BY <1>0, <2>5 DEF TypeInv, TypeOK
  <2> QED BY <2>2, <2>3, <2>4, <2>5, <2>6, HandlerKeepsTypes
<1>6. CASE ClearCancel
  <2>1. HandlerLocated'
    BY <1>6 DEF HandlerLocated, ClearCancel
  <2>2. /\ pool' \in [Rows -> Records]
        /\ \A r \in Rows : pool'[r].status = "none" <=> r > count'
        /\ \A r \in Rows : pool'[r].chat = pool[r].chat /\ pool'[r].run = pool[r].run
        /\ \A r \in Rows : pool'[r].status = "waiting" => pool'[r].status = pool[r].status
    <3> DEFINE Cancelled(r) == [pool[r] EXCEPT !.status = "cancelled",
                                               !.reply = "skipped"]
    <3>1. \A r \in Rows : pool'[r] = pool[r] \/
            (pool[r].status \in Active /\ pool'[r] = Cancelled(r))
      BY <1>6 DEF ClearCancel
    <3>2. \A r \in Rows : /\ Cancelled(r) \in Records
                         /\ Cancelled(r).status = "cancelled"
                         /\ Cancelled(r).chat = pool[r].chat
                         /\ Cancelled(r).run = pool[r].run
      <4>1. /\ \A r \in Rows : pool[r] \in Records
            /\ "cancelled" \in Processing /\ "skipped" \in Delivery
        BY DEF TypeInv, TypeOK, Processing, Delivery
      <4> QED BY <4>1 DEF Records
    <3>3. /\ pool \in [Rows -> Records] /\ count' = count
          /\ \A r \in Rows : pool[r].status = "none" <=> r > count
          /\ pool' = [r \in Rows |-> pool'[r]]
      BY <1>6 DEF ClearCancel, TypeInv, TypeOK
    <3> HIDE DEF Cancelled
    <3>4. \A r \in Rows : pool'[r] \in Records
      BY <3>1, <3>2, <3>3
    <3> QED BY <3>1, <3>2, <3>3, <3>4 DEF Active
  <2>3. /\ hpc' = "idle" /\ hsnap' = hsnap /\ hchat' = <<>>
        /\ overwritten' = overwritten /\ stranded' = stranded /\ unsure' = unsure
        /\ runs' = runs /\ created' = created /\ worker' = worker
        /\ restarts' = restarts /\ count' = count
    BY <1>6 DEF ClearCancel, service, marks
  <2>4. /\ count' \in count..MaxRows
        /\ \A r \in 1..count : r \in Rows
    BY <1>0, <2>3
  <2>5. \A r \in Rows : pool'[r].status = "waiting" =>
                           pool'[r].run # NoRun \/ r \in overwritten'
    BY <2>2, <2>3 DEF TypeInv, TypeOK
  <2> QED BY <2>1, <2>2, <2>3, <2>4, <2>5, HandlerKeepsTypes DEF TypeInv, TypeOK
<1> QED BY <1>1, <1>2, <1>3, <1>4, <1>5, <1>6 DEF Handle

\* so do those of the pass over the ready rows,
LEMMA ProcessStep == TypeInv /\ Process => TypeInv'
<1> SUFFICES ASSUME TypeInv, Process PROVE TypeInv'
  OBVIOUS
<1>0. /\ count \in 0..MaxRows /\ batch \subseteq Rows
      /\ runs \in [Runs -> ServiceRuns] /\ created \in 0..MaxRuns
      /\ snaps \in [Rows -> Listings]
      /\ \A r \in 1..count : r \in Rows /\ pool[r] \in Records
  BY Typed
<1>1. CASE ListReady
  <2>1. PICK due \in SUBSET Ready :
          /\ batch' = due
          /\ snaps' = [r \in Rows |-> IF r \in due
                                        THEN [Unlisted EXCEPT !.att = pool[r].att]
                                        ELSE Unlisted]
    BY <1>1 DEF ListReady
  <2>2. \A r \in batch' : r \in Rows /\ r <= count
    BY <2>1 DEF TypeInv, TypeOK, Ready
  <2>3. /\ Unlisted \in Listings /\ Unlisted.run = NoRun
        /\ \A r \in Rows : [Unlisted EXCEPT !.att = pool[r].att] \in Listings
        /\ \A r \in Rows : [Unlisted EXCEPT !.att = pool[r].att].run = NoRun
    BY DEF Unlisted, Listings, Delivery, Records, TypeInv, TypeOK
  <2>4. snaps' \in [Rows -> Listings] /\ \A r \in Rows : snaps'[r].run = NoRun
    BY <2>1, <2>3
  <2>5. /\ wpc' = "next" /\ phase' = "process"
        /\ UNCHANGED <<pool, count, hpc, hsnap, hchat, hand, wrec, then, wrun,
                       runs, created, restarts, stranded, overwritten, unsure>>
    BY <1>1 DEF ListReady, handler, service, marks
  <2>6. TypeOK'
    BY <2>2, <2>4, <2>5 DEF TypeInv, TypeOK
  <2>7. HandlerLocated' /\ RunsLocated'
    BY <2>5 DEF TypeInv, HandlerLocated, RunsLocated, Storable
  <2>8. WorkerLocated' /\ SnapsLocated'
    BY <2>2, <2>4, <2>5 DEF WorkerLocated, SnapsLocated
  <2> QED BY <2>6, <2>7, <2>8 DEF TypeInv
<1>2. ASSUME NEW r \in Rows, Claim(r) PROVE TypeInv'
  <2> DEFINE rec == [pool[r] EXCEPT !.status = "claimed",
                                    !.att = Attempt(snaps[r].att)]
  <2>1. r \in batch /\ phase = "process" /\ wpc = "next" /\ r \in 1..count
    BY <1>2, Listed DEF Claim, First
  <2>2. snaps[r].att + 1 \in Nat
    BY <1>0, <2>1 DEF Listings
  <2>3. Attempt(snaps[r].att) \in 0..MaxAttempts
    BY <2>2, CappedRange DEF Attempt
  <2>4. Storable(rec, r)
    BY <1>0, <2>1, <2>3 DEF Storable, Records, Processing
  <2>5. hand' = r /\ Update(rec, "claimed")
    BY <1>2 DEF Claim
  <2> HIDE DEF rec
  <2> QED BY <1>0, <1>2, <2>1, <2>4, <2>5, UpdateKeepsTypes DEF Claim, service
<1>3. CASE Enrich
  <2>1. wpc = "claimed" /\ hand \in batch /\ hand \in 1..count
        /\ phase = "process"
    BY <1>3, InHand DEF Enrich
  <2>2. CASE Update(cur, "ask")
    BY <1>0, <1>3, <2>1, <2>2, RowStorable, UpdateKeepsTypes
    DEF Enrich, service, cur
  <2>3. CASE wpc' = "ask" /\ UNCHANGED <<wrec, then>>
    BY <1>0, <1>3, <2>1, <2>3, MoveKeepsTypes
    DEF Enrich, service, handler, marks, TypeInv, TypeOK, RunsLocated
  <2> QED BY <1>3, <2>2, <2>3 DEF Enrich
<1>4. CASE ProcessFails
  <2>1. hand \in batch /\ hand \in 1..count /\ phase = "process"
    BY <1>4, InHand DEF ProcessFails
  <2>2. snap.att + 1 \in Nat
    BY <1>0, <2>1 DEF Listings, snap
  <2>3. Attempt(snap.att) \in 0..MaxAttempts
    BY <2>2, CappedRange DEF Attempt
  <2>4. Storable(Failure(cur, Attempt(snap.att)), hand)
    BY <2>1, <2>3, FailureStorable DEF cur
  <2> QED BY <1>0, <1>4, <2>1, <2>4, UpdateKeepsTypes DEF ProcessFails, service
<1>5. CASE Answered
  <2>1. hand \in batch /\ hand \in 1..count /\ phase = "process"
    BY <1>5, InHand DEF Answered
  <2>2. Storable([cur EXCEPT !.status = "completed", !.reply = "skipped"], hand)
    BY <2>1, EditReply DEF cur, Processing, Delivery
  <2> QED BY <1>0, <1>5, <2>1, <2>2, UpdateKeepsTypes DEF Answered, service
<1>6. CASE InvalidAnswer
  <2>1. hand \in batch /\ hand \in 1..count /\ phase = "process"
    BY <1>6, InHand DEF InvalidAnswer
  <2>2. PICK outcome \in {<<"completed", "sent">>, <<"retryable", "pending">>,
                          <<"dead", "failed">>} :
          Update([cur EXCEPT !.status = outcome[1], !.reply = outcome[2]], "next")
    BY <1>6 DEF InvalidAnswer
  <2>3. outcome[1] \in Processing \ {"none", "waiting"} /\ outcome[2] \in Delivery
    BY DEF Processing, Delivery
  <2>4. Storable([cur EXCEPT !.status = outcome[1], !.reply = outcome[2]], hand)
    BY <2>1, <2>3, EditReply DEF cur
  <2> QED BY <1>0, <1>6, <2>1, <2>2, <2>4, UpdateKeepsTypes
       DEF InvalidAnswer, service
<1>7. CASE RequeueBusy
  <2>1. hand \in batch /\ hand \in 1..count /\ phase = "process"
    BY <1>7, InHand DEF RequeueBusy
  <2>2. Storable([cur EXCEPT !.status = "queued"], hand)
    BY <2>1, EditStatus DEF cur, Processing
  <2> QED BY <1>0, <1>7, <2>1, <2>2, UpdateKeepsTypes DEF RequeueBusy, service
<1>8. CASE StartRun
  <2>1. hand \in batch /\ hand \in 1..count /\ phase = "process"
    BY <1>8, InHand DEF StartRun
  <2>2. created + 1 \in Runs /\ created' \in 0..MaxRuns
    BY <1>0, <1>8 DEF StartRun
  <2>3. [row |-> hand, status |-> "queued", answers |-> 0] \in ServiceRuns
    BY <1>0, <2>1 DEF ServiceRuns, Executing
  <2>4. /\ runs' \in [Runs -> ServiceRuns]
        /\ \A i \in 1..created' : runs'[i].row \in 1..count
    BY <1>0, <1>8, <2>1, <2>2, <2>3 DEF StartRun, TypeInv, RunsLocated
  <2>5. wrun' \in 1..created' /\ wrun' \in 0..MaxRuns
    BY <1>0, <1>8, <2>2 DEF StartRun
  <2> QED BY <1>0, <1>8, <2>1, <2>2, <2>4, <2>5, MoveKeepsTypes
       DEF StartRun, handler, marks, TypeInv, TypeOK
<1>9. CASE Started
  <2>1. hand \in batch /\ hand \in 1..count /\ phase = "process"
        /\ wrun \in 1..created
    BY <1>9, InHand DEF Started, TypeInv, WorkerLocated
  <2>2. wrun \in 0..MaxRuns /\ wrun # NoRun /\ pool[hand] \in Records
    BY <1>0, <2>1
  <2>3. Storable([cur EXCEPT !.status = "waiting", !.run = wrun], hand)
    BY <2>2 DEF cur, Storable, Records, Processing
  <2> QED BY <1>0, <1>9, <2>1, <2>3, UpdateKeepsTypes DEF Started, service
<1> QED BY <1>1, <1>2, <1>3, <1>4, <1>5, <1>6, <1>7, <1>8, <1>9 DEF Process

\* of the pass over the waiting rows,
LEMMA FinalizeStep == TypeInv /\ Finalize => TypeInv'
<1> SUFFICES ASSUME TypeInv, Finalize PROVE TypeInv'
  OBVIOUS
<1>0. /\ count \in 0..MaxRows /\ batch \subseteq Rows
      /\ runs \in [Runs -> ServiceRuns] /\ created \in 0..MaxRuns
      /\ snaps \in [Rows -> Listings]
      /\ \A r \in 1..count : r \in Rows /\ pool[r] \in Records
  BY Typed
<1>1. CASE ListWaiting
  <2>1. /\ batch' = Waiting
        /\ snaps' = [r \in Rows |->
                       IF r \in Waiting
                         THEN [att |-> pool[r].att, run |-> pool[r].run,
                               reply |-> pool[r].reply]
                         ELSE Unlisted]
    BY <1>1 DEF ListWaiting
  <2>2. \A r \in batch' : r \in Rows /\ r <= count
    BY <2>1 DEF TypeInv, TypeOK, Waiting
  <2>3. /\ Unlisted \in Listings /\ Unlisted.run = NoRun
        /\ \A r \in Rows : [att |-> pool[r].att, run |-> pool[r].run,
                            reply |-> pool[r].reply] \in Listings
    BY DEF Unlisted, Listings, Delivery, Records, TypeInv, TypeOK
  <2>4. /\ snaps' \in [Rows -> Listings]
        /\ \A r \in Rows : r \notin batch' => snaps'[r].run = NoRun
        /\ \A r \in batch' : snaps'[r].run = pool[r].run
    BY <2>1, <2>2, <2>3
  <2>5. /\ wpc' = "next" /\ phase' = "finalize"
        /\ UNCHANGED <<pool, count, hpc, hsnap, hchat, hand, wrec, then, wrun,
                       runs, created, restarts, stranded, overwritten, unsure>>
    BY <1>1 DEF ListWaiting, handler, service, marks
  <2>6. TypeOK'
    BY <2>2, <2>4, <2>5 DEF TypeInv, TypeOK
  <2>7. HandlerLocated' /\ RunsLocated'
    BY <2>5 DEF TypeInv, HandlerLocated, RunsLocated, Storable
  <2>8. WorkerLocated' /\ SnapsLocated'
    BY <2>2, <2>4, <2>5 DEF WorkerLocated, SnapsLocated
  <2> QED BY <2>6, <2>7, <2>8 DEF TypeInv
<1>2. CASE EndPass
  <2>1. TypeOK'
    BY <1>2 DEF TypeInv, TypeOK, EndPass, handler, service, marks
  <2>2. HandlerLocated' /\ RunsLocated'
    BY <1>2 DEF TypeInv, HandlerLocated, RunsLocated, Storable, EndPass,
                handler, service, marks
  <2>3. WorkerLocated' /\ SnapsLocated'
    BY <1>2 DEF TypeInv, WorkerLocated, SnapsLocated, EndPass
  <2> QED BY <2>1, <2>2, <2>3 DEF TypeInv
<1>3. ASSUME NEW r \in Rows, MissingRun(r) PROVE TypeInv'
  <2>1. r \in batch /\ r \in 1..count /\ phase # "touch"
    BY <1>3, Listed DEF MissingRun, Finalizing, First
  <2>2. Storable(Failure(pool[r], snaps[r].att), r)
    BY <1>0, <2>1, FailureStorable DEF Listings
  <2> QED BY <1>0, <1>3, <2>1, <2>2, UpdateKeepsTypes
       DEF MissingRun, FinalUpdate, service
<1>4. ASSUME NEW r \in Rows, NotYet(r) PROVE TypeInv'
  <2>1. r \in batch /\ r \in 1..count /\ phase # "touch"
    BY <1>4, Listed DEF NotYet, Finalizing, First
  <2>2. /\ snaps' \in [Rows -> Listings]
        /\ \A q \in Rows : snaps'[q].run \in {snaps[q].run, NoRun}
        /\ \A q \in batch \ batch' : snaps'[q].run = NoRun
        /\ batch' \subseteq batch
    BY <1>0, <1>4 DEF NotYet, Done, Unlisted, Listings, Delivery
  <2> QED BY <1>0, <1>4, <2>1, <2>2, MoveKeepsTypes
       DEF NotYet, Finalizing, service, handler, marks, TypeInv, TypeOK, RunsLocated
<1>5. ASSUME NEW r \in Rows, NotStarted(r) PROVE TypeInv'
  <2>1. r \in batch /\ r \in 1..count /\ phase # "touch"
    BY <1>5, Listed DEF NotStarted, Finalizing, First
  <2>2. Storable(Failure(pool[r], snaps[r].att), r)
    BY <1>0, <2>1, FailureStorable DEF Listings
  <2> QED BY <1>0, <1>5, <2>1, <2>2, UpdateKeepsTypes
       DEF NotStarted, FinalUpdate, service
<1>6. ASSUME NEW r \in Rows, CompleteSilently(r) PROVE TypeInv'
  <2>1. r \in batch /\ r \in 1..count /\ phase # "touch"
    BY <1>6, Listed DEF CompleteSilently, Finalizing, First
  <2>2. Storable([pool[r] EXCEPT !.status = "completed"], r)
    BY <2>1, EditStatus DEF Processing
  <2> QED BY <1>0, <1>6, <2>1, <2>2, UpdateKeepsTypes
       DEF CompleteSilently, FinalUpdate, service
<1>7. ASSUME NEW r \in Rows, ReplyImpossible(r) PROVE TypeInv'
  <2>1. r \in batch /\ r \in 1..count /\ phase # "touch"
    BY <1>7, Listed DEF ReplyImpossible, Finalizing, First
  <2>2. Storable([pool[r] EXCEPT !.status = "dead", !.reply = "failed"], r)
    BY <2>1, EditReply DEF Processing, Delivery
  <2> QED BY <1>0, <1>7, <2>1, <2>2, UpdateKeepsTypes
       DEF ReplyImpossible, FinalUpdate, service
<1>8. ASSUME NEW r \in Rows, SendReply(r) PROVE TypeInv'
  <2>1. r \in batch /\ r \in 1..count /\ phase # "touch"
    BY <1>8, Listed DEF SendReply, Finalizing, First
  <2>2. snaps[r].run # NoRun
    BY <1>8 DEF SendReply, RunStatus, Terminal
  <2> QED BY <1>0, <1>8, <2>1, <2>2, MoveKeepsTypes
       DEF SendReply, Finalizing, service, handler, marks, TypeInv, TypeOK, RunsLocated
<1>9. CASE ReplySent
  <2>1. hand \in batch /\ hand \in 1..count /\ phase # "touch"
    BY <1>9, InHand DEF ReplySent
  <2>2. Storable([cur EXCEPT !.status = "completed", !.reply = "sent"], hand)
    BY <2>1, EditReply DEF cur, Processing, Delivery
  <2>3. runs' \in [Runs -> ServiceRuns] /\ \A i \in Runs : runs'[i].row = runs[i].row
    <3>1. \A i \in Runs : Capped(runs[i].answers + 1, 2) \in 0..2
      <4>1. runs \in [Runs -> ServiceRuns]
        BY <1>0
      <4>2. \A i \in Runs : runs[i].answers \in Nat
        BY <4>1 DEF ServiceRuns
      <4>3. \A i \in Runs : runs[i].answers + 1 \in Nat
        BY <4>2
      <4> QED BY <4>3, CappedRange
    <3>2. runs' = [runs EXCEPT ![snap.run].answers = Capped(@ + 1, 2)]
      BY <1>9 DEF ReplySent
    <3> QED BY <1>0, <3>1, <3>2 DEF ServiceRuns
  <2> QED BY <1>0, <1>9, <2>1, <2>2, <2>3, UpdateKeepsTypes DEF ReplySent
<1>10. CASE ReplyFails
  <2>1. hand \in batch /\ hand \in 1..count /\ phase # "touch"
        /\ wpc = "sending"
    BY <1>10, InHand DEF ReplyFails
  <2>2. PICK outcome \in {<<"waiting", "pending">>, <<"dead", "failed">>} :
          Update([cur EXCEPT !.status = outcome[1], !.reply = outcome[2]], "next")
    BY <1>10 DEF ReplyFails
  <2>3. outcome[1] \in Processing \ {"none"} /\ outcome[2] \in Delivery
    BY DEF Processing, Delivery
  <2>4. pool[hand].run # NoRun \/ hand \in overwritten
    BY <1>0, <2>1 DEF TypeInv, WorkerLocated, SnapsLocated
  <2>5. Storable([cur EXCEPT !.status = outcome[1], !.reply = outcome[2]], hand)
    BY <2>1, <2>3, <2>4, EditReply DEF cur
  <2> QED BY <1>0, <1>10, <2>1, <2>2, <2>5, UpdateKeepsTypes
       DEF ReplyFails, service
<1> QED BY <1>1, <1>2, <1>3, <1>4, <1>5, <1>6, <1>7, <1>8, <1>9, <1>10
     DEF Finalize

\* of the updates of reactions and queue replies,
LEMMA TouchStep == ASSUME TypeInv, NEW r \in Rows, Touch(r) PROVE TypeInv'
<1>1. Storable(pool[r], r) /\ pool[r] \in Records
  BY RowStorable DEF Touch, TypeInv, TypeOK
<1>2. /\ wpc = "idle" /\ wpc' = "write" /\ wrec' = pool[r] /\ then' = "idle"
      /\ batch' = {r} /\ hand' = r /\ r <= count /\ phase = "touch"
      /\ UNCHANGED <<pool, count, hpc, hsnap, hchat, phase, snaps, wrun,
                     runs, created, restarts, stranded, overwritten, unsure>>
  BY DEF Touch, Update, handler, service, marks, TypeInv, WorkerLocated
<1>3. TypeOK'
  BY <1>1, <1>2 DEF TypeInv, TypeOK
<1>4. HandlerLocated' /\ RunsLocated'
  BY <1>2 DEF TypeInv, HandlerLocated, RunsLocated, Storable
<1>5. WorkerLocated' /\ SnapsLocated'
  BY <1>1, <1>2 DEF TypeInv, WorkerLocated, SnapsLocated, Storable
<1> QED BY <1>3, <1>4, <1>5 DEF TypeInv

\* What a write does to the rows.
LEMMA WriteFacts ==
  ASSUME TypeInv, Write
  PROVE  /\ hand \in batch /\ hand \in Rows /\ hand <= count
         /\ Storable(wrec, hand)
         /\ pool' = [pool EXCEPT ![hand] = wrec] /\ pool'[hand] = wrec
         /\ \A r \in Rows : pool'[r].chat = pool[r].chat
         /\ \A r \in Rows : r # hand => pool'[r] = pool[r]
         /\ \/ /\ then \in {"next", "idle"}
               /\ batch' = batch \ {hand} /\ hand' = 0
               /\ snaps' = [snaps EXCEPT ![hand] = Unlisted]
            \/ /\ then \in {"claimed", "ask"} /\ phase = "process"
               /\ batch' = batch /\ hand' = hand /\ snaps' = snaps
         /\ wpc = "write" /\ wpc' = then /\ then' = "idle"
         /\ wrec' = <<>> /\ wrun' = NoRun
         /\ UNCHANGED <<count, hpc, hsnap, hchat, phase, runs, created, restarts,
                        stranded, overwritten, unsure>>
<1>1. hand \in batch /\ hand \in Rows /\ hand <= count /\ Storable(wrec, hand)
  BY DEF Write, TypeInv, TypeOK, WorkerLocated
<1>2. /\ pool' = [pool EXCEPT ![hand] = wrec]
      /\ wpc = "write" /\ wpc' = then /\ then' = "idle"
      /\ wrec' = <<>> /\ wrun' = NoRun
      /\ UNCHANGED <<count, hpc, hsnap, hchat, phase, runs, created, restarts,
                     stranded, overwritten, unsure>>
  BY DEF Write, handler, service, marks
<1>3. \/ /\ then \in {"next", "idle"}
         /\ batch' = batch \ {hand} /\ hand' = 0
         /\ snaps' = [snaps EXCEPT ![hand] = Unlisted]
      \/ /\ then \in {"claimed", "ask"} /\ phase = "process"
         /\ batch' = batch /\ hand' = hand /\ snaps' = snaps
  BY DEF Write, Done, TypeInv, TypeOK, WorkerLocated
<1>4. /\ pool'[hand] = wrec
      /\ \A r \in Rows : pool'[r].chat = pool[r].chat
      /\ \A r \in Rows : r # hand => pool'[r] = pool[r]
  BY <1>1, <1>2 DEF Storable, TypeInv, TypeOK
<1> QED BY <1>1, <1>2, <1>3, <1>4

\* of the second half of an update,
LEMMA WriteStep == TypeInv /\ Write => TypeInv'
<1> SUFFICES ASSUME TypeInv, Write PROVE TypeInv'
  OBVIOUS
<1>1. /\ snaps' \in [Rows -> Listings]
      /\ \A r \in Rows : snaps'[r].run \in {snaps[r].run, NoRun}
      /\ \A r \in batch \ batch' : snaps'[r].run = NoRun
  <2>1. snaps \in [Rows -> Listings] /\ Unlisted \in Listings /\ Unlisted.run = NoRun
    BY DEF TypeInv, TypeOK, Unlisted, Listings, Delivery
  <2>2. CASE snaps' = snaps /\ batch' = batch
    BY <2>1, <2>2
  <2>3. CASE /\ snaps' = [snaps EXCEPT ![hand] = Unlisted]
             /\ batch' = batch \ {hand} /\ hand \in Rows
    BY <2>1, <2>3
  <2> QED BY <2>2, <2>3, WriteFacts
<1>2. TypeOK'
  <2>1. /\ wrec \in Records /\ wrec.status # "none"
        /\ wrec.status = "waiting" => wrec.run # NoRun \/ hand \in overwritten
        /\ hand <= count /\ hand \in Rows
    BY WriteFacts DEF Storable
  <2>2. /\ pool' \in [Rows -> Records]
        /\ \A r \in Rows : pool'[r].status = "none" <=> r > count
        /\ \A r \in Rows : pool'[r].status = "waiting" =>
                             pool'[r].run # NoRun \/ r \in overwritten
    <3>1. pool' = [pool EXCEPT ![hand] = wrec]
      BY WriteFacts
    <3> QED BY <2>1, <3>1 DEF TypeInv, TypeOK
  <2>3. /\ batch' \subseteq batch /\ hand' \in {hand, 0} /\ wpc' = then
        /\ then' = "idle" /\ wrec' = <<>> /\ wrun' = NoRun
    BY WriteFacts
  <2>4. UNCHANGED <<count, hpc, hsnap, hchat, phase, runs, created, restarts,
                    stranded, overwritten, unsure>>
    BY WriteFacts
  <2> QED BY <1>1, <2>2, <2>3, <2>4 DEF TypeInv, TypeOK
<1>3. HandlerLocated' /\ RunsLocated'
  BY WriteFacts DEF TypeInv, HandlerLocated, RunsLocated, Storable
<1>4. WorkerLocated'
  BY WriteFacts DEF TypeInv, TypeOK, WorkerLocated
<1>5. SnapsLocated'
  <2>1. \A r \in batch' : snaps'[r].run # NoRun => phase = "finalize"
    BY <1>1, WriteFacts DEF TypeInv, TypeOK, SnapsLocated
  <2>2. \A r \in batch' : snaps'[r].run # NoRun => r # hand
    BY <2>1, WriteFacts
  <2> QED BY <1>1, <2>2, WriteFacts DEF TypeInv, TypeOK, SnapsLocated
<1> QED BY <1>2, <1>3, <1>4, <1>5 DEF TypeInv

\* What a restart leaves of the rows.
LEMMA RestartFacts ==
  ASSUME TypeInv, Restart
  PROVE  /\ pool' \in [Rows -> Records]
         /\ \A r \in Rows : pool'[r] = pool[r] \/
              /\ pool[r].status = "claimed" /\ pool'[r].status = "queued"
              /\ pool'[r].chat = pool[r].chat /\ pool'[r].run = pool[r].run
         /\ batch' = {} /\ hpc' = "idle" /\ wpc' = "idle" /\ phase' = "touch"
         /\ UNCHANGED <<count, created, overwritten>>
         /\ snaps' = [r \in Rows |-> Unlisted]
         /\ runs' \in [Runs -> ServiceRuns]
         /\ \A i \in Runs : /\ runs'[i].row = runs[i].row
                            /\ runs'[i].status = runs[i].status \/
                                 /\ runs[i].status \in {"queued", "running"}
                                 /\ runs'[i].status = "stopped"
<1>1. PICK stale \in SUBSET {r \in Rows : pool[r].status = "claimed"} :
        pool' = [r \in Rows |-> Recovered(r, stale)]
  BY DEF Restart
<1>2. /\ pool' \in [Rows -> Records]
      /\ \A r \in Rows : pool'[r] = pool[r] \/
           /\ pool[r].status = "claimed" /\ pool'[r].status = "queued"
           /\ pool'[r].chat = pool[r].chat /\ pool'[r].run = pool[r].run
  <2> DEFINE Queued(r) == [pool[r] EXCEPT !.status = "queued"]
  <2>1. \A r \in Rows : pool'[r] = pool[r] \/
          (pool[r].status = "claimed" /\ pool'[r] = Queued(r))
    BY <1>1 DEF Recovered
  <2>2. \A r \in Rows : /\ Queued(r) \in Records
                       /\ Queued(r).status = "queued"
                       /\ Queued(r).chat = pool[r].chat
                       /\ Queued(r).run = pool[r].run
    <3>1. /\ \A r \in Rows : pool[r] \in Records
          /\ "queued" \in Processing /\ "skipped" \in Delivery
      BY DEF TypeInv, TypeOK, Processing, Delivery
    <3> QED BY <3>1, RecordEdit
  <2>3. pool \in [Rows -> Records] /\ pool' = [r \in Rows |-> pool'[r]]
    BY <1>1 DEF TypeInv, TypeOK
  <2> HIDE DEF Queued
  <2>4. \A r \in Rows : pool'[r] \in Records
    BY <2>1, <2>2, <2>3
  <2> QED BY <2>1, <2>2, <2>3, <2>4
<1>3. /\ runs' \in [Runs -> ServiceRuns]
      /\ \A i \in Runs : /\ runs'[i].row = runs[i].row
                         /\ runs'[i].status = runs[i].status \/
                              /\ runs[i].status \in {"queued", "running"}
                              /\ runs'[i].status = "stopped"
  <2>1. runs' = [i \in Runs |->
                   IF runs[i].status \in {"queued", "running"}
                     THEN [runs[i] EXCEPT !.status = "stopped"] ELSE runs[i]]
    BY DEF Restart
  <2>2. runs \in [Runs -> ServiceRuns]
    BY DEF TypeInv, TypeOK
  <2> QED BY <2>1, <2>2 DEF ServiceRuns, Terminal, Executing
<1> QED BY <1>2, <1>3 DEF Restart

\* of a restart,
LEMMA RestartStep == TypeInv /\ Restart => TypeInv'
<1> SUFFICES ASSUME TypeInv, Restart PROVE TypeInv'
  OBVIOUS
<1>1. unsure' \subseteq 0..MaxRuns
  BY DEF Restart, TypeInv, TypeOK, WorkerLocated, Storable, Records
<1>2. snaps' \in [Rows -> Listings] /\ \A r \in Rows : snaps'[r].run = NoRun
  BY RestartFacts DEF Unlisted, Listings, Delivery
<1>3. /\ \A r \in Rows : pool'[r].status = "none" <=> r > count'
      /\ \A r \in Rows : pool'[r].status = "waiting" =>
                           pool'[r].run # NoRun \/ r \in overwritten'
  <2>1. /\ count' = count /\ overwritten' = overwritten
        /\ \A r \in Rows : pool'[r] = pool[r] \/
             (pool[r].status = "claimed" /\ pool'[r].status = "queued")
    BY RestartFacts
  <2> QED BY <2>1 DEF TypeInv, TypeOK
<1>4. /\ stranded' \subseteq Rows /\ restarts' \in 0..MaxRestarts
      /\ hsnap' = <<>> /\ hchat' = <<>> /\ hand' = 0 /\ wrec' = <<>>
      /\ then' = "idle" /\ wrun' = NoRun
  BY DEF Restart, TypeInv, TypeOK
<1>5. TypeOK'
  <2>1. /\ batch' = {} /\ hpc' = "idle" /\ wpc' = "idle" /\ phase' = "touch"
        /\ UNCHANGED <<count, created, overwritten>>
        /\ pool' \in [Rows -> Records] /\ runs' \in [Runs -> ServiceRuns]
    BY RestartFacts
  <2> QED BY <1>1, <1>2, <1>3, <1>4, <2>1 DEF TypeInv, TypeOK
<1>6. HandlerLocated' /\ WorkerLocated'
  BY <1>4, RestartFacts DEF HandlerLocated, WorkerLocated
<1>7. SnapsLocated' /\ RunsLocated'
  BY <1>2, RestartFacts DEF TypeInv, TypeOK, SnapsLocated, RunsLocated
<1> QED BY <1>5, <1>6, <1>7 DEF TypeInv

\* of the runs,
LEMMA RunsStep == ASSUME TypeInv, NEW i \in Runs, RunMoves(i) PROVE TypeInv'
<1>1. PICK status \in {"running", "ended", "stopped", "paused", "stopping"} :
        runs' = [runs EXCEPT ![i].status = status]
  BY DEF RunMoves
<1>2. runs' \in [Runs -> ServiceRuns] /\ \A j \in Runs : runs'[j].row = runs[j].row
  BY <1>1 DEF TypeInv, TypeOK, ServiceRuns, Terminal, Executing
<1>3. HandlerLocated'
  BY DEF RunMoves, TypeInv, HandlerLocated, Storable, handler, marks
<1>4. /\ count' = count /\ pool' = pool /\ hpc' = hpc /\ hsnap' = hsnap
      /\ hchat' = hchat /\ worker' = worker /\ created' = created
      /\ restarts' = restarts
      /\ overwritten' = overwritten /\ stranded' = stranded /\ unsure' = unsure
  BY DEF RunMoves, handler, marks
<1>5. /\ count \in count..MaxRows
      /\ hpc \in {"idle", "stored", "ack", "clear"}
      /\ hsnap \in Records \cup {<<>>} /\ hchat \in Chats \cup {<<>>}
      /\ pool \in [Rows -> Records]
      /\ \A r \in Rows : pool[r].status = "none" <=> r > count
      /\ \A r \in Rows : pool[r].status = "waiting" =>
                           pool[r].run # NoRun \/ r \in overwritten
      /\ overwritten \subseteq Rows
  BY DEF TypeInv, TypeOK
<1> QED BY <1>2, <1>3, <1>4, <1>5, HandlerKeepsTypes

\* and with them every step.
LEMMA TypeStep == TypeInv /\ [Next]_vars => TypeInv'
<1> SUFFICES ASSUME TypeInv, [Next]_vars PROVE TypeInv'
  OBVIOUS
<1>1. CASE UNCHANGED vars
  BY <1>1 DEF vars, handler, worker, service, marks, TypeInv, TypeOK,
              HandlerLocated, WorkerLocated, SnapsLocated, RunsLocated, Storable
<1> QED BY <1>1, HandlerStep, ProcessStep, FinalizeStep, TouchStep, WriteStep,
           RestartStep, RunsStep DEF Next, Work

\* The types, and that a waiting row names its run unless the handler wrote an
\* old record back (FeishuMessagePoolRepository.update).
THEOREM TypeSafe == Spec => []TypeOK
<1>1. TypeInv => TypeOK
  BY DEF TypeInv
<1> QED BY <1>1, TypeInit, TypeStep, PTL DEF Spec

-----------------------------------------------------------------------------
(* The busy run of a chat *)

\* A stored row keeps its chat.
LEMMA ChatsKept ==
  TypeInv /\ [Next]_vars =>
    /\ count <= count'
    /\ \A r \in 1..count : pool'[r].chat = pool[r].chat
<1> SUFFICES ASSUME TypeInv, [Next]_vars
             PROVE  /\ count <= count'
                    /\ \A r \in 1..count : pool'[r].chat = pool[r].chat
  OBVIOUS
<1>0. count \in 0..MaxRows /\ pool \in [Rows -> Records]
  BY DEF TypeInv, TypeOK
<1>1. CASE UNCHANGED vars
  BY <1>0, <1>1 DEF vars
<1>2. CASE Handle
  <2>1. CASE AckWrite
    <3>1. count \in Rows /\ hsnap.chat = pool[count].chat
      BY <2>1 DEF AckWrite, TypeInv, HandlerLocated, Storable
    <3>2. pool' = [pool EXCEPT ![count] = hsnap] /\ count' = count
      BY <2>1 DEF AckWrite
    <3>3. \A r \in Rows : pool'[r] = IF r = count THEN hsnap ELSE pool[r]
      BY <1>0, <3>2
    <3> QED BY <1>0, <3>1, <3>2, <3>3
  <2>2. CASE ClearCancel
    <3>1. \A r \in Rows : pool'[r].chat = pool[r].chat
      BY <1>0, <2>2 DEF ClearCancel, Records
    <3>2. count' = count
      BY <2>2 DEF ClearCancel
    <3> QED BY <1>0, <3>1, <3>2
  <2>3. ASSUME NEW c \in Chats, Deliver(c) \/ DeliverAnswer(c)
        PROVE  /\ count' = count + 1
               /\ \A r \in 1..count : pool'[r] = pool[r]
    BY <1>0, <2>3 DEF Deliver, DeliverAnswer
  <2>4. CASE AckRead \/ \E c \in Chats : ClearBegin(c)
    BY <1>0, <2>4 DEF AckRead, ClearBegin
  <2> QED BY <1>0, <1>2, <2>1, <2>2, <2>3, <2>4 DEF Handle
<1>3. CASE Write
  BY <1>0, <1>3, WriteFacts
<1>4. CASE Restart
  BY <1>0, <1>4, RestartFacts
<1>5. CASE (\E r \in Rows : Touch(r)) \/ Process \/ Finalize
  <2>1. pool' = pool /\ count' = count
    BY <1>5
    DEF Touch, Process, ListReady, Claim, Enrich, ProcessFails, Answered,
        InvalidAnswer, RequeueBusy, StartRun, Started, Finalize, ListWaiting,
        EndPass, MissingRun, NotYet, NotStarted, CompleteSilently,
        ReplyImpossible, SendReply, ReplySent, ReplyFails, FinalUpdate
  <2> QED BY <1>0, <2>1
<1>6. CASE \E i \in Runs : RunMoves(i)
  BY <1>0, <1>6 DEF RunMoves
<1> QED BY <1>1, <1>2, <1>3, <1>4, <1>5, <1>6 DEF Next, Work

\* Runs keep their row, and one that is not busy any more stays so.
RunsKept ==
  /\ created' = created
  /\ \A i \in Runs : /\ runs'[i].row = runs[i].row
                     /\ Busy(runs'[i].status) => Busy(runs[i].status)

\* Only a start creates a run or makes one busy again.
LEMMA OnlyStartRunCreates ==
  TypeInv /\ [Next]_vars => StartRun \/ RunsKept
<1> SUFFICES ASSUME TypeInv, [Next]_vars, ~StartRun PROVE RunsKept
  OBVIOUS
<1>0. runs \in [Runs -> ServiceRuns]
  BY DEF TypeInv, TypeOK
<1>1. CASE UNCHANGED vars
  BY <1>1 DEF vars, service, RunsKept
<1>2. CASE Handle
  <2>1. CASE \E c \in Chats : ClearBegin(c)
    BY <1>0, <2>1 DEF ClearBegin, Stopped, Busy, RunsKept, ServiceRuns
  <2> QED BY <1>2, <2>1
       DEF Handle, Deliver, DeliverAnswer, AckRead, AckWrite, ClearCancel,
           service, RunsKept
<1>3. CASE Write
  BY <1>3 DEF Write, service, RunsKept
<1>4. CASE Restart
  BY <1>4, RestartFacts DEF Busy, RunsKept
<1>5. CASE ReplySent
  BY <1>0, <1>5 DEF ReplySent, ServiceRuns, RunsKept
<1>6. CASE (\E r \in Rows : Touch(r)) \/ Process \/ (Finalize /\ ~ReplySent)
  BY <1>6
  DEF Touch, Process, ListReady, Claim, Enrich, ProcessFails, Answered,
      InvalidAnswer, RequeueBusy, Started, Finalize, ListWaiting,
      EndPass, MissingRun, NotYet, NotStarted, CompleteSilently,
      ReplyImpossible, SendReply, ReplyFails, FinalUpdate, service, RunsKept
<1>7. ASSUME NEW i \in Runs, RunMoves(i) PROVE RunsKept
  BY <1>0, <1>7 DEF RunMoves, Busy, ServiceRuns, RunsKept
<1> QED BY <1>1, <1>2, <1>3, <1>4, <1>5, <1>6, <1>7 DEF Next, Work

\* Every step keeps the busy runs of a chat single.
LEMMA BusyStep == TypeInv /\ BusyInv /\ [Next]_vars => BusyInv'
<1> SUFFICES ASSUME TypeInv, BusyInv, [Next]_vars PROVE BusyInv'
  OBVIOUS
<1>0. /\ created \in 0..MaxRuns /\ runs \in [Runs -> ServiceRuns]
      /\ \A i \in 1..created : i \in Runs /\ runs[i].row \in 1..count
  BY DEF TypeInv, TypeOK, RunsLocated
<1>1. \A r \in 1..count : pool'[r].chat = pool[r].chat
  BY ChatsKept
<1>2. CASE RunsKept
  <2>1. \A i \in 1..created : /\ ChatOfRun(i)' = ChatOfRun(i)
                              /\ Busy(runs'[i].status) => Busy(runs[i].status)
    BY <1>0, <1>1, <1>2 DEF RunsKept, ChatOfRun
  <2> QED BY <1>2, <2>1 DEF RunsKept, BusyInv
<1>3. CASE StartRun
  <2>1. /\ created' = created + 1 /\ created + 1 \in Runs /\ pool' = pool
        /\ runs' = [runs EXCEPT ![created + 1] =
                      [row |-> hand, status |-> "queued", answers |-> 0]]
    BY <1>0, <1>3 DEF StartRun
  <2>2. \A i \in 1..created : runs'[i] = runs[i]
    BY <1>0, <2>1
  <2>3. runs'[created + 1].row = hand
    BY <1>0, <2>1
  <2>4. \A i \in 1..created :
          ChatOfRun(i) = pool[hand].chat => ~Busy(runs[i].status)
    BY <1>0, <1>3 DEF StartRun, SessionBusy, cur
  <2>5. \A i \in 1..created' : i \in 1..created \/ i = created + 1
    BY <1>0, <2>1
  <2> QED BY <2>1, <2>2, <2>3, <2>4, <2>5 DEF BusyInv, ChatOfRun
<1> QED BY <1>2, <1>3, OnlyStartRunCreates

\* At most one run of a chat executes or may go on to execute: a run is created
\* only when none is busy, and only a busy run is moved
\* (GatewaySessionIngressService.submit_async).
THEOREM BusyRunIsSingle == Spec => []OneBusyRun
<1>1. Init => BusyInv
  BY DEF Init, BusyInv
<1>2. TypeInv /\ BusyInv => OneBusyRun
  BY DEF TypeInv, TypeOK, BusyInv, OneBusyRun, Busy, Executing
<1> QED BY <1>1, <1>2, TypeInit, TypeStep, BusyStep, PTL DEF Spec

-----------------------------------------------------------------------------
(* The order of the messages of a chat *)

\* No row is taken in hand anew, and none that is done becomes active; a row
\* that the handler writes an old record over is left out.
OrderKept ==
  /\ overwritten \subseteq overwritten'
  /\ \A r \in Rows \ overwritten' : Begun(r)' => Begun(r)
  /\ \A e \in (1..count) \ overwritten' : Quiet(e) => Quiet(e)'

\* A message that was begun is stored.
LEMMA BegunIsStored ==
  ASSUME TypeInv, NEW r \in Rows, Begun(r) PROVE r <= count
BY DEF TypeInv, TypeOK, WorkerLocated, RunsLocated, Begun, Holds, InFlight

\* A step that begins nothing and keeps what is quiet keeps the order.
LEMMA OrderFromFrame ==
  ASSUME TypeInv, OrderInv, [Next]_vars, OrderKept PROVE OrderInv'
<1> SUFFICES ASSUME NEW r \in Rows, NEW e \in Rows, e < r,
                    pool'[e].chat = pool'[r].chat,
                    {r, e} \cap overwritten' = {}, Begun(r)'
             PROVE  Quiet(e)'
  BY DEF OrderInv
<1>1. Begun(r) /\ {r, e} \cap overwritten = {}
  BY DEF OrderKept
<1>2. r \in 1..count /\ e \in 1..count
  BY <1>1, BegunIsStored DEF TypeInv, TypeOK
<1>3. pool[e].chat = pool[r].chat
  BY <1>2, ChatsKept
<1>4. Quiet(e)
  BY <1>1, <1>3 DEF OrderInv
<1> QED BY <1>2, <1>4 DEF OrderKept

\* A step of the worker in a pass that neither lists rows nor writes one.
LEMMA PassKeepsOrder ==
  ASSUME TypeInv, phase # "touch",
         UNCHANGED <<pool, phase, overwritten>>, batch' \subseteq batch,
         created' \in created..MaxRuns,
         \A i \in 1..created : runs'[i].row = runs[i].row,
         \A i \in 1..created' : i \in 1..created \/ runs'[i].row \in batch
  PROVE  OrderKept
<1>1. \A r \in Rows : Holds(r)' => Holds(r)
  BY DEF Holds
<1>2. \A r \in Rows : Begun(r)' => Begun(r)
  BY <1>1 DEF Begun, Holds
<1>3. \A e \in 1..count : Quiet(e) => Quiet(e)'
  BY DEF Quiet
<1> QED BY <1>2, <1>3 DEF OrderKept

\* The handler stores rows behind the others, and cancels.
LEMMA HandleKeepsOrder == TypeInv /\ Handle => OrderKept
<1> SUFFICES ASSUME TypeInv, Handle PROVE OrderKept
  OBVIOUS
<1>0. /\ count \in 0..MaxRows /\ pool \in [Rows -> Records]
      /\ UNCHANGED <<batch, phase, wrec, created>>
      /\ \A i \in 1..created : runs'[i].row = runs[i].row
  <2>1. /\ UNCHANGED <<batch, phase, wrec, created>>
        /\ runs' = runs \/ \E c \in Chats : ClearBegin(c)
    BY DEF Handle, Deliver, DeliverAnswer, AckRead, AckWrite, ClearBegin,
           ClearCancel, worker, service
  <2>2. \A c \in Chats : ClearBegin(c) =>
          \A i \in 1..created : runs'[i].row = runs[i].row
    BY DEF ClearBegin, TypeInv, TypeOK, ServiceRuns
  <2> QED BY <2>1, <2>2 DEF TypeInv, TypeOK
\* The status of a row with no older record written over it.
<1> DEFINE Settled(r) == \/ pool'[r].status = pool[r].status
                         \/ pool'[r].status \in {"completed", "cancelled"}
                         \/ r > count /\ pool'[r].status = "queued"
<1>1. /\ overwritten \subseteq overwritten'
      /\ \A r \in Rows \ overwritten' : Settled(r)
  <2>1. CASE AckWrite
    <3>1. count \in Rows
      BY <2>1 DEF AckWrite, TypeInv, HandlerLocated
    <3>2. /\ pool' = [pool EXCEPT ![count] = hsnap]
          /\ overwritten' = IF pool[count] = hsnap THEN overwritten
                                                   ELSE overwritten \cup {count}
      BY <2>1 DEF AckWrite
    <3> QED BY <1>0, <3>1, <3>2
  <2>2. CASE ClearCancel
    BY <1>0, <2>2 DEF ClearCancel, marks, Records
  <2>3. ASSUME NEW c \in Chats, Deliver(c) \/ DeliverAnswer(c)
        PROVE  /\ overwritten' = overwritten
               /\ \A r \in Rows : Settled(r)
    BY <1>0, <2>3 DEF Deliver, DeliverAnswer, marks, Record
  <2>4. CASE AckRead \/ \E c \in Chats : ClearBegin(c)
    BY <2>4 DEF AckRead, ClearBegin, marks
  <2> QED BY <2>1, <2>2, <2>3, <2>4 DEF Handle
<1>2. \A r \in Rows \ overwritten' : Begun(r)' => Begun(r)
  BY <1>0, <1>1 DEF Begun, Holds, InFlight
<1>3. \A e \in (1..count) \ overwritten' : Quiet(e) => Quiet(e)'
  BY <1>0, <1>1 DEF Quiet, Active
<1> QED BY <1>1, <1>2, <1>3 DEF OrderKept

\* A write gives the row the record that Holds and Quiet looked at.
LEMMA WriteKeepsOrder == TypeInv /\ Write => OrderKept
<1> SUFFICES ASSUME TypeInv, Write PROVE OrderKept
  OBVIOUS
<1>0. /\ count \in 0..MaxRows
      /\ phase = "touch" => batch = {hand} /\ batch' = {}
  BY WriteFacts DEF TypeInv, TypeOK, WorkerLocated
<1>1. /\ hand \in batch /\ pool'[hand] = wrec
      /\ \A r \in Rows : r # hand => pool'[r] = pool[r]
      /\ batch' \subseteq batch
      /\ UNCHANGED <<count, phase, runs, created, overwritten>>
  BY WriteFacts
<1>2. \A r \in Rows : Holds(r)' => Holds(r)
  BY <1>0, <1>1 DEF Holds
<1>3. \A r \in Rows : Begun(r)' => Begun(r)
  BY <1>1, <1>2 DEF Begun
<1>4. \A e \in 1..count : Quiet(e) => Quiet(e)'
  BY <1>0, <1>1 DEF Quiet
<1> QED BY <1>1, <1>3, <1>4 DEF OrderKept

\* Every step but the listing of the ready rows.
LEMMA StepKeepsOrder ==
  TypeInv /\ [Next]_vars => ListReady \/ OrderKept
<1> SUFFICES ASSUME TypeInv, [Next]_vars, ~ListReady PROVE OrderKept
  OBVIOUS
<1>0. /\ count \in 0..MaxRows /\ created \in 0..MaxRuns
      /\ \A r \in batch : r \in Rows
      /\ \A i \in 1..created : i \in Runs
      /\ runs \in [Runs -> ServiceRuns]
  BY DEF TypeInv, TypeOK
<1>1. CASE UNCHANGED vars
  BY <1>1 DEF vars, worker, service, marks, OrderKept, Begun, Holds, Quiet
<1>2. ASSUME NEW r \in Rows, Touch(r) PROVE OrderKept
  <2>1. /\ batch = {} /\ batch' = {r} /\ phase = "touch" /\ phase' = phase
        /\ wrec' = pool[r]
        /\ UNCHANGED <<pool, count, runs, created, overwritten>>
    BY <1>2 DEF Touch, Update, TypeInv, WorkerLocated, service, marks
  <2> QED BY <2>1 DEF OrderKept, Begun, Holds, Quiet
<1>3. CASE ListWaiting
  <2>1. /\ batch = {} /\ batch' = Waiting /\ phase' = "finalize"
        /\ UNCHANGED <<pool, count, runs, created, overwritten>>
    BY <1>3 DEF ListWaiting, service, marks
  <2> QED BY <2>1 DEF OrderKept, Begun, Holds, Quiet, Waiting, InFlight, Active
<1>4. CASE EndPass
  <2>1. /\ batch = {} /\ batch' = {}
        /\ UNCHANGED <<pool, count, runs, created, overwritten>>
    BY <1>4 DEF EndPass, service, marks
  <2> QED BY <2>1 DEF OrderKept, Begun, Holds, Quiet
<1>5. CASE StartRun
  <2>1. hand \in batch /\ phase # "touch"
    BY <1>5, InHand DEF StartRun
  <2>2. /\ created' = created + 1 /\ created + 1 \in Runs
        /\ runs' = [runs EXCEPT ![created + 1] =
                      [row |-> hand, status |-> "queued", answers |-> 0]]
        /\ UNCHANGED <<pool, phase, batch, overwritten>>
    BY <1>0, <1>5 DEF StartRun, marks
  <2>3. /\ \A i \in 1..created : runs'[i] = runs[i]
        /\ runs'[created + 1].row = hand
        /\ \A i \in 1..created' : i \in 1..created \/ i = created + 1
        /\ created' \in created..MaxRuns
    BY <1>0, <2>2
  <2> QED BY <2>1, <2>2, <2>3, PassKeepsOrder
<1>6. CASE /\ Process \/ Finalize
           /\ ~(ListWaiting \/ EndPass \/ StartRun)
  <2>1. phase # "touch"
    <3>1. wpc \in {"claimed", "ask", "starting", "sending", "next"}
      BY <1>6
      DEF Process, Claim, Enrich, ProcessFails, Answered,
          InvalidAnswer, RequeueBusy, Started, Finalize, MissingRun, NotYet,
          NotStarted, CompleteSilently, ReplyImpossible, SendReply, ReplySent,
          ReplyFails, Finalizing
    <3> QED BY <3>1 DEF TypeInv, WorkerLocated
  <2>2. /\ UNCHANGED <<pool, phase, overwritten>> /\ batch' \subseteq batch
    BY <1>6
    DEF Process, Claim, Enrich, ProcessFails, Answered,
        InvalidAnswer, RequeueBusy, Started, Finalize, MissingRun, NotYet,
        NotStarted, CompleteSilently, ReplyImpossible, SendReply, ReplySent,
        ReplyFails, FinalUpdate, Done, marks
  <2>3. RunsKept
    BY <1>6, OnlyStartRunCreates
  <2> QED BY <1>0, <2>1, <2>2, <2>3, PassKeepsOrder DEF RunsKept
<1>7. CASE Restart
  <2>1. \A r \in Rows : pool'[r] = pool[r] \/
          (pool[r].status = "claimed" /\ pool'[r].status = "queued")
    BY <1>7, RestartFacts
  <2>2. /\ batch' = {} /\ UNCHANGED <<count, created, overwritten>>
        /\ \A i \in 1..created : runs'[i].row = runs[i].row
    BY <1>0, <1>7, RestartFacts
  <2>3. \A r \in Rows : Begun(r)' => Begun(r)
    BY <2>1, <2>2 DEF Begun, Holds, InFlight
  <2>4. \A e \in 1..count : Quiet(e) => Quiet(e)'
    BY <1>0, <2>1, <2>2 DEF Quiet, Active
  <2> QED BY <2>2, <2>3, <2>4 DEF OrderKept
<1>8. ASSUME NEW i \in Runs, RunMoves(i) PROVE OrderKept
  <2>1. UNCHANGED <<pool, batch, phase, wrec, created, overwritten>>
    BY <1>8 DEF RunMoves, worker, marks
  <2>2. \A j \in 1..created : runs'[j].row = runs[j].row
    BY <1>0, <1>8 DEF RunMoves, ServiceRuns
  <2>3. \A r \in Rows : Begun(r)' => Begun(r)
    BY <2>1, <2>2 DEF Begun, Holds
  <2> QED BY <2>1, <2>3 DEF OrderKept, Quiet
<1> QED BY <1>1, <1>2, <1>3, <1>4, <1>5, <1>6, <1>7, <1>8,
           HandleKeepsOrder, WriteKeepsOrder DEF Next, Work

\* A row that is ready is behind none of its chat that is active.
LEMMA ListReadyKeepsOrder == TypeInv /\ OrderInv /\ ListReady => OrderInv'
<1> SUFFICES ASSUME TypeInv, OrderInv, ListReady,
                    NEW r \in Rows, NEW e \in Rows, e < r,
                    pool[e].chat = pool[r].chat,
                    {r, e} \cap overwritten = {}, Begun(r)'
             PROVE  Quiet(e)'
  BY DEF OrderInv, ListReady, marks
<1>1. /\ batch = {} /\ batch' \subseteq Ready /\ phase' = "process"
      /\ UNCHANGED <<pool, runs, created>>
  BY DEF ListReady, TypeInv, WorkerLocated, service
<1>2. CASE r \in batch'
  <2>1. pool[e].status \notin Active
    BY <1>1, <1>2 DEF Ready
  <2> QED BY <1>1, <2>1 DEF Quiet, Ready, Active
<1>3. CASE r \notin batch'
  <2>1. Begun(r)
    BY <1>1, <1>3 DEF Begun, Holds
  <2>2. Quiet(e)
    BY <2>1 DEF OrderInv
  <2> QED BY <1>1, <2>2 DEF Quiet, Ready, Active
<1> QED BY <1>2, <1>3

\* Every step keeps the messages before a begun one done.
LEMMA OrderStep == TypeInv /\ OrderInv /\ [Next]_vars => OrderInv'
BY StepKeepsOrder, OrderFromFrame, ListReadyKeepsOrder

\* Nothing is begun in the empty pool.
LEMMA OrderInit == Init => OrderInv
BY DEF Init, OrderInv, Begun, Holds, InFlight, Record

\* At most one message of a chat is in hand, for rows that no old record was
\* written over (list_ready_for_processing).
THEOREM InFlightIsSingle == Spec => []OneInFlight
<1>1. TypeInv /\ OrderInv => OneInFlight
  <2> SUFFICES ASSUME TypeInv, OrderInv, NEW r \in Rows, NEW q \in Rows,
                      pool[r].chat = pool[q].chat,
                      {pool[r].status, pool[q].status} \subseteq InFlight,
                      {r, q} \cap overwritten = {}
               PROVE  r = q
    BY DEF OneInFlight
  <2>1. Begun(r) /\ Begun(q) /\ ~Quiet(r) /\ ~Quiet(q)
    BY DEF Begun, Holds, Quiet, InFlight, Active
  <2>2. ~(q < r) /\ ~(r < q)
    BY <2>1 DEF OrderInv
  <2> QED BY <2>2
<1> QED BY <1>1, TypeInit, TypeStep, OrderInit, OrderStep, PTL DEF Spec

\* A run is created for a row in hand, so no later message of its chat was
\* begun.
LEMMA StartsStep ==
  TypeInv /\ OrderInv /\ StartsInOrder /\ [Next]_vars => StartsInOrder'
<1> SUFFICES ASSUME TypeInv, OrderInv, StartsInOrder, [Next]_vars
             PROVE  StartsInOrder'
  OBVIOUS
<1>0. /\ created \in 0..MaxRuns /\ runs \in [Runs -> ServiceRuns]
      /\ \A i \in 1..created :
           i \in Runs /\ runs[i].row \in 1..count /\ runs[i].row \in Rows
  BY DEF TypeInv, TypeOK, RunsLocated
<1>1. /\ \A r \in 1..count : pool'[r].chat = pool[r].chat
      /\ overwritten \subseteq overwritten'
  BY ChatsKept, StepKeepsOrder DEF OrderKept, ListReady, marks
<1>2. CASE RunsKept
  <2>1. created' = created
        /\ \A i \in 1..created : /\ ChatOfRun(i)' = ChatOfRun(i)
                                 /\ runs'[i].row = runs[i].row
    BY <1>0, <1>1, <1>2 DEF RunsKept, ChatOfRun
  <2> SUFFICES ASSUME NEW i \in Runs, NEW j \in Runs, i < j, j <= created,
                      ChatOfRun(i) = ChatOfRun(j),
                      {runs[i].row, runs[j].row} \cap overwritten' = {}
               PROVE  runs[i].row <= runs[j].row
    BY <1>0, <2>1 DEF StartsInOrder
  <2> QED BY <1>1 DEF StartsInOrder
<1>3. CASE StartRun
  <2>1. hand \in batch /\ phase # "touch" /\ hand \in Rows
    BY <1>3, InHand DEF StartRun, TypeInv, TypeOK
  <2>2. /\ created' = created + 1 /\ created + 1 \in Runs
        /\ runs' = [runs EXCEPT ![created + 1] =
                      [row |-> hand, status |-> "queued", answers |-> 0]]
        /\ UNCHANGED <<pool, overwritten>>
    BY <1>0, <1>3 DEF StartRun, marks
  <2>3. /\ \A i \in 1..created : runs'[i] = runs[i]
        /\ runs'[created + 1].row = hand
        /\ \A i \in Runs : i <= created => i \in 1..created
    BY <1>0, <2>2
  <2>4. \A i \in 1..created :
          /\ pool[runs[i].row].chat = pool[hand].chat
          /\ {runs[i].row, hand} \cap overwritten = {}
          => runs[i].row <= hand
    <3> SUFFICES ASSUME NEW i \in 1..created,
                        pool[runs[i].row].chat = pool[hand].chat,
                        {runs[i].row, hand} \cap overwritten = {},
                        hand < runs[i].row
                 PROVE  FALSE
      BY <1>0, <2>1
    <3>1. Begun(runs[i].row)
      BY DEF Begun
    <3>2. ~Quiet(hand)
      BY <2>1 DEF Quiet
    <3> QED BY <1>0, <2>1, <3>1, <3>2 DEF OrderInv
  <2> SUFFICES ASSUME NEW i \in Runs, NEW j \in Runs, i < j, j <= created + 1,
                      pool[runs'[i].row].chat = pool[runs'[j].row].chat,
                      {runs'[i].row, runs'[j].row} \cap overwritten = {}
               PROVE  runs'[i].row <= runs'[j].row
    BY <2>2 DEF StartsInOrder, ChatOfRun
  <2>5. CASE j = created + 1
    <3>1. i \in 1..created
      BY <1>0, <2>5
    <3> QED BY <2>3, <2>4, <2>5, <3>1
  <2>6. CASE j # created + 1
    <3>1. i \in 1..created /\ j \in 1..created /\ j <= created
      BY <1>0, <2>6
    <3> QED BY <2>3, <3>1 DEF StartsInOrder, ChatOfRun
  <2> QED BY <2>5, <2>6
<1> QED BY <1>2, <1>3, OnlyStartRunCreates

\* The messages of a chat are started in the order of their delivery, over
\* retries, clears and restarts, for rows that no old record was written over
\* (list_ready_for_processing, recover_stale_claims).
THEOREM StartsAreOrdered == Spec => []StartsInOrder
<1>1. Init => StartsInOrder
  BY DEF Init, StartsInOrder
<1> QED BY <1>1, TypeInit, TypeStep, OrderInit, OrderStep, StartsStep, PTL
       DEF Spec

=============================================================================
