---------------------- MODULE MessagePoolAnswerProofs ----------------------
(***************************************************************************)
(* Proofs that the answer of a run of the Feishu pool is sent at most      *)
(* once, and that a message starts no more runs than its attempts and the  *)
(* restarts of the server allow, for any number of chats, messages, runs   *)
(* and restarts.                                                           *)
(***************************************************************************)
EXTENDS MessagePoolProofs, FiniteSetTheorems

\* The run that a copy of row r names is one that r started.
NamesRun(i, r) == i # NoRun => i <= created /\ runs[i].row = r

LinkInv ==
  /\ \A r \in Rows : NamesRun(pool[r].run, r) /\ NamesRun(snaps[r].run, r)
  /\ wpc = "write" => NamesRun(wrec.run, hand)
  /\ wpc = "starting" => NamesRun(wrun, hand)
  /\ hpc = "ack" => NamesRun(hsnap.run, count)

\* The copy that the worker finalises names the run of its row.
SnapInv ==
  \A r \in batch :
    snaps[r].run # NoRun => pool[r].run = snaps[r].run \/ r \in overwritten

\* The answer of run i was sent and its record is about to be written,
Recording(i) ==
  /\ wpc = "write" /\ phase = "finalize" /\ hand = runs[i].row
  /\ wrec.status = "completed" /\ wrec.reply = "sent" /\ wrec.run = i

\* or is written, and the worker only copies the row.
Recorded(r) ==
  /\ pool[r].status = "completed"
  /\ r \in batch => phase = "touch" /\ wrec.status = "completed"

Excused(i) == i \in unsure \/ runs[i].row \in overwritten

AnswerInv ==
  \A i \in Runs :
    runs[i].answers # 0 =>
      /\ i <= created
      /\ Excused(i) \/ (runs[i].answers = 1 /\
                         (Recording(i) \/ Recorded(runs[i].row)))

USE MessagePoolAssumption DEF Rows, Runs, NoRun

-----------------------------------------------------------------------------
(* Steps, by what they do to the rows and the copies *)

\* Runs are added and keep their row.
LEMMA RunsGrow ==
  TypeInv /\ [Next]_vars =>
    /\ created' \in created..MaxRuns
    /\ \A i \in 1..created : runs'[i].row = runs[i].row
<1> SUFFICES ASSUME TypeInv, [Next]_vars
             PROVE  /\ created' \in created..MaxRuns
                    /\ \A i \in 1..created : runs'[i].row = runs[i].row
  OBVIOUS
<1>1. /\ created \in 0..MaxRuns /\ runs \in [Runs -> ServiceRuns]
      /\ \A i \in 1..created : i \in Runs
  BY DEF TypeInv, TypeOK
<1>2. CASE RunsKept
  BY <1>1, <1>2 DEF RunsKept
<1>3. CASE StartRun
  BY <1>1, <1>3 DEF StartRun
<1> QED BY <1>2, <1>3, OnlyStartRunCreates

NamesNext(i, r) == i # NoRun => i <= created' /\ runs'[i].row = r

\* A run keeps the row that started it, so a copy that names it may go on to.
LEMMA NamesKept ==
  TypeInv /\ [Next]_vars =>
    \A i \in 0..MaxRuns : \A r \in Rows : NamesRun(i, r) => NamesNext(i, r)
<1> SUFFICES ASSUME TypeInv, [Next]_vars, NEW i \in 0..MaxRuns, NEW r \in Rows,
                    NamesRun(i, r)
             PROVE  NamesNext(i, r)
  OBVIOUS
<1>1. created \in 0..MaxRuns
  BY DEF TypeInv, TypeOK
<1>2. i # NoRun => i \in 1..created
  BY <1>1 DEF NamesRun
<1> QED BY <1>1, <1>2, RunsGrow DEF NamesRun, NamesNext

\* The steps of a pass that neither list rows nor write one.
PassMoves ==
  (Process \/ Finalize) /\ ~(ListReady \/ ListWaiting \/ EndPass)

\* What the steps of a pass leave alone, and what they may list.
LEMMA PassFacts ==
  ASSUME TypeInv, PassMoves
  PROVE  /\ phase # "touch" /\ wpc # "write" /\ wpc # "idle"
         /\ UNCHANGED <<pool, count, hpc, hsnap, phase, restarts, overwritten,
                        unsure>>
         /\ batch' \subseteq batch
         /\ \A r \in batch' : snaps'[r] = snaps[r]
         /\ \A r \in Rows : snaps'[r].run \in {snaps[r].run, NoRun}
<1>1. wpc \in {"claimed", "ask", "starting", "sending", "next"}
  BY DEF PassMoves, Process, Claim, Enrich, ProcessFails, Answered,
         InvalidAnswer, RequeueBusy, StartRun, Started, Finalize, MissingRun,
         NotYet, NotStarted, CompleteSilently, ReplyImpossible, SendReply,
         ReplySent, ReplyFails, Finalizing
<1>2. phase # "touch"
  BY <1>1 DEF TypeInv, WorkerLocated
<1>3. /\ UNCHANGED <<pool, count, hpc, hsnap, phase, restarts, overwritten,
                     unsure>>
      /\ UNCHANGED <<batch, snaps>> \/ \E r \in batch : Done(r)
  BY DEF PassMoves, Process, Claim, Enrich, ProcessFails, Answered,
         InvalidAnswer, RequeueBusy, StartRun, Started, Finalize, MissingRun,
         NotYet, NotStarted, CompleteSilently, ReplyImpossible, SendReply,
         ReplySent, ReplyFails, FinalUpdate, Finalizing, First, handler, marks
<1>4. snaps \in [Rows -> Listings]
  BY DEF TypeInv, TypeOK
<1>5. ASSUME NEW r \in batch, Done(r)
      PROVE  /\ batch' \subseteq batch
             /\ \A q \in batch' : snaps'[q] = snaps[q]
             /\ \A q \in Rows : snaps'[q].run \in {snaps[q].run, NoRun}
  BY <1>4, <1>5 DEF Done, Unlisted, TypeInv, TypeOK
<1> QED BY <1>1, <1>2, <1>3, <1>5

\* An update of a row keeps its run, but for the start of one.
LEMMA UpdateRuns ==
  ASSUME TypeInv, PassMoves, wpc' = "write"
  PROVE  /\ hand' \in Rows
         /\ \/ wrec'.run = pool[hand'].run
            \/ wpc = "starting" /\ hand' = hand /\ wrec'.run = wrun
<1>1. \A r \in Rows : pool[r] \in Records
  BY DEF TypeInv, TypeOK
<1>2. ASSUME NEW r \in Rows, Claim(r) PROVE hand' = r /\ wrec'.run = pool[r].run
  BY <1>1, <1>2 DEF Claim, Update, Records
<1>3. ASSUME NEW r \in Rows,
             MissingRun(r) \/ NotStarted(r) \/ CompleteSilently(r) \/
               ReplyImpossible(r)
      PROVE  hand' = r /\ wrec'.run = pool[r].run
  BY <1>1, <1>3 DEF MissingRun, NotStarted, CompleteSilently, ReplyImpossible,
                    FinalUpdate, Update, Failure, Records
<1>4. ASSUME wpc \in {"claimed", "ask", "starting", "sending"} PROVE hand \in Rows
  BY <1>4, InHand DEF TypeInv, TypeOK
<1>5. CASE \/ Enrich \/ ProcessFails \/ Answered \/ InvalidAnswer
           \/ RequeueBusy \/ ReplySent \/ ReplyFails
  <2>1. hand' = hand /\ hand \in Rows
    BY <1>4, <1>5 DEF Enrich, ProcessFails, Answered, InvalidAnswer, RequeueBusy,
                      ReplySent, ReplyFails
  <2>2. wrec'.run = cur.run
    BY <1>1, <1>5, <2>1
    DEF Enrich, ProcessFails, Answered, InvalidAnswer, RequeueBusy,
        ReplySent, ReplyFails, Update, Failure, cur, Records
  <2> QED BY <2>1, <2>2 DEF cur
<1>6. CASE Started
  <2>1. hand' = hand /\ hand \in Rows
    BY <1>4, <1>6 DEF Started
  <2>2. wrec'.run = wrun
    BY <1>1, <1>6, <2>1 DEF Started, Update, cur, Records
  <2> QED BY <1>6, <2>1, <2>2 DEF Started
<1>7. ~(\E r \in Rows : NotYet(r) \/ SendReply(r)) /\ ~StartRun
  BY DEF NotYet, SendReply, StartRun, Finalizing
<1> QED BY <1>2, <1>3, <1>5, <1>6, <1>7 DEF PassMoves, Process, Finalize

\* What the handler does to the rows; a row that changes otherwise is one that
\* an older record was written over.
LEMMA HandleFacts ==
  ASSUME TypeInv, Handle
  PROVE  /\ UNCHANGED <<wpc, phase, batch, snaps, hand, wrec, then, wrun,
                        created, unsure>>
         /\ overwritten \subseteq overwritten'
         /\ \A r \in 1..count : r \notin overwritten' =>
              \/ pool'[r] = pool[r]
              \/ /\ pool[r].status \in Active
                 /\ pool'[r].status = "cancelled"
                 /\ pool'[r].run = pool[r].run
         /\ \A r \in Rows : \/ pool'[r].run \in {pool[r].run, NoRun}
                            \/ /\ hpc = "ack" /\ r = count
                               /\ pool'[r].run = hsnap.run
         /\ hpc' = "ack" =>
              count' = count /\ count \in Rows /\ hsnap'.run = pool[count].run
<1>0. /\ count \in 0..MaxRows /\ pool \in [Rows -> Records]
      /\ \A r \in 1..count : r \in Rows
  BY Typed DEF TypeInv, TypeOK
<1>1. UNCHANGED <<wpc, phase, batch, snaps, hand, wrec, then, wrun, created,
                  unsure>>
  BY DEF Handle, Deliver, DeliverAnswer, AckRead, AckWrite, ClearBegin,
         ClearCancel, worker, service, marks
<1>2. CASE AckWrite
  <2>1. /\ count \in Rows /\ hpc = "ack" /\ hpc' = "idle"
        /\ pool' = [pool EXCEPT ![count] = hsnap]
        /\ overwritten' = IF pool[count] = hsnap THEN overwritten
                                                 ELSE overwritten \cup {count}
    BY <1>2 DEF AckWrite, TypeInv, HandlerLocated
  <2>2. \A r \in Rows : pool'[r] = IF r = count THEN hsnap ELSE pool[r]
    BY <1>0, <2>1
  <2> QED BY <1>0, <1>1, <2>1, <2>2
<1>3. CASE ClearCancel
  <2>1. /\ \A r \in Rows : \/ pool'[r] = pool[r]
                           \/ /\ pool[r].status \in Active
                              /\ pool'[r].status = "cancelled"
                              /\ pool'[r].run = pool[r].run
    BY <1>0, <1>3 DEF ClearCancel, Records
  <2>2. hpc' = "idle" /\ overwritten' = overwritten
    BY <1>3 DEF ClearCancel, marks
  <2> QED BY <1>0, <1>1, <2>1, <2>2
<1>4. ASSUME NEW c \in Chats, Deliver(c) \/ DeliverAnswer(c)
      PROVE  /\ hpc' # "ack" /\ overwritten' = overwritten
             /\ \A r \in Rows : IF r = count + 1 THEN pool'[r].run = NoRun
                                                 ELSE pool'[r] = pool[r]
  BY <1>0, <1>4 DEF Deliver, DeliverAnswer, handler, marks, Record
<1>5. CASE AckRead
  BY <1>0, <1>1, <1>5 DEF AckRead, marks, TypeInv, HandlerLocated
<1>6. ASSUME NEW c \in Chats, ClearBegin(c)
      PROVE  hpc' # "ack" /\ overwritten' = overwritten /\ pool' = pool
  BY <1>6 DEF ClearBegin, marks
<1> QED BY <1>0, <1>1, <1>2, <1>3, <1>4, <1>5, <1>6 DEF Handle

-----------------------------------------------------------------------------
(* The invariants *)

\* Every step keeps each copy of a row at a run that the row started.
LEMMA LinkStep == TypeInv /\ LinkInv /\ [Next]_vars => LinkInv'
<1> SUFFICES ASSUME TypeInv, LinkInv, [Next]_vars PROVE LinkInv'
  OBVIOUS
<1>0. /\ \A i \in 0..MaxRuns : \A r \in Rows : NamesRun(i, r) => NamesNext(i, r)
      /\ \A r \in Rows : NamesNext(NoRun, r)
  BY NamesKept DEF NamesNext
<1>1. /\ \A r \in Rows : /\ pool[r].run \in 0..MaxRuns
                         /\ snaps[r].run \in 0..MaxRuns
      /\ wrun \in 0..MaxRuns /\ created \in 0..MaxRuns
      /\ wpc = "write" => wrec.run \in 0..MaxRuns /\ hand \in Rows
      /\ wpc = "starting" => hand \in Rows
      /\ hpc = "ack" => hsnap.run \in 0..MaxRuns /\ count \in Rows
  <2>1. /\ pool \in [Rows -> Records] /\ snaps \in [Rows -> Listings]
        /\ wrun \in 0..MaxRuns /\ created \in 0..MaxRuns
        /\ batch \subseteq Rows
    BY DEF TypeInv, TypeOK
  <2>2. /\ wpc \in {"write", "starting"} => hand \in batch
        /\ wpc = "write" => wrec \in Records
        /\ hpc = "ack" => hsnap \in Records /\ count \in Rows
    BY DEF TypeInv, WorkerLocated, HandlerLocated, Storable
  <2> QED BY <2>1, <2>2 DEF Records, Listings
\* What the rows and the copies named before, they name after.
<1>2. /\ \A r \in Rows : /\ NamesNext(pool[r].run, r)
                         /\ NamesNext(snaps[r].run, r)
      /\ wpc = "write" => NamesNext(wrec.run, hand)
      /\ wpc = "starting" => NamesNext(wrun, hand)
      /\ hpc = "ack" => NamesNext(hsnap.run, count)
  BY <1>0, <1>1 DEF LinkInv
<1> DEFINE Copies ==
      /\ \A r \in Rows : /\ NamesNext(pool'[r].run, r)
                         /\ NamesNext(snaps'[r].run, r)
      /\ wpc' = "write" => NamesNext(wrec'.run, hand')
      /\ wpc' = "starting" => NamesNext(wrun', hand')
      /\ hpc' = "ack" => NamesNext(hsnap'.run, count')
<1>3. CASE UNCHANGED vars
  <2>1. Copies
    BY <1>2, <1>3 DEF vars, handler, worker
  <2> QED BY <2>1 DEF LinkInv, NamesRun, NamesNext
<1>4. CASE Handle
  <2>1. Copies
    BY <1>0, <1>2, <1>4, HandleFacts
  <2> QED BY <2>1 DEF LinkInv, NamesRun, NamesNext
<1>5. CASE PassMoves
  <2>1. /\ \A r \in Rows : /\ NamesNext(pool'[r].run, r)
                           /\ NamesNext(snaps'[r].run, r)
        /\ hpc' = "ack" => NamesNext(hsnap'.run, count')
    BY <1>0, <1>2, <1>5, PassFacts
  <2>2. wpc' = "write" => NamesNext(wrec'.run, hand')
    BY <1>2, <1>5, UpdateRuns
  <2>3. wpc' = "starting" => NamesNext(wrun', hand')
    <3> SUFFICES ASSUME wpc' = "starting" PROVE NamesNext(wrun', hand')
      OBVIOUS
    <3>1. StartRun
      BY <1>5
      DEF PassMoves, Process, Claim, Enrich, ProcessFails, Answered,
          InvalidAnswer, RequeueBusy, Started, Finalize, MissingRun,
          NotYet, NotStarted, CompleteSilently, ReplyImpossible, SendReply,
          ReplySent, ReplyFails, FinalUpdate, Finalizing, Update
    <3>2. /\ created + 1 \in Runs /\ created' = created + 1
          /\ wrun' = created + 1 /\ hand' = hand
          /\ runs' = [runs EXCEPT ![created + 1] =
                        [row |-> hand, status |-> "queued", answers |-> 0]]
      BY <1>1, <3>1 DEF StartRun
    <3>3. runs \in [Runs -> ServiceRuns]
      BY DEF TypeInv, TypeOK
    <3> QED BY <3>2, <3>3 DEF NamesNext
  <2> QED BY <2>1, <2>2, <2>3 DEF LinkInv, NamesRun, NamesNext
<1>6. CASE ListReady
  <2>1. /\ \A r \in Rows : snaps'[r].run = NoRun
        /\ wpc' = "next" /\ UNCHANGED <<pool, hpc, hsnap, count>>
    BY <1>6 DEF ListReady, Unlisted, handler
  <2>2. Copies
    BY <1>0, <1>2, <2>1
  <2> QED BY <2>2 DEF LinkInv, NamesRun, NamesNext
<1>7. CASE ListWaiting
  <2>1. /\ \A r \in Rows : snaps'[r].run \in {pool[r].run, NoRun}
        /\ wpc' = "next" /\ UNCHANGED <<pool, hpc, hsnap, count>>
    BY <1>7 DEF ListWaiting, Unlisted, handler
  <2>2. Copies
    BY <1>0, <1>2, <2>1
  <2> QED BY <2>2 DEF LinkInv, NamesRun, NamesNext
<1>8. CASE EndPass
  <2>1. wpc' = "idle" /\ UNCHANGED <<pool, snaps, hpc, hsnap, count>>
    BY <1>8 DEF EndPass, handler
  <2>2. Copies
    BY <1>2, <2>1
  <2> QED BY <2>2 DEF LinkInv, NamesRun, NamesNext
<1>9. ASSUME NEW q \in Rows, Touch(q) PROVE LinkInv'
  <2>1. /\ wpc' = "write" /\ hand' = q /\ wrec' = pool[q]
        /\ UNCHANGED <<pool, snaps, hpc, hsnap, count>>
    BY <1>9 DEF Touch, Update, handler
  <2>2. Copies
    BY <1>2, <2>1
  <2> QED BY <2>2 DEF LinkInv, NamesRun, NamesNext
<1>10. CASE Write
  <2>1. /\ \A r \in Rows : \/ pool'[r] = pool[r]
                           \/ r = hand /\ pool'[r] = wrec
        /\ wpc = "write" /\ wpc' = then
        /\ UNCHANGED <<hpc, hsnap, count>>
    BY <1>10, WriteFacts
  <2>2. \A r \in Rows : snaps'[r].run \in {snaps[r].run, NoRun}
    <3>1. snaps \in [Rows -> Listings]
      BY Typed
    <3>2. snaps' = snaps \/ snaps' = [snaps EXCEPT ![hand] = Unlisted]
      BY <1>10, WriteFacts
    <3> QED BY <3>1, <3>2 DEF Unlisted
  <2>3. wpc' \notin {"write", "starting"}
    BY <2>1 DEF TypeInv, TypeOK
  <2>4. Copies
    BY <1>0, <1>2, <2>1, <2>2, <2>3
  <2> QED BY <2>4 DEF LinkInv, NamesRun, NamesNext
<1>11. CASE Restart
  <2>1. /\ \A r \in Rows : pool'[r].run = pool[r].run
        /\ \A r \in Rows : snaps'[r].run = NoRun
        /\ hpc' = "idle" /\ wpc' = "idle"
    BY <1>11, RestartFacts DEF Unlisted
  <2>2. Copies
    BY <1>0, <1>2, <2>1
  <2> QED BY <2>2 DEF LinkInv, NamesRun, NamesNext
<1>12. ASSUME NEW i \in Runs, RunMoves(i) PROVE LinkInv'
  <2>1. Copies
    BY <1>2, <1>12 DEF RunMoves, handler, worker
  <2> QED BY <2>1 DEF LinkInv, NamesRun, NamesNext
<1> QED BY <1>3, <1>4, <1>5, <1>6, <1>7, <1>8, <1>9, <1>10, <1>11, <1>12
     DEF Next, Work, PassMoves

\* Every step keeps the copy that is finalised at the run of its row.
LEMMA SnapStep == TypeInv /\ SnapInv /\ [Next]_vars => SnapInv'
<1> SUFFICES ASSUME TypeInv, SnapInv, [Next]_vars,
                    NEW r \in batch', snaps'[r].run # NoRun
             PROVE  pool'[r].run = snaps'[r].run \/ r \in overwritten'
  BY DEF SnapInv
<1>0. /\ \A q \in batch : q \in 1..count /\ q \in Rows
      /\ snaps \in [Rows -> Listings]
      /\ phase # "finalize" => \A q \in Rows : snaps[q].run = NoRun
  BY DEF TypeInv, TypeOK, WorkerLocated, SnapsLocated
<1>1. CASE UNCHANGED vars
  BY <1>1 DEF vars, worker, marks, SnapInv
<1>2. CASE Handle
  <2>1. r \in batch /\ snaps' = snaps /\ r \in 1..count
    BY <1>0, <1>2, HandleFacts
  <2>2. /\ r \notin overwritten' => pool'[r].run = pool[r].run
        /\ overwritten \subseteq overwritten'
    BY <1>2, <2>1, HandleFacts
  <2> QED BY <2>1, <2>2 DEF SnapInv
<1>3. CASE PassMoves
  <2>1. r \in batch /\ snaps'[r] = snaps[r] /\ UNCHANGED <<pool, overwritten>>
    BY <1>3, PassFacts
  <2> QED BY <2>1 DEF SnapInv
<1>4. CASE ListReady
  <2>1. r \in Rows
    BY <1>4 DEF ListReady, Ready
  <2> QED BY <1>4, <2>1 DEF ListReady, Unlisted
<1>5. CASE ListWaiting
  BY <1>5 DEF ListWaiting, Waiting
<1>6. CASE EndPass
  BY <1>6 DEF EndPass
<1>7. ASSUME NEW q \in Rows, Touch(q) PROVE FALSE
  BY <1>0, <1>7 DEF Touch, TypeInv, WorkerLocated
<1>8. CASE Write
  <2>1. CASE then \in {"next", "idle"}
    <3>1. /\ r \in batch /\ r # hand
          /\ snaps' = [snaps EXCEPT ![hand] = Unlisted]
          /\ \A q \in Rows : q # hand => pool'[q] = pool[q]
          /\ overwritten' = overwritten
      BY <1>8, <2>1, WriteFacts
    <3> QED BY <1>0, <3>1 DEF SnapInv
  <2>2. CASE then \notin {"next", "idle"}
    <3>1. phase = "process" /\ snaps' = snaps /\ r \in batch
      BY <1>8, <2>2, WriteFacts
    <3> QED BY <1>0, <3>1
  <2> QED BY <2>1, <2>2
<1>9. CASE Restart
  BY <1>9, RestartFacts
<1>10. ASSUME NEW i \in Runs, RunMoves(i)
       PROVE  pool'[r].run = snaps'[r].run \/ r \in overwritten'
  BY <1>10 DEF RunMoves, worker, marks, SnapInv
<1> QED BY <1>1, <1>2, <1>3, <1>4, <1>5, <1>6, <1>7, <1>8, <1>9, <1>10
     DEF Next, Work, PassMoves

\* The steps other than ReplySent count no answer; a new run has none.
LEMMA AnswersKept ==
  TypeInv /\ [Next]_vars /\ ~ReplySent =>
    \A i \in Runs : runs'[i].answers # 0 => runs'[i].answers = runs[i].answers
<1> SUFFICES ASSUME TypeInv, [Next]_vars, ~ReplySent, NEW i \in Runs,
                    runs'[i].answers # 0
             PROVE  runs'[i].answers = runs[i].answers
  OBVIOUS
<1>0. runs \in [Runs -> ServiceRuns] /\ created \in 0..MaxRuns
  BY DEF TypeInv, TypeOK
<1>1. CASE runs' = runs
  BY <1>1
<1>2. CASE StartRun
  <2>1. /\ created + 1 \in Runs
        /\ runs' = [runs EXCEPT ![created + 1] =
                      [row |-> hand, status |-> "queued", answers |-> 0]]
    BY <1>0, <1>2 DEF StartRun
  <2>2. i # created + 1
    BY <1>0, <2>1
  <2> QED BY <1>0, <2>1, <2>2
<1>3. ASSUME NEW c \in Chats, ClearBegin(c)
      PROVE  runs'[i].answers = runs[i].answers
  BY <1>0, <1>3 DEF ClearBegin, ServiceRuns
<1>4. CASE Restart
  BY <1>0, <1>4 DEF Restart, ServiceRuns
<1>5. ASSUME NEW j \in Runs, RunMoves(j)
      PROVE  runs'[i].answers = runs[i].answers
  BY <1>0, <1>5 DEF RunMoves, ServiceRuns
<1>6. CASE UNCHANGED vars
  BY <1>6 DEF vars, service
<1>7. CASE Handle /\ ~(\E c \in Chats : ClearBegin(c))
  <2>1. runs' = runs
    BY <1>7 DEF Handle, Deliver, DeliverAnswer, AckRead, AckWrite, ClearCancel,
                service
  <2> QED BY <1>1, <2>1
<1>8. CASE \/ \E r \in Rows : Touch(r)
           \/ Write
           \/ (Process \/ Finalize) /\ ~StartRun
  <2>1. runs' = runs
    BY <1>8
    DEF Touch, Write, Process, ListReady, Claim, Enrich, ProcessFails, Answered,
        InvalidAnswer, RequeueBusy, Started, Finalize, ListWaiting,
        EndPass, MissingRun, NotYet, NotStarted, CompleteSilently,
        ReplyImpossible, SendReply, ReplyFails, FinalUpdate, service
  <2> QED BY <1>1, <2>1
<1> QED BY <1>2, <1>3, <1>4, <1>5, <1>6, <1>7, <1>8 DEF Next, Work

\* A row whose answer is recorded stays so.
LEMMA RecordedKept ==
  ASSUME TypeInv, [Next]_vars, NEW r \in 1..count, Recorded(r)
  PROVE  Recorded(r)' \/ r \in overwritten'
<1>0. r \in Rows /\ pool[r].status = "completed"
      /\ (r \in batch => phase = "touch" /\ wrec.status = "completed")
  BY Typed DEF Recorded
<1>1. CASE UNCHANGED vars
  BY <1>0, <1>1 DEF vars, worker, Recorded
<1>2. CASE Handle
  <2>1. UNCHANGED <<batch, phase, wrec>>
        /\ (r \notin overwritten' => pool'[r] = pool[r])
    BY <1>0, <1>2, HandleFacts DEF Active
  <2> QED BY <1>0, <2>1 DEF Recorded
<1>3. CASE PassMoves
  <2>1. r \notin batch /\ batch' \subseteq batch /\ pool' = pool
    BY <1>0, <1>3, PassFacts
  <2> QED BY <1>0, <2>1 DEF Recorded
<1>4. CASE ListReady
  <2>1. r \notin batch' /\ pool' = pool
    BY <1>0, <1>4 DEF ListReady, Ready
  <2> QED BY <1>0, <2>1 DEF Recorded
<1>5. CASE ListWaiting
  <2>1. r \notin batch' /\ pool' = pool
    BY <1>0, <1>5 DEF ListWaiting, Waiting
  <2> QED BY <1>0, <2>1 DEF Recorded
<1>6. CASE EndPass
  <2>1. r \notin batch' /\ pool' = pool
    BY <1>6 DEF EndPass
  <2> QED BY <1>0, <2>1 DEF Recorded
<1>7. ASSUME NEW q \in Rows, Touch(q) PROVE Recorded(r)'
  <2>1. batch' = {q} /\ wrec' = pool[q] /\ pool' = pool /\ phase' = phase
        /\ phase = "touch"
    BY <1>7 DEF Touch, Update, TypeInv, WorkerLocated
  <2> QED BY <1>0, <2>1 DEF Recorded
<1>8. CASE Write
  <2>1. CASE r = hand
    <3>1. phase = "touch" /\ wrec.status = "completed" /\ then = "idle"
      BY <1>0, <1>8, <2>1, WriteFacts DEF TypeInv, WorkerLocated
    <3>2. pool'[r] = wrec /\ r \notin batch'
      BY <1>8, <2>1, <3>1, WriteFacts
    <3> QED BY <3>1, <3>2 DEF Recorded
  <2>2. CASE r # hand
    <3>1. r \notin batch
      BY <1>0, <1>8, <2>2, WriteFacts DEF TypeInv, WorkerLocated
    <3>2. pool'[r] = pool[r] /\ batch' \subseteq batch
      BY <1>0, <1>8, <2>2, WriteFacts
    <3> QED BY <1>0, <3>1, <3>2 DEF Recorded
  <2> QED BY <2>1, <2>2
<1>9. CASE Restart
  <2>1. pool'[r] = pool[r] /\ batch' = {}
    BY <1>0, <1>9, RestartFacts
  <2> QED BY <1>0, <2>1 DEF Recorded
<1>10. ASSUME NEW i \in Runs, RunMoves(i) PROVE Recorded(r)'
  BY <1>0, <1>10 DEF RunMoves, worker, Recorded
<1> QED BY <1>1, <1>2, <1>3, <1>4, <1>5, <1>6, <1>7, <1>8, <1>9, <1>10
     DEF Next, Work, PassMoves

\* A record about to be written is written, unless the server stops before.
LEMMA RecordingKept ==
  ASSUME TypeInv, [Next]_vars, NEW i \in 1..created, Recording(i)
  PROVE  Recording(i)' \/ Recorded(runs[i].row)' \/ i \in unsure'
<1>0. runs'[i].row = runs[i].row /\ wpc = "write" /\ phase = "finalize"
  BY RunsGrow DEF Recording
<1>1. CASE UNCHANGED vars
  BY <1>0, <1>1 DEF vars, worker, Recording
<1>2. CASE Handle
  <2>1. UNCHANGED <<wpc, phase, hand, wrec>>
    BY <1>2, HandleFacts
  <2> QED BY <1>0, <2>1 DEF Recording
<1>3. CASE PassMoves
  BY <1>0, <1>3, PassFacts
<1>4. CASE ListReady \/ ListWaiting \/ EndPass \/ (\E q \in Rows : Touch(q))
  BY <1>0, <1>4 DEF ListReady, ListWaiting, EndPass, Touch
<1>5. CASE Write
  <2>1. hand = runs[i].row /\ wrec.status = "completed"
    BY DEF Recording
  <2>2. pool'[hand] = wrec /\ hand \notin batch'
    BY <1>0, <1>5, WriteFacts
  <2> QED BY <1>0, <2>1, <2>2 DEF Recorded
<1>6. CASE Restart
  BY <1>6 DEF Restart, Recording
<1>7. ASSUME NEW j \in Runs, RunMoves(j) PROVE Recording(i)'
  <2>1. UNCHANGED <<wpc, phase, hand, wrec>>
    BY <1>7 DEF RunMoves, worker
  <2> QED BY <1>0, <2>1 DEF Recording
<1> QED BY <1>1, <1>2, <1>3, <1>4, <1>5, <1>6, <1>7 DEF Next, Work, PassMoves

\* A run in one of the two windows stays in it.
LEMMA ExcusedKept ==
  ASSUME TypeInv, [Next]_vars, NEW i \in 1..created, Excused(i)
  PROVE  Excused(i)'
<1>1. overwritten \subseteq overwritten'
  BY StepKeepsOrder DEF OrderKept, ListReady, marks
<1>2. unsure \subseteq unsure'
  <2>1. CASE Handle
    BY <2>1, HandleFacts
  <2>2. CASE PassMoves
    BY <2>2, PassFacts
  <2>3. CASE Write
    BY <2>3, WriteFacts
  <2>4. CASE \/ UNCHANGED vars \/ ListReady \/ ListWaiting \/ EndPass
             \/ (\E q \in Rows : Touch(q)) \/ (\E j \in Runs : RunMoves(j))
    BY <2>4 DEF vars, marks, ListReady, ListWaiting, EndPass, Touch, RunMoves
  <2>5. CASE Restart
    BY <2>5 DEF Restart
  <2> QED BY <2>1, <2>2, <2>3, <2>4, <2>5 DEF Next, Work, PassMoves
<1> QED BY <1>1, <1>2, RunsGrow DEF Excused

\* What is known of a run whose answer was counted before the step.
LEMMA CountedKept ==
  ASSUME TypeInv, AnswerInv, [Next]_vars, NEW i \in Runs,
         runs[i].answers # 0, runs'[i].answers = runs[i].answers
  PROVE  /\ i <= created'
         /\ \/ Excused(i)'
            \/ runs'[i].answers = 1 /\ (Recording(i)' \/ Recorded(runs[i].row)')
<1>1. i \in 1..created
  BY DEF AnswerInv
<1>2. /\ created \in 0..MaxRuns /\ created' \in created..MaxRuns
      /\ runs'[i].row = runs[i].row
  BY <1>1, RunsGrow DEF TypeInv, TypeOK
<1>3. i <= created'
  BY <1>1, <1>2
<1>4. runs[i].row \in 1..count
  BY <1>1 DEF TypeInv, RunsLocated
<1>5. CASE Excused(i)
  BY <1>1, <1>3, <1>5, ExcusedKept
<1>6. CASE runs[i].answers = 1 /\ Recording(i)
  <2>1. Recording(i)' \/ Recorded(runs[i].row)' \/ i \in unsure'
    BY <1>1, <1>6, RecordingKept
  <2> QED BY <1>3, <1>6, <2>1 DEF Excused
<1>7. CASE runs[i].answers = 1 /\ Recorded(runs[i].row)
  <2>1. \A r \in 1..count : Recorded(r) =>
          \/ /\ pool'[r].status = "completed"
             /\ r \in batch' => phase' = "touch" /\ wrec'.status = "completed"
          \/ r \in overwritten'
    BY RecordedKept DEF Recorded
  <2>2. \/ Recorded(runs[i].row)'
        \/ runs[i].row \in overwritten'
    BY <1>2, <1>4, <1>7, <2>1 DEF Recorded
  <2> QED BY <1>2, <1>3, <1>7, <2>2 DEF Excused
<1> QED BY <1>5, <1>6, <1>7 DEF AnswerInv

\* Every step keeps an answer that was sent behind its row's completion.
LEMMA AnswerStep ==
  TypeInv /\ LinkInv /\ SnapInv /\ AnswerInv /\ [Next]_vars => AnswerInv'
<1> SUFFICES ASSUME TypeInv, LinkInv, SnapInv, AnswerInv, [Next]_vars,
                    NEW i \in Runs, runs'[i].answers # 0
             PROVE  /\ i <= created'
                    /\ \/ Excused(i)'
                       \/ /\ runs'[i].answers = 1
                          /\ Recording(i)' \/ Recorded(runs[i].row)'
  BY DEF AnswerInv
<1>1. CASE ~ReplySent
  <2>1. runs'[i].answers = runs[i].answers
    BY <1>1, AnswersKept
  <2> QED BY <2>1, CountedKept
<1>2. CASE ReplySent
  <2>1. /\ wpc = "sending" /\ wpc' = "write" /\ hand' = hand /\ phase' = phase
        /\ runs' = [runs EXCEPT ![snap.run].answers = Capped(@ + 1, 2)]
        /\ wrec' = [cur EXCEPT !.status = "completed", !.reply = "sent"]
        /\ UNCHANGED <<created, overwritten, unsure>>
    BY <1>2 DEF ReplySent, Update, marks
  <2>2. /\ hand \in batch /\ hand \in Rows /\ phase # "touch"
        /\ snaps[hand].run # NoRun
    BY <2>1, InHand DEF TypeInv, TypeOK, WorkerLocated
  <2>3. phase = "finalize"
    BY <2>2 DEF TypeInv, SnapsLocated
  <2>4. runs \in [Runs -> ServiceRuns]
    BY Typed
  <2>5. CASE i # snap.run
    <3>1. runs'[i].answers = runs[i].answers
      BY <2>1, <2>4, <2>5
    <3> QED BY <3>1, CountedKept
  <2>6. CASE i = snap.run
    <3>1. i <= created /\ runs[i].row = hand /\ runs'[i].row = hand
          /\ runs'[i].answers = Capped(runs[i].answers + 1, 2)
      BY <2>1, <2>2, <2>4, <2>6 DEF LinkInv, NamesRun, snap, ServiceRuns
    <3>2. CASE Excused(i)
      BY <2>1, <3>1, <3>2 DEF Excused
    <3>3. CASE ~Excused(i)
      <4>1. runs[i].answers = 0
        BY <2>1, <2>2, <3>1, <3>3 DEF AnswerInv, Recording, Recorded
      <4>2. runs'[i].answers = 1
        BY <3>1, <4>1 DEF Capped
      <4>3. pool[hand].run = i /\ pool[hand] \in Records
        BY <2>2, <2>6, <3>1, <3>3
        DEF SnapInv, Excused, snap, TypeInv, TypeOK
      <4>4. wrec'.status = "completed" /\ wrec'.reply = "sent" /\ wrec'.run = i
        BY <2>1, <4>3 DEF cur, Records
      <4> QED BY <2>1, <2>3, <3>1, <4>2, <4>4 DEF Recording
    <3> QED BY <3>2, <3>3
  <2> QED BY <2>5, <2>6
<1> QED BY <1>1, <1>2

\* The answer of a run is sent at most once: only the row of the run sends it,
\* and a row whose answer went out is completed and stays so, unless the server
\* stops before the record or an old record is written over it
\* (_finalize_waiting_results, FeishuMessagePoolRepository.update).
THEOREM AnsweredAtMostOnce == Spec => []AnsweredOnce
<1>1. Init => LinkInv /\ SnapInv /\ AnswerInv
  BY DEF Init, LinkInv, SnapInv, AnswerInv, NamesRun, Record, Unlisted
<1>2. TypeInv /\ AnswerInv => AnsweredOnce
  BY DEF AnswerInv, Excused, AnsweredOnce, TypeInv, TypeOK
<1> QED BY <1>1, <1>2, TypeInit, TypeStep, LinkStep, SnapStep, AnswerStep, PTL
       DEF Spec

-----------------------------------------------------------------------------
(* The runs of a message *)

RunsOf(r) == {i \in Runs : runs[i].row = r}
RunCount(r) == Cardinality(RunsOf(r))

\* The attempts that rec counts for row r, and the restarts, cover its runs,
\* and leave one over if the row may be claimed again.
Covered(rec, r) ==
  /\ RunCount(r) <= rec.att + restarts
  /\ rec.status \in {"queued", "retryable"} => RunCount(r) < MaxAttempts + restarts

\* The attempt of the claim is counted in rec and has not started its run.
Attempting(rec, r) ==
  /\ RunCount(r) < rec.att + restarts
  /\ rec.att = Attempt(snaps[r].att)
  /\ rec.status \in {"claimed", "cancelled"}

\* What covers the runs of r: its record, and the copies the worker goes by.
RowBudget(r) ==
  /\ Covered(pool[r], r)
  /\ r \in batch /\ phase = "process" /\ (wpc = "next" \/ hand # r) =>
       /\ RunCount(r) <= snaps[r].att + restarts
       /\ RunCount(r) < MaxAttempts + restarts
  /\ r \in batch /\ phase = "finalize" => snaps[r].att = pool[r].att
  /\ hand = r /\ wpc = "write" =>
       /\ Covered(wrec, r)
       /\ then \in {"claimed", "ask"} => Attempting(wrec, r)
  /\ hand = r /\ wpc \in {"claimed", "ask"} => Attempting(pool[r], r)
  /\ hand = r /\ wpc = "starting" =>
       /\ pool[r].att = Attempt(snaps[r].att)
       /\ pool[r].status \in {"claimed", "cancelled"}

BudgetInv ==
  /\ \A i \in Runs : i > created => runs[i].row = 0
  /\ \A r \in Rows : r \in overwritten \/ RowBudget(r)

\* The runs of a message can be counted.
LEMMA RunCountNat ==
  ASSUME NEW r
  PROVE  IsFiniteSet(RunsOf(r)) /\ RunCount(r) \in Nat
<1>1. IsFiniteSet(1..MaxRuns)
  BY FS_Interval
<1>2. IsFiniteSet(RunsOf(r))
  BY <1>1, FS_Subset DEF RunsOf
<1> QED BY <1>2, FS_CardinalityType DEF RunCount

\* A run that was not created yet belongs to no row.
LEMMA UnstartedKept ==
  ASSUME TypeInv, BudgetInv, [Next]_vars
  PROVE  \A i \in Runs : i > created' => runs'[i].row = 0
<1>0. runs \in [Runs -> ServiceRuns] /\ created \in 0..MaxRuns
  BY Typed
<1>1. CASE RunsKept
  BY <1>1 DEF RunsKept, BudgetInv
<1>2. CASE StartRun
  <2>1. /\ created' = created + 1
        /\ runs' = [runs EXCEPT ![created + 1] =
                      [row |-> hand, status |-> "queued", answers |-> 0]]
    BY <1>2 DEF StartRun
  <2>2. \A i \in Runs : i > created' => runs'[i] = runs[i] /\ i > created
    BY <1>0, <2>1
  <2> QED BY <2>2 DEF BudgetInv
<1> QED BY <1>1, <1>2, OnlyStartRunCreates

\* Only the start of a run adds one, for the row in hand.
LEMMA CountStep ==
  ASSUME TypeInv, BudgetInv, [Next]_vars, NEW r \in Rows
  PROVE  /\ RunCount(r)' \in Nat
         /\ ~(StartRun /\ hand = r) => RunCount(r)' = RunCount(r)
         /\ RunCount(r)' <= RunCount(r) + 1
<1>0. runs \in [Runs -> ServiceRuns] /\ created \in 0..MaxRuns
  BY Typed
<1>1. CASE RunsKept
  <2>1. RunsOf(r)' = RunsOf(r)
    BY <1>1 DEF RunsKept, RunsOf
  <2>2. RunCount(r)' = RunCount(r)
    BY <2>1 DEF RunCount
  <2> QED BY <2>2, RunCountNat
<1>2. CASE StartRun
  <2>1. /\ created' = created + 1 /\ created + 1 \in Runs
        /\ runs' = [runs EXCEPT ![created + 1] =
                      [row |-> hand, status |-> "queued", answers |-> 0]]
    BY <1>0, <1>2 DEF StartRun
  <2>2. /\ runs'[created + 1].row = hand
        /\ \A i \in Runs : i # created + 1 => runs'[i].row = runs[i].row
    BY <1>0, <2>1
  <2>3. runs[created + 1].row = 0
    BY <1>0, <2>1 DEF BudgetInv
  <2>4. CASE hand = r
    <3>1. RunsOf(r)' = RunsOf(r) \cup {created + 1}
      BY <2>1, <2>2, <2>4 DEF RunsOf
    <3>2. created + 1 \notin RunsOf(r)
      BY <2>3 DEF RunsOf
    <3>3. Cardinality(RunsOf(r) \cup {created + 1}) = RunCount(r) + 1
      BY <3>2, RunCountNat, FS_AddElement DEF RunCount
    <3>4. RunCount(r)' = RunCount(r) + 1
      BY <3>1, <3>3 DEF RunCount
    <3> QED BY <1>2, <2>4, <3>4, RunCountNat
  <2>5. CASE hand # r
    <3>1. RunsOf(r)' = RunsOf(r)
      BY <2>1, <2>2, <2>3, <2>5 DEF RunsOf
    <3>2. RunCount(r)' = RunCount(r)
      BY <3>1 DEF RunCount
    <3> QED BY <3>2, RunCountNat
  <2> QED BY <2>4, <2>5
<1> QED BY <1>1, <1>2, OnlyStartRunCreates

\* A row that the handler writes is cancelled, or new and without a run.
LEMMA HandleAttempts ==
  ASSUME TypeInv, Handle, NEW r \in Rows, r \notin overwritten'
  PROVE  \/ pool'[r] = pool[r]
         \/ pool'[r].att = pool[r].att /\ pool'[r].status = "cancelled"
         \/ r = count + 1 /\ pool'[r].att = 0
<1>0. pool \in [Rows -> Records] /\ pool[r] \in Records /\ count \in 0..MaxRows
  BY DEF TypeInv, TypeOK
<1>1. CASE AckWrite
  BY <1>0, <1>1 DEF AckWrite
<1>2. CASE ClearCancel
  BY <1>0, <1>2 DEF ClearCancel, Records
<1>3. ASSUME NEW c \in Chats, Deliver(c) \/ DeliverAnswer(c)
      PROVE  pool'[r] = pool[r] \/ (r = count + 1 /\ pool'[r].att = 0)
  BY <1>0, <1>3 DEF Deliver, DeliverAnswer, Record
<1>4. ASSUME NEW c \in Chats, ClearBegin(c) \/ AckRead PROVE pool' = pool
  BY <1>4 DEF ClearBegin, AckRead
<1> QED BY <1>1, <1>2, <1>3, <1>4, MessagePoolAssumption DEF Handle

\* The handler keeps the budget of the rows it does not overwrite.
LEMMA HandleBudget ==
  ASSUME TypeInv, BudgetInv, Handle, NEW r \in Rows, r \notin overwritten'
  PROVE  RowBudget(r)'
<1>1. /\ UNCHANGED <<wpc, phase, batch, snaps, hand, wrec, then, created, restarts>>
      /\ RowBudget(r)
  BY HandleFacts
  DEF BudgetInv, Handle, Deliver, DeliverAnswer, AckRead, AckWrite, ClearBegin,
      ClearCancel
<1>2. RunCount(r)' = RunCount(r) /\ RunCount(r) \in Nat
  <2>1. ~StartRun
    BY <1>1 DEF StartRun, TypeInv, TypeOK
  <2> QED BY <2>1, CountStep, RunCountNat DEF Next
<1>3. CASE pool'[r] = pool[r]
  BY <1>1, <1>2, <1>3 DEF RowBudget, Covered, Attempting
<1>4. CASE pool'[r].att = pool[r].att /\ pool'[r].status = "cancelled"
  BY <1>1, <1>2, <1>4 DEF RowBudget, Covered, Attempting
<1>5. CASE r = count + 1 /\ pool'[r].att = 0
  <2>1. r \notin batch /\ (wpc \in {"write", "claimed", "ask", "starting"} => hand # r)
    BY <1>5, Typed DEF TypeInv, WorkerLocated
  <2>2. RunsOf(r) = {}
    BY <1>5, Typed DEF RunsOf, BudgetInv, TypeInv, RunsLocated
  <2>3. RunCount(r) = 0
    BY <2>2, FS_EmptySet DEF RunCount
  <2>4. restarts \in Nat
    BY DEF TypeInv, TypeOK
  <2> QED BY <1>1, <1>2, <1>5, <2>1, <2>3, <2>4 DEF RowBudget, Covered
<1> QED BY <1>3, <1>4, <1>5, HandleAttempts

\* So does the record that the worker stores.
LEMMA WriteBudget ==
  ASSUME TypeInv, BudgetInv, Write, NEW r \in Rows, r \notin overwritten'
  PROVE  RowBudget(r)'
<1>1. RowBudget(r) /\ snaps \in [Rows -> Listings]
  BY WriteFacts, Typed DEF BudgetInv
<1>2. RunCount(r)' = RunCount(r) /\ RunCount(r) \in Nat /\ restarts' = restarts
  <2>1. ~StartRun
    BY WriteFacts DEF StartRun
  <2> QED BY <2>1, WriteFacts, CountStep, RunCountNat DEF Next, Work
<1>3. CASE r # hand
  <2>1. /\ pool'[r] = pool[r] /\ snaps'[r] = snaps[r] /\ phase' = phase
        /\ r \in batch' => r \in batch
        /\ wpc = "write" /\ (hand' = hand \/ hand' = 0)
    BY <1>1, <1>3, WriteFacts
  <2> QED BY <1>1, <1>2, <1>3, <2>1 DEF RowBudget, Covered
<1>4. CASE r = hand
  <2>1. pool'[r] = wrec /\ wpc = "write" /\ wpc' = then
    BY <1>4, WriteFacts
  <2>2. Covered(pool[r], r)'
    BY <1>1, <1>2, <1>4, <2>1 DEF RowBudget, Covered
  <2>3. CASE then \in {"next", "idle"}
    <3>1. r \notin batch' /\ hand' = 0
      BY <1>4, <2>3, WriteFacts
    <3> QED BY <2>2, <3>1 DEF RowBudget, Covered
  <2>4. CASE then \in {"claimed", "ask"}
    <3>1. hand' = hand /\ snaps' = snaps /\ phase' = "process"
      BY <2>4, WriteFacts
    <3>2. Attempting(pool[r], r)'
      BY <1>1, <1>2, <1>4, <2>1, <2>4, <3>1 DEF RowBudget, Attempting
    <3> QED BY <1>4, <2>1, <2>2, <2>4, <3>1, <3>2
         DEF RowBudget, Covered, Attempting
  <2> QED BY <2>3, <2>4, WriteFacts
<1> QED BY <1>3, <1>4

\* Which copy is in hand, and what is written of it, in the steps of a pass.
LEMMA PassBudget ==
  ASSUME TypeInv, BudgetInv, PassMoves, NEW r \in Rows, r \notin overwritten',
         RunCount(r)' = RunCount(r),
         hand' = r /\ wpc' = "write" =>
           /\ Covered(wrec', r)
           /\ then' \in {"claimed", "ask"} =>
                Attempting(wrec', r) /\ snaps'[r] = snaps[r],
         hand' = r /\ wpc' \in {"claimed", "ask"} =>
           /\ hand = r /\ wpc \in {"claimed", "ask"} /\ snaps'[r] = snaps[r],
         wpc' # "starting",
         wpc = "next" \/ (hand' = hand /\ wpc' # "next")
  PROVE  RowBudget(r)'
<1>1. /\ UNCHANGED <<pool, phase, restarts>> /\ RowBudget(r)
      /\ r \in batch' => r \in batch /\ snaps'[r] = snaps[r]
  BY PassFacts DEF BudgetInv
<1>2. Covered(pool[r], r)'
  BY <1>1 DEF RowBudget, Covered
<1>3. r \in batch' /\ phase' = "process" /\ (wpc' = "next" \/ hand' # r) =>
        /\ RunCount(r)' <= snaps'[r].att + restarts'
        /\ RunCount(r)' < MaxAttempts + restarts'
  BY <1>1 DEF RowBudget
<1>4. r \in batch' /\ phase' = "finalize" => snaps'[r].att = pool'[r].att
  BY <1>1 DEF RowBudget
<1>5. hand' = r /\ wpc' = "write" =>
        /\ Covered(wrec, r)'
        /\ then' \in {"claimed", "ask"} => Attempting(wrec, r)'
  BY <1>1 DEF Covered, Attempting
<1>6. hand' = r /\ wpc' \in {"claimed", "ask"} => Attempting(pool[r], r)'
  BY <1>1 DEF RowBudget, Attempting
<1> QED BY <1>2, <1>3, <1>4, <1>5, <1>6 DEF RowBudget

\* A failure puts the row back only while its attempts are not used up.
LEMMA FailureCovered ==
  ASSUME TypeInv, NEW r \in Rows, RunCount(r) <= pool[r].att + restarts,
         NEW att \in 0..MaxAttempts,
         att = pool[r].att \/ RunCount(r) < pool[r].att + restarts
  PROVE  Covered(Failure(pool[r], att), r)
<1>1. pool[r] \in Records /\ restarts \in Nat
  BY DEF TypeInv, TypeOK
<1>2. /\ Failure(pool[r], att).att = pool[r].att
      /\ Failure(pool[r], att).status = "retryable" \/
           Failure(pool[r], att).status = "dead"
      /\ Failure(pool[r], att).status = "retryable" => att < MaxAttempts
  BY <1>1 DEF Failure, Records
<1>3. pool[r].att \in 0..MaxAttempts
  BY <1>1 DEF Records
<1> QED BY <1>1, <1>2, <1>3, RunCountNat DEF Covered

\* So does every other step of the worker's pass.
LEMMA PassMovesBudget ==
  ASSUME TypeInv, BudgetInv, PassMoves, ~StartRun, NEW r \in Rows,
         r \notin overwritten'
  PROVE  RowBudget(r)'
<1> DEFINE n == RunCount(r)
<1>0. /\ pool[r] \in Records /\ pool[r].att \in 0..MaxAttempts
      /\ snaps[r].att \in 0..MaxAttempts /\ restarts \in Nat
      /\ Attempt(snaps[r].att) \in 0..MaxAttempts
  BY DEF TypeInv, TypeOK, Records, Listings, Attempt, Capped
<1>1. /\ n \in Nat /\ RunCount(r)' = n
      /\ RowBudget(r) /\ Covered(pool[r], r)
  BY RunCountNat, CountStep, PassFacts
  DEF BudgetInv, RowBudget, PassMoves, Next, Work
<1> HIDE DEF n
<1>2. ASSUME NEW q \in Rows, Claim(q) PROVE RowBudget(r)'
  <2>1. /\ wpc = "next" /\ hand' = q /\ wpc' = "write" /\ snaps' = snaps
        /\ phase = "process" /\ q \in batch
        /\ wrec' = [pool[q] EXCEPT !.status = "claimed",
                                   !.att = Attempt(snaps[q].att)]
    BY <1>2 DEF Claim, Update, First
  <2>2. ASSUME q = r PROVE Covered(wrec', r) /\ Attempting(wrec', r)
    <3>1. n <= snaps[r].att + restarts /\ n < MaxAttempts + restarts
      BY <1>1, <2>1, <2>2 DEF RowBudget, n
    <3>2. n < Attempt(snaps[r].att) + restarts
      BY <1>0, <1>1, <3>1 DEF Attempt, Capped
    <3>3. wrec'.att = Attempt(snaps[r].att) /\ wrec'.status = "claimed"
      BY <1>0, <2>1, <2>2 DEF Records
    <3> QED BY <1>0, <1>1, <3>1, <3>2, <3>3 DEF Covered, Attempting, n
  <2> QED BY <1>1, <2>1, <2>2, PassBudget DEF n
<1>3. CASE Enrich
  <2>1. /\ wpc = "claimed" /\ hand' = hand /\ snaps' = snaps
        /\ \/ wpc' = "write" /\ wrec' = pool[hand]
           \/ wpc' = "ask"
    BY <1>3 DEF Enrich, Update, cur
  <2>2. hand = r => Attempting(pool[r], r)
    BY <1>1, <2>1 DEF RowBudget
  <2> QED BY <1>1, <2>1, <2>2, PassBudget DEF n
<1>4. CASE ProcessFails
  <2>1. /\ wpc \in {"claimed", "ask", "starting"} /\ hand' = hand
        /\ wpc' = "write" /\ then' = "next"
        /\ wrec' = Failure(pool[hand], Attempt(snaps[hand].att))
    BY <1>4 DEF ProcessFails, Update, cur, snap
  <2>2. hand = r => pool[r].att = Attempt(snaps[r].att)
    BY <1>1, <2>1 DEF RowBudget, Attempting
  <2>3. hand = r => Covered(wrec', r)
    BY <1>0, <1>1, <2>1, <2>2, FailureCovered DEF Covered
  <2> QED BY <1>1, <2>1, <2>3, PassBudget DEF n
<1>5. CASE Answered \/ InvalidAnswer \/ RequeueBusy
  <2>1. /\ wpc = "ask" /\ hand' = hand /\ wpc' = "write" /\ then' = "next"
    BY <1>5 DEF Answered, InvalidAnswer, RequeueBusy, Update
  <2>2. ASSUME hand = r PROVE wrec'.att = pool[r].att
    BY <1>0, <1>5, <2>2
    DEF Answered, InvalidAnswer, RequeueBusy, Update, cur, Records
  <2>3. hand = r => n < pool[r].att + restarts
    BY <1>1, <2>1 DEF RowBudget, Attempting, n
  <2>4. hand = r => Covered(wrec', r)
    BY <1>0, <1>1, <2>2, <2>3 DEF Covered, n
  <2> QED BY <1>1, <2>1, <2>4, PassBudget DEF n
<1>6. CASE Started \/ ReplySent \/ ReplyFails
  <2>1. /\ wpc \in {"starting", "sending"} /\ hand' = hand
        /\ wpc' = "write" /\ then' = "next"
    BY <1>6 DEF Started, ReplySent, ReplyFails, Update
  <2>2. ASSUME hand = r
        PROVE  wrec'.att = pool[r].att /\
               wrec'.status \notin {"queued", "retryable"}
    <3>1. CASE Started
      BY <1>0, <2>2, <3>1 DEF Started, Update, cur, Records
    <3>2. CASE ReplySent
      BY <1>0, <2>2, <3>2 DEF ReplySent, Update, cur, Records
    <3>3. CASE ReplyFails
      BY <1>0, <2>2, <3>3 DEF ReplyFails, Update, cur, Records
    <3> QED BY <1>6, <3>1, <3>2, <3>3
  <2>3. hand = r => Covered(wrec', r)
    BY <1>1, <2>2 DEF Covered
  <2> QED BY <1>1, <2>1, <2>3, PassBudget DEF n
<1>7. ASSUME NEW q \in Rows, MissingRun(q) \/ NotStarted(q) PROVE RowBudget(r)'
  <2>1. /\ wpc = "next" /\ hand' = q /\ wpc' = "write" /\ then' = "next"
        /\ phase = "finalize" /\ q \in batch
        /\ wrec' = Failure(pool[q], snaps[q].att)
    BY <1>7 DEF MissingRun, NotStarted, FinalUpdate, Finalizing, First, Update
  <2>2. q = r => Covered(wrec', r)
    BY <1>0, <1>1, <2>1, FailureCovered DEF RowBudget, Covered
  <2> QED BY <1>1, <2>1, <2>2, PassBudget DEF n
<1>8. ASSUME NEW q \in Rows, CompleteSilently(q) \/ ReplyImpossible(q)
      PROVE  RowBudget(r)'
  <2>1. /\ wpc = "next" /\ hand' = q /\ wpc' = "write" /\ then' = "next"
    BY <1>8 DEF CompleteSilently, ReplyImpossible, FinalUpdate, Finalizing, Update
  <2>2. ASSUME q = r
        PROVE  wrec'.att = pool[r].att /\
               wrec'.status \notin {"queued", "retryable"}
    BY <1>0, <1>8, <2>2
    DEF CompleteSilently, ReplyImpossible, FinalUpdate, Update, Records
  <2>3. q = r => Covered(wrec', r)
    BY <1>1, <2>2 DEF Covered
  <2> QED BY <1>1, <2>1, <2>3, PassBudget DEF n
<1>9. ASSUME NEW q \in Rows, SendReply(q) \/ NotYet(q) PROVE RowBudget(r)'
  <2>1. wpc = "next" /\ wpc' \in {"next", "sending"}
    BY <1>9 DEF SendReply, NotYet, Finalizing
  <2> QED BY <1>1, <2>1, PassBudget DEF n
<1> QED BY <1>2, <1>3, <1>4, <1>5, <1>6, <1>7, <1>8, <1>9
     DEF PassMoves, Process, Finalize

\* A start spends the attempt that its claim has counted.
LEMMA StartBudget ==
  ASSUME TypeInv, BudgetInv, StartRun, NEW r \in Rows, r \notin overwritten'
  PROVE  RowBudget(r)'
<1>0. pool[r] \in Records /\ pool[r].att \in 0..MaxAttempts /\ restarts \in Nat
  BY DEF TypeInv, TypeOK, Records
<1>1. /\ wpc = "ask" /\ wpc' = "starting" /\ hand' = hand
      /\ UNCHANGED <<pool, phase, batch, snaps, restarts, overwritten>>
  BY DEF StartRun, marks
<1>2. RowBudget(r) /\ RunCount(r) \in Nat /\ RunCount(r)' \in Nat
  BY <1>1, CountStep, RunCountNat DEF BudgetInv, Next, Work, Process
<1>3. CASE hand = r
  <2>1. Attempting(pool[r], r) /\ RunCount(r)' <= RunCount(r) + 1
    BY <1>1, <1>2, <1>3, CountStep DEF RowBudget, Next, Work, Process
  <2>2. Covered(pool[r], r)'
    BY <1>0, <1>1, <1>2, <2>1 DEF Covered, Attempting
  <2> QED BY <1>1, <1>2, <1>3, <2>1, <2>2 DEF RowBudget, Attempting
<1>4. CASE hand # r
  <2>1. RunCount(r)' = RunCount(r)
    BY <1>4, CountStep DEF Next, Work, Process
  <2> QED BY <1>1, <1>2, <1>4, <2>1 DEF RowBudget, Covered
<1> QED BY <1>3, <1>4

\* Every step keeps the budget of every row that was not overwritten.
LEMMA BudgetStep == TypeInv /\ BudgetInv /\ [Next]_vars => BudgetInv'
<1> SUFFICES ASSUME TypeInv, BudgetInv, [Next]_vars,
                    NEW r \in Rows, r \notin overwritten'
             PROVE  RowBudget(r)'
  BY UnstartedKept DEF BudgetInv
<1>0. /\ pool[r] \in Records /\ pool \in [Rows -> Records] /\ RunCount(r) \in Nat
      /\ pool[r].att \in 0..MaxAttempts /\ restarts \in Nat
  BY RunCountNat DEF TypeInv, TypeOK, Records
<1>1. ~StartRun => RunCount(r)' = RunCount(r)
  BY CountStep
<1>2. CASE UNCHANGED vars
  <2>1. RowBudget(r) /\ ~StartRun
    BY <1>0, <1>2 DEF BudgetInv, vars, worker, service, marks, StartRun
  <2> QED BY <1>1, <1>2, <2>1
       DEF vars, worker, marks, RowBudget, Covered, Attempting
<1>3. CASE ListReady
  <2>1. /\ RowBudget(r) /\ ~StartRun
        /\ wpc' = "next" /\ phase' = "process" /\ batch' \subseteq Ready
        /\ r \in batch' => snaps'[r].att = pool[r].att
        /\ UNCHANGED <<pool, restarts>>
    BY <1>3 DEF ListReady, StartRun, BudgetInv, marks, Unlisted
  <2>2. r \in batch' => pool[r].status \in {"queued", "retryable"}
    BY <2>1 DEF Ready
  <2> QED BY <1>1, <2>1, <2>2 DEF RowBudget, Covered
<1>4. CASE ListWaiting
  <2>1. /\ RowBudget(r) /\ ~StartRun
        /\ wpc' = "next" /\ phase' = "finalize" /\ batch' = Waiting
        /\ r \in batch' => snaps'[r].att = pool[r].att
        /\ UNCHANGED <<pool, restarts>>
    BY <1>4 DEF ListWaiting, StartRun, BudgetInv, marks
  <2> QED BY <1>1, <2>1 DEF RowBudget, Covered
<1>5. CASE EndPass
  <2>1. /\ RowBudget(r) /\ ~StartRun
        /\ wpc' = "idle" /\ batch' = {} /\ UNCHANGED <<pool, restarts>>
    BY <1>5 DEF EndPass, StartRun, BudgetInv, marks
  <2> QED BY <1>1, <2>1 DEF RowBudget, Covered
<1>6. ASSUME NEW q \in Rows, Touch(q) PROVE RowBudget(r)'
  <2>1. /\ RowBudget(r) /\ ~StartRun
        /\ wpc' = "write" /\ then' = "idle" /\ hand' = q /\ wrec' = pool[q]
        /\ phase' = "touch" /\ UNCHANGED <<pool, restarts>>
    BY <1>6
    DEF Touch, Update, StartRun, BudgetInv, marks, TypeInv, WorkerLocated
  <2> QED BY <1>1, <2>1 DEF RowBudget, Covered
<1>7. CASE Restart
  <2>1. /\ RowBudget(r) /\ ~StartRun
        /\ wpc' = "idle" /\ batch' = {} /\ restarts' = restarts + 1
    BY <1>7, RestartFacts DEF Restart, StartRun, BudgetInv
  <2>2. pool'[r].att = pool[r].att /\
          (pool'[r].status = pool[r].status \/ pool'[r].status = "queued")
    BY <1>0, <1>7 DEF Restart, Recovered, Records
  <2> QED BY <1>0, <1>1, <2>1, <2>2 DEF RowBudget, Covered
<1>8. ASSUME NEW i \in Runs, RunMoves(i) PROVE RowBudget(r)'
  <2>1. /\ RowBudget(r) /\ ~StartRun
        /\ UNCHANGED <<pool, wpc, phase, batch, snaps, hand, wrec, then, restarts>>
    BY <1>8 DEF RunMoves, worker, StartRun, BudgetInv, marks
  <2> QED BY <1>1, <2>1 DEF RowBudget, Covered, Attempting
<1> QED BY <1>2, <1>3, <1>4, <1>5, <1>6, <1>7, <1>8, HandleBudget, WriteBudget,
           PassMovesBudget, StartBudget
     DEF Next, Work, PassMoves

\* A message starts at most MaxAttempts runs, and one more for each restart
\* that recovers its claim, however often its session is busy or it is cleared,
\* unless an old record is written over it (_mark_retryable_failure).
THEOREM AttemptsBoundRuns == Spec => []RunsBounded
<1>1. Init => BudgetInv
  <2> SUFFICES ASSUME Init PROVE BudgetInv
    OBVIOUS
  <2>1. \A r \in Rows : RunsOf(r) = {}
    BY DEF Init, RunsOf
  <2>2. \A r \in Rows : RunCount(r) = 0
    BY <2>1, FS_EmptySet DEF RunCount
  <2> QED BY <2>2 DEF Init, BudgetInv, RowBudget, Covered, Record
<1>2. TypeInv /\ BudgetInv => RunsBounded
  <2> SUFFICES ASSUME TypeInv, BudgetInv, NEW r \in Rows, r \notin overwritten
               PROVE  RunCount(r) <= MaxAttempts + restarts
    BY DEF RunsBounded, RunCount, RunsOf
  <2>1. pool[r] \in Records /\ restarts \in Nat
    BY DEF TypeInv, TypeOK
  <2>2. RunCount(r) <= pool[r].att + restarts
    BY DEF BudgetInv, RowBudget, Covered
  <2> QED BY <2>1, <2>2, RunCountNat DEF Records
<1> QED BY <1>1, <1>2, TypeInit, TypeStep, BudgetStep, PTL DEF Spec

=============================================================================
