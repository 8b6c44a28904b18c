---------------------------- MODULE MessagePool ----------------------------
(***************************************************************************)
(* The Feishu message pool: FeishuMessagePoolService and its repository    *)
(* (gateway/feishu/message_pool_*.py) for the chats of one trigger.        *)
(*                                                                         *)
(* Two actors share the rows.  The handler is a thread that takes the      *)
(* inbound messages of the trigger one after the other.  The worker is a   *)
(* task of the event loop that claims rows, starts runs, waits for them    *)
(* and sends their answers.  FeishuMessagePoolRepository.update reads the  *)
(* row, changes some columns and writes all of them back, so each update   *)
(* is two steps and the other actor may write in between.                  *)
(***************************************************************************)
EXTENDS Integers, FiniteSets

CONSTANTS Chats,        \* chats of the trigger; each is bound to one session
          MaxRows,      \* bound on the messages delivered
          MaxRuns,      \* bound on the runs started
          MaxAttempts,  \* _FINAL_REPLY_MAX_ATTEMPTS
          MaxRestarts   \* bound on the restarts of the server

ASSUME MessagePoolAssumption ==
  /\ Chats # {}
  /\ MaxRows \in Nat
  /\ MaxRuns \in Nat
  /\ MaxAttempts \in Nat \ {0}
  /\ MaxRestarts \in Nat

Rows == 1..MaxRows
Runs == 1..MaxRuns

VARIABLES
  pool,        \* rows of feishu_message_pool by id
  count,       \* number of rows
  hpc, hsnap, hchat,    \* handler: position, record it read, chat it clears
  wpc,         \* worker: position
  phase,       \* pass of its loop
  batch, snaps,         \* rows listed by the pass and not done, and what the
                        \* pass goes by of their listed records
  hand,        \* row that it is updating or working on
  wrec, then,  \* record to be written, and the position behind the write
  wrun,        \* run that is being started
  runs,        \* runs of the run service by order of creation
  created,     \* number of runs
  restarts,    \* counter of its bound
  stranded,    \* history: rows claimed too recently when the server restarted
  overwritten, \* history: rows the handler wrote an older record over
  unsure       \* history: runs whose answer was sent but not yet recorded
               \* when the server restarted

handler == <<hpc, hsnap, hchat>>
worker == <<wpc, phase, batch, snaps, hand, wrec, then, wrun>>
service == <<runs, created>>
marks == <<stranded, overwritten, unsure>>
vars == <<pool, count, handler, worker, service, restarts, marks>>

NoRun == 0
Capped(n, bound) == IF n < bound THEN n ELSE bound

\* FeishuMessageProcessingStatus; "none" is an id that is not used yet.
Processing == {"none", "queued", "claimed", "waiting", "retryable",
               "cancelled", "completed", "dead"}
Active == {"queued", "claimed", "waiting", "retryable"}
InFlight == {"claimed", "waiting"}
Delivery == {"pending", "sent", "failed", "skipped"}

\* process_attempts is only compared with its bound.  final_reply_attempts is
\* not kept: any failed reply may be the last one.
Attempt(n) == Capped(n + 1, MaxAttempts)

Unlisted == [att |-> 0, run |-> NoRun, reply |-> "skipped"]

Record(c, status, reply) ==
  [chat |-> c, status |-> status, reply |-> reply, run |-> NoRun, att |-> 0]

\* Status of a run for the pool; "ended" is completed or failed.
Terminal == {"ended", "stopped"}
Executing == {"queued", "running", "stopping", "paused"}

\* mutant: a stopped run does not keep its session busy
BusyUnlessStopped(status) ==
  status \in {"queued", "running", "stopping", "paused"}

\* _is_busy_runtime
Busy(status) ==
  status \in {"queued", "running", "stopping", "paused", "stopped"}

ChatOfRun(i) == pool[runs[i].row].chat
SessionBusy(c) ==
  \E i \in Runs : i <= created /\ ChatOfRun(i) = c /\ Busy(runs[i].status)

Init ==
  /\ pool = [r \in Rows |-> Record(CHOOSE c \in Chats : TRUE, "none", "skipped")]
  /\ count = 0
  /\ hpc = "idle" /\ hsnap = <<>> /\ hchat = <<>>
  /\ wpc = "idle" /\ phase = "touch" /\ batch = {} /\ hand = 0
  /\ snaps = [r \in Rows |-> Unlisted]
  /\ wrec = <<>> /\ then = "idle" /\ wrun = NoRun
  /\ runs = [i \in Runs |-> [row |-> 0, status |-> "none", answers |-> 0]]
  /\ created = 0
  /\ restarts = 0
  /\ stranded = {} /\ overwritten = {} /\ unsure = {}

-----------------------------------------------------------------------------
(* The handler *)

\* enqueue_message stores the row; one that is known already was dropped.
Deliver(c) ==
  /\ hpc = "idle" /\ count < MaxRows
  /\ count' = count + 1
  /\ pool' = [pool EXCEPT ![count + 1] = Record(c, "queued", "pending")]
  /\ hpc' = "stored"
  /\ UNCHANGED <<hsnap, hchat, worker, service, restarts, marks>>

\* The message answers an open question: the row only records it.
DeliverAnswer(c) ==
  /\ hpc = "idle" /\ count < MaxRows
  /\ count' = count + 1
  /\ pool' = [pool EXCEPT ![count + 1] = Record(c, "completed", "skipped")]
  /\ UNCHANGED <<handler, worker, service, restarts, marks>>

\* The queue position is acknowledged with an update of the row.
AckRead ==
  /\ hpc = "stored"
  /\ hsnap' = pool[count]
  /\ hpc' = "ack"
  /\ UNCHANGED <<pool, count, hchat, worker, service, restarts, marks>>

AckWrite ==
  /\ hpc = "ack"
  /\ pool' = [pool EXCEPT ![count] = hsnap]
  /\ overwritten' =
       IF pool[count] = hsnap THEN overwritten ELSE overwritten \cup {count}
  /\ hpc' = "idle" /\ hsnap' = <<>>
  /\ UNCHANGED <<count, hchat, worker, service, restarts, stranded, unsure>>

\* stop_run
Stopped(status) ==
  CASE status = "running" -> "stopping"
    [] status \in {"queued", "paused"} -> "stopped"
    [] OTHER -> status

\* clear_chat: the runs of the active rows are stopped; a stop that fails is
\* logged, and the clear goes on,
ClearBegin(c) ==
  LET active == {r \in Rows : pool[r].chat = c /\ pool[r].status \in Active}
      stopping == {pool[r].run : r \in active} \ {NoRun}
  IN /\ hpc = "idle" /\ active # {}
     /\ \E stopped \in SUBSET stopping :
          runs' = [i \in Runs |->
                     IF i \in stopped
                       THEN [runs[i] EXCEPT !.status = Stopped(@)] ELSE runs[i]]
     /\ hpc' = "clear" /\ hchat' = c
     /\ UNCHANGED <<pool, count, hsnap, worker, created, restarts, marks>>

\* then what is active now is cancelled in one statement.
ClearCancel ==
  /\ hpc = "clear"
  /\ pool' = [r \in Rows |->
                IF pool[r].chat = hchat /\ pool[r].status \in Active
                  THEN [pool[r] EXCEPT !.status = "cancelled",
                                       !.reply = "skipped"]
                  ELSE pool[r]]
  /\ hpc' = "idle" /\ hchat' = <<>>
  /\ UNCHANGED <<count, hsnap, worker, service, restarts, marks>>

-----------------------------------------------------------------------------
(* The worker: reactions and queue replies, a pass over the queued rows, *)
(* and one over the waiting rows *)

\* FeishuMessagePoolRepository.update: the record with its changes is made
\* from the row as it is now and written in the next step.
Update(rec, next) ==
  /\ wrec' = rec /\ then' = next
  /\ wpc' = "write"

cur == pool[hand]
snap == snaps[hand]

Done(r) == batch' = batch \ {r} /\ snaps' = [snaps EXCEPT ![r] = Unlisted]

Write ==
  /\ wpc = "write"
  /\ pool' = [pool EXCEPT ![hand] = wrec]
  /\ wpc' = then /\ then' = "idle"
  /\ IF then \in {"next", "idle"}
       THEN Done(hand) /\ hand' = 0
       ELSE UNCHANGED <<batch, snaps, hand>>
  /\ wrec' = <<>> /\ wrun' = NoRun
  /\ UNCHANGED <<count, handler, phase, service, restarts, marks>>

\* An update of a reaction or a queue reply changes other columns.
Touch(r) ==
  /\ wpc = "idle" /\ r <= count
  /\ batch' = {r} /\ hand' = r
  /\ Update(pool[r], "idle")
  /\ UNCHANGED <<pool, count, handler, phase, snaps, wrun, service, restarts,
                 marks>>

\* mutant: retries do not hold back the later messages of their chat
ReadyRetriesAside ==
  {r \in Rows :
     /\ pool[r].status \in {"queued", "retryable"}
     /\ \A e \in 1..(r - 1) :
          pool[e].chat = pool[r].chat =>
            pool[e].status \notin {"queued", "claimed", "waiting"}}

\* mutant: rows in flight do not hold back the later messages of their chat
ReadyPerRow == {r \in Rows : pool[r].status \in {"queued", "retryable"}}

\* list_ready_for_processing
Ready ==
  {r \in Rows :
     /\ pool[r].status \in {"queued", "retryable"}
     /\ \A e \in 1..(r - 1) :
          pool[e].chat = pool[r].chat => pool[e].status \notin Active}

\* Any of the ready rows may be due.  Of the records only the attempts count.
ListReady ==
  /\ wpc = "idle"
  /\ \E due \in SUBSET Ready :
       /\ batch' = due
       /\ snaps' = [r \in Rows |-> IF r \in due
                                     THEN [Unlisted EXCEPT !.att = pool[r].att]
                                     ELSE Unlisted]
  /\ phase' = "process" /\ wpc' = "next"
  /\ UNCHANGED <<pool, count, handler, hand, wrec, then, wrun, service,
                 restarts, marks>>

\* list_waiting_for_result
Waiting == {r \in Rows : pool[r].status = "waiting"}

ListWaiting ==
  /\ wpc = "next" /\ batch = {} /\ phase = "process"
  /\ batch' = Waiting
  /\ snaps' = [r \in Rows |->
                 IF r \in Waiting
                   THEN [att |-> pool[r].att, run |-> pool[r].run,
                         reply |-> pool[r].reply]
                   ELSE Unlisted]
  /\ phase' = "finalize"
  /\ UNCHANGED <<pool, count, handler, wpc, hand, wrec, then, wrun, service,
                 restarts, marks>>

EndPass ==
  /\ wpc = "next" /\ batch = {} /\ phase = "finalize"
  /\ phase' = "touch" /\ wpc' = "idle"
  /\ UNCHANGED <<pool, count, handler, batch, snaps, hand, wrec, then, wrun,
                 service, restarts, marks>>

\* The listed rows are taken in the order of their ids.
First(r) == r \in batch /\ \A q \in batch : r <= q

\* The claim is not conditional and counts from the listed record.
Claim(r) ==
  /\ wpc = "next" /\ phase = "process" /\ First(r)
  /\ hand' = r
  /\ Update([pool[r] EXCEPT !.status = "claimed",
                            !.att = Attempt(snaps[r].att)], "claimed")
  /\ UNCHANGED <<pool, count, handler, phase, batch, snaps, wrun, service,
                 restarts, marks>>

\* mutant: a failed message is always tried again
FailureForever(rec, att) == [rec EXCEPT !.status = "retryable"]

\* _mark_retryable_failure; at least one attempt is counted.
Failure(rec, att) ==
  LET attempts == IF att = 0 THEN 1 ELSE att
  IN [rec EXCEPT !.status =
        IF attempts >= MaxAttempts THEN "dead" ELSE "retryable"]

\* The sender's name is looked up and stored.
Enrich ==
  /\ wpc = "claimed"
  /\ \/ Update(cur, "ask")
     \/ wpc' = "ask" /\ UNCHANGED <<wrec, then>>
  /\ UNCHANGED <<pool, count, handler, phase, batch, snaps, hand, wrun,
                 service, restarts, marks>>

\* The configuration is missing, or a call on the way to the run raises.
ProcessFails ==
  /\ wpc \in {"claimed", "ask", "starting"}
  /\ Update(Failure(cur, Attempt(snap.att)), "next")
  /\ UNCHANGED <<pool, count, handler, phase, batch, snaps, hand, wrun,
                 service, restarts, marks>>

\* The message answers an open question of the chat's run,
Answered ==
  /\ wpc = "ask"
  /\ Update([cur EXCEPT !.status = "completed", !.reply = "skipped"], "next")
  /\ UNCHANGED <<pool, count, handler, phase, batch, snaps, hand, wrun,
                 service, restarts, marks>>

\* or does not fit the question; the sender is told, which may fail.
InvalidAnswer ==
  /\ wpc = "ask"
  /\ \E outcome \in {<<"completed", "sent">>, <<"retryable", "pending">>,
                     <<"dead", "failed">>} :
       Update([cur EXCEPT !.status = outcome[1], !.reply = outcome[2]], "next")
  /\ UNCHANGED <<pool, count, handler, phase, batch, snaps, hand, wrun,
                 service, restarts, marks>>

\* submit_async: the session is busy and the row goes back to the queue.
RequeueBusy ==
  /\ wpc = "ask" /\ SessionBusy(cur.chat)
  /\ Update([cur EXCEPT !.status = "queued"], "next")
  /\ UNCHANGED <<pool, count, handler, phase, batch, snaps, hand, wrun,
                 service, restarts, marks>>

\* No run of the session is busy: one is created.  Only the worker creates
\* runs of these sessions, so none gets busy between the check and the run.
StartRun ==
  /\ wpc = "ask" /\ ~SessionBusy(cur.chat)
  /\ created < MaxRuns
  /\ created' = created + 1
  /\ runs' = [runs EXCEPT ![created + 1] =
                [row |-> hand, status |-> "queued", answers |-> 0]]
  /\ wrun' = created + 1
  /\ wpc' = "starting"
  /\ UNCHANGED <<pool, count, handler, phase, batch, snaps, hand, wrec, then,
                 restarts, marks>>

\* mutant: the run is not stored with the row
StartedUnnamed ==
  /\ wpc = "starting"
  /\ Update([cur EXCEPT !.status = "waiting"], "next")
  /\ UNCHANGED <<pool, count, handler, phase, batch, snaps, hand, wrun,
                 service, restarts, marks>>

Started ==
  /\ wpc = "starting"
  /\ Update([cur EXCEPT !.status = "waiting", !.run = wrun], "next")
  /\ UNCHANGED <<pool, count, handler, phase, batch, snaps, hand, wrun,
                 service, restarts, marks>>

\* _finalize_waiting_results goes by the listed record and the run's status.
Finalizing(r) == wpc = "next" /\ phase = "finalize" /\ First(r)
RunStatus(r) ==
  IF snaps[r].run = NoRun THEN "none" ELSE runs[snaps[r].run].status

FinalUpdate(r, rec) ==
  /\ hand' = r
  /\ Update(rec, "next")
  /\ UNCHANGED <<pool, count, handler, phase, batch, snaps, wrun, service,
                 restarts, marks>>

\* missing_run_id: a record of before the run was written back over the row.
MissingRun(r) ==
  /\ Finalizing(r) /\ snaps[r].run = NoRun
  /\ FinalUpdate(r, Failure(pool[r], snaps[r].att))

NotYet(r) ==
  /\ Finalizing(r) /\ RunStatus(r) \in Executing
  /\ Done(r)
  /\ UNCHANGED <<pool, count, handler, wpc, phase, hand, wrec, then, wrun,
                 service, restarts, marks>>

\* run_not_started_in_time.  A run whose row is missing waits and times out as a
\* queued one does (run_runtime_not_visible).
NotStarted(r) ==
  /\ Finalizing(r) /\ RunStatus(r) = "queued"
  /\ FinalUpdate(r, Failure(pool[r], snaps[r].att))

\* _finalize_terminal_record: nothing to send,
CompleteSilently(r) ==
  /\ Finalizing(r) /\ RunStatus(r) \in Terminal
  /\ snaps[r].reply = "skipped"
  /\ FinalUpdate(r, [pool[r] EXCEPT !.status = "completed"])

\* no configuration to send with,
ReplyImpossible(r) ==
  /\ Finalizing(r) /\ RunStatus(r) \in Terminal
  /\ snaps[r].reply # "skipped"
  /\ FinalUpdate(r, [pool[r] EXCEPT !.status = "dead", !.reply = "failed"])

\* or an answer, which is sent while the others go on.
SendReply(r) ==
  /\ Finalizing(r) /\ RunStatus(r) \in Terminal
  /\ snaps[r].reply # "skipped"
  /\ hand' = r /\ wpc' = "sending"
  /\ UNCHANGED <<pool, count, handler, phase, batch, snaps, wrec, then, wrun,
                 service, restarts, marks>>

\* mutant: the answer is recorded but the row goes on waiting
ReplySentWaiting ==
  /\ wpc = "sending"
  /\ runs' = [runs EXCEPT ![snap.run].answers = Capped(@ + 1, 2)]
  /\ Update([cur EXCEPT !.reply = "sent"], "next")
  /\ UNCHANGED <<pool, count, handler, phase, batch, snaps, hand, wrun,
                 created, restarts, marks>>

ReplySent ==
  /\ wpc = "sending"
  /\ runs' = [runs EXCEPT ![snap.run].answers = Capped(@ + 1, 2)]
  /\ Update([cur EXCEPT !.status = "completed", !.reply = "sent"], "next")
  /\ UNCHANGED <<pool, count, handler, phase, batch, snaps, hand, wrun,
                 created, restarts, marks>>

ReplyFails ==
  /\ wpc = "sending"
  /\ \E outcome \in {<<"waiting", "pending">>, <<"dead", "failed">>} :
       Update([cur EXCEPT !.status = outcome[1], !.reply = outcome[2]], "next")
  /\ UNCHANGED <<pool, count, handler, phase, batch, snaps, hand, wrun,
                 service, restarts, marks>>

-----------------------------------------------------------------------------
(* Runs, and the restart of the server *)

\* A run starts, ends, pauses, is stopped or resumed.
RunMoves(i) ==
  /\ i <= created
  /\ \E status \in
       CASE runs[i].status = "queued" -> {"running", "ended", "stopped"}
         [] runs[i].status = "running" -> {"ended", "paused", "stopping"}
         [] runs[i].status = "stopping" -> {"stopped", "ended"}
         [] runs[i].status = "paused" -> {"running", "stopped"}
         [] runs[i].status = "stopped" -> {"running"}
         [] OTHER -> {} :
       runs' = [runs EXCEPT ![i].status = status]
  /\ UNCHANGED <<pool, count, handler, worker, created, restarts, marks>>

\* mutant: claims of the last server are left as they are
RecoveredNever(r, stale) == pool[r]

\* recover_stale_claims
Recovered(r, stale) ==
  IF r \in stale THEN [pool[r] EXCEPT !.status = "queued"] ELSE pool[r]

\* Only claims older than _STALE_CLAIM_SECONDS are given back.
Restart ==
  LET claimed == {r \in Rows : pool[r].status = "claimed"}
  IN /\ restarts < MaxRestarts
     /\ restarts' = restarts + 1
     /\ \E stale \in SUBSET claimed :
          /\ pool' = [r \in Rows |-> Recovered(r, stale)]
          /\ stranded' = claimed \ stale
     /\ runs' = [i \in Runs |->
                   IF runs[i].status \in {"queued", "running"}
                     THEN [runs[i] EXCEPT !.status = "stopped"] ELSE runs[i]]
     /\ unsure' = IF wpc = "write" /\ phase = "finalize" /\ wrec.reply = "sent"
                    THEN unsure \cup {wrec.run} ELSE unsure
     /\ hpc' = "idle" /\ hsnap' = <<>> /\ hchat' = <<>>
     /\ wpc' = "idle" /\ phase' = "touch" /\ batch' = {} /\ hand' = 0
     /\ snaps' = [r \in Rows |-> Unlisted]
     /\ wrec' = <<>> /\ then' = "idle" /\ wrun' = NoRun
     /\ UNCHANGED <<count, created, overwritten>>

Handle ==
  \/ \E c \in Chats : Deliver(c) \/ DeliverAnswer(c) \/ ClearBegin(c)
  \/ AckRead \/ AckWrite \/ ClearCancel

Process ==
  \/ ListReady \/ \E r \in Rows : Claim(r)
  \/ Enrich \/ ProcessFails \/ Answered \/ InvalidAnswer
  \/ RequeueBusy \/ StartRun \/ Started

Finalize ==
  \/ ListWaiting \/ EndPass
  \/ \E r \in Rows :
       \/ MissingRun(r) \/ NotYet(r) \/ NotStarted(r)
       \/ CompleteSilently(r) \/ ReplyImpossible(r) \/ SendReply(r)
  \/ ReplySent \/ ReplyFails

Work == (\E r \in Rows : Touch(r)) \/ Process \/ Finalize \/ Write

Next == Handle \/ Work \/ Restart \/ \E i \in Runs : RunMoves(i)

Spec == Init /\ [][Next]_vars

\* The event loop runs the worker, and its calls return.
FairSpec == Spec /\ WF_vars(Work)

-----------------------------------------------------------------------------
(* Properties *)

Records ==
  [chat : Chats, status : Processing, reply : Delivery, run : 0..MaxRuns,
   att : 0..MaxAttempts]
ServiceRuns ==
  [row : 0..MaxRows, status : Terminal \cup Executing \cup {"none"},
   answers : 0..2]
Listings ==
  [att : 0..MaxAttempts, run : 0..MaxRuns, reply : Delivery]

\* The types; the ids are used one after the other, and a waiting row names its
\* run, unless a record of before the run was written back.
TypeOK ==
  /\ pool \in [Rows -> Records]
  /\ \A r \in Rows : pool[r].status = "none" <=> r > count
  /\ \A r \in Rows :
       pool[r].status = "waiting" => pool[r].run # NoRun \/ r \in overwritten
  /\ count \in 0..MaxRows /\ created \in 0..MaxRuns
  /\ hpc \in {"idle", "stored", "ack", "clear"}
  /\ hsnap \in Records \cup {<<>>} /\ hchat \in Chats \cup {<<>>}
  /\ wpc \in {"idle", "next", "claimed", "ask", "starting", "sending", "write"}
  /\ then \in {"idle", "next", "claimed", "ask"}
  /\ phase \in {"touch", "process", "finalize"}
  /\ batch \subseteq Rows /\ snaps \in [Rows -> Listings]
  /\ hand \in 0..MaxRows
  /\ wrec \in Records \cup {<<>>}
  /\ wrun \in 0..MaxRuns
  /\ runs \in [Runs -> ServiceRuns]
  /\ restarts \in 0..MaxRestarts
  /\ stranded \subseteq Rows /\ overwritten \subseteq Rows
  /\ unsure \subseteq 0..MaxRuns

\* At most one message of a chat is in hand, whatever is cleared, retried or
\* left by a restart, unless the handler wrote an old record back
\* (list_ready_for_processing).
OneInFlight ==
  \A r, q \in Rows :
    /\ pool[r].chat = pool[q].chat
    /\ {pool[r].status, pool[q].status} \subseteq InFlight
    /\ {r, q} \cap overwritten = {}
    => r = q

\* The messages of a chat are started in the order of their delivery, and one
\* that is retried keeps its place (list_ready_for_processing).
StartsInOrder ==
  \A i, j \in Runs :
    /\ i < j /\ j <= created
    /\ ChatOfRun(i) = ChatOfRun(j)
    => \/ runs[i].row <= runs[j].row
       \/ {runs[i].row, runs[j].row} \cap overwritten # {}

\* Of the runs of a chat at most one executes or may go on to execute
\* (GatewaySessionIngressService.submit_async), also after retries of its
\* message, restarts, and resumes of a stopped run.
OneBusyRun ==
  \A i, j \in Runs :
    /\ i <= created /\ j <= created
    /\ ChatOfRun(i) = ChatOfRun(j)
    /\ {runs[i].status, runs[j].status} \subseteq Executing
    => i = j

\* A message is executed at most once per attempt, however often its session is
\* busy, it is cleared or its claim is recovered (_mark_retryable_failure);
\* only the run of a claim recovered at a restart comes on top.
RunsBounded ==
  \A r \in Rows :
    Cardinality({i \in Runs : runs[i].row = r}) <= MaxAttempts + restarts
      \/ r \in overwritten

\* The answer of a run reaches the chat at most once, unless the server stops
\* between the sending and its record, or the record is overwritten.
AnsweredOnce ==
  \A i \in Runs :
    runs[i].answers <= 1 \/ i \in unsure \/ runs[i].row \in overwritten

\* A claimed message does not stay claimed, except if the claim was too recent
\* when the server restarted or an old record was written back.
ClaimSettles ==
  \A r \in Rows :
    pool[r].status = "claimed" ~>
      pool[r].status # "claimed" \/ r \in stranded \cup overwritten

\* A message that was cleared is not executed any more
\* (cancel_active_chat_messages).
ClearedNotExecuted ==
  [][\A r \in Rows :
       pool[r].status = "cancelled" => pool'[r].status \notin Active]_vars

=============================================================================
