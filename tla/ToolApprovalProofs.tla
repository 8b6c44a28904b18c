------------------------- MODULE ToolApprovalProofs -------------------------
(***************************************************************************)
(* Proofs about ToolApproval: type correctness, that a recorded decision   *)
(* stands, that every call ends as its user decided, and that the wait of  *)
(* a call misses its entry only if the call shared its ticket.             *)
(***************************************************************************)
EXTENDS ToolApproval, TLAPS

\* Positions of a call that has no row yet, no entry yet, and that has a ticket.
Unasked == {"idle", "started", "missed"}
Unopened == Unasked \cup {"found"}
Holding == {"found", "opened", "awaiting", "raised"} \cup Closed

Waiting(c) == pc[c] = "awaiting" /\ thread[c] = "waiting"

\* An identical call has closed the entry of c's ticket.
Shared(c) == \E b \in Calls \ {c} : tk[b] = tk[c] /\ pc[b] \in Closed

\* The types of the program's own variables.
StateTypes ==
  /\ TicketTypes /\ ManagerTypes /\ CallTypes /\ WaitTypes /\ RequestTypes
  /\ RunTypes

-----------------------------------------------------------------------------
\* A call has the row of its ticket from its upsert or find on, and none of
\* its own before.
HasTicket ==
  \A c \in Calls :
    /\ pc[c] \in Holding => tk[c] \in Calls /\ ticket[tk[c]] # "none"
    /\ pc[c] \in Unasked => ticket[c] = "none"

\* An entry belongs to one ticket, and to none before its call opens it.
OwnEntry ==
  /\ \A c \in Calls :
       pc[c] \in Unopened => /\ signal[c] = "none"
                             /\ \A b \in Calls : entry[b] # c /\ held[b] # c
  /\ \A j, k \in Calls : entry[j] = entry[k] /\ entry[j] # None => j = k

\* A wait is in the queue once and only while its call awaits it, and a call
\* has an answer only when its wait is over.
QueueInOrder ==
  /\ \A i \in 1..Len(queue) :
       /\ pc[queue[i]] = "awaiting" /\ thread[queue[i]] = "queued"
       /\ \A j \in 1..Len(queue) : queue[i] = queue[j] => i = j
  /\ \A c \in Calls :
       /\ pc[c] \in Unopened \cup {"opened"} => thread[c] = "none"
       /\ answer[c] # "none" =>
            thread[c] = "none" /\ pc[c] \in {"awaiting", "settling", "reading"}

\* A thread waits on the entry of the ticket of its call.
WaitsOnTicket ==
  \A c \in Calls :
    /\ thread[c] = "waiting" => held[c] \in Calls
    /\ Waiting(c) => \A k \in Calls : entry[k] = held[c] => k = tk[c]

\* What a request signals and a thread returns is the decision of the ticket.
SignalsDecision ==
  /\ \A k \in Calls :
       entry[k] # None /\ signal[entry[k]] # "none"
         => <<k, signal[entry[k]]>> \in decided
  /\ \A c \in Calls :
       /\ Waiting(c) /\ signal[held[c]] # "none"
            => <<tk[c], signal[held[c]]>> \in decided
       /\ pc[c] \in {"awaiting", "settling"} /\ answer[c] \in Decisions
            => <<tk[c], answer[c]>> \in decided
       /\ pc[c] = "settling" => answer[c] \in Decisions \cup {"timed_out"}

\* A request knows its ticket, and what it recorded is what it decided.
KnowsTicket ==
  \A u \in Requests :
    /\ req[u] \in Pending => want[u] \in Calls \X Decisions
    /\ req[u] = "recorded" => <<want[u][1], want[u][2]>> \in decided

\* A call that has settled finds a resolution.
Settled ==
  \A c \in Calls :
    pc[c] = "reading"
      => ticket[tk[c]] \in {"approved", "completed", "denied", "timed_out"}

\* A call that finds no entry shares its ticket with one that has closed it.
ClosedByOther ==
  \A c \in Calls :
    /\ pc[c] \in {"opened", "awaiting"} /\ entry[tk[c]] = None => Shared(c)
    /\ answer[c] = "unregistered" => pc[c] = "awaiting" /\ Shared(c)

IInv ==
  /\ TypeOK
  /\ HasTicket
  /\ QueueInOrder
  /\ OwnEntry
  /\ WaitsOnTicket
  /\ SignalsDecision
  /\ KnowsTicket
  /\ DecisionStands
  /\ Settled
  /\ AnswerFollowsDecision
  /\ ClosedByOther

-----------------------------------------------------------------------------
\* What the pool relies on: the ends of a queue.
LEMMA QueueEnds ==
  ASSUME NEW q \in Seq(Calls)
  PROVE  /\ \A c \in Calls :
              /\ Append(q, c) \in Seq(Calls)
              /\ Len(Append(q, c)) = Len(q) + 1
              /\ Append(q, c)[Len(q) + 1] = c
              /\ \A i \in 1..Len(q) : Append(q, c)[i] = q[i]
         /\ q # <<>> =>
              /\ Len(q) \in Nat /\ Len(q) > 0
              /\ Head(q) \in Calls /\ Head(q) = q[1]
              /\ Tail(q) \in Seq(Calls) /\ Len(Tail(q)) = Len(q) - 1
              /\ \A i \in 1..Len(Tail(q)) : Tail(q)[i] = q[i + 1]
  OBVIOUS

\* A write of a row keeps the types, and makes its ticket the newest.
LEMMA WriteTypes ==
  ASSUME ticket \in [Calls -> Statuses], newer \in [Calls -> SUBSET Calls],
         NEW k \in Calls, NEW status \in Statuses, Write(k, status)
  PROVE  ticket' \in [Calls -> Statuses] /\ newer' \in [Calls -> SUBSET Calls]
<1>1. ticket' \in [Calls -> Statuses]
  BY DEF Write
<1>2. \A j \in Calls : newer[j] \cup {k} \in SUBSET Calls
  OBVIOUS
<1>3. newer' \in [Calls -> SUBSET Calls]
  BY <1>2 DEF Write
<1> QED
  BY <1>1, <1>3

\* What a call settles, and what a request decides, in an invariant state.
Settles(c) ==
  /\ pc[c] = "settling" /\ tk[c] \in Calls
  /\ pc' = [pc EXCEPT ![c] = "reading"]
  /\ UNCHANGED <<manager, waits, tk, requests, run>>
  /\ \/ ticket[tk[c]] # "requested" /\ UNCHANGED <<tickets, decided>>
     \/ /\ ticket[tk[c]] = "requested"
        /\ ticket' = [ticket EXCEPT ![tk[c]] = "timed_out"]
        /\ decided' = decided \cup {<<tk[c], "timed_out">>}

Decides(u, k, d) ==
  /\ req[u] = "checked" /\ want[u] = <<k, d>>
  /\ UNCHANGED <<manager, waits, calls, run>>
  /\ \/ /\ ticket[k] # "requested"
        /\ req' = [req EXCEPT ![u] = "done"]
        /\ want' = [want EXCEPT ![u] = <<>>]
        /\ UNCHANGED <<tickets, decided>>
     \/ /\ ticket[k] = "requested"
        /\ ticket' = [ticket EXCEPT ![k] = d]
        /\ decided' = decided \cup {<<k, d>>}
        /\ req' = [req EXCEPT ![u] = "recorded"]
        /\ UNCHANGED want

\* A call settles a requested ticket only when its wait timed out: no decision
\* is recorded on it.
LEMMA SettleEffect ==
  ASSUME TypeOK, HasTicket, SignalsDecision, DecisionStands,
         NEW c \in Calls, Settle(c)
  PROVE  Settles(c)
<1>1. /\ pc[c] = "settling" /\ pc' = [pc EXCEPT ![c] = "reading"]
      /\ UNCHANGED <<manager, waits, tk, requests, run>>
  BY DEF Settle, Goto
<1>2. tk[c] \in Calls
  BY <1>1 DEF HasTicket, Holding, Closed
<1>3. CASE ticket[tk[c]] # "requested"
  BY <1>1, <1>2, <1>3 DEF Settle, Settles
<1>4. CASE ticket[tk[c]] = "requested"
  <2>1. answer[c] \in Outcomes
    BY <1>1 DEF SignalsDecision, Outcomes
  <2>2. answer[c] \notin Decisions
    <3>1. answer[c] \in Decisions => <<tk[c], answer[c]>> \in decided
      BY <1>1 DEF SignalsDecision
    <3>2. answer[c] \in Decisions => ~Says(tk[c], answer[c])
      BY <1>4 DEF Says, Decisions
    <3> QED
      BY <1>2, <2>1, <3>1, <3>2 DEF DecisionStands
  <2>3. answer[c] = "timed_out"
    BY <2>1, <2>2 DEF Outcomes
  <2>4. {tk[c]} \X ({answer[c]} \ Decisions) = {<<tk[c], "timed_out">>}
    BY <2>3 DEF Decisions
  <2> QED
    BY <1>1, <1>2, <1>4, <2>3, <2>4 DEF Settle, Write, Record, Settles
<1> QED
  BY <1>3, <1>4

\* A request records its decision on a requested ticket, or nothing.
LEMMA DecideEffect ==
  ASSUME TypeOK, KnowsTicket, NEW u \in Requests, Decide(u)
  PROVE  \E k \in Calls, d \in Decisions : Decides(u, k, d)
<1>1. /\ req[u] = "checked" /\ want[u] \in Calls \X Decisions
      /\ UNCHANGED <<manager, waits, calls, run>>
  BY DEF Decide, KnowsTicket, Pending
<1>2. PICK k \in Calls, d \in Decisions : want[u] = <<k, d>>
  BY <1>1
<1>3. CASE ticket[k] # "requested"
  <2>1. Answered(u) /\ UNCHANGED <<tickets, decided>>
    BY <1>2, <1>3 DEF Decide
  <2> QED
    BY <1>1, <1>2, <1>3, <2>1 DEF Answered, At, Decides
<1>4. CASE ticket[k] = "requested"
  <2>1. /\ Write(k, d) /\ Record(k, {d})
        /\ req' = [req EXCEPT ![u] = "recorded"] /\ UNCHANGED want
    BY <1>2, <1>4 DEF Decide, At
  <2>2. {k} \X {d} = {<<k, d>>}
    OBVIOUS
  <2> QED
    BY <1>1, <1>2, <1>4, <2>1, <2>2 DEF Write, Record, Decides
<1> QED
  BY <1>3, <1>4

\* What a request signals, and what a wait returns to its call.
Resolves(k, d) ==
  /\ <<k, d>> \in decided
  /\ UNCHANGED <<tickets, entry, waits, calls, run, decided>>
  /\ \/ UNCHANGED signal
     \/ entry[k] \in Calls /\ signal' = [signal EXCEPT ![entry[k]] = d]

Wakes(c, s) ==
  /\ pc[c] = "awaiting" => <<tk[c], s>> \in decided
  /\ thread' = [thread EXCEPT ![c] = "none"]
  /\ held' = [held EXCEPT ![c] = None]
  /\ \E a \in {s, "none"} : /\ a = s <=> pc[c] = "awaiting"
                            /\ answer' = [answer EXCEPT ![c] = a]
  /\ UNCHANGED <<tickets, manager, queue, calls, requests, run, decided>>

\* A request signals the decision that it recorded.
LEMMA ResolveEffect ==
  ASSUME TypeOK, KnowsTicket, NEW u \in Requests, ResolveApproval(u)
  PROVE  \E k \in Calls, d \in Decisions : Resolves(k, d)
<1>1. req[u] = "recorded"
  BY DEF ResolveApproval
<1>2. PICK k \in Calls, d \in Decisions : want[u] = <<k, d>>
  <2>1. want[u] \in Calls \X Decisions
    BY <1>1 DEF KnowsTicket, Pending
  <2> QED
    BY <2>1
<1>3. <<k, d>> \in decided
  BY <1>1, <1>2 DEF KnowsTicket
<1>4. entry[k] \in Calls \cup {None}
  BY DEF TypeOK, ManagerTypes
<1>5. \/ UNCHANGED signal
      \/ entry[k] \in Calls /\ signal' = [signal EXCEPT ![entry[k]] = d]
  BY <1>2, <1>4 DEF ResolveApproval
<1> QED
  BY <1>3, <1>5 DEF ResolveApproval, Resolves

\* A wait ends with a decision that was recorded on its call's ticket.
LEMMA WakeEffect ==
  ASSUME TypeOK, WaitsOnTicket, SignalsDecision, NEW c \in Calls, Wake(c)
  PROVE  \E s \in Decisions : Wakes(c, s)
<1>1. thread[c] = "waiting" /\ signal[held[c]] # "none"
  BY DEF Wake
<1>2. held[c] \in Calls
  BY <1>1 DEF WaitsOnTicket
<1>3. signal[held[c]] \in Decisions
  BY <1>1, <1>2 DEF TypeOK, ManagerTypes
<1>4. pc[c] = "awaiting" => <<tk[c], signal[held[c]]>> \in decided
  BY <1>1 DEF SignalsDecision, Waiting
<1>5. Wakes(c, signal[held[c]])
  <2>1. signal[held[c]] # "none"
    BY <1>1
  <2> QED
    BY <2>1, <1>4 DEF Wake, EndWait, Wakes
<1> QED
  BY <1>3, <1>5

\* What is recorded has its type.
LEMMA HistoryStep ==
  ASSUME TypeOK, HasTicket, SignalsDecision, KnowsTicket, DecisionStands,
         [Next]_vars
  PROVE  HistoryTypes'
<1> USE DEF TypeOK, HistoryTypes
<1>1. ASSUME NEW c \in Calls, Settle(c) PROVE HistoryTypes'
  BY <1>1, SettleEffect DEF Settles, Outcomes
<1>2. ASSUME NEW u \in Requests, Decide(u)
      PROVE  HistoryTypes'
  BY <1>2, DecideEffect DEF Decides, Outcomes
<1>3. ASSUME UNCHANGED decided PROVE HistoryTypes'
  BY <1>3
<1>4. CASE \E c \in Calls : Start(c) \/ CallStep(c) \/ ThreadStep(c)
  BY <1>1, <1>3, <1>4
  DEF CallStep, ThreadStep, Start, FindReusable, UpsertRequested,
      OpenApproval, SubmitWait, Raise, CloseApproval, ReadResolution, Execute,
      Finish, Wake, TimeOut, EndWait
<1>5. CASE \E u \in Requests : RequestStep(u)
  BY <1>2, <1>3, <1>5 DEF RequestStep, Check, GrantFails, ResolveApproval
<1>6. CASE \E u \in Requests, k \in Calls, d \in Decisions : Ask(u, k, d)
  BY <1>3, <1>6 DEF Ask
<1>7. CASE StartWait \/ Stop \/ Stopped \/ Resume \/ Restart \/ UNCHANGED vars
  BY <1>3, <1>7 DEF StartWait, Stop, Stopped, Resume, Restart, vars
<1> QED
  BY <1>4, <1>5, <1>6, <1>7 DEF Next

\* A write of the row follows its decision.
LEMMA DecisionStep ==
  ASSUME TypeOK, HasTicket, SignalsDecision, KnowsTicket, DecisionStands,
         AnswerFollowsDecision, [Next]_vars
  PROVE  DecisionStands'
<1> USE DEF DecisionStands, Says
<1>1. ASSUME UNCHANGED <<ticket, decided>> PROVE DecisionStands'
  BY <1>1
<1>2. ASSUME NEW c \in Calls, UpsertRequested(c) PROVE DecisionStands'
  <2>1. ticket[c] = "none"
    BY <1>2 DEF UpsertRequested, HasTicket, Unasked
  <2>2. /\ ticket' = [ticket EXCEPT ![c] = "requested"] /\ UNCHANGED decided
        /\ ticket \in [Calls -> Statuses]
    BY <1>2 DEF UpsertRequested, Write, TypeOK, TicketTypes
  <2> QED
    BY <2>1, <2>2 DEF Outcomes, Decisions
<1>3. ASSUME NEW c \in Calls, Settle(c) PROVE DecisionStands'
  <2>1. Settles(c)
    BY <1>3, SettleEffect
  <2>2. CASE UNCHANGED <<tickets, decided>>
    BY <1>1, <2>2 DEF tickets
  <2>3. CASE ticket[tk[c]] = "requested"
    <3>1. /\ tk[c] \in Calls /\ ticket \in [Calls -> Statuses]
          /\ ticket' = [ticket EXCEPT ![tk[c]] = "timed_out"]
          /\ decided' = decided \cup {<<tk[c], "timed_out">>}
      BY <2>1, <2>3 DEF Settles, TypeOK, TicketTypes
    <3> QED
      BY <2>3, <3>1 DEF Outcomes, Decisions
  <2> QED
    BY <2>1, <2>2, <2>3 DEF Settles
<1>4. ASSUME NEW c \in Calls, Finish(c) PROVE DecisionStands'
  <2>1. pc[c] = "executing" /\ UNCHANGED decided
    BY <1>4 DEF Finish
  <2>2. tk[c] \in Calls /\ Only(tk[c], "approved")
    BY <2>1 DEF HasTicket, Holding, Closed, AnswerFollowsDecision
  <2>3. CASE UNCHANGED tickets
    BY <1>1, <2>1, <2>3 DEF tickets
  <2>4. CASE ticket' = [ticket EXCEPT ![tk[c]] = "completed"]
    <3>1. ticket \in [Calls -> Statuses]
      BY DEF TypeOK, TicketTypes
    <3> QED
      BY <2>1, <2>2, <2>4, <3>1 DEF Only, Outcomes, Decisions
  <2> QED
    BY <1>4, <2>3, <2>4 DEF Finish, Write
<1>5. ASSUME NEW u \in Requests, Decide(u) PROVE DecisionStands'
  <2>1. PICK k \in Calls, d \in Decisions : Decides(u, k, d)
    BY <1>5, DecideEffect
  <2>2. CASE UNCHANGED <<tickets, decided>>
    BY <1>1, <2>2 DEF tickets
  <2>3. CASE ticket[k] = "requested"
    <3>1. /\ ticket \in [Calls -> Statuses]
          /\ ticket' = [ticket EXCEPT ![k] = d]
          /\ decided' = decided \cup {<<k, d>>}
      BY <2>1, <2>3 DEF Decides, TypeOK, TicketTypes
    <3> QED
      BY <2>3, <3>1 DEF Outcomes, Decisions
  <2> QED
    BY <2>1, <2>2, <2>3 DEF Decides
<1>6. CASE \E c \in Calls : Start(c) \/ CallStep(c) \/ ThreadStep(c)
  BY <1>1, <1>2, <1>3, <1>4, <1>6
  DEF CallStep, ThreadStep, Start, FindReusable, OpenApproval, SubmitWait,
      Raise, CloseApproval, ReadResolution, Execute, Wake, TimeOut, EndWait,
      tickets
<1>7. CASE \E u \in Requests : RequestStep(u)
  BY <1>1, <1>5, <1>7
  DEF RequestStep, Check, GrantFails, ResolveApproval, tickets
<1>8. CASE \E u \in Requests, k \in Calls, d \in Decisions : Ask(u, k, d)
  BY <1>1, <1>8 DEF Ask, tickets
<1>9. CASE StartWait \/ Stop \/ Stopped \/ Resume \/ Restart \/ UNCHANGED vars
  BY <1>1, <1>9 DEF StartWait, Stop, Stopped, Resume, Restart, vars, tickets
<1> QED
  BY <1>6, <1>7, <1>8, <1>9 DEF Next

\* Every step keeps the types of the program's own variables.
LEMMA TypeStep ==
  ASSUME TypeOK, HasTicket, QueueInOrder, WaitsOnTicket, SignalsDecision,
         KnowsTicket, [Next]_vars
  PROVE  StateTypes'
<1> USE ToolApprovalAssumption DEF TypeOK, HasTicket, QueueInOrder,
        WaitsOnTicket, SignalsDecision, KnowsTicket, StateTypes, TicketTypes,
        ManagerTypes, CallTypes, WaitTypes, RequestTypes, RunTypes, Active,
        Ended, Pending, Closed, Decisions, Statuses, Unasked, Unopened,
        Holding, tickets, manager, waits, calls, requests, run
<1>1. ASSUME NEW c \in Calls, Start(c) PROVE StateTypes'
  BY <1>1 DEF Start, Goto
<1>2. ASSUME NEW c \in Calls, FindReusable(c) PROVE StateTypes'
  <2>1. /\ tk' \in [Calls -> Calls \cup {None}]
        /\ UNCHANGED <<tickets, manager, waits, requests, run, decided>>
    BY <1>2 DEF FindReusable
  <2>2. PICK p \in Active : pc' = [pc EXCEPT ![c] = p]
    BY <1>2 DEF FindReusable, Goto
  <2> QED
    BY <2>1, <2>2
<1>3. ASSUME NEW c \in Calls, UpsertRequested(c) PROVE StateTypes'
  BY <1>3 DEF UpsertRequested, Goto, Write
<1>4. ASSUME NEW c \in Calls, OpenApproval(c) PROVE StateTypes'
  BY <1>4 DEF OpenApproval, Goto
<1>5. ASSUME NEW c \in Calls, SubmitWait(c) PROVE StateTypes'
  BY <1>5 DEF SubmitWait, Goto
<1>6. ASSUME NEW c \in Calls, Wake(c) PROVE StateTypes'
  <2>1. held[c] \in Calls /\ signal[held[c]] \in Decisions
    BY <1>6 DEF Wake
  <2> QED
    BY <2>1, <1>6 DEF Wake, EndWait
<1>7. ASSUME NEW c \in Calls, TimeOut(c) PROVE StateTypes'
  BY <1>7 DEF TimeOut, EndWait
<1>8. ASSUME NEW c \in Calls, Raise(c) PROVE StateTypes'
  BY <1>8 DEF Raise, Goto
<1>9. ASSUME NEW c \in Calls, CloseApproval(c) PROVE StateTypes'
  BY <1>9 DEF CloseApproval, Goto
<1>10. ASSUME NEW c \in Calls, Settle(c) PROVE StateTypes'
  <2>1. tk[c] \in Calls /\ answer[c] \in Statuses
    BY <1>10 DEF Settle
  <2>2. ticket' \in [Calls -> Statuses] /\ newer' \in [Calls -> SUBSET Calls]
    BY <2>1, WriteTypes, <1>10 DEF Settle
  <2> QED
    BY <2>2, <1>10 DEF Settle, Goto
<1>11. ASSUME NEW c \in Calls, ReadResolution(c) PROVE StateTypes'
  BY <1>11 DEF ReadResolution, Goto, Resolution
<1>12. ASSUME NEW c \in Calls, Execute(c) PROVE StateTypes'
  BY <1>12 DEF Execute, Goto
<1>13. ASSUME NEW c \in Calls, Finish(c) PROVE StateTypes'
  <2>1. tk[c] \in Calls /\ "completed" \in Statuses
    BY <1>13 DEF Finish
  <2>2. ticket' \in [Calls -> Statuses] /\ newer' \in [Calls -> SUBSET Calls]
    BY <2>1, WriteTypes, <1>13 DEF Finish
  <2> QED
    BY <2>2, <1>13 DEF Finish, Goto
<1>14. CASE StartWait
  <2> DEFINE c == Head(queue)
  <2>1. /\ c \in Calls /\ queue' \in Seq(Calls)
        /\ 1 \in 1..Len(queue) /\ c = queue[1]
    BY <1>14, QueueEnds DEF StartWait
  <2>2. pc[c] = "awaiting" /\ tk[c] \in Calls
    BY <2>1
  <2>3. entry[tk[c]] \in Calls \cup {None}
    BY <2>2
  <2> HIDE DEF c
  <2>4. CASE entry[tk[c]] = None
    <3>1. /\ thread' = [thread EXCEPT ![c] = "none"]
          /\ answer' = [answer EXCEPT ![c] = "unregistered"]
          /\ held' = held
      BY <2>4, <1>14 DEF StartWait, c
    <3> QED
      BY <2>1, <3>1, <1>14 DEF StartWait
  <2>5. CASE entry[tk[c]] # None
    <3>1. /\ thread' = [thread EXCEPT ![c] = "waiting"]
          /\ held' = [held EXCEPT ![c] = entry[tk[c]]]
          /\ answer' = answer
      BY <2>5, <1>14 DEF StartWait, c
    <3> QED
      BY <2>1, <2>3, <3>1, <1>14 DEF StartWait
  <2> QED
    BY <2>4, <2>5
<1>15. ASSUME NEW u \in Requests, NEW k \in Calls, NEW d \in Decisions,
            Ask(u, k, d)
     PROVE  StateTypes'
  BY <1>15 DEF Ask, At
<1>16. ASSUME NEW u \in Requests, Check(u) PROVE StateTypes'
  <2>1. /\ req' \in [Requests -> Pending \cup {"idle", "done"}]
        /\ want' \in [Requests -> (Calls \X Decisions) \cup {<<>>}]
    BY <1>16 DEF Check, Answered, At
  <2>2. rowRead' \in [Requests -> {"none", "running", "paused", "stopping",
                                   "stopped"}]
    BY <1>16 DEF Check, Answered
  <2>3. seen' \in [Requests -> BOOLEAN]
    <3>1. PICK b \in BOOLEAN : seen' = [seen EXCEPT ![u] = b]
      BY <1>16, Zenon DEF Check, Answered
    <3> QED
      BY <3>1
  <2> QED
    BY <2>1, <2>2, <2>3, <1>16 DEF Check
<1>17. ASSUME NEW u \in Requests, Decide(u) PROVE StateTypes'
  <2>1. want[u][1] \in Calls /\ want[u][2] \in Decisions
    BY <1>17 DEF Decide
  <2>2. CASE ticket[want[u][1]] = "requested"
    <3>1. /\ Write(want[u][1], want[u][2])
          /\ Record(want[u][1], {want[u][2]})
          /\ req' = [req EXCEPT ![u] = "recorded"]
          /\ UNCHANGED <<manager, waits, calls, run, want, rowRead, seen>>
      BY <2>2, <1>17 DEF Decide, At
    <3>2. ticket' \in [Calls -> Statuses] /\ newer' \in [Calls -> SUBSET Calls]
      BY <2>1, <3>1, WriteTypes
    <3> QED
      BY <3>1, <3>2
  <2>3. CASE ticket[want[u][1]] # "requested"
    <3>1. /\ Answered(u)
          /\ UNCHANGED <<tickets, manager, waits, calls, run, decided>>
      BY <2>3, <1>17 DEF Decide
    <3> QED
      BY <3>1 DEF Answered, At
  <2> QED
    BY <2>2, <2>3
<1>18. ASSUME NEW u \in Requests, GrantFails(u) PROVE StateTypes'
  BY <1>18 DEF GrantFails, Answered, At
<1>19. ASSUME NEW u \in Requests, ResolveApproval(u) PROVE StateTypes'
  BY <1>19 DEF ResolveApproval, Answered, At
<1>20. CASE Stop
  BY <1>20 DEF Stop, CancelCalls
<1>21. CASE Stopped
  BY <1>21 DEF Stopped
<1>22. CASE Resume
  BY <1>22 DEF Resume
<1>23. CASE Restart
  <2>1. /\ pc' \in [Calls -> Active \cup Ended \cup {"idle"}]
        /\ tk' \in [Calls -> Calls \cup {None}]
        /\ answer' \in
             [Calls -> Decisions \cup {"none", "timed_out", "unregistered"}]
        /\ queue' \in Seq(Calls)
    BY <1>23 DEF Restart, CancelCalls
  <2>2. /\ req' \in [Requests -> Pending \cup {"idle", "done"}]
        /\ want' \in [Requests -> (Calls \X Decisions) \cup {<<>>}]
        /\ rowRead' \in [Requests -> {"none", "running", "paused", "stopping",
                                      "stopped"}]
        /\ seen' \in [Requests -> BOOLEAN]
    BY <1>23 DEF Restart
  <2>3. /\ live' = FALSE /\ breaks' = breaks + 1
        /\ row' \in {"running", "paused", "stopping", "stopped"}
    BY <1>23 DEF Restart
  <2>4. /\ entry' \in [Calls -> Calls \cup {None}]
        /\ held' \in [Calls -> Calls \cup {None}]
        /\ thread' \in [Calls -> {"none", "queued", "waiting"}]
    BY <1>23 DEF Restart
  <2>5. UNCHANGED <<tickets, signal, decided>>
    BY <1>23 DEF Restart
  <2>6. breaks' \in Nat
    BY <2>3
  <2> QED
    BY <2>1, <2>2, <2>3, <2>4, <2>5, <2>6
<1>24. CASE UNCHANGED vars
  BY <1>24 DEF vars
<1> HIDE DEF TypeOK, HasTicket, QueueInOrder, WaitsOnTicket, SignalsDecision,
        KnowsTicket, StateTypes, TicketTypes, ManagerTypes, CallTypes,
        WaitTypes, RequestTypes, RunTypes
<1> QED
  BY <1>1, <1>2, <1>3, <1>4, <1>5, <1>6, <1>7, <1>8, <1>9, <1>10, <1>11,
     <1>12, <1>13, <1>14, <1>15, <1>16, <1>17, <1>18, <1>19, <1>20, <1>21,
     <1>22, <1>23, <1>24 DEF Next, CallStep, ThreadStep, RequestStep

\* A wait enters the queue once, and leaves it for a thread or with its call.
LEMMA QueueStep ==
  ASSUME TypeOK, QueueInOrder, [Next]_vars PROVE QueueInOrder'
<1> USE ToolApprovalAssumption DEF TypeOK, QueueInOrder, CallTypes, WaitTypes,
        Active, Ended, Unasked, Unopened, tickets, manager, waits, calls,
        requests, run
<1>1. ASSUME NEW c \in Calls, Start(c) PROVE QueueInOrder'
  <2>1. /\ pc[c] = "idle" /\ pc' = [pc EXCEPT ![c] = "started"]
        /\ UNCHANGED waits
    BY <1>1 DEF Start, Goto
  <2>2. \A i \in 1..Len(queue) : queue[i] \in Calls
    OBVIOUS
  <2> QED
    BY <2>1, <2>2
<1>2. ASSUME NEW c \in Calls, FindReusable(c) PROVE QueueInOrder'
  <2>1. pc[c] = "started" /\ UNCHANGED waits
    BY <1>2 DEF FindReusable
  <2>2. PICK p \in {"missed", "found", "approved"} :
          pc' = [pc EXCEPT ![c] = p]
    BY <1>2 DEF FindReusable, Goto
  <2>3. \A i \in 1..Len(queue) : queue[i] \in Calls \ {c}
    BY <2>1
  <2>4. \A i \in 1..Len(queue) : pc'[queue[i]] = pc[queue[i]]
    BY <2>2, <2>3
  <2>5. \A b \in Calls :
          /\ pc'[b] \in Unopened \cup {"opened"} => thread'[b] = "none"
          /\ answer'[b] # "none"
               => /\ thread'[b] = "none"
                  /\ pc'[b] \in {"awaiting", "settling", "reading"}
    BY <2>1, <2>2
  <2> QED
    BY <2>1, <2>4, <2>5
<1>3. ASSUME NEW c \in Calls, UpsertRequested(c) PROVE QueueInOrder'
  BY <1>3 DEF UpsertRequested, Goto, Write
<1>4. ASSUME NEW c \in Calls, OpenApproval(c) PROVE QueueInOrder'
  BY <1>4 DEF OpenApproval, Goto
<1>5. ASSUME NEW c \in Calls, SubmitWait(c) PROVE QueueInOrder'
  BY <1>5 DEF SubmitWait, Goto
<1>6. ASSUME NEW c \in Calls, Wake(c) PROVE QueueInOrder'
  BY <1>6 DEF Wake, EndWait
<1>7. ASSUME NEW c \in Calls, TimeOut(c) PROVE QueueInOrder'
  BY <1>7 DEF TimeOut, EndWait
<1>8. ASSUME NEW c \in Calls, Raise(c) PROVE QueueInOrder'
  BY <1>8 DEF Raise, Goto
<1>9. ASSUME NEW c \in Calls, CloseApproval(c) PROVE QueueInOrder'
  BY <1>9 DEF CloseApproval, Goto
<1>10. ASSUME NEW c \in Calls, Settle(c) PROVE QueueInOrder'
  BY <1>10 DEF Settle, Goto, Write
<1>11. ASSUME NEW c \in Calls, ReadResolution(c) PROVE QueueInOrder'
  BY <1>11 DEF ReadResolution, Goto, Resolution
<1>12. ASSUME NEW c \in Calls, Execute(c) PROVE QueueInOrder'
  BY <1>12 DEF Execute, Goto
<1>13. ASSUME NEW c \in Calls, Finish(c) PROVE QueueInOrder'
  BY <1>13 DEF Finish, Goto, Write
<1>14. CASE StartWait
  BY <1>14 DEF StartWait
<1>15. ASSUME NEW u \in Requests, NEW k \in Calls, NEW d \in Decisions,
            Ask(u, k, d)
     PROVE  QueueInOrder'
  BY <1>15 DEF Ask, At
<1>16. ASSUME NEW u \in Requests, Check(u) PROVE QueueInOrder'
  <2>1. UNCHANGED <<thread, answer, queue, pc>>
    BY <1>16 DEF Check, At, Answered
  <2> QED
    BY <2>1
<1>17. ASSUME NEW u \in Requests, Decide(u) PROVE QueueInOrder'
  <2>1. UNCHANGED <<thread, answer, queue, pc>>
    BY <1>17 DEF Decide, At, Answered, Write
  <2> QED
    BY <2>1
<1>18. ASSUME NEW u \in Requests, GrantFails(u) PROVE QueueInOrder'
  <2>1. UNCHANGED <<thread, answer, queue, pc>>
    BY <1>18 DEF GrantFails, Answered, At
  <2> QED
    BY <2>1
<1>19. ASSUME NEW u \in Requests, ResolveApproval(u) PROVE QueueInOrder'
  <2>1. UNCHANGED <<thread, answer, queue, pc>>
    BY <1>19 DEF ResolveApproval, Answered, At
  <2> QED
    BY <2>1
<1>20. CASE Stop
  BY <1>20 DEF Stop, CancelCalls
<1>21. CASE Stopped
  BY <1>21 DEF Stopped
<1>22. CASE Resume
  BY <1>22 DEF Resume
<1>23. CASE Restart
  BY <1>23 DEF Restart, CancelCalls
<1>24. CASE UNCHANGED vars
  BY <1>24 DEF vars
<1> HIDE DEF TypeOK, QueueInOrder, CallTypes, WaitTypes
<1> QED
  BY <1>1, <1>2, <1>3, <1>4, <1>5, <1>6, <1>7, <1>8, <1>9, <1>10, <1>11,
     <1>12, <1>13, <1>14, <1>15, <1>16, <1>17, <1>18, <1>19, <1>20, <1>21,
     <1>22, <1>23, <1>24 DEF Next, CallStep, ThreadStep, RequestStep

\* A ticket's row is there before its call goes by it, and is never removed.
LEMMA TicketStep ==
  ASSUME TypeOK, HasTicket, KnowsTicket, SignalsDecision, [Next]_vars
  PROVE  HasTicket'
<1> USE ToolApprovalAssumption DEF TypeOK, HasTicket, SignalsDecision,
        TicketTypes, CallTypes, Active, Ended, Pending, Closed, Decisions,
        Statuses, Unasked, Unopened, Holding, tickets, manager, waits, calls,
        requests, run
<1>1. ASSUME NEW c \in Calls, Start(c) PROVE HasTicket'
  BY <1>1 DEF Start, Goto
<1>2. ASSUME NEW c \in Calls, FindReusable(c) PROVE HasTicket'
  BY <1>2 DEF FindReusable, Goto
<1>3. ASSUME NEW c \in Calls, UpsertRequested(c) PROVE HasTicket'
  BY <1>3 DEF UpsertRequested, Goto, Write
<1>4. ASSUME NEW c \in Calls, OpenApproval(c) PROVE HasTicket'
  BY <1>4 DEF OpenApproval, Goto
<1>5. ASSUME NEW c \in Calls, SubmitWait(c) PROVE HasTicket'
  BY <1>5 DEF SubmitWait, Goto
<1>6. ASSUME NEW c \in Calls, Wake(c) PROVE HasTicket'
  BY <1>6 DEF Wake, EndWait
<1>7. ASSUME NEW c \in Calls, TimeOut(c) PROVE HasTicket'
  BY <1>7 DEF TimeOut, EndWait
<1>8. ASSUME NEW c \in Calls, Raise(c) PROVE HasTicket'
  BY <1>8 DEF Raise, Goto
<1>9. ASSUME NEW c \in Calls, CloseApproval(c) PROVE HasTicket'
  BY <1>9 DEF CloseApproval, Goto
<1>10. ASSUME NEW c \in Calls, Settle(c) PROVE HasTicket'
  <2>1. /\ pc[c] = "settling" /\ pc' = [pc EXCEPT ![c] = "reading"]
        /\ answer[c] # "none" /\ UNCHANGED tk
    BY <1>10 DEF Settle, Goto
  <2>2. UNCHANGED ticket \/ ticket' = [ticket EXCEPT ![tk[c]] = answer[c]]
    BY <1>10 DEF Settle, Write
  <2>3. \A k \in Calls :
          /\ ticket[k] # "none" => ticket'[k] # "none"
          /\ k # tk[c] => ticket'[k] = ticket[k]
    BY <2>1, <2>2
  <2>4. \A k \in Calls : ticket[k] = "none" => ticket'[k] = "none"
    BY <2>1, <2>3
  <2> QED
    BY <2>1, <2>3, <2>4
<1>11. ASSUME NEW c \in Calls, ReadResolution(c) PROVE HasTicket'
  BY <1>11 DEF ReadResolution, Goto, Resolution
<1>12. ASSUME NEW c \in Calls, Execute(c) PROVE HasTicket'
  BY <1>12 DEF Execute, Goto
<1>13. ASSUME NEW c \in Calls, Finish(c) PROVE HasTicket'
  BY <1>13 DEF Finish, Goto, Write
<1>14. CASE StartWait
  BY <1>14 DEF StartWait
<1>15. ASSUME NEW u \in Requests, NEW k \in Calls, NEW d \in Decisions,
            Ask(u, k, d)
     PROVE  HasTicket'
  BY <1>15 DEF Ask, At
<1>16. ASSUME NEW u \in Requests, Check(u) PROVE HasTicket'
  BY <1>16 DEF Check, At, Answered
<1>17. ASSUME NEW u \in Requests, Decide(u) PROVE HasTicket'
  <2>1. PICK k \in Calls, d \in Decisions : Decides(u, k, d)
    BY <1>17, DecideEffect
  <2>2. CASE UNCHANGED <<tickets, decided>>
    BY <2>1, <2>2 DEF Decides
  <2>3. CASE ticket[k] = "requested"
    BY <2>1, <2>3 DEF Decides
  <2> QED
    BY <2>1, <2>2, <2>3 DEF Decides
<1>18. ASSUME NEW u \in Requests, GrantFails(u) PROVE HasTicket'
  BY <1>18 DEF GrantFails, Answered, At
<1>19. ASSUME NEW u \in Requests, ResolveApproval(u) PROVE HasTicket'
  BY <1>19 DEF ResolveApproval, Answered, At
<1>20. CASE Stop
  BY <1>20 DEF Stop, CancelCalls
<1>21. CASE Stopped
  BY <1>21 DEF Stopped
<1>22. CASE Resume
  BY <1>22 DEF Resume
<1>23. CASE Restart
  BY <1>23 DEF Restart, CancelCalls
<1>24. CASE UNCHANGED vars
  BY <1>24 DEF vars
<1> HIDE DEF TypeOK, HasTicket, SignalsDecision, TicketTypes, CallTypes
<1> QED
  BY <1>1, <1>2, <1>3, <1>4, <1>5, <1>6, <1>7, <1>8, <1>9, <1>10, <1>11,
     <1>12, <1>13, <1>14, <1>15, <1>16, <1>17, <1>18, <1>19, <1>20, <1>21,
     <1>22, <1>23, <1>24 DEF Next, CallStep, ThreadStep, RequestStep

\* Only OpenApproval fills an entry, and only for the call that opens it.
LEMMA EntryStep ==
  ASSUME TypeOK, HasTicket, QueueInOrder, OwnEntry, KnowsTicket, [Next]_vars
  PROVE  OwnEntry'
<1> USE ToolApprovalAssumption DEF TypeOK, HasTicket, QueueInOrder, OwnEntry,
        KnowsTicket, ManagerTypes, CallTypes, WaitTypes, Active, Ended,
        Pending, Closed, Decisions, Statuses, Unasked, Unopened, Holding,
        tickets, manager, waits, calls, requests, run
<1>1. ASSUME NEW c \in Calls, Start(c) PROVE OwnEntry'
  BY <1>1 DEF Start, Goto
<1>2. ASSUME NEW c \in Calls, FindReusable(c) PROVE OwnEntry'
  BY <1>2 DEF FindReusable, Goto
<1>3. ASSUME NEW c \in Calls, UpsertRequested(c) PROVE OwnEntry'
  BY <1>3 DEF UpsertRequested, Goto, Write
<1>4. ASSUME NEW c \in Calls, OpenApproval(c) PROVE OwnEntry'
  BY <1>4 DEF OpenApproval, Goto
<1>5. ASSUME NEW c \in Calls, SubmitWait(c) PROVE OwnEntry'
  BY <1>5 DEF SubmitWait, Goto
<1>6. ASSUME NEW c \in Calls, Wake(c) PROVE OwnEntry'
  BY <1>6 DEF Wake, EndWait
<1>7. ASSUME NEW c \in Calls, TimeOut(c) PROVE OwnEntry'
  BY <1>7 DEF TimeOut, EndWait
<1>8. ASSUME NEW c \in Calls, Raise(c) PROVE OwnEntry'
  BY <1>8 DEF Raise, Goto
<1>9. ASSUME NEW c \in Calls, CloseApproval(c) PROVE OwnEntry'
  BY <1>9 DEF CloseApproval, Goto
<1>10. ASSUME NEW c \in Calls, Settle(c) PROVE OwnEntry'
  BY <1>10 DEF Settle, Goto, Write
<1>11. ASSUME NEW c \in Calls, ReadResolution(c) PROVE OwnEntry'
  BY <1>11 DEF ReadResolution, Goto, Resolution
<1>12. ASSUME NEW c \in Calls, Execute(c) PROVE OwnEntry'
  BY <1>12 DEF Execute, Goto
<1>13. ASSUME NEW c \in Calls, Finish(c) PROVE OwnEntry'
  BY <1>13 DEF Finish, Goto, Write
<1>14. CASE StartWait
  BY <1>14 DEF StartWait
<1>15. ASSUME NEW u \in Requests, NEW k \in Calls, NEW d \in Decisions,
            Ask(u, k, d)
     PROVE  OwnEntry'
  BY <1>15 DEF Ask, At
<1>16. ASSUME NEW u \in Requests, Check(u) PROVE OwnEntry'
  BY <1>16 DEF Check, At, Answered
<1>17. ASSUME NEW u \in Requests, Decide(u) PROVE OwnEntry'
  BY <1>17 DEF Decide, At, Answered, Write
<1>18. ASSUME NEW u \in Requests, GrantFails(u) PROVE OwnEntry'
  BY <1>18 DEF GrantFails, Answered, At
<1>19. ASSUME NEW u \in Requests, ResolveApproval(u) PROVE OwnEntry'
  <2>1. PICK k \in Calls, d \in Decisions : Resolves(k, d)
    BY <1>19, ResolveEffect
  <2>2. \A c \in Calls : pc[c] \in Unopened => signal'[c] = signal[c]
    BY <2>1 DEF Resolves
  <2> QED
    BY <2>1, <2>2 DEF Resolves
<1>20. CASE Stop
  BY <1>20 DEF Stop, CancelCalls
<1>21. CASE Stopped
  BY <1>21 DEF Stopped
<1>22. CASE Resume
  BY <1>22 DEF Resume
<1>23. CASE Restart
  BY <1>23 DEF Restart, CancelCalls
<1>24. CASE UNCHANGED vars
  BY <1>24 DEF vars
<1> HIDE DEF TypeOK, HasTicket, QueueInOrder, OwnEntry, KnowsTicket,
        ManagerTypes, CallTypes, WaitTypes
<1> QED
  BY <1>1, <1>2, <1>3, <1>4, <1>5, <1>6, <1>7, <1>8, <1>9, <1>10, <1>11,
     <1>12, <1>13, <1>14, <1>15, <1>16, <1>17, <1>18, <1>19, <1>20, <1>21,
     <1>22, <1>23, <1>24 DEF Next, CallStep, ThreadStep, RequestStep

\* A thread looks up the entry of its call's ticket, and no ticket takes the
\* entry of another.
LEMMA WaitStep ==
  ASSUME TypeOK, HasTicket, QueueInOrder, OwnEntry, WaitsOnTicket, [Next]_vars
  PROVE  WaitsOnTicket'
<1> USE ToolApprovalAssumption DEF TypeOK, HasTicket, QueueInOrder, OwnEntry,
        WaitsOnTicket, ManagerTypes, CallTypes, WaitTypes, Waiting, Active,
        Ended, Pending, Closed, Decisions, Statuses, Unasked, Unopened,
        Holding, tickets, manager, waits, calls, requests, run
<1>1. ASSUME NEW c \in Calls, Start(c) PROVE WaitsOnTicket'
  BY <1>1 DEF Start, Goto
<1>2. ASSUME NEW c \in Calls, FindReusable(c) PROVE WaitsOnTicket'
  BY <1>2 DEF FindReusable, Goto
<1>3. ASSUME NEW c \in Calls, UpsertRequested(c) PROVE WaitsOnTicket'
  BY <1>3 DEF UpsertRequested, Goto, Write
<1>4. ASSUME NEW c \in Calls, OpenApproval(c) PROVE WaitsOnTicket'
  BY <1>4 DEF OpenApproval, Goto
<1>5. ASSUME NEW c \in Calls, SubmitWait(c) PROVE WaitsOnTicket'
  BY <1>5 DEF SubmitWait, Goto
<1>6. ASSUME NEW c \in Calls, Wake(c) PROVE WaitsOnTicket'
  BY <1>6 DEF Wake, EndWait
<1>7. ASSUME NEW c \in Calls, TimeOut(c) PROVE WaitsOnTicket'
  BY <1>7 DEF TimeOut, EndWait
<1>8. ASSUME NEW c \in Calls, Raise(c) PROVE WaitsOnTicket'
  BY <1>8 DEF Raise, Goto
<1>9. ASSUME NEW c \in Calls, CloseApproval(c) PROVE WaitsOnTicket'
  BY <1>9 DEF CloseApproval, Goto
<1>10. ASSUME NEW c \in Calls, Settle(c) PROVE WaitsOnTicket'
  BY <1>10 DEF Settle, Goto, Write
<1>11. ASSUME NEW c \in Calls, ReadResolution(c) PROVE WaitsOnTicket'
  BY <1>11 DEF ReadResolution, Goto, Resolution
<1>12. ASSUME NEW c \in Calls, Execute(c) PROVE WaitsOnTicket'
  BY <1>12 DEF Execute, Goto
<1>13. ASSUME NEW c \in Calls, Finish(c) PROVE WaitsOnTicket'
  BY <1>13 DEF Finish, Goto, Write
<1>14. CASE StartWait
  BY <1>14 DEF StartWait
<1>15. ASSUME NEW u \in Requests, NEW k \in Calls, NEW d \in Decisions,
            Ask(u, k, d)
     PROVE  WaitsOnTicket'
  BY <1>15 DEF Ask, At
<1>16. ASSUME NEW u \in Requests, Check(u) PROVE WaitsOnTicket'
  BY <1>16 DEF Check, At, Answered
<1>17. ASSUME NEW u \in Requests, Decide(u) PROVE WaitsOnTicket'
  BY <1>17 DEF Decide, At, Answered, Write
<1>18. ASSUME NEW u \in Requests, GrantFails(u) PROVE WaitsOnTicket'
  BY <1>18 DEF GrantFails, Answered, At
<1>19. ASSUME NEW u \in Requests, ResolveApproval(u) PROVE WaitsOnTicket'
  BY <1>19 DEF ResolveApproval, Answered, At
<1>20. CASE Stop
  BY <1>20 DEF Stop, CancelCalls
<1>21. CASE Stopped
  BY <1>21 DEF Stopped
<1>22. CASE Resume
  BY <1>22 DEF Resume
<1>23. CASE Restart
  BY <1>23 DEF Restart, CancelCalls
<1>24. CASE UNCHANGED vars
  BY <1>24 DEF vars
<1> HIDE DEF TypeOK, HasTicket, QueueInOrder, OwnEntry, WaitsOnTicket,
        ManagerTypes, CallTypes, WaitTypes, Waiting
<1> QED
  BY <1>1, <1>2, <1>3, <1>4, <1>5, <1>6, <1>7, <1>8, <1>9, <1>10, <1>11,
     <1>12, <1>13, <1>14, <1>15, <1>16, <1>17, <1>18, <1>19, <1>20, <1>21,
     <1>22, <1>23, <1>24 DEF Next, CallStep, ThreadStep, RequestStep

\* An event is set behind its decision only, and a decision is never replaced.
LEMMA SignalStep ==
  ASSUME IInv, [Next]_vars PROVE SignalsDecision'
<1> USE ToolApprovalAssumption DEF IInv, SignalsDecision, ManagerTypes,
        CallTypes, WaitTypes, RequestTypes, TypeOK, HasTicket, QueueInOrder,
        OwnEntry, WaitsOnTicket, KnowsTicket, Waiting, Active, Ended, Pending,
        Closed, Decisions, Statuses, Unasked, Unopened, Holding, tickets,
        manager, waits, calls, requests, run
<1>1. ASSUME NEW c \in Calls, Start(c) PROVE SignalsDecision'
  BY <1>1 DEF Start, Goto
<1>2. ASSUME NEW c \in Calls, FindReusable(c) PROVE SignalsDecision'
  BY <1>2 DEF FindReusable, Goto
<1>3. ASSUME NEW c \in Calls, UpsertRequested(c) PROVE SignalsDecision'
  BY <1>3 DEF UpsertRequested, Goto, Write
<1>4. ASSUME NEW c \in Calls, OpenApproval(c) PROVE SignalsDecision'
  BY <1>4 DEF OpenApproval, Goto
<1>5. ASSUME NEW c \in Calls, SubmitWait(c) PROVE SignalsDecision'
  BY <1>5 DEF SubmitWait, Goto
<1>6. ASSUME NEW c \in Calls, Wake(c) PROVE SignalsDecision'
  <2>1. PICK s \in Decisions : Wakes(c, s)
    BY <1>6, WakeEffect
  <2>2. \A b \in Calls : Waiting(b)' => Waiting(b) /\ held'[b] = held[b]
    BY <2>1 DEF Wakes
  <2>3. \A b \in Calls \ {c} : answer'[b] = answer[b]
    BY <2>1 DEF Wakes
  <2>4. pc[c] # "settling"
    BY <1>6 DEF Wake
  <2>5. pc[c] = "awaiting" /\ answer'[c] \in Decisions
          => <<tk[c], answer'[c]>> \in decided
    BY <2>1 DEF Wakes
  <2>6. \A b \in Calls :
          /\ pc[b] \in {"awaiting", "settling"} /\ answer'[b] \in Decisions
               => <<tk[b], answer'[b]>> \in decided
          /\ pc[b] = "settling" => answer'[b] \in Decisions \cup {"timed_out"}
    BY <2>3, <2>4, <2>5
  <2>7. \A b \in Calls :
          Waiting(b)' /\ signal[held'[b]] # "none"
            => <<tk[b], signal[held'[b]]>> \in decided
    <3>1. \A b \in Calls :
            Waiting(b) /\ signal[held[b]] # "none"
              => <<tk[b], signal[held[b]]>> \in decided
      OBVIOUS
    <3> HIDE DEF IInv, Waiting
    <3> QED
      BY <2>2, <3>1
  <2> QED
    BY <2>1, <2>2, <2>6, <2>7 DEF Wakes
<1>7. ASSUME NEW c \in Calls, TimeOut(c) PROVE SignalsDecision'
  BY <1>7 DEF TimeOut, EndWait
<1>8. ASSUME NEW c \in Calls, Raise(c) PROVE SignalsDecision'
  BY <1>8 DEF Raise, Goto
<1>9. ASSUME NEW c \in Calls, CloseApproval(c) PROVE SignalsDecision'
  BY <1>9 DEF CloseApproval, Goto
<1>10. ASSUME NEW c \in Calls, Settle(c) PROVE SignalsDecision'
  <2>1. Settles(c)
    BY <1>10, SettleEffect
  <2>2. CASE UNCHANGED <<tickets, decided>>
    BY <2>1, <2>2 DEF Settles
  <2>3. CASE ticket[tk[c]] = "requested"
    BY <2>1, <2>3 DEF Settles
  <2> QED
    BY <2>1, <2>2, <2>3 DEF Settles
<1>11. ASSUME NEW c \in Calls, ReadResolution(c) PROVE SignalsDecision'
  BY <1>11 DEF ReadResolution, Goto, Resolution
<1>12. ASSUME NEW c \in Calls, Execute(c) PROVE SignalsDecision'
  BY <1>12 DEF Execute, Goto
<1>13. ASSUME NEW c \in Calls, Finish(c) PROVE SignalsDecision'
  BY <1>13 DEF Finish, Goto, Write
<1>14. CASE StartWait
  BY <1>14 DEF StartWait
<1>15. ASSUME NEW u \in Requests, NEW k \in Calls, NEW d \in Decisions,
            Ask(u, k, d)
     PROVE  SignalsDecision'
  BY <1>15 DEF Ask, At
<1>16. ASSUME NEW u \in Requests, Check(u) PROVE SignalsDecision'
  BY <1>16 DEF Check, At, Answered
<1>17. ASSUME NEW u \in Requests, Decide(u) PROVE SignalsDecision'
  <2>1. PICK k \in Calls, d \in Decisions : Decides(u, k, d)
    BY <1>17, DecideEffect
  <2>2. CASE UNCHANGED <<tickets, decided>>
    BY <2>1, <2>2 DEF Decides
  <2>3. CASE ticket[k] = "requested"
    BY <2>1, <2>3 DEF Decides
  <2> QED
    BY <2>1, <2>2, <2>3 DEF Decides
<1>18. ASSUME NEW u \in Requests, GrantFails(u) PROVE SignalsDecision'
  BY <1>18 DEF GrantFails, Answered, At
<1>19. ASSUME NEW u \in Requests, ResolveApproval(u) PROVE SignalsDecision'
  <2>1. PICK k \in Calls, d \in Decisions : Resolves(k, d)
    BY <1>19, ResolveEffect
  <2>2. CASE UNCHANGED signal
    BY <2>1, <2>2 DEF Resolves
  <2>3. CASE entry[k] \in Calls /\ signal' = [signal EXCEPT ![entry[k]] = d]
    <3>1. \A j \in Calls : entry[j] = entry[k] => j = k
      BY <2>3
    <3>2. \A c \in Calls : Waiting(c) /\ held[c] = entry[k] => tk[c] = k
      BY <2>3
    <3>3. \A j \in Calls :
            entry[j] \in Calls \cup {None}
            /\ (entry[j] # None /\ signal[entry[j]] # "none"
                  => <<j, signal[entry[j]]>> \in decided)
      OBVIOUS
    <3>4. \A c \in Calls :
            Waiting(c)
              => /\ held[c] \in Calls
                 /\ signal[held[c]] # "none"
                      => <<tk[c], signal[held[c]]>> \in decided
      OBVIOUS
    <3>5. \A e \in Calls :
            /\ e # entry[k] => signal'[e] = signal[e]
            /\ e = entry[k] => signal'[e] = d
      BY <2>3
    <3>6. \A j \in Calls :
            entry[j] # None /\ signal'[entry[j]] # "none"
              => <<j, signal'[entry[j]]>> \in decided
      <4> HIDE DEF IInv
      <4> QED
        BY <2>1, <3>1, <3>3, <3>5 DEF Resolves
    <3>7. \A c \in Calls :
            Waiting(c) /\ signal'[held[c]] # "none"
              => <<tk[c], signal'[held[c]]>> \in decided
      <4> HIDE DEF IInv, Waiting
      <4> QED
        BY <2>1, <3>2, <3>4, <3>5 DEF Resolves
    <3> QED
      BY <2>1, <3>6, <3>7 DEF Resolves
  <2> QED
    BY <2>1, <2>2, <2>3 DEF Resolves
<1>20. CASE Stop
  BY <1>20 DEF Stop, CancelCalls
<1>21. CASE Stopped
  BY <1>21 DEF Stopped
<1>22. CASE Resume
  BY <1>22 DEF Resume
<1>23. CASE Restart
  BY <1>23 DEF Restart, CancelCalls
<1>24. CASE UNCHANGED vars
  BY <1>24 DEF vars
<1> HIDE DEF IInv, SignalsDecision, ManagerTypes, CallTypes, WaitTypes,
        RequestTypes, TypeOK, HasTicket, QueueInOrder, OwnEntry,
        WaitsOnTicket, KnowsTicket, Waiting
<1> QED
  BY <1>1, <1>2, <1>3, <1>4, <1>5, <1>6, <1>7, <1>8, <1>9, <1>10, <1>11,
     <1>12, <1>13, <1>14, <1>15, <1>16, <1>17, <1>18, <1>19, <1>20, <1>21,
     <1>22, <1>23, <1>24 DEF Next, CallStep, ThreadStep, RequestStep

\* A request goes on with what it recorded.
LEMMA RequestInv ==
  ASSUME TypeOK, HasTicket, SignalsDecision, KnowsTicket, DecisionStands,
         [Next]_vars
  PROVE  KnowsTicket'
<1> USE ToolApprovalAssumption DEF TypeOK, KnowsTicket, RequestTypes, Active,
        Ended, Pending, Closed, Decisions, Statuses, Unasked, Unopened,
        Holding, tickets, manager, waits, calls, requests, run
<1>1. ASSUME NEW c \in Calls, Start(c) PROVE KnowsTicket'
  BY <1>1 DEF Start, Goto
<1>2. ASSUME NEW c \in Calls, FindReusable(c) PROVE KnowsTicket'
  BY <1>2 DEF FindReusable, Goto
<1>3. ASSUME NEW c \in Calls, UpsertRequested(c) PROVE KnowsTicket'
  BY <1>3 DEF UpsertRequested, Goto, Write
<1>4. ASSUME NEW c \in Calls, OpenApproval(c) PROVE KnowsTicket'
  BY <1>4 DEF OpenApproval, Goto
<1>5. ASSUME NEW c \in Calls, SubmitWait(c) PROVE KnowsTicket'
  BY <1>5 DEF SubmitWait, Goto
<1>6. ASSUME NEW c \in Calls, Wake(c) PROVE KnowsTicket'
  BY <1>6 DEF Wake, EndWait
<1>7. ASSUME NEW c \in Calls, TimeOut(c) PROVE KnowsTicket'
  BY <1>7 DEF TimeOut, EndWait
<1>8. ASSUME NEW c \in Calls, Raise(c) PROVE KnowsTicket'
  BY <1>8 DEF Raise, Goto
<1>9. ASSUME NEW c \in Calls, CloseApproval(c) PROVE KnowsTicket'
  BY <1>9 DEF CloseApproval, Goto
<1>10. ASSUME NEW c \in Calls, Settle(c) PROVE KnowsTicket'
  <2>1. Settles(c)
    BY <1>10, SettleEffect
  <2>2. CASE UNCHANGED <<tickets, decided>>
    BY <2>1, <2>2 DEF Settles
  <2>3. CASE ticket[tk[c]] = "requested"
    BY <2>1, <2>3 DEF Settles
  <2> QED
    BY <2>1, <2>2, <2>3 DEF Settles
<1>11. ASSUME NEW c \in Calls, ReadResolution(c) PROVE KnowsTicket'
  BY <1>11 DEF ReadResolution, Goto, Resolution
<1>12. ASSUME NEW c \in Calls, Execute(c) PROVE KnowsTicket'
  BY <1>12 DEF Execute, Goto
<1>13. ASSUME NEW c \in Calls, Finish(c) PROVE KnowsTicket'
  BY <1>13 DEF Finish, Goto, Write
<1>14. CASE StartWait
  BY <1>14 DEF StartWait
<1>15. ASSUME NEW u \in Requests, NEW k \in Calls, NEW d \in Decisions,
            Ask(u, k, d)
     PROVE  KnowsTicket'
  BY <1>15 DEF Ask, At
<1>16. ASSUME NEW u \in Requests, Check(u) PROVE KnowsTicket'
  BY <1>16 DEF Check, At, Answered
<1>17. ASSUME NEW u \in Requests, Decide(u) PROVE KnowsTicket'
  <2>1. PICK k \in Calls, d \in Decisions : Decides(u, k, d)
    BY <1>17, DecideEffect
  <2>2. CASE UNCHANGED <<tickets, decided>>
    BY <2>1, <2>2 DEF Decides
  <2>3. CASE ticket[k] = "requested"
    BY <2>1, <2>3 DEF Decides
  <2> QED
    BY <2>1, <2>2, <2>3 DEF Decides
<1>18. ASSUME NEW u \in Requests, GrantFails(u) PROVE KnowsTicket'
  BY <1>18 DEF GrantFails, Answered, At
<1>19. ASSUME NEW u \in Requests, ResolveApproval(u) PROVE KnowsTicket'
  BY <1>19 DEF ResolveApproval, Answered, At
<1>20. CASE Stop
  BY <1>20 DEF Stop, CancelCalls
<1>21. CASE Stopped
  BY <1>21 DEF Stopped
<1>22. CASE Resume
  BY <1>22 DEF Resume
<1>23. CASE Restart
  BY <1>23 DEF Restart, CancelCalls
<1>24. CASE UNCHANGED vars
  BY <1>24 DEF vars
<1> HIDE DEF TypeOK, KnowsTicket, RequestTypes
<1> QED
  BY <1>1, <1>2, <1>3, <1>4, <1>5, <1>6, <1>7, <1>8, <1>9, <1>10, <1>11,
     <1>12, <1>13, <1>14, <1>15, <1>16, <1>17, <1>18, <1>19, <1>20, <1>21,
     <1>22, <1>23, <1>24 DEF Next, CallStep, ThreadStep, RequestStep

\* After Settle the row never is requested again.
LEMMA SettledStep ==
  ASSUME TypeOK, HasTicket, SignalsDecision, KnowsTicket, DecisionStands,
         Settled, [Next]_vars
  PROVE  Settled'
<1> USE ToolApprovalAssumption DEF TypeOK, HasTicket, Settled, TicketTypes,
        CallTypes, Active, Ended, Pending, Closed, Decisions, Statuses,
        Unasked, Unopened, Holding, tickets, manager, waits, calls, requests,
        run
<1>1. ASSUME NEW c \in Calls, Start(c) PROVE Settled'
  BY <1>1 DEF Start, Goto
<1>2. ASSUME NEW c \in Calls, FindReusable(c) PROVE Settled'
  BY <1>2 DEF FindReusable, Goto
<1>3. ASSUME NEW c \in Calls, UpsertRequested(c) PROVE Settled'
  BY <1>3 DEF UpsertRequested, Goto, Write
<1>4. ASSUME NEW c \in Calls, OpenApproval(c) PROVE Settled'
  BY <1>4 DEF OpenApproval, Goto
<1>5. ASSUME NEW c \in Calls, SubmitWait(c) PROVE Settled'
  BY <1>5 DEF SubmitWait, Goto
<1>6. ASSUME NEW c \in Calls, Wake(c) PROVE Settled'
  BY <1>6 DEF Wake, EndWait
<1>7. ASSUME NEW c \in Calls, TimeOut(c) PROVE Settled'
  BY <1>7 DEF TimeOut, EndWait
<1>8. ASSUME NEW c \in Calls, Raise(c) PROVE Settled'
  BY <1>8 DEF Raise, Goto
<1>9. ASSUME NEW c \in Calls, CloseApproval(c) PROVE Settled'
  BY <1>9 DEF CloseApproval, Goto
<1>10. ASSUME NEW c \in Calls, Settle(c) PROVE Settled'
  <2>1. Settles(c)
    BY <1>10, SettleEffect
  <2>2. CASE UNCHANGED <<tickets, decided>>
    BY <2>1, <2>2 DEF Settles
  <2>3. CASE ticket[tk[c]] = "requested"
    BY <2>1, <2>3 DEF Settles
  <2> QED
    BY <2>1, <2>2, <2>3 DEF Settles
<1>11. ASSUME NEW c \in Calls, ReadResolution(c) PROVE Settled'
  BY <1>11 DEF ReadResolution, Goto, Resolution
<1>12. ASSUME NEW c \in Calls, Execute(c) PROVE Settled'
  BY <1>12 DEF Execute, Goto
<1>13. ASSUME NEW c \in Calls, Finish(c) PROVE Settled'
  BY <1>13 DEF Finish, Goto, Write
<1>14. CASE StartWait
  BY <1>14 DEF StartWait
<1>15. ASSUME NEW u \in Requests, NEW k \in Calls, NEW d \in Decisions,
            Ask(u, k, d)
     PROVE  Settled'
  BY <1>15 DEF Ask, At
<1>16. ASSUME NEW u \in Requests, Check(u) PROVE Settled'
  BY <1>16 DEF Check, At, Answered
<1>17. ASSUME NEW u \in Requests, Decide(u) PROVE Settled'
  <2>1. PICK k \in Calls, d \in Decisions : Decides(u, k, d)
    BY <1>17, DecideEffect
  <2>2. CASE UNCHANGED <<tickets, decided>>
    BY <2>1, <2>2 DEF Decides
  <2>3. CASE ticket[k] = "requested"
    BY <2>1, <2>3 DEF Decides
  <2> QED
    BY <2>1, <2>2, <2>3 DEF Decides
<1>18. ASSUME NEW u \in Requests, GrantFails(u) PROVE Settled'
  BY <1>18 DEF GrantFails, Answered, At
<1>19. ASSUME NEW u \in Requests, ResolveApproval(u) PROVE Settled'
  BY <1>19 DEF ResolveApproval, Answered, At
<1>20. CASE Stop
  BY <1>20 DEF Stop, CancelCalls
<1>21. CASE Stopped
  BY <1>21 DEF Stopped
<1>22. CASE Resume
  BY <1>22 DEF Resume
<1>23. CASE Restart
  BY <1>23 DEF Restart, CancelCalls
<1>24. CASE UNCHANGED vars
  BY <1>24 DEF vars
<1> HIDE DEF TypeOK, HasTicket, Settled, TicketTypes, CallTypes
<1> QED
  BY <1>1, <1>2, <1>3, <1>4, <1>5, <1>6, <1>7, <1>8, <1>9, <1>10, <1>11,
     <1>12, <1>13, <1>14, <1>15, <1>16, <1>17, <1>18, <1>19, <1>20, <1>21,
     <1>22, <1>23, <1>24 DEF Next, CallStep, ThreadStep, RequestStep

\* A call goes by its ticket's row, and the row by the decision.
LEMMA AnswerStep ==
  ASSUME TypeOK, HasTicket, SignalsDecision, KnowsTicket, DecisionStands,
         Settled, AnswerFollowsDecision, [Next]_vars
  PROVE  AnswerFollowsDecision'
<1> USE ToolApprovalAssumption DEF TypeOK, HasTicket, DecisionStands, Settled,
        AnswerFollowsDecision, TicketTypes, CallTypes, Active, Ended, Pending,
        Closed, Decisions, Statuses, Unasked, Unopened, Holding, Outcomes,
        Says, Only, tickets, manager, waits, calls, requests, run
<1>1. ASSUME NEW c \in Calls, Start(c) PROVE AnswerFollowsDecision'
  <2>1. /\ pc[c] = "idle" /\ pc' = [pc EXCEPT ![c] = "started"]
        /\ UNCHANGED <<tickets, manager, waits, requests, run, tk, decided>>
    BY <1>1 DEF Start, Goto
  <2> QED
    BY <2>1
<1>2. ASSUME NEW c \in Calls, FindReusable(c) PROVE AnswerFollowsDecision'
  <2>1. /\ pc[c] = "started"
        /\ UNCHANGED <<tickets, manager, waits, requests, run, decided>>
    BY <1>2 DEF FindReusable
  <2>2. CASE /\ pc' = [pc EXCEPT ![c] = "missed"]
             /\ UNCHANGED tk
    BY <2>1, <2>2
  <2>3. ASSUME NEW k \in Calls, ticket[k] \in {"requested", "approved"},
               tk' = [tk EXCEPT ![c] = k],
               pc' = [pc EXCEPT ![c] =
                        IF ticket[k] = "requested" THEN "found" ELSE "approved"]
        PROVE  AnswerFollowsDecision'
    <3>1. ticket[k] = "approved" => <<k, "approved">> \in decided
      BY <2>3
    <3> QED
      BY <2>1, <2>3, <3>1
  <2> QED
    BY <1>2, <2>2, <2>3 DEF FindReusable, Goto
<1>3. ASSUME NEW c \in Calls, UpsertRequested(c) PROVE AnswerFollowsDecision'
  BY <1>3 DEF UpsertRequested, Goto, Write
<1>4. ASSUME NEW c \in Calls, OpenApproval(c) PROVE AnswerFollowsDecision'
  BY <1>4 DEF OpenApproval, Goto
<1>5. ASSUME NEW c \in Calls, SubmitWait(c) PROVE AnswerFollowsDecision'
  BY <1>5 DEF SubmitWait, Goto
<1>6. ASSUME NEW c \in Calls, Wake(c) PROVE AnswerFollowsDecision'
  BY <1>6 DEF Wake, EndWait
<1>7. ASSUME NEW c \in Calls, TimeOut(c) PROVE AnswerFollowsDecision'
  BY <1>7 DEF TimeOut, EndWait
<1>8. ASSUME NEW c \in Calls, Raise(c) PROVE AnswerFollowsDecision'
  BY <1>8 DEF Raise, Goto
<1>9. ASSUME NEW c \in Calls, CloseApproval(c) PROVE AnswerFollowsDecision'
  BY <1>9 DEF CloseApproval, Goto
<1>10. ASSUME NEW c \in Calls, Settle(c) PROVE AnswerFollowsDecision'
  <2>1. Settles(c)
    BY <1>10, SettleEffect
  <2>2. CASE UNCHANGED <<tickets, decided>>
    BY <2>1, <2>2 DEF Settles
  <2>3. CASE ticket[tk[c]] = "requested"
    BY <2>1, <2>3 DEF Settles
  <2> QED
    BY <2>1, <2>2, <2>3 DEF Settles
<1>11. ASSUME NEW c \in Calls, ReadResolution(c) PROVE AnswerFollowsDecision'
  BY <1>11 DEF ReadResolution, Goto, Resolution
<1>12. ASSUME NEW c \in Calls, Execute(c) PROVE AnswerFollowsDecision'
  BY <1>12 DEF Execute, Goto
<1>13. ASSUME NEW c \in Calls, Finish(c) PROVE AnswerFollowsDecision'
  BY <1>13 DEF Finish, Goto, Write
<1>14. CASE StartWait
  BY <1>14 DEF StartWait
<1>15. ASSUME NEW u \in Requests, NEW k \in Calls, NEW d \in Decisions,
            Ask(u, k, d)
     PROVE  AnswerFollowsDecision'
  BY <1>15 DEF Ask, At
<1>16. ASSUME NEW u \in Requests, Check(u) PROVE AnswerFollowsDecision'
  BY <1>16 DEF Check, At, Answered
<1>17. ASSUME NEW u \in Requests, Decide(u) PROVE AnswerFollowsDecision'
  <2>1. PICK k \in Calls, d \in Decisions : Decides(u, k, d)
    BY <1>17, DecideEffect
  <2>2. CASE UNCHANGED <<tickets, decided>>
    BY <2>1, <2>2 DEF Decides
  <2>3. CASE ticket[k] = "requested"
    BY <2>1, <2>3 DEF Decides
  <2> QED
    BY <2>1, <2>2, <2>3 DEF Decides
<1>18. ASSUME NEW u \in Requests, GrantFails(u) PROVE AnswerFollowsDecision'
  BY <1>18 DEF GrantFails, Answered, At
<1>19. ASSUME NEW u \in Requests, ResolveApproval(u) PROVE AnswerFollowsDecision'
  BY <1>19 DEF ResolveApproval, Answered, At
<1>20. CASE Stop
  BY <1>20 DEF Stop, CancelCalls
<1>21. CASE Stopped
  BY <1>21 DEF Stopped
<1>22. CASE Resume
  BY <1>22 DEF Resume
<1>23. CASE Restart
  BY <1>23 DEF Restart, CancelCalls
<1>24. CASE UNCHANGED vars
  BY <1>24 DEF vars
<1> HIDE DEF TypeOK, HasTicket, DecisionStands, Settled,
        AnswerFollowsDecision, TicketTypes, CallTypes
<1> QED
  BY <1>1, <1>2, <1>3, <1>4, <1>5, <1>6, <1>7, <1>8, <1>9, <1>10, <1>11,
     <1>12, <1>13, <1>14, <1>15, <1>16, <1>17, <1>18, <1>19, <1>20, <1>21,
     <1>22, <1>23, <1>24 DEF Next, CallStep, ThreadStep, RequestStep

\* An entry is closed by a call of its ticket only.
LEMMA SharedStep ==
  ASSUME TypeOK, HasTicket, QueueInOrder, WaitsOnTicket, ClosedByOther,
         [Next]_vars
  PROVE  ClosedByOther'
<1> USE ToolApprovalAssumption DEF HasTicket, WaitsOnTicket, ClosedByOther,
        Shared, Active, Ended, Pending, Closed, Unasked, Unopened, Holding,
        Decisions, Statuses, tickets, manager, waits, calls, requests, run
<1>1. /\ pc \in [Calls -> Active \cup Ended \cup {"idle"}]
      /\ tk \in [Calls -> Calls \cup {None}]
      /\ entry \in [Calls -> Calls \cup {None}]
      /\ signal \in [Calls -> Decisions \cup {"none"}]
      /\ answer \in [Calls -> Decisions \cup {"none", "timed_out",
                                             "unregistered"}]
      /\ \A c \in Calls :
           /\ pc[c] \in Unopened \cup {"opened"} => thread[c] = "none"
           /\ answer[c] # "none" =>
                pc[c] \in {"awaiting", "settling", "reading"}
  BY DEF TypeOK, ManagerTypes, CallTypes, WaitTypes, QueueInOrder
<1> USE <1>1
<1>2. ASSUME NEW c \in Calls, Start(c) PROVE ClosedByOther'
  BY <1>2 DEF Start, Goto
<1>3. ASSUME NEW c \in Calls, FindReusable(c) PROVE ClosedByOther'
  <2>1. /\ pc[c] = "started"
        /\ \E p \in {"missed", "found", "approved"} : Goto(c, p)
        /\ \A b \in Calls \ {c} : tk'[b] = tk[b]
        /\ UNCHANGED <<manager, waits>>
    BY <1>3 DEF FindReusable, Goto
  <2>2. PICK p \in {"missed", "found", "approved"} : pc' = [pc EXCEPT ![c] = p]
    BY <2>1 DEF Goto
  <2>3. ASSUME NEW b \in Calls, Shared(b), b # c PROVE Shared(b)'
    BY <2>1, <2>2, <2>3
  <2>4. ASSUME NEW b \in Calls, pc'[b] \in {"opened", "awaiting"},
               entry'[tk'[b]] = None
        PROVE  Shared(b)'
    BY <2>1, <2>2, <2>3, <2>4
  <2>5. ASSUME NEW b \in Calls, answer'[b] = "unregistered"
        PROVE  pc'[b] = "awaiting" /\ Shared(b)'
    BY <2>1, <2>2, <2>3, <2>5
  <2> QED
    BY <2>4, <2>5
<1>4. ASSUME NEW c \in Calls, UpsertRequested(c) PROVE ClosedByOther'
  <2>1. /\ pc[c] = "missed" /\ pc' = [pc EXCEPT ![c] = "found"]
        /\ \A b \in Calls \ {c} : tk'[b] = tk[b]
        /\ UNCHANGED <<manager, waits>>
    BY <1>4 DEF UpsertRequested, Goto
  <2>2. ASSUME NEW b \in Calls, Shared(b), b # c PROVE Shared(b)'
    BY <2>1, <2>2
  <2> QED
    BY <2>1, <2>2
<1>5. ASSUME NEW c \in Calls, OpenApproval(c) PROVE ClosedByOther'
  <2>1. /\ pc[c] = "found" /\ pc' = [pc EXCEPT ![c] = "opened"]
        /\ tk[c] \in Calls /\ entry'[tk[c]] # None
        /\ \A k \in Calls : entry[k] # None => entry'[k] # None
        /\ UNCHANGED <<answer, tk>>
    BY <1>5 DEF OpenApproval, Goto
  <2>2. ASSUME NEW b \in Calls, Shared(b) PROVE Shared(b)'
    BY <2>1, <2>2
  <2>3. ASSUME NEW b \in Calls, pc'[b] \in {"opened", "awaiting"},
               entry'[tk[b]] = None
        PROVE  Shared(b)
    <3>1. b # c
      BY <2>1, <2>3
    <3>2. pc[b] \in {"opened", "awaiting"}
      BY <2>1, <2>3, <3>1
    <3>3. tk[b] \in Calls
      BY <3>2
    <3> QED
      BY <2>1, <2>3, <3>2, <3>3
  <2> QED
    BY <2>1, <2>2, <2>3
<1>6. ASSUME NEW c \in Calls, SubmitWait(c) PROVE ClosedByOther'
  <2>1. /\ pc[c] = "opened" /\ pc' = [pc EXCEPT ![c] = "awaiting"]
        /\ UNCHANGED <<manager, answer, tk>>
    BY <1>6 DEF SubmitWait, Goto
  <2>2. ASSUME NEW b \in Calls, Shared(b) PROVE Shared(b)'
    BY <2>1, <2>2
  <2> QED
    BY <2>1, <2>2
<1>7. ASSUME NEW c \in Calls, Wake(c) PROVE ClosedByOther'
  <2>1. held[c] \in Calls /\ signal[held[c]] # "unregistered"
    BY <1>7 DEF Wake
  <2>2. /\ UNCHANGED <<entry, pc, tk>>
        /\ \E a : /\ a \in {signal[held[c]], "none"}
                  /\ answer' = [answer EXCEPT ![c] = a]
    BY <1>7 DEF Wake, EndWait
  <2>3. \A b \in Calls :
          answer'[b] = "unregistered" => answer[b] = "unregistered"
    BY <2>1, <2>2
  <2> QED
    BY <2>2, <2>3
<1>8. ASSUME NEW c \in Calls, TimeOut(c) PROVE ClosedByOther'
  BY <1>8 DEF TimeOut, EndWait
<1>9. ASSUME NEW c \in Calls, Raise(c) PROVE ClosedByOther'
  BY <1>9 DEF Raise, Goto
<1>10. ASSUME NEW c \in Calls, CloseApproval(c) PROVE ClosedByOther'
  BY <1>10 DEF CloseApproval, Goto
<1>11. ASSUME NEW c \in Calls, Settle(c) PROVE ClosedByOther'
  BY <1>11 DEF Settle, Goto, Write
<1>12. ASSUME NEW c \in Calls, ReadResolution(c) PROVE ClosedByOther'
  BY <1>12 DEF ReadResolution, Goto, Resolution
<1>13. ASSUME NEW c \in Calls, Execute(c) PROVE ClosedByOther'
  BY <1>13 DEF Execute, Goto
<1>14. ASSUME NEW c \in Calls, Finish(c) PROVE ClosedByOther'
  BY <1>14 DEF Finish, Goto, Write
<1>15. CASE StartWait
  <2> DEFINE c == Head(queue)
  <2>1. /\ c \in Calls /\ c = queue[1] /\ 1 \in 1..Len(queue)
    <3>1. queue # <<>> /\ queue \in Seq(Calls)
      BY <1>15 DEF StartWait, TypeOK, WaitTypes
    <3> QED
      BY <3>1, QueueEnds
  <2>2. pc[c] = "awaiting"
    BY <2>1 DEF QueueInOrder
  <2>3. /\ UNCHANGED <<entry, pc, tk>>
        /\ \/ UNCHANGED answer
           \/ entry[tk[c]] = None
              /\ answer' = [answer EXCEPT ![c] = "unregistered"]
    BY <1>15 DEF StartWait
  <2> HIDE DEF c
  <2>4. CASE UNCHANGED answer
    BY <2>3, <2>4
  <2>5. CASE /\ entry[tk[c]] = None
             /\ answer' = [answer EXCEPT ![c] = "unregistered"]
    <3>1. Shared(c)
      BY <2>1, <2>2, <2>5
    <3>2. \A b \in Calls \ {c} : answer'[b] = answer[b]
      BY <2>5
    <3> QED
      BY <2>1, <2>2, <2>3, <3>1, <3>2
  <2> QED
    BY <2>3, <2>4, <2>5
<1>16. ASSUME NEW u \in Requests, NEW k \in Calls, NEW d \in Decisions,
            Ask(u, k, d)
     PROVE  ClosedByOther'
  BY <1>16 DEF Ask, At
<1>17. ASSUME NEW u \in Requests, Check(u) PROVE ClosedByOther'
  BY <1>17 DEF Check, At, Answered
<1>18. ASSUME NEW u \in Requests, Decide(u) PROVE ClosedByOther'
  BY <1>18 DEF Decide, At, Answered, Write
<1>19. ASSUME NEW u \in Requests, GrantFails(u) PROVE ClosedByOther'
  BY <1>19 DEF GrantFails, Answered, At
<1>20. ASSUME NEW u \in Requests, ResolveApproval(u) PROVE ClosedByOther'
  BY <1>20 DEF ResolveApproval, Answered, At
<1>21. CASE Stop
  BY <1>21 DEF Stop, CancelCalls
<1>22. CASE Stopped
  BY <1>22 DEF Stopped
<1>23. CASE Resume
  BY <1>23 DEF Resume
<1>24. CASE Restart
  BY <1>24 DEF Restart, CancelCalls
<1>25. CASE UNCHANGED vars
  BY <1>25 DEF vars
<1> HIDE DEF HasTicket, WaitsOnTicket, ClosedByOther, Shared
<1> QED
  BY <1>2, <1>3, <1>4, <1>5, <1>6, <1>7, <1>8, <1>9, <1>10, <1>11, <1>12,
     <1>13, <1>14, <1>15, <1>16, <1>17, <1>18, <1>19, <1>20, <1>21, <1>22,
     <1>23, <1>24, <1>25 DEF Next, CallStep, ThreadStep, RequestStep

\* The strengthening is inductive.
LEMMA InvStep ==
  ASSUME IInv, [Next]_vars PROVE IInv'
<1>1. /\ TypeOK /\ HasTicket /\ QueueInOrder /\ OwnEntry /\ WaitsOnTicket
      /\ SignalsDecision /\ KnowsTicket /\ DecisionStands /\ Settled
      /\ AnswerFollowsDecision /\ ClosedByOther
  BY DEF IInv
<1>2. TypeOK'
  BY <1>1, TypeStep, HistoryStep DEF TypeOK, StateTypes
<1> QED
  BY <1>1, <1>2, QueueStep, TicketStep, EntryStep, WaitStep, SignalStep,
     RequestInv, DecisionStep, SettledStep, AnswerStep, SharedStep DEF IInv

\* Before the first call asks there are no tickets, entries or waits.
LEMMA InvInit ==
  ASSUME Init PROVE IInv
<1> USE ToolApprovalAssumption DEF Init, Active, Ended, Pending, Closed,
        Decisions, Statuses, Unasked, Unopened, Holding
<1>1. TypeOK
  BY DEF TypeOK, TicketTypes, ManagerTypes, CallTypes, WaitTypes, RequestTypes,
         RunTypes, HistoryTypes
<1>2. HasTicket /\ QueueInOrder /\ OwnEntry /\ WaitsOnTicket
  BY DEF HasTicket, QueueInOrder, OwnEntry, WaitsOnTicket, Waiting
<1>3. SignalsDecision /\ KnowsTicket /\ DecisionStands
  BY DEF SignalsDecision, KnowsTicket, DecisionStands, Outcomes, Says,
         Waiting
<1>4. Settled /\ AnswerFollowsDecision /\ ClosedByOther
  BY DEF Settled, AnswerFollowsDecision, ClosedByOther
<1> QED
  BY <1>1, <1>2, <1>3, <1>4 DEF IInv

-----------------------------------------------------------------------------
\* The strengthening holds in every reachable state: it ties the entry, the
\* thread and the row of a ticket to the call that goes by it.
THEOREM Invariance == Spec => []IInv
<1>1. Init => IInv
  BY InvInit
<1>2. IInv /\ [Next]_vars => IInv'
  BY InvStep
<1> QED
  BY <1>1, <1>2, PTL DEF Spec

\* Every variable keeps its type: a wait never ends without an answer, and a
\* ticket keeps one of the statuses of ApprovalTicketStatus.
THEOREM TypeSafe == Spec => []TypeOK
<1>1. IInv => TypeOK
  BY DEF IInv
<1> QED
  BY <1>1, Invariance, PTL

\* A decision that resolve_tool_approval_async recorded is final, whatever
\* time-out, other request, stop or restart it races.
THEOREM DecisionsStand == Spec => []DecisionStands
<1>1. IInv => DecisionStands
  BY DEF IInv
<1> QED
  BY <1>1, Invariance, PTL

\* A tool executes only behind an approval of the ticket its call goes by, is
\* refused only behind a denial, and times out only where there was neither.
THEOREM AnswersFollow == Spec => []AnswerFollowsDecision
<1>1. IInv => AnswerFollowsDecision
  BY DEF IInv
<1> QED
  BY <1>1, Invariance, PTL

\* The KeyError of wait_for_approval reaches a call only if an identical call
\* closed the entry of the ticket they share.
THEOREM MissedWasShared == Spec => []UnregisteredWasShared
<1>1. IInv => UnregisteredWasShared
  BY DEF IInv, ClosedByOther, Shared, UnregisteredWasShared
<1> QED
  BY <1>1, Invariance, PTL

=============================================================================
