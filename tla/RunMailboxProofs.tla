-------------------------- MODULE RunMailboxProofs --------------------------
(***************************************************************************)
(* RunInjection implements RunMailbox, for every set of messages and every *)
(* number of requests and restarts: an accepted message waits, is taken    *)
(* with its batch, and is shown once, and it is missed only in the ways    *)
(* the mailbox names.  The mapped state follows from IInv.                 *)
(***************************************************************************)
EXTENDS RunInjectionProofs

\* The messages that the model was shown.
ShownIds == (announced \cap IdsOf(history)) \ (IdsIn(batch) \cup gone)

\* A handler's entry is a message that the mailbox never held.
LEMMA AcceptMapped ==
  ASSUME IInv, [Next]_vars, NEW m \in Messages, Send(m)
  PROVE  Mailbox!Accept(m) \/ UNCHANGED Mailbox!vars
<1> USE DEF IInv
<1>1. m \notin sent /\ UNCHANGED <<active, batch, announced, gone>>
  BY Sends DEF Adds
<1>2. /\ m \notin Pending /\ m \notin announced /\ m \notin gone
  BY <1>1 DEF SentOnly
<1>3. IdsOf(history') \in {IdsOf(history), IdsOf(history) \cup {m}}
  BY StepShows DEF Send, Shows
<1>4. ShownIds' = ShownIds /\ m \notin ShownIds
  BY <1>1, <1>2, <1>3 DEF ShownIds
<1>5. IdsIn(batch)' = IdsIn(batch)
  BY <1>1
<1>6. CASE Adds(m)
  <2>1. IdsIn(queue') = IdsIn(queue) \cup {m} /\ active
    BY <1>6, AddsLemma DEF Adds
  <2> QED
    BY <1>1, <1>2, <1>4, <1>5, <2>1 DEF Mailbox!Accept, ShownIds, Pending
<1>7. CASE queue' = queue
  BY <1>1, <1>4, <1>5, <1>7 DEF Mailbox!vars, ShownIds
<1> QED
  BY <1>6, <1>7, Sends

\* A drain takes a batch and drops at most reminders.
LEMMA TakeMapped ==
  ASSUME IInv, [Next]_vars, NEW p, Takes(p), NEW dropped \in SUBSET Reminders,
         IdsIn(queue') = IdsIn(queue) \ (IdsIn(p) \cup dropped),
         dropped \subseteq IdsIn(queue) \ IdsIn(p),
         gone' = gone \cup dropped,
         UNCHANGED <<active, announced, history>>
  PROVE  Mailbox!Next
<1> USE DEF IInv
<1>1. /\ IdsIn(batch') = IdsIn(p) /\ IdsIn(p) \subseteq IdsIn(queue)
      /\ IdsIn(batch) = {}
  BY TakesIds
<1>2. announced \cap IdsIn(queue) = {} /\ IdsIn(queue) \subseteq Messages
  BY DEF SentOnly, Pending, TypeOK
<1>3. ShownIds' = ShownIds
  BY <1>1, <1>2 DEF ShownIds
<1>4. Mailbox!Take(IdsIn(p), dropped)
  BY <1>1, <1>3 DEF Mailbox!Take, ShownIds
<1>5. IdsIn(p) \in SUBSET Messages /\ dropped \in SUBSET Messages
  BY <1>1, <1>2
<1> QED
  BY <1>4, <1>5 DEF Mailbox!Next

\* Every drain of the queue is a take, with the reminders it drops.
LEMMA DrainsMapped ==
  ASSUME IInv, [Next]_vars, Interrupt \/ Boot \/ TopDrain \/ BoundaryDrain
  PROVE  Mailbox!Next
<1> USE DEF IInv
<1>1. queue \in SUBSET Entries /\ Kinds(queue) /\ Disjoint(queue)
  BY DEF TypeOK, EntriesOK
<1>2. IdsIn({}) = {}
  BY DEF IdsIn
<1>3. ASSUME NEW p \in SUBSET queue, Takes(p), queue' = queue \ p,
             UNCHANGED <<active, announced, history, gone>>
      PROVE  Mailbox!Next
  <2> DEFINE dropped == {}
  <2>1. IdsIn(queue') = IdsIn(queue) \ IdsIn(p)
    <3>1. /\ IdsIn(p) \cap IdsIn(queue \ p) = {}
          /\ IdsIn(p) \cup IdsIn(queue \ p) = IdsIn(queue)
      BY <1>1, <1>3, PartLemma
    <3> QED
      BY <1>3, <3>1
  <2>2. IdsIn(queue') = IdsIn(queue) \ (IdsIn(p) \cup dropped)
    BY <2>1
  <2>3. /\ dropped \in SUBSET Reminders
        /\ dropped \subseteq IdsIn(queue) \ IdsIn(p)
        /\ gone' = gone \cup dropped
    BY <1>3
  <2> HIDE DEF dropped
  <2> QED
    BY <1>3, <2>2, <2>3, TakeMapped
<1>4. CASE Interrupt
  <2>1. Takes(Forced(queue)) /\ queue' = queue \ Forced(queue)
    BY <1>4, Drains
  <2>2. UNCHANGED <<active, announced, history, gone>>
    BY <1>4 DEF Interrupt, DrainInterrupt
  <2> QED
    BY <1>3, <2>1, <2>2 DEF Forced
<1>5. CASE Boot
  <2>1. Takes(Reminding(queue)) /\ queue' = Users(queue)
    BY <1>5, Drains
  <2>2. Users(queue) = queue \ Reminding(queue)
    BY <1>1 DEF Users, Reminding, Entries
  <2>3. UNCHANGED <<active, announced, history, gone>>
    BY <1>5 DEF Boot
  <2> QED
    BY <1>3, <2>1, <2>2, <2>3 DEF Reminding
<1>6. CASE TopDrain
  <2>1. Takes(queue) /\ queue' = {} /\ gone' = gone
    BY <1>6, Drains
  <2>2. UNCHANGED <<active, announced, history>>
    BY <1>6 DEF TopDrain
  <2>3. queue' = queue \ queue
    BY <2>1
  <2> QED
    BY <1>3, <2>1, <2>2, <2>3
<1>7. CASE BoundaryDrain
  <2>1. PICK p \in {queue, Users(queue)} :
          /\ Takes(p) /\ queue' = {}
          /\ gone' = gone \cup (IdsIn(queue) \ IdsIn(p))
    BY <1>7, Drains
  <2> DEFINE dropped == IdsIn(queue) \ IdsIn(p)
  <2>2. dropped \subseteq Reminders
    BY <1>1 DEF IdsIn, Kinds, Users, Entries
  <2>3. UNCHANGED <<active, announced, history>>
    BY <1>7 DEF BoundaryDrain
  <2>4. IdsIn(p) \subseteq IdsIn(queue)
    BY <2>1, TakesIds
  <2>5. IdsIn(queue') = IdsIn(queue) \ (IdsIn(p) \cup dropped)
    BY <1>2, <2>1
  <2> QED
    BY <2>1, <2>2, <2>3, <2>4, <2>5, TakeMapped
<1> QED
  BY <1>4, <1>5, <1>6, <1>7

\* The head of the batch is announced before it is stored.
LEMMA ShowMapped ==
  ASSUME IInv, [Next]_vars, AppendPrompt
  PROVE  Mailbox!Next
<1> USE DEF IInv
<1> DEFINE ids == First(batch).ids
<1>1. /\ pc = "append" /\ pc \in InHand /\ batch' = batch \ {First(batch)}
      /\ UNCHANGED <<active, queue, announced, gone>>
  BY DEF AppendPrompt, InHand
<1>2. /\ ids \subseteq IdsIn(batch)
      /\ IdsIn(batch') = IdsIn(batch) \ ids
  BY <1>1, HeadLemma
<1>3. ids \subseteq announced /\ ids \cap gone = {} /\ ids \in SUBSET Messages
  BY <1>1, <1>2 DEF SentOnly, Pending, TypeOK
<1>4. IdsOf(history') = IdsOf(history) \cup ids
  BY StepShows DEF Shows
<1> HIDE DEF ids
<1>5. ShownIds' = ShownIds \cup ids
  BY <1>1, <1>2, <1>3, <1>4 DEF ShownIds
<1>6. Mailbox!Show(ids)
  BY <1>1, <1>2, <1>5 DEF Mailbox!Show, ShownIds
<1> QED
  BY <1>3, <1>6 DEF Mailbox!Next

\* A turn that breaks gives its batch up, and the end of the run the queue.
LEMMA EndMapped ==
  ASSUME IInv, [Next]_vars, Fail \/ Deactivate
  PROVE  Mailbox!Next
<1> USE DEF IInv
<1>1. IdsIn({}) = {}
  BY DEF IdsIn
<1>2. CASE Fail
  <2>1. /\ batch' = {} /\ gone' = gone \cup IdsIn(batch)
        /\ UNCHANGED <<active, queue, announced, history>>
    BY <1>2 DEF Fail
  <2>2. ShownIds' = ShownIds
    BY <1>1, <2>1 DEF ShownIds
  <2>3. Mailbox!Break
    BY <1>1, <2>1, <2>2 DEF Mailbox!Break, ShownIds
  <2> QED
    BY <2>3 DEF Mailbox!Next
<1>3. CASE Deactivate
  <2>1. /\ active' = FALSE /\ queue' = {} /\ gone' = gone \cup IdsIn(queue)
        /\ UNCHANGED <<batch, announced, history>>
    BY <1>3 DEF Deactivate
  <2>2. IdsIn(batch) = {} /\ IdsIn(batch') = {}
    BY <1>1, <1>3, <2>1 DEF Deactivate, EntriesOK, InHand
  <2>3. announced \cap IdsIn(queue) = {}
    BY DEF SentOnly
  <2>4. ShownIds' = ShownIds
    BY <2>1, <2>2, <2>3 DEF ShownIds
  <2>5. Mailbox!Close
    BY <1>1, <2>1, <2>2, <2>4 DEF Mailbox!Close, ShownIds
  <2> QED
    BY <2>5 DEF Mailbox!Next
<1> QED
  BY <1>2, <1>3

\* What the loop does otherwise, and a forced queue, the mailbox does not see.
LEMMA StutterMapped ==
  ASSUME IInv, [Next]_vars, ForceQueued \/ Still
  PROVE  UNCHANGED Mailbox!vars
<1> USE DEF IInv
<1>1. /\ UNCHANGED <<active, batch, gone>>
      /\ IdsIn(queue') = IdsIn(queue)
  BY ForcesLemma, StillLemma DEF ForceQueued
<1>2. IdsOf(history') = IdsOf(history)
  BY StepShows DEF Shows
<1>3. \/ announced' = announced
      \/ announced' = announced \cup First(batch).ids /\ pc \in InHand
  BY ForcesLemma, StillLemma DEF InHand
<1>4. pc \in InHand => First(batch).ids \subseteq IdsIn(batch)
  BY HeadLemma
<1>5. ShownIds' = ShownIds
  BY <1>1, <1>2, <1>3, <1>4 DEF ShownIds
<1> QED
  BY <1>1, <1>5 DEF Mailbox!vars, ShownIds

\* Every step of the queue and of the loop is one of the mailbox.
LEMMA MailboxStep ==
  ASSUME IInv, [Next]_vars
  PROVE  [Mailbox!Next]_(Mailbox!vars)
<1>1. ASSUME NEW m \in Messages, Send(m)
      PROVE  Mailbox!Next \/ UNCHANGED Mailbox!vars
  BY <1>1, AcceptMapped DEF Mailbox!Next
<1> QED
  BY <1>1, DrainsMapped, ShowMapped, EndMapped, StutterMapped, NextCases

\* The injection queue and the turn boundaries implement the mailbox.
THEOREM ImplementsMailbox == Spec => MailboxSpec
<1>1. Init => Mailbox!Init
  BY DEF Init, Mailbox!Init, IdsIn
<1> QED
  BY <1>1, Invariance, MailboxStep, PTL DEF Spec, MailboxSpec, Mailbox!Spec

=============================================================================
