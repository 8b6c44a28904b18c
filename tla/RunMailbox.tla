----------------------------- MODULE RunMailbox -----------------------------
(***************************************************************************)
(* What injecting a message into a run promises: while the run is open a   *)
(* message may be accepted; an accepted message waits, is taken into the   *)
(* model turn with the others of its batch, and is shown to the model      *)
(* once.  The only ways to miss it are a reminder that is dropped because  *)
(* the answer is ready, a turn that breaks while it holds its batch, and   *)
(* the end of the run.  RunInjection implements it.                        *)
(***************************************************************************)
CONSTANTS Messages, Reminders

VARIABLES open, waiting, taken, shown, gone

vars == <<open, waiting, taken, shown, gone>>

Init ==
  /\ open = TRUE
  /\ waiting = {} /\ taken = {} /\ shown = {} /\ gone = {}

Accept(m) ==
  /\ open
  /\ m \notin waiting \cup taken \cup shown \cup gone
  /\ waiting' = waiting \cup {m}
  /\ UNCHANGED <<open, taken, shown, gone>>

\* A batch is taken only by a turn that holds none; reminders may be dropped.
Take(batch, dropped) ==
  /\ taken = {}
  /\ batch \cup dropped \subseteq waiting
  /\ batch \cap dropped = {}
  /\ dropped \subseteq Reminders
  /\ waiting' = waiting \ (batch \cup dropped)
  /\ taken' = batch
  /\ gone' = gone \cup dropped
  /\ UNCHANGED <<open, shown>>

Show(prompt) ==
  /\ prompt \subseteq taken
  /\ taken' = taken \ prompt
  /\ shown' = shown \cup prompt
  /\ UNCHANGED <<open, waiting, gone>>

Break ==
  /\ gone' = gone \cup taken
  /\ taken' = {}
  /\ UNCHANGED <<open, waiting, shown>>

Close ==
  /\ taken = {}
  /\ open' = FALSE
  /\ gone' = gone \cup waiting
  /\ waiting' = {}
  /\ UNCHANGED <<taken, shown>>

Next ==
  \/ \E m \in Messages : Accept(m)
  \/ \E batch, dropped \in SUBSET Messages : Take(batch, dropped)
  \/ \E prompt \in SUBSET Messages : Show(prompt)
  \/ Break
  \/ Close

Spec == Init /\ [][Next]_vars
=============================================================================
