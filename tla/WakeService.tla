---------------------------- MODULE WakeService -----------------------------
(***************************************************************************)
(* What the executor promises to the tasks and the interrupt handlers of   *)
(* the crate: a task that is woken is owed a poll, the debt is paid by     *)
(* polling that task, and the processor goes to sleep only when nobody is  *)
(* owed anything.  Executor.tla is shown to implement this module; the     *)
(* driver modules are written on top of it.                                *)
(***************************************************************************)

CONSTANTS
  Tasks,   \* the tasks the executor can hold
  NoTask   \* "no task is being polled"

VARIABLES
  owed,     \* tasks woken since their last poll began
  current,  \* the task being polled
  asleep    \* the processor waits for an interrupt

vars == <<owed, current, asleep>>

TypeOK ==
  /\ owed \subseteq Tasks
  /\ current \in Tasks \cup {NoTask}
  /\ asleep \in BOOLEAN

Init ==
  /\ owed = {}
  /\ current = NoTask
  /\ asleep = FALSE

\* A handler, a task or the spawner wakes some tasks, possibly none.
Wake(ts) ==
  /\ ~ asleep
  /\ owed' = owed \cup ts
  /\ UNCHANGED <<current, asleep>>

Poll(t) ==
  /\ ~ asleep
  /\ current = NoTask
  /\ t \in owed
  /\ owed' = owed \ {t}
  /\ current' = t
  /\ UNCHANGED asleep

\* The poll returns Pending; a wake received meanwhile stands.
Yield ==
  /\ current # NoTask
  /\ current' = NoTask
  /\ UNCHANGED <<owed, asleep>>

\* The poll returns Ready: the task ends, and a wake received meanwhile with it.
Finish ==
  /\ current # NoTask
  /\ owed' = owed \ {current}
  /\ current' = NoTask
  /\ UNCHANGED asleep

Sleep ==
  /\ ~ asleep
  /\ owed = {}
  /\ current = NoTask
  /\ asleep' = TRUE
  /\ UNCHANGED <<owed, current>>

Resume ==
  /\ asleep
  /\ asleep' = FALSE
  /\ UNCHANGED <<owed, current>>

Next ==
  \/ \E ts \in SUBSET Tasks : Wake(ts)
  \/ \E t \in Tasks : Poll(t)
  \/ Yield
  \/ Finish
  \/ Sleep
  \/ Resume

Spec == Init /\ [][Next]_vars

\* Every wake is followed by a poll that began after it.
Served == \A t \in Tasks : t \in owed ~> current = t

=============================================================================
