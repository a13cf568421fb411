----------------------------- MODULE WakerCells -----------------------------
(***************************************************************************)
(* What the two directions of the Mini UART share: the waker cells of      *)
(* src/lib.rs, the interrupt enable register IER, and the tasks as         *)
(* WakeService lets a driver see them.  A critical section is one step,    *)
(* and so is a handler: so it is of sections whose acquire was whole       *)
(* (CriticalSectionProofs!WholeSectionsSerialise), and the drivers are     *)
(* modelled for a handler that returns to the instruction it interrupted.  *)
(***************************************************************************)
EXTENDS Integers, Sequences

CONSTANTS
  Tasks,    \* the tasks that use the UART
  NoTask,   \* an empty waker cell; no task is running
  Fifo,     \* the depth of the receive and of the transmit FIFO, 8
  MaxBytes  \* bound on the bytes that arrive, for TLC

ASSUME UartAssumption ==
  /\ NoTask \notin Tasks
  /\ Fifo \in Nat \ {0}
  /\ MaxBytes \in Nat

VARIABLES
  owed,     \* tasks that were woken and not polled since
  current,  \* the task being polled
  cell,     \* READER_WAKER and WRITER_WAKER: the task they would wake
  ier       \* the enabled interrupts of the UART

wakeVars == <<owed, current, cell, ier>>

Sides == {"rx", "tx"}

WakeTypeOK ==
  /\ owed \subseteq Tasks
  /\ current \in Tasks \cup {NoTask}
  /\ cell \in [Sides -> Tasks \cup {NoTask}]
  /\ ier \subseteq Sides

WakeInit ==
  /\ owed = {}
  /\ current \in Tasks
  /\ cell = [s \in Sides |-> NoTask]
  /\ ier = {}

\* Mutant: the waker registered first is kept.
RegisterKeeping(side) ==
  /\ cell' = IF cell[side] = NoTask THEN [cell EXCEPT ![side] = current] ELSE cell
  /\ ier' = ier \cup {side}
  /\ current' = NoTask
  /\ UNCHANGED owed

\* The critical section of a future that must wait: set_waker puts the
\* waker of the running task in the cell, whatever it held; then the
\* interrupt of that side is enabled, and the poll returns Pending.
Register(side) ==
  /\ cell' = [cell EXCEPT ![side] = current]
  /\ ier' = ier \cup {side}
  /\ current' = NoTask
  /\ UNCHANGED owed

\* Mutant: the waker is taken and dropped.
HandleForgetting(side) ==
  /\ ier' = ier \ {side}
  /\ cell' = [cell EXCEPT ![side] = NoTask]
  /\ UNCHANGED <<owed, current>>

\* `interrupt_handler` of reader.rs and writer.rs: the interrupt is disabled
\* and `wake` takes the waker out of the cell.
Handle(side) ==
  /\ ier' = ier \ {side}
  /\ owed' = owed \cup ({cell[side]} \ {NoTask})
  /\ cell' = [cell EXCEPT ![side] = NoTask]
  /\ UNCHANGED current

=============================================================================
