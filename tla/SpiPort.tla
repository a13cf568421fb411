------------------------------ MODULE SpiPort -------------------------------
(***************************************************************************)
(* What the futures of src/aux/spi.rs share with the device and with its   *)
(* interrupt handler: the two FIFOs, the entry being shifted, the two      *)
(* interrupt enable bits of CONTROL1, SPI_WAKER, and the tasks as          *)
(* WakeService lets a driver see them.  Every entry that is sent brings an *)
(* answer, which is known by the number of the entry it answers.           *)
(***************************************************************************)
EXTENDS Integers, Sequences, SequencesExt

CONSTANTS
  Tasks,   \* the tasks that use the bus
  NoTask,  \* an empty waker cell; no task is running
  Fifo,    \* the depth of both FIFOs, 4
  Pulsed   \* the build keeps both writes of clear_fifos to CONTROL0

ASSUME SpiAssumption ==
  /\ NoTask \notin Tasks
  /\ Fifo \in Nat \ {0}
  /\ Pulsed \in BOOLEAN

VARIABLES
  owed,       \* tasks that were woken and not polled since
  current,    \* the task being polled
  cell,       \* SPI_WAKER: the task it would wake
  enabled,    \* the interrupts enabled in CONTROL1, bits 6 and 7
  tx,         \* the transmit FIFO
  shift,      \* the entries being shifted, at most one
  rx,         \* the receive FIFO
  overflow,   \* history: an entry was written to a full transmit FIFO
  lost        \* history: answers to the call in progress that never came

portVars == <<owed, current, cell, enabled, tx, shift, rx, overflow, lost>>
taskVars == <<owed, current>>
device == <<tx, shift, rx, overflow, lost>>

Interrupts == {"done", "empty"}

\* The number of an entry that is not of the call in progress, and of a word
\* of the FullDuplex interfaces.
Other == -1
Word == -2

Indexes == Nat \cup {Other, Word}

EntrySet == [index : Indexes, empty : BOOLEAN]
Entry(i, empty) == [index |-> i, empty |-> empty]

Busy == shift # <<>> \/ tx # <<>>

PortInit ==
  /\ owed = {}
  /\ current \in Tasks
  /\ cell = NoTask
  /\ enabled = {}
  /\ tx = <<>> /\ shift = <<>> /\ rx = <<>>
  /\ overflow = FALSE
  /\ lost = {}

-----------------------------------------------------------------------------
(* The device.                                                             *)

Load ==
  /\ shift = <<>>
  /\ tx # <<>>
  /\ shift' = <<Head(tx)>>
  /\ tx' = Tail(tx)
  /\ UNCHANGED <<taskVars, cell, enabled, rx, overflow, lost>>

Lose(i) == lost' = IF i \in Nat THEN lost \cup {i} ELSE lost

\* An entry has been shifted out and its answer in.  A full FIFO takes no
\* answer; whether an entry of no bits brings one the manual does not say.
Complete ==
  /\ shift # <<>>
  /\ LET e == shift[1] IN
     \/ Len(rx) < Fifo /\ rx' = Append(rx, e.index) /\ UNCHANGED lost
     \/ (Len(rx) = Fifo \/ e.empty) /\ Lose(e.index) /\ UNCHANGED rx
  /\ shift' = <<>>
  /\ UNCHANGED <<taskVars, cell, enabled, tx, overflow>>

\* A write to IO or TXHOLD.
Push(e) ==
  /\ tx' = IF Len(tx) < Fifo THEN Append(tx, e) ELSE tx
  /\ overflow' = (overflow \/ Len(tx) = Fifo)
  /\ UNCHANGED <<shift, rx, lost>>

\* A read of IO while the receive FIFO is not empty.
Take ==
  /\ rx # <<>>
  /\ rx' = Tail(rx)
  /\ UNCHANGED <<tx, shift, overflow, lost>>

\* Mutant: only the receive FIFO is cleared.
ClearReceive ==
  /\ rx' = <<>>
  /\ UNCHANGED <<tx, shift, overflow, lost>>

\* Mutant: only the transmit FIFO is cleared.
ClearTransmit ==
  /\ tx' = <<>>
  /\ UNCHANGED <<shift, rx, overflow, lost>>

\* clear_fifos: the entry being shifted is in neither FIFO.  The bit that
\* clears them is set and reset by `read` and `write`, not `read_volatile` and
\* `write_volatile`, with nothing between that touches memory: a compiler may
\* leave out the first write, and the bit is never set.
Clear ==
  /\ IF Pulsed THEN tx' = <<>> /\ rx' = <<>> ELSE UNCHANGED <<tx, rx>>
  /\ UNCHANGED <<shift, overflow, lost>>

\* A call ends or is dropped; what it has left behind is not the next one's.
Disown ==
  /\ tx' = [i \in DOMAIN tx |-> [tx[i] EXCEPT !.index = Other]]
  /\ shift' = [i \in DOMAIN shift |-> [shift[i] EXCEPT !.index = Other]]
  /\ rx' = [i \in DOMAIN rx |-> Other]
  /\ lost' = {}
  /\ UNCHANGED overflow

-----------------------------------------------------------------------------
(* Waiting and waking.                                                     *)

StoreWaker == cell' = current

\* The critical section of WriteFut and TransferInPlaceFut; Pending.
Register(interrupt) ==
  /\ StoreWaker
  /\ enabled' = enabled \cup {interrupt}
  /\ current' = NoTask
  /\ UNCHANGED <<owed, device>>

\* The interrupts are level triggered.
Pending ==
  \/ "done" \in enabled /\ ~ Busy
  \/ "empty" \in enabled /\ tx = <<>>

\* Mutant: the waker is dropped.
HandleForgetting ==
  /\ Pending
  /\ enabled' = {}
  /\ cell' = NoTask
  /\ UNCHANGED <<taskVars, device>>

\* interrupt_handler: both interrupts are disabled and the waker is taken.
Handle ==
  /\ Pending
  /\ enabled' = {}
  /\ owed' = owed \cup ({cell} \ {NoTask})
  /\ cell' = NoTask
  /\ UNCHANGED <<current, device>>

=============================================================================
