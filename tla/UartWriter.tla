----------------------------- MODULE UartWriter -----------------------------
(***************************************************************************)
(* src/aux/uart/writer.rs: a `Writer` putting bytes in the transmit FIFO   *)
(* while the transmitter drains it.  The bytes the callers write are       *)
(* numbered 1, 2, ...; a call writes the next ones.                        *)
(***************************************************************************)
EXTENDS WakerCells

CONSTANTS
  WriteKinds,  \* the methods the tasks call
  MaxWrite     \* bound on the bytes they write, for TLC

ASSUME WriterAssumption ==
  /\ WriteKinds \subseteq {"write", "blockingWrite", "nbWrite",
                           "flush", "blockingFlush", "nbFlush"}
  /\ MaxWrite \in Nat \ {0}

VARIABLES
  tx,      \* the number of bytes in the transmit FIFO
  dropped, \* bytes written to a full FIFO
  put,     \* the number of bytes written to IO
  wTask,   \* the task that writes
  wKind,   \* the method it called
  wStep,   \* where the call is
  wLen,    \* the length of its buffer; then, how much of it is written
  wLeft,   \* bytes it has still to write to IO
  acked    \* history: the number of bytes the calls said were written

writerVars == <<tx, dropped, put, wTask, wKind, wStep, wLen, wLeft, acked>>
wCall == <<wTask, wKind, wLen>>

Flushes == {"flush", "blockingFlush", "nbFlush"}
Least(a, b) == IF a < b THEN a ELSE b

WriterTypeOK ==
  /\ tx \in 0 .. Fifo
  /\ dropped \in 0 .. MaxWrite
  /\ put \in 0 .. MaxWrite
  /\ wTask \in Tasks \cup {NoTask}
  /\ wKind \in WriteKinds \cup {"none"}
  /\ wStep \in {"none", "await", "level", "put", "register"}
  /\ wLen \in 0 .. MaxWrite
  /\ wLeft \in 0 .. MaxWrite
  /\ acked \in 0 .. MaxWrite

WriterInit ==
  /\ tx = 0
  /\ dropped = 0
  /\ put = 0
  /\ wTask = NoTask
  /\ wKind = "none"
  /\ wStep = "none"
  /\ wLen = 0
  /\ wLeft = 0
  /\ acked = 0

\* The transmitter takes a byte out of the FIFO.
Drain ==
  /\ tx > 0
  /\ tx' = tx - 1
  /\ UNCHANGED <<wakeVars, dropped, put, wCall, wStep, wLeft, acked>>

-----------------------------------------------------------------------------
(* A call in the running task.                                             *)

Writing(step) == current # NoTask /\ wTask = current /\ wStep = step

StartWrite(k, n) ==
  /\ current # NoTask
  /\ wTask = NoTask
  /\ IF k \in Flushes THEN n = 0
     ELSE /\ n > 0   \* an empty buffer is written at once
          /\ k = "nbWrite" => n = 1
          /\ put + n <= MaxWrite
  /\ wTask' = current
  /\ wKind' = k
  /\ wLen' = n
  /\ wStep' = "level"
  /\ wLeft' = 0
  /\ UNCHANGED <<wakeVars, tx, dropped, put, acked>>

ReturnWritten(n) ==
  /\ wTask' = NoTask
  /\ wKind' = "none"
  /\ wStep' = "none"
  /\ wLen' = 0
  /\ wLeft' = 0
  /\ acked' = acked + n

\* The three ways not to be done: await the interrupt, spin, WouldBlock.
NotYet ==
  \/ /\ wKind \in {"write", "flush"}
     /\ wStep' = "register"
     /\ UNCHANGED <<wCall, wLeft, acked>>
  \/ /\ wKind \in {"blockingWrite", "blockingFlush"}
     /\ UNCHANGED <<wCall, wStep, wLeft, acked>>
  \/ /\ wKind \in {"nbWrite", "nbFlush"}
     /\ ReturnWritten(0)

\* Mutant: one byte more is written than the FIFO has room for.
ReadLevelOneMore ==
  /\ Writing("level")
  /\ wKind \notin Flushes
  /\ \/ /\ tx = Fifo
        /\ NotYet
     \/ /\ tx < Fifo
        /\ wStep' = "put"
        /\ wLen' = Least(wLen, Fifo - tx + 1)
        /\ wLeft' = wLen'
        /\ UNCHANGED <<wTask, wKind, acked>>
  /\ UNCHANGED <<wakeVars, tx, dropped, put>>

\* Mutant: the whole buffer is said to be written.
ReadLevelClaimingAll ==
  /\ Writing("level")
  /\ wKind \notin Flushes
  /\ \/ /\ tx = Fifo
        /\ NotYet
     \/ /\ tx < Fifo
        /\ wStep' = "put"
        /\ wLeft' = Least(wLen, Fifo - tx)
        /\ UNCHANGED <<wCall, acked>>
  /\ UNCHANGED <<wakeVars, tx, dropped, put>>

\* EXTRA_STATUS tells the level of the transmit FIFO, and so how much of the
\* buffer to write.
ReadLevel ==
  /\ Writing("level")
  /\ wKind \notin Flushes
  /\ \/ /\ tx = Fifo
        /\ NotYet
     \/ /\ tx < Fifo
        /\ wStep' = "put"
        /\ wLen' = Least(wLen, Fifo - tx)
        /\ wLeft' = wLen'
        /\ UNCHANGED <<wTask, wKind, acked>>
  /\ UNCHANGED <<wakeVars, tx, dropped, put>>

\* Bit 0 of EXTRA_STATUS << 8, which the flushes test, is never set.
TransmitterDone == FALSE

TestDone ==
  /\ Writing("level")
  /\ wKind \in Flushes
  /\ IF TransmitterDone THEN ReturnWritten(0) ELSE NotYet
  /\ UNCHANGED <<wakeVars, tx, dropped, put>>

\* The bytes written to IO by this poll; the last one ends the call.
PutByte ==
  /\ Writing("put")
  /\ put' = put + 1
  /\ tx' = Least(tx + 1, Fifo)
  /\ dropped' = IF tx = Fifo THEN dropped + 1 ELSE dropped
  /\ IF wLeft = 1
       THEN ReturnWritten(wLen)
       ELSE wLeft' = wLeft - 1 /\ UNCHANGED <<wCall, wStep, acked>>
  /\ UNCHANGED wakeVars

RegisterWrite ==
  /\ Writing("register")
  /\ Register("tx")
  /\ wStep' = "await"
  /\ UNCHANGED <<tx, dropped, put, wCall, wLeft, acked>>

\* The task runs again and drops the future.
CancelWrite ==
  /\ Writing("level")
  /\ wKind \in {"write", "flush"}
  /\ ReturnWritten(0)
  /\ UNCHANGED <<wakeVars, tx, dropped, put>>

WriterStep ==
  \/ ReadLevel
  \/ TestDone
  \/ PutByte
  \/ RegisterWrite

\* The transmit interrupt: the FIFO is empty and IER asks for it.
TxPending == "tx" \in ier /\ tx = 0

-----------------------------------------------------------------------------
(* Properties.                                                             *)

\* writer.rs:212-220, 263-271: a writer that waits will be woken: unless it is
\* to be polled anyway, its waker is in the cell and its interrupt enabled.
WriterArmed ==
  wStep = "await" /\ wTask \notin owed => cell["tx"] = wTask /\ "tx" \in ier

\* writer.rs:109-125, 208-230: no byte is written to a full FIFO, and no byte
\* was written that the caller, dropped future or not, is not told of: what the
\* calls return is what they wrote.
NothingDropped ==
  /\ dropped = 0
  /\ wStep # "put" => put = acked

=============================================================================
