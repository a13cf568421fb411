------------------------------ MODULE MiniUart ------------------------------
(***************************************************************************)
(* src/aux/uart.rs: the reader and the writer of the Mini UART side by     *)
(* side, under the executor and the interrupt handler they share.          *)
(***************************************************************************)
EXTENDS UartReader, UartWriter

vars == <<wakeVars, readerVars, writerVars>>

TypeOK == WakeTypeOK /\ ReaderTypeOK /\ WriterTypeOK

Init == WakeInit /\ ReaderInit /\ WriterInit

\* Mutant: both interrupts are disabled, one is handled.
DispatchDisablingBoth(side) ==
  /\ IF side = "rx" THEN RxPending ELSE TxPending
  /\ ier' = {}
  /\ owed' = owed \cup ({cell[side]} \ {NoTask})
  /\ cell' = [cell EXCEPT ![side] = NoTask]
  /\ UNCHANGED <<current, readerVars, writerVars>>

\* INTERRUPT_ID tells one pending interrupt at a time; the other one enters
\* the handler again.
Dispatch(side) ==
  /\ IF side = "rx" THEN RxPending ELSE TxPending
  /\ Handle(side)
  /\ UNCHANGED <<readerVars, writerVars>>

\* raw.poll polls a woken task; it resumes the future it awaits, if any.
PollTask(t) ==
  /\ current = NoTask
  /\ t \in owed
  /\ owed' = owed \ {t}
  /\ current' = t
  /\ rStep' = IF rTask = t /\ rStep = "await" THEN "resume" ELSE rStep
  /\ wStep' = IF wTask = t /\ wStep = "await" THEN "level" ELSE wStep
  /\ UNCHANGED <<cell, ier, rLine, overrun, rCall, rBuf, rHistory,
                 tx, dropped, put, wCall, wLeft, acked>>

\* A running task with no call in progress awaits something else.
Yield ==
  /\ current # NoTask
  /\ current \notin {rTask, wTask}
  /\ current' = NoTask
  /\ UNCHANGED <<owed, cell, ier, readerVars, writerVars>>

\* Something else wakes a task: a timer, another task, a stale waker.
WakeOther(t) ==
  /\ t \notin owed
  /\ owed' = owed \cup {t}
  /\ UNCHANGED <<current, cell, ier, readerVars, writerVars>>

\* A task makes one call at a time.
Read(k) == current # wTask /\ StartRead(k) /\ UNCHANGED writerVars
Write(k, n) == current # rTask /\ StartWrite(k, n) /\ UNCHANGED readerVars

ThreadStep ==
  \/ ReaderStep /\ UNCHANGED writerVars
  \/ WriterStep /\ UNCHANGED readerVars
  \/ Yield

Next ==
  \/ Arrive /\ UNCHANGED writerVars
  \/ Drain /\ UNCHANGED readerVars
  \/ \E side \in Sides : Dispatch(side)
  \/ \E t \in Tasks : PollTask(t)
  \/ \E t \in Tasks : WakeOther(t)
  \/ \E k \in ReadKinds : Read(k)
  \/ \E k \in WriteKinds, n \in 0 .. MaxWrite : Write(k, n)
  \/ CancelRead /\ UNCHANGED writerVars
  \/ CancelWrite /\ UNCHANGED readerVars
  \/ ThreadStep

Spec == Init /\ [][Next]_vars

\* Code runs, the executor polls what was woken (Executor!WokenIsPolled), the
\* transmitter transmits, and a level-triggered interrupt is taken.
Fairness ==
  /\ WF_vars(ThreadStep)
  /\ \A t \in Tasks : SF_vars(PollTask(t))
  /\ \A side \in Sides : WF_vars(Dispatch(side))
  /\ WF_vars(Drain /\ UNCHANGED readerVars)

FairSpec == Spec /\ Fairness

-----------------------------------------------------------------------------
(* Properties.                                                             *)

\* A task that calls the blocking or the nb methods may keep the processor.
Hogged == <>[](current # NoTask)

\* reader.rs:192-227, 231-283: a `read` that waits while a byte is in the FIFO
\* returns, or is dropped, and a `read_exact` takes the byte, returns or is
\* dropped, unless a task keeps the processor.
ReadEnds ==
  Hogged \/ (rStep = "await" /\ rx # <<>>
               ~> rStep = "none" \/ (rStep = "io" /\ rKind = "exact"))

\* writer.rs:198-232, 261-272: a write that waits ends, or is dropped, unless
\* a task keeps the processor.
WriteEnds ==
  Hogged \/ (wStep = "await" /\ wKind = "write" ~> wStep = "none")

=============================================================================
