--------------------------- MODULE MiniUartProofs ---------------------------
(***************************************************************************)
(* Theorems about MiniUart, for every set of tasks, depth of the FIFOs and *)
(* length of the buffers, and about the baud rates of UartConfig.          *)
(***************************************************************************)
EXTENDS MiniUart, UartConfig, TLAPS, SequenceTheorems

\* A call that waits belongs to a task.
OwnerInv ==
  /\ rTask \in Tasks \cup {NoTask}
  /\ wTask \in Tasks \cup {NoTask}
  /\ rStep = "await" => rTask # NoTask
  /\ wStep = "await" => wTask # NoTask

Armed == ReaderArmed /\ WriterArmed

IInv == WakeTypeOK /\ OwnerInv /\ Armed

\* A step of the line, of the transmitter or of a call that does not park.
LEMMA Undisturbed ==
  ASSUME IInv, UNCHANGED wakeVars,
         rTask' \in Tasks \cup {NoTask}, wTask' \in Tasks \cup {NoTask},
         rStep' = "await" => rStep = "await" /\ rTask' = rTask,
         wStep' = "await" => wStep = "await" /\ wTask' = wTask
  PROVE  IInv'
BY DEF IInv, WakeTypeOK, OwnerInv, Armed, ReaderArmed, WriterArmed, wakeVars

\* Every step of the reader that does not park it ends its call or goes on.
LEMMA ReaderGoesOn ==
  ASSUME IInv, Resume \/ ReadStatus \/ ReadIo \/ CancelRead \/ \E k \in ReadKinds : StartRead(k)
  PROVE  UNCHANGED wakeVars /\ rTask' \in Tasks \cup {NoTask} /\ rStep' # "await"
<1> USE DEF IInv, WakeTypeOK, OwnerInv, Reading, Advance, ReturnOk, EndRead, rCall
<1>1. CASE Resume
  BY <1>1 DEF Resume
<1>2. CASE ReadStatus
  BY <1>2 DEF ReadStatus, ReturnOverrun, NothingToRead
<1>3. CASE ReadIo
  BY <1>3 DEF ReadIo
<1>4. CASE CancelRead
  BY <1>4 DEF CancelRead
<1>5. CASE \E k \in ReadKinds : StartRead(k)
  BY <1>5 DEF StartRead
<1> QED
  BY <1>1, <1>2, <1>3, <1>4, <1>5

\* The same of the writer.
LEMMA WriterGoesOn ==
  ASSUME IInv,
         \/ ReadLevel \/ TestDone \/ PutByte \/ CancelWrite
         \/ \E k \in WriteKinds, n \in 0 .. MaxWrite : StartWrite(k, n)
  PROVE  UNCHANGED wakeVars /\ wTask' \in Tasks \cup {NoTask} /\ wStep' # "await"
<1> USE DEF IInv, WakeTypeOK, OwnerInv, Writing, ReturnWritten, NotYet, wCall
<1>1. CASE ReadLevel
  BY <1>1 DEF ReadLevel
<1>2. CASE TestDone
  BY <1>2 DEF TestDone, TransmitterDone
<1>3. CASE PutByte
  BY <1>3 DEF PutByte
<1>4. CASE CancelWrite
  BY <1>4 DEF CancelWrite
<1>5. CASE \E k \in WriteKinds, n \in 0 .. MaxWrite : StartWrite(k, n)
  BY <1>5 DEF StartWrite
<1> QED
  BY <1>1, <1>2, <1>3, <1>4, <1>5

\* The line, the calls, the handlers and the executor keep IInv.
LEMMA InvIsInductive == IInv /\ [Next]_vars => IInv'
<1> SUFFICES ASSUME IInv, [Next]_vars PROVE IInv'
  OBVIOUS
<1> USE UartAssumption
<1>a. OwnerInv
  BY DEF IInv
<1>1. CASE Arrive /\ UNCHANGED writerVars
  BY <1>1, <1>a, Undisturbed DEF Arrive, rCall, writerVars, OwnerInv
<1>2. CASE Drain /\ UNCHANGED readerVars
  BY <1>2, <1>a, Undisturbed DEF Drain, wCall, readerVars, OwnerInv
<1>3. ASSUME NEW side \in Sides, Dispatch(side) PROVE IInv'
  BY <1>3 DEF Dispatch, Handle, Sides, IInv, WakeTypeOK, OwnerInv, Armed,
              ReaderArmed, WriterArmed, readerVars, writerVars
<1>4. ASSUME NEW t \in Tasks, PollTask(t) PROVE IInv'
  BY <1>4 DEF PollTask, IInv, WakeTypeOK, OwnerInv, Armed, ReaderArmed,
              WriterArmed, rCall, wCall
<1>5. ASSUME NEW t \in Tasks, WakeOther(t) PROVE IInv'
  BY <1>5 DEF WakeOther, IInv, WakeTypeOK, OwnerInv, Armed, ReaderArmed,
              WriterArmed, readerVars, writerVars
<1>6. ASSUME NEW k \in ReadKinds, Read(k) PROVE IInv'
  BY <1>6, <1>a, ReaderGoesOn, Undisturbed DEF Read, writerVars, OwnerInv
<1>7. ASSUME NEW k \in WriteKinds, NEW n \in 0 .. MaxWrite, Write(k, n) PROVE IInv'
  BY <1>7, <1>a, WriterGoesOn, Undisturbed DEF Write, readerVars, OwnerInv
<1>8. CASE CancelRead /\ UNCHANGED writerVars
  BY <1>8, <1>a, ReaderGoesOn, Undisturbed DEF writerVars, OwnerInv
<1>9. CASE CancelWrite /\ UNCHANGED readerVars
  BY <1>9, <1>a, WriterGoesOn, Undisturbed DEF readerVars, OwnerInv
<1>10. CASE ReaderStep /\ UNCHANGED writerVars
  <2>1. CASE RegisterRead
    BY <1>10, <2>1 DEF RegisterRead, Register, Reading, IInv, WakeTypeOK, OwnerInv,
       Armed, ReaderArmed, WriterArmed, rCall, writerVars, Sides
  <2>2. CASE Resume \/ ReadStatus \/ ReadIo
    BY <1>10, <2>2, <1>a, ReaderGoesOn, Undisturbed DEF writerVars, OwnerInv
  <2> QED
    BY <1>10, <2>1, <2>2 DEF ReaderStep
<1>11. CASE WriterStep /\ UNCHANGED readerVars
  <2>1. CASE RegisterWrite
    BY <1>11, <2>1 DEF RegisterWrite, Register, Writing, IInv, WakeTypeOK, OwnerInv,
       Armed, ReaderArmed, WriterArmed, wCall, readerVars, Sides
  <2>2. CASE ReadLevel \/ TestDone \/ PutByte
    BY <1>11, <2>2, <1>a, WriterGoesOn, Undisturbed DEF readerVars, OwnerInv
  <2> QED
    BY <1>11, <2>1, <2>2 DEF WriterStep
<1>12. CASE Yield
  BY <1>12 DEF Yield, IInv, WakeTypeOK, OwnerInv, Armed, ReaderArmed, WriterArmed,
               readerVars, writerVars
<1>13. CASE UNCHANGED vars
  BY <1>13, <1>a, Undisturbed DEF vars, readerVars, writerVars, OwnerInv
<1> QED
  BY <1>1, <1>2, <1>3, <1>4, <1>5, <1>6, <1>7, <1>8, <1>9, <1>10, <1>11, <1>12,
     <1>13 DEF Next, ThreadStep

LEMMA ArmedAlways == Spec => []IInv
<1>1. Init => IInv
  BY UartAssumption
  DEF Init, WakeInit, ReaderInit, WriterInit, IInv, WakeTypeOK, OwnerInv, Armed,
      ReaderArmed, WriterArmed
<1> QED
  BY <1>1, InvIsInductive, PTL DEF Spec

\* reader.rs:213-221, 272-280: a reader never waits without its waker in the
\* cell and its interrupt enabled, unless it is to be polled anyway; even when
\* tasks drop futures and take turns with the UART.
THEOREM ReaderIsWoken == Spec => []ReaderArmed
<1>1. IInv => ReaderArmed
  BY DEF IInv, Armed
<1> QED
  BY <1>1, ArmedAlways, PTL

\* writer.rs:212-220, 263-271: the same of a writer, whose cell and enable bit
\* are its own.
THEOREM WriterIsWoken == Spec => []WriterArmed
<1>1. IInv => WriterArmed
  BY DEF IInv, Armed
<1> QED
  BY <1>1, ArmedAlways, PTL

-----------------------------------------------------------------------------
(* The calls: where each one is, and what it has still to do.              *)

\* A call of the reader: it looks at the status only for a slot it has left,
\* takes a byte that is there, and waits only if it is asynchronous; a
\* `read` waits with nothing copied, and only `read_exact` passes slots over.
ReadCallInv ==
  /\ (rTask = NoTask) <=> (rStep = "none")
  /\ rStep = "none" => rKind = "none" /\ rBuf = <<>> /\ rPassed = 0
  /\ rStep # "none" => rKind # "none"
  /\ rStep \in {"status", "io"} => Len(rBuf) + rPassed < Length
  /\ rStep = "io" => rx # <<>>
  /\ rStep \in {"register", "await", "resume"} =>
       \/ rKind = "read" /\ rBuf = <<>>
       \/ rKind = "exact" /\ Len(rBuf) + rPassed <= BufLen
  /\ rKind # "exact" => rPassed = 0

\* A call of the writer: what it has still to write fits the FIFO, and what
\* is written is what the calls that ended were told of.
WriteCallInv ==
  /\ (wTask = NoTask) <=> (wStep = "none")
  /\ wStep # "none" => wKind # "none"
  /\ wStep \in {"level", "register", "await"} => put + wLen <= MaxWrite
  /\ wStep # "none" /\ wKind \notin Flushes => wLen > 0
  /\ wStep = "put" =>
       /\ 0 < wLeft /\ wLeft <= wLen /\ tx + wLeft <= Fifo
       /\ put + wLeft = acked + wLen /\ put + wLeft <= MaxWrite
  /\ acked <= put
  /\ NothingDropped

CallInv == TypeOK /\ ReadCallInv /\ WriteCallInv

ReaderPart == ReaderTypeOK /\ ReadCallInv

\* The facts a step of a reader's call rests on.
LEMMA CallFacts ==
  ASSUME ReaderPart
  PROVE  /\ rTask \in Tasks \cup {NoTask} /\ rKind \in ReadKinds \cup {"none"}
         /\ rx \in Seq(Bytes) /\ rBuf \in Seq(Bytes) /\ given \in Seq(Bytes)
         /\ Len(rBuf) \in Nat /\ rPassed \in Nat /\ Len(rBuf) + rPassed <= BufLen
         /\ Length \in Nat \ {0} /\ Length <= BufLen
         /\ lost \subseteq Bytes /\ reported \subseteq lost
         /\ ToSet(rBuf) \subseteq Bytes
BY ReaderAssumption DEF ReaderPart, ReaderTypeOK, Length, ToSet

\* What a call ends with keeps the types.
LEMMA EndKeepsPart ==
  ASSUME ReaderPart, EndRead, given' \in Seq(Bytes),
         rx' \in Seq(Bytes), Len(rx') <= Fifo, UNCHANGED arrived, overrun' \in BOOLEAN,
         lost' \subseteq Bytes, reported' \subseteq lost'
  PROVE  ReaderPart'
BY ReaderAssumption, EmptySeq DEF ReaderPart, ReaderTypeOK, ReadCallInv, EndRead, Length

\* So does another slot taken.
LEMMA AdvanceKeepsPart ==
  ASSUME ReaderPart, NEW bytes \in Seq(Bytes), Advance(bytes),
         rStep \in {"resume", "io"}, Len(bytes) + rPassed <= Length,
         rx' \in Seq(Bytes), Len(rx') <= Fifo, UNCHANGED <<arrived, overrun>>
  PROVE  ReaderPart'
<1>1. CASE Len(bytes) + rPassed = Length
  <2>1. ReturnOk(bytes)
    BY <1>1 DEF Advance
  <2>2. given' \in Seq(Bytes)
    BY <2>1, CallFacts DEF ReturnOk
  <2> QED
    BY <2>1, <2>2, EndKeepsPart DEF ReturnOk, ReaderPart, ReaderTypeOK
<1>2. CASE Len(bytes) + rPassed # Length
  <2>1. rStep' = "status" /\ rBuf' = bytes /\ UNCHANGED <<rCall, rHistory>>
    BY <1>2 DEF Advance
  <2>2. Len(bytes) \in Nat /\ rPassed \in Nat /\ Length \in Nat
    BY CallFacts
  <2>3. Len(rBuf') + rPassed' < Length
    <3>1. Len(bytes) + rPassed < Length
      BY <1>2, <2>2
    <3> QED
      BY <2>1, <3>1 DEF rCall
  <2>4. Length' = Length
    BY <2>1 DEF rCall, Length
  <2>5. Len(rBuf') + rPassed' <= BufLen
    BY <2>1, <2>2, <2>3, ReaderAssumption DEF rCall, Length
  <2> QED
    BY <2>1, <2>2, <2>3, <2>4, <2>5 DEF ReaderPart, ReaderTypeOK, ReadCallInv, rCall, rHistory
<1> QED
  BY <1>1, <1>2

\* A step of the reader keeps what is said of it, and the tasks' types.
LEMMA ReaderKeepsPart ==
  ASSUME ReaderPart, WakeTypeOK,
         \/ Arrive \/ ReaderStep \/ CancelRead \/ \E k \in ReadKinds : StartRead(k)
  PROVE  ReaderPart' /\ WakeTypeOK'
<1> USE UartAssumption, ReaderAssumption
<1>1. CASE Arrive
  <2>1. arrived + 1 \in Bytes /\ arrived' \in 0 .. MaxBytes
    BY <1>1 DEF Arrive, Bytes, ReaderPart, ReaderTypeOK
  <2>2. rx' \in Seq(Bytes) /\ Len(rx') <= Fifo /\ (rx # <<>> => rx' # <<>>)
    <3>1. Append(rx, arrived + 1) \in Seq(Bytes) /\ Len(Append(rx, arrived + 1)) = Len(rx) + 1
      BY <2>1, CallFacts, AppendProperties
    <3>2. Append(rx, arrived + 1) # <<>> /\ Len(rx) \in Nat
      BY <2>1, CallFacts, AppendProperties, LenProperties
    <3>3. CASE Len(rx) < Fifo /\ rx' = Append(rx, arrived + 1)
      BY <3>1, <3>2, <3>3
    <3>4. CASE rx' = rx
      BY <3>4 DEF ReaderPart, ReaderTypeOK
    <3> QED
      BY <1>1, <3>3, <3>4 DEF Arrive
  <2>3. lost' \subseteq Bytes /\ reported' \subseteq lost' /\ overrun' \in BOOLEAN
    BY <1>1, <2>1 DEF Arrive, ReaderPart, ReaderTypeOK
  <2> QED
    BY <1>1, <2>1, <2>2, <2>3
    DEF Arrive, ReaderPart, ReaderTypeOK, ReadCallInv, WakeTypeOK, wakeVars, rCall, Length
<1>2. CASE Resume
  <2>1. Len(rBuf) + rPassed <= Length /\ rStep = "resume"
    BY <1>2, CallFacts, EmptySeq DEF Resume, Reading, ReaderPart, ReadCallInv, Length
  <2> QED
    BY <1>2, <2>1, CallFacts, AdvanceKeepsPart
    DEF Resume, rLine, WakeTypeOK, wakeVars, ReaderPart, ReaderTypeOK
<1>3. CASE ReadStatus
  <2>1. rStep = "status" /\ Len(rBuf) + rPassed < Length /\ rTask # NoTask
    BY <1>3 DEF ReadStatus, Reading, ReaderPart, ReadCallInv
  <2>2. CASE overrun
    <3>1. ReturnOverrun
      BY <1>3, <2>2 DEF ReadStatus
    <3> QED
      BY <1>3, <3>1, CallFacts, EndKeepsPart
      DEF ReadStatus, ReturnOverrun, rLine, WakeTypeOK, wakeVars, ReaderPart, ReaderTypeOK
  <2>3. CASE ~ overrun /\ rx # <<>>
    BY <1>3, <2>1, <2>3
    DEF ReadStatus, ReaderPart, ReaderTypeOK, ReadCallInv, WakeTypeOK, wakeVars, rLine,
        rCall, rHistory, Length
  <2>4. CASE ~ overrun /\ rx = <<>>
    <3>1. NothingToRead /\ overrun' = FALSE /\ UNCHANGED <<wakeVars, rLine>>
      BY <1>3, <2>4 DEF ReadStatus
    <3>2. CASE ReturnOk(rBuf) \/ ReturnOk(<<>>)
      <4>1. given \o rBuf \in Seq(Bytes) /\ given \o <<>> \in Seq(Bytes)
        BY CallFacts
      <4>2. given' \in Seq(Bytes)
        BY <3>2, <4>1 DEF ReturnOk
      <4> QED
        BY <3>1, <3>2, <4>2, EndKeepsPart
        DEF ReturnOk, rLine, WakeTypeOK, wakeVars, ReaderPart, ReaderTypeOK
    <3>3. CASE ~ (ReturnOk(rBuf) \/ ReturnOk(<<>>))
      <4>1. /\ UNCHANGED <<rTask, rKind, rBuf, rHistory>>
            /\ \/ rKind = "read" /\ rBuf = <<>> /\ rStep' = "register" /\ rPassed' = rPassed
               \/ rKind = "exact" /\ rStep' = "register" /\ rPassed' = rPassed + 1
               \/ rStep' = rStep /\ rPassed' = rPassed
        BY <3>1, <3>3 DEF NothingToRead, rCall
      <4>2. rPassed' \in Nat /\ Len(rBuf') + rPassed' <= BufLen
        BY <2>1, <4>1, CallFacts, ReaderAssumption DEF Length
      <4>3. ReaderTypeOK'
        BY <3>1, <4>1, <4>2 DEF ReaderPart, ReaderTypeOK, rLine, rHistory
      <4>4. ReadCallInv'
        BY <2>1, <2>4, <3>1, <4>1, CallFacts DEF ReaderPart, ReadCallInv, Length, rLine
      <4> QED
        BY <3>1, <4>3, <4>4 DEF ReaderPart, WakeTypeOK, wakeVars
    <3> QED
      BY <3>2, <3>3
  <2> QED
    BY <2>2, <2>3, <2>4
<1>4. CASE ReadIo
  <2>1. rStep = "io" /\ rx # <<>> /\ Len(rBuf) + rPassed < Length
    BY <1>4 DEF ReadIo, Reading, ReaderPart, ReadCallInv
  <2>2. rx' \in Seq(Bytes) /\ Len(rx') <= Fifo
    BY <1>4, <2>1, CallFacts DEF ReadIo, ReaderPart, ReaderTypeOK
  <2>3. /\ Append(rBuf, Head(rx)) \in Seq(Bytes)
        /\ Len(Append(rBuf, Head(rx))) + rPassed <= Length
    BY <2>1, CallFacts
  <2> QED
    BY <1>4, <2>1, <2>2, <2>3, AdvanceKeepsPart
    DEF ReadIo, WakeTypeOK, wakeVars, ReaderPart, ReaderTypeOK
<1>5. CASE RegisterRead
  BY <1>5
  DEF RegisterRead, Register, Reading, ReaderPart, ReaderTypeOK, ReadCallInv, WakeTypeOK,
      Sides, rLine, rCall, rHistory, Length
<1>6. CASE CancelRead
  BY <1>6, CallFacts, EndKeepsPart
  DEF CancelRead, rLine, WakeTypeOK, wakeVars, ReaderPart, ReaderTypeOK
<1>7. ASSUME NEW k \in ReadKinds, StartRead(k) PROVE ReaderPart' /\ WakeTypeOK'
  BY <1>7, EmptySeq
  DEF StartRead, ReaderPart, ReaderTypeOK, ReadCallInv, WakeTypeOK, wakeVars, rLine,
      rHistory, Length
<1> QED
  BY <1>1, <1>2, <1>3, <1>4, <1>5, <1>6, <1>7 DEF ReaderStep

WriterPart == WriterTypeOK /\ WriteCallInv

\* The transmitter makes room, and a call ends or waits with all it has put
\* acknowledged.
LEMMA WriterKeepsPart ==
  ASSUME WriterPart, WakeTypeOK,
         \/ Drain \/ WriterStep \/ CancelWrite
         \/ \E k \in WriteKinds, n \in 0 .. MaxWrite : StartWrite(k, n)
  PROVE  WriterPart' /\ WakeTypeOK'
<1> USE UartAssumption, WriterAssumption DEF WriterPart, WriterTypeOK, WriteCallInv,
        NothingDropped, WakeTypeOK, Flushes
<1>1. CASE Drain
  BY <1>1 DEF Drain, wakeVars, wCall
<1>2. CASE ReadLevel
  <2>1. /\ wStep = "level" /\ wTask # NoTask /\ wLen > 0
        /\ UNCHANGED <<wakeVars, tx, dropped, put>>
    BY <1>2 DEF ReadLevel, Writing
  <2>2. CASE NotYet
    BY <2>1, <2>2 DEF NotYet, ReturnWritten, wakeVars, wCall
  <2>3. CASE tx < Fifo /\ wStep' = "put" /\ wLen' = Least(wLen, Fifo - tx)
             /\ wLeft' = wLen' /\ UNCHANGED <<wTask, wKind, acked>>
    <3>1. wLeft' \in Nat \ {0} /\ wLeft' = wLen' /\ wLen' <= wLen /\ tx + wLeft' <= Fifo
      BY <2>1, <2>3 DEF Least
    <3> QED
      BY <1>2, <2>1, <2>3, <3>1 DEF ReadLevel, wakeVars, wCall
  <2> QED
    BY <1>2, <2>2, <2>3 DEF ReadLevel
<1>3. CASE TestDone
  <2>1. /\ NotYet /\ wStep = "level" /\ wTask # NoTask
        /\ UNCHANGED <<wakeVars, tx, dropped, put>>
    BY <1>3 DEF TestDone, TransmitterDone, Writing
  <2> QED
    BY <2>1 DEF NotYet, ReturnWritten, wakeVars, wCall
<1>4. CASE PutByte
  <2>1. /\ wStep = "put" /\ wTask # NoTask /\ put' = put + 1 /\ tx' = tx + 1
        /\ UNCHANGED <<dropped, wakeVars>>
    BY <1>4 DEF PutByte, Writing, Least
  <2>2. CASE wLeft = 1 /\ ReturnWritten(wLen)
    BY <2>1, <2>2 DEF ReturnWritten, wakeVars
  <2>3. CASE wLeft # 1 /\ wLeft' = wLeft - 1 /\ UNCHANGED <<wCall, wStep, acked>>
    BY <2>1, <2>3 DEF wakeVars, wCall
  <2> QED
    BY <1>4, <2>2, <2>3 DEF PutByte
<1>5. CASE RegisterWrite
  BY <1>5 DEF RegisterWrite, Register, Writing, Sides, wCall
<1>6. CASE CancelWrite
  BY <1>6 DEF CancelWrite, Writing, ReturnWritten, wakeVars
<1>7. ASSUME NEW k \in WriteKinds, NEW n \in 0 .. MaxWrite, StartWrite(k, n)
      PROVE  WriterPart' /\ WakeTypeOK'
  BY <1>7 DEF StartWrite, wakeVars
<1> QED
  BY <1>1, <1>2, <1>3, <1>4, <1>5, <1>6, <1>7 DEF WriterStep

LEMMA PartsMakeCallInv == CallInv <=> WakeTypeOK /\ ReaderPart /\ WriterPart
BY DEF CallInv, TypeOK, ReaderPart, WriterPart

\* What a step leaves alone, it leaves true.
LEMMA ReaderUntouched == ReaderPart /\ UNCHANGED readerVars => ReaderPart'
BY DEF ReaderPart, ReaderTypeOK, ReadCallInv, Length, readerVars

LEMMA WriterUntouched == WriterPart /\ UNCHANGED writerVars => WriterPart'
BY DEF WriterPart, WriterTypeOK, WriteCallInv, NothingDropped, writerVars

\* Every step keeps CallInv.
LEMMA CallInvIsInductive == CallInv /\ [Next]_vars => CallInv'
<1> SUFFICES ASSUME CallInv, [Next]_vars PROVE WakeTypeOK' /\ ReaderPart' /\ WriterPart'
  BY PartsMakeCallInv DEF CallInv, TypeOK, ReaderPart, WriterPart
<1>a. WakeTypeOK /\ ReaderPart /\ WriterPart
  BY PartsMakeCallInv
<1>1. ASSUME UNCHANGED writerVars,
             \/ Arrive \/ ReaderStep \/ CancelRead \/ \E k \in ReadKinds : StartRead(k)
      PROVE  WakeTypeOK' /\ ReaderPart' /\ WriterPart'
  BY <1>a, <1>1, ReaderKeepsPart, WriterUntouched
<1>2. ASSUME UNCHANGED readerVars,
             \/ Drain \/ WriterStep \/ CancelWrite
             \/ \E k \in WriteKinds, n \in 0 .. MaxWrite : StartWrite(k, n)
      PROVE  WakeTypeOK' /\ ReaderPart' /\ WriterPart'
  BY <1>a, <1>2, WriterKeepsPart, ReaderUntouched
<1>3. ASSUME UNCHANGED <<readerVars, writerVars>>, WakeTypeOK'
      PROVE  WakeTypeOK' /\ ReaderPart' /\ WriterPart'
  BY <1>a, <1>3, ReaderUntouched, WriterUntouched
<1>4. ASSUME NEW side \in Sides, Dispatch(side)
      PROVE  WakeTypeOK' /\ ReaderPart' /\ WriterPart'
  <2>1. WakeTypeOK'
    BY <1>a, <1>4 DEF Dispatch, Handle, WakeTypeOK, Sides
  <2> QED
    BY <1>3, <1>4, <2>1 DEF Dispatch
<1>5. ASSUME NEW t \in Tasks, PollTask(t)
      PROVE  WakeTypeOK' /\ ReaderPart' /\ WriterPart'
  <2>1. WakeTypeOK'
    BY <1>a, <1>5 DEF PollTask, WakeTypeOK
  <2>2. ReaderPart'
    BY <1>a, <1>5 DEF PollTask, ReaderPart, ReaderTypeOK, ReadCallInv, Length, rLine,
                      rCall, rHistory
  <2>3. WriterPart'
    BY <1>a, <1>5 DEF PollTask, WriterPart, WriterTypeOK, WriteCallInv, NothingDropped, wCall
  <2> QED
    BY <2>1, <2>2, <2>3
<1>6. ASSUME NEW t \in Tasks, WakeOther(t)
      PROVE  WakeTypeOK' /\ ReaderPart' /\ WriterPart'
  BY <1>a, <1>3, <1>6 DEF WakeOther, WakeTypeOK
<1>7. CASE Yield
  BY <1>a, <1>3, <1>7, UartAssumption DEF Yield, WakeTypeOK
<1>8. CASE UNCHANGED vars
  BY <1>a, <1>3, <1>8 DEF vars, wakeVars, WakeTypeOK
<1> QED
  BY <1>1, <1>2, <1>4, <1>5, <1>6, <1>7, <1>8 DEF Next, ThreadStep, Read, Write

LEMMA CallInvAlways == Spec => []CallInv
<1>1. Init => CallInv
  <2> SUFFICES ASSUME Init PROVE CallInv
    OBVIOUS
  <2> USE UartAssumption, ReaderAssumption, WriterAssumption DEF Init
  <2>1. <<>> \in Seq(Bytes) /\ Len(<<>>) = 0
    BY EmptySeq
  <2>2. WakeTypeOK
    BY DEF WakeInit, WakeTypeOK
  <2>3. ReaderTypeOK
    <3>1. rx = <<>> /\ rBuf = <<>> /\ given = <<>>
      BY DEF ReaderInit
    <3>2. /\ rx \in Seq(Bytes) /\ rBuf \in Seq(Bytes) /\ given \in Seq(Bytes)
          /\ Len(rx) = 0 /\ Len(rBuf) = 0
      BY <2>1, <3>1
    <3>3. /\ Len(rx) <= Fifo /\ arrived \in 0 .. MaxBytes
          /\ rPassed \in Nat /\ Len(rBuf) + rPassed <= BufLen
      BY <3>2 DEF ReaderInit
    <3>4. /\ overrun \in BOOLEAN /\ lost \subseteq Bytes
          /\ reported \subseteq lost
      BY DEF ReaderInit
    <3>5. /\ rTask \in Tasks \cup {NoTask} /\ rKind \in ReadKinds \cup {"none"}
          /\ rStep \in {"none", "await", "resume", "status", "io", "register"}
      BY DEF ReaderInit
    <3> QED
      BY <3>2, <3>3, <3>4, <3>5 DEF ReaderTypeOK
  <2>4. ReadCallInv
    BY <2>1 DEF ReaderInit, ReadCallInv
  <2>5. WriterTypeOK /\ WriteCallInv
    BY DEF WriterInit, WriterTypeOK, WriteCallInv, NothingDropped
  <2> QED
    BY <2>2, <2>3, <2>4, <2>5 DEF CallInv, TypeOK
<1> QED
  BY <1>1, CallInvIsInductive, PTL DEF Spec

\* reader.rs:186-190, 231-243, writer.rs:79-147, 198-203: the state of both
\* sides keeps its type, through every mix of calls, handlers and drops: the
\* FIFOs keep their depth and a call never has more than its buffer.
THEOREM TypeCorrect == Spec => []TypeOK
<1>1. CallInv => TypeOK
  BY DEF CallInv
<1> QED
  BY <1>1, CallInvAlways, PTL

\* writer.rs:109-125, 208-230: no byte is ever written to a full FIFO, and none
\* was written that its caller is not told of, however calls are dropped.
THEOREM NoByteIsDropped == Spec => []NothingDropped
<1>1. CallInv => NothingDropped
  BY DEF CallInv, WriteCallInv
<1> QED
  BY <1>1, CallInvAlways, PTL

\* reader.rs:166, 192-227: dropping a `read` that waits loses no byte: all it
\* has not returned is still in the FIFO.
THEOREM CancelIsSafe == Spec => CancelSafe
<1>1. ASSUME CallInv, [Next]_vars,
             rStep = "resume", rTask' = NoTask, rKind = "read"
      PROVE  lost' = lost
  <2>a. rBuf = <<>> /\ rTask # NoTask /\ lost \cup ToSet(rBuf) = lost
    BY <1>1 DEF CallInv, ReadCallInv, ToSet
  <2>1. CASE ReaderStep
    BY <1>1, <2>1, <2>a
    DEF ReaderStep, Reading, Resume, ReadStatus, ReadIo, RegisterRead, Advance, ReturnOk, rHistory
  <2>2. CASE CancelRead
    BY <2>2, <2>a DEF CancelRead
  <2>3. CASE Arrive \/ \E k \in ReadKinds : StartRead(k)
    BY <1>1, <2>3, <2>a DEF Arrive, StartRead, rCall
  <2>4. CASE UNCHANGED readerVars
    BY <2>4 DEF readerVars
  <2>5. CASE \E t \in Tasks : PollTask(t)
    BY <2>5 DEF PollTask, rHistory
  <2> QED
    BY <1>1, <2>1, <2>2, <2>3, <2>4, <2>5
    DEF Next, ThreadStep, Read, Write, Dispatch, WakeOther, Yield, vars
<1>2. CallInv /\ [Next]_vars =>
        [rStep = "resume" /\ rTask' = NoTask /\ rKind = "read" => lost' = lost]_readerVars
  BY <1>1
<1> QED
  BY <1>2, CallInvAlways, PTL DEF Spec, CancelSafe

-----------------------------------------------------------------------------
(* The bytes of the line.                                                  *)

\* The bytes in the FIFO arrived in that order.
InOrder ==
  /\ \A i, j \in DOMAIN rx : i < j => rx[i] < rx[j]
  /\ ToSet(rx) \subseteq 1 .. arrived

\* A byte that has arrived is somewhere.
Accounted ==
  1 .. arrived \subseteq ToSet(given) \cup ToSet(rBuf) \cup ToSet(rx) \cup lost

\* A loss not yet told of shows in the overrun bit; the byte a call is about
\* to take, after it saw that bit clear, is older than any such loss.
LossShows ==
  /\ lost # reported => overrun
  /\ rStep = "io" => \A b \in lost \ reported : b > Head(rx)

\* Each of the bytes comes after every earlier one was returned, is before it
\* or was told of.
Follow(bytes) ==
  \A i \in DOMAIN bytes :
    \A b \in 1 .. bytes[i] - 1 :
      b \in ToSet(given) \cup {bytes[j] : j \in 1 .. i - 1} \cup reported

LineInv == InOrder /\ Accounted /\ LossShows /\ Follow(rBuf)

\* What the sequences of bytes hold.
LEMMA SetOfEmpty == ToSet(<<>>) = {}
BY DEF ToSet

LEMMA SetOfAppend ==
  ASSUME NEW S, NEW s \in Seq(S), NEW e \in S
  PROVE  ToSet(Append(s, e)) = ToSet(s) \cup {e}
<1> DEFINE t == Append(s, e)
<1>1. /\ DOMAIN s = 1 .. Len(s) /\ DOMAIN t = 1 .. Len(s) + 1 /\ Len(s) \in Nat
      /\ \A i \in 1 .. Len(s) : t[i] = s[i]
      /\ t[Len(s) + 1] = e
  BY AppendProperties, LenProperties
<1> HIDE DEF t
<1>2. DOMAIN t = DOMAIN s \cup {Len(s) + 1} /\ \A i \in DOMAIN s : t[i] = s[i]
  BY <1>1
<1>3. ToSet(t) = ToSet(s) \cup {e}
  BY <1>1, <1>2, Zenon DEF ToSet
<1> QED
  BY <1>3 DEF t

LEMMA SetOfTail ==
  ASSUME NEW S, NEW s \in Seq(S), s # <<>>
  PROVE  ToSet(s) = ToSet(Tail(s)) \cup {Head(s)}
<1> DEFINE t == Tail(s)
<1>1. /\ DOMAIN s = 1 .. Len(s) /\ DOMAIN t = 1 .. Len(s) - 1 /\ Len(s) \in Nat \ {0}
      /\ \A i \in 1 .. Len(s) - 1 : t[i] = s[i + 1]
      /\ Head(s) = s[1]
  BY HeadTailProperties, LenProperties
<1> HIDE DEF t
<1>2. ASSUME NEW i \in DOMAIN s PROVE s[i] \in ToSet(t) \cup {Head(s)}
  <2>1. CASE i = 1
    BY <1>1, <2>1
  <2>2. CASE i # 1
    <3>1. i - 1 \in DOMAIN t /\ t[i - 1] = s[i]
      BY <1>1, <2>2
    <3> QED
      BY <3>1 DEF ToSet
  <2> QED
    BY <2>1, <2>2
<1>3. ASSUME NEW i \in DOMAIN t PROVE t[i] \in ToSet(s)
  <2>1. i + 1 \in DOMAIN s /\ t[i] = s[i + 1]
    BY <1>1
  <2> QED
    BY <2>1 DEF ToSet
<1>4. Head(s) \in ToSet(s)
  <2>1. 1 \in DOMAIN s
    BY <1>1
  <2> QED
    BY <1>1, <2>1 DEF ToSet
<1>5. ToSet(s) = ToSet(t) \cup {Head(s)}
  BY <1>2, <1>3, <1>4 DEF ToSet
<1> QED
  BY <1>5 DEF t

LEMMA SetOfConcat ==
  ASSUME NEW S, NEW s \in Seq(S), NEW t \in Seq(S)
  PROVE  ToSet(s \o t) = ToSet(s) \cup ToSet(t)
<1> DEFINE u == s \o t
<1>1. /\ DOMAIN s = 1 .. Len(s) /\ DOMAIN t = 1 .. Len(t) /\ DOMAIN u = 1 .. Len(s) + Len(t)
      /\ Len(s) \in Nat /\ Len(t) \in Nat
      /\ \A i \in 1 .. Len(s) + Len(t) : u[i] = IF i <= Len(s) THEN s[i] ELSE t[i - Len(s)]
  BY ConcatProperties, LenProperties
<1> HIDE DEF u
<1>2. ASSUME NEW i \in DOMAIN u PROVE u[i] \in ToSet(s) \cup ToSet(t)
  <2>1. \/ i \in DOMAIN s /\ u[i] = s[i]
        \/ i - Len(s) \in DOMAIN t /\ u[i] = t[i - Len(s)]
    BY <1>1
  <2> QED
    BY <2>1 DEF ToSet
<1>3. ASSUME NEW i \in DOMAIN s PROVE s[i] \in ToSet(u)
  <2>1. i \in DOMAIN u /\ u[i] = s[i]
    BY <1>1
  <2> QED
    BY <2>1 DEF ToSet
<1>4. ASSUME NEW i \in DOMAIN t PROVE t[i] \in ToSet(u)
  <2>1. Len(s) + i \in DOMAIN u /\ u[Len(s) + i] = t[i]
    BY <1>1
  <2> QED
    BY <2>1 DEF ToSet
<1>5. ToSet(u) = ToSet(s) \cup ToSet(t)
  BY <1>2, <1>3, <1>4 DEF ToSet
<1> QED
  BY <1>5 DEF u

\* The bytes older than the one a call is about to take were returned, are
\* copied or were told of: they are not behind it in the FIFO.
LEMMA HeadFollows ==
  ASSUME CallInv, LineInv, rStep = "io"
  PROVE  /\ rx # <<>> /\ Head(rx) \in Bytes /\ Head(rx) \in ToSet(rx)
         /\ \A b \in 1 .. Head(rx) - 1 : b \in ToSet(given) \cup ToSet(rBuf) \cup reported
<1>1. rx # <<>> /\ rx \in Seq(Bytes)
  BY DEF CallInv, ReadCallInv, TypeOK, ReaderTypeOK
<1>2. /\ Len(rx) \in Nat \ {0} /\ Head(rx) = rx[1] /\ DOMAIN rx = 1 .. Len(rx)
      /\ Head(rx) \in Bytes
  BY <1>1, HeadTailProperties, LenProperties, EmptySeq
<1>3. 1 \in DOMAIN rx /\ Head(rx) \in ToSet(rx)
  BY <1>2 DEF ToSet
<1>4. Head(rx) \in 1 .. arrived /\ arrived \in Nat
  BY <1>3 DEF LineInv, InOrder, CallInv, TypeOK, ReaderTypeOK
<1>5. ASSUME NEW b \in 1 .. Head(rx) - 1
      PROVE  b \in ToSet(given) \cup ToSet(rBuf) \cup reported
  <2>1. b \in 1 .. arrived /\ b < Head(rx) /\ b \in Int
    BY <1>4, <1>5
  <2>2. b \notin ToSet(rx)
    <3>1. SUFFICES ASSUME NEW i \in DOMAIN rx, rx[i] = b PROVE FALSE
      BY DEF ToSet
    <3>2. i \in Nat /\ (i = 1 \/ 1 < i)
      BY <1>2
    <3>3. ASSUME 1 < i PROVE rx[1] < rx[i]
      BY <1>3, <3>3 DEF LineInv, InOrder
    <3> QED
      BY <1>2, <1>4, <2>1, <3>1, <3>2, <3>3
  <2>3. b \notin lost \ reported
    <3>1. SUFFICES ASSUME b \in lost \ reported PROVE FALSE
      OBVIOUS
    <3>2. b > Head(rx)
      BY <3>1 DEF LineInv, LossShows
    <3> QED
      BY <1>4, <2>1, <3>2
  <2> QED
    BY <2>1, <2>2, <2>3 DEF LineInv, Accounted
<1> QED
  BY <1>1, <1>2, <1>3, <1>5

\* So the byte, taken, follows the ones that are copied.
LEMMA AppendedFollows ==
  ASSUME CallInv, LineInv, rStep = "io"
  PROVE  Follow(Append(rBuf, Head(rx)))
<1> DEFINE bytes == Append(rBuf, Head(rx))
<1>1. rBuf \in Seq(Bytes) /\ Head(rx) \in Bytes
  BY HeadFollows DEF CallInv, TypeOK, ReaderTypeOK
<1>2. /\ DOMAIN rBuf = 1 .. Len(rBuf) /\ DOMAIN bytes = 1 .. Len(rBuf) + 1 /\ Len(rBuf) \in Nat
      /\ \A i \in 1 .. Len(rBuf) : bytes[i] = rBuf[i]
      /\ bytes[Len(rBuf) + 1] = Head(rx)
  BY <1>1, AppendProperties, LenProperties
<1> HIDE DEF bytes
<1>3. ASSUME NEW i \in DOMAIN bytes, NEW b \in 1 .. bytes[i] - 1
      PROVE  b \in ToSet(given) \cup {bytes[j] : j \in 1 .. i - 1} \cup reported
  <2>1. CASE i \in 1 .. Len(rBuf)
    <3>1. b \in ToSet(given) \cup {rBuf[j] : j \in 1 .. i - 1} \cup reported
      BY <1>2, <1>3, <2>1 DEF LineInv, Follow
    <3>2. \A j \in 1 .. i - 1 : bytes[j] = rBuf[j]
      BY <1>2, <2>1
    <3> QED
      BY <3>1, <3>2
  <2>2. CASE i = Len(rBuf) + 1
    <3>1. b \in ToSet(given) \cup ToSet(rBuf) \cup reported
      BY <1>2, <1>3, <2>2, HeadFollows
    <3>2. i - 1 = Len(rBuf) /\ \A j \in 1 .. i - 1 : bytes[j] = rBuf[j]
      BY <1>2, <2>2
    <3>3. ToSet(rBuf) \subseteq {bytes[j] : j \in 1 .. i - 1}
      BY <1>2, <3>2 DEF ToSet
    <3> QED
      BY <3>1, <3>3
  <2> QED
    BY <1>2, <2>1, <2>2
<1>4. Follow(bytes)
  BY <1>3 DEF Follow
<1> QED
  BY <1>4 DEF bytes

\* What a step has to say of the bytes for what is not yet returned to stay
\* in order.
Told ==
  \A i \in Len(given) + 1 .. Len(given') :
    \A b \in 1 .. given'[i] - 1 : b \in {given'[j] : j \in 1 .. i - 1} \cup reported

\* A call that ends with bytes that follow tells of what it must.
LEMMA FollowingIsTold ==
  ASSUME given \in Seq(Bytes), NEW bytes \in Seq(Bytes), Follow(bytes), given' = given \o bytes
  PROVE  Told
<1>1. /\ DOMAIN given = 1 .. Len(given) /\ DOMAIN bytes = 1 .. Len(bytes)
      /\ Len(given) \in Nat /\ Len(bytes) \in Nat /\ Len(given') = Len(given) + Len(bytes)
      /\ \A i \in 1 .. Len(given) + Len(bytes) :
           given'[i] = IF i <= Len(given) THEN given[i] ELSE bytes[i - Len(given)]
  BY ConcatProperties, LenProperties
<1>2. SUFFICES ASSUME NEW i \in Len(given) + 1 .. Len(given'), NEW b \in 1 .. given'[i] - 1
               PROVE  b \in {given'[j] : j \in 1 .. i - 1} \cup reported
  BY DEF Told
<1> DEFINE k == i - Len(given)
<1>3. k \in DOMAIN bytes /\ given'[i] = bytes[k]
  BY <1>1, <1>2
<1>4. b \in ToSet(given) \cup {bytes[j] : j \in 1 .. k - 1} \cup reported
  BY <1>2, <1>3 DEF Follow
<1>5. ASSUME b \in ToSet(given) PROVE b \in {given'[j] : j \in 1 .. i - 1}
  <2>1. PICK j \in DOMAIN given : b = given[j]
    BY <1>5 DEF ToSet
  <2>2. j \in 1 .. i - 1 /\ given'[j] = b
    BY <1>1, <1>2, <2>1
  <2> QED
    BY <2>2
<1>6. ASSUME NEW j \in 1 .. k - 1, b = bytes[j] PROVE b \in {given'[m] : m \in 1 .. i - 1}
  <2>1. Len(given) + j \in 1 .. i - 1 /\ given'[Len(given) + j] = bytes[j]
    BY <1>1, <1>2, <1>3, <1>6
  <2> QED
    BY <1>6, <2>1
<1> QED
  BY <1>4, <1>5, <1>6

\* A step that returns nothing tells of nothing.
LEMMA NothingIsTold ==
  ASSUME given \in Seq(Bytes), given' = given
  PROVE  Told
BY LenProperties DEF Told

\* A call that ends, having put what it copied where it can be accounted for.
LEMMA EndKeepsLine ==
  ASSUME CallInv, LineInv, EndRead, UNCHANGED rLine, ToSet(given) \subseteq ToSet(given'),
         ToSet(rBuf) \subseteq ToSet(given') \cup lost', lost \subseteq lost',
         lost' # reported' => overrun'
  PROVE  LineInv'
<1>1. rBuf' = <<>> /\ rStep' # "io" /\ ToSet(rBuf') = {}
  BY SetOfEmpty DEF EndRead
<1>2. InOrder' /\ Accounted' /\ LossShows'
  BY <1>1 DEF LineInv, InOrder, Accounted, LossShows, rLine, ToSet
<1>3. Follow(rBuf)'
  BY <1>1 DEF Follow
<1> QED
  BY <1>2, <1>3 DEF LineInv

\* A call that returns bytes that follow, or only copies them.
LEMMA AdvanceKeepsLine ==
  ASSUME CallInv, LineInv, NEW bytes \in Seq(Bytes), Advance(bytes), Follow(bytes),
         InOrder', UNCHANGED <<arrived, overrun>>,
         ToSet(rBuf) \cup ToSet(rx) \subseteq ToSet(bytes) \cup ToSet(rx')
  PROVE  LineInv' /\ Told
<1>0. given \in Seq(Bytes)
  BY DEF CallInv, TypeOK, ReaderTypeOK
<1>1. CASE ReturnOk(bytes)
  <2>1. /\ rBuf' = <<>> /\ rStep' # "io" /\ ToSet(rBuf') = {}
        /\ ToSet(given') = ToSet(given) \cup ToSet(bytes) /\ UNCHANGED <<lost, reported>>
    BY <1>0, <1>1, SetOfEmpty, SetOfConcat DEF ReturnOk, EndRead
  <2>2. Accounted' /\ LossShows'
    BY <2>1 DEF LineInv, Accounted, LossShows
  <2>3. Follow(rBuf)'
    BY <2>1 DEF Follow
  <2>4. Told
    BY <1>0, <1>1, FollowingIsTold DEF ReturnOk
  <2> QED
    BY <2>2, <2>3, <2>4 DEF LineInv
<1>2. CASE rStep' = "status" /\ rBuf' = bytes /\ UNCHANGED <<rCall, rHistory>>
  <2>1. Accounted' /\ LossShows'
    BY <1>2 DEF LineInv, Accounted, LossShows, rHistory
  <2>2. Follow(rBuf)'
    BY <1>2 DEF Follow, rHistory
  <2>3. Told
    BY <1>0, <1>2, NothingIsTold DEF rHistory
  <2> QED
    BY <2>1, <2>2, <2>3 DEF LineInv
<1> QED
  BY <1>1, <1>2 DEF Advance

\* A step that leaves the bytes where they are.
LEMMA LineUntouched ==
  ASSUME CallInv, LineInv, UNCHANGED <<rx, arrived, overrun, rBuf, rHistory>>,
         rStep' = "io" => rStep = "io" \/ (~ overrun /\ rx # <<>>)
  PROVE  LineInv' /\ Told
<1>1. InOrder' /\ Accounted' /\ Follow(rBuf)' /\ Told
  BY NothingIsTold
  DEF LineInv, InOrder, Accounted, Follow, ToSet, rHistory, CallInv, TypeOK, ReaderTypeOK
<1>2. LossShows'
  BY DEF LineInv, LossShows, rHistory
<1> QED
  BY <1>1, <1>2 DEF LineInv

\* A byte arrives behind the others, or is lost and shows.
LEMMA ArriveKeepsLine == CallInv /\ LineInv /\ Arrive => LineInv' /\ Told
<1> SUFFICES ASSUME CallInv, LineInv, Arrive PROVE LineInv' /\ Told
  OBVIOUS
<1>1. /\ rx \in Seq(Bytes) /\ given \in Seq(Bytes) /\ arrived \in Nat /\ arrived + 1 \in Bytes
      /\ arrived' = arrived + 1 /\ UNCHANGED <<rBuf, rStep, given, reported>>
      /\ reported \subseteq lost /\ lost \subseteq Bytes
  BY UartAssumption DEF Arrive, Bytes, CallInv, TypeOK, ReaderTypeOK
<1>2. 1 .. arrived' = (1 .. arrived) \cup {arrived + 1}
  BY <1>1
<1>3. Follow(rBuf)' /\ Told
  BY <1>1, NothingIsTold DEF LineInv, Follow
<1>4. rStep = "io" => rx # <<>> /\ Head(rx) \in Int /\ arrived + 1 > Head(rx)
  BY <1>1, HeadFollows DEF LineInv, InOrder
<1>5. CASE rx' = Append(rx, arrived + 1) /\ UNCHANGED <<overrun, lost>>
  <2>1. ToSet(rx') = ToSet(rx) \cup {arrived + 1}
    BY <1>1, <1>5, SetOfAppend
  <2>2. /\ DOMAIN rx = 1 .. Len(rx) /\ DOMAIN rx' = 1 .. Len(rx) + 1 /\ Len(rx) \in Nat
        /\ \A i \in 1 .. Len(rx) : rx'[i] = rx[i]
        /\ rx'[Len(rx) + 1] = arrived + 1
    BY <1>1, <1>5, AppendProperties, LenProperties
  <2>3. ASSUME NEW i \in DOMAIN rx', NEW j \in DOMAIN rx', i < j PROVE rx'[i] < rx'[j]
    <3>1. i \in DOMAIN rx /\ rx'[i] = rx[i]
      BY <2>2, <2>3
    <3>2. rx[i] \in 1 .. arrived
      BY <3>1 DEF LineInv, InOrder, ToSet
    <3>3. CASE j \in DOMAIN rx
      BY <2>2, <2>3, <3>1, <3>3 DEF LineInv, InOrder
    <3>4. CASE j = Len(rx) + 1
      BY <1>1, <2>2, <3>1, <3>2, <3>4
    <3> QED
      BY <2>2, <3>3, <3>4
  <2>4. InOrder'
    BY <1>1, <1>2, <2>1, <2>3 DEF LineInv, InOrder
  <2>5. Accounted'
    BY <1>1, <1>2, <1>5, <2>1 DEF LineInv, Accounted
  <2>6. rStep = "io" => Head(rx') = Head(rx)
    <3>1. rx # <<>> => 1 \in 1 .. Len(rx) /\ Head(rx) = rx[1] /\ Head(rx') = rx'[1]
      BY <1>1, <1>5, <2>2, EmptySeq, HeadTailProperties, AppendProperties
    <3> QED
      BY <1>4, <2>2, <3>1
  <2>7. LossShows'
    BY <1>1, <1>5, <2>6 DEF LineInv, LossShows
  <2> QED
    BY <1>3, <2>4, <2>5, <2>7 DEF LineInv
<1>6. CASE overrun' = TRUE /\ lost' = lost \cup {arrived + 1} /\ UNCHANGED rx
  <2>1. InOrder' /\ Accounted'
    BY <1>1, <1>2, <1>6 DEF LineInv, InOrder, Accounted, ToSet
  <2>2. LossShows'
    BY <1>1, <1>4, <1>6 DEF LineInv, LossShows
  <2> QED
    BY <1>3, <2>1, <2>2 DEF LineInv
<1> QED
  BY <1>5, <1>6 DEF Arrive

\* A byte is taken.
LEMMA TakeKeepsLine == CallInv /\ LineInv /\ ReadIo => LineInv' /\ Told
<1> SUFFICES ASSUME CallInv, LineInv, ReadIo PROVE LineInv' /\ Told
  OBVIOUS
<1> DEFINE bytes == Append(rBuf, Head(rx))
<1>1. /\ rStep = "io" /\ rx \in Seq(Bytes) /\ rBuf \in Seq(Bytes) /\ rx # <<>>
      /\ Head(rx) \in Bytes /\ rx' = Tail(rx)
  BY HeadFollows DEF ReadIo, Reading, CallInv, TypeOK, ReaderTypeOK
<1>2. bytes \in Seq(Bytes) /\ Follow(bytes) /\ Advance(bytes) /\ UNCHANGED <<arrived, overrun>>
  BY <1>1, AppendedFollows, AppendProperties DEF ReadIo
<1>3. /\ ToSet(rx) = ToSet(rx') \cup {Head(rx)}
      /\ ToSet(bytes) = ToSet(rBuf) \cup {Head(rx)}
  BY <1>1, SetOfTail, SetOfAppend
<1>4. InOrder'
  <2>1. /\ DOMAIN rx = 1 .. Len(rx) /\ DOMAIN rx' = 1 .. Len(rx) - 1 /\ Len(rx) \in Nat \ {0}
        /\ \A i \in 1 .. Len(rx) - 1 : rx'[i] = rx[i + 1]
    BY <1>1, HeadTailProperties, LenProperties, EmptySeq
  <2>2. ASSUME NEW i \in DOMAIN rx', NEW j \in DOMAIN rx', i < j PROVE rx'[i] < rx'[j]
    <3>1. i + 1 \in DOMAIN rx /\ j + 1 \in DOMAIN rx /\ i + 1 < j + 1
      BY <2>1, <2>2
    <3>2. rx[i + 1] < rx[j + 1]
      BY <3>1 DEF LineInv, InOrder
    <3> QED
      BY <2>1, <3>2
  <2> QED
    BY <1>2, <1>3, <2>2 DEF LineInv, InOrder
<1> HIDE DEF bytes
<1> QED
  BY <1>2, <1>3, <1>4, AdvanceKeepsLine

\* The status is read: a loss is told of, or there was none.
LEMMA StatusKeepsLine == CallInv /\ LineInv /\ ReadStatus => LineInv' /\ Told
<1> SUFFICES ASSUME CallInv, LineInv, ReadStatus PROVE LineInv' /\ Told
  OBVIOUS
<1>1. /\ rBuf \in Seq(Bytes) /\ given \in Seq(Bytes) /\ overrun \in BOOLEAN
      /\ overrun' = FALSE /\ UNCHANGED rLine /\ rStep = "status"
      /\ Len(rBuf) + rPassed < Length
  BY DEF ReadStatus, Reading, CallInv, TypeOK, ReaderTypeOK, ReadCallInv
<1>2. CASE ReturnOverrun
  <2>1. LineInv'
    BY <1>1, <1>2, EndKeepsLine DEF ReturnOverrun
  <2> QED
    BY <1>1, <1>2, <2>1, NothingIsTold DEF ReturnOverrun
<1>3. CASE ~ overrun /\ rx # <<>> /\ rStep' = "io" /\ UNCHANGED <<rCall, rBuf, rHistory>>
  BY <1>1, <1>3, LineUntouched DEF rLine
<1>4. CASE ~ overrun /\ NothingToRead
  <2>0. lost = reported
    BY <1>4 DEF LineInv, LossShows
  <2>1. CASE ReturnOk(rBuf)
    <3>1. ToSet(given') = ToSet(given) \cup ToSet(rBuf)
      BY <1>1, <2>1, SetOfConcat DEF ReturnOk
    <3>2. LineInv'
      BY <1>1, <2>0, <2>1, <3>1, EndKeepsLine DEF ReturnOk
    <3>3. Told
      BY <1>1, <2>1, FollowingIsTold DEF ReturnOk, LineInv
    <3> QED
      BY <3>2, <3>3
  <2>2. CASE rKind = "nbRead" /\ ReturnOk(<<>>)
    <3>1. rBuf = <<>> /\ ToSet(rBuf) = {}
      <4>1. Len(rBuf) = 0
        <5>1. Length = 1 /\ Len(rBuf) \in Nat /\ rPassed \in Nat
          BY <1>1, <2>2, LenProperties DEF Length, CallInv, TypeOK, ReaderTypeOK
        <5> QED
          BY <1>1, <5>1
      <4>2. rBuf = <<>>
        BY <1>1, <4>1, EmptySeq
      <4> QED
        BY <4>2, SetOfEmpty
    <3>2. given' = given
      BY <1>1, <2>2, ConcatEmptySeq DEF ReturnOk
    <3>3. LineInv'
      BY <1>1, <2>0, <2>2, <3>1, <3>2, EndKeepsLine DEF ReturnOk
    <3> QED
      BY <1>1, <3>2, <3>3, NothingIsTold
  <2>3. CASE UNCHANGED <<rBuf, rHistory>> /\ rStep' # "io"
    BY <1>1, <1>4, <2>3, LineUntouched DEF rLine
  <2> QED
    BY <1>1, <1>4, <2>1, <2>2, <2>3 DEF NothingToRead
<1> QED
  BY <1>2, <1>3, <1>4 DEF ReadStatus

\* Every step keeps the bytes accounted for and tells of what it must.
LEMMA LineInvIsInductive == CallInv /\ LineInv /\ [Next]_vars => LineInv' /\ Told
<1> SUFFICES ASSUME CallInv, LineInv, [Next]_vars PROVE LineInv' /\ Told
  OBVIOUS
<1>0. rBuf \in Seq(Bytes) /\ given \in Seq(Bytes)
  BY DEF CallInv, TypeOK, ReaderTypeOK
<1>1. CASE Resume
  <2>1. ToSet(rBuf) \cup ToSet(rx) \subseteq ToSet(rBuf) \cup ToSet(rx') /\ InOrder'
    BY <1>1 DEF Resume, rLine, LineInv, InOrder, ToSet
  <2> QED
    BY <1>0, <1>1, <2>1, AdvanceKeepsLine DEF Resume, LineInv, rLine
<1>2. CASE CancelRead
  <2>1. LineInv'
    BY <1>2, EndKeepsLine DEF CancelRead, LineInv, LossShows
  <2> QED
    BY <1>0, <1>2, <2>1, NothingIsTold DEF CancelRead
<1>3. ASSUME NEW k \in ReadKinds, StartRead(k) PROVE LineInv' /\ Told
  BY <1>3, LineUntouched DEF StartRead, CallInv, ReadCallInv, rLine
<1>4. CASE RegisterRead
  BY <1>4, LineUntouched DEF RegisterRead, rLine
<1>5. CASE UNCHANGED readerVars
  BY <1>5, LineUntouched DEF readerVars, rHistory
<1>6. ASSUME NEW t \in Tasks, PollTask(t) PROVE LineInv' /\ Told
  BY <1>6, LineUntouched DEF PollTask, rLine
<1> QED
  BY <1>1, <1>2, <1>3, <1>4, <1>5, <1>6, ArriveKeepsLine, StatusKeepsLine, TakeKeepsLine
  DEF Next, ThreadStep, ReaderStep, Read, Write, Dispatch, WakeOther, Yield, vars

\* At first no byte has arrived.
LEMMA InitIsInOrder == Init => LineInv
<1> SUFFICES ASSUME Init PROVE LineInv
  OBVIOUS
<1>1. rx = <<>> /\ rBuf = <<>> /\ arrived = 0 /\ lost = {} /\ reported = {} /\ rStep = "none"
  BY DEF Init, ReaderInit
<1>2. InOrder /\ Accounted /\ LossShows
  BY <1>1, SetOfEmpty DEF InOrder, Accounted, LossShows
<1>3. Follow(rBuf)
  BY <1>1 DEF Follow
<1> QED
  BY <1>2, <1>3 DEF LineInv

\* reader.rs:103-118, 200-225: a byte is returned only after every earlier one
\* was returned, an Overrun told of its loss, or the caller dropped it with the
\* read_exact that held it: through every method, overrun and drop.
THEOREM NothingIsLostSilently == Spec => LossIsReported
<1>1. Told =>
        [\A i \in Len(given) + 1 .. Len(given') :
           \A b \in 1 .. given'[i] - 1 :
             b \in {given'[j] : j \in 1 .. i - 1} \cup reported]_readerVars
  BY DEF Told
<1> QED
  BY <1>1, InitIsInOrder, CallInvAlways, LineInvIsInductive, PTL DEF Spec, LossIsReported

-----------------------------------------------------------------------------
(* The reader implements ByteLine.                                         *)

\* The overrun bit is set exactly while the callers do not know of a loss,
\* and such a loss is newer than the bytes a call has copied.
TellInv ==
  /\ overrun <=> lost # reported
  /\ ToSet(rBuf) \cup lost \subseteq 1 .. arrived
  /\ \A b \in lost \ reported, c \in ToSet(rBuf) : c < b

ReaderInv == CallInv /\ LineInv /\ TellInv

\* The steps that are none of the line: its bytes stay, wherever they are.
LEMMA LineStutters ==
  ASSUME UNCHANGED <<arrived, given, lost, reported>>, rBuf' \o rx' = rBuf \o rx
  PROVE  UNCHANGED BL!vars
BY DEF BL!vars

LEMMA ReaderTypes ==
  ASSUME ReaderInv
  PROVE  /\ rBuf \in Seq(Bytes) /\ rx \in Seq(Bytes) /\ given \in Seq(Bytes)
         /\ rBuf \o rx \in Seq(Bytes) /\ Len(rBuf \o rx) = Len(rBuf) + Len(rx)
         /\ Len(rBuf) \in Nat /\ Len(rx) \in Nat /\ reported \subseteq lost
BY ConcatProperties, LenProperties DEF ReaderInv, CallInv, TypeOK, ReaderTypeOK

\* The two parts of a sequence.
LEMMA Parts ==
  ASSUME NEW S, NEW s \in Seq(S), NEW t \in Seq(S)
  PROVE  /\ SubSeq(s \o t, 1, Len(s)) = s
         /\ SubSeq(s \o t, Len(s) + 1, Len(s \o t)) = t
         /\ {(s \o t)[i] : i \in 1 .. Len(s)} = ToSet(s)
         /\ s # <<>> => Len(s) \in 1 .. Len(s \o t) /\ (s \o t)[Len(s)] = s[Len(s)]
<1> DEFINE u == s \o t
<1>1. /\ u \in Seq(S) /\ Len(u) = Len(s) + Len(t)
      /\ \A i \in 1 .. Len(s) + Len(t) : u[i] = IF i <= Len(s) THEN s[i] ELSE t[i - Len(s)]
      /\ Len(s) \in Nat /\ Len(t) \in Nat /\ DOMAIN s = 1 .. Len(s)
      /\ \A i \in 1 .. Len(u) : u[i] \in S
  BY ConcatProperties, LenProperties, ElementOfSeq
<1> HIDE DEF u
<1>2. SubSeq(u, 1, Len(s)) = s
  <2>1. /\ SubSeq(u, 1, Len(s)) \in Seq(S) /\ Len(SubSeq(u, 1, Len(s))) = Len(s)
        /\ \A i \in 1 .. Len(s) : SubSeq(u, 1, Len(s))[i] = u[i]
    <3>1. 1 \in Int /\ Len(s) \in Int /\ \A i \in 1 .. Len(s) : u[i] \in S
      BY <1>1
    <3> QED
      BY <1>1, <3>1, SubSeqProperties
  <2>2. \A i \in 1 .. Len(s) : u[i] = s[i]
    BY <1>1
  <2> QED
    BY <2>1, <2>2, SeqEqual
<1>3. SubSeq(u, Len(s) + 1, Len(u)) = t
  <2>1. /\ SubSeq(u, Len(s) + 1, Len(u)) \in Seq(S)
        /\ Len(SubSeq(u, Len(s) + 1, Len(u))) = Len(t)
        /\ \A i \in 1 .. Len(t) : SubSeq(u, Len(s) + 1, Len(u))[i] = u[Len(s) + i]
    <3>1. /\ Len(s) + 1 \in Int /\ Len(u) \in Int
          /\ \A i \in Len(s) + 1 .. Len(u) : u[i] \in S
      BY <1>1
    <3> QED
      BY <1>1, <3>1, SubSeqProperties
  <2>2. \A i \in 1 .. Len(t) : u[Len(s) + i] = t[i]
    BY <1>1
  <2> QED
    BY <2>1, <2>2, SeqEqual
<1>4. {u[i] : i \in 1 .. Len(s)} = ToSet(s)
  <2>1. \A i \in 1 .. Len(s) : u[i] = s[i]
    BY <1>1
  <2> QED
    BY <1>1, <2>1 DEF ToSet
<1>5. s # <<>> => Len(s) \in 1 .. Len(u) /\ u[Len(s)] = s[Len(s)]
  BY <1>1, EmptySeq
<1> QED
  BY <1>2, <1>3, <1>4, <1>5 DEF u

\* A call returns the bytes that come first.
LEMMA ReturnIsOfLine ==
  ASSUME ReaderInv, NEW bytes \in Seq(Bytes), ReturnOk(bytes), rx' \in Seq(Bytes),
         bytes \o rx' = rBuf \o rx, arrived' = arrived, overrun' <=> overrun,
         \A b \in lost \ reported, c \in ToSet(bytes) : c < b
  PROVE  TellInv' /\ [BL!Next]_(BL!vars)
<1>1. /\ rBuf' = <<>> /\ rBuf' \o rx' = rx' /\ ToSet(rBuf') = {}
      /\ given' = given \o bytes /\ UNCHANGED <<lost, reported>>
  BY SetOfEmpty, ConcatEmptySeq DEF ReturnOk, EndRead
<1>2. TellInv'
  BY <1>1 DEF ReaderInv, TellInv
<1>3. CASE bytes = <<>>
  <2>1. given' = given /\ rBuf' \o rx' = rBuf \o rx
    BY <1>1, <1>3, ReaderTypes, ConcatEmptySeq
  <2> QED
    BY <1>1, <1>2, <2>1, LineStutters
<1>4. CASE bytes # <<>>
  <2> DEFINE n == Len(bytes)
  <2>1. /\ n \in 1 .. Len(rBuf \o rx) /\ (rBuf \o rx)[n] = bytes[n]
        /\ SubSeq(rBuf \o rx, 1, n) = bytes
        /\ SubSeq(rBuf \o rx, n + 1, Len(rBuf \o rx)) = rx'
    <3>1. /\ n \in 1 .. Len(bytes \o rx') /\ (bytes \o rx')[n] = bytes[n]
          /\ SubSeq(bytes \o rx', 1, n) = bytes
          /\ SubSeq(bytes \o rx', n + 1, Len(bytes \o rx')) = rx'
      <4>1. \A s, t \in Seq(Bytes) : s # <<>> =>
              /\ Len(s) \in 1 .. Len(s \o t) /\ (s \o t)[Len(s)] = s[Len(s)]
              /\ SubSeq(s \o t, 1, Len(s)) = s
              /\ SubSeq(s \o t, Len(s) + 1, Len(s \o t)) = t
        BY Parts
      <4> QED
        BY <1>4, <4>1
    <3> QED
      BY <3>1
  <2>2. bytes[n] \in ToSet(bytes)
    BY <1>4, EmptySeq, LenProperties DEF ToSet
  <2>3. BL!Return(n)
    BY <1>1, <2>1, <2>2 DEF BL!Return, BL!Leave
  <2>4. BL!Next
    BY <2>1, <2>3 DEF BL!Next
  <2> QED
    BY <1>2, <2>4
<1> QED
  BY <1>3, <1>4

\* A call returns, or has only copied a byte.
LEMMA AdvanceIsOfLine ==
  ASSUME ReaderInv, NEW bytes \in Seq(Bytes), Advance(bytes), rx' \in Seq(Bytes),
         bytes \o rx' = rBuf \o rx, UNCHANGED <<arrived, overrun>>,
         ToSet(bytes) \subseteq 1 .. arrived,
         \A b \in lost \ reported, c \in ToSet(bytes) : c < b
  PROVE  TellInv' /\ [BL!Next]_(BL!vars)
<1>1. CASE ReturnOk(bytes)
  BY <1>1, ReturnIsOfLine
<1>2. CASE rBuf' = bytes /\ UNCHANGED <<rCall, rHistory>>
  BY <1>2, LineStutters DEF rHistory, ReaderInv, TellInv
<1> QED
  BY <1>1, <1>2 DEF Advance

\* A call that ends without its bytes: they are the first of the line.
LEMMA EndGivesUp ==
  ASSUME ReaderInv, EndRead, UNCHANGED rx
  PROVE  /\ BL!First(Len(rBuf)) = ToSet(rBuf) /\ BL!Leave(Len(rBuf))
         /\ Len(rBuf) \in 0 .. Len(rBuf \o rx) /\ ToSet(rBuf') = {}
         /\ rBuf # <<>> => Len(rBuf) \in 1 .. Len(rBuf \o rx)
<1>1. rBuf' \o rx' = rx /\ rBuf' = <<>>
  BY ReaderTypes, ConcatEmptySeq DEF EndRead
<1>2. /\ SubSeq(rBuf \o rx, Len(rBuf) + 1, Len(rBuf \o rx)) = rx
      /\ {(rBuf \o rx)[i] : i \in 1 .. Len(rBuf)} = ToSet(rBuf)
      /\ rBuf # <<>> => Len(rBuf) \in 1 .. Len(rBuf \o rx)
  BY ReaderTypes, Parts
<1>3. ToSet(rBuf') = {}
  BY <1>1, SetOfEmpty
<1>4. Len(rBuf) \in 0 .. Len(rBuf \o rx)
  BY ReaderTypes
<1> QED
  BY <1>1, <1>2, <1>3, <1>4 DEF BL!First, BL!Leave

\* A byte arrives behind the others; one is lost only when the FIFO is full.
LEMMA ArriveIsOfLine == ReaderInv /\ Arrive => TellInv' /\ BL!Next
<1> SUFFICES ASSUME ReaderInv, Arrive PROVE TellInv' /\ BL!Next
  OBVIOUS
<1>1. /\ arrived < MaxBytes /\ arrived' = arrived + 1 /\ arrived \in Nat /\ arrived + 1 \in Bytes
      /\ UNCHANGED <<rBuf, given, reported>>
  BY UartAssumption DEF Arrive, Bytes, ReaderInv, CallInv, TypeOK, ReaderTypeOK
<1>2. CASE rx' = Append(rx, arrived + 1) /\ UNCHANGED <<overrun, lost>>
  <2>1. rBuf' \o rx' = Append(rBuf \o rx, arrived + 1)
    <3>1. <<arrived + 1>> \in Seq(Bytes) /\ rx' = rx \o <<arrived + 1>>
      BY <1>1, <1>2, ReaderTypes, AppendIsConcat
    <3>2. rBuf \o (rx \o <<arrived + 1>>) = (rBuf \o rx) \o <<arrived + 1>>
      BY <3>1, ReaderTypes, ConcatAssociative
    <3> QED
      BY <1>1, <3>1, <3>2, ReaderTypes, AppendIsConcat
  <2>2. BL!Accept
    BY <1>1, <1>2, <2>1 DEF BL!Accept
  <2>3. TellInv'
    BY <1>1, <1>2 DEF ReaderInv, TellInv
  <2> QED
    BY <2>2, <2>3 DEF BL!Next
<1>3. CASE /\ Len(rx) = Fifo /\ overrun' = TRUE /\ lost' = lost \cup {arrived + 1}
           /\ UNCHANGED rx
  <2>1. Len(rBuf \o rx) >= Fifo
    BY <1>3, ReaderTypes
  <2>2. BL!Lose
    BY <1>1, <1>3, <2>1 DEF BL!Lose
  <2>3. arrived + 1 \notin reported
    BY <1>1, ReaderTypes DEF ReaderInv, TellInv
  <2>4. TellInv'
    BY <1>1, <1>3, <2>3 DEF ReaderInv, TellInv
  <2> QED
    BY <2>2, <2>4 DEF BL!Next
<1> QED
  BY <1>2, <1>3 DEF Arrive

\* The byte at the head of the FIFO is the next one of the line.
LEMMA TakeIsOfLine == ReaderInv /\ ReadIo => TellInv' /\ [BL!Next]_(BL!vars)
<1> SUFFICES ASSUME ReaderInv, ReadIo PROVE TellInv' /\ [BL!Next]_(BL!vars)
  OBVIOUS
<1> DEFINE bytes == Append(rBuf, Head(rx))
<1>1. /\ rStep = "io" /\ rx # <<>> /\ Head(rx) \in Bytes /\ rx' = Tail(rx)
      /\ Head(rx) \in ToSet(rx) /\ Advance(bytes) /\ UNCHANGED <<arrived, overrun>>
  BY HeadFollows DEF ReadIo, Reading, ReaderInv
<1>2. bytes \in Seq(Bytes) /\ rx' \in Seq(Bytes) /\ ToSet(bytes) = ToSet(rBuf) \cup {Head(rx)}
  BY <1>1, ReaderTypes, AppendProperties, HeadTailProperties, SetOfAppend
<1>3. bytes \o rx' = rBuf \o rx
  <2>1. <<Head(rx)>> \in Seq(Bytes) /\ bytes = rBuf \o <<Head(rx)>>
    BY <1>1, ReaderTypes, AppendIsConcat
  <2>2. <<Head(rx)>> \o rx' = rx
    <3>1. /\ rx' \in Seq(Bytes) /\ Len(rx') = Len(rx) - 1 /\ Head(rx) = rx[1]
          /\ \A i \in 1 .. Len(rx') : rx'[i] = rx[i + 1]
      BY <1>1, ReaderTypes, HeadTailProperties
    <3>2. <<Head(rx)>> \in Seq(Bytes) /\ Len(<<Head(rx)>>) = 1 /\ <<Head(rx)>>[1] = Head(rx)
      BY <1>1
    <3> DEFINE u == <<Head(rx)>> \o rx'
    <3>3. /\ u \in Seq(Bytes) /\ Len(u) = Len(rx)
          /\ \A i \in 1 .. Len(rx) : u[i] = IF i <= 1 THEN Head(rx) ELSE rx'[i - 1]
      BY <3>1, <3>2, ReaderTypes, ConcatProperties
    <3> HIDE DEF u
    <3>4. \A i \in 1 .. Len(u) : u[i] = rx[i]
      BY <3>1, <3>3, ReaderTypes
    <3>5. u = rx
      BY <3>3, <3>4, ReaderTypes, SeqEqual
    <3> QED
      BY <3>5 DEF u
  <2>3. (rBuf \o <<Head(rx)>>) \o rx' = rBuf \o (<<Head(rx)>> \o rx')
    BY <1>2, <2>1, ReaderTypes, ConcatAssociative
  <2> QED
    BY <2>1, <2>2, <2>3
<1>4. /\ ToSet(bytes) \subseteq 1 .. arrived
      /\ \A b \in lost \ reported, c \in ToSet(bytes) : c < b
  BY <1>1, <1>2 DEF ReaderInv, TellInv, LineInv, InOrder, LossShows
<1> HIDE DEF bytes
<1> QED
  BY <1>1, <1>2, <1>3, <1>4, AdvanceIsOfLine

\* The status is read: a loss is told of, or there was none.
LEMMA StatusIsOfLine == ReaderInv /\ ReadStatus => TellInv' /\ [BL!Next]_(BL!vars)
<1> SUFFICES ASSUME ReaderInv, ReadStatus PROVE TellInv' /\ [BL!Next]_(BL!vars)
  OBVIOUS
<1>1. /\ overrun' = FALSE /\ UNCHANGED <<rx, arrived>> /\ rStep = "status"
      /\ overrun <=> lost # reported
  BY DEF ReadStatus, Reading, rLine, ReaderInv, TellInv
<1>2. CASE overrun /\ ReturnOverrun
  <2>1. /\ EndRead /\ lost' = lost \cup ToSet(rBuf) /\ reported' = lost' /\ given' = given
    BY <1>2 DEF ReturnOverrun
  <2>2. BL!Report(Len(rBuf)) /\ Len(rBuf) \in 0 .. Len(rBuf \o rx) /\ ToSet(rBuf') = {}
    BY <1>1, <1>2, <2>1, EndGivesUp DEF BL!Report
  <2>3. TellInv'
    BY <1>1, <2>1, <2>2 DEF ReaderInv, TellInv
  <2>4. BL!Next
    BY <2>2 DEF BL!Next
  <2> QED
    BY <2>3, <2>4
<1>3. CASE ~ overrun /\ UNCHANGED <<rBuf, rHistory>>
  BY <1>1, <1>3, LineStutters DEF rHistory, ReaderInv, TellInv
<1>4. CASE ~ overrun /\ ReturnOk(rBuf)
  BY <1>1, <1>4, ReturnIsOfLine, ReaderTypes DEF ReaderInv, TellInv
<1>5. CASE ~ overrun /\ rKind = "nbRead" /\ ReturnOk(<<>>)
  <2>1. Len(rBuf) + rPassed < Length /\ Length = 1 /\ rPassed \in Nat
    BY <1>1, <1>5 DEF Length, ReaderInv, CallInv, TypeOK, ReaderTypeOK, ReadCallInv
  <2>2. Len(rBuf) = 0
    BY <2>1, ReaderTypes
  <2>3. rBuf = <<>>
    BY <2>2, ReaderTypes, EmptySeq
  <2> QED
    BY <1>1, <1>5, <2>3, ReturnIsOfLine, ReaderTypes DEF ReaderInv, TellInv
<1> QED
  BY <1>1, <1>2, <1>3, <1>4, <1>5 DEF ReadStatus, NothingToRead, rHistory

\* A future is dropped with the bytes it has copied.
LEMMA CancelIsOfLine == ReaderInv /\ CancelRead => TellInv' /\ [BL!Next]_(BL!vars)
<1> SUFFICES ASSUME ReaderInv, CancelRead PROVE TellInv' /\ [BL!Next]_(BL!vars)
  OBVIOUS
<1>1. /\ EndRead /\ lost' = lost \cup ToSet(rBuf) /\ reported' = reported \cup ToSet(rBuf)
      /\ UNCHANGED <<rx, arrived, overrun, given>>
  BY DEF CancelRead, rLine
<1>2. ToSet(rBuf') = {}
  BY <1>1, EndGivesUp
<1>3. lost \ reported = lost' \ reported'
  <2>1. ASSUME NEW b \in lost \ reported PROVE b \notin ToSet(rBuf)
    <3>1. b \in ToSet(rBuf) => b < b /\ b \in Int
      BY DEF ReaderInv, TellInv
    <3> QED
      BY <3>1
  <2> QED
    BY <1>1, <2>1
<1>4. TellInv'
  <2>1. lost' # reported' <=> lost # reported
    BY <1>1, <1>3, ReaderTypes
  <2> QED
    BY <1>1, <1>2, <2>1 DEF ReaderInv, TellInv
<1>5. CASE rBuf = <<>>
  <2>1. lost' = lost /\ reported' = reported /\ rBuf' = rBuf
    BY <1>1, <1>5, SetOfEmpty DEF EndRead
  <2> QED
    BY <1>1, <1>4, <2>1, LineStutters
<1>6. CASE rBuf # <<>>
  <2>1. BL!Drop(Len(rBuf)) /\ Len(rBuf) \in 1 .. Len(rBuf \o rx)
    BY <1>1, <1>6, EndGivesUp DEF BL!Drop
  <2>2. BL!Next
    BY <2>1 DEF BL!Next
  <2> QED
    BY <1>4, <2>2
<1> QED
  BY <1>5, <1>6

\* Every step of the UART is a step of the line or none of it.
LEMMA StepIsOfLine == ReaderInv /\ [Next]_vars => ReaderInv' /\ [BL!Next]_(BL!vars)
<1> SUFFICES ASSUME ReaderInv, [Next]_vars PROVE TellInv' /\ [BL!Next]_(BL!vars)
  BY CallInvIsInductive, LineInvIsInductive DEF ReaderInv
<1>1. CASE Resume
  <2>1. Advance(rBuf) /\ UNCHANGED <<rx, arrived, overrun>>
    BY <1>1 DEF Resume, rLine
  <2> QED
    BY <2>1, AdvanceIsOfLine, ReaderTypes DEF ReaderInv, TellInv
<1>2. ASSUME UNCHANGED <<rx, arrived, overrun, rBuf, rHistory>>
      PROVE  TellInv' /\ [BL!Next]_(BL!vars)
  BY <1>2, LineStutters DEF rHistory, ReaderInv, TellInv
<1>3. ASSUME NEW k \in ReadKinds, StartRead(k) PROVE TellInv' /\ [BL!Next]_(BL!vars)
  BY <1>2, <1>3 DEF StartRead, rLine, ReaderInv, CallInv, ReadCallInv
<1>4. CASE RegisterRead
  BY <1>2, <1>4 DEF RegisterRead, rLine
<1>5. CASE UNCHANGED readerVars
  BY <1>2, <1>5 DEF readerVars, rHistory
<1>6. ASSUME NEW t \in Tasks, PollTask(t) PROVE TellInv' /\ [BL!Next]_(BL!vars)
  BY <1>2, <1>6 DEF PollTask, rLine
<1> QED
  BY <1>1, <1>3, <1>4, <1>5, <1>6, ArriveIsOfLine, TakeIsOfLine, StatusIsOfLine, CancelIsOfLine
  DEF Next, ThreadStep, ReaderStep, Read, Write, Dispatch, WakeOther, Yield, vars

\* reader.rs:82-283: the reader implements ByteLine: bytes are returned once
\* and in order, and a loss, which needs a full FIFO, is told of before a later
\* byte is returned.
THEOREM ReaderIsLine == Spec => ImplementsByteLine
<1>1. Init => TellInv /\ BL!Init
  <2> SUFFICES ASSUME Init PROVE TellInv /\ BL!Init
    OBVIOUS
  <2>1. /\ rx = <<>> /\ rBuf = <<>> /\ arrived = 0 /\ given = <<>> /\ lost = {}
        /\ reported = {} /\ overrun = FALSE
    BY DEF Init, ReaderInit
  <2>2. rBuf \o rx = <<>> /\ ToSet(rBuf) = {}
    BY <2>1, EmptySeq, ConcatEmptySeq, SetOfEmpty
  <2> QED
    BY <2>1, <2>2 DEF TellInv, BL!Init
<1> QED
  BY <1>1, InitIsInOrder, CallInvAlways, StepIsOfLine, PTL
  DEF Spec, ImplementsByteLine, BL!Spec, ReaderInv

-----------------------------------------------------------------------------
(* The configuration of the Mini UART.                                     *)

\* uart.rs:93, 100: every rate that BaudRate::new accepts, except the lowest,
\* gives a register value that is not negative (the subtraction does not wrap)
\* and fits the 16 bits of BAUDRATE_REG.
THEOREM RatesFit ==
  \A rate \in BaudRates :
    rate # LowestRate => RegisterValue(rate) \in 0 .. BaudRegisterSize - 1
<1> SUFFICES ASSUME NEW rate \in BaudRates, rate # LowestRate
             PROVE  RegisterValue(rate) \in 0 .. BaudRegisterSize - 1
  OBVIOUS
<1>1. rate \in Int /\ 477 <= rate /\ rate <= 31250000
  <2>1. LowestRate \in Int /\ HighestRate \in Int
    BY SMT DEF LowestRate, HighestRate
  <2>2. rate \in Int /\ LowestRate <= rate /\ rate <= HighestRate
    BY <2>1, SMT DEF BaudRates
  <2> QED
    BY <2>2, SMT DEF LowestRate, HighestRate
<1> DEFINE d == 8 * rate
           q == ClockSpeed \div d
<1>2. d \in Int /\ 3816 <= d /\ d <= 250000000
  BY <1>1, SMT
<1>3. q \in Int /\ d * q <= 250000000 /\ 250000000 < d * (q + 1)
  BY <1>2, SMT DEF ClockSpeed
<1>4. RegisterValue(rate) = q - 1
  BY SMT DEF RegisterValue
<1> HIDE DEF d, q
<1>5. q >= 1
  BY <1>2, <1>3, SMT
<1>6. q <= 65536
  <2>1. SUFFICES ASSUME q >= 65537 PROVE FALSE
    BY <1>3, SMT
  <2>2. d * q >= 250089192
    BY <1>2, <1>3, <2>1, SMT
  <2> QED
    BY <1>2, <1>3, <2>2, SMT
<1>7. BaudRegisterSize \in Int /\ RegisterValue(rate) \in Int
        /\ 0 <= RegisterValue(rate) /\ RegisterValue(rate) <= BaudRegisterSize - 1
  BY <1>3, <1>4, <1>5, <1>6, SMT DEF BaudRegisterSize
<1> QED
  BY <1>7, SMT

\* uart.rs:93, 100: the lowest rate is accepted, its register value is 65650,
\* and the device that keeps 16 bits of it runs at another rate.
THEOREM LowestRateDoesNotFit ==
  /\ LowestRate \in BaudRates
  /\ RegisterValue(LowestRate) >= BaudRegisterSize
  /\ Effective(RegisterValue(LowestRate)) > 100 * LowestRate
<1>1. RegisterValue(LowestRate) = 65650
  BY SMT DEF RegisterValue, ClockSpeed, LowestRate
<1>2. Effective(65650) = 271739
  BY SMT DEF Effective, ClockSpeed, BaudRegisterSize
<1>3. LowestRate \in BaudRates
  <2>1. LowestRate \in Int /\ HighestRate \in Int /\ LowestRate <= HighestRate
    BY SMT DEF LowestRate, HighestRate
  <2> QED
    BY <2>1, SMT DEF BaudRates
<1>4. RegisterValue(LowestRate) >= BaudRegisterSize
  BY <1>1, SMT DEF BaudRegisterSize
<1>5. Effective(RegisterValue(LowestRate)) > 100 * LowestRate
  BY <1>1, <1>2, SMT DEF LowestRate
<1> QED
  BY <1>3, <1>4, <1>5, SMT

=============================================================================
