----------------------------- MODULE UartReader -----------------------------
(***************************************************************************)
(* src/aux/uart/reader.rs: a `Reader` taking bytes from the receive FIFO.  *)
(* The bytes of the line are numbered 1, 2, ... as they arrive.  A poll    *)
(* is a series of register reads between which bytes arrive and handlers   *)
(* run; the future may be dropped whenever its task runs.                  *)
(***************************************************************************)
EXTENDS WakerCells, SequencesExt

CONSTANTS
  ReadKinds,  \* the methods the tasks call
  BufLen      \* the length of the buffers they pass

ASSUME ReaderAssumption ==
  /\ ReadKinds \subseteq {"read", "exact", "blockingRead", "blockingExact", "nbRead"}
  /\ BufLen \in Nat \ {0}

VARIABLES
  rx,        \* the receive FIFO
  arrived,   \* the number of bytes that have arrived
  overrun,   \* the receiver overrun bit of LINE_STATUS
  rTask,     \* the task that reads
  rKind,     \* the method it called
  rStep,     \* where the call is
  rBuf,      \* the bytes it has copied to its buffer so far
  rPassed,   \* the slots of the buffer it has passed over without a byte
  given,     \* history: the bytes the calls returned, in order
  lost,      \* history: bytes no call will return
  reported   \* history: the bytes whose loss an Overrun, or a drop, told of

readerVars == <<rx, arrived, overrun, rTask, rKind, rStep, rBuf, rPassed,
                given, lost, reported>>
rCall == <<rTask, rKind, rPassed>>
rLine == <<rx, arrived>>
rHistory == <<given, lost, reported>>

Bytes == 1 .. MaxBytes
Length == IF rKind = "nbRead" THEN 1 ELSE BufLen

ReaderTypeOK ==
  /\ rx \in Seq(Bytes) /\ Len(rx) <= Fifo
  /\ arrived \in 0 .. MaxBytes
  /\ overrun \in BOOLEAN
  /\ rTask \in Tasks \cup {NoTask}
  /\ rKind \in ReadKinds \cup {"none"}
  /\ rStep \in {"none", "await", "resume", "status", "io", "register"}
  /\ rBuf \in Seq(Bytes) /\ rPassed \in Nat /\ Len(rBuf) + rPassed <= BufLen
  /\ given \in Seq(Bytes)
  /\ lost \subseteq Bytes
  /\ reported \subseteq lost

ReaderInit ==
  /\ rx = <<>>
  /\ arrived = 0
  /\ overrun = FALSE
  /\ rTask = NoTask
  /\ rKind = "none"
  /\ rStep = "none"
  /\ rBuf = <<>>
  /\ rPassed = 0
  /\ given = <<>>
  /\ lost = {}
  /\ reported = {}

\* The line: a byte that finds the FIFO full is discarded.
Arrive ==
  /\ arrived < MaxBytes
  /\ arrived' = arrived + 1
  /\ \/ Len(rx) < Fifo /\ rx' = Append(rx, arrived + 1) /\ UNCHANGED <<overrun, lost>>
     \/ Len(rx) = Fifo /\ overrun' = TRUE /\ lost' = lost \cup {arrived + 1} /\ UNCHANGED rx
  /\ UNCHANGED <<wakeVars, rCall, rStep, rBuf, given, reported>>

-----------------------------------------------------------------------------
(* A call in the running task.                                             *)

Reading(step) == current # NoTask /\ rTask = current /\ rStep = step

StartRead(k) ==
  /\ current # NoTask
  /\ rTask = NoTask
  /\ rTask' = current
  /\ rKind' = k
  /\ rStep' = "status"
  /\ rBuf' = <<>>
  /\ rPassed' = 0
  /\ UNCHANGED <<wakeVars, rLine, overrun, rHistory>>

\* The call is over.
EndRead ==
  /\ rTask' = NoTask
  /\ rKind' = "none"
  /\ rStep' = "none"
  /\ rBuf' = <<>>
  /\ rPassed' = 0

ReturnOk(bytes) ==
  /\ EndRead
  /\ given' = given \o bytes
  /\ UNCHANGED <<lost, reported>>

\* Bytes copied before the overrun was seen are not returned.
ReturnOverrun ==
  /\ EndRead
  /\ lost' = lost \cup ToSet(rBuf)
  /\ reported' = lost'
  /\ UNCHANGED given

\* `bytes` have been copied, the last one now; the buffer may be full with it.
\* A ReadFut starts its buffer over at each poll, a ReadExactFut goes on.
Advance(bytes) ==
  IF Len(bytes) + rPassed = Length
    THEN ReturnOk(bytes)
    ELSE /\ rStep' = "status"
         /\ rBuf' = bytes
         /\ UNCHANGED <<rCall, rHistory>>

\* Mutant: a resumed read_exact starts its buffer over.
ResumeAfresh ==
  /\ Reading("resume")
  /\ Advance(<<>>)
  /\ UNCHANGED <<wakeVars, rLine, overrun>>

Resume ==
  /\ Reading("resume")
  /\ Advance(rBuf)
  /\ UNCHANGED <<wakeVars, rLine, overrun>>

\* Mutant: an asynchronous read waits for the whole buffer.
NothingToReadYet ==
  \/ /\ rKind = "read"
     /\ rStep' = "register"
     /\ UNCHANGED <<rCall, rBuf, rHistory>>
  \/ /\ rKind \in {"blockingRead", "blockingExact"}
     /\ UNCHANGED <<rCall, rStep, rBuf, rHistory>>
  \/ /\ rKind = "nbRead"
     /\ ReturnOk(<<>>)

\* LINE_STATUS says there is nothing to read.  `for byte in iter.by_ref()`
\* has taken the slot of a ReadExactFut before the status was read.
NothingToRead ==
  \/ /\ rKind \in {"read", "blockingRead"}
     /\ rBuf # <<>>
     /\ ReturnOk(rBuf)
  \/ /\ rKind = "read"
     /\ rBuf = <<>>
     /\ rStep' = "register"
     /\ UNCHANGED <<rCall, rBuf, rHistory>>
  \/ /\ rKind = "exact"
     /\ rStep' = "register"
     /\ rPassed' = rPassed + 1
     /\ UNCHANGED <<rTask, rKind, rBuf, rHistory>>
  \/ /\ rKind = "blockingExact" \/ (rKind = "blockingRead" /\ rBuf = <<>>)
     /\ UNCHANGED <<rCall, rStep, rBuf, rHistory>>
  \/ /\ rKind = "nbRead"
     /\ ReturnOk(<<>>)

\* Mutant: the overrun bit is not looked at.
ReadStatusBlind ==
  /\ Reading("status")
  /\ overrun' = FALSE
  /\ \/ /\ rx # <<>>
        /\ rStep' = "io"
        /\ UNCHANGED <<rCall, rBuf, rHistory>>
     \/ /\ rx = <<>>
        /\ NothingToRead
  /\ UNCHANGED <<wakeVars, rLine>>

\* Reading LINE_STATUS clears the overrun bit.
ReadStatus ==
  /\ Reading("status")
  /\ overrun' = FALSE
  /\ \/ /\ overrun
        /\ ReturnOverrun
     \/ /\ ~ overrun /\ rx # <<>>
        /\ rStep' = "io"
        /\ UNCHANGED <<rCall, rBuf, rHistory>>
     \/ /\ ~ overrun /\ rx = <<>>
        /\ NothingToRead
  /\ UNCHANGED <<wakeVars, rLine>>

ReadIo ==
  /\ Reading("io")
  /\ rx' = Tail(rx)
  /\ Advance(Append(rBuf, Head(rx)))
  /\ UNCHANGED <<wakeVars, arrived, overrun>>

RegisterRead ==
  /\ Reading("register")
  /\ Register("rx")
  /\ rStep' = "await"
  /\ UNCHANGED <<rLine, overrun, rCall, rBuf, rHistory>>

\* The task runs again and drops the future; the waker and the enable bit
\* stay where they are.  What a ReadExactFut has copied is gone, as its
\* caller, who dropped it, can tell.
CancelRead ==
  /\ Reading("resume")
  /\ EndRead
  /\ lost' = lost \cup ToSet(rBuf)
  /\ reported' = reported \cup ToSet(rBuf)
  /\ UNCHANGED <<wakeVars, rLine, overrun, given>>

ReaderStep ==
  \/ Resume
  \/ ReadStatus
  \/ ReadIo
  \/ RegisterRead

\* The receive interrupt: a byte is there and IER asks for it.
RxPending == "rx" \in ier /\ rx # <<>>

-----------------------------------------------------------------------------
(* Properties.                                                             *)

\* reader.rs:213-221, 272-280: a reader that waits is woken by the next byte,
\* and by the one that came before it registered: unless it is to be polled
\* anyway, its waker is in the cell and its interrupt is enabled.
ReaderArmed ==
  rStep = "await" /\ rTask \notin owed => cell["rx"] = rTask /\ "rx" \in ier

\* reader.rs:103-118, 200-225: a byte is returned only after every earlier one
\* was returned, an Overrun told of its loss, or the caller dropped it with
\* the read_exact that held it.
LossIsReported ==
  [][\A i \in Len(given) + 1 .. Len(given') :
       \A b \in 1 .. given'[i] - 1 :
         b \in {given'[j] : j \in 1 .. i - 1} \cup reported]_readerVars

\* reader.rs:82-283: whatever methods are called, resumed and dropped, the
\* bytes are returned once and in order, none is lost while the FIFO has room,
\* a loss is told of before a later byte is returned, and only a loss is.
BL == INSTANCE ByteLine WITH pending <- rBuf \o rx, told <- reported
ImplementsByteLine == BL!Spec

\* reader.rs:168-169: `read_exact` may be used instead of `read`: what it
\* returns Ok for has been read.
ExactIsFilled == [][given' # given => rPassed = 0]_readerVars

\* reader.rs:166, 192-227: "This implementation is cancel-safe": dropping a
\* `read` that waits, at any moment, loses no byte.
CancelSafe ==
  [][rStep = "resume" /\ rTask' = NoTask /\ rKind = "read" => lost' = lost]_readerVars

=============================================================================
