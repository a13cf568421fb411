------------------------------- MODULE SpiBus -------------------------------
(***************************************************************************)
(* src/aux/spi.rs: the calls on an Spi1.  A poll is a series of register   *)
(* accesses between which the device goes on and the handler runs; a       *)
(* future may be polled although nothing has happened, and dropped         *)
(* whenever its task runs.  The caller holds the Spi1 by &mut: one call at *)
(* a time.                                                                 *)
(***************************************************************************)
EXTENDS SpiPort

CONSTANTS
  Kinds,    \* the methods the tasks call
  Lengths   \* the numbers of bytes they pass

AsyncKinds == {"write", "transfer", "flush"}
Transfers == {"transfer", "blockingTransfer"}
Writes == {"write", "blockingWrite"}
Flushes == {"flush", "blockingFlush"}

ASSUME BusAssumption ==
  /\ Kinds \subseteq Transfers \cup Writes \cup Flushes
  /\ Lengths \subseteq Nat
  /\ 0 \in Lengths

VARIABLES
  api,      \* the interface in use, "bus" or "word"; clear_fifos between them
  caller,   \* the task whose call is in progress
  kind,     \* the method
  len,      \* the length of the words the call is sending
  rest,     \* the bytes a `transfer` has to write afterwards
  step,     \* where the poll is, or begins when the future is polled again
  parked,   \* the future has returned Pending
  txIndex,  \* entries written
  got,      \* the answers copied to the chunks, in order; rx_index is its length
  control,  \* the value of CONTROL1 FlushFut has read
  cut       \* history: clear_fifos was called between APIs while busy

callVars == <<caller, kind, len, rest, step, parked, txIndex, got, control>>
vars == <<portVars, callVars, api, cut>>
callData == <<caller, kind, len, rest>>

\* words.chunks(3), and as_chunks_mut with the remainder, which may be empty.
Chunks(n) == (n + 2) \div 3
Entries(k, n) == IF k = "transfer" THEN n \div 3 + 1 ELSE Chunks(n)
Count == Entries(kind, len)
EmptyRemainder(i) == kind = "transfer" /\ i = Count - 1 /\ len % 3 = 0

TypeOK ==
  /\ owed \subseteq Tasks
  /\ current \in Tasks \cup {NoTask}
  /\ cell \in Tasks \cup {NoTask}
  /\ enabled \subseteq Interrupts
  /\ tx \in Seq(EntrySet) /\ Len(tx) <= Fifo
  /\ shift \in Seq(EntrySet) /\ Len(shift) <= 1
  /\ rx \in Seq(Indexes) /\ Len(rx) <= Fifo
  /\ overflow \in BOOLEAN
  /\ lost \subseteq Nat
  /\ api \in {"bus", "word"}
  /\ caller \in Tasks \cup {NoTask}
  /\ kind \in Kinds \cup Writes \cup {"none"}
  /\ len \in Lengths /\ rest \in Lengths
  /\ step \in {"none", "flush", "store", "load", "enable", "push", "take", "done", "empty"}
  /\ parked \in BOOLEAN
  /\ txIndex \in Nat
  /\ got \in Seq(Indexes)
  /\ control \subseteq Interrupts
  /\ cut \in BOOLEAN

NoCall ==
  /\ caller = NoTask
  /\ kind = "none"
  /\ len = 0 /\ rest = 0
  /\ step = "none"
  /\ parked = FALSE
  /\ txIndex = 0
  /\ got = <<>>
  /\ control = {}

Init ==
  /\ PortInit
  /\ NoCall
  /\ api \in {"bus", "word"}
  /\ cut = FALSE

-----------------------------------------------------------------------------
(* Calls.                                                                  *)

At(s) == caller # NoTask /\ current = caller /\ ~ parked /\ step = s

\* Mutant: the blocking transfer does not flush first.
FirstWithoutFlush(k) ==
  IF k \in {"blockingWrite", "blockingTransfer"} THEN "push" ELSE "flush"

\* All but the blocking write begin with a flush.
First(k) == IF k = "blockingWrite" THEN "push" ELSE "flush"

Start(k, n, r) ==
  /\ current # NoTask
  /\ caller = NoTask
  /\ api = "bus"
  /\ k \in Flushes => n = 0
  /\ k \notin Transfers => r = 0
  /\ caller' = current
  /\ kind' = k /\ len' = n /\ rest' = r
  /\ step' = First(k)
  /\ UNCHANGED <<portVars, parked, txIndex, got, control, api, cut>>

Over ==
  /\ caller' = NoTask
  /\ kind' = "none"
  /\ len' = 0 /\ rest' = 0
  /\ step' = "none"
  /\ parked' = FALSE
  /\ txIndex' = 0
  /\ got' = <<>>
  /\ control' = {}

End == Disown /\ Over

\* The call returns, or a `transfer` goes on with the write of the rest.
Return ==
  \/ rest = 0 /\ End
  \/ /\ rest > 0
     /\ Disown
     /\ kind' = IF kind = "transfer" THEN "write" ELSE "blockingWrite"
     /\ len' = rest /\ rest' = 0
     /\ step' = First(kind')
     /\ txIndex' = 0 /\ got' = <<>>
     /\ UNCHANGED <<caller, parked, control>>

Goto(s) == step' = s /\ UNCHANGED <<callData, parked, txIndex, got, control>>

\* The future returns Pending and will begin its next poll at s.
Park(s) == step' = s /\ parked' = TRUE /\ UNCHANGED <<callData, txIndex, got>>

-----------------------------------------------------------------------------
(* flush.                                                                  *)

\* clear_fifos; then the write or the transfer that was to follow, if any.
AfterFlush ==
  /\ Clear
  /\ \/ kind \in Flushes /\ Over
     \/ kind = "transfer" /\ Goto("take")
     \/ kind \in {"write", "blockingTransfer"} /\ Goto("push")

\* Mutant: the entry being shifted is overlooked.
TestBusyFifo ==
  /\ At("flush")
  /\ IF tx # <<>>
       THEN kind \in AsyncKinds /\ Goto("store") /\ UNCHANGED device
       ELSE AfterFlush
  /\ UNCHANGED <<taskVars, cell, enabled, api, cut>>

\* STATUS tells whether the device is busy; a blocking flush spins while it is.
TestBusy ==
  /\ At("flush")
  /\ IF Busy
       THEN kind \in AsyncKinds /\ Goto("store") /\ UNCHANGED device
       ELSE AfterFlush
  /\ UNCHANGED <<taskVars, cell, enabled, api, cut>>

\* FlushFut: only set_waker is in a critical section.
FlushStores ==
  /\ At("store")
  /\ StoreWaker
  /\ Goto("load")
  /\ UNCHANGED <<taskVars, enabled, device, api, cut>>

FlushLoads ==
  /\ At("load")
  /\ control' = enabled
  /\ step' = "enable"
  /\ UNCHANGED <<portVars, callData, parked, txIndex, got, api, cut>>

\* Mutant: what was read of CONTROL1 is written back as it was.
FlushEnablesNothing ==
  /\ At("enable")
  /\ enabled' = control
  /\ control' = {}
  /\ current' = NoTask
  /\ Park("flush")
  /\ UNCHANGED <<owed, cell, device, api, cut>>

\* Mutant: another bit of CONTROL1 is set.
FlushEnablesOther ==
  /\ At("enable")
  /\ enabled' = control \cup {"keep_input"}
  /\ control' = {}
  /\ current' = NoTask
  /\ Park("flush")
  /\ UNCHANGED <<owed, cell, device, api, cut>>

FlushEnables ==
  /\ At("enable")
  /\ enabled' = control \cup {"done"}
  /\ control' = {}
  /\ current' = NoTask
  /\ Park("flush")
  /\ UNCHANGED <<owed, cell, device, api, cut>>

-----------------------------------------------------------------------------
(* write and transfer.                                                     *)

WriteEntry(next) ==
  /\ Push(Entry(IF kind \in Transfers THEN txIndex ELSE Other, EmptyRemainder(txIndex)))
  /\ txIndex' = txIndex + 1
  /\ step' = next
  /\ UNCHANGED <<callData, parked, got, control>>

\* WriteFut and the blocking write: an entry whenever there is room for one.
\* Without room the future waits for an empty FIFO, the blocking write spins.
PushWrite ==
  /\ At("push")
  /\ kind \in Writes
  /\ \/ txIndex = Count /\ Return
     \/ txIndex < Count /\ Len(tx) < Fifo /\ WriteEntry("push")
     \/ txIndex < Count /\ Len(tx) = Fifo /\ kind = "write" /\ Goto("empty") /\ UNCHANGED device
  /\ UNCHANGED <<taskVars, cell, enabled, api, cut>>

\* The blocking transfer writes an entry without looking, then waits for its
\* answer.
PushBlocking ==
  /\ At("push")
  /\ kind = "blockingTransfer"
  /\ IF txIndex = Count THEN Return ELSE WriteEntry("take")
  /\ UNCHANGED <<taskVars, cell, enabled, api, cut>>

Store(next) ==
  /\ Take
  /\ got' = Append(got, Head(rx))
  /\ step' = next
  /\ UNCHANGED <<callData, parked, txIndex, control>>

TakeBlocking ==
  /\ At("take")
  /\ kind = "blockingTransfer"
  /\ Store("push")
  /\ UNCHANGED <<taskVars, cell, enabled, api, cut>>

\* TransferInPlaceFut first takes the answers that have come.
TakeAnswer ==
  /\ At("take")
  /\ kind = "transfer"
  /\ \/ rx # <<>> /\ Len(got) < Count /\ Store("take")
     \/ Len(got) = Count /\ Return
     \/ rx = <<>> /\ Len(got) < Count /\ UNCHANGED device
        /\ Goto(IF txIndex = Count THEN "done" ELSE "push")
  /\ UNCHANGED <<taskVars, cell, enabled, api, cut>>

\* Then it fills the transmit FIFO, whatever is in the receive FIFO meanwhile.
PushTransfer ==
  /\ At("push")
  /\ kind = "transfer"
  /\ IF Len(tx) < Fifo /\ txIndex < Count
       THEN WriteEntry("push")
       ELSE Goto("empty") /\ UNCHANGED device
  /\ UNCHANGED <<taskVars, cell, enabled, api, cut>>

\* The critical section at the end of a poll.
Wait(interrupt) ==
  /\ At(interrupt)
  /\ Register(interrupt)
  /\ Park(IF kind = "write" THEN "push" ELSE "take")
  /\ UNCHANGED <<control, api, cut>>

-----------------------------------------------------------------------------
(* The FullDuplex interfaces: a call is one access, or would block.        *)

NbWrite ==
  /\ current # NoTask
  /\ api = "word"
  /\ Len(tx) < Fifo
  /\ Push(Entry(Word, FALSE))
  /\ UNCHANGED <<taskVars, cell, enabled, callVars, api, cut>>

NbRead ==
  /\ current # NoTask
  /\ api = "word"
  /\ Take
  /\ UNCHANGED <<taskVars, cell, enabled, callVars, api, cut>>

\* clear_fifos, and another API from then on.
ClearFifos ==
  /\ current # NoTask
  /\ caller = NoTask
  /\ Clear
  /\ api' = IF api = "bus" THEN "word" ELSE "bus"
  /\ cut' = (shift # <<>>)
  /\ UNCHANGED <<taskVars, cell, enabled, callVars>>

-----------------------------------------------------------------------------
(* The executor.                                                           *)

\* raw.poll polls a woken task.
PollTask(t) ==
  /\ current = NoTask
  /\ t \in owed
  /\ owed' = owed \ {t}
  /\ current' = t
  /\ UNCHANGED <<cell, enabled, device, callVars, api, cut>>

\* The task polls its future again, or drops it.
Repoll ==
  /\ current # NoTask /\ caller = current /\ parked
  /\ parked' = FALSE
  /\ UNCHANGED <<portVars, callData, step, txIndex, got, control, api, cut>>

Cancel ==
  /\ current # NoTask /\ caller = current /\ parked
  /\ End
  /\ UNCHANGED <<taskVars, cell, enabled, api, cut>>

\* A running task with no call in progress awaits something else.
Yield ==
  /\ current # NoTask
  /\ caller # current
  /\ current' = NoTask
  /\ UNCHANGED <<owed, cell, enabled, device, callVars, api, cut>>

\* Something else wakes a task: a timer, another task, a stale waker.
WakeOther(t) ==
  /\ t \notin owed
  /\ owed' = owed \cup {t}
  /\ UNCHANGED <<current, cell, enabled, device, callVars, api, cut>>

Device == (Load \/ Complete) /\ UNCHANGED <<callVars, api, cut>>
Dispatch == Handle /\ UNCHANGED <<callVars, api, cut>>

ThreadStep ==
  \/ TestBusy
  \/ FlushStores \/ FlushLoads \/ FlushEnables
  \/ PushWrite \/ PushBlocking \/ PushTransfer
  \/ TakeBlocking \/ TakeAnswer
  \/ \E interrupt \in Interrupts : Wait(interrupt)
  \/ Repoll
  \/ Yield

Next ==
  \/ \E k \in Kinds, n, r \in Lengths : Start(k, n, r)
  \/ ThreadStep
  \/ Cancel
  \/ NbWrite \/ NbRead \/ ClearFifos
  \/ \E t \in Tasks : PollTask(t)
  \/ \E t \in Tasks : WakeOther(t)
  \/ Device
  \/ Dispatch

Spec == Init /\ [][Next]_vars

\* Code runs, the executor polls what was woken (Executor!WokenIsPolled), the
\* device shifts, and a level-triggered interrupt is taken.
Fairness ==
  /\ WF_vars(ThreadStep)
  /\ \A t \in Tasks : SF_vars(PollTask(t))
  /\ WF_vars(Device)
  /\ WF_vars(Dispatch)

FairSpec == Spec /\ Fairness

-----------------------------------------------------------------------------
(* Properties.                                                             *)

\* spi.rs:289-299, 338-350, 368-378, 392-400, 563-574: a future that waits runs,
\* is to be polled anyway, or its waker is in SPI_WAKER and an interrupt is
\* enabled, although FlushFut changes CONTROL1 outside a critical section.
Armed ==
  parked /\ caller \notin owed \cup {current} => cell = caller /\ enabled # {}

\* spi.rs:183-199, 322-337: when a transfer is about to return, every chunk
\* holds the answer to its own entry, whatever earlier calls left in the
\* device, and although answers that find the FIFO full are lost.
AnswersInPlace ==
  kind \in Transfers /\ step \in {"take", "push"} /\ Len(got) = Count =>
    \A i \in DOMAIN got : got[i] = i - 1

\* spi.rs:15, 352-366: a transfer of no more entries than the FIFO is deep
\* loses no answer but that of an empty remainder.
ShortLosesNothing ==
  \A i \in lost : Count > Fifo \/ EmptyRemainder(i)

\* spi.rs:149-156, 183-199: no entry is written to a full FIFO, also not by
\* the blocking transfer, which does not look.
NothingDropped == ~ overflow

\* spi.rs:407-408: after clear_fifos the FullDuplex interface meets only its
\* own words, if the device was not shifting when clear_fifos was called.
WordsMeetWords ==
  api = "word" /\ ~ cut =>
    /\ \A i \in DOMAIN tx : tx[i].index = Word
    /\ \A i \in DOMAIN shift : shift[i].index = Word
    /\ \A i \in DOMAIN rx : rx[i] = Word

\* A task that calls the blocking or the nb methods may keep the processor.
Hogged == <>[](current # NoTask)

\* spi.rs:254-405: an asynchronous call ends or is dropped, unless an answer
\* was lost or a task keeps the processor.
CallEnds ==
  Hogged \/ (step # "none" /\ kind \in AsyncKinds ~> step = "none" \/ lost # {})

=============================================================================
