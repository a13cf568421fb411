---------------------------- MODULE SpiBusProofs -----------------------------
(***************************************************************************)
(* Theorems about SpiBus, for any tasks, FIFO depth, methods and lengths,  *)
(* and about the words of SpiEntry, for any bytes.                         *)
(***************************************************************************)
EXTENDS SpiBus, SpiEntry, TLAPS, SequenceTheorems

-----------------------------------------------------------------------------
(* The device and the queues.                                              *)

\* Append puts one element behind the others.
LEMMA AppendAdds ==
  ASSUME NEW S, NEW s \in Seq(S), NEW e \in S, NEW t, t = Append(s, e)
  PROVE  \A i \in DOMAIN t : t[i] = e \/ (i \in DOMAIN s /\ t[i] = s[i])
<1>1. t \in Seq(S) /\ Len(t) = Len(s) + 1 /\ Len(s) \in Nat
  BY AppendProperties
<1>2. \A i \in 1 .. Len(s) : t[i] = s[i]
  BY AppendProperties
<1>3. t[Len(s) + 1] = e
  BY AppendProperties
<1>4. DOMAIN t = 1 .. Len(s) + 1 /\ DOMAIN s = 1 .. Len(s)
  BY <1>1
<1> SUFFICES ASSUME NEW i \in DOMAIN t
             PROVE  t[i] = e \/ (i \in DOMAIN s /\ t[i] = s[i])
  OBVIOUS
<1>5. i \in 1 .. Len(s) \/ i = Len(s) + 1
  BY <1>1, <1>4
<1> QED
  BY <1>2, <1>3, <1>4, <1>5

\* What Disown leaves are entries again, as many as before, none numbered.
LEMMA DisownKeepsTypes ==
  ASSUME TypeOK, Disown
  PROVE  /\ tx' \in Seq(EntrySet) /\ Len(tx') = Len(tx)
         /\ shift' \in Seq(EntrySet) /\ Len(shift') = Len(shift)
         /\ rx' \in Seq(Indexes) /\ Len(rx') = Len(rx)
         /\ lost' = {} /\ overflow' = overflow
<1>1. \A e \in EntrySet : [e EXCEPT !.index = Other] \in EntrySet
  BY DEF EntrySet, Indexes
<1>2. tx' \in [1 .. Len(tx) -> EntrySet]
  BY <1>1 DEF TypeOK, Disown
<1>3. shift' \in [1 .. Len(shift) -> EntrySet]
  BY <1>1 DEF TypeOK, Disown
<1>4. rx' \in [1 .. Len(rx) -> Indexes]
  BY DEF TypeOK, Disown, Indexes
<1>5. Len(tx) \in Nat /\ Len(shift) \in Nat /\ Len(rx) \in Nat
  BY DEF TypeOK
<1>6. lost' = {} /\ overflow' = overflow
  BY DEF Disown
<1> QED
  BY <1>2, <1>3, <1>4, <1>5, <1>6

\* clear_fifos leaves FIFOs, whether it clears them or not.
LEMMA ClearKeepsTypes ==
  ASSUME TypeOK, Clear
  PROVE  /\ tx' \in Seq(EntrySet) /\ Len(tx') <= Fifo
         /\ rx' \in Seq(Indexes) /\ Len(rx') <= Fifo
         /\ UNCHANGED <<shift, overflow, lost>>
<1>1. CASE Pulsed
  BY <1>1, SpiAssumption DEF Clear
<1>2. CASE ~ Pulsed
  BY <1>2 DEF Clear, TypeOK
<1> QED
  BY <1>1, <1>2

\* The device keeps the types of the FIFOs.
LEMMA DeviceKeepsTypes ==
  ASSUME TypeOK, Load \/ Complete
  PROVE  /\ tx' \in Seq(EntrySet) /\ Len(tx') <= Fifo
         /\ shift' \in Seq(EntrySet) /\ Len(shift') <= 1
         /\ rx' \in Seq(Indexes) /\ Len(rx') <= Fifo
         /\ lost' \subseteq Nat
<1>1. CASE Load
  BY <1>1, SpiAssumption DEF TypeOK, Load
<1>2. CASE Complete
  <2>1. shift[1] \in EntrySet
    BY <1>2 DEF TypeOK, Complete
  <2>2. shift[1].index \in Indexes
    BY <2>1 DEF EntrySet
  <2>3. lost' \subseteq Nat
    BY <1>2, <2>2 DEF TypeOK, Complete, Lose
  <2>4. rx' \in Seq(Indexes) /\ Len(rx') <= Fifo
    BY <1>2, <2>2, SpiAssumption DEF TypeOK, Complete
  <2>5. tx' = tx /\ shift' = <<>>
    BY <1>2 DEF Complete
  <2> QED
    BY <2>3, <2>4, <2>5, SpiAssumption DEF TypeOK
<1> QED
  BY <1>1, <1>2

\* A write to the transmit FIFO keeps them too.
LEMMA PushKeepsTypes ==
  ASSUME TypeOK, NEW e \in EntrySet, Push(e)
  PROVE  /\ tx' \in Seq(EntrySet) /\ Len(tx') <= Fifo
         /\ Len(tx') <= Len(tx) + 1
         /\ overflow' \in BOOLEAN
         /\ UNCHANGED <<shift, rx, lost>>
BY SpiAssumption DEF TypeOK, Push

\* If there is room it overflows nothing.
LEMMA PushWithRoom ==
  ASSUME TypeOK, NEW e, Push(e), Len(tx) < Fifo, ~ overflow
  PROVE  ~ overflow' /\ tx' = Append(tx, e) /\ Len(tx') = Len(tx) + 1
<1>1. overflow' <=> overflow \/ Len(tx) = Fifo
  BY DEF Push
<1>2. Len(tx) # Fifo
  BY SpiAssumption DEF TypeOK
<1> QED
  BY <1>1, <1>2 DEF Push, TypeOK

\* The entries a call writes.
LEMMA EntryType ==
  ASSUME NEW i \in Indexes, NEW empty \in BOOLEAN
  PROVE  Entry(i, empty) \in EntrySet /\ Entry(i, empty).index = i
BY DEF Entry, EntrySet

-----------------------------------------------------------------------------
(* Types.                                                                  *)

\* spi.rs:63-105: a fresh Spi1.
LEMMA InitTypes == Init => TypeOK
<1>1. <<>> \in Seq(Indexes) /\ <<>> \in Seq(EntrySet) /\ Len(<<>>) = 0
  BY EmptySeq
<1> SUFFICES ASSUME Init
             PROVE  TypeOK
  OBVIOUS
<1>2. /\ tx \in Seq(EntrySet) /\ Len(tx) = 0
      /\ shift \in Seq(EntrySet) /\ Len(shift) = 0
      /\ rx \in Seq(Indexes) /\ Len(rx) = 0
      /\ got \in Seq(Indexes)
  BY <1>1 DEF Init, PortInit, NoCall
<1>3. /\ owed \subseteq Tasks
      /\ current \in Tasks \cup {NoTask}
      /\ cell \in Tasks \cup {NoTask}
      /\ enabled \subseteq Interrupts
      /\ overflow \in BOOLEAN
      /\ lost \subseteq Nat
      /\ api \in {"bus", "word"}
  BY DEF Init, PortInit
<1>4. /\ caller \in Tasks \cup {NoTask}
      /\ kind = "none"
      /\ len \in Lengths /\ rest \in Lengths
      /\ step = "none"
      /\ parked \in BOOLEAN
      /\ txIndex \in Nat
      /\ control \subseteq Interrupts
      /\ cut \in BOOLEAN
  BY BusAssumption DEF Init, NoCall
<1> QED
  BY <1>2, <1>3, <1>4, SpiAssumption DEF TypeOK

\* Every way a call ends.
LEMMA OverTypes ==
  ASSUME Over
  PROVE  /\ caller' \in Tasks \cup {NoTask}
         /\ kind' \in Kinds \cup Writes \cup {"none"}
         /\ len' \in Lengths /\ rest' \in Lengths
         /\ step' = "none"
         /\ parked' \in BOOLEAN
         /\ txIndex' \in Nat
         /\ got' \in Seq(Indexes)
         /\ control' \subseteq Interrupts
<1>1. <<>> \in Seq(Indexes)
  BY EmptySeq
<1> QED
  BY <1>1, BusAssumption DEF Over

\* Returning, from the call or to the write of the rest.
LEMMA ReturnTypes ==
  ASSUME TypeOK, Return, UNCHANGED <<taskVars, cell, enabled, api, cut>>
  PROVE  TypeOK'
<1>1. CASE rest = 0 /\ End
  BY <1>1, DisownKeepsTypes, OverTypes DEF TypeOK, End, taskVars
<1>2. CASE ~ (rest = 0 /\ End)
  <2>1. <<>> \in Seq(Indexes)
    BY EmptySeq
  <2>2. Disown
    BY <1>2 DEF Return
  <2>3. /\ kind' \in Writes
        /\ len' \in Lengths /\ rest' \in Lengths
        /\ step' \in {"push", "flush"}
        /\ txIndex' \in Nat
        /\ got' \in Seq(Indexes)
        /\ UNCHANGED <<caller, parked, control>>
    BY <1>2, <2>1, BusAssumption DEF TypeOK, Return, First, Writes
  <2> QED
    BY <2>2, <2>3, DisownKeepsTypes DEF TypeOK, taskVars
<1> QED
  BY <1>1, <1>2

\* Writing an entry.
LEMMA WriteEntryTypes ==
  ASSUME TypeOK, NEW next \in {"push", "take"}, WriteEntry(next),
         UNCHANGED <<taskVars, cell, enabled, api, cut>>
  PROVE  TypeOK'
<1> DEFINE i == IF kind \in Transfers THEN txIndex ELSE Other
<1>1. i \in Indexes /\ EmptyRemainder(txIndex) \in BOOLEAN
  BY DEF TypeOK, Indexes, EmptyRemainder
<1>2. Entry(i, EmptyRemainder(txIndex)) \in EntrySet
  BY <1>1, EntryType
<1>3. Push(Entry(i, EmptyRemainder(txIndex)))
  BY DEF WriteEntry
<1> HIDE DEF i
<1>4. /\ tx' \in Seq(EntrySet) /\ Len(tx') <= Fifo
      /\ overflow' \in BOOLEAN
      /\ UNCHANGED <<shift, rx, lost>>
  BY <1>2, <1>3, PushKeepsTypes
<1> QED
  BY <1>4 DEF TypeOK, WriteEntry, callData, taskVars

\* Taking an answer.
LEMMA StoreTypes ==
  ASSUME TypeOK, NEW next \in {"push", "take"}, Store(next),
         UNCHANGED <<taskVars, cell, enabled, api, cut>>
  PROVE  TypeOK'
<1>1. Head(rx) \in Indexes /\ Tail(rx) \in Seq(Indexes) /\ Len(Tail(rx)) <= Len(rx)
  BY DEF TypeOK, Store, Take
<1> QED
  BY <1>1, SpiAssumption DEF TypeOK, Store, Take, callData, taskVars

\* Every step keeps the types.
LEMMA StepTypes ==
  ASSUME TypeOK, [Next]_vars
  PROVE  TypeOK'
<1> USE DEF taskVars, callVars, callData, portVars, device
<1>1. CASE \E k \in Kinds, n, r \in Lengths : Start(k, n, r)
  BY <1>1 DEF TypeOK, Start, First
<1>2. CASE TestBusy
  <2>1. CASE Goto("store") /\ UNCHANGED device
    BY <1>2, <2>1 DEF TypeOK, TestBusy, Goto
  <2>2. CASE AfterFlush
    <3>1. CASE Over
      BY <1>2, <2>2, <3>1, OverTypes, ClearKeepsTypes DEF TypeOK, TestBusy, AfterFlush
    <3>2. CASE Goto("take") \/ Goto("push")
      BY <1>2, <2>2, <3>2, ClearKeepsTypes DEF TypeOK, TestBusy, AfterFlush, Goto
    <3> QED
      BY <2>2, <3>1, <3>2 DEF AfterFlush
  <2> QED
    BY <1>2, <2>1, <2>2 DEF TestBusy
<1>3. CASE FlushStores
  BY <1>3 DEF TypeOK, FlushStores, StoreWaker, Goto
<1>4. CASE FlushLoads
  BY <1>4 DEF TypeOK, FlushLoads
<1>5. CASE FlushEnables
  BY <1>5 DEF TypeOK, FlushEnables, Park, Interrupts
<1>6. CASE PushWrite
  <2>1. CASE Return
    BY <1>6, <2>1, ReturnTypes DEF PushWrite
  <2>2. CASE WriteEntry("push")
    BY <1>6, <2>2, WriteEntryTypes DEF PushWrite
  <2>3. CASE Goto("empty") /\ UNCHANGED device
    BY <1>6, <2>3 DEF TypeOK, PushWrite, Goto
  <2> QED
    BY <1>6, <2>1, <2>2, <2>3 DEF PushWrite
<1>7. CASE PushBlocking
  <2>1. CASE Return
    BY <1>7, <2>1, ReturnTypes DEF PushBlocking
  <2>2. CASE WriteEntry("take")
    BY <1>7, <2>2, WriteEntryTypes DEF PushBlocking
  <2> QED
    BY <1>7, <2>1, <2>2 DEF PushBlocking
<1>8. CASE PushTransfer
  <2>1. CASE WriteEntry("push")
    BY <1>8, <2>1, WriteEntryTypes DEF PushTransfer
  <2>2. CASE Goto("empty") /\ UNCHANGED device
    BY <1>8, <2>2 DEF TypeOK, PushTransfer, Goto
  <2> QED
    BY <1>8, <2>1, <2>2 DEF PushTransfer
<1>9. CASE TakeBlocking
  BY <1>9, StoreTypes DEF TakeBlocking
<1>10. CASE TakeAnswer
  <2>1. CASE Store("take")
    BY <1>10, <2>1, StoreTypes DEF TakeAnswer
  <2>2. CASE Return
    BY <1>10, <2>2, ReturnTypes DEF TakeAnswer
  <2>3. CASE UNCHANGED device /\ (Goto("done") \/ Goto("push"))
    BY <1>10, <2>3 DEF TypeOK, TakeAnswer, Goto
  <2> QED
    BY <1>10, <2>1, <2>2, <2>3 DEF TakeAnswer
<1>11. ASSUME NEW interrupt \in Interrupts, Wait(interrupt)
       PROVE  TypeOK'
  BY <1>11 DEF TypeOK, Wait, Register, StoreWaker, Park
<1>12. CASE Repoll \/ Yield
  BY <1>12 DEF TypeOK, Repoll, Yield
<1>13. CASE Cancel
  BY <1>13, DisownKeepsTypes, OverTypes DEF TypeOK, Cancel, End
<1>14. CASE NbWrite
  <2>1. Entry(Word, FALSE) \in EntrySet
    BY EntryType DEF Indexes
  <2> QED
    BY <1>14, <2>1, PushKeepsTypes DEF TypeOK, NbWrite
<1>15. CASE NbRead
  <2>1. Tail(rx) \in Seq(Indexes) /\ Len(Tail(rx)) <= Len(rx)
    BY <1>15 DEF TypeOK, NbRead, Take
  <2> QED
    BY <1>15, <2>1, SpiAssumption DEF TypeOK, NbRead, Take
<1>16. CASE ClearFifos
  BY <1>16, ClearKeepsTypes DEF TypeOK, ClearFifos
<1>17. CASE \E t \in Tasks : PollTask(t) \/ WakeOther(t)
  BY <1>17 DEF TypeOK, PollTask, WakeOther
<1>18. CASE Device
  BY <1>18, DeviceKeepsTypes DEF TypeOK, Device, Load, Complete
<1>19. CASE Dispatch
  BY <1>19 DEF TypeOK, Dispatch, Handle
<1>20. CASE UNCHANGED vars
  BY <1>20 DEF TypeOK, vars
<1> QED
  BY <1>1, <1>2, <1>3, <1>4, <1>5, <1>6, <1>7, <1>8, <1>9, <1>10, <1>11, <1>12, <1>13,
     <1>14, <1>15, <1>16, <1>17, <1>18, <1>19, <1>20 DEF Next, ThreadStep

\* Every variable keeps its type.
THEOREM TypeCorrect == Spec => []TypeOK
BY InitTypes, StepTypes, PTL DEF Spec

-----------------------------------------------------------------------------
(* Who is in a call, and who will wake it.                                 *)

\* A call belongs to a task; outside its awaits that task is running.
CallInv ==
  /\ caller = NoTask => step = "none" /\ kind = "none" /\ ~ parked
  /\ caller # NoTask => api = "bus"
  /\ caller # NoTask /\ ~ parked => current = caller

\* Between set_waker and the write of CONTROL1, FlushFut's waker is in the cell
\* or the handler has taken it and woken the task.
WakeInv ==
  /\ step \in {"load", "enable"} => ~ parked /\ (cell = caller \/ caller \in owed)
  /\ Armed

\* The end of a call, or of its first part, leaves nothing waiting.
LEMMA ReturnIsSound ==
  ASSUME TypeOK, CallInv, WakeInv, Return, ~ parked, caller # NoTask,
         UNCHANGED <<taskVars, cell, enabled, api, cut>>
  PROVE  CallInv' /\ WakeInv'
<1>1. CASE Over
  BY <1>1 DEF Over, CallInv, WakeInv, Armed
<1>2. CASE /\ kind' = IF kind = "transfer" THEN "write" ELSE "blockingWrite"
           /\ step' = First(kind') /\ UNCHANGED <<caller, parked, control>>
           /\ rest > 0
  <2>1. step' \in {"push", "flush"}
    BY <1>2 DEF First
  <2> QED
    BY <1>2, <2>1 DEF CallInv, WakeInv, Armed, taskVars, Return
<1> QED
  BY <1>1, <1>2 DEF Return, End

\* Every step keeps them.
LEMMA StepWaits ==
  ASSUME TypeOK, CallInv, WakeInv, [Next]_vars
  PROVE  CallInv' /\ WakeInv'
<1> USE SpiAssumption DEF taskVars, callVars, callData, portVars, CallInv, WakeInv, Armed
<1>1. CASE \E k \in Kinds, n, r \in Lengths : Start(k, n, r)
  BY <1>1 DEF Start, First, TypeOK
<1>2. CASE TestBusy
  BY <1>2 DEF TestBusy, AfterFlush, Goto, Over, At
<1>3. CASE FlushStores
  BY <1>3 DEF FlushStores, StoreWaker, Goto, At
<1>4. CASE FlushLoads
  BY <1>4 DEF FlushLoads, At
<1>5. CASE FlushEnables
  BY <1>5 DEF FlushEnables, Park, At
<1>6. CASE PushWrite
  BY <1>6, ReturnIsSound DEF PushWrite, WriteEntry, Goto, At
<1>7. CASE PushBlocking
  BY <1>7, ReturnIsSound DEF PushBlocking, WriteEntry, At
<1>8. CASE PushTransfer
  BY <1>8 DEF PushTransfer, WriteEntry, Goto, At
<1>9. CASE TakeBlocking
  BY <1>9 DEF TakeBlocking, Store, At
<1>10. CASE TakeAnswer
  BY <1>10, ReturnIsSound DEF TakeAnswer, Store, Goto, At
<1>11. ASSUME NEW interrupt \in Interrupts, Wait(interrupt)
       PROVE  CallInv' /\ WakeInv'
  BY <1>11 DEF Wait, Register, StoreWaker, Park, At
<1>12. CASE Repoll \/ Yield
  BY <1>12 DEF Repoll, Yield
<1>13. CASE Cancel
  BY <1>13 DEF Cancel, End, Over
<1>14. CASE NbWrite \/ NbRead
  <2>1. UNCHANGED <<taskVars, cell, enabled, callVars, api>>
    BY <1>14 DEF NbWrite, NbRead
  <2> QED
    BY <2>1
<1>15. CASE ClearFifos
  BY <1>15 DEF ClearFifos
<1>16. ASSUME NEW t \in Tasks, PollTask(t) \/ WakeOther(t)
       PROVE  CallInv' /\ WakeInv'
  <2>1. CASE PollTask(t)
    BY <2>1 DEF PollTask
  <2>2. CASE WakeOther(t)
    BY <2>2 DEF WakeOther
  <2> QED
    BY <1>16, <2>1, <2>2
<1>17. CASE Device
  BY <1>17 DEF Device, Load, Complete
<1>18. CASE Dispatch
  BY <1>18 DEF Dispatch, Handle
<1>19. CASE UNCHANGED vars
  BY <1>19 DEF vars
<1> QED
  BY <1>1, <1>2, <1>3, <1>4, <1>5, <1>6, <1>7, <1>8, <1>9, <1>10, <1>11, <1>12, <1>13,
     <1>14, <1>15, <1>16, <1>17, <1>18, <1>19 DEF Next, ThreadStep

\* A future that waits is to be polled, or will be woken: Armed, whatever the
\* handler does between the four steps of FlushFut's registration.
THEOREM NeverParkedUnarmed == Spec => []Armed
<1>1. Init => CallInv /\ WakeInv
  BY DEF Init, PortInit, NoCall, CallInv, WakeInv, Armed
<1>2. TypeOK /\ CallInv /\ WakeInv /\ [Next]_vars => CallInv' /\ WakeInv'
  BY StepWaits
<1>3. WakeInv => Armed
  BY DEF WakeInv
<1> QED
  BY <1>1, <1>2, <1>3, TypeCorrect, PTL DEF Spec

-----------------------------------------------------------------------------
(* The FIFOs.                                                              *)

\* The entries and answers that are anywhere in the device.
Outstanding == Len(tx) + Len(shift) + Len(rx)

\* The blocking transfer has at most one entry outstanding, and none when it
\* writes the next one: that is why it need not look for room.
BlockingInv ==
  /\ ~ overflow
  /\ kind = "blockingTransfer" => step \in {"flush", "push", "take"}
  /\ kind = "blockingTransfer" /\ step = "push" => Outstanding = 0
  /\ kind = "blockingTransfer" /\ step = "take" => Outstanding <= 1

\* An entry on its way through the device is not counted twice.
LEMMA DeviceMakesNoEntries ==
  ASSUME TypeOK, Load \/ Complete
  PROVE  Outstanding' <= Outstanding /\ Outstanding' \in Nat
<1>1. Len(tx) \in Nat /\ Len(shift) \in Nat /\ Len(rx) \in Nat
  BY DEF TypeOK
<1>2. CASE Load
  <2>1. Len(tx') = Len(tx) - 1 /\ Len(shift) = 0 /\ Len(shift') = 1 /\ rx' = rx
    BY <1>2 DEF Load, TypeOK
  <2>2. Len(tx) >= 1
    BY <1>2 DEF Load, TypeOK
  <2> QED
    BY <1>1, <2>1, <2>2 DEF Outstanding
<1>3. CASE Complete
  <2>0. tx' = tx /\ shift # <<>> /\ shift' = <<>>
    BY <1>3 DEF Complete
  <2>1. tx' = tx /\ Len(shift) = 1 /\ Len(shift') = 0
    <3>1. shift \in Seq(EntrySet) /\ Len(shift) <= 1
      BY DEF TypeOK
    <3>2. Len(shift) >= 1
      BY <2>0, <3>1
    <3>3. Len(<<>>) = 0
      BY EmptySeq
    <3>4. Len(shift') = 0
      BY <2>0, <3>3
    <3>5. ASSUME NEW n \in Nat, n <= 1, n >= 1
          PROVE  n = 1
      BY <3>5
    <3>6. Len(shift) = 1
      BY <1>1, <3>1, <3>2, <3>5
    <3> QED
      BY <2>0, <3>4, <3>6
  <2>2. shift[1].index \in Indexes
    <3>0. shift \in Seq(EntrySet)
      BY DEF TypeOK
    <3>1. shift[1] \in EntrySet
      BY <2>1, <3>0
    <3> QED
      BY <3>1 DEF EntrySet
  <2>3. Len(rx') = Len(rx) + 1 \/ rx' = rx
    BY <1>3, <2>2 DEF Complete, TypeOK
  <2> QED
    BY <1>1, <2>1, <2>3 DEF Outstanding
<1> QED
  BY <1>2, <1>3

\* Clearing what is not busy empties the device.
LEMMA FlushEmpties ==
  ASSUME Pulsed, TypeOK, Clear, ~ Busy
  PROVE  Outstanding' = 0
<1>1. tx' = <<>> /\ shift' = <<>> /\ rx' = <<>>
  BY DEF Clear, Busy
<1>2. Len(tx') = 0 /\ Len(shift') = 0 /\ Len(rx') = 0
  BY <1>1, EmptySeq
<1> QED
  BY <1>2 DEF Outstanding

\* No call but the blocking transfer is restrained, and none ends as one.
LEMMA ReturnDropsNothing ==
  ASSUME TypeOK, BlockingInv, Return
  PROVE  BlockingInv'
<1>1. overflow' = overflow
  BY DEF Return, End, Disown
<1>2. kind' # "blockingTransfer"
  BY DEF Return, End, Over
<1> QED
  BY <1>1, <1>2 DEF BlockingInv

\* Every step keeps it.
LEMMA StepDropsNothing ==
  ASSUME Pulsed, TypeOK, CallInv, BlockingInv, [Next]_vars
  PROVE  BlockingInv'
<1>1. Len(tx) \in Nat /\ Len(shift) \in Nat /\ Len(rx) \in Nat
  BY DEF TypeOK
<1>2. ASSUME UNCHANGED device, kind' # "blockingTransfer" \/ UNCHANGED <<kind, step>>
      PROVE  BlockingInv'
  BY <1>2 DEF BlockingInv, Outstanding, device
<1>3. CASE \E k \in Kinds, n, r \in Lengths : Start(k, n, r)
  BY <1>3 DEF Start, First, BlockingInv, portVars, device
<1>4. CASE TestBusy
  <2>1. CASE kind \in AsyncKinds /\ Goto("store") /\ UNCHANGED device
    BY <1>2, <2>1 DEF Goto, AsyncKinds, callData
  <2>2. CASE ~ Busy /\ AfterFlush
    <3>1. overflow' = overflow
      BY <2>2 DEF AfterFlush, Clear
    <3>2. Outstanding' = 0
      BY <2>2, FlushEmpties DEF AfterFlush
    <3>3. kind' = "blockingTransfer" => step' = "push"
      BY <2>2 DEF AfterFlush, Over, Goto, callData
    <3> QED
      BY <3>1, <3>2, <3>3 DEF BlockingInv
  <2> QED
    BY <1>4, <2>1, <2>2 DEF TestBusy
<1>5. CASE FlushStores \/ FlushLoads \/ FlushEnables
  <2>1. step \in {"store", "load", "enable"} /\ kind' = kind /\ UNCHANGED device
    BY <1>5 DEF FlushStores, FlushLoads, FlushEnables, At, Goto, Park, callData, portVars, device
  <2> QED
    BY <1>2, <2>1 DEF BlockingInv
<1>6. CASE PushWrite
  <2>1. CASE Len(tx) < Fifo /\ WriteEntry("push")
    <3>1. ~ overflow'
      BY <2>1, PushWithRoom DEF WriteEntry, BlockingInv
    <3>2. kind' # "blockingTransfer"
      BY <1>6, <2>1 DEF PushWrite, WriteEntry, Writes, callData
    <3> QED
      BY <3>1, <3>2 DEF BlockingInv
  <2>2. CASE Goto("empty") /\ UNCHANGED device
    BY <1>2, <1>6, <2>2 DEF PushWrite, Writes, Goto, callData
  <2> QED
    BY <1>6, <2>1, <2>2, ReturnDropsNothing DEF PushWrite
<1>7. CASE PushBlocking
  <2>1. CASE WriteEntry("take")
    <3>1. Outstanding = 0
      BY <1>7 DEF PushBlocking, At, BlockingInv
    <3>2. Len(tx) = 0 /\ Len(shift) = 0 /\ Len(rx) = 0 /\ Len(tx) < Fifo
      BY <1>1, <3>1, SpiAssumption DEF Outstanding
    <3>3. UNCHANGED <<shift, rx>> /\ step' = "take"
      BY <2>1 DEF WriteEntry, Push
    <3>4. ~ overflow' /\ Len(tx') = 1
      BY <2>1, <3>2, PushWithRoom DEF WriteEntry, BlockingInv
    <3> QED
      BY <3>2, <3>3, <3>4 DEF BlockingInv, Outstanding
  <2> QED
    BY <1>7, <2>1, ReturnDropsNothing DEF PushBlocking
<1>8. CASE PushTransfer
  <2>1. CASE Len(tx) < Fifo /\ WriteEntry("push")
    <3>1. ~ overflow'
      BY <2>1, PushWithRoom DEF WriteEntry, BlockingInv
    <3>2. kind' # "blockingTransfer"
      BY <1>8, <2>1 DEF PushTransfer, WriteEntry, callData
    <3> QED
      BY <3>1, <3>2 DEF BlockingInv
  <2>2. CASE Goto("empty") /\ UNCHANGED device
    BY <1>2, <1>8, <2>2 DEF PushTransfer, Goto, callData
  <2> QED
    BY <1>8, <2>1, <2>2 DEF PushTransfer
<1>9. CASE TakeBlocking
  <2>1. Outstanding <= 1 /\ rx # <<>> /\ rx' = Tail(rx) /\ UNCHANGED <<tx, shift, overflow>>
    BY <1>9 DEF TakeBlocking, Store, Take, At, BlockingInv
  <2>2. Len(rx) >= 1 /\ Len(rx') = Len(rx) - 1
    BY <2>1 DEF TypeOK
  <2>3. Outstanding' = 0
    BY <1>1, <2>1, <2>2 DEF Outstanding
  <2>4. step' = "push"
    BY <1>9 DEF TakeBlocking, Store
  <2> QED
    BY <2>1, <2>3, <2>4 DEF BlockingInv
<1>10. CASE TakeAnswer
  <2>1. CASE Return
    BY <2>1, ReturnDropsNothing
  <2>2. CASE \/ Store("take")
             \/ UNCHANGED device /\ Goto(IF txIndex = Count THEN "done" ELSE "push")
    <3>1. kind' # "blockingTransfer"
      BY <1>10, <2>2 DEF TakeAnswer, Store, Goto, callData
    <3>2. overflow' = overflow
      BY <2>2 DEF Store, Take, device
    <3> QED
      BY <3>1, <3>2 DEF BlockingInv
  <2> QED
    BY <1>10, <2>1, <2>2 DEF TakeAnswer
<1>11. ASSUME NEW interrupt \in Interrupts, Wait(interrupt)
       PROVE  BlockingInv'
  <2>1. step \in {"done", "empty"} /\ kind' = kind /\ UNCHANGED device
    BY <1>11 DEF Wait, At, Park, callData, Register, Interrupts
  <2> QED
    BY <1>2, <2>1 DEF BlockingInv
<1>12. CASE Repoll \/ Yield
  BY <1>2, <1>12 DEF Repoll, Yield, callVars, callData, portVars, device
<1>13. CASE Cancel
  BY <1>13 DEF Cancel, End, Over, Disown, BlockingInv
<1>14. CASE NbWrite \/ NbRead \/ ClearFifos
  <2>1. kind' = kind /\ kind = "none"
    BY <1>14 DEF NbWrite, NbRead, ClearFifos, CallInv, callVars
  <2>2. ~ overflow'
    <3>1. CASE NbWrite
      BY <3>1, PushWithRoom DEF NbWrite, BlockingInv
    <3>2. CASE NbRead \/ ClearFifos
      BY <3>2 DEF NbRead, ClearFifos, Take, Clear, BlockingInv
    <3> QED
      BY <1>14, <3>1, <3>2
  <2> QED
    BY <2>1, <2>2 DEF BlockingInv
<1>15. CASE \E t \in Tasks : PollTask(t) \/ WakeOther(t)
  BY <1>2, <1>15 DEF PollTask, WakeOther, callVars
<1>16. CASE Device
  <2>1. UNCHANGED <<kind, step, overflow>>
    BY <1>16 DEF Device, Load, Complete, callVars
  <2> QED
    BY <1>1, <1>16, <2>1, DeviceMakesNoEntries DEF Device, BlockingInv, Outstanding
<1>17. CASE Dispatch
  BY <1>2, <1>17 DEF Dispatch, Handle, callVars
<1>18. CASE UNCHANGED vars
  BY <1>2, <1>18 DEF vars, portVars, callVars, device
<1> QED
  BY <1>3, <1>4, <1>5, <1>6, <1>7, <1>8, <1>9, <1>10, <1>11, <1>12, <1>13,
     <1>14, <1>15, <1>16, <1>17, <1>18 DEF Next, ThreadStep

\* spi.rs:120-127, 149, 186, 268: in a build that keeps both writes of
\* clear_fifos (Pulsed) no entry is written to a full FIFO, by any calls.
THEOREM NoEntryDropped ==
  ASSUME Pulsed
  PROVE  Spec => []NothingDropped
<1>1. Init => CallInv /\ WakeInv /\ BlockingInv
  BY DEF Init, PortInit, NoCall, CallInv, WakeInv, Armed, BlockingInv
<1>2. TypeOK /\ CallInv /\ WakeInv /\ BlockingInv /\ [Next]_vars
        => (CallInv /\ WakeInv /\ BlockingInv)'
  BY StepWaits, StepDropsNothing
<1>3. BlockingInv => NothingDropped
  BY DEF BlockingInv, NothingDropped
<1> QED
  BY <1>1, <1>2, <1>3, TypeCorrect, PTL DEF Spec

-----------------------------------------------------------------------------
(* Two interfaces on one device.                                           *)

\* Every step keeps WordsMeetWords.
LEMMA StepMeetsWords ==
  ASSUME Pulsed, TypeOK, CallInv, WordsMeetWords, [Next]_vars
  PROVE  WordsMeetWords'
<1>1. CASE api = "bus"
  <2>1. CASE ClearFifos
    <3>1. ~ cut' => tx' = <<>> /\ rx' = <<>> /\ shift' = <<>>
      BY <2>1 DEF ClearFifos, Clear
    <3> QED
      BY <3>1 DEF WordsMeetWords
  <2>2. CASE ~ ClearFifos
    <3>1. api' = api
      BY <1>1, <2>2 DEF Next, Start, ThreadStep, TestBusy, FlushStores, FlushLoads,
           FlushEnables, PushWrite, PushBlocking, PushTransfer, TakeBlocking, TakeAnswer,
           Wait, Repoll, Yield, Cancel, NbWrite, NbRead, PollTask, WakeOther, Device,
           Dispatch, vars
    <3> QED
      BY <1>1, <3>1 DEF WordsMeetWords
  <2> QED
    BY <2>1, <2>2
<1>2. CASE api = "word"
  <2>1. caller = NoTask /\ ~ parked
    BY <1>2 DEF CallInv
  <2>2. CASE UNCHANGED <<tx, shift, rx, cut>>
    BY <1>2, <2>2 DEF WordsMeetWords
  <2>3. CASE NbWrite /\ ~ cut
    <3>1. tx' = Append(tx, Entry(Word, FALSE)) /\ UNCHANGED <<shift, rx, cut>>
      BY <2>3 DEF NbWrite, Push
    <3>2. Entry(Word, FALSE).index = Word
      BY EntryType DEF Indexes
    <3>3. \A i \in DOMAIN tx' : tx'[i].index = Word
      <4>1. tx \in Seq(EntrySet) /\ \A i \in DOMAIN tx : tx[i].index = Word
        BY <1>2, <2>3 DEF WordsMeetWords, TypeOK
      <4>2. Entry(Word, FALSE) \in EntrySet
        BY EntryType DEF Indexes
      <4>3. \A e \in EntrySet :
              tx' = Append(tx, e) =>
                \A i \in DOMAIN tx' : tx'[i] = e \/ (i \in DOMAIN tx /\ tx'[i] = tx[i])
        BY <4>1, AppendAdds
      <4> QED
        BY <3>1, <3>2, <4>1, <4>2, <4>3
    <3> QED
      BY <1>2, <2>3, <3>1, <3>3 DEF WordsMeetWords
  <2>4. CASE NbRead /\ ~ cut
    <3>1. rx # <<>> /\ rx' = Tail(rx) /\ UNCHANGED <<shift, tx, cut>>
      BY <2>4 DEF NbRead, Take
    <3>2. \A i \in DOMAIN rx' : rx'[i] = Word
      BY <1>2, <2>4, <3>1 DEF WordsMeetWords, TypeOK
    <3> QED
      BY <1>2, <2>4, <3>1, <3>2 DEF WordsMeetWords
  <2>5. CASE ClearFifos
    BY <1>2, <2>5 DEF ClearFifos, WordsMeetWords
  <2>6. CASE Load /\ UNCHANGED cut /\ ~ cut
    <3>1. tx # <<>> /\ tx' = Tail(tx) /\ shift' = <<Head(tx)>> /\ rx' = rx
      BY <2>6 DEF Load
    <3>2. Head(tx).index = Word
      BY <1>2, <2>6, <3>1 DEF WordsMeetWords, TypeOK
    <3>3. \A i \in DOMAIN tx' : tx'[i].index = Word
      BY <1>2, <2>6, <3>1 DEF WordsMeetWords, TypeOK
    <3>4. \A i \in DOMAIN shift' : shift'[i].index = Word
      BY <3>1, <3>2
    <3> QED
      BY <1>2, <2>6, <3>1, <3>3, <3>4 DEF WordsMeetWords
  <2>7. CASE Complete /\ UNCHANGED cut /\ ~ cut
    <3>1. shift # <<>> /\ shift' = <<>> /\ tx' = tx
      BY <2>7 DEF Complete
    <3>2. shift[1].index = Word
      BY <1>2, <2>7, <3>1 DEF WordsMeetWords, TypeOK
    <3>3. rx' = Append(rx, Word) \/ rx' = rx
      <4>1. rx' = Append(rx, shift[1].index) \/ rx' = rx
        BY <2>7 DEF Complete
      <4> QED
        BY <3>2, <4>1
    <3>4. rx \in Seq(Indexes) /\ \A i \in DOMAIN rx : rx[i] = Word
      BY <1>2, <2>7 DEF WordsMeetWords, TypeOK
    <3>5. \A i \in DOMAIN rx' : rx'[i] = Word
      <4>1. CASE rx' = rx
        BY <3>4, <4>1
      <4>2. CASE rx' = Append(rx, Word)
        <5>1. Word \in Indexes
          BY DEF Indexes
        <5>2. \A i \in DOMAIN rx' : rx'[i] = Word \/ (i \in DOMAIN rx /\ rx'[i] = rx[i])
          BY <3>4, <4>2, <5>1, AppendAdds
        <5> QED
          BY <3>4, <5>2
      <4> QED
        BY <3>3, <4>1, <4>2
    <3>6. UNCHANGED tx /\ \A i \in DOMAIN shift' : shift'[i].index = Word
      BY <3>1
    <3> QED
      BY <1>2, <2>7, <3>5, <3>6 DEF WordsMeetWords
  <2>8. CASE cut /\ cut' = cut
    BY <2>8 DEF WordsMeetWords
  <2>9. ClearFifos \/ cut' = cut
    BY DEF Next, Start, ThreadStep, TestBusy, FlushStores, FlushLoads,
         FlushEnables, PushWrite, PushBlocking, PushTransfer, TakeBlocking, TakeAnswer,
         Wait, Repoll, Yield, Cancel, NbWrite, NbRead, PollTask, WakeOther, Device,
         Dispatch, vars
  <2>10. \/ UNCHANGED <<tx, shift, rx, cut>>
         \/ NbWrite \/ NbRead \/ ClearFifos
         \/ Load \/ Complete
    BY <1>2, <2>1 DEF Next, Start, ThreadStep, TestBusy, FlushStores, FlushLoads,
         FlushEnables, PushWrite, PushBlocking, PushTransfer, TakeBlocking, TakeAnswer,
         Wait, At, Repoll, Yield, Cancel, PollTask, WakeOther, Device,
         Dispatch, Handle, vars, portVars, device
  <2> QED
    BY <2>2, <2>3, <2>4, <2>5, <2>6, <2>7, <2>8, <2>9, <2>10
<1> QED
  BY <1>1, <1>2 DEF TypeOK

\* spi.rs:120-127, 407-408: in such a build what is cleared when the device is
\* not shifting is gone for good.
THEOREM WordsAreOwn ==
  ASSUME Pulsed
  PROVE  Spec => []WordsMeetWords
<1>1. Init => CallInv /\ WakeInv /\ WordsMeetWords
  BY DEF Init, PortInit, NoCall, CallInv, WakeInv, Armed, WordsMeetWords
<1>2. TypeOK /\ CallInv /\ WakeInv /\ WordsMeetWords /\ [Next]_vars
        => (CallInv /\ WakeInv /\ WordsMeetWords)'
  BY StepWaits, StepMeetsWords
<1> QED
  BY <1>1, <1>2, TypeCorrect, PTL DEF Spec

-----------------------------------------------------------------------------
(* The answers to a transfer.                                              *)

\* The numbers in a FIFO of entries.
Numbers(s) == [i \in DOMAIN s |-> s[i].index]

\* Strictly rising integers: each is above the one before by one or more.
Rising(s) == \A i, j \in DOMAIN s : i <= j => s[i] + (j - i) <= s[j]

Below(low, high) == \A x \in low, y \in high : x < y

\* A transfer is exchanging entries for answers.
Exchanging == kind \in Transfers /\ step \in {"take", "push", "done", "empty"}

\* Where the numbers of the call are: returned, answered, being shifted, written.
Got == ToSet(got)
Answered == ToSet(rx)
Shifted == ToSet(Numbers(shift))
Written == ToSet(Numbers(tx))

\* They pass through the device in the order they were written.
InLine ==
  /\ Rising(got) /\ Rising(rx) /\ Rising(Numbers(tx))
  /\ Below(Got, Answered)
  /\ Below(Got \cup Answered, Shifted)
  /\ Below(Got \cup Answered \cup Shifted, Written)

\* Nothing else is in the device, and only an empty remainder is an entry of
\* no bits.
OwnNumbers ==
  /\ Got \cup Answered \cup Shifted \cup Written \subseteq 0 .. txIndex - 1
  /\ txIndex <= Count
  /\ Len(got) + Outstanding <= txIndex
  /\ \A e \in ToSet(tx) \cup ToSet(shift) : e.empty => EmptyRemainder(e.index)

\* Outside a transfer no entry has a number, and no answer to one was lost.
NoNumbers == lost = {} /\ (Shifted \cup Written) \cap Nat = {}

\* A call that has not begun to push or to take has counted nothing.
Fresh ==
  step \in {"none", "flush", "store", "load", "enable"} => txIndex = 0 /\ got = <<>>

ExchangeInv ==
  /\ Exchanging => InLine /\ OwnNumbers /\ ShortLosesNothing
  /\ ~ Exchanging => NoNumbers
  /\ Fresh

\* What a queue of rising numbers holds when one is put behind the others.
LEMMA RisingAppend ==
  ASSUME NEW s \in Seq(Int), NEW e \in Int, Rising(s), \A x \in ToSet(s) : x < e
  PROVE  Rising(Append(s, e)) /\ ToSet(Append(s, e)) = ToSet(s) \cup {e}
<1> DEFINE t == Append(s, e)
<1>1. /\ DOMAIN s = 1 .. Len(s) /\ DOMAIN t = 1 .. Len(s) + 1 /\ Len(s) \in Nat
      /\ \A i \in 1 .. Len(s) : t[i] = s[i] /\ s[i] \in Int
      /\ t[Len(s) + 1] = e
  BY AppendProperties, LenProperties
<1> HIDE DEF t
<1>2. ToSet(t) = ToSet(s) \cup {e}
  <2>1. DOMAIN t = DOMAIN s \cup {Len(s) + 1} /\ \A i \in DOMAIN s : t[i] = s[i]
    BY <1>1
  <2> QED
    BY <1>1, <2>1, Zenon DEF ToSet
<1>3. ASSUME NEW i \in DOMAIN t, NEW j \in DOMAIN t, i <= j
      PROVE  t[i] + (j - i) <= t[j]
  <2>1. CASE j <= Len(s)
    <3>1. i \in DOMAIN s /\ j \in DOMAIN s /\ t[i] = s[i] /\ t[j] = s[j]
      BY <1>1, <1>3, <2>1
    <3> QED
      BY <1>3, <3>1 DEF Rising
  <2>2. CASE i = Len(s) + 1
    BY <1>1, <1>3, <2>2
  <2>3. CASE i <= Len(s) /\ j = Len(s) + 1
    <3>1. /\ i \in DOMAIN s /\ Len(s) \in DOMAIN s /\ i <= Len(s)
          /\ i \in Int /\ Len(s) \in Int
      BY <1>1, <1>3, <2>3
    <3>2. s[i] + (Len(s) - i) <= s[Len(s)]
      BY <3>1 DEF Rising
    <3>3. s[Len(s)] < e
      BY <3>1 DEF ToSet
    <3>4. s[i] \in Int /\ s[Len(s)] \in Int /\ t[i] = s[i] /\ t[j] = e
      BY <1>1, <2>3, <3>1
    <3> QED
      BY <2>3, <3>1, <3>2, <3>3, <3>4
  <2> QED
    BY <1>1, <1>3, <2>1, <2>2, <2>3
<1> QED
  BY <1>2, <1>3 DEF Rising, t

\* And when the first is taken.
LEMMA SetOfTail ==
  ASSUME NEW s \in Seq(Int), s # <<>>
  PROVE  ToSet(s) = ToSet(Tail(s)) \cup {Head(s)}
<1> DEFINE t == Tail(s)
<1>1. /\ DOMAIN s = 1 .. Len(s) /\ DOMAIN t = 1 .. Len(s) - 1 /\ Len(s) \in Nat \ {0}
      /\ \A i \in 1 .. Len(s) - 1 : t[i] = s[i + 1]
      /\ Head(s) = s[1]
  BY HeadTailProperties, LenProperties
<1> HIDE DEF t
<1>2. ASSUME NEW i \in DOMAIN s PROVE s[i] \in ToSet(t) \cup {Head(s)}
  <2>1. i # 1 => i - 1 \in DOMAIN t /\ t[i - 1] = s[i]
    BY <1>1
  <2> QED
    BY <1>1, <2>1 DEF ToSet
<1>3. ASSUME NEW i \in DOMAIN t PROVE t[i] \in ToSet(s)
  <2>1. i + 1 \in DOMAIN s /\ t[i] = s[i + 1]
    BY <1>1
  <2> QED
    BY <2>1 DEF ToSet
<1>4. Head(s) \in ToSet(s)
  <2>1. 1 \in DOMAIN s
    BY <1>1
  <2> QED
    BY <1>1, <2>1 DEF ToSet
<1>5. ToSet(s) = ToSet(t) \cup {Head(s)}
  BY <1>2, <1>3, <1>4 DEF ToSet
<1> QED
  BY <1>5 DEF t

LEMMA RisingTail ==
  ASSUME NEW s \in Seq(Int), s # <<>>, Rising(s)
  PROVE  /\ Rising(Tail(s)) /\ Head(s) \in Int
         /\ ToSet(s) = ToSet(Tail(s)) \cup {Head(s)}
         /\ \A x \in ToSet(Tail(s)) : Head(s) < x
<1> DEFINE t == Tail(s)
<1>1. /\ DOMAIN s = 1 .. Len(s) /\ DOMAIN t = 1 .. Len(s) - 1 /\ Len(s) \in Nat \ {0}
      /\ \A i \in 1 .. Len(s) - 1 : t[i] = s[i + 1]
      /\ \A i \in 1 .. Len(s) : s[i] \in Int
      /\ Head(s) = s[1]
  BY HeadTailProperties, LenProperties
<1> HIDE DEF t
<1>2. ASSUME NEW i \in DOMAIN t
      PROVE  i + 1 \in DOMAIN s /\ t[i] = s[i + 1] /\ Head(s) < t[i]
  <2>1. 1 \in DOMAIN s /\ i + 1 \in DOMAIN s /\ 1 <= i + 1 /\ i \in Int /\ i >= 1
    BY <1>1
  <2>2. s[1] + ((i + 1) - 1) <= s[i + 1]
    BY <2>1 DEF Rising
  <2>3. t[i] = s[i + 1] /\ s[1] \in Int /\ s[i + 1] \in Int
    BY <1>1, <2>1
  <2> QED
    BY <1>1, <2>1, <2>2, <2>3
<1>3. Rising(t)
  <2>1. ASSUME NEW i \in DOMAIN t, NEW j \in DOMAIN t, i <= j PROVE t[i] + (j - i) <= t[j]
    <3>1. i \in Int /\ j \in Int /\ i + 1 <= j + 1
      BY <1>1, <2>1
    <3>2. s[i + 1] + ((j + 1) - (i + 1)) <= s[j + 1]
      BY <1>2, <3>1 DEF Rising
    <3>3. (j + 1) - (i + 1) = j - i
      BY <3>1
    <3> QED
      BY <1>2, <3>2, <3>3
  <2> QED
    BY <2>1 DEF Rising
<1>4. ToSet(s) = ToSet(t) \cup {Head(s)}
  BY SetOfTail DEF t
<1>5. \A x \in ToSet(t) : Head(s) < x
  BY <1>2 DEF ToSet
<1> QED
  BY <1>1, <1>3, <1>4, <1>5 DEF t

\* The numbers in a FIFO are queued as its entries are.
LEMMA NumbersOfQueue ==
  ASSUME NEW s \in Seq(EntrySet)
  PROVE  /\ Numbers(s) \in Seq(Int) /\ Len(Numbers(s)) = Len(s)
         /\ s # <<>> => /\ Numbers(s) # <<>>
                        /\ Head(Numbers(s)) = Head(s).index
                        /\ Numbers(Tail(s)) = Tail(Numbers(s))
         /\ \A e \in EntrySet : Numbers(Append(s, e)) = Append(Numbers(s), e.index)
<1>0. DOMAIN s = 1 .. Len(s) /\ Len(s) \in Nat /\ \A i \in 1 .. Len(s) : s[i] \in EntrySet
  BY LenProperties
<1>1. Numbers(s) = [i \in 1 .. Len(s) |-> s[i].index] /\ \A i \in 1 .. Len(s) : s[i].index \in Int
  BY <1>0 DEF Numbers, EntrySet, Indexes, Other, Word
<1>2. Numbers(s) \in Seq(Int) /\ Len(Numbers(s)) = Len(s)
  BY <1>0, <1>1
<1>3. ASSUME s # <<>>
      PROVE  /\ Numbers(s) # <<>> /\ Head(Numbers(s)) = Head(s).index
             /\ Numbers(Tail(s)) = Tail(Numbers(s))
  <2>1. Len(s) >= 1 /\ Head(s) = s[1]
    BY <1>0, <1>3, EmptySeq, HeadTailProperties
  <2>2. Numbers(s) # <<>> /\ Head(Numbers(s)) = Numbers(s)[1] /\ Numbers(s)[1] = s[1].index
    BY <1>1, <1>2, <2>1, EmptySeq, HeadTailProperties
  <2>3. /\ DOMAIN Tail(s) = 1 .. Len(s) - 1
        /\ \A i \in 1 .. Len(s) - 1 : Tail(s)[i] = s[i + 1]
    BY <1>0, <1>3, HeadTailProperties, LenProperties
  <2>4. Tail(Numbers(s)) = [i \in 1 .. Len(s) - 1 |-> s[i + 1].index]
    <3>1. /\ Tail(Numbers(s)) \in Seq(Int) /\ Len(Tail(Numbers(s))) = Len(s) - 1
          /\ \A i \in 1 .. Len(s) - 1 : Tail(Numbers(s))[i] = Numbers(s)[i + 1]
      BY <1>0, <1>2, <2>2, HeadTailProperties
    <3>2. \A i \in 1 .. Len(s) - 1 : Numbers(s)[i + 1] = s[i + 1].index
      BY <1>0, <1>1
    <3>3. ASSUME NEW u \in Seq(Int), Len(u) = Len(s) - 1
          PROVE  u = [i \in 1 .. Len(s) - 1 |-> u[i]]
      BY <3>3
    <3>4. Tail(Numbers(s)) = [i \in 1 .. Len(s) - 1 |-> Tail(Numbers(s))[i]]
      BY <3>1, <3>3
    <3> QED
      BY <3>1, <3>2, <3>4
  <2> QED
    BY <2>1, <2>2, <2>3, <2>4 DEF Numbers
<1>4. ASSUME NEW e \in EntrySet PROVE Numbers(Append(s, e)) = Append(Numbers(s), e.index)
  <2>1. e.index \in Int
    BY DEF EntrySet, Indexes, Other, Word
  <2>2. /\ DOMAIN Append(s, e) = 1 .. Len(s) + 1
        /\ \A i \in 1 .. Len(s) : Append(s, e)[i] = s[i]
        /\ Append(s, e)[Len(s) + 1] = e
    BY <1>0, AppendProperties, LenProperties
  <2>3. /\ Append(Numbers(s), e.index) \in Seq(Int)
        /\ Len(Append(Numbers(s), e.index)) = Len(s) + 1
        /\ \A i \in 1 .. Len(s) : Append(Numbers(s), e.index)[i] = s[i].index
        /\ Append(Numbers(s), e.index)[Len(s) + 1] = e.index
    BY <1>0, <1>1, <1>2, <2>1, AppendProperties
  <2>4. Numbers(Append(s, e)) = [i \in 1 .. Len(s) + 1 |-> Append(s, e)[i].index]
    BY <2>2 DEF Numbers
  <2>5. \A i \in 1 .. Len(s) + 1 : Append(s, e)[i].index = Append(Numbers(s), e.index)[i]
    <3>1. \A i \in 1 .. Len(s) + 1 : i \in 1 .. Len(s) \/ i = Len(s) + 1
      BY <1>0
    <3> QED
      BY <2>2, <2>3, <3>1
  <2>6. Append(Numbers(s), e.index)
          = [i \in 1 .. Len(s) + 1 |-> Append(Numbers(s), e.index)[i]]
    BY <2>3
  <2> QED
    BY <2>4, <2>5, <2>6
<1> QED
  BY <1>2, <1>3, <1>4

\* The numbers are integers, and what is shifted is one entry at most.
LEMMA NumberTypes ==
  ASSUME TypeOK
  PROVE  /\ got \in Seq(Int) /\ rx \in Seq(Int)
         /\ tx \in Seq(EntrySet) /\ shift \in Seq(EntrySet)
         /\ Numbers(tx) \in Seq(Int) /\ Numbers(shift) \in Seq(Int)
         /\ Got \subseteq Int /\ Answered \subseteq Int
         /\ Shifted \subseteq Int /\ Written \subseteq Int
         /\ Len(got) \in Nat /\ Len(rx) \in Nat /\ Len(tx) \in Nat /\ Len(shift) \in Nat
         /\ txIndex \in Nat /\ Count \in Nat
<1>1. \A s : s \in Seq(Indexes) => s \in Seq(Int)
  BY DEF Indexes, Other, Word
<1>2. got \in Seq(Int) /\ rx \in Seq(Int) /\ tx \in Seq(EntrySet) /\ shift \in Seq(EntrySet)
  BY <1>1 DEF TypeOK
<1>3. Numbers(tx) \in Seq(Int) /\ Numbers(shift) \in Seq(Int)
  BY <1>2, NumbersOfQueue
<1>4. \A s \in Seq(Int) : ToSet(s) \subseteq Int /\ Len(s) \in Nat
  BY DEF ToSet
<1>5. txIndex \in Nat /\ Count \in Nat
  BY BusAssumption DEF TypeOK, Count, Entries, Chunks
<1>6. Len(tx) \in Nat /\ Len(shift) \in Nat
  BY <1>2, LenProperties
<1> QED
  BY <1>2, <1>3, <1>4, <1>5, <1>6 DEF Got, Answered, Shifted, Written

\* The device takes the next entry.
LEMMA LoadKeepsLine ==
  ASSUME TypeOK, Load, UNCHANGED callVars
  PROVE  /\ InLine /\ OwnNumbers => InLine' /\ OwnNumbers'
         /\ NoNumbers => NoNumbers'
<1>1. /\ shift = <<>> /\ tx # <<>> /\ shift' = <<Head(tx)>> /\ tx' = Tail(tx)
      /\ UNCHANGED <<rx, lost>>
  BY DEF Load
<1> DEFINE n == Head(tx).index
<1>2. /\ Numbers(tx) # <<>> /\ Head(Numbers(tx)) = n /\ Numbers(tx') = Tail(Numbers(tx))
      /\ Head(tx) \in EntrySet
  BY <1>1, NumberTypes, NumbersOfQueue, HeadTailProperties
<1>3. Shifted = {} /\ Shifted' = {n} /\ Got' = Got /\ Answered' = Answered
  <2>1. Shifted = {}
    BY <1>1 DEF Shifted, ToSet, Numbers
  <2>2. Numbers(shift') = <<n>>
    BY <1>1 DEF Numbers
  <2>3. ToSet(<<n>>) = {n}
    BY DEF ToSet
  <2> QED
    BY <1>1, <2>1, <2>2, <2>3 DEF Shifted, Got, Answered, callVars
<1>4. Written = Written' \cup {n}
  BY <1>2, SetOfTail, NumberTypes DEF Written
<1>5. ASSUME InLine, OwnNumbers PROVE InLine' /\ OwnNumbers'
  <2>1. Rising(Numbers(tx)) /\ Rising(Numbers(tx'))
          /\ \A x \in ToSet(Numbers(tx')) : n < x
    BY <1>2, <1>5, NumberTypes, RisingTail DEF InLine
  <2>2. InLine'
    BY <1>1, <1>3, <1>4, <1>5, <2>1 DEF InLine, Below, Written, Got, Answered, callVars
  <2>3. Outstanding' <= Outstanding /\ Outstanding' \in Nat
    BY DeviceMakesNoEntries
  <2>4. Len(got) + Outstanding' <= txIndex
    BY <1>5, <2>3, NumberTypes DEF OwnNumbers, Outstanding
  <2>5. ToSet(tx') \cup ToSet(shift') \subseteq ToSet(tx)
    <3>1. /\ \A i \in DOMAIN tx' : i + 1 \in DOMAIN tx /\ tx'[i] = tx[i + 1]
          /\ 1 \in DOMAIN tx /\ Head(tx) = tx[1]
      BY <1>1, NumberTypes, HeadTailProperties, LenProperties, EmptySeq
    <3>2. ToSet(shift') = {Head(tx)}
      BY <1>1 DEF ToSet
    <3> QED
      BY <3>1, <3>2 DEF ToSet
  <2>6. Count' = Count /\ \A i : EmptyRemainder(i)' = EmptyRemainder(i)
    BY DEF Count, EmptyRemainder, callVars
  <2> QED
    BY <1>3, <1>4, <1>5, <2>2, <2>4, <2>5, <2>6 DEF OwnNumbers, callVars
<1>6. ASSUME NoNumbers PROVE NoNumbers'
  BY <1>1, <1>3, <1>4, <1>6 DEF NoNumbers
<1> QED
  BY <1>5, <1>6

\* An entry's answer joins the others, or is lost to a FIFO full of them.
LEMMA CompleteKeepsLine ==
  ASSUME TypeOK, Complete, UNCHANGED callVars
  PROVE  /\ InLine /\ OwnNumbers /\ ShortLosesNothing
              => InLine' /\ OwnNumbers' /\ ShortLosesNothing'
         /\ NoNumbers => NoNumbers'
<1> DEFINE e == shift[1]
<1>1. shift # <<>> /\ shift' = <<>> /\ tx' = tx
  BY DEF Complete
<1>2. Len(shift) = 1 /\ DOMAIN shift = {1} /\ e \in EntrySet
  <2>1. shift \in Seq(EntrySet) /\ Len(shift) <= 1 /\ Len(shift) \in Nat \ {0}
    BY <1>1, EmptySeq DEF TypeOK
  <2>2. \A n \in Nat \ {0} : n <= 1 => n = 1
    OBVIOUS
  <2>3. Len(shift) = 1
    BY <2>1, <2>2
  <2> QED
    BY <2>1, <2>3
<1>3. e.index \in Int /\ e.index \in Indexes
  BY <1>2 DEF EntrySet, Indexes, Other, Word
<1>4. /\ Shifted = {e.index} /\ ToSet(shift) = {e}
      /\ Shifted' = {} /\ Got' = Got /\ Written' = Written
  <2>1. Shifted = {e.index} /\ ToSet(shift) = {e}
    BY <1>2 DEF Shifted, ToSet, Numbers
  <2>2. Shifted' = {}
    BY <1>1 DEF Shifted, ToSet, Numbers
  <2> QED
    BY <1>1, <2>1, <2>2 DEF Got, Written, callVars
<1>5. \/ rx' = Append(rx, e.index) /\ lost' = lost
      \/ rx' = rx /\ (Len(rx) = Fifo \/ e.empty) /\ Lose(e.index)
  BY DEF Complete
<1>6. Count' = Count /\ \A i : EmptyRemainder(i)' = EmptyRemainder(i)
  BY DEF Count, EmptyRemainder, callVars
<1>7. ASSUME InLine, OwnNumbers, ShortLosesNothing
      PROVE  InLine' /\ OwnNumbers' /\ ShortLosesNothing'
  <2>1. Outstanding' <= Outstanding /\ Outstanding' \in Nat
    BY DeviceMakesNoEntries
  <2>2. Len(got) + Outstanding' <= txIndex
    BY <1>7, <2>1, NumberTypes DEF OwnNumbers, Outstanding
  <2>3. Rising(rx') /\ Answered' \subseteq Answered \cup Shifted
    <3>1. CASE rx' = Append(rx, e.index)
      <4>1. rx \in Seq(Int) /\ Rising(rx) /\ \A x \in ToSet(rx) : x < e.index
        BY <1>4, <1>7, NumberTypes DEF InLine, Below, Answered
      <4> QED
        BY <1>3, <1>4, <3>1, <4>1, RisingAppend DEF Answered
    <3>2. CASE rx' = rx
      BY <1>7, <3>2 DEF InLine, Answered
    <3> QED
      BY <1>5, <3>1, <3>2
  <2>4. InLine'
    BY <1>1, <1>4, <1>7, <2>3 DEF InLine, Below, callVars
  <2>5. OwnNumbers'
    BY <1>1, <1>4, <1>6, <1>7, <2>2, <2>3 DEF OwnNumbers, ToSet, callVars
  <2>6. ASSUME NEW i \in lost', i \notin lost PROVE Count > Fifo \/ EmptyRemainder(i)
    <3>1. i = e.index /\ (Len(rx) = Fifo \/ e.empty)
      BY <1>5, <2>6 DEF Lose
    <3>2. CASE Len(rx) = Fifo
      <4>1. Len(got) + (Len(tx) + 1 + Len(rx)) <= txIndex /\ txIndex <= Count
        BY <1>2, <1>7 DEF OwnNumbers, Outstanding
      <4> QED
        BY <3>2, <4>1, NumberTypes
    <3>3. CASE e.empty
      BY <1>4, <1>7, <3>1, <3>3 DEF OwnNumbers
    <3> QED
      BY <3>1, <3>2, <3>3
  <2>7. ShortLosesNothing'
    BY <1>6, <1>7, <2>6 DEF ShortLosesNothing
  <2> QED
    BY <2>4, <2>5, <2>7
<1>8. ASSUME NoNumbers PROVE NoNumbers'
  BY <1>4, <1>5, <1>8 DEF NoNumbers, Lose
<1> QED
  BY <1>7, <1>8

\* A transfer writes its next entry behind the others.
LEMMA WriteKeepsLine ==
  ASSUME TypeOK, InLine, OwnNumbers, ShortLosesNothing, kind \in Transfers,
         NEW next, WriteEntry(next), ~ overflow, Len(tx) < Fifo, txIndex < Count
  PROVE  InLine' /\ OwnNumbers' /\ ShortLosesNothing'
<1> DEFINE e == Entry(txIndex, EmptyRemainder(txIndex))
<1>1. Push(e) /\ txIndex' = txIndex + 1 /\ UNCHANGED <<callData, got>>
  BY DEF WriteEntry
<1>2. e \in EntrySet /\ e.index = txIndex /\ e.empty = EmptyRemainder(txIndex)
  <2>1. txIndex \in Indexes /\ EmptyRemainder(txIndex) \in BOOLEAN
    BY NumberTypes DEF Indexes, EmptyRemainder
  <2> QED
    BY <2>1 DEF Entry, EntrySet
<1> HIDE DEF e
<1>3. tx' = Append(tx, e) /\ Len(tx') = Len(tx) + 1 /\ UNCHANGED <<shift, rx, lost>>
  BY <1>1, PushWithRoom DEF Push
<1>4. Numbers(tx') = Append(Numbers(tx), txIndex)
  BY <1>2, <1>3, NumberTypes, NumbersOfQueue
<1>5. \A x \in Got \cup Answered \cup Shifted \cup Written : x < txIndex
  BY NumberTypes DEF OwnNumbers
<1>6. Rising(Numbers(tx')) /\ Written' = Written \cup {txIndex}
  <2>1. txIndex \in Int /\ Rising(Numbers(tx)) /\ \A x \in ToSet(Numbers(tx)) : x < txIndex
    BY <1>5, NumberTypes DEF InLine, Written
  <2> QED
    BY <1>4, <2>1, NumberTypes, RisingAppend DEF Written
<1>7. Got' = Got /\ Answered' = Answered /\ Shifted' = Shifted
  BY <1>1, <1>3 DEF Got, Answered, Shifted, Numbers
<1>8. InLine'
  BY <1>1, <1>3, <1>5, <1>6, <1>7 DEF InLine, Below
<1>9. Count' = Count /\ \A i : EmptyRemainder(i)' = EmptyRemainder(i)
  BY <1>1 DEF Count, EmptyRemainder, callData
<1>10. OwnNumbers'
  <2>1. Got' \cup Answered' \cup Shifted' \cup Written' \subseteq 0 .. txIndex' - 1
    BY <1>1, <1>6, <1>7, NumberTypes DEF OwnNumbers
  <2>2. txIndex' <= Count' /\ Len(got') + Outstanding' <= txIndex'
    BY <1>1, <1>3, <1>9, NumberTypes DEF OwnNumbers, Outstanding
  <2>3. ToSet(tx') \cup ToSet(shift') \subseteq ToSet(tx) \cup ToSet(shift) \cup {e}
    <3>1. \A i \in DOMAIN tx' : tx'[i] = e \/ (i \in DOMAIN tx /\ tx'[i] = tx[i])
      <4>1. tx \in Seq(EntrySet)
        BY NumberTypes
      <4>2. \A f \in EntrySet :
              tx' = Append(tx, f) =>
                \A i \in DOMAIN tx' : tx'[i] = f \/ (i \in DOMAIN tx /\ tx'[i] = tx[i])
        BY <4>1, AppendAdds
      <4> QED
        BY <1>2, <1>3, <4>2
    <3> QED
      BY <1>3, <3>1 DEF ToSet
  <2>4. \A f \in ToSet(tx') \cup ToSet(shift') : f.empty => EmptyRemainder(f.index)'
    BY <1>2, <1>9, <2>3 DEF OwnNumbers
  <2> QED
    BY <2>1, <2>2, <2>4 DEF OwnNumbers
<1>11. ShortLosesNothing'
  BY <1>3, <1>9 DEF ShortLosesNothing
<1> QED
  BY <1>8, <1>10, <1>11

\* It takes the next answer.
LEMMA TakeKeepsLine ==
  ASSUME TypeOK, InLine, OwnNumbers, ShortLosesNothing, NEW next, Store(next)
  PROVE  InLine' /\ OwnNumbers' /\ ShortLosesNothing'
<1>1. /\ rx # <<>> /\ rx' = Tail(rx) /\ got' = Append(got, Head(rx))
      /\ UNCHANGED <<tx, shift, lost, callData, txIndex>>
  BY DEF Store, Take
<1>2. /\ Rising(rx') /\ Head(rx) \in Int /\ Answered = Answered' \cup {Head(rx)}
      /\ \A x \in Answered' : Head(rx) < x
  BY <1>1, NumberTypes, RisingTail DEF InLine, Answered
<1>3. Rising(got') /\ Got' = Got \cup {Head(rx)}
  <2>1. got \in Seq(Int) /\ Rising(got) /\ \A x \in ToSet(got) : x < Head(rx)
    BY <1>2, NumberTypes DEF InLine, Below, Got
  <2> QED
    BY <1>1, <1>2, <2>1, RisingAppend DEF Got
<1>4. Shifted' = Shifted /\ Written' = Written
  BY <1>1 DEF Shifted, Written, Numbers
<1>5. InLine'
  BY <1>1, <1>2, <1>3, <1>4 DEF InLine, Below
<1>6. Len(got') = Len(got) + 1 /\ Len(rx') = Len(rx) - 1 /\ Len(rx) > 0
  BY <1>1, <1>2, NumberTypes, AppendProperties, HeadTailProperties, EmptySeq
<1>7. Len(got') + Outstanding' <= txIndex'
  BY <1>1, <1>6, NumberTypes DEF OwnNumbers, Outstanding
<1>8. Count' = Count /\ \A i : EmptyRemainder(i)' = EmptyRemainder(i)
  BY <1>1 DEF Count, EmptyRemainder, callData
<1>9. OwnNumbers'
  BY <1>1, <1>2, <1>3, <1>4, <1>7, <1>8 DEF OwnNumbers
<1>10. ShortLosesNothing'
  BY <1>1, <1>8 DEF ShortLosesNothing
<1> QED
  BY <1>5, <1>9, <1>10

\* As many answers as entries, rising: each is the answer to its own entry.
LEMMA FullIsInPlace ==
  ASSUME TypeOK, InLine, OwnNumbers, Len(got) = Count
  PROVE  \A i \in DOMAIN got : got[i] = i - 1
<1> SUFFICES ASSUME NEW i \in DOMAIN got PROVE got[i] = i - 1
  OBVIOUS
<1>1. /\ DOMAIN got = 1 .. Count /\ Count \in Nat /\ txIndex \in Nat /\ txIndex <= Count
      /\ \A j \in DOMAIN got : got[j] \in 0 .. txIndex - 1
  BY NumberTypes DEF OwnNumbers, Got, ToSet
<1>2. 1 \in DOMAIN got /\ Count \in DOMAIN got /\ 1 <= i /\ i <= Count /\ i \in Int
  BY <1>1
<1>3. got[1] + (i - 1) <= got[i] /\ got[i] + (Count - i) <= got[Count]
  BY <1>2 DEF InLine, Rising
<1>4. got[1] \in Int /\ got[1] >= 0 /\ got[Count] \in Int /\ got[Count] <= Count - 1
        /\ got[i] \in Int
  BY <1>1, <1>2
<1> QED
  BY <1>1, <1>2, <1>3, <1>4

\* What ends a call leaves no numbers.
LEMMA DisownLeavesNoNumbers ==
  ASSUME TypeOK, Disown
  PROVE  NoNumbers'
<1>1. /\ \A i \in DOMAIN tx' : tx'[i].index = Other
      /\ \A i \in DOMAIN shift' : shift'[i].index = Other
      /\ lost' = {}
  <2>1. /\ \A i \in DOMAIN tx : tx[i] \in EntrySet
        /\ \A i \in DOMAIN shift : shift[i] \in EntrySet
    BY NumberTypes
  <2>2. \A f \in EntrySet : [f EXCEPT !.index = Other].index = Other
    BY DEF EntrySet
  <2> QED
    BY <2>1, <2>2 DEF Disown
<1>2. Shifted' \subseteq {Other} /\ Written' \subseteq {Other}
  BY <1>1 DEF Shifted, Written, Numbers, ToSet
<1> QED
  BY <1>1, <1>2 DEF NoNumbers, Other

LEMMA ReturnKeepsExchange ==
  ASSUME TypeOK, Return
  PROVE  ExchangeInv'
<1>1. NoNumbers'
  BY DisownLeavesNoNumbers DEF Return, End
<1>2. ~ Exchanging' /\ Fresh'
  BY DEF Return, End, Over, First, Exchanging, Transfers, Fresh
<1> QED
  BY <1>1, <1>2 DEF ExchangeInv

\* A step that leaves the device and the numbers of the call alone.
LEMMA ExchangeUntouched ==
  ASSUME ExchangeInv, UNCHANGED <<device, callData, txIndex, got>>, Exchanging' = Exchanging,
         step' \in {"none", "flush", "store", "load", "enable"}
           => step \in {"none", "flush", "store", "load", "enable"}
  PROVE  ExchangeInv'
<1>1. /\ Got' = Got /\ Answered' = Answered /\ Shifted' = Shifted /\ Written' = Written
      /\ Outstanding' = Outstanding /\ Count' = Count
      /\ \A i : EmptyRemainder(i)' = EmptyRemainder(i)
  BY DEF device, callData, Got, Answered, Shifted, Written, Numbers, Outstanding, Count,
         EmptyRemainder
<1>2. InLine => InLine'
  BY <1>1 DEF InLine, Numbers, Rising, device
<1>3. OwnNumbers => OwnNumbers'
  BY <1>1 DEF OwnNumbers, device
<1>4. ShortLosesNothing => ShortLosesNothing'
  BY <1>1 DEF ShortLosesNothing, device
<1>5. NoNumbers => NoNumbers'
  BY <1>1 DEF NoNumbers, device
<1>6. Fresh'
  BY DEF ExchangeInv, Fresh
<1> QED
  BY <1>2, <1>3, <1>4, <1>5, <1>6 DEF ExchangeInv

\* A flush leaves nothing in the device: a transfer starts counting.
LEMMA FlushKeepsExchange ==
  ASSUME Pulsed, TypeOK, ExchangeInv, AfterFlush, ~ Busy, step = "flush"
  PROVE  ExchangeInv'
<1>1. /\ tx' = <<>> /\ shift' = <<>> /\ rx' = <<>> /\ lost' = lost
      /\ Outstanding' = 0
  BY FlushEmpties DEF AfterFlush, Clear, Busy
<1>2. NoNumbers /\ txIndex = 0 /\ got = <<>>
  BY DEF ExchangeInv, Exchanging, Fresh
<1>3. Answered' = {} /\ Shifted' = {} /\ Written' = {}
  BY <1>1 DEF Answered, Shifted, Written, Numbers, ToSet
<1>4. NoNumbers'
  BY <1>1, <1>2, <1>3 DEF NoNumbers
<1>5. CASE Over
  BY <1>4, <1>5 DEF Over, ExchangeInv, Exchanging, Transfers, Fresh
<1>6. CASE Goto("take") \/ Goto("push")
  <2>1. got' = <<>> /\ txIndex' = 0 /\ Got' = {} /\ Len(got') = 0
    BY <1>2, <1>6, EmptySeq DEF Goto, Got, ToSet
  <2>2. Count' \in Nat
    BY <1>6, NumberTypes DEF Goto, callData, Count
  <2>3. InLine'
    <3>1. Rising(got') /\ Rising(rx') /\ Rising(Numbers(tx'))
      BY <1>1, <2>1 DEF Rising, Numbers
    <3> QED
      BY <1>3, <2>1, <3>1 DEF InLine, Below
  <2>4. OwnNumbers'
    BY <1>1, <1>3, <2>1, <2>2 DEF OwnNumbers, ToSet
  <2>5. ShortLosesNothing'
    BY <1>4 DEF NoNumbers, ShortLosesNothing
  <2> QED
    BY <1>4, <1>6, <2>3, <2>4, <2>5 DEF ExchangeInv, Fresh, Goto
<1> QED
  BY <1>5, <1>6 DEF AfterFlush

\* An entry that has no number.
LEMMA UnnumberedKeeps ==
  ASSUME TypeOK, NoNumbers, NEW e \in EntrySet, e.index \notin Nat, Push(e)
  PROVE  NoNumbers'
<1>1. UNCHANGED <<shift, rx, lost>> /\ (tx' = tx \/ tx' = Append(tx, e))
  BY DEF Push
<1>2. Written' \subseteq Written \cup {e.index}
  <2>1. CASE tx' = tx
    BY <2>1 DEF Written
  <2>2. CASE tx' = Append(tx, e)
    <3>1. Numbers(tx') = Append(Numbers(tx), e.index)
      BY <2>2, NumberTypes, NumbersOfQueue
    <3>2. e.index \in Int
      BY DEF EntrySet, Indexes, Other, Word
    <3>3. \A i \in DOMAIN Numbers(tx') :
            \/ Numbers(tx')[i] = e.index
            \/ i \in DOMAIN Numbers(tx) /\ Numbers(tx')[i] = Numbers(tx)[i]
      <4>1. Numbers(tx) \in Seq(Int)
        BY NumberTypes
      <4>2. \A n \in Int :
              Numbers(tx') = Append(Numbers(tx), n) =>
                \A i \in DOMAIN Numbers(tx') :
                  \/ Numbers(tx')[i] = n
                  \/ i \in DOMAIN Numbers(tx) /\ Numbers(tx')[i] = Numbers(tx)[i]
        BY <4>1, AppendAdds
      <4> QED
        BY <3>1, <3>2, <4>2
    <3> QED
      BY <3>3 DEF Written, ToSet
  <2> QED
    BY <1>1, <2>1, <2>2
<1>3. Shifted' = Shifted
  BY <1>1 DEF Shifted, Numbers
<1> QED
  BY <1>1, <1>2, <1>3 DEF NoNumbers

\* Every step keeps ExchangeInv.
LEMMA StepKeepsExchange ==
  ASSUME Pulsed, TypeOK, CallInv, BlockingInv, ExchangeInv, [Next]_vars
  PROVE  ExchangeInv'
<1> USE DEF callData
<1>1. CASE \E k \in Kinds, n, r \in Lengths : Start(k, n, r)
  <2>1. /\ step = "none" /\ UNCHANGED <<device, txIndex, got>> /\ step' \in {"flush", "push"}
        /\ step' = "push" => kind' = "blockingWrite"
    BY <1>1 DEF Start, First, CallInv, portVars, device
  <2>2. ~ Exchanging /\ ~ Exchanging'
    BY <2>1 DEF Exchanging, Transfers
  <2>3. NoNumbers'
    BY <2>1, <2>2 DEF ExchangeInv, NoNumbers, Shifted, Written, Numbers, device
  <2> QED
    BY <2>1, <2>2, <2>3 DEF ExchangeInv, Fresh
<1>2. CASE TestBusy
  <2>1. CASE Goto("store") /\ UNCHANGED device
    BY <1>2, <2>1, ExchangeUntouched DEF TestBusy, At, Goto, Exchanging
  <2>2. CASE ~ Busy /\ AfterFlush
    BY <1>2, <2>2, FlushKeepsExchange DEF TestBusy, At
  <2> QED
    BY <1>2, <2>1, <2>2 DEF TestBusy
<1>3. CASE FlushStores \/ FlushLoads \/ FlushEnables
  BY <1>3, ExchangeUntouched
  DEF FlushStores, FlushLoads, FlushEnables, At, Goto, Park, Exchanging, portVars, device
<1>4. CASE PushWrite
  <2>1. CASE WriteEntry("push")
    <3>1. kind \in Writes /\ kind' = kind /\ step' = "push" /\ kind \notin Transfers
      BY <1>4, <2>1 DEF PushWrite, WriteEntry, Writes, Transfers
    <3>2. /\ Entry(Other, EmptyRemainder(txIndex)) \in EntrySet
          /\ Entry(Other, EmptyRemainder(txIndex)).index \notin Nat
      <4>1. EmptyRemainder(txIndex) \in BOOLEAN
        BY DEF EmptyRemainder
      <4> QED
        BY <4>1, EntryType DEF Indexes, Other
    <3>3. Push(Entry(Other, EmptyRemainder(txIndex)))
      BY <2>1, <3>1 DEF WriteEntry
    <3>4. NoNumbers
      BY <3>1 DEF ExchangeInv, Exchanging
    <3>5. NoNumbers'
      BY <3>2, <3>3, <3>4, UnnumberedKeeps
    <3> QED
      BY <3>1, <3>5 DEF ExchangeInv, Exchanging, Fresh
  <2>2. CASE Goto("empty") /\ UNCHANGED device
    BY <1>4, <2>2, ExchangeUntouched DEF PushWrite, At, Goto, Exchanging
  <2> QED
    BY <1>4, <2>1, <2>2, ReturnKeepsExchange DEF PushWrite
<1>5. CASE PushBlocking
  <2>1. CASE txIndex # Count /\ WriteEntry("take")
    <3>1. kind \in Transfers /\ Exchanging /\ Outstanding = 0
      BY <1>5 DEF PushBlocking, At, Transfers, Exchanging, BlockingInv
    <3>2. Len(tx) < Fifo /\ ~ overflow
      BY <3>1, NumberTypes, SpiAssumption DEF Outstanding, BlockingInv
    <3>3. InLine /\ OwnNumbers /\ ShortLosesNothing /\ txIndex < Count
      BY <2>1, <3>1, NumberTypes DEF ExchangeInv, OwnNumbers
    <3>4. InLine' /\ OwnNumbers' /\ ShortLosesNothing'
      BY <2>1, <3>1, <3>2, <3>3, WriteKeepsLine
    <3> QED
      BY <2>1, <3>1, <3>4 DEF ExchangeInv, Exchanging, WriteEntry, Fresh
  <2> QED
    BY <1>5, <2>1, ReturnKeepsExchange DEF PushBlocking
<1>6. CASE PushTransfer
  <2>1. CASE Len(tx) < Fifo /\ txIndex < Count /\ WriteEntry("push")
    <3>1. kind \in Transfers /\ Exchanging /\ ~ overflow
      BY <1>6 DEF PushTransfer, At, Transfers, Exchanging, BlockingInv
    <3>2. InLine' /\ OwnNumbers' /\ ShortLosesNothing'
      BY <2>1, <3>1, WriteKeepsLine DEF ExchangeInv
    <3> QED
      BY <2>1, <3>1, <3>2 DEF ExchangeInv, Exchanging, WriteEntry, Fresh
  <2>2. CASE Goto("empty") /\ UNCHANGED device
    BY <1>6, <2>2, ExchangeUntouched DEF PushTransfer, At, Goto, Exchanging
  <2> QED
    BY <1>6, <2>1, <2>2 DEF PushTransfer
<1>7. ASSUME NEW next \in {"push", "take"}, Store(next), step = "take", kind \in Transfers
      PROVE  ExchangeInv'
  <2>1. InLine' /\ OwnNumbers' /\ ShortLosesNothing'
    BY <1>7, TakeKeepsLine DEF ExchangeInv, Exchanging
  <2> QED
    BY <1>7, <2>1 DEF Store, ExchangeInv, Exchanging, Fresh
<1>8. CASE TakeBlocking
  BY <1>7, <1>8 DEF TakeBlocking, At, Transfers
<1>9. CASE TakeAnswer
  <2>1. CASE UNCHANGED device /\ Goto(IF txIndex = Count THEN "done" ELSE "push")
    BY <1>9, <2>1, ExchangeUntouched DEF TakeAnswer, At, Goto, Exchanging
  <2>2. CASE Store("take")
    BY <1>7, <1>9, <2>2 DEF TakeAnswer, At, Transfers
  <2> QED
    BY <1>9, <2>1, <2>2, ReturnKeepsExchange DEF TakeAnswer
<1>10. ASSUME NEW interrupt \in Interrupts, Wait(interrupt)
       PROVE  ExchangeInv'
  BY <1>10, ExchangeUntouched DEF Wait, At, Park, Register, Exchanging, Interrupts
<1>11. CASE Repoll \/ Yield \/ \E t \in Tasks : PollTask(t) \/ WakeOther(t)
  BY <1>11, ExchangeUntouched
  DEF Repoll, Yield, PollTask, WakeOther, Exchanging, callVars, portVars, device
<1>12. CASE Cancel
  <2>1. NoNumbers' /\ Over
    BY <1>12, DisownLeavesNoNumbers DEF Cancel, End
  <2> QED
    BY <2>1 DEF Over, ExchangeInv, Exchanging, Transfers, Fresh
<1>13. CASE NbWrite \/ NbRead \/ ClearFifos
  <2>1. /\ ~ Exchanging /\ ~ Exchanging' /\ UNCHANGED <<txIndex, got, step>>
    BY <1>13 DEF NbWrite, NbRead, ClearFifos, CallInv, callVars, Exchanging, Transfers
  <2>2. NoNumbers
    BY <2>1 DEF ExchangeInv
  <2>3. CASE NbWrite
    <3>1. Entry(Word, FALSE) \in EntrySet /\ Entry(Word, FALSE).index \notin Nat
      <4>1. Word \in Indexes
        BY DEF Indexes
      <4>2. Entry(Word, FALSE) \in EntrySet /\ Entry(Word, FALSE).index = Word
        BY <4>1, EntryType
      <4>3. Word \notin Nat
        BY DEF Word
      <4> QED
        BY <4>2, <4>3
    <3>2. NoNumbers'
      BY <2>2, <2>3, <3>1, UnnumberedKeeps DEF NbWrite
    <3> QED
      BY <2>1, <3>2 DEF ExchangeInv, Fresh
  <2>4. CASE NbRead \/ ClearFifos
    <3>1. UNCHANGED <<shift, lost>> /\ (tx' = tx \/ tx' = <<>>)
      BY <2>4 DEF NbRead, ClearFifos, Take, Clear
    <3>2. NoNumbers'
      BY <2>2, <3>1 DEF NoNumbers, Shifted, Written, Numbers, ToSet
    <3> QED
      BY <2>1, <3>2 DEF ExchangeInv, Fresh
  <2> QED
    BY <1>13, <2>3, <2>4
<1>14. CASE Device
  <2>1. Exchanging' = Exchanging /\ Fresh' /\ UNCHANGED callVars
    BY <1>14 DEF Device, callVars, Exchanging, ExchangeInv, Fresh
  <2>2. CASE Load
    <3>1. ShortLosesNothing => ShortLosesNothing'
      BY <2>1, <2>2 DEF Load, ShortLosesNothing, Count, EmptyRemainder, callVars
    <3> QED
      BY <2>1, <2>2, <3>1, LoadKeepsLine DEF ExchangeInv
  <2>3. CASE Complete
    BY <2>1, <2>3, CompleteKeepsLine DEF ExchangeInv
  <2> QED
    BY <1>14, <2>2, <2>3 DEF Device
<1>15. CASE Dispatch
  BY <1>15, ExchangeUntouched DEF Dispatch, Handle, Exchanging, callVars
<1>16. CASE UNCHANGED vars
  BY <1>16, ExchangeUntouched DEF vars, portVars, callVars, device, Exchanging
<1> QED
  BY <1>1, <1>2, <1>3, <1>4, <1>5, <1>6, <1>8, <1>9, <1>10, <1>11, <1>12, <1>13, <1>14,
     <1>15, <1>16 DEF Next, ThreadStep

LEMMA ExchangeAlways ==
  ASSUME Pulsed
  PROVE  Spec => [](TypeOK /\ ExchangeInv)
<1>1. Init => CallInv /\ WakeInv /\ BlockingInv /\ ExchangeInv
  <2> SUFFICES ASSUME Init PROVE CallInv /\ WakeInv /\ BlockingInv /\ ExchangeInv
    OBVIOUS
  <2>1. CallInv /\ WakeInv /\ BlockingInv
    BY DEF Init, PortInit, NoCall, CallInv, WakeInv, Armed, BlockingInv
  <2>2. NoNumbers /\ Fresh
    BY DEF Init, PortInit, NoCall, NoNumbers, Fresh, Shifted, Written, Numbers, ToSet
  <2>3. ~ Exchanging
    BY DEF Init, NoCall, Exchanging, Transfers
  <2> QED
    BY <2>1, <2>2, <2>3 DEF ExchangeInv
<1>2. TypeOK /\ CallInv /\ WakeInv /\ BlockingInv /\ ExchangeInv /\ [Next]_vars
        => (CallInv /\ WakeInv /\ BlockingInv /\ ExchangeInv)'
  BY StepWaits, StepDropsNothing, StepKeepsExchange
<1> QED
  BY <1>1, <1>2, TypeCorrect, PTL DEF Spec

\* spi.rs:183-199, 322-337: when a transfer is about to return, every chunk
\* holds the answer to its own entry, with any FIFO, any length, any answers
\* lost and whatever calls, dropped or not, came before, in a build that keeps
\* both writes of clear_fifos.
THEOREM AnswersAreOwn ==
  ASSUME Pulsed
  PROVE  Spec => []AnswersInPlace
<1>1. TypeOK /\ ExchangeInv => AnswersInPlace
  BY FullIsInPlace DEF ExchangeInv, Exchanging, AnswersInPlace
<1> QED
  BY <1>1, ExchangeAlways, PTL

\* spi.rs:15, 352-366: a transfer of no more entries than the FIFO is deep
\* loses no answer but that of an empty remainder, however it is polled, in a
\* build that keeps both writes of clear_fifos.
THEOREM ShortTransfersAreSafe ==
  ASSUME Pulsed
  PROVE  Spec => []ShortLosesNothing
<1>1. ExchangeInv => ShortLosesNothing
  BY DEF ExchangeInv, NoNumbers, ShortLosesNothing
<1> QED
  BY <1>1, ExchangeAlways, PTL

-----------------------------------------------------------------------------
(* One byte of an entry of the SPI.                                        *)

\* spi.rs:509, 513: no two bytes of a chunk share a bit of the entry, and bit
\* b of byte i is bit b + Place of it.
LEMMA BitOfByte ==
  ASSUME NEW s \in Slices, NEW msFirst \in BOOLEAN,
         NEW i \in 1 .. Len(s), NEW b \in 0 .. 7,
         b + Place(i, Len(s), msFirst) < 24
  PROVE  b + Place(i, Len(s), msFirst) \in ToEntry(s, msFirst) <=> b \in s[i]
<1>1. PICK n \in 0 .. 3 : s \in [1 .. n -> Bytes]
  BY DEF Slices
<1>2. Len(s) = n /\ DOMAIN s = 1 .. n
  BY <1>1
<1>3. \A k \in 1 .. n : s[k] \subseteq 0 .. 7
  BY <1>1 DEF Bytes
<1>4. b + Place(i, n, msFirst) \notin LengthField(n)
  BY <1>2 DEF LengthField
<1>5. ASSUME NEW k \in 1 .. n, NEW c \in s[k],
             c + Place(k, n, msFirst) = b + Place(i, n, msFirst)
      PROVE  k = i /\ c = b
  <2>1. c \in 0 .. 7 /\ i \in 1 .. 3 /\ k \in 1 .. 3 /\ i \in 1 .. n
    BY <1>2, <1>3
  <2>2. CASE msFirst
    BY <1>5, <2>1, <2>2 DEF Place
  <2>3. CASE ~ msFirst
    BY <1>5, <2>1, <2>3 DEF Place
  <2> QED
    BY <2>2, <2>3
<1>6. b + Place(i, n, msFirst) \in 0 .. 31
  BY <1>2 DEF Place
<1>7. b + Place(i, n, msFirst) \in ToEntry(s, msFirst)
        <=> \E k \in 1 .. n : \E c \in s[k] : b + Place(i, n, msFirst) = c + Place(k, n, msFirst)
  BY <1>2, <1>4, <1>6 DEF ToEntry, ByteBits
<1>8. i \in 1 .. n
  BY <1>2
<1> QED
  BY <1>2, <1>5, <1>7, <1>8

\* What a byte is read back as, if its eight bits are below the length field.
LEMMA ByteReadBack ==
  ASSUME NEW s \in Slices, NEW msFirst \in BOOLEAN, NEW i \in 1 .. Len(s),
         \A b \in 0 .. 7 : b + Place(i, Len(s), msFirst) \in DataBits
  PROVE  FromEntry(Data(ToEntry(s, msFirst)), Len(s), msFirst)[i] = s[i]
<1>1. s[i] \subseteq 0 .. 7
  <2>1. PICK n \in 0 .. 3 : s \in [1 .. n -> Bytes]
    BY DEF Slices
  <2> QED
    BY <2>1 DEF Bytes
<1>2. \A b \in 0 .. 7 :
        b + Place(i, Len(s), msFirst) \in Data(ToEntry(s, msFirst)) <=> b \in s[i]
  <2> TAKE b \in 0 .. 7
  <2>1. b + Place(i, Len(s), msFirst) \in DataBits
    OBVIOUS
  <2>2. b + Place(i, Len(s), msFirst) < 24
    BY <2>1 DEF DataBits
  <2> QED
    BY <2>1, <2>2, BitOfByte DEF Data
<1>3. FromEntry(Data(ToEntry(s, msFirst)), Len(s), msFirst)[i]
        = {b \in 0 .. 7 : b + Place(i, Len(s), msFirst) \in Data(ToEntry(s, msFirst))}
  BY DEF FromEntry
<1> QED
  BY <1>1, <1>2, <1>3

-----------------------------------------------------------------------------
(* The entries of the SPI.                                                 *)

\* spi.rs:511-515, 527-530: least significant first, the device gets every
\* byte of a chunk, and what comes back is copied to the same bytes.
THEOREM LeastFirstRoundTrip ==
  \A s \in Slices : FromEntry(Data(ToEntry(s, FALSE)), Len(s), FALSE) = s
<1> TAKE s \in Slices
<1>1. PICK n \in 0 .. 3 : s \in [1 .. n -> Bytes] /\ Len(s) = n
  BY DEF Slices
<1>2. ASSUME NEW i \in 1 .. Len(s)
      PROVE  FromEntry(Data(ToEntry(s, FALSE)), Len(s), FALSE)[i] = s[i]
  <2>1. \A b \in 0 .. 7 : b + Place(i, Len(s), FALSE) \in DataBits
    BY <1>1 DEF Place, DataBits
  <2> QED
    BY <2>1, ByteReadBack
<1> QED
  BY <1>1, <1>2 DEF FromEntry

\* spi.rs:507-510, 523-526: most significant first, so does a chunk of one or
\* two bytes; of a full chunk the first byte is shifted over the length field
\* and does not come back.
THEOREM MostFirstLosesTheFirst ==
  \A s \in Slices :
    LET back == FromEntry(Data(ToEntry(s, TRUE)), Len(s), TRUE) IN
    /\ Len(s) < 3 => back = s
    /\ Len(s) = 3 => back = [s EXCEPT ![1] = {}]
<1> TAKE s \in Slices
<1> DEFINE back == FromEntry(Data(ToEntry(s, TRUE)), Len(s), TRUE)
<1>1. PICK n \in 0 .. 3 : s \in [1 .. n -> Bytes] /\ Len(s) = n
  BY DEF Slices
<1>2. ASSUME NEW i \in 1 .. Len(s), Len(s) < 3 \/ i > 1
      PROVE  back[i] = s[i]
  <2>1. \A b \in 0 .. 7 : b + Place(i, Len(s), TRUE) \in DataBits
    BY <1>1, <1>2 DEF Place, DataBits
  <2> QED
    BY <2>1, ByteReadBack
<1>3. ASSUME Len(s) = 3
      PROVE  back[1] = {}
  <2>0. Place(1, 3, TRUE) = 24
    BY DEF Place
  <2>1. \A b \in 0 .. 7 : b + Place(1, 3, TRUE) \notin Data(ToEntry(s, TRUE))
    <3>1. \A b \in 0 .. 7 : b + 24 \notin DataBits
      BY DEF DataBits
    <3>2. Data(ToEntry(s, TRUE)) \subseteq DataBits
      BY DEF Data
    <3> QED
      BY <2>0, <3>1, <3>2
  <2>2. back[1] = {b \in 0 .. 7 : b + Place(1, 3, TRUE) \in Data(ToEntry(s, TRUE))}
    BY <1>3 DEF FromEntry
  <2> QED
    BY <2>1, <2>2
<1>4. back = [i \in 1 .. Len(s) |-> back[i]] /\ s = [i \in 1 .. Len(s) |-> s[i]]
  BY <1>1 DEF FromEntry
<1>5. Len(s) < 3 => back = s
  BY <1>2, <1>4
<1>6. ASSUME Len(s) = 3
      PROVE  back = [s EXCEPT ![1] = {}]
  <2>1. s \in [1 .. 3 -> Bytes]
    BY <1>1, <1>6
  <2>3. back = [i \in 1 .. 3 |-> back[i]]
    BY <1>4, <1>6
  <2> HIDE DEF back
  <2>2. \A i \in 1 .. 3 : back[i] = [s EXCEPT ![1] = {}][i]
    BY <1>2, <1>3, <1>6, <2>1
  <2> QED
    BY <2>1, <2>2, <2>3
<1> QED
  BY <1>5, <1>6

\* spi.rs:507-510, 517: the length the device reads is the one of the chunk,
\* unless the chunk is full, most significant first, and its first byte has a
\* bit that the length field has not.
THEOREM LengthReachesTheDevice ==
  \A s \in Slices, msFirst \in BOOLEAN :
    Length(ToEntry(s, msFirst)) = LengthField(Len(s))
      <=> (msFirst /\ Len(s) = 3 => s[1] \subseteq {0, 1})
<1> TAKE s \in Slices, msFirst \in BOOLEAN
<1>1. PICK n \in 0 .. 3 : s \in [1 .. n -> Bytes] /\ Len(s) = n
  BY DEF Slices
<1> DEFINE byteBits == ByteBits(s, msFirst)
<1>2. ToEntry(s, msFirst) = byteBits \cup LengthField(n)
  BY <1>1 DEF ToEntry
<1>7. \A bit : bit \in byteBits <=>
        bit \in 0 .. 31 /\ \E k \in 1 .. n : \E c \in s[k] : bit = c + Place(k, n, msFirst)
  BY <1>1 DEF ByteBits
<1> HIDE DEF byteBits
<1>3. LengthField(n) \subseteq LengthBits
  BY DEF LengthField, LengthBits
<1>4. \A k \in 1 .. n : s[k] \subseteq 0 .. 7
  BY <1>1 DEF Bytes
<1>5. CASE ~ (msFirst /\ n = 3)
  <2>1. ASSUME NEW k \in 1 .. n, NEW c \in s[k]
        PROVE  c + Place(k, n, msFirst) \notin LengthBits
    <3>1. c \in 0 .. 7 /\ k \in 1 .. 3
      BY <1>4
    <3> QED
      BY <1>5, <3>1 DEF Place, LengthBits
  <2>2. byteBits \cap LengthBits = {}
    BY <1>7, <2>1
  <2> QED
    BY <1>1, <1>2, <1>3, <1>5, <2>2 DEF Length
<1>6. CASE msFirst /\ n = 3
  <2>1. ASSUME NEW k \in 1 .. n, NEW c \in s[k]
        PROVE  c + Place(k, n, msFirst) \in LengthBits <=> k = 1
    <3>1. c \in 0 .. 7 /\ k \in 1 .. 3
      BY <1>4
    <3> QED
      BY <1>6, <3>1 DEF Place, LengthBits
  <2>2. \A c \in s[1] : c \in 0 .. 7 /\ c + Place(1, n, msFirst) = c + 24
    BY <1>4, <1>6 DEF Place
  <2>3. \A bit : bit \in byteBits \cap LengthBits <=> \E c \in s[1] : bit = c + 24
    <3>1. 1 \in 1 .. n
      BY <1>6
    <3>2. \A c \in s[1] : c + 24 \in LengthBits /\ c + 24 \in 0 .. 31
      BY <2>2 DEF LengthBits
    <3>3. \A c \in s[1] : c + 24 \in byteBits
      BY <1>7, <2>2, <3>1, <3>2
    <3>4. ASSUME NEW bit \in byteBits \cap LengthBits
          PROVE  \E c \in s[1] : bit = c + 24
      <4>1. PICK k \in 1 .. n : \E c \in s[k] : bit = c + Place(k, n, msFirst)
        BY <1>7
      <4>2. k = 1
        BY <2>1, <4>1
      <4> QED
        BY <2>2, <4>1, <4>2
    <3> QED
      BY <3>2, <3>3, <3>4
  <2>4. LengthField(n) = {24, 25}
    BY <1>6 DEF LengthField
  <2>5. \A bit : bit \in Length(ToEntry(s, msFirst))
                   <=> bit \in {24, 25} \/ \E c \in s[1] : bit = c + 24
    BY <1>2, <1>3, <2>3, <2>4 DEF Length
  <2>6. ASSUME s[1] \subseteq {0, 1}
        PROVE  Length(ToEntry(s, msFirst)) = {24, 25}
    BY <2>5, <2>6
  <2>7. ASSUME NEW c \in s[1], c \notin {0, 1}
        PROVE  c + 24 \in Length(ToEntry(s, msFirst)) /\ c + 24 \notin {24, 25}
    BY <2>2, <2>5, <2>7
  <2> QED
    BY <1>1, <1>6, <2>4, <2>6, <2>7
<1> QED
  BY <1>5, <1>6

=============================================================================
