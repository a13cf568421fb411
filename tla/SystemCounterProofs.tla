------------------------- MODULE SystemCounterProofs -------------------------
(***************************************************************************)
(* Theorems about SystemCounter, for every width of the registers and any  *)
(* number of contexts.                                                     *)
(***************************************************************************)
EXTENDS SystemCounter, TLAPS

\* A call that is past its first read has a high word the counter had since
\* the call began; past the second, the low word that went with highAtLo[r].
CallInv ==
  \A r \in Readers :
    /\ NotAfter(start[r], counter)
    /\ pc[r] \in {"lo", "check"} => start[r][1] <= hi[r] /\ hi[r] <= chi
    /\ pc[r] = "check" =>
         /\ hi[r] <= highAtLo[r]
         /\ NotAfter(start[r], <<highAtLo[r], lo[r]>>)
         /\ NotAfter(<<highAtLo[r], lo[r]>>, counter)

\* A returned value is in the past, and not later than a call in progress.
ValueInv ==
  \A r \in Readers :
    /\ NotAfter(value[r], counter)
    /\ pc[r] = "idle" => NotAfter(start[r], value[r])
    /\ pc[r] # "idle" => NotAfter(value[r], start[r])

IInv == TypeOK /\ CallInv /\ ValueInv

\* The order of the counts is transitive.
LEMMA NotAfterTransitive ==
  ASSUME NEW a \in Counts, NEW b \in Counts, NEW c \in Counts,
         NotAfter(a, b), NotAfter(b, c)
  PROVE  NotAfter(a, c)
BY CounterAssumption DEF NotAfter, Counts, Highs, Halves

\* The counter is a count, and it only goes forward.
LEMMA CounterAdvances ==
  ASSUME TypeOK, Tick
  PROVE  /\ counter \in Counts /\ counter' \in Counts
         /\ NotAfter(counter, counter')
         /\ chi <= chi'
BY CounterAssumption DEF TypeOK, Tick, counter, Counts, Highs, Halves, NotAfter

\* The counter and every call begin at zero.
LEMMA InvInit == Init => IInv
<1> SUFFICES ASSUME Init PROVE IInv
  OBVIOUS
<1>1. 0 \in Highs /\ 0 \in Halves /\ <<0, 0>> \in Counts
  BY CounterAssumption DEF Highs, Halves, Counts
<1>2. TypeOK
  BY <1>1 DEF Init, TypeOK
<1>3. CallInv /\ ValueInv
  BY DEF Init, CallInv, ValueInv, counter, NotAfter
<1> QED
  BY <1>2, <1>3 DEF IInv

\* Ticks and reads, in any order, keep IInv.
LEMMA InvIsInductive == IInv /\ [Next]_vars => IInv'
<1> SUFFICES ASSUME IInv, [Next]_vars PROVE IInv'
  OBVIOUS
<1> USE DEF IInv
<1>1. CASE Tick
  <2>1. TypeOK'
    BY <1>1, CounterAssumption DEF Tick, TypeOK, Highs, Halves
  <2>2. \A c \in Counts : NotAfter(c, counter) => NotAfter(c, counter')
    BY <1>1, CounterAdvances, NotAfterTransitive
  <2>3. ASSUME NEW r \in Readers
        PROVE  /\ start[r] \in Counts /\ value[r] \in Counts
               /\ <<highAtLo[r], lo[r]>> \in Counts
               /\ hi[r] \in Highs /\ highAtLo[r] \in Highs
               /\ chi \in Highs /\ chi' \in Highs /\ chi <= chi'
    BY <1>1, <2>1, CounterAdvances DEF TypeOK, Counts
  <2>4. UNCHANGED <<pc, hi, lo, value, start, highAtLo>>
    BY <1>1 DEF Tick
  <2>5. CallInv'
    BY <2>2, <2>3, <2>4 DEF CallInv, Highs
  <2>6. ValueInv'
    BY <2>2, <2>3, <2>4 DEF ValueInv
  <2> QED
    BY <2>1, <2>5, <2>6
<1>2. ASSUME NEW r \in Readers, Call(r) PROVE IInv'
  <2>1. TypeOK'
    BY <1>2 DEF Call, TypeOK, counter, Counts
  <2>2. CallInv'
    BY <1>2, CounterAssumption DEF Call, CallInv, TypeOK, counter, NotAfter, Highs, Halves
  <2>3. ValueInv'
    BY <1>2 DEF Call, ValueInv, TypeOK, counter
  <2> QED
    BY <2>1, <2>2, <2>3
<1>3. ASSUME NEW r \in Readers, ReadHi(r) PROVE IInv'
  <2>1. TypeOK'
    BY <1>3 DEF ReadHi, TypeOK
  <2>2. start[r][1] <= chi /\ chi <= chi
    BY CounterAssumption DEF CallInv, TypeOK, counter, NotAfter, Counts, Highs
  <2>3. CallInv'
    BY <1>3, <2>2 DEF ReadHi, CallInv, TypeOK, counter
  <2>4. ValueInv'
    BY <1>3 DEF ReadHi, ValueInv, TypeOK, counter
  <2> QED
    BY <2>1, <2>3, <2>4
<1>4. ASSUME NEW r \in Readers, ReadLo(r) PROVE IInv'
  <2>1. TypeOK'
    BY <1>4 DEF ReadLo, TypeOK
  <2>2. NotAfter(counter, counter)
    BY CounterAssumption DEF TypeOK, counter, NotAfter, Highs, Halves
  <2>3. CallInv'
    BY <1>4, <2>2 DEF ReadLo, CallInv, TypeOK, counter
  <2>4. ValueInv'
    BY <1>4 DEF ReadLo, ValueInv, TypeOK, counter
  <2> QED
    BY <2>1, <2>3, <2>4
<1>5. ASSUME NEW r \in Readers, Check(r) PROVE IInv'
  <2>1. TypeOK'
    <3>1. <<hi[r], lo[r]>> \in Counts
      BY DEF TypeOK, Counts
    <3>2. pc' \in [Readers -> {"idle", "hi", "lo", "check"}]
      BY <1>5 DEF Check, TypeOK
    <3>3. value' \in [Readers -> Counts]
      BY <1>5, <3>1 DEF Check, TypeOK
    <3> QED
      BY <1>5, <3>2, <3>3 DEF Check, TypeOK
  <2>2. CallInv'
    BY <1>5 DEF Check, CallInv, TypeOK, counter
  <2>3. CASE chi # hi[r]
    <3>1. /\ pc' = [pc EXCEPT ![r] = "hi"]
          /\ UNCHANGED <<chi, clo, value, start>>
      BY <1>5, <2>3 DEF Check
    <3>2. ValueInv'
      BY <1>5, <3>1 DEF Check, ValueInv, TypeOK, counter
    <3> QED
      BY <2>1, <2>2, <3>2
  <2>4. CASE chi = hi[r]
    <3>1. highAtLo[r] = hi[r]
      BY <1>5, <2>4, CounterAssumption
      DEF Check, CallInv, TypeOK, counter, NotAfter, Highs
    <3>2. /\ NotAfter(start[r], <<hi[r], lo[r]>>)
          /\ NotAfter(<<hi[r], lo[r]>>, counter)
      BY <1>5, <3>1 DEF Check, CallInv
    <3>3. ValueInv'
      BY <1>5, <2>4, <3>2 DEF Check, ValueInv, TypeOK, counter
    <3> QED
      BY <2>1, <2>2, <3>3
  <2> QED
    BY <2>1, <2>2, <2>3, <2>4
<1>6. CASE UNCHANGED vars
  BY <1>6 DEF vars, TypeOK, CallInv, ValueInv, counter
<1> QED
  BY <1>1, <1>2, <1>3, <1>4, <1>5, <1>6 DEF Next

LEMMA InvHolds == Spec => []IInv
BY InvInit, InvIsInductive, PTL DEF Spec

\* The registers and the calls are well formed.
THEOREM TypeCorrect == Spec => []TypeOK
<1>1. IInv => TypeOK
  BY DEF IInv
<1> QED
  BY <1>1, InvHolds, PTL

\* driver.rs:88-103: `now` is linearizable, for registers of any width.
THEOREM NowIsSnapshot == Spec => []Snapshot
<1>1. IInv => Snapshot
  BY DEF IInv, ValueInv, Snapshot
<1> QED
  BY <1>1, InvHolds, PTL

\* driver.rs:88-103: `now` never goes backward in a context.
THEOREM NowIsMonotone == Spec => Monotone
<1>1. IInv /\ IInv' /\ [Next]_vars => [\A r \in Readers : NotAfter(value[r], value'[r])]_vars
  <2> SUFFICES ASSUME IInv, IInv', Next, NEW r \in Readers
               PROVE  NotAfter(value[r], value'[r])
    OBVIOUS
  <2>1. value[r] \in Counts /\ value'[r] \in Counts /\ start[r] \in Counts
    BY DEF IInv, TypeOK
  <2>2. CASE value'[r] = value[r]
    BY <2>1, <2>2, CounterAssumption DEF NotAfter, Counts, Highs, Halves
  <2>3. CASE value'[r] # value[r]
    <3>1. Check(r) /\ pc[r] = "check" /\ pc'[r] = "idle" /\ start'[r] = start[r]
      BY <2>3 DEF Next, Tick, Call, ReadHi, ReadLo, Check, IInv, TypeOK
    <3>2. NotAfter(value[r], start[r]) /\ NotAfter(start[r], value'[r])
      BY <3>1 DEF IInv, ValueInv
    <3> QED
      BY <2>1, <3>2, NotAfterTransitive
  <2> QED
    BY <2>2, <2>3
<1> QED
  BY <1>1, InvHolds, PTL DEF Spec, Monotone

=============================================================================
