---------------------------- MODULE SystemCounter ----------------------------
(***************************************************************************)
(* `SystemTimeDriver::now` (src/system_time/driver.rs): the 64-bit system  *)
(* timer is read as two 32-bit registers while it counts.  The main thread *)
(* and a handler that interrupts it may both be in the middle of a call.   *)
(***************************************************************************)
EXTENDS Integers

CONSTANTS
  Readers,  \* the contexts that call `now`
  Word,     \* the number of values of a register, 2^32
  MaxHigh   \* bound on CHI, for TLC: the counter stops there

ASSUME CounterAssumption ==
  /\ Word \in Nat \ {0}
  /\ MaxHigh \in Nat

VARIABLES
  chi, clo,  \* the registers CHI and CLO
  pc,        \* what a reader reads next
  hi, lo,    \* its local variables
  value,     \* what its last call returned
  start,     \* history: the counter when its call began
  highAtLo   \* history: CHI when it read CLO

vars == <<chi, clo, pc, hi, lo, value, start, highAtLo>>

Halves == 0 .. Word - 1
Highs == 0 .. MaxHigh
Counts == Highs \X Halves

counter == <<chi, clo>>

\* The order of the 64-bit values, high word first.
NotAfter(a, b) == a[1] < b[1] \/ (a[1] = b[1] /\ a[2] <= b[2])

TypeOK ==
  /\ chi \in Highs
  /\ clo \in Halves
  /\ pc \in [Readers -> {"idle", "hi", "lo", "check"}]
  /\ hi \in [Readers -> Highs]
  /\ lo \in [Readers -> Halves]
  /\ value \in [Readers -> Counts]
  /\ start \in [Readers -> Counts]
  /\ highAtLo \in [Readers -> Highs]

Init ==
  /\ chi = 0
  /\ clo = 0
  /\ pc = [r \in Readers |-> "idle"]
  /\ hi = [r \in Readers |-> 0]
  /\ lo = [r \in Readers |-> 0]
  /\ value = [r \in Readers |-> <<0, 0>>]
  /\ start = [r \in Readers |-> <<0, 0>>]
  /\ highAtLo = [r \in Readers |-> 0]

\* The timer counts; the high word moves when the low one wraps.
Tick ==
  /\ \/ clo < Word - 1 /\ clo' = clo + 1 /\ chi' = chi
     \/ clo = Word - 1 /\ chi < MaxHigh /\ clo' = 0 /\ chi' = chi + 1
  /\ UNCHANGED <<pc, hi, lo, value, start, highAtLo>>

Call(r) ==
  /\ pc[r] = "idle"
  /\ pc' = [pc EXCEPT ![r] = "hi"]
  /\ start' = [start EXCEPT ![r] = counter]
  /\ UNCHANGED <<chi, clo, hi, lo, value, highAtLo>>

ReadHi(r) ==
  /\ pc[r] = "hi"
  /\ hi' = [hi EXCEPT ![r] = chi]
  /\ pc' = [pc EXCEPT ![r] = "lo"]
  /\ UNCHANGED <<chi, clo, lo, value, start, highAtLo>>

\* Mutant: a register of one value more than it has.
ReadLoUnwrapped(r) ==
  /\ pc[r] = "lo"
  /\ lo' = [lo EXCEPT ![r] = clo + 1]
  /\ highAtLo' = [highAtLo EXCEPT ![r] = chi]
  /\ pc' = [pc EXCEPT ![r] = "check"]
  /\ UNCHANGED <<chi, clo, hi, value, start>>

ReadLo(r) ==
  /\ pc[r] = "lo"
  /\ lo' = [lo EXCEPT ![r] = clo]
  /\ highAtLo' = [highAtLo EXCEPT ![r] = chi]
  /\ pc' = [pc EXCEPT ![r] = "check"]
  /\ UNCHANGED <<chi, clo, hi, value, start>>

\* Mutant: the high word is not compared with the one read first.
CheckNothing(r) ==
  /\ pc[r] = "check"
  /\ pc' = [pc EXCEPT ![r] = "idle"]
  /\ value' = [value EXCEPT ![r] = <<hi[r], lo[r]>>]
  /\ UNCHANGED <<chi, clo, hi, lo, start, highAtLo>>

\* Mutant: the new high word is put over the old low word.
CheckReplaces(r) ==
  /\ pc[r] = "check"
  /\ pc' = [pc EXCEPT ![r] = "idle"]
  /\ value' = [value EXCEPT ![r] = <<chi, lo[r]>>]
  /\ UNCHANGED <<chi, clo, hi, lo, start, highAtLo>>

\* The high word is read again; if it moved the call starts over.
Check(r) ==
  /\ pc[r] = "check"
  /\ \/ /\ chi # hi[r]
        /\ pc' = [pc EXCEPT ![r] = "hi"]
        /\ UNCHANGED value
     \/ /\ chi = hi[r]
        /\ pc' = [pc EXCEPT ![r] = "idle"]
        /\ value' = [value EXCEPT ![r] = <<hi[r], lo[r]>>]
  /\ UNCHANGED <<chi, clo, hi, lo, start, highAtLo>>

Next ==
  \/ Tick
  \/ \E r \in Readers : Call(r)
  \/ \E r \in Readers : ReadHi(r)
  \/ \E r \in Readers : ReadLo(r)
  \/ \E r \in Readers : Check(r)

Spec == Init /\ [][Next]_vars

-----------------------------------------------------------------------------
(* Properties.                                                             *)

\* driver.rs:88-103: what a call returns is a value the counter had between
\* its begin and its end, wherever the low word wrapped in between.
Snapshot ==
  \A r \in Readers : pc[r] = "idle" =>
    NotAfter(start[r], value[r]) /\ NotAfter(value[r], counter)

\* driver.rs:88-103: the calls of a context never return an earlier time than
\* the one before.
Monotone == [][\A r \in Readers : NotAfter(value[r], value'[r])]_vars

=============================================================================
