------------------------------ MODULE ByteLine ------------------------------
(***************************************************************************)
(* What a `Reader` promises to its callers: the bytes of the line are      *)
(* returned once, in the order they arrived.  A byte may be lost when the  *)
(* reader is behind, but then no later byte is returned before an Overrun  *)
(* has told of it, and there is no Overrun without a loss.  UartReader is  *)
(* shown to implement this module.                                         *)
(***************************************************************************)
EXTENDS Integers, Sequences

CONSTANTS
  Fifo,     \* a reader that is behind by fewer bytes loses none
  MaxBytes  \* bound on the bytes that arrive, for TLC

VARIABLES
  arrived,  \* the number of bytes that have arrived
  pending,  \* the bytes that are still to be returned, in order
  given,    \* the bytes that were returned, in order
  lost,     \* bytes that will not be returned
  told      \* those among them that the callers know of

vars == <<arrived, pending, given, lost, told>>

Init ==
  /\ arrived = 0
  /\ pending = <<>>
  /\ given = <<>>
  /\ lost = {}
  /\ told = {}

First(n) == {pending[i] : i \in 1 .. n}
Leave(n) == pending' = SubSeq(pending, n + 1, Len(pending))

Accept ==
  /\ arrived < MaxBytes
  /\ arrived' = arrived + 1
  /\ pending' = Append(pending, arrived + 1)
  /\ UNCHANGED <<given, lost, told>>

Lose ==
  /\ arrived < MaxBytes
  /\ Len(pending) >= Fifo
  /\ arrived' = arrived + 1
  /\ lost' = lost \cup {arrived + 1}
  /\ UNCHANGED <<pending, given, told>>

\* A call returns n bytes, all older than any loss that is not told of.
Return(n) ==
  /\ \A b \in lost \ told : pending[n] < b
  /\ given' = given \o SubSeq(pending, 1, n)
  /\ Leave(n)
  /\ UNCHANGED <<arrived, lost, told>>

\* A call returns Overrun, and gives up the n bytes it had taken.
Report(n) ==
  /\ told # lost
  /\ lost' = lost \cup First(n)
  /\ told' = lost'
  /\ Leave(n)
  /\ UNCHANGED <<arrived, given>>

\* A caller drops a call that has taken n bytes.
Drop(n) ==
  /\ lost' = lost \cup First(n)
  /\ told' = told \cup First(n)
  /\ Leave(n)
  /\ UNCHANGED <<arrived, given>>

Next ==
  \/ Accept
  \/ Lose
  \/ \E n \in 1 .. Len(pending) : Return(n) \/ Drop(n)
  \/ \E n \in 0 .. Len(pending) : Report(n)

Spec == Init /\ [][Next]_vars

=============================================================================
