------------------------------ MODULE SpiEntry ------------------------------
(***************************************************************************)
(* src/aux/spi.rs: how up to three bytes become an entry of the transmit   *)
(* FIFO and how an answer becomes bytes again.  A word is the set of its   *)
(* bits that are 1, so that | is union and << adds to the bit numbers.     *)
(***************************************************************************)
EXTENDS Integers, Sequences

Bytes == SUBSET (0 .. 7)
Slices == UNION {[1 .. n -> Bytes] : n \in 0 .. 3}

\* The bits shifted in and out in variable mode; the rest is the length.
DataBits == 0 .. 23
LengthBits == 24 .. 31

\* How far byte i of a chunk of n is shifted; the code counts from 0.
Place(i, n, msFirst) == IF msFirst THEN (n - (i - 1)) * 8 ELSE (i - 1) * 8

\* (n as u32) << 24, for n at most 3.
LengthField(n) ==
  (IF n \in {1, 3} THEN {24} ELSE {}) \cup (IF n \in {2, 3} THEN {25} ELSE {})

ByteBits(slice, msFirst) ==
  {bit \in 0 .. 31 : \E i \in DOMAIN slice : \E b \in slice[i] :
                       bit = b + Place(i, Len(slice), msFirst)}

ToEntry(slice, msFirst) == ByteBits(slice, msFirst) \cup LengthField(Len(slice))

\* `as u8` keeps the low eight bits.
FromEntry(entry, n, msFirst) ==
  [i \in 1 .. n |-> {b \in 0 .. 7 : b + Place(i, n, msFirst) \in entry}]

\* What the device takes for the data and for the length of an entry.
Data(entry) == entry \cap DataBits
Length(entry) == entry \cap LengthBits

=============================================================================
