-------------------------------- MODULE Mmu ---------------------------------
(***************************************************************************)
(* src/mmu.rs: the translation table, one descriptor per MB, computed at   *)
(* compile time, and the encoding of a descriptor.  As in SpiEntry a word  *)
(* is the set of its bits that are 1.                                      *)
(***************************************************************************)
EXTENDS Integers

-----------------------------------------------------------------------------
(* Descriptors.                                                            *)

Policies == {"NonCacheable", "WriteThrough", "WriteBack", "WriteAllocate"}

MemoryTypes ==
  [class : {"Normal"}, inner : Policies, outer : Policies, shareable : BOOLEAN]
    \cup [class : {"Device"}, shareable : BOOLEAN]
    \cup [class : {"StronglyOrdered"}]

Permissions ==
  {"NoAccess", "ReadOnlyUserNone", "ReadOnly", "ReadWriteUserNone",
   "ReadWriteUserReadOnly", "ReadWrite"}

\* SectionBaseAddress::Section, and all a descriptor is made from.
Attributes ==
  [base : SUBSET (0 .. 11), permissions : Permissions, execute : BOOLEAN,
   global : BOOLEAN, type : MemoryTypes]

Shareable(type) == type.class = "StronglyOrdered" \/ type.shareable

\* APX is bit 15, AP bits 10 and 11.
PermissionBits(p) ==
  CASE p = "NoAccess" -> {}
    [] p = "ReadOnlyUserNone" -> {15, 10}
    [] p = "ReadOnly" -> {15, 11}
    [] p = "ReadWriteUserNone" -> {10}
    [] p = "ReadWriteUserReadOnly" -> {11}
    [] p = "ReadWrite" -> {10, 11}

\* TEX is bits 12 to 14.
OuterBits(policy) ==
  CASE policy = "NonCacheable" -> {14}
    [] policy = "WriteThrough" -> {14, 13}
    [] policy = "WriteBack" -> {14, 13, 12}
    [] policy = "WriteAllocate" -> {14, 12}

\* C is bit 3, B bit 2.
InnerBits(policy) ==
  CASE policy = "NonCacheable" -> {}
    [] policy = "WriteThrough" -> {3}
    [] policy = "WriteBack" -> {3, 2}
    [] policy = "WriteAllocate" -> {2}

TypeBits(type) ==
  CASE type.class = "Normal" -> OuterBits(type.outer) \cup InnerBits(type.inner)
    [] type.class = "Device" -> IF type.shareable THEN {2} ELSE {13}
    [] type.class = "StronglyOrdered" -> {}

Flag(bit, condition) == IF condition THEN {bit} ELSE {}

\* SectionDescriptor::new.
Descriptor(a) ==
  {bit \in 20 .. 31 : bit - 20 \in a.base}
    \cup Flag(17, ~ a.global)
    \cup Flag(16, Shareable(a.type))
    \cup PermissionBits(a.permissions)
    \cup TypeBits(a.type)
    \cup Flag(4, ~ a.execute)
    \cup {1}

-----------------------------------------------------------------------------
(* The table, for any STACK_SIZE; all sizes are in MB.                     *)

TableSize == 4096
MmioStart == 512
MmioLen == 16
Sections == 0 .. TableSize - 1

StackSizes == 1 .. MmioStart - 1

\* STACK_TOP, 0xFFF00000, is the first address of section 4095.
StackTop == 4095
Stack(size) == StackTop - size .. StackTop - 1
Mmio == MmioStart .. MmioStart + MmioLen - 1

Normal(base) == [kind |-> "normal", base |-> base]
Device(base) == [kind |-> "device", base |-> base]
Disabled == [kind |-> "disabled", base |-> 0]

\* The three loops, each over indexes of its own.
Table(size) ==
  [i \in Sections |->
    IF i < MmioStart - size THEN Normal(i)
    ELSE IF i \in MmioStart .. MmioStart + MmioLen - 1 THEN Device(i)
    ELSE IF i \in TableSize - size - 1 .. TableSize - 2
           THEN Normal(i - (TableSize - MmioStart))
    ELSE Disabled]

Maps(size, i) == Table(size)[i].kind # "disabled"
Physical(size, i) == Table(size)[i].base

=============================================================================
