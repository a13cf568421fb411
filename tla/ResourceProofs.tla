--------------------------- MODULE ResourceProofs ----------------------------
(***************************************************************************)
(* What belongs to whom.  Theorems about Ownership, for any pins,          *)
(* functions and numbers of Pins, and about the memory that the table of   *)
(* Mmu maps, for any size of the stack.                                    *)
(***************************************************************************)
EXTENDS Ownership, Mmu, FiniteSetTheorems, TLAPS

-----------------------------------------------------------------------------
(* Types.                                                                  *)

LEMMA PinsOfSides ==
  /\ \A side \in Sides : SidePins(side) \subseteq UsedPins
  /\ UsedPins \subseteq Pins
  /\ Uart \subseteq Sides
BY DEF Sides, Uart, SidePins, UsedPins, Pins

\* A call that is given Pins takes them from its caller.
LEMMA MovedTypes ==
  ASSUME TypeOK, NEW ps \in SUBSET Pins, Given(ps)
  PROVE  Moved(ps) \in [Pins -> [Functions -> 0 .. MaxHandles]]
BY OwnershipAssumption DEF TypeOK, Given, Moved

LEMMA EnableTypes ==
  ASSUME TypeOK, NEW ps \in SUBSET UsedPins, NEW sides \in SUBSET Sides,
         Given(ps), Enable(sides, ps)
  PROVE  TypeOK'
BY PinsOfSides, MovedTypes DEF TypeOK, Enable

LEMMA RefuseTypes ==
  ASSUME TypeOK, NEW ps \in SUBSET UsedPins, Given(ps), Refuse(ps)
  PROVE  TypeOK'
BY PinsOfSides, MovedTypes DEF TypeOK, Refuse

LEMMA DropTypes ==
  ASSUME TypeOK, NEW ps \in SUBSET UsedPins, NEW side \in Sides, Drop(side, ps)
  PROVE  TypeOK'
BY PinsOfSides DEF TypeOK, Drop, Unuse

LEMMA StepTypes == TypeOK /\ [Next]_vars => TypeOK'
<1> SUFFICES ASSUME TypeOK, [Next]_vars PROVE TypeOK'
  OBVIOUS
<1> USE OwnershipAssumption
<1>1. ASSUME NEW p \in Pins, NEW f \in Functions, GetPin(p, f) PROVE TypeOK'
  BY <1>1 DEF TypeOK, GetPin, Select
<1>2. ASSUME NEW p \in Pins, NEW f \in Functions, DropPin(p, f) PROVE TypeOK'
  BY <1>2 DEF TypeOK, DropPin
<1>3. ASSUME NEW side \in Uart, NEW p \in SidePins(side), Get(side, p) PROVE TypeOK'
  BY <1>3, PinsOfSides, EnableTypes, RefuseTypes DEF Get
<1>4. ASSUME NEW side \in Uart, NEW p \in SidePins(side), GetUnchecked(side, p)
      PROVE  TypeOK'
  BY <1>4, PinsOfSides, EnableTypes DEF GetUnchecked
<1>5. ASSUME NEW rp \in RxPins, NEW tp \in TxPins, Pair(rp, tp) PROVE TypeOK'
  BY <1>5, PinsOfSides, EnableTypes, RefuseTypes DEF Pair, UsedPins
<1>6. CASE GetSpi
  BY <1>6, EnableTypes, RefuseTypes DEF GetSpi, UsedPins, Sides
<1>7. ASSUME NEW side \in Uart, NEW p \in SidePins(side), Drop(side, {p}) PROVE TypeOK'
  BY <1>7, PinsOfSides, DropTypes
<1>8. CASE DropSpi
  BY <1>8, DropTypes DEF DropSpi, UsedPins, Sides
<1>9. CASE UNCHANGED vars
  BY <1>9 DEF TypeOK, vars, pinVars
<1> QED
  BY <1>1, <1>2, <1>3, <1>4, <1>5, <1>6, <1>7, <1>8, <1>9 DEF Next

\* Every variable keeps its type; MaxHandles bounds what may be got.
THEOREM TypeCorrect == Spec => []TypeOK
<1>1. Init => TypeOK
  BY OwnershipAssumption DEF Init, TypeOK
<1> QED
  BY <1>1, StepTypes, PTL DEF Spec

-----------------------------------------------------------------------------
(* The enable bits and their users.                                        *)

\* A direction has one user, the port all of its pins or none.
SideInv(side) ==
  /\ side \in control <=> \E p \in SidePins(side) : users[p] > 0
  /\ \A p \in SidePins(side) : users[p] <= 1
  /\ side \in Uart =>
       \A p, q \in SidePins(side) : users[p] > 0 /\ users[q] > 0 => p = q
  /\ side = "spi" => \A p, q \in SpiPins : users[p] = users[q]

UsersInv == \A side \in Sides : SideInv(side)

LEMMA SidesApart ==
  /\ \A s, t \in Sides : s # t => SidePins(s) \cap SidePins(t) = {}
  /\ SidePins("spi") = SpiPins
  /\ \A side \in Uart : side # "spi"
BY OwnershipAssumption DEF Sides, Uart, SidePins

\* A step that has nothing to do with a side.
LEMMA SideUntouched ==
  ASSUME NEW side \in Sides, SideInv(side), side \in control' <=> side \in control,
         \A p \in SidePins(side) : users'[p] = users[p]
  PROVE  SideInv(side)'
BY DEF SideInv, SidePins

\* A side nobody uses is enabled for one pin, or for all the pins of the port.
LEMMA SideTaken ==
  ASSUME TypeOK, NEW side \in Sides, NEW ps \in SUBSET UsedPins, NEW p \in SidePins(side),
         NEW sides, side \in sides, Enable(sides, ps),
         \A q \in SidePins(side) : users[q] = 0,
         ps \cap SidePins(side) = IF side = "spi" THEN SpiPins ELSE {p}
  PROVE  SideInv(side)'
<1>1. SidePins(side) \subseteq UsedPins
  BY PinsOfSides
<1>2. \A q \in SidePins(side) : users'[q] = IF q \in ps THEN 1 ELSE 0
  BY <1>1 DEF Enable, TypeOK
<1>3. side \in control'
  BY DEF Enable
<1>4. SidePins("spi") = SpiPins /\ (side \in Uart => side # "spi")
  BY SidesApart
<1>5. p \in ps
  BY <1>4
<1>6. \A q \in SidePins(side) : q \in ps <=> (side = "spi" \/ q = p)
  BY <1>4
<1> QED
  BY <1>2, <1>3, <1>4, <1>5, <1>6 DEF SideInv, SidePins

\* The user of a side is dropped.
LEMMA SideFreed ==
  ASSUME TypeOK, NEW side \in Sides, SideInv(side), NEW p \in SidePins(side), users[p] > 0,
         NEW ps \in SUBSET UsedPins, Drop(side, ps),
         ps = IF side = "spi" THEN SpiPins ELSE {p}
  PROVE  SideInv(side)'
<1>1. SidePins(side) \subseteq UsedPins
  BY PinsOfSides
<1>2. SidePins("spi") = SpiPins
  BY SidesApart
<1>3. side \in Uart \/ side = "spi"
  BY DEF Sides
<1>4. \A q \in SidePins(side) : users[q] \in Nat /\ users'[q] = users[q] - (IF q \in ps THEN 1 ELSE 0)
  BY <1>1 DEF Drop, Unuse, TypeOK
<1>5. \A q \in SidePins(side) : users'[q] = 0
  <2> TAKE q \in SidePins(side)
  <2>1. CASE side = "spi"
    BY <1>2, <1>4, <2>1 DEF SideInv, Drop, Unuse
  <2>2. CASE side # "spi"
    BY <1>3, <1>4, <2>2 DEF SideInv
  <2> QED
    BY <2>1, <2>2
<1>6. side \notin control'
  BY DEF Drop
<1> QED
  BY <1>2, <1>5, <1>6 DEF SideInv, SidePins

\* What is done to some sides leaves the others alone.
LEMMA OthersUntouched ==
  ASSUME TypeOK, UsersInv, NEW side \in Sides, NEW sides \in SUBSET Sides, side \notin sides,
         NEW ps \in SUBSET UsedPins, ps \cap SidePins(side) = {},
         Enable(sides, ps) \/ \E s \in sides : Drop(s, ps)
  PROVE  SideInv(side)'
<1>1. SidePins(side) \subseteq UsedPins
  BY PinsOfSides
<1>2. side \in control' <=> side \in control
  BY DEF Enable, Drop
<1>3. \A p \in SidePins(side) : users'[p] = users[p]
  BY <1>1 DEF Enable, Drop, Unuse, TypeOK
<1> QED
  BY <1>2, <1>3, SideUntouched DEF UsersInv

\* A get that finds the side free, of one pin or of those of the port.
LEMMA EnableKeepsUsers ==
  ASSUME TypeOK, UsersInv, NEW side \in Sides, NEW p \in SidePins(side),
         NEW ps \in SUBSET UsedPins, ps = IF side = "spi" THEN SpiPins ELSE {p},
         Enable({side}, ps), \A q \in SidePins(side) : users[q] = 0
  PROVE  UsersInv'
<1>1. ps \subseteq SidePins(side) /\ ps \cap SidePins(side) = ps
  BY SidesApart
<1>2. SideInv(side)'
  BY <1>1, SideTaken
<1>3. ASSUME NEW s \in Sides, s # side PROVE SideInv(s)'
  BY <1>1, <1>3, SidesApart, OthersUntouched
<1> QED
  BY <1>2, <1>3 DEF UsersInv

LEMMA DropKeepsUsers ==
  ASSUME TypeOK, UsersInv, NEW side \in Sides, NEW p \in SidePins(side), users[p] > 0,
         NEW ps \in SUBSET UsedPins, ps = IF side = "spi" THEN SpiPins ELSE {p},
         Drop(side, ps)
  PROVE  UsersInv'
<1>1. ps \subseteq SidePins(side)
  BY SidesApart
<1>2. SideInv(side)'
  BY SideFreed DEF UsersInv
<1>3. ASSUME NEW s \in Sides, s # side PROVE SideInv(s)'
  <2>1. ps \cap SidePins(s) = {} /\ s \notin {side} /\ {side} \in SUBSET Sides
    BY <1>1, <1>3, SidesApart
  <2>2. \E t \in {side} : Drop(t, ps)
    OBVIOUS
  <2> QED
    BY <2>1, <2>2, OthersUntouched
<1> QED
  BY <1>2, <1>3 DEF UsersInv

\* What a get looks at tells that its side has no user.
LEMMA FreeSides ==
  ASSUME TypeOK, UsersInv, NEW side \in Sides, side \notin control
  PROVE  \A q \in SidePins(side) : users[q] = 0
<1>1. \A q \in SidePins(side) : users[q] \in Nat
  BY PinsOfSides DEF TypeOK
<1> QED
  BY <1>1 DEF UsersInv, SideInv

LEMMA RefuseKeepsUsers ==
  ASSUME UsersInv, UNCHANGED <<control, users>>
  PROVE  UsersInv'
BY SideUntouched DEF UsersInv

LEMMA StepUses == TypeOK /\ UsersInv /\ [Next]_vars => UsersInv'
<1> SUFFICES ASSUME TypeOK, UsersInv, [Next]_vars PROVE UsersInv'
  OBVIOUS
<1>1. \A side \in Uart : side \in Sides /\ side # "spi" /\ SidePins(side) \subseteq UsedPins
  BY PinsOfSides, SidesApart
<1>2. ASSUME NEW p \in Pins, NEW f \in Functions, GetPin(p, f) \/ DropPin(p, f) PROVE UsersInv'
  BY <1>2, RefuseKeepsUsers DEF GetPin, DropPin
<1>3. ASSUME NEW side \in Uart, NEW p \in SidePins(side), Get(side, p) PROVE UsersInv'
  <2>1. CASE control \cap Uart = {} /\ Enable({side}, {p})
    BY <1>1, <2>1, FreeSides, EnableKeepsUsers
  <2>2. CASE Refuse({p})
    BY <2>2, RefuseKeepsUsers DEF Refuse
  <2> QED
    BY <1>3, <2>1, <2>2 DEF Get
<1>4. ASSUME NEW side \in Uart, NEW p \in SidePins(side), GetUnchecked(side, p)
      PROVE  UsersInv'
  BY <1>1, <1>4, EnableKeepsUsers DEF GetUnchecked
<1>5. ASSUME NEW rp \in RxPins, NEW tp \in TxPins, Pair(rp, tp) PROVE UsersInv'
  <2>1. CASE control \cap Uart = {} /\ Enable(Uart, {rp, tp})
    <3>1. /\ SidePins("rx") = RxPins /\ SidePins("tx") = TxPins
          /\ {rp, tp} \subseteq UsedPins /\ {rp, tp} \cap SpiPins = {}
          /\ {rp, tp} \cap RxPins = {rp} /\ {rp, tp} \cap TxPins = {tp}
          /\ "rx" \in Uart /\ "tx" \in Uart
          /\ Uart = {"rx", "tx"}
      BY OwnershipAssumption DEF SidePins, UsedPins, Uart
    <3>2. SideInv("rx")'
      BY <1>1, <2>1, <3>1, FreeSides, SideTaken
    <3>3. SideInv("tx")'
      BY <1>1, <2>1, <3>1, FreeSides, SideTaken
    <3>4. SideInv("spi")'
      BY <1>1, <2>1, <3>1, SidesApart, OthersUntouched DEF Sides
    <3> QED
      BY <3>1, <3>2, <3>3, <3>4 DEF UsersInv, Sides
  <2>2. CASE Refuse({rp, tp})
    BY <2>2, RefuseKeepsUsers DEF Refuse
  <2> QED
    BY <1>5, <2>1, <2>2 DEF Pair
<1>6. CASE GetSpi
  <2>1. PICK p \in SpiPins : TRUE
    BY OwnershipAssumption
  <2>2. "spi" \in Sides /\ SpiPins \subseteq UsedPins
    BY DEF Sides, UsedPins
  <2>3. CASE "spi" \notin control /\ Enable({"spi"}, SpiPins)
    BY <2>1, <2>2, <2>3, SidesApart, FreeSides, EnableKeepsUsers
  <2>4. CASE Refuse(SpiPins)
    BY <2>4, RefuseKeepsUsers DEF Refuse
  <2> QED
    BY <1>6, <2>3, <2>4 DEF GetSpi
<1>7. ASSUME NEW side \in Uart, NEW p \in SidePins(side), Drop(side, {p}) PROVE UsersInv'
  <2>1. users[p] > 0
    BY <1>7 DEF Drop, Unuse
  <2>2. side \in Sides /\ {p} \in SUBSET UsedPins /\ {p} = IF side = "spi" THEN SpiPins ELSE {p}
    BY <1>1
  <2> QED
    BY <1>7, <2>1, <2>2, DropKeepsUsers
<1>8. CASE DropSpi
  <2>1. PICK p \in SpiPins : users[p] > 0
    BY <1>8, OwnershipAssumption DEF DropSpi, Drop, Unuse
  <2> QED
    BY <1>8, <2>1, SidesApart, DropKeepsUsers DEF DropSpi, Sides, UsedPins
<1>9. CASE UNCHANGED vars
  BY <1>9, RefuseKeepsUsers DEF vars
<1> QED
  BY <1>2, <1>3, <1>4, <1>5, <1>6, <1>7, <1>8, <1>9 DEF Next

\* reader.rs:25-90, writer.rs:28-93, uart.rs:22-53, spi.rs:70-79, 462-475: a
\* direction or the port is enabled exactly when it has a user, and has one.
THEOREM EnabledForOne == Spec => []OneUser
<1>1. Init => UsersInv
  BY PinsOfSides DEF Init, UsersInv, SideInv, SidePins, UsedPins
<1>2. TypeOK /\ UsersInv => OneUser
  <2> SUFFICES ASSUME TypeOK, UsersInv, NEW side \in Sides,
                      NEW using, using = {p \in SidePins(side) : users[p] > 0}
               PROVE  /\ side \in control <=> using # {}
                      /\ \A p \in using : users[p] = 1
                      /\ IF side \in Uart THEN Cardinality(using) <= 1
                                          ELSE using \in {{}, SpiPins}
    BY DEF OneUser
  <2>1. SideInv(side) /\ \A p \in SidePins(side) : users[p] \in Nat
    BY PinsOfSides DEF UsersInv, TypeOK
  <2>2. (side \in control <=> using # {}) /\ \A p \in using : users[p] = 1
    BY <2>1 DEF SideInv
  <2>3. CASE side \in Uart
    <3>1. using = {} \/ \E p : using = {p}
      BY <2>1, <2>3 DEF SideInv
    <3>2. Cardinality({}) = 0
      BY FS_EmptySet
    <3>3. \A p : Cardinality({p}) = 1
      BY FS_Singleton
    <3>4. Cardinality(using) <= 1
      BY <3>1, <3>2, <3>3
    <3> QED
      BY <2>2, <2>3, <3>4
  <2>4. CASE side \notin Uart
    <3>1. side = "spi" /\ SidePins(side) = SpiPins
      BY <2>4, SidesApart DEF Sides
    <3>2. using \in {{}, SpiPins}
      BY <2>1, <3>1 DEF SideInv
    <3> QED
      BY <2>2, <2>4, <3>2
  <2> QED
    BY <2>3, <2>4
<1> QED
  BY <1>1, <1>2, StepUses, TypeCorrect, PTL DEF Spec

-----------------------------------------------------------------------------
(* The pins.                                                               *)

\* A pin that was never got twice has one owner at most: a client, with a Pin
\* of one function, or a Reader, Writer or Spi1.
Sole(p) ==
  /\ \A f \in Functions : handles[p][f] <= 1
  /\ \A f, g \in Functions : handles[p][f] > 0 /\ handles[p][g] > 0 => f = g
  /\ p \in UsedPins /\ users[p] > 0 =>
       users[p] = 1 /\ \A f \in Functions : handles[p][f] = 0

PinInv(p) ==
  /\ Sole(p)
  /\ \A f \in Functions : handles[p][f] > 0 => select[p] = f
  /\ p \in UsedPins /\ users[p] > 0 => select[p] = "alternate"
  /\ p \in locked <=> Alive(p)

PinsInv == \A p \in Pins \ shared : PinInv(p)

\* A step that has nothing to do with a pin.
LEMMA PinUntouched ==
  ASSUME NEW p \in Pins, PinInv(p), handles'[p] = handles[p], select'[p] = select[p],
         p \in UsedPins => users'[p] = users[p], p \in locked' <=> p \in locked
  PROVE  PinInv(p)'
BY DEF PinInv, Sole, Alive

\* Pin::get, of a pin nobody has: if somebody has it, it is shared from now on.
LEMMA GetPinKeeps ==
  ASSUME TypeOK, PinsInv, NEW p \in Pins, NEW f \in Functions, GetPin(p, f)
  PROVE  PinsInv'
<1> SUFFICES ASSUME NEW q \in Pins, q \notin shared' PROVE PinInv(q)'
  BY DEF PinsInv
<1>1. q \notin shared /\ PinInv(q)
  BY DEF GetPin, PinsInv
<1>2. CASE q # p
  BY <1>1, <1>2, PinUntouched DEF GetPin, Select, TypeOK
<1>3. CASE q = p
  <2>1. ~ Alive(p)
    BY <1>3 DEF GetPin
  <2>2. \A g \in Functions : handles[p][g] = 0
    BY <2>1 DEF Alive, TypeOK
  <2>3. \A g \in Functions : handles'[p][g] = IF g = f THEN 1 ELSE 0
    BY <2>2 DEF GetPin, TypeOK
  <2>4. p \in locked' /\ select'[p] = f /\ users' = users
    BY DEF GetPin, Select, TypeOK
  <2>5. p \in UsedPins => users[p] = 0
    BY <2>1 DEF Alive, TypeOK
  <2> QED
    BY <1>3, <2>3, <2>4, <2>5 DEF PinInv, Sole, Alive
<1> QED
  BY <1>2, <1>3

\* Drop for Pin: it was the only one.
LEMMA DropPinKeeps ==
  ASSUME TypeOK, PinsInv, NEW p \in Pins, NEW f \in Functions, DropPin(p, f)
  PROVE  PinsInv'
<1> SUFFICES ASSUME NEW q \in Pins, q \notin shared' PROVE PinInv(q)'
  BY DEF PinsInv
<1>1. q \notin shared /\ PinInv(q)
  BY DEF DropPin, PinsInv
<1>2. CASE q # p
  BY <1>1, <1>2, PinUntouched DEF DropPin, TypeOK
<1>3. CASE q = p
  <2>1. handles[p][f] = 1 /\ \A g \in Functions : g # f => handles[p][g] = 0
    BY <1>1, <1>3 DEF DropPin, TypeOK, PinInv, Sole
  <2>2. \A g \in Functions : handles'[p][g] = 0
    BY <2>1 DEF DropPin, TypeOK
  <2>3. p \notin locked' /\ users' = users
    BY DEF DropPin
  <2>4. p \in UsedPins => users[p] = 0
    BY <1>1, <1>3, <2>1 DEF PinInv, Sole, TypeOK
  <2> QED
    BY <1>3, <2>2, <2>3, <2>4 DEF PinInv, Sole, Alive
<1> QED
  BY <1>2, <1>3

\* What a call that is given a Pin knows of it, and leaves of it.
LEMMA GivenPin ==
  ASSUME TypeOK, NEW p \in UsedPins, PinInv(p), handles[p]["alternate"] > 0,
         NEW ps \in SUBSET UsedPins, p \in ps
  PROVE  /\ users[p] = 0 /\ p \in locked /\ select[p] = "alternate"
         /\ \A f \in Functions : Moved(ps)[p][f] = 0
<1>1. p \in Pins /\ "alternate" \in Functions
  BY PinsOfSides, OwnershipAssumption
<1>2. handles[p] \in [Functions -> 0 .. MaxHandles] /\ users[p] \in Nat
  BY <1>1 DEF TypeOK
<1>3. handles[p]["alternate"] = 1 /\ \A f \in Functions : f # "alternate" => handles[p][f] = 0
  BY <1>1, <1>2 DEF PinInv, Sole
<1>4. Moved(ps)[p] = [handles[p] EXCEPT !["alternate"] = @ - 1]
  BY <1>1 DEF Moved
<1>5. \A f \in Functions : Moved(ps)[p][f] = 0
  BY <1>2, <1>3, <1>4
<1> QED
  BY <1>1, <1>2, <1>5 DEF PinInv, Sole, Alive

LEMMA EnableKeepsPins ==
  ASSUME TypeOK, PinsInv, NEW ps \in SUBSET UsedPins, NEW sides, Given(ps), Enable(sides, ps)
  PROVE  PinsInv'
<1> SUFFICES ASSUME NEW p \in Pins, p \notin shared' PROVE PinInv(p)'
  BY DEF PinsInv
<1>1. p \notin shared /\ PinInv(p)
  BY DEF Enable, PinsInv
<1>2. UNCHANGED <<locked, select>> /\ handles' = Moved(ps)
  BY DEF Enable
<1>3. p \in UsedPins => users'[p] = users[p] + (IF p \in ps THEN 1 ELSE 0)
  BY DEF Enable
<1>4. CASE p \notin ps
  <2>1. handles'[p] = handles[p]
    BY <1>2, <1>4 DEF Moved
  <2>2. p \in UsedPins => users'[p] = users[p]
    BY <1>3, <1>4 DEF TypeOK
  <2> QED
    BY <1>1, <1>2, <2>1, <2>2, PinUntouched
<1>5. CASE p \in ps
  <2>1. users'[p] = 1 /\ p \in locked' /\ select'[p] = "alternate"
        /\ \A f \in Functions : handles'[p][f] = 0
    BY <1>1, <1>2, <1>3, <1>5, GivenPin DEF Given
  <2> QED
    BY <1>5, <2>1 DEF PinInv, Sole, Alive
<1> QED
  BY <1>4, <1>5

LEMMA RefuseKeepsPins ==
  ASSUME TypeOK, PinsInv, NEW ps \in SUBSET UsedPins, Given(ps), Refuse(ps)
  PROVE  PinsInv'
<1> SUFFICES ASSUME NEW p \in Pins, p \notin shared' PROVE PinInv(p)'
  BY DEF PinsInv
<1>1. p \notin shared /\ PinInv(p)
  BY DEF Refuse, PinsInv
<1>2. UNCHANGED <<select, users>> /\ handles' = Moved(ps) /\ locked' = locked \ ps
  BY DEF Refuse
<1>3. CASE p \notin ps
  <2>1. handles'[p] = handles[p]
    BY <1>2, <1>3 DEF Moved
  <2> QED
    BY <1>1, <1>2, <1>3, <2>1, PinUntouched
<1>4. CASE p \in ps
  <2>1. users'[p] = 0 /\ p \notin locked' /\ \A f \in Functions : handles'[p][f] = 0
    BY <1>1, <1>2, <1>4, GivenPin DEF Given
  <2> QED
    BY <1>4, <2>1 DEF PinInv, Sole, Alive
<1> QED
  BY <1>3, <1>4

LEMMA DropKeepsPins ==
  ASSUME TypeOK, PinsInv, NEW ps \in SUBSET UsedPins, NEW side, Drop(side, ps)
  PROVE  PinsInv'
<1> SUFFICES ASSUME NEW p \in Pins, p \notin shared' PROVE PinInv(p)'
  BY DEF PinsInv
<1>1. p \notin shared /\ PinInv(p)
  BY DEF Drop, PinsInv
<1>2. UNCHANGED <<select, handles>> /\ locked' = locked \ ps
  BY DEF Drop
<1>3. p \in UsedPins => users'[p] = users[p] - (IF p \in ps THEN 1 ELSE 0)
  BY DEF Drop, Unuse
<1>4. CASE p \notin ps
  <2>1. p \in UsedPins => users'[p] = users[p]
    BY <1>3, <1>4 DEF TypeOK
  <2> QED
    BY <1>1, <1>2, <1>4, <2>1, PinUntouched
<1>5. CASE p \in ps
  <2>1. users[p] = 1 /\ \A f \in Functions : handles[p][f] = 0
    BY <1>1, <1>5 DEF PinInv, Sole, Drop, Unuse
  <2>2. users'[p] = 0 /\ p \notin locked'
    BY <1>2, <1>3, <1>5, <2>1
  <2> QED
    BY <1>2, <2>1, <2>2 DEF PinInv, Sole, Alive
<1> QED
  BY <1>4, <1>5

LEMMA StepOwns == TypeOK /\ PinsInv /\ [Next]_vars => PinsInv'
<1> SUFFICES ASSUME TypeOK, PinsInv, [Next]_vars PROVE PinsInv'
  OBVIOUS
<1>1. ASSUME NEW p \in Pins, NEW f \in Functions, GetPin(p, f) \/ DropPin(p, f) PROVE PinsInv'
  BY <1>1, GetPinKeeps, DropPinKeeps
<1>2. ASSUME NEW side \in Uart, NEW p \in SidePins(side), Get(side, p) \/ GetUnchecked(side, p)
      PROVE  PinsInv'
  BY <1>2, PinsOfSides, EnableKeepsPins, RefuseKeepsPins DEF Get, GetUnchecked
<1>3. ASSUME NEW rp \in RxPins, NEW tp \in TxPins, Pair(rp, tp) PROVE PinsInv'
  BY <1>3, EnableKeepsPins, RefuseKeepsPins DEF Pair, UsedPins
<1>4. CASE GetSpi
  BY <1>4, EnableKeepsPins, RefuseKeepsPins DEF GetSpi, UsedPins
<1>5. ASSUME NEW side \in Uart, NEW p \in SidePins(side), Drop(side, {p}) PROVE PinsInv'
  BY <1>5, PinsOfSides, DropKeepsPins
<1>6. CASE DropSpi
  BY <1>6, DropKeepsPins DEF DropSpi, UsedPins
<1>7. CASE UNCHANGED vars
  BY <1>7, PinUntouched DEF PinsInv, vars, pinVars
<1> QED
  BY <1>1, <1>2, <1>3, <1>4, <1>5, <1>6, <1>7 DEF Next

LEMMA PinsHold == Spec => []PinsInv
<1>1. Init => PinsInv
  BY PinsOfSides DEF Init, PinsInv, PinInv, Sole, Alive
<1> QED
  BY <1>1, StepOwns, TypeCorrect, PTL DEF Spec

\* gpio.rs:76-103: the function of a pin is that of the Pin, or of the driver
\* that owns it, whatever is done with the other pins of the register.
THEOREM FunctionIsKept == Spec => []FunctionHolds
<1>1. PinsInv => FunctionHolds
  BY DEF PinsInv, PinInv, FunctionHolds
<1> QED
  BY <1>1, PinsHold, PTL

\* gpio.rs:45-64, 390-394: a lock bit is set exactly while the pin is owned,
\* through every get, refused get, pair and drop.
THEOREM LockIsKept == Spec => []LockedWhileAlive
<1>1. PinsInv => LockedWhileAlive
  BY DEF PinsInv, PinInv, LockedWhileAlive
<1> QED
  BY <1>1, PinsHold, PTL

-----------------------------------------------------------------------------
(* The translation table and its descriptors.                              *)

\* mmu.rs:22-72: the section at each index of the table.
LEMMA Lookup ==
  ASSUME NEW size \in StackSizes, NEW i \in Sections
  PROVE  /\ size \in 1 .. 511 /\ i \in 0 .. 4095
         /\ i < 512 - size =>
              Table(size)[i].kind = "normal" /\ Physical(size, i) = i /\ Maps(size, i)
         /\ i \in 512 .. 527 =>
              Table(size)[i].kind = "device" /\ Physical(size, i) = i /\ Maps(size, i)
         /\ i \in 4095 - size .. 4094 =>
              Table(size)[i].kind = "normal" /\ Physical(size, i) = i - 3584 /\ Maps(size, i)
         /\ ~ (i < 512 - size) /\ i \notin 512 .. 527 /\ i \notin 4095 - size .. 4094 =>
              Table(size)[i].kind = "disabled" /\ ~ Maps(size, i)
<1>1. size \in 1 .. 511 /\ i \in 0 .. 4095
  BY DEF Sections, StackSizes, TableSize, MmioStart
<1>2. /\ i < 512 - size => Table(size)[i] = Normal(i)
      /\ i \in 512 .. 527 => Table(size)[i] = Device(i)
      /\ i \in 4095 - size .. 4094 => Table(size)[i] = Normal(i - 3584)
      /\ ~ (i < 512 - size) /\ i \notin 512 .. 527 /\ i \notin 4095 - size .. 4094 =>
           Table(size)[i] = Disabled
  <2> DEFINE low == i < MmioStart - size
             registers == i \in MmioStart .. MmioStart + MmioLen - 1
             stack == i \in TableSize - size - 1 .. TableSize - 2
             base == i - (TableSize - MmioStart)
  <2>1. Table(size)[i] =
          IF low THEN Normal(i) ELSE IF registers THEN Device(i)
          ELSE IF stack THEN Normal(base) ELSE Disabled
    BY Zenon DEF Table
  <2>2. /\ low <=> i < 512 - size
        /\ registers <=> i \in 512 .. 527
        /\ stack <=> i \in 4095 - size .. 4094
        /\ base = i - 3584
    BY <1>1 DEF TableSize, MmioStart, MmioLen
  <2>3. ~ (low /\ registers) /\ ~ (low /\ stack) /\ ~ (registers /\ stack)
    BY <1>1, <2>2
  <2> HIDE DEF low, registers, stack, base
  <2>4. /\ low => Table(size)[i] = Normal(i)
        /\ registers => Table(size)[i] = Device(i)
        /\ stack => Table(size)[i] = Normal(base)
        /\ ~ low /\ ~ registers /\ ~ stack => Table(size)[i] = Disabled
    BY <2>1, <2>3
  <2> QED
    BY <2>2, <2>4
<1>3. \A b : /\ Normal(b).kind = "normal" /\ Normal(b).base = b
             /\ Device(b).kind = "device" /\ Device(b).base = b
             /\ Disabled.kind = "disabled"
  BY DEF Normal, Device, Disabled
<1>4. CASE i < 512 - size
  BY <1>1, <1>2, <1>3, <1>4 DEF Maps, Physical
<1>5. CASE i \in 512 .. 527
  BY <1>1, <1>2, <1>3, <1>5 DEF Maps, Physical
<1>6. CASE i \in 4095 - size .. 4094
  BY <1>1, <1>2, <1>3, <1>6 DEF Maps, Physical
<1>7. CASE ~ (i < 512 - size) /\ i \notin 512 .. 527 /\ i \notin 4095 - size .. 4094
  BY <1>1, <1>2, <1>3, <1>7 DEF Maps, Physical
<1> QED
  BY <1>1, <1>4, <1>5, <1>6, <1>7

\* mmu.rs:54-72, 77: the stack below STACK_TOP is normal memory, contiguous,
\* and what lies directly above and below it faults, so a stack that outgrows
\* its size by less than a MB is noticed.
THEOREM StackIsGuarded ==
  \A size \in StackSizes :
    /\ \A i \in Stack(size) :
         Table(size)[i].kind = "normal" /\ Physical(size, i) = i - 3584
    /\ ~ Maps(size, StackTop) /\ ~ Maps(size, StackTop - size - 1)
<1> TAKE size \in StackSizes
<1>1. /\ Stack(size) = 4095 - size .. 4094 /\ StackTop = 4095
      /\ size \in 1 .. 511
  BY DEF Stack, StackTop, StackSizes, MmioStart
<1>2. \A i \in 4095 - size .. 4094 : i \in Sections
  BY <1>1 DEF Sections, TableSize
<1>3. 4095 \in Sections /\ 4094 - size \in Sections
  BY <1>1 DEF Sections, TableSize
<1>4. ~ Maps(size, 4095)
  <2>1. ~ (4095 < 512 - size) /\ 4095 \notin 512 .. 527 /\ 4095 \notin 4095 - size .. 4094
    BY <1>1
  <2> QED
    BY <1>3, <2>1, Lookup
<1>5. ~ Maps(size, 4094 - size)
  <2> DEFINE i == 4094 - size
  <2>1. ~ (i < 512 - size) /\ i \notin 512 .. 527 /\ i \notin 4095 - size .. 4094
    BY <1>1
  <2>2. i \in Sections
    BY <1>3
  <2> HIDE DEF i
  <2>3. ~ Maps(size, i)
    BY <2>1, <2>2, Lookup
  <2> QED
    BY <2>3 DEF i
<1>6. StackTop - size - 1 = 4094 - size
  BY <1>1
<1>7. \A i \in 4095 - size .. 4094 :
        Table(size)[i].kind = "normal" /\ Physical(size, i) = i - 3584
  BY <1>1, <1>2, Lookup
<1> QED
  BY <1>1, <1>4, <1>5, <1>6, <1>7

\* mmu.rs:22-52: everything mapped outside the stack is at its own address, and
\* the registers, nothing else, are device memory.
THEOREM RestIsIdentity ==
  \A size \in StackSizes : \A i \in Sections \ Stack(size) :
    /\ Maps(size, i) => Physical(size, i) = i
    /\ Table(size)[i].kind = "device" <=> i \in Mmio
<1> SUFFICES ASSUME NEW size \in StackSizes, NEW i \in Sections \ Stack(size)
             PROVE  /\ Maps(size, i) => Physical(size, i) = i
                    /\ Table(size)[i].kind = "device" <=> i \in Mmio
  OBVIOUS
<1>1. i \notin 4095 - size .. 4094 /\ Mmio = 512 .. 527 /\ i \in Sections
  BY DEF Stack, StackTop, Mmio, MmioStart, MmioLen
<1> QED
  BY <1>1, Lookup

\* mmu.rs:22, 59: the memory left out of the identity mapping for the stack is
\* not the memory the stack gets, but lies one MB above: the first section of
\* the stack is also mapped at its own address, no other memory is mapped
\* twice, and the last MB below the registers is not mapped at all.
THEOREM FirstStackSectionIsAliased ==
  \A size \in StackSizes :
    /\ \A i, j \in Sections :
         i < j /\ Maps(size, i) /\ Maps(size, j) /\ Physical(size, i) = Physical(size, j)
           <=> i = MmioStart - size - 1 /\ j = StackTop - size
    /\ \A i \in Sections : Maps(size, i) => Physical(size, i) # MmioStart - 1
<1> TAKE size \in StackSizes
<1>1. size \in 1 .. 511 /\ MmioStart - size - 1 = 511 - size
      /\ StackTop - size = 4095 - size /\ MmioStart - 1 = 511
  BY DEF StackSizes, MmioStart, StackTop
<1>2. ASSUME NEW i \in Sections, NEW j \in Sections, i < j, Maps(size, i), Maps(size, j),
             Physical(size, i) = Physical(size, j)
      PROVE  i = 511 - size /\ j = 4095 - size
  <2>1. \/ (i < 512 - size \/ i \in 512 .. 527) /\ Physical(size, i) = i
        \/ i \in 4095 - size .. 4094 /\ Physical(size, i) = i - 3584
    BY <1>2, Lookup
  <2>2. \/ (j < 512 - size \/ j \in 512 .. 527) /\ Physical(size, j) = j
        \/ j \in 4095 - size .. 4094 /\ Physical(size, j) = j - 3584
    BY <1>2, Lookup
  <2>3. i \in 0 .. 4095 /\ j \in 0 .. 4095
    BY Lookup
  <2> QED
    BY <1>1, <1>2, <2>1, <2>2, <2>3
<1>3. ASSUME NEW i \in Sections, NEW j \in Sections, i = 511 - size, j = 4095 - size
      PROVE  i < j /\ Maps(size, i) /\ Maps(size, j) /\ Physical(size, i) = Physical(size, j)
  <2>0. i < 512 - size /\ j \in 4095 - size .. 4094
    BY <1>1, <1>3
  <2>1. Maps(size, i) /\ Physical(size, i) = i
    BY <2>0, Lookup
  <2>2. Maps(size, j) /\ Physical(size, j) = j - 3584
    BY <2>0, Lookup
  <2> QED
    BY <1>1, <1>3, <2>1, <2>2
<1>4. ASSUME NEW i \in Sections, Maps(size, i)
      PROVE  Physical(size, i) # 511
  <2>1. \/ (i < 512 - size \/ i \in 512 .. 527) /\ Physical(size, i) = i
        \/ i \in 4095 - size .. 4094 /\ Physical(size, i) = i - 3584
    BY <1>4, Lookup
  <2> QED
    BY <1>1, <2>1
<1>5. \A i, j \in Sections :
        i < j /\ Maps(size, i) /\ Maps(size, j) /\ Physical(size, i) = Physical(size, j)
          <=> i = 511 - size /\ j = 4095 - size
  BY <1>2, <1>3
<1> QED
  BY <1>1, <1>4, <1>5

\* mmu.rs:107-140: the bits a permission and a memory type set, each its own.
LEMMA FieldBits ==
  /\ \A p \in Permissions :
       /\ PermissionBits(p) \subseteq {10, 11, 15}
       /\ p = "NoAccess" => PermissionBits(p) = {}
       /\ p = "ReadOnlyUserNone" => PermissionBits(p) = {15, 10}
       /\ p = "ReadOnly" => PermissionBits(p) = {15, 11}
       /\ p = "ReadWriteUserNone" => PermissionBits(p) = {10}
       /\ p = "ReadWriteUserReadOnly" => PermissionBits(p) = {11}
       /\ p = "ReadWrite" => PermissionBits(p) = {10, 11}
  /\ \A o \in Policies :
       /\ OuterBits(o) \subseteq {12, 13, 14} /\ 14 \in OuterBits(o)
       /\ 13 \in OuterBits(o) <=> o \in {"WriteThrough", "WriteBack"}
       /\ 12 \in OuterBits(o) <=> o \in {"WriteBack", "WriteAllocate"}
  /\ \A i \in Policies :
       /\ InnerBits(i) \subseteq {2, 3}
       /\ 3 \in InnerBits(i) <=> i \in {"WriteThrough", "WriteBack"}
       /\ 2 \in InnerBits(i) <=> i \in {"WriteBack", "WriteAllocate"}
<1>1. \A p \in Permissions :
       /\ PermissionBits(p) \subseteq {10, 11, 15}
       /\ p = "NoAccess" => PermissionBits(p) = {}
       /\ p = "ReadOnlyUserNone" => PermissionBits(p) = {15, 10}
       /\ p = "ReadOnly" => PermissionBits(p) = {15, 11}
       /\ p = "ReadWriteUserNone" => PermissionBits(p) = {10}
       /\ p = "ReadWriteUserReadOnly" => PermissionBits(p) = {11}
       /\ p = "ReadWrite" => PermissionBits(p) = {10, 11}
  BY DEF PermissionBits, Permissions
<1>2. \A o \in Policies :
       /\ OuterBits(o) \subseteq {12, 13, 14} /\ 14 \in OuterBits(o)
       /\ 13 \in OuterBits(o) <=> o \in {"WriteThrough", "WriteBack"}
       /\ 12 \in OuterBits(o) <=> o \in {"WriteBack", "WriteAllocate"}
  BY DEF OuterBits, Policies
<1>3. \A i \in Policies :
       /\ InnerBits(i) \subseteq {2, 3}
       /\ 3 \in InnerBits(i) <=> i \in {"WriteThrough", "WriteBack"}
       /\ 2 \in InnerBits(i) <=> i \in {"WriteBack", "WriteAllocate"}
  BY DEF InnerBits, Policies
<1> QED
  BY <1>1, <1>2, <1>3

\* mmu.rs:118-137: TEX, C, B and the shareable bit tell the memory types apart.
LEMMA TypesDiffer ==
  \A t, u \in MemoryTypes :
    TypeBits(t) = TypeBits(u) /\ (Shareable(t) <=> Shareable(u)) => t = u
<1> SUFFICES ASSUME NEW t \in MemoryTypes, NEW u \in MemoryTypes,
                    TypeBits(t) = TypeBits(u), Shareable(t) <=> Shareable(u)
             PROVE  t = u
  OBVIOUS
<1>1. \A v \in MemoryTypes :
        \/ /\ v.class = "Normal" /\ v.inner \in Policies /\ v.outer \in Policies
           /\ v.shareable \in BOOLEAN
           /\ v = [class |-> "Normal", inner |-> v.inner, outer |-> v.outer,
                   shareable |-> v.shareable]
        \/ /\ v.class = "Device" /\ v.shareable \in BOOLEAN
           /\ v = [class |-> "Device", shareable |-> v.shareable]
        \/ v.class = "StronglyOrdered" /\ v = [class |-> "StronglyOrdered"]
  BY DEF MemoryTypes
<1>2. \A v \in MemoryTypes :
        /\ v.class = "Normal" => TypeBits(v) = OuterBits(v.outer) \cup InnerBits(v.inner)
        /\ v.class = "Device" => TypeBits(v) = IF v.shareable THEN {2} ELSE {13}
        /\ v.class = "StronglyOrdered" => TypeBits(v) = {}
  BY DEF TypeBits
<1>3. \A v \in MemoryTypes :
        /\ 14 \in TypeBits(v) <=> v.class = "Normal"
        /\ TypeBits(v) = {} <=> v.class = "StronglyOrdered"
  <2> TAKE v \in MemoryTypes
  <2>1. CASE v.class = "Normal"
    BY <1>1, <1>2, <2>1, FieldBits
  <2>2. CASE v.class = "Device"
    BY <1>2, <2>2
  <2>3. CASE v.class = "StronglyOrdered"
    BY <1>2, <2>3
  <2> QED
    BY <1>1, <2>1, <2>2, <2>3
<1>4. CASE t.class = "Normal"
  <2>1. u.class = "Normal"
    BY <1>3, <1>4
  <2>2. \A bit \in {12, 13} : bit \in OuterBits(t.outer) <=> bit \in OuterBits(u.outer)
    BY <1>1, <1>2, <1>4, <2>1, FieldBits
  <2>3. \A bit \in {2, 3} : bit \in InnerBits(t.inner) <=> bit \in InnerBits(u.inner)
    BY <1>1, <1>2, <1>4, <2>1, FieldBits
  <2>4. t.outer \in Policies /\ u.outer \in Policies /\ t.inner \in Policies /\ u.inner \in Policies
    BY <1>1, <1>4, <2>1
  <2>5. t.outer = u.outer
    BY <2>2, <2>4, FieldBits DEF Policies
  <2>6. t.inner = u.inner
    BY <2>3, <2>4, FieldBits DEF Policies
  <2>7. t.shareable = u.shareable
    BY <1>1, <1>4, <2>1 DEF Shareable
  <2> QED
    BY <1>1, <1>4, <2>1, <2>5, <2>6, <2>7
<1>5. CASE t.class = "Device"
  <2>1. u.class = "Device"
    BY <1>1, <1>3, <1>5
  <2>2. t.shareable = u.shareable
    BY <1>1, <1>5, <2>1 DEF Shareable
  <2> QED
    BY <1>1, <1>5, <2>1, <2>2
<1>6. CASE t.class = "StronglyOrdered"
  BY <1>1, <1>3, <1>6
<1> QED
  BY <1>1, <1>4, <1>5, <1>6

\* mmu.rs:96-143: a descriptor is one of a section, and everything it was made
\* from can be told from it: no field runs into another.
THEOREM FieldsAreKept ==
  \A a, c \in Attributes :
    /\ 1 \in Descriptor(a) /\ 0 \notin Descriptor(a) /\ 18 \notin Descriptor(a)
    /\ Descriptor(a) = Descriptor(c) => a = c
<1>1. \A a \in Attributes :
        /\ a.base \subseteq 0 .. 11 /\ a.permissions \in Permissions
        /\ a.execute \in BOOLEAN /\ a.global \in BOOLEAN /\ a.type \in MemoryTypes
        /\ a = [base |-> a.base, permissions |-> a.permissions, execute |-> a.execute,
                global |-> a.global, type |-> a.type]
  BY DEF Attributes
<1>2. \A type \in MemoryTypes : TypeBits(type) \subseteq {2, 3, 12, 13, 14}
  <2> TAKE type \in MemoryTypes
  <2>1. CASE type.class = "Normal"
    <3>1. type.outer \in Policies /\ type.inner \in Policies
      BY <2>1 DEF MemoryTypes
    <3> QED
      BY <2>1, <3>1, FieldBits DEF TypeBits
  <2>2. CASE type.class = "Device"
    BY <2>2 DEF TypeBits
  <2>3. CASE type.class = "StronglyOrdered"
    BY <2>3 DEF TypeBits
  <2> QED
    BY <2>1, <2>2, <2>3 DEF MemoryTypes
<1>3. \A a \in Attributes :
        /\ PermissionBits(a.permissions) \subseteq {10, 11, 15}
        /\ TypeBits(a.type) \subseteq {2, 3, 12, 13, 14}
  BY <1>1, <1>2, FieldBits
<1>4. \A a \in Attributes :
        /\ \A b \in 0 .. 11 : b + 20 \in Descriptor(a) <=> b \in a.base
        /\ 17 \in Descriptor(a) <=> ~ a.global
        /\ 16 \in Descriptor(a) <=> Shareable(a.type)
        /\ 4 \in Descriptor(a) <=> ~ a.execute
        /\ 1 \in Descriptor(a) /\ 0 \notin Descriptor(a) /\ 18 \notin Descriptor(a)
  <2> TAKE a \in Attributes
  <2> DEFINE d == Descriptor(a)
             other == PermissionBits(a.permissions) \cup TypeBits(a.type)
  <2>1. other \subseteq {2, 3, 10, 11, 12, 13, 14, 15}
    BY <1>3
  <2>2. d = {bit \in 20 .. 31 : bit - 20 \in a.base}
              \cup (IF ~ a.global THEN {17} ELSE {}) \cup (IF Shareable(a.type) THEN {16} ELSE {})
              \cup (IF ~ a.execute THEN {4} ELSE {}) \cup {1} \cup other
    BY DEF Descriptor, Flag
  <2> HIDE DEF d, other
  <2>3. ASSUME NEW b \in 0 .. 11 PROVE b + 20 \in d <=> b \in a.base
    <3>1. b + 20 \in 20 .. 31 /\ b + 20 - 20 = b /\ b + 20 \notin other
      BY <2>1
    <3> QED
      BY <2>2, <3>1
  <2>4. 17 \in d <=> ~ a.global
    BY <2>1, <2>2
  <2>5. 16 \in d <=> Shareable(a.type)
    BY <2>1, <2>2
  <2>6. 4 \in d <=> ~ a.execute
    BY <2>1, <2>2
  <2>7. 1 \in d /\ 0 \notin d /\ 18 \notin d
    BY <2>1, <2>2
  <2> QED
    BY <2>3, <2>4, <2>5, <2>6, <2>7 DEF d
<1>5. \A a \in Attributes :
        /\ PermissionBits(a.permissions) = Descriptor(a) \cap {10, 11, 15}
        /\ TypeBits(a.type) = Descriptor(a) \cap {2, 3, 12, 13, 14}
  BY <1>3 DEF Descriptor, Flag
<1>6. ASSUME NEW a \in Attributes, NEW c \in Attributes, Descriptor(a) = Descriptor(c)
      PROVE  a = c
  <2>1. a.base = c.base
    BY <1>1, <1>4, <1>6
  <2>2. a.permissions = c.permissions
    <3>1. PermissionBits(a.permissions) = PermissionBits(c.permissions)
      BY <1>5, <1>6
    <3> QED
      BY <1>1, <3>1, FieldBits DEF Permissions
  <2>3. a.type = c.type
    <3>1. TypeBits(a.type) = TypeBits(c.type)
      BY <1>5, <1>6
    <3>2. Shareable(a.type) <=> Shareable(c.type)
      BY <1>4, <1>6
    <3> QED
      BY <1>1, <3>1, <3>2, TypesDiffer
  <2>4. a.execute = c.execute /\ a.global = c.global
    BY <1>1, <1>4, <1>6
  <2> QED
    BY <1>1, <2>1, <2>2, <2>3, <2>4
<1> QED
  BY <1>4, <1>6

=============================================================================
