----------------------------- MODULE Ownership ------------------------------
(***************************************************************************)
(* Who may use a pin, a direction of the Mini UART and the SPI port:       *)
(* src/gpio.rs keeps a lock bit and a function select field per pin,       *)
(* src/aux/uart.rs and the files below it take the enable bits of          *)
(* EXTRA_CONTROL_REG for a lock, src/aux/spi.rs that of AUX_ENABLES.  A    *)
(* Reader, a Writer and an Spi1 own the Pins they were made from.  Only    *)
(* the main thread runs this code, and it does not wait in the middle: a   *)
(* call is a step.                                                         *)
(***************************************************************************)
EXTENDS Integers, FiniteSets

CONSTANTS
  RxPins, TxPins,  \* the pins a Reader and a Writer may be made from
  SpiPins,         \* the pins an Spi1 is made from
  OtherPins,       \* other pins of the same function select register
  Functions,       \* the functions a Pin is made for; "alternate" is that of
                   \* its peripheral, 5 for the UART's pins, 4 for the SPI's
  MaxHandles       \* bound on the Pins alive of one pin and function, for TLC

UsedPins == RxPins \cup TxPins \cup SpiPins
Pins == UsedPins \cup OtherPins

ASSUME OwnershipAssumption ==
  /\ IsFiniteSet(Pins)
  /\ RxPins \cap TxPins = {} /\ RxPins \cap SpiPins = {} /\ TxPins \cap SpiPins = {}
  /\ SpiPins # {}
  /\ "alternate" \in Functions
  /\ MaxHandles \in Nat

VARIABLES
  locked,    \* GPIO_SET
  select,    \* the function select field of each pin
  handles,   \* the number of Pins the clients hold, of a pin and function
  control,   \* the enabled directions of the UART, and whether the SPI is
  users,     \* the number of Readers, Writers or Spi1s that own such a Pin
  shared     \* history: pins got while a Pin of theirs was alive

pinVars == <<locked, select, handles>>
vars == <<pinVars, control, users, shared>>

Uart == {"rx", "tx"}
Sides == Uart \cup {"spi"}
SidePins(side) == CASE side = "rx" -> RxPins [] side = "tx" -> TxPins [] OTHER -> SpiPins

TypeOK ==
  /\ locked \subseteq Pins
  /\ select \in [Pins -> Functions]
  /\ handles \in [Pins -> [Functions -> 0 .. MaxHandles]]
  /\ control \subseteq Sides
  /\ users \in [UsedPins -> Nat]
  /\ shared \subseteq Pins

\* uart::setup disables both directions; the SPI is disabled at reset.
Init ==
  /\ locked = {}
  /\ select \in [Pins -> Functions]
  /\ handles = [p \in Pins |-> [f \in Functions |-> 0]]
  /\ control = {}
  /\ users = [p \in UsedPins |-> 0]
  /\ shared = {}

Alive(p) ==
  \/ \E f \in Functions : handles[p][f] > 0
  \/ p \in UsedPins /\ users[p] > 0

-----------------------------------------------------------------------------
(* Pins.                                                                   *)

\* Mutant: the register is written without the fields of the other pins.
SelectAlone(p, f) == select' = [q \in Pins |-> IF q = p THEN f ELSE "input"]

Select(p, f) == select' = [select EXCEPT ![p] = f]

\* Pin::get: what lock() returns is not looked at.
GetPin(p, f) ==
  /\ handles[p][f] < MaxHandles
  /\ locked' = locked \cup {p}
  /\ Select(p, f)
  /\ handles' = [handles EXCEPT ![p][f] = @ + 1]
  /\ shared' = IF Alive(p) THEN shared \cup {p} ELSE shared
  /\ UNCHANGED <<control, users>>

DropPin(p, f) ==
  /\ handles[p][f] > 0
  /\ locked' = locked \ {p}
  /\ handles' = [handles EXCEPT ![p][f] = @ - 1]
  /\ UNCHANGED <<select, control, users, shared>>

-----------------------------------------------------------------------------
(* Readers, Writers and the Spi1.                                          *)

\* A call is given Pins ps, which it keeps or, refused, drops.
Moved(ps) == [p \in Pins |-> IF p \in ps THEN [handles[p] EXCEPT !["alternate"] = @ - 1]
                             ELSE handles[p]]
Given(ps) == \A p \in ps : handles[p]["alternate"] > 0

Enable(sides, ps) ==
  /\ control' = control \cup sides
  /\ users' = [p \in UsedPins |-> users[p] + (IF p \in ps THEN 1 ELSE 0)]
  /\ handles' = Moved(ps)
  /\ UNCHANGED <<locked, select, shared>>

\* Mutant: the caller drops the Pin too.
RefuseDroppingTwice(ps) ==
  /\ locked' = locked \ ps
  /\ handles' = [p \in Pins |-> IF p \in ps THEN [handles[p] EXCEPT !["alternate"] = @ - 2]
                                ELSE handles[p]]
  /\ UNCHANGED <<select, control, users, shared>>

Refuse(ps) ==
  /\ locked' = locked \ ps
  /\ handles' = Moved(ps)
  /\ UNCHANGED <<select, control, users, shared>>

\* Reader::get and Writer::get refuse if either direction is enabled.
Get(side, p) ==
  /\ Given({p})
  /\ IF control \cap Uart = {} THEN Enable({side}, {p}) ELSE Refuse({p})

Pair(rp, tp) ==
  /\ Given({rp, tp})
  /\ IF control \cap Uart = {} THEN Enable(Uart, {rp, tp}) ELSE Refuse({rp, tp})

\* Spi1::get.
GetSpi ==
  /\ Given(SpiPins)
  /\ IF "spi" \notin control THEN Enable({"spi"}, SpiPins) ELSE Refuse(SpiPins)

\* get_unchecked, by a caller who knows that the direction is not in use.
GetUnchecked(side, p) ==
  /\ Given({p})
  /\ \A q \in SidePins(side) : users[q] = 0
  /\ Enable({side}, {p})

Unuse(ps) ==
  /\ \A p \in ps : users[p] > 0
  /\ users' = [p \in UsedPins |-> users[p] - (IF p \in ps THEN 1 ELSE 0)]

\* Mutant: every enable bit is cleared.
DropDisablingAll(side, ps) ==
  /\ Unuse(ps)
  /\ control' = {}
  /\ locked' = locked \ ps
  /\ UNCHANGED <<select, handles, shared>>

\* Mutant: the Pins are forgotten.
DropForgettingPin(side, ps) ==
  /\ Unuse(ps)
  /\ control' = control \ {side}
  /\ UNCHANGED <<pinVars, shared>>

\* A Reader, a Writer or an Spi1 is dropped, and the Pins it owns.
Drop(side, ps) ==
  /\ Unuse(ps)
  /\ control' = control \ {side}
  /\ locked' = locked \ ps
  /\ UNCHANGED <<select, handles, shared>>

DropSpi == Drop("spi", SpiPins)

Next ==
  \/ \E p \in Pins, f \in Functions : GetPin(p, f)
  \/ \E p \in Pins, f \in Functions : DropPin(p, f)
  \/ \E side \in Uart : \E p \in SidePins(side) : Get(side, p)
  \/ \E side \in Uart : \E p \in SidePins(side) : GetUnchecked(side, p)
  \/ \E rp \in RxPins, tp \in TxPins : Pair(rp, tp)
  \/ GetSpi
  \/ \E side \in Uart : \E p \in SidePins(side) : Drop(side, {p})
  \/ DropSpi

Spec == Init /\ [][Next]_vars

-----------------------------------------------------------------------------
(* Properties.                                                             *)

\* reader.rs:25-90, writer.rs:28-93, uart.rs:22-53, spi.rs:70-79, 462-475: a
\* direction, or the port, is enabled exactly when it has a user, and it has at
\* most one, whatever the order in which the halves of a pair and the pins are
\* taken and dropped, or a get refused.
OneUser ==
  \A side \in Sides :
    LET using == {p \in SidePins(side) : users[p] > 0} IN
    /\ side \in control <=> using # {}
    /\ \A p \in using : users[p] = 1
    /\ IF side \in Uart THEN Cardinality(using) <= 1 ELSE using \in {{}, SpiPins}

\* gpio.rs:76-103: a pin has the function of the Pin that is alive, whatever
\* is done with other pins, if no two Pins of it have been alive at once.
FunctionHolds ==
  \A p \in Pins \ shared :
    /\ \A f \in Functions : handles[p][f] > 0 => select[p] = f
    /\ p \in UsedPins /\ users[p] > 0 => select[p] = "alternate"

\* gpio.rs:45-64, 390-394: the lock bit of such a pin is set exactly while a
\* Pin of it is alive, also one that a Reader, Writer or Spi1 owns.
LockedWhileAlive == \A p \in Pins \ shared : p \in locked <=> Alive(p)

=============================================================================
