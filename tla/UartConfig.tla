----------------------------- MODULE UartConfig -----------------------------
(***************************************************************************)
(* src/aux/uart.rs: the baud rate in the configuration of the Mini UART,   *)
(* which get and pair write before they hand out a Reader or a Writer.     *)
(***************************************************************************)
EXTENDS Integers

ClockSpeed == 250000000

\* The rates BaudRate::new does not panic at.
LowestRate == 476
HighestRate == 31250000
BaudRates == LowestRate .. HighestRate

\* All in u32: the product of the largest rate does not overflow.
RegisterValue(rate) == ClockSpeed \div (8 * rate) - 1

\* The bits of BAUDRATE_REG the device takes, and the rate it then runs at.
BaudRegisterSize == 65536
Effective(value) == ClockSpeed \div (8 * ((value % BaudRegisterSize) + 1))

=============================================================================
