-------------------------------- MODULE I2cBus --------------------------------
(***************************************************************************)
(* The I2C transport of the switcher (io_i2c_linux.c) and the I/O parts at *)
(* its far end.  Every transfer of the program is i2c_linux_set_addr, then *)
(* one SMBus call on the bus's file handle; the handle keeps the slave     *)
(* address from one transfer to the next.                                  *)
(*                                                                         *)
(* A byte, or a value_t, is the set of its bits that are 1: the program's  *)
(* |, & and ~ are then union, intersection and difference.                 *)
(***************************************************************************)
EXTENDS Integers

CONSTANTS
  NumBusses,   \* io_config.num_busses
  NumDevices,  \* NumDevices[b]: io_bus.num_devices of bus b
  Chip,        \* Chip[t]: the part that device t = <<bus, device>> addresses
  Part,        \* Part[c]: which part chip c is, and so which driver serves it
  NoChip,      \* the slave of a file handle before any I2C_SLAVE ioctl
  ByteBits,    \* the width of a uint8_t (8)
  ValueBits,   \* the width of a value_t (32)
  OpenFaults,  \* the busses whose open() may fail
  AddrFaults,  \* the chips for which ioctl(I2C_SLAVE) may fail
  XferFaults   \* the chips whose transfers may fail

Busses  == 0 .. NumBusses - 1
Devices == UNION {{b} \X (0 .. NumDevices[b] - 1) : b \in Busses}
Chips   == {Chip[t] : t \in Devices}
Parts   == {"mcp23017", "pcf8574", "piface"}

ASSUME WidthAssumption ==
  /\ ByteBits \in Nat \ {0}
  /\ ValueBits \in Nat
  /\ ValueBits >= 2 * ByteBits

ASSUME ConfigAssumption ==
  /\ NumBusses \in Nat
  /\ NumDevices \in [Busses -> Nat]
  /\ DOMAIN Chip = Devices
  /\ Part \in [Chips -> Parts]
  /\ NoChip \notin Chips
  /\ OpenFaults \subseteq Busses
  /\ AddrFaults \subseteq Chips
  /\ XferFaults \subseteq Chips

VARIABLES
  open,    \* open[b]: the open() of bus b succeeded (fh >= 0)
  slave,   \* slave[b]: the chip that bus b's file handle addresses
  inputs,  \* inputs[c]: the ports of an MCP23017 whose IODIR is all ones
  latch,   \* latch[c]: the output latch of chip c
  level    \* level[c]: what the outside world puts on the pins of chip c

busVars  == <<open, slave>>
chipVars == <<inputs, latch>>

-----------------------------------------------------------------------------
(* Bytes and values. *)

Byte  == 0 .. ByteBits - 1
Word  == 0 .. 2 * ByteBits - 1
Value == SUBSET (0 .. ValueBits - 1)
Ports == {"A", "B"}

Driver(t) == Part[Chip[t]]

Pins(c) == IF Part[c] = "mcp23017" THEN Word ELSE Byte

PortOf(i) == IF i < ByteBits THEN "A" ELSE "B"

\* (mutant: the bytes of the two ports are exchanged)
HalfExchanged(v, p) ==
  IF p = "B" THEN v \cap Byte ELSE {i \in Byte : i + ByteBits \in v}

\* The byte of port p in a 16 bit value, and that byte replaced.
Half(v, p) ==
  IF p = "A" THEN v \cap Byte ELSE {i \in Byte : i + ByteBits \in v}

Join(a, b) ==
  {i \in Word : IF PortOf(i) = "A" THEN i \in a ELSE i - ByteBits \in b}

WithHalf(v, p, byte) ==
  IF p = "A" THEN Join(byte, Half(v, "B")) ELSE Join(Half(v, "A"), byte)

-----------------------------------------------------------------------------
(* The parts, as the drivers use them (external). *)

\* What a read of the pins returns: an MCP23017 pin reads the world when it is
\* an input; a PCF8574 pin reads low when either side pulls it low; the PiFace
\* driver reads port A, which is an output.
Seen(c) ==
  CASE Part[c] = "mcp23017" ->
         {i \in Word : IF PortOf(i) \in inputs[c] THEN i \in level[c]
                                                  ELSE i \in latch[c]}
    [] Part[c] = "pcf8574" -> latch[c] \cap level[c]
    [] Part[c] = "piface"  -> latch[c]

\* A PCF8574 has no registers: it latches whatever bytes it is sent, so of a
\* register number and a byte it keeps the byte.
LatchAfter(c, reg, p, byte) ==
  IF Part[c] = "pcf8574" THEN byte
  ELSE IF reg = "OLAT"   THEN WithHalf(latch[c], p, byte)
                         ELSE latch[c]

InputsAfter(c, reg, p, byte) ==
  IF Part[c] = "mcp23017" /\ reg = "IODIR"
  THEN IF byte = {} THEN inputs[c] \ {p} ELSE inputs[c] \cup {p}
  ELSE inputs[c]

\* The register numbers 0x12 (GPIOA) and 0x13 (GPIOB), as a PCF8574 latches them.
GpioNumber(p) == (IF p = "A" THEN {1, 4} ELSE {0, 1, 4}) \cap Byte

\* Whether an SMBus transfer to slave c may succeed and may fail.
Outcomes(c) ==
  IF c = NoChip THEN {FALSE} ELSE IF c \in XferFaults THEN BOOLEAN ELSE {TRUE}

-----------------------------------------------------------------------------
(* io_i2c_linux.c.  ok is what the call returns; c is the chip addressed.  A *)
(* write that is reported as failed may still have reached the chip.         *)

\* (mutant: the address is set only on a handle that has none)
SetAddrOnce(t, ok) ==
  /\ ok /\ open[t[1]]
  /\ slave' = IF slave[t[1]] = NoChip THEN [slave EXCEPT ![t[1]] = Chip[t]] ELSE slave

\* i2c_linux_set_addr; its callers ignore that it failed and go on.
SetAddr(t, ok) ==
  \/ ok /\ open[t[1]] /\ slave' = [slave EXCEPT ![t[1]] = Chip[t]]
  \/ ~ok /\ (open[t[1]] => Chip[t] \in AddrFaults) /\ UNCHANGED slave

WriteByteData(c, reg, p, byte, ok) ==
  /\ ok \in Outcomes(c)
  /\ \/ ~ok /\ UNCHANGED chipVars
     \/ /\ c # NoChip
        /\ latch' = [latch EXCEPT ![c] = LatchAfter(c, reg, p, byte)]
        /\ inputs' = [inputs EXCEPT ![c] = InputsAfter(c, reg, p, byte)]

\* The byte is port p of the pins; on a PCF8574 the register number is latched.
ReadByteData(c, p, byte, ok) ==
  /\ ok \in Outcomes(c)
  /\ UNCHANGED inputs
  /\ \/ UNCHANGED latch /\ (ok => Part[c] # "pcf8574")
     \/ /\ c # NoChip /\ Part[c] = "pcf8574"
        /\ latch' = [latch EXCEPT ![c] = GpioNumber(p)]
  /\ ok => byte = CASE Part[c] = "mcp23017" -> Half(Seen(c), p)
                    [] Part[c] = "pcf8574"  -> latch'[c] \cap level[c]

\* On an MCP23017 a lone byte only moves the register pointer.
WriteByte(c, byte, ok) ==
  /\ ok \in Outcomes(c)
  /\ UNCHANGED inputs
  /\ \/ UNCHANGED latch /\ (ok => Part[c] # "pcf8574")
     \/ /\ c # NoChip /\ Part[c] = "pcf8574"
        /\ latch' = [latch EXCEPT ![c] = byte]

\* (mutant: the part is read as if it had registers)
ReadByteOfRegister(c, byte, ok) == ReadByteData(c, "A", byte, ok)

\* An MCP23017 answers with whatever register its pointer is at.
ReadByte(c, byte, ok) ==
  /\ ok \in Outcomes(c)
  /\ UNCHANGED chipVars
  /\ ok /\ Part[c] = "pcf8574" => byte = Seen(c)

-----------------------------------------------------------------------------
BusTypeOK ==
  /\ open \in [Busses -> BOOLEAN]
  /\ slave \in [Busses -> Chips \cup {NoChip}]
  /\ inputs \in [Chips -> SUBSET Ports]
  /\ latch \in [Chips -> SUBSET Word]
  /\ level \in [Chips -> SUBSET Word]
===============================================================================
