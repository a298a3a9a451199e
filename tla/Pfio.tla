---------------------------------- MODULE Pfio ----------------------------------
(***************************************************************************)
(* The PiFace driver (pfio.c, dev_piface.c) transfer by transfer: pfio_init *)
(* with its read-modify-write loop, and pfio_write_output.  A failed        *)
(* transfer is printed and otherwise ignored, and the program can be ended  *)
(* and started again between any two of them.  SwitcherIo takes pfio_init   *)
(* as one step; this module looks into it.                                  *)
(*                                                                          *)
(* A byte is the set of its bits that are 1.                                *)
(***************************************************************************)
EXTENDS Integers, Sequences

CONSTANT NumPins   \* the output pins, the width of a uint8_t (8)

ASSUME NumPinsAssumption == NumPins \in Nat \ {0}

VARIABLES
  pc,      \* where pfio_init stands; "serving" when it has returned
  step,    \* the next of the Setup writes
  pin,     \* i of the loop that clears the outputs
  old,     \* old_pin_values of pfio_digital_write
  spi,     \* spi->fd is a device file
  output,  \* the part's port A is an output (its IODIRA register)
  olat,    \* the part's output latch of port A
  faults   \* history: which transfers have failed since the program started

vars == <<pc, step, pin, old, spi, output, olat, faults>>

Pins == 0 .. NumPins - 1
Byte == SUBSET Pins

\* What the part puts on its output pins.
Driven == IF output THEN olat ELSE {}

-----------------------------------------------------------------------------
(* The transfers. *)

\* (mutant: the direction is set before the latch is cleared)
SetupFlashing == <<"IOCON", "IODIRA", "GPIOA", "IODIRB", "GPPUB">>

\* The registers that pfio_init writes, in this order.
Setup == <<"IOCON", "GPIOA", "IODIRA", "IODIRB", "GPPUB">>

Transfers == {Setup[i] : i \in 1 .. Len(Setup)} \cup {"read", "write"}

\* spi_transfer reports nothing to its caller; on a file that is not open it
\* always fails.
Transfer(name, ok) ==
  /\ ok => spi
  /\ faults' = IF ok THEN faults ELSE faults \cup {name}

\* What spi_read returns: a pin of port A reads the latch when it is an output
\* and the world when it is not; after a failed transfer, what the stack held.
ReadBack(ok, byte) == byte \in Byte /\ (ok /\ output => byte = olat)

\* 1 << pin_number, as a uint8_t.
Mask(i) == {i} \cap Pins

\* (mutant: the loop runs to one pin more)
LastPinOneMore == NumPins + 1

\* The loop of pfio_init runs from 1 to 8.
LastPin == NumPins

\* (mutant: the mask is set instead of cleared)
WithoutSet(byte, i) == byte \cup Mask(i)

\* pfio_digital_write's new_pin_values, for the value 0.
Without(byte, i) == byte \ Mask(i)

-----------------------------------------------------------------------------
(* pfio_init *)

\* malloc, open and the ioctls that read the SPI mode.  When one fails pfio_init
\* returns early, and io_init does not look at what it returns.
Open ==
  /\ pc = "open"
  /\ \/ spi' = TRUE /\ pc' = "setup"
     \/ spi' \in BOOLEAN /\ pc' = "serving"
  /\ UNCHANGED <<step, pin, old, output, olat, faults>>

SetupWrite ==
  /\ pc = "setup"
  /\ \E ok \in BOOLEAN :
       /\ Transfer(Setup[step], ok)
       /\ olat' = IF ok /\ Setup[step] = "GPIOA" THEN {} ELSE olat
       /\ output' = IF ok /\ Setup[step] = "IODIRA" THEN TRUE ELSE output
  /\ IF step < Len(Setup)
     THEN step' = step + 1 /\ UNCHANGED <<pc, pin>>
     ELSE pc' = "read" /\ pin' = 1 /\ UNCHANGED step
  /\ UNCHANGED <<old, spi>>

\* pfio_digital_write(pin, 0) reads all outputs ...
DigitalRead ==
  /\ pc = "read"
  /\ \E ok \in BOOLEAN : Transfer("read", ok) /\ ReadBack(ok, old')
  /\ pc' = "write"
  /\ UNCHANGED <<step, pin, spi, output, olat>>

\* ... and writes them back.
DigitalWrite ==
  /\ pc = "write"
  /\ \E ok \in BOOLEAN :
       /\ Transfer("write", ok)
       /\ olat' = IF ok THEN Without(old, pin) ELSE olat
  /\ IF pin < LastPin THEN pc' = "read" /\ pin' = pin + 1
                      ELSE pc' = "serving" /\ UNCHANGED pin
  /\ UNCHANGED <<step, old, spi, output>>

-----------------------------------------------------------------------------
\* piface_write while the program serves requests.
WriteOutput(byte) ==
  /\ pc = "serving"
  /\ \/ spi /\ olat' = byte
     \/ UNCHANGED olat
  /\ UNCHANGED <<pc, step, pin, old, spi, output, faults>>

\* The program ends, wherever it is, and is started again: the part keeps its
\* registers.
Restart ==
  /\ pc' = "open" /\ step' = 1 /\ pin' = 1
  /\ spi' = FALSE /\ faults' = {}
  /\ UNCHANGED <<old, output, olat>>

Init ==
  /\ pc = "open" /\ step = 1 /\ pin = 1 /\ old = {}
  /\ spi = FALSE /\ output = FALSE /\ olat = {} /\ faults = {}

Next ==
  \/ Open \/ SetupWrite \/ DigitalRead \/ DigitalWrite
  \/ \E byte \in Byte : WriteOutput(byte)
  \/ Restart

Spec == Init /\ [][Next]_vars

-----------------------------------------------------------------------------
(* Properties. *)

\* The types of pfio.c's variables and of the part's registers.
TypeOK ==
  /\ pc \in {"open", "setup", "read", "write", "serving"}
  /\ step \in 1 .. Len(Setup)
  /\ pin \in 1 .. NumPins
  /\ old \in Byte /\ olat \in Byte
  /\ spi \in BOOLEAN /\ output \in BOOLEAN
  /\ faults \subseteq Transfers

\* The read-modify-write loop has just come to its end.
LoopEnds == pc = "write" /\ pc' = "serving"

\* pfio_init leaves the outputs off although it looks at no transfer's result:
\* the GPIOA write and the loop stand in for each other.  If the GPIOA write and
\* the loop's reads succeed, no failed write matters; if the loop's transfers
\* succeed, only pin 0, which the loop does not reach, can still be on.
OutputsOffAfterInit ==
  [][LoopEnds =>
       /\ faults' \cap {"GPIOA", "read"} = {} => Driven' = {}
       /\ faults' \cap {"read", "write"} = {} => Driven' \subseteq {0}]_vars

\* A step of pfio_init, past the opening of the device file.
InitRuns == pc \in {"setup", "read", "write"} /\ pc' # "open"

\* An output that pfio_init turns on ("that annoying LED flashing") is one that
\* the latch held from an earlier run, unless a read has failed, and then what
\* the loop writes is open; and none is turned on when the GPIOA write has not
\* failed either, whichever other transfers fail.
FlashIsStale ==
  [][InitRuns =>
       /\ "read" \notin faults' => Driven' \subseteq olat
       /\ faults' \cap {"GPIOA", "read"} = {} => Driven' \subseteq Driven]_vars

\* "initialise all outputs to 0" is said of the loop: when nothing failed before
\* it but the GPIOA write, and nothing in it, the latch is clear.
LoopClearsAllOutputs ==
  [][LoopEnds /\ faults' \subseteq {"GPIOA"} => olat' = {}]_vars
===============================================================================
