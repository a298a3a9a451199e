------------------------------- MODULE PfioProofs -------------------------------
(***************************************************************************)
(* Proofs about Pfio, for every number of pins: however many transfers     *)
(* fail and whenever the program is restarted.                             *)
(***************************************************************************)
EXTENDS Pfio, TLAPS

\* The GPIOA write comes second and the IODIRA write third.
LEMMA SetupOrder ==
  /\ Len(Setup) = 5
  /\ Setup[1] = "IOCON" /\ Setup[2] = "GPIOA" /\ Setup[3] = "IODIRA"
  /\ Setup[4] = "IODIRB" /\ Setup[5] = "GPPUB"
BY DEF Setup

\* The names of the transfers.
LEMMA TransferNames ==
  /\ \A i \in 1 .. Len(Setup) : Setup[i] \in Transfers
  /\ "read" \in Transfers /\ "write" \in Transfers
BY DEF Transfers

\* Every variable has its type at the start ...
LEMMA InitType == Init => TypeOK
<1> SUFFICES ASSUME Init PROVE TypeOK
  OBVIOUS
<1>1. spi \in BOOLEAN /\ output \in BOOLEAN
  BY Zenon DEF Init
<1>2. step \in 1 .. Len(Setup) /\ pin \in 1 .. NumPins
  BY NumPinsAssumption, SetupOrder DEF Init
<1>3. QED
  BY <1>1, <1>2 DEF Init, TypeOK, Byte

\* ... and keeps it.
LEMMA StepType == TypeOK /\ [Next]_vars => TypeOK'
<1> SUFFICES ASSUME TypeOK, [Next]_vars PROVE TypeOK'
  OBVIOUS
<1> USE NumPinsAssumption
<1>1. CASE Open
  BY <1>1 DEF Open, TypeOK
<1>2. CASE SetupWrite
  <2>1. PICK ok \in BOOLEAN :
          /\ Transfer(Setup[step], ok)
          /\ olat' = IF ok /\ Setup[step] = "GPIOA" THEN {} ELSE olat
          /\ output' = IF ok /\ Setup[step] = "IODIRA" THEN TRUE ELSE output
    BY <1>2 DEF SetupWrite
  <2>2. olat' \in Byte /\ output' \in BOOLEAN
    BY <2>1 DEF TypeOK, Byte
  <2>3. faults' \subseteq Transfers
    BY <2>1, TransferNames DEF Transfer, TypeOK
  <2>4. pc' \in {"setup", "read"} /\ step' \in 1 .. Len(Setup) /\ pin' \in 1 .. NumPins
    BY <1>2, SetupOrder DEF SetupWrite, TypeOK
  <2>5. QED
    BY <1>2, <2>2, <2>3, <2>4 DEF SetupWrite, TypeOK
<1>3. CASE DigitalRead
  BY <1>3, TransferNames DEF DigitalRead, Transfer, ReadBack, TypeOK
<1>4. CASE DigitalWrite
  <2>1. PICK ok \in BOOLEAN :
          /\ Transfer("write", ok)
          /\ olat' = IF ok THEN Without(old, pin) ELSE olat
    BY <1>4 DEF DigitalWrite
  <2>2. olat' \in Byte
    BY <2>1 DEF TypeOK, Without, Byte
  <2>3. faults' \subseteq Transfers
    BY <2>1, TransferNames DEF Transfer, TypeOK
  <2>4. pc' \in {"read", "serving"} /\ pin' \in 1 .. NumPins
    BY <1>4 DEF DigitalWrite, LastPin, TypeOK
  <2>5. QED
    BY <1>4, <2>2, <2>3, <2>4 DEF DigitalWrite, TypeOK
<1>5. CASE \E byte \in Byte : WriteOutput(byte)
  BY <1>5 DEF WriteOutput, TypeOK
<1>6. CASE Restart
  <2>1. spi' \in BOOLEAN
    BY <1>6, Zenon DEF Restart
  <2>2. step' \in 1 .. Len(Setup) /\ pin' \in 1 .. NumPins
    BY <1>6, SetupOrder DEF Restart
  <2>3. QED
    BY <1>6, <2>1, <2>2 DEF Restart, TypeOK
<1>7. CASE UNCHANGED vars
  BY <1>7 DEF vars, TypeOK
<1>8. QED
  BY <1>1, <1>2, <1>3, <1>4, <1>5, <1>6, <1>7 DEF Next

\* The variables of pfio.c and the part's registers keep their types.
THEOREM PfioTypeCorrect == Spec => []TypeOK
BY InitType, StepType, PTL DEF Spec

-----------------------------------------------------------------------------
(* The outputs. *)

\* A latch, or a byte read from it, is off on the pins of S as far as it is
\* driven.
Off(byte, S) == output => byte \cap S = {}

\* Pins 1 .. n - 1.
Cleared(n) == 1 .. n - 1

\* Once the GPIOA write has succeeded the driven outputs stay off through the
\* loop, unless one of its reads fails.
ClearInv ==
  faults \cap {"GPIOA", "read"} = {} =>
    /\ pc = "setup" /\ step > 2 => olat = {}
    /\ pc \in {"read", "write"} => Off(olat, Pins)
    /\ pc = "write" => Off(old, Pins)

\* Pin by pin the loop clears the outputs, unless one of its transfers fails.
LoopInv ==
  faults \cap {"read", "write"} = {} =>
    /\ pc \in {"read", "write"} => Off(olat, Cleared(pin))
    /\ pc = "write" => Off(old, Cleared(pin))

\* What the loop has read and not yet written is what the part drives, unless a
\* read has failed.
ReadInv == "read" \notin faults /\ pc = "write" /\ output => old = olat

StartInv == pc = "open" => step = 1

PfioInv == TypeOK /\ StartInv /\ ClearInv /\ LoopInv /\ ReadInv

\* Clearing a bit clears that bit only.
LEMMA WithoutPin ==
  ASSUME NEW byte \in Byte, NEW i \in 1 .. NumPins
  PROVE  /\ Without(byte, i) \subseteq byte
         /\ byte \cap Cleared(i) = {} => Without(byte, i) \cap Cleared(i + 1) = {}
BY NumPinsAssumption DEF Without, Mask, Byte, Pins, Cleared

\* Every step of pfio_init, a write and a restart keep the invariant.
LEMMA StepPfio == PfioInv /\ [Next]_vars => PfioInv'
<1> SUFFICES ASSUME PfioInv, [Next]_vars PROVE StartInv' /\ ClearInv' /\ LoopInv' /\ ReadInv'
  BY StepType DEF PfioInv
<1> USE NumPinsAssumption
<1>1. TypeOK /\ StartInv /\ ClearInv /\ LoopInv /\ ReadInv
  BY DEF PfioInv
<1>2. CASE Open
  BY <1>1, <1>2 DEF Open, StartInv, ClearInv, LoopInv, ReadInv
<1>3. CASE SetupWrite
  <2>1. PICK ok \in BOOLEAN :
          /\ Transfer(Setup[step], ok)
          /\ olat' = IF ok /\ Setup[step] = "GPIOA" THEN {} ELSE olat
          /\ output' = IF ok /\ Setup[step] = "IODIRA" THEN TRUE ELSE output
    BY <1>3 DEF SetupWrite
  <2>2. ASSUME faults' \cap {"GPIOA", "read"} = {}, step >= 2
        PROVE  olat' = {}
    <3>1. faults \cap {"GPIOA", "read"} = {}
      BY <2>1, <2>2 DEF Transfer
    <3>2. CASE step = 2
      BY <2>1, <2>2, <3>2, SetupOrder DEF Transfer
    <3>3. CASE step > 2
      BY <1>1, <1>3, <2>1, <3>1, <3>3 DEF ClearInv, SetupWrite
    <3>4. QED
      BY <1>1, <2>2, <3>2, <3>3, SetupOrder DEF TypeOK
  <2>3. ClearInv'
    BY <1>1, <1>3, <2>2, SetupOrder DEF SetupWrite, TypeOK, ClearInv, Off
  <2>4. LoopInv'
    BY <1>3 DEF SetupWrite, LoopInv, Off, Cleared
  <2>5. QED
    BY <1>3, <2>3, <2>4 DEF SetupWrite, StartInv, ReadInv
<1>4. CASE DigitalRead
  <2>1. PICK ok \in BOOLEAN : Transfer("read", ok) /\ ReadBack(ok, old')
    BY <1>4 DEF DigitalRead
  <2>2. /\ pc = "read" /\ pc' = "write"
        /\ UNCHANGED <<step, pin, spi, output, olat>>
    BY <1>4 DEF DigitalRead
  <2>3. ASSUME "read" \notin faults' PROVE faults' = faults /\ (output => old' = olat)
    BY <2>1, <2>3 DEF Transfer, ReadBack
  <2>4. QED
    BY <1>1, <2>2, <2>3 DEF StartInv, ClearInv, LoopInv, ReadInv, Off, Cleared
<1>5. CASE DigitalWrite
  <2>1. PICK ok \in BOOLEAN :
          /\ Transfer("write", ok)
          /\ olat' = IF ok THEN Without(old, pin) ELSE olat
    BY <1>5 DEF DigitalWrite
  <2>2. /\ pc = "write" /\ pc' \in {"read", "serving"}
        /\ pc' = "read" => pin' = pin + 1
        /\ UNCHANGED <<step, old, spi, output>>
    BY <1>5 DEF DigitalWrite
  <2>3. old \in Byte /\ pin \in 1 .. NumPins
    BY <1>1 DEF TypeOK
  <2>4. ASSUME faults' \cap {"GPIOA", "read"} = {} PROVE Off(olat, Pins)'
    <3>1. faults \cap {"GPIOA", "read"} = {}
      BY <2>1, <2>4 DEF Transfer
    <3>2. Off(olat, Pins) /\ Off(old, Pins)
      BY <1>1, <2>2, <3>1 DEF ClearInv
    <3>3. olat' \subseteq old \/ olat' = olat
      BY <2>1, <2>3, WithoutPin
    <3>4. QED
      BY <2>2, <3>2, <3>3 DEF Off
  <2>5. ASSUME faults' \cap {"read", "write"} = {}, pc' = "read"
        PROVE  Off(olat, Cleared(pin))'
    <3>1. ok /\ faults \cap {"read", "write"} = {}
      BY <2>1, <2>5 DEF Transfer
    <3>2. Off(old, Cleared(pin))
      BY <1>1, <2>2, <3>1 DEF LoopInv
    <3>3. output => olat' \cap Cleared(pin + 1) = {}
      BY <2>1, <2>3, <3>1, <3>2, WithoutPin DEF Off
    <3>4. QED
      BY <2>2, <2>5, <3>3 DEF Off, Cleared
  <2>6. QED
    BY <2>2, <2>4, <2>5 DEF StartInv, ClearInv, LoopInv, ReadInv
<1>6. CASE \E byte \in Byte : WriteOutput(byte)
  BY <1>1, <1>6 DEF WriteOutput, StartInv, ClearInv, LoopInv, ReadInv
<1>7. CASE Restart
  BY <1>7 DEF Restart, StartInv, ClearInv, LoopInv, ReadInv
<1>8. CASE UNCHANGED vars
  BY <1>1, <1>8 DEF vars, StartInv, ClearInv, LoopInv, ReadInv, Off, Cleared
<1>9. QED
  BY <1>2, <1>3, <1>4, <1>5, <1>6, <1>7, <1>8 DEF Next

\* The invariant of pfio_init holds in every reachable state.
LEMMA AlwaysPfioInv == Spec => []PfioInv
<1>1. Init => PfioInv
  BY InitType DEF Init, PfioInv, StartInv, ClearInv, LoopInv, ReadInv
<1>2. QED
  BY <1>1, StepPfio, PTL DEF Spec

\* pfio_init leaves the outputs off as far as the GPIOA write or the loop could
\* be carried out, whatever else failed and whatever an earlier run left behind.
THEOREM OutputsOff == Spec => OutputsOffAfterInit
<1> DEFINE Ends ==
      LoopEnds =>
        /\ faults' \cap {"GPIOA", "read"} = {} => Driven' = {}
        /\ faults' \cap {"read", "write"} = {} => Driven' \subseteq {0}
<1>1. PfioInv /\ [Next]_vars => [Ends]_vars
  <2> SUFFICES ASSUME PfioInv, Next, LoopEnds
               PROVE  /\ faults' \cap {"GPIOA", "read"} = {} => Driven' = {}
                      /\ faults' \cap {"read", "write"} = {} => Driven' \subseteq {0}
    OBVIOUS
  <2>1. TypeOK /\ ClearInv /\ LoopInv
    BY DEF PfioInv
  <2>2. DigitalWrite /\ pin = NumPins
    <3>1. DigitalWrite
      BY DEF Next, LoopEnds, Open, SetupWrite, DigitalRead, WriteOutput, Restart
    <3>2. ~(pin < NumPins)
      BY <3>1 DEF DigitalWrite, LastPin, LoopEnds
    <3>3. QED
      BY <2>1, <3>1, <3>2, NumPinsAssumption DEF TypeOK
  <2>3. PICK ok \in BOOLEAN :
          /\ Transfer("write", ok)
          /\ olat' = IF ok THEN Without(old, pin) ELSE olat
    BY <2>2 DEF DigitalWrite
  <2>4. pc = "write" /\ output' = output
    BY <2>2 DEF DigitalWrite
  <2>5. old \in Byte /\ olat \in Byte /\ pin \in 1 .. NumPins
    BY <2>1 DEF TypeOK
  <2>6. olat' \in Byte
    BY <2>3, <2>5, WithoutPin DEF Byte
  <2>7. ASSUME faults' \cap {"GPIOA", "read"} = {} PROVE Driven' = {}
    <3>1. faults \cap {"GPIOA", "read"} = {}
      BY <2>3, <2>7 DEF Transfer
    <3>2. Off(olat, Pins) /\ Off(old, Pins)
      BY <2>1, <2>4, <3>1 DEF ClearInv
    <3>3. olat' \subseteq old \/ olat' = olat
      BY <2>3, <2>5, WithoutPin
    <3>4. QED
      BY <2>4, <2>5, <2>6, <3>2, <3>3 DEF Off, Driven, Byte
  <2>8. ASSUME faults' \cap {"read", "write"} = {} PROVE Driven' \subseteq {0}
    <3>1. ok /\ faults \cap {"read", "write"} = {}
      BY <2>3, <2>8 DEF Transfer
    <3>2. Off(old, Cleared(pin))
      BY <2>1, <2>4, <3>1 DEF LoopInv
    <3>3. output => olat' \cap Cleared(NumPins + 1) = {}
      BY <2>2, <2>3, <2>5, <3>1, <3>2, WithoutPin DEF Off
    <3>4. Pins \subseteq Cleared(NumPins + 1) \cup {0}
      BY NumPinsAssumption DEF Pins, Cleared
    <3>5. QED
      BY <2>4, <2>6, <3>3, <3>4 DEF Driven, Byte
  <2>9. QED
    BY <2>7, <2>8
<1>2. QED
  BY <1>1, AlwaysPfioInv, PTL DEF Spec, OutputsOffAfterInit

\* What pfio_init turns on is stale: only the IODIRA write and the loop can change
\* what the part drives, the loop only clears what it read, and once the GPIOA
\* write has succeeded there is nothing in the latch to be turned on.
THEOREM StaleFlash == Spec => FlashIsStale
<1> DEFINE Quiet ==
      InitRuns =>
        /\ "read" \notin faults' => Driven' \subseteq olat
        /\ faults' \cap {"GPIOA", "read"} = {} => Driven' \subseteq Driven
<1>1. PfioInv /\ [Next]_vars => [Quiet]_vars
  <2> SUFFICES ASSUME PfioInv, Next, InitRuns
               PROVE  /\ "read" \notin faults' => Driven' \subseteq olat
                      /\ faults' \cap {"GPIOA", "read"} = {} => Driven' \subseteq Driven
    OBVIOUS
  <2>1. TypeOK /\ ClearInv /\ ReadInv
    BY DEF PfioInv
  <2>2. CASE SetupWrite
    <3>1. PICK ok \in BOOLEAN :
            /\ Transfer(Setup[step], ok)
            /\ olat' = IF ok /\ Setup[step] = "GPIOA" THEN {} ELSE olat
            /\ output' = IF ok /\ Setup[step] = "IODIRA" THEN TRUE ELSE output
      BY <2>2 DEF SetupWrite
    <3>2. CASE Setup[step] = "IODIRA"
      <4>1. step = 3 /\ olat' = olat
        BY <2>1, <3>1, <3>2, SetupOrder DEF TypeOK
      <4>2. ASSUME faults' \cap {"GPIOA", "read"} = {} PROVE olat = {}
        BY <2>1, <2>2, <3>1, <4>1, <4>2 DEF ClearInv, SetupWrite, Transfer
      <4>3. QED
        BY <4>1, <4>2 DEF Driven
    <3>3. CASE Setup[step] # "IODIRA"
      BY <3>1, <3>3 DEF Driven
    <3>4. QED
      BY <3>2, <3>3
  <2>3. CASE DigitalRead
    BY <2>3 DEF DigitalRead, Driven
  <2>4. CASE DigitalWrite
    <3>1. PICK ok \in BOOLEAN :
            /\ Transfer("write", ok)
            /\ olat' = IF ok THEN Without(old, pin) ELSE olat
      BY <2>4 DEF DigitalWrite
    <3>2. pc = "write" /\ output' = output /\ old \in Byte /\ pin \in 1 .. NumPins
      BY <2>1, <2>4 DEF DigitalWrite, TypeOK
    <3>3. ASSUME "read" \notin faults', output PROVE old = olat
      BY <2>1, <3>1, <3>2, <3>3 DEF ReadInv, Transfer
    <3>4. olat' \subseteq old \/ olat' = olat
      BY <3>1, <3>2, WithoutPin
    <3>5. QED
      BY <3>2, <3>3, <3>4 DEF Driven
  <2>5. QED
    BY <2>2, <2>3, <2>4 DEF Next, InitRuns, Open, WriteOutput, Restart
<1>2. QED
  BY <1>1, AlwaysPfioInv, PTL DEF Spec, FlashIsStale
===============================================================================
