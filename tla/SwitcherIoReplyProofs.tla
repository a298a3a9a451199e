------------------------- MODULE SwitcherIoReplyProofs -------------------------
(***************************************************************************)
(* Proofs about what the clients of SwitcherIo are told and get, for every *)
(* value of its constants: an empty reply means a failed transfer, "ok" to *)
(* a write means that the pins hold what was asked for, a write to one pin *)
(* keeps the others, and the switcher implements PortBank.                 *)
(***************************************************************************)
EXTENDS SwitcherIoProofs

\* Between requests the handler has none.  A driver writes only for a write
\* request, and reads for one only when a sub-device is to be changed; no success
\* has been put into the reply buffer yet.
RequestInv ==
  /\ pc = "idle" => req = NoRequest
  /\ Busy => content.kind \in {"none", "error"}
  /\ Busy /\ op = "write" => req.cmd = "write"
  /\ Busy /\ op = "read" /\ req.cmd = "write" => req.sub # IDX_INVALID

\* The value handed to a driver's write is what the request asks for.
Asked ==
  IF req.sub = IDX_INVALID
  THEN value = req.value
  ELSE req.sub \in 0 .. ValueBits - 1 => (req.sub \in value <=> req.value # {})

\* When mcp23017_write comes to port B, port A holds its byte.
HalfStored ==
  pc = "data" /\ op = "write" /\ port = "B" =>
    Half(latch[Chip[Target]], "A") = Half(value, "A")

WriteInv ==
  /\ Busy /\ op = "write" => Asked
  /\ Busy /\ Reliable(Target) => HalfStored

\* The value agrees with the latch on the pins of S that were not disturbed.
Agrees(v, S) == \A i \in S \ disturbed : i \in v <=> i \in latch[Chip[Target]]

\* What has been read so far is the latch wherever the world has not held the pins
\* away from it, and what is then written for a sub-device is the latch wherever
\* it is not meant to change.
KeepInv ==
  Busy /\ Reliable(Target) =>
    /\ op = "read" => Disagree(Chip[Target], level[Chip[Target]]) \subseteq disturbed
    /\ op = "read" /\ pc = "data" /\ port = "B" => Agrees(value, Byte)
    /\ op = "write" /\ req.sub \in 0 .. ValueBits - 1 =>
         Agrees(value, Pins(Chip[Target]) \ {req.sub})

ReplyInv ==
  /\ DirectionInv
  /\ RequestInv
  /\ WriteInv
  /\ KeepInv
  /\ SilentOnlyOnFailedTransfer
  /\ SuccessMeansDriven
  /\ ReadTellsLatch

-----------------------------------------------------------------------------
(* Words and their bytes. *)

\* Replacing one byte of a word by that of a value.
LEMMA BytesReplaced ==
  ASSUME NEW v, NEW w
  PROVE  /\ \A i \in Word : i \in WithHalf(v, "A", Half(w, "A"))
                              <=> IF i < ByteBits THEN i \in w ELSE i \in v
         /\ \A i \in Word : i \in WithHalf(v, "B", Half(w, "B"))
                              <=> IF i < ByteBits THEN i \in v ELSE i \in w
         /\ \A i \in Word : i \in Join(v, Half(w, "B"))
                              <=> IF i < ByteBits THEN i \in v ELSE i \in w
         /\ Half(WithHalf(v, "A", Half(w, "A")), "A") = Half(w, "A")
<1>1. ByteBits \in Nat \ {0}
  BY WidthAssumption
<1>2. \A i \in Word : ~(i < ByteBits) => i - ByteBits \in Byte
                                         /\ (i - ByteBits) + ByteBits = i
  BY <1>1 DEF Word, Byte
<1>3. \A i \in Word : i < ByteBits <=> i \in Byte
  BY <1>1 DEF Word, Byte
<1>4. Byte \subseteq Word
  BY Widths
<1>5. \A i \in Word : i \in WithHalf(v, "A", Half(w, "A"))
                        <=> IF i < ByteBits THEN i \in w ELSE i \in v
  BY <1>2, <1>3 DEF WithHalf, Half, Join, PortOf
<1>6. \A i \in Word : i \in WithHalf(v, "B", Half(w, "B"))
                        <=> IF i < ByteBits THEN i \in v ELSE i \in w
  BY <1>2, <1>3 DEF WithHalf, Half, Join, PortOf
<1>7. \A i \in Word : i \in Join(v, Half(w, "B"))
                        <=> IF i < ByteBits THEN i \in v ELSE i \in w
  BY <1>2, <1>3 DEF Half, Join, PortOf
<1>8. Half(WithHalf(v, "A", Half(w, "A")), "A") = Half(w, "A")
  BY <1>3, <1>4, <1>5 DEF Half
<1>9. QED
  BY <1>5, <1>6, <1>7, <1>8

\* Storing the second byte of a value after the first stores the whole of it.
LEMMA BothBytesStored ==
  ASSUME NEW v, NEW w, Half(v, "A") = Half(w, "A")
  PROVE  WithHalf(v, "B", Half(w, "B")) = w \cap Word
<1>1. \A i \in Word : i \in WithHalf(v, "B", Half(w, "B"))
                        <=> IF i < ByteBits THEN i \in v ELSE i \in w
  BY BytesReplaced
<1>2. \A i \in Word : i < ByteBits => (i \in v <=> i \in w)
  <2>1. \A i \in Word : i < ByteBits => i \in Byte
    BY WidthAssumption DEF Word, Byte
  <2>2. QED
    BY <2>1 DEF Half
<1>3. WithHalf(v, "B", Half(w, "B")) \subseteq Word
  BY Halves
<1>4. QED
  BY <1>1, <1>2, <1>3

-----------------------------------------------------------------------------
(* The steps of a driver. *)

\* What every driver step finds and leaves alone.
LEMMA DrivenFrame ==
  ASSUME TypeInv, Driven
  PROVE  /\ Busy /\ TypeOK /\ BusTypeOK /\ Target \in Devices
         /\ Chip[Target] \in Chips /\ Chip[Target] # NoChip
         /\ req' = req /\ disturbed' = disturbed /\ open' = open /\ level' = level
         /\ Target' = Target
<1>1. Busy /\ req' = req /\ disturbed' = disturbed /\ open' = open /\ level' = level
  BY DEF Driven, ConfigureIo, Mcp23017Read, Mcp23017Write, Pcf8574Read,
         Pcf8574Write, PifaceRead, PifaceWrite, Transfers, Busy, busVars
<1>2. Target \in Devices /\ TypeOK /\ BusTypeOK
  BY <1>1 DEF TypeInv, TypeOK
<1>3. Chip[Target] \in Chips /\ Chip[Target] # NoChip
  BY <1>2, ConfigAssumption DEF Chips
<1>4. QED
  BY <1>1, <1>2, <1>3 DEF Target

\* A configured device is addressed by a request only.
LEMMA TargetOfRequest ==
  ASSUME TypeOK, Target \in Devices
  PROVE  req \in Requests /\ req.cmd \in {"read", "write"}
<1>1. req # NoRequest
  BY ConfigAssumption DEF Target, NoRequest, Devices, Busses, IDX_INVALID
<1>2. QED
  BY <1>1 DEF TypeOK, Requests

\* Whom a transfer reaches, and what its failure means.
LEMMA Reached ==
  ASSUME TypeInv, SlaveInv, Busy, NEW addressed \in BOOLEAN, NEW ok \in BOOLEAN,
         SetAddr(Target, addressed), open' = open, ok \in Outcomes(Slave)
  PROVE  /\ Slave \in Chips \cup {NoChip}
         /\ ~ok => ~addressed \/ Chip[Target] \in XferFaults
         /\ Reliable(Target) => /\ Slave \in {Chip[Target], NoChip}
                                /\ ok => Slave = Chip[Target]
<1>1. Target \in Devices /\ req.bus \in Busses /\ Target[1] = req.bus
  BY DeviceFacts DEF TypeInv, Target
<1>2. Chip[Target] \in OnBus(req.bus)
  BY <1>1 DEF OnBus
<1>3. slave \in [Busses -> Chips \cup {NoChip}] /\ Chip[Target] # NoChip
  BY <1>1, ConfigAssumption DEF TypeInv, TypeOK, BusTypeOK, Chips
<1>4. Slave \in Chips \cup {NoChip}
  BY <1>1, SetAddrType DEF TypeInv
<1>5. addressed => Slave = Chip[Target]
  BY <1>1, <1>3 DEF SetAddr, Slave
<1>6. ~ok => ~addressed \/ Chip[Target] \in XferFaults
  BY <1>3, <1>5 DEF Outcomes
<1>7. ASSUME Reliable(Target)
      PROVE  Slave \in {Chip[Target], NoChip} /\ (ok => Slave = Chip[Target])
  <2>1. Chip[Target] \notin AddrFaults
    BY <1>1, <1>2, <1>7 DEF Reliable
  <2>2. QED
    BY <2>1, SlaveReached DEF Outcomes
<1>8. QED
  BY <1>4, <1>6, <1>7

-----------------------------------------------------------------------------
(* How a driver call ends. *)

\* What the end of a driver call makes of its outcome: a failed one has been
\* reported or is a failed transfer to the device, a written value is in the
\* latch and driven, and a value that was read is the latch but for the pins
\* that were disturbed.
CallDone(ok, said, v) ==
  /\ said.kind \in {"none", "error"}
  /\ ~ok => said.kind = "error" \/ Chip[Target] \in XferFaults
  /\ ok /\ Reliable(Target) =>
       /\ op = "write" =>
            /\ latch'[Chip[Target]] = value \cap Pins(Chip[Target])
            /\ Driver(Target) = "mcp23017" /\ Exclusive(Target)
                 => inputs'[Chip[Target]] = {}
       /\ op = "read" =>
            /\ latch'[Chip[Target]] = latch[Chip[Target]]
            /\ v \subseteq Pins(Chip[Target])
            /\ Agrees(v, Pins(Chip[Target]))

\* perform_io's part after such a driver call.
LEMMA ReturnKeeps ==
  ASSUME ReplyInv, Driven, NEW ok \in BOOLEAN, NEW said, NEW v,
         CallDone(ok, said, v), Return(ok, said, v)
  PROVE  /\ RequestInv' /\ WriteInv' /\ KeepInv'
         /\ SilentOnlyOnFailedTransfer' /\ SuccessMeansDriven' /\ ReadTellsLatch'
<1> DEFINE c == Chip[Target]
<1>1. /\ Busy /\ TypeOK /\ Target \in Devices
      /\ req' = req /\ disturbed' = disturbed /\ Target' = Target
  BY DrivenFrame DEF ReplyInv, DirectionInv
<1>2. op \in {"read", "write"} /\ req.cmd \in {"read", "write"}
  BY <1>1, TargetOfRequest DEF TypeOK
<1>3. RequestInv /\ WriteInv /\ KeepInv
  BY DEF ReplyInv
<1>4. CASE ok /\ req.cmd = "write" /\ op = "read"
  <2>1. PICK mask \in Bit(req.sub) : value' = Modified(v, mask)
    BY <1>4 DEF Return, WriteBack
  <2>2. /\ content' = said /\ op' = "write" /\ port' = "A"
        /\ pc' \in {"dir", "data"}
    BY <1>4 DEF Return, WriteBack, Call
  <2>3. req.sub # IDX_INVALID
    BY <1>1, <1>3, <1>4 DEF RequestInv
  <2>4. ASSUME req.sub \in 0 .. ValueBits - 1
        PROVE  value' = IF req.value # {} THEN v \cup {req.sub} ELSE v \ {req.sub}
    BY <2>1, <2>4 DEF Bit, Modified
  <2>5. RequestInv'
    BY <1>1, <1>4, <2>2 DEF RequestInv, CallDone, Busy
  <2>6. WriteInv'
    BY <1>1, <2>2, <2>3, <2>4 DEF WriteInv, Asked, HalfStored
  <2>7. KeepInv'
    <3>1. SUFFICES ASSUME req.sub \in 0 .. ValueBits - 1, Reliable(Target),
                          NEW i \in Pins(c) \ {req.sub}, i \notin disturbed
                   PROVE  i \in value' <=> i \in latch'[c]
      BY <1>1, <2>2 DEF KeepInv, Agrees, Reliable
    <3>2. i \in v <=> i \in latch'[c]
      BY <1>4, <3>1 DEF CallDone, Agrees
    <3>3. QED
      BY <2>4, <3>1, <3>2
  <2>8. QED
    BY <2>2, <2>5, <2>6, <2>7
       DEF SilentOnlyOnFailedTransfer, SuccessMeansDriven, ReadTellsLatch
<1>5. CASE ~(ok /\ req.cmd = "write" /\ op = "read")
  <2>1. pc' = "reply" /\ content' = Answer(ok, said, v) /\ op' = op
    BY <1>5 DEF Return, Finish
  <2>2. RequestInv' /\ WriteInv' /\ KeepInv'
    BY <2>1 DEF RequestInv, WriteInv, KeepInv, Busy
  <2>3. SilentOnlyOnFailedTransfer'
    BY <1>1, <1>2, <2>1
       DEF SilentOnlyOnFailedTransfer, Answer, Success, Error, CallDone
  <2>4. SuccessMeansDriven'
    <3>1. SUFFICES ASSUME content'.kind = "ok", req.cmd = "write", Reliable(Target)
                   PROVE  /\ Honoured'
                          /\ Driver(Target) = "mcp23017" /\ Exclusive(Target)
                               => inputs'[c] = {}
      BY <1>1, <2>1 DEF SuccessMeansDriven, Reliable, Exclusive, Driver
    <3>2. ok /\ op = "write"
      BY <1>2, <1>5, <2>1, <3>1 DEF Answer, Error, CallDone
    <3>3. latch'[c] = value \cap Pins(c) /\ Asked
      BY <1>1, <1>3, <3>1, <3>2 DEF CallDone, WriteInv
    <3>4. Pins(c) \subseteq 0 .. ValueBits - 1
      BY Widths DEF Pins
    <3>5. Honoured'
      BY <1>1, <3>3, <3>4 DEF Honoured, Asked
    <3>6. QED
      BY <3>1, <3>2, <3>5 DEF CallDone
  <2>5. ReadTellsLatch'
    <3>1. SUFFICES ASSUME content'.kind = "ok", req.cmd = "read", Reliable(Target)
                   PROVE  ReadTellsLatch'
      BY <1>1, <2>1 DEF ReadTellsLatch, Reliable, Driver
    <3>2. ok /\ op = "read"
      BY <1>1, <1>2, <1>3, <2>1, <3>1 DEF Answer, Error, CallDone, RequestInv
    <3>3. content'.value = ReadValue(v)
      BY <2>1, <3>1, <3>2 DEF Answer, Success
    <3>4. latch'[c] = latch[c] /\ v \subseteq Pins(c) /\ Agrees(v, Pins(c))
      BY <3>1, <3>2 DEF CallDone
    <3>5. CASE req.sub \in 0 .. ValueBits - 1
      <4>1. 0 \in content'.value <=> req.sub \in v
        BY <3>3, <3>5 DEF ReadValue
      <4>2. QED
        BY <1>1, <3>4, <3>5, <4>1 DEF ReadTellsLatch, Agrees, Pins
    <3>6. CASE req.sub \notin 0 .. ValueBits - 1
      BY <1>1, <3>3, <3>4, <3>6 DEF ReadTellsLatch, ReadValue, Agrees, Pins
    <3>7. QED
      BY <3>5, <3>6
  <2>6. QED
    BY <2>2, <2>3, <2>4, <2>5
<1>6. QED
  BY <1>4, <1>5

\* What a step must keep, and what it must not do to other pins.
Kept ==
  /\ RequestInv' /\ WriteInv' /\ KeepInv'
  /\ SilentOnlyOnFailedTransfer' /\ SuccessMeansDriven' /\ ReadTellsLatch'
  /\ OthersKept

\* The reply buffer holds no success before the driver call is over.
LEMMA SaidKind ==
  ASSUME RequestInv, Busy, NEW addressed \in BOOLEAN
  PROVE  /\ Said(addressed).kind \in {"none", "error"}
         /\ ~addressed => Said(addressed).kind = "error"
BY DEF Said, Error, RequestInv

\* A driver step that leaves the latch of its device alone keeps the others' pins.
LEMMA LatchLeft ==
  ASSUME Reliable(Target) => latch'[Chip[Target]] = latch[Chip[Target]]
  PROVE  OthersKept
BY DEF OthersKept

\* So does one that writes a value which agrees with the latch elsewhere.
LEMMA LatchWritten ==
  ASSUME KeepInv, op = "write",
         Reliable(Target) =>
           \A i \in Pins(Chip[Target]) :
             \/ i \in latch'[Chip[Target]] <=> i \in latch[Chip[Target]]
             \/ i \in latch'[Chip[Target]] <=> i \in value
  PROVE  OthersKept
BY DEF OthersKept, KeepInv, Agrees

\* The value read is the latch where the pins were not disturbed.
LEMMA SeenIsLatch ==
  ASSUME BusTypeOK, NEW c \in Chips, NEW i \in Pins(c),
         Disagree(c, level[c]) \subseteq disturbed, i \notin disturbed
  PROVE  i \in Seen(c) <=> i \in latch[c]
<1>1. Part[c] \in Parts /\ Pins(c) \subseteq Word
  BY ConfigAssumption, Widths DEF Pins
<1>2. CASE Part[c] = "mcp23017"
  BY <1>1, <1>2 DEF Seen, Disagree
<1>3. CASE Part[c] = "pcf8574"
  BY <1>3 DEF Seen, Disagree
<1>4. CASE Part[c] = "piface"
  BY <1>4 DEF Seen
<1>5. QED
  BY <1>1, <1>2, <1>3, <1>4 DEF Parts

\* mcp23017_configure_io stores nothing into the latch, and what it has been
\* called for is still to come.
LEMMA ConfigureIoKeeps == ReplyInv /\ ConfigureIo => Kept
<1> SUFFICES ASSUME ReplyInv, ConfigureIo PROVE Kept
  OBVIOUS
<1> DEFINE c == Chip[Target]
<1>1. /\ Busy /\ TypeInv /\ TypeOK /\ BusTypeOK /\ SlaveInv /\ CallInv
      /\ RequestInv /\ WriteInv /\ KeepInv
      /\ Target \in Devices /\ c \in Chips /\ c # NoChip
      /\ req' = req /\ disturbed' = disturbed /\ open' = open /\ level' = level
      /\ Target' = Target
  BY DrivenFrame DEF Driven, ReplyInv, DirectionInv
<1>2. PICK addressed \in BOOLEAN, ok \in BOOLEAN :
        /\ SetAddr(Target, addressed)
        /\ WriteByteData(Slave, "IODIR", port, IF op = "write" THEN {} ELSE Byte, ok)
        /\ IF ~ok THEN Return(FALSE, Error("Could not configure"), value)
           ELSE IF port = "A" THEN NextPort(Said(addressed), value)
           ELSE /\ io_state' = [io_state EXCEPT ![Target] = op]
                /\ pc' = "data"
                /\ port' = "A"
                /\ content' = Said(addressed)
                /\ UNCHANGED <<op, value>>
  BY DEF ConfigureIo
<1>3. Part[c] = "mcp23017" /\ pc = "dir"
  BY <1>1 DEF ConfigureIo, CallInv, Driver
<1>4. ok \in Outcomes(Slave)
  BY <1>2 DEF WriteByteData
<1>5. ASSUME Reliable(Target) PROVE latch'[c] = latch[c]
  <2>1. Slave \in {c, NoChip}
    BY <1>1, <1>2, <1>4, <1>5, Reached
  <2>2. CASE Slave = c
    BY <1>1, <1>2, <1>3, <2>2, ReadKeepsLatch
  <2>3. CASE Slave = NoChip
    BY <1>2, <2>3 DEF WriteByteData, chipVars
  <2>4. QED
    BY <2>1, <2>2, <2>3
<1>6. OthersKept
  BY <1>5, LatchLeft
<1>7. CASE ~ok
  <2>1. CallDone(FALSE, Error("Could not configure"), value)
    BY DEF CallDone, Error
  <2>2. QED
    BY <1>2, <1>6, <1>7, <2>1, ReturnKeeps DEF Driven, Kept
<1>8. CASE ok
  <2>1. /\ pc' \in {"dir", "data"} /\ content' = Said(addressed)
        /\ UNCHANGED <<op, value>>
        /\ pc' = "data" => port' = "A"
    BY <1>2, <1>3, <1>8 DEF NextPort
  <2>2. RequestInv'
    BY <1>1, <2>1, SaidKind DEF RequestInv, Busy
  <2>3. WriteInv'
    BY <1>1, <2>1 DEF WriteInv, Asked, HalfStored, Busy
  <2>4. KeepInv'
    <3>1. SUFFICES ASSUME Reliable(Target)
                   PROVE  /\ op = "read" => Disagree(c, level[c])' \subseteq disturbed
                          /\ op = "write" /\ req.sub \in 0 .. ValueBits - 1 =>
                               Agrees(value, Pins(c) \ {req.sub})'
      BY <1>1, <2>1 DEF KeepInv, Agrees, Reliable, Driver
    <3>2. /\ op = "read" => Disagree(c, level[c]) \subseteq disturbed
          /\ op = "write" /\ req.sub \in 0 .. ValueBits - 1 =>
               Agrees(value, Pins(c) \ {req.sub})
      BY <1>1, <3>1 DEF KeepInv
    <3>3. QED
      BY <1>1, <1>5, <2>1, <3>1, <3>2 DEF Disagree, Agrees
  <2>5. SilentOnlyOnFailedTransfer' /\ SuccessMeansDriven' /\ ReadTellsLatch'
    BY <2>1 DEF SilentOnlyOnFailedTransfer, SuccessMeansDriven, ReadTellsLatch
  <2>6. QED
    BY <1>6, <2>2, <2>3, <2>4, <2>5 DEF Kept
<1>9. QED
  BY <1>7, <1>8

\* mcp23017_read leaves the latch alone, and puts together what the pins of the
\* two ports showed.
LEMMA Mcp23017ReadKeeps == ReplyInv /\ Mcp23017Read => Kept
<1> SUFFICES ASSUME ReplyInv, Mcp23017Read PROVE Kept
  OBVIOUS
<1> DEFINE c == Chip[Target]
<1>1. /\ Busy /\ TypeInv /\ TypeOK /\ BusTypeOK /\ SlaveInv
      /\ RequestInv /\ WriteInv /\ KeepInv
      /\ Target \in Devices /\ c \in Chips /\ c # NoChip
      /\ req' = req /\ disturbed' = disturbed /\ open' = open /\ level' = level
      /\ Target' = Target
  BY DrivenFrame DEF Driven, ReplyInv, DirectionInv
<1>2. PICK addressed \in BOOLEAN, ok \in BOOLEAN, byte \in SUBSET Byte :
        /\ SetAddr(Target, addressed)
        /\ ReadByteData(Slave, port, byte, ok)
        /\ IF ok /\ port = "A" THEN NextPort(Said(addressed), byte)
           ELSE Return(ok, Said(addressed), IF ok THEN Join(value, byte) ELSE value)
  BY DEF Mcp23017Read
<1>3. Part[c] = "mcp23017" /\ pc = "data" /\ op = "read" /\ port \in Ports
  BY <1>1 DEF Mcp23017Read, Transfers, Driver, TypeOK
<1>4. ok \in Outcomes(Slave)
  BY <1>2 DEF ReadByteData
<1>5. ASSUME Reliable(Target)
      PROVE  latch'[c] = latch[c] /\ (ok => byte = Half(Seen(c), port))
  <2>1. Slave \in {c, NoChip} /\ (ok => Slave = c)
    BY <1>1, <1>2, <1>4, <1>5, Reached
  <2>2. CASE Slave = c
    BY <1>2, <1>3, <2>2 DEF ReadByteData
  <2>3. CASE Slave = NoChip
    BY <1>1, <1>2, <2>1, <2>3 DEF ReadByteData
  <2>4. QED
    BY <2>1, <2>2, <2>3
<1>6. OthersKept
  BY <1>5, LatchLeft
<1>7. ASSUME Reliable(Target), NEW i \in Word, i \notin disturbed
      PROVE  i \in Seen(c) <=> i \in latch[c]
  <2>1. Disagree(c, level[c]) \subseteq disturbed
    BY <1>1, <1>3, <1>7 DEF KeepInv
  <2>2. QED
    BY <1>1, <1>3, <1>7, <2>1, SeenIsLatch DEF Pins
<1>8. CASE ok /\ port = "A"
  <2>1. /\ pc' = "data" /\ op' = "read" /\ port' = "B" /\ value' = byte
        /\ content' = Said(addressed)
    BY <1>2, <1>3, <1>8 DEF NextPort
  <2>2. RequestInv'
    BY <1>1, <1>3, <2>1, SaidKind DEF RequestInv, Busy
  <2>3. KeepInv'
    <3>1. SUFFICES ASSUME Reliable(Target)
                   PROVE  /\ Disagree(c, level[c])' \subseteq disturbed
                          /\ Agrees(value, Byte)'
      BY <1>1, <2>1 DEF KeepInv, Reliable, Driver
    <3>2. Disagree(c, level[c])' \subseteq disturbed
      BY <1>1, <1>3, <1>5, <3>1 DEF KeepInv, Disagree
    <3>3. byte = Seen(c) \cap Byte
      BY <1>5, <1>8, <3>1 DEF Half
    <3>4. Agrees(value, Byte)'
      BY <1>1, <1>5, <1>7, <2>1, <3>1, <3>3, Widths DEF Agrees
    <3>5. QED
      BY <3>2, <3>4
  <2>4. /\ WriteInv' /\ SilentOnlyOnFailedTransfer' /\ SuccessMeansDriven'
        /\ ReadTellsLatch'
    BY <2>1 DEF WriteInv, HalfStored, SilentOnlyOnFailedTransfer, SuccessMeansDriven,
               ReadTellsLatch
  <2>5. QED
    BY <1>6, <2>2, <2>3, <2>4 DEF Kept
<1>9. CASE ~(ok /\ port = "A")
  <2>1. ASSUME ok, Reliable(Target)
        PROVE  Join(value, byte) \subseteq Word /\ Agrees(Join(value, byte), Word)
    <3>1. byte = Half(Seen(c), "B") /\ port = "B"
      BY <1>3, <1>5, <1>9, <2>1 DEF Ports
    <3>2. \A i \in Word : i \in Join(value, byte)
                            <=> IF i < ByteBits THEN i \in value ELSE i \in Seen(c)
      BY <3>1, BytesReplaced
    <3>3. Agrees(value, Byte)
      BY <1>1, <1>3, <2>1, <3>1 DEF KeepInv
    <3>4. \A i \in Word : i < ByteBits => i \in Byte
      BY WidthAssumption DEF Word, Byte
    <3>5. Join(value, byte) \subseteq Word
      BY DEF Join
    <3>6. QED
      BY <1>7, <2>1, <3>2, <3>3, <3>4, <3>5 DEF Agrees
  <2>2. CallDone(ok, Said(addressed), IF ok THEN Join(value, byte) ELSE value)
    <3>1. ~ok => Said(addressed).kind = "error" \/ c \in XferFaults
      BY <1>1, <1>2, <1>4, Reached, SaidKind
    <3>2. QED
      BY <1>1, <1>3, <1>5, <2>1, <3>1, SaidKind DEF CallDone, Pins
  <2>3. QED
    BY <1>2, <1>6, <1>9, <2>2, ReturnKeeps DEF Driven, Kept
<1>10. QED
  BY <1>8, <1>9

\* In a driver's write a known direction is "write".
LEMMA WritesDriven ==
  ASSUME DirectionInv, Busy, pc = "data", op = "write",
         Driver(Target) = "mcp23017", Exclusive(Target)
  PROVE  inputs[Chip[Target]] = {}
<1>1. Target \in Devices /\ io_state[Target] = "write"
  BY DEF DirectionInv, TypeInv, CallInv
<1>2. QED
  BY <1>1 DEF DirectionInv, DirectionCacheTruthful

\* mcp23017_write stores the two bytes of the value one after the other.
LEMMA Mcp23017WriteKeeps == ReplyInv /\ Mcp23017Write => Kept
<1> SUFFICES ASSUME ReplyInv, Mcp23017Write PROVE Kept
  OBVIOUS
<1> DEFINE c == Chip[Target]
<1>1. /\ Busy /\ TypeInv /\ TypeOK /\ BusTypeOK /\ SlaveInv
      /\ RequestInv /\ WriteInv /\ KeepInv
      /\ Target \in Devices /\ c \in Chips /\ c # NoChip
      /\ req' = req /\ disturbed' = disturbed /\ open' = open /\ level' = level
      /\ Target' = Target
  BY DrivenFrame DEF Driven, ReplyInv, DirectionInv
<1>2. PICK addressed \in BOOLEAN, ok \in BOOLEAN :
        /\ SetAddr(Target, addressed)
        /\ WriteByteData(Slave, "OLAT", port, Half(value, port), ok)
        /\ IF ok /\ port = "A" THEN NextPort(Said(addressed), value)
           ELSE Return(ok, Said(addressed), value)
  BY DEF Mcp23017Write
<1>3. Part[c] = "mcp23017" /\ pc = "data" /\ op = "write" /\ port \in Ports
  BY <1>1 DEF Mcp23017Write, Transfers, Driver, TypeOK
<1>4. ok \in Outcomes(Slave) /\ Slave \in Chips \cup {NoChip}
  BY <1>1, <1>2, SetAddrType DEF WriteByteData
<1>5. latch \in [Chips -> SUBSET Word]
  BY <1>1 DEF BusTypeOK
<1>6. ASSUME Reliable(Target)
      PROVE  \/ latch'[c] = latch[c] /\ ~ok
             \/ latch'[c] = WithHalf(latch[c], port, Half(value, port))
  <2>1. Slave \in {c, NoChip} /\ (ok => Slave = c)
    BY <1>1, <1>2, <1>4, <1>6, Reached
  <2>2. CASE ~ok /\ UNCHANGED chipVars
    BY <2>2 DEF chipVars
  <2>3. CASE /\ Slave # NoChip
             /\ latch' = [latch EXCEPT ![Slave] =
                            LatchAfter(Slave, "OLAT", port, Half(value, port))]
    BY <1>1, <1>3, <1>5, <2>1, <2>3 DEF LatchAfter
  <2>4. QED
    BY <1>2, <2>2, <2>3 DEF WriteByteData
<1>7. OthersKept
  <2>1. ASSUME Reliable(Target), NEW i \in Word
        PROVE  \/ i \in latch'[c] <=> i \in latch[c]
               \/ i \in latch'[c] <=> i \in value
    BY <1>3, <1>6, <2>1, BytesReplaced DEF Ports
  <2>2. QED
    BY <1>1, <1>3, <2>1, LatchWritten DEF Pins
<1>8. CASE ok /\ port = "A"
  <2>1. /\ pc' = "data" /\ op' = "write" /\ port' = "B" /\ value' = value
        /\ content' = Said(addressed)
    BY <1>2, <1>3, <1>8 DEF NextPort
  <2>2. RequestInv'
    BY <1>1, <1>3, <2>1, SaidKind DEF RequestInv, Busy
  <2>3. WriteInv'
    <3>1. Asked'
      BY <1>1, <1>3, <2>1 DEF WriteInv, Asked
    <3>2. Reliable(Target) => Half(latch'[c], "A") = Half(value, "A")
      BY <1>6, <1>8, BytesReplaced
    <3>3. QED
      BY <1>1, <2>1, <3>1, <3>2 DEF WriteInv, HalfStored, Reliable, Driver
  <2>4. KeepInv'
    <3>1. SUFFICES ASSUME req.sub \in 0 .. ValueBits - 1, Reliable(Target),
                          NEW i \in Word \ {req.sub}, i \notin disturbed
                   PROVE  i \in value <=> i \in latch'[c]
      BY <1>1, <1>3, <2>1 DEF KeepInv, Agrees, Reliable, Driver, Pins
    <3>2. i \in value <=> i \in latch[c]
      BY <1>1, <1>3, <3>1 DEF KeepInv, Agrees, Pins
    <3>3. i \in latch'[c] <=> IF i < ByteBits THEN i \in value ELSE i \in latch[c]
      BY <1>6, <1>8, <3>1, BytesReplaced
    <3>4. QED
      BY <3>2, <3>3
  <2>5. SilentOnlyOnFailedTransfer' /\ SuccessMeansDriven' /\ ReadTellsLatch'
    BY <2>1 DEF SilentOnlyOnFailedTransfer, SuccessMeansDriven, ReadTellsLatch
  <2>6. QED
    BY <1>7, <2>2, <2>3, <2>4, <2>5 DEF Kept
<1>9. CASE ~(ok /\ port = "A")
  <2>1. ASSUME ok, Reliable(Target) PROVE latch'[c] = value \cap Word
    <3>1. port = "B" /\ Half(latch[c], "A") = Half(value, "A")
      BY <1>1, <1>3, <1>9, <2>1 DEF Ports, WriteInv, HalfStored
    <3>2. QED
      BY <1>6, <2>1, <3>1, BothBytesStored
  <2>2. ASSUME Driver(Target) = "mcp23017", Exclusive(Target)
        PROVE  inputs'[c] = {}
    <3>1. inputs[c] = {}
      BY <1>1, <1>3, <2>2, WritesDriven DEF ReplyInv
    <3>2. inputs' = inputs
      BY <1>1, <1>2, <1>4, DataTransfer
    <3>3. QED
      BY <3>1, <3>2
  <2>3. ~ok => Said(addressed).kind = "error" \/ c \in XferFaults
    BY <1>1, <1>2, <1>4, Reached, SaidKind
  <2>4. CallDone(ok, Said(addressed), value)
    BY <1>1, <1>3, <2>1, <2>2, <2>3, SaidKind DEF CallDone, Pins
  <2>5. QED
    BY <1>2, <1>7, <1>9, <2>4, ReturnKeeps DEF Driven, Kept
<1>10. QED
  BY <1>8, <1>9

\* pcf8574_read leaves the latch alone and returns what the pins show.
LEMMA Pcf8574ReadKeeps == ReplyInv /\ Pcf8574Read => Kept
<1> SUFFICES ASSUME ReplyInv, Pcf8574Read PROVE Kept
  OBVIOUS
<1> DEFINE c == Chip[Target]
<1>1. /\ Busy /\ TypeInv /\ TypeOK /\ BusTypeOK /\ SlaveInv
      /\ RequestInv /\ WriteInv /\ KeepInv
      /\ Target \in Devices /\ c \in Chips /\ c # NoChip
      /\ req' = req /\ disturbed' = disturbed /\ open' = open /\ level' = level
      /\ Target' = Target
  BY DrivenFrame DEF Driven, ReplyInv, DirectionInv
<1>2. PICK addressed \in BOOLEAN, ok \in BOOLEAN, byte \in SUBSET Byte :
        /\ SetAddr(Target, addressed)
        /\ ReadByte(Slave, byte, ok)
        /\ Return(ok, Said(addressed), IF ok THEN byte ELSE {})
  BY DEF Pcf8574Read
<1>3. Part[c] = "pcf8574" /\ pc = "data" /\ op = "read"
  BY <1>1 DEF Pcf8574Read, Transfers, Driver
<1>4. ok \in Outcomes(Slave) /\ latch' = latch
  BY <1>2 DEF ReadByte, chipVars
<1>5. OthersKept
  BY <1>4, LatchLeft
<1>6. ASSUME ok, Reliable(Target)
      PROVE  Agrees(byte, Pins(c))
  <2>1. byte = Seen(c)
    <3>1. Slave = c
      BY <1>1, <1>2, <1>4, <1>6, Reached
    <3>2. QED
      BY <1>2, <1>3, <1>6, <3>1 DEF ReadByte
  <2>2. Disagree(c, level[c]) \subseteq disturbed
    BY <1>1, <1>3, <1>6 DEF KeepInv
  <2>3. QED
    BY <1>1, <2>1, <2>2, SeenIsLatch DEF Agrees
<1>7. ~ok => Said(addressed).kind = "error" \/ c \in XferFaults
  BY <1>1, <1>2, <1>4, Reached, SaidKind
<1>8. CallDone(ok, Said(addressed), IF ok THEN byte ELSE {})
  BY <1>1, <1>3, <1>4, <1>6, <1>7, SaidKind DEF CallDone, Pins
<1>9. QED
  BY <1>2, <1>5, <1>8, ReturnKeeps DEF Driven, Kept

\* pcf8574_write stores the value in one transfer.
LEMMA Pcf8574WriteKeeps == ReplyInv /\ Pcf8574Write => Kept
<1> SUFFICES ASSUME ReplyInv, Pcf8574Write PROVE Kept
  OBVIOUS
<1> DEFINE c == Chip[Target]
<1>1. /\ Busy /\ TypeInv /\ TypeOK /\ BusTypeOK /\ SlaveInv
      /\ RequestInv /\ WriteInv /\ KeepInv
      /\ Target \in Devices /\ c \in Chips /\ c # NoChip
      /\ req' = req /\ disturbed' = disturbed /\ open' = open /\ level' = level
      /\ Target' = Target
  BY DrivenFrame DEF Driven, ReplyInv, DirectionInv
<1>2. PICK addressed \in BOOLEAN, ok \in BOOLEAN :
        /\ SetAddr(Target, addressed)
        /\ WriteByte(Slave, value \cap Byte, ok)
        /\ Return(ok, Said(addressed), value)
  BY DEF Pcf8574Write
<1>3. Part[c] = "pcf8574" /\ pc = "data" /\ op = "write" /\ Pins(c) = Byte
  BY <1>1 DEF Pcf8574Write, Transfers, Driver, Pins
<1>4. ok \in Outcomes(Slave)
  BY <1>2 DEF WriteByte
<1>5. latch \in [Chips -> SUBSET Word]
  BY <1>1 DEF BusTypeOK
<1>6. ASSUME Reliable(Target)
      PROVE  (latch'[c] = latch[c] /\ ~ok) \/ latch'[c] = value \cap Byte
  <2>1. Slave \in {c, NoChip} /\ (ok => Slave = c)
    BY <1>1, <1>2, <1>4, <1>6, Reached
  <2>2. CASE UNCHANGED latch /\ (ok => Part[Slave] # "pcf8574")
    BY <1>3, <2>1, <2>2
  <2>3. CASE Slave # NoChip /\ latch' = [latch EXCEPT ![Slave] = value \cap Byte]
    BY <1>1, <1>5, <2>1, <2>3
  <2>4. QED
    BY <1>2, <2>2, <2>3 DEF WriteByte
<1>7. OthersKept
  BY <1>1, <1>3, <1>6, LatchWritten
<1>8. ~ok => Said(addressed).kind = "error" \/ c \in XferFaults
  BY <1>1, <1>2, <1>4, Reached, SaidKind
<1>9. CallDone(ok, Said(addressed), value)
  BY <1>1, <1>3, <1>6, <1>8, SaidKind DEF CallDone, Driver
<1>10. QED
  BY <1>2, <1>7, <1>9, ReturnKeeps DEF Driven, Kept

\* What piface_read returns is the latch as long as its transfers do not fail.
LEMMA PifaceReadKeeps == ReplyInv /\ PifaceRead => Kept
<1> SUFFICES ASSUME ReplyInv, PifaceRead PROVE Kept
  OBVIOUS
<1> DEFINE c == Chip[Target]
<1>1. /\ Busy /\ TypeInv /\ TypeOK /\ BusTypeOK /\ SlaveInv
      /\ RequestInv /\ WriteInv /\ KeepInv
      /\ Target \in Devices /\ c \in Chips /\ c # NoChip
      /\ req' = req /\ disturbed' = disturbed /\ open' = open /\ level' = level
      /\ Target' = Target
  BY DrivenFrame DEF Driven, ReplyInv, DirectionInv
<1>2. PICK byte \in SUBSET Byte :
        /\ c \notin XferFaults => byte = Seen(c)
        /\ Return(TRUE, content, byte)
  BY DEF PifaceRead
<1>3. /\ Part[c] = "piface" /\ op = "read" /\ latch' = latch
  BY DEF PifaceRead, Transfers, Driver, chipVars
<1>4. OthersKept
  BY <1>3, LatchLeft
<1>5. Reliable(Target) => byte = latch[c]
  BY <1>2, <1>3 DEF Reliable, Driver, Seen
<1>6. CallDone(TRUE, content, byte)
  BY <1>1, <1>3, <1>5 DEF CallDone, RequestInv, Agrees, Pins
<1>7. QED
  BY <1>2, <1>4, <1>6, ReturnKeeps DEF Driven, Kept

\* piface_write stores the value unless its transfer fails.
LEMMA PifaceWriteKeeps == ReplyInv /\ PifaceWrite => Kept
<1> SUFFICES ASSUME ReplyInv, PifaceWrite PROVE Kept
  OBVIOUS
<1> DEFINE c == Chip[Target]
<1>1. /\ Busy /\ TypeInv /\ TypeOK /\ BusTypeOK /\ SlaveInv
      /\ RequestInv /\ WriteInv /\ KeepInv
      /\ Target \in Devices /\ c \in Chips /\ c # NoChip
      /\ req' = req /\ disturbed' = disturbed /\ open' = open /\ level' = level
      /\ Target' = Target
  BY DrivenFrame DEF Driven, ReplyInv, DirectionInv
<1>2. /\ Part[c] = "piface" /\ op = "write" /\ Pins(c) = Byte
      /\ Return(TRUE, content, value)
  BY <1>1 DEF PifaceWrite, Transfers, Driver, Pins
<1>3. latch \in [Chips -> SUBSET Word]
  BY <1>1 DEF BusTypeOK
<1>4. Reliable(Target) => latch'[c] = value \cap Byte
  BY <1>1, <1>2, <1>3 DEF PifaceWrite, Reliable, Driver
<1>5. OthersKept
  BY <1>1, <1>2, <1>4, LatchWritten
<1>6. CallDone(TRUE, content, value)
  BY <1>1, <1>2, <1>4 DEF CallDone, RequestInv, Driver
<1>7. QED
  BY <1>2, <1>5, <1>6, ReturnKeeps DEF Driven, Kept

\* Every step of a driver.
LEMMA DrivenKeeps == ReplyInv /\ Driven => Kept
BY ConfigureIoKeeps, Mcp23017ReadKeeps, Mcp23017WriteKeeps, Pcf8574ReadKeeps,
   Pcf8574WriteKeeps, PifaceReadKeeps, PifaceWriteKeeps DEF Driven

-----------------------------------------------------------------------------
(* The theorems. *)

\* A step that starts or ends no driver call, and leaves chips and request alone
\* while a reply is being sent, keeps what has been claimed of it.
LEMMA StepReply == ReplyInv /\ [Next]_vars => ReplyInv'
<1> SUFFICES ASSUME ReplyInv, [Next]_vars PROVE ReplyInv'
  OBVIOUS
<1>1. DirectionInv' /\ TypeOK /\ BusTypeOK /\ RequestInv /\ WriteInv /\ KeepInv
  BY StepDirection DEF ReplyInv, DirectionInv, TypeInv, TypeOK
<1>2. ASSUME NEW r \in Requests, Serve(r) PROVE ReplyInv'
  <2> DEFINE t == <<r.bus, r.dev>>
  <2>1. /\ req' = r /\ value' = r.value /\ content' = Nothing
        /\ latch' = latch /\ level' = level /\ Target' = t
    BY <1>2 DEF Serve, chipVars, Target
  <2>2. CASE t \in Devices
    <3>1. /\ pc' \in {"dir", "data"} /\ port' = "A"
          /\ op' = IF r.cmd = "write" /\ r.sub = IDX_INVALID THEN "write" ELSE "read"
          /\ disturbed' = Disagree(Chip[t], level[Chip[t]])
      BY <1>2, <2>2 DEF Serve, Call
    <3>2. RequestInv'
      BY <2>1, <3>1 DEF RequestInv, Nothing
    <3>3. WriteInv'
      BY <2>1, <3>1 DEF WriteInv, Asked, HalfStored
    <3>4. KeepInv'
      BY <2>1, <3>1 DEF KeepInv, IDX_INVALID, Disagree
    <3>5. QED
      BY <1>1, <3>1, <3>2, <3>3, <3>4
         DEF ReplyInv, SilentOnlyOnFailedTransfer, SuccessMeansDriven, ReadTellsLatch
  <2>3. CASE t \notin Devices
    <3>1. pc' = "undefined"
      BY <1>2, <2>3 DEF Serve
    <3>2. QED
      BY <1>1, <3>1 DEF ReplyInv, RequestInv, WriteInv, KeepInv, Busy,
                       SilentOnlyOnFailedTransfer, SuccessMeansDriven, ReadTellsLatch
  <2>4. QED
    BY <2>2, <2>3
<1>3. ASSUME NEW message, Refuse(message) PROVE ReplyInv'
  BY <1>1, <1>3 DEF Refuse, Error, ReplyInv, RequestInv, WriteInv, KeepInv, Busy,
                   SilentOnlyOnFailedTransfer, SuccessMeansDriven, ReadTellsLatch
<1>4. CASE RefuseUri \/ \E r \in Requests : RefuseIndex(r)
  BY <1>3, <1>4 DEF RefuseUri, RefuseIndex
<1>5. CASE Reply \/ Restart
  BY <1>1, <1>5 DEF Reply, Restart, ReplyInv, RequestInv, WriteInv, KeepInv, Busy,
                   SilentOnlyOnFailedTransfer, SuccessMeansDriven, ReadTellsLatch
<1>6. CASE Driven
  BY <1>1, <1>6, DrivenKeeps DEF Kept, ReplyInv
<1>7. ASSUME UNCHANGED <<reqVars, chipVars>>, disturbed \subseteq disturbed'
      PROVE  /\ RequestInv' /\ WriteInv'
             /\ SilentOnlyOnFailedTransfer' /\ SuccessMeansDriven' /\ ReadTellsLatch'
  BY <1>1, <1>7 DEF reqVars, chipVars, ReplyInv, RequestInv, WriteInv, Asked,
                   HalfStored, Busy, Target, Reliable, Driver, Exclusive, Honoured,
                   SilentOnlyOnFailedTransfer, SuccessMeansDriven, ReadTellsLatch
<1>8. ASSUME NEW c \in Chips, NEW lv \in Levels, LevelChange(c, lv) PROVE ReplyInv'
  <2>1. UNCHANGED <<reqVars, chipVars>> /\ disturbed \subseteq disturbed'
    BY <1>8 DEF LevelChange
  <2>2. KeepInv'
    <3>1. SUFFICES ASSUME Busy, Reliable(Target)
                   PROVE  /\ op = "read" => Disagree(Chip[Target], level[Chip[Target]])'
                                               \subseteq disturbed'
                          /\ op = "read" /\ pc = "data" /\ port = "B" =>
                               Agrees(value, Byte)'
                          /\ op = "write" /\ req.sub \in 0 .. ValueBits - 1 =>
                               Agrees(value, Pins(Chip[Target]) \ {req.sub})'
      BY <2>1 DEF KeepInv, reqVars, Busy, Target, Reliable, Driver, Agrees, chipVars
    <3>2. level \in [Chips -> SUBSET Word] /\ level' = [level EXCEPT ![c] = lv \cap Pins(c)]
      BY <1>1, <1>8 DEF LevelChange, BusTypeOK
    <3>3. ASSUME op = "read"
          PROVE  Disagree(Chip[Target], level[Chip[Target]])' \subseteq disturbed'
      <4>1. Disagree(Chip[Target], level[Chip[Target]])'
              = Disagree(Chip[Target], level'[Chip[Target]])
        BY <2>1 DEF Disagree, chipVars, reqVars, Target
      <4>2. CASE c = Chip[Target]
        BY <1>8, <3>1, <3>3, <4>1, <4>2 DEF LevelChange, Reading, Busy
      <4>3. CASE c # Chip[Target]
        <5>1. level'[Chip[Target]] = level[Chip[Target]]
          BY <1>1, <3>1, <3>2, <4>3 DEF ReplyInv, DirectionInv, TypeInv, Chips
        <5>2. QED
          BY <1>1, <2>1, <3>1, <3>3, <4>1, <5>1 DEF KeepInv
      <4>4. QED
        BY <4>2, <4>3
    <3>4. QED
      BY <1>1, <2>1, <3>1, <3>3 DEF KeepInv, Agrees, reqVars, chipVars, Target
  <2>3. QED
    BY <1>1, <1>7, <2>1, <2>2 DEF ReplyInv
<1>9. CASE UNCHANGED vars
  <2>1. KeepInv'
    BY <1>1, <1>9 DEF vars, reqVars, chipVars, KeepInv, Busy, Target, Reliable,
                     Driver, Disagree, Agrees
  <2>2. QED
    BY <1>1, <1>7, <1>9, <2>1 DEF vars, ReplyInv
<1>10. QED
  BY <1>2, <1>4, <1>5, <1>6, <1>8, <1>9 DEF Next

\* What is known of replies and of the values that drivers work on, in every
\* reachable state.
THEOREM AlwaysReplyInv == Spec => []ReplyInv
<1>1. Init => ReplyInv
  BY InitType, InitDirection
     DEF Init, ReplyInv, RequestInv, WriteInv, KeepInv, Busy,
         SilentOnlyOnFailedTransfer, SuccessMeansDriven, ReadTellsLatch
<1>2. QED
  BY <1>1, StepReply, PTL DEF Spec

\* http_request_handler sends an empty reply only after a transfer to the device
\* addressed has failed, and never for the read half of a sub-device write.
THEOREM SilentExplained == Spec => []SilentOnlyOnFailedTransfer
<1>1. ReplyInv => SilentOnlyOnFailedTransfer
  BY DEF ReplyInv
<1>2. QED
  BY <1>1, AlwaysReplyInv, PTL

\* A write is answered "ok" only when the latch of its device holds what was asked
\* for and both ports of an MCP23017 drive it, whatever failed before.
THEOREM SuccessHonest == Spec => []SuccessMeansDriven
<1>1. ReplyInv => SuccessMeansDriven
  BY DEF ReplyInv
<1>2. QED
  BY <1>1, AlwaysReplyInv, PTL

\* A read is answered "ok" with the latch of every pin asked for that the world left
\* at it, the bytes of the ports and the sub-device's bit at their places, however
\* its transfers and the world's changes interleave.
THEOREM ReadsToldTruly == Spec => []ReadTellsLatch
<1>1. ReplyInv => ReadTellsLatch
  BY DEF ReplyInv
<1>2. QED
  BY <1>1, AlwaysReplyInv, PTL

\* perform_io's read-modify-write of one pin, interrupted by the world at any
\* transfer, changes no other pin that the world left at its latch.
THEOREM OthersAlwaysKept == Spec => BitWriteKeepsOthers
<1>1. ReplyInv /\ [Next]_vars => [OthersKept]_vars
  <2> SUFFICES ASSUME ReplyInv, Next PROVE OthersKept
    OBVIOUS
  <2>1. CASE \E r \in Requests : Serve(r) \/ RefuseIndex(r)
    BY <2>1 DEF Serve, RefuseIndex, Refuse, OthersKept, Busy
  <2>2. CASE RefuseUri \/ Reply \/ Restart
    BY <2>2 DEF RefuseUri, Refuse, Reply, Restart, OthersKept, Busy
  <2>3. CASE \E c \in Chips, lv \in Levels : LevelChange(c, lv)
    BY <2>3 DEF LevelChange, chipVars, OthersKept
  <2>4. CASE Driven
    BY <2>4, DrivenKeeps DEF Kept
  <2>5. QED
    BY <2>1, <2>2, <2>3, <2>4 DEF Next
<1>2. QED
  BY <1>1, AlwaysReplyInv, PTL DEF Spec, BitWriteKeepsOthers

-----------------------------------------------------------------------------
(* SwitcherIo implements PortBank, where the slave address can be set and *)
(* the SPI transfers work.                                                *)

\* No ioctl(I2C_SLAVE) and no SPI transfer fails.  I2C transfers and open() may.
AddressedAndReported ==
  /\ AddrFaults = {}
  /\ \A c \in Chips : Part[c] = "piface" => c \notin XferFaults

\* A request for a configured device as PortBank sees it, and the answer to it.
BankRequest(r) ==
  [port |-> Chip[<<r.bus, r.dev>>], cmd |-> r.cmd, sub |-> r.sub, value |-> r.value]

BankAnswer ==
  IF pc # "reply" \/ Target \notin Devices THEN "none"
  ELSE IF content.kind = "ok" THEN "ok" ELSE "failed"

\* Latches are latches of PortBank.
LEMMA LatchesOfBank ==
  ASSUME NEW l \in [Chips -> SUBSET Word]
  PROVE  l \in Bank!Latches
<1>1. Word \subseteq Nat
  BY WidthAssumption DEF Word
<1>2. QED
  BY <1>1 DEF Bank!Latches

\* A request for a configured device is one of PortBank's, and not none.
LEMMA RequestOfBank ==
  ASSUME NEW r \in Requests, <<r.bus, r.dev>> \in Devices
  PROVE  BankRequest(r) # NoChip /\ BankRequest(r) \in Bank!Request
<1>1. {} \in Value
  BY DEF Value
<1>2. /\ Chip[<<r.bus, r.dev>>] \in Chips /\ r.cmd \in {"read", "write"}
      /\ r.sub \in ReqSub /\ r.sub \in Int /\ r.value \in Value
  BY <1>1, RequestAssumption DEF Chips, Requests
<1>3. BankRequest(r) # NoChip
  BY <1>2, NoChipAssumption DEF BankRequest
<1>4. r.value \in SUBSET Nat
  BY <1>2, WidthAssumption DEF Value
<1>5. QED
  BY <1>2, <1>3, <1>4 DEF BankRequest, Bank!Request

\* The request being served.
LEMMA ServedRequest ==
  ASSUME TypeOK, Target \in Devices
  PROVE  Served = BankRequest(req) /\ Served # NoChip
<1>1. req \in Requests
  BY TargetOfRequest
<1>2. QED
  BY <1>1, RequestOfBank DEF Served, BankRequest, Target

\* The program starts with no request.
LEMMA BankInit == Init => Bank!Init
<1> SUFFICES ASSUME Init PROVE Bank!Init
  OBVIOUS
<1>1. TypeOK /\ BusTypeOK
  BY InitType DEF TypeInv, TypeOK
<1>2. Target \notin Devices
  BY <1>1, TargetOfRequest DEF Init, NoRequest
<1>3. QED
  BY <1>1, <1>2, LatchesOfBank DEF Init, Bank!Init, Served, BusTypeOK

\* Where AddressedAndReported holds, a step of a driver changes no latch but that
\* of the device addressed, and that one in a write only.
LEMMA DrivenLatch ==
  ASSUME ReplyInv, Driven, AddressedAndReported,
         NEW c \in Chips, latch'[c] # latch[c]
  PROVE  c = Chip[Target] /\ req.cmd = "write"
<1>1. /\ Busy /\ TypeInv /\ TypeOK /\ BusTypeOK /\ SlaveInv /\ RequestInv /\ CallInv
      /\ op \in {"read", "write"} /\ c # NoChip /\ open' = open
  BY DrivenFrame, ConfigAssumption DEF ReplyInv, DirectionInv, TypeOK
<1>2. op = "write" => req.cmd = "write"
  BY <1>1 DEF RequestInv
<1>3. CASE Part[c] # "piface"
  BY <1>1, <1>2, <1>3, DrivenContained DEF Contained, ReplyInv, AddressedAndReported
<1>4. CASE Part[c] = "piface"
  <2>1. CASE PifaceWrite
    BY <1>1, <1>2, <2>1 DEF PifaceWrite, BusTypeOK
  <2>2. CASE ~PifaceWrite
    <3>1. Driver(Target) # "piface" \/ latch' = latch
      BY <1>1, <2>2 DEF Driven, ConfigureIo, Mcp23017Read, Mcp23017Write, Pcf8574Read,
                       Pcf8574Write, PifaceRead, Transfers, CallInv, chipVars
    <3>2. Reliable(Target) /\ c # Chip[Target]
      BY <1>4, <3>1 DEF AddressedAndReported, Reliable, Driver
    <3>3. ASSUME NEW addressed \in BOOLEAN, SetAddr(Target, addressed)
          PROVE  c # Slave
      BY <1>1, <3>2, <3>3, SlaveReached DEF AddressedAndReported
    <3>4. CASE latch' = latch
      BY <3>4
    <3>5. CASE ConfigureIo
      <4>1. PICK addressed \in BOOLEAN, ok \in BOOLEAN :
              /\ SetAddr(Target, addressed)
              /\ WriteByteData(Slave, "IODIR", port,
                               IF op = "write" THEN {} ELSE Byte, ok)
        BY <3>5 DEF ConfigureIo
      <4>2. QED
        BY <1>1, <3>3, <4>1, OnlySlave
    <3>6. CASE Mcp23017Read
      <4>1. PICK addressed \in BOOLEAN, ok \in BOOLEAN, byte \in SUBSET Byte :
              SetAddr(Target, addressed) /\ ReadByteData(Slave, port, byte, ok)
        BY <3>6 DEF Mcp23017Read
      <4>2. QED
        BY <1>1, <3>3, <4>1, OnlySlave
    <3>7. CASE Mcp23017Write
      <4>1. PICK addressed \in BOOLEAN, ok \in BOOLEAN :
              /\ SetAddr(Target, addressed)
              /\ WriteByteData(Slave, "OLAT", port, Half(value, port), ok)
        BY <3>7 DEF Mcp23017Write
      <4>2. QED
        BY <1>1, <3>3, <4>1, OnlySlave
    <3>8. CASE Pcf8574Write
      <4>1. PICK addressed \in BOOLEAN, ok \in BOOLEAN :
              SetAddr(Target, addressed) /\ WriteByte(Slave, value \cap Byte, ok)
        BY <3>8 DEF Pcf8574Write
      <4>2. QED
        BY <1>1, <3>3, <4>1, OnlySlave
    <3>9. CASE Pcf8574Read \/ PifaceRead
      BY <3>4, <3>9 DEF Pcf8574Read, ReadByte, PifaceRead, chipVars
    <3>10. QED
      BY <2>2, <3>4, <3>5, <3>6, <3>7, <3>8, <3>9 DEF Driven
  <2>3. QED
    BY <2>1, <2>2
<1>5. QED
  BY <1>3, <1>4

\* A step of a driver is a step of the request being served.
LEMMA BankServe ==
  ASSUME ReplyInv, ReplyInv', Driven, AddressedAndReported
  PROVE  Bank!Serve
<1>1. /\ Busy /\ TypeOK /\ TypeOK' /\ BusTypeOK' /\ Target \in Devices
      /\ Target' = Target /\ req' = req /\ Chip[Target] \in Chips
  BY DrivenFrame DEF ReplyInv, DirectionInv, TypeInv, TypeOK
<1>2. Served # NoChip /\ Served' = Served
  BY <1>1, ServedRequest DEF Served
<1>3. latch' \in Bank!Latches
  BY <1>1, LatchesOfBank DEF BusTypeOK
<1>4. \A c \in Chips : latch'[c] # latch[c] =>
        Served.cmd = "write" /\ c = Served.port
  BY <1>1, DrivenLatch DEF Served
<1>5. BankAnswer = "none" /\ BankAnswer' \in {"none", "ok", "failed"}
  BY <1>1 DEF BankAnswer, Busy
<1>6. BankAnswer' = "ok" => Bank!Honoured(Served, latch'[Served.port])
  <2>1. SUFFICES ASSUME pc' = "reply", content'.kind = "ok", req.cmd = "write"
                 PROVE  Bank!Honoured(Served, latch'[Served.port])
    BY <1>1, ServedRequest DEF BankAnswer, Bank!Honoured, BankRequest
  <2>2. Reliable(Target)
    BY <1>1 DEF Reliable, AddressedAndReported, Driver
  <2>3. Honoured'
    BY <1>1, <2>1, <2>2 DEF ReplyInv, SuccessMeansDriven, Reliable, Driver
  <2>4. QED
    BY <1>1, <2>3, ServedRequest
       DEF Honoured, Bank!Honoured, Bank!WholePort, IDX_INVALID, BankRequest, Target
<1>7. QED
  BY <1>2, <1>3, <1>4, <1>5, <1>6 DEF Bank!Serve, BankAnswer

\* Every step of the switcher is one of the bank, or none.
LEMMA BankStep ==
  ASSUME AddressedAndReported
  PROVE  ReplyInv /\ ReplyInv' /\ [Next]_vars => [Bank!Next]_(Bank!vars)
<1> SUFFICES ASSUME ReplyInv, ReplyInv', [Next]_vars
             PROVE  [Bank!Next]_(Bank!vars)
  OBVIOUS
<1>1. TypeOK /\ TypeOK' /\ BusTypeOK /\ BusTypeOK' /\ RequestInv /\ RequestInv'
  BY DEF ReplyInv, DirectionInv, TypeInv, TypeOK
<1>2. req = NoRequest => Target \notin Devices
  BY <1>1, TargetOfRequest DEF NoRequest
<1>3. req' = NoRequest => Target' \notin Devices
  BY ConfigAssumption DEF Target, NoRequest, Devices, Busses, IDX_INVALID
<1>4. ASSUME UNCHANGED <<latch, Served, BankAnswer>> PROVE UNCHANGED Bank!vars
  BY <1>4 DEF Bank!vars, BankAnswer
<1>5. ASSUME NEW r \in Requests, Serve(r) PROVE [Bank!Next]_(Bank!vars)
  <2>1. pc = "idle" /\ req = NoRequest /\ latch' = latch /\ Target' = <<r.bus, r.dev>>
    BY <1>1, <1>5 DEF Serve, RequestInv, chipVars, Target
  <2>2. Served = NoChip /\ BankAnswer = "none"
    BY <1>2, <2>1 DEF Served, BankAnswer
  <2>3. CASE Target' \in Devices
    <3>1. pc' # "reply"
      BY <1>5, <2>1, <2>3 DEF Serve, Call
    <3>2. Served' \in Bank!Request
      BY <1>5, <2>1, <2>3, RequestOfBank DEF Serve, Served, BankRequest
    <3>3. Bank!Take
      BY <2>1, <2>2, <3>1, <3>2 DEF Bank!Take, BankAnswer
    <3>4. QED
      BY <3>3 DEF Bank!Next
  <2>4. CASE Target' \notin Devices
    BY <1>4, <2>1, <2>2, <2>4 DEF Served, BankAnswer
  <2>5. QED
    BY <2>3, <2>4
<1>6. ASSUME NEW message, Refuse(message) PROVE [Bank!Next]_(Bank!vars)
  BY <1>1, <1>2, <1>4, <1>6 DEF Refuse, RequestInv, chipVars, Served, BankAnswer, Target
<1>7. CASE RefuseUri \/ \E r \in Requests : RefuseIndex(r)
  BY <1>6, <1>7 DEF RefuseUri, RefuseIndex
<1>8. CASE Driven
  BY <1>8, BankServe DEF Bank!Next
<1>9. CASE Reply
  <2>1. latch' = latch /\ Served' = NoChip /\ BankAnswer' = "none"
    BY <1>3, <1>9 DEF Reply, chipVars, Served, BankAnswer
  <2>2. CASE Target \in Devices
    <3>1. Served # NoChip /\ BankAnswer # "none"
      BY <1>1, <1>9, <2>2, ServedRequest DEF Reply, BankAnswer
    <3>2. Bank!Reply
      BY <2>1, <3>1 DEF Bank!Reply, BankAnswer
    <3>3. QED
      BY <3>2 DEF Bank!Next
  <2>3. CASE Target \notin Devices
    BY <1>4, <2>1, <2>3 DEF Served, BankAnswer
  <2>4. QED
    BY <2>2, <2>3
<1>10. CASE \E c \in Chips, lv \in Levels : LevelChange(c, lv)
  BY <1>4, <1>10 DEF LevelChange, reqVars, chipVars, Served, BankAnswer, Target
<1>11. CASE Restart
  <2>1. Served' = NoChip /\ BankAnswer' = "none"
    BY <1>3, <1>11 DEF Restart, Served, BankAnswer
  <2>2. latch' \in Bank!Latches
    BY <1>1, LatchesOfBank DEF BusTypeOK
  <2>3. \A c \in Chips : Part[c] # "piface" => latch'[c] = latch[c]
    BY <1>11 DEF Restart
  <2>4. Bank!Restart
    BY <2>1, <2>2, <2>3 DEF Bank!Restart, BankAnswer
  <2>5. QED
    BY <2>4 DEF Bank!Next
<1>12. CASE UNCHANGED vars
  BY <1>4, <1>12 DEF vars, reqVars, chipVars, Served, BankAnswer, Target
<1>13. QED
  BY <1>5, <1>7, <1>8, <1>9, <1>10, <1>11, <1>12 DEF Next

\* The serving side of the switcher is a bank of ports that serves one request at a
\* time: a port changes only while a write to it is served, "ok" is answered to a
\* write only when the port holds what was asked for, and requests may be lost
\* when the program is restarted.  I2C transfers may fail at any time.
THEOREM SwitcherIsPortBank ==
  ASSUME AddressedAndReported
  PROVE  Spec => ImplementsPortBank
<1>1. ReplyInv /\ ReplyInv' /\ [Next]_vars => [Bank!Next]_(Bank!vars)
  BY BankStep
<1>2. QED
  BY <1>1, BankInit, AlwaysReplyInv, PTL DEF Spec, ImplementsPortBank, Bank!Spec
===============================================================================
