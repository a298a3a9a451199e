--------------------------- MODULE SwitcherIoProofs ---------------------------
(***************************************************************************)
(* Proofs about SwitcherIo, for every configuration of busses and devices, *)
(* every width of bytes and values, every set of faults and every request. *)
(***************************************************************************)
EXTENDS SwitcherIo, TLAPS

-----------------------------------------------------------------------------
(* Bytes, values and the configuration. *)

\* Bytes are words and words are values.
LEMMA Widths ==
  /\ Byte \subseteq Word
  /\ Word \subseteq 0 .. ValueBits - 1
  /\ SUBSET Byte \subseteq Value
  /\ SUBSET Word \subseteq Value
<1>1. /\ ByteBits \in Nat \ {0} /\ ValueBits \in Nat /\ ValueBits >= 2 * ByteBits
  BY WidthAssumption
<1>2. Byte \subseteq Word /\ Word \subseteq 0 .. ValueBits - 1
  BY <1>1 DEF Byte, Word
<1>3. QED
  BY <1>2 DEF Value

\* The bytes of a value and the words put together from bytes.
LEMMA Halves ==
  ASSUME NEW v, NEW p, NEW byte
  PROVE  /\ Half(v, p) \in SUBSET Byte
         /\ Join(v, byte) \in SUBSET Word
         /\ WithHalf(v, p, byte) \in SUBSET Word
BY DEF Half, Join, WithHalf

\* A device is on a bus of the configuration and its part has a driver.
LEMMA DeviceFacts ==
  ASSUME NEW b, NEW d, <<b, d>> \in Devices
  PROVE  /\ b \in Busses
         /\ Chip[<<b, d>>] \in Chips
         /\ Chip[<<b, d>>] # NoChip
         /\ Driver(<<b, d>>) \in Parts
<1>1. b \in Busses
  BY DEF Devices
<1>2. Chip[<<b, d>>] \in Chips
  BY DEF Chips
<1>3. QED
  BY <1>1, <1>2, ConfigAssumption DEF Driver

\* A shift gives the mask of a bit of a value_t, or none.
LEMMA BitIsValue ==
  ASSUME NEW i \in Int, NEW mask \in Bit(i)
  PROVE  mask \in Value
<1>1. /\ ValueBits \in Nat \ {0}
  BY WidthAssumption
<1>2. i % ValueBits \in 0 .. ValueBits - 1
  BY <1>1
<1>3. QED
  BY <1>1, <1>2 DEF Bit, Value

\* What the pins of a chip read.
LEMMA SeenIsWord ==
  ASSUME NEW c \in Chips, BusTypeOK
  PROVE  Seen(c) \in SUBSET Word
<1>1. latch[c] \in SUBSET Word /\ Part[c] \in Parts
  BY ConfigAssumption DEF BusTypeOK
<1>2. QED
  BY <1>1 DEF Seen, Parts

-----------------------------------------------------------------------------
(* Type correctness. *)

\* TypeOK is inductive together with the fact that a driver call is under way
\* only for a device of the configuration.
TypeInv ==
  /\ TypeOK
  /\ Busy => Target \in Devices

\* A request's fields.
LEMMA RequestType ==
  ASSUME req \in Requests \cup {NoRequest}
  PROVE  /\ req.sub \in Int
         /\ req.value \in Value
<1>1. {} \in Value
  BY DEF Value
<1>2. CASE req \in Requests
  BY <1>1, <1>2, RequestAssumption DEF Requests
<1>3. CASE req = NoRequest
  BY <1>1, <1>3 DEF NoRequest, IDX_INVALID
<1>4. QED
  BY <1>2, <1>3

\* perform_io's part after a driver call keeps the types.
LEMMA ReturnType ==
  ASSUME TypeInv, Busy, NEW ok \in BOOLEAN, NEW said \in Replies, NEW v \in Value,
         Return(ok, said, v)
  PROVE  /\ pc' \in {"dir", "data", "reply"}
         /\ op' \in {"read", "write"}
         /\ port' \in Ports
         /\ value' \in Value
         /\ content' \in Replies
         /\ io_state' \in [Devices -> {"none", "read", "write"}]
<1>1. req.sub \in Int /\ req.value \in Value
  BY RequestType DEF TypeInv, TypeOK
<1>2. CASE ok /\ req.cmd = "write" /\ op = "read"
  <2>1. PICK mask \in Bit(req.sub) : value' = Modified(v, mask)
    BY <1>2 DEF Return, WriteBack
  <2>2. value' \in Value
    BY <1>1, <2>1, BitIsValue DEF Modified, Value
  <2>3. content' = said /\ Call(Target, "write")
    BY <1>2 DEF Return, WriteBack
  <2>4. QED
    BY <2>2, <2>3 DEF Call, Ports, TypeInv, TypeOK
<1>3. CASE ~(ok /\ req.cmd = "write" /\ op = "read")
  <2>1. /\ pc' = "reply" /\ value' = v /\ content' = Answer(ok, said, v)
        /\ UNCHANGED <<op, port, io_state>>
    BY <1>3 DEF Return, Finish
  <2>2. ReadValue(v) \in Value
    BY WidthAssumption DEF ReadValue, Value
  <2>3. Answer(ok, said, v) \in Replies
    BY <1>1, <2>2 DEF Answer, Success, Error, Replies, ErrorTexts, Value
  <2>4. QED
    BY <2>1, <2>3 DEF TypeInv, TypeOK
<1>4. QED
  BY <1>2, <1>3

\* The driver call's first transfer keeps the types.
LEMMA CallType ==
  ASSUME TypeOK, NEW t \in Devices, NEW o \in {"read", "write"}, Call(t, o)
  PROVE  /\ pc' \in {"dir", "data"}
         /\ op' \in {"read", "write"}
         /\ port' \in Ports
         /\ io_state' \in [Devices -> {"none", "read", "write"}]
BY DEF Call, TypeOK, Ports

\* So does going on with the second port.
LEMMA NextPortType ==
  ASSUME TypeOK, Busy, NEW said \in Replies, NEW v \in Value, NextPort(said, v)
  PROVE  /\ pc' \in {"dir", "data"}
         /\ op' \in {"read", "write"}
         /\ port' \in Ports
         /\ value' \in Value
         /\ content' \in Replies
         /\ io_state' \in [Devices -> {"none", "read", "write"}]
BY DEF NextPort, TypeOK, Busy, Ports

\* The error of a failed ioctl is one of the replies.
LEMMA SaidType ==
  ASSUME TypeOK, NEW addressed \in BOOLEAN
  PROVE  /\ Said(addressed) \in Replies
         /\ Error("Could not configure") \in Replies
<1>1. {} \in Value
  BY DEF Value
<1>2. QED
  BY <1>1 DEF Said, Error, Replies, ErrorTexts, TypeOK

\* What a disagreement between levels and latch is made of.
LEMMA DisagreeType ==
  ASSUME TypeOK, NEW c \in Chips, NEW lv
  PROVE  Disagree(c, lv) \in SUBSET Word
<1>1. latch[c] \in SUBSET Word /\ Part[c] \in Parts
  BY ConfigAssumption DEF TypeOK, BusTypeOK
<1>2. QED
  BY <1>1 DEF Disagree, Parts

\* The slave of a bus is a chip, or none, whether or not the ioctl succeeds.
LEMMA SetAddrType ==
  ASSUME TypeOK, Target \in Devices, NEW ok \in BOOLEAN, SetAddr(Target, ok)
  PROVE  /\ slave' \in [Busses -> Chips \cup {NoChip}]
         /\ Slave \in Chips \cup {NoChip}
<1>1. req.bus \in Busses /\ Chip[Target] \in Chips /\ Target[1] = req.bus
  BY DeviceFacts DEF Target
<1>2. slave' \in [Busses -> Chips \cup {NoChip}]
  BY <1>1 DEF SetAddr, TypeOK, BusTypeOK
<1>3. QED
  BY <1>1, <1>2 DEF Slave

\* The transfers keep registers and latches what they are.
LEMMA TransferType ==
  ASSUME BusTypeOK, NEW c \in Chips \cup {NoChip}, NEW ok \in BOOLEAN,
         NEW p \in Ports, NEW byte \in SUBSET Byte,
         \/ \E reg \in {"IODIR", "OLAT"} : WriteByteData(c, reg, p, byte, ok)
         \/ ReadByteData(c, p, byte, ok)
         \/ WriteByte(c, byte, ok)
         \/ ReadByte(c, byte, ok)
  PROVE  /\ inputs' \in [Chips -> SUBSET Ports]
         /\ latch' \in [Chips -> SUBSET Word]
<1>1. CASE \E reg \in {"IODIR", "OLAT"} : WriteByteData(c, reg, p, byte, ok)
  <2>1. PICK reg \in {"IODIR", "OLAT"} : WriteByteData(c, reg, p, byte, ok)
    BY <1>1
  <2>2. CASE UNCHANGED chipVars
    BY <2>2 DEF chipVars, BusTypeOK
  <2>3. CASE /\ c # NoChip
             /\ latch' = [latch EXCEPT ![c] = LatchAfter(c, reg, p, byte)]
             /\ inputs' = [inputs EXCEPT ![c] = InputsAfter(c, reg, p, byte)]
    <3>1. LatchAfter(c, reg, p, byte) \in SUBSET Word
      BY <2>3, Widths, Halves DEF LatchAfter, BusTypeOK
    <3>2. InputsAfter(c, reg, p, byte) \in SUBSET Ports
      BY <2>3 DEF InputsAfter, BusTypeOK
    <3>3. QED
      BY <2>3, <3>1, <3>2 DEF BusTypeOK
  <2>4. QED
    BY <2>1, <2>2, <2>3 DEF WriteByteData
<1>2. CASE ReadByteData(c, p, byte, ok)
  <2>1. GpioNumber(p) \in SUBSET Word
    BY Widths DEF GpioNumber
  <2>2. QED
    BY <1>2, <2>1 DEF ReadByteData, BusTypeOK
<1>3. CASE WriteByte(c, byte, ok)
  BY <1>3, Widths DEF WriteByte, BusTypeOK
<1>4. CASE ReadByte(c, byte, ok)
  BY <1>4 DEF ReadByte, chipVars, BusTypeOK
<1>5. QED
  BY <1>1, <1>2, <1>3, <1>4

\* The program starts well-typed.
LEMMA InitType == Init => TypeInv
<1> SUFFICES ASSUME Init PROVE TypeInv
  OBVIOUS
<1>1. {} \in Value /\ Nothing \in Replies
  BY DEF Value, Nothing, Replies
<1>2. level \in [Chips -> SUBSET Word]
  <2>1. {lv \cap Byte : lv \in Levels} \subseteq SUBSET Word
    BY Widths
  <2>2. QED
    BY <2>1 DEF Init
<1>3. BusTypeOK
  BY <1>2, Widths DEF Init, IoInit, BusTypeOK
<1>4. QED
  BY <1>1, <1>3 DEF Init, IoInit, TypeInv, TypeOK, Busy, Ports

\* Every driver step keeps the types.
LEMMA DrivenType == TypeInv /\ Driven => TypeInv'
<1> SUFFICES ASSUME TypeInv, Driven PROVE TypeInv'
  OBVIOUS
<1> DEFINE Typed ==
      /\ pc' \in {"dir", "data", "reply"}
      /\ op' \in {"read", "write"}
      /\ port' \in Ports
      /\ value' \in Value
      /\ content' \in Replies
      /\ io_state' \in [Devices -> {"none", "read", "write"}]
<1> DEFINE Chipped ==
      /\ slave' \in [Busses -> Chips \cup {NoChip}]
      /\ inputs' \in [Chips -> SUBSET Ports]
      /\ latch' \in [Chips -> SUBSET Word]
<1>1. Busy /\ TypeOK /\ BusTypeOK /\ Target \in Devices
  BY DEF Driven, ConfigureIo, Mcp23017Read, Mcp23017Write, Pcf8574Read,
         Pcf8574Write, PifaceRead, PifaceWrite, Transfers, Busy, TypeInv, TypeOK
<1>2. value \in Value /\ content \in Replies /\ port \in Ports
  BY <1>1 DEF TypeOK
<1>3. Chip[Target] \in Chips
  BY <1>1 DEF Chips
<1>4. CASE ConfigureIo
  <2>1. PICK addressed \in BOOLEAN, ok \in BOOLEAN :
          /\ SetAddr(Target, addressed)
          /\ WriteByteData(Slave, "IODIR", port, IF op = "write" THEN {} ELSE Byte, ok)
          /\ IF ~ok THEN Return(FALSE, Error("Could not configure"), value)
             ELSE IF port = "A" THEN NextPort(Said(addressed), value)
             ELSE /\ io_state' = [io_state EXCEPT ![Target] = op]
                  /\ pc' = "data"
                  /\ port' = "A"
                  /\ content' = Said(addressed)
                  /\ UNCHANGED <<op, value>>
    BY <1>4 DEF ConfigureIo
  <2>2. (IF op = "write" THEN {} ELSE Byte) \in SUBSET Byte
    OBVIOUS
  <2>3. Chipped
    BY <1>1, <1>2, <2>1, <2>2, SetAddrType, TransferType
  <2>4. Typed
    <3>1. CASE ~ok
      BY <1>1, <1>2, <2>1, <3>1, SaidType, ReturnType
    <3>2. CASE ok /\ port = "A"
      BY <1>1, <1>2, <2>1, <3>2, SaidType, NextPortType
    <3>3. CASE ok /\ port # "A"
      BY <1>1, <1>2, <2>1, <3>3, SaidType DEF TypeOK, Ports
    <3>4. QED
      BY <3>1, <3>2, <3>3
  <2>5. UNCHANGED <<req, disturbed, open, level>>
    BY <1>4 DEF ConfigureIo
  <2>6. QED
    BY <1>1, <2>3, <2>4, <2>5 DEF TypeInv, TypeOK, BusTypeOK, Target
<1>5. CASE Mcp23017Read
  <2>1. PICK addressed \in BOOLEAN, ok \in BOOLEAN, byte \in SUBSET Byte :
          /\ SetAddr(Target, addressed)
          /\ ReadByteData(Slave, port, byte, ok)
          /\ IF ok /\ port = "A" THEN NextPort(Said(addressed), byte)
             ELSE Return(ok, Said(addressed),
                         IF ok THEN Join(value, byte) ELSE value)
    BY <1>5 DEF Mcp23017Read
  <2>2. Chipped
    BY <1>1, <1>2, <2>1, SetAddrType, TransferType
  <2>3. Typed
    <3>1. byte \in Value /\ Join(value, byte) \in Value
      BY Widths, Halves
    <3>2. CASE ok /\ port = "A"
      BY <1>1, <2>1, <3>1, <3>2, SaidType, NextPortType
    <3>3. CASE ~(ok /\ port = "A")
      BY <1>1, <1>2, <2>1, <3>1, <3>3, SaidType, ReturnType
    <3>4. QED
      BY <3>2, <3>3
  <2>4. UNCHANGED <<req, disturbed, open, level>>
    BY <1>5 DEF Mcp23017Read
  <2>5. QED
    BY <1>1, <2>2, <2>3, <2>4 DEF TypeInv, TypeOK, BusTypeOK, Target
<1>6. CASE Mcp23017Write
  <2>1. PICK addressed \in BOOLEAN, ok \in BOOLEAN :
          /\ SetAddr(Target, addressed)
          /\ WriteByteData(Slave, "OLAT", port, Half(value, port), ok)
          /\ IF ok /\ port = "A" THEN NextPort(Said(addressed), value)
             ELSE Return(ok, Said(addressed), value)
    BY <1>6 DEF Mcp23017Write
  <2>2. Half(value, port) \in SUBSET Byte
    BY Halves
  <2>3. Chipped
    BY <1>1, <1>2, <2>1, <2>2, SetAddrType, TransferType
  <2>4. Typed
    <3>1. CASE ok /\ port = "A"
      BY <1>1, <1>2, <2>1, <3>1, SaidType, NextPortType
    <3>2. CASE ~(ok /\ port = "A")
      BY <1>1, <1>2, <2>1, <3>2, SaidType, ReturnType
    <3>3. QED
      BY <3>1, <3>2
  <2>5. UNCHANGED <<req, disturbed, open, level>>
    BY <1>6 DEF Mcp23017Write
  <2>6. QED
    BY <1>1, <2>3, <2>4, <2>5 DEF TypeInv, TypeOK, BusTypeOK, Target
<1>7. CASE Pcf8574Read
  <2>1. PICK addressed \in BOOLEAN, ok \in BOOLEAN, byte \in SUBSET Byte :
          /\ SetAddr(Target, addressed)
          /\ ReadByte(Slave, byte, ok)
          /\ Return(ok, Said(addressed), IF ok THEN byte ELSE {})
    BY <1>7 DEF Pcf8574Read
  <2>2. Chipped
    BY <1>1, <1>2, <2>1, SetAddrType, TransferType
  <2>3. (IF ok THEN byte ELSE {}) \in Value
    BY Widths DEF Value
  <2>4. Typed
    BY <1>1, <2>1, <2>3, SaidType, ReturnType
  <2>5. UNCHANGED <<req, disturbed, open, level>>
    BY <1>7 DEF Pcf8574Read
  <2>6. QED
    BY <1>1, <2>2, <2>4, <2>5 DEF TypeInv, TypeOK, BusTypeOK, Target
<1>8. CASE Pcf8574Write
  <2>1. PICK addressed \in BOOLEAN, ok \in BOOLEAN :
          /\ SetAddr(Target, addressed)
          /\ WriteByte(Slave, value \cap Byte, ok)
          /\ Return(ok, Said(addressed), value)
    BY <1>8 DEF Pcf8574Write
  <2>2. Chipped
    <3>1. value \cap Byte \in SUBSET Byte
      OBVIOUS
    <3>2. QED
      BY <1>1, <1>2, <2>1, <3>1, SetAddrType, TransferType
  <2>3. Typed
    BY <1>1, <1>2, <2>1, SaidType, ReturnType
  <2>4. UNCHANGED <<req, disturbed, open, level>>
    BY <1>8 DEF Pcf8574Write
  <2>5. QED
    BY <1>1, <2>2, <2>3, <2>4 DEF TypeInv, TypeOK, BusTypeOK, Target
<1>9. CASE PifaceRead
  <2>1. PICK byte \in SUBSET Byte : Return(TRUE, content, byte)
    BY <1>9 DEF PifaceRead
  <2>2. Typed
    BY <1>1, <1>2, <2>1, Widths, ReturnType
  <2>3. UNCHANGED <<req, disturbed, busVars, chipVars, level>>
    BY <1>9 DEF PifaceRead
  <2>4. QED
    BY <1>1, <2>2, <2>3 DEF TypeInv, TypeOK, BusTypeOK, Target, busVars, chipVars
<1>10. CASE PifaceWrite
  <2>1. Typed
    BY <1>1, <1>2, <1>10, ReturnType DEF PifaceWrite
  <2>2. latch' \in [Chips -> SUBSET Word]
    BY <1>1, <1>3, <1>10, Widths DEF PifaceWrite, BusTypeOK
  <2>3. UNCHANGED <<req, disturbed, busVars, inputs, level>>
    BY <1>10 DEF PifaceWrite
  <2>4. QED
    BY <1>1, <2>1, <2>2, <2>3 DEF TypeInv, TypeOK, BusTypeOK, Target, busVars
<1>11. QED
  BY <1>4, <1>5, <1>6, <1>7, <1>8, <1>9, <1>10 DEF Driven

\* The program ends and starts again well-typed.
LEMMA RestartType == TypeInv /\ Restart => TypeInv'
<1> SUFFICES ASSUME TypeInv, Restart PROVE TypeInv'
  OBVIOUS
<1>1. {} \in Value /\ Nothing \in Replies
  BY DEF Value, Nothing, Replies
<1>2. latch' \in [Chips -> SUBSET Word]
  <2>1. PICK junk \in SUBSET Byte :
          latch' = [c \in Chips |-> IF Part[c] # "piface" THEN latch[c]
                                    ELSE IF c \in XferFaults THEN junk ELSE {}]
    BY DEF Restart
  <2>2. QED
    BY <2>1, Widths DEF TypeInv, TypeOK, BusTypeOK
<1>3. BusTypeOK'
  BY <1>2 DEF Restart, IoInit, TypeInv, TypeOK, BusTypeOK
<1>4. QED
  BY <1>1, <1>3 DEF Restart, IoInit, TypeInv, TypeOK, Busy, Ports

\* Every step of the specification keeps the types.
LEMMA StepType == TypeInv /\ [Next]_vars => TypeInv'
<1> SUFFICES ASSUME TypeInv, [Next]_vars PROVE TypeInv'
  OBVIOUS
<1>1. TypeOK /\ BusTypeOK
  BY DEF TypeInv, TypeOK
<1>2. {} \in Value /\ Nothing \in Replies
  BY DEF Value, Nothing, Replies
<1>3. ASSUME NEW r \in Requests, Serve(r) PROVE TypeInv'
  <2>1. req' = r /\ value' = r.value /\ content' = Nothing
        /\ UNCHANGED <<busVars, chipVars, level>>
    BY <1>3 DEF Serve
  <2>2. r.value \in Value
    BY <1>2, RequestAssumption DEF Requests
  <2>3. CASE <<r.bus, r.dev>> \in Devices
    <3>1. /\ Call(<<r.bus, r.dev>>, IF r.cmd = "write" /\ r.sub = IDX_INVALID
                                    THEN "write" ELSE "read")
          /\ disturbed' = Disagree(Chip[<<r.bus, r.dev>>],
                                   level[Chip[<<r.bus, r.dev>>]])
      BY <1>3, <2>3 DEF Serve
    <3>2. /\ pc' \in {"dir", "data"}
          /\ op' \in {"read", "write"}
          /\ port' \in Ports
          /\ io_state' \in [Devices -> {"none", "read", "write"}]
      BY <1>1, <2>3, <3>1, CallType
    <3>3. disturbed' \in SUBSET Word
      BY <1>1, <2>3, <3>1, DisagreeType DEF Chips
    <3>4. QED
      BY <1>1, <1>2, <2>1, <2>2, <2>3, <3>2, <3>3
         DEF TypeInv, TypeOK, BusTypeOK, Busy, Target, busVars, chipVars
  <2>4. CASE <<r.bus, r.dev>> \notin Devices
    <3>1. pc' = "undefined" /\ UNCHANGED <<op, port, io_state, disturbed>>
      BY <1>3, <2>4 DEF Serve
    <3>2. QED
      BY <1>1, <1>2, <2>1, <2>2, <3>1
         DEF TypeInv, TypeOK, BusTypeOK, Busy, busVars, chipVars
  <2>5. QED
    BY <2>3, <2>4
<1>4. ASSUME NEW message \in ErrorTexts, Refuse(message) PROVE TypeInv'
  <2>1. content' \in Replies
    BY <1>2, <1>4 DEF Refuse, Error, Replies
  <2>2. QED
    BY <1>1, <1>4, <2>1
       DEF Refuse, TypeInv, TypeOK, BusTypeOK, Busy, busVars, chipVars
<1>5. ASSUME NEW r \in Requests, RefuseIndex(r) PROVE TypeInv'
  BY <1>4, <1>5 DEF RefuseIndex, ErrorTexts
<1>6. CASE RefuseUri
  BY <1>4, <1>6 DEF RefuseUri, ErrorTexts
<1>7. CASE Reply
  BY <1>1, <1>2, <1>7
     DEF Reply, TypeInv, TypeOK, BusTypeOK, Busy, Ports, busVars, chipVars
<1>8. ASSUME NEW c \in Chips, NEW lv \in Levels, LevelChange(c, lv) PROVE TypeInv'
  <2>1. Pins(c) \subseteq Word
    BY Widths DEF Pins
  <2>2. level' \in [Chips -> SUBSET Word]
    BY <1>1, <1>8, <2>1 DEF LevelChange, BusTypeOK
  <2>3. disturbed' \in SUBSET Word
    BY <1>1, <1>8, DisagreeType DEF LevelChange, TypeOK
  <2>4. QED
    BY <1>1, <1>8, <2>2, <2>3
       DEF LevelChange, TypeInv, TypeOK, BusTypeOK, Busy, Target, reqVars,
           busVars, chipVars
<1>9. CASE UNCHANGED vars
  BY <1>1, <1>9 DEF vars, reqVars, busVars, chipVars, TypeInv, TypeOK, BusTypeOK,
                   Busy, Target
<1>10. QED
  BY <1>3, <1>5, <1>6, <1>7, <1>8, <1>9, DrivenType, RestartType DEF Next

\* The io_data, the reply buffer, the drivers' data and the parts' registers
\* keep their types, and driver calls are made for configured devices only.
THEOREM AlwaysTypeInv == Spec => []TypeInv
BY InitType, StepType, PTL DEF Spec

\* TypeOK, the types of what http.c, io.c, the drivers and the transport keep, in
\* every reachable state.
THEOREM TypeCorrect == Spec => []TypeOK
<1>1. TypeInv => TypeOK
  BY DEF TypeInv
<1>2. QED
  BY <1>1, AlwaysTypeInv, PTL

-----------------------------------------------------------------------------
(* The cache of an MCP23017's direction, and what a request may change. *)

\* A file handle addresses a chip of its own bus, and none before it is open.
SlaveInv ==
  \A b \in Busses :
    /\ slave[b] \in OnBus(b) \cup {NoChip}
    /\ ~open[b] => slave[b] = NoChip

\* While an MCP23017 is reconfigured its direction counts as unknown, and once
\* it is, io_state says so for as long as data is transferred.
CallInv ==
  /\ pc = "dir" => Driver(Target) = "mcp23017" /\ io_state[Target] = "none"
  /\ pc = "data" /\ Driver(Target) = "mcp23017" => io_state[Target] = op

\* Half-way through the reconfiguration port A is already turned.
HalfTurnedInv ==
  pc = "dir" /\ port = "B" /\ Exclusive(Target) =>
    IF op = "write" THEN "A" \notin inputs[Chip[Target]]
                    ELSE "A" \in inputs[Chip[Target]]

DirectionInv ==
  /\ TypeInv
  /\ SlaveInv
  /\ CallInv
  /\ HalfTurnedInv
  /\ DirectionCacheTruthful

-----------------------------------------------------------------------------
(* The slave that a transfer reaches. *)

\* Only a failed ioctl for the device addressed leaves the handle on another
\* chip, and that chip is one of the same bus.
LEMMA SlaveReached ==
  ASSUME TypeInv, SlaveInv, Busy, NEW addressed \in BOOLEAN,
         SetAddr(Target, addressed), open' = open
  PROVE  /\ SlaveInv'
         /\ Slave \in OnBus(req.bus) \cup {NoChip}
         /\ Chip[Target] \notin AddrFaults => Slave \in {Chip[Target], NoChip}
         /\ Exclusive(Target) => Slave \in {Chip[Target], NoChip}
<1>1. Target \in Devices /\ req.bus \in Busses /\ Target[1] = req.bus
  BY DeviceFacts DEF TypeInv, Target
<1>2. Chip[Target] \in OnBus(req.bus)
  BY <1>1 DEF OnBus
<1>3. slave \in [Busses -> Chips \cup {NoChip}]
  BY DEF TypeInv, TypeOK, BusTypeOK
<1>4. CASE addressed /\ open[req.bus] /\ slave' = [slave EXCEPT ![req.bus] = Chip[Target]]
  <2>1. Slave = Chip[Target]
    BY <1>1, <1>3, <1>4 DEF Slave
  <2>2. SlaveInv'
    BY <1>1, <1>2, <1>3, <1>4 DEF SlaveInv
  <2>3. QED
    BY <1>2, <2>1, <2>2
<1>5. CASE /\ ~addressed /\ UNCHANGED slave
           /\ open[req.bus] => Chip[Target] \in AddrFaults
  <2>1. SlaveInv'
    BY <1>5 DEF SlaveInv
  <2>2. Slave = slave[req.bus]
    BY <1>5 DEF Slave
  <2>3. Exclusive(Target) => Chip[Target] \notin AddrFaults
    BY <1>1, <1>2 DEF Exclusive
  <2>4. Chip[Target] \notin AddrFaults => Slave = NoChip
    BY <1>1, <1>5, <2>2 DEF SlaveInv
  <2>5. QED
    BY <1>1, <2>1, <2>2, <2>3, <2>4 DEF SlaveInv
<1>6. QED
  BY <1>1, <1>4, <1>5 DEF SetAddr

\* A transfer of an exclusive MCP23017's neighbour, or of a device on another
\* bus, does not reach that MCP23017.
LEMMA NeighboursMissed ==
  ASSUME TypeInv, SlaveInv, Busy, NEW addressed \in BOOLEAN,
         SetAddr(Target, addressed), open' = open,
         NEW t \in Devices, t # Target, Exclusive(t)
  PROVE  Slave # Chip[t]
<1>1. /\ Slave \in OnBus(req.bus) \cup {NoChip}
      /\ Chip[Target] \notin AddrFaults => Slave \in {Chip[Target], NoChip}
  BY SlaveReached
<1>2. Target \in Devices /\ Target[1] = req.bus
  BY DEF TypeInv, Target
<1>3. Chip[t] # NoChip /\ Chip[t] # Chip[Target]
  BY <1>2, ConfigAssumption DEF Chips, Exclusive
<1>4. CASE t[1] = req.bus
  <2>1. Chip[Target] \in OnBus(t[1])
    BY <1>2, <1>4 DEF OnBus
  <2>2. Chip[Target] \notin AddrFaults
    BY <2>1 DEF Exclusive
  <2>3. QED
    BY <1>1, <1>3, <2>2
<1>5. CASE t[1] # req.bus
  <2>1. ASSUME NEW u \in Devices, u[1] = req.bus PROVE Chip[u] # Chip[t]
    BY <1>5, <2>1 DEF Exclusive
  <2>2. QED
    BY <1>1, <1>3, <2>1 DEF OnBus
<1>6. QED
  BY <1>4, <1>5

-----------------------------------------------------------------------------
(* The direction cache. *)

\* io_state moves towards "none" unless a reconfiguration has succeeded.
Forgets == \A u \in Devices : io_state'[u] \in {io_state[u], "none"}

\* The head of a driver call forgets the direction that it goes on to change.
LEMMA CallDirection ==
  ASSUME TypeOK, NEW t \in Devices, NEW o \in {"read", "write"}, Call(t, o),
         Target' = t
  PROVE  CallInv' /\ HalfTurnedInv' /\ Forgets
BY DEF Call, TypeOK, CallInv, HalfTurnedInv, Forgets, Driver

\* perform_io's part after a driver call makes no direction known.
LEMMA ReturnDirection ==
  ASSUME TypeInv, Busy, NEW ok, NEW said, NEW v, Return(ok, said, v), req' = req
  PROVE  CallInv' /\ HalfTurnedInv' /\ Forgets
<1>1. Target' = Target /\ Target \in Devices /\ TypeOK
  BY DEF Target, TypeInv
<1>2. CASE ok /\ req.cmd = "write" /\ op = "read"
  <2>1. Call(Target, "write")
    BY <1>2 DEF Return, WriteBack
  <2>2. QED
    BY <1>1, <2>1, CallDirection
<1>3. CASE ~(ok /\ req.cmd = "write" /\ op = "read")
  <2>1. pc' = "reply" /\ io_state' = io_state
    BY <1>3 DEF Return, Finish
  <2>2. QED
    BY <2>1 DEF CallInv, HalfTurnedInv, Forgets
<1>4. QED
  BY <1>2, <1>3

\* As long as no IODIR register changes, forgetting directions is safe.
LEMMA CacheKept ==
  ASSUME DirectionCacheTruthful, Forgets, inputs' = inputs
  PROVE  DirectionCacheTruthful'
BY DEF DirectionCacheTruthful, Forgets

\* The transfers of data leave the IODIR registers alone.
LEMMA DataTransfer ==
  ASSUME BusTypeOK, NEW c \in Chips \cup {NoChip}, NEW ok, NEW p, NEW byte,
         \/ WriteByteData(c, "OLAT", p, byte, ok)
         \/ ReadByteData(c, p, byte, ok)
         \/ WriteByte(c, byte, ok)
         \/ ReadByte(c, byte, ok)
  PROVE  inputs' = inputs
<1>1. CASE WriteByteData(c, "OLAT", p, byte, ok)
  BY <1>1 DEF WriteByteData, InputsAfter, chipVars, BusTypeOK
<1>2. CASE ReadByteData(c, p, byte, ok) \/ WriteByte(c, byte, ok) \/ ReadByte(c, byte, ok)
  BY <1>2 DEF ReadByteData, WriteByte, ReadByte, chipVars
<1>3. QED
  BY <1>1, <1>2

\* A step of mcp23017_configure_io.
LEMMA ConfigureIoDirection == DirectionInv /\ ConfigureIo => DirectionInv'
<1> SUFFICES ASSUME DirectionInv, ConfigureIo PROVE DirectionInv'
  OBVIOUS
<1> DEFINE Turn == IF op = "write" THEN {} ELSE Byte
<1> DEFINE t == Target
<1> DEFINE c == Chip[Target]
<1>1. /\ Busy /\ TypeInv /\ TypeOK /\ BusTypeOK /\ SlaveInv
      /\ t \in Devices /\ c \in Chips /\ c # NoChip
      /\ Part[c] = "mcp23017" /\ io_state[t] = "none"
  BY ConfigAssumption
     DEF ConfigureIo, DirectionInv, Busy, TypeInv, TypeOK, CallInv, Chips, Driver
<1>2. PICK addressed \in BOOLEAN, ok \in BOOLEAN :
        /\ SetAddr(t, addressed)
        /\ WriteByteData(Slave, "IODIR", port, Turn, ok)
        /\ IF ~ok THEN Return(FALSE, Error("Could not configure"), value)
           ELSE IF port = "A" THEN NextPort(Said(addressed), value)
           ELSE /\ io_state' = [io_state EXCEPT ![t] = op]
                /\ pc' = "data"
                /\ port' = "A"
                /\ content' = Said(addressed)
                /\ UNCHANGED <<op, value>>
  BY DEF ConfigureIo
<1>3. req' = req /\ open' = open /\ Target' = Target
  BY DEF ConfigureIo, Target
<1>4. TypeInv'
  BY <1>1, DrivenType DEF Driven
<1>5. SlaveInv' /\ (Exclusive(t) => Slave \in {c, NoChip})
  BY <1>1, <1>2, <1>3, SlaveReached
<1>6. Slave \in Chips \cup {NoChip}
  BY <1>1, <1>2, SetAddrType
<1>7. ASSUME ok, Exclusive(t)
      PROVE  inputs'[c] = IF op = "write" THEN inputs[c] \ {port} ELSE inputs[c] \cup {port}
  <2>1. Slave = c /\ inputs' = [inputs EXCEPT ![c] = InputsAfter(c, "IODIR", port, Turn)]
    BY <1>1, <1>2, <1>5, <1>7 DEF WriteByteData, Outcomes
  <2>2. Byte # {}
    BY WidthAssumption DEF Byte
  <2>3. QED
    BY <1>1, <2>1, <2>2 DEF InputsAfter, BusTypeOK
<1>8. ASSUME NEW u \in Devices, u # t, Exclusive(u)
      PROVE  inputs'[Chip[u]] = inputs[Chip[u]]
  <2>1. Slave # Chip[u]
    BY <1>1, <1>2, <1>3, <1>8, NeighboursMissed
  <2>2. Chip[u] \in Chips
    BY DEF Chips
  <2>3. inputs \in [Chips -> SUBSET Ports]
    BY <1>1 DEF BusTypeOK
  <2>4. QED
    BY <1>2, <1>6, <2>1, <2>2, <2>3 DEF WriteByteData, chipVars
<1>9. CASE ~ok
  <2>1. Return(FALSE, Error("Could not configure"), value)
    BY <1>2, <1>9
  <2>2. CallInv' /\ HalfTurnedInv' /\ Forgets
    BY <1>1, <1>3, <2>1, ReturnDirection
  <2>3. DirectionCacheTruthful'
    BY <1>1, <1>8, <2>2 DEF DirectionInv, DirectionCacheTruthful, Forgets
  <2>4. QED
    BY <1>4, <1>5, <2>2, <2>3 DEF DirectionInv
<1>10. CASE ok /\ port = "A"
  <2>1. pc' = "dir" /\ op' = op /\ port' = "B" /\ io_state' = io_state
    BY <1>2, <1>10 DEF NextPort, ConfigureIo
  <2>2. CallInv'
    BY <1>1, <1>3, <2>1 DEF CallInv, Driver
  <2>3. HalfTurnedInv'
    BY <1>1, <1>3, <1>7, <1>10, <2>1 DEF HalfTurnedInv, Exclusive, BusTypeOK
  <2>4. DirectionCacheTruthful'
    BY <1>1, <1>8, <2>1 DEF DirectionInv, DirectionCacheTruthful
  <2>5. QED
    BY <1>4, <1>5, <2>2, <2>3, <2>4 DEF DirectionInv
<1>11. CASE ok /\ port = "B"
  <2>1. /\ pc' = "data" /\ op' = op /\ port' = "A"
        /\ io_state' = [io_state EXCEPT ![t] = op]
    BY <1>2, <1>11
  <2>2. CallInv' /\ HalfTurnedInv'
    BY <1>1, <1>3, <2>1 DEF CallInv, HalfTurnedInv, TypeOK
  <2>3. ASSUME Exclusive(t)
        PROVE  inputs'[c] = IF op = "write" THEN {} ELSE Ports
    <3>1. op = "write" => "A" \notin inputs[c]
      BY <1>11, <2>3 DEF ConfigureIo, DirectionInv, HalfTurnedInv
    <3>2. op # "write" => "A" \in inputs[c]
      BY <1>11, <2>3 DEF ConfigureIo, DirectionInv, HalfTurnedInv
    <3>3. inputs[c] \subseteq Ports
      BY <1>1 DEF BusTypeOK
    <3>4. QED
      BY <1>7, <1>11, <2>3, <3>1, <3>2, <3>3 DEF Ports
  <2>4. DirectionCacheTruthful'
    <3>1. ASSUME NEW u \in Devices, Driver(u) = "mcp23017", Exclusive(u)
          PROVE  /\ io_state'[u] = "write" => inputs'[Chip[u]] = {}
                 /\ io_state'[u] = "read"  => inputs'[Chip[u]] = Ports
      <4>1. CASE u = t
        BY <1>1, <2>1, <2>3, <3>1, <4>1 DEF TypeOK
      <4>2. CASE u # t
        <5>1. io_state'[u] = io_state[u] /\ inputs'[Chip[u]] = inputs[Chip[u]]
          BY <1>1, <1>8, <2>1, <3>1, <4>2 DEF TypeOK
        <5>2. QED
          BY <3>1, <5>1 DEF DirectionInv, DirectionCacheTruthful
      <4>3. QED
        BY <4>1, <4>2
    <3>2. QED
      BY <3>1 DEF DirectionCacheTruthful, Exclusive, Driver
  <2>5. QED
    BY <1>4, <1>5, <2>2, <2>4 DEF DirectionInv
<1>12. QED
  BY <1>1, <1>9, <1>10, <1>11 DEF TypeOK, Ports

\* A step of a driver that transfers data.
LEMMA TransferDirection ==
  ASSUME DirectionInv, Driven, ~ConfigureIo
  PROVE  DirectionInv'
<1>1. /\ Busy /\ TypeInv /\ TypeOK /\ BusTypeOK /\ SlaveInv
      /\ Target \in Devices /\ pc = "data"
  BY DEF Driven, Mcp23017Read, Mcp23017Write, Pcf8574Read, Pcf8574Write,
         PifaceRead, PifaceWrite, Transfers, Busy, DirectionInv, TypeInv, TypeOK
<1>2. req' = req /\ open' = open /\ Target' = Target
  BY DEF Driven, Mcp23017Read, Mcp23017Write, Pcf8574Read, Pcf8574Write,
         PifaceRead, PifaceWrite, busVars, Target
<1>3. TypeInv'
  BY <1>1, DrivenType
<1>4. ASSUME NEW said, NEW v, NextPort(said, v), Driver(Target) = "mcp23017"
      PROVE  CallInv' /\ HalfTurnedInv' /\ Forgets
  BY <1>1, <1>2, <1>4
     DEF NextPort, DirectionInv, CallInv, HalfTurnedInv, Forgets, Driver
<1>5. ASSUME NEW ok, NEW said, NEW v, Return(ok, said, v)
      PROVE  CallInv' /\ HalfTurnedInv' /\ Forgets
  BY <1>1, <1>2, <1>5, ReturnDirection
<1>6. ASSUME NEW addressed \in BOOLEAN, SetAddr(Target, addressed)
      PROVE  SlaveInv' /\ Slave \in Chips \cup {NoChip}
  BY <1>1, <1>2, <1>6, SlaveReached, SetAddrType
<1>7. /\ SlaveInv' /\ inputs' = inputs
      /\ CallInv' /\ HalfTurnedInv' /\ Forgets
  <2>1. CASE Mcp23017Read
    <3>1. PICK addressed \in BOOLEAN, ok \in BOOLEAN, byte \in SUBSET Byte :
            /\ SetAddr(Target, addressed)
            /\ ReadByteData(Slave, port, byte, ok)
            /\ \/ NextPort(Said(addressed), byte)
               \/ Return(ok, Said(addressed), IF ok THEN Join(value, byte) ELSE value)
      BY <2>1 DEF Mcp23017Read
    <3>2. Driver(Target) = "mcp23017"
      BY <2>1 DEF Mcp23017Read, Transfers
    <3>3. inputs' = inputs
      BY <1>1, <1>6, <3>1, DataTransfer
    <3>4. QED
      BY <1>4, <1>5, <1>6, <3>1, <3>2, <3>3
  <2>2. CASE Mcp23017Write
    <3>1. PICK addressed \in BOOLEAN, ok \in BOOLEAN :
            /\ SetAddr(Target, addressed)
            /\ WriteByteData(Slave, "OLAT", port, Half(value, port), ok)
            /\ \/ NextPort(Said(addressed), value)
               \/ Return(ok, Said(addressed), value)
      BY <2>2 DEF Mcp23017Write
    <3>2. Driver(Target) = "mcp23017"
      BY <2>2 DEF Mcp23017Write, Transfers
    <3>3. inputs' = inputs
      BY <1>1, <1>6, <3>1, DataTransfer
    <3>4. QED
      BY <1>4, <1>5, <1>6, <3>1, <3>2, <3>3
  <2>3. CASE Pcf8574Read
    <3>1. PICK addressed \in BOOLEAN, ok \in BOOLEAN, byte \in SUBSET Byte :
            /\ SetAddr(Target, addressed)
            /\ ReadByte(Slave, byte, ok)
            /\ Return(ok, Said(addressed), IF ok THEN byte ELSE {})
      BY <2>3 DEF Pcf8574Read
    <3>2. inputs' = inputs
      BY <1>1, <1>6, <3>1, DataTransfer
    <3>3. QED
      BY <1>5, <1>6, <3>1, <3>2
  <2>4. CASE Pcf8574Write
    <3>1. PICK addressed \in BOOLEAN, ok \in BOOLEAN :
            /\ SetAddr(Target, addressed)
            /\ WriteByte(Slave, value \cap Byte, ok)
            /\ Return(ok, Said(addressed), value)
      BY <2>4 DEF Pcf8574Write
    <3>2. inputs' = inputs
      BY <1>1, <1>6, <3>1, DataTransfer
    <3>3. QED
      BY <1>5, <1>6, <3>1, <3>2
  <2>5. CASE PifaceRead
    <3>1. PICK byte \in SUBSET Byte : Return(TRUE, content, byte)
      BY <2>5 DEF PifaceRead
    <3>2. SlaveInv' /\ inputs' = inputs
      BY <1>1, <2>5 DEF PifaceRead, SlaveInv, busVars, chipVars
    <3>3. QED
      BY <1>5, <3>1, <3>2
  <2>6. CASE PifaceWrite
    <3>1. Return(TRUE, content, value)
      BY <2>6 DEF PifaceWrite
    <3>2. SlaveInv' /\ inputs' = inputs
      BY <1>1, <2>6 DEF PifaceWrite, SlaveInv, busVars
    <3>3. QED
      BY <1>5, <3>1, <3>2
  <2>7. QED
    BY <2>1, <2>2, <2>3, <2>4, <2>5, <2>6 DEF Driven
<1>8. QED
  BY <1>3, <1>7, CacheKept DEF DirectionInv

\* When io_init has run no direction is known and no slave addressed.
LEMMA InitDirection ==
  ASSUME IoInit(open, slave, io_state), TypeInv, pc = "idle"
  PROVE  DirectionInv
<1>1. SlaveInv
  BY DEF IoInit, SlaveInv
<1>2. DirectionCacheTruthful
  BY DEF IoInit, DirectionCacheTruthful
<1>3. QED
  BY <1>1, <1>2 DEF DirectionInv, CallInv, HalfTurnedInv

\* Every step keeps DirectionInv.
LEMMA StepDirection == DirectionInv /\ [Next]_vars => DirectionInv'
<1> SUFFICES ASSUME DirectionInv, [Next]_vars PROVE DirectionInv'
  OBVIOUS
<1>1. TypeInv /\ TypeInv' /\ TypeOK
  BY StepType DEF DirectionInv, TypeInv
<1>2. ASSUME UNCHANGED busVars PROVE SlaveInv'
  BY <1>2 DEF busVars, DirectionInv, SlaveInv
<1>3. ASSUME NEW r \in Requests, Serve(r) PROVE DirectionInv'
  <2>1. inputs' = inputs /\ UNCHANGED busVars /\ Target' = <<r.bus, r.dev>>
    BY <1>3 DEF Serve, chipVars, Target
  <2>2. CASE <<r.bus, r.dev>> \in Devices
    <3>1. CallInv' /\ HalfTurnedInv' /\ Forgets
      BY <1>1, <1>3, <2>1, <2>2, CallDirection DEF Serve
    <3>2. QED
      BY <1>1, <1>2, <2>1, <3>1, CacheKept DEF DirectionInv
  <2>3. CASE <<r.bus, r.dev>> \notin Devices
    <3>1. pc' = "undefined" /\ io_state' = io_state
      BY <1>3, <2>3 DEF Serve
    <3>2. QED
      BY <1>1, <1>2, <2>1, <3>1, CacheKept
         DEF DirectionInv, CallInv, HalfTurnedInv, Forgets
  <2>4. QED
    BY <2>2, <2>3
<1>4. ASSUME pc' = "reply" \/ pc' = "idle", io_state' = io_state,
             inputs' = inputs, UNCHANGED busVars
      PROVE  DirectionInv'
  BY <1>1, <1>2, <1>4, CacheKept DEF DirectionInv, CallInv, HalfTurnedInv, Forgets
<1>5. CASE RefuseUri \/ \E r \in Requests : RefuseIndex(r)
  BY <1>4, <1>5 DEF RefuseUri, RefuseIndex, Refuse, chipVars
<1>6. CASE Reply
  BY <1>4, <1>6 DEF Reply, chipVars
<1>7. ASSUME NEW c \in Chips, NEW lv \in Levels, LevelChange(c, lv)
      PROVE  DirectionInv'
  BY <1>1, <1>2, <1>7, CacheKept
     DEF LevelChange, reqVars, chipVars, DirectionInv, CallInv, HalfTurnedInv,
         Forgets, Target
<1>8. CASE Restart
  <2>1. (IoInit(open, slave, io_state))' /\ pc' = "idle"
    BY <1>8 DEF Restart, IoInit
  <2>2. SlaveInv'
    BY <2>1 DEF IoInit, SlaveInv
  <2>3. DirectionCacheTruthful'
    BY <2>1 DEF IoInit, DirectionCacheTruthful
  <2>4. QED
    BY <1>1, <2>1, <2>2, <2>3 DEF DirectionInv, CallInv, HalfTurnedInv
<1>9. CASE UNCHANGED vars
  BY <1>1, <1>2, <1>9, CacheKept
     DEF vars, reqVars, chipVars, DirectionInv, CallInv, HalfTurnedInv, Forgets,
         Target
<1>10. QED
  BY <1>3, <1>5, <1>6, <1>7, <1>8, <1>9, ConfigureIoDirection, TransferDirection
     DEF Next

\* Whatever transfers fail and whenever the program is restarted, io_state says
\* "write" only of an MCP23017 whose ports are both outputs, and "read" only of
\* one whose ports are both inputs.
THEOREM AlwaysDirectionInv == Spec => []DirectionInv
<1>1. Init => DirectionInv
  BY InitType, InitDirection DEF Init
<1>2. QED
  BY <1>1, StepDirection, PTL DEF Spec

\* mcp23017_configure_io's io_state never claims a direction that the IODIR
\* registers do not have.
THEOREM CacheTruthful == Spec => []DirectionCacheTruthful
<1>1. DirectionInv => DirectionCacheTruthful
  BY DEF DirectionInv
<1>2. QED
  BY <1>1, AlwaysDirectionInv, PTL

-----------------------------------------------------------------------------
(* Containment. *)

\* A transfer changes the registers of no chip but its slave.
LEMMA OnlySlave ==
  ASSUME BusTypeOK, NEW c,
         \/ \E reg, p, byte, ok : WriteByteData(c, reg, p, byte, ok)
         \/ \E p, byte, ok : ReadByteData(c, p, byte, ok)
         \/ \E byte, ok : WriteByte(c, byte, ok),
         NEW d \in Chips, d # c
  PROVE  latch'[d] = latch[d] /\ inputs'[d] = inputs[d]
<1>1. latch \in [Chips -> SUBSET Word] /\ inputs \in [Chips -> SUBSET Ports]
  BY DEF BusTypeOK
<1>2. CASE \E reg, p, byte, ok : WriteByteData(c, reg, p, byte, ok)
  BY <1>1, <1>2 DEF WriteByteData, chipVars
<1>3. CASE \E p, byte, ok : ReadByteData(c, p, byte, ok)
  BY <1>1, <1>3 DEF ReadByteData
<1>4. CASE \E byte, ok : WriteByte(c, byte, ok)
  BY <1>1, <1>4 DEF WriteByte
<1>5. QED
  BY <1>2, <1>3, <1>4

\* What a device is sent by its own driver when it is read leaves its latch.
LEMMA ReadKeepsLatch ==
  ASSUME BusTypeOK, NEW c \in Chips, NEW ok, NEW p, NEW byte,
         \/ Part[c] = "mcp23017" /\ WriteByteData(c, "IODIR", p, byte, ok)
         \/ Part[c] = "mcp23017" /\ ReadByteData(c, p, byte, ok)
         \/ ReadByte(c, byte, ok)
  PROVE  latch'[c] = latch[c]
<1>1. latch \in [Chips -> SUBSET Word]
  BY DEF BusTypeOK
<1>2. CASE Part[c] = "mcp23017" /\ WriteByteData(c, "IODIR", p, byte, ok)
  BY <1>1, <1>2 DEF WriteByteData, LatchAfter, chipVars
<1>3. CASE Part[c] = "mcp23017" /\ ReadByteData(c, p, byte, ok)
  BY <1>1, <1>3 DEF ReadByteData
<1>4. CASE ReadByte(c, byte, ok)
  BY <1>4 DEF ReadByte, chipVars
<1>5. QED
  BY <1>2, <1>3, <1>4

\* A step of a driver is contained.
LEMMA DrivenContained == DirectionInv /\ Driven => Contained
<1> SUFFICES ASSUME DirectionInv, Driven,
                    NEW c \in Chips, Part[c] # "piface",
                    latch'[c] # latch[c] \/ inputs'[c] # inputs[c]
             PROVE  /\ Busy
                    /\ \/ c = Chip[Target] /\ (latch'[c] # latch[c] => op = "write")
                       \/ Chip[Target] \in AddrFaults /\ c \in OnBus(req.bus)
  BY DEF Contained
<1>1. /\ Busy /\ TypeInv /\ BusTypeOK /\ SlaveInv
      /\ op \in {"read", "write"}
  BY DEF Driven, ConfigureIo, Mcp23017Read, Mcp23017Write, Pcf8574Read,
         Pcf8574Write, PifaceRead, PifaceWrite, Transfers, Busy, DirectionInv,
         TypeInv, TypeOK
<1>2. c # NoChip
  BY ConfigAssumption
<1>3. latch \in [Chips -> SUBSET Word]
  BY <1>1 DEF BusTypeOK
<1>4. ASSUME NEW addressed \in BOOLEAN, SetAddr(Target, addressed), open' = open,
             c = Slave,
             c = Chip[Target] /\ op = "read" => latch'[c] = latch[c]
      PROVE  \/ c = Chip[Target] /\ (latch'[c] # latch[c] => op = "write")
             \/ Chip[Target] \in AddrFaults /\ c \in OnBus(req.bus)
  BY <1>1, <1>2, <1>4, SlaveReached
<1>5. CASE ConfigureIo
  <2>1. PICK addressed \in BOOLEAN, ok \in BOOLEAN :
          /\ SetAddr(Target, addressed)
          /\ WriteByteData(Slave, "IODIR", port, IF op = "write" THEN {} ELSE Byte, ok)
    BY <1>5 DEF ConfigureIo
  <2>2. Driver(Target) = "mcp23017" /\ open' = open
    BY <1>5 DEF ConfigureIo, DirectionInv, CallInv
  <2>3. c = Slave
    BY <1>1, <2>1, OnlySlave
  <2>4. c = Chip[Target] => latch'[c] = latch[c]
    BY <1>1, <2>1, <2>2, <2>3, ReadKeepsLatch DEF Driver
  <2>5. QED
    BY <1>1, <1>4, <2>1, <2>2, <2>3, <2>4
<1>6. CASE Mcp23017Read
  <2>1. PICK addressed \in BOOLEAN, ok \in BOOLEAN, byte \in SUBSET Byte :
          SetAddr(Target, addressed) /\ ReadByteData(Slave, port, byte, ok)
    BY <1>6 DEF Mcp23017Read
  <2>2. Driver(Target) = "mcp23017" /\ open' = open
    BY <1>6 DEF Mcp23017Read, Transfers
  <2>3. c = Slave
    BY <1>1, <2>1, OnlySlave
  <2>4. c = Chip[Target] => latch'[c] = latch[c]
    BY <1>1, <2>1, <2>2, <2>3, ReadKeepsLatch DEF Driver
  <2>5. QED
    BY <1>1, <1>4, <2>1, <2>2, <2>3, <2>4
<1>7. CASE Mcp23017Write
  <2>1. PICK addressed \in BOOLEAN, ok \in BOOLEAN :
          /\ SetAddr(Target, addressed)
          /\ WriteByteData(Slave, "OLAT", port, Half(value, port), ok)
    BY <1>7 DEF Mcp23017Write
  <2>2. op = "write" /\ open' = open
    BY <1>7 DEF Mcp23017Write
  <2>3. c = Slave
    BY <1>1, <2>1, OnlySlave
  <2>4. QED
    BY <1>1, <1>4, <2>1, <2>2, <2>3
<1>8. CASE Pcf8574Read
  <2>1. PICK addressed \in BOOLEAN, ok \in BOOLEAN, byte \in SUBSET Byte :
          SetAddr(Target, addressed) /\ ReadByte(Slave, byte, ok)
    BY <1>8 DEF Pcf8574Read
  <2>2. QED
    BY <2>1 DEF ReadByte, chipVars
<1>9. CASE Pcf8574Write
  <2>1. PICK addressed \in BOOLEAN, ok \in BOOLEAN :
          SetAddr(Target, addressed) /\ WriteByte(Slave, value \cap Byte, ok)
    BY <1>9 DEF Pcf8574Write
  <2>2. op = "write" /\ open' = open
    BY <1>9 DEF Pcf8574Write
  <2>3. c = Slave
    BY <1>1, <2>1, OnlySlave
  <2>4. QED
    BY <1>1, <1>4, <2>1, <2>2, <2>3
<1>10. CASE PifaceRead
  BY <1>10 DEF PifaceRead, chipVars
<1>11. CASE PifaceWrite
  <2>1. c # Chip[Target] /\ inputs' = inputs
    BY <1>11 DEF PifaceWrite, Transfers, Driver
  <2>2. latch'[c] = latch[c]
    BY <1>3, <1>11, <2>1 DEF PifaceWrite
  <2>3. QED
    BY <2>1, <2>2
<1>12. QED
  BY <1>5, <1>6, <1>7, <1>8, <1>9, <1>10, <1>11 DEF Driven

\* Every step is contained: nothing but a driver call touches an I2C chip.
LEMMA StepContained == DirectionInv /\ [Next]_vars => [Contained]_vars
<1> SUFFICES ASSUME DirectionInv, Next PROVE Contained
  OBVIOUS
<1>1. ASSUME UNCHANGED chipVars PROVE Contained
  BY <1>1 DEF chipVars, Contained
<1>2. CASE \E r \in Requests : Serve(r) \/ RefuseIndex(r)
  BY <1>1, <1>2 DEF Serve, RefuseIndex, Refuse
<1>3. CASE RefuseUri \/ Reply
  BY <1>1, <1>3 DEF RefuseUri, Refuse, Reply
<1>4. CASE \E c \in Chips, lv \in Levels : LevelChange(c, lv)
  BY <1>1, <1>4 DEF LevelChange
<1>5. CASE Restart
  BY <1>5 DEF Restart, Contained
<1>6. QED
  BY <1>2, <1>3, <1>4, <1>5, DrivenContained DEF Next

\* A chip on an I2C bus changes only in a transfer of the request that addresses
\* it, and its latch only in a write; when an ioctl for the slave address can
\* fail, another chip of the same bus may change in its place, and no other.
THEOREM AlwaysContained == Spec => Containment
BY StepContained, AlwaysDirectionInv, PTL DEF Spec, Containment

-----------------------------------------------------------------------------
(* The cost of a request. *)

\* The transfers left, case by case.
PortsDone == IF port = "B" THEN 1 ELSE 0
Back == IF req.cmd = "write" /\ op = "read" THEN CallTransfers(Target) ELSE 0

\* What TransfersLeft stands for: what the driver call that runs still needs, and
\* the write that a read for a sub-device is made for.  A request under way needs
\* one transfer at least, and none needs more than eight.
LeftCases ==
  /\ TransfersLeft \in 0 .. 8
  /\ PortsDone \in 0 .. 1 /\ Back \in 0 .. 4
  /\ Busy => TransfersLeft >= 1 + Back
  /\ pc = "dir" => TransfersLeft = (4 - PortsDone) + Back
  /\ pc = "data" /\ Driver(Target) = "mcp23017" => TransfersLeft = (2 - PortsDone) + Back
  /\ pc = "data" /\ Driver(Target) # "mcp23017" => TransfersLeft = 1 + Back
  /\ ~Busy => TransfersLeft = 0

\* The cases are all there are.
LEMMA LeftOfCall == TypeOK => LeftCases
<1> SUFFICES ASSUME TypeOK PROVE LeftCases
  OBVIOUS
<1>1. PortsDone \in 0 .. 1 /\ Back \in 0 .. 4
  BY DEF PortsDone, Back, CallTransfers
<1>2. pc = "dir" => TransfersLeft = (4 - PortsDone) + Back
  BY DEF TransfersLeft, Busy, PortsDone, Back
<1>3. pc = "data"
        => TransfersLeft = (IF Driver(Target) = "mcp23017" THEN 2 - PortsDone ELSE 1) + Back
  BY DEF TransfersLeft, Busy, PortsDone, Back
<1>4. ~Busy => TransfersLeft = 0
  BY DEF TransfersLeft
<1>5. pc = "dir" \/ pc = "data" \/ ~Busy
  BY DEF Busy
<1>6. QED
  BY <1>1, <1>2, <1>3, <1>4, <1>5 DEF LeftCases

\* So they are after a step.
LEMMA LeftAfter == TypeOK' => LeftCases'
BY LeftOfCall, PTL

\* What comes after a driver call costs less than the call and what was left after
\* it: nothing, or the write back.
LEMMA ReturnCosts ==
  ASSUME TypeOK, TypeOK', Busy, NEW ok, NEW said, NEW v, Return(ok, said, v), req' = req
  PROVE  TransfersLeft' < TransfersLeft
<1>1. TransfersLeft \in Nat /\ TransfersLeft >= 1 + Back /\ Back \in Nat
  BY LeftOfCall DEF LeftCases
<1>2. CASE ok /\ req.cmd = "write" /\ op = "read"
  <2>1. Call(Target, "write") /\ Back = CallTransfers(Target)
    BY <1>2 DEF Return, WriteBack, Back
  <2>2. /\ op' = "write" /\ port' = "A" /\ Target' = Target
        /\ Driver(Target)' = Driver(Target)
        /\ pc' = "data" \/ (pc' = "dir" /\ Driver(Target) = "mcp23017")
    BY <2>1 DEF Call, Target, Driver
  <2>3. PortsDone' = 0 /\ Back' = 0
    BY <2>2 DEF PortsDone, Back
  <2>4. TransfersLeft' =< CallTransfers(Target)
    <3>1. LeftCases'
      BY LeftAfter
    <3>2. QED
      BY <2>2, <2>3, <3>1 DEF LeftCases, CallTransfers
  <2>5. TransfersLeft' \in Nat
    BY LeftAfter DEF LeftCases
  <2>6. QED
    BY <1>1, <2>1, <2>4, <2>5
<1>3. CASE ~(ok /\ req.cmd = "write" /\ op = "read")
  <2>1. pc' = "reply"
    BY <1>3 DEF Return, Finish
  <2>2. TransfersLeft' = 0
    BY <2>1, LeftAfter DEF LeftCases, Busy
  <2>3. QED
    BY <1>1, <2>2
<1>4. QED
  BY <1>2, <1>3

\* Going on with port B, or with the data after the direction, costs less.
LEMMA NextPortCosts ==
  ASSUME TypeOK, TypeOK', port = "A", NEW said, NEW v, NextPort(said, v), req' = req,
         pc = "dir" \/ (pc = "data" /\ Driver(Target) = "mcp23017")
  PROVE  TransfersLeft' < TransfersLeft
<1>1. /\ pc' = pc /\ Back' = Back /\ PortsDone = 0 /\ PortsDone' = 1
      /\ Driver(Target)' = Driver(Target)
  BY DEF NextPort, Back, PortsDone, Target, CallTransfers, Driver
<1>2. QED
  BY <1>1, LeftOfCall, LeftAfter DEF LeftCases

\* Every transfer of every driver.
LEMMA DrivenCosts ==
  ASSUME DirectionInv, TypeOK', Driven
  PROVE  TransfersLeft' < TransfersLeft
<1>1. TypeOK /\ Busy /\ port \in Ports /\ req' = req
  BY DEF Driven, ConfigureIo, Mcp23017Read, Mcp23017Write, Pcf8574Read, Pcf8574Write,
         PifaceRead, PifaceWrite, Transfers, Busy, DirectionInv, TypeInv, TypeOK
<1>2. CASE ConfigureIo
  <2>1. pc = "dir" /\ Driver(Target) = "mcp23017"
    BY <1>2 DEF ConfigureIo, DirectionInv, CallInv
  <2>2. PICK addressed \in BOOLEAN, ok \in BOOLEAN :
          IF ~ok THEN Return(FALSE, Error("Could not configure"), value)
          ELSE IF port = "A" THEN NextPort(Said(addressed), value)
          ELSE pc' = "data" /\ port' = "A" /\ op' = op
    BY <1>2 DEF ConfigureIo
  <2>3. CASE ~ok
    BY <1>1, <2>2, <2>3, ReturnCosts
  <2>4. CASE ok /\ port = "A"
    BY <1>1, <2>1, <2>2, <2>4, NextPortCosts
  <2>5. CASE ok /\ port # "A"
    <3>1. /\ pc' = "data" /\ PortsDone = 1 /\ PortsDone' = 0 /\ Back' = Back
          /\ Driver(Target)' = "mcp23017"
      BY <1>1, <2>1, <2>2, <2>5 DEF PortsDone, Back, Target, CallTransfers, Driver, Ports
    <3>2. TransfersLeft = 3 + Back /\ TransfersLeft' = 2 + Back /\ Back \in Nat
      BY <1>1, <2>1, <3>1, LeftOfCall, LeftAfter DEF LeftCases
    <3>3. QED
      BY <3>2
  <2>6. QED
    BY <2>3, <2>4, <2>5
<1>3. CASE Mcp23017Read \/ Mcp23017Write
  <2>1. pc = "data" /\ Driver(Target) = "mcp23017"
    BY <1>3 DEF Mcp23017Read, Mcp23017Write, Transfers
  <2>2. PICK addressed \in BOOLEAN, ok \in BOOLEAN :
          \E v, w : IF ok /\ port = "A" THEN NextPort(Said(addressed), v)
                                        ELSE Return(ok, Said(addressed), w)
    <3>1. CASE Mcp23017Read
      BY <3>1 DEF Mcp23017Read
    <3>2. CASE Mcp23017Write
      BY <3>2 DEF Mcp23017Write
    <3>3. QED
      BY <1>3, <3>1, <3>2
  <2>3. CASE ok /\ port = "A"
    BY <1>1, <2>1, <2>2, <2>3, NextPortCosts
  <2>4. CASE ~(ok /\ port = "A")
    BY <1>1, <2>2, <2>4, ReturnCosts
  <2>5. QED
    BY <2>3, <2>4
<1>4. CASE Pcf8574Read \/ Pcf8574Write \/ PifaceRead \/ PifaceWrite
  <2>1. \E ok, said, v : Return(ok, said, v)
    BY <1>4 DEF Pcf8574Read, Pcf8574Write, PifaceRead, PifaceWrite
  <2>2. QED
    BY <1>1, <2>1, ReturnCosts
<1>5. QED
  BY <1>2, <1>3, <1>4 DEF Driven

\* While a driver call is under way the other steps cost nothing.
LEMMA StepCounted == DirectionInv /\ TypeOK' /\ [Next]_vars => [CountedDown]_vars
<1> SUFFICES ASSUME DirectionInv, TypeOK', Next, Busy
             PROVE  TransfersLeft' =< TransfersLeft /\ (Driven => TransfersLeft' < TransfersLeft)
  BY DEF CountedDown
<1>1. TransfersLeft \in Nat /\ TransfersLeft' \in Nat
  BY LeftOfCall, LeftAfter DEF DirectionInv, TypeInv, LeftCases
<1>2. CASE Driven
  BY <1>1, <1>2, DrivenCosts
<1>3. CASE \E c \in Chips, lv \in Levels : LevelChange(c, lv)
  <2>1. UNCHANGED reqVars
    BY <1>3 DEF LevelChange
  <2>2. TransfersLeft' = TransfersLeft
    BY <2>1 DEF reqVars, TransfersLeft, Busy, Target, CallTransfers, Driver
  <2>3. QED
    BY <1>1, <1>2, <2>2
<1>4. CASE Restart
  <2>1. TransfersLeft' = 0
    BY <1>4, LeftAfter DEF Restart, Busy, LeftCases
  <2>2. QED
    BY <1>1, <1>2, <2>1
<1>5. QED
  BY <1>2, <1>3, <1>4 DEF Next, Busy, Serve, RefuseIndex, RefuseUri, Refuse, Reply

\* perform_io and the drivers: each transfer of a request, failed or not, is one
\* of the at most eight that it needs, so that whatever fails no request is served
\* for ever.
THEOREM RequestsAreBounded == Spec => EveryTransferCounts /\ [](TransfersLeft \in 0 .. 8)
<1>1. DirectionInv => TypeOK /\ TransfersLeft \in 0 .. 8
  BY LeftOfCall DEF DirectionInv, TypeInv, LeftCases
<1>2. DirectionInv /\ DirectionInv' /\ [Next]_vars => [CountedDown]_vars
  BY StepCounted DEF DirectionInv, TypeInv
<1>3. QED
  BY <1>1, <1>2, AlwaysDirectionInv, PTL DEF Spec, EveryTransferCounts
===============================================================================
