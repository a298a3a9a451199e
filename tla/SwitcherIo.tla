------------------------------ MODULE SwitcherIo ------------------------------
(***************************************************************************)
(* The serving side of the switcher: http_request_handler and perform_io   *)
(* with the MCP23017, PCF8574 and PiFace drivers, on the I2C transport of  *)
(* I2cBus.  One thread serves one request at a time; every transfer on a   *)
(* bus is a step, so that the world can move between two of them, any of   *)
(* them can fail, and the process can be ended and started again.          *)
(***************************************************************************)
EXTENDS I2cBus

CONSTANTS
  ReqBus, ReqDev, ReqSub,  \* the indices that requests carry
  ReqValue,                \* the values that writes carry
  Levels                   \* the levels that the world puts on pins

IDX_INVALID == -1

\* What parse_uri makes of a request: a read carries no value.
Requests ==
  [cmd : {"read"}, bus : ReqBus, dev : ReqDev, sub : ReqSub, value : {{}}]
    \cup
  [cmd : {"write"}, bus : ReqBus, dev : ReqDev, sub : ReqSub, value : ReqValue]

NoRequest ==
  [cmd |-> "none", bus |-> IDX_INVALID, dev |-> IDX_INVALID,
   sub |-> IDX_INVALID, value |-> {}]

ASSUME RequestAssumption ==
  /\ ReqBus \subseteq Int
  /\ ReqDev \subseteq Int
  /\ ReqSub \subseteq Int
  /\ ReqValue \subseteq Value
  /\ Levels \subseteq SUBSET Word

\* NoChip also stands for "no request" below: it is none.
ASSUME NoChipAssumption ==
  NoChip \notin [port : Chips, cmd : {"read", "write"}, sub : ReqSub, value : Value]

VARIABLES
  pc,        \* where the handler stands: "dir" and "data" are in the driver
  req,       \* io_data* data and cmd of perform_io
  op,        \* the driver call that runs: read or write
  port,      \* the port of the driver's next transfer
  value,     \* the value_t the driver call works on
  content,   \* the reply buffer of http_request_handler
  io_state,  \* mcp23017_data.io_state of each device
  disturbed  \* history: the pins of the device addressed that were not at the
             \* level of their latch while perform_io read them

reqVars == <<pc, req, op, port, value, content>>
vars    == <<reqVars, io_state, disturbed, busVars, chipVars, level>>

Target == <<req.bus, req.dev>>
Slave  == slave'[req.bus]   \* the chip that this step's transfer reaches

Nothing   == [kind |-> "none",  text |-> "", value |-> {}]
Error(m)  == [kind |-> "error", text |-> m,  value |-> {}]
Success(v) == [kind |-> "ok",   text |-> "", value |-> v]

ErrorTexts ==
  {"Invalid request type", "Bus ID not existing.", "Device ID not existing.",
   "Could not read from device.", "ioctl error", "Could not configure"}

Replies ==
  [kind : {"none", "error", "ok"}, text : ErrorTexts \cup {""}, value : Value]

\* The reply buffer after i2c_linux_set_addr, which reports its failure.
Said(addressed) == IF addressed THEN content ELSE Error("ioctl error")

\* A pin whose level, read as an input, would not be the one latched.
Disagree(c, lv) ==
  CASE Part[c] = "mcp23017" -> {i \in Word : (i \in lv) # (i \in latch[c])}
    [] Part[c] = "pcf8574"  -> latch[c] \ lv
    [] Part[c] = "piface"   -> {}

-----------------------------------------------------------------------------
(* perform_io *)

\* 1 << i for an int: past the width of a value_t, C leaves it open; the
\* processors give 0 or shift by i modulo the width.
BitUnbounded(i) == {{i}}   \* (mutant: the width of a value_t is forgotten)

Bit(i) ==
  IF i \in 0 .. ValueBits - 1 THEN {{i}} ELSE {{}, {i % ValueBits}}

\* (mutant: the direction is not forgotten while it is being changed)
CallStillKnown(t, o) ==
  LET turn == Driver(t) = "mcp23017" /\ io_state[t] # o
  IN  /\ op' = o
      /\ port' = "A"
      /\ pc' = IF turn THEN "dir" ELSE "data"
      /\ io_state' = io_state

\* The head of a driver call: an MCP23017 whose ports are not known to point in
\* the right direction is reconfigured first, and until that has succeeded its
\* direction is not known.
Call(t, o) ==
  LET turn == Driver(t) = "mcp23017" /\ io_state[t] # o
  IN  /\ op' = o
      /\ port' = "A"
      /\ pc' = IF turn THEN "dir" ELSE "data"
      /\ io_state' = IF turn THEN [io_state EXCEPT ![t] = "none"] ELSE io_state

\* (mutant: the sub-device's bit is not shifted down)
ReadValueUnshifted(v) ==
  IF req.sub \in 0 .. ValueBits - 1 THEN v \cap {req.sub} ELSE v

\* The value a read answers: the sub-device's bit, or the whole value.
ReadValue(v) ==
  IF req.sub \in 0 .. ValueBits - 1
  THEN IF req.sub \in v THEN {0} ELSE {}
  ELSE v

\* (mutant: perform_io takes a driver's 0 for success)
AnswerNonNegative(ok, said, v) ==
  IF ~ok /\ req.cmd = "write" /\ op = "read"
  THEN Error("Could not read from device.")
  ELSE Success(IF req.cmd = "read" THEN ReadValue(v) ELSE req.value)

\* (mutant: perform_io leaves the report of a failed read to the driver)
AnswerUnreported(ok, said, v) ==
  IF ok THEN Success(IF req.cmd = "read" THEN ReadValue(v) ELSE req.value) ELSE said

\* What the reply buffer holds when perform_io returns after a driver call that
\* left said in it.  The error for a sub-device index that is out of range is
\* written, and then the success over it.
Answer(ok, said, v) ==
  IF ok THEN Success(IF req.cmd = "read" THEN ReadValue(v) ELSE req.value)
  ELSE IF req.cmd = "write" /\ op = "read"
       THEN Error("Could not read from device.")
       ELSE said

\* (mutant: the sub-device's bit is written without the bits that were read)
ModifiedAlone(v, mask) == IF req.value # {} THEN mask ELSE {}

\* The value that was read, with the sub-device's bit changed.
Modified(v, mask) == IF req.value # {} THEN v \cup mask ELSE v \ mask

\* A write to a sub-device goes on to write what it read, modified.
WriteBack(said, v) ==
  /\ \E mask \in Bit(req.sub) : value' = Modified(v, mask)
  /\ content' = said
  /\ Call(Target, "write")

Finish(ok, said, v) ==
  /\ pc' = "reply"
  /\ value' = v
  /\ content' = Answer(ok, said, v)
  /\ UNCHANGED <<op, port, io_state>>

\* (mutant: a driver call that failed is made again)
ReturnRetrying(ok, said, v) ==
  IF ~ok THEN value' = v /\ content' = said /\ Call(Target, op)
  ELSE IF req.cmd = "write" /\ op = "read" THEN WriteBack(said, v)
  ELSE Finish(ok, said, v)

\* The driver call returns to perform_io with v in its buffer.
Return(ok, said, v) ==
  IF ok /\ req.cmd = "write" /\ op = "read" THEN WriteBack(said, v)
                                           ELSE Finish(ok, said, v)

\* The driver call goes on with its second port.
NextPort(said, v) ==
  /\ port' = "B"
  /\ value' = v
  /\ content' = said
  /\ UNCHANGED <<pc, op, io_state>>

UnknownBus(r) == r.bus = IDX_INVALID \/ r.bus >= NumBusses
UnknownDev(r) == r.dev = IDX_INVALID \/ r.dev >= NumDevices[r.bus]

\* Outside these guards C does not say which memory perform_io works on; no
\* step is modelled from there.
Serve(r) ==
  LET t     == <<r.bus, r.dev>>
      known == ~UnknownBus(r) /\ (r.bus \in Busses => ~UnknownDev(r))
  IN  /\ pc = "idle"
      /\ known
      /\ req' = r
      /\ value' = r.value
      /\ content' = Nothing
      /\ IF t \in Devices
         THEN /\ Call(t, IF r.cmd = "write" /\ r.sub = IDX_INVALID
                         THEN "write" ELSE "read")
              /\ disturbed' = Disagree(Chip[t], level[Chip[t]])
         ELSE /\ pc' = "undefined"
              /\ UNCHANGED <<op, port, io_state, disturbed>>
      /\ UNCHANGED <<busVars, chipVars, level>>

\* An index that is not configured, or a URI that parse_uri refuses.
Refuse(message) ==
  /\ pc = "idle"
  /\ pc' = "reply"
  /\ content' = Error(message)
  /\ UNCHANGED <<req, op, port, value, io_state, disturbed, busVars, chipVars, level>>

RefuseUri == Refuse("Invalid request type")

RefuseIndex(r) ==
  \/ UnknownBus(r) /\ Refuse("Bus ID not existing.")
  \/ r.bus \in Busses /\ UnknownDev(r) /\ Refuse("Device ID not existing.")

-----------------------------------------------------------------------------
(* The drivers.  Each step is one transfer to Slave; when it is the last of *)
(* the driver call, perform_io's part up to the next call belongs to it.    *)

Transfers(part) == pc = "data" /\ Driver(Target) = part

\* mcp23017_configure_io, and what its callers make of its failure.
ConfigureIo ==
  /\ pc = "dir"
  /\ \E addressed, ok \in BOOLEAN :
       /\ SetAddr(Target, addressed)
       /\ WriteByteData(Slave, "IODIR", port, IF op = "write" THEN {} ELSE Byte, ok)
       /\ IF ~ok THEN Return(FALSE, Error("Could not configure"), value)
          ELSE IF port = "A" THEN NextPort(Said(addressed), value)
          ELSE /\ io_state' = [io_state EXCEPT ![Target] = op]
               /\ pc' = "data"
               /\ port' = "A"
               /\ content' = Said(addressed)
               /\ UNCHANGED <<op, value>>
  /\ UNCHANGED <<req, disturbed, open, level>>

\* The GPIOA and GPIOB reads of mcp23017_read; between them the buffer holds
\* its states_a.
Mcp23017Read ==
  /\ Transfers("mcp23017") /\ op = "read"
  /\ \E addressed, ok \in BOOLEAN, byte \in SUBSET Byte :
       /\ SetAddr(Target, addressed)
       /\ ReadByteData(Slave, port, byte, ok)
       /\ IF ok /\ port = "A" THEN NextPort(Said(addressed), byte)
          ELSE Return(ok, Said(addressed), IF ok THEN Join(value, byte) ELSE value)
  /\ UNCHANGED <<req, disturbed, open, level>>

\* The OLATA and OLATB writes of mcp23017_write.
Mcp23017Write ==
  /\ Transfers("mcp23017") /\ op = "write"
  /\ \E addressed, ok \in BOOLEAN :
       /\ SetAddr(Target, addressed)
       /\ WriteByteData(Slave, "OLAT", port, Half(value, port), ok)
       /\ IF ok /\ port = "A" THEN NextPort(Said(addressed), value)
          ELSE Return(ok, Said(addressed), value)
  /\ UNCHANGED <<req, disturbed, open, level>>

\* A failed read still puts 0 into the caller's buffer.
Pcf8574Read ==
  /\ Transfers("pcf8574") /\ op = "read"
  /\ \E addressed, ok \in BOOLEAN, byte \in SUBSET Byte :
       /\ SetAddr(Target, addressed)
       /\ ReadByte(Slave, byte, ok)
       /\ Return(ok, Said(addressed), IF ok THEN byte ELSE {})
  /\ UNCHANGED <<req, disturbed, open, level>>

Pcf8574Write ==
  /\ Transfers("pcf8574") /\ op = "write"
  /\ \E addressed, ok \in BOOLEAN :
       /\ SetAddr(Target, addressed)
       /\ WriteByte(Slave, value \cap Byte, ok)
       /\ Return(ok, Said(addressed), value)
  /\ UNCHANGED <<req, disturbed, open, level>>

\* The PiFace is on SPI.  A failed transfer is not reported: the byte of a read
\* is then whatever the receive buffer held, and a write is answered as done.
PifaceRead ==
  /\ Transfers("piface") /\ op = "read"
  /\ \E byte \in SUBSET Byte :
       /\ Chip[Target] \notin XferFaults => byte = Seen(Chip[Target])
       /\ Return(TRUE, content, byte)
  /\ UNCHANGED <<req, disturbed, busVars, chipVars, level>>

PifaceWrite ==
  /\ Transfers("piface") /\ op = "write"
  /\ \/ latch' = [latch EXCEPT ![Chip[Target]] = value \cap Byte]
     \/ Chip[Target] \in XferFaults /\ UNCHANGED latch
  /\ Return(TRUE, content, value)
  /\ UNCHANGED <<req, disturbed, busVars, inputs, level>>

\* The tail of http_request_handler: mg_printf sends content, and the handler's
\* locals are gone.
Reply ==
  /\ pc = "reply"
  /\ pc' = "idle"
  /\ req' = NoRequest
  /\ op' = "read" /\ port' = "A" /\ value' = {} /\ content' = Nothing
  /\ disturbed' = {}
  /\ UNCHANGED <<io_state, busVars, chipVars, level>>

-----------------------------------------------------------------------------
(* The world and the process. *)

\* perform_io is reading the pins of the device addressed.
Reading == pc \in {"dir", "data"} /\ op = "read"

LevelChange(c, lv) ==
  /\ Part[c] # "piface"
  /\ level' = [level EXCEPT ![c] = lv \cap Pins(c)]
  /\ disturbed' = IF Reading /\ c = Chip[Target]
                  THEN disturbed \cup Disagree(c, level'[c]) ELSE disturbed
  /\ UNCHANGED <<reqVars, io_state, busVars, chipVars>>

\* What io_init makes of the busses and of the drivers' data: a bus that cannot
\* be opened is not noticed.
IoInit(opened, addressed, states) ==
  /\ opened \in [Busses -> BOOLEAN]
  /\ \A b \in Busses \ OpenFaults : opened[b]
  /\ addressed = [b \in Busses |-> NoChip]
  /\ states = [t \in Devices |-> "none"]

\* The process ends wherever it is, is started again and runs io_init.  The
\* chips keep their registers; only pfio_init clears the PiFace's outputs, if
\* its transfers succeed.
Restart ==
  /\ IoInit(open', slave', io_state')
  /\ \E junk \in SUBSET Byte :
       latch' = [c \in Chips |-> IF Part[c] # "piface" THEN latch[c]
                                 ELSE IF c \in XferFaults THEN junk ELSE {}]
  /\ pc' = "idle"
  /\ req' = NoRequest
  /\ op' = "read" /\ port' = "A" /\ value' = {} /\ content' = Nothing
  /\ disturbed' = {}
  /\ UNCHANGED <<inputs, level>>

-----------------------------------------------------------------------------
(* The specification. *)

\* The program has started; the chips are as they are after power-on.
Init ==
  /\ IoInit(open, slave, io_state)
  /\ inputs = [c \in Chips |-> IF Part[c] = "mcp23017" THEN Ports ELSE {}]
  /\ latch = [c \in Chips |-> IF Part[c] = "pcf8574" THEN Byte ELSE {}]
  /\ level \in [Chips -> {lv \cap Byte : lv \in Levels}]
  /\ pc = "idle"
  /\ req = NoRequest
  /\ op = "read" /\ port = "A" /\ value = {} /\ content = Nothing
  /\ disturbed = {}

Driven ==
  \/ ConfigureIo
  \/ Mcp23017Read \/ Mcp23017Write
  \/ Pcf8574Read \/ Pcf8574Write
  \/ PifaceRead \/ PifaceWrite

Next ==
  \/ \E r \in Requests : Serve(r) \/ RefuseIndex(r)
  \/ RefuseUri
  \/ Driven
  \/ Reply
  \/ \E c \in Chips, lv \in Levels : LevelChange(c, lv)
  \/ Restart

\* The polling loop runs on its own, and every transfer returns: the thread
\* that serves a request keeps taking steps.
Fairness == WF_vars(Driven \/ Reply)

Spec == Init /\ [][Next]_vars /\ Fairness

-----------------------------------------------------------------------------
(* Properties. *)

\* The types of the variables (the io_data, the reply buffer, the drivers' and
\* the parts' state).
TypeOK ==
  /\ BusTypeOK
  /\ pc \in {"idle", "dir", "data", "reply", "undefined"}
  /\ req \in Requests \cup {NoRequest}
  /\ op \in {"read", "write"}
  /\ port \in Ports
  /\ value \in Value
  /\ content \in Replies
  /\ io_state \in [Devices -> {"none", "read", "write"}]
  /\ disturbed \in SUBSET Word

\* A driver call is under way, for a device that is configured.
Busy == pc \in {"dir", "data"}

OnBus(b) == {Chip[t] : t \in {u \in Devices : u[1] = b}}

\* The slave address is always set on the bus of device t, and no other device
\* of the configuration is the same part.
Exclusive(t) ==
  /\ OnBus(t[1]) \cap AddrFaults = {}
  /\ \A u \in Devices \ {t} : Chip[u] # Chip[t]

\* The pins of t that a write can be answered "ok" for without being stored:
\* none, unless a failed SPI transfer goes unreported.
Reliable(t) ==
  /\ OnBus(t[1]) \cap AddrFaults = {}
  /\ Driver(t) = "piface" => Chip[t] \notin XferFaults

\* io_state is a cache of the IODIR registers that survives failed transfers,
\* half-done reconfigurations and restarts: when it says "write" both ports are
\* outputs, and when it says "read" both are inputs (mcp23017_configure_io).
DirectionCacheTruthful ==
  \A t \in Devices :
    Driver(t) = "mcp23017" /\ Exclusive(t) =>
      /\ io_state[t] = "write" => inputs[Chip[t]] = {}
      /\ io_state[t] = "read"  => inputs[Chip[t]] = Ports

\* What the write request being answered asked for is in the latch.
Honoured ==
  LET c == Chip[Target]
  IN  IF req.sub = IDX_INVALID
      THEN latch[c] = req.value \cap Pins(c)
      ELSE req.sub \in Pins(c) => (req.sub \in latch[c] <=> req.value # {})

\* A write is answered with io_data_to_json only when the latch of its device
\* holds what was asked for and, on an MCP23017, both ports drive it.
SuccessMeansDriven ==
  pc = "reply" /\ content.kind = "ok" /\ req.cmd = "write" /\ Reliable(Target) =>
    /\ Honoured
    /\ Driver(Target) = "mcp23017" /\ Exclusive(Target)
         => inputs[Chip[Target]] = {}

\* A read that is answered with io_data_to_json tells the latch of each pin that was
\* asked for and that the world did not hold away from it while perform_io read:
\* the bit of the sub-device, or the bits of both ports at their places; of pins
\* that the device does not have it tells none.
ReadTellsLatch ==
  pc = "reply" /\ content.kind = "ok" /\ req.cmd = "read" /\ Reliable(Target) =>
    LET c    == Chip[Target]
        one  == req.sub \in 0 .. ValueBits - 1
        told == IF one THEN {i \in {req.sub} : 0 \in content.value} ELSE content.value
    IN  /\ told \subseteq Pins(c)
        /\ \A i \in Pins(c) \ disturbed :
             ~one \/ i = req.sub => (i \in told <=> i \in latch[c])

\* An empty reply is sent only after a transfer to the device addressed failed,
\* and never by the read half of a sub-device write, which reports its failure.
SilentOnlyOnFailedTransfer ==
  pc = "reply" /\ content.kind = "none" =>
    /\ Chip[Target] \in XferFaults
    /\ req.cmd = "write" => op = "write"

Contained ==
  \A c \in Chips :
    /\ Part[c] # "piface"
    /\ latch'[c] # latch[c] \/ inputs'[c] # inputs[c]
    => /\ Busy
       /\ \/ c = Chip[Target] /\ (latch'[c] # latch[c] => op = "write")
          \/ Chip[Target] \in AddrFaults /\ c \in OnBus(req.bus)

\* A chip's registers change only in a transfer for the device addressed, only
\* its own, and its latch only in a write; when the slave address could not be
\* set the damage stays among the chips of the same bus.
Containment == [][Contained]_vars

OthersKept ==
  /\ Busy /\ pc' # "idle"
  /\ req.cmd = "write" /\ req.sub \in 0 .. ValueBits - 1
  /\ Reliable(Target)
  => \A i \in Pins(Chip[Target]) \ (disturbed \cup {req.sub}) :
       i \in latch'[Chip[Target]] <=> i \in latch[Chip[Target]]

\* The read-modify-write of a sub-device changes no other pin of its device,
\* apart from pins that the world held away from their latch while perform_io
\* read them.
BitWriteKeepsOthers == [][OthersKept]_vars

\* What a driver call can cost: an MCP23017 may have to be turned first.
CallTransfers(t) == IF Driver(t) = "mcp23017" THEN 4 ELSE 1

\* The transfers that the request being served still needs, at most.
TransfersLeft ==
  LET half == IF port = "B" THEN 1 ELSE 0
      call == CASE pc = "dir" -> 4 - half
                [] pc = "data" -> IF Driver(Target) = "mcp23017" THEN 2 - half ELSE 1
      back == IF req.cmd = "write" /\ op = "read" THEN CallTransfers(Target) ELSE 0
  IN  IF Busy THEN call + back ELSE 0

CountedDown ==
  Busy => TransfersLeft' =< TransfersLeft /\ (Driven => TransfersLeft' < TransfersLeft)

\* Every transfer, failed ones too, brings the request nearer to its reply, which
\* is at most eight transfers away, and nothing takes it further: no driver call is
\* made again, and a change of direction is paid for once in each call.
EveryTransferCounts == [][CountedDown]_vars

\* Every request ends: no failure makes the only thread serve it for ever.
RequestsEnd == (pc # "idle") ~> (pc = "idle")

\* io.c says "Invalid sub device-index given." of a read whose sub-device index
\* is past the bits of a value_t; the client is then not told "ok".
InvalidSubDeviceReported ==
  pc = "reply" /\ req.cmd = "read" /\ req.sub \notin {IDX_INVALID} \cup 0 .. ValueBits - 1
    => content.kind # "ok"

\* Every transfer is made "to the slave address" of the device addressed, so no
\* other chip changes.
OtherDevicesUntouched ==
  [][\A c \in Chips :
       Part[c] # "piface" /\ Busy /\ c # Chip[Target] =>
         latch'[c] = latch[c] /\ inputs'[c] = inputs[c]]_vars

-----------------------------------------------------------------------------
(* What SwitcherIo implements. *)

\* The request being served, as PortBank sees it.
Served ==
  IF Target \in Devices
  THEN [port |-> Chip[Target], cmd |-> req.cmd, sub |-> req.sub, value |-> req.value]
  ELSE NoChip

Bank == INSTANCE PortBank WITH
  Port     <- Chips,
  Width    <- [c \in Chips |-> Pins(c)],
  Volatile <- {c \in Chips : Part[c] = "piface"},
  None     <- NoChip,
  out      <- latch,
  request  <- Served,
  answer   <- IF pc # "reply" \/ Target \notin Devices THEN "none"
              ELSE IF content.kind = "ok" THEN "ok" ELSE "failed"

\* Where the slave address can be set and the SPI transfers work, the switcher
\* is a PortBank.
ImplementsPortBank == Bank!Spec
===============================================================================
