------------------------------- MODULE Lifecycle -------------------------------
(***************************************************************************)
(* The life of the process: main allocates what the configuration asks for, *)
(* starts the drivers and the HTTP server and polls; signal_handler takes   *)
(* everything down and exits.  A handler runs on top of main wherever main  *)
(* is, and the other signal's handler on top of the first one wherever that *)
(* is; neither ever returns to what it interrupted.                         *)
(***************************************************************************)
EXTENDS Integers, Sequences, SequencesExt

CONSTANTS
  Config,  \* the busses of io_config: [i2c |-> BOOLEAN, devices |-> drivers]
  AsDaemon \* run_as_daemon

ASSUME LifecycleAssumption ==
  /\ Config \in Seq([i2c : BOOLEAN, devices : Seq({"mcp23017", "pcf8574", "piface"})])
  /\ AsDaemon \in BOOLEAN

Busses     == 1 .. Len(Config)
Devices(b) == 1 .. Len(Config[b].devices)

\* The blocks of memory: bus_data, dev_bus_data, dev_data, the Spi, http_server,
\* http_options and the FILE of stream_pid.
BusData(b)       == <<"bus_data", b>>
DevBusData(b, d) == <<"dev_bus_data", b, d>>
DevData(b, d)    == <<"dev_data", b, d>>
Spi              == <<"spi">>
Server           == <<"http_server">>
Options          == <<"http_options">>
Stream           == <<"stream_pid">>

BlocksOf(b) ==
  {BusData(b)} \cup {DevBusData(b, d) : d \in Devices(b)}
    \cup {DevData(b, d) : d \in Devices(b)}

Blocks == {Spi, Server, Options, Stream} \cup UNION {BlocksOf(b) : b \in Busses}

VARIABLES
  main,         \* the next of main's Startup steps, Len(Startup) + 1: polling
  frames,       \* the handlers that run, the interrupted one first
  handled,      \* the signals that have arrived
  libc,         \* some frame is inside malloc, free, syslog or the like
  unstored,     \* what main has allocated and not yet assigned to its pointer
  ptr,          \* the pointers that are not NULL
  mem,          \* the blocks: "none", "live" or "freed"
  num_busses,   \* io_config.num_busses
  num_devices,  \* io_bus.num_devices
  outcome,      \* "running", "exited", or how the process went wrong
  found         \* history: what was amiss when a handler began

vars == <<main, frames, handled, libc, unstored, ptr, mem, num_busses, num_devices,
          outcome, found>>

Signals == {"SIGINT", "SIGTERM"}
Wrong   == {"NULL used", "freed block used", "libc re-entered"}

\* "libc": a call into libc was interrupted.  "missing": a pointer that a handler
\* uses without a look at it was still NULL.  "dangling": a pointer that a handler
\* uses named a block that had been freed.
Amiss == {"libc", "missing", "dangling"}

-----------------------------------------------------------------------------
(* What main and signal_handler do, in order. *)

Step(what, bus, dev, block) == [do |-> what, bus |-> bus, dev |-> dev, block |-> block]

Alloc(b) == Step("alloc", 0, 0, b)

\* (mutant: num_busses one too high)
CountedTwice(b, d) == Step("count", b + 1, d, Spi)

Counted(b, d) == Step("count", b, d, Spi)
If(c, s)  == IF c THEN <<s>> ELSE <<>>

OverDevices(b, F(_, _)) == FlattenSeq([d \in Devices(b) |-> F(b, d)])
OverBusses(F(_))        == FlattenSeq([b \in Busses |-> F(b)])

\* The lines of the configuration: bus_type and devdrv lines count the bus and
\* the device, the parameter lines allocate.
DeviceLines(b, d) ==
  <<Counted(b, d)>> \o If(Config[b].i2c, Alloc(DevBusData(b, d)))

BusLines(b) ==
  <<Counted(b, 0)>> \o If(Config[b].i2c, Alloc(BusData(b)))
    \o OverDevices(b, DeviceLines)

\* The init of a device's driver.
DeviceInit(b, d) ==
  If(Config[b].devices[d] = "mcp23017", Alloc(DevData(b, d)))
    \o If(Config[b].devices[d] = "piface", Alloc(Spi))

BusInit(b) == OverDevices(b, DeviceInit)

\* parse_config, daemonize's fdopen, io_init and start_http_server.
Startup ==
  OverBusses(BusLines) \o If(AsDaemon, Alloc(Stream))
    \o OverBusses(BusInit) \o <<Alloc(Server)>>

\* What signal_handler frees and calls itself.  A call into libc that depends on no
\* pointer names the Spi, which nothing looks at before it is used.
Free(block)   == Step("free", 0, 0, block)
Always        == Spi
Log(block)    == Step("log", 0, 0, block)

\* The deinit of a device's driver, and the close of the bus after its devices.
DeviceDeinit(b, d) ==
  If(Config[b].devices[d] = "mcp23017", Step("free", b, d, DevData(b, d)))
    \o If(Config[b].devices[d] = "piface", Step("free", b, d, Spi))

BusDeinit(b) ==
  OverDevices(b, DeviceDeinit) \o If(Config[b].i2c, Step("close", b, 0, BusData(b)))

DeviceDiscard(b, d) == If(Config[b].i2c, Free(DevBusData(b, d)))

BusDiscard(b) ==
  OverDevices(b, DeviceDiscard) \o If(Config[b].i2c, Free(BusData(b)))

\* conf_deinit forgets the busses before it discards their data.
Forget == Step("forget", 0, 0, Spi)

\* main.c:138-147, before io_deinit, and main.c:149-171, after conf_deinit.
StopServer == <<Log(Server), Free(Server), Log(Always)>>
CloseFiles == <<Free(Options), Free(Stream), Log(Always)>>

\* (mutant: conf_deinit before io_deinit, on the old number of busses)
TeardownDiscardingFirst ==
  StopServer \o OverBusses(BusDiscard) \o OverBusses(BusDeinit)
    \o <<Forget>> \o CloseFiles

\* (mutant: conf_deinit's first line moved before io_deinit)
TeardownForgettingFirst ==
  StopServer \o <<Forget>> \o OverBusses(BusDeinit) \o OverBusses(BusDiscard)
    \o CloseFiles

Teardown ==
  StopServer \o OverBusses(BusDeinit) \o <<Forget>> \o OverBusses(BusDiscard)
    \o CloseFiles

-----------------------------------------------------------------------------
(* main, as long as no handler has interrupted it. *)

InMain == outcome = "running" /\ frames = <<>>

Polling == main = Len(Startup) + 1

Now == Startup[main]

Doing(what) == main <= Len(Startup) /\ Now.do = what

Count ==
  /\ InMain /\ ~libc /\ Doing("count")
  /\ num_busses' = Now.bus
  /\ num_devices' = IF Now.dev = 0 THEN num_devices
                    ELSE [num_devices EXCEPT ![Now.bus] = Now.dev]
  /\ main' = main + 1
  /\ UNCHANGED <<frames, handled, libc, unstored, ptr, mem, outcome, found>>

\* main is inside some function of libc: malloc, printf, strncpy, what the parser,
\* a driver or the HTTP server calls.
EnterLibc ==
  /\ InMain /\ ~libc
  /\ libc' = TRUE
  /\ UNCHANGED <<main, frames, handled, unstored, ptr, mem, num_busses, num_devices,
                 outcome, found>>

LeaveLibc ==
  /\ InMain /\ libc
  /\ libc' = FALSE
  /\ UNCHANGED <<main, frames, handled, unstored, ptr, mem, num_busses, num_devices,
                 outcome, found>>

\* malloc, fdopen or mg_create_server returns a block ...
Malloc ==
  /\ InMain /\ libc /\ Doing("alloc") /\ unstored = {}
  /\ libc' = FALSE
  /\ mem' = [mem EXCEPT ![Now.block] = "live"]
  /\ unstored' = {Now.block}
  /\ UNCHANGED <<main, frames, handled, ptr, num_busses, num_devices, outcome, found>>

\* ... and only when the caller has filled it in, setting the server's options for
\* one, is it assigned to the pointer that signal_handler knows.
Store ==
  /\ InMain /\ ~libc /\ unstored # {}
  /\ ptr' = ptr \cup unstored
  /\ unstored' = {}
  /\ main' = main + 1
  /\ UNCHANGED <<frames, handled, libc, mem, num_busses, num_devices, outcome, found>>

-----------------------------------------------------------------------------
(* signal_handler *)

\* The frame that runs, and the step of Teardown it is at.
Top  == frames[Len(frames)]
This == Teardown[Top.item]

InHandler == outcome = "running" /\ frames # <<>>
Ready(what) ==
  InHandler /\ Top.item <= Len(Teardown) /\ Top.phase = "ready" /\ This.do = what

Phase(p) == frames' = [frames EXCEPT ![Len(frames)].phase = p]
NextItem ==
  frames' = [frames EXCEPT ![Len(frames)] = [item |-> Top.item + 1, phase |-> "ready"]]

GoesWrong(how) == outcome' = how /\ UNCHANGED frames

\* io_deinit visits the busses and devices that are counted.
Visited(s) ==
  s.bus > 0 => s.bus <= num_busses /\ s.dev <= num_devices[s.bus]

\* A pointer is not looked at before it is freed only by pfio_deinit.
Happens(s) == Visited(s) /\ (s.block # Spi => s.block \in ptr)

\* Whether block may be used.
Use(block, next) ==
  IF block \notin ptr THEN GoesWrong("NULL used")
  ELSE IF mem[block] # "live" THEN GoesWrong("freed block used")
  ELSE next /\ UNCHANGED outcome

\* The Linux I2C bus driver closes the file that its bus_data names.
Close ==
  /\ Ready("close")
  /\ IF Visited(This) THEN Use(This.block, NextItem)
                      ELSE NextItem /\ UNCHANGED outcome
  /\ UNCHANGED <<main, handled, libc, unstored, ptr, mem, num_busses, num_devices, found>>

ForgetBusses ==
  /\ Ready("forget")
  /\ num_busses' = 0
  /\ NextItem
  /\ UNCHANGED <<main, handled, libc, unstored, ptr, mem, num_devices, outcome, found>>

\* There is nothing to free, or no server to announce the end of.
Skip ==
  /\ Ready("log") \/ Ready("free")
  /\ ~Happens(This)
  /\ NextItem
  /\ UNCHANGED <<main, handled, libc, unstored, ptr, mem, num_busses, num_devices,
                 outcome, found>>

\* A call into libc on top of another one that was interrupted is undefined: it
\* waits for ever for a lock or finds half-changed data.  No step follows.
Enter ==
  /\ Ready("log") \/ Ready("free")
  /\ Happens(This)
  /\ IF libc THEN GoesWrong("libc re-entered") /\ UNCHANGED libc
     ELSE IF This.do = "log" THEN Phase("inside") /\ libc' = TRUE /\ UNCHANGED outcome
     ELSE /\ Use(This.block, Phase("inside"))
          /\ libc' = (outcome' = "running")
  /\ UNCHANGED <<main, handled, unstored, ptr, mem, num_busses, num_devices, found>>

Leave ==
  /\ InHandler /\ Top.phase = "inside"
  /\ libc' = FALSE
  /\ IF This.do = "log" THEN NextItem /\ UNCHANGED mem
     ELSE Phase("freed") /\ mem' = [mem EXCEPT ![This.block] = "freed"]
  /\ UNCHANGED <<main, handled, unstored, ptr, num_busses, num_devices, outcome, found>>

\* The pointer is set to NULL after its block is freed; pfio_deinit keeps its.
Nullify ==
  /\ InHandler /\ Top.phase = "freed"
  /\ ptr' = IF This.block = Spi THEN ptr ELSE ptr \ {This.block}
  /\ NextItem
  /\ UNCHANGED <<main, handled, libc, unstored, mem, num_busses, num_devices,
                 outcome, found>>

Exit ==
  /\ InHandler /\ Top.item > Len(Teardown)
  /\ outcome' = "exited"
  /\ UNCHANGED <<main, frames, handled, libc, unstored, ptr, mem, num_busses,
                 num_devices, found>>

-----------------------------------------------------------------------------
\* A device that signal_handler deinitialises is a PiFace.
PiFaceCounted ==
  \E b \in 1 .. num_busses : \E d \in 1 .. num_devices[b] :
    Config[b].devices[d] = "piface"

Missing ==
  \/ \E b \in 1 .. num_busses : Config[b].i2c /\ BusData(b) \notin ptr
  \/ PiFaceCounted /\ Spi \notin ptr

\* The Spi is used as long as a PiFace is counted, any other block as long as its
\* pointer is not NULL.
Dangling ==
  \E x \in ptr : mem[x] # "live" /\ (x = Spi => PiFaceCounted)

IsAmiss(what) ==
  \/ what = "libc" /\ libc
  \/ what = "missing" /\ Missing
  \/ what = "dangling" /\ Dangling

\* A signal is blocked while its own handler runs, the other one is not.
Arrive(s) ==
  /\ outcome = "running"
  /\ s \notin handled
  /\ handled' = handled \cup {s}
  /\ frames' = Append(frames, [item |-> 1, phase |-> "ready"])
  /\ found' = found \cup {what \in Amiss : IsAmiss(what)}
  /\ UNCHANGED <<main, libc, unstored, ptr, mem, num_busses, num_devices, outcome>>

\* The options are allocated before the handlers are installed, and conf_init
\* has run.
Init ==
  /\ main = 1 /\ frames = <<>> /\ handled = {} /\ libc = FALSE
  /\ unstored = {} /\ ptr = {Options}
  /\ mem = [b \in Blocks |-> IF b = Options THEN "live" ELSE "none"]
  /\ num_busses = 0 /\ num_devices = [b \in Busses |-> 0]
  /\ outcome = "running" /\ found = {}

Handler == Close \/ ForgetBusses \/ Skip \/ Enter \/ Leave \/ Nullify \/ Exit

Next ==
  \/ Count \/ EnterLibc \/ LeaveLibc \/ Malloc \/ Store
  \/ Handler
  \/ \E s \in Signals : Arrive(s)

Spec == Init /\ [][Next]_vars

-----------------------------------------------------------------------------
(* Properties. *)

Frames == [item : 1 .. Len(Teardown) + 1, phase : {"ready", "inside", "freed"}]

\* The types of the process's memory, configuration counters and handlers.
TypeOK ==
  /\ main \in 1 .. Len(Startup) + 1
  /\ frames \in Seq(Frames)
  /\ handled \subseteq Signals
  /\ libc \in BOOLEAN /\ found \subseteq Amiss
  /\ unstored \subseteq Blocks /\ ptr \subseteq Blocks
  /\ mem \in [Blocks -> {"none", "live", "freed"}]
  /\ num_busses \in 0 .. Len(Config)
  /\ num_devices \in [Busses -> Nat]
  /\ outcome \in {"running", "exited"} \cup Wrong

\* pfio keeps one Spi: a second PiFace device would have it freed twice.
OnePiface ==
  \A b, c \in Busses : \A d \in Devices(b), e \in Devices(c) :
    Config[b].devices[d] = "piface" /\ Config[c].devices[e] = "piface"
      => b = c /\ d = e

\* The process can be stopped at any time, during startup, while it polls and in
\* the other signal's handler, but for three windows, and each does one kind of
\* harm only.  libc is re-entered only when a signal has interrupted a call into
\* it; a NULL is used only when the first signal came while bus data or the Spi
\* was still to be assigned, never once main polls; and with one PiFace a block is
\* used after it was freed only by the second handler, when it came between a free
\* and the assignment of NULL, or after the Spi was freed.
SafeStop ==
  /\ outcome = "libc re-entered" => "libc" \in found
  /\ outcome = "NULL used" => "missing" \in found /\ ~Polling
  /\ outcome = "freed block used" /\ OnePiface => "dangling" \in found /\ handled = Signals

\* Once the process has exited, however its handlers came on top of each other, every
\* block has been freed, except the one that main had allocated and not yet assigned
\* when the signal came.
NothingLeft ==
  outcome = "exited" => \A b \in Blocks : mem[b] = "live" => b \in unstored
===============================================================================
