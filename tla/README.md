# A verification of the switcher

The switcher is a small C daemon: an HTTP server that reads and writes the
pins of I/O parts (MCP23017 and PCF8574 on I2C, a PiFace on SPI).  This
directory holds TLA+ models of it, TLC configurations that check them on small
instances, and TLAPS proofs of what matters most for every configuration.

Line references are to the repository; `PROJECT.json` maps every definition to
the lines that it stands for.

## 1. Inventory

| Component | Source | State | Operations | Module |
|---|---|---|---|---|
| I2C transport | `src/io_i2c_linux.c` | file handle of a bus, and the slave address the kernel keeps for it | set address, read/write byte, read/write byte data, open, close | `I2cBus`, `Lifecycle` |
| `perform_io` | `src/io.c:111` | the reply, the value being worked on | whole read, whole write, sub-device read, sub-device write (read-modify-write) | `SwitcherIo` |
| Drivers | `src/mcp23017.c`, `src/pcf8574.c`, `src/dev_piface.c` | `io_state` of each MCP23017 | read, write, init, deinit | `SwitcherIo`, `Lifecycle` |
| PiFace access | `src/pfio.c` | the static `Spi` | init, deinit, write outputs, read-modify-write of a pin | `Pfio` |
| HTTP interface | `src/http.c` | the reply buffer of a request | parse the URI, serve, reply; start and stop the server | `HttpUri`, `SwitcherIo`, `Daemon` |
| Configuration data, driver lifecycle | `src/io.c:30-108` | `io_config`, its busses, devices and their data | `conf_init`, `io_init`, `io_deinit`, `conf_deinit` | `Lifecycle` |
| Startup and signals | `src/main.c` | the server, the options, the stream of the PID file | `main`, `signal_handler` | `Lifecycle`, `Daemon` |
| Daemon, PID file | `src/main.c:174` | a locked file, a port | `daemonize`, the end of `signal_handler` | `Daemon` |
| Configuration parser | `src/parse_config.c`, `src/ini.c` | section, counters, the first error | one handler call per line | `ParseConfig`; what is allocated in `Lifecycle` |
| Web client | `web/door_open_piface.html` | the last value read, the JSONP callback | read, change a bit, write | `WebClient` |
| Init script | `debian/switcher.init` | a PID file | start, stop | not modelled |
| mongoose | git submodule, not in the tree | - | polls and calls the handler | external: one thread, one request at a time |
| Trace output | `src/trace.c` | none | - | not modelled |

**How they interact.**  `main` counts and allocates what the configuration
says, calls `io_init`, and polls the HTTP server.  The server calls
`http_request_handler` on the polling thread; the handler parses the URI and
calls `perform_io`, which calls one or two driver functions; a driver makes one
to four transfers through the transport or through `pfio`.  Errors travel by two
ways at once: return values, and the callbacks `cb_error` and `cb_success` that
write the same reply buffer.  `signal_handler` runs on top of any of this.

Several processes meet at the PID file and the port, and nowhere else: a daemon
takes the lock before `io_init` and gives it back after its server.  A page reads
the outputs with one request and writes them with another; the server does not
know that the two belong together.

**What is hard here.**  No thread of the program competes with another, yet:

- every transfer can fail, a failed one may still have reached the chip, and
  most callers ignore the failure or undo nothing;
- chips keep their registers when the program ends, the program's caches are
  gone; the kernel keeps the slave address from one transfer to the next;
- the world moves the pins between two transfers of a read-modify-write;
- a signal handler that releases everything interrupts the startup, the polling,
  and the handler of the other signal;
- two daemons that start, stop, fail and are killed at any step have to agree on
  one lock, on a file that a third process may remove;
- devices are counted by one kind of line of the configuration and addressed by
  another, and a section is noticed at its first entry only;
- what one browser writes back is what it has read before another one wrote, and
  all requests of a page share one callback.

**What makes it correct.**  A client that is told "ok" got what it asked for; a
request touches its own device only; a sub-device write keeps the other pins;
the direction cache of the MCP23017 is never wrong; requests end; the PiFace
starts with its outputs off; the process can be stopped at any time; one daemon
serves at a time, and its PID file and port are its own; the devices of the
configuration file are those that can be addressed; a click changes its output
and no other.

## 2. Modules

### `PortBank` - the promise
What a client may rely on: a bank of ports, one request at a time; a port
changes only while a write to it is served; "ok" to a write means that the
port holds the value.  It knows of no transfers, drivers or directions.

### `I2cBus` - transport and parts
`SetAddr`, `WriteByteData`, `ReadByteData`, `WriteByte`, `ReadByte` are the
functions of `io_i2c_linux.c`, as relations on `open`, `slave`, `inputs` (IODIR)
and `latch` (OLAT).  A byte is the set of its bits that are 1.  The parts at the
far end are external: they are modelled as far as the drivers use them (an
MCP23017 pin reads its latch when it is an output and the world when it is an
input; a PCF8574 pin is low when either side pulls it low; a PCF8574 has no
registers and latches every byte it is sent).  The last point matters when a
transfer reaches the wrong chip.

### `SwitcherIo` - serving a request
| Action | Code |
|---|---|
| `Serve(r)` | `http_request_handler` and the head of `perform_io`, up to the first driver call |
| `RefuseUri`, `RefuseIndex` | their early returns; an index below -1 passes the checks of `io.c:124` and ends in `pc = "undefined"` |
| `ConfigureIo` | one IODIR write of `mcp23017_configure_io` |
| `Mcp23017Read`, `Mcp23017Write` | one GPIO read, one OLAT write |
| `Pcf8574Read`, `Pcf8574Write` | the single transfer of those drivers |
| `PifaceRead`, `PifaceWrite` | the drivers over `pfio`; a failed transfer goes unreported |
| `Reply` | `mg_printf` of the buffer |
| `LevelChange` | the world puts a level on a part's pins |
| `Restart` | the process ends anywhere and runs `io_init` again |

The step that makes a driver call's last transfer also contains what
`perform_io` does after it (`Return`): nothing can come between them.  The
world, a failure or a restart can come between any two transfers.  `1 << i` past
the width of an `int` is left open by C: `Bit` gives both outcomes that
processors produce.  `disturbed` is a history variable: the pins that were
not at the level of their latch while `perform_io` read them.

### `Pfio` - into the PiFace's initialisation
`SwitcherIo` takes `pfio_init` as one step; `Pfio` has one action for `Open`,
one per register write (`SetupWrite`), and two for each read-modify-write of
the loop (`DigitalRead`, `DigitalWrite`).  Every transfer can fail, and the
program can be ended and started again at each of them.  `faults` is a history
variable: the kinds of transfers that failed since the last start.  One of them
matters most: when the GPIOA write is lost, the IODIRA write turns on what the
latch still holds from an earlier run.

### `Lifecycle` - startup and stopping
`Startup` and `Teardown` are the sequences of allocations, counts, log messages,
releases and closes that `main` and `signal_handler` perform for a given
configuration, in the foreground or as a daemon (`AsDaemon`), whose `stream_pid`
is a block like the others.

| Action | Code |
|---|---|
| `Count` | a bus or device is counted (`update_user_data`, `process_entries`) |
| `EnterLibc`, `LeaveLibc` | `main` is inside some call into libc, and returns from it |
| `Malloc` | `malloc`, `fdopen` or `mg_create_server` returns a block |
| `Store` | the caller has filled the block in (the options of the server, for one) and it is assigned to the pointer that `signal_handler` knows |
| `Arrive` | SIGINT or SIGTERM, wherever the process is |
| `Enter`, `Leave`, `Nullify` | a release: `free`, `fclose` or `mg_destroy_server` is entered, returns, and the pointer is set to NULL; the first two are also a call of `syslog` or `closelog` |
| `Skip` | the pointer is NULL, or the device is not counted |
| `Close`, `ForgetBusses`, `Exit` | `i2c_linux_close`, the first line of `conf_deinit`, `exit` |

`frames` is the stack of handlers: a signal is blocked in its own handler, not
in the other's, and no handler returns to what it interrupted.  `libc` says that
some frame is inside a libc call that cannot be re-entered, `unstored` what is
between `Malloc` and `Store`.  `outcome` is how the process ended: it exited, or
did one of three things that are undefined, after which no step follows.
`found` is a history variable: what was amiss when a handler began.

### `Daemon` - several processes and one PID file
One action per system call that another process can see.

| Action | Code |
|---|---|
| `Start` | `main` up to `daemonize`, or to `io_init` in the foreground |
| `Fork`, `Stat`, `MkDir`, `OpenPid`, `Flock`, `Fdopen`, `WritePid` | `daemonize` from the first `fork` to `fflush` |
| `Listen`, `Serve` | `io_init` and `start_http_server`; the assignment of `http_server` and the polling |
| `Signal` | SIGINT or SIGTERM at any step, on top of the other's handler too |
| `StopServer`, `Unlock`, `Unlink`, `Exit` | `signal_handler` |
| `Kill`, `ClosePid`, `Dies` | SIGKILL: the kernel closes the PID file and the socket in any order |

`file` is what the path of the PID file leads to, `fd` what a process has opened:
the two differ once the file has been unlinked.  `mishaps` is a history variable:
what has gone wrong since a process was first started.  `Faults` are the calls
that may fail, each in the way the code takes its failure: it quits, goes on as
if nothing had happened (`chdir`, `flock`, the write of the PID, `mg_set_option`,
`unlink`), or notices later (`open`).  `stream` is `stream_pid`, with the error
indicator that a failed write leaves in it.  `LockGood` is the honest
precondition of the lock: the code goes on after an `flock` that fails with
something else than `EWOULDBLOCK`, and `unlink(PID_FILE)` removes the locked file
when the process that stops was started in `PID_DIR`.

### `ParseConfig` - the configuration file
`Comment`, `Continuation`, `Section`, `Entry` and `Malformed` are the branches of
`ini_parse_file` for a line, with the call of `parser_handler` inside;
`Open`, `OpenFails` and `Eof` are the rest of `ini_parse`.  Words are abstracted to
what `parser_handler` compares them with.  The file has a meaning of its own,
which `WithSection` and `WithEntry` build up in `want`: each `[bus...]` section is a
bus, each `[device...]` section a device of the bus above it.  `plain` says that the
file has kept to the format that this meaning needs (`SectionFits`, `EntryFits`):
neighbouring sections differ in name, each has an entry, a device has its
`devdrv` once, parameters come after the bus type, and all of it fits into the
arrays.  An entry outside the arrays ends in `pc = "undefined"`.

### `HttpUri` - `parse_uri`
A pure module: a URI as the sequence of its tokens, `ParseUri` with the order of
the checks of `parse_uri`, and the conversions of `strtol` and `strtoul` with
saturation and the cut to `idx_t` and `value_t`.  `TwoTo` is 1 shifted, as a
recursive function: the provers know nothing of `2^n`.

### `WebClient` - the page, the server and the rest of the world
The page's `get_output` and `set_output` are `GetOutput`, `ServeGet`, `Complete`
(whose callback makes the next request) and `ServeSet`, for several calls at the
same time.  The requests are the URIs of the page put through `HttpUri`.  jQuery
is external: a call saves what `window.callback` was, takes its place, and gives
it back when it completes, telling the saved one the answer.  `OtherClient`
writes what other URIs make of the outputs, `Lose` loses a request or an answer,
`Restart` runs `pfio_init`, and a transfer to the PiFace may fail in silence
(`BadOutcomes`).  `alone` is a history variable: nothing of this has come
between since the call was made.

`MCSwitcherIo`, `MCLifecycle` and `MCWebClient` give the constants their values.

### Proof modules
`SwitcherIoReplyProofs` (replies, sub-device writes, refinement) builds on
`SwitcherIoProofs` (types, directions, containment, the cost of a request), and
`WebClientProofs` on `HttpUriProofs` (numbers and their bits).  `PfioProofs`,
`DaemonProofs`, `ParseConfigProofs` and `LifecycleProofs` each extend the module
they are about.

## 3. Runs

| Run | Shows |
|---|---|
| `io_serving` | All three drivers, failing transfers, moving levels, restarts. `DirectionCacheTruthful`: `io_state` never claims a direction the chip does not have. `SuccessMeansDriven`: "ok" to a write means latched and driven. `ReadTellsLatch`: "ok" to a read tells the latch, but for the pins in `disturbed`, with the bytes and the sub-device's bit at their places. `SilentOnlyOnFailedTransfer`: an empty reply only after a failed transfer. `Containment`: only the addressed chip changes, its latch only in a write. `BitWriteKeepsOthers`: a sub-device write keeps the other pins, but for those in `disturbed`. `EveryTransferCounts`: every transfer brings the reply nearer. `ImplementsPortBank`: refinement. `RequestsEnd`: liveness. |
| `io_bytes` | The byte-wide parts with two pins each and a bus that may not open: with only one pin in a byte "the other pins" would be missing. |
| `io_misaddressed` | The `I2C_SLAVE` ioctl may fail: `Containment` then allows the chips of the request's bus, and no more; silence still means a failed transfer. |
| `io_other_device` | Finding: a failed `I2C_SLAVE` is ignored, and another device is written. |
| `io_sub_device` | Finding: "Invalid sub device-index given." is overwritten by a success. |
| `pfio_init` | `OutputsOffAfterInit`: the GPIOA write and the loop make up for each other's failures, except at pin 0. `FlashIsStale`: an output flashes only when a transfer has failed that `pfio_init` depends on; when it is the GPIOA write, only outputs that the latch held from an earlier run; when it is a read, what the loop writes is open. |
| `pfio_loop` | Finding: the loop "initialise all outputs to 0" does not reach pin 0. |
| `lifecycle` | `SafeStop`: there are three windows in which the process must not be stopped, and each does one kind of harm only. `NothingLeft`: after `exit` everything is freed but for a block that `main` had not yet assigned. |
| `daemon` | Two processes, every call but `chdir` failing or not, signals and kills at every step. `AtMostOneDaemon`: the lock excludes. `PidFileNamesDaemon`: the file's first line is the daemon's, unless its own write has failed. `DaemonListens`: a daemon has the port although it does not look, unless `mg_set_option` fails for a reason that has nothing to do with the switcher. `NotAllQuit`: the last daemon on its way does not quit because of another one. `OneDaemonServes`: daemons that start together do not all quit because of one another. |
| `parse_config` | `ParsedAsWritten`: a file that keeps to the format configures exactly the busses and devices of its sections, under their indices, and never leaves the arrays; comments, malformed lines and unknown entries change nothing of this. |
| `parse_errors` | Finding: a file with errors is accepted. |
| `web_client` | `ClickSetsItsPin`: an undisturbed click changes its own output only, although all of them are written. `ShownIsTrue`: what the page then shows is so. `OutputsAsNamed`: other URIs change what they name and no more. `ClickNotDropped`: an undisturbed click is not over before its write was served. `ClickIsServed`: an undisturbed click comes to its write. |

The three windows of `SafeStop` are in the code, and the model does not close
them.  A handler calls `free` and `syslog` on top of whatever libc call it
interrupted: `found` then has "libc", and libc can be re-entered.  A handler that
comes before the bus data or the Spi is assigned uses a NULL: "missing", which is
over once `main` polls.  The second handler may look at a block between the
first one's `free` and the assignment of NULL, or at the Spi, to which NULL is
never assigned: "dangling".  The run shows that nothing else goes wrong, and that
no window leads to the harm of another: a process that was interrupted inside
libc, say, still uses no NULL.  The third is stated for a configuration with one
PiFace (`OnePiface`: `pfio.c` keeps a single `Spi`).  `NothingLeft` has no
condition: the only block that can be left when the process exits is the one in
`unstored`.  `lifecycle` does not check deadlock, since the process ends.

### Bounds
- `ByteBits = 1, ValueBits = 3` where there is an MCP23017 (its value has two
  pins, one per port) and `2, 4` for the byte-wide parts.  No code depends on
  more than "inside port A, inside port B, past the pins, past the value", and
  the values `{}` and all ones, with the indices -1 to `ValueBits`, hit each.
- Two busses with two and one devices: a bus with a neighbour on it, and a
  neighbour bus.  Indices -1 to 2 are below, inside and above both.
- `Levels`: all high, or only pin 0 high; a level change is possible at every
  step, which is enough to disturb any read.
- `NumPins = 3`: the first pin, which the loop misses, the last, and one between.
- Each signal arrives once: its handler does not return (`Lifecycle`).  The
  configuration has every driver, and is a daemon's, which has one block more.
- Failing transfers of the PiFace are in `Pfio` and `WebClient`; in the runs of
  `SwitcherIo` they succeed, as a reply can say nothing of those that do not.
- `Daemon`: two processes, which start without limit, and two files: enough for
  a file that was unlinked while it was locked.  Nothing is bounded, the state
  space is finite.  `chdir` does not fail in the run, which would double its
  states: a daemon that has stayed in `PID_DIR` removes the file like the process
  in the foreground that was started there, which the run has.  The proofs allow
  every call to fail.
- `ParseConfig`: arrays of two busses and two devices, so that both overflow;
  `MaxLines = 10` has room for a bus with a device and all their parameters and
  a second bus with its type and a device, `MaxOddLines = 5` for a file that has
  left the format, about which only types are claimed.
- `WebClient`: one page with two calls (other browsers are `OtherClient`), two
  outputs, and seventeen URIs: sub-devices inside, past the outputs, past the
  width and -1, values past a `value_t` and negative ones, indices out of range, junk behind numbers, a third field, a
  fourth token, another device, another bus.
- `ConfigAssumption`, `WidthAssumption` and the like are evaluated by TLC in
  every run.

### Fairness
In `SwitcherIo` only `WF_vars(Driven \/ Reply)`: while a request is being served
its thread goes on, since every transfer is an ioctl that returns, with or
without success, and the handler waits for nothing else.  Clients, the world and
restarts have no fairness.

In `Daemon`, `WF_vars(Proceeds(p))` for each process: none of the calls between
a start and the polling, or in the handler, waits for another process
(`LOCK_NB`).  Starts, signals and kills have no fairness.  In `WebClient` the
server serves what has come, since its poll loop never blocks for a client, and
the browser completes a call that has its answer or has lost it; nobody has to
click, to lose or to restart.

## 4. Proofs

| Theorem | Module | States |
|---|---|---|
| `TypeCorrect` | `SwitcherIoProofs` | `Spec => []TypeOK` |
| `CacheTruthful` | `SwitcherIoProofs` | `Spec => []DirectionCacheTruthful` |
| `AlwaysContained` | `SwitcherIoProofs` | `Spec => Containment` |
| `RequestsAreBounded` | `SwitcherIoProofs` | `Spec => EveryTransferCounts`, and the count is always in 0 .. 8 |
| `PfioTypeCorrect` | `PfioProofs` | `Spec => []TypeOK` |
| `OutputsOff`, `StaleFlash` | `PfioProofs` | the two action properties of `pfio_init` |
| `DaemonTypeCorrect` | `DaemonProofs` | `Spec => []TypeOK` |
| `OneDaemonAtMost` | `DaemonProofs` | `Spec => []AtMostOneDaemon` |
| `PidFileCorrect` | `DaemonProofs` | `Spec => []PidFileNamesDaemon` |
| `DaemonGetsPort` | `DaemonProofs` | `Spec => []DaemonListens` |
| `LastDaemonStays` | `DaemonProofs` | `Spec => NotAllQuit` |
| `SilentExplained` | `SwitcherIoReplyProofs` | `Spec => []SilentOnlyOnFailedTransfer` |
| `SuccessHonest` | `SwitcherIoReplyProofs` | `Spec => []SuccessMeansDriven` |
| `ReadsToldTruly` | `SwitcherIoReplyProofs` | `Spec => []ReadTellsLatch` |
| `OthersAlwaysKept` | `SwitcherIoReplyProofs` | `Spec => BitWriteKeepsOthers` |
| `SwitcherIsPortBank` | `SwitcherIoReplyProofs` | `AddressedAndReported /\ Spec` implies `ImplementsPortBank` |
| `ParseTypeCorrect` | `ParseConfigProofs` | `Spec => []TypeOK` |
| `ConfigAsWritten` | `ParseConfigProofs` | `Spec => []ParsedAsWritten` |
| `WebTypeCorrect` | `WebClientProofs` | `Spec => []TypeOK` |
| `PageShowsTruth` | `WebClientProofs` | `Spec => []ShownIsTrue` |
| `ClickAlwaysSetsItsPin` | `WebClientProofs` | `Spec => ClickSetsItsPin` |
| `OthersWriteAsNamed` | `WebClientProofs` | `Spec => []OutputsAsNamed` |
| `ClickIsNeverDropped` | `WebClientProofs` | `Spec => ClickNotDropped` |
| `ValueSurvives`, `IndexAsWritten` | `HttpUriProofs` | what `strtoul` and `strtol` make of a value and of an index |
| `LifecycleTypeCorrect` | `LifecycleProofs` | `Spec => []TypeOK` |
| `StopsSafely` | `LifecycleProofs` | `Spec => []SafeStop` |
| `LeavesNothing` | `LifecycleProofs` | `Spec => []NothingLeft` |

They hold for any number of busses, devices, bits, pins and processes, any set of
faults, and any requests, under the named assumptions of the modules only.

- **`TypeInv`** is `TypeOK` and: a driver call under way is for a configured
  device.  Without the second part nothing bounds `Chip[Target]`.
- **`DirectionInv`** is `TypeInv` and three parts.  `SlaveInv`: a bus's handle
  addresses a chip of that bus, or none, and none when it is not open.
  `CallInv`: while an MCP23017 is being turned, its `io_state` is "none"; while
  it is read or written, its `io_state` is the direction of the call.
  `HalfTurnedInv`: between the two IODIR writes port A already has the new
  direction.  `DirectionCacheTruthful` alone is not inductive: the step that
  sets `io_state` writes port B only, and needs `HalfTurnedInv` for port A; and
  a write by another device needs `Exclusive` to be kept off the chip.
- **`RequestsAreBounded`** ranks a request by `TransfersLeft`: what is left of the
  driver call, and the whole of the write that may follow a sub-device's read.
  Turning an MCP23017 is paid for once in each call, so that eight transfers are
  the most.  The lemmas say what the three ways on cost: the next port
  (`NextPortCosts`), perform_io's part after the call (`ReturnCosts`), and the
  transfers between (`DrivenCosts`).  Fairness is all that `RequestsEnd` adds.
- **`PfioInv`** is types and four parts.  `StartInv`: `pfio_init` begins
  with its first write.  `ReadInv`: unless a read has failed, what
  `pfio_digital_write` has read of an output port is what the latch holds.
  `ClearInv`: unless the GPIOA write or a read has failed, the latch is clear from
  that write on, and so is what the loop reads back.
  `LoopInv`: the pins that the loop has passed are clear, unless one of its
  transfers failed.

- **`IInv`** of `DaemonProofs` is types, the two properties that are themselves
  inductive (`PidFileNamesDaemon`, `DaemonListens`) and three parts.  `LockInv`: a
  lock belongs to who has the file open; nobody has it before `open`; while
  `LockGood`, what is open and not yet locked is the file that is linked, and a
  daemon from `fdopen` until its handler's `unlock` has the lock on that file.
  `AtMostOneDaemon` follows, as a file has one holder, but is not inductive: it
  does not say that the locks are on the same file. `ListenerHolds`: who listens
  is a daemon that still has the lock.  `QuitInv`: where the directory or a lock
  is in a daemon's way, it is another daemon's that has not ended; `NotAllQuit`
  follows, since a step that makes one daemon quit leaves that other one under
  way.  `NewFileIsNew` is a pigeonhole argument:
  with as many files as processes there is a new one to be made.

- **`ReplyInv`** is `DirectionInv`, the three reply properties, and three parts.
  `RequestInv`: a driver writes only for a write request, reads for one only when a
  sub-device is to be changed, and no "ok" is in the buffer before the last
  transfer.  `WriteInv`: the value given to a driver's write is what was asked for,
  and an MCP23017's port A holds its half when port B's turn comes.  `KeepInv`:
  what has been read so far is the latch, except at the pins in `disturbed`, and
  so is what is then written back around a sub-device.  `ReadTellsLatch` speaks of
  the reply only and says nothing of port A while port B is still to be read.
  "ok" is decided in the last step of a driver call, and what it
  claims of port A was done two steps earlier: hence `HalfStored`.
- **The refinement** maps `latch` to the ports of `PortBank` and a request for a
  configured device to its request (`Served`, and the `answer` of `INSTANCE
  PortBank`).  Initial states map to initial states (`BankInit`), a driver's step to `Bank!Serve` or a stutter (`BankServe`), and
  the others likewise.  It has the hypothesis `AddressedAndReported`: no
  `I2C_SLAVE` ioctl fails, and no transfer to the PiFace, which goes unreported.
  Without the first it is false: run `io_other_device` writes another port.  All
  other faults - I2C transfers, `open` - are allowed.
- **`ConfigInv`** of `ParseConfigProofs` is types and three parts.  `PlaceInv`:
  the next entry goes to the last bus and device of the file's meaning, and a
  section is noticed at its first entry.  `ShapeInv`: a section's bus or device
  is there, and all of it has room.  `MatchInv`: `busses` is `want`, but for the
  device that is not counted until its `devdrv` has come (`Uncounted`).
  `ParsedAsWritten` speaks of the end of the file only and says nothing of where
  the counters stand on the way.
- **`WebInv`** of `WebClientProofs` is types, `ShownIsTrue` and two parts.
  `CallbackInv`: what `window.callback` is and was before a call belongs to calls
  of the same page that are under way.  `AloneInv`: a call that nothing came
  between is the only one of its page, the callback is its own, and what it has
  read is what the outputs still are (`Trusted`); its answer is not lost, nor was
  its read refused, which is what `ClickNotDropped` needs.
- **`OutputsAsNamed`** is about all widths at once, and rests on `HttpUriProofs`.
  `TwoToUnfolds` shows that the recursive definition of `TwoTo` has a solution:
  the functions that satisfy it up to `k` exist and agree, by induction in the form
  of `FromZero` (a set that has 0 and the successor of each of its numbers has
  them all).  From it follow the bits of a number and back (`ValueSurvives`), what
  the cut to an `idx_t` leaves of a number that fits (`StrtolExact`), and that
  saturation gives no index of a PiFace (`StrtolSaturates`).  The attempt found two things.  The property as
  it was first stated was false for a write to a sub-device whose value is past a
  `value_t`: `parse_value` cuts 8 of a three bit value to 0, and the output is
  switched off; the run had no such URI.  And where a `long` is wider than an
  `idx_t`, a bus number that wraps does name another bus, so that the property
  now says so (`IndicesFit`) instead of being limited to the widths of the run.
- **`LifeInv`** of `LifecycleProofs` is types, `SafeStop`, `NothingLeft` and seven
  parts: who is inside libc, unless a call was interrupted (`LibcInv`); a pointer
  is NULL or good but for the moment after its `free`, unless a second handler
  came in that moment (`PtrInv`); what main has counted, allocated and assigned so
  far (`MainInv`); the busses are forgotten before their data is discarded and,
  unless something was missing when a handler began, nothing is (`BusInv`); the
  Spi that is still to be freed is there (`SpiInv`); what is live and assigned is
  still to be freed (`LeftInv`); pointers are missing during startup only, and
  dangle in the second handler only (`FoundInv`).  Each is conditional on its own
  window only, so that the three harms are proved apart from each other.
  `LeftInv` is what makes `NothingLeft` inductive across a second handler, which
  starts from the first step again.  What `Startup` and `Teardown` do, and in
  which order, is proved of their definitions for every configuration:
  `StartupShape`, `TeardownShape`, `EachIsFreed`.  They rest on lemmas about
  `FlattenSeq` (`FlattenUnfolds`, `Flattened`, `FlattenOrdered`), and those on
  induction in the form of `UpTo`: a set that has 1 and the successor of each of
  its numbers has them all, which follows from `<` being well-founded.  (The
  library's induction theorems take an operator, which the provers cannot
  instantiate; a set of counterexamples does as well.)

**Assumptions on the constants** are the named ones of the modules, and they are
facts of the configuration or of the machine.  Three are less plain.
`NoChipAssumption` (`SwitcherIo`): the value that stands for "no chip" is not a
request of `PortBank` either.  `WebClientAssumption`: bus 2, the PiFace's, is a
number of an `idx_t`; and `NoAnswer` and `Lost` are not values of the outputs.
That a `value_t` survives the number the page puts into its URI and `strtoul` is
not assumed but proved (`ValueSurvives`).

**Only model-checked**: no safety property of a passing run.
**Out of the prover's reach**: `RequestsEnd`, `OneDaemonServes` and
`ClickIsServed` (liveness, `ENABLED`).  What of each is safety is proved:
`EveryTransferCounts`, `NotAllQuit` and `ClickNotDropped` say that no step leads
away from the goal; that the steps are taken is left to TLC and the fairness of
section 3.

## 5. Findings

1. `io_i2c_linux.c:90`: the result of `i2c_linux_set_addr` is ignored; the
   transfer is made to the chip addressed before.
2. `io.c:193`: the error of an invalid sub-device index is overwritten by
   `cb_success`.
3. `pfio.c:115`: "initialise all outputs to 0" loops over pins 1 to 8 of 0 to 7.
4. `parse_config.c:134`: `ini_parse` returns the line of the first error as a
   positive number, and only negative ones are refused.

## 6. Not modelled

- The text of requests and replies, and JSON: no property is about them.  A
  device token of dots only, for which `parse_dev` reads no number.
- A device lookup in front of the array (an index below -1): what it reads is
  not determined by the program; the model stops at `pc = "undefined"`, as does
  `ParseConfig` for an entry outside the arrays.
- A chip that loses its registers while the program runs: nothing could notice.
- `pfio_digital_read`, `pfio_read_input`, `pfio_get_pin_number`: nothing in the
  program calls them for inputs.
- A device whose driver name is unknown: `parse_config.c:77` leaves its
  `drv_handle` NULL and counts it, and `perform_io` then calls through it.
  `ConfigAssumption` and `LifecycleAssumption` have the three known drivers only.
- A write of a sub-device past the bits of a value: C leaves the shift open, and
  only `TypeOK` is claimed of it.
- `malloc` that fails, in `mcp23017_init` or elsewhere; trace output; mongoose's own state.
- The init script: `start-stop-daemon` starts the program in the foreground and
  ends it; `Daemon` lets anybody do so from any directory and at any step.
- What is printed into the PID file behind its first line: `daemonize` closes
  descriptor 1, so that the file becomes the standard output.
- A `long` that is wider than an `idx_t` in a run: TLC has them alike, as on a 32
  bit Pi; the theorem about `OutputsAsNamed` has both.

## 7. Plan

Every safety property of the passing runs has its theorem.  What is left: a proof
that `SwitcherIo`'s one step for `pfio_init` is what `Pfio` does in many; a
refinement of `WebClient`'s server by `SwitcherIo`, which today meet in
`perform_io`'s code only; and the address of an I2C part (`io_i2c_linux.c:149`,
`strtol` with base 16), should a property be about it.
