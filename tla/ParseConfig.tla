------------------------------ MODULE ParseConfig ------------------------------
(***************************************************************************)
(* parse_config: ini_parse reads the configuration file line by line and   *)
(* calls parser_handler for each entry, which fills io_config.  The file   *)
(* is whatever the lines turn out to be.  A line is what ini_parse_file    *)
(* makes of it; the text of names and values is abstracted to the words    *)
(* that parser_handler compares it with.                                   *)
(*                                                                         *)
(* The file has a meaning that does not depend on how it is parsed: each   *)
(* [bus...] section is a bus, each [device...] section a device of the bus *)
(* above it.  `want' follows that meaning while the file is `plain'.       *)
(***************************************************************************)
EXTENDS Integers, Sequences, SequencesExt

CONSTANTS
  MaxBusses,   \* MAX_BUSSES
  MaxDevices,  \* MAX_IO_DEVICES
  Labels,      \* what can follow "bus" or "device" in the name of a section
  Params,      \* the values of bus_parameter and dev_parameter
  MaxLines,    \* bound: the lines of a plain file
  MaxOddLines  \* bound: the lines of any other file

ASSUME ParseConfigAssumption ==
  /\ MaxBusses \in Nat \ {0} /\ MaxDevices \in Nat \ {0}
  /\ MaxLines \in Nat /\ MaxOddLines \in Nat

VARIABLES
  pc,              \* "opening", "reading", "returned" or "undefined"
  lineno,          \* the lines that have been read
  section,         \* the section that was opened last
  prev_name,       \* the name of the entry that an indented line continues
  error,           \* what ini_parse returns
  last_section,    \* bus_configs: the section of the entry before
  current_bus_id,  \* bus_configs
  current_dev_id,  \* bus_configs
  busses,          \* io_config.busses
  want,            \* history: the busses that the file has described so far
  seen,            \* history: the entries that the current section has had
  plain            \* history: the file keeps to the format

iniVars     == <<section, prev_name, error>>
handlerVars == <<last_section, current_bus_id, current_dev_id, busses>>
history     == <<want, seen, plain>>
vars        == <<pc, lineno, iniVars, handlerVars, history>>

-----------------------------------------------------------------------------
(* The words of a configuration file. *)

\* The first section has no name.  A section's name is compared by how it begins.
Unnamed  == [kind |-> "unnamed", label |-> "none"]
Sections == [kind : {"bus", "device", "other"}, label : Labels]

Drivers == {"pcf8574", "piface", "mcp23017"}
Known   == {"bus_type", "bus_parameter", "devdrv", "dev_parameter"}
Names   == Known \cup {"unknown"}
Values  == {"i2c", "other"} \cup Drivers \cup Params

\* The values that make a difference for an entry.
ValuesOf(name) ==
  CASE name = "bus_type" -> {"i2c", "other"}
    [] name = "devdrv" -> Drivers \cup {"other"}
    [] name \in {"bus_parameter", "dev_parameter"} -> Params
    [] name = "unknown" -> {"other"}

-----------------------------------------------------------------------------
(* io_config *)

BusIds == 0 .. MaxBusses - 1
DevIds == 0 .. MaxDevices - 1

\* What conf_init leaves.
NoDevice == [drv |-> "NULL", data |-> "NULL"]
NoBus    == [drv |-> "NULL", data |-> "NULL", num_devices |-> 0,
             devices |-> [d \in DevIds |-> NoDevice]]

\* update_user_data writes it each time it is called.
num_busses == current_bus_id + 1

-----------------------------------------------------------------------------
(* parser_handler *)

\* update_user_data notices a section when its first entry comes, and a section
\* of the same name as the one before not at all.
NewSection == last_section # section

BusId == IF NewSection /\ section.kind = "bus" THEN current_bus_id + 1 ELSE current_bus_id

\* (mutant: devices are counted on from bus to bus)
DevIdKept ==
  IF NewSection /\ section.kind = "device" THEN current_dev_id + 1 ELSE current_dev_id

DevId ==
  CASE NewSection /\ section.kind = "bus"    -> -1
    [] NewSection /\ section.kind = "device" -> current_dev_id + 1
    [] OTHER                                 -> current_dev_id

\* The driver's get_bus_data and get_bus_dev_data exist for I2C only: without it a
\* parameter is dropped.
HasI2c == busses[BusId].drv = "i2c"

\* What process_entries does to current_bus.
ProcessEntries(name, value) ==
  LET bus == busses[BusId] IN
  CASE name = "bus_parameter" -> IF HasI2c THEN [bus EXCEPT !.data = value] ELSE bus
    [] name = "bus_type" -> IF value = "i2c" THEN [bus EXCEPT !.drv = "i2c"] ELSE bus
    [] name = "devdrv" /\ value \in Drivers ->
         [bus EXCEPT !.num_devices = @ + 1, !.devices[DevId].drv = value]
    [] name = "devdrv" /\ value \notin Drivers -> [bus EXCEPT !.num_devices = @ + 1]
    [] name = "dev_parameter" ->
         IF HasI2c THEN [bus EXCEPT !.devices[DevId].data = value] ELSE bus

\* process_entries uses a bus or a device that is not there.
OutOfBounds(name, value) ==
  /\ name \in Known
  /\ \/ BusId \notin BusIds
     \/ /\ DevId \notin DevIds
        /\ \/ name = "devdrv" /\ value \in Drivers
           \/ name = "dev_parameter" /\ HasI2c

ParserHandler(name, value) ==
  /\ last_section' = section
  /\ current_bus_id' = BusId
  /\ current_dev_id' = DevId
  /\ IF OutOfBounds(name, value)
     THEN pc' = "undefined" /\ UNCHANGED busses
     ELSE /\ UNCHANGED pc
          /\ busses' = IF name \in Known
                       THEN [busses EXCEPT ![BusId] = ProcessEntries(name, value)]
                       ELSE busses

-----------------------------------------------------------------------------
(* The meaning of the file, and the format that it has to keep for it. *)

\* Each section has an entry, and one of a device has its driver.
SectionDone ==
  CASE section.kind = "unnamed" -> TRUE
    [] section.kind = "device"  -> "devdrv" \in seen
    [] OTHER                    -> seen # {}

\* The names of neighbouring sections differ, and there is room for one more.
SectionFits(s) ==
  /\ SectionDone
  /\ s # section
  /\ s.kind = "bus" => Len(want) < MaxBusses
  /\ s.kind = "device" => want # <<>> /\ Len(Last(want).devices) < MaxDevices

\* An entry comes once in a section of its kind, the parameters of an I2C bus only
\* after its type.
EntryFits(name) ==
  \/ name = "unknown"
  \/ /\ name \notin seen
     /\ \/ name = "bus_type" /\ section.kind = "bus"
        \/ name = "bus_parameter" /\ section.kind = "bus" /\ Last(want).drv = "i2c"
        \/ name = "devdrv" /\ section.kind = "device"
        \/ name = "dev_parameter" /\ section.kind = "device" /\ Last(want).drv = "i2c"

WithSection(s) ==
  CASE s.kind = "bus" ->
         Append(want, [drv |-> "NULL", data |-> "NULL", devices |-> <<>>])
    [] s.kind = "device" ->
         [want EXCEPT ![Len(want)].devices = Append(@, NoDevice)]
    [] OTHER -> want

WithEntry(name, value) ==
  LET b == Len(want)
      d == Len(want[b].devices)
  IN CASE name = "bus_type" /\ value = "i2c" -> [want EXCEPT ![b].drv = value]
       [] name = "bus_parameter" -> [want EXCEPT ![b].data = value]
       [] name = "devdrv" /\ value \in Drivers -> [want EXCEPT ![b].devices[d].drv = value]
       [] name = "dev_parameter" -> [want EXCEPT ![b].devices[d].data = value]
       [] OTHER -> want

\* Nothing is expected of a file that does not keep to the format.
Means(fits, meaning, entries) ==
  /\ plain' = (plain /\ fits)
  /\ want' = IF plain' THEN meaning ELSE <<>>
  /\ seen' = IF plain' THEN entries ELSE {}

-----------------------------------------------------------------------------
(* ini_parse and ini_parse_file: one action for each form of a line. *)

Open ==
  /\ pc = "opening"
  /\ pc' = "reading"
  /\ UNCHANGED <<lineno, iniVars, handlerVars, history>>

\* fopen fails: the only error that parse_config reports.
OpenFails ==
  /\ pc = "opening"
  /\ pc' = "returned"
  /\ error' = -1
  /\ UNCHANGED <<lineno, section, prev_name, handlerVars, history>>

ReadLine ==
  /\ pc = "reading"
  /\ lineno < IF plain THEN MaxLines ELSE MaxOddLines
  /\ lineno' = lineno + 1

\* (mutant: lines are counted one too far)
ErrorAfter(wrong) == error' = IF wrong /\ error = 0 THEN lineno' + 1 ELSE error

\* The first error is kept, and the file is read to its end.
Error(wrong) == error' = IF wrong /\ error = 0 THEN lineno' ELSE error

\* An empty line or a comment, indented or not.
Comment ==
  /\ ReadLine
  /\ UNCHANGED <<pc, iniVars, handlerVars, history>>

\* An indented line after an entry continues it, whatever it looks like.
Continuation(value) ==
  /\ ReadLine
  /\ prev_name # "none"
  /\ ParserHandler(prev_name, value)
  /\ Error(prev_name \notin Known)
  /\ Means(FALSE, want, seen)
  /\ UNCHANGED <<section, prev_name>>

\* [section]
Section(s) ==
  /\ ReadLine
  /\ section' = s
  /\ prev_name' = "none"
  /\ Means(SectionFits(s), WithSection(s), {})
  /\ UNCHANGED <<pc, error, handlerVars>>

\* name = value, or name : value
Entry(name, value) ==
  /\ ReadLine
  /\ prev_name' = name
  /\ ParserHandler(name, value)
  /\ Error(name \notin Known)
  /\ Means(EntryFits(name), WithEntry(name, value), seen \cup {name})
  /\ UNCHANGED section

\* A section without its "]", or an entry without "=" and ":".
Malformed ==
  /\ ReadLine
  /\ Error(TRUE)
  /\ UNCHANGED <<pc, section, prev_name, handlerVars, history>>

Eof ==
  /\ pc = "reading"
  /\ pc' = "returned"
  /\ Means(SectionDone, want, seen)
  /\ UNCHANGED <<lineno, iniVars, handlerVars>>

-----------------------------------------------------------------------------
(* The specification. *)

Init ==
  /\ pc = "opening" /\ lineno = 0
  /\ section = Unnamed /\ prev_name = "none" /\ error = 0
  /\ last_section = Unnamed /\ current_bus_id = -1 /\ current_dev_id = -1
  /\ busses = [b \in BusIds |-> NoBus]
  /\ want = <<>> /\ seen = {} /\ plain = TRUE

Next ==
  \/ Open
  \/ OpenFails
  \/ Comment
  \/ \E value \in Values : Continuation(value)
  \/ \E s \in Sections : Section(s)
  \/ \E name \in Names : \E value \in ValuesOf(name) : Entry(name, value)
  \/ Malformed
  \/ Eof

Spec == Init /\ [][Next]_vars

-----------------------------------------------------------------------------
(* Properties. *)

TypeOK ==
  /\ pc \in {"opening", "reading", "returned", "undefined"}
  /\ lineno \in Nat
  /\ section \in Sections \cup {Unnamed}
  /\ prev_name \in Names \cup {"none"}
  /\ error \in -1 .. lineno
  /\ last_section \in Sections \cup {Unnamed}
  /\ current_bus_id \in -1 .. lineno
  /\ current_dev_id \in -1 .. lineno
  /\ busses \in [BusIds -> [drv : {"NULL", "i2c"},
                            data : {"NULL"} \cup Values,
                            num_devices : Nat,
                            devices : [DevIds -> [drv : {"NULL"} \cup Drivers,
                                                  data : {"NULL"} \cup Values]]]]
  /\ plain \in BOOLEAN
  /\ seen \subseteq Names
  /\ Len(want) <= MaxBusses

\* parse_config returns 0.
Succeeds == pc = "returned" /\ error >= 0

\* What perform_io can address.
Addressable ==
  [b \in 1 .. num_busses |->
     LET bus == busses[b - 1] IN
     [drv |-> bus.drv, data |-> bus.data,
      devices |-> [d \in 1 .. bus.num_devices |-> bus.devices[d - 1]]]]

\* A file that keeps to the format, malformed lines and unknown entries left
\* aside, configures the busses and devices that its sections describe: each
\* under the index of its section, with its own driver and parameters, and
\* nothing else.  parse_config never leaves the arrays for it.
ParsedAsWritten ==
  plain =>
    /\ pc # "undefined"
    /\ Succeeds =>
         /\ Addressable = want
         /\ \A b \in BusIds :
              /\ b >= num_busses => busses[b] = NoBus
              /\ \A d \in DevIds :
                   d >= busses[b].num_devices => busses[b].devices[d] = NoDevice

\* "Error parsing the configuration file": main gives up when there is a line in
\* it that ini_parse could not parse or parser_handler does not know.
ErrorsRefused == Succeeds => error = 0
===============================================================================
