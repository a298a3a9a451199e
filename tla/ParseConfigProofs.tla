--------------------------- MODULE ParseConfigProofs ---------------------------
(***************************************************************************)
(* Proofs about ParseConfig, for every capacity of the arrays, every file  *)
(* length and every set of labels and parameters: what parse_config makes  *)
(* of a file that keeps to the format is what the file says.               *)
(***************************************************************************)
EXTENDS ParseConfig, TLAPS

-----------------------------------------------------------------------------
(* The inductive invariant. *)

\* A device, a bus of io_config, and a bus of the file's meaning.
Device  == [drv : {"NULL"} \cup Drivers, data : {"NULL"} \cup Values]
Bus     == [drv : {"NULL", "i2c"}, data : {"NULL"} \cup Values,
            num_devices : Nat, devices : [DevIds -> Device]]
WantBus == [drv : {"NULL", "i2c"}, data : {"NULL"} \cup Values, devices : Seq(Device)]

TypeInv ==
  /\ TypeOK
  /\ want \in Seq(WantBus)

\* parser_handler will file the next entry where it belongs: under the last bus,
\* and its last device.  It has noticed a section as soon as that has an entry.
PlaceInv ==
  plain =>
    /\ BusId = Len(want) - 1
    /\ DevId = IF want = <<>> THEN -1 ELSE Len(Last(want).devices) - 1
    /\ section = Unnamed \/ seen # {} => last_section = section
    /\ section # Unnamed /\ seen = {} => last_section # section

\* The busses and devices described so far have room, and a section stands for the
\* last one.
ShapeInv ==
  plain =>
    /\ pc # "undefined"
    /\ section.kind \in {"bus", "device"} => want # <<>>
    /\ section.kind = "bus" => Last(want).devices = <<>>
    /\ section.kind = "device" => Last(want).devices # <<>>
    /\ Len(want) <= MaxBusses
    /\ \A b \in 1 .. Len(want) : Len(want[b].devices) <= MaxDevices
    /\ Succeeds => SectionDone

\* A device counts from its driver's entry on.
Uncounted(b) ==
  IF b = Len(want) - 1 /\ section.kind = "device" /\ "devdrv" \notin seen THEN 1 ELSE 0

\* What io_config holds is what the file has said of it, with n devices still to be
\* counted.
Matches(bus, w, n) ==
  /\ bus.drv = w.drv
  /\ bus.data = w.data
  /\ bus.num_devices = Len(w.devices) - n
  /\ \A d \in DevIds :
       bus.devices[d] = IF d < Len(w.devices) THEN w.devices[d + 1] ELSE NoDevice

MatchInv ==
  plain =>
    \A b \in BusIds :
      IF b < Len(want) THEN Matches(busses[b], want[b + 1], Uncounted(b))
                       ELSE busses[b] = NoBus

ConfigInv ==
  /\ TypeInv
  /\ PlaceInv
  /\ ShapeInv
  /\ MatchInv

-----------------------------------------------------------------------------
(* Sequences. *)

\* An element of a sequence replaced.
LEMMA Replaced ==
  ASSUME NEW S, NEW s \in Seq(S), NEW i \in 1 .. Len(s), NEW e \in S
  PROVE  /\ [s EXCEPT ![i] = e] \in Seq(S)
         /\ Len([s EXCEPT ![i] = e]) = Len(s)
         /\ \A j \in 1 .. Len(s) : [s EXCEPT ![i] = e][j] = IF j = i THEN e ELSE s[j]
OBVIOUS

\* An element appended to a sequence.
LEMMA Appended ==
  ASSUME NEW S, NEW s \in Seq(S), NEW e \in S
  PROVE  /\ Append(s, e) \in Seq(S)
         /\ Len(Append(s, e)) = Len(s) + 1
         /\ \A j \in 1 .. Len(s) : Append(s, e)[j] = s[j]
         /\ Append(s, e)[Len(s) + 1] = e
OBVIOUS

\* The last element of a sequence that has one.
LEMMA LastOf ==
  ASSUME NEW S, NEW s \in Seq(S), s # <<>>
  PROVE  Len(s) \in 1 .. Len(s) /\ Last(s) = s[Len(s)] /\ Last(s) \in S
<1>1. Len(s) \in Nat /\ Len(s) # 0
  OBVIOUS
<1>2. QED
  BY <1>1 DEF Last

-----------------------------------------------------------------------------
(* The meaning of a file. *)

NewBus == [drv |-> "NULL", data |-> "NULL", devices |-> <<>>]

WithDevice(w) == [w EXCEPT !.devices = Append(@, NoDevice)]

\* What an entry says of the last bus and its last device.
Described(w, name, value) ==
  LET d == Len(w.devices) IN
  CASE name = "bus_type" /\ value = "i2c" -> [w EXCEPT !.drv = value]
    [] name = "bus_parameter" -> [w EXCEPT !.data = value]
    [] name = "devdrv" /\ value \in Drivers -> [w EXCEPT !.devices[d].drv = value]
    [] name = "dev_parameter" -> [w EXCEPT !.devices[d].data = value]
    [] OTHER -> w

\* A device and a bus are described by their kinds of values.
LEMMA Elements ==
  /\ NoDevice \in Device
  /\ NewBus \in WantBus
  /\ \A w \in WantBus : WithDevice(w) \in WantBus
                        /\ Len(WithDevice(w).devices) = Len(w.devices) + 1
<1>1. NoDevice \in Device
  BY DEF NoDevice, Device
<1>2. NewBus \in WantBus
  BY DEF NewBus, WantBus
<1>3. ASSUME NEW w \in WantBus
      PROVE  WithDevice(w) \in WantBus /\ Len(WithDevice(w).devices) = Len(w.devices) + 1
  <2>1. w.devices \in Seq(Device)
    BY DEF WantBus
  <2>2. /\ Append(w.devices, NoDevice) \in Seq(Device)
        /\ Len(Append(w.devices, NoDevice)) = Len(w.devices) + 1
    BY <1>1, <2>1, Appended
  <2>3. QED
    BY <2>2 DEF WithDevice, WantBus
<1>4. QED
  BY <1>1, <1>2, <1>3

\* The values of an entry.
LEMMA ValuesFit ==
  ASSUME NEW name \in Names, NEW value \in ValuesOf(name)
  PROVE  /\ value \in Values
         /\ name = "bus_parameter" \/ name = "dev_parameter" => value \in Params
BY DEF Names, Known, ValuesOf, Values

\* A bus stays one when more is said of it.
LEMMA DescribedType ==
  ASSUME NEW w \in WantBus, NEW name, NEW value \in Values,
         name \in {"devdrv", "dev_parameter"} => w.devices # <<>>
  PROVE  /\ Described(w, name, value) \in WantBus
         /\ Len(Described(w, name, value).devices) = Len(w.devices)
<1> DEFINE d == Len(w.devices)
<1>1. w.devices \in Seq(Device)
  BY DEF WantBus
<1>2. CASE name = "bus_type" \/ name = "bus_parameter"
  BY <1>2 DEF Described, WantBus
<1>3. ASSUME name \in {"devdrv", "dev_parameter"}, NEW e \in Device
      PROVE  /\ [w EXCEPT !.devices[d] = e] \in WantBus
             /\ Len([w EXCEPT !.devices[d] = e].devices) = Len(w.devices)
  <2>1. d \in 1 .. Len(w.devices)
    BY <1>1, <1>3, LastOf
  <2>2. [w.devices EXCEPT ![d] = e] \in Seq(Device)
        /\ Len([w.devices EXCEPT ![d] = e]) = Len(w.devices)
    BY <1>1, <1>3, <2>1, Replaced
  <2>3. QED
    BY <2>2 DEF WantBus
<1>4. ASSUME name \in {"devdrv", "dev_parameter"}
      PROVE  w.devices[d] \in Device
  BY <1>1, <1>4, LastOf
<1>5. CASE name = "devdrv" /\ value \in Drivers
  <2>1. [w.devices[d] EXCEPT !.drv = value] \in Device
    BY <1>4, <1>5 DEF Device
  <2>2. QED
    BY <1>3, <1>5, <2>1 DEF Described
<1>6. CASE name = "dev_parameter"
  <2>1. [w.devices[d] EXCEPT !.data = value] \in Device
    BY <1>4, <1>6 DEF Device
  <2>2. QED
    BY <1>3, <1>6, <2>1 DEF Described
<1>7. CASE name \notin {"bus_type", "bus_parameter", "dev_parameter"}
           /\ ~(name = "devdrv" /\ value \in Drivers)
  BY <1>7 DEF Described
<1>8. QED
  BY <1>2, <1>5, <1>6, <1>7

\* An entry changes what is said of the last bus, and nothing else.
LEMMA EntryMeans ==
  ASSUME TypeInv, NEW name, NEW value, want # <<>>
  PROVE  WithEntry(name, value)
           = [want EXCEPT ![Len(want)] = Described(want[Len(want)], name, value)]
<1>1. want = [want EXCEPT ![Len(want)] = want[Len(want)]]
  BY DEF TypeInv
<1>2. QED
  BY <1>1 DEF WithEntry, Described

-----------------------------------------------------------------------------
(* parser_handler *)

\* process_entries keeps the types as long as it stays inside the arrays.
LEMMA ProcessedType ==
  ASSUME TypeOK, NEW name \in Known, NEW value \in Values, ~OutOfBounds(name, value)
  PROVE  BusId \in BusIds /\ ProcessEntries(name, value) \in Bus
<1> DEFINE bus == busses[BusId]
<1>1. BusId \in BusIds /\ bus \in Bus
  BY DEF OutOfBounds, TypeOK, Bus, Device
<1>2. CASE name \in {"bus_type", "bus_parameter"}
  BY <1>1, <1>2 DEF ProcessEntries, Bus
<1>3. CASE name = "devdrv"
  <2>1. bus.num_devices + 1 \in Nat /\ bus.devices \in [DevIds -> Device]
    BY <1>1 DEF Bus
  <2>2. CASE value \in Drivers
    <3>1. DevId \in DevIds
      BY <1>3, <2>2 DEF OutOfBounds
    <3>2. [bus.devices EXCEPT ![DevId].drv = value] \in [DevIds -> Device]
      BY <2>1, <2>2, <3>1 DEF Device
    <3>3. ProcessEntries(name, value)
            = [bus EXCEPT !.num_devices = bus.num_devices + 1,
                          !.devices = [bus.devices EXCEPT ![DevId].drv = value]]
      BY <1>1, <1>3, <2>2 DEF ProcessEntries, Bus
    <3>4. QED
      BY <1>1, <2>1, <3>2, <3>3 DEF Bus
  <2>3. CASE value \notin Drivers
    BY <1>1, <1>3, <2>1, <2>3 DEF ProcessEntries, Bus
  <2>4. QED
    BY <2>2, <2>3
<1>4. CASE name = "dev_parameter"
  <2>1. CASE HasI2c
    <3>1. DevId \in DevIds
      BY <1>4, <2>1 DEF OutOfBounds
    <3>2. [bus.devices EXCEPT ![DevId].data = value] \in [DevIds -> Device]
      BY <1>1, <3>1 DEF Bus, Device
    <3>3. ProcessEntries(name, value)
            = [bus EXCEPT !.devices = [bus.devices EXCEPT ![DevId].data = value]]
      BY <1>1, <1>4, <2>1 DEF ProcessEntries, Bus
    <3>4. QED
      BY <1>1, <3>2, <3>3 DEF Bus
  <2>2. CASE ~HasI2c
    BY <1>1, <1>4, <2>2 DEF ProcessEntries
  <2>3. QED
    BY <2>1, <2>2
<1>5. QED
  BY <1>1, <1>2, <1>3, <1>4 DEF Known

\* parser_handler keeps the types.
LEMMA HandlerType ==
  ASSUME TypeOK, lineno' = lineno + 1, NEW name \in Names, NEW value \in Values,
         ParserHandler(name, value)
  PROVE  /\ pc' \in {pc, "undefined"}
         /\ last_section' = section
         /\ current_bus_id' \in -1 .. lineno' /\ current_dev_id' \in -1 .. lineno'
         /\ busses' \in [BusIds -> Bus]
<1>1. busses \in [BusIds -> Bus]
  BY DEF TypeOK, Bus, Device
<1>2. BusId \in -1 .. lineno' /\ DevId \in -1 .. lineno'
  BY DEF TypeOK, BusId, DevId
<1>3. busses' \in [BusIds -> Bus]
  <2>1. CASE OutOfBounds(name, value) \/ name \notin Known
    BY <1>1, <2>1 DEF ParserHandler
  <2>2. CASE ~OutOfBounds(name, value) /\ name \in Known
    BY <1>1, <2>2, ProcessedType DEF ParserHandler
  <2>3. QED
    BY <2>1, <2>2
<1>4. QED
  BY <1>2, <1>3 DEF ParserHandler

\* In a file that keeps to the format an entry finds its bus, and its device.
LEMMA EntryInside ==
  ASSUME ConfigInv, plain, NEW name \in Known, EntryFits(name)
  PROVE  /\ want # <<>> /\ Len(want) \in 1 .. MaxBusses
         /\ BusId = Len(want) - 1 /\ BusId \in BusIds
         /\ want[Len(want)] \in WantBus /\ Last(want) = want[Len(want)]
         /\ Matches(busses[BusId], want[Len(want)], Uncounted(BusId))
         /\ DevId = Len(want[Len(want)].devices) - 1
         /\ name \in {"devdrv", "dev_parameter"} =>
              /\ want[Len(want)].devices # <<>>
              /\ DevId \in DevIds
<1>1. TypeInv /\ PlaceInv /\ ShapeInv /\ MatchInv /\ want \in Seq(WantBus)
  BY DEF ConfigInv, TypeInv
<1>2. want # <<>> /\ Len(want) <= MaxBusses
  BY <1>1 DEF EntryFits, ShapeInv, Known
<1>3. /\ Len(want) \in 1 .. Len(want)
      /\ Last(want) = want[Len(want)] /\ want[Len(want)] \in WantBus
  BY <1>1, <1>2, LastOf
<1>4. BusId = Len(want) - 1 /\ DevId = Len(want[Len(want)].devices) - 1
  BY <1>1, <1>2, <1>3 DEF PlaceInv
<1>5. Len(want) \in 1 .. MaxBusses /\ BusId \in BusIds
  BY <1>2, <1>3, <1>4, ParseConfigAssumption DEF BusIds
<1>6. Matches(busses[BusId], want[Len(want)], Uncounted(BusId))
  BY <1>1, <1>3, <1>4, <1>5 DEF MatchInv
<1>7. ASSUME name \in {"devdrv", "dev_parameter"}
      PROVE  want[Len(want)].devices # <<>> /\ DevId \in DevIds
  <2>1. want[Len(want)].devices # <<>>
    BY <1>1, <1>3, <1>7 DEF EntryFits, ShapeInv
  <2>2. want[Len(want)].devices \in Seq(Device)
    BY <1>3 DEF WantBus
  <2>3. Len(want[Len(want)].devices) \in 1 .. MaxDevices
    BY <1>1, <1>3, <2>1, <2>2, LastOf, ParseConfigAssumption DEF ShapeInv
  <2>4. QED
    BY <1>4, <2>1, <2>3, ParseConfigAssumption DEF DevIds
<1>8. QED
  BY <1>2, <1>3, <1>4, <1>5, <1>6, <1>7

\* The last device of a bus replaced, in io_config and in what the file means.
LEMMA LastDevice ==
  ASSUME NEW bus \in Bus, NEW w \in WantBus, NEW n \in Nat, Matches(bus, w, n),
         w.devices # <<>>, Len(w.devices) - 1 \in DevIds, NEW e \in Device
  PROVE  Matches([bus EXCEPT !.devices = [bus.devices EXCEPT ![Len(w.devices) - 1] = e]],
                 [w EXCEPT !.devices = [w.devices EXCEPT ![Len(w.devices)] = e]], n)
<1> DEFINE ds == bus.devices
<1> DEFINE ws == w.devices
<1> DEFINE l == Len(ws)
<1> DEFINE dt == [ds EXCEPT ![l - 1] = e]
<1> DEFINE wt == [ws EXCEPT ![l] = e]
<1>1. ws \in Seq(Device) /\ l \in 1 .. l /\ l \in Nat /\ ds \in [DevIds -> Device]
  BY LastOf DEF WantBus, Bus
<1>2. Len(wt) = l /\ \A j \in 1 .. l : wt[j] = IF j = l THEN e ELSE ws[j]
  BY <1>1, Replaced
<1>3. \A d \in DevIds : ds[d] = IF d < l THEN ws[d + 1] ELSE NoDevice
  BY DEF Matches
<1>4. ASSUME NEW d \in DevIds
      PROVE  dt[d] = IF d < l THEN wt[d + 1] ELSE NoDevice
  <2>1. d \in Nat
    BY DEF DevIds
  <2>2. CASE d = l - 1
    <3>1. d < l /\ d + 1 = l
      BY <1>1, <2>1, <2>2
    <3>2. dt[d] = e
      BY <1>1, <2>2
    <3>3. wt[d + 1] = e
      BY <1>1, <1>2, <3>1
    <3>4. QED
      BY <3>1, <3>2, <3>3
  <2>3. CASE d # l - 1
    <3>1. dt[d] = ds[d]
      BY <1>1, <2>3
    <3>2. ASSUME d < l
          PROVE  wt[d + 1] = ws[d + 1]
      <4>1. d + 1 \in 1 .. l /\ d + 1 # l
        BY <1>1, <2>1, <2>3, <3>2
      <4>2. QED
        BY <1>2, <4>1
    <3>3. ds[d] = IF d < l THEN ws[d + 1] ELSE NoDevice
      BY <1>3
    <3>4. QED
      BY <3>1, <3>2, <3>3
  <2>4. QED
    BY <2>2, <2>3
<1>5. bus.drv = w.drv /\ bus.data = w.data /\ bus.num_devices = l - n
  BY DEF Matches
<1> HIDE DEF ds, ws, l, dt, wt
<1>6. /\ [bus EXCEPT !.devices = dt].drv = w.drv
      /\ [bus EXCEPT !.devices = dt].data = w.data
      /\ [bus EXCEPT !.devices = dt].num_devices = l - n
      /\ [bus EXCEPT !.devices = dt].devices = dt
      /\ [w EXCEPT !.devices = wt].drv = w.drv
      /\ [w EXCEPT !.devices = wt].data = w.data
      /\ [w EXCEPT !.devices = wt].devices = wt
  BY <1>5 DEF Bus, WantBus
<1>7. Matches([bus EXCEPT !.devices = dt], [w EXCEPT !.devices = wt], n)
  BY <1>2, <1>4, <1>6 DEF Matches
<1>8. QED
  BY <1>7 DEF ds, ws, l, dt, wt

\* The last device of a bus counted.
LEMMA DeviceCounted ==
  ASSUME NEW bus \in Bus, NEW w \in WantBus, Matches(bus, w, 1)
  PROVE  Matches([bus EXCEPT !.num_devices = bus.num_devices + 1], w, 0)
<1>1. Len(w.devices) \in Nat
  BY DEF WantBus
<1>2. bus.num_devices + 1 = Len(w.devices) - 0
  BY <1>1 DEF Matches
<1>3. QED
  BY <1>2 DEF Matches, Bus

\* What process_entries makes of it is what it says.
LEMMA EntryDone ==
  ASSUME ConfigInv, plain, NEW name \in Known, NEW value \in ValuesOf(name),
         EntryFits(name)
  PROVE  /\ ~OutOfBounds(name, value)
         /\ Matches(ProcessEntries(name, value),
                    Described(want[Len(want)], name, value),
                    IF section.kind = "device" /\ "devdrv" \notin seen \cup {name}
                    THEN 1 ELSE 0)
<1> DEFINE bus == busses[BusId]
<1> DEFINE w == want[Len(want)]
<1> DEFINE l == Len(w.devices)
<1> DEFINE n == IF section.kind = "device" /\ "devdrv" \notin seen THEN 1 ELSE 0
<1> DEFINE m == IF section.kind = "device" /\ "devdrv" \notin seen \cup {name} THEN 1 ELSE 0
<1>1. /\ want # <<>> /\ BusId = Len(want) - 1 /\ BusId \in BusIds
      /\ w \in WantBus /\ Last(want) = w /\ DevId = l - 1
      /\ Matches(bus, w, n)
      /\ name \in {"devdrv", "dev_parameter"} => w.devices # <<>> /\ DevId \in DevIds
  BY EntryInside DEF Uncounted
<1>2. /\ bus \in Bus /\ bus.devices \in [DevIds -> Device] /\ bus.num_devices \in Nat
      /\ w.devices \in Seq(Device) /\ l \in Nat
  BY <1>1 DEF ConfigInv, TypeInv, TypeOK, Bus, Device, WantBus
<1>3. /\ bus.drv = w.drv /\ bus.data = w.data /\ bus.num_devices = l - n
      /\ \A d \in DevIds : bus.devices[d] = IF d < l THEN w.devices[d + 1] ELSE NoDevice
  BY <1>1 DEF Matches
<1>4. ~OutOfBounds(name, value)
  BY <1>1 DEF OutOfBounds
<1>5. CASE name = "bus_type"
  <2>1. m = n
    BY <1>5
  <2>2. value \in {"i2c", "other"}
    BY <1>5 DEF ValuesOf
  <2>3. Matches(ProcessEntries(name, value), Described(w, name, value), n)
    BY <1>1, <1>2, <1>3, <1>5, <2>2 DEF ProcessEntries, Described, Matches, Bus, WantBus
  <2>4. QED
    BY <1>4, <2>1, <2>3
<1>6. CASE name = "bus_parameter"
  <2>1. HasI2c /\ m = n
    BY <1>1, <1>3, <1>6 DEF EntryFits, HasI2c
  <2>2. ProcessEntries(name, value) = [bus EXCEPT !.data = value]
        /\ Described(w, name, value) = [w EXCEPT !.data = value]
    BY <1>6, <2>1 DEF ProcessEntries, Described
  <2>3. Matches([bus EXCEPT !.data = value], [w EXCEPT !.data = value], n)
    BY <1>1, <1>2, <1>3 DEF Matches, Bus, WantBus
  <2>4. QED
    BY <1>4, <2>1, <2>2, <2>3
<1>7. ASSUME name \in {"devdrv", "dev_parameter"}
      PROVE  /\ l - 1 \in DevIds /\ bus.devices[DevId] = w.devices[l]
             /\ w.devices[l] \in Device
  <2>1. l \in 1 .. l /\ w.devices[l] \in Device
    BY <1>1, <1>2, <1>7, LastOf
  <2>2. QED
    BY <1>1, <1>3, <1>7, <2>1
<1>8. CASE name = "devdrv"
  <2>1. n = 1 /\ m = 0 /\ Matches(bus, w, 1)
    BY <1>1, <1>8 DEF EntryFits
  <2>2. CASE value \in Drivers
    <3> DEFINE e == [w.devices[l] EXCEPT !.drv = value]
    <3> DEFINE b2 == [bus EXCEPT !.devices = [bus.devices EXCEPT ![l - 1] = e]]
    <3> DEFINE w2 == [w EXCEPT !.devices = [w.devices EXCEPT ![l] = e]]
    <3>1. e \in Device
      BY <1>7, <1>8, <2>2 DEF Device
    <3>2. Matches(b2, w2, 1)
      BY <1>1, <1>2, <1>7, <1>8, <2>1, <3>1, LastDevice
    <3>3. b2 \in Bus /\ w2 \in WantBus
      <4>1. [bus.devices EXCEPT ![l - 1] = e] \in [DevIds -> Device]
        BY <1>2, <3>1
      <4>2. l \in 1 .. l
        BY <1>1, <1>2, <1>8, LastOf
      <4>3. [w.devices EXCEPT ![l] = e] \in Seq(Device)
        BY <1>2, <3>1, <4>2, Replaced
      <4>4. QED
        BY <1>1, <1>2, <4>1, <4>3 DEF Bus, WantBus
    <3>4. Matches([b2 EXCEPT !.num_devices = b2.num_devices + 1], w2, 0)
      BY <3>2, <3>3, DeviceCounted
    <3>5. ProcessEntries(name, value) = [b2 EXCEPT !.num_devices = b2.num_devices + 1]
      BY <1>1, <1>2, <1>7, <1>8, <2>2 DEF ProcessEntries, Bus
    <3>6. Described(w, name, value) = w2
      BY <1>1, <1>8, <2>2 DEF Described, WantBus
    <3>7. QED
      BY <1>4, <2>1, <3>4, <3>5, <3>6
  <2>3. CASE value \notin Drivers
    <3>1. ProcessEntries(name, value) = [bus EXCEPT !.num_devices = bus.num_devices + 1]
          /\ Described(w, name, value) = w
      BY <1>8, <2>3 DEF ProcessEntries, Described
    <3>2. QED
      BY <1>1, <1>2, <1>4, <2>1, <3>1, DeviceCounted
  <2>4. QED
    BY <2>2, <2>3
<1>9. CASE name = "dev_parameter"
  <2> DEFINE e == [w.devices[l] EXCEPT !.data = value]
  <2>1. HasI2c /\ m = n /\ n \in Nat
    BY <1>1, <1>3, <1>9 DEF EntryFits, HasI2c
  <2>2. value \in Values /\ e \in Device
    BY <1>7, <1>9, ValuesFit DEF Names, Device
  <2>3. ProcessEntries(name, value)
          = [bus EXCEPT !.devices = [bus.devices EXCEPT ![l - 1] = e]]
    BY <1>1, <1>2, <1>7, <1>9, <2>1 DEF ProcessEntries, Bus
  <2>4. Described(w, name, value) = [w EXCEPT !.devices = [w.devices EXCEPT ![l] = e]]
    BY <1>1, <1>9 DEF Described, WantBus
  <2>5. Matches([bus EXCEPT !.devices = [bus.devices EXCEPT ![l - 1] = e]],
                [w EXCEPT !.devices = [w.devices EXCEPT ![l] = e]], n)
    BY <1>1, <1>2, <1>7, <1>9, <2>1, <2>2, LastDevice
  <2>6. QED
    BY <1>4, <2>1, <2>3, <2>4, <2>5
<1>10. QED
  BY <1>5, <1>6, <1>8, <1>9 DEF Known

-----------------------------------------------------------------------------
(* Sections and entries, in a file that keeps to the format. *)

\* A section that is done has been noticed by parser_handler, and its devices count.
LEMMA DoneNoticed ==
  ASSUME ConfigInv, plain, SectionDone
  PROVE  /\ ~NewSection
         /\ current_bus_id = Len(want) - 1
         /\ current_dev_id = IF want = <<>> THEN -1 ELSE Len(Last(want).devices) - 1
         /\ \A b \in BusIds : Uncounted(b) = 0
<1>1. section = Unnamed \/ seen # {}
  BY DEF ConfigInv, TypeInv, TypeOK, SectionDone, Sections
<1>2. last_section = section
  BY <1>1 DEF ConfigInv, PlaceInv
<1>3. BusId = current_bus_id /\ DevId = current_dev_id
  BY <1>2 DEF BusId, DevId, NewSection
<1>4. \A b \in BusIds : Uncounted(b) = 0
  BY DEF SectionDone, Uncounted
<1>5. QED
  BY <1>2, <1>3, <1>4 DEF NewSection, ConfigInv, PlaceInv

\* What a section adds to the meaning of the file.
LEMMA SectionMeans ==
  ASSUME ConfigInv, plain, NEW s \in Sections, SectionFits(s)
  PROVE  /\ WithSection(s) \in Seq(WantBus)
         /\ Len(WithSection(s)) <= MaxBusses
         /\ s.kind = "bus" => WithSection(s) = Append(want, NewBus)
         /\ s.kind = "device" =>
              /\ want # <<>>
              /\ WithSection(s) = [want EXCEPT ![Len(want)] = WithDevice(want[Len(want)])]
         /\ s.kind = "other" => WithSection(s) = want
<1>1. want \in Seq(WantBus) /\ Len(want) <= MaxBusses
  BY DEF ConfigInv, TypeInv, TypeOK
<1>2. CASE s.kind = "bus"
  <2>1. WithSection(s) = Append(want, NewBus)
    BY <1>2 DEF WithSection, NewBus
  <2>2. Len(want) < MaxBusses
    BY <1>2 DEF SectionFits
  <2>3. QED
    BY <1>1, <1>2, <2>1, <2>2, Appended, Elements, ParseConfigAssumption
<1>3. CASE s.kind = "device"
  <2>1. want # <<>>
    BY <1>3 DEF SectionFits
  <2>2. Len(want) \in 1 .. Len(want) /\ want[Len(want)] \in WantBus
    BY <1>1, <2>1, LastOf
  <2>3. WithSection(s) = [want EXCEPT ![Len(want)] = WithDevice(want[Len(want)])]
    BY <1>1, <1>3 DEF WithSection, WithDevice
  <2>4. QED
    BY <1>1, <1>3, <2>1, <2>2, <2>3, Replaced, Elements
<1>4. CASE s.kind = "other"
  BY <1>1, <1>4 DEF WithSection
<1>5. QED
  BY <1>2, <1>3, <1>4 DEF Sections

\* What an entry adds to it.
LEMMA EntryGrows ==
  ASSUME ConfigInv, plain, NEW name \in Names, NEW value \in ValuesOf(name),
         EntryFits(name)
  PROVE  /\ WithEntry(name, value) \in Seq(WantBus)
         /\ Len(WithEntry(name, value)) = Len(want)
         /\ \A b \in 1 .. Len(want) :
              /\ WithEntry(name, value)[b]
                   = IF b = Len(want) /\ name \in Known
                     THEN Described(want[b], name, value) ELSE want[b]
              /\ Len(WithEntry(name, value)[b].devices) = Len(want[b].devices)
<1>1. want \in Seq(WantBus)
  BY DEF ConfigInv, TypeInv
<1>2. CASE name \notin Known
  <2>1. WithEntry(name, value) = want
    BY <1>2 DEF WithEntry, Known
  <2>2. QED
    BY <1>1, <1>2, <2>1
<1>3. CASE name \in Known
  <2> DEFINE w == Described(want[Len(want)], name, value)
  <2>1. /\ want # <<>> /\ want[Len(want)] \in WantBus
        /\ name \in {"devdrv", "dev_parameter"} => want[Len(want)].devices # <<>>
    BY <1>3, EntryInside
  <2>2. value \in Values
    BY ValuesFit
  <2>3. w \in WantBus /\ Len(w.devices) = Len(want[Len(want)].devices)
    BY <2>1, <2>2, DescribedType
  <2>4. WithEntry(name, value) = [want EXCEPT ![Len(want)] = w]
    BY <2>1, EntryMeans DEF ConfigInv
  <2>5. Len(want) \in 1 .. Len(want)
    BY <1>1, <2>1, LastOf
  <2> HIDE DEF w
  <2>6. /\ [want EXCEPT ![Len(want)] = w] \in Seq(WantBus)
        /\ Len([want EXCEPT ![Len(want)] = w]) = Len(want)
        /\ \A b \in 1 .. Len(want) :
             [want EXCEPT ![Len(want)] = w][b] = IF b = Len(want) THEN w ELSE want[b]
    BY <1>1, <2>3, <2>5, Replaced
  <2>7. QED
    BY <1>3, <2>3, <2>4, <2>6 DEF w
<1>4. QED
  BY <1>2, <1>3

\* An entry's own section has been noticed, whatever the file is.
LEMMA HandlerNotices ==
  ASSUME NEW name, NEW value, ParserHandler(name, value), section' = section
  PROVE  BusId' = BusId /\ DevId' = DevId /\ last_section' = section'
<1>1. ~NewSection'
  BY DEF ParserHandler, NewSection
<1>2. QED
  BY <1>1 DEF ParserHandler, BusId, DevId

\* Nothing is said of a file that does not keep to the format.
LEMMA OddFile ==
  ASSUME TypeOK', want' = <<>>, plain' = FALSE
  PROVE  ConfigInv'
<1>1. <<>> \in Seq(WantBus)
  OBVIOUS
<1>2. QED
  BY <1>1 DEF ConfigInv, TypeInv, PlaceInv, ShapeInv, MatchInv

-----------------------------------------------------------------------------
(* The invariant, action by action. *)

\* An empty configuration is what the file has said before its first line.
LEMMA InitConfig == Init => ConfigInv
<1> SUFFICES ASSUME Init PROVE ConfigInv
  OBVIOUS
<1>1. 0 \in Nat /\ -1 \in -1 .. 0 /\ 0 \in -1 .. 0
  OBVIOUS
<1>2. NoBus \in Bus
  BY Elements, <1>1 DEF NoBus, Bus
<1>3. busses \in [BusIds -> Bus]
  BY <1>2 DEF Init
<1>4. Len(want) = 0 /\ want \in Seq(WantBus)
  BY DEF Init
<1>5. TypeInv
  BY <1>1, <1>3, <1>4, ParseConfigAssumption DEF Init, TypeInv, TypeOK, Bus, Device, Unnamed
<1>6. ~NewSection /\ section.kind = "unnamed"
  BY DEF Init, NewSection, Unnamed
<1>7. PlaceInv
  BY <1>4, <1>6 DEF Init, PlaceInv, BusId, DevId
<1>8. ShapeInv
  BY <1>4, <1>6, ParseConfigAssumption DEF Init, ShapeInv, Succeeds
<1>9. MatchInv
  BY <1>4 DEF Init, MatchInv, BusIds
<1>10. QED
  BY <1>5, <1>7, <1>8, <1>9 DEF ConfigInv

\* A line that changes neither the file's meaning nor the configuration: opening
\* the file, an error, a comment and the end of the file.
LEMMA QuietConfig ==
  ASSUME ConfigInv, UNCHANGED <<section, handlerVars, history>>,
         prev_name' = prev_name, pc' \in {"reading", "returned"},
         lineno' \in Nat, lineno' >= lineno, error' \in -1 .. lineno',
         plain => (pc' = "returned" /\ error' >= 0 => SectionDone)
  PROVE  ConfigInv'
<1>1. TypeInv'
  BY DEF ConfigInv, TypeInv, TypeOK, handlerVars, history
<1>2. PlaceInv'
  BY DEF ConfigInv, PlaceInv, handlerVars, history, BusId, DevId, NewSection
<1>3. ShapeInv'
  BY DEF ConfigInv, ShapeInv, handlerVars, history, Succeeds, SectionDone
<1>4. MatchInv'
  BY DEF ConfigInv, MatchInv, handlerVars, history, Matches, Uncounted
<1>5. QED
  BY <1>1, <1>2, <1>3, <1>4 DEF ConfigInv

\* A line that is read has a number, and an error one that has been read.
LEMMA LineRead ==
  ASSUME TypeOK, ReadLine
  PROVE  /\ lineno' \in Nat /\ lineno' >= lineno /\ lineno' = lineno + 1
         /\ error \in -1 .. lineno' /\ lineno' \in -1 .. lineno'
         /\ current_bus_id \in -1 .. lineno' /\ current_dev_id \in -1 .. lineno'
BY DEF TypeOK, ReadLine

\* Section: it is the last thing the file describes, and not noticed yet.
LEMMA SectionConfig ==
  ASSUME ConfigInv, NEW s \in Sections, Section(s)
  PROVE  ConfigInv'
<1> DEFINE l == Len(want)
<1>1. TypeOK /\ want \in Seq(WantBus) /\ ReadLine
  BY DEF ConfigInv, TypeInv, Section
<1>2. /\ section' = s /\ prev_name' = "none" /\ pc' = pc /\ pc = "reading"
      /\ error' = error /\ last_section' = last_section
      /\ current_bus_id' = current_bus_id /\ current_dev_id' = current_dev_id
      /\ busses' = busses
      /\ plain' = (plain /\ SectionFits(s))
      /\ want' = IF plain' THEN WithSection(s) ELSE <<>>
      /\ seen' = {}
  BY DEF Section, ReadLine, handlerVars, Means
<1>3. TypeOK'
  <2>1. Len(want') <= MaxBusses
    <3>1. CASE plain'
      BY <1>2, <3>1, SectionMeans
    <3>2. CASE ~plain'
      BY <1>2, <3>2, ParseConfigAssumption
    <3>3. QED
      BY <3>1, <3>2
  <2>2. QED
    BY <1>1, <1>2, <2>1, LineRead DEF TypeOK, Bus, Device
<1>4. CASE ~plain'
  BY <1>2, <1>3, <1>4, OddFile
<1>5. CASE plain'
  <2>1. plain /\ SectionFits(s) /\ SectionDone /\ s # section /\ want' = WithSection(s)
    BY <1>2, <1>5 DEF SectionFits
  <2>2. /\ want' \in Seq(WantBus) /\ Len(want') <= MaxBusses
        /\ s.kind = "bus" => want' = Append(want, NewBus)
        /\ s.kind = "device" => want # <<>> /\ want' = [want EXCEPT ![l] = WithDevice(want[l])]
        /\ s.kind = "other" => want' = want
        /\ s.kind \in {"bus", "device", "other"} /\ s # Unnamed
    BY <2>1, SectionMeans DEF Sections, Unnamed
  <2>3. /\ last_section = section /\ current_bus_id = l - 1
        /\ current_dev_id = IF want = <<>> THEN -1 ELSE Len(Last(want).devices) - 1
        /\ \A b \in BusIds : Uncounted(b) = 0
    BY <2>1, DoneNoticed DEF NewSection
  <2>4. \A b \in 1 .. l : Len(want[b].devices) <= MaxDevices /\ want[b] \in WantBus
    BY <1>1, <2>1 DEF ConfigInv, ShapeInv
  <2>5. \A b \in BusIds : IF b < l THEN Matches(busses[b], want[b + 1], 0)
                                   ELSE busses[b] = NoBus
    BY <2>1, <2>3 DEF ConfigInv, MatchInv
  <2>6. l \in Nat /\ NewSection' /\ ~Succeeds'
    BY <1>1, <1>2, <2>1, <2>3 DEF NewSection, Succeeds
  <2>7. BusId' = IF s.kind = "bus" THEN l - 1 + 1 ELSE l - 1
    BY <1>2, <2>3, <2>6 DEF BusId
  <2>8. DevId' = IF s.kind = "bus" THEN -1
                  ELSE IF s.kind = "device" THEN current_dev_id + 1 ELSE current_dev_id
    BY <1>2, <2>6 DEF DevId
  <2>9. last_section' # section' /\ section' # Unnamed /\ seen' = {}
    BY <1>2, <2>1, <2>2, <2>3
  <2>10. PlaceInv' /\ ShapeInv' /\ MatchInv'
    <3>1. CASE s.kind = "bus"
      <4>1. /\ Len(want') = l + 1 /\ want' # <<>>
            /\ \A j \in 1 .. l : want'[j] = want[j]
            /\ want'[l + 1] = NewBus /\ Last(want') = NewBus
        BY <1>1, <2>2, <3>1, Appended, Elements, LastOf
      <4>2. PlaceInv'
        <5>1. BusId' = Len(want') - 1 /\ DevId' = -1 /\ Len(NewBus.devices) = 0
          BY <2>6, <2>7, <2>8, <3>1, <4>1 DEF NewBus
        <5>2. QED
          BY <2>9, <4>1, <5>1 DEF PlaceInv
      <4>3. ShapeInv'
        <5>1. \A b \in 1 .. Len(want') : Len(want'[b].devices) <= MaxDevices
          BY <2>4, <2>6, <4>1, ParseConfigAssumption DEF NewBus
        <5>2. QED
          BY <1>2, <2>2, <2>6, <3>1, <4>1, <5>1 DEF ShapeInv, NewBus
      <4>4. ASSUME NEW b \in BusIds
            PROVE  IF b < l + 1 THEN Matches(busses[b], want'[b + 1], 0)
                                ELSE busses[b] = NoBus
        <5>1. b \in Nat
          BY DEF BusIds
        <5>2. CASE b < l
          BY <2>5, <2>6, <4>1, <5>1, <5>2
        <5>3. CASE b = l
          <6>1. busses[b] = NoBus /\ want'[b + 1] = NewBus
            BY <2>5, <2>6, <4>1, <5>3
          <6>2. Matches(NoBus, NewBus, 0)
            BY DEF Matches, NoBus, NewBus, DevIds
          <6>3. QED
            BY <2>6, <5>3, <6>1, <6>2
        <5>4. CASE b > l
          BY <2>5, <2>6, <5>1, <5>4
        <5>5. QED
          BY <2>6, <5>1, <5>2, <5>3, <5>4
      <4>5. MatchInv'
        BY <1>2, <3>1, <4>1, <4>4 DEF MatchInv, Uncounted, Matches
      <4>6. QED
        BY <4>2, <4>3, <4>5
    <3>2. CASE s.kind = "device"
      <4> DEFINE w == WithDevice(want[l])
      <4>1. l \in 1 .. l /\ want[l] \in WantBus /\ Last(want) = want[l]
        BY <1>1, <2>2, <3>2, LastOf
      <4>2. w \in WantBus /\ Len(w.devices) = Len(want[l].devices) + 1
        BY <4>1, Elements
      <4>3. /\ Len(want') = l /\ want' # <<>>
            /\ \A j \in 1 .. l : want'[j] = IF j = l THEN w ELSE want[j]
            /\ Last(want') = w
        <5> HIDE DEF w
        <5>1. /\ Len(want') = l
              /\ \A j \in 1 .. l : want'[j] = IF j = l THEN w ELSE want[j]
          BY <1>1, <2>2, <3>2, <4>1, <4>2, Replaced DEF w
        <5>2. want' # <<>>
          BY <4>1, <5>1
        <5>3. QED
          BY <2>2, <4>1, <5>1, <5>2, LastOf
      <4>4. want[l].devices \in Seq(Device) /\ Len(want[l].devices) \in Nat
        BY <4>1 DEF WantBus
      <4>5. PlaceInv'
        <5>1. current_dev_id = Len(want[l].devices) - 1
          BY <2>2, <2>3, <3>2, <4>1
        <5>2. BusId' = Len(want') - 1 /\ DevId' = Len(w.devices) - 1
          BY <2>7, <2>8, <3>2, <4>2, <4>3, <4>4, <5>1
        <5> HIDE DEF w
        <5>3. QED
          BY <2>9, <4>3, <5>2 DEF PlaceInv
      <4>6. ShapeInv'
        <5>1. Len(want[l].devices) < MaxDevices
          BY <2>1, <3>2, <4>1 DEF SectionFits
        <5>2. Len(w.devices) <= MaxDevices
          BY <4>2, <4>4, <5>1, ParseConfigAssumption
        <5>3. \A b \in 1 .. Len(want') : Len(want'[b].devices) <= MaxDevices
          BY <2>4, <4>3, <5>2
        <5>4. w.devices # <<>>
          BY <4>2, <4>4
        <5>5. QED
          BY <1>2, <2>2, <2>6, <3>2, <4>3, <5>3, <5>4 DEF ShapeInv
      <4>7. Matches(busses[l - 1], w, 1)
        <5> DEFINE ws == want[l].devices
        <5>1. l - 1 \in BusIds /\ l - 1 < l /\ (l - 1) + 1 = l
          BY <2>2, <4>1, <4>3, ParseConfigAssumption DEF BusIds
        <5>2. Matches(busses[l - 1], want[l], 0)
          BY <2>5, <5>1
        <5>3. /\ w.devices = Append(ws, NoDevice)
              /\ w.drv = want[l].drv /\ w.data = want[l].data
          BY <4>1 DEF WithDevice, WantBus
        <5>4. /\ \A d \in 1 .. Len(ws) : Append(ws, NoDevice)[d] = ws[d]
              /\ Append(ws, NoDevice)[Len(ws) + 1] = NoDevice
              /\ Len(Append(ws, NoDevice)) = Len(ws) + 1
          BY <4>4, Elements, Appended
        <5>5. ASSUME NEW d \in DevIds
              PROVE  busses[l - 1].devices[d]
                       = IF d < Len(ws) + 1 THEN Append(ws, NoDevice)[d + 1] ELSE NoDevice
          <6>1. busses[l - 1].devices[d] = IF d < Len(ws) THEN ws[d + 1] ELSE NoDevice
            BY <5>2 DEF Matches
          <6>2. d \in Nat /\ Len(ws) \in Nat
            BY <4>4 DEF DevIds
          <6>3. CASE d < Len(ws)
            <7>1. d + 1 \in 1 .. Len(ws)
              BY <6>2, <6>3
            <7>2. QED
              BY <5>4, <6>1, <6>2, <6>3, <7>1
          <6>4. CASE d = Len(ws)
            BY <5>4, <6>1, <6>2, <6>4
          <6>5. CASE d > Len(ws)
            BY <6>1, <6>2, <6>5
          <6>6. QED
            BY <6>2, <6>3, <6>4, <6>5
        <5>6. /\ busses[l - 1].num_devices = Len(ws) + 1 - 1
              /\ busses[l - 1].drv = want[l].drv /\ busses[l - 1].data = want[l].data
          BY <4>4, <5>2 DEF Matches
        <5>7. /\ busses[l - 1].drv = w.drv /\ busses[l - 1].data = w.data
              /\ busses[l - 1].num_devices = Len(w.devices) - 1
              /\ \A d \in DevIds :
                   busses[l - 1].devices[d]
                     = IF d < Len(w.devices) THEN w.devices[d + 1] ELSE NoDevice
          <6>1. Len(w.devices) = Len(ws) + 1
            BY <5>3, <5>4
          <6>2. ASSUME NEW d \in DevIds
                PROVE  busses[l - 1].devices[d]
                         = IF d < Len(w.devices) THEN w.devices[d + 1] ELSE NoDevice
            <7>1. busses[l - 1].devices[d]
                    = IF d < Len(ws) + 1 THEN Append(ws, NoDevice)[d + 1] ELSE NoDevice
              BY <5>5
            <7> HIDE DEF w, ws
            <7>2. QED
              BY <5>3, <6>1, <7>1
          <6>3. busses[l - 1].num_devices = Len(w.devices) - 1
            BY <5>6, <6>1
          <6>4. busses[l - 1].drv = w.drv /\ busses[l - 1].data = w.data
            BY <5>3, <5>6
          <6> HIDE DEF w, ws
          <6>5. QED
            BY <6>2, <6>3, <6>4
        <5> HIDE DEF w, ws
        <5>8. QED
          BY <5>7 DEF Matches
      <4>8. ASSUME NEW b \in BusIds
            PROVE  IF b < l
                   THEN Matches(busses[b], want'[b + 1], IF b = l - 1 THEN 1 ELSE 0)
                   ELSE busses[b] = NoBus
        <5> HIDE DEF w
        <5>1. b \in Nat
          BY DEF BusIds
        <5>2. CASE b = l - 1
          BY <2>6, <4>1, <4>3, <4>7, <5>1, <5>2
        <5>3. CASE b # l - 1 /\ b < l
          <6>1. b + 1 \in 1 .. l /\ b + 1 # l
            BY <2>6, <5>1, <5>3
          <6>2. want'[b + 1] = want[b + 1]
            BY <4>3, <6>1
          <6>3. QED
            BY <2>5, <5>3, <6>2
        <5>4. CASE ~(b < l)
          BY <2>5, <5>4
        <5>5. QED
          BY <5>2, <5>3, <5>4
      <4>9. \A b \in BusIds : Uncounted(b)' = IF b = l - 1 THEN 1 ELSE 0
        BY <1>2, <3>2, <4>3 DEF Uncounted
      <4>10. MatchInv'
        BY <1>2, <4>3, <4>8, <4>9 DEF MatchInv, Matches
      <4>11. QED
        BY <4>5, <4>6, <4>10
    <3>3. CASE s.kind = "other"
      <4>1. want' = want
        BY <2>2, <3>3
      <4>2. PlaceInv'
        BY <2>3, <2>7, <2>8, <2>9, <3>3, <4>1 DEF PlaceInv
      <4>3. ShapeInv'
        BY <1>2, <2>2, <2>4, <2>6, <3>3, <4>1 DEF ShapeInv
      <4>4. MatchInv'
        BY <1>2, <2>5, <3>3, <4>1 DEF MatchInv, Uncounted, Matches
      <4>5. QED
        BY <4>2, <4>3, <4>4
    <3>4. QED
      BY <2>2, <3>1, <3>2, <3>3
  <2>11. QED
    BY <1>3, <2>2, <2>10 DEF ConfigInv, TypeInv
<1>6. QED
  BY <1>4, <1>5

\* Entry: it says more of the last bus, and process_entries files it there.
LEMMA EntryConfig ==
  ASSUME ConfigInv, NEW name \in Names, NEW value \in ValuesOf(name),
         Entry(name, value)
  PROVE  ConfigInv'
<1> DEFINE l == Len(want)
<1>1. TypeOK /\ want \in Seq(WantBus) /\ ReadLine /\ value \in Values
  BY ValuesFit DEF ConfigInv, TypeInv, Entry
<1>2. /\ ParserHandler(name, value) /\ section' = section /\ prev_name' = name
      /\ pc = "reading" /\ error' \in {error, lineno'}
      /\ plain' = (plain /\ EntryFits(name))
      /\ want' = IF plain' THEN WithEntry(name, value) ELSE <<>>
      /\ seen' = IF plain' THEN seen \cup {name} ELSE {}
  BY DEF Entry, ReadLine, Means, Error
<1>3. TypeOK'
  <2>1. Len(want') <= MaxBusses
    <3>1. CASE plain'
      BY <1>1, <1>2, <3>1, EntryGrows DEF TypeOK
    <3>2. CASE ~plain'
      BY <1>2, <3>2, ParseConfigAssumption
    <3>3. QED
      BY <3>1, <3>2
  <2>2. /\ pc' \in {pc, "undefined"} /\ last_section' = section
        /\ current_bus_id' \in -1 .. lineno' /\ current_dev_id' \in -1 .. lineno'
        /\ busses' \in [BusIds -> Bus]
    BY <1>1, <1>2, LineRead, HandlerType
  <2>3. seen' \subseteq Names
    BY <1>1, <1>2 DEF TypeOK
  <2>4. error' \in -1 .. lineno' /\ lineno' \in Nat
    BY <1>1, <1>2, LineRead
  <2>5. QED
    BY <1>1, <1>2, <2>1, <2>2, <2>3, <2>4 DEF TypeOK, Bus, Device
<1>4. CASE ~plain'
  BY <1>2, <1>3, <1>4, OddFile
<1>5. CASE plain'
  <2>1. plain /\ EntryFits(name) /\ want' = WithEntry(name, value) /\ seen' = seen \cup {name}
    BY <1>2, <1>5
  <2>2. /\ want' \in Seq(WantBus) /\ Len(want') = l
        /\ \A b \in 1 .. l :
             /\ want'[b] = IF b = l /\ name \in Known
                           THEN Described(want[b], name, value) ELSE want[b]
             /\ Len(want'[b].devices) = Len(want[b].devices)
    BY <2>1, EntryGrows
  <2>3. l \in Nat /\ l <= MaxBusses
    BY <1>1 DEF TypeOK
  <2>4. ASSUME want # <<>>
        PROVE  /\ want' # <<>> /\ l \in 1 .. l
               /\ Last(want) = want[l] /\ Last(want') = want'[l]
               /\ Len(Last(want').devices) = Len(Last(want).devices)
               /\ Last(want).devices \in Seq(Device) /\ Last(want').devices \in Seq(Device)
    <3>1. l \in 1 .. l /\ Last(want) = want[l] /\ want[l] \in WantBus
      BY <1>1, <2>4, LastOf
    <3>2. want' # <<>>
      BY <2>2, <3>1
    <3>3. Last(want') = want'[l] /\ want'[l] \in WantBus
      BY <2>2, <3>2, LastOf
    <3>4. QED
      BY <2>2, <3>1, <3>2, <3>3 DEF WantBus
  <2>5. PlaceInv'
    <3>1. BusId' = BusId /\ DevId' = DevId /\ last_section' = section'
      BY <1>2, HandlerNotices
    <3>2. BusId = l - 1 /\ DevId = IF want = <<>> THEN -1 ELSE Len(Last(want).devices) - 1
      BY <2>1 DEF ConfigInv, PlaceInv
    <3>3. want = <<>> => want' = <<>>
      BY <2>2
    <3>4. seen' # {}
      BY <2>1
    <3>5. QED
      BY <2>2, <2>4, <3>1, <3>2, <3>3, <3>4 DEF PlaceInv
  <2>6. pc' = pc /\ (name \in Known => busses' = [busses EXCEPT ![BusId] = ProcessEntries(name, value)])
        /\ (name \notin Known => busses' = busses)
    <3>1. ~OutOfBounds(name, value)
      BY <2>1, EntryDone DEF OutOfBounds
    <3>2. QED
      BY <1>2, <3>1 DEF ParserHandler
  <2>7. ShapeInv'
    <3>1. \A b \in 1 .. Len(want') : Len(want'[b].devices) <= MaxDevices
      BY <2>1, <2>2 DEF ConfigInv, ShapeInv
    <3>2. /\ section.kind \in {"bus", "device"} => want # <<>>
          /\ section.kind = "bus" => Last(want).devices = <<>>
          /\ section.kind = "device" => Last(want).devices # <<>>
      BY <2>1 DEF ConfigInv, ShapeInv
    <3>3. section.kind = "bus" => Last(want').devices = <<>>
      BY <2>4, <3>2
    <3>4. section.kind = "device" => Last(want').devices # <<>>
      BY <2>4, <3>2
    <3>5. ~Succeeds' /\ pc' # "undefined"
      BY <1>2, <2>6 DEF Succeeds
    <3>6. QED
      BY <1>2, <2>2, <2>3, <2>4, <3>1, <3>2, <3>3, <3>4, <3>5 DEF ShapeInv
  <2>8. MatchInv'
    <3> DEFINE m == IF section.kind = "device" /\ "devdrv" \notin seen \cup {name}
                    THEN 1 ELSE 0
    <3>1. \A b \in BusIds : IF b < l THEN Matches(busses[b], want[b + 1], Uncounted(b))
                                     ELSE busses[b] = NoBus
      BY <2>1 DEF ConfigInv, MatchInv
    <3>2. \A b \in BusIds : Uncounted(b)' = IF b = l - 1 THEN m ELSE 0
      BY <1>2, <2>1, <2>2 DEF Uncounted
    <3>3. \A b \in BusIds : b # l - 1 => Uncounted(b) = 0
      BY DEF Uncounted
    <3>4. ASSUME NEW b \in BusIds, b # l - 1
          PROVE  /\ busses'[b] = busses[b]
                 /\ b < l => want'[b + 1] = want[b + 1]
      <4>1. busses'[b] = busses[b]
        <5>1. CASE name \in Known
          <6>1. BusId = l - 1
            BY <2>1, <5>1, EntryInside
          <6>2. QED
            BY <1>1, <2>6, <3>4, <5>1, <6>1 DEF TypeOK
        <5>2. CASE name \notin Known
          BY <2>6, <5>2
        <5>3. QED
          BY <5>1, <5>2
      <4>2. ASSUME b < l
            PROVE  b + 1 \in 1 .. l /\ b + 1 # l
        BY <2>3, <3>4, <4>2 DEF BusIds
      <4>3. QED
        BY <2>2, <4>1, <4>2
    <3>5. ASSUME l - 1 \in BusIds
          PROVE  Matches(busses'[l - 1], want'[l], m)
      <4>1. l \in 1 .. l /\ l - 1 < l /\ (l - 1) + 1 = l
        BY <2>3, <3>5 DEF BusIds
      <4>2. CASE name \in Known
        <5>1. /\ BusId = l - 1
              /\ Matches(ProcessEntries(name, value), Described(want[l], name, value), m)
          BY <2>1, <4>2, EntryInside, EntryDone
        <5>2. busses'[l - 1] = ProcessEntries(name, value)
          BY <1>1, <2>6, <3>5, <4>2, <5>1 DEF TypeOK
        <5>3. want'[l] = Described(want[l], name, value)
          BY <2>2, <4>1, <4>2
        <5> HIDE DEF m
        <5>4. QED
          BY <5>1, <5>2, <5>3
      <4>3. CASE name \notin Known
        <5>1. busses' = busses /\ want'[l] = want[l]
          BY <2>2, <2>6, <4>1, <4>3
        <5>2. Uncounted(l - 1) = m
          BY <4>3 DEF Uncounted, Known
        <5>3. Matches(busses[l - 1], want[l], Uncounted(l - 1))
          BY <3>1, <3>5, <4>1
        <5> HIDE DEF m
        <5>4. QED
          BY <5>1, <5>2, <5>3
      <4>4. QED
        BY <4>2, <4>3
    <3>6. ASSUME NEW b \in BusIds
          PROVE  IF b < l THEN Matches(busses'[b], want'[b + 1], IF b = l - 1 THEN m ELSE 0)
                          ELSE busses'[b] = NoBus
      <4> HIDE DEF m
      <4>1. CASE b = l - 1
        <5>1. b < l /\ b + 1 = l
          BY <2>3, <4>1
        <5>2. Matches(busses'[l - 1], want'[l], m)
          BY <3>5, <4>1
        <5>3. QED
          BY <4>1, <5>1, <5>2
      <4>2. CASE b # l - 1
        BY <3>1, <3>3, <3>4, <4>2
      <4>3. QED
        BY <4>1, <4>2
    <3> HIDE DEF m
    <3>7. QED
      BY <2>2, <3>2, <3>6 DEF MatchInv, Matches
  <2>9. QED
    BY <1>3, <2>2, <2>5, <2>7, <2>8 DEF ConfigInv, TypeInv
<1>6. QED
  BY <1>4, <1>5

\* Continuation: a file with such a line does not keep to the format.
LEMMA ContinuationConfig ==
  ASSUME ConfigInv, NEW value \in Values, Continuation(value)
  PROVE  ConfigInv'
<1>1. TypeOK /\ ReadLine /\ prev_name \in Names
  BY DEF ConfigInv, TypeInv, TypeOK, Continuation
<1>2. /\ ParserHandler(prev_name, value) /\ section' = section /\ prev_name' = prev_name
      /\ error' \in {error, lineno'}
      /\ plain' = FALSE /\ want' = <<>> /\ seen' = {}
  BY DEF Continuation, Means, Error
<1>3. /\ pc' \in {pc, "undefined"} /\ last_section' = section
      /\ current_bus_id' \in -1 .. lineno' /\ current_dev_id' \in -1 .. lineno'
      /\ busses' \in [BusIds -> Bus]
  BY <1>1, <1>2, LineRead, HandlerType
<1>4. error' \in -1 .. lineno' /\ lineno' \in Nat
  BY <1>1, <1>2, LineRead
<1>5. Len(want') <= MaxBusses
  BY <1>2, ParseConfigAssumption
<1>6. TypeOK'
  BY <1>1, <1>2, <1>3, <1>4, <1>5 DEF TypeOK, Bus, Device
<1>7. QED
  BY <1>2, <1>6, OddFile

\* Eof: a file whose last section is not done does not keep to the format either.
LEMMA EofConfig ==
  ASSUME ConfigInv, Eof
  PROVE  ConfigInv'
<1>1. /\ pc' = "returned" /\ UNCHANGED <<lineno, iniVars, handlerVars>>
      /\ plain' = (plain /\ SectionDone)
      /\ want' = IF plain' THEN want ELSE <<>>
      /\ seen' = IF plain' THEN seen ELSE {}
  BY DEF Eof, Means
<1>2. TypeOK
  BY DEF ConfigInv, TypeInv
<1>3. CASE plain'
  <2>1. UNCHANGED <<section, handlerVars, history>> /\ prev_name' = prev_name
    BY <1>1, <1>2, <1>3 DEF iniVars, history, TypeOK
  <2>2. lineno' \in Nat /\ lineno' >= lineno /\ error' \in -1 .. lineno'
    BY <1>1, <1>2 DEF TypeOK, iniVars
  <2>3. QED
    BY <1>1, <1>3, <2>1, <2>2, QuietConfig
<1>4. CASE ~plain'
  <2>1. Len(want') <= MaxBusses
    BY <1>1, <1>4, ParseConfigAssumption
  <2>2. TypeOK'
    BY <1>1, <1>2, <1>4, <2>1 DEF TypeOK, iniVars, handlerVars
  <2>3. QED
    BY <1>1, <1>4, <2>2, OddFile
<1>5. QED
  BY <1>3, <1>4

-----------------------------------------------------------------------------
(* The theorems. *)

\* Every step keeps the configuration what the file has said so far.
LEMMA StepConfig ==
  ASSUME ConfigInv, [Next]_vars
  PROVE  ConfigInv'
<1>1. TypeOK
  BY DEF ConfigInv, TypeInv
<1>2. CASE Open
  BY <1>1, <1>2, QuietConfig DEF Open, iniVars, TypeOK
<1>3. CASE OpenFails
  BY <1>1, <1>3, QuietConfig DEF OpenFails, TypeOK
<1>4. CASE Comment
  BY <1>1, <1>4, LineRead, QuietConfig DEF Comment, ReadLine, iniVars
<1>5. CASE \E value \in Values : Continuation(value)
  BY <1>5, ContinuationConfig
<1>6. CASE \E s \in Sections : Section(s)
  BY <1>6, SectionConfig
<1>7. CASE \E name \in Names : \E value \in ValuesOf(name) : Entry(name, value)
  BY <1>7, EntryConfig
<1>8. CASE Malformed
  BY <1>1, <1>8, LineRead, QuietConfig DEF Malformed, ReadLine, Error
<1>9. CASE Eof
  BY <1>9, EofConfig
<1>10. CASE UNCHANGED vars
  <2>1. UNCHANGED <<pc, lineno, iniVars, handlerVars, history>>
    BY <1>10 DEF vars
  <2>2. TypeInv'
    BY <2>1 DEF ConfigInv, TypeInv, TypeOK, iniVars, handlerVars, history
  <2>3. PlaceInv' /\ ShapeInv'
    BY <2>1 DEF ConfigInv, PlaceInv, ShapeInv, BusId, DevId, NewSection, Succeeds,
                SectionDone, iniVars, handlerVars, history
  <2>4. MatchInv'
    BY <2>1 DEF ConfigInv, MatchInv, Matches, Uncounted, iniVars, handlerVars, history
  <2>5. QED
    BY <2>2, <2>3, <2>4 DEF ConfigInv
<1>11. QED
  BY <1>2, <1>3, <1>4, <1>5, <1>6, <1>7, <1>8, <1>9, <1>10 DEF Next

\* The strengthening: at each line of a file that keeps to the format, the next
\* entry will go to the last bus and its last device, and io_config holds what the
\* file has said, with the device whose driver has not come yet still uncounted.
THEOREM AlwaysConfigInv == Spec => []ConfigInv
<1>1. Init => ConfigInv
  BY InitConfig
<1>2. ConfigInv /\ [Next]_vars => ConfigInv'
  BY StepConfig
<1>3. QED
  BY <1>1, <1>2, PTL DEF Spec

\* parse_config keeps within its types for every file, also one that does not keep
\* to the format, as long as it has not left its arrays.
THEOREM ParseTypeCorrect == Spec => []TypeOK
<1>1. ConfigInv => TypeOK
  BY DEF ConfigInv, TypeInv
<1>2. QED
  BY <1>1, AlwaysConfigInv, PTL

\* parse_config, parser_handler and update_user_data: a file that keeps to the
\* format configures exactly the busses and devices that its sections describe, and
\* parsing it never leaves the arrays, whatever its length and the arrays' sizes.
THEOREM ConfigAsWritten == Spec => []ParsedAsWritten
<1>1. ASSUME ConfigInv, plain
      PROVE  pc # "undefined"
  BY <1>1 DEF ConfigInv, ShapeInv
<1>2. ASSUME ConfigInv, plain, Succeeds
      PROVE  /\ Addressable = want
             /\ \A b \in BusIds :
                  /\ b >= num_busses => busses[b] = NoBus
                  /\ \A d \in DevIds :
                       d >= busses[b].num_devices => busses[b].devices[d] = NoDevice
  <2> DEFINE l == Len(want)
  <2>1. SectionDone /\ \A b \in 1 .. l : Len(want[b].devices) <= MaxDevices
    BY <1>2 DEF ConfigInv, ShapeInv
  <2>2. want \in Seq(WantBus) /\ l \in Nat /\ l <= MaxBusses
    BY <1>2 DEF ConfigInv, TypeInv, TypeOK
  <2>3. num_busses = l /\ \A b \in BusIds : Uncounted(b) = 0
    <3>1. current_bus_id = l - 1 /\ \A b \in BusIds : Uncounted(b) = 0
      BY <1>2, <2>1, DoneNoticed
    <3>2. QED
      BY <2>2, <3>1 DEF num_busses
  <2>4. \A b \in BusIds : IF b < l THEN Matches(busses[b], want[b + 1], 0)
                                   ELSE busses[b] = NoBus
    BY <1>2, <2>3 DEF ConfigInv, MatchInv
  <2>5. ASSUME NEW b \in 1 .. l
        PROVE  want[b] = [drv |-> busses[b - 1].drv, data |-> busses[b - 1].data,
                          devices |-> [d \in 1 .. busses[b - 1].num_devices |->
                                         busses[b - 1].devices[d - 1]]]
    <3> DEFINE bus == busses[b - 1]
    <3> DEFINE w == want[b]
    <3>1. b - 1 \in BusIds /\ b - 1 < l /\ (b - 1) + 1 = b
      BY <2>2, ParseConfigAssumption DEF BusIds
    <3>2. Matches(bus, w, 0)
      BY <2>4, <3>1
    <3>3. w \in WantBus /\ w.devices \in Seq(Device) /\ Len(w.devices) \in Nat
      <4>1. w \in WantBus
        BY <2>2
      <4>2. QED
        BY <4>1 DEF WantBus
    <3>4. bus.num_devices = Len(w.devices)
      BY <3>2, <3>3 DEF Matches
    <3>5. ASSUME NEW d \in 1 .. Len(w.devices)
          PROVE  w.devices[d] = bus.devices[d - 1]
      <4>1. d - 1 \in DevIds /\ d - 1 < Len(w.devices) /\ (d - 1) + 1 = d
        BY <2>1, <3>3, ParseConfigAssumption DEF DevIds
      <4>2. QED
        BY <3>2, <4>1 DEF Matches
    <3>6. w.devices = [d \in 1 .. bus.num_devices |-> bus.devices[d - 1]]
      <4>1. w.devices = [d \in 1 .. Len(w.devices) |-> w.devices[d]]
        BY <3>3
      <4>2. QED
        BY <3>4, <3>5, <4>1
    <3>7. w = [drv |-> w.drv, data |-> w.data, devices |-> w.devices]
      BY <3>3 DEF WantBus
    <3>8. w.drv = bus.drv /\ w.data = bus.data
      BY <3>2 DEF Matches
    <3> HIDE DEF w, bus
    <3>9. w = [drv |-> bus.drv, data |-> bus.data,
               devices |-> [d \in 1 .. bus.num_devices |-> bus.devices[d - 1]]]
      BY <3>6, <3>7, <3>8
    <3>10. QED
      BY <3>9 DEF w, bus
  <2>6. Addressable = want
    <3>1. want = [b \in 1 .. l |-> want[b]]
      BY <2>2
    <3>2. QED
      BY <2>3, <2>5, <3>1 DEF Addressable
  <2>7. ASSUME NEW b \in BusIds
        PROVE  /\ b >= num_busses => busses[b] = NoBus
               /\ \A d \in DevIds :
                    d >= busses[b].num_devices => busses[b].devices[d] = NoDevice
    <3>1. b \in Nat
      BY DEF BusIds
    <3>2. CASE b < l
      <4>1. Matches(busses[b], want[b + 1], 0) /\ want[b + 1] \in WantBus
        BY <2>2, <2>4, <3>1, <3>2
      <4>2. Len(want[b + 1].devices) \in Nat
        BY <4>1 DEF WantBus
      <4>3. busses[b].num_devices = Len(want[b + 1].devices)
        BY <4>1, <4>2 DEF Matches
      <4>4. \A d \in DevIds : d >= busses[b].num_devices => busses[b].devices[d] = NoDevice
        BY <4>1, <4>2, <4>3 DEF Matches, DevIds
      <4>5. QED
        BY <2>2, <2>3, <3>1, <3>2, <4>4
    <3>3. CASE ~(b < l)
      BY <2>4, <3>3 DEF NoBus
    <3>4. QED
      BY <3>2, <3>3
  <2>8. QED
    BY <2>6, <2>7
<1>3. ConfigInv => ParsedAsWritten
  BY <1>1, <1>2 DEF ParsedAsWritten
<1>4. QED
  BY <1>3, AlwaysConfigInv, PTL
===============================================================================
