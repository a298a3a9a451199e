----------------------------- MODULE MCSwitcherIo -----------------------------
(***************************************************************************)
(* Instances of SwitcherIo for TLC.  In the instances with an MCP23017 a   *)
(* byte has one bit, so 1 is its port B, 2 is past its pins and 3 is past  *)
(* every value; in the instance of the byte-wide parts a byte has two.     *)
(***************************************************************************)
EXTENDS SwitcherIo, TLC

CONSTANTS mcp, pcf, pcf2, pi   \* chips

\* An MCP23017 and a PCF8574 on one I2C bus, and the PiFace's pseudo bus, as in
\* config/io_ext.ini with one device changed to the larger part.
ServingDevices == 0 :> 2 @@ 1 :> 1
ServingChip    == <<0, 0>> :> mcp @@ <<0, 1>> :> pcf @@ <<1, 0>> :> pi
ServingPart    == mcp :> "mcp23017" @@ pcf :> "pcf8574" @@ pi :> "piface"

\* The byte-wide parts.
ByteDevices == 0 :> 1 @@ 1 :> 1
ByteChip    == <<0, 0>> :> pcf @@ <<1, 0>> :> pi
BytePart    == pcf :> "pcf8574" @@ pi :> "piface"

\* Two busses; on the first, two parts of different kinds.
MixedDevices == 0 :> 2 @@ 1 :> 1
MixedChip    == <<0, 0>> :> mcp @@ <<0, 1>> :> pcf @@ <<1, 0>> :> pcf2
MixedPart    == mcp :> "mcp23017" @@ pcf :> "pcf8574" @@ pcf2 :> "pcf8574"

Indices    == -1 .. 2
SubIndices == {-1, 0} \cup (ByteBits .. ValueBits)
FewSubs    == {-1, 1}

AllHigh  == {Word}
SomeLow  == {Word, {0}}
Writes   == {{}, 0 .. ValueBits - 1}
===============================================================================
