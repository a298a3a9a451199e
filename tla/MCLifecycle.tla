------------------------------ MODULE MCLifecycle ------------------------------
(***************************************************************************)
(* An instance of Lifecycle with every driver: an I2C bus with an MCP23017 *)
(* and a PCF8574, and the PiFace's pseudo bus.                             *)
(***************************************************************************)
EXTENDS Lifecycle

EveryDriver ==
  <<[i2c |-> TRUE, devices |-> <<"mcp23017", "pcf8574">>],
    [i2c |-> FALSE, devices |-> <<"piface">>]>>

===============================================================================
