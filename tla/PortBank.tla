------------------------------- MODULE PortBank -------------------------------
(***************************************************************************)
(* What the switcher promises to the clients of its HTTP interface: a bank *)
(* of output ports, served one request at a time.  A port changes only     *)
(* while a write to that port is being served, and "ok" is answered to a   *)
(* write only when the port holds what was asked for.  A request that      *)
(* cannot be carried out may leave its own port half stored, never another *)
(* one.  SwitcherIo is shown to implement this module.                     *)
(***************************************************************************)
EXTENDS Integers

CONSTANTS
  Port,      \* the output ports
  Width,     \* Width[p]: the pins of port p, a set of bit numbers
  Volatile,  \* the ports whose outputs the program sets again when it starts
  None       \* "no request is being served"

VARIABLES
  out,       \* out[p]: the pins of p that are latched high
  request,   \* the request being served, or None
  answer     \* its answer: "none" as long as there is none

vars == <<out, request, answer>>

WholePort == -1   \* a request without a sub-device index

Request ==
  [port : Port, cmd : {"read", "write"}, sub : Int, value : SUBSET Nat]

Latches == [Port -> SUBSET Nat]

\* The port holds what request r asked for.  A pin the port does not have asks
\* for nothing.
Honoured(r, pins) ==
  r.cmd = "write" =>
    IF r.sub = WholePort
    THEN pins = r.value \cap Width[r.port]
    ELSE r.sub \in Width[r.port] => (r.sub \in pins <=> r.value # {})

Init ==
  /\ out \in Latches
  /\ request = None
  /\ answer = "none"

Take ==
  /\ request = None
  /\ request' \in Request
  /\ answer' = "none"
  /\ UNCHANGED out

\* A step of the request being served: it may store into its own port, and it
\* may give the answer.
Serve ==
  /\ request # None
  /\ answer = "none"
  /\ out' \in Latches
  /\ \A p \in Port :
       out'[p] # out[p] => request.cmd = "write" /\ p = request.port
  /\ answer' \in {"none", "ok", "failed"}
  /\ answer' = "ok" => Honoured(request, out'[request.port])
  /\ UNCHANGED request

Reply ==
  /\ request # None
  /\ answer # "none"
  /\ request' = None
  /\ answer' = "none"
  /\ UNCHANGED out

\* The program stops and starts again: a request that was being served is lost.
Restart ==
  /\ out' \in Latches
  /\ \A p \in Port \ Volatile : out'[p] = out[p]
  /\ request' = None
  /\ answer' = "none"

Next == Take \/ Serve \/ Reply \/ Restart

Spec == Init /\ [][Next]_vars
================================================================================
