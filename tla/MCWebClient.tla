------------------------------ MODULE MCWebClient ------------------------------
(***************************************************************************)
(* An instance of WebClient: a browser that makes two calls at a time, the *)
(* other browsers being among the other clients; two outputs; values,      *)
(* indices and longs of a few bits.                                        *)
(***************************************************************************)
EXTENDS WebClient, TLC

CONSTANTS p1, a1, a2   \* a page and its calls

OnePage == a1 :> p1 @@ a2 :> p1

\* One button of each kind.
TwoButtons ==
  {[do |-> "set_output", pin |-> 0, value |-> 1], [do |-> "set_output", pin |-> 1, value |-> 0]}

To(dev, value) == <<<<Num(2)>>, dev, <<value>>>>

\* Sub-devices that are there, past the outputs, past the width, not numbers and
\* -1; values and indices out of range; a third field, a fourth token, another
\* device and another bus.
SomeUris ==
  {To(<<Num(0), Num(1)>>, Num(1)), To(<<Num(0), Num(0), Num(1)>>, Num(0)),
   To(<<Num(0), Num(2)>>, Num(1)), To(<<Num(0), Num(8)>>, Num(1)),
   To(<<Num(0), Junk(1)>>, Num(1)), To(<<Num(0), Num(-1)>>, Num(1)),
   To(<<Num(0), Num(1)>>, Num(8)), To(<<Num(0), Num(1)>>, Num(-2)),
   To(<<Num(0)>>, Num(2)), To(<<Num(0)>>, Num(-1)), To(<<Num(0)>>, Junk(2)),
   To(<<Num(16)>>, Num(3)), To(<<Junk(0)>>, Num(3)), To(<<Num(1)>>, Num(3)),
   To(<<Num(0)>>, Num(1)) \o <<<<Num(3)>>>>,
   <<<<Num(18)>>, <<Num(0)>>, <<Num(3)>>>>, <<<<Num(2)>>, <<Num(0)>>>>}
================================================================================
