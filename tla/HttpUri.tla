-------------------------------- MODULE HttpUri --------------------------------
(***************************************************************************)
(* parse_uri: /bus/device[.sub-device][/value].  A URI is the sequence of  *)
(* its tokens, a token the sequence of the fields between its dots, and a  *)
(* field the number it begins with and whether something follows that.     *)
(* strtok_r leaves no empty token and no empty field.  A token of dots     *)
(* only, for which parse_dev has no number to read, is not modelled.       *)
(***************************************************************************)
EXTENDS Integers, Sequences

CONSTANTS
  LongBits,  \* the width of a long
  IdxBits,   \* the width of an idx_t
  ValueBits  \* the width of a value_t

ASSUME WidthAssumption ==
  /\ LongBits \in Nat
  /\ IdxBits \in 2 .. LongBits
  /\ ValueBits \in 1 .. LongBits

IDX_INVALID == -1

Word == 0 .. ValueBits - 1

Field == [num : Int, rest : BOOLEAN]

\* 1 << n.  A function, since the provers know nothing of 2^n.
TwoTo[n \in Nat] == IF n = 0 THEN 1 ELSE 2 * TwoTo[n - 1]

\* The bits of a number, which is how values are written here, and back.
Bits(n) == {i \in Word : (n \div TwoTo[i]) % 2 = 1}
Number(bits) == CHOOSE n \in 0 .. TwoTo[ValueBits] - 1 : Bits(n) = bits

\* strtol gives LONG_MIN or LONG_MAX for what does not fit; the assignment to an
\* idx_t keeps the low bits.
Strtol(field) ==
  LET top  == TwoTo[LongBits - 1]
      long == IF field.num < -top THEN -top
              ELSE IF field.num >= top THEN top - 1 ELSE field.num
      low  == long % TwoTo[IdxBits]
  IN  IF low >= TwoTo[IdxBits - 1] THEN low - TwoTo[IdxBits] ELSE low

\* strtoul negates a number with a minus sign in the unsigned type.
Strtoul(field) ==
  LET top == TwoTo[LongBits]
  IN  IF field.num <= -top \/ field.num >= top THEN top - 1 ELSE field.num % top

\* (mutant: what follows the number of a sub-device is not looked at)
DevRefusedLax(token) == token[1].rest

\* parse_dev reads two fields and ignores the others.
DevRefused(token) == token[1].rest \/ (Len(token) > 1 /\ token[2].rest)

\* parse_bus and parse_value take the whole token: a dot does not belong to it.
Refused(token) == Len(token) > 1 \/ token[1].rest

SubIdx(token) == IF Len(token) > 1 THEN Strtol(token[2]) ELSE IDX_INVALID

Request(type, bus, dev, sub, value) ==
  [type |-> type, bus |-> bus, dev |-> dev, sub |-> sub, value |-> value]

ErrRequest == Request("ERR", IDX_INVALID, IDX_INVALID, IDX_INVALID, {})

\* (mutant: a read needs a third token)
GetTokensStrict == 3

\* A request is a read from its second token on, and a write with the third.
GetTokens == 2

\* Tokens after the third are ignored.
ParseUri(uri) ==
  IF \/ Len(uri) < GetTokens
     \/ Refused(uri[1])
     \/ DevRefused(uri[2])
     \/ (Len(uri) > 2 /\ Refused(uri[3]))
  THEN ErrRequest
  ELSE Request(IF Len(uri) > 2 THEN "SET" ELSE "GET",
               Strtol(uri[1][1]), Strtol(uri[2][1]), SubIdx(uri[2]),
               IF Len(uri) > 2 THEN Bits(Strtoul(uri[3][1])) ELSE {})

Num(n)  == [num |-> n, rest |-> FALSE]
Junk(n) == [num |-> n, rest |-> TRUE]
================================================================================
