------------------------------- MODULE WebClient -------------------------------
(***************************************************************************)
(* The page web/door_open_piface.html in several browsers, and other       *)
(* clients, in front of one PiFace.  A button reads the outputs and then   *)
(* writes all of them with one bit changed; the server, a single thread,   *)
(* serves the requests one after the other, each completely.  All requests *)
(* of a page share the name of their JSONP callback.                       *)
(*                                                                         *)
(* The server starts again at any time, a request or its answer gets lost, *)
(* and a transfer to the PiFace fails without being reported.              *)
(***************************************************************************)
EXTENDS HttpUri

CONSTANTS
  Page,      \* the browsers
  Click,     \* the calls of get_output that can be under way at the same time
  PageOf,    \* the page of each of them
  Pins,      \* the outputs of the PiFace
  Buttons,   \* the buttons of the page, by what they give to set_output
  Uris,      \* what other clients ask for
  NoClick,   \* no call
  NoAnswer,  \* nothing has come
  Lost       \* an answer that calls no callback: an error, or none at all

ASSUME WebClientAssumption ==
  /\ PageOf \in [Click -> Page]
  /\ 3 =< IdxBits   \* the bus of the PiFace is an index
  /\ Pins \subseteq Word
  /\ NoClick \notin Click /\ NoAnswer # Lost
  /\ \A bits \in SUBSET Pins : bits \notin {NoAnswer, Lost}
  /\ Buttons \subseteq [do : {"set_output"}, pin : Pins, value : {0, 1}]
  /\ Uris \subseteq Seq(Seq(Field) \ {<<>>})

VARIABLES
  out,       \* the outputs of the PiFace
  at,        \* where each call is: "idle"; "get" and "set": its request is on the
             \* way to the server; "got" and "done": the answer is on the way back
  then,      \* io_callback, and param_callback for set_output
  answer,    \* what the server has answered, or newValue before that
  box,       \* jQuery: responseContainer
  callback,  \* jQuery: the call that window.callback belongs to, of each page
  saved,     \* jQuery: the call that window.callback belonged to before
  shown,     \* the status of the outputs on each page; not followed any more once
             \* something has come since
  alone      \* history: nothing has come between since the call was made

jqueryVars == <<box, callback, saved>>
vars       == <<out, at, then, answer, jqueryVars, shown, alone>>

PrintStates == [do |-> "print_states", pin |-> 0, value |-> 0]

Active(t)   == at[t] # "idle"
Mates(t)    == {u \in Click \ {t} : PageOf[u] = PageOf[t] /\ Active(u)}

\* The URIs of the page: /2/0/ and /2/0/<newValue>, in hexadecimal.
GetUri       == <<<<Num(2)>>, <<Num(0)>>>>
SetUri(bits) == <<<<Num(2)>>, <<Num(0)>>, <<Num(Number(bits))>>>>

\* What parse_uri makes of them, and of what the other clients ask for.
GetRequest    == ParseUri(GetUri)
SetRequests   == {[bits |-> b, request |-> ParseUri(SetUri(b))] : b \in SUBSET Pins}
OtherRequests == {[uri |-> u, request |-> ParseUri(u)] : u \in Uris}

-----------------------------------------------------------------------------
(* The server: perform_io on the PiFace, and the reply. *)

OnPiface(r) == r.type # "ERR" /\ r.bus = 2 /\ r.dev = 0

\* 1 << sub, which C leaves open past the width of a value_t.
Mask(sub) == IF sub \in Word THEN {{sub}} ELSE {{}, {sub % ValueBits}}

\* (mutant: a read without a sub-device is shifted, too)
ReadValueShifted(r, bits) == {0} \cap {i - r.sub : i \in bits}

\* The bit of the sub-device, or the whole value.
ReadValue(r, bits) ==
  IF r.sub \in Word THEN {0} \cap {i - r.sub : i \in bits} ELSE bits

\* What a write makes of the outputs when they have been read as bits.
Written(r, bits) ==
  IF r.sub = IDX_INVALID THEN {r.value \cap Pins}
  ELSE {(IF r.value # {} THEN bits \cup m ELSE bits \ m) \cap Pins : m \in Mask(r.sub)}

Outcome(new, reply) == [new |-> new, reply |-> reply]

\* What the outputs become, and what is answered.  An error calls no callback; what
\* other devices answer is left out.
Outcomes(r) ==
  CASE ~OnPiface(r)   -> {Outcome(out, Lost)}
    [] OnPiface(r) /\ r.type = "GET" -> {Outcome(out, ReadValue(r, out))}
    [] OnPiface(r) /\ r.type = "SET" -> {Outcome(new, r.value) : new \in Written(r, out)}

\* The same when a transfer fails: a read gives any bits, a write is not made.
\* Both are answered like the others.
BadOutcomes(r) ==
  CASE ~OnPiface(r)   -> {}
    [] OnPiface(r) /\ r.type = "GET" ->
         {Outcome(out, ReadValue(r, junk)) : junk \in SUBSET Pins}
    [] OnPiface(r) /\ r.type = "SET" ->
         {Outcome(new, r.value) :
            new \in {out} \cup UNION {Written(r, junk) : junk \in SUBSET Pins}}

\* The outputs have been written: no other call is alone, and what the pages
\* show is old.
Disturb(except) ==
  /\ alone' = [u \in Click |-> alone[u] /\ u = except]
  /\ shown' = [p \in Page |-> NoAnswer]

\* The request of call t is served.
Serve(t, r) ==
  \E bad \in BOOLEAN : \E o \in IF bad THEN BadOutcomes(r) ELSE Outcomes(r) :
    /\ out' = o.new
    /\ answer' = [answer EXCEPT ![t] = o.reply]
    /\ IF r.type = "SET" THEN Disturb(IF bad THEN NoClick ELSE t)
       ELSE /\ alone' = [alone EXCEPT ![t] = @ /\ ~bad]
            /\ UNCHANGED shown
    /\ UNCHANGED <<then, jqueryVars>>

-----------------------------------------------------------------------------
(* The page. *)

\* get_output, from a button or from window.onload: a page can be loaded again
\* when it waits for nothing.  $.ajax makes window.callback this call's.
GetOutput(t, what) ==
  /\ at[t] = "idle"
  /\ what = PrintStates => Mates(t) = {}
  /\ at' = [at EXCEPT ![t] = "get"]
  /\ then' = [then EXCEPT ![t] = what]
  /\ callback' = [callback EXCEPT ![PageOf[t]] = t]
  /\ saved' = [saved EXCEPT ![t] = callback[PageOf[t]]]
  /\ alone' = [u \in Click |-> IF u = t THEN Mates(t) = {}
                                        ELSE alone[u] /\ PageOf[u] # PageOf[t]]
  /\ UNCHANGED <<out, answer, box, shown>>

ServeGet(t) ==
  /\ at[t] = "get"
  /\ at' = [at EXCEPT ![t] = "got"]
  /\ Serve(t, GetRequest)

ServeSet(t) ==
  /\ at[t] = "set"
  /\ at' = [at EXCEPT ![t] = "done"]
  /\ \E r \in SetRequests : r.bits = answer[t] /\ Serve(t, r.request)

\* A request or its answer is lost.
Lose(t) ==
  /\ at[t] \in {"get", "got", "set", "done"}
  /\ answer[t] # Lost
  /\ at' = [at EXCEPT ![t] = IF @ = "get" THEN "got" ELSE IF @ = "set" THEN "done" ELSE @]
  /\ answer' = [answer EXCEPT ![t] = Lost]
  /\ alone' = [alone EXCEPT ![t] = FALSE]
  /\ UNCHANGED <<out, then, jqueryVars, shown>>

\* The answer runs as a script and calls window.callback, which puts it into the
\* box of the call it belongs to.
Boxed(t) ==
  LET c == callback[PageOf[t]]
  IN  IF answer[t] # Lost /\ c # NoClick THEN [box EXCEPT ![c] = answer[t]] ELSE box

\* (mutant: a clear bit is not masked out)
NewValueAdding(w, bits) == IF w.value = 1 THEN bits \cup {w.pin} ELSE bits

\* (mutant: the outputs are counted from the highest bit)
NewValueFromTop(w, bits) ==
  LET bit == ValueBits - 1 - w.pin
  IN  IF w.value = 1 THEN bits \cup {bit} ELSE bits \ {bit}

\* set_output: one bit of the outputs is changed.
NewValue(w, bits) == IF w.value = 1 THEN bits \cup {w.pin} ELSE bits \ {w.pin}

\* The call is over, and no longer what window.callback was before another one.
Over(t) ==
  /\ at' = [at EXCEPT ![t] = "idle"]
  /\ then' = [then EXCEPT ![t] = PrintStates]
  /\ answer' = [answer EXCEPT ![t] = NoAnswer]
  /\ alone' = [alone EXCEPT ![t] = FALSE]

\* jQuery gives window.callback back to the call before, tells it the answer, and
\* then calls success with what is in the box of this one, if anything is.
\* Success is print_states, or set_output, which makes the next request.
Complete(t) ==
  /\ at[t] \in {"got", "done"}
  /\ LET p     == PageOf[t]
         boxed == Boxed(t)
         mine  == boxed[t]
         prev  == saved[t]
         told  == IF mine # NoAnswer /\ prev # NoClick
                  THEN [boxed EXCEPT ![prev] = mine] ELSE boxed
         next  == at[t] = "got" /\ then[t].do = "set_output" /\ mine # NoAnswer
         Gone(c) == IF c = t THEN NoClick ELSE c
     IN  /\ box' = [told EXCEPT ![t] = NoAnswer]
         /\ callback' = [callback EXCEPT ![p] = IF next THEN t ELSE prev]
         /\ saved' = [u \in Click |-> IF u = t THEN IF next THEN prev ELSE NoClick
                                      ELSE Gone(saved[u])]
         /\ IF next
            THEN /\ at' = [at EXCEPT ![t] = "set"]
                 /\ answer' = [answer EXCEPT ![t] = NewValue(then[t], mine)]
                 /\ UNCHANGED <<then, alone>>
            ELSE Over(t)
         /\ IF mine # NoAnswer /\ ~next
            THEN shown' = [shown EXCEPT ![p] = IF alone[t] THEN mine ELSE NoAnswer]
            ELSE UNCHANGED shown
  /\ UNCHANGED out

-----------------------------------------------------------------------------
(* Other clients, and the process. *)

\* What their writes to the PiFace can make of the outputs.
Effects ==
  {o.new : o \in UNION {Outcomes(r.request) \cup BadOutcomes(r.request) :
                          r \in {s \in OtherRequests : s.request.type = "SET"
                                                        /\ OnPiface(s.request)}}}

OtherClient ==
  /\ out' \in Effects
  /\ Disturb(NoClick)
  /\ UNCHANGED <<at, then, answer, jqueryVars>>

\* pfio_init clears the outputs, if its transfers succeed.  A request that the
\* process has not served is lost, or comes to the next one.
Restart ==
  /\ out' \in SUBSET Pins
  /\ Disturb(NoClick)
  /\ UNCHANGED <<at, then, answer, jqueryVars>>

-----------------------------------------------------------------------------
(* The specification. *)

Init ==
  /\ out = {}
  /\ at = [t \in Click |-> "idle"]
  /\ then = [t \in Click |-> PrintStates]
  /\ answer = [t \in Click |-> NoAnswer]
  /\ box = [t \in Click |-> NoAnswer]
  /\ callback = [p \in Page |-> NoClick]
  /\ saved = [t \in Click |-> NoClick]
  /\ shown = [p \in Page |-> NoAnswer]
  /\ alone = [t \in Click |-> FALSE]

Next ==
  \/ \E t \in Click :
       \/ \E what \in Buttons \cup {PrintStates} : GetOutput(t, what)
       \/ ServeGet(t)
       \/ ServeSet(t)
       \/ Lose(t)
       \/ Complete(t)
  \/ OtherClient
  \/ Restart

\* The server polls and serves what has come; the browser runs what it has got.  A
\* request that never comes, or an answer, counts as lost in the end.
Fairness ==
  \A t \in Click : WF_vars(ServeGet(t) \/ ServeSet(t)) /\ WF_vars(Complete(t))

Spec == Init /\ [][Next]_vars /\ Fairness

-----------------------------------------------------------------------------
(* Properties. *)

TypeOK ==
  LET Answers == (SUBSET Pins) \cup {NoAnswer, Lost}
  IN  /\ out \subseteq Pins
      /\ at \in [Click -> {"idle", "get", "got", "set", "done"}]
      /\ then \in [Click -> Buttons \cup {PrintStates}]
      /\ answer \in [Click -> Answers]
      /\ box \in [Click -> Answers \ {Lost}]
      /\ callback \in [Page -> Click \cup {NoClick}]
      /\ saved \in [Click -> Click \cup {NoClick}]
      /\ shown \in [Page -> Answers \ {Lost}]
      /\ alone \in [Click -> BOOLEAN]

\* A click changes its own output and no other, although the page writes all of
\* them: as long as no other write has come between, nothing has failed and the
\* page has made no other request meanwhile.
ClickSetsItsPin ==
  [][\A t \in Click :
       at[t] = "set" /\ at'[t] = "done" /\ alone'[t] =>
         \A i \in Pins :
           i \in out' <=> IF i = then[t].pin THEN then[t].value = 1 ELSE i \in out]_vars

\* A click that nothing came between is over only when its write was served: it is
\* not dropped on the way, by an answer that calls nothing, goes to another call, or
\* by a request that parse_uri refuses.
ClickNotDropped ==
  [][\A t \in Click :
       alone[t] /\ then[t].do = "set_output" /\ at[t] # "idle" /\ at'[t] = "idle" =>
         at[t] = "done"]_vars

\* What the page shows after such a click is what the outputs are, until the
\* next write.
ShownIsTrue ==
  \A p \in Page : shown[p] # NoAnswer => shown[p] = out

\* The indices of a URI are numbers of an idx_t, or strtol saturates at its width.
IndicesFit(uri) ==
  IdxBits = LongBits \/
    \A k \in 1 .. 2 : \A i \in 1 .. Len(uri[k]) :
      uri[k][i].num \in -TwoTo[IdxBits - 1] .. TwoTo[IdxBits - 1] - 1

\* Whatever other clients ask for, a write changes only the outputs that its URI
\* names: all of them, or its sub-device, and what it says of them is done.  A
\* URI that is not a write to the PiFace changes nothing.  -1 stands for all; a
\* sub-device past the width of a value_t is left open by C, and a value past it
\* is cut.  Where a long is wider than an idx_t, this is said of URIs whose
\* indices fit: others wrap round to indices they do not name.
NamedOutputs(uri, new) ==
  LET dev   == uri[2]
      value == uri[3][1].num
      fits  == value \in 0 .. TwoTo[ValueBits] - 1
  IN  IF \/ uri[1] # <<Num(2)>> \/ dev[1] # Num(0)
         \/ (Len(dev) > 1 /\ dev[2].rest)
         \/ Len(uri[3]) > 1 \/ uri[3][1].rest
      THEN new = out
      ELSE IF Len(dev) = 1 \/ dev[2].num = IDX_INVALID
      THEN fits => new = Bits(value) \cap Pins
      ELSE fits /\ dev[2].num \in Word =>
             new = Pins \cap IF value = 0 THEN out \ {dev[2].num} ELSE out \cup {dev[2].num}

OutputsAsNamed ==
  \A r \in OtherRequests :
    r.request.type = "SET" /\ IndicesFit(r.uri) =>
      \A o \in Outcomes(r.request) : NamedOutputs(r.uri, o.new)

\* A click comes to its write, unless another write, another request of its page
\* or a failure comes between: no page waits for another one, and no answer goes
\* astray.
ClickIsServed ==
  \A t \in Click :
    (Active(t) /\ then[t].do = "set_output") ~>
      (at[t] = "done" \/ (Active(t) /\ ~alone[t]))
================================================================================
