---------------------------- MODULE WebClientProofs ----------------------------
(***************************************************************************)
(* Proofs about WebClient, for any number of pages and calls, any buttons, *)
(* any other requests and values of any width: what a click and the page   *)
(* show for it can be trusted as long as nothing comes between.            *)
(***************************************************************************)
EXTENDS WebClient, HttpUriProofs

-----------------------------------------------------------------------------
(* The inductive invariant. *)

\* jQuery: window.callback, and what it was before a call, belong to calls of the
\* same page that are under way, and only those have something in their boxes.
CallbackInv ==
  /\ \A p \in Page :
       callback[p] # NoClick => Active(callback[p]) /\ PageOf[callback[p]] = p
  /\ \A t \in Click :
       /\ saved[t] # NoClick =>
            saved[t] # t /\ Active(saved[t]) /\ PageOf[saved[t]] = PageOf[t]
       /\ box[t] # NoAnswer => Active(t)

\* No other call of its page is under way.
Only(t) == \A u \in Click \ {t} : PageOf[u] = PageOf[t] => ~Active(u)

\* Nothing of call t goes astray, and what it has read or written is what the
\* outputs are.
Trusted(t) ==
  /\ Active(t) /\ Only(t)
  /\ callback[PageOf[t]] = t
  /\ box[t] = NoAnswer
  /\ at[t] = "got" => answer[t] = out
  /\ at[t] = "set" => answer[t] = NewValue(then[t], out)
  /\ at[t] = "done" => answer[t] = out

AloneInv == \A t \in Click : alone[t] => Trusted(t)

WebInv ==
  /\ TypeOK
  /\ CallbackInv
  /\ AloneInv
  /\ ShownIsTrue

Answers == (SUBSET Pins) \cup {NoAnswer, Lost}

-----------------------------------------------------------------------------
(* The server. *)

\* Bits are told from no answer, and from a lost one.
LEMMA NotBits == TypeOK => out # Lost /\ out # NoAnswer
<1>1. TypeOK => out \in SUBSET Pins
  BY DEF TypeOK
<1>2. QED
  BY <1>1, WebClientAssumption


\* The bus and the device of the PiFace are indices.
LEMMA SmallIndices == 0 \in Indices /\ 2 \in Indices
<1>1. IdxBits - 1 \in Nat /\ 2 =< IdxBits - 1
  BY Widths, WebClientAssumption
<1>2. IdxBits - 1 < TwoTo[IdxBits - 1]
  BY <1>1, TwoToAbove
<1>3. TwoTo[IdxBits - 1] \in Nat
  BY Tops
<1>4. QED
  BY <1>1, <1>2, <1>3 DEF Indices

\* parse_uri: the page's requests are what they are meant to be, and to the PiFace.
LEMMA PageRequests ==
  /\ GetRequest = Request("GET", Strtol(Num(2)), Strtol(Num(0)), IDX_INVALID, {})
  /\ \A bits \in SUBSET Pins :
       ParseUri(SetUri(bits))
         = Request("SET", Strtol(Num(2)), Strtol(Num(0)), IDX_INVALID, bits)
  /\ OnPiface(GetRequest)
<1>1. ~Refused(<<Num(2)>>) /\ ~DevRefused(<<Num(0)>>) /\ SubIdx(<<Num(0)>>) = IDX_INVALID
  BY DEF Refused, DevRefused, SubIdx, Num
<1>2. GetRequest = Request("GET", Strtol(Num(2)), Strtol(Num(0)), IDX_INVALID, {})
  <2>1. /\ Len(GetUri) = 2 /\ GetUri[1] = <<Num(2)>> /\ GetUri[2] = <<Num(0)>>
        /\ GetUri[1][1] = Num(2) /\ GetUri[2][1] = Num(0)
    BY DEF GetUri
  <2>2. QED
    BY <1>1, <2>1 DEF GetRequest, ParseUri, GetTokens
<1>3. ASSUME NEW bits \in SUBSET Pins
      PROVE  ParseUri(SetUri(bits))
               = Request("SET", Strtol(Num(2)), Strtol(Num(0)), IDX_INVALID, bits)
  <2> DEFINE u == SetUri(bits)
  <2>1. /\ Len(u) = 3 /\ u[1] = <<Num(2)>> /\ u[2] = <<Num(0)>>
        /\ u[3] = <<Num(Number(bits))>>
        /\ u[1][1] = Num(2) /\ u[2][1] = Num(0) /\ u[3][1] = Num(Number(bits))
    BY DEF SetUri
  <2>2. ~Refused(u[3])
    BY <2>1 DEF Refused, Num
  <2>3. Bits(Strtoul(u[3][1])) = bits
    BY <2>1, WebClientAssumption, ValueSurvives
  <2> HIDE DEF u
  <2>4. ParseUri(u) = Request("SET", Strtol(Num(2)), Strtol(Num(0)), IDX_INVALID, bits)
    BY <1>1, <2>1, <2>2, <2>3 DEF ParseUri, GetTokens
  <2>5. QED
    BY <2>4 DEF u
<1>4. OnPiface(GetRequest)
  <2>1. Strtol(Num(2)) = 2 /\ Strtol(Num(0)) = 0
    <3>1. /\ Num(2) \in Field /\ Num(2).num = 2
          /\ Num(0) \in Field /\ Num(0).num = 0
      BY DEF Num, Field
    <3>2. QED
      BY <3>1, SmallIndices, StrtolExact
  <2>2. QED
    BY <1>2, <2>1 DEF OnPiface, Request
<1>5. QED
  BY <1>2, <1>3, <1>4

\* What serving a read answers: the outputs, unless a transfer fails.
LEMMA ReadOutcomes ==
  ASSUME TypeOK
  PROVE  /\ GetRequest.type = "GET"
         /\ \A o \in Outcomes(GetRequest) : o.new = out /\ o.reply = out
         /\ \A o \in BadOutcomes(GetRequest) : o.new = out /\ o.reply \in SUBSET Pins
<1>1. GetRequest.type = "GET" /\ GetRequest.sub = IDX_INVALID
  BY PageRequests DEF Request
<1>2. GetRequest.sub \notin Word
  BY <1>1 DEF Word, IDX_INVALID
<1>3. \A bits : ReadValue(GetRequest, bits) = bits
  BY <1>2 DEF ReadValue
<1>4. ASSUME NEW o \in Outcomes(GetRequest)
      PROVE  o.new = out /\ o.reply = out
  <2>1. o = Outcome(out, ReadValue(GetRequest, out))
    BY <1>1, <1>4, PageRequests DEF Outcomes
  <2>2. QED
    BY <1>3, <2>1 DEF Outcome
<1>5. ASSUME NEW o \in BadOutcomes(GetRequest)
      PROVE  o.new = out /\ o.reply \in SUBSET Pins
  <2>1. PICK junk \in SUBSET Pins : o = Outcome(out, ReadValue(GetRequest, junk))
    BY <1>1, <1>5 DEF BadOutcomes
  <2>2. QED
    BY <1>3, <2>1 DEF Outcome
<1>6. QED
  BY <1>1, <1>4, <1>5

\* What serving a write does: the outputs become what the page has sent, unless a
\* transfer fails.
LEMMA WriteOutcomes ==
  ASSUME TypeOK, NEW r \in SetRequests
  PROVE  /\ r.request.type = "SET" /\ r.bits \in SUBSET Pins
         /\ \A o \in Outcomes(r.request) :
              o.new = r.bits /\ o.reply = r.bits
         /\ \A o \in BadOutcomes(r.request) :
              o.new \in SUBSET Pins /\ o.reply \in SUBSET Pins
<1>1. r.bits \in SUBSET Pins /\ r.request = ParseUri(SetUri(r.bits))
  BY DEF SetRequests
<1>2. /\ r.request.type = "SET" /\ r.request.sub = IDX_INVALID
      /\ r.request.value = r.bits
      /\ OnPiface(r.request)
  BY <1>1, PageRequests DEF Request, OnPiface
<1>3. \A bits : Written(r.request, bits) = {r.bits}
  <2>1. r.bits \cap Pins = r.bits
    BY <1>1
  <2>2. QED
    BY <1>2, <2>1 DEF Written
<1>4. out \in SUBSET Pins
  BY DEF TypeOK
<1>5. QED
  BY <1>1, <1>2, <1>3, <1>4 DEF Outcomes, BadOutcomes, Outcome

\* A read served.
LEMMA GetServed ==
  ASSUME TypeOK, NEW t \in Click, ServeGet(t)
  PROVE  /\ at[t] = "get" /\ at' = [at EXCEPT ![t] = "got"]
         /\ out' = out /\ UNCHANGED <<then, jqueryVars, shown>>
         /\ \E reply \in SUBSET Pins : \E good \in BOOLEAN :
              /\ answer' = [answer EXCEPT ![t] = reply]
              /\ alone' = [alone EXCEPT ![t] = alone[t] /\ good]
              /\ good => reply = out
<1>1. PICK bad \in BOOLEAN :
        \E o \in IF bad THEN BadOutcomes(GetRequest) ELSE Outcomes(GetRequest) :
          /\ out' = o.new
          /\ answer' = [answer EXCEPT ![t] = o.reply]
          /\ alone' = [alone EXCEPT ![t] = alone[t] /\ ~bad]
          /\ UNCHANGED <<shown, then, jqueryVars>>
  BY ReadOutcomes DEF ServeGet, Serve
<1>2. PICK o \in IF bad THEN BadOutcomes(GetRequest) ELSE Outcomes(GetRequest) :
        /\ out' = o.new
        /\ answer' = [answer EXCEPT ![t] = o.reply]
        /\ alone' = [alone EXCEPT ![t] = alone[t] /\ ~bad]
        /\ UNCHANGED <<shown, then, jqueryVars>>
  BY <1>1
<1>3. /\ o.new = out /\ o.reply \in SUBSET Pins
      /\ ~bad => o.reply = out
  <2>1. out \in SUBSET Pins
    BY DEF TypeOK
  <2>2. QED
    BY <1>2, <2>1, ReadOutcomes
<1>4. at[t] = "get" /\ at' = [at EXCEPT ![t] = "got"]
  BY DEF ServeGet
<1>5. QED
  BY <1>2, <1>3, <1>4

\* A write served.
LEMMA SetServed ==
  ASSUME TypeOK, NEW t \in Click, ServeSet(t)
  PROVE  /\ at[t] = "set" /\ at' = [at EXCEPT ![t] = "done"]
         /\ out' \in SUBSET Pins /\ UNCHANGED <<then, jqueryVars>>
         /\ shown' = [p \in Page |-> NoAnswer]
         /\ \E reply \in SUBSET Pins : \E except \in {t, NoClick} :
              /\ answer' = [answer EXCEPT ![t] = reply]
              /\ alone' = [u \in Click |-> alone[u] /\ u = except]
              /\ except = t => reply = out' /\ out' = answer[t]
<1>1. PICK r \in SetRequests : r.bits = answer[t] /\ Serve(t, r.request)
  BY DEF ServeSet
<1>2. PICK bad \in BOOLEAN :
        \E o \in IF bad THEN BadOutcomes(r.request) ELSE Outcomes(r.request) :
          /\ out' = o.new
          /\ answer' = [answer EXCEPT ![t] = o.reply]
          /\ Disturb(IF bad THEN NoClick ELSE t)
          /\ UNCHANGED <<then, jqueryVars>>
  BY <1>1, WriteOutcomes DEF Serve
<1>3. PICK o \in IF bad THEN BadOutcomes(r.request) ELSE Outcomes(r.request) :
        /\ out' = o.new
        /\ answer' = [answer EXCEPT ![t] = o.reply]
        /\ Disturb(IF bad THEN NoClick ELSE t)
        /\ UNCHANGED <<then, jqueryVars>>
  BY <1>2
<1>4. /\ o.new \in SUBSET Pins /\ o.reply \in SUBSET Pins
      /\ ~bad => o.reply = r.bits /\ o.new = r.bits
  BY <1>3, WriteOutcomes
<1>5. at[t] = "set" /\ at' = [at EXCEPT ![t] = "done"]
  BY DEF ServeSet
<1>6. t # NoClick
  BY WebClientAssumption
<1>7. CASE bad
  BY <1>1, <1>3, <1>4, <1>5, <1>6, <1>7 DEF Disturb
<1>8. CASE ~bad
  BY <1>1, <1>3, <1>4, <1>5, <1>8 DEF Disturb
<1>9. QED
  BY <1>7, <1>8

\* What other clients write, and pfio_init, are outputs.
LEMMA EffectsType ==
  ASSUME TypeOK
  PROVE  Effects \subseteq SUBSET Pins
<1>1. \A r, bits : Written(r, bits) \subseteq SUBSET Pins
  BY DEF Written
<1>2. ASSUME NEW r \in OtherRequests, r.request.type = "SET", OnPiface(r.request),
             NEW o \in Outcomes(r.request) \cup BadOutcomes(r.request)
      PROVE  o.new \in SUBSET Pins
  <2>1. out \in SUBSET Pins
    BY DEF TypeOK
  <2>2. CASE o \in Outcomes(r.request)
    <3>1. PICK new \in Written(r.request, out) : o = Outcome(new, r.request.value)
      BY <1>2, <2>2 DEF Outcomes
    <3>2. QED
      BY <1>1, <3>1 DEF Outcome
  <2>3. CASE o \in BadOutcomes(r.request)
    <3>1. PICK new \in {out} \cup UNION {Written(r.request, junk) : junk \in SUBSET Pins} :
            o = Outcome(new, r.request.value)
      BY <1>2, <2>3 DEF BadOutcomes
    <3>2. new \in SUBSET Pins
      BY <1>1, <2>1, <3>1
    <3>3. QED
      BY <3>1, <3>2 DEF Outcome
  <2>4. QED
    BY <1>2, <2>2, <2>3
<1>3. QED
  BY <1>2 DEF Effects

-----------------------------------------------------------------------------
(* The invariant, action by action. *)

\* Nothing has happened yet.
LEMMA InitWeb == Init => WebInv
<1> SUFFICES ASSUME Init PROVE WebInv
  OBVIOUS
<1>1. TypeOK
  BY WebClientAssumption DEF Init, TypeOK
<1>2. CallbackInv
  BY WebClientAssumption DEF Init, CallbackInv
<1>3. AloneInv /\ ShownIsTrue
  BY DEF Init, AloneInv, ShownIsTrue
<1>4. QED
  BY <1>1, <1>2, <1>3 DEF WebInv

\* A call that nothing has happened to stays trusted.
LEMMA TrustKept ==
  ASSUME NEW t \in Click, Trusted(t), out' = out,
         at'[t] = at[t], then'[t] = then[t], answer'[t] = answer[t], box'[t] = box[t],
         callback'[PageOf[t]] = callback[PageOf[t]],
         \A u \in Click : PageOf[u] = PageOf[t] /\ Active(u)' => Active(u)
  PROVE  Trusted(t)'
<1>1. Active(t)' /\ Only(t)'
  BY DEF Trusted, Active, Only
<1>2. NewValue(then[t], out)' = NewValue(then[t], out)
  BY DEF NewValue
<1>3. QED
  BY <1>1, <1>2 DEF Trusted

\* GetOutput: $.ajax makes window.callback the new call's.
LEMMA GetOutputWeb ==
  ASSUME WebInv, NEW t \in Click, NEW what \in Buttons \cup {PrintStates},
         GetOutput(t, what)
  PROVE  WebInv'
<1>1. TypeOK /\ CallbackInv /\ AloneInv /\ ShownIsTrue /\ t # NoClick /\ PageOf[t] \in Page
  BY WebClientAssumption DEF WebInv
<1>2. /\ at[t] = "idle" /\ at' = [at EXCEPT ![t] = "get"]
      /\ then' = [then EXCEPT ![t] = what]
      /\ callback' = [callback EXCEPT ![PageOf[t]] = t]
      /\ saved' = [saved EXCEPT ![t] = callback[PageOf[t]]]
      /\ alone' = [u \in Click |-> IF u = t THEN Mates(t) = {}
                                   ELSE alone[u] /\ PageOf[u] # PageOf[t]]
      /\ UNCHANGED <<out, answer, box, shown>>
  BY DEF GetOutput
<1>3. TypeOK'
  <2>1. callback[PageOf[t]] \in Click \cup {NoClick}
    BY <1>1 DEF TypeOK
  <2>2. alone' \in [Click -> BOOLEAN]
    BY <1>1, <1>2 DEF TypeOK
  <2>3. QED
    BY <1>1, <1>2, <2>1, <2>2 DEF TypeOK
<1>4. /\ at'[t] = "get" /\ \A u \in Click \ {t} : at'[u] = at[u] /\ then'[u] = then[u]
      /\ callback'[PageOf[t]] = t
      /\ \A p \in Page \ {PageOf[t]} : callback'[p] = callback[p]
      /\ saved'[t] = callback[PageOf[t]] /\ \A u \in Click \ {t} : saved'[u] = saved[u]
      /\ alone'[t] <=> Mates(t) = {}
      /\ \A u \in Click \ {t} : alone'[u] <=> alone[u] /\ PageOf[u] # PageOf[t]
  BY <1>1, <1>2 DEF TypeOK
<1>5. CallbackInv'
  BY <1>1, <1>2, <1>4, WebClientAssumption DEF CallbackInv, Active
<1>6. AloneInv'
  <2>1. ASSUME alone'[t]
        PROVE  Trusted(t)'
    <3>1. Only(t)
      BY <1>4, <2>1 DEF Mates, Only
    <3>2. box[t] = NoAnswer
      BY <1>1, <1>2 DEF CallbackInv, Active
    <3>3. Active(t)' /\ Only(t)'
      BY <1>4, <3>1 DEF Only, Active
    <3>4. QED
      BY <1>2, <1>4, <3>2, <3>3 DEF Trusted
  <2>2. ASSUME NEW u \in Click \ {t}, alone'[u]
        PROVE  Trusted(u)'
    <3>1. alone[u] /\ PageOf[u] # PageOf[t] /\ PageOf[u] \in Page
      BY <1>4, <2>2, WebClientAssumption
    <3>2. Trusted(u)
      BY <1>1, <3>1 DEF AloneInv
    <3>3. \A v \in Click : PageOf[v] = PageOf[u] /\ Active(v)' => Active(v)
      BY <1>4, <3>1 DEF Active
    <3>4. QED
      BY <1>2, <1>4, <3>1, <3>2, <3>3, TrustKept
  <2>3. QED
    BY <2>1, <2>2 DEF AloneInv
<1>7. ShownIsTrue'
  BY <1>1, <1>2 DEF ShownIsTrue
<1>8. QED
  BY <1>3, <1>5, <1>6, <1>7 DEF WebInv

\* What the server and the network do leaves jQuery alone.
LEMMA CallbacksKept ==
  ASSUME TypeOK, CallbackInv, UNCHANGED jqueryVars,
         \A u \in Click : Active(u) => Active(u)'
  PROVE  CallbackInv'
<1>1. /\ \A p \in Page : callback[p] # NoClick => callback[p] \in Click
      /\ \A t \in Click : saved[t] # NoClick => saved[t] \in Click
  BY DEF TypeOK
<1>2. QED
  BY <1>1 DEF CallbackInv, jqueryVars

\* ServeGet: a call that is alone is answered what the outputs are.
LEMMA ServeGetWeb ==
  ASSUME WebInv, NEW t \in Click, ServeGet(t)
  PROVE  WebInv'
<1>1. TypeOK /\ CallbackInv /\ AloneInv /\ ShownIsTrue
  BY DEF WebInv
<1>2. /\ at[t] = "get" /\ at' = [at EXCEPT ![t] = "got"]
      /\ out' = out /\ UNCHANGED <<then, jqueryVars, shown>>
  BY <1>1, GetServed
<1>3. PICK reply \in SUBSET Pins, good \in BOOLEAN :
        /\ answer' = [answer EXCEPT ![t] = reply]
        /\ alone' = [alone EXCEPT ![t] = alone[t] /\ good]
        /\ good => reply = out
  BY <1>1, GetServed
<1>4. TypeOK'
  BY <1>1, <1>2, <1>3 DEF TypeOK, jqueryVars
<1>5. /\ at'[t] = "got" /\ answer'[t] = reply /\ (alone'[t] => alone[t] /\ good)
      /\ \A u \in Click \ {t} : /\ at'[u] = at[u] /\ answer'[u] = answer[u]
                                /\ alone'[u] = alone[u]
  BY <1>1, <1>2, <1>3 DEF TypeOK
<1>6. \A u \in Click : Active(u)' <=> Active(u)
  BY <1>2, <1>5 DEF Active
<1>7. CallbackInv'
  BY <1>1, <1>2, <1>6, CallbacksKept
<1>8. AloneInv'
  <2>1. ASSUME alone'[t]
        PROVE  Trusted(t)'
    <3>1. Trusted(t) /\ good
      BY <1>1, <1>5, <2>1 DEF AloneInv
    <3>2. Active(t)' /\ Only(t)'
      BY <1>6, <3>1 DEF Trusted, Only
    <3>3. QED
      BY <1>2, <1>3, <1>5, <3>1, <3>2 DEF Trusted, jqueryVars
  <2>2. ASSUME NEW u \in Click \ {t}, alone'[u]
        PROVE  Trusted(u)'
    BY <1>1, <1>2, <1>5, <1>6, <2>2, TrustKept DEF AloneInv, jqueryVars
  <2>3. QED
    BY <2>1, <2>2 DEF AloneInv
<1>9. ShownIsTrue'
  BY <1>1, <1>2 DEF ShownIsTrue
<1>10. QED
  BY <1>4, <1>7, <1>8, <1>9 DEF WebInv

\* ServeSet: only the call whose write it is can still be alone.
LEMMA ServeSetWeb ==
  ASSUME WebInv, NEW t \in Click, ServeSet(t)
  PROVE  WebInv'
<1>1. TypeOK /\ CallbackInv /\ AloneInv
  BY DEF WebInv
<1>2. /\ at[t] = "set" /\ at' = [at EXCEPT ![t] = "done"]
      /\ out' \in SUBSET Pins /\ UNCHANGED <<then, jqueryVars>>
      /\ shown' = [p \in Page |-> NoAnswer]
  BY <1>1, SetServed
<1>3. PICK reply \in SUBSET Pins, except \in {t, NoClick} :
        /\ answer' = [answer EXCEPT ![t] = reply]
        /\ alone' = [u \in Click |-> alone[u] /\ u = except]
        /\ except = t => reply = out'
  BY <1>1, SetServed
<1>4. NoAnswer \in Answers \ {Lost}
  BY WebClientAssumption DEF Answers
<1>5. TypeOK'
  <2>1. answer' \in [Click -> Answers]
    BY <1>1, <1>3 DEF TypeOK, Answers
  <2>2. shown' \in [Page -> Answers \ {Lost}]
    BY <1>2, <1>4
  <2>3. alone' \in [Click -> BOOLEAN]
    BY <1>1, <1>3 DEF TypeOK
  <2>4. QED
    BY <1>1, <1>2, <2>1, <2>2, <2>3 DEF TypeOK, Answers, jqueryVars
<1>6. /\ at'[t] = "done" /\ answer'[t] = reply
      /\ alone'[t] => alone[t] /\ except = t
      /\ \A u \in Click \ {t} : at'[u] = at[u] /\ ~alone'[u]
  BY <1>1, <1>2, <1>3, WebClientAssumption DEF TypeOK
<1>7. \A u \in Click : Active(u)' <=> Active(u)
  BY <1>2, <1>6 DEF Active
<1>8. CallbackInv'
  BY <1>1, <1>2, <1>7, CallbacksKept
<1>9. AloneInv'
  <2>1. ASSUME alone'[t]
        PROVE  Trusted(t)'
    <3>1. Trusted(t) /\ reply = out'
      BY <1>1, <1>3, <1>6, <2>1 DEF AloneInv
    <3>2. Active(t)' /\ Only(t)'
      BY <1>7, <3>1 DEF Trusted, Only
    <3>3. QED
      BY <1>2, <1>6, <3>1, <3>2 DEF Trusted, jqueryVars
  <2>2. QED
    BY <1>6, <2>1 DEF AloneInv
<1>10. ShownIsTrue'
  BY <1>2 DEF ShownIsTrue
<1>11. QED
  BY <1>5, <1>8, <1>9, <1>10 DEF WebInv

\* Lose: nothing more is said of the call.
LEMMA LoseWeb ==
  ASSUME WebInv, NEW t \in Click, Lose(t)
  PROVE  WebInv'
<1>1. TypeOK /\ CallbackInv /\ AloneInv /\ ShownIsTrue
  BY DEF WebInv
<1>2. /\ at[t] \in {"get", "got", "set", "done"}
      /\ at' = [at EXCEPT ![t] = IF at[t] = "get" THEN "got"
                                 ELSE IF at[t] = "set" THEN "done" ELSE at[t]]
      /\ answer' = [answer EXCEPT ![t] = Lost]
      /\ alone' = [alone EXCEPT ![t] = FALSE]
      /\ UNCHANGED <<out, then, jqueryVars, shown>>
  BY DEF Lose
<1>3. TypeOK'
  BY <1>1, <1>2 DEF TypeOK, jqueryVars
<1>4. /\ at'[t] # "idle" /\ ~alone'[t]
      /\ \A u \in Click \ {t} : /\ at'[u] = at[u] /\ answer'[u] = answer[u]
                                /\ alone'[u] = alone[u]
  BY <1>1, <1>2 DEF TypeOK
<1>5. \A u \in Click : Active(u)' <=> Active(u)
  BY <1>2, <1>4 DEF Active
<1>6. CallbackInv'
  BY <1>1, <1>2, <1>5, CallbacksKept
<1>7. AloneInv'
  <2>1. ASSUME NEW u \in Click, alone'[u]
        PROVE  Trusted(u)'
    BY <1>1, <1>2, <1>4, <1>5, <2>1, TrustKept DEF AloneInv, jqueryVars
  <2>2. QED
    BY <2>1 DEF AloneInv
<1>8. ShownIsTrue'
  BY <1>1, <1>2 DEF ShownIsTrue
<1>9. QED
  BY <1>3, <1>6, <1>7, <1>8 DEF WebInv

\* OtherClient and Restart: no call is alone any more, and no page shows anything.
LEMMA DisturbedWeb ==
  ASSUME WebInv, out' \in SUBSET Pins, Disturb(NoClick),
         UNCHANGED <<at, then, answer, jqueryVars>>
  PROVE  WebInv'
<1>1. TypeOK /\ CallbackInv
  BY DEF WebInv
<1>2. alone' = [u \in Click |-> alone[u] /\ u = NoClick]
      /\ shown' = [p \in Page |-> NoAnswer]
  BY DEF Disturb
<1>3. NoAnswer \in Answers \ {Lost} /\ \A u \in Click : ~alone'[u]
  BY <1>2, WebClientAssumption DEF Answers
<1>4. TypeOK'
  BY <1>1, <1>2, <1>3 DEF TypeOK, Answers, jqueryVars
<1>5. CallbackInv'
  BY <1>1, CallbacksKept DEF Active
<1>6. AloneInv'
  BY <1>3 DEF AloneInv
<1>7. ShownIsTrue'
  BY <1>2 DEF ShownIsTrue
<1>8. QED
  BY <1>4, <1>5, <1>6, <1>7 DEF WebInv

\* What completing a call does: its page's calls and boxes are the only ones that
\* change, and a call that is alone gets its own answer.
LEMMA Completed ==
  ASSUME WebInv, NEW t \in Click, Complete(t)
  PROVE  /\ at[t] \in {"got", "done"} /\ out' = out
         /\ box' \in [Click -> Answers \ {Lost}] /\ box'[t] = NoAnswer
         /\ \A u \in Click \ {t} :
              box'[u] # box[u] => PageOf[u] = PageOf[t] /\ Active(u)
         /\ \E mine \in Answers \ {Lost} : \E next \in BOOLEAN :
              /\ next <=> at[t] = "got" /\ then[t].do = "set_output" /\ mine # NoAnswer
              /\ alone[t] => mine = IF answer[t] # Lost THEN answer[t] ELSE NoAnswer
              /\ callback' = [callback EXCEPT ![PageOf[t]] = IF next THEN t ELSE saved[t]]
              /\ saved' = [u \in Click |->
                             IF u = t THEN IF next THEN saved[t] ELSE NoClick
                             ELSE IF saved[u] = t THEN NoClick ELSE saved[u]]
              /\ IF next
                 THEN /\ at' = [at EXCEPT ![t] = "set"]
                      /\ answer' = [answer EXCEPT ![t] = NewValue(then[t], mine)]
                      /\ UNCHANGED <<then, alone>>
                 ELSE Over(t)
              /\ IF mine # NoAnswer /\ ~next
                 THEN shown' = [shown EXCEPT ![PageOf[t]] = IF alone[t] THEN mine ELSE NoAnswer]
                 ELSE UNCHANGED shown
<1> DEFINE p == PageOf[t]
<1> DEFINE boxed == Boxed(t)
<1> DEFINE mine == boxed[t]
<1> DEFINE prev == saved[t]
<1> DEFINE told == IF mine # NoAnswer /\ prev # NoClick
                   THEN [boxed EXCEPT ![prev] = mine] ELSE boxed
<1> DEFINE next == at[t] = "got" /\ then[t].do = "set_output" /\ mine # NoAnswer
<1>1. TypeOK /\ CallbackInv /\ AloneInv /\ p \in Page
  BY WebClientAssumption DEF WebInv
<1>2. /\ at[t] \in {"got", "done"} /\ out' = out
      /\ box' = [told EXCEPT ![t] = NoAnswer]
      /\ callback' = [callback EXCEPT ![p] = IF next THEN t ELSE prev]
      /\ saved' = [u \in Click |-> IF u = t THEN IF next THEN prev ELSE NoClick
                                   ELSE IF saved[u] = t THEN NoClick ELSE saved[u]]
      /\ IF next
         THEN /\ at' = [at EXCEPT ![t] = "set"]
              /\ answer' = [answer EXCEPT ![t] = NewValue(then[t], mine)]
              /\ UNCHANGED <<then, alone>>
         ELSE Over(t)
      /\ IF mine # NoAnswer /\ ~next
         THEN shown' = [shown EXCEPT ![p] = IF alone[t] THEN mine ELSE NoAnswer]
         ELSE UNCHANGED shown
  BY DEF Complete
<1>3. box \in [Click -> Answers \ {Lost}] /\ answer \in [Click -> Answers]
      /\ callback[p] \in Click \cup {NoClick} /\ prev \in Click \cup {NoClick}
      /\ NoAnswer \in Answers \ {Lost}
  BY <1>1, WebClientAssumption DEF TypeOK, Answers
<1>4. /\ boxed \in [Click -> Answers \ {Lost}]
      /\ \A u \in Click : boxed[u] # box[u] => u = callback[p]
      /\ callback[p] = t /\ answer[t] # Lost => mine = answer[t]
      /\ answer[t] = Lost => mine = box[t]
  <2>1. CASE answer[t] # Lost /\ callback[p] # NoClick
    <3>1. boxed = [box EXCEPT ![callback[p]] = answer[t]]
      BY <2>1 DEF Boxed
    <3>2. callback[p] \in Click /\ answer[t] \in Answers \ {Lost}
      BY <1>3, <2>1
    <3> HIDE DEF boxed
    <3>3. QED
      BY <1>3, <2>1, <3>1, <3>2
  <2>2. CASE ~(answer[t] # Lost /\ callback[p] # NoClick)
    <3>1. boxed = box
      BY <2>2 DEF Boxed
    <3>2. t # NoClick
      BY WebClientAssumption
    <3> HIDE DEF boxed
    <3>3. QED
      BY <1>3, <2>2, <3>1, <3>2
  <2>3. QED
    BY <2>1, <2>2
<1> HIDE DEF boxed
<1>5. /\ told \in [Click -> Answers \ {Lost}]
      /\ \A u \in Click : told[u] # boxed[u] => u = prev /\ prev # NoClick
  BY <1>3, <1>4
<1> HIDE DEF told
<1>6. /\ box' \in [Click -> Answers \ {Lost}] /\ box'[t] = NoAnswer
      /\ \A u \in Click \ {t} : box'[u] = told[u]
  BY <1>2, <1>3, <1>5
<1>7. ASSUME NEW u \in Click \ {t}, box'[u] # box[u]
      PROVE  PageOf[u] = PageOf[t] /\ Active(u)
  <2>1. u # NoClick /\ (u = callback[p] \/ u = prev)
    BY <1>4, <1>5, <1>6, <1>7, WebClientAssumption
  <2>2. CASE u = callback[p]
    BY <1>1, <2>1, <2>2 DEF CallbackInv
  <2>3. CASE u = prev
    BY <1>1, <2>1, <2>3 DEF CallbackInv
  <2>4. QED
    BY <2>1, <2>2, <2>3
<1>8. alone[t] => mine = IF answer[t] # Lost THEN answer[t] ELSE NoAnswer
  BY <1>1, <1>4 DEF AloneInv, Trusted
<1>9. mine \in Answers \ {Lost}
  BY <1>4
<1>10. QED
  <2> HIDE DEF mine
  <2>1. next \in BOOLEAN /\ (next <=> at[t] = "got" /\ then[t].do = "set_output" /\ mine # NoAnswer)
    OBVIOUS
  <2> HIDE DEF next, prev, p
  <2>2. p = PageOf[t] /\ prev = saved[t]
    BY DEF p, prev
  <2>3. QED
    BY <1>2, <1>6, <1>7, <1>8, <1>9, <2>1, <2>2

\* Complete: window.callback goes back to the call before, or stays for the write.
LEMMA CompleteWeb ==
  ASSUME WebInv, NEW t \in Click, Complete(t)
  PROVE  WebInv'
<1>1. TypeOK /\ CallbackInv /\ AloneInv /\ ShownIsTrue /\ t # NoClick /\ PageOf[t] \in Page
  BY WebClientAssumption DEF WebInv
<1>2. /\ at[t] \in {"got", "done"} /\ out' = out
      /\ box' \in [Click -> Answers \ {Lost}] /\ box'[t] = NoAnswer
      /\ \A u \in Click \ {t} : box'[u] # box[u] => PageOf[u] = PageOf[t] /\ Active(u)
  BY Completed
<1>3. PICK mine \in Answers \ {Lost}, next \in BOOLEAN :
        /\ next <=> at[t] = "got" /\ then[t].do = "set_output" /\ mine # NoAnswer
        /\ alone[t] => mine = IF answer[t] # Lost THEN answer[t] ELSE NoAnswer
        /\ callback' = [callback EXCEPT ![PageOf[t]] = IF next THEN t ELSE saved[t]]
        /\ saved' = [u \in Click |->
                       IF u = t THEN IF next THEN saved[t] ELSE NoClick
                       ELSE IF saved[u] = t THEN NoClick ELSE saved[u]]
        /\ IF next
           THEN /\ at' = [at EXCEPT ![t] = "set"]
                /\ answer' = [answer EXCEPT ![t] = NewValue(then[t], mine)]
                /\ UNCHANGED <<then, alone>>
           ELSE Over(t)
        /\ IF mine # NoAnswer /\ ~next
           THEN shown' = [shown EXCEPT ![PageOf[t]] = IF alone[t] THEN mine ELSE NoAnswer]
           ELSE UNCHANGED shown
  BY Completed
<1>4. next => then[t] \in Buttons /\ mine \in SUBSET Pins
                /\ NewValue(then[t], mine) \in SUBSET Pins
  <2>1. ASSUME next
        PROVE  then[t] \in Buttons /\ mine \in SUBSET Pins
    BY <1>1, <1>3, <2>1 DEF TypeOK, Answers, PrintStates
  <2>2. ASSUME next
        PROVE  then[t].pin \in Pins
    BY <2>1, <2>2, WebClientAssumption
  <2>3. QED
    BY <2>1, <2>2 DEF NewValue
<1>5. TypeOK'
  <2>1. NoAnswer \in Answers \ {Lost}
    BY WebClientAssumption DEF Answers
  <2>2. callback' \in [Page -> Click \cup {NoClick}] /\ saved' \in [Click -> Click \cup {NoClick}]
    BY <1>1, <1>3 DEF TypeOK
  <2>3. shown' \in [Page -> Answers \ {Lost}]
    BY <1>1, <1>3, <2>1 DEF TypeOK, Answers
  <2>4. /\ at' \in [Click -> {"idle", "get", "got", "set", "done"}]
        /\ then' \in [Click -> Buttons \cup {PrintStates}]
        /\ answer' \in [Click -> Answers]
        /\ alone' \in [Click -> BOOLEAN]
    <3>1. CASE next
      BY <1>1, <1>3, <1>4, <3>1 DEF TypeOK, Answers
    <3>2. CASE ~next
      BY <1>1, <1>3, <3>2, <2>1 DEF TypeOK, Answers, Over
    <3>3. QED
      BY <3>1, <3>2
  <2>5. QED
    BY <1>1, <1>2, <2>2, <2>3, <2>4 DEF TypeOK, Answers
<1>6. /\ at'[t] = (IF next THEN "set" ELSE "idle")
      /\ alone'[t] => alone[t] /\ next
      /\ next => then'[t] = then[t] /\ answer'[t] = NewValue(then[t], mine)
      /\ \A u \in Click \ {t} : /\ at'[u] = at[u] /\ then'[u] = then[u]
                                /\ answer'[u] = answer[u] /\ alone'[u] = alone[u]
  <2>1. CASE next
    BY <1>1, <1>3, <2>1 DEF TypeOK
  <2>2. CASE ~next
    BY <1>1, <1>3, <2>2 DEF TypeOK, Over
  <2>3. QED
    BY <2>1, <2>2
<1>7. /\ \A u \in Click \ {t} : Active(u)' <=> Active(u)
      /\ Active(t) /\ (next => Active(t)')
  BY <1>2, <1>6 DEF Active
<1>8. /\ callback'[PageOf[t]] = IF next THEN t ELSE saved[t]
      /\ \A p \in Page \ {PageOf[t]} : callback'[p] = callback[p]
      /\ \A p \in Page : callback[p] # NoClick => callback[p] \in Click
      /\ \A u \in Click : saved[u] # NoClick => saved[u] \in Click
  BY <1>1, <1>3 DEF TypeOK
<1>9. CallbackInv'
  <2>1. ASSUME NEW p \in Page, callback'[p] # NoClick
        PROVE  Active(callback[p])' /\ PageOf[callback'[p]] = p
    <3>1. CASE p = PageOf[t] /\ next
      BY <1>7, <1>8, <3>1 DEF Active
    <3>2. CASE p = PageOf[t] /\ ~next
      <4>1. callback'[p] = saved[t] /\ saved[t] \in Click \ {t} /\ Active(saved[t])
            /\ PageOf[saved[t]] = p
        BY <1>1, <1>8, <2>1, <3>2 DEF CallbackInv
      <4>2. QED
        BY <1>7, <4>1 DEF Active
    <3>3. CASE p # PageOf[t]
      <4>1. callback'[p] = callback[p] /\ callback[p] \in Click \ {t} /\ Active(callback[p])
            /\ PageOf[callback[p]] = p
        BY <1>1, <1>8, <2>1, <3>3 DEF CallbackInv
      <4>2. QED
        BY <1>7, <4>1 DEF Active
    <3>4. QED
      BY <3>1, <3>2, <3>3
  <2>2. ASSUME NEW u \in Click, saved'[u] # NoClick
        PROVE  saved'[u] # u /\ Active(saved[u])' /\ PageOf[saved'[u]] = PageOf[u]
    <3>1. saved'[u] = saved[u] /\ saved[u] \in Click \ {t}
      <4>1. CASE u = t
        BY <1>1, <1>3, <1>8, <2>2, <4>1 DEF CallbackInv
      <4>2. CASE u # t
        BY <1>3, <1>8, <2>2, <4>2
      <4>3. QED
        BY <4>1, <4>2
    <3>2. saved[u] # u /\ Active(saved[u]) /\ PageOf[saved[u]] = PageOf[u]
      BY <1>1, <2>2, <3>1 DEF CallbackInv
    <3>3. QED
      BY <1>7, <3>1, <3>2 DEF Active
  <2>3. ASSUME NEW u \in Click, box'[u] # NoAnswer
        PROVE  Active(u)'
    BY <1>1, <1>2, <1>7, <2>3 DEF CallbackInv
  <2>4. QED
    BY <2>1, <2>2, <2>3 DEF CallbackInv
<1>10. AloneInv'
  <2>1. ASSUME alone'[t]
        PROVE  Trusted(t)'
    <3>1. Trusted(t) /\ next /\ alone[t]
      BY <1>1, <1>6, <2>1 DEF AloneInv
    <3>2. at[t] = "got" /\ answer[t] = out
      BY <1>3, <3>1 DEF Trusted
    <3>3. mine = out
      BY <1>3, <3>1, <3>2, NotBits
    <3>4. Active(t)' /\ Only(t)'
      BY <1>7, <3>1 DEF Trusted, Only
    <3>5. NewValue(then[t], out)' = NewValue(then[t], mine)
      BY <1>2, <1>6, <3>1, <3>3
    <3>6. QED
      BY <1>2, <1>6, <1>8, <3>1, <3>3, <3>4, <3>5 DEF Trusted
  <2>2. ASSUME NEW u \in Click \ {t}, alone'[u]
        PROVE  Trusted(u)'
    <3>1. Trusted(u)
      BY <1>1, <1>6, <2>2 DEF AloneInv
    <3>2. PageOf[u] # PageOf[t] /\ PageOf[u] \in Page
      BY <1>7, <3>1, WebClientAssumption DEF Trusted, Only
    <3>3. box'[u] = box[u] /\ callback'[PageOf[u]] = callback[PageOf[u]]
      BY <1>2, <1>8, <3>2
    <3>4. \A v \in Click : PageOf[v] = PageOf[u] /\ Active(v)' => Active(v)
      BY <1>7
    <3>5. QED
      BY <1>2, <1>6, <3>1, <3>3, <3>4, TrustKept
  <2>3. QED
    BY <2>1, <2>2 DEF AloneInv
<1>11. ShownIsTrue'
  <2>1. CASE mine # NoAnswer /\ ~next
    <3>1. shown' = [shown EXCEPT ![PageOf[t]] = IF alone[t] THEN mine ELSE NoAnswer]
      BY <1>3, <2>1
    <3>2. alone[t] => mine = out
      BY <1>1, <1>2, <1>3, NotBits DEF AloneInv, Trusted
    <3>3. \A p \in Page : shown'[p] = IF p = PageOf[t]
                                      THEN IF alone[t] THEN mine ELSE NoAnswer
                                      ELSE shown[p]
      BY <1>1, <3>1 DEF TypeOK
    <3>4. QED
      BY <1>1, <1>2, <3>2, <3>3 DEF ShownIsTrue
  <2>2. CASE ~(mine # NoAnswer /\ ~next)
    BY <1>1, <1>2, <1>3, <2>2 DEF ShownIsTrue
  <2>3. QED
    BY <2>1, <2>2
<1>12. QED
  BY <1>5, <1>9, <1>10, <1>11 DEF WebInv

-----------------------------------------------------------------------------
(* The theorems. *)

\* Every step keeps what a lone call is told the truth.
LEMMA StepWeb ==
  ASSUME WebInv, [Next]_vars
  PROVE  WebInv'
<1>1. TypeOK
  BY DEF WebInv
<1>2. ASSUME NEW t \in Click, NEW what \in Buttons \cup {PrintStates}, GetOutput(t, what)
      PROVE  WebInv'
  BY <1>2, GetOutputWeb
<1>3. ASSUME NEW t \in Click, ServeGet(t) \/ ServeSet(t) \/ Lose(t) \/ Complete(t)
      PROVE  WebInv'
  BY <1>3, ServeGetWeb, ServeSetWeb, LoseWeb, CompleteWeb
<1>4. CASE OtherClient
  BY <1>1, <1>4, EffectsType, DisturbedWeb DEF OtherClient
<1>5. CASE Restart
  BY <1>5, DisturbedWeb DEF Restart
<1>6. CASE UNCHANGED vars
  <2>1. UNCHANGED <<out, at, then, answer, box, callback, saved, shown, alone>>
    BY <1>6 DEF vars, jqueryVars
  <2>2. TypeOK'
    BY <1>1, <2>1 DEF TypeOK
  <2>3. CallbackInv'
    BY <1>1, <2>1, CallbacksKept DEF WebInv, Active, jqueryVars
  <2>4. AloneInv'
    BY <2>1, TrustKept DEF WebInv, AloneInv, Active
  <2>5. ShownIsTrue'
    BY <2>1 DEF WebInv, ShownIsTrue
  <2>6. QED
    BY <2>2, <2>3, <2>4, <2>5 DEF WebInv
<1>7. QED
  BY <1>2, <1>3, <1>4, <1>5, <1>6 DEF Next

\* The strengthening: window.callback never belongs to a call that is over, and a
\* call that is alone on its page owns it, has an empty box, and has been told, or
\* is about to write, what the outputs are.
THEOREM AlwaysWebInv == Spec => []WebInv
<1>1. Init => WebInv
  BY InitWeb
<1>2. WebInv /\ [Next]_vars => WebInv'
  BY StepWeb
<1>3. QED
  BY <1>1, <1>2, PTL DEF Spec

\* The page, jQuery and the server keep within their types: what a button makes of
\* an answer is a value of the outputs again.
THEOREM WebTypeCorrect == Spec => []TypeOK
<1>1. WebInv => TypeOK
  BY DEF WebInv
<1>2. QED
  BY <1>1, AlwaysWebInv, PTL

\* print_states: whatever other pages and clients do, the status that a page shows
\* after a call that nothing came between is the outputs, until the next write.
THEOREM PageShowsTruth == Spec => []ShownIsTrue
<1>1. WebInv => ShownIsTrue
  BY DEF WebInv
<1>2. QED
  BY <1>1, AlwaysWebInv, PTL

\* set_output: the read and the write of a click that nothing comes between change
\* its own output and no other, although the write names all of them and every call
\* of the page has the same callback.
THEOREM ClickAlwaysSetsItsPin == Spec => ClickSetsItsPin
<1> DEFINE A == \A t \in Click :
                  at[t] = "set" /\ at'[t] = "done" /\ alone'[t] =>
                    \A i \in Pins :
                      i \in out' <=> IF i = then[t].pin THEN then[t].value = 1 ELSE i \in out
<1>1. ASSUME WebInv, [Next]_vars
      PROVE  A
  <2> SUFFICES ASSUME NEW t \in Click, at[t] = "set", at'[t] = "done", alone'[t]
               PROVE  \A i \in Pins :
                        i \in out' <=> IF i = then[t].pin THEN then[t].value = 1 ELSE i \in out
    OBVIOUS
  <2>1. TypeOK
    BY <1>1 DEF WebInv
  <2>2. ServeSet(t)
    <3>1. ASSUME NEW u \in Click, NEW what \in Buttons \cup {PrintStates}, GetOutput(u, what)
          PROVE  FALSE
      BY <2>1, <3>1 DEF GetOutput, TypeOK
    <3>2. ASSUME NEW u \in Click, ServeGet(u) \/ Complete(u)
          PROVE  FALSE
      BY <1>1, <2>1, <3>2, GetServed, Completed DEF TypeOK, Over
    <3>3. ASSUME NEW u \in Click, Lose(u)
          PROVE  FALSE
      BY <2>1, <3>3 DEF Lose, TypeOK
    <3>4. ASSUME NEW u \in Click, ServeSet(u)
          PROVE  u = t
      BY <2>1, <3>4 DEF ServeSet, TypeOK
    <3>5. ASSUME OtherClient \/ Restart \/ UNCHANGED vars
          PROVE  FALSE
      BY <3>5 DEF OtherClient, Restart, vars
    <3>6. QED
      BY <1>1, <3>1, <3>2, <3>3, <3>4, <3>5 DEF Next
  <2>3. alone[t] /\ out' = answer[t]
    BY <2>1, <2>2, SetServed, WebClientAssumption
  <2>4. answer[t] = NewValue(then[t], out)
    BY <1>1, <2>3 DEF WebInv, AloneInv, Trusted
  <2>5. then[t].value \in {0, 1} \/ then[t] = PrintStates
    BY <2>1, WebClientAssumption DEF TypeOK
  <2>6. QED
    BY <2>3, <2>4, <2>5 DEF NewValue, PrintStates
<1>2. [][A]_vars <=> ClickSetsItsPin
  BY DEF ClickSetsItsPin
<1>3. WebInv /\ [Next]_vars => [A]_vars
  BY <1>1
<1>4. QED
  BY <1>2, <1>3, AlwaysWebInv, PTL DEF Spec

\* set_output: a click that nothing comes between is over only after its write; its
\* read is answered, the answer gets to it and makes the next request.
THEOREM ClickIsNeverDropped == Spec => ClickNotDropped
<1> DEFINE A == \A t \in Click :
                  alone[t] /\ then[t].do = "set_output" /\ at[t] # "idle" /\ at'[t] = "idle"
                    => at[t] = "done"
<1>1. ASSUME WebInv, [Next]_vars
      PROVE  A
  <2> SUFFICES ASSUME NEW t \in Click, alone[t], then[t].do = "set_output",
                      at[t] # "idle", at'[t] = "idle"
               PROVE  at[t] = "done"
    OBVIOUS
  <2>1. TypeOK /\ Trusted(t)
    BY <1>1 DEF WebInv, AloneInv
  <2>2. Complete(t)
    <3>1. ASSUME NEW u \in Click, NEW what \in Buttons \cup {PrintStates}, GetOutput(u, what)
          PROVE  FALSE
      BY <2>1, <3>1 DEF GetOutput, TypeOK
    <3>2. ASSUME NEW u \in Click, ServeGet(u) \/ ServeSet(u) \/ Lose(u)
          PROVE  FALSE
      BY <2>1, <3>2 DEF ServeGet, ServeSet, Lose, TypeOK
    <3>3. ASSUME NEW u \in Click, Complete(u)
          PROVE  u = t
      BY <1>1, <2>1, <3>3, Completed DEF TypeOK, Over
    <3>4. ASSUME OtherClient \/ Restart \/ UNCHANGED vars
          PROVE  FALSE
      BY <3>4 DEF OtherClient, Restart, vars
    <3>5. QED
      BY <1>1, <3>1, <3>2, <3>3, <3>4 DEF Next
  <2>3. ASSUME at[t] = "got"
        PROVE  FALSE
    <3>1. answer[t] = out /\ out # Lost /\ out # NoAnswer
      BY <2>1, <2>3, NotBits DEF Trusted
    <3>2. at' = [at EXCEPT ![t] = "set"]
      BY <1>1, <2>2, <2>3, <3>1, Completed
    <3>3. QED
      BY <2>1, <3>2 DEF TypeOK
  <2>4. QED
    BY <1>1, <2>2, <2>3, Completed
<1>2. [][A]_vars <=> ClickNotDropped
  BY DEF ClickNotDropped
<1>3. WebInv /\ [Next]_vars => [A]_vars
  BY <1>1
<1>4. QED
  BY <1>2, <1>3, AlwaysWebInv, PTL DEF Spec

-----------------------------------------------------------------------------
(* Other clients. *)

\* The shape of a URI that parse_uri takes for a write, and what it makes of it.
LEMMA WriteUri ==
  ASSUME NEW u \in Uris, ParseUri(u).type = "SET"
  PROVE  /\ Len(u) > 2
         /\ \A k \in 1 .. 3 : u[k] \in Seq(Field) /\ Len(u[k]) \in Nat /\ Len(u[k]) > 0
         /\ \A k \in 1 .. 3 : \A i \in 1 .. Len(u[k]) : u[k][i] \in Field
         /\ ~Refused(u[1]) /\ ~DevRefused(u[2]) /\ ~Refused(u[3])
         /\ ParseUri(u) = Request("SET", Strtol(u[1][1]), Strtol(u[2][1]), SubIdx(u[2]),
                                  Bits(Strtoul(u[3][1])))
<1>1. u \in Seq(Seq(Field) \ {<<>>})
  BY WebClientAssumption
<1>2. ErrRequest.type # "SET"
  BY DEF ErrRequest, Request
<1>3. ~(\/ Len(u) < GetTokens \/ Refused(u[1]) \/ DevRefused(u[2])
        \/ (Len(u) > 2 /\ Refused(u[3])))
  BY <1>2 DEF ParseUri
<1>4. ParseUri(u) = Request(IF Len(u) > 2 THEN "SET" ELSE "GET",
                            Strtol(u[1][1]), Strtol(u[2][1]), SubIdx(u[2]),
                            IF Len(u) > 2 THEN Bits(Strtoul(u[3][1])) ELSE {})
  BY <1>3 DEF ParseUri
<1>5. Len(u) > 2
  BY <1>1, <1>4 DEF Request
<1>6. \A k \in 1 .. 3 : u[k] \in Seq(Field) \ {<<>>}
  BY <1>1, <1>5
<1>7. ASSUME NEW s \in Seq(Field) \ {<<>>}
      PROVE  Len(s) \in Nat /\ Len(s) > 0 /\ \A i \in 1 .. Len(s) : s[i] \in Field
  BY <1>7
<1>8. QED
  BY <1>3, <1>4, <1>5, <1>6, <1>7

\* What is there is one or more.
LEMMA OneOrMore == \A n \in Nat : n > 0 => n = 1 \/ n > 1
OBVIOUS

\* A field without junk behind its number is that number.
LEMMA NumOf ==
  ASSUME NEW f \in Field, ~f.rest
  PROVE  f = Num(f.num)
BY DEF Field, Num

\* A write that parse_uri takes to the PiFace names it.
LEMMA PifaceNamed ==
  ASSUME NEW u \in Uris, ParseUri(u).type = "SET", IndicesFit(u), OnPiface(ParseUri(u))
  PROVE  u[1] = <<Num(2)>> /\ u[2][1] = Num(0)
<1>1. /\ Strtol(u[1][1]) = 2 /\ Strtol(u[2][1]) = 0
  BY WriteUri DEF OnPiface, Request
<1>2. u[1][1] \in Field /\ u[2][1] \in Field
  BY WriteUri
<1>3. IdxBits = LongBits \/ (u[1][1].num \in Indices /\ u[2][1].num \in Indices)
  BY WriteUri DEF IndicesFit, Indices
<1>4. u[1][1].num = 2 /\ u[2][1].num = 0
  BY <1>1, <1>2, <1>3, IndexAsWritten
<1>5. ~u[1][1].rest /\ Len(u[1]) = 1 /\ ~u[2][1].rest
  <2>1. Len(u[1]) \in Nat /\ Len(u[1]) > 0
    BY WriteUri
  <2>2. ~Refused(u[1]) /\ ~DevRefused(u[2])
    BY WriteUri
  <2>3. ~u[1][1].rest /\ ~u[2][1].rest
    BY <2>2, Zenon DEF Refused, DevRefused
  <2>4. ~(Len(u[1]) > 1)
    BY <2>2, Zenon DEF Refused
  <2>5. Len(u[1]) = 1
    BY <2>1, <2>4, OneOrMore, Zenon
  <2>6. QED
    BY <2>3, <2>5, Zenon
<1>6. u[1][1] = Num(2) /\ u[2][1] = Num(0)
  BY <1>2, <1>4, <1>5, NumOf
<1>7. u[1] = <<u[1][1]>>
  BY <1>5, WriteUri
<1>8. QED
  BY <1>6, <1>7

\* A sub-device that is a bit of a value_t, or -1, is taken for what it is.
LEMMA SubDeviceNamed ==
  ASSUME NEW u \in Uris, ParseUri(u).type = "SET", IndicesFit(u),
         Len(u[2]) > 1, u[2][2].num \in Word \cup {IDX_INVALID}
  PROVE  SubIdx(u[2]) = u[2][2].num
<1>1. u[2][2] \in Field /\ Len(u[2]) \in Nat
  BY WriteUri
<1>2. u[2][2].num \in Indices
  <2>1. CASE IdxBits = LongBits
    <3>1. ValueBits - 1 \in Nat /\ LongBits - 1 \in Nat /\ ValueBits - 1 =< LongBits - 1
      BY Widths
    <3>2. TwoTo[LongBits - 1] \in Nat
      BY <3>1, TwoToSteps
    <3>3. LongBits - 1 < TwoTo[LongBits - 1]
      BY <3>1, TwoToAbove
    <3>4. QED
      BY <2>1, <3>1, <3>2, <3>3 DEF Word, Indices, IDX_INVALID
  <2>2. CASE IdxBits # LongBits
    BY <1>1, <2>2 DEF IndicesFit, Indices
  <2>3. QED
    BY <2>1, <2>2
<1>3. QED
  BY <1>1, <1>2, StrtolExact DEF SubIdx

\* What a write to the PiFace whose value is a value_t leaves on the outputs.
LEMMA WrittenAsNamed ==
  ASSUME NEW u \in Uris, ParseUri(u).type = "SET", IndicesFit(u), OnPiface(ParseUri(u)),
         NEW o \in Outcomes(ParseUri(u)), u[3][1].num \in 0 .. TwoTo[ValueBits] - 1
  PROVE  /\ Len(u[2]) = 1 \/ u[2][2].num = IDX_INVALID
              => o.new = Bits(u[3][1].num) \cap Pins
         /\ Len(u[2]) > 1 /\ u[2][2].num \in Word
              => o.new = Pins \cap IF u[3][1].num = 0 THEN out \ {u[2][2].num}
                                                      ELSE out \cup {u[2][2].num}
<1> DEFINE r == ParseUri(u)
           n == u[3][1].num
<1>1. /\ r.type = "SET" /\ r.sub = SubIdx(u[2]) /\ r.value = Bits(Strtoul(u[3][1]))
      /\ u[3][1] \in Field /\ Len(u[2]) \in Nat /\ Len(u[2]) > 0
  BY WriteUri DEF Request
<1>2. Strtoul(u[3][1]) = n
  BY <1>1, ValuesAreLong, StrtoulExact
<1>3. r.value = Bits(n) /\ (Bits(n) = {} <=> n = 0)
  BY <1>1, <1>2, NoBits
<1>4. OnPiface(r) /\ o \in Outcomes(r)
  OBVIOUS
<1> HIDE DEF r, n
<1>5. PICK new \in Written(r, out) : o = Outcome(new, r.value)
  BY <1>1, <1>4 DEF Outcomes
<1>6. o.new \in Written(r, out)
  BY <1>5 DEF Outcome
<1>7. ASSUME Len(u[2]) = 1 \/ u[2][2].num = IDX_INVALID
      PROVE  o.new = Bits(n) \cap Pins
  <2>1. r.sub = IDX_INVALID
    BY <1>1, <1>7, SubDeviceNamed DEF SubIdx
  <2>2. QED
    BY <1>3, <1>6, <2>1 DEF Written
<1>8. ASSUME Len(u[2]) > 1, u[2][2].num \in Word
      PROVE  o.new = Pins \cap IF n = 0 THEN out \ {u[2][2].num} ELSE out \cup {u[2][2].num}
  <2>1. r.sub = u[2][2].num /\ r.sub \in Word
    BY <1>1, <1>8, SubDeviceNamed
  <2>2. r.sub # IDX_INVALID
    BY <2>1 DEF Word, IDX_INVALID
  <2>3. Mask(r.sub) = {{r.sub}}
    BY <2>1 DEF Mask
  <2>4. o.new = (IF r.value # {} THEN out \cup {r.sub} ELSE out \ {r.sub}) \cap Pins
    BY <1>6, <2>2, <2>3 DEF Written
  <2>5. QED
    BY <1>3, <2>1, <2>4
<1>9. QED
  BY <1>7, <1>8 DEF n

\* Whatever other clients ask for, through parse_uri and perform_io: a write
\* changes the outputs that its URI names and does what it says; a URI that does
\* not name the PiFace changes nothing.
THEOREM OthersWriteAsNamed == Spec => []OutputsAsNamed
<1>1. ASSUME NEW u \in Uris, ParseUri(u).type = "SET", IndicesFit(u),
             NEW o \in Outcomes(ParseUri(u))
      PROVE  NamedOutputs(u, o.new)
  <2>1. /\ ~(Len(u[2]) > 1 /\ u[2][2].rest) /\ ~(Len(u[3]) > 1) /\ ~u[3][1].rest
    <3>1. ~DevRefused(u[2]) /\ ~Refused(u[3])
      BY <1>1, WriteUri
    <3>2. QED
      BY <3>1, Zenon DEF Refused, DevRefused
  <2>2. CASE OnPiface(ParseUri(u))
    <3> DEFINE n   == u[3][1].num
               sub == u[2][2].num
    <3>1. u[1] = <<Num(2)>> /\ u[2][1] = Num(0)
      BY <1>1, <2>2, PifaceNamed
    <3>2. ASSUME n \in 0 .. TwoTo[ValueBits] - 1
          PROVE  /\ Len(u[2]) = 1 \/ sub = IDX_INVALID => o.new = Bits(n) \cap Pins
                 /\ Len(u[2]) > 1 /\ sub \in Word
                      => o.new = Pins \cap IF n = 0 THEN out \ {sub} ELSE out \cup {sub}
      BY <1>1, <2>2, <3>2, WrittenAsNamed
    <3>3. Len(u[2]) = 1 \/ Len(u[2]) > 1
      <4>1. Len(u[2]) \in Nat /\ Len(u[2]) > 0
        BY <1>1, WriteUri
      <4>2. QED
        BY <4>1, OneOrMore, Zenon
    <3>4. QED
      BY <2>1, <3>1, <3>2, <3>3, Zenon DEF NamedOutputs
  <2>3. CASE ~OnPiface(ParseUri(u))
    <3>1. o.new = out
      BY <1>1, <2>3 DEF Outcomes, Outcome
    <3>2. ASSUME u[1] = <<Num(2)>>, u[2][1] = Num(0)
          PROVE  FALSE
      <4>1. u[1][1].num = 2 /\ u[2][1].num = 0
        BY <3>2 DEF Num
      <4>2. 0 \in Indices /\ 2 \in Indices
        BY SmallIndices
      <4>3. Strtol(u[1][1]) = 2 /\ Strtol(u[2][1]) = 0
        <5>1. u[1][1] \in Field /\ u[2][1] \in Field
          BY <1>1, WriteUri
        <5>2. QED
          BY <4>1, <4>2, <5>1, StrtolExact
      <4>4. OnPiface(ParseUri(u))
        BY <1>1, <4>3, WriteUri DEF OnPiface, Request
      <4>5. QED
        BY <2>3, <4>4
    <3>3. QED
      BY <2>1, <3>1, <3>2 DEF NamedOutputs
  <2>4. QED
    BY <2>2, <2>3
<1>2. OutputsAsNamed
  BY <1>1 DEF OutputsAsNamed, OtherRequests
<1>3. QED
  BY <1>2, PTL
================================================================================
