---------------------------- MODULE LifecycleProofs ----------------------------
(***************************************************************************)
(* Proofs about Lifecycle, for every configuration: what can go wrong in a  *)
(* handler, only because it began in one of three windows, and that nothing *)
(* is left behind when it exits.                                            *)
(* What Startup and Teardown do, and in which order, is proved of their    *)
(* definitions by induction over the configuration.                        *)
(***************************************************************************)
EXTENDS Lifecycle, WellFoundedInduction, TLAPS

-----------------------------------------------------------------------------
(* The inductive invariant. *)

FreesSpi(s) == s.do = "free" /\ s.block = Spi

\* A handler is in the middle of a step only if that step calls into libc, what main
\* has not stored is what it allocates now, and no more is counted than configured.
TypeInv ==
  /\ TypeOK
  /\ \A b \in Busses : num_devices[b] <= Len(Config[b].devices)
  /\ unstored # {} => Doing("alloc") /\ unstored = {Now.block}
  /\ frames # <<>> /\ Top.phase # "ready" =>
       Top.item <= Len(Teardown) /\ This.do \in {"free", "log"}
  /\ frames # <<>> /\ Top.phase = "freed" => This.do = "free" /\ mem[This.block] = "freed"

\* Unless a handler interrupted a call into libc, the one that runs is alone in it.
LibcInv ==
  frames # <<>> /\ "libc" \notin found => (libc <=> Top.phase = "inside")

\* What is live can be reached or is still to be stored.  A handler's pointers are
\* good, but for the moment between free and the assignment of NULL, and for the Spi,
\* whose pointer stays.
PtrInv ==
  /\ \A x \in Blocks : mem[x] = "live" => x \in ptr \cup unstored
  /\ frames # <<>> /\ "dangling" \notin found =>
       \A x \in ptr \ {Spi} : mem[x] = "live" \/ (Top.phase = "freed" /\ This.block = x)

\* main has counted and stored what its steps so far count and allocate, its pointers
\* are good, and nothing else is live but what it has not stored.
MainInv ==
  frames = <<>> =>
    /\ found = {}
    /\ \A i \in 1 .. Len(Startup) :
         i < main =>
           /\ Startup[i].do = "count" => Visited(Startup[i])
           /\ Startup[i].do = "alloc" => Startup[i].block \in ptr
    /\ \A x \in ptr \cup unstored : mem[x] = "live"
    /\ \A x \in Blocks \ unstored :
         mem[x] = "live" /\ x # Options =>
           \E i \in 1 .. Len(Startup) : i < main /\ Startup[i] = Alloc(x)

\* conf_deinit has forgotten the busses before it discards their data, and until
\* then that is there, unless it was missing from the beginning.
BusInv ==
  frames # <<>> =>
    /\ \A i \in 1 .. Len(Teardown) :
         i < Top.item /\ Teardown[i] = Forget => num_busses = 0
    /\ "missing" \notin found => ~Missing

\* The Spi that is still to be freed is live, when one handler began with good
\* pointers.
SpiInv ==
  frames # <<>> /\ "dangling" \notin found /\ OnePiface =>
    \A j \in 1 .. Len(Teardown) :
      /\ Top.item <= j /\ (j = Top.item => Top.phase # "freed")
      /\ FreesSpi(Teardown[j]) /\ Visited(Teardown[j]) /\ Spi \in ptr
      => mem[Spi] = "live"

\* What is live and stored is still to be freed.
LeftInv ==
  frames # <<>> =>
    \A x \in Blocks \ unstored :
      mem[x] = "live" =>
        \E j \in 1 .. Len(Teardown) :
          /\ Top.item <= j
          /\ Teardown[j].do = "free" /\ Teardown[j].block = x /\ Visited(Teardown[j])

\* Pointers are missing only during startup, and dangle only in the second handler.
FoundInv ==
  /\ frames # <<>> => handled # {}
  /\ "missing" \in found => ~Polling
  /\ "dangling" \in found => handled = Signals

Inner ==
  LibcInv /\ PtrInv /\ MainInv /\ BusInv /\ SpiInv /\ LeftInv /\ FoundInv

LifeInv == TypeInv /\ Inner /\ SafeStop /\ NothingLeft

-----------------------------------------------------------------------------
(* Induction.  The library's theorems for it take an operator; this one takes *)
(* a set, of the counterexamples.                                          *)

\* A set of numbers that has an element has a least one.
LEMMA Least ==
  ASSUME NEW T \in SUBSET Nat, T # {}
  PROVE  \E n \in T : \A m \in T : n <= m
<1>1. PICK n \in T : \A m \in T : ~(<<m, n>> \in OpToRel(<, Nat))
  BY NatLessThanWellFounded, WFMin
<1>2. \A m \in T : ~(m < n)
  BY <1>1 DEF OpToRel
<1>3. QED
  BY <1>2

\* A set of numbers that has 1 and, with each number below n, the next one, has all
\* of them up to n.
LEMMA UpTo ==
  ASSUME NEW n \in Nat, NEW G, 1 \in G,
         \A k \in 1 .. n : k \in G /\ k < n => k + 1 \in G
  PROVE  \A k \in 1 .. n : k \in G
<1> SUFFICES ASSUME NEW c \in 1 .. n, c \notin G
             PROVE  FALSE
  OBVIOUS
<1> DEFINE T == {k \in 1 .. n : k \notin G}
<1>1. PICK k \in T : \A m \in T : k <= m
  <2>1. T \in SUBSET Nat /\ T # {}
    OBVIOUS
  <2> HIDE DEF T
  <2>2. QED
    BY <2>1, Least
<1>2. k # 1 /\ k - 1 \in 1 .. n /\ k - 1 < n
  OBVIOUS
<1>3. k - 1 \in G
  BY <1>1, <1>2
<1>4. QED
  BY <1>1, <1>2, <1>3

-----------------------------------------------------------------------------
(* FlattenSeq *)

\* What it computes, part by part.
LEMMA FlattenUnfolds ==
  ASSUME NEW S, NEW seqs \in Seq(Seq(S)), Len(seqs) # 0
  PROVE  \E f \in [1 .. Len(seqs) -> Seq(S)] :
           /\ FlattenSeq(seqs) = f[Len(seqs)]
           /\ \A i \in 1 .. Len(seqs) :
                f[i] = IF i = 1 THEN seqs[i] ELSE f[i - 1] \o seqs[i]
<1> DEFINE n == Len(seqs)
<1> DEFINE Fits(k, f) == \A i \in 1 .. k : f[i] = IF i = 1 THEN seqs[i] ELSE f[i - 1] \o seqs[i]
<1> DEFINE G == {k \in 1 .. n : \E f \in [1 .. k -> Seq(S)] : Fits(k, f)}
<1>1. n \in Nat \ {0} /\ \A i \in 1 .. n : seqs[i] \in Seq(S)
  OBVIOUS
<1>2. 1 \in G
  <2>1. [i \in 1 .. 1 |-> seqs[1]] \in [1 .. 1 -> Seq(S)]
    BY <1>1
  <2>2. Fits(1, [i \in 1 .. 1 |-> seqs[1]])
    OBVIOUS
  <2>3. 1 \in 1 .. n
    BY <1>1
  <2>4. \E f \in [1 .. 1 -> Seq(S)] : Fits(1, f)
    BY <2>1, <2>2
  <2>5. QED
    BY <2>3, <2>4
<1>3. ASSUME NEW k \in 1 .. n, k \in G, k < n
      PROVE  k + 1 \in G
  <2>1. PICK f \in [1 .. k -> Seq(S)] : Fits(k, f)
    BY <1>3
  <2> DEFINE g == [i \in 1 .. k + 1 |-> IF i = k + 1 THEN f[k] \o seqs[k + 1] ELSE f[i]]
  <2>2. k + 1 \in 1 .. n /\ k \in 1 .. k
    BY <1>1, <1>3
  <2>3. f[k] \o seqs[k + 1] \in Seq(S)
    BY <1>1, <2>1, <2>2
  <2>4. g \in [1 .. k + 1 -> Seq(S)]
    BY <2>1, <2>3
  <2>5. ASSUME NEW i \in 1 .. k + 1
        PROVE  g[i] = IF i = 1 THEN seqs[i] ELSE g[i - 1] \o seqs[i]
    <3>1. CASE i = k + 1
      <4>1. i # 1 /\ i - 1 = k /\ k \in 1 .. k + 1 /\ k # k + 1
        BY <2>2, <3>1
      <4>2. g[i] = f[k] \o seqs[k + 1] /\ g[k] = f[k]
        BY <3>1, <4>1
      <4>3. QED
        BY <3>1, <4>1, <4>2
    <3>2. CASE i # k + 1
      <4>1. i \in 1 .. k /\ (i # 1 => i - 1 \in 1 .. k /\ i - 1 # k + 1)
        BY <2>2, <3>2
      <4>2. g[i] = f[i] /\ (i # 1 => g[i - 1] = f[i - 1])
        BY <3>2, <4>1
      <4>3. QED
        BY <2>1, <4>1, <4>2
    <3>3. QED
      BY <3>1, <3>2
  <2>6. QED
    BY <2>2, <2>4, <2>5
<1>4. n \in G
  <2>1. \A k \in 1 .. n : k \in G /\ k < n => k + 1 \in G
    BY <1>3
  <2>2. n \in Nat /\ n \in 1 .. n
    BY <1>1
  <2> HIDE DEF G, n
  <2>3. \A k \in 1 .. n : k \in G
    BY <1>2, <2>1, <2>2, UpTo
  <2>4. QED
    BY <2>2, <2>3
<1>5. PICK f \in [1 .. n -> Seq(S)] : Fits(n, f)
  BY <1>4
<1> DEFINE Is(g) == g = [i \in 1 .. n |-> IF i = 1 THEN seqs[i] ELSE g[i - 1] \o seqs[i]]
<1> DEFINE h == CHOOSE g : Is(g)
<1>6. Is(f)
  BY <1>5
<1>7. Is(h)
  <2> HIDE DEF Is
  <2>1. QED
    BY <1>6
<1>8. FlattenSeq(seqs) = h[n]
  BY DEF FlattenSeq
<1>9. h[n] = f[n]
  <2> DEFINE E == {i \in 1 .. n : h[i] = f[i]}
  <2> HIDE DEF h
  <2>1. \A i \in 1 .. n : h[i] = IF i = 1 THEN seqs[i] ELSE h[i - 1] \o seqs[i]
    BY <1>7
  <2>2. 1 \in E
    <3>1. 1 \in 1 .. n
      BY <1>1
    <3>2. h[1] = seqs[1] /\ f[1] = seqs[1]
      BY <1>5, <2>1, <3>1
    <3>3. QED
      BY <3>1, <3>2
  <2>3. ASSUME NEW k \in 1 .. n, k \in E, k < n
        PROVE  k + 1 \in E
    <3>1. k + 1 \in 1 .. n /\ k + 1 # 1 /\ (k + 1) - 1 = k
      BY <1>1, <2>3
    <3>2. h[k + 1] = h[k] \o seqs[k + 1]
      BY <2>1, <3>1
    <3>3. f[k + 1] = f[k] \o seqs[k + 1]
      BY <1>5, <3>1
    <3>4. QED
      BY <2>3, <3>1, <3>2, <3>3
  <2>4. n \in E
    <3>1. \A k \in 1 .. n : k \in E /\ k < n => k + 1 \in E
      BY <2>3
    <3>2. n \in Nat /\ n \in 1 .. n
      BY <1>1
    <3> HIDE DEF E, n
    <3>3. \A k \in 1 .. n : k \in E
      BY <2>2, <3>1, <3>2, UpTo
    <3>4. QED
      BY <3>2, <3>3
  <2>5. QED
    BY <2>4
<1>10. QED
  BY <1>5, <1>8, <1>9

\* The elements of a sequence, and that they come in an order.
Elems(s)      == {s[i] : i \in 1 .. Len(s)}
Ordered(s, R) == \A i, j \in 1 .. Len(s) : i < j => <<s[i], s[j]>> \in R

\* A concatenation has the elements of both sequences.
LEMMA Joined ==
  ASSUME NEW S, NEW s \in Seq(S), NEW t \in Seq(S)
  PROVE  s \o t \in Seq(S) /\ Elems(s \o t) = Elems(s) \cup Elems(t)
<1>1. /\ s \o t \in Seq(S) /\ Len(s \o t) = Len(s) + Len(t)
      /\ Len(s) \in Nat /\ Len(t) \in Nat
      /\ \A i \in 1 .. Len(s) + Len(t) :
           (s \o t)[i] = IF i <= Len(s) THEN s[i] ELSE t[i - Len(s)]
  OBVIOUS
<1>2. ASSUME NEW x \in Elems(s \o t)
      PROVE  x \in Elems(s) \cup Elems(t)
  <2>1. PICK i \in 1 .. Len(s) + Len(t) : x = (s \o t)[i]
    BY <1>1, <1>2 DEF Elems
  <2>2. CASE i <= Len(s)
    BY <1>1, <2>1, <2>2 DEF Elems
  <2>3. CASE i > Len(s)
    <3>1. i - Len(s) \in 1 .. Len(t) /\ x = t[i - Len(s)]
      BY <1>1, <2>1, <2>3
    <3>2. QED
      BY <3>1 DEF Elems
  <2>4. QED
    BY <1>1, <2>1, <2>2, <2>3
<1>3. ASSUME NEW x \in Elems(s)
      PROVE  x \in Elems(s \o t)
  <2>1. PICK i \in 1 .. Len(s) : x = s[i]
    BY <1>3 DEF Elems
  <2>2. i \in 1 .. Len(s \o t) /\ x = (s \o t)[i]
    BY <1>1, <2>1
  <2>3. QED
    BY <2>2 DEF Elems
<1>4. ASSUME NEW x \in Elems(t)
      PROVE  x \in Elems(s \o t)
  <2>1. PICK i \in 1 .. Len(t) : x = t[i]
    BY <1>4 DEF Elems
  <2>2. Len(s) + i \in 1 .. Len(s \o t) /\ x = (s \o t)[Len(s) + i]
    BY <1>1, <2>1
  <2>3. QED
    BY <2>2 DEF Elems
<1>5. QED
  BY <1>1, <1>2, <1>3, <1>4

\* It is ordered if both are, and each element of the first comes before each of
\* the second.
LEMMA JoinedOrder ==
  ASSUME NEW S, NEW s \in Seq(S), NEW t \in Seq(S), NEW R,
         Ordered(s, R), Ordered(t, R),
         \A x \in Elems(s), y \in Elems(t) : <<x, y>> \in R
  PROVE  Ordered(s \o t, R)
<1>1. /\ Len(s \o t) = Len(s) + Len(t) /\ Len(s) \in Nat /\ Len(t) \in Nat
      /\ \A i \in 1 .. Len(s) + Len(t) :
           (s \o t)[i] = IF i <= Len(s) THEN s[i] ELSE t[i - Len(s)]
  OBVIOUS
<1> SUFFICES ASSUME NEW i \in 1 .. Len(s) + Len(t), NEW j \in 1 .. Len(s) + Len(t), i < j
             PROVE  <<(s \o t)[i], (s \o t)[j]>> \in R
  BY <1>1 DEF Ordered
<1>2. CASE j <= Len(s)
  <2>1. i \in 1 .. Len(s) /\ j \in 1 .. Len(s)
    BY <1>1, <1>2
  <2>2. QED
    BY <1>1, <1>2, <2>1 DEF Ordered
<1>3. CASE i > Len(s)
  <2>1. i - Len(s) \in 1 .. Len(t) /\ j - Len(s) \in 1 .. Len(t)
        /\ i - Len(s) < j - Len(s) /\ j > Len(s)
    BY <1>1, <1>3
  <2>2. (s \o t)[i] = t[i - Len(s)] /\ (s \o t)[j] = t[j - Len(s)]
    BY <1>1, <1>3, <2>1
  <2>3. QED
    BY <2>1, <2>2 DEF Ordered
<1>4. CASE i <= Len(s) /\ j > Len(s)
  <2>1. i \in 1 .. Len(s) /\ j - Len(s) \in 1 .. Len(t)
    BY <1>1, <1>4
  <2>2. (s \o t)[i] = s[i] /\ (s \o t)[j] = t[j - Len(s)]
    BY <1>1, <1>4
  <2>3. s[i] \in Elems(s) /\ t[j - Len(s)] \in Elems(t)
    BY <2>1 DEF Elems
  <2>4. QED
    BY <2>2, <2>3
<1>5. j <= Len(s) \/ i > Len(s) \/ (i <= Len(s) /\ j > Len(s))
  <2>1. i \in Nat /\ j \in Nat
    OBVIOUS
  <2>2. QED
    BY <1>1, <2>1
<1>6. QED
  BY <1>2, <1>3, <1>4, <1>5

\* FlattenSeq has the elements of all parts.
LEMMA Flattened ==
  ASSUME NEW S, NEW seqs \in Seq(Seq(S))
  PROVE  /\ FlattenSeq(seqs) \in Seq(S)
         /\ \A x : x \in Elems(FlattenSeq(seqs))
                     <=> \E i \in 1 .. Len(seqs) : x \in Elems(seqs[i])
<1> DEFINE n == Len(seqs)
<1>1. n \in Nat /\ \A i \in 1 .. n : seqs[i] \in Seq(S)
  OBVIOUS
<1>2. CASE n = 0
  <2>1. FlattenSeq(seqs) = seqs /\ seqs = <<>>
    BY <1>2 DEF FlattenSeq
  <2>2. QED
    BY <1>2, <2>1 DEF Elems
<1>3. CASE n # 0
  <2>1. PICK f \in [1 .. n -> Seq(S)] :
          /\ FlattenSeq(seqs) = f[n]
          /\ \A i \in 1 .. n : f[i] = IF i = 1 THEN seqs[i] ELSE f[i - 1] \o seqs[i]
    BY <1>3, FlattenUnfolds
  <2> DEFINE G == {k \in 1 .. n : \A x : x \in Elems(f[k])
                                           <=> \E i \in 1 .. k : x \in Elems(seqs[i])}
  <2>2. 1 \in 1 .. n /\ f[1] = seqs[1] /\ n \in 1 .. n
    <3>1. 1 \in 1 .. n /\ n \in 1 .. n
      BY <1>1, <1>3
    <3>2. QED
      BY <2>1, <3>1
  <2>3. 1 \in G
    BY <2>2
  <2>4. ASSUME NEW k \in 1 .. n, k \in G, k < n
        PROVE  k + 1 \in G
    <3>1. k + 1 \in 1 .. n /\ k + 1 # 1 /\ (k + 1) - 1 = k
      BY <1>1, <2>4
    <3>2. f[k + 1] = f[k] \o seqs[k + 1]
      BY <2>1, <3>1
    <3>3. f[k] \in Seq(S) /\ seqs[k + 1] \in Seq(S)
      BY <1>1, <2>1, <3>1
    <3>4. Elems(f[k + 1]) = Elems(f[k]) \cup Elems(seqs[k + 1])
      BY <3>2, <3>3, Joined
    <3>5. \A i : i \in 1 .. k + 1 <=> i \in 1 .. k \/ i = k + 1
      BY <2>4
    <3>6. \A x : x \in Elems(f[k]) <=> \E i \in 1 .. k : x \in Elems(seqs[i])
      BY <2>4
    <3>7. \A x : x \in Elems(f[k + 1]) <=> \E i \in 1 .. k + 1 : x \in Elems(seqs[i])
      BY <3>4, <3>5, <3>6
    <3>8. QED
      BY <3>1, <3>7
  <2>5. n \in G
    <3>1. \A k \in 1 .. n : k \in G /\ k < n => k + 1 \in G
      BY <2>4
    <3> HIDE DEF G, n
    <3>2. \A k \in 1 .. n : k \in G
      BY <1>1, <2>3, <3>1, UpTo
    <3>3. QED
      BY <2>2, <3>2
  <2>6. f[n] \in Seq(S)
    BY <2>1, <2>2
  <2>7. QED
    BY <2>1, <2>5, <2>6
<1>4. QED
  BY <1>2, <1>3

\* It is ordered if each part is, and the elements of one come before those of the
\* next ones.
LEMMA FlattenOrdered ==
  ASSUME NEW S, NEW seqs \in Seq(Seq(S)), NEW R,
         \A i \in 1 .. Len(seqs) : Ordered(seqs[i], R),
         \A i, j \in 1 .. Len(seqs) :
           i < j => \A x \in Elems(seqs[i]), y \in Elems(seqs[j]) : <<x, y>> \in R
  PROVE  Ordered(FlattenSeq(seqs), R)
<1> DEFINE n == Len(seqs)
<1>1. n \in Nat /\ \A i \in 1 .. n : seqs[i] \in Seq(S)
  OBVIOUS
<1>2. CASE n = 0
  <2>1. FlattenSeq(seqs) = seqs
    BY <1>2 DEF FlattenSeq
  <2>2. QED
    BY <1>2, <2>1 DEF Ordered
<1>3. CASE n # 0
  <2>1. PICK f \in [1 .. n -> Seq(S)] :
          /\ FlattenSeq(seqs) = f[n]
          /\ \A i \in 1 .. n : f[i] = IF i = 1 THEN seqs[i] ELSE f[i - 1] \o seqs[i]
    BY <1>3, FlattenUnfolds
  <2> DEFINE G == {k \in 1 .. n : /\ Ordered(f[k], R)
                                  /\ \A x \in Elems(f[k]) :
                                       \E i \in 1 .. k : x \in Elems(seqs[i])}
  <2>2. 1 \in 1 .. n /\ f[1] = seqs[1] /\ n \in 1 .. n
    <3>1. 1 \in 1 .. n /\ n \in 1 .. n
      BY <1>1, <1>3
    <3>2. QED
      BY <2>1, <3>1
  <2>3. 1 \in G
    BY <2>2
  <2>4. ASSUME NEW k \in 1 .. n, k \in G, k < n
        PROVE  k + 1 \in G
    <3>1. k + 1 \in 1 .. n /\ k + 1 # 1 /\ (k + 1) - 1 = k
      BY <1>1, <2>4
    <3>2. f[k + 1] = f[k] \o seqs[k + 1]
      BY <2>1, <3>1
    <3>3. f[k] \in Seq(S) /\ seqs[k + 1] \in Seq(S)
      BY <1>1, <2>1, <3>1
    <3>4. Elems(f[k + 1]) = Elems(f[k]) \cup Elems(seqs[k + 1])
      BY <3>2, <3>3, Joined
    <3>5. /\ \A i \in 1 .. k : i \in 1 .. k + 1 /\ i \in 1 .. n /\ i < k + 1
          /\ k + 1 \in 1 .. k + 1
      BY <1>1, <2>4
    <3>6. /\ Ordered(f[k], R)
          /\ \A x \in Elems(f[k]) : \E i \in 1 .. k : x \in Elems(seqs[i])
      BY <2>4
    <3>7. \A x \in Elems(f[k]), y \in Elems(seqs[k + 1]) : <<x, y>> \in R
      BY <3>1, <3>5, <3>6
    <3>8. Ordered(f[k + 1], R)
      BY <3>1, <3>2, <3>3, <3>6, <3>7, JoinedOrder
    <3>9. \A x \in Elems(f[k + 1]) : \E i \in 1 .. k + 1 : x \in Elems(seqs[i])
      BY <3>4, <3>5, <3>6
    <3>10. QED
      BY <3>1, <3>8, <3>9
  <2>5. n \in G
    <3>1. \A k \in 1 .. n : k \in G /\ k < n => k + 1 \in G
      BY <2>4
    <3> HIDE DEF G, n
    <3>2. \A k \in 1 .. n : k \in G
      BY <1>1, <2>3, <3>1, UpTo
    <3>3. QED
      BY <2>2, <3>2
  <2>6. QED
    BY <2>1, <2>5
<1>4. QED
  BY <1>2, <1>3

-----------------------------------------------------------------------------
(* What Startup and Teardown do. *)

Steps ==
  [do : {"alloc", "count", "free", "log", "close", "forget"},
   bus : 0 .. Len(Config), dev : Nat, block : Blocks]

\* The busses of the configuration.
LEMMA Configured ==
  /\ Len(Config) \in Nat
  /\ \A b \in Busses :
       /\ b \in Nat /\ b > 0 /\ b \in 0 .. Len(Config)
       /\ Config[b].i2c \in BOOLEAN /\ Len(Config[b].devices) \in Nat
       /\ \A d \in Devices(b) :
            d \in Nat /\ d > 0 /\ Config[b].devices[d] \in {"mcp23017", "pcf8574", "piface"}
<1> DEFINE Bus == [i2c : BOOLEAN, devices : Seq({"mcp23017", "pcf8574", "piface"})]
<1>1. Config \in Seq(Bus)
  BY LifecycleAssumption
<1>2. Len(Config) \in Nat /\ \A b \in 1 .. Len(Config) : Config[b] \in Bus
  <2> HIDE DEF Bus
  <2>1. QED
    BY <1>1
<1>3. ASSUME NEW b \in Busses
      PROVE  /\ Config[b].i2c \in BOOLEAN
             /\ Config[b].devices \in Seq({"mcp23017", "pcf8574", "piface"})
  BY <1>2, <1>3 DEF Busses
<1>4. ASSUME NEW b \in Busses
      PROVE  /\ Len(Config[b].devices) \in Nat
             /\ \A d \in 1 .. Len(Config[b].devices) :
                  Config[b].devices[d] \in {"mcp23017", "pcf8574", "piface"}
  BY <1>3
<1>5. QED
  BY <1>2, <1>3, <1>4 DEF Busses, Devices

\* The blocks are blocks, and different ones.
LEMMA BlockNames ==
  /\ Spi \in Blocks /\ Server \in Blocks /\ Options \in Blocks /\ Stream \in Blocks
  /\ \A b \in Busses :
       BusData(b) \in Blocks
       /\ \A d \in Devices(b) : DevBusData(b, d) \in Blocks /\ DevData(b, d) \in Blocks
<1>1. \A x : x \in Blocks <=>
        x \in {Spi, Server, Options, Stream} \/ \E b \in Busses : x \in BlocksOf(b)
  BY DEF Blocks
<1>2. ASSUME NEW b \in Busses
      PROVE  /\ BusData(b) \in BlocksOf(b)
             /\ \A d \in Devices(b) :
                  DevBusData(b, d) \in BlocksOf(b) /\ DevData(b, d) \in BlocksOf(b)
  BY DEF BlocksOf
<1>3. QED
  BY <1>1, <1>2

\* No block is another one.
LEMMA BlocksDiffer ==
  /\ Spi \notin {Server, Options, Stream}
  /\ \A b, c, d, e :
       /\ BusData(b) \notin {Spi, Server, Options, Stream}
       /\ DevBusData(b, d) \notin {Spi, Server, Options, Stream, BusData(c)}
       /\ DevData(b, d) \notin {Spi, Server, Options, Stream, BusData(c), DevBusData(c, e)}
       /\ BusData(b) = BusData(c) => b = c
       /\ DevData(b, d) = DevData(c, e) => b = c /\ d = e
BY DEF BusData, DevBusData, DevData, Spi, Server, Options, Stream

\* The steps of a bus and of a device.
LEMMA StepsOf ==
  /\ Free(Server) \in Steps /\ Free(Options) \in Steps /\ Free(Stream) \in Steps
  /\ Log(Server) \in Steps /\ Log(Always) \in Steps /\ Forget \in Steps
  /\ Alloc(Server) \in Steps /\ Alloc(Stream) \in Steps
  /\ \A b \in Busses :
       /\ Counted(b, 0) \in Steps /\ Alloc(BusData(b)) \in Steps
       /\ Step("close", b, 0, BusData(b)) \in Steps
       /\ Free(BusData(b)) \in Steps
       /\ \A d \in Devices(b) :
            /\ Counted(b, d) \in Steps
            /\ Alloc(DevBusData(b, d)) \in Steps /\ Alloc(DevData(b, d)) \in Steps
            /\ Alloc(Spi) \in Steps
            /\ Step("free", b, d, DevData(b, d)) \in Steps
            /\ Step("free", b, d, Spi) \in Steps
            /\ Free(DevBusData(b, d)) \in Steps
<1>1. 0 \in 0 .. Len(Config)
  BY Configured
<1>2. QED
  BY <1>1, Configured, BlockNames DEF Steps, Step, Alloc, Counted, Forget, Free, Log, Always

\* A sequence of one step, and one that may be there.
LEMMA Single ==
  ASSUME NEW S, NEW s \in S, NEW R
  PROVE  /\ <<s>> \in Seq(S) /\ Ordered(<<s>>, R)
         /\ \A x : x \in Elems(<<s>>) <=> x = s
<1>1. Len(<<s>>) = 1 /\ <<s>> \in Seq(S) /\ <<s>>[1] = s
  OBVIOUS
<1>2. \A i : i \in 1 .. 1 <=> i = 1
  OBVIOUS
<1>3. ~(1 < 1)
  OBVIOUS
<1> HIDE <1>1
<1>4. Ordered(<<s>>, R)
  <2>1. \A i, j \in 1 .. Len(<<s>>) : ~(i < j)
    BY <1>1, <1>2, <1>3
  <2>2. QED
    BY <2>1 DEF Ordered
<1>5. \A x : x \in Elems(<<s>>) <=> x = s
  BY <1>1, <1>2 DEF Elems
<1>6. QED
  BY <1>1, <1>4, <1>5

\* A sequence of a step that may be there.
LEMMA Perhaps ==
  ASSUME NEW S, NEW s \in S, NEW c \in BOOLEAN, NEW R
  PROVE  /\ If(c, s) \in Seq(S) /\ Ordered(If(c, s), R)
         /\ \A x : x \in Elems(If(c, s)) <=> c /\ x = s
<1>1. CASE c
  <2>1. If(c, s) = <<s>>
    BY <1>1 DEF If
  <2>2. /\ <<s>> \in Seq(S) /\ Ordered(<<s>>, R)
        /\ \A x : x \in Elems(<<s>>) <=> x = s
    BY Single
  <2>3. QED
    BY <1>1, <2>1, <2>2
<1>2. CASE ~c
  <2>1. If(c, s) = <<>>
    BY <1>2 DEF If
  <2>2. /\ <<>> \in Seq(S)
        /\ \A i : i \notin 1 .. Len(<<>>)
    OBVIOUS
  <2>3. QED
    BY <1>2, <2>1, <2>2 DEF Ordered, Elems
<1>3. QED
  BY <1>1, <1>2

\* What a sequence for each of 1 .. n becomes when they are put together.
LEMMA PutTogether ==
  ASSUME NEW S, NEW n \in Nat, NEW f \in [1 .. n -> Seq(S)], NEW R,
         \A i \in 1 .. n : Ordered(f[i], R),
         \A i, j \in 1 .. n :
           i < j => \A x \in Elems(f[i]), y \in Elems(f[j]) : <<x, y>> \in R
  PROVE  /\ FlattenSeq(f) \in Seq(S) /\ Ordered(FlattenSeq(f), R)
         /\ \A x : x \in Elems(FlattenSeq(f)) <=> \E i \in 1 .. n : x \in Elems(f[i])
<1>1. f \in Seq(Seq(S)) /\ Len(f) = n
  <2> DEFINE Q == Seq(S)
  <2>1. f \in [1 .. n -> Q]
    OBVIOUS
  <2> HIDE DEF Q
  <2>2. f \in Seq(Q) /\ Len(f) = n
    BY <2>1
  <2>3. QED
    BY <2>2 DEF Q
<1>2. FlattenSeq(f) \in Seq(S)
      /\ \A x : x \in Elems(FlattenSeq(f)) <=> \E i \in 1 .. n : x \in Elems(f[i])
  BY <1>1, Flattened
<1>3. Ordered(FlattenSeq(f), R)
  BY <1>1, FlattenOrdered
<1>4. QED
  BY <1>2, <1>3

\* A concatenation of two such sequences.
LEMMA PutBoth ==
  ASSUME NEW S, NEW s \in Seq(S), NEW t \in Seq(S), NEW R,
         Ordered(s, R), Ordered(t, R),
         \A x \in Elems(s), y \in Elems(t) : <<x, y>> \in R
  PROVE  /\ s \o t \in Seq(S) /\ Ordered(s \o t, R)
         /\ \A x : x \in Elems(s \o t) <=> x \in Elems(s) \/ x \in Elems(t)
BY Joined, JoinedOrder

-----------------------------------------------------------------------------
(* Startup *)

\* The drivers' allocations.
IsDriver(s) ==
  /\ s.do = "alloc"
  /\ s.block = Spi \/ \E b \in Busses : \E d \in Devices(b) : s.block = DevData(b, d)

\* Busses and devices are counted upwards, and all before the first driver allocates.
InOrder(x, y) ==
  /\ x.do = "count" /\ y.do = "count" =>
       x.bus < y.bus \/ (x.bus = y.bus /\ x.dev <= y.dev)
  /\ IsDriver(x) => y.do # "count"

StartOrder == {p \in Steps \X Steps : InOrder(p[1], p[2])}

\* The order as a relation.
LEMMA StartOrdered ==
  \A x, y \in Steps : <<x, y>> \in StartOrder <=> InOrder(x, y)
BY DEF StartOrder

IsLine(b, x) ==
  \/ x = Counted(b, 0)
  \/ Config[b].i2c /\ x = Alloc(BusData(b))
  \/ \E d \in Devices(b) :
       x = Counted(b, d) \/ (Config[b].i2c /\ x = Alloc(DevBusData(b, d)))

IsInit(b, x) ==
  \E d \in Devices(b) :
    \/ Config[b].devices[d] = "mcp23017" /\ x = Alloc(DevData(b, d))
    \/ Config[b].devices[d] = "piface" /\ x = Alloc(Spi)

\* A line's allocation is no driver's.
LEMMA LinesInOrder ==
  /\ \A b \in Busses : \A x : IsLine(b, x) => x \in Steps /\ ~IsDriver(x)
  /\ \A b \in Busses : \A x : IsInit(b, x) => x \in Steps /\ IsDriver(x)
  /\ \A b \in Busses : \A x, y : IsLine(b, x) /\ IsInit(b, y) => InOrder(x, y)
<1>1. ASSUME NEW b \in Busses, NEW x, IsLine(b, x)
      PROVE  x \in Steps /\ ~IsDriver(x)
  <2>1. x \in Steps
    BY <1>1, StepsOf DEF IsLine
  <2>2. ~IsDriver(x)
    BY <1>1, BlocksDiffer DEF IsLine, IsDriver, Alloc, Counted, Step
  <2>3. QED
    BY <2>1, <2>2
<1>2. ASSUME NEW b \in Busses, NEW x, IsInit(b, x)
      PROVE  x \in Steps /\ IsDriver(x)
  <2>1. x \in Steps
    BY <1>2, StepsOf DEF IsInit
  <2>2. IsDriver(x)
    BY <1>2 DEF IsInit, IsDriver, Alloc, Step
  <2>3. QED
    BY <2>1, <2>2
<1>3. ASSUME NEW b \in Busses, NEW x, NEW y, IsLine(b, x), IsInit(b, y)
      PROVE  InOrder(x, y)
  <2>1. ~IsDriver(x) /\ y.do = "alloc"
    BY <1>1, <1>2, <1>3 DEF IsDriver
  <2>2. QED
    BY <2>1 DEF InOrder
<1>4. QED
  BY <1>1, <1>2, <1>3

\* A device's lines: it is counted, then its bus's data for it allocated.
LEMMA DeviceLinesDo ==
  ASSUME NEW b \in Busses, NEW d \in Devices(b)
  PROVE  /\ DeviceLines(b, d) \in Seq(Steps) /\ Ordered(DeviceLines(b, d), StartOrder)
         /\ \A x : x \in Elems(DeviceLines(b, d)) <=>
              x = Counted(b, d) \/ (Config[b].i2c /\ x = Alloc(DevBusData(b, d)))
<1> DEFINE s == <<Counted(b, d)>>
<1> DEFINE t == If(Config[b].i2c, Alloc(DevBusData(b, d)))
<1>1. /\ s \in Seq(Steps) /\ Ordered(s, StartOrder)
      /\ \A x : x \in Elems(s) <=> x = Counted(b, d)
  BY StepsOf, Single
<1>2. /\ t \in Seq(Steps) /\ Ordered(t, StartOrder)
      /\ \A x : x \in Elems(t) <=> Config[b].i2c /\ x = Alloc(DevBusData(b, d))
  BY StepsOf, Configured, Perhaps
<1>3. DeviceLines(b, d) = s \o t
  BY DEF DeviceLines
<1> HIDE DEF s, t
<1>4. ASSUME NEW x \in Elems(s), NEW y \in Elems(t)
      PROVE  <<x, y>> \in StartOrder
  <2>1. x \in Steps /\ y \in Steps
    BY <1>1, <1>2, StepsOf
  <2>2. x.do = "count" /\ y.do = "alloc"
    BY <1>1, <1>2 DEF Counted, Alloc, Step
  <2>3. InOrder(x, y)
    BY <2>2 DEF InOrder, IsDriver
  <2>4. QED
    BY <2>1, <2>3, StartOrdered
<1>5. /\ s \o t \in Seq(Steps) /\ Ordered(s \o t, StartOrder)
      /\ \A x : x \in Elems(s \o t) <=> x \in Elems(s) \/ x \in Elems(t)
  BY <1>1, <1>2, <1>4, PutBoth
<1>6. QED
  BY <1>1, <1>2, <1>3, <1>5

\* What comes before what, in a bus and across busses.
LEMMA LinesUpwards ==
  /\ \A b, c \in Busses : b < c => \A x, y : IsLine(b, x) /\ IsLine(c, y) => InOrder(x, y)
  /\ \A b \in Busses : \A d, e \in Devices(b) : d < e => InOrder(Counted(b, d), Counted(b, e))
  /\ \A b \in Busses : \A d \in Devices(b) : InOrder(Counted(b, 0), Counted(b, d))
<1>1. ASSUME NEW b \in Busses, NEW c \in Busses, b < c, NEW x, NEW y, IsLine(b, x), IsLine(c, y)
      PROVE  InOrder(x, y)
  <2>1. ~IsDriver(x)
    BY <1>1, LinesInOrder
  <2>2. x.do = "count" => x.bus = b
    BY <1>1 DEF IsLine, Counted, Alloc, Step
  <2>3. y.do = "count" => y.bus = c
    BY <1>1 DEF IsLine, Counted, Alloc, Step
  <2>4. QED
    BY <1>1, <2>1, <2>2, <2>3 DEF InOrder
<1>2. ASSUME NEW b \in Busses, NEW d, NEW e, d <= e
      PROVE  InOrder(Counted(b, d), Counted(b, e))
  BY <1>2 DEF InOrder, IsDriver, Counted, Step
<1>3. ASSUME NEW b \in Busses, NEW d \in Devices(b), NEW e \in Devices(b), d < e
      PROVE  InOrder(Counted(b, d), Counted(b, e))
  <2>1. d <= e
    BY <1>3, Configured
  <2>2. QED
    BY <1>2, <2>1
<1>4. ASSUME NEW b \in Busses, NEW d \in Devices(b)
      PROVE  InOrder(Counted(b, 0), Counted(b, d))
  <2>1. 0 <= d
    BY Configured
  <2>2. QED
    BY <1>2, <2>1
<1>5. QED
  BY <1>1, <1>3, <1>4

\* A bus's lines, and those of its devices.
LEMMA BusLinesDo ==
  ASSUME NEW b \in Busses
  PROVE  /\ BusLines(b) \in Seq(Steps) /\ Ordered(BusLines(b), StartOrder)
         /\ \A x : x \in Elems(BusLines(b)) <=> IsLine(b, x)
<1> DEFINE s == <<Counted(b, 0)>>
<1> DEFINE t == If(Config[b].i2c, Alloc(BusData(b)))
<1> DEFINE f == [d \in Devices(b) |-> DeviceLines(b, d)]
<1> DEFINE u == FlattenSeq(f)
<1> DEFINE IsPart(d, x) ==
      x = Counted(b, d) \/ (Config[b].i2c /\ x = Alloc(DevBusData(b, d)))
<1>1. /\ s \in Seq(Steps) /\ Ordered(s, StartOrder)
      /\ \A x : x \in Elems(s) <=> x = Counted(b, 0)
  BY StepsOf, Single
<1>2. /\ t \in Seq(Steps) /\ Ordered(t, StartOrder)
      /\ \A x : x \in Elems(t) <=> Config[b].i2c /\ x = Alloc(BusData(b))
  BY StepsOf, Configured, Perhaps
<1>3. /\ u \in Seq(Steps) /\ Ordered(u, StartOrder)
      /\ \A x : x \in Elems(u) <=> \E d \in Devices(b) : IsPart(d, x)
  <2> DEFINE n == Len(Config[b].devices)
  <2>1. n \in Nat /\ Devices(b) = 1 .. n
    BY Configured DEF Devices
  <2>2. \A d \in Devices(b) :
          /\ f[d] \in Seq(Steps) /\ Ordered(f[d], StartOrder)
          /\ \A x : x \in Elems(f[d]) <=> IsPart(d, x)
    BY DeviceLinesDo
  <2>3. ASSUME NEW i \in Devices(b), NEW j \in Devices(b), i < j,
               NEW x \in Elems(f[i]), NEW y \in Elems(f[j])
        PROVE  <<x, y>> \in StartOrder
    <3>1. IsPart(i, x) /\ IsPart(j, y)
      BY <2>2, <2>3
    <3>2. x \in Steps /\ y \in Steps
      BY <3>1, StepsOf
    <3>3. InOrder(x, y)
      <4>1. ~IsDriver(x)
        BY <3>1, BlocksDiffer DEF IsDriver, Alloc, Counted, Step
      <4>2. CASE x = Counted(b, i) /\ y = Counted(b, j)
        BY <2>3, <4>2, LinesUpwards
      <4>3. CASE x.do = "alloc" \/ y.do = "alloc"
        BY <4>1, <4>3 DEF InOrder
      <4>4. QED
        BY <3>1, <4>2, <4>3 DEF Alloc, Step
    <3>4. QED
      BY <3>2, <3>3, StartOrdered
  <2>4. f \in [1 .. n -> Seq(Steps)]
    BY <2>1, <2>2
  <2> HIDE DEF f, n, IsPart
  <2>5. /\ FlattenSeq(f) \in Seq(Steps) /\ Ordered(FlattenSeq(f), StartOrder)
        /\ \A x : x \in Elems(FlattenSeq(f)) <=> \E i \in 1 .. n : x \in Elems(f[i])
    BY <2>1, <2>2, <2>3, <2>4, PutTogether
  <2>6. QED
    BY <2>1, <2>2, <2>5
<1>4. BusLines(b) = (s \o t) \o u
  BY DEF BusLines, OverDevices
<1> HIDE DEF s, t, u
<1>5. ASSUME NEW x \in Elems(s), NEW y \in Elems(t)
      PROVE  <<x, y>> \in StartOrder
  <2>1. x \in Steps /\ y \in Steps
    BY <1>1, <1>2, StepsOf
  <2>2. x.do = "count" /\ y.do = "alloc"
    BY <1>1, <1>2 DEF Counted, Alloc, Step
  <2>3. QED
    BY <2>1, <2>2, StartOrdered DEF InOrder, IsDriver
<1>6. /\ s \o t \in Seq(Steps) /\ Ordered(s \o t, StartOrder)
      /\ \A x : x \in Elems(s \o t) <=> x \in Elems(s) \/ x \in Elems(t)
  BY <1>1, <1>2, <1>5, PutBoth
<1>7. ASSUME NEW x \in Elems(s \o t), NEW y \in Elems(u)
      PROVE  <<x, y>> \in StartOrder
  <2>1. IsLine(b, x) /\ IsLine(b, y)
    BY <1>1, <1>2, <1>3, <1>6, <1>7 DEF IsLine
  <2>2. ~IsDriver(x) /\ x \in Steps /\ y \in Steps
    BY <2>1, LinesInOrder
  <2>3. CASE x.do = "count" /\ y.do = "count"
    <3>1. x = Counted(b, 0)
      BY <1>1, <1>2, <1>6, <1>7, <2>3 DEF Alloc, Step
    <3>2. \E d \in Devices(b) : y = Counted(b, d)
      BY <1>3, <1>7, <2>3 DEF Alloc, Step
    <3>3. QED
      BY <2>2, <3>1, <3>2, LinesUpwards, StartOrdered
  <2>4. QED
    BY <2>2, <2>3, StartOrdered DEF InOrder
<1>8. /\ (s \o t) \o u \in Seq(Steps) /\ Ordered((s \o t) \o u, StartOrder)
      /\ \A x : x \in Elems((s \o t) \o u) <=> x \in Elems(s \o t) \/ x \in Elems(u)
  BY <1>3, <1>6, <1>7, PutBoth
<1>9. \A x : x \in Elems((s \o t) \o u) <=> IsLine(b, x)
  BY <1>1, <1>2, <1>3, <1>6, <1>8 DEF IsLine
<1>10. QED
  BY <1>4, <1>8, <1>9

\* The lines of the whole configuration.
LEMMA LinesDo ==
  /\ OverBusses(BusLines) \in Seq(Steps) /\ Ordered(OverBusses(BusLines), StartOrder)
  /\ \A x : x \in Elems(OverBusses(BusLines)) <=> \E b \in Busses : IsLine(b, x)
<1> DEFINE n == Len(Config)
<1> DEFINE f == [b \in Busses |-> BusLines(b)]
<1>1. n \in Nat /\ Busses = 1 .. n
  BY Configured DEF Busses
<1>2. \A b \in Busses :
        /\ f[b] \in Seq(Steps) /\ Ordered(f[b], StartOrder)
        /\ \A x : x \in Elems(f[b]) <=> IsLine(b, x)
  BY BusLinesDo
<1>3. ASSUME NEW i \in Busses, NEW j \in Busses, i < j,
             NEW x \in Elems(f[i]), NEW y \in Elems(f[j])
      PROVE  <<x, y>> \in StartOrder
  <2>1. IsLine(i, x) /\ IsLine(j, y)
    BY <1>2, <1>3
  <2>2. x \in Steps /\ y \in Steps /\ InOrder(x, y)
    BY <1>3, <2>1, LinesInOrder, LinesUpwards
  <2>3. QED
    BY <2>2, StartOrdered
<1>4. f \in [1 .. n -> Seq(Steps)]
  BY <1>1, <1>2
<1>5. OverBusses(BusLines) = FlattenSeq(f)
  BY DEF OverBusses
<1> HIDE DEF f, n
<1>6. /\ FlattenSeq(f) \in Seq(Steps) /\ Ordered(FlattenSeq(f), StartOrder)
      /\ \A x : x \in Elems(FlattenSeq(f)) <=> \E i \in 1 .. n : x \in Elems(f[i])
  BY <1>1, <1>2, <1>3, <1>4, PutTogether
<1>7. QED
  BY <1>1, <1>2, <1>5, <1>6

\* What the drivers of a bus's devices allocate.
LEMMA BusInitDo ==
  ASSUME NEW b \in Busses
  PROVE  /\ BusInit(b) \in Seq(Steps) /\ Ordered(BusInit(b), StartOrder)
         /\ \A x : x \in Elems(BusInit(b)) <=> IsInit(b, x)
<1> DEFINE n == Len(Config[b].devices)
<1> DEFINE f == [d \in Devices(b) |-> DeviceInit(b, d)]
<1> DEFINE IsPart(d, x) ==
      \/ Config[b].devices[d] = "mcp23017" /\ x = Alloc(DevData(b, d))
      \/ Config[b].devices[d] = "piface" /\ x = Alloc(Spi)
<1>1. n \in Nat /\ Devices(b) = 1 .. n
  BY Configured DEF Devices
<1>2. ASSUME NEW x, NEW y, NEW d \in Devices(b), NEW e \in Devices(b), IsPart(d, x), IsPart(e, y)
      PROVE  <<x, y>> \in StartOrder
  <2>1. x \in Steps /\ y \in Steps /\ x.do = "alloc" /\ IsDriver(y)
    BY <1>2, LinesInOrder DEF IsInit, Alloc, Step
  <2>2. y.do # "count"
    BY <2>1 DEF IsDriver
  <2>3. QED
    BY <2>1, <2>2, StartOrdered DEF InOrder
<1>3. ASSUME NEW d \in Devices(b)
      PROVE  /\ f[d] \in Seq(Steps) /\ Ordered(f[d], StartOrder)
             /\ \A x : x \in Elems(f[d]) <=> IsPart(d, x)
  <2> DEFINE s == If(Config[b].devices[d] = "mcp23017", Alloc(DevData(b, d)))
  <2> DEFINE t == If(Config[b].devices[d] = "piface", Alloc(Spi))
  <2>1. /\ s \in Seq(Steps) /\ Ordered(s, StartOrder)
        /\ \A x : x \in Elems(s) <=>
             Config[b].devices[d] = "mcp23017" /\ x = Alloc(DevData(b, d))
    BY StepsOf, Perhaps
  <2>2. /\ t \in Seq(Steps) /\ Ordered(t, StartOrder)
        /\ \A x : x \in Elems(t) <=> Config[b].devices[d] = "piface" /\ x = Alloc(Spi)
    BY StepsOf, Perhaps
  <2>3. f[d] = s \o t
    BY DEF DeviceInit
  <2> HIDE DEF s, t, f
  <2>4. \A x \in Elems(s), y \in Elems(t) : <<x, y>> \in StartOrder
    BY <1>2, <2>1, <2>2
  <2>5. /\ s \o t \in Seq(Steps) /\ Ordered(s \o t, StartOrder)
        /\ \A x : x \in Elems(s \o t) <=> x \in Elems(s) \/ x \in Elems(t)
    BY <2>1, <2>2, <2>4, PutBoth
  <2>6. QED
    BY <2>1, <2>2, <2>3, <2>5
<1>4. f \in [1 .. n -> Seq(Steps)]
  BY <1>1, <1>3
<1>5. BusInit(b) = FlattenSeq(f)
  BY DEF BusInit, OverDevices
<1>6. \A x : IsInit(b, x) <=> \E d \in Devices(b) : IsPart(d, x)
  BY DEF IsInit
<1> HIDE DEF f, n, IsPart
<1>7. /\ FlattenSeq(f) \in Seq(Steps) /\ Ordered(FlattenSeq(f), StartOrder)
      /\ \A x : x \in Elems(FlattenSeq(f)) <=> \E i \in 1 .. n : x \in Elems(f[i])
  BY <1>1, <1>2, <1>3, <1>4, PutTogether
<1>8. QED
  BY <1>1, <1>3, <1>5, <1>6, <1>7

\* What all drivers allocate.
LEMMA InitsDo ==
  /\ OverBusses(BusInit) \in Seq(Steps) /\ Ordered(OverBusses(BusInit), StartOrder)
  /\ \A x : x \in Elems(OverBusses(BusInit)) <=> \E b \in Busses : IsInit(b, x)
<1> DEFINE n == Len(Config)
<1> DEFINE f == [b \in Busses |-> BusInit(b)]
<1>1. n \in Nat /\ Busses = 1 .. n
  BY Configured DEF Busses
<1>2. \A b \in Busses :
        /\ f[b] \in Seq(Steps) /\ Ordered(f[b], StartOrder)
        /\ \A x : x \in Elems(f[b]) <=> IsInit(b, x)
  BY BusInitDo
<1>3. ASSUME NEW i \in Busses, NEW j \in Busses, NEW x \in Elems(f[i]), NEW y \in Elems(f[j])
      PROVE  <<x, y>> \in StartOrder
  <2>1. x \in Steps /\ y \in Steps /\ IsDriver(x) /\ IsDriver(y)
    BY <1>2, <1>3, LinesInOrder
  <2>2. QED
    BY <2>1, StartOrdered DEF InOrder, IsDriver
<1>4. f \in [1 .. n -> Seq(Steps)]
  BY <1>1, <1>2
<1>5. OverBusses(BusInit) = FlattenSeq(f)
  BY DEF OverBusses
<1> HIDE DEF f, n
<1>6. /\ FlattenSeq(f) \in Seq(Steps) /\ Ordered(FlattenSeq(f), StartOrder)
      /\ \A x : x \in Elems(FlattenSeq(f)) <=> \E i \in 1 .. n : x \in Elems(f[i])
  BY <1>1, <1>2, <1>3, <1>4, PutTogether
<1>7. QED
  BY <1>1, <1>2, <1>5, <1>6

\* Everything main does, and in which order it counts.
LEMMA StartupDoes ==
  /\ Startup \in Seq(Steps) /\ Ordered(Startup, StartOrder)
  /\ \A x : x \in Elems(Startup) <=>
       \/ \E b \in Busses : IsLine(b, x) \/ IsInit(b, x)
       \/ AsDaemon /\ x = Alloc(Stream)
       \/ x = Alloc(Server)
<1> DEFINE s == OverBusses(BusLines)
<1> DEFINE f == If(AsDaemon, Alloc(Stream))
<1> DEFINE t == OverBusses(BusInit)
<1> DEFINE u == <<Alloc(Server)>>
<1>1. /\ s \in Seq(Steps) /\ Ordered(s, StartOrder)
      /\ \A x : x \in Elems(s) <=> \E b \in Busses : IsLine(b, x)
  BY LinesDo
<1>2. /\ t \in Seq(Steps) /\ Ordered(t, StartOrder)
      /\ \A x : x \in Elems(t) <=> \E b \in Busses : IsInit(b, x)
  BY InitsDo
<1>3. /\ u \in Seq(Steps) /\ Ordered(u, StartOrder)
      /\ \A x : x \in Elems(u) <=> x = Alloc(Server)
  BY StepsOf, Single
<1>4. /\ f \in Seq(Steps) /\ Ordered(f, StartOrder)
      /\ \A x : x \in Elems(f) <=> AsDaemon /\ x = Alloc(Stream)
  BY StepsOf, Perhaps, LifecycleAssumption
<1>5. Startup = ((s \o f) \o t) \o u
  BY DEF Startup
<1>6. /\ Alloc(Stream).do = "alloc" /\ ~IsDriver(Alloc(Stream))
      /\ Alloc(Server).do = "alloc"
  BY BlocksDiffer DEF IsDriver, Alloc, Step
<1> HIDE DEF s, f, t, u
<1>7. \A x \in Elems(s) : x \in Steps /\ ~IsDriver(x)
  BY <1>1, LinesInOrder
<1>8. \A x \in Elems(f) : x \in Steps /\ x.do = "alloc" /\ ~IsDriver(x)
  BY <1>4, <1>6, StepsOf
<1>9. \A x \in Elems(t) : x \in Steps /\ x.do = "alloc"
  BY <1>2, LinesInOrder DEF IsDriver
<1>10. \A x \in Elems(u) : x \in Steps /\ x.do = "alloc"
  BY <1>3, <1>6, StepsOf
<1>11. \A x, y \in Steps : y.do = "alloc" => <<x, y>> \in StartOrder
  BY StartOrdered DEF InOrder
<1> DEFINE sf == s \o f
<1>12. /\ sf \in Seq(Steps) /\ Ordered(sf, StartOrder)
       /\ \A x : x \in Elems(sf) <=> x \in Elems(s) \/ x \in Elems(f)
  BY <1>1, <1>4, <1>7, <1>8, <1>11, PutBoth
<1> DEFINE sft == sf \o t
<1> HIDE DEF sf
<1>13. /\ sft \in Seq(Steps) /\ Ordered(sft, StartOrder)
       /\ \A x : x \in Elems(sft) <=> x \in Elems(sf) \/ x \in Elems(t)
  BY <1>2, <1>7, <1>8, <1>9, <1>11, <1>12, PutBoth
<1> HIDE DEF sft
<1>14. /\ sft \o u \in Seq(Steps) /\ Ordered(sft \o u, StartOrder)
       /\ \A x : x \in Elems(sft \o u) <=> x \in Elems(sft) \/ x \in Elems(u)
  BY <1>3, <1>7, <1>8, <1>9, <1>10, <1>11, <1>12, <1>13, PutBoth
<1>15. Startup = sft \o u
  BY <1>5 DEF sf, sft
<1>16. QED
  BY <1>1, <1>2, <1>3, <1>4, <1>12, <1>13, <1>14, <1>15

-----------------------------------------------------------------------------
(* Teardown *)

IsData(s) == s.do = "free" /\ \E b \in Busses : s.block = BusData(b)

\* One Spi is freed once, what comes after conf_deinit's first line is of no bus
\* that counts, and a bus's data is freed after it.
InTurn(x, y) ==
  /\ OnePiface => ~(FreesSpi(x) /\ FreesSpi(y))
  /\ x.do = "forget" => y.bus = 0
  /\ IsData(x) => y.do # "forget"

StopOrder == {p \in Steps \X Steps : InTurn(p[1], p[2])}

\* The order as a relation.
LEMMA StopOrdered ==
  \A x, y \in Steps : <<x, y>> \in StopOrder <=> InTurn(x, y)
BY DEF StopOrder

IsDevDeinit(b, d, x) ==
  \/ Config[b].devices[d] = "mcp23017" /\ x = Step("free", b, d, DevData(b, d))
  \/ Config[b].devices[d] = "piface" /\ x = Step("free", b, d, Spi)

IsDeinit(b, x) ==
  \/ \E d \in Devices(b) : IsDevDeinit(b, d, x)
  \/ Config[b].i2c /\ x = Step("close", b, 0, BusData(b))

IsDevDiscard(b, d, x) == Config[b].i2c /\ x = Free(DevBusData(b, d))

IsDiscard(b, x) ==
  \/ \E d \in Devices(b) : IsDevDiscard(b, d, x)
  \/ Config[b].i2c /\ x = Free(BusData(b))

\* What the kinds of steps are, and are not.
LEMMA StopSteps ==
  /\ \A b \in Busses : \A x :
       IsDeinit(b, x) => x \in Steps /\ x.do # "forget" /\ ~IsData(x)
  /\ \A b \in Busses : \A x :
       IsDiscard(b, x) => x \in Steps /\ x.do = "free" /\ x.bus = 0 /\ ~FreesSpi(x)
<1>1. ASSUME NEW b \in Busses, NEW x, IsDeinit(b, x)
      PROVE  x \in Steps /\ x.do # "forget" /\ ~IsData(x)
  <2>1. CASE Config[b].i2c /\ x = Step("close", b, 0, BusData(b))
    <3>1. x \in Steps
      BY <2>1, StepsOf
    <3>2. x.do = "close"
      BY <2>1 DEF Step
    <3>3. QED
      BY <3>1, <3>2 DEF IsData
  <2>2. ASSUME NEW d \in Devices(b), IsDevDeinit(b, d, x)
        PROVE  x \in Steps /\ x.do # "forget" /\ ~IsData(x)
    <3>1. x \in Steps
      BY <2>2, StepsOf DEF IsDevDeinit
    <3>2. x.do = "free" /\ x.block \in {Spi, DevData(b, d)}
      BY <2>2 DEF IsDevDeinit, Step
    <3>3. \A c \in Busses : x.block # BusData(c)
      BY <3>2, BlocksDiffer
    <3>4. QED
      BY <3>1, <3>2, <3>3 DEF IsData
  <2>3. QED
    BY <1>1, <2>1, <2>2 DEF IsDeinit
<1>2. ASSUME NEW b \in Busses, NEW x, IsDiscard(b, x)
      PROVE  x \in Steps /\ x.do = "free" /\ x.bus = 0 /\ ~FreesSpi(x)
  <2>1. x \in Steps
    BY <1>2, StepsOf DEF IsDiscard, IsDevDiscard
  <2>2. x.do = "free" /\ x.bus = 0
    BY <1>2 DEF IsDiscard, IsDevDiscard, Free, Step
  <2>3. x.block # Spi
    BY <1>2, BlocksDiffer DEF IsDiscard, IsDevDiscard, Free, Step
  <2>4. QED
    BY <2>1, <2>2, <2>3 DEF FreesSpi
<1>3. QED
  BY <1>1, <1>2

\* One Spi in the whole configuration is freed by one step.
LEMMA SpiOnce ==
  ASSUME OnePiface, NEW b \in Busses, NEW d \in Devices(b), NEW c \in Busses,
         NEW e \in Devices(c), NEW x, NEW y,
         IsDevDeinit(b, d, x), IsDevDeinit(c, e, y), FreesSpi(x), FreesSpi(y)
  PROVE  b = c /\ d = e
<1>1. Config[b].devices[d] = "piface"
  BY BlocksDiffer DEF IsDevDeinit, FreesSpi, Step
<1>2. Config[c].devices[e] = "piface"
  BY BlocksDiffer DEF IsDevDeinit, FreesSpi, Step
<1>3. QED
  BY <1>1, <1>2 DEF OnePiface

\* The deinit of a device's driver.
LEMMA DeviceDeinitDoes ==
  ASSUME NEW b \in Busses, NEW d \in Devices(b)
  PROVE  /\ DeviceDeinit(b, d) \in Seq(Steps) /\ Ordered(DeviceDeinit(b, d), StopOrder)
         /\ \A x : x \in Elems(DeviceDeinit(b, d)) <=> IsDevDeinit(b, d, x)
<1> DEFINE s == If(Config[b].devices[d] = "mcp23017", Step("free", b, d, DevData(b, d)))
<1> DEFINE t == If(Config[b].devices[d] = "piface", Step("free", b, d, Spi))
<1>1. /\ s \in Seq(Steps) /\ Ordered(s, StopOrder)
      /\ \A x : x \in Elems(s) <=>
           Config[b].devices[d] = "mcp23017" /\ x = Step("free", b, d, DevData(b, d))
  <2> DEFINE k == Step("free", b, d, DevData(b, d))
  <2> DEFINE c == Config[b].devices[d] = "mcp23017"
  <2>1. k \in Steps /\ c \in BOOLEAN
    BY StepsOf
  <2> HIDE DEF k, c
  <2>2. /\ If(c, k) \in Seq(Steps) /\ Ordered(If(c, k), StopOrder)
        /\ \A x : x \in Elems(If(c, k)) <=> c /\ x = k
    BY <2>1, Perhaps
  <2>3. QED
    BY <2>2 DEF c, k
<1>2. /\ t \in Seq(Steps) /\ Ordered(t, StopOrder)
      /\ \A x : x \in Elems(t) <=>
           Config[b].devices[d] = "piface" /\ x = Step("free", b, d, Spi)
  BY StepsOf, Perhaps
<1>3. DeviceDeinit(b, d) = s \o t
  BY DEF DeviceDeinit
<1> HIDE DEF s, t
<1>4. Elems(s) = {} \/ Elems(t) = {}
  BY <1>1, <1>2
<1>5. /\ s \o t \in Seq(Steps) /\ Ordered(s \o t, StopOrder)
      /\ \A x : x \in Elems(s \o t) <=> x \in Elems(s) \/ x \in Elems(t)
  BY <1>1, <1>2, <1>4, PutBoth
<1>6. QED
  BY <1>1, <1>2, <1>3, <1>5 DEF IsDevDeinit

\* The deinits of a bus's devices, and its close.
LEMMA BusDeinitDoes ==
  ASSUME NEW b \in Busses
  PROVE  /\ BusDeinit(b) \in Seq(Steps) /\ Ordered(BusDeinit(b), StopOrder)
         /\ \A x : x \in Elems(BusDeinit(b)) <=> IsDeinit(b, x)
<1> DEFINE n == Len(Config[b].devices)
<1> DEFINE f == [d \in Devices(b) |-> DeviceDeinit(b, d)]
<1> DEFINE t == If(Config[b].i2c, Step("close", b, 0, BusData(b)))
<1>1. n \in Nat /\ Devices(b) = 1 .. n
  BY Configured DEF Devices
<1>2. \A d \in Devices(b) :
        /\ f[d] \in Seq(Steps) /\ Ordered(f[d], StopOrder)
        /\ \A x : x \in Elems(f[d]) <=> IsDevDeinit(b, d, x)
  BY DeviceDeinitDoes
<1>3. ASSUME NEW i \in Devices(b), NEW j \in Devices(b), i < j,
             NEW x \in Elems(f[i]), NEW y \in Elems(f[j])
      PROVE  <<x, y>> \in StopOrder
  <2>1. IsDevDeinit(b, i, x) /\ IsDevDeinit(b, j, y)
    BY <1>2, <1>3
  <2>2. x \in Steps /\ y \in Steps /\ x.do # "forget" /\ ~IsData(x)
    BY <2>1, StopSteps DEF IsDeinit
  <2>3. i # j
    BY <1>1, <1>3
  <2>4. OnePiface => ~(FreesSpi(x) /\ FreesSpi(y))
    BY <2>1, <2>3, SpiOnce
  <2>5. QED
    BY <2>2, <2>4, StopOrdered DEF InTurn
<1>4. f \in [1 .. n -> Seq(Steps)]
  BY <1>1, <1>2
<1>5. /\ t \in Seq(Steps) /\ Ordered(t, StopOrder)
      /\ \A x : x \in Elems(t) <=> Config[b].i2c /\ x = Step("close", b, 0, BusData(b))
  <2> DEFINE k == Step("close", b, 0, BusData(b))
  <2> DEFINE c == Config[b].i2c
  <2>1. k \in Steps /\ c \in BOOLEAN
    BY StepsOf, Configured
  <2> HIDE DEF k, c
  <2>2. /\ If(c, k) \in Seq(Steps) /\ Ordered(If(c, k), StopOrder)
        /\ \A x : x \in Elems(If(c, k)) <=> c /\ x = k
    BY <2>1, Perhaps
  <2>3. QED
    BY <2>2 DEF c, k
<1>6. BusDeinit(b) = FlattenSeq(f) \o t
  BY DEF BusDeinit, OverDevices
<1> HIDE DEF f, n, t
<1>7. /\ FlattenSeq(f) \in Seq(Steps) /\ Ordered(FlattenSeq(f), StopOrder)
      /\ \A x : x \in Elems(FlattenSeq(f)) <=> \E i \in 1 .. n : x \in Elems(f[i])
  BY <1>1, <1>2, <1>3, <1>4, PutTogether
<1>8. ASSUME NEW x \in Elems(FlattenSeq(f)), NEW y \in Elems(t)
      PROVE  <<x, y>> \in StopOrder
  <2>1. IsDeinit(b, x) /\ IsDeinit(b, y)
    BY <1>1, <1>2, <1>5, <1>7, <1>8 DEF IsDeinit
  <2>2. x \in Steps /\ y \in Steps /\ x.do # "forget" /\ ~IsData(x)
    BY <2>1, StopSteps
  <2>3. ~FreesSpi(y)
    BY <1>5, <1>8 DEF FreesSpi, Step
  <2>4. QED
    BY <2>2, <2>3, StopOrdered DEF InTurn
<1>9. /\ FlattenSeq(f) \o t \in Seq(Steps) /\ Ordered(FlattenSeq(f) \o t, StopOrder)
      /\ \A x : x \in Elems(FlattenSeq(f) \o t) <=> x \in Elems(FlattenSeq(f)) \/ x \in Elems(t)
  BY <1>5, <1>7, <1>8, PutBoth
<1>10. QED
  BY <1>1, <1>2, <1>5, <1>6, <1>7, <1>9 DEF IsDeinit

\* The deinits of all busses.
LEMMA DeinitsDo ==
  /\ OverBusses(BusDeinit) \in Seq(Steps) /\ Ordered(OverBusses(BusDeinit), StopOrder)
  /\ \A x : x \in Elems(OverBusses(BusDeinit)) <=> \E b \in Busses : IsDeinit(b, x)
<1> DEFINE n == Len(Config)
<1> DEFINE f == [b \in Busses |-> BusDeinit(b)]
<1>1. n \in Nat /\ Busses = 1 .. n
  BY Configured DEF Busses
<1>2. \A b \in Busses :
        /\ f[b] \in Seq(Steps) /\ Ordered(f[b], StopOrder)
        /\ \A x : x \in Elems(f[b]) <=> IsDeinit(b, x)
  BY BusDeinitDoes
<1>3. ASSUME NEW i \in Busses, NEW j \in Busses, i < j,
             NEW x \in Elems(f[i]), NEW y \in Elems(f[j])
      PROVE  <<x, y>> \in StopOrder
  <2>1. IsDeinit(i, x) /\ IsDeinit(j, y) /\ i # j
    BY <1>1, <1>2, <1>3
  <2>2. x \in Steps /\ y \in Steps /\ x.do # "forget" /\ ~IsData(x)
    BY <2>1, StopSteps
  <2>3. ASSUME OnePiface, FreesSpi(x), FreesSpi(y)
        PROVE  FALSE
    <3>1. (\E d \in Devices(i) : IsDevDeinit(i, d, x)) /\ \E e \in Devices(j) : IsDevDeinit(j, e, y)
      BY <2>1, <2>3 DEF IsDeinit, FreesSpi, Step
    <3>2. QED
      BY <2>1, <2>3, <3>1, SpiOnce
  <2>4. QED
    BY <2>2, <2>3, StopOrdered DEF InTurn
<1>4. f \in [1 .. n -> Seq(Steps)]
  BY <1>1, <1>2
<1>5. OverBusses(BusDeinit) = FlattenSeq(f)
  BY DEF OverBusses
<1> HIDE DEF f, n
<1>6. /\ FlattenSeq(f) \in Seq(Steps) /\ Ordered(FlattenSeq(f), StopOrder)
      /\ \A x : x \in Elems(FlattenSeq(f)) <=> \E i \in 1 .. n : x \in Elems(f[i])
  BY <1>1, <1>2, <1>3, <1>4, PutTogether
<1>7. QED
  BY <1>1, <1>2, <1>5, <1>6

\* What conf_deinit discards of a bus.
LEMMA BusDiscardDoes ==
  ASSUME NEW b \in Busses
  PROVE  /\ BusDiscard(b) \in Seq(Steps) /\ Ordered(BusDiscard(b), StopOrder)
         /\ \A x : x \in Elems(BusDiscard(b)) <=> IsDiscard(b, x)
<1> DEFINE n == Len(Config[b].devices)
<1> DEFINE f == [d \in Devices(b) |-> DeviceDiscard(b, d)]
<1> DEFINE t == If(Config[b].i2c, Free(BusData(b)))
<1>1. n \in Nat /\ Devices(b) = 1 .. n
  BY Configured DEF Devices
<1>2. \A d \in Devices(b) :
        /\ f[d] \in Seq(Steps) /\ Ordered(f[d], StopOrder)
        /\ \A x : x \in Elems(f[d]) <=> IsDevDiscard(b, d, x)
  <2> TAKE d \in Devices(b)
  <2> DEFINE k == Free(DevBusData(b, d))
  <2> DEFINE c == Config[b].i2c
  <2>1. k \in Steps /\ c \in BOOLEAN
    BY StepsOf, Configured
  <2>2. f[d] = If(c, k) /\ \A x : IsDevDiscard(b, d, x) <=> c /\ x = k
    BY DEF DeviceDiscard, IsDevDiscard
  <2> HIDE DEF k, c, f
  <2>3. /\ If(c, k) \in Seq(Steps) /\ Ordered(If(c, k), StopOrder)
        /\ \A x : x \in Elems(If(c, k)) <=> c /\ x = k
    BY <2>1, Perhaps
  <2>4. QED
    BY <2>2, <2>3
<1>3. ASSUME NEW x, NEW y, IsDiscard(b, x), IsDiscard(b, y)
      PROVE  <<x, y>> \in StopOrder
  <2>1. /\ x \in Steps /\ y \in Steps /\ x.do # "forget" /\ y.do # "forget"
        /\ ~FreesSpi(x)
    BY <1>3, StopSteps
  <2>2. QED
    BY <2>1, StopOrdered DEF InTurn
<1>4. f \in [1 .. n -> Seq(Steps)]
  BY <1>1, <1>2
<1>5. /\ t \in Seq(Steps) /\ Ordered(t, StopOrder)
      /\ \A x : x \in Elems(t) <=> Config[b].i2c /\ x = Free(BusData(b))
  BY StepsOf, Configured, Perhaps
<1>6. BusDiscard(b) = FlattenSeq(f) \o t
  BY DEF BusDiscard, OverDevices
<1> HIDE DEF f, n, t
<1>7. \A i \in 1 .. n : \A x \in Elems(f[i]) : IsDiscard(b, x)
  BY <1>1, <1>2 DEF IsDiscard
<1>8. /\ FlattenSeq(f) \in Seq(Steps) /\ Ordered(FlattenSeq(f), StopOrder)
      /\ \A x : x \in Elems(FlattenSeq(f)) <=> \E i \in 1 .. n : x \in Elems(f[i])
  BY <1>1, <1>2, <1>3, <1>4, <1>7, PutTogether
<1>9. ASSUME NEW x \in Elems(FlattenSeq(f)), NEW y \in Elems(t)
      PROVE  <<x, y>> \in StopOrder
  <2>1. IsDiscard(b, x)
    BY <1>7, <1>8
  <2>2. IsDiscard(b, y)
    BY <1>5 DEF IsDiscard
  <2>3. QED
    BY <1>3, <2>1, <2>2
<1>10. /\ FlattenSeq(f) \o t \in Seq(Steps) /\ Ordered(FlattenSeq(f) \o t, StopOrder)
       /\ \A x : x \in Elems(FlattenSeq(f) \o t) <=> x \in Elems(FlattenSeq(f)) \/ x \in Elems(t)
  BY <1>5, <1>8, <1>9, PutBoth
<1>11. QED
  BY <1>1, <1>2, <1>5, <1>6, <1>8, <1>10 DEF IsDiscard

\* What it discards of all busses.
LEMMA DiscardsDo ==
  /\ OverBusses(BusDiscard) \in Seq(Steps) /\ Ordered(OverBusses(BusDiscard), StopOrder)
  /\ \A x : x \in Elems(OverBusses(BusDiscard)) <=> \E b \in Busses : IsDiscard(b, x)
<1> DEFINE n == Len(Config)
<1> DEFINE f == [b \in Busses |-> BusDiscard(b)]
<1>1. n \in Nat /\ Busses = 1 .. n
  BY Configured DEF Busses
<1>2. \A b \in Busses :
        /\ f[b] \in Seq(Steps) /\ Ordered(f[b], StopOrder)
        /\ \A x : x \in Elems(f[b]) <=> IsDiscard(b, x)
  BY BusDiscardDoes
<1>3. ASSUME NEW i \in Busses, NEW j \in Busses, NEW x \in Elems(f[i]), NEW y \in Elems(f[j])
      PROVE  <<x, y>> \in StopOrder
  <2>1. /\ x \in Steps /\ y \in Steps /\ x.do # "forget" /\ y.do # "forget"
        /\ ~FreesSpi(x)
    BY <1>2, <1>3, StopSteps
  <2>2. QED
    BY <2>1, StopOrdered DEF InTurn
<1>4. f \in [1 .. n -> Seq(Steps)]
  BY <1>1, <1>2
<1>5. OverBusses(BusDiscard) = FlattenSeq(f)
  BY DEF OverBusses
<1> HIDE DEF f, n
<1>6. /\ FlattenSeq(f) \in Seq(Steps) /\ Ordered(FlattenSeq(f), StopOrder)
      /\ \A x : x \in Elems(FlattenSeq(f)) <=> \E i \in 1 .. n : x \in Elems(f[i])
  BY <1>1, <1>2, <1>3, <1>4, PutTogether
<1>7. QED
  BY <1>1, <1>2, <1>5, <1>6

\* A sequence of three steps.
LEMMA Triple ==
  ASSUME NEW S, NEW a \in S, NEW c \in S, NEW e \in S, NEW R,
         <<a, c>> \in R, <<a, e>> \in R, <<c, e>> \in R
  PROVE  /\ <<a, c, e>> \in Seq(S) /\ Ordered(<<a, c, e>>, R)
         /\ \A x : x \in Elems(<<a, c, e>>) <=> x \in {a, c, e}
<1> DEFINE s == <<a, c, e>>
<1>1. s \in Seq(S) /\ Len(s) = 3 /\ s[1] = a /\ s[2] = c /\ s[3] = e
  OBVIOUS
<1>2. \A i : i \in 1 .. 3 <=> i = 1 \/ i = 2 \/ i = 3
  OBVIOUS
<1>3. \A i, j \in 1 .. 3 :
        i < j => (i = 1 /\ j = 2) \/ (i = 1 /\ j = 3) \/ (i = 2 /\ j = 3)
  OBVIOUS
<1> HIDE DEF s
<1>4. Ordered(s, R)
  BY <1>1, <1>3 DEF Ordered
<1>5. \A x : x \in Elems(s) <=> x \in {a, c, e}
  BY <1>1, <1>2 DEF Elems
<1>6. QED
  BY <1>1, <1>4, <1>5 DEF s

\* The steps of a handler that are of no bus.
LEMMA OwnSteps ==
  \A x \in {Log(Server), Free(Server), Log(Always), Free(Options), Free(Stream)} :
    /\ x \in Steps /\ x.do \in {"free", "log"} /\ x.bus = 0
    /\ ~FreesSpi(x) /\ ~IsData(x)
    /\ \A y \in Steps : <<x, y>> \in StopOrder /\ <<y, x>> \in StopOrder
<1> SUFFICES ASSUME NEW x \in {Log(Server), Free(Server), Log(Always), Free(Options),
                               Free(Stream)}
             PROVE  /\ x \in Steps /\ x.do \in {"free", "log"} /\ x.bus = 0
                    /\ ~FreesSpi(x) /\ ~IsData(x)
                    /\ \A y \in Steps : <<x, y>> \in StopOrder /\ <<y, x>> \in StopOrder
  OBVIOUS
<1>1. x \in Steps
  BY StepsOf
<1>2. x.do \in {"free", "log"} /\ x.bus = 0
  BY DEF Free, Log, Step
<1>3. x.do = "log" \/ x.block \in {Server, Options, Stream}
  BY DEF Free, Log, Step
<1>4. ~FreesSpi(x) /\ ~IsData(x)
  BY <1>3, BlocksDiffer DEF FreesSpi, IsData
<1>5. \A y \in Steps : InTurn(x, y) /\ InTurn(y, x)
  BY <1>2, <1>4 DEF InTurn
<1>6. QED
  BY <1>1, <1>2, <1>4, <1>5, StopOrdered

\* What a handler does before io_deinit, and after conf_deinit.
LEMMA EndsDo ==
  /\ StopServer \in Seq(Steps) /\ Ordered(StopServer, StopOrder)
  /\ \A x : x \in Elems(StopServer) <=> x \in {Log(Server), Free(Server), Log(Always)}
  /\ CloseFiles \in Seq(Steps) /\ Ordered(CloseFiles, StopOrder)
  /\ \A x : x \in Elems(CloseFiles) <=> x \in {Free(Options), Free(Stream), Log(Always)}
<1> DEFINE a == Log(Server)
<1> DEFINE c == Free(Server)
<1> DEFINE e == Log(Always)
<1> DEFINE o == Free(Options)
<1> DEFINE p == Free(Stream)
<1>1. StopServer = <<a, c, e>> /\ CloseFiles = <<o, p, e>>
  BY DEF StopServer, CloseFiles
<1>2. \A x \in {a, c, e, o, p} :
        x \in Steps /\ \A y \in Steps : <<x, y>> \in StopOrder
  BY OwnSteps
<1> HIDE DEF a, c, e, o, p
<1>3. a \in Steps /\ c \in Steps /\ e \in Steps /\ o \in Steps /\ p \in Steps
  BY <1>2
<1>4. /\ <<a, c>> \in StopOrder /\ <<a, e>> \in StopOrder /\ <<c, e>> \in StopOrder
      /\ <<o, p>> \in StopOrder /\ <<o, e>> \in StopOrder /\ <<p, e>> \in StopOrder
  BY <1>2
<1>5. /\ <<a, c, e>> \in Seq(Steps) /\ Ordered(<<a, c, e>>, StopOrder)
      /\ \A x : x \in Elems(<<a, c, e>>) <=> x \in {a, c, e}
  BY <1>3, <1>4, Triple
<1>6. /\ <<o, p, e>> \in Seq(Steps) /\ Ordered(<<o, p, e>>, StopOrder)
      /\ \A x : x \in Elems(<<o, p, e>>) <=> x \in {o, p, e}
  BY <1>3, <1>4, Triple
<1>7. QED
  BY <1>1, <1>5, <1>6 DEF a, c, e, o, p

\* Everything a handler does.
LEMMA TeardownDoes ==
  /\ Teardown \in Seq(Steps) /\ Ordered(Teardown, StopOrder)
  /\ \A x : x \in Elems(Teardown) <=>
       \/ x \in {Log(Server), Free(Server), Log(Always), Free(Options), Free(Stream)}
       \/ x = Forget
       \/ \E b \in Busses : IsDeinit(b, x) \/ IsDiscard(b, x)
<1> DEFINE s == StopServer
<1> DEFINE t == OverBusses(BusDeinit)
<1> DEFINE u == <<Forget>>
<1> DEFINE v == OverBusses(BusDiscard)
<1> DEFINE w == CloseFiles
<1> DEFINE Own == {Log(Server), Free(Server), Log(Always), Free(Options), Free(Stream)}
<1>1. /\ t \in Seq(Steps) /\ Ordered(t, StopOrder)
      /\ \A x : x \in Elems(t) <=> \E b \in Busses : IsDeinit(b, x)
  BY DeinitsDo
<1>2. /\ v \in Seq(Steps) /\ Ordered(v, StopOrder)
      /\ \A x : x \in Elems(v) <=> \E b \in Busses : IsDiscard(b, x)
  BY DiscardsDo
<1> DEFINE st == s \o t
<1> DEFINE stu == st \o u
<1> DEFINE stuv == stu \o v
<1>3. Teardown = stuv \o w
  BY DEF Teardown
<1>4. /\ Forget \in Steps /\ Forget.do = "forget" /\ Forget.bus = 0
      /\ ~FreesSpi(Forget) /\ ~IsData(Forget)
  BY StepsOf DEF Step, Forget, FreesSpi, IsData
<1>5. /\ s \in Seq(Steps) /\ Ordered(s, StopOrder)
      /\ w \in Seq(Steps) /\ Ordered(w, StopOrder)
      /\ \A x : x \in Elems(s) => x \in Own
      /\ \A x : x \in Elems(w) => x \in Own
      /\ \A x : x \in Own <=> x \in Elems(s) \/ x \in Elems(w)
  BY EndsDo
<1>6. \A x \in Own :
        /\ x \in Steps /\ x.do # "forget" /\ ~IsData(x)
        /\ \A y \in Steps : <<x, y>> \in StopOrder /\ <<y, x>> \in StopOrder
  BY OwnSteps
<1>7. /\ u \in Seq(Steps) /\ Ordered(u, StopOrder)
      /\ \A x : x \in Elems(u) <=> x = Forget
  BY <1>4, Single
<1> HIDE DEF s, t, u, v, w, Own
<1>8. /\ st \in Seq(Steps) /\ Ordered(st, StopOrder)
      /\ \A x : x \in Elems(st) <=> x \in Elems(s) \/ x \in Elems(t)
  <2>1. \A x \in Elems(s), y \in Elems(t) : <<x, y>> \in StopOrder
    BY <1>1, <1>5, <1>6, StopSteps
  <2>2. QED
    BY <1>1, <1>5, <2>1, PutBoth
<1> HIDE DEF st
<1>9. \A x \in Elems(st) : x \in Steps /\ x.do # "forget" /\ ~IsData(x)
  <2>1. \A x \in Elems(s) : x \in Steps /\ x.do # "forget" /\ ~IsData(x)
    BY <1>5, <1>6
  <2>2. \A x \in Elems(t) : x \in Steps /\ x.do # "forget" /\ ~IsData(x)
    BY <1>1, StopSteps
  <2>3. QED
    BY <1>8, <2>1, <2>2
<1>10. /\ stu \in Seq(Steps) /\ Ordered(stu, StopOrder)
       /\ \A x : x \in Elems(stu) <=> x \in Elems(st) \/ x \in Elems(u)
  <2>1. ASSUME NEW x \in Elems(st), NEW y \in Elems(u)
        PROVE  <<x, y>> \in StopOrder
    <3>1. InTurn(x, y) /\ x \in Steps /\ y \in Steps
      BY <1>4, <1>7, <1>9 DEF InTurn
    <3>2. QED
      BY <3>1, StopOrdered
  <2>2. QED
    BY <1>7, <1>8, <2>1, PutBoth
<1> HIDE DEF stu
<1>11. /\ stuv \in Seq(Steps) /\ Ordered(stuv, StopOrder)
       /\ \A x : x \in Elems(stuv) <=> x \in Elems(stu) \/ x \in Elems(v)
  <2>1. ASSUME NEW x \in Elems(stu), NEW y \in Elems(v)
        PROVE  <<x, y>> \in StopOrder
    <3>1. x \in Steps /\ ~IsData(x)
      BY <1>4, <1>7, <1>9, <1>10
    <3>2. y \in Steps /\ ~FreesSpi(y) /\ y.bus = 0
      BY <1>2, StopSteps
    <3>3. InTurn(x, y)
      BY <3>1, <3>2 DEF InTurn
    <3>4. QED
      BY <3>1, <3>2, <3>3, StopOrdered
  <2>2. QED
    BY <1>2, <1>10, <2>1, PutBoth
<1> HIDE DEF stuv
<1>12. /\ stuv \o w \in Seq(Steps) /\ Ordered(stuv \o w, StopOrder)
       /\ \A x : x \in Elems(stuv \o w) <=> x \in Elems(stuv) \/ x \in Elems(w)
  <2>1. \A x \in Elems(stuv) : x \in Steps
    BY <1>2, <1>4, <1>7, <1>9, <1>10, <1>11, StopSteps
  <2>2. \A x \in Elems(stuv), y \in Elems(w) : <<x, y>> \in StopOrder
    BY <1>5, <1>6, <2>1
  <2>3. QED
    BY <1>5, <1>11, <2>2, PutBoth
<1>13. \A x : x \in Elems(Teardown) <=>
         \/ x \in Own \/ x = Forget
         \/ \E b \in Busses : IsDeinit(b, x) \/ IsDiscard(b, x)
  BY <1>1, <1>2, <1>3, <1>5, <1>7, <1>8, <1>10, <1>11, <1>12
<1>14. QED
  BY <1>3, <1>12, <1>13 DEF Own

-----------------------------------------------------------------------------
(* The same, by position: all that the invariant's proof uses. *)

\* Startup counts upwards and allocates.
LEMMA StartupShape ==
  /\ Len(Startup) \in Nat
  /\ \A i \in 1 .. Len(Startup) :
       /\ Startup[i] \in Steps /\ Startup[i].do \in {"count", "alloc"}
       /\ Startup[i].do = "count" =>
            /\ Startup[i].bus \in Busses
            /\ Startup[i].dev <= Len(Config[Startup[i].bus].devices)
       /\ Startup[i].do = "alloc" => Startup[i] = Alloc(Startup[i].block)
  /\ \A i, j \in 1 .. Len(Startup) :
       i < j /\ Startup[i].do = "count" /\ Startup[j].do = "count" =>
         \/ Startup[i].bus < Startup[j].bus
         \/ Startup[i].bus = Startup[j].bus /\ Startup[i].dev <= Startup[j].dev
  /\ \A b \in Busses :
       /\ Config[b].i2c => \E i \in 1 .. Len(Startup) : Startup[i] = Alloc(BusData(b))
       /\ \A d \in Devices(b) :
            Config[b].devices[d] = "piface" =>
              \E i \in 1 .. Len(Startup) : Startup[i] = Alloc(Spi)
<1>1. Startup \in Seq(Steps)
  BY StartupDoes
<1>2. Len(Startup) \in Nat /\ \A i \in 1 .. Len(Startup) : Startup[i] \in Steps
  <2> HIDE DEF Startup
  <2>1. QED
    BY <1>1
<1>3. ASSUME NEW i \in 1 .. Len(Startup)
      PROVE  /\ Startup[i].do \in {"count", "alloc"}
             /\ Startup[i].do = "count" =>
                  /\ Startup[i].bus \in Busses
                  /\ Startup[i].dev <= Len(Config[Startup[i].bus].devices)
             /\ Startup[i].do = "alloc" => Startup[i] = Alloc(Startup[i].block)
  <2> DEFINE x == Startup[i]
  <2>1. x \in Elems(Startup)
    BY DEF Elems
  <2> HIDE DEF x
  <2>2. \/ \E b \in Busses : IsLine(b, x) \/ IsInit(b, x)
        \/ x = Alloc(Stream) \/ x = Alloc(Server)
    BY <2>1, StartupDoes
  <2>3. \/ \E b \in Busses : x = Counted(b, 0) \/ \E d \in Devices(b) : x = Counted(b, d)
        \/ \E b : x = Alloc(b)
    BY <2>2 DEF IsLine, IsInit
  <2>4. \A b \in Busses :
          /\ 0 <= Len(Config[b].devices)
          /\ \A d \in Devices(b) : d <= Len(Config[b].devices)
    BY Configured DEF Devices
  <2>5. /\ x.do \in {"count", "alloc"}
        /\ x.do = "count" => x.bus \in Busses /\ x.dev <= Len(Config[x.bus].devices)
        /\ x.do = "alloc" => x = Alloc(x.block)
    BY <2>3, <2>4 DEF Counted, Alloc, Step
  <2>6. QED
    BY <2>5 DEF x
<1>4. ASSUME NEW i \in 1 .. Len(Startup), NEW j \in 1 .. Len(Startup),
             i < j, Startup[i].do = "count", Startup[j].do = "count"
      PROVE  \/ Startup[i].bus < Startup[j].bus
             \/ Startup[i].bus = Startup[j].bus /\ Startup[i].dev <= Startup[j].dev
  <2>1. <<Startup[i], Startup[j]>> \in StartOrder
    BY <1>4, StartupDoes DEF Ordered
  <2>2. InOrder(Startup[i], Startup[j])
    BY <1>2, <2>1, StartOrdered
  <2>3. QED
    BY <1>4, <2>2 DEF InOrder
<1>5. ASSUME NEW b \in Busses, Config[b].i2c
      PROVE  \E i \in 1 .. Len(Startup) : Startup[i] = Alloc(BusData(b))
  <2>1. Alloc(BusData(b)) \in Elems(Startup)
    BY <1>5, StartupDoes DEF IsLine
  <2>2. QED
    BY <2>1 DEF Elems
<1>6. ASSUME NEW b \in Busses, NEW d \in Devices(b), Config[b].devices[d] = "piface"
      PROVE  \E i \in 1 .. Len(Startup) : Startup[i] = Alloc(Spi)
  <2>1. Alloc(Spi) \in Elems(Startup)
    BY <1>6, StartupDoes DEF IsInit
  <2>2. QED
    BY <2>1 DEF Elems
<1>7. QED
  BY <1>2, <1>3, <1>4, <1>5, <1>6

\* Teardown's closes and its frees of the Spi are of the configuration, one Spi is
\* freed once, and a bus's data only after the busses are forgotten, when nothing of a
\* bus is left to be visited.
LEMMA TeardownShape ==
  /\ Len(Teardown) \in Nat
  /\ \A i \in 1 .. Len(Teardown) :
       /\ Teardown[i] \in Steps /\ Teardown[i].do \in {"free", "log", "close", "forget"}
       /\ Teardown[i].do = "forget" => Teardown[i] = Forget
       /\ Teardown[i].do = "close" =>
            /\ Teardown[i].bus \in Busses /\ Teardown[i].dev = 0
            /\ Config[Teardown[i].bus].i2c /\ Teardown[i].block = BusData(Teardown[i].bus)
       /\ FreesSpi(Teardown[i]) =>
            /\ Teardown[i].bus \in Busses /\ Teardown[i].dev \in Devices(Teardown[i].bus)
            /\ Config[Teardown[i].bus].devices[Teardown[i].dev] = "piface"
       /\ IsData(Teardown[i]) => \E k \in 1 .. Len(Teardown) : k < i /\ Teardown[k] = Forget
  /\ \A i, j \in 1 .. Len(Teardown) :
       i < j /\ Teardown[i] = Forget => Teardown[j].bus = 0
  /\ OnePiface =>
       \A i, j \in 1 .. Len(Teardown) :
         FreesSpi(Teardown[i]) /\ FreesSpi(Teardown[j]) => i = j
<1>1. Teardown \in Seq(Steps)
  BY TeardownDoes
<1>2. Len(Teardown) \in Nat /\ \A i \in 1 .. Len(Teardown) : Teardown[i] \in Steps
  <2> HIDE DEF Teardown
  <2>1. QED
    BY <1>1
<1>3. ASSUME NEW i \in 1 .. Len(Teardown)
      PROVE  /\ Teardown[i].do \in {"free", "log", "close", "forget"}
             /\ Teardown[i].do = "forget" => Teardown[i] = Forget
             /\ Teardown[i].do = "close" =>
                  /\ Teardown[i].bus \in Busses /\ Teardown[i].dev = 0
                  /\ Config[Teardown[i].bus].i2c
                  /\ Teardown[i].block = BusData(Teardown[i].bus)
             /\ FreesSpi(Teardown[i]) =>
                  /\ Teardown[i].bus \in Busses
                  /\ Teardown[i].dev \in Devices(Teardown[i].bus)
                  /\ Config[Teardown[i].bus].devices[Teardown[i].dev] = "piface"
  <2> DEFINE x == Teardown[i]
  <2>1. x \in Elems(Teardown)
    BY DEF Elems
  <2> HIDE DEF x
  <2> DEFINE Good ==
        /\ x.do \in {"free", "log", "close", "forget"}
        /\ x.do = "forget" => x = Forget
        /\ x.do = "close" =>
             /\ x.bus \in Busses /\ x.dev = 0
             /\ Config[x.bus].i2c /\ x.block = BusData(x.bus)
        /\ FreesSpi(x) =>
             /\ x.bus \in Busses /\ x.dev \in Devices(x.bus)
             /\ Config[x.bus].devices[x.dev] = "piface"
  <2>2. ASSUME x = Forget \/ x \in {Log(Server), Free(Server), Log(Always), Free(Options),
                                    Free(Stream)}
        PROVE  Good
    <3>1. CASE x = Forget
      BY <3>1 DEF Forget, Step, FreesSpi
    <3>2. CASE x # Forget
      BY <2>2, <3>2, OwnSteps
    <3>3. QED
      BY <3>1, <3>2
  <2>3. ASSUME NEW b \in Busses, IsDiscard(b, x)
        PROVE  Good
    BY <2>3, StopSteps
  <2>4. ASSUME NEW b \in Busses, IsDeinit(b, x)
        PROVE  Good
    <3>1. CASE Config[b].i2c /\ x = Step("close", b, 0, BusData(b))
      BY <3>1 DEF Step, FreesSpi
    <3>2. ASSUME NEW d \in Devices(b), IsDevDeinit(b, d, x)
          PROVE  Good
      <4>1. CASE x = Step("free", b, d, DevData(b, d))
        BY <4>1, BlocksDiffer DEF Step, FreesSpi
      <4>2. CASE Config[b].devices[d] = "piface" /\ x = Step("free", b, d, Spi)
        BY <4>2 DEF Step, FreesSpi
      <4>3. QED
        BY <3>2, <4>1, <4>2 DEF IsDevDeinit
    <3>3. QED
      BY <2>4, <3>1, <3>2 DEF IsDeinit
  <2> HIDE DEF Good
  <2>5. Good
    BY <2>1, <2>2, <2>3, <2>4, TeardownDoes
  <2>6. QED
    BY <2>5 DEF Good, x
<1>4. ASSUME NEW i \in 1 .. Len(Teardown), NEW j \in 1 .. Len(Teardown), i < j
      PROVE  InTurn(Teardown[i], Teardown[j])
  <2>1. <<Teardown[i], Teardown[j]>> \in StopOrder
    BY <1>4, TeardownDoes DEF Ordered
  <2>2. QED
    BY <1>2, <2>1, StopOrdered
<1>5. ASSUME NEW i \in 1 .. Len(Teardown), IsData(Teardown[i])
      PROVE  \E k \in 1 .. Len(Teardown) : k < i /\ Teardown[k] = Forget
  <2>1. Forget \in Elems(Teardown) /\ Forget.do = "forget"
    BY TeardownDoes DEF Forget, Step
  <2>2. PICK k \in 1 .. Len(Teardown) : Teardown[k] = Forget
    BY <2>1 DEF Elems
  <2>3. k # i
    BY <1>5, <2>1, <2>2 DEF IsData
  <2>4. ~(i < k)
    BY <1>4, <1>5, <2>1, <2>2 DEF InTurn
  <2>5. k < i
    BY <1>2, <2>3, <2>4
  <2>6. QED
    BY <2>2, <2>5
<1>6. ASSUME NEW i \in 1 .. Len(Teardown), NEW j \in 1 .. Len(Teardown), i < j, Teardown[i] = Forget
      PROVE  Teardown[j].bus = 0
  BY <1>4, <1>6 DEF InTurn, Forget, Step
<1>7. ASSUME OnePiface, NEW i \in 1 .. Len(Teardown), NEW j \in 1 .. Len(Teardown),
             FreesSpi(Teardown[i]), FreesSpi(Teardown[j])
      PROVE  i = j
  <2>1. ~(i < j) /\ ~(j < i)
    BY <1>4, <1>7 DEF InTurn
  <2>2. QED
    BY <1>2, <2>1
<1>8. QED
  BY <1>2, <1>3, <1>5, <1>6, <1>7

\* Each block that Startup allocates is freed by a step of Teardown, and if that is
\* only done for a device that counts, Startup has counted it before.
LEMMA EachIsFreed ==
  /\ \E j \in 1 .. Len(Teardown) : Teardown[j] = Free(Options)
  /\ \A i \in 1 .. Len(Startup) :
       Startup[i].do = "alloc" =>
         \E j \in 1 .. Len(Teardown) :
           /\ Teardown[j].do = "free" /\ Teardown[j].block = Startup[i].block
           /\ Teardown[j].bus > 0 =>
                \E k \in 1 .. Len(Startup) :
                  k < i /\ Startup[k] = Counted(Teardown[j].bus, Teardown[j].dev)
<1>1. \E j \in 1 .. Len(Teardown) : Teardown[j] = Free(Options)
  <2>1. Free(Options) \in Elems(Teardown)
    BY TeardownDoes
  <2>2. QED
    BY <2>1 DEF Elems
<1>2. ASSUME NEW i \in 1 .. Len(Startup), Startup[i].do = "alloc"
      PROVE  \E j \in 1 .. Len(Teardown) :
               /\ Teardown[j].do = "free" /\ Teardown[j].block = Startup[i].block
               /\ Teardown[j].bus > 0 =>
                    \E k \in 1 .. Len(Startup) :
                      k < i /\ Startup[k] = Counted(Teardown[j].bus, Teardown[j].dev)
  <2> DEFINE x == Startup[i]
  <2> DEFINE Freed(y) ==
        /\ y.do = "free" /\ y.block = x.block
        /\ y.bus > 0 =>
             \E k \in 1 .. Len(Startup) : k < i /\ Startup[k] = Counted(y.bus, y.dev)
  <2>1. x \in Elems(Startup) /\ x \in Steps /\ x.do = "alloc"
    BY <1>2, StartupShape DEF Elems
  <2>2. \/ \E b \in Busses : IsLine(b, x) \/ IsInit(b, x)
        \/ x = Alloc(Stream) \/ x = Alloc(Server)
    BY <2>1, StartupDoes
  <2>3. ASSUME NEW b \in Busses, NEW d \in Devices(b), IsInit(b, x)
        PROVE  \E k \in 1 .. Len(Startup) : k < i /\ Startup[k] = Counted(b, d)
    <3>1. Counted(b, d) \in Elems(Startup) /\ Counted(b, d).do = "count"
      <4>1. IsLine(b, Counted(b, d))
        BY DEF IsLine
      <4>2. QED
        BY <4>1, StartupDoes DEF Counted, Step
    <3>2. PICK k \in 1 .. Len(Startup) : Startup[k] = Counted(b, d)
      BY <3>1 DEF Elems
    <3>3. k # i
      BY <2>1, <3>1, <3>2
    <3>4. IsDriver(x)
      BY <2>3, LinesInOrder
    <3>5. ~(i < k)
      <4>1. ASSUME i < k
            PROVE  FALSE
        <5>1. <<Startup[i], Startup[k]>> \in StartOrder
          BY <4>1, StartupDoes DEF Ordered
        <5>2. InOrder(Startup[i], Startup[k])
          BY <5>1, StartupShape, StartOrdered
        <5>3. QED
          BY <3>1, <3>2, <3>4, <5>2 DEF InOrder
      <4>2. QED
        BY <4>1
    <3>6. k < i
      BY <3>3, <3>5, StartupShape
    <3>7. QED
      BY <3>2, <3>6
  <2> HIDE DEF x
  <2>4. ASSUME NEW k \in {Stream, Server}, x = Alloc(k)
        PROVE  \E y \in Elems(Teardown) : Freed(y)
    <3>1. Free(k) \in Elems(Teardown)
      BY TeardownDoes
    <3>2. Freed(Free(k))
      BY <2>4 DEF Alloc, Free, Step
    <3>3. QED
      BY <3>1, <3>2
  <2>5. ASSUME NEW b \in Busses, IsLine(b, x)
        PROVE  \E y \in Elems(Teardown) : Freed(y)
    <3>1. CASE Config[b].i2c /\ x = Alloc(BusData(b))
      <4>1. Free(BusData(b)) \in Elems(Teardown)
        BY <3>1, TeardownDoes DEF IsDiscard
      <4>2. Freed(Free(BusData(b)))
        BY <3>1 DEF Alloc, Free, Step
      <4>3. QED
        BY <4>1, <4>2
    <3>2. ASSUME NEW d \in Devices(b), Config[b].i2c, x = Alloc(DevBusData(b, d))
          PROVE  \E y \in Elems(Teardown) : Freed(y)
      <4>1. Free(DevBusData(b, d)) \in Elems(Teardown)
        BY <3>2, TeardownDoes DEF IsDiscard, IsDevDiscard
      <4>2. Freed(Free(DevBusData(b, d)))
        BY <3>2 DEF Alloc, Free, Step
      <4>3. QED
        BY <4>1, <4>2
    <3>3. QED
      BY <2>1, <2>5, <3>1, <3>2 DEF IsLine, Counted, Step
  <2>6. ASSUME NEW b \in Busses, NEW d \in Devices(b), IsInit(b, x),
               NEW y, IsDevDeinit(b, d, y), y.block = x.block
        PROVE  \E z \in Elems(Teardown) : Freed(z)
    <3>1. y \in Elems(Teardown)
      BY <2>6, TeardownDoes DEF IsDeinit
    <3>2. y.do = "free" /\ y.bus = b /\ y.dev = d
      BY <2>6 DEF IsDevDeinit, Step
    <3>3. Freed(y)
      BY <2>3, <2>6, <3>2
    <3>4. QED
      BY <3>1, <3>3
  <2>7. ASSUME NEW b \in Busses, IsInit(b, x)
        PROVE  \E y \in Elems(Teardown) : Freed(y)
    <3>1. PICK d \in Devices(b) :
            \/ Config[b].devices[d] = "mcp23017" /\ x = Alloc(DevData(b, d))
            \/ Config[b].devices[d] = "piface" /\ x = Alloc(Spi)
      BY <2>7 DEF IsInit
    <3>2. \E y : IsDevDeinit(b, d, y) /\ y.block = x.block
      <4>1. CASE Config[b].devices[d] = "mcp23017" /\ x = Alloc(DevData(b, d))
        <5>1. /\ IsDevDeinit(b, d, Step("free", b, d, DevData(b, d)))
              /\ Step("free", b, d, DevData(b, d)).block = x.block
          BY <4>1 DEF IsDevDeinit, Alloc, Step
        <5>2. QED
          BY <5>1
      <4>2. CASE Config[b].devices[d] = "piface" /\ x = Alloc(Spi)
        <5>1. /\ IsDevDeinit(b, d, Step("free", b, d, Spi))
              /\ Step("free", b, d, Spi).block = x.block
          BY <4>2 DEF IsDevDeinit, Alloc, Step
        <5>2. QED
          BY <5>1
      <4>3. QED
        BY <3>1, <4>1, <4>2
    <3>3. QED
      BY <2>6, <2>7, <3>2
  <2>8. PICK y \in Elems(Teardown) : Freed(y)
    BY <2>2, <2>4, <2>5, <2>7
  <2>9. PICK j \in 1 .. Len(Teardown) : Teardown[j] = y
    BY DEF Elems
  <2>10. QED
    BY <2>8, <2>9 DEF x
<1>3. QED
  BY <1>1, <1>2

-----------------------------------------------------------------------------
(* The types. *)

\* The frame that runs.
LEMMA TopFrame ==
  ASSUME frames \in Seq(Frames), frames # <<>>
  PROVE  /\ Len(frames) \in Nat \ {0} /\ Top \in Frames
         /\ Top.item \in 1 .. Len(Teardown) + 1 /\ Top.phase \in {"ready", "inside", "freed"}
<1>1. Len(frames) \in Nat \ {0} /\ Top \in Frames
  <2> HIDE DEF Frames
  <2>1. QED
    BY DEF Top
<1>2. QED
  BY <1>1 DEF Frames

\* It goes to its next step,
LEMMA NextFrame ==
  ASSUME frames \in Seq(Frames), frames # <<>>, Top.item <= Len(Teardown), NextItem
  PROVE  /\ frames' \in Seq(Frames) /\ frames' # <<>>
         /\ Top'.item = Top.item + 1 /\ Top'.phase = "ready"
<1> DEFINE n == Len(frames)
<1> DEFINE e == [item |-> Top.item + 1, phase |-> "ready"]
<1>1. n \in Nat \ {0} /\ n \in 1 .. n /\ e \in Frames
  BY TopFrame, TeardownShape DEF Frames
<1>2. frames' = [frames EXCEPT ![n] = e]
  BY DEF NextItem
<1> HIDE DEF e
<1>3. frames' \in Seq(Frames) /\ Len(frames') = n /\ frames'[n] = e
  BY <1>1, <1>2
<1>4. frames' # <<>> /\ Top' = e
  BY <1>1, <1>3 DEF Top
<1>5. QED
  BY <1>3, <1>4 DEF e

\* or to another phase of its step.
LEMMA PhaseFrame ==
  ASSUME frames \in Seq(Frames), frames # <<>>, NEW p \in {"ready", "inside", "freed"}, Phase(p)
  PROVE  /\ frames' \in Seq(Frames) /\ frames' # <<>>
         /\ Top'.item = Top.item /\ Top'.phase = p
<1> DEFINE n == Len(frames)
<1> DEFINE e == [Top EXCEPT !.phase = p]
<1>1. /\ n \in Nat \ {0} /\ n \in 1 .. n /\ e \in Frames
      /\ e.item = Top.item /\ e.phase = p
  BY TopFrame DEF Frames
<1>2. frames' = [frames EXCEPT ![n] = e]
  BY DEF Phase, Top
<1> HIDE DEF e
<1>3. frames' \in Seq(Frames) /\ Len(frames') = n /\ frames'[n] = e
  BY <1>1, <1>2
<1>4. frames' # <<>> /\ Top' = e
  BY <1>1, <1>3 DEF Top
<1>5. QED
  BY <1>1, <1>3, <1>4

\* A handler that begins.
LEMMA NewFrame ==
  ASSUME frames \in Seq(Frames),
         frames' = Append(frames, [item |-> 1, phase |-> "ready"])
  PROVE  /\ frames' \in Seq(Frames) /\ frames' # <<>>
         /\ Top'.item = 1 /\ Top'.phase = "ready"
<1> DEFINE e == [item |-> 1, phase |-> "ready"]
<1>1. e \in Frames
  BY TeardownShape DEF Frames
<1>2. e.item = 1 /\ e.phase = "ready" /\ frames' = Append(frames, e)
  OBVIOUS
<1> HIDE DEF e, Frames
<1>3. /\ frames' \in Seq(Frames) /\ frames' # <<>>
      /\ frames'[Len(frames')] = e
  BY <1>1, <1>2
<1>4. QED
  BY <1>2, <1>3 DEF Top

\* What it is at, when it is somewhere.
LEMMA ThisStep ==
  ASSUME frames \in Seq(Frames), frames # <<>>, Top.item <= Len(Teardown)
  PROVE  /\ Top.item \in 1 .. Len(Teardown) /\ This \in Steps
         /\ This.do \in {"free", "log", "close", "forget"}
         /\ This.block \in Blocks
<1>1. Top.item \in 1 .. Len(Teardown)
  BY TopFrame, TeardownShape
<1>2. This \in Steps /\ This.do \in {"free", "log", "close", "forget"}
  BY <1>1, TeardownShape DEF This
<1>3. QED
  BY <1>1, <1>2 DEF Steps

\* The types hold at first,
LEMMA TypeInit == Init => TypeInv
<1> SUFFICES ASSUME Init
             PROVE  TypeInv
  OBVIOUS
<1>1. TypeOK
  <2>1. 1 \in 1 .. Len(Startup) + 1 /\ <<>> \in Seq(Frames) /\ 0 \in 0 .. Len(Config)
    BY StartupShape, Configured
  <2>2. Options \in Blocks
    BY BlockNames
  <2>3. QED
    BY <2>1, <2>2 DEF Init, TypeOK, Signals
<1>2. \A b \in Busses : num_devices[b] <= Len(Config[b].devices)
  BY Configured DEF Init
<1>3. QED
  BY <1>1, <1>2 DEF TypeInv, Init

MainStep == Count \/ EnterLibc \/ LeaveLibc \/ Malloc \/ Store

\* are kept by main,
LEMMA TypeMain ==
  ASSUME TypeInv, MainStep
  PROVE  TypeInv'
<1>1. frames = <<>> /\ frames' = <<>> /\ main \in 1 .. Len(Startup) + 1 /\ Len(Startup) \in Nat
  BY StartupShape
     DEF TypeInv, TypeOK, MainStep, Count, EnterLibc, LeaveLibc, Malloc, Store, InMain
<1>2. ASSUME main <= Len(Startup)
      PROVE  /\ main \in 1 .. Len(Startup) /\ Now \in Steps /\ Now.block \in Blocks
             /\ main + 1 \in 1 .. Len(Startup) + 1 /\ Now = Startup[main]
  BY <1>1, <1>2, StartupShape DEF Now, Steps
<1>3. ASSUME Count
      PROVE  TypeInv'
  <2>1. main \in 1 .. Len(Startup) /\ Now.do = "count" /\ main' \in 1 .. Len(Startup) + 1
    BY <1>2, <1>3 DEF Count, Doing
  <2>2. Now.bus \in Busses /\ Now.dev \in Nat /\ Now.dev <= Len(Config[Now.bus].devices)
    BY <2>1, StartupShape DEF Now, Steps
  <2>3. num_busses' \in 0 .. Len(Config)
    BY <1>3, <2>2, Configured DEF Count
  <2>4. /\ num_devices' \in [Busses -> Nat]
        /\ \A b \in Busses : num_devices'[b] <= Len(Config[b].devices)
    BY <1>3, <2>2 DEF Count, TypeInv, TypeOK
  <2>5. unstored' = {}
    BY <1>3, <2>1 DEF Count, TypeInv, Doing
  <2>6. TypeOK'
    BY <1>3, <2>1, <2>3, <2>4 DEF Count, TypeInv, TypeOK
  <2>7. QED
    BY <1>1, <2>4, <2>5, <2>6 DEF TypeInv
<1>4. ASSUME EnterLibc \/ LeaveLibc
      PROVE  TypeInv'
  BY <1>1, <1>4 DEF EnterLibc, LeaveLibc, TypeInv, TypeOK, Doing, Now
<1>5. ASSUME Malloc
      PROVE  TypeInv'
  <2>1. Now.block \in Blocks
    BY <1>2, <1>5 DEF Malloc, Doing
  <2>2. TypeOK'
    BY <1>5, <2>1 DEF Malloc, TypeInv, TypeOK
  <2>3. Doing("alloc")' /\ unstored' = {Now'.block}
    BY <1>5 DEF Malloc, Doing, Now
  <2>4. \A b \in Busses : num_devices'[b] <= Len(Config[b].devices)
    BY <1>5 DEF Malloc, TypeInv
  <2>5. QED
    BY <1>1, <2>2, <2>3, <2>4 DEF TypeInv
<1>6. ASSUME Store
      PROVE  TypeInv'
  <2>1. main' \in 1 .. Len(Startup) + 1
    BY <1>2, <1>6 DEF Store, TypeInv, Doing
  <2>2. TypeOK'
    BY <1>6, <2>1 DEF Store, TypeInv, TypeOK
  <2>3. \A b \in Busses : num_devices'[b] <= Len(Config[b].devices)
    BY <1>6 DEF Store, TypeInv
  <2>4. QED
    BY <1>1, <1>6, <2>2, <2>3 DEF TypeInv, Store
<1>7. QED
  BY <1>3, <1>4, <1>5, <1>6 DEF MainStep

\* Where each action of a handler leaves the frame that runs.
LEMMA HandlerFrames ==
  ASSUME TypeInv, Handler
  PROVE  /\ frames # <<>> /\ frames' \in Seq(Frames) /\ frames' # <<>>
         /\ \/ frames' = frames /\ mem' = mem
            \/ /\ Top.item <= Len(Teardown) /\ Top'.item = Top.item + 1
               /\ Top'.phase = "ready"
            \/ /\ Top.item <= Len(Teardown) /\ Top'.item = Top.item
               /\ Top.phase = "ready" /\ Top'.phase = "inside" /\ This.do \in {"free", "log"}
            \/ /\ Top.item <= Len(Teardown) /\ Top'.item = Top.item
               /\ Top.phase = "inside" /\ Top'.phase = "freed" /\ This.do = "free"
               /\ mem' = [mem EXCEPT ![This.block] = "freed"]
<1>1. frames \in Seq(Frames) /\ frames # <<>>
  BY DEF TypeInv, TypeOK, Handler, Close, ForgetBusses, Skip, Enter, Leave, Nullify, Exit,
         Ready, InHandler
<1>2. CASE frames' = frames /\ mem' = mem
  BY <1>1, <1>2
<1>3. CASE NextItem /\ Top.item <= Len(Teardown)
  BY <1>1, <1>3, NextFrame
<1>4. CASE /\ Phase("inside") /\ Top.item <= Len(Teardown)
           /\ Top.phase = "ready" /\ This.do \in {"free", "log"}
  BY <1>1, <1>4, PhaseFrame
<1>5. CASE /\ Phase("freed") /\ Top.item <= Len(Teardown)
           /\ Top.phase = "inside" /\ This.do = "free"
           /\ mem' = [mem EXCEPT ![This.block] = "freed"]
  BY <1>1, <1>5, PhaseFrame
<1>6. CASE Close
  BY <1>2, <1>3, <1>6 DEF Close, Ready, Use, GoesWrong
<1>7. CASE ForgetBusses
  BY <1>3, <1>7 DEF ForgetBusses, Ready
<1>8. CASE Skip
  BY <1>3, <1>8 DEF Skip, Ready
<1>9. CASE Enter
  BY <1>2, <1>4, <1>9 DEF Enter, Ready, Use, GoesWrong
<1>10. CASE Leave
  <2>1. Top.item <= Len(Teardown) /\ This.do \in {"free", "log"} /\ Top.phase = "inside"
    BY <1>1, <1>10 DEF Leave, TypeInv
  <2>2. QED
    BY <1>3, <1>5, <1>10, <2>1 DEF Leave
<1>11. CASE Nullify
  <2>1. Top.item <= Len(Teardown)
    BY <1>1, <1>11 DEF Nullify, TypeInv
  <2>2. QED
    BY <1>3, <1>11, <2>1 DEF Nullify
<1>12. CASE Exit
  BY <1>2, <1>12 DEF Exit
<1>13. QED
  BY <1>6, <1>7, <1>8, <1>9, <1>10, <1>11, <1>12 DEF Handler

\* What no action of a handler changes.
LEMMA HandlerLeaves ==
  ASSUME Handler
  PROVE  InHandler /\ UNCHANGED <<main, handled, unstored, num_devices, found>>
BY DEF Handler, Close, ForgetBusses, Skip, Enter, Leave, Nullify, Exit, Ready, InHandler

\* by a handler,
LEMMA TypeHandler ==
  ASSUME TypeInv, Handler
  PROVE  TypeInv'
<1>1. frames \in Seq(Frames) /\ frames # <<>> /\ frames' \in Seq(Frames)
  BY HandlerFrames DEF TypeInv, TypeOK
<1>2. num_busses' \in 0 .. Len(Config)
  <2>1. num_busses' = num_busses \/ num_busses' = 0
    BY DEF Handler, Close, ForgetBusses, Skip, Enter, Leave, Nullify, Exit
  <2>2. num_busses \in 0 .. Len(Config) /\ 0 \in 0 .. Len(Config)
    BY Configured DEF TypeInv, TypeOK
  <2>3. QED
    BY <2>1, <2>2
<1>3. outcome' \in {"running", "exited"} \cup Wrong /\ libc' \in BOOLEAN
  BY DEF TypeInv, TypeOK, Handler, Close, ForgetBusses, Skip, Enter, Leave, Nullify, Exit,
         Use, GoesWrong, Wrong
<1>4. ptr' \subseteq Blocks
  BY DEF TypeInv, TypeOK, Handler, Close, ForgetBusses, Skip, Enter, Leave, Nullify, Exit
<1>5. mem' \in [Blocks -> {"none", "live", "freed"}]
  BY DEF TypeInv, TypeOK, Handler, Close, ForgetBusses, Skip, Enter, Leave, Nullify, Exit
<1>6. TypeOK'
  BY <1>1, <1>2, <1>3, <1>4, <1>5, HandlerLeaves DEF TypeInv, TypeOK
<1>7. /\ \A b \in Busses : num_devices'[b] <= Len(Config[b].devices)
      /\ unstored' # {} => Doing("alloc")' /\ unstored' = {Now'.block}
  BY HandlerLeaves DEF TypeInv, Doing, Now
<1>8. CASE frames' = frames /\ mem' = mem
  BY <1>6, <1>7, <1>8 DEF TypeInv, Top, This
<1>9. CASE Top'.phase = "ready"
  BY <1>6, <1>7, <1>9 DEF TypeInv
<1>10. CASE /\ Top.item <= Len(Teardown) /\ Top'.item = Top.item
            /\ Top'.phase \in {"inside", "freed"} /\ This.do \in {"free", "log"}
            /\ Top'.phase = "freed" =>
                 This.do = "free" /\ mem' = [mem EXCEPT ![This.block] = "freed"]
  <2>1. This' = This
    BY <1>10 DEF This
  <2>2. This.block \in Blocks
    BY <1>1, <1>10, ThisStep
  <2>3. Top'.phase = "freed" => mem'[This'.block] = "freed"
    BY <1>10, <2>1, <2>2 DEF TypeInv, TypeOK
  <2>4. QED
    BY <1>6, <1>7, <1>10, <2>1, <2>3 DEF TypeInv
<1>11. QED
  BY <1>8, <1>9, <1>10, HandlerFrames

\* and when one begins.
LEMMA TypeArrive ==
  ASSUME TypeInv, NEW s \in Signals, Arrive(s)
  PROVE  TypeInv'
<1>1. frames' \in Seq(Frames) /\ Top'.phase = "ready"
  BY NewFrame DEF TypeInv, TypeOK, Arrive
<1>2. found' \subseteq Amiss
  BY DEF Arrive, TypeInv, TypeOK
<1>3. TypeOK'
  BY <1>1, <1>2 DEF TypeInv, TypeOK, Arrive
<1>4. /\ \A b \in Busses : num_devices'[b] <= Len(Config[b].devices)
      /\ unstored' # {} => Doing("alloc")' /\ unstored' = {Now'.block}
  BY DEF Arrive, TypeInv, Doing, Now
<1>5. QED
  BY <1>1, <1>3, <1>4 DEF TypeInv

\* The types are kept by every step.
LEMMA TypeNext ==
  ASSUME TypeInv, [Next]_vars
  PROVE  TypeInv'
<1>1. CASE UNCHANGED vars
  BY <1>1 DEF vars, TypeInv, TypeOK, Top, This, Doing, Now
<1>2. QED
  BY <1>1, TypeMain, TypeHandler, TypeArrive DEF Next, MainStep

-----------------------------------------------------------------------------
(* The steps of main. *)

\* A device or a bus is counted after all that the configuration has before it.
LEMMA CountKeeps ==
  ASSUME TypeInv, MainInv, Count
  PROVE  MainInv'
<1>1. /\ frames = <<>> /\ frames' = <<>> /\ main' = main + 1
      /\ UNCHANGED <<mem, ptr, unstored, found>>
      /\ num_busses' = Now.bus /\ main \in 1 .. Len(Startup) /\ Now.do = "count"
      /\ num_devices \in [Busses -> Nat]
  BY StartupShape DEF Count, InMain, Doing, TypeInv, TypeOK
<1>2. /\ Now.bus \in Busses /\ Now.bus \in Nat /\ Now.dev \in Nat
      /\ Now = Startup[main]
  BY <1>1, StartupShape, Configured DEF Now, Steps
<1>3. num_devices'[Now.bus] >= Now.dev
      /\ (Now.dev # 0 => num_devices'[Now.bus] = Now.dev)
      /\ (Now.dev = 0 => num_devices' = num_devices)
      /\ (\A b \in Busses : b # Now.bus => num_devices'[b] = num_devices[b])
  BY <1>1, <1>2 DEF Count
<1>4. ASSUME NEW i \in 1 .. Len(Startup), i < main', Startup[i].do = "count"
      PROVE  Visited(Startup[i])'
  <2> DEFINE s == Startup[i]
  <2>1. s.bus \in Busses /\ s.bus \in Nat /\ s.dev \in Nat
    BY <1>4, StartupShape, Configured DEF Steps
  <2>2. CASE i = main
    BY <1>1, <1>2, <1>3, <2>1, <2>2 DEF Visited
  <2>3. CASE i < main
    <3>1. /\ s.bus <= Now.bus
          /\ s.bus = Now.bus => s.dev <= Now.dev
      <4>1. s.bus < Now.bus \/ (s.bus = Now.bus /\ s.dev <= Now.dev)
        BY <1>1, <1>2, <1>4, <2>3, StartupShape
      <4>2. QED
        BY <1>2, <2>1, <4>1
    <3>2. s.bus > 0 => s.dev <= num_devices[s.bus]
      BY <1>1, <1>4, <2>3 DEF MainInv, Visited
    <3>3. s.bus > 0 => s.dev <= num_devices'[s.bus]
      <4>1. CASE s.bus = Now.bus /\ Now.dev # 0
        BY <1>3, <3>1, <4>1
      <4>2. CASE s.bus # Now.bus \/ Now.dev = 0
        BY <1>3, <2>1, <3>2, <4>2
      <4>3. QED
        BY <4>1, <4>2
    <3>4. QED
      BY <1>1, <3>1, <3>3 DEF Visited
  <2>4. QED
    BY <1>1, <1>4, <2>2, <2>3
<1>5. ASSUME NEW i \in 1 .. Len(Startup), i < main', Startup[i].do = "alloc"
      PROVE  Startup[i].block \in ptr'
  <2>1. i < main
    BY <1>1, <1>2, <1>5
  <2>2. QED
    BY <1>1, <1>5, <2>1 DEF MainInv
<1>6. ASSUME NEW x \in Blocks \ unstored', mem'[x] = "live", x # Options
      PROVE  \E i \in 1 .. Len(Startup) : i < main' /\ Startup[i] = Alloc(x)
  <2>1. PICK i \in 1 .. Len(Startup) : i < main /\ Startup[i] = Alloc(x)
    BY <1>1, <1>6 DEF MainInv
  <2>2. i < main'
    BY <1>1, <2>1
  <2>3. QED
    BY <2>1, <2>2
<1>7. QED
  BY <1>1, <1>4, <1>5, <1>6 DEF MainInv

\* What main allocates is not stored,
LEMMA MallocKeeps ==
  ASSUME TypeInv, MainInv, Malloc
  PROVE  MainInv'
<1>1. /\ frames = <<>> /\ frames' = <<>> /\ unstored = {} /\ unstored' = {Now.block}
      /\ mem' = [mem EXCEPT ![Now.block] = "live"]
      /\ mem \in [Blocks -> {"none", "live", "freed"}] /\ ptr \subseteq Blocks
      /\ UNCHANGED <<main, ptr, num_busses, num_devices, found>>
  BY DEF Malloc, InMain, TypeInv, TypeOK
<1>2. Now.block \in Blocks
  <2>1. main \in 1 .. Len(Startup)
    BY StartupShape DEF Malloc, Doing, TypeInv, TypeOK
  <2>2. QED
    BY <2>1, StartupShape DEF Now, Steps
<1>3. \A s : Visited(s)' <=> Visited(s)
  BY <1>1 DEF Visited
<1>4. \A x \in ptr' \cup unstored' : mem'[x] = "live"
  BY <1>1, <1>2 DEF MainInv
<1>5. \A x \in Blocks \ unstored' : mem'[x] = mem[x] /\ x \notin unstored
  BY <1>1
<1>6. QED
  BY <1>1, <1>3, <1>4, <1>5 DEF MainInv

\* and when it is stored, that is a step main has done.
LEMMA StoreKeeps ==
  ASSUME TypeInv, MainInv, Store
  PROVE  MainInv'
<1>1. /\ frames = <<>> /\ frames' = <<>> /\ main' = main + 1
      /\ unstored = {Now.block} /\ unstored' = {} /\ ptr' = ptr \cup unstored
      /\ UNCHANGED <<mem, num_busses, num_devices, found>>
      /\ main \in 1 .. Len(Startup)
      /\ Now.do = "alloc" /\ Len(Startup) \in Nat /\ Now = Startup[main]
  BY StartupShape DEF Store, InMain, TypeInv, TypeOK, Doing, Now
<1>2. Startup[main] = Alloc(Now.block)
  BY <1>1, StartupShape
<1>3. \A s : Visited(s)' <=> Visited(s)
  BY <1>1 DEF Visited
<1>4. ASSUME NEW i \in 1 .. Len(Startup), i < main'
      PROVE  /\ Startup[i].do = "count" => Visited(Startup[i])'
             /\ Startup[i].do = "alloc" => Startup[i].block \in ptr'
  <2>1. CASE i = main
    BY <1>1, <2>1
  <2>2. CASE i # main
    <3>1. i < main
      BY <1>1, <1>4, <2>2
    <3>2. QED
      BY <1>1, <1>3, <3>1 DEF MainInv
  <2>3. QED
    BY <2>1, <2>2
<1>5. ASSUME NEW x \in Blocks, mem'[x] = "live", x # Options
      PROVE  \E i \in 1 .. Len(Startup) : i < main' /\ Startup[i] = Alloc(x)
  <2>1. CASE x = Now.block
    <3>1. Startup[main] = Alloc(x) /\ main < main'
      BY <1>1, <1>2, <2>1
    <3>2. QED
      BY <1>1, <3>1
  <2>2. CASE x # Now.block
    <3>1. PICK i \in 1 .. Len(Startup) : i < main /\ Startup[i] = Alloc(x)
      BY <1>1, <1>5, <2>2 DEF MainInv
    <3>2. i < main'
      BY <1>1, <3>1
    <3>3. QED
      BY <3>1, <3>2
  <2>3. QED
    BY <2>1, <2>2
<1>6. \A x \in ptr' \cup unstored' : mem'[x] = "live"
  BY <1>1 DEF MainInv
<1>7. QED
  BY <1>1, <1>4, <1>5, <1>6 DEF MainInv

\* What holds while main runs is kept by main.
LEMMA MainKeeps ==
  ASSUME TypeInv, Inner, MainStep
  PROVE  Inner'
<1>1. frames = <<>> /\ frames' = <<>> /\ found' = found
  BY DEF MainStep, Count, EnterLibc, LeaveLibc, Malloc, Store, InMain
<1>2. MainInv'
  <2>1. CASE EnterLibc \/ LeaveLibc
    <3>1. UNCHANGED <<main, frames, unstored, ptr, mem, num_busses, num_devices, found>>
      BY <2>1 DEF EnterLibc, LeaveLibc
    <3>2. \A s : Visited(s)' <=> Visited(s)
      BY <3>1 DEF Visited
    <3>3. QED
      BY <3>1, <3>2 DEF Inner, MainInv
  <2>2. QED
    BY <2>1, CountKeeps, MallocKeeps, StoreKeeps DEF Inner, MainStep
<1>3. PtrInv'
  <2>1. \A x \in Blocks : mem'[x] = "live" => x \in ptr' \cup unstored'
    <3>1. CASE Malloc
      BY <3>1 DEF Malloc, Inner, PtrInv, TypeInv, TypeOK
    <3>2. CASE Store
      BY <3>2 DEF Store, Inner, PtrInv
    <3>3. CASE Count \/ EnterLibc \/ LeaveLibc
      BY <3>3 DEF Count, EnterLibc, LeaveLibc, Inner, PtrInv
    <3>4. QED
      BY <3>1, <3>2, <3>3 DEF MainStep
  <2>2. QED
    BY <1>1, <2>1 DEF PtrInv
<1>4. FoundInv'
  <2>1. found' = {}
    BY <1>1 DEF Inner, MainInv
  <2>2. QED
    BY <1>1, <2>1 DEF FoundInv
<1>5. LibcInv' /\ BusInv' /\ SpiInv' /\ LeftInv'
  BY <1>1 DEF LibcInv, BusInv, SpiInv, LeftInv
<1>6. QED
  BY <1>2, <1>3, <1>4, <1>5 DEF Inner

-----------------------------------------------------------------------------
(* The steps of a handler. *)

\* When the process goes wrong or exits, nothing else changes.
LEMMA Stays ==
  ASSUME Inner, UNCHANGED <<main, frames, handled, libc, unstored, ptr, mem, num_busses,
                            num_devices, found>>
  PROVE  Inner'
<1>1. /\ Top' = Top /\ This' = This /\ (Missing' <=> Missing) /\ (Polling' <=> Polling)
      /\ \A s : Visited(s)' <=> Visited(s)
  BY DEF Top, This, Missing, PiFaceCounted, Polling, Visited
<1>2. LibcInv' /\ PtrInv' /\ MainInv'
  BY <1>1 DEF Inner, LibcInv, PtrInv, MainInv
<1>3. BusInv' /\ SpiInv' /\ LeftInv' /\ FoundInv'
  BY <1>1 DEF Inner, BusInv, SpiInv, LeftInv, FoundInv
<1>4. QED
  BY <1>2, <1>3 DEF Inner

\* When the Spi is freed for a device, that is a PiFace that counts.
LEMMA SpiOfPiFace ==
  ASSUME TypeInv, NEW j \in 1 .. Len(Teardown), FreesSpi(Teardown[j]), Visited(Teardown[j])
  PROVE  PiFaceCounted
<1> DEFINE b == Teardown[j].bus
<1> DEFINE d == Teardown[j].dev
<1>1. b \in Busses /\ d \in Devices(b) /\ Config[b].devices[d] = "piface"
  BY TeardownShape
<1>2. b > 0 /\ b \in Nat /\ d > 0 /\ d \in Nat
  BY <1>1, Configured
<1>3. b <= num_busses /\ d <= num_devices[b]
  BY <1>2 DEF Visited
<1>4. num_busses \in Nat /\ num_devices[b] \in Nat
  BY <1>1, Configured DEF TypeInv, TypeOK
<1> HIDE DEF b, d
<1>5. b \in 1 .. num_busses /\ d \in 1 .. num_devices[b]
  BY <1>2, <1>3, <1>4
<1>6. QED
  BY <1>1, <1>5 DEF PiFaceCounted

\* A step that is done and has left nothing live of what it frees, but for what is not
\* stored.
LEMMA MovedOn ==
  ASSUME TypeInv, Inner, frames # <<>>, frames' # <<>>,
         Top.item <= Len(Teardown), Top'.item = Top.item + 1, Top'.phase = "ready",
         UNCHANGED <<main, handled, unstored, mem, num_busses, num_devices, found>>,
         ptr' \subseteq ptr, This.do # "forget",
         This.do = "free" /\ Visited(This) /\ mem[This.block] = "live" => This.block \in unstored
  PROVE  /\ SpiInv' /\ LeftInv' /\ MainInv' /\ FoundInv'
         /\ \A i \in 1 .. Len(Teardown) :
              i < Top'.item /\ Teardown[i] = Forget => num_busses' = 0
<1>1. /\ Top.item \in 1 .. Len(Teardown) /\ Len(Teardown) \in Nat
      /\ This = Teardown[Top.item]
  BY ThisStep, TeardownShape DEF TypeInv, TypeOK, This
<1>2. \A s : Visited(s)' <=> Visited(s)
  BY DEF Visited
<1>3. SpiInv'
  <2> SUFFICES ASSUME "dangling" \notin found', OnePiface,
                      NEW j \in 1 .. Len(Teardown), Top'.item <= j,
                      FreesSpi(Teardown[j]), Visited(Teardown[j])', Spi \in ptr'
               PROVE  mem'[Spi] = "live"
    BY DEF SpiInv
  <2>1. Top.item <= j /\ j # Top.item
    BY <1>1
  <2>2. Visited(Teardown[j]) /\ Spi \in ptr /\ "dangling" \notin found
    BY <1>2
  <2>3. QED
    BY <2>1, <2>2 DEF Inner, SpiInv
<1>4. LeftInv'
  <2> SUFFICES ASSUME NEW x \in Blocks \ unstored', mem'[x] = "live"
               PROVE  \E j \in 1 .. Len(Teardown) :
                        /\ Top'.item <= j
                        /\ Teardown[j].do = "free" /\ Teardown[j].block = x
                        /\ Visited(Teardown[j])'
    BY DEF LeftInv
  <2>1. PICK j \in 1 .. Len(Teardown) :
          /\ Top.item <= j
          /\ Teardown[j].do = "free" /\ Teardown[j].block = x /\ Visited(Teardown[j])
    BY DEF Inner, LeftInv
  <2>2. j # Top.item
    BY <1>1, <2>1
  <2>3. Top'.item <= j
    BY <1>1, <2>1, <2>2
  <2>4. Visited(Teardown[j])'
    BY <1>2, <2>1
  <2>5. QED
    BY <2>1, <2>3, <2>4
<1>5. ASSUME NEW i \in 1 .. Len(Teardown), i < Top'.item, Teardown[i] = Forget
      PROVE  num_busses' = 0
  <2>1. i # Top.item
    BY <1>1, <1>5 DEF Forget, Step
  <2>2. i < Top.item
    BY <1>1, <1>5, <2>1
  <2>3. QED
    BY <1>5, <2>2 DEF Inner, BusInv
<1>6. MainInv' /\ FoundInv'
  BY DEF MainInv, Inner, FoundInv, Polling
<1>7. QED
  BY <1>3, <1>4, <1>5, <1>6

\* A step that changes no pointer, no memory and no counter, and frees nothing.
LEMMA PassedBy ==
  ASSUME TypeInv, Inner, frames # <<>>, Top.item <= Len(Teardown),
         Top.phase # "freed", NextItem,
         UNCHANGED <<main, handled, unstored, ptr, mem, num_busses, num_devices, found>>,
         "libc" \notin found => ~libc',
         This.do # "forget",
         This.do = "free" /\ Visited(This) /\ mem[This.block] = "live" => This.block \in unstored
  PROVE  Inner'
<1>1. frames' # <<>> /\ Top'.item = Top.item + 1 /\ Top'.phase = "ready"
  BY NextFrame DEF TypeInv, TypeOK
<1>2. /\ SpiInv' /\ LeftInv' /\ MainInv' /\ FoundInv'
      /\ \A i \in 1 .. Len(Teardown) :
           i < Top'.item /\ Teardown[i] = Forget => num_busses' = 0
  BY <1>1, MovedOn
<1>3. Missing' <=> Missing
  BY DEF Missing, PiFaceCounted
<1>4. BusInv'
  BY <1>2, <1>3 DEF Inner, BusInv
<1>5. PtrInv'
  BY <1>1 DEF Inner, PtrInv
<1>6. LibcInv'
  BY <1>1 DEF LibcInv
<1>7. QED
  BY <1>2, <1>4, <1>5, <1>6 DEF Inner

\* A bus is closed while its data is there.
LEMMA CloseKeeps ==
  ASSUME TypeInv, Inner, Close
  PROVE  Inner' /\ SafeStop' /\ outcome' # "exited"
<1>1. /\ frames # <<>> /\ Top.item <= Len(Teardown)
      /\ Top.phase = "ready" /\ This.do = "close" /\ outcome = "running"
      /\ UNCHANGED <<main, handled, unstored, mem, ptr, libc, num_busses, num_devices, found>>
  BY DEF Close, Ready, InHandler
<1>2. Top.item \in 1 .. Len(Teardown) /\ This = Teardown[Top.item]
  BY <1>1, ThisStep DEF This, TypeInv, TypeOK
<1>3. \/ NextItem /\ outcome' = "running"
      \/ /\ Visited(This) /\ This.block \notin ptr
         /\ outcome' = "NULL used" /\ frames' = frames
      \/ /\ Visited(This) /\ This.block \in ptr /\ mem[This.block] # "live"
         /\ outcome' = "freed block used" /\ frames' = frames
  BY <1>1 DEF Close, Use, GoesWrong
<1>4. CASE NextItem /\ outcome' = "running"
  <2>1. "libc" \notin found => ~libc'
    BY <1>1 DEF Inner, LibcInv
  <2>2. Inner'
    BY <1>1, <1>4, <2>1, PassedBy
  <2>3. QED
    BY <1>4, <2>2 DEF SafeStop
<1>5. ASSUME Visited(This)
      PROVE  /\ This.bus \in 1 .. num_busses /\ Config[This.bus].i2c
             /\ This.block = BusData(This.bus) /\ This.block # Spi
  <2>1. /\ This.bus \in Busses /\ Config[This.bus].i2c
        /\ This.block = BusData(This.bus) /\ This.bus > 0
    BY <1>1, <1>2, TeardownShape, Configured
  <2>2. This.bus \in 1 .. num_busses
    BY <1>5, <2>1, Configured DEF Visited, TypeInv, TypeOK
  <2>3. QED
    BY <2>1, <2>2, BlocksDiffer
<1>6. CASE /\ Visited(This) /\ This.block \notin ptr
           /\ outcome' = "NULL used" /\ frames' = frames
  <2>1. Missing
    BY <1>5, <1>6 DEF Missing
  <2>2. "missing" \in found /\ ~Polling
    BY <1>1, <2>1 DEF Inner, BusInv, FoundInv
  <2>3. QED
    BY <1>1, <1>6, <2>2, Stays DEF SafeStop, Polling
<1>7. CASE /\ Visited(This) /\ This.block \in ptr /\ mem[This.block] # "live"
           /\ outcome' = "freed block used" /\ frames' = frames
  <2>1. "dangling" \in found
    BY <1>1, <1>5, <1>7 DEF Inner, PtrInv
  <2>2. handled = Signals
    BY <2>1 DEF Inner, FoundInv
  <2>3. QED
    BY <1>1, <1>7, <2>1, <2>2, Stays DEF SafeStop
<1>8. QED
  BY <1>3, <1>4, <1>6, <1>7

\* What is not freed was not there, or never stored.
LEMMA SkipKeeps ==
  ASSUME TypeInv, Inner, Skip
  PROVE  Inner' /\ outcome' = "running"
<1>1. /\ frames # <<>> /\ Top.item <= Len(Teardown)
      /\ Top.phase = "ready" /\ This.do \in {"log", "free"} /\ ~Happens(This)
      /\ outcome' = "running" /\ NextItem
      /\ UNCHANGED <<main, handled, unstored, mem, ptr, libc, num_busses, num_devices, found>>
  BY DEF Skip, Ready, InHandler
<1>2. This.block \in Blocks
  BY <1>1, ThisStep DEF TypeInv, TypeOK
<1>3. Visited(This) /\ mem[This.block] = "live" => This.block \in unstored
  BY <1>1, <1>2 DEF Happens, Inner, PtrInv
<1>4. "libc" \notin found => ~libc'
  BY <1>1 DEF Inner, LibcInv
<1>5. QED
  BY <1>1, <1>3, <1>4, PassedBy

\* conf_deinit's first line: only the data of the busses is left to be discarded.
LEMMA ForgetKeeps ==
  ASSUME TypeInv, Inner, ForgetBusses
  PROVE  Inner' /\ outcome' = "running"
<1>1. /\ frames \in Seq(Frames) /\ frames # <<>> /\ Top.item <= Len(Teardown)
      /\ Top.phase = "ready" /\ This.do = "forget" /\ outcome' = "running" /\ NextItem
      /\ num_busses' = 0
      /\ UNCHANGED <<main, handled, unstored, mem, ptr, libc, num_devices, found>>
  BY DEF ForgetBusses, Ready, InHandler, TypeInv, TypeOK
<1>2. Top.item \in 1 .. Len(Teardown) /\ Len(Teardown) \in Nat /\ Teardown[Top.item] = Forget
  BY <1>1, ThisStep, TeardownShape DEF This
<1>3. frames' # <<>> /\ Top'.item = Top.item + 1 /\ Top'.phase = "ready"
  BY <1>1, NextFrame
<1>4. \A j \in 1 .. Len(Teardown) : Top'.item <= j => Teardown[j].bus = 0
  BY <1>2, <1>3, TeardownShape
<1>5. SpiInv'
  <2> SUFFICES ASSUME NEW j \in 1 .. Len(Teardown), Top'.item <= j, FreesSpi(Teardown[j])
               PROVE  FALSE
    BY DEF SpiInv
  <2>1. Teardown[j].bus \in Busses
    BY TeardownShape
  <2>2. QED
    BY <1>4, <2>1, Configured
<1>6. LeftInv'
  <2> SUFFICES ASSUME NEW x \in Blocks \ unstored', mem'[x] = "live"
               PROVE  \E j \in 1 .. Len(Teardown) :
                        /\ Top'.item <= j
                        /\ Teardown[j].do = "free" /\ Teardown[j].block = x
                        /\ Visited(Teardown[j])'
    BY DEF LeftInv
  <2>1. PICK j \in 1 .. Len(Teardown) :
          Top.item <= j /\ Teardown[j].do = "free" /\ Teardown[j].block = x
    BY <1>1 DEF Inner, LeftInv
  <2>2. j # Top.item
    BY <1>2, <2>1 DEF Forget, Step
  <2>3. Top'.item <= j
    BY <1>2, <1>3, <2>1, <2>2
  <2>4. Visited(Teardown[j])'
    BY <1>4, <2>3 DEF Visited
  <2>5. QED
    BY <2>1, <2>3, <2>4
<1>7. ~Missing'
  <2>1. 1 .. num_busses' = {}
    BY <1>1
  <2>2. QED
    BY <2>1 DEF Missing, PiFaceCounted
<1>8. BusInv' /\ MainInv' /\ FoundInv'
  BY <1>1, <1>3, <1>7 DEF BusInv, MainInv, Inner, FoundInv, Polling
<1>9. LibcInv' /\ PtrInv'
  BY <1>1, <1>3 DEF Inner, LibcInv, PtrInv
<1>10. QED
  BY <1>1, <1>5, <1>6, <1>8, <1>9 DEF Inner

\* A call into libc finds it free and its block good, or a handler began when they
\* were not.
LEMMA EnterKeeps ==
  ASSUME TypeInv, Inner, Enter
  PROVE  Inner' /\ SafeStop' /\ outcome' # "exited"
<1>1. /\ frames \in Seq(Frames) /\ frames # <<>> /\ Top.item <= Len(Teardown)
      /\ Top.phase = "ready" /\ outcome = "running"
      /\ This.do \in {"log", "free"} /\ Happens(This) /\ libc \in BOOLEAN
      /\ UNCHANGED <<main, handled, unstored, mem, ptr, num_busses, num_devices, found>>
  BY DEF Enter, Ready, InHandler, TypeInv, TypeOK
<1>2. /\ Top.item \in 1 .. Len(Teardown) /\ This.block \in Blocks
      /\ This = Teardown[Top.item]
  BY <1>1, ThisStep DEF This
<1>3. \/ libc /\ outcome' = "libc re-entered" /\ frames' = frames /\ libc' = libc
      \/ ~libc /\ Phase("inside") /\ outcome' = "running" /\ libc' = TRUE
      \/ /\ This.do = "free" /\ This.block \notin ptr
         /\ outcome' = "NULL used" /\ frames' = frames /\ libc' = libc
      \/ /\ This.do = "free" /\ This.block \in ptr /\ mem[This.block] # "live"
         /\ outcome' = "freed block used" /\ frames' = frames /\ libc' = libc
  <2>1. CASE libc
    BY <2>1 DEF Enter, GoesWrong
  <2>2. CASE ~libc /\ This.do = "log"
    BY <1>1, <2>2 DEF Enter
  <2>3. CASE ~libc /\ This.do = "free"
    BY <1>1, <2>3 DEF Enter, Use, GoesWrong
  <2>4. QED
    BY <1>1, <2>1, <2>2, <2>3
<1>4. CASE libc /\ outcome' = "libc re-entered" /\ frames' = frames /\ libc' = libc
  <2>1. "libc" \in found
    BY <1>1, <1>4 DEF Inner, LibcInv
  <2>2. QED
    BY <1>1, <1>4, <2>1, Stays DEF SafeStop
<1>5. CASE ~libc /\ Phase("inside") /\ outcome' = "running" /\ libc' = TRUE
  <2>1. frames' # <<>> /\ Top'.item = Top.item /\ Top'.phase = "inside"
    BY <1>1, <1>5, PhaseFrame
  <2>2. (\A s : Visited(s)' <=> Visited(s)) /\ (Missing' <=> Missing)
    BY <1>1 DEF Visited, Missing, PiFaceCounted
  <2>3. SpiInv'
    BY <1>1, <2>1, <2>2 DEF Inner, SpiInv
  <2>4. LeftInv'
    BY <1>1, <2>1, <2>2 DEF Inner, LeftInv
  <2>5. BusInv' /\ MainInv' /\ FoundInv'
    BY <1>1, <2>1, <2>2 DEF Inner, BusInv, MainInv, FoundInv, Polling
  <2>6. LibcInv' /\ PtrInv'
    BY <1>1, <1>5, <2>1 DEF Inner, LibcInv, PtrInv
  <2>7. QED
    BY <1>5, <2>3, <2>4, <2>5, <2>6 DEF Inner, SafeStop
<1>6. ASSUME This.do = "free", This.block = Spi
      PROVE  FreesSpi(Teardown[Top.item]) /\ Visited(Teardown[Top.item]) /\ PiFaceCounted
  <2>1. FreesSpi(Teardown[Top.item]) /\ Visited(Teardown[Top.item])
    BY <1>1, <1>2, <1>6 DEF FreesSpi, Happens
  <2>2. QED
    BY <1>2, <2>1, SpiOfPiFace
<1>7. CASE /\ This.do = "free" /\ This.block \notin ptr
           /\ outcome' = "NULL used" /\ frames' = frames /\ libc' = libc
  <2>1. Missing
    BY <1>1, <1>6, <1>7 DEF Missing, Happens
  <2>2. "missing" \in found /\ ~Polling
    BY <1>1, <2>1 DEF Inner, BusInv, FoundInv
  <2>3. QED
    BY <1>1, <1>7, <2>2, Stays DEF SafeStop, Polling
<1>8. CASE /\ This.do = "free" /\ This.block \in ptr /\ mem[This.block] # "live"
           /\ outcome' = "freed block used" /\ frames' = frames /\ libc' = libc
  <2>1. OnePiface => "dangling" \in found
    <3>1. CASE This.block = Spi
      <4>1. FreesSpi(Teardown[Top.item]) /\ Visited(Teardown[Top.item])
        BY <1>6, <1>8, <3>1
      <4>2. Top.item <= Top.item /\ Top.phase # "freed"
        BY <1>1, <1>2
      <4>3. Spi \in ptr /\ mem[Spi] # "live"
        BY <1>8, <3>1
      <4>4. SpiInv /\ frames # <<>> /\ Top.item \in 1 .. Len(Teardown)
        BY <1>1, <1>2 DEF Inner
      <4>5. QED
        BY <4>1, <4>2, <4>3, <4>4 DEF SpiInv
    <3>2. CASE This.block # Spi
      BY <1>1, <1>8, <3>2 DEF Inner, PtrInv
    <3>3. QED
      BY <3>1, <3>2
  <2>2. "dangling" \in found => handled = Signals
    BY DEF Inner, FoundInv
  <2>3. QED
    BY <1>1, <1>8, <2>1, <2>2, Stays DEF SafeStop
<1>9. QED
  BY <1>3, <1>4, <1>5, <1>7, <1>8

\* A block that is freed is not freed again, nor left.
LEMMA LeaveKeeps ==
  ASSUME TypeInv, Inner, Leave
  PROVE  Inner' /\ outcome' = "running"
<1>1. /\ frames \in Seq(Frames) /\ frames # <<>> /\ Top.item <= Len(Teardown)
      /\ Top.phase = "inside" /\ This.do \in {"free", "log"} /\ outcome' = "running"
      /\ libc' = FALSE
      /\ UNCHANGED <<main, handled, unstored, ptr, num_busses, num_devices, found>>
      /\ mem \in [Blocks -> {"none", "live", "freed"}]
  BY DEF Leave, InHandler, TypeInv, TypeOK
<1>2. /\ Top.item \in 1 .. Len(Teardown) /\ This.block \in Blocks
      /\ This = Teardown[Top.item]
  BY <1>1, ThisStep DEF This
<1>3. CASE This.do = "log"
  <2>1. NextItem /\ mem' = mem
    BY <1>3 DEF Leave
  <2>2. QED
    BY <1>1, <1>3, <2>1, PassedBy
<1>4. CASE This.do = "free"
  <2>1. Phase("freed") /\ mem' = [mem EXCEPT ![This.block] = "freed"]
    BY <1>4 DEF Leave
  <2>2. frames' # <<>> /\ Top'.item = Top.item /\ Top'.phase = "freed"
    BY <1>1, <2>1, PhaseFrame
  <2>3. This' = This
    BY <2>2 DEF This
  <2>4. (\A s : Visited(s)' <=> Visited(s)) /\ (Missing' <=> Missing)
    BY <1>1 DEF Visited, Missing, PiFaceCounted
  <2>5. /\ mem'[This.block] = "freed"
        /\ \A x \in Blocks : x # This.block => mem'[x] = mem[x]
    BY <1>1, <1>2, <2>1
  <2>6. SpiInv'
    <3> SUFFICES ASSUME "dangling" \notin found, OnePiface,
                        NEW j \in 1 .. Len(Teardown), Top.item <= j, j # Top.item,
                        FreesSpi(Teardown[j]), Visited(Teardown[j]), Spi \in ptr
                 PROVE  mem'[Spi] = "live"
      BY <1>1, <2>2, <2>4 DEF SpiInv
    <3>1. mem[Spi] = "live"
      BY <1>1 DEF Inner, SpiInv
    <3>2. This.block # Spi
      <4>1. ASSUME This.block = Spi
            PROVE  FALSE
        <5>1. FreesSpi(Teardown[j]) /\ FreesSpi(Teardown[Top.item])
          BY <1>2, <1>4, <4>1 DEF FreesSpi
        <5>2. QED
          BY <1>2, <5>1, TeardownShape
      <4>2. QED
        BY <4>1
    <3>3. QED
      BY <2>5, <3>1, <3>2, BlockNames
  <2>7. LeftInv'
    <3> SUFFICES ASSUME NEW x \in Blocks \ unstored, mem'[x] = "live"
                 PROVE  \E j \in 1 .. Len(Teardown) :
                          /\ Top'.item <= j
                          /\ Teardown[j].do = "free" /\ Teardown[j].block = x
                          /\ Visited(Teardown[j])'
      BY <1>1 DEF LeftInv
    <3>1. mem[x] = "live"
      BY <2>5
    <3>2. QED
      BY <1>1, <2>2, <2>4, <3>1 DEF Inner, LeftInv
  <2>8. PtrInv'
    <3>1. \A x \in Blocks : mem'[x] = "live" => x \in ptr' \cup unstored'
      BY <1>1, <2>5 DEF Inner, PtrInv
    <3>2. ASSUME "dangling" \notin found', NEW x \in ptr' \ {Spi}
          PROVE  mem'[x] = "live" \/ (Top'.phase = "freed" /\ This'.block = x)
      <4>1. x \in Blocks /\ mem[x] = "live"
        BY <1>1, <3>2 DEF Inner, PtrInv, TypeInv, TypeOK
      <4>2. QED
        BY <2>2, <2>3, <2>5, <4>1
    <3>3. QED
      BY <3>1, <3>2 DEF PtrInv
  <2>9. BusInv' /\ MainInv' /\ LibcInv' /\ FoundInv'
    BY <1>1, <2>2, <2>4 DEF Inner, BusInv, MainInv, LibcInv, FoundInv, Polling
  <2>10. QED
    BY <1>1, <2>6, <2>7, <2>8, <2>9 DEF Inner
<1>5. QED
  BY <1>1, <1>3, <1>4

\* The pointer of a bus's data goes only when the busses are forgotten.
LEMMA NullifyKeeps ==
  ASSUME TypeInv, Inner, Nullify
  PROVE  Inner' /\ outcome' = "running"
<1>1. /\ frames \in Seq(Frames) /\ frames # <<>> /\ Top.item <= Len(Teardown)
      /\ Top.phase = "freed" /\ This.do = "free" /\ outcome' = "running" /\ NextItem
      /\ mem[This.block] = "freed" /\ ptr \subseteq Blocks
      /\ UNCHANGED <<main, handled, unstored, mem, libc, num_busses, num_devices, found>>
      /\ ptr' = IF This.block = Spi THEN ptr ELSE ptr \ {This.block}
  BY DEF Nullify, InHandler, TypeInv, TypeOK
<1>2. /\ Top.item \in 1 .. Len(Teardown) /\ This.block \in Blocks
      /\ This = Teardown[Top.item]
  BY <1>1, ThisStep DEF This
<1>3. frames' # <<>> /\ Top'.item = Top.item + 1 /\ Top'.phase = "ready"
  BY <1>1, NextFrame
<1>4. /\ SpiInv' /\ LeftInv' /\ MainInv' /\ FoundInv'
      /\ \A i \in 1 .. Len(Teardown) :
           i < Top'.item /\ Teardown[i] = Forget => num_busses' = 0
  BY <1>1, <1>3, MovedOn
<1>5. ASSUME ~Missing
      PROVE  ~Missing'
  <2>1. PiFaceCounted' <=> PiFaceCounted
    BY <1>1 DEF PiFaceCounted
  <2>2. Spi \in ptr => Spi \in ptr'
    BY <1>1
  <2>3. ASSUME NEW b \in 1 .. num_busses, Config[b].i2c
        PROVE  BusData(b) \in ptr'
    <3>1. BusData(b) \in ptr
      BY <1>5, <2>3 DEF Missing
    <3>2. num_busses # 0 /\ b \in Busses
      BY Configured DEF Busses, TypeInv, TypeOK
    <3>3. ASSUME This.block = BusData(b)
          PROVE  FALSE
      <4>1. IsData(Teardown[Top.item])
        BY <1>1, <1>2, <3>2, <3>3 DEF IsData
      <4>2. PICK k \in 1 .. Len(Teardown) : k < Top.item /\ Teardown[k] = Forget
        BY <1>2, <4>1, TeardownShape
      <4>3. QED
        BY <1>1, <3>2, <4>2 DEF Inner, BusInv
    <3>4. QED
      BY <1>1, <3>1, <3>3
  <2>4. QED
    BY <1>1, <1>5, <2>1, <2>2, <2>3 DEF Missing
<1>6. BusInv'
  BY <1>1, <1>4, <1>5 DEF Inner, BusInv
<1>7. PtrInv'
  <2>1. \A x \in Blocks : mem'[x] = "live" => x \in ptr' \cup unstored'
    BY <1>1 DEF Inner, PtrInv
  <2>2. "dangling" \notin found' => \A x \in ptr' \ {Spi} : mem'[x] = "live"
    BY <1>1 DEF Inner, PtrInv
  <2>3. QED
    BY <1>3, <2>1, <2>2 DEF PtrInv
<1>8. LibcInv'
  BY <1>1, <1>3 DEF Inner, LibcInv
<1>9. QED
  BY <1>1, <1>4, <1>6, <1>7, <1>8 DEF Inner

\* When nothing is left to be done, nothing that was stored is left.
LEMMA ExitKeeps ==
  ASSUME TypeInv, Inner, Exit
  PROVE  Inner' /\ SafeStop' /\ NothingLeft'
<1>1. /\ frames \in Seq(Frames) /\ frames # <<>> /\ Top.item > Len(Teardown)
      /\ outcome' = "exited"
      /\ UNCHANGED <<main, frames, handled, libc, unstored, ptr, mem, num_busses,
                     num_devices, found>>
  BY DEF Exit, InHandler, TypeInv, TypeOK
<1>2. Top.item \in Nat /\ Len(Teardown) \in Nat
  BY <1>1, TopFrame, TeardownShape
<1>3. \A j \in 1 .. Len(Teardown) : ~(Top.item <= j)
  BY <1>1, <1>2
<1>4. NothingLeft'
  BY <1>1, <1>3 DEF Inner, LeftInv, NothingLeft
<1>5. QED
  BY <1>1, <1>4, Stays DEF SafeStop

-----------------------------------------------------------------------------
(* A signal arrives. *)

\* What is live is what Startup has allocated; when it is to be freed only for a device
\* that counts, it was allocated after that was counted.
LEMMA LeftAtFirst ==
  ASSUME TypeInv, MainInv, frames = <<>>, NEW x \in Blocks \ unstored, mem[x] = "live"
  PROVE  \E j \in 1 .. Len(Teardown) :
           Teardown[j].do = "free" /\ Teardown[j].block = x /\ Visited(Teardown[j])
<1>1. CASE x = Options
  <2>1. PICK j \in 1 .. Len(Teardown) : Teardown[j] = Free(Options)
    BY EachIsFreed
  <2>2. Teardown[j].do = "free" /\ Teardown[j].block = x /\ Teardown[j].bus = 0
    BY <1>1, <2>1 DEF Free, Step
  <2>3. QED
    BY <2>2 DEF Visited
<1>2. CASE x # Options
  <2>1. PICK i \in 1 .. Len(Startup) : i < main /\ Startup[i] = Alloc(x)
    BY <1>2 DEF MainInv
  <2>2. Startup[i].do = "alloc" /\ Startup[i].block = x
    BY <2>1 DEF Alloc, Step
  <2>3. PICK j \in 1 .. Len(Teardown) :
          /\ Teardown[j].do = "free" /\ Teardown[j].block = x
          /\ Teardown[j].bus > 0 =>
               \E k \in 1 .. Len(Startup) :
                 k < i /\ Startup[k] = Counted(Teardown[j].bus, Teardown[j].dev)
    BY <2>2, EachIsFreed
  <2>4. Visited(Teardown[j])
    <3>1. CASE Teardown[j].bus > 0
      <4>1. PICK k \in 1 .. Len(Startup) :
              k < i /\ Startup[k] = Counted(Teardown[j].bus, Teardown[j].dev)
        BY <2>3, <3>1
      <4>2. k < main
        BY <2>1, <4>1, StartupShape DEF TypeInv, TypeOK
      <4>3. /\ Startup[k].do = "count" /\ Startup[k].bus = Teardown[j].bus
            /\ Startup[k].dev = Teardown[j].dev
        BY <4>1 DEF Counted, Step
      <4>4. Visited(Startup[k])
        BY <4>2, <4>3 DEF MainInv
      <4>5. QED
        BY <4>3, <4>4 DEF Visited
    <3>2. CASE ~(Teardown[j].bus > 0)
      BY <3>2 DEF Visited
    <3>3. QED
      BY <3>1, <3>2
  <2>5. QED
    BY <2>3, <2>4
<1>3. QED
  BY <1>1, <1>2

\* Once main polls, no pointer is missing.
LEMMA NoneMissing ==
  ASSUME TypeInv, MainInv, frames = <<>>, Polling
  PROVE  ~Missing
<1>1. \A i \in 1 .. Len(Startup) : i < main
  BY StartupShape DEF Polling
<1>2. ASSUME NEW x, NEW i \in 1 .. Len(Startup), Startup[i] = Alloc(x)
      PROVE  x \in ptr
  <2>1. Startup[i].do = "alloc" /\ Startup[i].block = x
    BY <1>2 DEF Alloc, Step
  <2>2. QED
    BY <1>1, <2>1 DEF MainInv
<1>3. \A b \in 1 .. num_busses : b \in Busses
  BY Configured DEF Busses, TypeInv, TypeOK
<1>4. ASSUME NEW b \in 1 .. num_busses, Config[b].i2c
      PROVE  BusData(b) \in ptr
  BY <1>2, <1>3, <1>4, StartupShape
<1>5. ASSUME NEW b \in 1 .. num_busses, NEW d \in 1 .. num_devices[b],
             Config[b].devices[d] = "piface"
      PROVE  Spi \in ptr
  <2>1. d \in Devices(b)
    BY <1>3, Configured DEF TypeInv, TypeOK, Devices
  <2>2. QED
    BY <1>2, <1>3, <1>5, <2>1, StartupShape
<1>6. QED
  BY <1>4, <1>5 DEF Missing, PiFaceCounted

\* A handler that begins finds what it relies on, or it is told what it does not.
LEMMA ArriveKeeps ==
  ASSUME TypeInv, Inner, NEW s \in Signals, Arrive(s)
  PROVE  Inner' /\ outcome' = "running"
<1>1. /\ frames \in Seq(Frames) /\ outcome' = "running"
      /\ s \notin handled /\ handled' = handled \cup {s} /\ handled \subseteq Signals
      /\ UNCHANGED <<main, unstored, mem, ptr, libc, num_busses, num_devices>>
  BY DEF Arrive, TypeInv, TypeOK
<1>2. frames' # <<>> /\ Top'.item = 1 /\ Top'.phase = "ready"
  BY <1>1, NewFrame DEF Arrive
<1>3. /\ "libc" \in found' <=> "libc" \in found \/ libc
      /\ "missing" \in found' <=> "missing" \in found \/ Missing
      /\ "dangling" \in found' <=> "dangling" \in found \/ Dangling
  BY DEF Arrive, Amiss, IsAmiss
<1>4. (\A t : Visited(t)' <=> Visited(t)) /\ (Missing' <=> Missing)
  BY <1>1 DEF Visited, Missing, PiFaceCounted
<1>5. LibcInv' /\ MainInv'
  BY <1>1, <1>2, <1>3 DEF LibcInv, MainInv
<1>6. PtrInv'
  <2>1. \A x \in Blocks : mem'[x] = "live" => x \in ptr' \cup unstored'
    BY <1>1 DEF Inner, PtrInv
  <2>2. "dangling" \notin found' => \A x \in ptr' \ {Spi} : mem'[x] = "live"
    BY <1>1, <1>3 DEF Dangling
  <2>3. QED
    BY <2>1, <2>2 DEF PtrInv
<1>7. BusInv'
  <2>1. \A i \in 1 .. Len(Teardown) : ~(i < Top'.item)
    BY <1>2, TeardownShape
  <2>2. QED
    BY <1>3, <1>4, <2>1 DEF BusInv
<1>8. SpiInv'
  <2> SUFFICES ASSUME "dangling" \notin found', NEW j \in 1 .. Len(Teardown),
                      FreesSpi(Teardown[j]), Visited(Teardown[j]), Spi \in ptr
               PROVE  mem[Spi] = "live"
    BY <1>1, <1>4 DEF SpiInv
  <2>1. PiFaceCounted
    BY SpiOfPiFace
  <2>2. QED
    BY <1>3, <2>1 DEF Dangling
<1>9. LeftInv'
  <2> SUFFICES ASSUME NEW x \in Blocks \ unstored, mem[x] = "live"
               PROVE  \E j \in 1 .. Len(Teardown) :
                        Teardown[j].do = "free" /\ Teardown[j].block = x /\ Visited(Teardown[j])
    <3>1. \A j \in 1 .. Len(Teardown) : Top'.item <= j
      BY <1>2, TeardownShape
    <3>2. QED
      BY <1>1, <1>4, <3>1 DEF LeftInv
  <2>1. CASE frames = <<>>
    BY <2>1, LeftAtFirst DEF Inner
  <2>2. CASE frames # <<>>
    BY <2>2 DEF Inner, LeftInv
  <2>3. QED
    BY <2>1, <2>2
<1>10. FoundInv'
  <2>1. "missing" \in found' => ~Polling
    <3>1. CASE frames = <<>>
      BY <1>3, <3>1, NoneMissing DEF Inner, FoundInv
    <3>2. CASE frames # <<>>
      BY <1>3, <3>2 DEF Inner, BusInv, FoundInv
    <3>3. QED
      BY <3>1, <3>2
  <2>2. "dangling" \in found' => handled' = Signals
    <3>1. CASE frames = <<>>
      BY <1>3, <3>1 DEF Inner, MainInv, Dangling
    <3>2. CASE frames # <<>>
      <4>1. handled # {}
        BY <3>2 DEF Inner, FoundInv
      <4>2. handled' = Signals
        BY <1>1, <4>1 DEF Signals
      <4>3. QED
        BY <4>2
    <3>3. QED
      BY <3>1, <3>2
  <2>3. QED
    BY <1>1, <2>1, <2>2 DEF FoundInv, Polling
<1>11. QED
  BY <1>1, <1>5, <1>6, <1>7, <1>8, <1>9, <1>10 DEF Inner

-----------------------------------------------------------------------------
(* The theorems. *)

\* The invariant holds at first,
LEMMA LifeInit == Init => LifeInv
<1> SUFFICES ASSUME Init
             PROVE  LifeInv
  OBVIOUS
<1>1. TypeInv
  BY TypeInit
<1>2. /\ frames = <<>> /\ outcome = "running" /\ main = 1 /\ ptr = {Options}
      /\ unstored = {} /\ found = {}
      /\ mem = [b \in Blocks |-> IF b = Options THEN "live" ELSE "none"]
  BY DEF Init
<1>3. LibcInv /\ BusInv /\ SpiInv /\ LeftInv /\ FoundInv
  BY <1>2 DEF LibcInv, BusInv, SpiInv, LeftInv, FoundInv
<1>4. PtrInv
  BY <1>2, BlockNames DEF PtrInv
<1>5. MainInv
  BY <1>2, StartupShape, BlockNames DEF MainInv
<1>6. SafeStop /\ NothingLeft
  BY <1>2 DEF SafeStop, NothingLeft
<1>7. QED
  BY <1>1, <1>3, <1>4, <1>5, <1>6 DEF LifeInv, Inner

\* and is kept by every step.
LEMMA LifeNext ==
  ASSUME LifeInv, [Next]_vars
  PROVE  LifeInv'
<1>1. TypeInv /\ TypeInv' /\ Inner
  BY TypeNext DEF LifeInv
<1>2. CASE UNCHANGED vars
  <2>1. Inner'
    BY <1>1, <1>2, Stays DEF vars
  <2>2. SafeStop' /\ NothingLeft'
    BY <1>2 DEF vars, LifeInv, SafeStop, NothingLeft, Polling
  <2>3. QED
    BY <1>1, <2>1, <2>2 DEF LifeInv
<1>3. CASE MainStep
  <2>1. Inner' /\ outcome' = "running"
    BY <1>1, <1>3, MainKeeps
       DEF MainStep, Count, EnterLibc, LeaveLibc, Malloc, Store, InMain
  <2>2. QED
    BY <1>1, <2>1 DEF LifeInv, SafeStop, NothingLeft
<1>4. CASE Close \/ Enter
  <2>1. Inner' /\ SafeStop' /\ outcome' # "exited"
    BY <1>1, <1>4, CloseKeeps, EnterKeeps
  <2>2. QED
    BY <1>1, <2>1 DEF LifeInv, NothingLeft
<1>5. CASE ForgetBusses \/ Skip \/ Leave \/ Nullify
  <2>1. Inner' /\ outcome' = "running"
    BY <1>1, <1>5, ForgetKeeps, SkipKeeps, LeaveKeeps, NullifyKeeps
  <2>2. QED
    BY <1>1, <2>1 DEF LifeInv, SafeStop, NothingLeft
<1>6. CASE Exit
  BY <1>1, <1>6, ExitKeeps DEF LifeInv
<1>7. ASSUME NEW s \in Signals, Arrive(s)
      PROVE  LifeInv'
  <2>1. Inner' /\ outcome' = "running"
    BY <1>1, <1>7, ArriveKeeps
  <2>2. QED
    BY <1>1, <2>1 DEF LifeInv, SafeStop, NothingLeft
<1>8. QED
  BY <1>2, <1>3, <1>4, <1>5, <1>6, <1>7 DEF Next, Handler, MainStep

\* Whatever the configuration, the process's memory, counters and handlers are as the
\* invariant says in every state it reaches.
THEOREM AlwaysLifeInv == Spec => []LifeInv
<1>1. Init => LifeInv
  BY LifeInit
<1>2. LifeInv /\ [Next]_vars => LifeInv'
  BY LifeNext
<1>3. QED
  BY <1>1, <1>2, PTL DEF Spec

\* Every variable keeps its type.
THEOREM LifecycleTypeCorrect == Spec => []TypeOK
<1>1. LifeInv => TypeOK
  BY DEF LifeInv, TypeInv
<1>2. QED
  BY <1>1, AlwaysLifeInv, PTL

\* A handler re-enters libc only when a signal interrupted a call into it, uses a NULL
\* only when the signal came before main had stored what it counts, and uses, with one
\* PiFace, a freed block only as the second handler, in the middle of the first one's
\* release of a block or after that of the Spi.
THEOREM StopsSafely == Spec => []SafeStop
<1>1. LifeInv => SafeStop
  BY DEF LifeInv
<1>2. QED
  BY <1>1, AlwaysLifeInv, PTL

\* When the process has exited, every block that main had stored is freed.
THEOREM LeavesNothing == Spec => []NothingLeft
<1>1. LifeInv => NothingLeft
  BY DEF LifeInv
<1>2. QED
  BY <1>1, AlwaysLifeInv, PTL
===============================================================================
