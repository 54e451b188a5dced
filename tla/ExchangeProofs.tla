--------------------------- MODULE ExchangeProofs ---------------------------
(***************************************************************************)
(* Proofs about Exchange: for any requests, registrations, devices, tables *)
(* of identification objects and bytes of other peers, what is asked       *)
(* reaches the server, what is answered reaches the caller, and nothing    *)
(* else is taken for either.                                               *)
(***************************************************************************)
EXTENDS Exchange, CodecProofs

(***************************************************************************)
(* The registry.                                                           *)
(***************************************************************************)
Attempt == [of : {"request", "response"}, code : Code, decoder : Decoder]

Tries(tried, of, code) == {i \in DOMAIN tried : tried[i].of = of /\ tried[i].code = code}
First(tried, of, code) ==
    IF Tries(tried, of, code) = {} THEN "none" ELSE tried[Min(Tries(tried, of, code))].decoder

\* What a registry holds is the first decoder that was registered for a code.
Knows(tried, of, decoders) ==
    /\ DOMAIN decoders \subseteq 0 .. 127
    /\ \A c \in DOMAIN decoders : decoders[c] \in Decoder
    /\ \A c \in 0 .. 127 :
          First(tried, of, c) = IF c \in DOMAIN decoders THEN decoders[c] ELSE "none"

\* The least of a set of positions, and of one with a later one added.
LEMMA LeastPosition ==
    ASSUME NEW T, T \subseteq Nat, T # {}
    PROVE  Min(T) \in T /\ \A y \in T : Min(T) <= y
BY LeastNatural DEF Min

\* A later position changes nothing about which is the first.
LEMMA LeastStays ==
    ASSUME NEW T, T \subseteq Nat, T # {}, NEW n \in Nat, \A y \in T : y < n
    PROVE  Min(T \cup {n}) = Min(T)
<1> DEFINE U == T \cup {n}
<1>1. Min(T) \in T /\ \A y \in T : Min(T) <= y
  BY LeastPosition
<1>2. U \subseteq Nat /\ U # {}
  OBVIOUS
<1>3. Min(U) \in U /\ \A y \in U : Min(U) <= y
  <2> HIDE DEF U
  <2> QED BY <1>2, LeastPosition
<1>4. Min(T) \in Nat /\ Min(U) \in Nat
  BY <1>1, <1>2, <1>3
<1>5. Min(T) < n /\ Min(U) <= Min(T)
  BY <1>1, <1>3
<1>6. Min(U) \in T
  BY <1>3, <1>4, <1>5
<1>7. Min(T) <= Min(U)
  BY <1>1, <1>6
<1> QED BY <1>4, <1>5, <1>7

\* An attempt changes what is registered first for its own code only, and only
\* where there is none.
LEMMA TriedOnce ==
    ASSUME NEW tried \in Seq(Attempt), NEW e \in Attempt, NEW of, NEW code
    PROVE  Tries(Append(tried, e), of, code) =
             IF e.of = of /\ e.code = code THEN Tries(tried, of, code) \cup {Len(tried) + 1}
                                           ELSE Tries(tried, of, code)
<1> DEFINE more == Append(tried, e)
<1>1. Len(tried) \in Nat /\ DOMAIN tried = 1 .. Len(tried) /\ more \in Seq(Attempt)
  OBVIOUS
<1>2. /\ DOMAIN more = 1 .. Len(tried) + 1 /\ more[Len(tried) + 1] = e
      /\ \A i \in 1 .. Len(tried) : more[i] = tried[i]
  OBVIOUS
<1>3. DOMAIN more = DOMAIN tried \cup {Len(tried) + 1}
  BY <1>1, <1>2
<1>4. Len(tried) + 1 \notin DOMAIN tried
  BY <1>1
<1> HIDE DEF more
<1>5. Tries(more, of, code) =
        IF e.of = of /\ e.code = code THEN Tries(tried, of, code) \cup {Len(tried) + 1}
                                      ELSE Tries(tried, of, code)
  BY <1>1, <1>2, <1>3, <1>4 DEF Tries
<1> QED BY <1>5 DEF more

\* A registration keeps what Knows says of the registry.
LEMMA KnowsStays ==
    ASSUME NEW tried \in Seq(Attempt), NEW of, NEW decoders, Knows(tried, of, decoders),
           NEW e \in Attempt
    PROVE  Knows(Append(tried, e), of,
                 IF e.of = of THEN Registered(decoders, e.code, e.decoder) ELSE decoders)
<1> DEFINE more == Append(tried, e)
           next == IF e.of = of THEN Registered(decoders, e.code, e.decoder) ELSE decoders
           T(c) == Tries(tried, of, c)
           n == Len(tried) + 1
<1>1. /\ n \in Nat /\ e.code \in Code /\ e.decoder \in Decoder
      /\ \A i \in DOMAIN tried : i \in Nat /\ i < n
  <2>1. DOMAIN tried = 1 .. Len(tried) /\ Len(tried) \in Nat
    OBVIOUS
  <2> QED BY <2>1 DEF Attempt
<1>2. /\ DOMAIN decoders \subseteq 0 .. 127
      /\ \A c \in DOMAIN decoders : decoders[c] \in Decoder
  BY DEF Knows
<1>3. /\ DOMAIN next \subseteq 0 .. 127
      /\ \A c \in DOMAIN next : next[c] \in Decoder
  BY <1>1, <1>2 DEF Registered
<1>4. ASSUME NEW c \in 0 .. 127
      PROVE  First(more, of, c) = IF c \in DOMAIN next THEN next[c] ELSE "none"
  <2>1. First(tried, of, c) = IF c \in DOMAIN decoders THEN decoders[c] ELSE "none"
    BY DEF Knows
  <2>2. First(tried, of, c) = IF T(c) = {} THEN "none" ELSE tried[Min(T(c))].decoder
    BY DEF First
  <2>3. First(more, of, c) =
          IF Tries(more, of, c) = {} THEN "none"
                                     ELSE more[Min(Tries(more, of, c))].decoder
    BY DEF First
  <2>4. /\ more[n] = e
        /\ \A i \in DOMAIN tried : more[i] = tried[i]
    OBVIOUS
  <2>5. T(c) \subseteq DOMAIN tried /\ T(c) \subseteq Nat
    BY <1>1 DEF Tries
  <2>6. T(c) # {} => Min(T(c)) \in T(c)
    BY <2>5, LeastPosition
  <2>7. CASE e.of = of /\ e.code = c
    <3>1. Tries(more, of, c) = T(c) \cup {n}
      BY <2>7, TriedOnce
    <3>2. CASE T(c) = {}
      <4>1. T(c) \cup {n} = {n} /\ {n} \subseteq Nat /\ {n} # {}
        BY <3>2, <1>1
      <4>2. Min({n}) = n
        BY <4>1, LeastPosition
      <4>3. First(more, of, c) = e.decoder
        BY <2>3, <2>4, <3>1, <4>1, <4>2
      <4>4. "none" \notin Decoder
        BY DecoderAssumption
      <4>5. c \notin DOMAIN decoders
        BY <2>1, <2>2, <3>2, <4>4, <1>2
      <4> QED BY <2>7, <4>3, <4>5 DEF Registered
    <3>3. CASE T(c) # {}
      <4>1. Min(T(c) \cup {n}) = Min(T(c))
        BY <3>3, <2>5, <1>1, LeastStays
      <4>2. First(more, of, c) = tried[Min(T(c))].decoder
        BY <2>3, <2>4, <2>5, <2>6, <3>1, <3>3, <4>1
      <4>3. First(more, of, c) = First(tried, of, c)
        BY <4>2, <2>2, <3>3
      <4>4. tried[Min(T(c))] \in Attempt
        BY <2>5, <2>6, <3>3
      <4>5. First(tried, of, c) # "none"
        <5>1. "none" \notin Decoder
          BY DecoderAssumption
        <5> QED BY <4>4, <5>1, <2>2, <3>3 DEF Attempt
      <4>6. c \in DOMAIN decoders
        BY <4>5, <2>1
      <4> QED BY <4>3, <4>6, <2>1, <2>7 DEF Registered
    <3> QED BY <3>2, <3>3
  <2>8. CASE ~ (e.of = of /\ e.code = c)
    <3>1. Tries(more, of, c) = T(c)
      BY <2>8, TriedOnce
    <3>2. First(more, of, c) = First(tried, of, c)
      BY <2>2, <2>3, <2>4, <2>5, <2>6, <3>1
    <3>3. c \in DOMAIN next <=> c \in DOMAIN decoders
      BY <2>8 DEF Registered
    <3>4. c \in DOMAIN decoders => next[c] = decoders[c]
      BY <2>8 DEF Registered
    <3> QED BY <2>1, <3>2, <3>3, <3>4
  <2> QED BY <2>7, <2>8
<1> QED BY <1>3, <1>4 DEF Knows

-----------------------------------------------------------------------------
(***************************************************************************)
(* Pages of a device identification.                                       *)
(***************************************************************************)
\* The ids of a device's objects, and the lengths of their values.
Known(ids, table) == \A i \in 1 .. Len(ids) : ids[i] \in Byte /\ table[ids[i]] \in 0 .. 244

\* An object of a list that is known.
LEMMA KnownFacts ==
    ASSUME NEW ids \in Seq(Byte), NEW table, Known(ids, table), NEW i \in 1 .. Len(ids)
    PROVE  ids[i] \in Byte /\ table[ids[i]] \in 0 .. 244 /\ table[ids[i]] \in Nat
<1>1. ids[i] \in Byte /\ table[ids[i]] \in 0 .. 244
  BY DEF Known
<1>2. \A x \in 0 .. 244 : x \in Nat
  OBVIOUS
<1> QED BY <1>1, <1>2

Grows(g, ids, table, n) ==
    /\ g \in [0 .. n -> Nat] /\ g[0] = 0
    /\ \A k \in 1 .. n : g[k] = g[k - 1] + 2 + table[ids[k]]

\* The recursion of Size has a solution: each object adds its value and two bytes.
LEMMA SizeSteps ==
    ASSUME NEW ids \in Seq(Byte), NEW table, Known(ids, table), NEW n \in 0 .. Len(ids)
    PROVE  \E g : Grows(g, ids, table, n) /\ Size(ids, table, n) = g[n]
<1> DEFINE step == [i \in 1 .. n |-> [v \in Nat |-> v + 2 + table[ids[i]]]]
           Rec(f) == f = [i \in 0 .. n |->
                             IF i = 0 THEN 0 ELSE f[i - 1] + 2 + table[ids[i]]]
           size == CHOOSE f : Rec(f)
<1>1. n \in Nat /\ n \in 0 .. n
  BY LenProperties
<1>2. ASSUME NEW i \in 1 .. n PROVE table[ids[i]] \in Nat
  <2>1. i \in 1 .. Len(ids)
    BY LenProperties
  <2> QED BY <2>1, KnownFacts
<1>3. step \in Steps(n, Nat)
  BY <1>2 DEF Steps
<1>4. PICK g : Iterates(g, n, Nat, 0, step)
  BY <1>1, <1>3, Iteration
<1>5. Grows(g, ids, table, n)
  <2>1. g \in [0 .. n -> Nat] /\ g[0] = 0
    BY <1>4 DEF Iterates
  <2>2. ASSUME NEW k \in 1 .. n PROVE g[k] = g[k - 1] + 2 + table[ids[k]]
    <3>1. g[k - 1] \in Nat
      BY <2>1, <1>1
    <3>2. g[k] = step[k][g[k - 1]]
      BY <1>4 DEF Iterates
    <3> QED BY <3>1, <3>2
  <2> QED BY <2>1, <2>2 DEF Grows
<1>6. Rec(g)
  BY <1>5 DEF Grows
<1>7. Rec(size)
  <2> HIDE DEF Rec
  <2> QED BY <1>6, Zenon
<1> HIDE DEF size
<1>8. size[0] = g[0] /\ KeepsEqual(size, g, n)
  BY <1>1, <1>6, <1>7 DEF KeepsEqual
<1>9. size[n] = g[n]
  BY <1>1, <1>8, SameSteps
<1>10. Size(ids, table, n) = size[n]
  BY DEF Size, size
<1> QED BY <1>5, <1>9, <1>10

\* No object takes no bytes.
LEMMA SizeIsNat ==
    ASSUME NEW ids \in Seq(Byte), NEW table, Known(ids, table), NEW n \in 0 .. Len(ids)
    PROVE  Size(ids, table, n) \in Nat /\ Size(ids, table, 0) = 0
<1>1. Len(ids) \in Nat /\ 0 \in 0 .. Len(ids)
  BY LenProperties
<1>2. PICK g : Grows(g, ids, table, n) /\ Size(ids, table, n) = g[n]
  BY SizeSteps
<1>3. PICK h : Grows(h, ids, table, 0) /\ Size(ids, table, 0) = h[0]
  BY <1>1, SizeSteps
<1> QED BY <1>1, <1>2, <1>3 DEF Grows

\* Some number of objects fits, and the code finds it.
LEMMA FitFacts ==
    ASSUME NEW ids \in Seq(Byte), NEW table, Known(ids, table)
    PROVE  /\ Fit(ids, table) \in 0 .. Len(ids)
           /\ Size(ids, table, Fit(ids, table)) <= Remaining
<1> DEFINE S(n) == Size(ids, table, n)
           T == {n \in 0 .. Len(ids) : n = Len(ids) \/ S(n + 1) > Remaining}
           Fits(n) == S(n) <= Remaining /\ (n < Len(ids) => S(n + 1) > Remaining)
<1>1. Len(ids) \in Nat /\ Remaining \in Nat
  BY LenProperties DEF Remaining
<1>2. T \subseteq Nat /\ T # {}
  BY <1>1
<1>3. PICK n \in T : \A m \in T : n <= m
  <2> HIDE DEF T
  <2> QED BY <1>2, LeastNatural
<1>4. n \in 0 .. Len(ids)
  OBVIOUS
<1>5. S(n) <= Remaining
  <2>1. CASE n = 0
    <3>1. S(0) = 0
      BY <1>4, SizeIsNat
    <3> QED BY <2>1, <3>1, <1>1
  <2>2. CASE n # 0
    <3>1. n - 1 \in 0 .. Len(ids) /\ n - 1 # Len(ids) /\ ~ (n <= n - 1) /\ (n - 1) + 1 = n
      BY <2>2, <1>4
    <3>2. ~ (S((n - 1) + 1) > Remaining)
      BY <1>3, <3>1
    <3>3. S(n) \in Nat
      BY <1>4, SizeIsNat
    <3>4. ~ (S(n) > Remaining)
      BY <3>1, <3>2
    <3> HIDE DEF S
    <3> QED BY <3>3, <3>4, <1>1
  <2> QED BY <2>1, <2>2
<1>6. Fits(n)
  BY <1>1, <1>3, <1>4, <1>5
<1>7. Fit(ids, table) = CHOOSE k \in 0 .. Len(ids) : Fits(k)
  BY DEF Fit
<1> HIDE DEF Fits
<1>8. Fit(ids, table) \in 0 .. Len(ids) /\ Fits(Fit(ids, table))
  BY <1>4, <1>6, <1>7
<1> QED BY <1>8 DEF Fits

\* The objects of a page.
Page(ids, table, n) == [i \in 1 .. n |-> Object(ids[i], table[ids[i]])]

\* An object of the table, with a value as long as the table says.
LEMMA ObjectIs ==
    ASSUME NEW id \in Byte, NEW size \in 0 .. 244
    PROVE  Object(id, size) \in Objects /\ Object(id, size).id = id
           /\ Len(Object(id, size).value) = size
<1>1. size \in Nat /\ size <= 244
  OBVIOUS
<1>2. [i \in 1 .. size |-> id] \in Seq(Byte) /\ Len([i \in 1 .. size |-> id]) = size
  <2>1. [i \in 1 .. size |-> id] \in [1 .. size -> Byte]
    OBVIOUS
  <2> QED BY <1>1, <2>1, FunctionIsSeq
<1> QED BY <1>1, <1>2 DEF Object, Objects

\* The first objects of a list.
LEMMA PageFacts ==
    ASSUME NEW ids \in Seq(Byte), NEW table, Known(ids, table), NEW n \in 0 .. Len(ids)
    PROVE  /\ Page(ids, table, n) \in Seq(Objects) /\ Len(Page(ids, table, n)) = n
           /\ DOMAIN Page(ids, table, n) = 1 .. n
           /\ \A i \in 1 .. n : /\ Page(ids, table, n)[i].id = ids[i]
                                /\ Len(Page(ids, table, n)[i].value) = table[ids[i]]
<1> DEFINE page == Page(ids, table, n)
<1>1. n \in Nat
  BY LenProperties
<1>2. ASSUME NEW i \in 1 .. n
      PROVE  /\ page[i] \in Objects /\ page[i].id = ids[i]
             /\ Len(page[i].value) = table[ids[i]]
  <2>1. i \in 1 .. Len(ids)
    BY LenProperties
  <2>2. ids[i] \in Byte /\ table[ids[i]] \in 0 .. 244
    BY <2>1, KnownFacts
  <2>3. page[i] = Object(ids[i], table[ids[i]])
    BY DEF Page
  <2>4. PICK id \in Byte, size \in 0 .. 244 : id = ids[i] /\ size = table[ids[i]]
    BY <2>2
  <2>5. page[i] = Object(id, size)
    BY <2>3, <2>4
  <2>6. /\ Object(id, size) \in Objects /\ Object(id, size).id = id
        /\ Len(Object(id, size).value) = size
    BY ObjectIs
  <2> HIDE DEF page
  <2> QED BY <2>4, <2>5, <2>6
<1>3. page \in [1 .. n -> Objects]
  BY <1>2 DEF Page
<1>4. page \in Seq(Objects) /\ Len(page) = n /\ DOMAIN page = 1 .. n
  <2> HIDE DEF page
  <2> QED BY <1>1, <1>3, FunctionIsSeq
<1> QED BY <1>2, <1>4

\* The bytes of a page are as many as the code has counted, at least two for
\* each object.
LEMMA PageSize ==
    ASSUME NEW ids \in Seq(Byte), NEW table, Known(ids, table), NEW n \in 0 .. Len(ids)
    PROVE  /\ Len(FlattenSeq(ObjectBytes(Page(ids, table, n)))) = Size(ids, table, n)
           /\ 2 * n <= Size(ids, table, n)
<1> DEFINE page == Page(ids, table, n)
           parts == ObjectBytes(page)
<1>1. /\ page \in Seq(Objects) /\ Len(page) = n /\ n \in Nat /\ n \in 0 .. n
      /\ \A i \in 1 .. n : Len(page[i].value) = table[ids[i]]
  BY PageFacts, LenProperties
<1>2. /\ parts \in Seq(Seq(Byte)) /\ Len(parts) = n
      /\ \A k \in 1 .. n : page[k] \in Objects /\ parts[k] = EncodeObject(page[k])
  <2> HIDE DEF page
  <2> QED BY <1>1, ObjectBytesFacts
<1>3. PICK f : Flattens(f, parts)
  BY <1>2, FlattenSteps
<1>4. PICK g : Grows(g, ids, table, n) /\ Size(ids, table, n) = g[n]
  BY SizeSteps
<1> DEFINE length == [k \in 0 .. n |-> Len(f[k])]
<1>5. f \in [0 .. n -> Seq(Byte)] /\ f[0] = <<>> /\ f[n] = FlattenSeq(parts)
      /\ \A k \in 1 .. n : f[k] = f[k - 1] \o parts[k]
  BY <1>2, <1>3 DEF Flattens
<1>6. g \in [0 .. n -> Nat] /\ g[0] = 0
      /\ \A k \in 1 .. n : g[k] = g[k - 1] + 2 + table[ids[k]]
  BY <1>4 DEF Grows
<1> HIDE DEF page, parts
<1>7. length[0] = g[0]
  BY <1>1, <1>5, <1>6
<1>8. ASSUME NEW k \in 1 .. n PROVE length[k] = length[k - 1] + 2 + table[ids[k]]
  <2>1. k - 1 \in 0 .. n /\ k \in 0 .. n
    BY <1>1
  <2>2. f[k - 1] \in Seq(Byte) /\ parts[k] \in Seq(Byte)
    BY <1>2, <1>5, <2>1, SeqElement
  <2>3. Len(parts[k]) = 2 + table[ids[k]]
    BY <1>1, <1>2, ObjectFacts
  <2>4. Len(f[k]) = Len(f[k - 1]) + Len(parts[k])
    <3>1. f[k] = f[k - 1] \o parts[k]
      BY <1>5
    <3> QED BY <2>2, <3>1, Concatenation
  <2>5. length[k] = Len(f[k]) /\ length[k - 1] = Len(f[k - 1])
    BY <2>1
  <2>6. Len(f[k - 1]) \in Nat /\ table[ids[k]] \in Nat
    <3>1. k \in 1 .. Len(ids)
      BY LenProperties
    <3> QED BY <2>2, <3>1, KnownFacts, LenProperties
  <2>7. PICK a \in Nat, b \in Nat : a = Len(f[k - 1]) /\ b = table[ids[k]]
    BY <2>6
  <2>8. Len(parts[k]) = 2 + b
    BY <2>3, <2>7
  <2>9. Len(f[k]) = a + (2 + b)
    BY <2>4, <2>7, <2>8
  <2>10. a + (2 + b) = a + 2 + b
    OBVIOUS
  <2> HIDE DEF length
  <2> QED BY <2>5, <2>7, <2>9, <2>10
<1>9. KeepsEqual(length, g, n)
  BY <1>6, <1>8 DEF KeepsEqual
<1>10. length[n] = g[n]
  <2> HIDE DEF length
  <2> QED BY <1>1, <1>7, <1>9, SameSteps
<1>11. Len(FlattenSeq(parts)) = Size(ids, table, n)
  BY <1>1, <1>4, <1>5, <1>10
<1> DEFINE Over == {k \in 0 .. n : ~ (2 * k <= g[k])}
<1>12. Over = {}
  <2> SUFFICES ASSUME Over # {} PROVE FALSE
    OBVIOUS
  <2>1. Over \subseteq Nat /\ Over # {}
    BY <1>1
  <2>2. PICK k \in Over : \A m \in Over : k <= m
    <3> HIDE DEF Over
    <3> QED BY <2>1, LeastNatural
  <2>3. k \in 0 .. n /\ ~ (2 * k <= g[k])
    OBVIOUS
  <2>4. k # 0
    BY <2>3, <1>6
  <2>5. k - 1 \in 0 .. n /\ ~ (k <= k - 1) /\ k \in 1 .. n
    BY <2>3, <2>4, <1>1
  <2>6. 2 * (k - 1) <= g[k - 1]
    BY <2>2, <2>5
  <2>7. g[k] = g[k - 1] + 2 + table[ids[k]] /\ g[k - 1] \in Nat
    BY <2>5, <1>6
  <2>8. table[ids[k]] \in Nat
    <3>1. k \in 1 .. Len(ids)
      BY <2>5, LenProperties
    <3> QED BY <3>1, KnownFacts
  <2> QED BY <2>3, <2>6, <2>7, <2>8
<1>13. 2 * n <= g[n]
  BY <1>1, <1>12
<1> QED BY <1>4, <1>11, <1>13 DEF page, parts

\* The elements of a finite set of numbers in their order.
Below(S, i) == {j \in S : j < i}
Rank(S) == [i \in S |-> Cardinality(Below(S, i)) + 1]

\* A larger number has a higher rank.
LEMMA RankGrows ==
    ASSUME NEW S, S \subseteq Nat, IsFiniteSet(S), NEW i \in S, NEW j \in S, i < j
    PROVE  Rank(S)[i] < Rank(S)[j]
<1>1. /\ IsFiniteSet(Below(S, i)) /\ Cardinality(Below(S, i)) \in Nat
      /\ IsFiniteSet(Below(S, j)) /\ Cardinality(Below(S, j)) \in Nat
  <2>1. Below(S, i) \in SUBSET S /\ Below(S, j) \in SUBSET S
    BY DEF Below
  <2> QED BY <2>1, FS_Subset, FS_CardinalityType
<1>2. i \notin Below(S, i)
  BY DEF Below
<1>3. /\ IsFiniteSet(Below(S, i) \cup {i})
      /\ Cardinality(Below(S, i) \cup {i}) = Cardinality(Below(S, i)) + 1
  BY <1>1, <1>2, FS_AddElement
<1>4. Below(S, i) \cup {i} \in SUBSET Below(S, j)
  <2>1. i \in Nat /\ j \in Nat /\ \A x \in S : x < i => x < j
    OBVIOUS
  <2> QED BY <2>1 DEF Below
<1>5. Cardinality(Below(S, i) \cup {i}) <= Cardinality(Below(S, j))
  BY <1>1, <1>4, FS_Subset
<1>6. Rank(S)[i] = Cardinality(Below(S, i)) + 1 /\ Rank(S)[j] = Cardinality(Below(S, j)) + 1
  BY DEF Rank
<1> QED BY <1>1, <1>3, <1>5, <1>6

\* Ranks number the elements of a finite set from 1, each once.
LEMMA RankFacts ==
    ASSUME NEW S, S \subseteq Nat, IsFiniteSet(S)
    PROVE  /\ Cardinality(S) \in Nat
           /\ Rank(S) \in Surjection(S, 1 .. Cardinality(S))
           /\ Rank(S) \in Injection(S, 1 .. Cardinality(S))
<1>1. Cardinality(S) \in Nat
  BY FS_CardinalityType
<1>2. ASSUME NEW i \in S PROVE Rank(S)[i] \in 1 .. Cardinality(S)
  <2>1. Below(S, i) \in SUBSET S /\ Below(S, i) # S
    BY DEF Below
  <2>2. /\ IsFiniteSet(Below(S, i)) /\ Cardinality(Below(S, i)) \in Nat
        /\ Cardinality(Below(S, i)) <= Cardinality(S)
        /\ Cardinality(Below(S, i)) # Cardinality(S)
    BY <2>1, FS_Subset, FS_CardinalityType
  <2>3. Rank(S)[i] = Cardinality(Below(S, i)) + 1
    BY DEF Rank
  <2> QED BY <1>1, <2>2, <2>3
<1>3. Rank(S) \in [S -> 1 .. Cardinality(S)]
  BY <1>2 DEF Rank
<1>4. ASSUME NEW i \in S, NEW j \in S, Rank(S)[i] = Rank(S)[j] PROVE i = j
  <2>1. i \in Nat /\ j \in Nat /\ Rank(S)[i] \in Nat
    BY <1>2
  <2>2. ~ (Rank(S)[i] < Rank(S)[j]) /\ ~ (Rank(S)[j] < Rank(S)[i])
    BY <1>4, <2>1
  <2>3. ~ (i < j)
    BY <2>2, RankGrows
  <2>4. ~ (j < i)
    BY <2>2, RankGrows
  <2> QED BY <2>1, <2>3, <2>4
<1>5. Rank(S) \in Injection(S, 1 .. Cardinality(S))
  BY <1>3, <1>4 DEF Injection, IsInjective
<1>6. IsFiniteSet(1 .. Cardinality(S)) /\ Cardinality(1 .. Cardinality(S)) = Cardinality(S)
  <2>1. Cardinality(S) \in Int /\ ~ (1 > Cardinality(S) /\ Cardinality(S) # 0)
    BY <1>1
  <2>2. Cardinality(1 .. Cardinality(S))
          = IF 1 > Cardinality(S) THEN 0 ELSE Cardinality(S) - 1 + 1
    BY <2>1, FS_Interval
  <2> QED BY <1>1, <2>1, <2>2, FS_Interval
<1>7. Rank(S) \in Surjection(S, 1 .. Cardinality(S))
  BY <1>5, <1>6, FS_Injection
<1> QED BY <1>1, <1>5, <1>7

InOrder(s, S) ==
    /\ s \in Seq(S)
    /\ \A x \in S : \E k \in 1 .. Len(s) : s[k] = x
    /\ \A i, j \in 1 .. Len(s) : i < j => s[i] < s[j]

\* What is selected is a finite set of ids.
LEMMA SelectedFacts ==
    ASSUME NEW table, IsTable(table), NEW code, NEW start
    PROVE  /\ Selected(code, start, table) \subseteq Byte
           /\ IsFiniteSet(Selected(code, start, table))
<1>1. Selected(code, start, table) \subseteq Byte
  BY ByteIs DEF Selected, IsTable
<1>2. IsFiniteSet(0 .. 255)
  <2>1. 0 \in Int /\ 255 \in Int
    OBVIOUS
  <2> QED BY <2>1, FS_Interval
<1> QED BY <1>1, <1>2, FS_Subset, ByteIs

\* The server selects the objects in the order of their ids.
LEMMA SelectIsInOrder ==
    ASSUME NEW table, IsTable(table), NEW code, NEW start
    PROVE  InOrder(Select(code, start, table), Selected(code, start, table))
<1> DEFINE S == Selected(code, start, table)
           s == Select(code, start, table)
           n == Cardinality(S)
<1>1. S \subseteq Nat /\ IsFiniteSet(S)
  BY SelectedFacts, ByteIsNat
<1>2. s = [k \in 1 .. n |-> CHOOSE i \in S : Cardinality(Below(S, i)) = k - 1]
  BY DEF Select, Below
<1> HIDE DEF S, s
<1>3. n \in Nat /\ Rank(S) \in Surjection(S, 1 .. n) /\ Rank(S) \in Injection(S, 1 .. n)
  BY <1>1, RankFacts
<1>4. ASSUME NEW k \in 1 .. n PROVE s[k] \in S /\ Rank(S)[s[k]] = k
  <2>1. PICK i \in S : Rank(S)[i] = k
    BY <1>3 DEF Surjection
  <2>2. Cardinality(Below(S, i)) + 1 = k
    BY <2>1 DEF Rank
  <2>3. Below(S, i) \in SUBSET S
    BY DEF Below
  <2>4. Cardinality(Below(S, i)) \in Nat
    BY <1>1, <2>3, FS_Subset, FS_CardinalityType
  <2>5. Cardinality(Below(S, i)) = k - 1
    BY <2>2, <2>4
  <2>6. s[k] \in S /\ Cardinality(Below(S, s[k])) = k - 1
    BY <1>2, <2>5
  <2> QED BY <2>6 DEF Rank
<1>5. s \in [1 .. n -> S]
  BY <1>2, <1>4
<1>6. s \in Seq(S) /\ Len(s) = n
  BY <1>3, <1>5, FunctionIsSeq
<1>7. ASSUME NEW x \in S PROVE \E k \in 1 .. n : s[k] = x
  <2>1. Rank(S)[x] \in 1 .. n
    BY <1>3 DEF Surjection
  <2>2. s[Rank(S)[x]] = x
    BY <1>3, <1>4, <2>1 DEF Injection, IsInjective
  <2> QED BY <2>1, <2>2
<1>8. ASSUME NEW i \in 1 .. n, NEW j \in 1 .. n, i < j PROVE s[i] < s[j]
  <2>1. s[i] \in Nat /\ s[j] \in Nat /\ s[i] \in S /\ s[j] \in S
    BY <1>1, <1>4
  <2>2. Rank(S)[s[i]] = i /\ Rank(S)[s[j]] = j /\ i \in Nat /\ j \in Nat
    BY <1>4
  <2>3. s[i] # s[j]
    BY <1>8, <2>2
  <2>4. ~ (s[j] < s[i])
    <3>1. ~ (Rank(S)[s[j]] < Rank(S)[s[i]])
      BY <1>8, <2>2
    <3> QED BY <1>1, <2>1, <3>1, RankGrows
  <2> QED BY <2>1, <2>3, <2>4
<1> QED BY <1>6, <1>7, <1>8 DEF InOrder, S, s

\* The ids are those of objects of the table.
LEMMA SelectIsKnown ==
    ASSUME NEW table, IsTable(table), NEW code, NEW start
    PROVE  Select(code, start, table) \in Seq(Byte) /\ Known(Select(code, start, table), table)
<1> DEFINE ids == Select(code, start, table)
           S == Selected(code, start, table)
<1>1. ids \in Seq(S)
  BY SelectIsInOrder DEF InOrder
<1>2. S \subseteq Byte /\ S \subseteq DOMAIN table
  BY SelectedFacts DEF Selected
<1> HIDE DEF ids
<1>3. ids \in Seq(Byte)
  BY <1>1, <1>2, SeqElement, Retyped
<1>4. ASSUME NEW i \in 1 .. Len(ids) PROVE ids[i] \in Byte /\ table[ids[i]] \in 0 .. 244
  <2>1. ids[i] \in S
    BY <1>1, SeqElement
  <2> QED BY <1>2, <2>1 DEF IsTable
<1> QED BY <1>3, <1>4 DEF Known, ids

\* What is answered: the objects that fit, and where the next page begins.
IsIdentification(r, q, ids, n, table) ==
    /\ r.kind = "normal" /\ r.fc = q.fc
    /\ r.fields = <<q.fields[1], ConformityLevel(table), IF n < Len(ids) THEN 1 ELSE 0,
                    NextObjectId(ids, n)>>
    /\ r = Normal(q.fc, r.fields, r.values)
    /\ r.values = Page(ids, table, n)
    /\ n \in 0 .. Len(ids) /\ Size(ids, table, n) <= Remaining

\* The two outcomes of the read of a device identification.
LEMMA IdentificationIs ==
    ASSUME NEW q, NEW table, IsTable(table)
    PROVE  IF q.fields[1] = 4 /\ q.fields[2] \notin DOMAIN table
             THEN Identification(q, table) = ExceptionResponse(q.fc, 2)
             ELSE LET ids == Select(q.fields[1], q.fields[2], table)
                  IN  IsIdentification(Identification(q, table), q, ids,
                                       Fit(ids, table), table)
<1> DEFINE ids == Select(q.fields[1], q.fields[2], table)
           n == Fit(ids, table)
           fields == <<q.fields[1], ConformityLevel(table), IF n < Len(ids) THEN 1 ELSE 0,
                       NextObjectId(ids, n)>>
<1>1. CASE q.fields[1] = 4 /\ q.fields[2] \notin DOMAIN table
  BY <1>1 DEF Identification
<1>2. CASE ~ (q.fields[1] = 4 /\ q.fields[2] \notin DOMAIN table)
  <2>1. Identification(q, table) = Normal(q.fc, fields, Page(ids, table, n))
    BY <1>2 DEF Identification, Page
  <2>2. ids \in Seq(Byte) /\ Known(ids, table)
    BY SelectIsKnown
  <2>3. n \in 0 .. Len(ids) /\ Size(ids, table, n) <= Remaining
    <3> HIDE DEF ids
    <3> QED BY <2>2, FitFacts
  <2> HIDE DEF ids, n
  <2>4. IsIdentification(Normal(q.fc, fields, Page(ids, table, n)), q, ids, n, table)
    BY <2>3 DEF IsIdentification, Normal, Response
  <2> QED BY <1>2, <2>1, <2>4 DEF ids, n
<1> QED BY <1>1, <1>2

\* The id of the object a caller is told to ask for next.
LEMMA NextIsByte ==
    ASSUME NEW ids \in Seq(Byte), NEW n \in 0 .. Len(ids)
    PROVE  NextObjectId(ids, n) \in Byte
<1>1. CASE n < Len(ids)
  <2>1. n + 1 \in 1 .. Len(ids)
    BY <1>1, LenProperties
  <2> QED BY <1>1, <2>1, SeqElement DEF NextObjectId
<1>2. CASE ~ (n < Len(ids))
  BY <1>2, ByteIs DEF NextObjectId
<1> QED BY <1>1, <1>2

\* The server refuses it or answers with a page.
LEMMA IdentificationIsAnswer ==
    ASSUME NEW q, Valid(q), q.fc = 43, NEW table, IsTable(table)
    PROVE  \/ Identification(q, table) = ExceptionResponse(q.fc, 2)
           \/ IsAnswer(Identification(q, table), q)
<1> DEFINE ids == Select(q.fields[1], q.fields[2], table)
           n == Fit(ids, table)
           r == Identification(q, table)
<1>1. CASE q.fields[1] = 4 /\ q.fields[2] \notin DOMAIN table
  BY <1>1, IdentificationIs
<1>2. CASE ~ (q.fields[1] = 4 /\ q.fields[2] \notin DOMAIN table)
  <2>1. IsIdentification(r, q, ids, n, table)
    BY <1>2, IdentificationIs
  <2>2. ids \in Seq(Byte) /\ Known(ids, table)
    BY SelectIsKnown
  <2> HIDE DEF ids, n, r
  <2>3. n \in 0 .. Len(ids) /\ Size(ids, table, n) <= Remaining /\ n \in Nat
    BY <2>1, LenProperties DEF IsIdentification
  <2>4. r.values \in Seq(Objects) /\ Len(r.values) = n
    BY <2>1, <2>2, <2>3, PageFacts DEF IsIdentification
  <2>5. /\ Len(FlattenSeq(ObjectBytes(r.values))) = Size(ids, table, n)
        /\ 2 * n <= Size(ids, table, n) /\ Size(ids, table, n) \in Nat
    BY <2>1, <2>2, <2>3, PageSize, SizeIsNat DEF IsIdentification
  <2>6. n <= 123 /\ Size(ids, table, n) <= 246
    BY <2>3, <2>5 DEF Remaining
  <2>7. ConformityLevel(table) \in {129, 130, 131}
    BY DEF ConformityLevel
  <2>8. NextObjectId(ids, n) \in Byte
    BY <2>2, <2>3, NextIsByte
  <2>9. PICK more \in {0, 1} : more = IF n < Len(ids) THEN 1 ELSE 0
    OBVIOUS
  <2>10. r.fields = <<q.fields[1], ConformityLevel(table), more, NextObjectId(ids, n)>>
    BY <2>1, <2>9 DEF IsIdentification
  <2>11. \E level \in {129, 130, 131}, m \in {0, 1}, next \in Byte :
            r.fields = <<q.fields[1], level, m, next>>
    <3> WITNESS ConformityLevel(table) \in {129, 130, 131}, more \in {0, 1},
               NextObjectId(ids, n) \in Byte
    <3> QED BY <2>10
  <2>12. IsPage(r, q)
    BY <2>4, <2>5, <2>6, <2>11 DEF IsPage
  <2>13. r = Normal(q.fc, r.fields, r.values)
    BY <2>1 DEF IsIdentification
  <2>14. IsAnswer(r, q)
    BY <1>1, <1>2, <2>12, <2>13 DEF IsAnswer
  <2> QED BY <2>14 DEF r
<1> QED BY <1>1, <1>2
-----------------------------------------------------------------------------
(***************************************************************************)
(* What devices answer.                                                    *)
(***************************************************************************)
Refuses(r, q) == \E code \in {1, 2, 3} : r = ExceptionResponse(q.fc, code)

\* Whatever its datastore holds, the server answers a valid request with an
\* answer to it, or an exception.
LEMMA ServerAnswers ==
    ASSUME NEW q, Valid(q), session \in Session, NEW r \in Responses(q)
    PROVE  Refuses(r, q) \/ IsAnswer(r, q)
<1>1. IsTable(session.table) /\ q.by = "standard"
  BY SessionAssumption DEF IsSession, Valid
<1>2. /\ q.fc \in Codes /\ q.fields \in Seq(Word) /\ q.values \in Seq(Word)
  BY ValidFacts, CodeNumbers DEF Codes
<1>3. CASE q.fc = 43
  <2>1. r = Identification(q, session.table)
    BY <1>1, <1>3, CodeNumbers DEF Responses
  <2>2. r = ExceptionResponse(q.fc, 2) \/ IsAnswer(r, q)
    BY <1>1, <1>3, <2>1, IdentificationIsAnswer
  <2> QED BY <2>2 DEF Refuses
<1>4. CASE q.fc # 43
  <2> DEFINE data == CASE q.fc \in ReadBits ->
                      {Normal(q.fc, <<>>, v) :
                          v \in Held(BitPattern(q.fields[2]), q.fields[2], {0, 1})}
                 [] q.fc \in ReadRegisters \cup {ReadWriteMultipleRegisters} ->
                      {Normal(q.fc, <<>>, v) :
                          v \in Held(WordPattern(q.fields[2]), q.fields[2], Word)}
                 [] q.fc \in {WriteMultipleCoils, WriteMultipleRegisters} ->
                      {Normal(q.fc, <<q.fields[1], Len(q.values)>>, <<>>)}
                 [] OTHER -> {Normal(q.fc, q.fields, q.values)}
  <2>1. r \in {ExceptionResponse(q.fc, code) : code \in {2, 3}} \cup data
    BY <1>1, <1>4, CodeNumbers DEF Responses
  <2>2. CASE r \in {ExceptionResponse(q.fc, code) : code \in {2, 3}}
    BY <2>2 DEF Refuses
  <2>3. CASE r \in data
    <3>1. CASE q.fc \in {1, 2}
      <4>1. PICK v \in Held(BitPattern(q.fields[2]), q.fields[2], {0, 1}) : r = Normal(q.fc, <<>>, v)
        BY <2>3, <3>1, CodeNumbers
      <4>2. q.fields[2] \in Nat /\ v \in [1 .. q.fields[2] -> {0, 1}]
        BY <3>1, ReadCount DEF Held
      <4>3. v \in Seq({0, 1}) /\ Len(v) = q.fields[2]
        BY <4>2, FunctionIsSeq
      <4> QED BY <3>1, <4>1, <4>3 DEF IsAnswer, Normal, Response
    <3>2. CASE q.fc \in {3, 4, 23}
      <4>1. PICK v \in Held(WordPattern(q.fields[2]), q.fields[2], Word) : r = Normal(q.fc, <<>>, v)
        BY <2>3, <3>2, CodeNumbers
      <4>2. q.fields[2] \in Nat /\ v \in [1 .. q.fields[2] -> Word]
        BY <3>2, ReadCount DEF Held
      <4>3. v \in Seq(Word) /\ Len(v) = q.fields[2]
        BY <4>2, FunctionIsSeq
      <4> QED BY <3>2, <4>1, <4>3 DEF IsAnswer, Normal, Response
    <3>3. CASE q.fc \in {15, 16}
      <4>1. r = Normal(q.fc, <<q.fields[1], Len(q.values)>>, <<>>)
        BY <2>3, <3>3, CodeNumbers
      <4> QED BY <3>3, <4>1 DEF IsAnswer, Normal, Response
    <3>4. CASE q.fc \in {5, 6, 22}
      <4>1. r = Normal(q.fc, q.fields, q.values)
        BY <2>3, <3>4, CodeNumbers
      <4> QED BY <3>4, <4>1 DEF IsAnswer, Normal, Response
    <3> QED BY <1>2, <1>4, <3>1, <3>2, <3>3, <3>4 DEF Codes
  <2> QED BY <2>1, <2>2, <2>3
<1> QED BY <1>3, <1>4

-----------------------------------------------------------------------------
(***************************************************************************)
(* Everything that is sent is bytes, and fits a PDU of 253.                *)
(***************************************************************************)
Sendable(pdu) == pdu \in Seq(Byte) /\ 1 <= Len(pdu) /\ Len(pdu) <= 253

\* What fits a PDU of 253 bytes fits a frame.
LEMMA SendableIsPDU ==
    ASSUME NEW pdu, Sendable(pdu)
    PROVE  IsPDU(pdu) /\ pdu # <<>> /\ pdu \in Seq(Byte) /\ Len(pdu) \in Nat
<1>1. pdu \in Seq(Byte) /\ 1 <= Len(pdu) /\ Len(pdu) <= 253
  BY DEF Sendable
<1>2. Len(pdu) \in Nat
  BY <1>1, LenProperties
<1>3. Len(pdu) <= 65534
  BY <1>1, <1>2
<1>4. pdu # <<>>
  BY <1>1
<1> QED BY <1>1, <1>2, <1>3, <1>4 DEF IsPDU

\* A function code and up to 252 bytes fit a PDU.
LEMMA CodeAndRest ==
    ASSUME NEW fc \in Byte, NEW rest \in Seq(Byte), Len(rest) <= 252
    PROVE  Sendable(<<fc>> \o rest)
<1>1. <<fc>> \o rest \in Seq(Byte) /\ Len(<<fc>> \o rest) = 1 + Len(rest)
  BY Prepending
<1>2. PICK n \in Nat : n = Len(rest)
  BY LenProperties
<1>3. 1 <= 1 + n /\ 1 + n <= 253
  BY <1>2
<1> QED BY <1>1, <1>2, <1>3 DEF Sendable

\* An exception fits a PDU.
LEMMA RefusalIsSent ==
    ASSUME NEW fc \in Byte, NEW code \in {1, 2, 3}
    PROVE  Sendable(EncodeResponse(ExceptionResponse(fc, code)))
<1>1. PICK sentCode \in Byte : sentCode = IF fc < 128 THEN fc + 128 ELSE fc
  BY ByteIs
<1>2. code \in Byte
  BY ByteIs
<1>3. <<code>> \in Seq(Byte) /\ Len(<<code>>) = 1
  BY <1>2, Singleton
<1>4. EncodeResponse(ExceptionResponse(fc, code)) = <<sentCode>> \o <<code>>
  BY <1>1 DEF EncodeResponse, ExceptionResponse, Response
<1> QED BY <1>3, <1>4, CodeAndRest, SMTT(40)

\* The function codes below the exception flag.
LEMMA SmallCode ==
    ASSUME NEW fc \in 0 .. 127
    PROVE  fc \in Byte /\ fc \in Nat /\ fc < 128 /\ ~ (fc >= 128)
BY ByteIs

\* Every answer to a valid request fits a PDU.
LEMMA AnswerIsSent ==
    ASSUME NEW q, Valid(q), NEW r, Refuses(r, q) \/ IsAnswer(r, q)
    PROVE  Sendable(EncodeResponse(r))
<1>1. q.fc \in Byte
  BY ValidFacts, SmallCode
<1>2. CASE Refuses(r, q)
  <2>1. PICK code \in {1, 2, 3} : r = ExceptionResponse(q.fc, code)
    BY <1>2 DEF Refuses
  <2> QED BY <1>1, <2>1, RefusalIsSent
<1>3. CASE IsAnswer(r, q)
  <2>1. PICK body : AnswersWith(q, r, body)
    BY <1>3, AnswerComesBack
  <2>2. body \in Seq(Byte) /\ Len(body) <= 252 /\ EncodeResponse(r) = <<q.fc>> \o body
    BY <2>1 DEF AnswersWith
  <2> QED BY <1>1, <2>2, CodeAndRest
<1> QED BY <1>2, <1>3

\* A request of a class of the application, and the answer of a device to it.
LEMMA CustomFacts ==
    ASSUME NEW q, IsRequest(q), q.by # "standard"
    PROVE  /\ q.fc \in 0 .. 127 /\ q.fc \in Byte
           /\ q.values \in Seq(Byte) /\ Len(q.values) <= 252
           /\ EncodeRequest(q) = <<q.fc>> \o q.values
           /\ EncodeResponse(CustomResponse("custom", q.fc, q.values)) = <<q.fc>> \o q.values
           /\ Sendable(<<q.fc>> \o q.values)
<1>1. q.fc \in 0 .. 127 /\ q.values \in Seq(Byte) /\ Len(q.values) <= 252
  BY DEF IsRequest
<1>2. q.fc \in Byte
  BY <1>1, SmallCode
<1>3. EncodeRequest(q) = <<q.fc>> \o q.values
  BY DEF EncodeRequest
<1>4. EncodeResponse(CustomResponse("custom", q.fc, q.values)) = <<q.fc>> \o q.values
  BY DEF EncodeResponse, CustomResponse, Response
<1> QED BY <1>1, <1>2, <1>3, <1>4, CodeAndRest

\* So does every request.
LEMMA RequestIsSent ==
    ASSUME NEW q, IsRequest(q), PostInit(q)
    PROVE  Sendable(EncodeRequest(q)) /\ q.fc \in 0 .. 127
<1>1. CASE q.by = "standard"
  <2>1. Valid(q)
    BY <1>1 DEF Valid
  <2>2. /\ EncodeRequest(q) \in Seq(Byte)
        /\ Len(EncodeRequest(q)) >= 3 /\ Len(EncodeRequest(q)) <= 253
    BY <2>1, RequestComesBack
  <2>3. Len(EncodeRequest(q)) \in Nat
    BY <2>2, LenProperties
  <2>4. 1 <= Len(EncodeRequest(q))
    BY <2>2, <2>3
  <2> QED BY <2>1, <2>2, <2>4, ValidFacts DEF Sendable
<1>2. CASE q.by # "standard"
  BY <1>2, CustomFacts
<1> QED BY <1>1, <1>2

\* A frame of the session's link, and what the client makes of it.
LEMMA FrameFacts ==
    ASSUME NEW pdu, IsPDU(pdu)
    PROVE  /\ Framed(pdu) \in Seq(Byte)
           /\ session.link = "tcp" => /\ Framed(pdu) = TcpFrame(Tid, Unit, pdu)
                                      /\ TcpRoundTrip(Tid, Unit, pdu, Framed(pdu))
           /\ session.link # "tcp" => RtuRoundTrip(Unit, pdu, Framed(pdu))
<1>1. Tid \in Word /\ Unit \in Byte
  BY ByteIs, WordIs DEF Tid, Unit
<1>2. CASE session.link = "tcp"
  <2>1. Framed(pdu) = TcpFrame(Tid, Unit, pdu)
    BY <1>2 DEF Framed
  <2>2. TcpRoundTrip(Tid, Unit, pdu, Framed(pdu))
    BY <1>1, <2>1, TcpFrameFacts
  <2> QED BY <1>2, <2>1, <2>2 DEF TcpRoundTrip
<1>3. CASE session.link # "tcp"
  <2>1. Framed(pdu) = RtuFrame(Unit, pdu)
    BY <1>3 DEF Framed
  <2>2. RtuRoundTrip(Unit, pdu, Framed(pdu))
    BY <1>1, <2>1, RtuFrameFacts
  <2> QED BY <1>3, <2>2 DEF RtuRoundTrip
<1> QED BY <1>2, <1>3

\* The lengths of frames.
LEMMA FrameSize ==
    ASSUME NEW pdu, Sendable(pdu)
    PROVE  Len(Framed(pdu)) <= 260 /\ (session.link # "tcp" => Len(Framed(pdu)) <= 256)
<1>1. IsPDU(pdu) /\ Len(pdu) \in Nat /\ Len(pdu) <= 253
  BY SendableIsPDU DEF Sendable
<1>2. session.link = "tcp" => Len(Framed(pdu)) = 7 + Len(pdu)
  BY <1>1, FrameFacts DEF TcpRoundTrip
<1>3. session.link # "tcp" => Len(Framed(pdu)) = Len(pdu) + 3
  BY <1>1, FrameFacts DEF RtuRoundTrip
<1> QED BY <1>1, <1>2, <1>3

-----------------------------------------------------------------------------
(***************************************************************************)
(* The remainder of a frame.                                               *)
(***************************************************************************)
\* A step of the division, and its bits.
Reduced(v) == IF v >= 65536 THEN Xor(v - 65536, 32773) ELSE v

\* The lowest bit of a word is whether it is odd.
LEMMA LowestBit ==
    ASSUME NEW w \in Word
    PROVE  BitsOf(w)[1] = w % 2
<1>1. BitsOf(w)[1] = Bit(w % 256, 1)
  BY DEF BitsOf
<1>2. Bit(w % 256, 1) = (w % 256) % 2
  BY BytesOfWord, ByteIs DEF Bit, Weight
<1>3. (w % 256) % 2 = w % 2
  BY WordIs
<1> QED BY <1>1, <1>2, <1>3

\* The highest tells the words of 32768 and more, and is all they have more.
LEMMA HighestBit ==
    ASSUME NEW w \in Word
    PROVE  /\ w >= 32768 <=> BitsOf(w)[16] = 1
           /\ w % 32768 \in Word
           /\ \A k \in 1 .. 15 : BitsOf(w % 32768)[k] = BitsOf(w)[k]
<1>1. PICK a \in Nat, b \in Nat : a = w \div 256 /\ b = w % 256 /\ a <= 255 /\ b <= 255 /\ w = 256 * a + b
  BY BytesOfWord, ByteIs
<1>2. a \in Byte /\ b \in Byte /\ a % 128 \in Byte
  BY <1>1, ByteIs
<1>3. w % 32768 = 256 * (a % 128) + b
  BY <1>1
<1>4. w % 32768 \in Word
  BY <1>2, <1>3, WordOfBytes
<1>5. Bit(a, 8) = 1 <=> a >= 128
  BY <1>1 DEF Bit, Weight
<1>6. BitsOf(w)[16] = Bit(a, 8)
  BY <1>1 DEF BitsOf
<1>7. w >= 32768 <=> a >= 128
  BY <1>1
<1>8. \A k \in 1 .. 7 : Bit(a % 128, k) = Bit(a, k)
  <2>1. PICK h \in 0 .. 127, t \in {0, 1} : h = a % 128 /\ a = 128 * t + h
    BY <1>1
  <2>2. Bit(h, 1) = Bit(a, 1)
    BY <2>1 DEF Bit, Weight
  <2>3. Bit(h, 2) = Bit(a, 2)
    BY <2>1 DEF Bit, Weight
  <2>4. Bit(h, 3) = Bit(a, 3)
    BY <2>1 DEF Bit, Weight
  <2>5. Bit(h, 4) = Bit(a, 4)
    BY <2>1 DEF Bit, Weight
  <2>6. Bit(h, 5) = Bit(a, 5)
    BY <2>1 DEF Bit, Weight
  <2>7. Bit(h, 6) = Bit(a, 6)
    BY <2>1 DEF Bit, Weight
  <2>8. Bit(h, 7) = Bit(a, 7)
    BY <2>1 DEF Bit, Weight
  <2> QED BY <2>1, <2>2, <2>3, <2>4, <2>5, <2>6, <2>7, <2>8
<1>9. ASSUME NEW k \in 1 .. 15 PROVE BitsOf(w % 32768)[k] = BitsOf(w)[k]
  <2>1. BitsOf(w % 32768)[k] = IF k <= 8 THEN Bit(b, k) ELSE Bit(a % 128, k - 8)
    BY <1>2, <1>3, BitsOfBytes
  <2>2. BitsOf(w)[k] = IF k <= 8 THEN Bit(b, k) ELSE Bit(a, k - 8)
    BY <1>1 DEF BitsOf
  <2>3. ~ (k <= 8) => k - 8 \in 1 .. 7
    OBVIOUS
  <2> QED BY <1>8, <2>1, <2>2, <2>3
<1> QED BY <1>4, <1>5, <1>6, <1>7, <1>9

\* A bit is shifted in, and the generator taken off.
LEMMA ReducedFacts ==
    ASSUME NEW w \in Word, NEW b \in {0, 1}
    PROVE  /\ Reduced(2 * w + b) \in Word
           /\ BitsOf(Reduced(2 * w + b)) = DivBit(BitsOf(w), b)
<1> DEFINE x == BitsOf(w)
<1>1. x \in WordBits /\ \A k \in 1 .. 16 : x[k] \in {0, 1}
  BY BitsOfWord, WordBitsAre
<1>2. PICK d \in Word : /\ 2 * w + b >= 65536 <=> x[16] = 1
                        /\ d = IF x[16] = 1 THEN 2 * w + b - 65536 ELSE 2 * w + b
                        /\ d \div 2 = w % 32768 /\ d % 2 = b
  <2>1. w \in Nat /\ w <= 65535
    BY WordIs
  <2>2. w >= 32768 <=> x[16] = 1
    BY HighestBit
  <2>3. CASE x[16] = 1
    <3>1. PICK d \in Nat : d = 2 * w + b - 65536 /\ d <= 65535
      BY <2>1, <2>2, <2>3
    <3>2. d \div 2 = w % 32768 /\ d % 2 = b /\ 2 * w + b >= 65536
      BY <2>1, <2>2, <2>3, <3>1
    <3> QED BY <2>3, <3>1, <3>2, WordIs
  <2>4. CASE x[16] # 1
    <3>1. PICK d \in Nat : d = 2 * w + b /\ d <= 65535
      BY <2>1, <2>2, <2>4
    <3>2. d \div 2 = w % 32768 /\ d % 2 = b /\ ~ (2 * w + b >= 65536)
      BY <2>1, <2>2, <2>4, <3>1
    <3> QED BY <2>4, <3>1, <3>2, WordIs
  <2> QED BY <2>3, <2>4
<1> DEFINE y == BitsOf(d)
<1>3. y \in WordBits /\ \A k \in 1 .. 16 : y[k] \in {0, 1}
  BY BitsOfWord, WordBitsAre
<1>4. \A k \in 1 .. 16 : y[k] = IF k = 1 THEN b ELSE x[k - 1]
  <2>1. y[1] = b
    BY <1>2, LowestBit
  <2>2. \A k \in 1 .. 15 : ShiftedDown(y)[k] = y[k + 1]
    BY DEF ShiftedDown
  <2>3. ShiftedDown(y) = BitsOf(w % 32768)
    BY <1>2, HalfFacts
  <2>4. \A k \in 1 .. 15 : y[k + 1] = x[k]
    BY <2>2, <2>3, HighestBit
  <2> SUFFICES ASSUME NEW k \in 1 .. 16, k # 1 PROVE y[k] = x[k - 1]
    BY <2>1
  <2>5. k - 1 \in 1 .. 15 /\ (k - 1) + 1 = k
    OBVIOUS
  <2> HIDE DEF x, y
  <2> QED BY <2>4, <2>5
<1> HIDE DEF x, y
<1>5. \A k \in 1 .. 16 : DivBit(x, b)[k] = IF k = 1 THEN (x[16] + b) % 2
                                           ELSE IF k \in {3, 16} THEN (x[k - 1] + x[16]) % 2
                                           ELSE x[k - 1]
  BY DEF DivBit, DivShift
<1>6. DivBit(x, b) \in WordBits
  BY <1>1, WordBitsAre
<1>7. CASE x[16] = 1
  <2>1. Reduced(2 * w + b) = Xor(d, 32773)
    BY <1>2, <1>7 DEF Reduced
  <2>2. 32773 \in Word
    BY WordIs
  <2>3. \A k \in 1 .. 16 : BitsOf(32773)[k] = IF k \in {1, 3, 16} THEN 1 ELSE 0
    <3>1. 32773 % 256 = 5 /\ 32773 \div 256 = 128
      OBVIOUS
    <3>2. \A k \in 1 .. 8 : Bit(5, k) = IF k \in {1, 3} THEN 1 ELSE 0
      BY DEF Bit, Weight
    <3>3. \A k \in 1 .. 8 : Bit(128, k) = IF k = 8 THEN 1 ELSE 0
      BY DEF Bit, Weight
    <3> SUFFICES ASSUME NEW k \in 1 .. 16
                 PROVE  BitsOf(32773)[k] = IF k \in {1, 3, 16} THEN 1 ELSE 0
      OBVIOUS
    <3>4. BitsOf(32773)[k] = IF k <= 8 THEN Bit(5, k) ELSE Bit(128, k - 8)
      BY <3>1 DEF BitsOf
    <3>5. ~ (k <= 8) => k - 8 \in 1 .. 8
      OBVIOUS
    <3> QED BY <3>2, <3>3, <3>4, <3>5
  <2>4. Xor(d, 32773) \in Word /\ BitsOf(Xor(d, 32773)) = Plus(y, BitsOf(32773))
    BY <2>2, XorFacts DEF y
  <2>5. ASSUME NEW k \in 1 .. 16 PROVE Plus(y, BitsOf(32773))[k] = DivBit(x, b)[k]
    <3>1. Plus(y, BitsOf(32773))[k] = (y[k] + (IF k \in {1, 3, 16} THEN 1 ELSE 0)) % 2
      BY <2>3 DEF Plus
    <3>2. CASE k = 1
      BY <1>4, <1>5, <1>7, <3>1, <3>2
    <3>3. CASE k # 1
      <4>1. x[k - 1] \in {0, 1} /\ y[k] = x[k - 1]
        BY <1>1, <1>4, <3>3
      <4> QED BY <1>5, <1>7, <3>1, <3>3, <4>1
    <3> QED BY <3>2, <3>3
  <2>6. Plus(y, BitsOf(32773)) = DivBit(x, b)
    <3>1. Plus(y, BitsOf(32773)) \in WordBits
      BY <1>3, <2>2, BitsOfWord, WordBitsAre
    <3> QED BY <1>6, <2>5, <3>1, SameBits
  <2> QED BY <2>1, <2>4, <2>6 DEF x
<1>8. CASE x[16] # 1
  <2>1. Reduced(2 * w + b) = d /\ x[16] = 0
    BY <1>1, <1>2, <1>8 DEF Reduced
  <2>2. ASSUME NEW k \in 1 .. 16 PROVE y[k] = DivBit(x, b)[k]
    <3>1. k # 1 => x[k - 1] \in {0, 1}
      BY <1>1
    <3> QED BY <1>4, <1>5, <2>1, <3>1
  <2>3. y = DivBit(x, b)
    BY <1>3, <1>6, <2>2, SameBits
  <2> QED BY <2>1, <2>3 DEF x, y
<1> QED BY <1>7, <1>8

\* The steps of the division.
Divides(g, bits, n) == /\ g \in [0 .. n -> Word] /\ g[0] = 0
                       /\ \A i \in 1 .. n : g[i] = Reduced(2 * g[i - 1] + bits[i])

LEMMA RemainderSteps ==
    ASSUME NEW n \in Nat, NEW bits \in [1 .. n -> {0, 1}]
    PROVE  \E g : Divides(g, bits, n) /\ Remainder(bits) = g[n]
<1> DEFINE step == [i \in 1 .. n |-> [v \in Word |-> Reduced(2 * v + bits[i])]]
           reduced == [v \in Nat |-> IF v >= 65536 THEN Xor(v - 65536, 32773) ELSE v]
           Rec(f) == f = [i \in 0 .. n |-> IF i = 0 THEN 0 ELSE reduced[2 * f[i - 1] + bits[i]]]
           after == CHOOSE f : Rec(f)
<1>1. \A i \in 1 .. n : bits[i] \in {0, 1}
  OBVIOUS
<1>2. step \in Steps(n, Word)
  BY <1>1, ReducedFacts DEF Steps
<1>3. PICK zero \in Word : zero = 0
  BY WordIs
<1>4. PICK g : Iterates(g, n, Word, zero, step)
  BY <1>2, Iteration
<1>5. g \in [0 .. n -> Word] /\ g[0] = 0
  BY <1>3, <1>4 DEF Iterates
<1>6. ASSUME NEW i \in 1 .. n
      PROVE  g[i - 1] \in Word /\ g[i] = Reduced(2 * g[i - 1] + bits[i])
  <2>1. g[i - 1] \in Word
    BY <1>5
  <2>2. g[i] = step[i][g[i - 1]]
    BY <1>4 DEF Iterates
  <2>3. \A v \in Word : step[i][v] = Reduced(2 * v + bits[i])
    OBVIOUS
  <2> HIDE DEF step
  <2> QED BY <2>1, <2>2, <2>3, Zenon
<1>7. Divides(g, bits, n)
  BY <1>5, <1>6 DEF Divides
<1>8. ASSUME NEW i \in 1 .. n PROVE g[i] = reduced[2 * g[i - 1] + bits[i]]
  <2>1. PICK w \in Nat, b \in Nat : w = g[i - 1] /\ b = bits[i]
    <3>1. g[i - 1] \in Nat
      <4>1. \A x \in Word : x \in Nat
        BY WordIs
      <4>2. g[i - 1] \in Word
        BY <1>6
      <4> QED BY <4>1, <4>2, Zenon
    <3>2. bits[i] \in Nat
      BY <1>1
    <3> QED BY <3>1, <3>2
  <2>2. 2 * w + b \in Nat
    OBVIOUS
  <2>3. reduced[2 * w + b] = Reduced(2 * w + b)
    BY <2>2 DEF Reduced
  <2> HIDE DEF reduced
  <2> QED BY <1>6, <2>1, <2>3, Zenon
<1> HIDE DEF reduced
<1>9. Rec(g)
  BY <1>5, <1>8
<1>10. Rec(after)
  <2> HIDE DEF Rec
  <2> QED BY <1>9, Zenon
<1>11. Len(bits) = n
  BY FunctionIsSeq
<1>12. Remainder(bits) = after[n]
  BY <1>11 DEF Remainder, after, reduced
<1> HIDE DEF after
<1>13. after[0] = g[0] /\ KeepsEqual(after, g, n)
  BY <1>9, <1>10 DEF KeepsEqual
<1>14. n \in 0 .. n
  OBVIOUS
<1>15. after[n] = g[n]
  BY <1>13, <1>14, SameSteps
<1> QED BY <1>7, <1>12, <1>15

\* The bits of a frame as they are divided, the first sixteen inverted.
Wire(data) == [i \in 1 .. 8 * Len(data) |-> IF i <= 16 THEN 1 - BitAfter(data, 0, i)
                                                       ELSE BitAfter(data, 0, i)]

\* Where the bits of a byte are in a frame.
LEMMA BitPlace ==
    ASSUME NEW data \in Seq(Byte), NEW n \in 1 .. Len(data), NEW j \in 1 .. 8
    PROVE  /\ 8 * (n - 1) + j \in 1 .. 8 * Len(data)
           /\ BitAfter(data, 0, 8 * (n - 1) + j) = Bit(data[n], j)
           /\ data[n] \in Byte /\ Bit(data[n], j) \in {0, 1}
<1>1. PICK m \in Nat : m = Len(data)
  BY LenProperties
<1>2. PICK i \in Nat : /\ i = 8 * (n - 1) + j /\ i \in 1 .. 8 * m
                       /\ 0 + 1 + ((i - 1) \div 8) = n /\ ((i - 1) % 8) + 1 = j
  BY <1>1
<1>3. BitAfter(data, 0, i) = Bit(data[n], j)
  BY <1>2 DEF BitAfter
<1>4. data[n] \in Byte
  BY SeqElement
<1>5. Bit(data[n], j) \in {0, 1}
  BY <1>4, ByteIs, BitIsBit
<1> QED BY <1>1, <1>2, <1>3, <1>4, <1>5

LEMMA PlaceOfBit ==
    ASSUME NEW m \in Nat, NEW i \in 1 .. 8 * m
    PROVE  \E n \in 1 .. m, j \in 1 .. 8 : i = 8 * (n - 1) + j
<1>1. ((i - 1) \div 8) + 1 \in 1 .. m /\ ((i - 1) % 8) + 1 \in 1 .. 8
  OBVIOUS
<1>2. i = 8 * ((((i - 1) \div 8) + 1) - 1) + (((i - 1) % 8) + 1)
  OBVIOUS
<1> QED BY <1>1, <1>2

LEMMA WireFacts ==
    ASSUME NEW data \in Seq(Byte)
    PROVE  /\ \A i \in 1 .. 8 * Len(data) : BitAfter(data, 0, i) \in {0, 1}
           /\ Wire(data) \in [1 .. 8 * Len(data) -> {0, 1}]
<1>1. PICK m \in Nat : m = Len(data)
  BY LenProperties
<1>2. ASSUME NEW i \in 1 .. 8 * m PROVE BitAfter(data, 0, i) \in {0, 1}
  <2>1. PICK n \in 1 .. m, j \in 1 .. 8 : i = 8 * (n - 1) + j
    BY PlaceOfBit
  <2> QED BY <1>1, <2>1, BitPlace
<1>3. \A i \in 1 .. 8 * m : Wire(data)[i] \in {0, 1}
  BY <1>1, <1>2 DEF Wire
<1> QED BY <1>1, <1>2, <1>3 DEF Wire

\* A frame whose CRC is zero is divisible.
LEMMA FrameIsDivisible ==
    ASSUME NEW data \in Seq(Byte), Len(data) >= 2, crc16_modbus(data) = 0
    PROVE  Remainder(Wire(data)) = 0
<1>1. PICK m \in Nat : m = Len(data) /\ m >= 2
  BY LenProperties
<1> DEFINE bits == Wire(data)
<1>2. ASSUME NEW n \in 1 .. m, NEW j \in 1 .. 8
      PROVE  /\ 8 * (n - 1) + j \in 1 .. 8 * m
             /\ bits[8 * (n - 1) + j] = IF 8 * (n - 1) + j <= 16 THEN 1 - Bit(data[n], j)
                                                                 ELSE Bit(data[n], j)
             /\ data[n] \in Byte /\ Bit(data[n], j) \in {0, 1}
  <2>1. PICK i \in Nat : i = 8 * (n - 1) + j
    OBVIOUS
  <2>2. /\ i \in 1 .. 8 * m /\ BitAfter(data, 0, i) = Bit(data[n], j)
        /\ data[n] \in Byte /\ Bit(data[n], j) \in {0, 1}
    BY <1>1, <2>1, BitPlace
  <2>3. bits[i] = IF i <= 16 THEN 1 - Bit(data[n], j) ELSE Bit(data[n], j)
    BY <1>1, <2>2 DEF Wire
  <2> HIDE DEF bits
  <2> QED BY <2>1, <2>2, <2>3
<1>3. bits \in [1 .. 8 * m -> {0, 1}]
  BY <1>1, WireFacts
<1> HIDE DEF bits
<1>4. PICK g : Divides(g, bits, 8 * m) /\ Remainder(bits) = g[8 * m]
  BY <1>1, <1>3, RemainderSteps
<1>5. PICK f : Rounds(f, data) /\ f[m] = 0
  BY <1>1, CrcRounds
<1> DEFINE Apart == {n \in 0 .. m : ~ Together(BitsOf(f[n]), BitsOf(g[8 * n]), 8 * n)}
<1>6. 0 \notin Apart
  <2>1. f[0] = 65535 /\ g[0] = 0
    BY <1>4, <1>5 DEF Rounds, Divides
  <2>2. BitsOf(65535) = Ones
    <3>1. 65535 % 256 = 255 /\ 65535 \div 256 = 255
      OBVIOUS
    <3>2. \A k \in 1 .. 8 : Bit(255, k) = 1
      BY DEF Bit, Weight
    <3>3. ASSUME NEW k \in 1 .. 16 PROVE BitsOf(65535)[k] = 1
      <4>1. ~ (k <= 8) => k - 8 \in 1 .. 8
        OBVIOUS
      <4> QED BY <3>1, <3>2, <4>1 DEF BitsOf
    <3> QED BY <3>3 DEF BitsOf, Ones
  <2>3. Together(BitsOf(f[0]), BitsOf(g[0]), 0)
    <3>1. BitsOf(f[0]) = Ones
      BY <2>1, <2>2
    <3>2. BitsOf(g[0]) = Zeros
      BY <2>1, BitsOfZero
    <3> QED BY <3>1, <3>2, BeginTogether
  <2>4. 8 * 0 = 0
    OBVIOUS
  <2> QED BY <2>3, <2>4
<1>7. ASSUME NEW n \in 1 .. m, n - 1 \notin Apart PROVE n \notin Apart
  <2>1. PICK p \in Nat : p = 8 * (n - 1)
    OBVIOUS
  <2>2. f[n - 1] \in Word /\ data[n] \in Byte /\ f[n] = CrcAfter(f[n - 1], data[n])
    <3>1. n \in 1 .. Len(data) /\ n - 1 \in 0 .. Len(data)
      BY <1>1
    <3>2. f \in [0 .. Len(data) -> Word] /\ \A i \in 1 .. Len(data) : f[i] = CrcAfter(f[i - 1], data[i])
      BY <1>5 DEF Rounds
    <3> QED BY <3>1, <3>2, SeqElement
  <2>3. PICK h : BitsCome(h, f[n - 1], data[n])
    BY <2>2, ByteIsBits
  <2> DEFINE Here(j) == Together(h[j], BitsOf(g[p + j]), p + j)
  <2>4. Here(0)
    <3>1. n - 1 \in 0 .. m /\ p + 0 = p
      BY <2>1
    <3>2. Together(BitsOf(f[n - 1]), BitsOf(g[p]), p)
      BY <1>7, <2>1, <3>1
    <3> QED BY <2>3, <3>1, <3>2 DEF BitsCome
  <2>5. ASSUME NEW j \in 1 .. 8, Here(j - 1) PROVE Here(j)
    <3>1. PICK i \in Nat : i = p + (j - 1) /\ i + 1 = p + j /\ i + 1 \in 1 .. 8 * m
                           /\ i \in 0 .. 8 * m /\ (i + 1 <= 16 <=> i < 16)
      BY <2>1
    <3>2. PICK b \in {0, 1} : b = Bit(data[n], j)
      BY <1>2
    <3>3. PICK d \in {0, 1} : d = IF i < 16 THEN 1 - b ELSE b
      OBVIOUS
    <3>4. bits[i + 1] = d
      <4>1. i + 1 = 8 * (n - 1) + j
        BY <2>1, <3>1
      <4>2. bits[8 * (n - 1) + j] = IF 8 * (n - 1) + j <= 16 THEN 1 - b ELSE b
        BY <1>2, <3>2
      <4> QED BY <3>1, <3>3, <4>1, <4>2
    <3>5. g[i] \in Word /\ g[i + 1] = Reduced(2 * g[i] + d)
      <4>1. /\ g \in [0 .. 8 * m -> Word]
            /\ \A k \in 1 .. 8 * m : g[k] = Reduced(2 * g[k - 1] + bits[k])
        BY <1>4, Zenon DEF Divides
      <4>2. PICK k \in 1 .. 8 * m : k = i + 1 /\ k - 1 = i
        BY <3>1
      <4>3. g[k] = Reduced(2 * g[k - 1] + bits[k])
        BY <4>1, Zenon
      <4>4. bits[k] = d
        BY <3>4, <4>2, Zenon
      <4>5. g[k] = Reduced(2 * g[i] + d)
        BY <4>2, <4>3, <4>4, Zenon
      <4>6. g[i] \in Word
        BY <3>1, <4>1, Zenon
      <4> QED BY <4>2, <4>5, <4>6, Zenon
    <3>6. BitsOf(g[i]) \in WordBits /\ BitsOf(g[i + 1]) = DivBit(BitsOf(g[i]), d)
      <4>1. PICK v \in Word : v = g[i]
        BY <3>5, Zenon
      <4>2. BitsOf(v) \in WordBits /\ BitsOf(Reduced(2 * v + d)) = DivBit(BitsOf(v), d)
        BY ReducedFacts, BitsOfWord, Zenon
      <4> QED BY <3>5, <4>1, <4>2, Zenon
    <3>7. h[j - 1] \in WordBits /\ h[j] = CrcBit(h[j - 1], b)
      BY <2>3, <3>2 DEF BitsCome
    <3>8. Together(h[j - 1], BitsOf(g[i]), i)
      BY <2>5, <3>1
    <3>9. Together(CrcBit(h[j - 1], b), DivBit(BitsOf(g[i]), d), i + 1)
      BY <3>3, <3>6, <3>7, <3>8, StayTogether
    <3> QED BY <3>1, <3>6, <3>7, <3>9
  <2> HIDE DEF Here
  <2>6. Here(1) /\ Here(2) /\ Here(3) /\ Here(4)
    BY <2>4, <2>5
  <2>7. Here(5) /\ Here(6) /\ Here(7) /\ Here(8)
    BY <2>5, <2>6
  <2>8. p + 8 = 8 * n
    BY <2>1
  <2>9. Together(BitsOf(f[n]), BitsOf(g[8 * n]), 8 * n)
    BY <2>2, <2>3, <2>7, <2>8 DEF Here, BitsCome
  <2> QED BY <2>9
<1>8. Apart = {}
  <2> SUFFICES ASSUME Apart # {} PROVE FALSE
    OBVIOUS
  <2>1. Apart \subseteq 0 .. m /\ Apart \subseteq Nat
    OBVIOUS
  <2> HIDE DEF Apart
  <2>2. PICK n \in Apart : \A k \in Apart : n <= k
    BY <2>1, LeastNatural
  <2>3. n \in 1 .. m /\ n - 1 \notin Apart
    BY <1>6, <2>1, <2>2
  <2> QED BY <1>7, <2>2, <2>3
<1>9. Together(Zeros, BitsOf(g[8 * m]), 8 * m)
  <2>1. m \in 0 .. m
    BY <1>1
  <2> QED BY <1>5, <1>8, <2>1, BitsOfZero
<1>10. g[8 * m] \in Word /\ 0 \in Word
  BY <1>4, WordIs DEF Divides
<1>11. BitsOf(g[8 * m]) = Zeros
  <2>1. 8 * m \in Nat /\ 8 * m >= 16
    BY <1>1
  <2> QED BY <1>9, <1>10, <2>1, BitsOfWord, TogetherZero
<1>12. g[8 * m] = 0
  BY <1>10, <1>11, BitsOfZero, BitsTellWords
<1> QED BY <1>1, <1>4, <1>12 DEF bits

-----------------------------------------------------------------------------
(***************************************************************************)
(* Flipped bits.                                                           *)
(***************************************************************************)
\* A frame whose CRC is zero goes through the register of the division.
LEMMA FrameGoesThrough ==
    ASSUME NEW data \in Seq(Byte), Len(data) >= 2, crc16_modbus(data) = 0
    PROVE  \E e : GoThrough(e, Wire(data), 8 * Len(data))
<1>1. PICK n \in Nat : n = 8 * Len(data)
  <2>1. 8 * Len(data) \in Nat
    BY LenProperties
  <2> QED BY <2>1
<1> DEFINE bits == Wire(data)
<1>0. bits \in [1 .. n -> {0, 1}]
  BY <1>1, WireFacts
<1> HIDE DEF bits
<1>2. PICK g : Divides(g, bits, n) /\ Remainder(bits) = g[n]
  BY <1>0, RemainderSteps
<1>3. g[n] = 0
  BY <1>2, FrameIsDivisible DEF bits
<1>4. g \in [0 .. n -> Word] /\ g[0] = 0
  BY <1>2 DEF Divides
<1> DEFINE e == [i \in 0 .. n |-> BitsOf(g[i])]
<1>5. e \in [0 .. n -> WordBits] /\ e[0] = Zeros /\ e[n] = Zeros
  <2>1. \A i \in 0 .. n : BitsOf(g[i]) \in WordBits
    BY <1>4, BitsOfWord
  <2>2. 0 \in 0 .. n /\ n \in 0 .. n
    OBVIOUS
  <2> QED BY <1>3, <1>4, <2>1, <2>2, BitsOfZero
<1>6. ASSUME NEW i \in 1 .. n PROVE bits[i] \in {0, 1} /\ e[i] = DivBit(e[i - 1], bits[i])
  <2>1. i \in 0 .. n /\ i - 1 \in 0 .. n
    OBVIOUS
  <2>2. PICK w \in Word, b \in {0, 1} : w = g[i - 1] /\ b = bits[i]
    BY <1>0, <1>4, <2>1
  <2>3. g[i] = Reduced(2 * w + b)
    BY <1>2, <2>2, Zenon DEF Divides
  <2>4. BitsOf(Reduced(2 * w + b)) = DivBit(BitsOf(w), b)
    BY ReducedFacts
  <2>5. e[i] = BitsOf(g[i]) /\ e[i - 1] = BitsOf(g[i - 1])
    BY <2>1
  <2> HIDE DEF e
  <2> QED BY <2>2, <2>3, <2>4, <2>5, Zenon
<1> HIDE DEF e
<1>7. GoThrough(e, bits, n)
  BY <1>5, <1>6 DEF GoThrough
<1> QED BY <1>1, <1>7 DEF bits

\* Frames with the same bits are the same.
LEMMA SameBitsSameFrame ==
    ASSUME NEW x \in Seq(Byte), NEW y \in Seq(Byte), Len(x) = Len(y),
           \A i \in 1 .. 8 * Len(x) : BitAfter(x, 0, i) = BitAfter(y, 0, i)
    PROVE  x = y
<1>1. ASSUME NEW n \in 1 .. Len(x) PROVE x[n] = y[n]
  <2>1. n \in 1 .. Len(y)
    OBVIOUS
  <2>2. ASSUME NEW j \in 1 .. 8 PROVE Bit(x[n], j) = Bit(y[n], j)
    <3>1. PICK i \in 1 .. 8 * Len(x) : i = 8 * (n - 1) + j
      BY BitPlace
    <3>2. BitAfter(x, 0, i) = Bit(x[n], j)
      BY <3>1, BitPlace
    <3>3. BitAfter(y, 0, i) = Bit(y[n], j)
      BY <2>1, <3>1, BitPlace
    <3> QED BY <3>2, <3>3, Zenon
  <2>3. PICK a \in Byte, b \in Byte : a = x[n] /\ b = y[n]
    BY <2>1, SeqElement
  <2>4. \A j \in 1 .. 8 : Bit(a, j) = Bit(b, j)
    BY <2>2, <2>3
  <2>5. a = b
    BY <2>4, BitsMakeByte
  <2> QED BY <2>3, <2>5
<1> QED BY <1>1, SeqEqual

\* Up to three flipped bits in a frame of a serial line make it one that has not
\* its CRC.
LEMMA FewFlipsShow ==
    ASSUME NEW x \in Seq(Byte), NEW y \in Seq(Byte), Len(x) = Len(y),
           2 <= Len(x), Len(x) <= 256, crc16_modbus(x) = 0, crc16_modbus(y) = 0,
           NEW a, NEW b, NEW c,
           \A i \in 1 .. 8 * Len(x) : BitAfter(x, 0, i) # BitAfter(y, 0, i) => i \in {a, b, c}
    PROVE  x = y
<1>1. PICK n \in Nat : n = 8 * Len(x) /\ \A m \in 1 .. n - 1 : m \in WithinFrame
  <2>1. PICK l \in Nat : l = Len(x) /\ l <= 256
    BY LenProperties
  <2>2. 8 * l \in Nat /\ \A m \in 1 .. 8 * l - 1 : m \in 1 .. 2047
    BY <2>1
  <2> QED BY <2>1, <2>2 DEF WithinFrame
<1> DEFINE d == [i \in 1 .. n |-> (Wire(x)[i] + Wire(y)[i]) % 2]
<1>2. PICK e : GoThrough(e, Wire(x), n)
  BY <1>1, FrameGoesThrough
<1>3. PICK f : GoThrough(f, Wire(y), n)
  BY <1>1, FrameGoesThrough
<1>4. PICK g : GoThrough(g, d, n)
  BY <1>2, <1>3, DifferenceGoesThrough
<1>5. ASSUME NEW i \in 1 .. n
      PROVE  d[i] = IF BitAfter(x, 0, i) = BitAfter(y, 0, i) THEN 0 ELSE 1
  <2>1. PICK u \in {0, 1}, v \in {0, 1} : u = BitAfter(x, 0, i) /\ v = BitAfter(y, 0, i)
    BY <1>1, WireFacts
  <2>2. /\ Wire(x)[i] = IF i <= 16 THEN 1 - u ELSE u
        /\ Wire(y)[i] = IF i <= 16 THEN 1 - v ELSE v
    BY <1>1, <2>1 DEF Wire
  <2>3. d[i] = (Wire(x)[i] + Wire(y)[i]) % 2
    OBVIOUS
  <2> HIDE DEF d
  <2> QED BY <2>1, <2>2, <2>3
<1> HIDE DEF d
<1>6. \A i \in 1 .. n : d[i] = 1 => i \in {a, b, c}
  BY <1>1, <1>5
<1>7. \A i \in 1 .. n : d[i] = 0
  BY <1>1, <1>4, <1>6, FlipsShow
<1>8. \A i \in 1 .. 8 * Len(x) : BitAfter(x, 0, i) = BitAfter(y, 0, i)
  BY <1>1, <1>5, <1>7
<1> QED BY <1>8, SameBitsSameFrame

\* The bits of a byte with a flipped bit.
LEMMA FlippedBits ==
    ASSUME NEW byte \in Byte, NEW k \in 1 .. 8, NEW j \in 1 .. 8, j # k
    PROVE  Bit(Flip(byte, k), j) = Bit(byte, j)
<1> DEFINE b == [i \in 1 .. 8 |-> Bit(byte, i)]
           c == [i \in 1 .. 8 |-> IF i = k THEN 1 - b[i] ELSE b[i]]
<1>1. \A i \in 1 .. 8 : Bit(byte, i) \in {0, 1}
  BY ByteIs, BitIsBit
<1>2. c \in [1 .. 8 -> {0, 1}] /\ c[j] = Bit(byte, j)
  BY <1>1
<1>3. byte \in Nat /\ byte = Octet(b)
  BY ByteIs, BitsMakeByte DEF Octet
<1>4. \A i \in 1 .. 8 : b[i] \in {0, 1} /\ c[i] = IF i = k THEN 1 - b[i] ELSE b[i]
  BY <1>1
<1>5. Flip(byte, k) = IF b[k] = 1 THEN byte - Weight[k] ELSE byte + Weight[k]
  BY DEF Flip
<1> HIDE DEF b, c
<1>6. Octet(c) = Octet(b) + (IF b[k] = 1 THEN 0 - Weight[k] ELSE Weight[k])
  <2>1. /\ b[1] \in {0, 1} /\ b[2] \in {0, 1} /\ b[3] \in {0, 1} /\ b[4] \in {0, 1}
        /\ b[5] \in {0, 1} /\ b[6] \in {0, 1} /\ b[7] \in {0, 1} /\ b[8] \in {0, 1}
    BY <1>4
  <2>2. /\ c[1] = (IF 1 = k THEN 1 - b[1] ELSE b[1]) /\ c[2] = (IF 2 = k THEN 1 - b[2] ELSE b[2])
        /\ c[3] = (IF 3 = k THEN 1 - b[3] ELSE b[3]) /\ c[4] = (IF 4 = k THEN 1 - b[4] ELSE b[4])
        /\ c[5] = (IF 5 = k THEN 1 - b[5] ELSE b[5]) /\ c[6] = (IF 6 = k THEN 1 - b[6] ELSE b[6])
        /\ c[7] = (IF 7 = k THEN 1 - b[7] ELSE b[7]) /\ c[8] = (IF 8 = k THEN 1 - b[8] ELSE b[8])
    BY <1>4
  <2>3. CASE k = 1 BY ONLY <2>1, <2>2, <2>3 DEF Octet, Weight
  <2>4. CASE k = 2 BY ONLY <2>1, <2>2, <2>4 DEF Octet, Weight
  <2>5. CASE k = 3 BY ONLY <2>1, <2>2, <2>5 DEF Octet, Weight
  <2>6. CASE k = 4 BY ONLY <2>1, <2>2, <2>6 DEF Octet, Weight
  <2>7. CASE k = 5 BY ONLY <2>1, <2>2, <2>7 DEF Octet, Weight
  <2>8. CASE k = 6 BY ONLY <2>1, <2>2, <2>8 DEF Octet, Weight
  <2>9. CASE k = 7 BY ONLY <2>1, <2>2, <2>9 DEF Octet, Weight
  <2>10. CASE k = 8 BY ONLY <2>1, <2>2, <2>10 DEF Octet, Weight
  <2> QED BY <2>3, <2>4, <2>5, <2>6, <2>7, <2>8, <2>9, <2>10
<1>7. Bit(Octet(c), j) = c[j]
  BY <1>2, BitsOfOctet
<1>8. Octet(c) = Flip(byte, k)
  <2>1. Weight[k] \in Nat
    BY DEF Weight
  <2> QED BY <1>3, <1>5, <1>6, <2>1
<1> QED BY <1>2, <1>7, <1>8, Zenon

\* In a frame with a flipped bit the others are what they were.
LEMMA OthersStay ==
    ASSUME NEW x \in Seq(Byte), NEW z \in Seq(Byte), Len(z) = Len(x),
           NEW l \in 1 .. Len(x), NEW k \in 1 .. 8, z[l] = Flip(x[l], k),
           \A p \in 1 .. Len(x) : p # l => z[p] = x[p],
           NEW i \in 1 .. 8 * Len(x), i # 8 * (l - 1) + k
    PROVE  BitAfter(z, 0, i) = BitAfter(x, 0, i)
<1>1. Len(x) \in Nat
  BY LenProperties
<1>2. PICK p \in 1 .. Len(x), j \in 1 .. 8 : i = 8 * (p - 1) + j
  BY <1>1, PlaceOfBit
<1>3. BitAfter(x, 0, 8 * (p - 1) + j) = Bit(x[p], j) /\ x[p] \in Byte
  BY BitPlace
<1>4. p \in 1 .. Len(z)
  OBVIOUS
<1>5. BitAfter(z, 0, 8 * (p - 1) + j) = Bit(z[p], j)
  BY ONLY z \in Seq(Byte), p \in 1 .. Len(z), j \in 1 .. 8, <1>4, BitPlace
<1>6. CASE p = l
  <2>1. j # k
    BY <1>2, <1>6
  <2>2. Bit(Flip(x[p], k), j) = Bit(x[p], j)
    BY <1>3, <2>1, FlippedBits
  <2> QED BY <1>2, <1>3, <1>5, <1>6, <2>2, Zenon
<1>7. CASE p # l
  BY <1>2, <1>3, <1>5, <1>7, Zenon
<1> QED BY <1>6, <1>7

\* Frames of a length that differ in n bits at most.
Differ(x, y, n) ==
    /\ Len(x) = Len(y)
    /\ \E at \in [1 .. n -> Nat] :
          \A i \in 1 .. 8 * Len(x) :
             BitAfter(x, 0, i) # BitAfter(y, 0, i) => \E m \in 1 .. n : at[m] = i

\* Noise makes that one more.
LEMMA FlipDiffers ==
    ASSUME NEW x \in Seq(Byte), NEW y \in Seq(Byte), NEW n \in Nat, Differ(x, y, n),
           NEW l \in DOMAIN x, NEW k \in 1 .. 8, NEW z \in Seq(Byte),
           z = [x EXCEPT ![l] = Flip(@, k)]
    PROVE  Differ(z, y, n + 1)
<1>1. l \in 1 .. Len(x) /\ Len(z) = Len(x) /\ Len(x) \in Nat /\ Len(y) = Len(x)
  BY LenProperties DEF Differ
<1>2. /\ \A p \in 1 .. Len(x) : p # l => z[p] = x[p]
      /\ z[l] = Flip(x[l], k) /\ x[l] \in Byte
  BY <1>1, SeqElement
<1>3. PICK at \in [1 .. n -> Nat] :
         \A i \in 1 .. 8 * Len(x) :
            BitAfter(x, 0, i) # BitAfter(y, 0, i) => \E m \in 1 .. n : at[m] = i
  BY DEF Differ
<1>4. PICK here \in Nat : here = 8 * (l - 1) + k
  BY <1>1
<1>5. PICK now \in [1 .. n + 1 -> Nat] :
         \A m \in 1 .. n + 1 : now[m] = IF m = n + 1 THEN here ELSE at[m]
  <2>1. \A m \in 1 .. n + 1 : (IF m = n + 1 THEN here ELSE at[m]) \in Nat
    OBVIOUS
  <2>2. [m \in 1 .. n + 1 |-> IF m = n + 1 THEN here ELSE at[m]] \in [1 .. n + 1 -> Nat]
    BY <2>1
  <2> QED BY <2>2
<1>6. ASSUME NEW i \in 1 .. 8 * Len(x), i # here PROVE BitAfter(z, 0, i) = BitAfter(x, 0, i)
  <2>1. i # 8 * (l - 1) + k
    BY <1>4, <1>6
  <2>2. Len(z) = Len(x) /\ l \in 1 .. Len(x) /\ z[l] = Flip(x[l], k)
        /\ \A p \in 1 .. Len(x) : p # l => z[p] = x[p]
    BY <1>1, <1>2
  <2> QED BY ONLY x \in Seq(Byte), z \in Seq(Byte), k \in 1 .. 8, i \in 1 .. 8 * Len(x),
                  <2>1, <2>2, OthersStay
<1>7. ASSUME NEW i \in 1 .. 8 * Len(z), BitAfter(z, 0, i) # BitAfter(y, 0, i)
      PROVE  \E m \in 1 .. n + 1 : now[m] = i
  <2>1. i \in 1 .. 8 * Len(x)
    BY <1>1
  <2>2. CASE i = here
    <3>1. n + 1 \in 1 .. n + 1
      OBVIOUS
    <3> QED BY <1>5, <2>2, <3>1
  <2>3. CASE i # here
    <3>1. BitAfter(x, 0, i) # BitAfter(y, 0, i)
      BY <1>6, <1>7, <2>1, <2>3
    <3>2. PICK m \in 1 .. n : at[m] = i
      BY <1>3, <2>1, <3>1
    <3>3. m \in 1 .. n + 1 /\ m # n + 1
      OBVIOUS
    <3>4. now[m] = i
      BY <1>5, <3>2, <3>3
    <3> QED BY <3>3, <3>4, Zenon
  <2> QED BY <2>2, <2>3
<1> QED BY <1>1, <1>5, <1>7 DEF Differ

-----------------------------------------------------------------------------
(***************************************************************************)
(* The inductive invariant.                                                *)
(***************************************************************************)
Registry ==
    /\ attempts \in Seq(Attempt)
    /\ Knows(attempts, "request", request_decoders)
    /\ Knows(attempts, "response", response_decoders)

\* The request is one that can be made; once it is sent, one that was valid.
Asking ==
    /\ session \in Session /\ IsRequest(request)
    /\ pc \in {"requested", "answered"} /\ session.kind # "foreign_request" =>
         PostInit(request)

\* What is on the line is bytes, and fits a frame.
Line ==
    /\ pc \in {"start", "again", "requested", "answered", "done"}
    /\ frame \in Seq(Byte) /\ sent \in Seq(Byte)
    /\ session.kind \in {"call", "walk"} => Len(frame) <= 260
    /\ session.link # "tcp" => Len(sent) <= 256
    /\ pc = "start" => sent = <<>>
    /\ pc = "again" => session.kind = "walk"
    /\ flips \in Nat
    /\ arrived.outcome \in Outcomes /\ result.outcome \in Outcomes

\* The request is on the line.
OnItsWay ==
    pc = "requested" =>
        /\ session.kind # "foreign_request" => frame = Framed(EncodeRequest(request))
        /\ session.kind = "foreign_request" =>
             \E pdu : IsPDU(pdu) /\ frame = TcpFrame(Tid, Unit, pdu)

\* What a device may answer: an exception, an answer to the request, the payload
\* of a custom one, or, to a custom request the server has taken for one of the
\* library, something else that is no exception.
Suits(r, q) ==
    \/ Refuses(r, q)
    \/ q.by = "standard" /\ IsAnswer(r, q)
    \/ q.by # "standard" /\ r = CustomResponse("custom", q.fc, q.values)
    \/ q.by # "standard" /\ Shadows(q) /\ r.kind # "exception"

\* The answer is on the line.
OnItsWayBack ==
    pc = "answered" =>
        /\ session.kind # "foreign_request"
        /\ sent = Framed(EncodeResponse(answer))
        /\ Sendable(EncodeResponse(answer)) /\ Suits(answer, request)
        /\ session.kind \in {"call", "walk"} =>
             /\ frame = sent
             /\ arrived = DecodeRequest(EncodeRequest(request), request_decoders)
        /\ session.kind = "walk" => answer = Identification(request, session.table)

\* A walk has received what it wants before the object it asks for next.
Wanted == Selected(session.request.fields[1], session.request.fields[2], session.table)
Ascends(s) == \A i, j \in 1 .. Len(s) : i < j => s[i] < s[j]
Walking ==
    session.kind = "walk" =>
        /\ Valid(request) /\ request.fc = 43
        /\ request.fields[1] = session.request.fields[1]
        /\ received \in Seq(Byte) /\ Ascends(received)
        /\ pc = "done" => ToSet(received) = Wanted
        /\ pc # "done" =>
             /\ session.request.fields[2] <= request.fields[2]
             /\ request.fields[1] = 4 => request.fields[2] = session.request.fields[2]
             /\ ToSet(received) = {i \in Wanted : i < request.fields[2]}

IInv == /\ Registry /\ Asking /\ Line /\ OnItsWay /\ OnItsWayBack /\ Walking
        /\ AnswerArrives /\ ForeignAnswerFits

\* What the assumption says of the session that goes on.
LEMMA SessionFacts ==
    ASSUME session \in Session
    PROVE  /\ IsRequest(session.request) /\ IsTable(session.table)
           /\ session.kind \in {"call", "walk", "foreign_request"} => session.link = "tcp"
           /\ session.kind = "walk" => Valid(session.request) /\ session.request.fc = 43
           /\ session.flips # 0 => session.kind = "device" /\ session.link = "rtu"
           /\ session.link # "tcp" => session.link = "rtu"
BY SessionAssumption, CodeNumbers DEF IsSession, Valid

\* What an identification asks for.
LEMMA AskedFor ==
    ASSUME NEW q, Valid(q), q.fc = 43
    PROVE  /\ q.by = "standard" /\ q.fields[1] \in 1 .. 4
           /\ q.fields[2] \in Byte /\ q.fields[2] \in Nat
<1>1. q.by = "standard" /\ q.fields[1] \in 1 .. 4 /\ q.fields[2] \in Byte
  BY CodeNumbers DEF Valid, PostInit
<1> QED BY <1>1, ByteIsNat

\* Before any registration, no code has a decoder.
LEMMA NothingKnown ==
    ASSUME NEW of
    PROVE  Knows(<<>>, of, <<>>)
<1>1. Tries(<<>>, of, 0) = {} /\ \A c \in 0 .. 127 : Tries(<<>>, of, c) = {}
  BY DEF Tries
<1>2. DOMAIN <<>> = {}
  OBVIOUS
<1> QED BY <1>1, <1>2 DEF Knows, First

\* Before the first page, nothing wanted lies before the first id.
LEMMA NothingReceived ==
    ASSUME session \in Session, session.kind = "walk"
    PROVE  ToSet(<<>>) = {i \in Wanted : i < session.request.fields[2]}
<1>1. session.request.fields[2] \in Nat
  BY SessionFacts, AskedFor
<1>2. Wanted \subseteq Byte /\ \A i \in Wanted : i >= session.request.fields[2] /\ i \in Nat
  <2>1. Wanted \subseteq Byte
    BY SessionFacts, SelectedFacts DEF Wanted
  <2>2. \A i \in Wanted : i >= session.request.fields[2]
    BY DEF Wanted, Selected
  <2> QED BY <2>1, <2>2, ByteIsNat
<1>3. \A i \in Wanted : ~ (i < session.request.fields[2])
  BY <1>1, <1>2
<1>4. ToSet(<<>>) = {}
  BY DEF ToSet
<1> QED BY <1>3, <1>4

\* The invariant holds at first.
LEMMA InitKeeps == Init => IInv
<1> SUFFICES ASSUME Init PROVE IInv
  OBVIOUS
<1>1. /\ session \in Session /\ pc = "start" /\ request = session.request
      /\ frame = <<>> /\ sent = <<>> /\ arrived = Nothing /\ result = Nothing
      /\ received = <<>> /\ attempts = <<>> /\ flips = 0
      /\ request_decoders = <<>> /\ response_decoders = <<>>
  BY DEF Init
<1>2. Registry
  BY <1>1, NothingKnown DEF Registry
<1>3. Asking
  BY <1>1, SessionFacts DEF Asking
<1>4. Line
  <2>1. <<>> \in Seq(Byte) /\ Len(<<>>) = 0
    OBVIOUS
  <2> QED BY <1>1, <2>1 DEF Line, Nothing, Outcomes
<1>5. OnItsWay /\ OnItsWayBack /\ AnswerArrives /\ ForeignAnswerFits
  BY <1>1 DEF OnItsWay, OnItsWayBack, AnswerArrives, ForeignAnswerFits
<1>6. Walking
  <2> SUFFICES ASSUME session.kind = "walk" PROVE Walking
    BY DEF Walking
  <2>1. Valid(request) /\ request.fc = 43 /\ request.fields[2] \in Nat
    BY <1>1, SessionFacts, AskedFor
  <2>2. received \in Seq(Byte) /\ Ascends(received)
    BY <1>1 DEF Ascends
  <2>3. ToSet(received) = {i \in Wanted : i < request.fields[2]}
    BY <1>1, NothingReceived
  <2>4. request.fields[2] <= request.fields[2]
    BY <2>1
  <2> QED BY <1>1, <2>1, <2>2, <2>3, <2>4 DEF Walking
<1> QED BY <1>2, <1>3, <1>4, <1>5, <1>6 DEF IInv

\* It is kept when the application registers a decoder.
LEMMA RegisterKeeps ==
    ASSUME IInv, NEW of \in {"request", "response"}, NEW code \in Code,
           NEW decoder \in Decoder, Register(of, code, decoder)
    PROVE  IInv'
<1> DEFINE e == [of |-> of, code |-> code, decoder |-> decoder]
<1>1. /\ pc = "start" /\ pc' = pc /\ attempts' = Append(attempts, e)
      /\ UNCHANGED <<session, request, frame, arrived, sent, flips, result, received>>
      /\ request_decoders' = IF e.of = "request"
                               THEN Registered(request_decoders, e.code, e.decoder)
                               ELSE request_decoders
      /\ response_decoders' = IF e.of = "response"
                                THEN Registered(response_decoders, e.code, e.decoder)
                                ELSE response_decoders
  BY DEF Register
<1>2. Registry /\ Asking /\ Line /\ Walking
  BY DEF IInv
<1>3. Registry'
  <2>1. e \in Attempt
    BY DEF Attempt
  <2> HIDE DEF e
  <2>2. attempts' \in Seq(Attempt)
    BY <1>1, <1>2, <2>1 DEF Registry
  <2>3. Knows(attempts', "request", request_decoders')
    BY <1>1, <1>2, <2>1, KnowsStays DEF Registry
  <2>4. Knows(attempts', "response", response_decoders')
    BY <1>1, <1>2, <2>1, KnowsStays DEF Registry
  <2> QED BY <2>2, <2>3, <2>4 DEF Registry
<1>4. Asking' /\ Line'
  BY <1>1, <1>2 DEF Asking, Line
<1>5. OnItsWay' /\ OnItsWayBack' /\ AnswerArrives' /\ ForeignAnswerFits'
  BY <1>1 DEF OnItsWay, OnItsWayBack, AnswerArrives, ForeignAnswerFits
<1>6. Walking'
  BY <1>1, <1>2 DEF Walking, Wanted
<1> QED BY <1>3, <1>4, <1>5, <1>6 DEF IInv

\* It is kept when a helper encodes and sends a request.
LEMMA CallKeeps ==
    ASSUME IInv, Call
    PROVE  IInv'
<1>1. /\ pc \in {"start", "again"} /\ session.kind # "foreign_request"
      /\ UNCHANGED <<session, attempts, request_decoders, response_decoders, request,
                     arrived, answer, sent, flips, received>>
  BY DEF Call, registry
<1>2. Registry /\ Asking /\ Line /\ Walking
  BY DEF IInv
<1>3. Registry'
  BY <1>1, <1>2 DEF Registry
<1>4. CASE PostInit(request)
  <2>1. frame' = Framed(EncodeRequest(request)) /\ pc' = "requested" /\ result' = result
    BY <1>4 DEF Call
  <2>2. Sendable(EncodeRequest(request))
    BY <1>2, <1>4, RequestIsSent DEF Asking
  <2>3. frame' \in Seq(Byte) /\ Len(frame') <= 260
    BY <2>1, <2>2, SendableIsPDU, FrameFacts, FrameSize
  <2>4. Asking' /\ Line'
    BY <1>1, <1>2, <1>4, <2>1, <2>3 DEF Asking, Line
  <2>5. OnItsWay'
    <3>1. Framed(EncodeRequest(request))' = Framed(EncodeRequest(request))
      BY <1>1 DEF Framed
    <3> QED BY <1>1, <2>1, <3>1 DEF OnItsWay
  <2>6. OnItsWayBack' /\ AnswerArrives' /\ ForeignAnswerFits'
    BY <2>1 DEF OnItsWayBack, AnswerArrives, ForeignAnswerFits
  <2>7. Walking'
    BY <1>1, <1>2, <2>1 DEF Walking, Wanted
  <2> QED BY <1>3, <2>4, <2>5, <2>6, <2>7 DEF IInv
<1>5. CASE ~ PostInit(request)
  <2>1. frame' = frame /\ pc' = "done" /\ result' = Raises("ValueError")
    BY <1>5 DEF Call
  <2>2. session.kind # "walk"
    BY <1>2, <1>5 DEF Walking, Valid
  <2>3. Asking' /\ Line'
    BY <1>1, <1>2, <2>1 DEF Asking, Line, Raises, Outcomes
  <2>4. OnItsWay' /\ OnItsWayBack' /\ Walking'
    BY <1>1, <2>1, <2>2 DEF OnItsWay, OnItsWayBack, Walking
  <2>5. ForeignAnswerFits'
    BY <2>1 DEF ForeignAnswerFits, Raises
  <2>6. AnswerArrives'
    <3>1. sent = <<>> /\ sent' = sent
      BY <1>1, <1>2, <2>2 DEF Line
    <3> QED BY <3>1 DEF AnswerArrives
  <2> QED BY <1>3, <2>3, <2>4, <2>5, <2>6 DEF IInv
<1> QED BY <1>4, <1>5

\* It is kept when another client sends what it likes.
LEMMA ForeignRequestKeeps ==
    ASSUME IInv, ForeignRequest
    PROVE  IInv'
<1>1. /\ pc = "start" /\ session.kind = "foreign_request" /\ pc' = "requested"
      /\ UNCHANGED <<session, attempts, request_decoders, response_decoders, request,
                     arrived, answer, sent, flips, result, received>>
  BY DEF ForeignRequest, registry
<1>2. PICK pdu : IsPDU(pdu) /\ frame' = TcpFrame(Tid, Unit, pdu)
  BY DEF ForeignRequest
<1>3. Registry /\ Asking /\ Line /\ Walking
  BY DEF IInv
<1>4. frame' \in Seq(Byte)
  <2>1. session.link = "tcp"
    BY <1>1, <1>3, SessionFacts DEF Asking
  <2> QED BY <1>2, <2>1, FrameFacts
<1>5. Registry' /\ Asking' /\ Line'
  BY <1>1, <1>3, <1>4 DEF Registry, Asking, Line
<1>6. OnItsWay'
  BY <1>1, <1>2 DEF OnItsWay, Tid, Unit
<1>7. OnItsWayBack' /\ AnswerArrives' /\ ForeignAnswerFits' /\ Walking'
  BY <1>1 DEF OnItsWayBack, AnswerArrives, ForeignAnswerFits, Walking
<1> QED BY <1>5, <1>6, <1>7 DEF IInv

\* What a device that is no server of this library answers.
LEMMA DeviceAnswers ==
    ASSUME IInv, pc = "requested", session.kind # "foreign_request",
           NEW r \in DeviceResponses(request)
    PROVE  Sendable(EncodeResponse(r)) /\ Suits(r, request)
<1>1. session \in Session /\ IsRequest(request) /\ PostInit(request)
  BY DEF IInv, Asking
<1>2. CASE request.by = "standard"
  <2>1. Valid(request) /\ r \in Responses(request)
    BY <1>1, <1>2 DEF Valid, DeviceResponses
  <2>2. Refuses(r, request) \/ IsAnswer(r, request)
    BY <1>1, <2>1, ServerAnswers
  <2> QED BY <1>2, <2>1, <2>2, AnswerIsSent DEF Suits
<1>3. CASE request.by # "standard"
  <2>1. /\ request.fc \in Byte /\ Sendable(<<request.fc>> \o request.values)
        /\ EncodeResponse(CustomResponse("custom", request.fc, request.values))
             = <<request.fc>> \o request.values
    BY <1>1, <1>3, CustomFacts
  <2>2. CASE r = CustomResponse("custom", request.fc, request.values)
    BY <1>3, <2>1, <2>2 DEF Suits
  <2>3. CASE r = ExceptionResponse(request.fc, 1)
    BY <2>1, <2>3, RefusalIsSent DEF Suits, Refuses
  <2> QED BY <1>3, <2>2, <2>3 DEF DeviceResponses
<1> QED BY <1>2, <1>3

\* It is kept when another device answers what it likes.
LEMMA ForeignAnswerKeeps ==
    ASSUME IInv, ForeignAnswer
    PROVE  IInv'
<1>1. /\ pc = "requested" /\ session.kind = "foreign_answer" /\ pc' = "answered"
      /\ UNCHANGED <<session, attempts, request_decoders, response_decoders, request,
                     arrived, flips, result, received>>
  BY DEF ForeignAnswer, registry
<1>2. PICK r \in DeviceResponses(request) :
         /\ answer' = r /\ sent' = Framed(EncodeResponse(r))
         /\ \E pdu \in Near(EncodeResponse(r)) : IsPDU(pdu) /\ frame' = Framed(pdu)
  BY DEF ForeignAnswer
<1>3. PICK pdu : IsPDU(pdu) /\ frame' = Framed(pdu)
  BY <1>2
<1>4. Registry /\ Asking /\ Line /\ Walking
  BY DEF IInv
<1>5. Sendable(EncodeResponse(r)) /\ Suits(r, request)
  BY <1>1, DeviceAnswers
<1>6. /\ frame' \in Seq(Byte) /\ sent' \in Seq(Byte)
      /\ session.link # "tcp" => Len(sent') <= 256
  BY <1>2, <1>3, <1>5, SendableIsPDU, FrameFacts, FrameSize
<1>7. Registry' /\ Asking' /\ Line'
  BY <1>1, <1>4, <1>6 DEF Registry, Asking, Line
<1>8. OnItsWayBack'
  <2>1. sent' = Framed(EncodeResponse(answer))'
    BY <1>1, <1>2 DEF Framed
  <2> QED BY <1>1, <1>2, <1>5, <2>1 DEF OnItsWayBack
<1>9. OnItsWay' /\ AnswerArrives' /\ ForeignAnswerFits' /\ Walking'
  BY <1>1 DEF OnItsWay, AnswerArrives, ForeignAnswerFits, Walking
<1> QED BY <1>7, <1>8, <1>9 DEF IInv

\* It is kept when a device answers what was asked.
LEMMA AnswerKeeps ==
    ASSUME IInv, Answer
    PROVE  IInv'
<1>1. /\ pc = "requested" /\ session.kind = "device" /\ pc' = "answered"
      /\ frame' = sent'
      /\ UNCHANGED <<session, attempts, request_decoders, response_decoders, request,
                     arrived, flips, result, received>>
  BY DEF Answer, registry
<1>2. PICK r \in DeviceResponses(request) : answer' = r /\ sent' = Framed(EncodeResponse(r))
  BY DEF Answer
<1>3. Registry /\ Asking /\ Line /\ Walking
  BY DEF IInv
<1>4. Sendable(EncodeResponse(r)) /\ Suits(r, request)
  BY <1>1, DeviceAnswers
<1>5. sent' \in Seq(Byte) /\ (session.link # "tcp" => Len(sent') <= 256)
  BY <1>2, <1>4, SendableIsPDU, FrameFacts, FrameSize
<1>6. Registry' /\ Asking' /\ Line'
  BY <1>1, <1>3, <1>5 DEF Registry, Asking, Line
<1>7. OnItsWayBack'
  <2>1. sent' = Framed(EncodeResponse(answer))'
    BY <1>1, <1>2 DEF Framed
  <2> QED BY <1>1, <1>2, <1>4, <2>1 DEF OnItsWayBack
<1>8. OnItsWay' /\ AnswerArrives' /\ ForeignAnswerFits' /\ Walking'
  BY <1>1 DEF OnItsWay, AnswerArrives, ForeignAnswerFits, Walking
<1> QED BY <1>6, <1>7, <1>8 DEF IInv

\* A byte with a flipped bit is a byte.
LEMMA FlippedIsByte ==
    ASSUME NEW byte \in Byte, NEW k \in 1 .. 8
    PROVE  Flip(byte, k) \in Byte
<1>1. CASE k = 1 BY <1>1, ByteIs DEF Flip, Bit, Weight
<1>2. CASE k = 2 BY <1>2, ByteIs DEF Flip, Bit, Weight
<1>3. CASE k = 3 BY <1>3, ByteIs DEF Flip, Bit, Weight
<1>4. CASE k = 4 BY <1>4, ByteIs DEF Flip, Bit, Weight
<1>5. CASE k = 5 BY <1>5, ByteIs DEF Flip, Bit, Weight
<1>6. CASE k = 6 BY <1>6, ByteIs DEF Flip, Bit, Weight
<1>7. CASE k = 7 BY <1>7, ByteIs DEF Flip, Bit, Weight
<1>8. CASE k = 8 BY <1>8, ByteIs DEF Flip, Bit, Weight
<1> QED BY <1>1, <1>2, <1>3, <1>4, <1>5, <1>6, <1>7, <1>8

\* It is kept when the line flips a bit.
LEMMA NoiseKeeps ==
    ASSUME IInv, Noise
    PROVE  IInv'
<1>1. /\ pc = "answered" /\ pc' = pc /\ flips < session.flips /\ flips' = flips + 1
      /\ UNCHANGED <<session, attempts, request_decoders, response_decoders, request,
                     arrived, answer, sent, result, received>>
  BY DEF Noise, registry
<1>2. PICK i \in DOMAIN frame, k \in 1 .. 8 : frame' = [frame EXCEPT ![i] = Flip(@, k)]
  BY DEF Noise
<1>3. Registry /\ Asking /\ Line /\ OnItsWayBack /\ Walking
  BY DEF IInv
<1>4. session.kind = "device"
  <2>1. session.flips # 0
    BY <1>1, <1>3 DEF Line
  <2> QED BY <1>3, <2>1, SessionFacts DEF Asking
<1>5. frame' \in Seq(Byte)
  <2>1. frame \in Seq(Byte) /\ i \in 1 .. Len(frame)
    BY <1>3 DEF Line
  <2>2. Flip(frame[i], k) \in Byte
    BY <2>1, SeqElement, FlippedIsByte
  <2> QED BY <1>2, <2>1, <2>2
<1>6. Registry' /\ Asking' /\ Line'
  BY <1>1, <1>3, <1>4, <1>5 DEF Registry, Asking, Line
<1>7. OnItsWayBack'
  BY <1>1, <1>3, <1>4 DEF OnItsWayBack, Framed
<1>8. OnItsWay' /\ AnswerArrives' /\ ForeignAnswerFits' /\ Walking'
  BY <1>1, <1>4 DEF OnItsWay, AnswerArrives, ForeignAnswerFits, Walking
<1> QED BY <1>6, <1>7, <1>8 DEF IInv

-----------------------------------------------------------------------------
(***************************************************************************)
(* The server.                                                             *)
(***************************************************************************)
\* What decoding makes of bytes: an error, a valid request that is what they say,
\* or a request of the decoder registered for its code.
DecodesTo(pdu, a) ==
    \/ a = Raises("ValueError")
    \/ pdu # <<>> /\ a = Raises("ModbusPDUError")
    \/ /\ pdu # <<>> /\ IsStandard(Head(pdu), Tail(pdu))
       /\ \E q : a = Decoded(q) /\ Valid(q) /\ q.fc = Head(pdu) /\ SaysOfBytes(pdu, q)
    \/ /\ pdu # <<>>
       /\ \E by \in Decoder : a = Decoded(Request(by, Head(pdu), <<>>, Tail(pdu)))

\* Whatever the bytes, the server decodes a valid request, a custom one or none.
LEMMA ServerDecodes ==
    ASSUME NEW pdu, IsPDU(pdu), NEW tried, NEW decoders, Knows(tried, "request", decoders)
    PROVE  DecodesTo(pdu, DecodeRequest(pdu, decoders))
<1>1. pdu \in Seq(Byte)
  BY DEF IsPDU
<1>2. CASE pdu = <<>>
  BY <1>2 DEF DecodeRequest, DecodesTo
<1>3. CASE pdu # <<>> /\ IsStandard(Head(pdu), Tail(pdu))
  <2>1. \/ DecodeRequest(pdu, decoders) = Raises("ValueError")
        \/ \E q : /\ DecodeRequest(pdu, decoders) = Decoded(q)
                  /\ Valid(q) /\ q.fc = Head(pdu) /\ SaysOfBytes(pdu, q)
    BY <1>1, <1>3, StandardDecoding
  <2> QED BY <1>3, <2>1 DEF DecodesTo
<1>4. CASE pdu # <<>> /\ ~ IsStandard(Head(pdu), Tail(pdu))
  <2>1. DecodeRequest(pdu, decoders) =
          IF Head(pdu) \in DOMAIN decoders
            THEN Decoded(Request(decoders[Head(pdu)], Head(pdu), <<>>, Tail(pdu)))
            ELSE Raises("ModbusPDUError")
    BY <1>4, OtherDecoding
  <2>2. CASE Head(pdu) \in DOMAIN decoders
    <3>1. decoders[Head(pdu)] \in Decoder
      BY <2>2 DEF Knows
    <3> QED BY <1>4, <2>1, <2>2, <3>1 DEF DecodesTo
  <2>3. CASE Head(pdu) \notin DOMAIN decoders
    BY <1>4, <2>1, <2>3 DEF DecodesTo
  <2> QED BY <2>2, <2>3
<1> QED BY <1>2, <1>3, <1>4

\* The function code the server answers to.
CodeOf(pdu) == IF pdu = <<>> THEN 0 ELSE Head(pdu)

\* Which responses it makes of what it has decoded.
Replies(a, fc) ==
    CASE a.outcome = "ok" -> Responses(a.pdu)
      [] a.outcome = "ModbusPDUError" -> {ExceptionResponse(fc, 1)}
      [] OTHER -> {ExceptionResponse(fc, 3)}

RefusesCode(r, fc) == \E code \in {1, 2, 3} : r = ExceptionResponse(fc, code)

\* Whatever it decodes, its answer fits a PDU and is one to that request.
LEMMA ServerReplies ==
    ASSUME session \in Session, NEW pdu, IsPDU(pdu), NEW a, DecodesTo(pdu, a),
           NEW r \in Replies(a, CodeOf(pdu))
    PROVE  /\ Sendable(EncodeResponse(r))
           /\ \/ RefusesCode(r, CodeOf(pdu))
              \/ /\ pdu # <<>> /\ IsStandard(Head(pdu), Tail(pdu))
                 /\ \E q : a = Decoded(q) /\ Valid(q) /\ q.fc = Head(pdu) /\ IsAnswer(r, q)
<1>1. CodeOf(pdu) \in Byte
  <2>1. pdu \in Seq(Byte)
    BY DEF IsPDU
  <2>2. pdu # <<>> => Head(pdu) \in Byte
    BY <2>1, FirstAndRest
  <2>3. 0 \in Byte
    BY ByteIs
  <2> QED BY <2>2, <2>3 DEF CodeOf
<1>2. CASE RefusesCode(r, CodeOf(pdu))
  <2>1. PICK code \in {1, 2, 3} : r = ExceptionResponse(CodeOf(pdu), code)
    BY <1>2 DEF RefusesCode
  <2> QED BY <1>1, <1>2, <2>1, RefusalIsSent
<1>3. CASE a \in {Raises("ValueError"), Raises("ModbusPDUError")}
  <2>1. r = ExceptionResponse(CodeOf(pdu), 3) \/ r = ExceptionResponse(CodeOf(pdu), 1)
    BY <1>3 DEF Replies, Raises
  <2> QED BY <1>2, <2>1 DEF RefusesCode
<1>4. ASSUME pdu # <<>>, IsStandard(Head(pdu), Tail(pdu)),
             NEW q, a = Decoded(q), Valid(q), q.fc = Head(pdu)
      PROVE  /\ Sendable(EncodeResponse(r))
             /\ RefusesCode(r, CodeOf(pdu)) \/ IsAnswer(r, q)
  <2>1. r \in Responses(q)
    BY <1>4 DEF Replies, Decoded
  <2>2. Refuses(r, q) \/ IsAnswer(r, q)
    BY <1>4, <2>1, ServerAnswers
  <2>3. CodeOf(pdu) = q.fc
    BY <1>4 DEF CodeOf
  <2> QED BY <1>4, <2>2, <2>3, AnswerIsSent DEF Refuses, RefusesCode
<1>5. ASSUME pdu # <<>>, NEW by \in Decoder,
             a = Decoded(Request(by, Head(pdu), <<>>, Tail(pdu)))
      PROVE  RefusesCode(r, CodeOf(pdu))
  <2>1. by # "standard"
    BY DecoderAssumption
  <2>2. r \in Responses(Request(by, Head(pdu), <<>>, Tail(pdu)))
    BY <1>5 DEF Replies, Decoded
  <2>3. r = ExceptionResponse(Head(pdu), 1)
    BY <2>1, <2>2 DEF Responses, Request
  <2> QED BY <1>5, <2>3 DEF RefusesCode, CodeOf
<1>6. CASE /\ pdu # <<>> /\ IsStandard(Head(pdu), Tail(pdu))
           /\ \E q : a = Decoded(q) /\ Valid(q) /\ q.fc = Head(pdu) /\ SaysOfBytes(pdu, q)
  <2>1. PICK q : a = Decoded(q) /\ Valid(q) /\ q.fc = Head(pdu)
    BY <1>6
  <2>2. Sendable(EncodeResponse(r)) /\ (RefusesCode(r, CodeOf(pdu)) \/ IsAnswer(r, q))
    BY <1>4, <1>6, <2>1
  <2> QED BY <1>6, <2>1, <2>2
<1> QED BY <1>2, <1>3, <1>5, <1>6 DEF DecodesTo

\* A custom request that the server takes for one of the library.
LEMMA TakenForStandard ==
    ASSUME NEW q, IsRequest(q), q.by # "standard",
           IsStandard(Head(EncodeRequest(q)), Tail(EncodeRequest(q)))
    PROVE  Shadows(q)
<1>1. /\ q.fc \in Byte /\ q.values \in Seq(Byte)
      /\ EncodeRequest(q) = <<q.fc>> \o q.values
  BY CustomFacts
<1>2. Head(EncodeRequest(q)) = q.fc /\ Tail(EncodeRequest(q)) = q.values
  BY <1>1, Prepending
<1>3. \/ q.fc \in FunctionCode
      \/ q.fc = EncapsulatedInterface /\ q.values # <<>> /\ Head(q.values) = 14
  BY <1>2 DEF IsStandard, READ_DEVICE_IDENTIFICATION_MEI_TYPE
<1>4. q.values # <<>> => Head(q.values) = q.values[1]
  BY <1>1, FirstAndRest
<1> QED BY <1>3, <1>4 DEF Shadows

\* What Serve does: it decodes the PDU of the frame and sends a response to it.
ServeFacts(pdu) ==
    /\ IsPDU(pdu) /\ From(frame, 8) = pdu
    /\ arrived' = DecodeRequest(pdu, request_decoders) /\ DecodesTo(pdu, arrived')
    /\ answer' \in Replies(arrived', CodeOf(pdu))
    /\ sent' = TcpFrame(Tid, Unit, EncodeResponse(answer')) /\ frame' = sent'

\* What the server does with the PDU that was framed.
LEMMA ServeIs ==
    ASSUME IInv, Serve, NEW pdu, IsPDU(pdu), frame = TcpFrame(Tid, Unit, pdu)
    PROVE  ServeFacts(pdu)
<1>1. Tid \in Word /\ Unit \in Byte
  BY ByteIs, WordIs DEF Tid, Unit
<1>2. TcpRoundTrip(Tid, Unit, pdu, frame)
  BY <1>1, TcpFrameFacts
<1>3. From(frame, 8) = pdu /\ Len(frame) = 7 + Len(pdu) /\ pdu \in Seq(Byte)
      /\ \A i \in 1 .. Len(pdu) : frame[7 + i] = pdu[i]
  BY <1>2 DEF TcpRoundTrip, IsPDU
<1>4. (IF Len(frame) = 7 THEN 0 ELSE frame[8]) = CodeOf(pdu)
  <2>1. CASE pdu = <<>>
    BY <1>3, <2>1 DEF CodeOf
  <2>2. CASE pdu # <<>>
    <3>1. Len(pdu) \in Nat /\ Len(pdu) # 0
      BY <1>3, <2>2
    <3>2. Len(frame) # 7 /\ 1 \in 1 .. Len(pdu) /\ 7 + 1 = 8
      BY <1>3, <3>1
    <3>3. frame[8] = pdu[1] /\ Head(pdu) = pdu[1]
      BY <1>3, <2>2, <3>2, FirstAndRest
    <3> QED BY <2>2, <3>2, <3>3 DEF CodeOf
  <2> QED BY <2>1, <2>2
<1>5. arrived' = DecodeRequest(pdu, request_decoders)
  BY <1>3 DEF Serve
<1>6. DecodesTo(pdu, arrived')
  <2>1. Knows(attempts, "request", request_decoders)
    BY DEF IInv, Registry
  <2> QED BY <1>5, <2>1, ServerDecodes
<1>7. /\ answer' \in Replies(arrived', CodeOf(pdu)) /\ frame' = sent'
      /\ sent' = TcpFrame(Tid, Unit, EncodeResponse(answer'))
  BY <1>4 DEF Serve, Replies
<1> QED BY <1>3, <1>5, <1>6, <1>7 DEF ServeFacts

\* The outcomes of decoding a request.
LEMMA DecodedOutcome ==
    ASSUME NEW pdu, NEW a, DecodesTo(pdu, a)
    PROVE  a.outcome \in {"ok", "ValueError", "ModbusPDUError"}
BY DEF DecodesTo, Decoded, Raises

\* The server's answer to a request of this library.
LEMMA OwnRequestIsServed ==
    ASSUME IInv, pc = "requested", session.kind \in {"call", "walk"},
           ServeFacts(EncodeRequest(request))
    PROVE  /\ Sendable(EncodeResponse(answer')) /\ Suits(answer', request)
           /\ request.by = "standard" => arrived' = Decoded(request)
           /\ session.kind = "walk" => answer' = Identification(request, session.table)
<1> DEFINE pdu == EncodeRequest(request)
<1>1. session \in Session /\ IsRequest(request) /\ PostInit(request)
  BY DEF IInv, Asking
<1>2. /\ IsPDU(pdu) /\ DecodesTo(pdu, arrived') /\ answer' \in Replies(arrived', CodeOf(pdu))
      /\ arrived' = DecodeRequest(pdu, request_decoders)
  BY DEF ServeFacts
<1>3. /\ Sendable(EncodeResponse(answer'))
      /\ \/ RefusesCode(answer', CodeOf(pdu))
         \/ /\ pdu # <<>> /\ IsStandard(Head(pdu), Tail(pdu))
            /\ \E q : /\ arrived' = Decoded(q) /\ Valid(q) /\ q.fc = Head(pdu)
                      /\ IsAnswer(answer', q)
  BY <1>1, <1>2, ServerReplies
<1>4. CASE request.by = "standard"
  <2>1. Valid(request)
    BY <1>1, <1>4 DEF Valid
  <2>2. arrived' = Decoded(request)
    BY <1>2, <2>1, RequestComesBack
  <2>3. answer' \in Responses(request)
    BY <1>2, <2>2 DEF Replies, Decoded
  <2>4. Refuses(answer', request) \/ IsAnswer(answer', request)
    BY <1>1, <2>1, <2>3, ServerAnswers
  <2>5. session.kind = "walk" => answer' = Identification(request, session.table)
    <3>1. session.kind = "walk" => request.fc = EncapsulatedInterface
      BY CodeNumbers DEF IInv, Walking
    <3> QED BY <1>4, <2>3, <3>1 DEF Responses
  <2> QED BY <1>3, <1>4, <2>2, <2>4, <2>5 DEF Suits
<1>5. CASE request.by # "standard"
  <2>1. session.kind # "walk"
    BY <1>5 DEF IInv, Walking, Valid
  <2>2. CodeOf(pdu) = request.fc
    <3>1. /\ request.fc \in Byte /\ request.values \in Seq(Byte)
          /\ pdu = <<request.fc>> \o request.values
      BY <1>1, <1>5, CustomFacts
    <3> QED BY <3>1, Prepending DEF CodeOf
  <2>3. CASE RefusesCode(answer', CodeOf(pdu))
    BY <1>3, <1>5, <2>1, <2>2, <2>3 DEF RefusesCode, Suits, Refuses
  <2>4. CASE /\ pdu # <<>> /\ IsStandard(Head(pdu), Tail(pdu))
             /\ \E q : /\ arrived' = Decoded(q) /\ Valid(q) /\ q.fc = Head(pdu)
                       /\ IsAnswer(answer', q)
    <3>1. PICK q : IsAnswer(answer', q)
      BY <2>4
    <3>2. answer'.kind # "exception"
      BY <3>1 DEF IsAnswer, Normal, Response
    <3>3. Shadows(request)
      BY <1>1, <1>5, <2>4, TakenForStandard
    <3> QED BY <1>3, <1>5, <2>1, <3>2, <3>3 DEF Suits
  <2> QED BY <1>3, <2>3, <2>4
<1> QED BY <1>4, <1>5

\* It is kept when the server answers.
LEMMA ServeKeeps ==
    ASSUME IInv, Serve
    PROVE  IInv'
<1>1. /\ pc = "requested" /\ session.kind \in {"call", "walk", "foreign_request"}
      /\ pc' = IF session.kind = "foreign_request" THEN "done" ELSE "answered"
      /\ UNCHANGED <<session, attempts, request_decoders, response_decoders, request,
                     flips, result, received>>
  BY DEF Serve, registry
<1>2. Registry /\ Asking /\ Line /\ OnItsWay /\ Walking
  BY DEF IInv
<1>3. session \in Session /\ session.link = "tcp"
  BY <1>1, <1>2, SessionFacts DEF Asking
<1>4. CASE session.kind = "foreign_request"
  <2>1. PICK pdu : IsPDU(pdu) /\ frame = TcpFrame(Tid, Unit, pdu)
    BY <1>1, <1>2, <1>4 DEF OnItsWay
  <2>2. ServeFacts(pdu)
    BY <2>1, ServeIs
  <2>3. Sendable(EncodeResponse(answer'))
    BY <1>3, <2>2, ServerReplies DEF ServeFacts
  <2>4. sent' \in Seq(Byte) /\ frame' \in Seq(Byte)
    BY <1>3, <2>2, <2>3, SendableIsPDU, FrameFacts DEF ServeFacts
  <2>5. arrived'.outcome \in Outcomes
    BY <2>2, DecodedOutcome DEF ServeFacts, Outcomes
  <2>6. Registry' /\ Asking' /\ Line'
    BY <1>1, <1>2, <1>3, <1>4, <2>4, <2>5 DEF Registry, Asking, Line
  <2>7. OnItsWay' /\ OnItsWayBack' /\ AnswerArrives' /\ ForeignAnswerFits' /\ Walking'
    BY <1>1, <1>4 DEF OnItsWay, OnItsWayBack, AnswerArrives, ForeignAnswerFits, Walking
  <2> QED BY <2>6, <2>7 DEF IInv
<1>5. CASE session.kind \in {"call", "walk"}
  <2>1. IsPDU(EncodeRequest(request))
    BY <1>1, <1>2, <1>5, RequestIsSent, SendableIsPDU DEF Asking
  <2>2. frame = TcpFrame(Tid, Unit, EncodeRequest(request))
    BY <1>1, <1>2, <1>3, <1>5 DEF OnItsWay, Framed
  <2>3. ServeFacts(EncodeRequest(request))
    BY <2>1, <2>2, ServeIs
  <2>4. /\ Sendable(EncodeResponse(answer')) /\ Suits(answer', request)
        /\ session.kind = "walk" => answer' = Identification(request, session.table)
    BY <1>1, <1>5, <2>3, OwnRequestIsServed
  <2>5. frame' = sent' /\ sent' = Framed(EncodeResponse(answer'))
    BY <1>3, <2>3 DEF ServeFacts, Framed
  <2>6. sent' \in Seq(Byte) /\ frame' \in Seq(Byte) /\ Len(frame') <= 260
    BY <2>4, <2>5, SendableIsPDU, FrameFacts, FrameSize
  <2>7. /\ arrived'.outcome \in Outcomes
        /\ arrived' = DecodeRequest(EncodeRequest(request), request_decoders)
    BY <2>3, DecodedOutcome DEF ServeFacts, Outcomes
  <2>8. Registry' /\ Asking' /\ Line'
    BY <1>1, <1>2, <1>3, <1>5, <2>6, <2>7 DEF Registry, Asking, Line
  <2>9. OnItsWayBack'
    <3>1. sent' = Framed(EncodeResponse(answer))'
      BY <1>1, <2>5 DEF Framed
    <3> QED BY <1>1, <1>5, <2>4, <2>5, <2>7, <3>1 DEF OnItsWayBack
  <2>10. OnItsWay' /\ AnswerArrives' /\ ForeignAnswerFits'
    BY <1>1, <1>5 DEF OnItsWay, AnswerArrives, ForeignAnswerFits
  <2>11. Walking'
    BY <1>1, <1>2, <1>5 DEF Walking, Wanted
  <2> QED BY <2>8, <2>9, <2>10, <2>11 DEF IInv
<1> QED BY <1>1, <1>4, <1>5

-----------------------------------------------------------------------------
(***************************************************************************)
(* What the client takes from the stream.                                  *)
(***************************************************************************)
\* The answer to a request r, in a frame on a serial line.
LEMMA RefusalIsTakenWhole ==
    ASSUME NEW q, q.fc \in 0 .. 127, NEW r, Refuses(r, q), NEW stream,
           RtuRoundTrip(Unit, EncodeResponse(r), stream)
    PROVE  RtuTaken(stream, q) = Len(stream)
<1>1. PICK code \in {1, 2, 3} : r = ExceptionResponse(q.fc, code)
  BY DEF Refuses
<1>2. code \in Byte
  BY ByteIs
<1>3. PICK pdu : pdu = EncodeResponse(r)
  OBVIOUS
<1>4. pdu = <<q.fc + 128, code>> /\ Len(pdu) = 2
  BY <1>1, <1>2, <1>3, ExceptionComesBack
<1>5. /\ stream \in Seq(Byte) /\ Len(stream) = Len(pdu) + 3
      /\ \A i \in 1 .. Len(pdu) : stream[1 + i] = pdu[i]
  BY <1>3 DEF RtuRoundTrip
<1>6. Len(stream) = 5 /\ stream[1 + 1] = pdu[1] /\ 1 + 1 = 2
  BY <1>4, <1>5
<1>7. stream[2] >= 128
  BY <1>4, <1>6
<1> QED BY <1>5, <1>6, <1>7, ExceptionIsTaken

\* On a serial line, the size of an answer is inferred from its first bytes.
LEMMA AnswerIsTakenWhole ==
    ASSUME NEW q, Valid(q), NEW r, IsAnswer(r, q), NEW stream,
           RtuRoundTrip(Unit, EncodeResponse(r), stream)
    PROVE  RtuTaken(stream, q) = Len(stream)
<1>1. PICK body : AnswersWith(q, r, body)
  BY AnswerComesBack
<1>2. PICK pdu : pdu = EncodeResponse(r)
  OBVIOUS
<1>3. /\ body \in Seq(Byte) /\ pdu = <<q.fc>> \o body /\ Accepted(q, body)
  BY <1>1, <1>2 DEF AnswersWith
<1>4. q.by = "standard" /\ q.fc \in Codes /\ q.fc \in Byte
  BY ValidFacts, CodeNumbers, SmallCode DEF Codes, Valid
<1>5. /\ stream \in Seq(Byte) /\ Len(stream) = Len(pdu) + 3
      /\ \A i \in 1 .. Len(pdu) : stream[1 + i] = pdu[i]
  BY <1>2 DEF RtuRoundTrip
<1>6. /\ Len(pdu) = 1 + Len(body) /\ pdu[1] = q.fc /\ Len(body) \in Nat
      /\ \A i \in 1 .. Len(body) : pdu[i + 1] = body[i]
  BY <1>3, <1>4, Prepending, LenProperties
<1>7. Len(stream) = Len(body) + 4
  BY <1>5, <1>6
<1>8. stream[2] = q.fc
  <2>1. 1 \in 1 .. Len(pdu) /\ 1 + 1 = 2
    BY <1>6
  <2> QED BY <1>5, <1>6, <2>1
<1>9. ASSUME NEW k \in 1 .. Len(body) PROVE stream[2 + k] = body[k]
  <2>1. k + 1 \in 1 .. Len(pdu) /\ 1 + (k + 1) = 2 + k
    BY <1>6
  <2>2. stream[1 + (k + 1)] = pdu[k + 1] /\ pdu[k + 1] = body[k]
    BY <1>5, <1>6, <2>1
  <2> QED BY <2>1, <2>2
<1> QED BY <1>3, <1>4, <1>5, <1>7, <1>8, <1>9, AcceptedIsTaken

\* So is that of the answer to a custom function that begins with a byte count.
LEMMA PayloadIsTakenWhole ==
    ASSUME NEW q, IsRequest(q), q.by # "standard", CountsRest(q.values, 1), NEW stream,
           RtuRoundTrip(Unit, <<q.fc>> \o q.values, stream)
    PROVE  RtuTaken(stream, q) = Len(stream)
<1>1. PICK n \in Nat, pdu \in Seq(Byte) :
         n = Len(q.values) /\ pdu = <<q.fc>> \o q.values
  BY CustomFacts, LenProperties DEF Sendable
<1>2. q.fc \in 0 .. 127 /\ q.fc \in Byte /\ q.values \in Seq(Byte)
  BY CustomFacts
<1>3. 1 <= n /\ q.values[1] = n - 1
  BY <1>1 DEF CountsRest
<1>4. /\ Len(pdu) = 1 + n /\ pdu[1] = q.fc
      /\ \A i \in 1 .. n : pdu[i + 1] = q.values[i]
  BY <1>1, <1>2, Prepending
<1>5. /\ stream \in Seq(Byte) /\ Len(stream) = Len(pdu) + 3
      /\ \A i \in 1 .. Len(pdu) : stream[1 + i] = pdu[i]
  BY <1>1 DEF RtuRoundTrip
<1>6. /\ 1 \in 1 .. n /\ 1 + 1 = 2 /\ 1 \in 1 .. Len(pdu) /\ 2 \in 1 .. Len(pdu) /\ 1 + 2 = 3
      /\ Len(stream) = n + 4
  BY <1>3, <1>4, <1>5
<1>7. stream[2] = q.fc /\ stream[3] = n - 1
  <2>1. stream[1 + 1] = pdu[1] /\ stream[1 + 2] = pdu[2] /\ pdu[1 + 1] = q.values[1]
    BY <1>4, <1>5, <1>6
  <2> QED BY <1>3, <1>4, <1>6, <2>1
<1>8. At(stream, 2) = q.fc /\ At(stream, 3) = n - 1
  <2>1. 2 <= Len(stream) /\ 3 <= Len(stream)
    BY <1>3, <1>6
  <2> QED BY <1>7, <2>1 DEF At
<1>9. ~ (At(stream, 2) >= 128) /\ At(stream, 2) < 128
  <2>1. q.fc < 128 /\ ~ (q.fc >= 128)
    BY <1>2, SmallCode
  <2> QED BY <1>8, <2>1
<1>10. RtuTaken(stream, q) = 2 + 1 + At(stream, 3) + 2
  BY <1>9 DEF RtuTaken
<1>11. 2 + 1 + (n - 1) + 2 = n + 4
  OBVIOUS
<1> QED BY <1>6, <1>8, <1>10, <1>11

\* Which answers to a request the client takes as a whole.
Whole(r, q) ==
    \/ Refuses(r, q)
    \/ q.by = "standard" /\ IsAnswer(r, q)
    \/ /\ q.by # "standard" /\ r = CustomResponse("custom", q.fc, q.values)
       /\ CountsRest(q.values, 1)

\* On either link, the client takes the whole frame.
LEMMA TakenWhole ==
    ASSUME NEW r, IsRequest(request), PostInit(request), Sendable(EncodeResponse(r)),
           frame = Framed(EncodeResponse(r)), session.link # "tcp" => Whole(r, request)
    PROVE  Taken = Len(frame)
<1>1. IsPDU(EncodeResponse(r))
  BY SendableIsPDU
<1>2. CASE session.link = "tcp"
  <2>1. TcpRoundTrip(Tid, Unit, EncodeResponse(r), frame)
    BY <1>1, <1>2, FrameFacts
  <2> QED BY <1>2, <2>1 DEF TcpRoundTrip, Taken
<1>3. CASE session.link # "tcp"
  <2>1. RtuRoundTrip(Unit, EncodeResponse(r), frame)
    BY <1>1, <1>3, FrameFacts
  <2>2. Taken = RtuTaken(frame, request)
    BY <1>3 DEF Taken
  <2>3. CASE Refuses(r, request)
    BY <2>1, <2>2, <2>3, RequestIsSent, RefusalIsTakenWhole
  <2>4. CASE request.by = "standard" /\ IsAnswer(r, request)
    BY <2>1, <2>2, <2>4, AnswerIsTakenWhole DEF Valid
  <2>5. CASE /\ request.by # "standard" /\ CountsRest(request.values, 1)
             /\ r = CustomResponse("custom", request.fc, request.values)
    <3>1. EncodeResponse(r) = <<request.fc>> \o request.values
      BY <2>5, CustomFacts
    <3> QED BY <2>1, <2>2, <2>5, <3>1, PayloadIsTakenWhole
  <2> QED BY <1>3, <2>3, <2>4, <2>5 DEF Whole
<1> QED BY <1>2, <1>3

\* A frame that is taken whole is decoded from the PDU that was sent.
LEMMA WholeFrame ==
    ASSUME NEW pdu, Sendable(pdu), frame = Framed(pdu), Taken = Len(frame)
    PROVE  Executed = DecodeResponse(pdu, request, response_decoders)
<1>1. IsPDU(pdu) /\ pdu # <<>> /\ Len(pdu) \in Nat /\ 1 <= Len(pdu)
  BY SendableIsPDU DEF Sendable
<1>2. Decoded(pdu).outcome = "ok" /\ Decoded(pdu).pdu = pdu
  BY DEF Decoded
<1>3. CASE session.link = "tcp"
  <2>1. /\ Len(frame) = 7 + Len(pdu) /\ SubSeq(frame, 1, Len(frame)) = frame
        /\ TcpPdu(frame, Tid, Unit) = Decoded(pdu)
    BY <1>1, <1>3, FrameFacts DEF TcpRoundTrip
  <2>2. ~ (Taken > Len(frame)) /\ ~ (Taken <= 7)
    BY <1>1, <2>1
  <2>3. TcpPdu(SubSeq(frame, 1, Taken), Tid, Unit) = Decoded(pdu)
    BY <2>1
  <2> QED BY <1>2, <1>3, <2>2, <2>3 DEF Executed
<1>4. CASE session.link # "tcp"
  <2>1. /\ Len(frame) = Len(pdu) + 3 /\ SubSeq(frame, 1, Len(frame)) = frame
        /\ RtuPdu(frame, Unit) = Decoded(pdu)
    BY <1>1, <1>4, FrameFacts DEF RtuRoundTrip
  <2>2. ~ (Taken > Len(frame))
    BY <1>1, <2>1
  <2>3. RtuPdu(SubSeq(frame, 1, Taken), Unit) = Decoded(pdu)
    BY <2>1
  <2> QED BY <1>2, <1>4, <2>2, <2>3 DEF Executed
<1> QED BY <1>3, <1>4

-----------------------------------------------------------------------------
(***************************************************************************)
(* What the caller gets.                                                   *)
(***************************************************************************)
LEMMA FirstDecoderIs ==
    ASSUME NEW of, NEW code
    PROVE  FirstDecoder(of, code) = First(attempts, of, code)
BY DEF FirstDecoder, First, Tries

\* What a registry holds for a code is the decoder that came first.
LEMMA RegisteredFirst ==
    ASSUME NEW of, NEW decoders, Knows(attempts, of, decoders), NEW code \in 0 .. 127
    PROVE  /\ code \in DOMAIN decoders => /\ FirstDecoder(of, code) = decoders[code]
                                          /\ FirstDecoder(of, code) # "none"
           /\ code \notin DOMAIN decoders => FirstDecoder(of, code) = "none"
<1>1. "none" \notin Decoder
  BY DecoderAssumption
<1> QED BY <1>1, FirstDecoderIs DEF Knows

\* An answer passes the checks of the helpers.
LEMMA AnswerIsEcho ==
    ASSUME NEW q, NEW r, IsAnswer(r, q)
    PROVE  Echoes(q, r) /\ r.kind = "normal"
<1>1. r.kind = "normal"
  BY DEF IsAnswer, Normal, Response
<1>2. Echoes(q, r)
  BY CodeNumbers DEF IsAnswer, Echoes
<1> QED BY <1>1, <1>2

\* The answer to a custom request, decoded by what is registered for it.
LEMMA PayloadComesBack ==
    ASSUME NEW q, IsRequest(q), q.by # "standard", ~ Shadows(q), NEW decoders
    PROVE  DecodeResponse(<<q.fc>> \o q.values, q, decoders) =
             IF q.fc \in DOMAIN decoders
               THEN Decoded(CustomResponse(decoders[q.fc], q.fc, q.values))
               ELSE Raises("ValueError")
<1>1. PICK data : data = <<q.fc>> \o q.values
  OBVIOUS
<1>2. q.fc \in 0 .. 127 /\ q.fc \in Byte /\ q.values \in Seq(Byte)
  BY CustomFacts
<1>3. data # <<>> /\ Head(data) = q.fc /\ Tail(data) = q.values
  BY <1>1, <1>2, Prepending
<1>4. q.fc < 128 /\ ~ (q.fc >= 128)
  BY <1>2, SmallCode
<1>5. q.fc \notin FunctionCode /\ ~ StandardAnswer(q)
  BY DEF Shadows, StandardAnswer
<1>6. DecodeResponse(data, q, decoders) =
        IF q.fc \in DOMAIN decoders
          THEN Decoded(CustomResponse(decoders[q.fc], q.fc, q.values))
          ELSE Raises("ValueError")
  BY <1>3, <1>4, <1>5 DEF DecodeResponse
<1> QED BY <1>1, <1>6

\* What AnswerArrives says of a result.
AnswerIs(res) ==
    CASE request.by = "standard" /\ answer.kind = "normal" -> res = Decoded(answer)
      [] request.by = "standard" /\ answer.kind = "exception" ->
           res.outcome = "ModbusExceptionResponseError" /\ res.pdu = answer
      [] request.by # "standard" /\ answer.kind = "exception" -> res = Decoded(answer)
      [] OTHER ->
           (~ Shadows(request) /\ (session.link = "rtu" => CountsRest(answer.values, 1))) =>
               LET decoder == FirstDecoder("response", request.fc)
               IN  res = IF decoder = "none" THEN Raises("ValueError")
                         ELSE Decoded([answer EXCEPT !.kind = decoder])

\* An exception of the server is raised at the caller.
LEMMA RefusalArrives ==
    ASSUME IInv, pc = "answered", frame = sent, Refuses(answer, request)
    PROVE  AnswerIs(HelperReturns(request, Executed))
<1>1. /\ IsRequest(request) /\ PostInit(request) /\ sent = Framed(EncodeResponse(answer))
      /\ Sendable(EncodeResponse(answer))
  BY DEF IInv, Asking, OnItsWayBack
<1>2. PICK code \in {1, 2, 3} : answer = ExceptionResponse(request.fc, code)
  BY DEF Refuses
<1>3. code \in Byte /\ request.fc \in 0 .. 127
  BY <1>1, RequestIsSent, ByteIs
<1>4. Taken = Len(frame)
  <2>1. Whole(answer, request)
    BY DEF Whole
  <2> QED BY <1>1, <2>1, TakenWhole
<1>5. Executed = DecodeResponse(EncodeResponse(answer), request, response_decoders)
  BY <1>1, <1>4, WholeFrame
<1>6. Executed = Decoded(answer)
  BY <1>2, <1>3, <1>5, ExceptionComesBack
<1>7. answer.kind = "exception"
  BY <1>2 DEF ExceptionResponse, Response
<1>8. CASE request.by = "standard"
  <2>1. HelperReturns(request, Decoded(answer))
          = [Decoded(answer) EXCEPT !.outcome = "ModbusExceptionResponseError"]
    BY <1>7, <1>8 DEF HelperReturns, Decoded
  <2> QED BY <1>6, <1>7, <1>8, <2>1 DEF AnswerIs, Decoded
<1>9. CASE request.by # "standard"
  <2>1. HelperReturns(request, Decoded(answer)) = Decoded(answer)
    BY <1>9 DEF HelperReturns
  <2> QED BY <1>6, <1>7, <1>9, <2>1 DEF AnswerIs
<1> QED BY <1>8, <1>9

\* The answer to a request of the library is returned.
LEMMA StandardAnswerArrives ==
    ASSUME IInv, pc = "answered", frame = sent, request.by = "standard",
           IsAnswer(answer, request)
    PROVE  AnswerIs(HelperReturns(request, Executed))
<1>1. /\ IsRequest(request) /\ PostInit(request) /\ sent = Framed(EncodeResponse(answer))
      /\ Sendable(EncodeResponse(answer))
  BY DEF IInv, Asking, OnItsWayBack
<1>2. Valid(request)
  BY <1>1 DEF Valid
<1>3. Taken = Len(frame)
  <2>1. Whole(answer, request)
    BY DEF Whole
  <2> QED BY <1>1, <2>1, TakenWhole
<1>4. Executed = DecodeResponse(EncodeResponse(answer), request, response_decoders)
  BY <1>1, <1>3, WholeFrame
<1>5. Executed = Decoded(answer)
  BY <1>2, <1>4, AnswerComesBack
<1>6. Echoes(request, answer) /\ answer.kind = "normal"
  BY AnswerIsEcho
<1>7. HelperReturns(request, Decoded(answer)) = Decoded(answer)
  BY <1>6 DEF HelperReturns, Decoded
<1> QED BY <1>5, <1>6, <1>7 DEF AnswerIs

\* The answer to a custom function reaches its decoder.
LEMMA PayloadArrives ==
    ASSUME IInv, pc = "answered", frame = sent, request.by # "standard",
           answer = CustomResponse("custom", request.fc, request.values)
    PROVE  AnswerIs(HelperReturns(request, Executed))
<1>1. /\ session \in Session /\ IsRequest(request) /\ PostInit(request)
      /\ sent = Framed(EncodeResponse(answer)) /\ Sendable(EncodeResponse(answer))
      /\ Knows(attempts, "response", response_decoders)
  BY DEF IInv, Asking, OnItsWayBack, Registry
<1>2. answer.kind = "custom" /\ answer.values = request.values
  BY DEF CustomResponse, Response
<1> DEFINE decoder == FirstDecoder("response", request.fc)
<1>3. SUFFICES ASSUME ~ Shadows(request), session.link = "rtu" => CountsRest(answer.values, 1)
               PROVE  HelperReturns(request, Executed)
                        = IF decoder = "none" THEN Raises("ValueError")
                          ELSE Decoded([answer EXCEPT !.kind = decoder])
  BY <1>2 DEF AnswerIs
<1>4. session.link # "tcp" => Whole(answer, request)
  BY <1>1, <1>2, <1>3, SessionFacts DEF Whole
<1>5. Taken = Len(frame)
  BY <1>1, <1>4, TakenWhole
<1>6. Executed = DecodeResponse(EncodeResponse(answer), request, response_decoders)
  BY <1>1, <1>5, WholeFrame
<1>7. EncodeResponse(answer) = <<request.fc>> \o request.values /\ request.fc \in 0 .. 127
  BY <1>1, CustomFacts
<1>8. Executed = IF request.fc \in DOMAIN response_decoders
                   THEN Decoded(CustomResponse(response_decoders[request.fc], request.fc,
                                               request.values))
                   ELSE Raises("ValueError")
  BY <1>1, <1>3, <1>6, <1>7, PayloadComesBack
<1>9. HelperReturns(request, Executed) = Executed
  BY DEF HelperReturns
<1>10. [answer EXCEPT !.kind = decoder] = CustomResponse(decoder, request.fc, request.values)
  BY DEF CustomResponse, Response
<1>11. /\ request.fc \in DOMAIN response_decoders =>
             decoder = response_decoders[request.fc] /\ decoder # "none"
       /\ request.fc \notin DOMAIN response_decoders => decoder = "none"
  BY <1>1, <1>7, RegisteredFirst
<1> HIDE DEF decoder
<1> QED BY <1>8, <1>9, <1>10, <1>11

\* Whatever the device has answered, it is understood.
LEMMA WholeAnswerArrives ==
    ASSUME IInv, pc = "answered", frame = sent
    PROVE  AnswerIs(HelperReturns(request, Executed))
<1>1. Suits(answer, request)
  BY DEF IInv, OnItsWayBack
<1>2. CASE request.by # "standard" /\ Shadows(request) /\ answer.kind # "exception"
  BY <1>2 DEF AnswerIs
<1> QED BY <1>1, <1>2, RefusalArrives, StandardAnswerArrives, PayloadArrives DEF Suits

\* What the client takes for the PDU of an answer.
PduTaken ==
    SubSeq(frame, IF session.link = "tcp" THEN 8 ELSE 2,
           IF session.link = "tcp" THEN Taken ELSE Taken - 2)

Errors == {"ModbusTimeoutError", "ValueError", "ModbusFrameError", "ModbusCRCError",
           "ModbusResponseMismatchError"}

\* A byte of a stream, or 0 behind its end.
LEMMA AtIsNat ==
    ASSUME NEW data \in Seq(Byte), NEW i \in Nat, 1 <= i
    PROVE  At(data, i) \in Nat
<1>1. CASE i <= Len(data)
  <2>1. i \in 1 .. Len(data)
    BY <1>1, LenProperties
  <2> QED BY <1>1, <2>1, SeqElement, ByteIsNat DEF At
<1>2. CASE ~ (i <= Len(data))
  BY <1>2 DEF At
<1> QED BY <1>1, <1>2

\* What is taken is a number of bytes, and a TCP header at least.
LEMMA TakenIsInt ==
    ASSUME frame \in Seq(Byte)
    PROVE  Taken \in Int /\ (session.link = "tcp" => 6 <= Taken)
<1>1. /\ At(frame, 2) \in Nat /\ At(frame, 3) \in Nat /\ At(frame, 5) \in Nat
      /\ At(frame, 6) \in Nat /\ At(frame, 8) \in Nat
  BY AtIsNat
<1>2. CASE session.link = "tcp"
  <2>1. PICK a \in Nat, b \in Nat : a = At(frame, 5) /\ b = At(frame, 6)
    BY <1>1
  <2>2. TcpTaken(frame) = 7 + (256 * a + b) - 1
    BY <2>1 DEF TcpTaken
  <2>3. 7 + (256 * a + b) - 1 \in Int /\ 6 <= 7 + (256 * a + b) - 1
    OBVIOUS
  <2> QED BY <1>2, <2>2, <2>3 DEF Taken
<1>3. CASE session.link # "tcp"
  <2>1. PICK p \in Nat : p = ObjectStart(frame, 9, At(frame, 8))
    BY <1>1, ObjectStartFacts
  <2>2. PICK a \in Nat : a = At(frame, 3)
    BY <1>1
  <2>3. p - 1 + 2 \in Int /\ 2 + 1 + a + 2 \in Int
    OBVIOUS
  <2>4. RtuTaken(frame, request) \in {5, 8, 10, p - 1 + 2, 2 + 1 + a + 2}
    BY <2>1, <2>2 DEF RtuTaken, RTU_EXCEPTION_RESPONSE_SIZE,
       RTU_WRITE_REGISTER_RESPONSE_SIZE, RTU_MASK_WRITE_REGISTER_RESPONSE_SIZE
  <2>5. RtuTaken(frame, request) \in Int
    BY <2>3, <2>4
  <2> QED BY <1>3, <2>5 DEF Taken
<1> QED BY <1>2, <1>3

\* The middle of a beginning is a middle.
LEMMA EndOfBeginning ==
    ASSUME NEW S, NEW s \in Seq(S), NEW n \in Nat, n <= Len(s), NEW a \in Nat, 1 <= a,
           NEW m \in Nat, a <= m + 1, m <= n
    PROVE  SubSeq(SubSeq(s, 1, n), a, m) = SubSeq(s, a, m) /\ SubSeq(s, a, m) \in Seq(S)
<1> DEFINE t == SubSeq(s, 1, n)
<1>1. Len(s) \in Nat
  BY LenProperties
<1>2. t \in Seq(S) /\ Len(t) = n /\ \A k \in 1 .. n : t[k] = s[k]
  BY <1>1, PrefixFacts
<1> HIDE DEF t
<1>3. SubSeq(t, a, m) \in Seq(S) /\ IsMiddle(SubSeq(t, a, m), t, a, m)
  BY <1>2, MiddleFacts
<1>4. m <= Len(s)
  BY <1>1
<1>5. SubSeq(s, a, m) \in Seq(S) /\ IsMiddle(SubSeq(s, a, m), s, a, m)
  BY <1>4, MiddleFacts
<1>6. Len(SubSeq(t, a, m)) = m - a + 1 /\ Len(SubSeq(s, a, m)) = m - a + 1
  BY <1>3, <1>5 DEF IsMiddle
<1>7. ASSUME NEW k \in 1 .. m - a + 1 PROVE SubSeq(t, a, m)[k] = SubSeq(s, a, m)[k]
  <2>1. SubSeq(t, a, m)[k] = t[a + k - 1] /\ SubSeq(s, a, m)[k] = s[a + k - 1]
    BY <1>3, <1>5 DEF IsMiddle
  <2>2. a + k - 1 \in 1 .. n
    OBVIOUS
  <2> QED BY <1>2, <2>1, <2>2
<1>8. SubSeq(t, a, m) = SubSeq(s, a, m)
  BY <1>3, <1>5, <1>6, <1>7, SeqEqual
<1> QED BY <1>5, <1>8 DEF t

\* What execute makes of any bytes: an error, or what the PDU in them is decoded to.
IsExecuted(res) ==
    \/ \E e \in Errors : res = Raises(e)
    \/ PduTaken \in Seq(Byte) /\ res = DecodeResponse(PduTaken, request, response_decoders)

\* The outcomes of reading a TCP frame ...
LEMMA TcpOutcome ==
    ASSUME NEW data, NEW tid, NEW unit, Len(data) \in Nat
    PROVE  \/ TcpPdu(data, tid, unit) \in {Raises("ModbusFrameError"),
                                           Raises("ModbusResponseMismatchError")}
           \/ TcpPdu(data, tid, unit) = Decoded(From(data, 8)) /\ Len(data) >= 7
BY DEF TcpPdu

\* ... and an RTU frame.
LEMMA RtuOutcome ==
    ASSUME NEW data, NEW unit, Len(data) \in Nat
    PROVE  \/ RtuPdu(data, unit) \in {Raises("ModbusFrameError"), Raises("ModbusCRCError"),
                                      Raises("ModbusResponseMismatchError")}
           \/ /\ RtuPdu(data, unit) = Decoded(Tail(SubSeq(data, 1, Len(data) - 2)))
              /\ Len(data) >= 4
BY DEF RtuPdu

\* Whatever the stream holds, execute raises or decodes the PDU it took.
LEMMA ExecutedIs ==
    ASSUME frame \in Seq(Byte)
    PROVE  IsExecuted(Executed)
<1> DEFINE data == SubSeq(frame, 1, Taken)
           found == IF session.link = "tcp" THEN TcpPdu(data, Tid, Unit)
                                            ELSE RtuPdu(data, Unit)
<1>1. PICK n \in Int, l \in Nat :
         n = Taken /\ l = Len(frame) /\ (session.link = "tcp" => 6 <= n)
  BY TakenIsInt, LenProperties
<1>2. Executed =
        CASE n > l -> Raises("ModbusTimeoutError")
          [] n <= l /\ n <= 7 /\ session.link = "tcp" -> Raises("ValueError")
          [] OTHER -> IF found.outcome = "ok"
                        THEN DecodeResponse(found.pdu, request, response_decoders)
                        ELSE found
  BY <1>1 DEF Executed
<1>3. CASE n > l
  BY <1>2, <1>3 DEF IsExecuted, Errors
<1>4. CASE n <= l /\ n <= 7 /\ session.link = "tcp"
  <2>1. ~ (n > l)
    BY <1>4
  <2> QED BY <1>2, <1>4, <2>1 DEF IsExecuted, Errors
<1>5. CASE n <= l /\ ~ (n <= 7 /\ session.link = "tcp")
  <2>1. ~ (n > l)
    BY <1>5
  <2>2. Executed = IF found.outcome = "ok"
                     THEN DecodeResponse(found.pdu, request, response_decoders)
                     ELSE found
    <3> HIDE DEF found
    <3> QED BY <1>2, <1>5, <2>1
  <2>3. ASSUME NEW e \in Errors, found = Raises(e) PROVE IsExecuted(Executed)
    <3>1. found.outcome # "ok"
      BY <2>3 DEF Raises, Errors
    <3> HIDE DEF found
    <3> QED BY <2>2, <2>3, <3>1 DEF IsExecuted
  <2>4. ASSUME PduTaken \in Seq(Byte), found = Decoded(PduTaken) PROVE IsExecuted(Executed)
    <3>1. found.outcome = "ok" /\ found.pdu = PduTaken
      BY <2>4 DEF Decoded
    <3> HIDE DEF found
    <3> QED BY <2>2, <2>4, <3>1 DEF IsExecuted
  <2>5. {"ModbusFrameError", "ModbusCRCError", "ModbusResponseMismatchError"} \subseteq Errors
    BY DEF Errors
  <2>6. CASE session.link = "tcp"
    <3>1. n \in Nat /\ n <= l /\ 8 <= n + 1 /\ n >= 8
      BY <1>1, <1>5, <2>6
    <3>2. Len(data) = n /\ n \in 0 .. Len(frame)
      BY <1>1, <3>1, PrefixFacts
    <3>3. From(data, 8) = SubSeq(frame, 8, n) /\ SubSeq(frame, 8, n) \in Seq(Byte)
      <4>1. /\ SubSeq(SubSeq(frame, 1, n), 8, n) = SubSeq(frame, 8, n)
            /\ SubSeq(frame, 8, n) \in Seq(Byte)
        BY <1>1, <3>1, EndOfBeginning
      <4> QED BY <1>1, <3>2, <4>1 DEF From
    <3>4. PduTaken = SubSeq(frame, 8, n)
      BY <1>1, <2>6 DEF PduTaken
    <3>5. found = TcpPdu(data, Tid, Unit)
      BY <2>6
    <3> HIDE DEF found, data
    <3>6. \/ found \in {Raises("ModbusFrameError"), Raises("ModbusResponseMismatchError")}
          \/ found = Decoded(From(data, 8))
      BY <3>1, <3>2, <3>5, TcpOutcome
    <3> QED BY <2>3, <2>4, <2>5, <3>3, <3>4, <3>6
  <2>7. CASE session.link # "tcp"
    <3>1. found = RtuPdu(data, Unit)
      BY <2>7
    <3>2. CASE n < 0
      <4>1. Len(data) = 0
        BY <1>1, <3>2
      <4> HIDE DEF found, data
      <4>2. ~ (Len(data) >= 4) /\ Len(data) \in Nat
        BY <4>1
      <4> QED BY <2>3, <2>5, <3>1, <4>2, RtuOutcome
    <3>3. CASE ~ (n < 0)
      <4>1. n \in Nat /\ n \in 0 .. Len(frame)
        BY <1>1, <1>5, <3>3
      <4>2. Len(data) = n /\ data \in Seq(Byte)
        BY <1>1, <4>1, PrefixFacts
      <4>3. PduTaken = SubSeq(frame, 2, n - 2)
        BY <1>1, <2>7 DEF PduTaken
      <4>4. n >= 4 => /\ Tail(SubSeq(data, 1, n - 2)) = SubSeq(frame, 2, n - 2)
                      /\ SubSeq(frame, 2, n - 2) \in Seq(Byte)
        <5> SUFFICES ASSUME n >= 4
                     PROVE  /\ Tail(SubSeq(data, 1, n - 2)) = SubSeq(frame, 2, n - 2)
                            /\ SubSeq(frame, 2, n - 2) \in Seq(Byte)
          OBVIOUS
        <5>1. PICK m \in Nat : m = n - 2 /\ 2 <= m /\ m <= n /\ m <= l
          BY <1>5, <4>1
        <5>2. /\ SubSeq(SubSeq(frame, 1, n), 1, m) = SubSeq(frame, 1, m)
              /\ SubSeq(frame, 1, m) \in Seq(Byte)
          BY <1>1, <1>5, <4>1, <5>1, EndOfBeginning
        <5>3. Len(SubSeq(frame, 1, m)) = m
          BY <1>1, <5>1, PrefixFacts
        <5>4. Tail(SubSeq(frame, 1, m)) = SubSeq(SubSeq(frame, 1, m), 2, m)
          BY <5>2, <5>3
        <5>5. /\ SubSeq(SubSeq(frame, 1, m), 2, m) = SubSeq(frame, 2, m)
              /\ SubSeq(frame, 2, m) \in Seq(Byte)
          BY <1>1, <5>1, EndOfBeginning
        <5> QED BY <1>1, <5>1, <5>2, <5>4, <5>5
      <4> HIDE DEF found, data
      <4>5. \/ found \in {Raises("ModbusFrameError"), Raises("ModbusCRCError"),
                          Raises("ModbusResponseMismatchError")}
            \/ found = Decoded(Tail(SubSeq(data, 1, n - 2))) /\ n >= 4
        BY <3>1, <4>1, <4>2, RtuOutcome
      <4> QED BY <2>3, <2>4, <2>5, <4>3, <4>4, <4>5
    <3> QED BY <3>2, <3>3
  <2> QED BY <2>6, <2>7
<1>6. n > l \/ n <= l
  BY <1>1
<1> QED BY <1>3, <1>4, <1>5, <1>6

\* What decode_response_pdu makes of bytes.
LEMMA ResponseOutcome ==
    ASSUME NEW data, NEW q, NEW decoders
    PROVE  \/ DecodeResponse(data, q, decoders) = Raises("ValueError")
           \/ \E r : DecodeResponse(data, q, decoders) = Decoded(r)
BY DEF DecodeResponse

\* Nothing but the declared outcomes reaches the caller.
LEMMA ResultOutcome ==
    ASSUME NEW q, NEW res, IsExecuted(res)
    PROVE  HelperReturns(q, res).outcome \in Outcomes
<1>1. CASE \E e \in Errors : res = Raises(e)
  <2>1. PICK e \in Errors : res = Raises(e)
    BY <1>1
  <2>2. res.outcome # "ok" /\ res.outcome \in Outcomes
    BY <2>1 DEF Errors, Raises, Outcomes
  <2> QED BY <2>2 DEF HelperReturns
<1>2. CASE res = DecodeResponse(PduTaken, request, response_decoders)
  <2>1. CASE res = Raises("ValueError")
    <3>1. res.outcome = "ValueError"
      BY <2>1 DEF Raises
    <3> QED BY <3>1 DEF HelperReturns, Outcomes
  <2>2. ASSUME NEW r, res = Decoded(r) PROVE HelperReturns(q, res).outcome \in Outcomes
    <3>1. res = [outcome |-> "ok", pdu |-> r] /\ res.outcome = "ok"
      BY <2>2 DEF Decoded
    <3>2. [res EXCEPT !.outcome = "ModbusExceptionResponseError"].outcome
            = "ModbusExceptionResponseError"
      BY <3>1
    <3>3. HelperReturns(q, res) \in {res, Raises("ModbusResponseMismatchError"),
                                     [res EXCEPT !.outcome = "ModbusExceptionResponseError"]}
      BY DEF HelperReturns
    <3> QED BY <3>1, <3>2, <3>3 DEF Outcomes, Raises
  <2> QED BY <1>2, <2>1, <2>2, ResponseOutcome
<1> QED BY <1>1, <1>2 DEF IsExecuted

\* A result that is returned to a helper was accepted as an answer to its request.
LEMMA AcceptedResult ==
    ASSUME NEW q, Valid(q), NEW res, IsExecuted(res), q = request,
           HelperReturns(q, res).outcome = "ok"
    PROVE  \E payload \in Seq(Byte) :
              /\ PduTaken = <<q.fc>> \o payload
              /\ Accepted(q, payload) /\ Echoes(q, ParsedResponse(q, payload))
              /\ HelperReturns(q, res) = Decoded(ParsedResponse(q, payload))
<1>1. q.by = "standard" /\ StandardAnswer(q)
  BY DEF Valid, StandardAnswer
<1>2. res.outcome = "ok"
  BY <1>1 DEF HelperReturns, Raises
<1>3. PICK data \in Seq(Byte) :
         data = PduTaken /\ res = DecodeResponse(data, q, response_decoders)
  BY <1>2 DEF IsExecuted, Errors, Raises
<1>4. data # <<>>
  BY <1>2, <1>3 DEF DecodeResponse, Raises
<1>5. PICK fc \in Byte, payload \in Seq(Byte) :
         fc = Head(data) /\ payload = Tail(data) /\ data = <<fc>> \o payload
  <2>1. /\ Head(data) \in Byte /\ Tail(data) \in Seq(Byte)
        /\ data = <<Head(data)>> \o Tail(data)
    BY <1>4, FirstAndRest
  <2> QED BY <2>1
<1>6. fc \in Nat
  BY ByteIsNat
<1>7. CASE fc >= 128
  <2>1. ~ (fc < 128)
    BY <1>6, <1>7
  <2>2. res = IF fc - 128 = q.fc /\ Len(payload) = 1
                THEN Decoded(ExceptionResponse(q.fc, payload[1])) ELSE Raises("ValueError")
    BY <1>3, <1>4, <1>5, <1>7, <2>1 DEF DecodeResponse
  <2>3. res = Decoded(ExceptionResponse(q.fc, payload[1]))
    BY <1>2, <2>2 DEF Raises
  <2>4. HelperReturns(q, res) = [res EXCEPT !.outcome = "ModbusExceptionResponseError"]
    BY <1>1, <2>3 DEF HelperReturns, Decoded, ExceptionResponse, Response
  <2>5. FALSE
    BY <2>3, <2>4 DEF Decoded
  <2> QED BY <2>5
<1>8. CASE ~ (fc >= 128)
  <2>1. fc < 128
    BY <1>6, <1>8
  <2>2. res = IF fc = q.fc /\ Accepted(q, payload)
                THEN Decoded(ParsedResponse(q, payload)) ELSE Raises("ValueError")
    BY <1>1, <1>3, <1>4, <1>5, <1>8, <2>1 DEF DecodeResponse
  <2>3. fc = q.fc /\ Accepted(q, payload) /\ res = Decoded(ParsedResponse(q, payload))
    BY <1>2, <2>2 DEF Raises
  <2>4. ParsedResponse(q, payload).kind = "normal"
    BY <2>3, AcceptedIsExact DEF ReportsBytes
  <2>5. Echoes(q, ParsedResponse(q, payload)) /\ HelperReturns(q, res) = res
    <3> DEFINE r == ParsedResponse(q, payload)
    <3>1. res.pdu = r /\ r.kind = "normal"
      BY <2>3, <2>4 DEF Decoded
    <3> HIDE DEF r
    <3>2. Echoes(q, r)
      BY <1>1, <1>2, <3>1 DEF HelperReturns, Raises
    <3>3. HelperReturns(q, res) = res
      BY <1>1, <1>2, <3>1, <3>2 DEF HelperReturns
    <3> QED BY <3>2, <3>3 DEF r
  <2> QED BY <1>3, <1>5, <2>3, <2>5
<1> QED BY <1>7, <1>8

\* Whatever bytes have come back, what the helper returns fits them and its request.
LEMMA ResultFits ==
    ASSUME Valid(request), frame \in Seq(Byte), pc' = "done",
           UNCHANGED <<session, request, frame>>,
           result' = HelperReturns(request, Executed)
    PROVE  ForeignAnswerFits'
<1> SUFFICES ASSUME result'.outcome = "ok" PROVE ForeignAnswerFits'
  BY DEF ForeignAnswerFits
<1>1. IsExecuted(Executed)
  BY ExecutedIs
<1>2. PICK payload \in Seq(Byte) :
         /\ PduTaken = <<request.fc>> \o payload
         /\ Accepted(request, payload) /\ Echoes(request, ParsedResponse(request, payload))
         /\ result' = Decoded(ParsedResponse(request, payload))
  <2>1. \A res : IsExecuted(res) /\ HelperReturns(request, res).outcome = "ok" =>
           \E payload \in Seq(Byte) :
              /\ PduTaken = <<request.fc>> \o payload
              /\ Accepted(request, payload)
              /\ Echoes(request, ParsedResponse(request, payload))
              /\ HelperReturns(request, res) = Decoded(ParsedResponse(request, payload))
    BY AcceptedResult
  <2> QED BY <1>1, <2>1
<1>3. PICK r : r = ParsedResponse(request, payload) /\ result'.pdu = r
  BY <1>2 DEF Decoded
<1>4. ReportsBytes(request, payload, r)
  BY <1>2, <1>3, AcceptedIsExact
<1> DEFINE pdu == PduTaken
<1>5. /\ request.fc \in {5, 6, 22} => pdu = EncodeRequest(request)
      /\ request.fc \in {15, 16} => pdu = SubSeq(EncodeRequest(request), 1, 5)
  BY <1>2, EchoIsBeginning
<1>6. request.fc \in {1, 2} =>
        /\ Len(r.values) = request.fields[2]
        /\ \A i \in DOMAIN r.values : r.values[i] = BitAfter(pdu, 2, i)
  <2> SUFFICES ASSUME request.fc \in {1, 2}
               PROVE  /\ Len(r.values) = request.fields[2]
                      /\ \A i \in DOMAIN r.values : r.values[i] = BitAfter(pdu, 2, i)
    OBVIOUS
  <2>1. /\ r.values \in Seq({0, 1}) /\ Len(r.values) = request.fields[2]
        /\ \A i \in 1 .. Len(r.values) :
              r.values[i] = Bit(payload[2 + (i - 1) \div 8], ((i - 1) % 8) + 1)
    BY <1>4 DEF ReportsBytes
  <2>2. request.fc \in Byte
    BY ValidFacts, SmallCode
  <2>3. \A k \in 1 .. Len(payload) : pdu[k + 1] = payload[k]
    BY <1>2, <2>2, Prepending
  <2>4. Len(payload) - 1 >= BytesFor(request.fields[2]) /\ Len(payload) \in Nat
    <3>1. CountsRest(payload, 1) /\ payload[1] >= BytesFor(request.fields[2])
      BY <1>2, CodeNumbers DEF Accepted
    <3> QED BY <3>1, LenProperties DEF CountsRest
  <2>5. PICK n \in Nat : n = Len(r.values) /\ n = request.fields[2]
    BY <2>1, LenProperties
  <2>6. ASSUME NEW i \in 1 .. n PROVE r.values[i] = BitAfter(pdu, 2, i)
    <3>1. (i - 1) \div 8 + 1 \in 1 .. BytesFor(n) /\ BytesFor(n) \in Nat
      BY BytesForFacts
    <3>2. Len(payload) - 1 >= BytesFor(n)
      BY <2>4, <2>5
    <3>3. PICK d \in Int : d = (i - 1) \div 8
      OBVIOUS
    <3>4. 2 + d \in 1 .. Len(payload) /\ (2 + d) + 1 = 2 + 1 + d
      BY <2>4, <3>1, <3>2, <3>3
    <3>5. pdu[2 + 1 + d] = payload[2 + d]
      BY <2>3, <3>4
    <3>6. r.values[i] = Bit(payload[2 + d], ((i - 1) % 8) + 1)
      BY <2>1, <2>5, <3>3
    <3>7. BitAfter(pdu, 2, i) = Bit(pdu[2 + 1 + d], ((i - 1) % 8) + 1)
      BY <3>3 DEF BitAfter
    <3> QED BY <3>5, <3>6, <3>7
  <2> QED BY <2>1, <2>5, <2>6
<1>7. request.fc \notin {1, 2} => EncodeResponse(r) = pdu
  BY <1>2, <1>4 DEF ReportsBytes
<1>8. /\ request.fc = 23 => Len(r.values) = request.fields[2]
      /\ request.fc = 43 => r.fields[1] = request.fields[1]
  BY <1>4 DEF ReportsBytes
<1>9. PduTaken' = PduTaken
  BY DEF PduTaken, Taken
<1>10. pdu = SubSeq(frame', IF session.link = "tcp" THEN 8 ELSE 2,
                    IF session.link = "tcp" THEN Taken' ELSE Taken' - 2)
  BY <1>9 DEF PduTaken, Taken
<1> HIDE DEF pdu
<1> QED BY <1>3, <1>5, <1>6, <1>7, <1>8, <1>10, CodeNumbers DEF ForeignAnswerFits

-----------------------------------------------------------------------------
(***************************************************************************)
(* A walk.                                                                 *)
(***************************************************************************)
LEMMA ToSetIs ==
    ASSUME NEW S, NEW s \in Seq(S)
    PROVE  ToSet(s) = {s[i] : i \in 1 .. Len(s)} /\ ToSet(s) \subseteq S
<1>1. DOMAIN s = 1 .. Len(s)
  OBVIOUS
<1>2. ToSet(s) = {s[i] : i \in 1 .. Len(s)}
  BY <1>1 DEF ToSet
<1> QED BY <1>2, SeqElement

\* The lengths and the elements of two sequences together.
LEMMA Joined ==
    ASSUME NEW S, NEW s \in Seq(S), NEW t \in Seq(S)
    PROVE  \A a, b : Len(s) = a /\ Len(t) = b =>
              /\ s \o t \in Seq(S) /\ Len(s \o t) = a + b
              /\ \A i \in 1 .. a : (s \o t)[i] = s[i]
              /\ \A k \in 1 .. b : (s \o t)[a + k] = t[k]
<1>1. /\ s \o t \in Seq(S) /\ Len(s \o t) = Len(s) + Len(t)
      /\ \A i \in 1 .. Len(s) : (s \o t)[i] = s[i]
      /\ \A k \in 1 .. Len(t) : (s \o t)[Len(s) + k] = t[k]
  BY Concatenation
<1> QED BY <1>1, Zenon

\* The first n of the objects that are left of W from start on are received after
\* those before start: then everything before the next of them is, or everything.
Advances(W, ids, n, more) ==
    /\ more \in Seq(Byte) /\ Ascends(more)
    /\ n = Len(ids) => ToSet(more) = W
    /\ n < Len(ids) => ToSet(more) = {i \in W : i < ids[n + 1]}

\* A page more: what was received stays in order, and everything before the next id
\* is there.
LEMMA PageAdvances ==
    ASSUME NEW W \in SUBSET Byte, NEW start \in Nat, NEW got \in Seq(Byte), Ascends(got),
           ToSet(got) = {i \in W : i < start},
           NEW ids \in Seq(Byte), InOrder(ids, {i \in W : i >= start}),
           NEW n \in 0 .. Len(ids), NEW page \in Seq(Byte), Len(page) = n,
           \A k \in 1 .. n : page[k] = ids[k]
    PROVE  Advances(W, ids, n, got \o page)
<1> DEFINE more == got \o page
           Left == {i \in W : i >= start}
<1>1. PICK g \in Nat, l \in Nat : g = Len(got) /\ l = Len(ids) /\ n \in Nat /\ n <= l
  BY LenProperties
<1>2. /\ more \in Seq(Byte) /\ Len(more) = g + n
      /\ \A i \in 1 .. g : more[i] = got[i]
      /\ \A k \in 1 .. n : more[g + k] = page[k]
  <2>1. Len(got) = g /\ Len(page) = n
    BY <1>1
  <2> QED BY <2>1, Joined
<1>3. ASSUME NEW i \in 1 .. g PROVE got[i] \in W /\ got[i] < start /\ got[i] \in Nat
  <2>1. got[i] \in ToSet(got)
    BY <1>1, ToSetIs
  <2>2. got[i] \in W /\ got[i] < start
    BY <2>1
  <2> QED BY <2>2, ByteIsNat
<1>4. ASSUME NEW k \in 1 .. l PROVE ids[k] \in W /\ ids[k] >= start /\ ids[k] \in Nat
  <2>1. ids \in Seq(Left)
    BY DEF InOrder
  <2>2. ids[k] \in Left
    BY <1>1, <2>1, SeqElement
  <2> QED BY <2>2, ByteIsNat
<1>5. \A i, j \in 1 .. l : i < j => ids[i] < ids[j]
  BY <1>1 DEF InOrder
<1>6. \A x \in W : x >= start => \E k \in 1 .. l : ids[k] = x
  BY <1>1 DEF InOrder
<1> HIDE DEF more
<1>7. ASSUME NEW i \in 1 .. g + n, NEW j \in 1 .. g + n, i < j
      PROVE  more[i] < more[j]
  <2>1. CASE j <= g
    <3>1. i \in 1 .. g /\ j \in 1 .. g
      BY <1>1, <1>7, <2>1
    <3> QED BY <1>1, <1>2, <1>7, <3>1 DEF Ascends
  <2>2. CASE i <= g /\ ~ (j <= g)
    <3>1. i \in 1 .. g /\ j - g \in 1 .. n /\ j - g \in 1 .. l /\ g + (j - g) = j
      BY <1>1, <2>2
    <3>2. more[i] = got[i] /\ more[j] = ids[j - g]
      BY <1>2, <3>1
    <3> QED BY <1>3, <1>4, <3>1, <3>2
  <2>3. CASE ~ (i <= g)
    <3>1. /\ i - g \in 1 .. n /\ j - g \in 1 .. n /\ i - g \in 1 .. l /\ j - g \in 1 .. l
          /\ g + (i - g) = i /\ g + (j - g) = j /\ i - g < j - g
      BY <1>1, <1>7, <2>3
    <3>2. more[i] = ids[i - g] /\ more[j] = ids[j - g]
      BY <1>2, <3>1
    <3> QED BY <1>5, <3>1, <3>2
  <2>4. j <= g \/ (i <= g /\ ~ (j <= g)) \/ ~ (i <= g)
    OBVIOUS
  <2> QED BY <2>1, <2>2, <2>3, <2>4
<1>8. Ascends(more)
  BY <1>2, <1>7 DEF Ascends
<1>9. ToSet(more) = {more[i] : i \in 1 .. g + n} /\ ToSet(got) = {got[i] : i \in 1 .. g}
  BY <1>1, <1>2, ToSetIs
<1>10. ToSet(more) = {i \in W : i < start} \cup {ids[k] : k \in 1 .. n}
  <2>1. ASSUME NEW x \in ToSet(more)
        PROVE  x \in ToSet(got) \/ \E k \in 1 .. n : x = ids[k]
    <3>1. PICK i \in 1 .. g + n : x = more[i]
      BY <1>9
    <3>2. CASE i <= g
      <4>1. i \in 1 .. g
        BY <1>1, <3>2
      <4> QED BY <1>2, <1>9, <3>1, <4>1
    <3>3. CASE ~ (i <= g)
      <4>1. i - g \in 1 .. n /\ g + (i - g) = i
        BY <1>1, <3>3
      <4> QED BY <1>2, <3>1, <4>1
    <3> QED BY <3>2, <3>3
  <2>2. ASSUME NEW x \in ToSet(got) PROVE x \in ToSet(more)
    <3>1. PICK i \in 1 .. g : x = got[i]
      BY <1>9
    <3>2. i \in 1 .. g + n
      BY <1>1
    <3> QED BY <1>2, <1>9, <3>1, <3>2
  <2>3. ASSUME NEW k \in 1 .. n PROVE ids[k] \in ToSet(more)
    <3>1. g + k \in 1 .. g + n
      BY <1>1
    <3> QED BY <1>2, <1>9, <3>1
  <2> QED BY <2>1, <2>2, <2>3
<1>11. CASE n = l
  <2>1. ASSUME NEW x \in W PROVE x \in ToSet(more)
    <3>1. x \in Nat
      BY ByteIsNat
    <3>2. CASE x < start
      BY <1>10, <3>2
    <3>3. CASE ~ (x < start)
      <4>1. x >= start
        BY <3>1, <3>3
      <4> QED BY <1>6, <1>10, <1>11, <4>1
    <3> QED BY <3>2, <3>3
  <2>2. ToSet(more) \subseteq W
    BY <1>4, <1>10, <1>11
  <2>3. ToSet(more) = W
    BY <2>1, <2>2
  <2> QED BY <1>1, <1>2, <1>8, <1>11, <2>3 DEF Advances, more
<1>12. CASE n < l
  <2>1. n + 1 \in 1 .. l
    BY <1>1, <1>12
  <2>2. PICK next \in Nat : next = ids[n + 1] /\ start <= next
    BY <1>4, <2>1
  <2>3. ASSUME NEW x \in W, x < next PROVE x \in ToSet(more)
    <3>1. x \in Nat
      BY ByteIsNat
    <3>2. CASE x < start
      BY <1>10, <3>2
    <3>3. CASE ~ (x < start)
      <4>1. x >= start
        BY <3>1, <3>3
      <4>2. PICK k \in 1 .. l : ids[k] = x
        BY <1>6, <4>1
      <4>3. ~ (n + 1 < k) /\ k # n + 1
        <5>1. n + 1 < k => next < x
          BY <1>5, <2>1, <2>2, <4>2
        <5>2. ~ (next < x) /\ x # next
          BY <2>3, <3>1
        <5> QED BY <2>2, <4>2, <5>1, <5>2
      <4>4. k \in 1 .. n
        BY <1>1, <4>3
      <4> QED BY <1>10, <4>2, <4>4
    <3> QED BY <3>2, <3>3
  <2>4. ASSUME NEW x \in ToSet(more) PROVE x \in W /\ x < next
    <3>1. CASE x \in W /\ x < start
      <4>1. x \in Nat
        BY <3>1, ByteIsNat
      <4> QED BY <2>2, <3>1, <4>1
    <3>2. CASE \E k \in 1 .. n : x = ids[k]
      <4>1. PICK k \in 1 .. n : x = ids[k]
        BY <3>2
      <4>2. k \in 1 .. l /\ k < n + 1
        BY <1>1
      <4> QED BY <1>4, <1>5, <2>1, <2>2, <4>1, <4>2
    <3> QED BY <1>10, <3>1, <3>2
  <2>5. ToSet(more) = {i \in W : i < ids[n + 1]}
    BY <2>2, <2>3, <2>4
  <2>6. n # l
    BY <1>1, <1>12
  <2> QED BY <1>1, <1>2, <1>8, <2>5, <2>6 DEF Advances, more
<1> QED BY <1>1, <1>11, <1>12

\* What is left of the objects from some object on.
LEMMA LeftFrom ==
    ASSUME NEW table, IsTable(table), NEW code \in 1 .. 4, NEW first \in Nat,
           NEW start \in Nat, first <= start, code = 4 => start = first
    PROVE  Selected(code, start, table) = {i \in Selected(code, first, table) : i >= start}
<1>1. Selected(code, start, table) \subseteq Nat /\ Selected(code, first, table) \subseteq Nat
  BY SelectedFacts, ByteIsNat
<1>2. Allowed(code, start) = Allowed(code, first)
  <2>1. code \in {1, 2, 3, 4}
    OBVIOUS
  <2> QED BY <2>1 DEF Allowed
<1>3. Selected(code, start, table)
        = {i \in DOMAIN table : i \in Allowed(code, first) /\ i >= start}
  BY <1>2 DEF Selected
<1>4. Selected(code, first, table)
        = {i \in DOMAIN table : i \in Allowed(code, first) /\ i >= first}
  BY DEF Selected
<1>5. ASSUME NEW i \in Nat, i >= start PROVE i >= first
  BY <1>5
<1> QED BY <1>1, <1>3, <1>4, <1>5

\* The next request of a walk.
LEMMA NextIsValid ==
    ASSUME NEW q, Valid(q), q.fc = 43, NEW next \in Byte
    PROVE  LET r == [q EXCEPT !.fields[2] = next]
           IN  Valid(r) /\ r.fc = 43 /\ r.fields[1] = q.fields[1] /\ r.fields[2] = next
<1> DEFINE r == [q EXCEPT !.fields[2] = next]
<1>1. /\ q = Request("standard", q.fc, q.fields, q.values) /\ q.fields \in Seq(Word)
      /\ Len(q.fields) = 2 /\ q.values = <<>>
  <2>1. /\ q = Request("standard", q.fc, q.fields, q.values) /\ q.fields \in Seq(Word)
        /\ Len(q.fields) = FieldCount(q.fc)
    BY ValidFacts
  <2>2. FieldCount(43) = 2
    BY CodeNumbers DEF FieldCount
  <2>3. q.values = <<>>
    <3>1. 43 \notin {WriteSingleCoil, WriteMultipleCoils, WriteMultipleRegisters,
                     ReadWriteMultipleRegisters}
      BY CodeNumbers
    <3> QED BY <3>1 DEF Valid, IsRequest
  <2> QED BY <2>1, <2>2, <2>3
<1>2. q.fields[1] \in 1 .. 4
  BY AskedFor
<1>3. PICK f : f = [q.fields EXCEPT ![2] = next]
  OBVIOUS
<1>4. r = Request("standard", q.fc, f, q.values)
  BY <1>1, <1>3, SMTT(30) DEF Request
<1>5. next \in Word
  BY ByteIs, WordIs
<1>6. f \in Seq(Word) /\ Len(f) = 2 /\ DOMAIN f = 1 .. 2 /\ f[1] = q.fields[1] /\ f[2] = next
  BY <1>1, <1>3, <1>5
<1>7. r.by = "standard" /\ r.fc = 43 /\ r.fields = f /\ r.values = <<>>
  BY <1>1, <1>4 DEF Request
<1> HIDE DEF r
<1>8. f \in Seq(Int) /\ <<>> \in Seq(Int) /\ DOMAIN <<>> = {}
  BY <1>6, WordsAreInts
<1>9. IsRequest(r)
  <2>1. r = Request(r.by, r.fc, r.fields, r.values)
    BY <1>1, <1>4, <1>7
  <2>2. FieldCount(43) = 2
    BY CodeNumbers DEF FieldCount
  <2> QED BY <1>6, <1>7, <1>8, <2>1, <2>2, CodeNumbers DEF IsRequest
<1>10. PostInit(r)
  <2>1. AreWords(r.fields)
    <3>1. \A i \in DOMAIN f : f[i] \in Word
      BY <1>6, SeqElement
    <3> QED BY <1>7, <3>1 DEF AreWords
  <2>2. AreWords(r.values)
    BY <1>7, <1>8 DEF AreWords
  <2>3. r.fields[1] \in 1 .. 4 /\ r.fields[2] \in Byte
    BY <1>2, <1>6, <1>7
  <2> QED BY <1>7, <2>1, <2>2, <2>3, CodeNumbers DEF PostInit
<1> QED BY <1>6, <1>7, <1>9, <1>10 DEF Valid, r

\* What a walk gets: the page that was asked for, or, for a single object that the
\* device does not have, an exception.
LEMMA WalkAnswer ==
    ASSUME IInv, pc = "answered", session.kind = "walk"
    PROVE  LET res == HelperReturns(request, Executed)
               ids == Select(request.fields[1], request.fields[2], session.table)
           IN  \/ /\ res.outcome # "ok"
                  /\ request.fields[1] = 4 /\ request.fields[2] \notin DOMAIN session.table
               \/ /\ res = Decoded(answer)
                  /\ IsIdentification(answer, request, ids, Fit(ids, session.table),
                                      session.table)
<1> DEFINE res == HelperReturns(request, Executed)
           ids == Select(request.fields[1], request.fields[2], session.table)
<1>1. /\ IsTable(session.table) /\ frame = sent /\ request.by = "standard"
      /\ answer = Identification(request, session.table)
  BY SessionFacts DEF IInv, Asking, OnItsWayBack, Walking, Valid
<1>2. AnswerIs(res)
  BY <1>1, WholeAnswerArrives
<1> HIDE DEF res
<1>3. CASE request.fields[1] = 4 /\ request.fields[2] \notin DOMAIN session.table
  <2>1. answer = ExceptionResponse(request.fc, 2)
    BY <1>1, <1>3, IdentificationIs
  <2>2. answer.kind = "exception"
    BY <2>1 DEF ExceptionResponse, Response
  <2>3. res.outcome = "ModbusExceptionResponseError"
    BY <1>1, <1>2, <2>2 DEF AnswerIs
  <2> QED BY <1>3, <2>3 DEF res
<1>4. CASE ~ (request.fields[1] = 4 /\ request.fields[2] \notin DOMAIN session.table)
  <2>1. IsIdentification(answer, request, ids, Fit(ids, session.table), session.table)
    BY <1>1, <1>4, IdentificationIs
  <2>2. answer.kind = "normal"
    BY <2>1 DEF IsIdentification
  <2>3. res = Decoded(answer)
    BY <1>1, <1>2, <2>2 DEF AnswerIs
  <2> QED BY <2>1, <2>3 DEF res
<1> QED BY <1>3, <1>4

\* An object that the device does not have is not wanted, and none is received.
LEMMA NoneIsWanted ==
    ASSUME IInv, pc = "answered", session.kind = "walk",
           request.fields[1] = 4, request.fields[2] \notin DOMAIN session.table
    PROVE  ToSet(received) = Wanted
<1>1. /\ request.fields[1] = session.request.fields[1]
      /\ request.fields[2] = session.request.fields[2]
      /\ ToSet(received) = {i \in Wanted : i < request.fields[2]}
  BY DEF IInv, Walking
<1>2. Wanted = {}
  <2>1. Wanted = {i \in DOMAIN session.table :
                     i \in Allowed(4, request.fields[2]) /\ i >= request.fields[2]}
    BY <1>1 DEF Wanted, Selected
  <2>2. Allowed(4, request.fields[2]) = {request.fields[2]}
    BY DEF Allowed
  <2> QED BY <2>1, <2>2
<1> QED BY <1>1, <1>2

\* A page that is received brings a walk forward.
LEMMA PageIsReceived ==
    ASSUME IInv, pc = "answered", session.kind = "walk",
           NEW ids, ids = Select(request.fields[1], request.fields[2], session.table),
           NEW n, IsIdentification(answer, request, ids, n, session.table)
    PROVE  /\ ids \in Seq(Byte) /\ n \in 0 .. Len(ids)
           /\ Advances(Wanted, ids, n, received \o Ids(answer))
           /\ n < Len(ids) =>
                /\ session.request.fields[2] <= ids[n + 1]
                /\ request.fields[1] = 4 => ids[n + 1] = session.request.fields[2]
<1>1. /\ session \in Session /\ Valid(request) /\ request.fc = 43
      /\ request.fields[1] = session.request.fields[1]
      /\ received \in Seq(Byte) /\ Ascends(received)
      /\ session.request.fields[2] <= request.fields[2]
      /\ request.fields[1] = 4 => request.fields[2] = session.request.fields[2]
      /\ ToSet(received) = {i \in Wanted : i < request.fields[2]}
  BY DEF IInv, Asking, Walking
<1>2. IsTable(session.table) /\ Valid(session.request) /\ session.request.fc = 43
  BY <1>1, SessionFacts
<1>3. PICK first \in Nat, start \in Nat, code \in 1 .. 4 :
         /\ first = session.request.fields[2] /\ start = request.fields[2]
         /\ code = request.fields[1] /\ code = session.request.fields[1]
  <2>1. request.fields[2] \in Nat /\ request.fields[1] \in 1 .. 4
    BY <1>1, AskedFor
  <2>2. session.request.fields[2] \in Nat
    BY <1>2, AskedFor
  <2> QED BY <1>1, <2>1, <2>2
<1>4. first <= start /\ (code = 4 => start = first)
  BY <1>1, <1>3
<1>5. Selected(code, start, session.table)
        = {i \in Selected(code, first, session.table) : i >= start}
  BY <1>2, <1>4, LeftFrom
<1>6. Wanted = Selected(code, first, session.table) /\ Wanted \in SUBSET Byte
  BY <1>2, <1>3, SelectedFacts DEF Wanted
<1>7. InOrder(ids, {i \in Wanted : i >= start})
  BY <1>2, <1>3, <1>5, <1>6, SelectIsInOrder
<1>8. ids \in Seq(Byte) /\ Known(ids, session.table)
  BY <1>2, SelectIsKnown
<1>9. n \in 0 .. Len(ids) /\ answer.values = Page(ids, session.table, n)
  BY DEF IsIdentification
<1>10. Ids(answer) \in Seq(Byte) /\ Len(Ids(answer)) = n
       /\ \A k \in 1 .. n : Ids(answer)[k] = ids[k]
  <2>1. /\ DOMAIN answer.values = 1 .. n
        /\ \A i \in 1 .. n : answer.values[i].id = ids[i]
    BY <1>8, <1>9, PageFacts
  <2>2. Ids(answer) = [i \in 1 .. n |-> answer.values[i].id]
    BY <2>1 DEF Ids
  <2>3. n \in Nat /\ \A i \in 1 .. n : ids[i] \in Byte
    <3>1. n \in Nat /\ 1 .. n \subseteq 1 .. Len(ids)
      BY <1>8, <1>9, LenProperties
    <3> QED BY <1>8, <3>1, SeqElement
  <2>4. Ids(answer) \in [1 .. n -> Byte] /\ \A k \in 1 .. n : Ids(answer)[k] = ids[k]
    BY <2>1, <2>2, <2>3
  <2> QED BY <2>3, <2>4, FunctionIsSeq
<1>11. Advances(Wanted, ids, n, received \o Ids(answer))
  <2>1. ToSet(received) = {i \in Wanted : i < start}
    BY <1>1, <1>3
  <2> QED BY <1>1, <1>6, <1>7, <1>8, <1>9, <1>10, <2>1, PageAdvances
<1>12. ASSUME n < Len(ids)
       PROVE  first <= ids[n + 1] /\ (code = 4 => ids[n + 1] = first)
  <2>1. n + 1 \in 1 .. Len(ids)
    BY <1>8, <1>9, <1>12, LenProperties
  <2>2. ids[n + 1] \in Selected(code, start, session.table)
    BY <1>5, <1>6, <1>7, <2>1, SeqElement DEF InOrder
  <2>3. ids[n + 1] \in Nat
    BY <1>8, <2>1, SeqElement, ByteIsNat
  <2>4. start <= ids[n + 1]
    BY <1>3, <2>2, <2>3 DEF Selected
  <2>5. code = 4 => ids[n + 1] = start
    <3>1. Allowed(4, start) = {start}
      BY DEF Allowed
    <3> QED BY <2>2, <3>1 DEF Selected
  <2>6. PICK next \in Nat : next = ids[n + 1]
    BY <2>3
  <2> QED BY <1>4, <2>4, <2>5, <2>6
<1> QED BY <1>3, <1>8, <1>9, <1>11, <1>12

\* What AnswerArrives says once the result is there.
LEMMA ArrivedAnswer ==
    ASSUME IInv, pc = "answered", request'.by = request.by,
           request' = request \/ request.by = "standard",
           UNCHANGED <<session, attempts, frame, answer, sent>>,
           result' = HelperReturns(request, Executed)
    PROVE  AnswerArrives'
<1> SUFFICES ASSUME frame' = sent' PROVE AnswerArrives'
  BY DEF AnswerArrives
<1>1. AnswerIs(result')
  BY WholeAnswerArrives
<1>2. CASE request.by = "standard"
  <2>1. Refuses(answer, request) \/ IsAnswer(answer, request)
    BY <1>2 DEF IInv, OnItsWayBack, Suits
  <2>2. answer.kind = "normal" \/ answer.kind = "exception"
    BY <2>1, AnswerIsEcho DEF Refuses, ExceptionResponse, Response
  <2> QED BY <1>1, <1>2, <2>2 DEF AnswerIs, AnswerArrives
<1>3. CASE request.by # "standard" /\ request' = request
  BY <1>1, <1>3 DEF AnswerIs, AnswerArrives, FirstDecoder, Shadows
<1> QED BY <1>2, <1>3

\* It is kept when the caller gets a result, and asks for the next page.
LEMMA ReturnKeeps ==
    ASSUME IInv, Return
    PROVE  IInv'
<1>1. /\ pc = "answered" /\ result' = HelperReturns(request, Executed)
      /\ UNCHANGED <<session, attempts, request_decoders, response_decoders, frame,
                     arrived, answer, sent, flips>>
  BY DEF Return, registry
<1>2. Registry /\ Asking /\ Line /\ OnItsWayBack /\ Walking
  BY DEF IInv
<1>3. Registry'
  BY <1>1, <1>2 DEF Registry
<1>4. result'.outcome \in Outcomes
  <2>1. frame \in Seq(Byte)
    BY <1>2 DEF Line
  <2>2. \A res : IsExecuted(res) => HelperReturns(request, res).outcome \in Outcomes
    BY ResultOutcome
  <2>3. IsExecuted(Executed)
    BY <2>1, ExecutedIs
  <2> QED BY <1>1, <2>2, <2>3
<1>5. CASE session.kind # "walk"
  <2>1. pc' = "done" /\ request' = request /\ received' = received
    BY <1>5 DEF Return
  <2>2. Asking' /\ Line' /\ OnItsWay' /\ OnItsWayBack' /\ Walking'
    BY <1>1, <1>2, <1>4, <1>5, <2>1 DEF Asking, Line, OnItsWay, OnItsWayBack, Walking
  <2>3. AnswerArrives'
    BY <1>1, <2>1, ArrivedAnswer
  <2>4. ForeignAnswerFits'
    <3>1. CASE Valid(request)
      BY <1>1, <1>2, <2>1, <3>1, ResultFits DEF Line
    <3>2. CASE ~ Valid(request)
      <4>1. request.by # "standard" \/ session.kind = "foreign_request"
        BY <1>1, <1>2, <3>2 DEF Asking, Valid
      <4> QED BY <1>1, <2>1, <4>1 DEF ForeignAnswerFits
    <3> QED BY <3>1, <3>2
  <2> QED BY <1>3, <2>2, <2>3, <2>4 DEF IInv
<1>6. CASE session.kind = "walk"
  <2> DEFINE ids == Select(request.fields[1], request.fields[2], session.table)
             n == Fit(ids, session.table)
  <2>1. /\ Valid(request) /\ request.fc = 43 /\ request.by = "standard"
        /\ request.fields[1] = session.request.fields[1]
        /\ received \in Seq(Byte) /\ Ascends(received)
    BY <1>2, <1>6 DEF Walking, Valid
  <2>2. ForeignAnswerFits' /\ Wanted' = Wanted
    BY <1>1, <1>6 DEF ForeignAnswerFits, Wanted
  <2>3. CASE result'.outcome # "ok"
    <3>1. pc' = "done" /\ request' = request /\ received' = received
      BY <2>3 DEF Return
    <3>2. request.fields[1] = 4 /\ request.fields[2] \notin DOMAIN session.table
      <4>1. ~ (result' = Decoded(answer))
        BY <2>3 DEF Decoded
      <4> QED BY <1>1, <1>6, <4>1, WalkAnswer
    <3>3. ToSet(received) = Wanted
      BY <1>1, <1>6, <3>2, NoneIsWanted
    <3>4. Walking'
      BY <1>1, <2>1, <2>2, <3>1, <3>3 DEF Walking
    <3>5. Asking' /\ Line' /\ OnItsWay' /\ OnItsWayBack'
      BY <1>1, <1>2, <1>4, <3>1 DEF Asking, Line, OnItsWay, OnItsWayBack
    <3>6. AnswerArrives'
      BY <1>1, <3>1, ArrivedAnswer
    <3> QED BY <1>3, <2>2, <3>4, <3>5, <3>6 DEF IInv
  <2>4. CASE result'.outcome = "ok"
    <3>1. /\ result' = Decoded(answer)
          /\ IsIdentification(answer, request, ids, n, session.table)
      BY <1>1, <1>6, <2>4, WalkAnswer
    <3>2. /\ ids \in Seq(Byte) /\ n \in 0 .. Len(ids)
          /\ Advances(Wanted, ids, n, received \o Ids(answer))
          /\ n < Len(ids) =>
               /\ session.request.fields[2] <= ids[n + 1]
               /\ request.fields[1] = 4 => ids[n + 1] = session.request.fields[2]
      <4> HIDE DEF n
      <4> QED BY <1>1, <1>6, <3>1, PageIsReceived
    <3>3. answer.fields[3] = (IF n < Len(ids) THEN 1 ELSE 0)
          /\ answer.fields[4] = NextObjectId(ids, n)
      <4> HIDE DEF ids, n
      <4> QED BY <3>1, SMTT(40) DEF IsIdentification
    <3> HIDE DEF ids, n
    <3>4. /\ received' = received \o Ids(answer)
          /\ IF answer.fields[3] = 1
               THEN /\ pc' = "again"
                    /\ request' = [request EXCEPT !.fields[2] = answer.fields[4]]
               ELSE pc' = "done" /\ request' = request
      BY <1>6, <2>4, <3>1 DEF Return, Decoded
    <3>5. received' \in Seq(Byte) /\ Ascends(received')
      BY <3>2, <3>4 DEF Advances
    <3>6. CASE n < Len(ids)
      <4>1. PICK next \in Byte : next = ids[n + 1]
        <5>1. n + 1 \in 1 .. Len(ids)
          BY <3>2, <3>6, LenProperties
        <5> QED BY <3>2, <5>1, SeqElement
      <4>2. answer.fields[3] = 1 /\ answer.fields[4] = next
        BY <3>3, <3>6, <4>1 DEF NextObjectId
      <4>3. pc' = "again" /\ request' = [request EXCEPT !.fields[2] = next]
        BY <3>4, <4>2
      <4>4. /\ Valid(request') /\ request'.fc = 43 /\ request'.fields[2] = next
            /\ request'.fields[1] = request.fields[1]
        BY <2>1, <4>3, NextIsValid
      <4>5. ToSet(received') = {i \in Wanted : i < next}
        BY <3>2, <3>4, <3>6, <4>1 DEF Advances
      <4>6. /\ session.request.fields[2] <= next
            /\ request.fields[1] = 4 => next = session.request.fields[2]
        BY <3>2, <3>6, <4>1
      <4>7. Walking'
        BY <1>1, <2>1, <2>2, <3>5, <4>3, <4>4, <4>5, <4>6 DEF Walking
      <4>8. Asking' /\ Line' /\ OnItsWay' /\ OnItsWayBack'
        BY <1>1, <1>2, <1>4, <1>6, <4>3, <4>4
           DEF Asking, Line, OnItsWay, OnItsWayBack, Valid
      <4>9. AnswerArrives'
        <5>1. request'.by = request.by
          BY <2>1, <4>4 DEF Valid
        <5> QED BY <1>1, <2>1, <5>1, ArrivedAnswer
      <4> QED BY <1>3, <2>2, <4>7, <4>8, <4>9 DEF IInv
    <3>7. CASE ~ (n < Len(ids))
      <4>1. n = Len(ids)
        BY <3>2, <3>7, LenProperties
      <4>2. pc' = "done" /\ request' = request
        BY <3>3, <3>4, <3>7
      <4>3. ToSet(received') = Wanted
        BY <3>2, <3>4, <4>1 DEF Advances
      <4>4. Walking'
        BY <1>1, <2>1, <2>2, <3>5, <4>2, <4>3 DEF Walking
      <4>5. Asking' /\ Line' /\ OnItsWay' /\ OnItsWayBack'
        BY <1>1, <1>2, <1>4, <4>2 DEF Asking, Line, OnItsWay, OnItsWayBack
      <4>6. AnswerArrives'
        BY <1>1, <4>2, ArrivedAnswer
      <4> QED BY <1>3, <2>2, <4>4, <4>5, <4>6 DEF IInv
    <3> QED BY <3>6, <3>7
  <2> QED BY <2>3, <2>4
<1> QED BY <1>5, <1>6

\* IInv is inductive.
LEMMA StepKeeps == IInv /\ [Next]_vars => IInv'
<1> SUFFICES ASSUME IInv, [Next]_vars PROVE IInv'
  OBVIOUS
<1>1. ASSUME NEW of \in {"request", "response"}, NEW code \in Code, NEW decoder \in Decoder,
             Register(of, code, decoder)
      PROVE  IInv'
  BY <1>1, RegisterKeeps
<1>2. CASE Call
  BY <1>2, CallKeeps
<1>3. CASE ForeignRequest
  BY <1>3, ForeignRequestKeeps
<1>4. CASE Serve
  BY <1>4, ServeKeeps
<1>5. CASE ForeignAnswer
  BY <1>5, ForeignAnswerKeeps
<1>6. CASE Answer
  BY <1>6, AnswerKeeps
<1>7. CASE Noise
  BY <1>7, NoiseKeeps
<1>8. CASE Return
  BY <1>8, ReturnKeeps
<1>9. CASE UNCHANGED vars
  <2>1. /\ UNCHANGED <<session, attempts, request_decoders, response_decoders, pc, request,
                       frame, arrived, answer, sent, flips, result, received>>
        /\ Registry /\ Asking /\ Line /\ OnItsWay /\ OnItsWayBack /\ Walking
        /\ AnswerArrives /\ ForeignAnswerFits
    BY <1>9 DEF vars, registry, IInv
  <2>2. Registry' /\ Asking' /\ Line'
    BY <2>1 DEF Registry, Asking, Line
  <2>3. OnItsWay' /\ OnItsWayBack'
    BY <2>1 DEF OnItsWay, OnItsWayBack, Framed
  <2>4. Walking'
    BY <2>1 DEF Walking, Wanted
  <2>5. AnswerArrives' /\ ForeignAnswerFits'
    BY <2>1 DEF AnswerArrives, ForeignAnswerFits, FirstDecoder, Taken
  <2> QED BY <2>2, <2>3, <2>4, <2>5 DEF IInv
<1> QED BY <1>1, <1>2, <1>3, <1>4, <1>5, <1>6, <1>7, <1>8, <1>9 DEF Next

\* What is always so of the registry, the request, the bytes on the line in both
\* directions and the objects a walk has received.
THEOREM ExchangeInvariant == Spec => []IInv
BY InitKeeps, StepKeeps, PTL DEF Spec

-----------------------------------------------------------------------------
(***************************************************************************)
(* The properties.                                                         *)
(***************************************************************************)
\* A request that the server has decoded is valid, and says what the bytes do.
LEMMA DecodedSays ==
    ASSUME NEW pdu, IsPDU(pdu), NEW a, DecodesTo(pdu, a), a.outcome = "ok"
    PROVE  PostInit(a.pdu) /\ Says(pdu, a.pdu)
<1>1. ASSUME NEW q, a = Decoded(q), Valid(q), SaysOfBytes(pdu, q)
      PROVE  PostInit(a.pdu) /\ Says(pdu, a.pdu)
  <2>1. a.pdu = q
    BY <1>1 DEF Decoded
  <2>2. CASE q.fc = WriteMultipleCoils
    <3>1. /\ SubSeq(EncodeRequest(q), 1, 5) = SubSeq(pdu, 1, 5) /\ pdu[6] = Len(pdu) - 6
          /\ \A i \in DOMAIN q.values :
                q.values[i] = Bit(pdu[7 + ((i - 1) \div 8)], ((i - 1) % 8) + 1)
      BY <1>1, <2>2 DEF SaysOfBytes
    <3>2. ASSUME NEW i \in DOMAIN q.values PROVE q.values[i] = BitAfter(pdu, 6, i)
      BY <3>1 DEF BitAfter
    <3> QED BY <1>1, <2>1, <2>2, <3>1, <3>2 DEF Says, Valid
  <2>3. CASE q.fc # WriteMultipleCoils
    BY <1>1, <2>1, <2>3 DEF SaysOfBytes, Says, Valid
  <2> QED BY <2>2, <2>3
<1>2. ASSUME pdu # <<>>, NEW by \in Decoder,
             a = Decoded(Request(by, Head(pdu), <<>>, Tail(pdu)))
      PROVE  PostInit(a.pdu) /\ Says(pdu, a.pdu)
  <2>1. by # "standard"
    BY DecoderAssumption
  <2>2. pdu = <<Head(pdu)>> \o Tail(pdu)
    BY <1>2, FirstAndRest DEF IsPDU
  <2> DEFINE q == Request(by, Head(pdu), <<>>, Tail(pdu))
  <2>3. a.pdu = q /\ q.by = by /\ q.fc = Head(pdu) /\ q.values = Tail(pdu)
    BY <1>2 DEF Decoded, Request
  <2> HIDE DEF q
  <2>4. EncodeRequest(q) = pdu
    BY <2>1, <2>2, <2>3 DEF EncodeRequest
  <2> QED BY <2>1, <2>3, <2>4 DEF PostInit, Says
<1> QED BY <1>1, <1>2 DEF DecodesTo, Raises

\* For any requests, registrations, answers of devices and bytes of other peers,
\* the types are right, and what client and server of this library send each other
\* fits a PDU of 253 bytes.
THEOREM TypeCorrect == Spec => []TypeOK
<1>1. IInv => TypeOK
  <2> SUFFICES ASSUME IInv PROVE TypeOK
    OBVIOUS
  <2>1. Registry /\ Line /\ session \in Session
    BY DEF IInv, Asking
  <2>2. \A i \in DOMAIN frame : frame[i] \in Byte
    BY <2>1, SeqElement DEF Line
  <2>3. DOMAIN request_decoders \cup DOMAIN response_decoders \subseteq 0 .. 127
    BY <2>1 DEF Registry, Knows
  <2>4. session.kind \in {"call", "walk"} => Len(frame) <= 7 + 253
    <3>1. 7 + 253 = 260
      OBVIOUS
    <3> QED BY <2>1, <3>1 DEF Line
  <2>5. session.link = "rtu" => Len(sent) <= 256
    BY <2>1 DEF Line
  <2> QED BY <2>1, <2>2, <2>3, <2>4, <2>5 DEF Line, TypeOK
<1> QED BY <1>1, ExchangeInvariant, PTL

\* What the server decodes is what the caller asked for, whatever decoders are
\* registered, and a custom request reaches the first decoder registered for it.
THEOREM RequestArrivesAlways == Spec => []RequestArrives
<1>1. IInv => RequestArrives
  <2> SUFFICES ASSUME IInv, session.kind \in {"call", "walk"}, pc = "answered"
               PROVE  RequestArrives
    BY DEF RequestArrives
  <2>1. /\ IsRequest(request) /\ PostInit(request)
        /\ arrived = DecodeRequest(EncodeRequest(request), request_decoders)
        /\ Knows(attempts, "request", request_decoders)
    BY DEF IInv, Asking, OnItsWayBack, Registry
  <2>2. CASE request.by = "standard"
    <3>1. arrived = Decoded(request)
      BY <2>1, <2>2, RequestComesBack DEF Valid
    <3> QED BY <2>2, <3>1 DEF RequestArrives
  <2>3. CASE request.by # "standard" /\ Shadows(request)
    <3>1. IsPDU(EncodeRequest(request))
      BY <2>1, RequestIsSent, SendableIsPDU
    <3>2. DecodesTo(EncodeRequest(request), arrived)
      BY <2>1, <3>1, ServerDecodes
    <3>3. arrived.outcome = "ok" => Says(EncodeRequest(request), arrived.pdu)
      BY <3>1, <3>2, DecodedSays
    <3> QED BY <2>3, <3>3 DEF RequestArrives
  <2>4. CASE request.by # "standard" /\ ~ Shadows(request)
    <3> DEFINE pdu == EncodeRequest(request)
               decoder == FirstDecoder("request", request.fc)
    <3>1. /\ request.fc \in 0 .. 127 /\ request.fc \in Byte
          /\ request.values \in Seq(Byte) /\ pdu = <<request.fc>> \o request.values
      BY <2>1, <2>4, CustomFacts
    <3>2. pdu # <<>> /\ Head(pdu) = request.fc /\ Tail(pdu) = request.values
      BY <3>1, Prepending
    <3>3. ~ IsStandard(Head(pdu), Tail(pdu))
      BY <2>1, <2>4, TakenForStandard
    <3> HIDE DEF pdu
    <3>4. arrived = IF request.fc \in DOMAIN request_decoders
                      THEN Decoded(Request(request_decoders[request.fc], request.fc, <<>>,
                                           request.values))
                      ELSE Raises("ModbusPDUError")
      <4>1. arrived = DecodeRequest(pdu, request_decoders)
        BY <2>1 DEF pdu
      <4> QED BY <3>2, <3>3, <4>1, OtherDecoding
    <3>5. /\ request.fc \in DOMAIN request_decoders =>
               decoder = request_decoders[request.fc] /\ decoder # "none"
          /\ request.fc \notin DOMAIN request_decoders => decoder = "none"
      BY <2>1, <3>1, RegisteredFirst
    <3>6. arrived = IF decoder = "none" THEN Raises("ModbusPDUError")
                    ELSE Decoded(Request(decoder, request.fc, <<>>, request.values))
      <4> HIDE DEF decoder
      <4> QED BY <3>4, <3>5
    <3> QED BY <2>4, <3>6 DEF RequestArrives
  <2> QED BY <2>2, <2>3, <2>4
<1> QED BY <1>1, ExchangeInvariant, PTL

\* A frame that arrives as a device has sent it is understood: the caller gets the
\* values, the echo, the objects or the exception of the response.
THEOREM AnswerArrivesAlways == Spec => []AnswerArrives
<1>1. IInv => AnswerArrives
  BY DEF IInv
<1> QED BY <1>1, ExchangeInvariant, PTL

\* Whatever bytes another device sends, a result that is returned fits the request
\* and says what the bytes say.
THEOREM ForeignAnswerFitsAlways == Spec => []ForeignAnswerFits
<1>1. IInv => ForeignAnswerFits
  BY DEF IInv
<1> QED BY <1>1, ExchangeInvariant, PTL

\* The client takes the whole frame of every answer, and no byte of the next one.
THEOREM FrameIsTakenWholeAlways == Spec => []FrameIsTakenWhole
<1>1. IInv => FrameIsTakenWhole
  <2> SUFFICES ASSUME IInv, pc = "answered", frame = sent,
                      session.link = "rtu" => request.by = "standard"
               PROVE  Taken = Len(frame)
    BY DEF FrameIsTakenWhole
  <2>1. /\ session \in Session /\ IsRequest(request) /\ PostInit(request)
        /\ sent = Framed(EncodeResponse(answer)) /\ Sendable(EncodeResponse(answer))
        /\ Suits(answer, request)
    BY DEF IInv, Asking, OnItsWayBack
  <2>2. session.link # "tcp" => Whole(answer, request)
    BY <2>1, SessionFacts DEF Suits, Whole
  <2> QED BY <2>1, <2>2, TakenWhole
<1> QED BY <1>1, ExchangeInvariant, PTL

\* Over all the responses to a walk, every object that is wanted is received once,
\* in the order of the ids.
THEOREM EveryObjectOnceAlways == Spec => []EveryObjectOnce
<1>1. IInv => EveryObjectOnce
  <2> SUFFICES ASSUME IInv, session.kind = "walk" PROVE EveryObjectOnce
    BY DEF EveryObjectOnce
  <2> DEFINE code == request.fields[1]
             first == session.request.fields[2]
             wanted == {i \in DOMAIN session.table :
                           i >= first /\ i \in CASE code = 1 -> 0 .. 2
                                                 [] code = 2 -> 0 .. 127
                                                 [] code = 3 -> 0 .. 255
                                                 [] OTHER -> {first}}
  <2>1. /\ request.fields[1] = session.request.fields[1]
        /\ received \in Seq(Byte) /\ Ascends(received)
        /\ pc = "done" => ToSet(received) = Wanted
        /\ pc # "done" => ToSet(received) = {i \in Wanted : i < request.fields[2]}
    BY DEF IInv, Walking
  <2>2. wanted = Wanted
    BY <2>1 DEF Wanted, Selected, Allowed
  <2>3. \A i, j \in DOMAIN received : i < j => received[i] < received[j]
    <3>1. DOMAIN received = 1 .. Len(received)
      BY <2>1
    <3> QED BY <2>1, <3>1 DEF Ascends
  <2>4. ToSet(received) \subseteq wanted
    BY <2>1, <2>2
  <2>5. pc = "again" => ToSet(received) = {i \in wanted : i < request.fields[2]}
    BY <2>1, <2>2
  <2> QED BY <2>1, <2>2, <2>3, <2>4, <2>5 DEF EveryObjectOnce
<1> QED BY <1>1, ExchangeInvariant, PTL

\* Every request that a client sends on a serial line leaves nothing when its
\* bits are divided as the standard of the CRC has it: crc16_modbus, by table
\* and byte, computes what other devices do.
THEOREM CrcIsRemainderAlways == Spec => []CrcIsRemainder
<1>1. IInv => CrcIsRemainder
  <2> SUFFICES ASSUME IInv, session.link = "rtu", pc = "requested"
               PROVE  CrcIsRemainder
    BY DEF CrcIsRemainder
  <2>1. Asking /\ Line /\ OnItsWay
    BY DEF IInv
  <2>2. session.kind # "foreign_request"
    BY <2>1, SessionFacts DEF Asking
  <2>3. PICK pdu \in Seq(Byte) : pdu = EncodeRequest(request) /\ IsPDU(pdu)
    BY <2>1, <2>2, RequestIsSent, SendableIsPDU DEF Asking, Sendable
  <2>4. PICK m \in Seq(Byte) : m = <<Unit>> \o pdu /\ frame = m \o CrcBytes(m)
    <3>1. <<Unit>> \in Seq(Byte)
      BY ByteIs DEF Unit
    <3>2. <<Unit>> \o pdu \in Seq(Byte)
      BY <3>1, Concatenation
    <3> QED BY <2>1, <2>2, <2>3, <3>2 DEF OnItsWay, Framed, RtuFrame
  <2>5. frame \in Seq(Byte) /\ Len(frame) >= 2
    <3>1. CrcBytes(m) \in Seq(Byte) /\ Len(CrcBytes(m)) = 2 /\ Len(m) \in Nat
      BY CrcBytesFacts, LenProperties
    <3> QED BY <2>1, <2>4, <3>1, Concatenation DEF Line
  <2>6. crc16_modbus(frame) = 0
    BY <2>4, CrcOfFrame
  <2> QED BY <2>5, <2>6, FrameIsDivisible DEF CrcIsRemainder, Wire
<1> QED BY <1>1, ExchangeInvariant, PTL

\* What is taken from a serial line for an answer has its CRC.
LEMMA AcceptedIsIntact ==
    ASSUME frame \in Seq(Byte), session.link # "tcp", Taken = Len(frame),
           HelperReturns(request, Executed).outcome \in {"ok", "ModbusExceptionResponseError"}
    PROVE  crc16_modbus(frame) = 0 /\ Len(frame) >= 4
<1>1. PICK l \in Nat : l = Len(frame) /\ l = Taken
  BY LenProperties
<1>2. SubSeq(frame, 1, Taken) = frame
  BY SubSeqFull
<1> DEFINE found == RtuPdu(frame, Unit)
<1>3. Executed = IF found.outcome = "ok"
                   THEN DecodeResponse(found.pdu, request, response_decoders)
                   ELSE found
  <2>1. ~ (Taken > Len(frame))
    BY <1>1
  <2> QED BY <1>2, <2>1 DEF Executed
<1> HIDE DEF found
<1>4. ASSUME NEW e \in {"ModbusFrameError", "ModbusCRCError"} PROVE found # Raises(e)
  <2> SUFFICES ASSUME found = Raises(e) PROVE FALSE
    OBVIOUS
  <2>1. found.outcome = e /\ e # "ok"
    BY DEF Raises
  <2>2. Executed.outcome = e
    BY <1>3, <2>1
  <2>3. HelperReturns(request, Executed) = Executed
    BY <2>1, <2>2 DEF HelperReturns
  <2> QED BY <2>2, <2>3
<1>5. l >= 4 /\ From(frame, l - 1) = CrcBytes(SubSeq(frame, 1, l - 2))
  <2>1. l < 4 => found = Raises("ModbusFrameError")
    BY <1>1 DEF found, RtuPdu
  <2>2. l >= 4
    BY <1>4, <2>1
  <2>3. From(frame, l - 1) # CrcBytes(SubSeq(frame, 1, l - 2)) => found = Raises("ModbusCRCError")
    BY <1>1, <2>2 DEF found, RtuPdu
  <2> QED BY <1>4, <2>2, <2>3
<1>6. PICK n \in 0 .. Len(frame) : n = l - 2 /\ n + 1 = l - 1
  BY <1>1, <1>5
<1>7. PICK m \in Seq(Byte) : m = SubSeq(frame, 1, n)
  BY PrefixFacts
<1>8. frame = m \o CrcBytes(m)
  <2>1. frame = SubSeq(frame, 1, n) \o From(frame, n + 1)
    BY Split
  <2> QED BY <1>5, <1>6, <1>7, <2>1, Zenon
<1>9. crc16_modbus(m \o CrcBytes(m)) = 0
  BY CrcOfFrame
<1> QED BY <1>1, <1>5, <1>8, <1>9, Zenon

\* What is sent on a serial line has its CRC.
LEMMA SentIsIntact ==
    ASSUME NEW pdu, Sendable(pdu), session.link # "tcp"
    PROVE  crc16_modbus(Framed(pdu)) = 0
<1>1. pdu \in Seq(Byte)
  BY DEF Sendable
<1>2. PICK m \in Seq(Byte) : m = <<Unit>> \o pdu
  <2>1. <<Unit>> \in Seq(Byte)
    BY ByteIs DEF Unit
  <2> QED BY <1>1, <2>1, Concatenation
<1>3. Framed(pdu) = m \o CrcBytes(m)
  BY <1>2 DEF Framed, RtuFrame
<1> QED BY <1>3, CrcOfFrame

\* The frame of a device differs from the one it sent in the flipped bits at most.
Noisy == /\ flips \in Nat /\ flips <= session.flips
         /\ session.kind = "device" /\ pc = "answered" => Differ(frame, sent, flips)

\* Up to three of them do not make it another answer.
LEMMA FlipsAreSeen ==
    ASSUME IInv, Noisy, pc = "answered", session.kind = "device", session.flips <= 3,
           Taken = Len(sent),
           HelperReturns(request, Executed).outcome \in {"ok", "ModbusExceptionResponseError"}
    PROVE  frame = sent
<1>1. /\ session \in Session /\ session.flips \in Nat /\ frame \in Seq(Byte) /\ sent \in Seq(Byte)
      /\ session.link # "tcp" => Len(sent) <= 256
      /\ session.flips # 0 => session.link # "tcp"
  BY SessionAssumption DEF IInv, Asking, Line, IsSession
<1>2. PICK n \in 0 .. 3 : n = flips /\ (n # 0 => session.link # "tcp")
  BY <1>1 DEF Noisy
<1>3. /\ Len(frame) = Len(sent)
      /\ \E at \in [1 .. n -> Nat] :
            \A i \in 1 .. 8 * Len(frame) :
               BitAfter(frame, 0, i) # BitAfter(sent, 0, i) => \E m \in 1 .. n : at[m] = i
  BY <1>2 DEF Noisy, Differ
<1>4. PICK at :
         \A i \in 1 .. 8 * Len(frame) :
            BitAfter(frame, 0, i) # BitAfter(sent, 0, i) => \E m \in 1 .. n : at[m] = i
  BY <1>3
<1>5. CASE session.link = "tcp"
  <2>1. \A m \in 1 .. n : FALSE
    BY <1>2, <1>5
  <2>2. \A i \in 1 .. 8 * Len(frame) : BitAfter(frame, 0, i) = BitAfter(sent, 0, i)
    BY <1>4, <2>1
  <2> QED BY <1>1, <1>3, <2>2, SameBitsSameFrame
<1>6. CASE session.link # "tcp"
  <2>1. crc16_modbus(frame) = 0 /\ Len(frame) >= 4
    BY <1>1, <1>3, <1>6, AcceptedIsIntact
  <2>2. crc16_modbus(sent) = 0
    BY <1>6, SentIsIntact DEF IInv, OnItsWayBack
  <2>3. 2 <= Len(frame) /\ Len(frame) <= 256
    BY <1>1, <1>3, <1>6, <2>1, LenProperties
  <2>4. \A m \in 1 .. n : m \in {1, 2, 3}
    OBVIOUS
  <2>5. PICK a, b, c :
           \A i \in 1 .. 8 * Len(frame) :
              BitAfter(frame, 0, i) # BitAfter(sent, 0, i) => i \in {a, b, c}
    <3>1. \A i \in 1 .. 8 * Len(frame) :
             BitAfter(frame, 0, i) # BitAfter(sent, 0, i) => i \in {at[1], at[2], at[3]}
      BY <1>4, <2>4
    <3> QED BY <3>1
  <2>6. frame \in Seq(Byte) /\ sent \in Seq(Byte) /\ Len(frame) = Len(sent)
    BY <1>1, <1>3
  <2> QED BY ONLY <2>1, <2>2, <2>3, <2>5, <2>6, FewFlipsShow
<1> QED BY <1>5, <1>6

\* Up to three flipped bits in the answer of a device, of any kind and content, are
\* never taken for an answer, as long as the client takes as many bytes as were
\* sent: the CRC tells, in a frame of any length.
THEOREM DamageIsDetectedAlways ==
    ASSUME \A s \in Session : s.flips <= 3
    PROVE  Spec => []DamageIsDetected
<1>1. Init => Noisy /\ DamageIsDetected
  <2> SUFFICES ASSUME Init PROVE Noisy /\ DamageIsDetected
    OBVIOUS
  <2>1. session \in Session /\ pc = "start" /\ flips = 0
    BY DEF Init
  <2>2. session.flips \in Nat
    BY <2>1, SessionAssumption DEF IsSession
  <2> QED BY <2>1, <2>2 DEF Noisy, DamageIsDetected
<1>2. IInv /\ Noisy /\ DamageIsDetected /\ [Next]_vars => Noisy' /\ DamageIsDetected'
  <2> SUFFICES ASSUME IInv, Noisy, DamageIsDetected, [Next]_vars
               PROVE  Noisy' /\ DamageIsDetected'
    OBVIOUS
  <2>1. session \in Session /\ session.flips <= 3
    BY DEF IInv, Asking
  <2>2. ASSUME session' = session, flips' = flips, pc' \notin {"answered", "done"}
        PROVE  Noisy' /\ DamageIsDetected'
    BY <2>2 DEF Noisy, DamageIsDetected
  <2>3. ASSUME session' = session, flips' = flips, session.kind # "device"
        PROVE  Noisy' /\ DamageIsDetected'
    BY <2>3 DEF Noisy, DamageIsDetected
  <2>4. ASSUME NEW of \in {"request", "response"}, NEW code \in Code, NEW decoder \in Decoder,
               Register(of, code, decoder)
        PROVE  Noisy' /\ DamageIsDetected'
    BY <2>2, <2>4 DEF Register
  <2>5. CASE Call
    <3>1. CASE PostInit(request)
      BY <2>2, <2>5, <3>1 DEF Call
    <3>2. CASE ~ PostInit(request)
      <4>1. /\ session' = session /\ flips' = flips /\ pc' = "done"
            /\ result' = Raises("ValueError")
        BY <2>5, <3>2 DEF Call
      <4> QED BY <4>1 DEF Noisy, DamageIsDetected, Raises
    <3> QED BY <3>1, <3>2
  <2>6. CASE ForeignRequest
    BY <2>2, <2>6 DEF ForeignRequest
  <2>7. CASE Serve
    BY <2>3, <2>7 DEF Serve
  <2>8. CASE ForeignAnswer
    BY <2>3, <2>8 DEF ForeignAnswer
  <2>9. CASE Answer
    <3>1. /\ session' = session /\ flips' = flips /\ pc' = "answered" /\ frame' = sent'
      BY <2>9 DEF Answer
    <3>2. Differ(sent', sent', flips)
      <4>1. [m \in 1 .. flips |-> 0] \in [1 .. flips -> Nat]
        OBVIOUS
      <4> QED BY <4>1 DEF Differ
    <3> QED BY <3>1, <3>2 DEF Noisy, DamageIsDetected
  <2>10. CASE Noise
    <3>1. /\ pc = "answered" /\ pc' = "answered" /\ flips < session.flips /\ flips' = flips + 1
          /\ session' = session /\ sent' = sent
      BY <2>10 DEF Noise
    <3>2. PICK i \in DOMAIN frame, k \in 1 .. 8 : frame' = [frame EXCEPT ![i] = Flip(@, k)]
      BY <2>10 DEF Noise
    <3>3. frame \in Seq(Byte) /\ sent \in Seq(Byte) /\ flips \in Nat /\ session.flips \in Nat
      BY <2>1, SessionAssumption DEF IInv, Line, IsSession
    <3>4. frame' \in Seq(Byte)
      <4>1. i \in 1 .. Len(frame)
        BY <3>3
      <4>2. frame[i] \in Byte
        BY <3>3, <4>1, SeqElement
      <4>3. Flip(frame[i], k) \in Byte
        BY <4>2, FlippedIsByte
      <4> QED BY <3>2, <3>3, <4>1, <4>3
    <3>5. session.kind = "device" => Differ(frame', sent, flips + 1)
      BY <3>1, <3>2, <3>3, <3>4, FlipDiffers DEF Noisy
    <3>6. flips + 1 \in Nat /\ flips + 1 <= session.flips
      BY <3>1, <3>3
    <3> QED BY <3>1, <3>5, <3>6 DEF Noisy, DamageIsDetected
  <2>11. CASE Return
    <3>1. /\ pc = "answered" /\ result' = HelperReturns(request, Executed)
          /\ session' = session /\ flips' = flips /\ frame' = frame /\ sent' = sent
      BY <2>11 DEF Return
    <3>2. CASE session.kind = "device"
      <4>1. pc' = "done" /\ request' = request
        BY <2>11, <3>2 DEF Return
      <4>2. Noisy'
        BY <3>1, <4>1 DEF Noisy
      <4>3. Taken' = Taken
        BY <3>1, <4>1 DEF Taken
      <4>4. DamageIsDetected'
        BY <2>1, <3>1, <3>2, <4>3, FlipsAreSeen DEF DamageIsDetected
      <4> QED BY <4>2, <4>4
    <3> QED BY <2>3, <3>1, <3>2
  <2>12. CASE UNCHANGED vars
    <3>1. UNCHANGED <<session, flips, pc, frame, sent, request, result>>
      BY <2>12 DEF vars
    <3>2. Taken' = Taken
      BY <3>1 DEF Taken
    <3> QED BY <3>1, <3>2 DEF Noisy, DamageIsDetected
  <2> QED BY <2>4, <2>5, <2>6, <2>7, <2>8, <2>9, <2>10, <2>11, <2>12 DEF Next
<1> QED BY <1>1, <1>2, ExchangeInvariant, PTL DEF Spec

\* What ForeignRequestIsExact says of one step.
ServedExactly ==
    session.kind = "foreign_request" /\ arrived' # arrived =>
         LET pdu == From(frame, 8)
             q == arrived'.pdu
         IN  IF arrived'.outcome = "ok"
               THEN PostInit(q) /\ Says(pdu, q)
               ELSE /\ answer'.kind = "exception"
                    /\ answer'.fc = IF pdu = <<>> THEN 0 ELSE pdu[1]

\* What the server takes from the bytes of any client is what they say, and what it
\* does not decode it answers with an exception to the function code it got.
THEOREM ForeignRequestIsExactAlways == Spec => ForeignRequestIsExact
<1>1. IInv /\ [Next]_vars => [ServedExactly]_vars
  <2> SUFFICES ASSUME IInv, Next, session.kind = "foreign_request", arrived' # arrived
               PROVE  ServedExactly
    BY DEF ServedExactly, vars
  <2>1. Serve
    BY DEF Next, Register, Call, ForeignRequest, ForeignAnswer, Answer, Noise, Return
  <2>2. PICK pdu : IsPDU(pdu) /\ frame = TcpFrame(Tid, Unit, pdu)
    BY <2>1 DEF Serve, IInv, OnItsWay
  <2>3. ServeFacts(pdu)
    BY <2>1, <2>2, ServeIs
  <2>4. /\ From(frame, 8) = pdu /\ DecodesTo(pdu, arrived')
        /\ answer' \in Replies(arrived', CodeOf(pdu))
    BY <2>3 DEF ServeFacts
  <2>5. CASE arrived'.outcome = "ok"
    BY <2>2, <2>4, <2>5, DecodedSays DEF ServedExactly
  <2>6. CASE arrived'.outcome # "ok"
    <3>1. PICK code \in {1, 3} : answer' = ExceptionResponse(CodeOf(pdu), code)
      BY <2>4, <2>6 DEF Replies
    <3>2. answer'.kind = "exception" /\ answer'.fc = CodeOf(pdu)
      BY <3>1 DEF ExceptionResponse, Response
    <3>3. pdu # <<>> => Head(pdu) = pdu[1]
      BY <2>2, FirstAndRest DEF IsPDU
    <3> QED BY <2>4, <2>6, <3>2, <3>3 DEF ServedExactly, CodeOf
  <2> QED BY <2>5, <2>6
<1> QED BY <1>1, ExchangeInvariant, PTL DEF Spec, ForeignRequestIsExact, ServedExactly

=============================================================================
