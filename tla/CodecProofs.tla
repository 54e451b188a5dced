---------------------------- MODULE CodecProofs ----------------------------
(***************************************************************************)
(* Lemmas about the bytes of PDUs and frames, for every length and every   *)
(* value: words and bits come back from their bytes, a request comes back  *)
(* from its PDU, a PDU comes back from the request that was made of it,    *)
(* and the same for responses and for the objects of a device              *)
(* identification.  The CRC is a division, which shows up to three flipped *)
(* bits in a frame.                                                        *)
(***************************************************************************)
EXTENDS Framing, DeviceIdentification, SequenceTheorems, FiniteSetTheorems,
        WellFoundedInduction, TLAPS

-----------------------------------------------------------------------------
(***************************************************************************)
(* Recursion and induction.                                                *)
(***************************************************************************)
\* A set of naturals that is not empty has a least element.
LEMMA LeastNatural ==
    ASSUME NEW T, T \subseteq Nat, T # {}
    PROVE  \E x \in T : \A y \in T : x <= y
<1> DEFINE R == {ss \in Nat \X Nat : ss[1] < ss[2]}
<1>1. IsWellFoundedOn(R, Nat)
  BY NatLessThanWellFounded DEF OpToRel
<1>2. PICK x \in T : \A y \in T : ~ (<<y, x>> \in R)
  BY <1>1, WFMin
<1>3. \A y \in T : ~ (y < x)
  BY <1>2
<1> QED BY <1>2, <1>3

\* n steps from a first value on, one after the other.
Steps(n, S) == [1 .. n -> [S -> S]]
Iterates(f, n, S, base, step) ==
    /\ f \in [0 .. n -> S] /\ f[0] = base
    /\ \A i \in 1 .. n : f[i] = step[i][f[i - 1]]

\* A recursive function exists: any step can be taken n times from a base.
LEMMA Iteration ==
    ASSUME NEW S, NEW base \in S, NEW n \in Nat, NEW step \in Steps(n, S)
    PROVE  \E f : Iterates(f, n, S, base, step)
<1> USE DEF Steps
<1> DEFINE Until(k, f) == /\ f \in [0 .. k -> S] /\ f[0] = base
                          /\ \A i \in 1 .. k : f[i] = step[i][f[i - 1]]
           Missing == {k \in 0 .. n : ~ \E f : Until(k, f)}
<1>1. Missing = {}
  <2> SUFFICES ASSUME Missing # {} PROVE FALSE
    OBVIOUS
  <2>1. Missing \subseteq 0 .. n /\ Missing \subseteq Nat
    OBVIOUS
  <2> HIDE DEF Missing
  <2>2. PICK k \in Missing : \A m \in Missing : k <= m
    BY <2>1, LeastNatural
  <2>3. k \in 0 .. n
    BY <2>1
  <2>4. k # 0
    <3>1. Until(0, [i \in 0 .. 0 |-> base])
      OBVIOUS
    <3>2. 0 \notin Missing
      BY <3>1 DEF Missing
    <3> QED BY <3>2
  <2>5. k - 1 \in 0 .. n /\ k - 1 \notin Missing
    BY <2>2, <2>3, <2>4
  <2>6. PICK f : Until(k - 1, f)
    BY <2>5 DEF Missing
  <2> DEFINE g == [i \in 0 .. k |-> IF i = k THEN step[k][f[k - 1]] ELSE f[i]]
  <2>7. f[k - 1] \in S /\ step[k][f[k - 1]] \in S
    BY <2>3, <2>4, <2>6
  <2>8. Until(k, g)
    <3>1. g \in [0 .. k -> S]
      BY <2>3, <2>6, <2>7
    <3>2. g[0] = base
      BY <2>3, <2>4, <2>6
    <3>3. ASSUME NEW i \in 1 .. k PROVE g[i] = step[i][g[i - 1]]
      <4>1. CASE i = k
        BY <4>1, <2>3, <2>4
      <4>2. CASE i # k
        BY <4>2, <2>3, <2>6
      <4> QED BY <4>1, <4>2
    <3> QED BY <3>1, <3>2, <3>3
  <2>9. k \notin Missing
    BY <2>3, <2>8 DEF Missing
  <2> QED BY <2>9
<1>2. n \notin Missing
  BY <1>1
<1>3. PICK f : Until(n, f)
  BY <1>2
<1>4. Iterates(f, n, S, base, step)
  BY <1>3 DEF Iterates
<1> QED BY <1>4

\* Two functions are the same if they begin with the same value and are never
\* the first time different.
KeepsEqual(f, g, n) == \A i \in 1 .. n : f[i - 1] = g[i - 1] => f[i] = g[i]

\* Two functions that start alike and step alike are alike.
LEMMA SameSteps ==
    ASSUME NEW n \in Nat, NEW f, NEW g, f[0] = g[0], KeepsEqual(f, g, n)
    PROVE  \A i \in 0 .. n : f[i] = g[i]
<1> DEFINE Other == {i \in 0 .. n : f[i] # g[i]}
<1>1. Other = {}
  <2> SUFFICES ASSUME Other # {} PROVE FALSE
    OBVIOUS
  <2>1. Other \subseteq 0 .. n /\ Other \subseteq Nat
    OBVIOUS
  <2>2. \A i \in Other : f[i] # g[i]
    OBVIOUS
  <2>3. \A i \in 0 .. n : i \notin Other => f[i] = g[i]
    OBVIOUS
  <2> HIDE DEF Other
  <2>4. PICK i \in Other : \A j \in Other : i <= j
    BY <2>1, LeastNatural
  <2>5. i \in 0 .. n /\ f[i] # g[i]
    BY <2>1, <2>2
  <2>6. i \in 1 .. n /\ i - 1 \in 0 .. n /\ i - 1 \notin Other
    BY <2>4, <2>5
  <2>7. f[i - 1] = g[i - 1]
    BY <2>3, <2>6
  <2>8. f[i] = g[i]
    BY <2>6, <2>7 DEF KeepsEqual
  <2> QED BY <2>5, <2>8
<1> QED BY <1>1

-----------------------------------------------------------------------------
(***************************************************************************)
(* Bits and words.                                                         *)
(***************************************************************************)
\* The numbers from 0 to n.
LEMMA RangeFromZero ==
    ASSUME NEW n \in Nat, NEW S, S = 0 .. n
    PROVE  \A x : x \in S <=> x \in Nat /\ x <= n
OBVIOUS

\* What a byte is ...
LEMMA ByteIs == \A x : x \in Byte <=> x \in Nat /\ x <= 255
BY DEF Byte

\* ... and a word.
LEMMA WordIs == \A x : x \in Word <=> x \in Nat /\ x <= 65535
<1>1. MAX_REGISTER_VALUE \in Nat
  BY DEF MAX_REGISTER_VALUE
<1>2. Word = 0 .. MAX_REGISTER_VALUE
  BY DEF Word
<1>3. \A x : x \in Word <=> x \in Nat /\ x <= MAX_REGISTER_VALUE
  BY <1>1, <1>2, RangeFromZero
<1> QED BY <1>3 DEF MAX_REGISTER_VALUE

\* A bit of a number is 0 or 1.
LEMMA BitIsBit ==
    ASSUME NEW x \in Int, NEW k \in 1 .. 8
    PROVE  Bit(x, k) \in {0, 1}
<1>1. Weight[k] \in {1, 2, 4, 8, 16, 32, 64, 128}
  BY DEF Weight
<1>2. x \div Weight[k] \in Int
  BY <1>1
<1> QED BY <1>2 DEF Bit

\* Eight bits come back from the byte they make.
LEMMA BitsOfOctet ==
    ASSUME NEW bits \in [1 .. 8 -> {0, 1}]
    PROVE  /\ Octet(bits) \in Byte
           /\ \A k \in 1 .. 8 : Bit(Octet(bits), k) = bits[k]
<1>1. \A k \in 1 .. 8 : bits[k] \in {0, 1}
  OBVIOUS
<1>2. Octet(bits) \in Byte
  BY <1>1 DEF Octet, Byte
<1>3. Bit(Octet(bits), 1) = bits[1]
  BY <1>1 DEF Octet, Bit, Weight
<1>4. Bit(Octet(bits), 2) = bits[2]
  BY <1>1 DEF Octet, Bit, Weight
<1>5. Bit(Octet(bits), 3) = bits[3]
  BY <1>1 DEF Octet, Bit, Weight
<1>6. Bit(Octet(bits), 4) = bits[4]
  BY <1>1 DEF Octet, Bit, Weight
<1>7. Bit(Octet(bits), 5) = bits[5]
  BY <1>1 DEF Octet, Bit, Weight
<1>8. Bit(Octet(bits), 6) = bits[6]
  BY <1>1 DEF Octet, Bit, Weight
<1>9. Bit(Octet(bits), 7) = bits[7]
  BY <1>1 DEF Octet, Bit, Weight
<1>10. Bit(Octet(bits), 8) = bits[8]
  BY <1>1 DEF Octet, Bit, Weight
<1> QED BY <1>2, <1>3, <1>4, <1>5, <1>6, <1>7, <1>8, <1>9, <1>10

\* A function on 1 .. n is a sequence.
LEMMA FunctionIsSeq ==
    ASSUME NEW n \in Nat, NEW S, NEW f \in [1 .. n -> S]
    PROVE  f \in Seq(S) /\ Len(f) = n /\ DOMAIN f = 1 .. n
<1>1. f \in Seq(S)
  BY SeqDef
<1> QED BY <1>1, LenProperties

\* The elements, bytes and small numbers have their types.
LEMMA SeqElement ==
    ASSUME NEW S, NEW s \in Seq(S), NEW i \in 1 .. Len(s)
    PROVE  s[i] \in S
BY ElementOfSeq

LEMMA ByteIsNat ==
    ASSUME NEW x \in Byte
    PROVE  x \in Nat /\ x \in Int /\ x <= 255
BY ByteIs

LEMMA SmallNumber ==
    ASSUME NEW n \in Nat
    PROVE  (n <= 255 => n \in Byte) /\ (n <= 65535 => n \in Word)
BY ByteIs, WordIs

LEMMA BytesOfWord ==
    ASSUME NEW w \in Word
    PROVE  w \div 256 \in Byte /\ w % 256 \in Byte /\ 256 * (w \div 256) + (w % 256) = w
BY ByteIs, WordIs

LEMMA WordOfBytes ==
    ASSUME NEW a \in Byte, NEW b \in Byte
    PROVE  256 * a + b \in Word /\ (256 * a + b) \div 256 = a /\ (256 * a + b) % 256 = b
BY ByteIs, WordIs

\* What PackWords returns: two bytes for each word, the high one first.
LEMMA PackWordsFacts ==
    ASSUME NEW words \in Seq(Word)
    PROVE  /\ PackWords(words) \in Seq(Byte)
           /\ Len(PackWords(words)) = 2 * Len(words)
           /\ \A i \in 1 .. Len(words) : /\ PackWords(words)[2 * i - 1] = words[i] \div 256
                                         /\ PackWords(words)[2 * i] = words[i] % 256
<1> DEFINE n == Len(words)
           f == [i \in 1 .. 2 * n |->
                    IF i % 2 = 1 THEN words[(i + 1) \div 2] \div 256
                                 ELSE words[i \div 2] % 256]
<1>1. n \in Nat /\ 2 * n \in Nat
  BY LenProperties
<1>2. PackWords(words) = f
  BY DEF PackWords
<1>3. ASSUME NEW i \in 1 .. 2 * n PROVE f[i] \in Byte
  <2>1. CASE i % 2 = 1
    <3>1. (i + 1) \div 2 \in 1 .. n
      BY <1>1, <2>1
    <3>2. words[(i + 1) \div 2] \in Word
      BY <3>1, SeqElement
    <3> QED BY <2>1, <3>2, BytesOfWord
  <2>2. CASE i % 2 # 1
    <3>1. i \div 2 \in 1 .. n
      BY <1>1, <2>2
    <3>2. words[i \div 2] \in Word
      BY <3>1, SeqElement
    <3> QED BY <2>2, <3>2, BytesOfWord
  <2> QED BY <2>1, <2>2
<1>4. f \in [1 .. 2 * n -> Byte]
  BY <1>3
<1>5. ASSUME NEW i \in 1 .. n
      PROVE  f[2 * i - 1] = words[i] \div 256 /\ f[2 * i] = words[i] % 256
  <2>1. 2 * i - 1 \in 1 .. 2 * n /\ (2 * i - 1) % 2 = 1 /\ ((2 * i - 1) + 1) \div 2 = i
    BY <1>1
  <2>2. 2 * i \in 1 .. 2 * n /\ (2 * i) % 2 = 0 /\ (2 * i) \div 2 = i
    BY <1>1
  <2> QED BY <2>1, <2>2
<1> HIDE DEF f
<1> QED BY <1>1, <1>2, <1>4, <1>5, FunctionIsSeq

LEMMA PackedLength ==
    ASSUME NEW words \in Seq(Word), Len(words) = 1
    PROVE  PackWords(words) \in Seq(Byte) /\ Len(PackWords(words)) = 2
<1>1. PackWords(words) \in Seq(Byte) /\ Len(PackWords(words)) = 2 * Len(words)
  BY PackWordsFacts
<1> QED BY <1>1

LEMMA WordIsNat ==
    ASSUME NEW w \in Word
    PROVE  w \in Nat /\ w \in Int
BY WordIs

\* What UnpackWords returns: a word for every two bytes.
LEMMA UnpackWordsFacts ==
    ASSUME NEW data \in Seq(Byte)
    PROVE  /\ UnpackWords(data) \in Seq(Word)
           /\ Len(UnpackWords(data)) = Len(data) \div 2
           /\ \A i \in 1 .. Len(data) \div 2 :
                 UnpackWords(data)[i] = 256 * data[2 * i - 1] + data[2 * i]
<1> DEFINE n == Len(data) \div 2
           f == [i \in 1 .. n |-> 256 * data[2 * i - 1] + data[2 * i]]
<1>1. Len(data) \in Nat /\ n \in Nat
  BY LenProperties
<1>2. ASSUME NEW i \in 1 .. n PROVE f[i] \in Word
  <2>1. 2 * i - 1 \in 1 .. Len(data) /\ 2 * i \in 1 .. Len(data)
    BY <1>1
  <2>2. data[2 * i - 1] \in Byte /\ data[2 * i] \in Byte
    BY <2>1, SeqElement
  <2> QED BY <2>2, WordOfBytes
<1>3. f \in [1 .. n -> Word]
  BY <1>2
<1>4. UnpackWords(data) = f
  BY DEF UnpackWords
<1>5. f \in Seq(Word) /\ Len(f) = n
  BY <1>1, <1>3, FunctionIsSeq
<1>6. \A i \in 1 .. n : f[i] = 256 * data[2 * i - 1] + data[2 * i]
  OBVIOUS
<1> HIDE DEF f
<1> QED BY <1>4, <1>5, <1>6

\* Words come back from their bytes, and bytes from their words.
LEMMA UnpackPackedWords ==
    ASSUME NEW words \in Seq(Word)
    PROVE  UnpackWords(PackWords(words)) = words
<1> DEFINE data == PackWords(words)
<1>1. Len(words) \in Nat
  BY LenProperties
<1>2. data \in Seq(Byte) /\ Len(data) = 2 * Len(words)
  BY PackWordsFacts
<1>3. Len(data) \div 2 = Len(words)
  BY <1>1, <1>2
<1>4. ASSUME NEW i \in 1 .. Len(words) PROVE UnpackWords(data)[i] = words[i]
  <2>1. UnpackWords(data)[i] = 256 * data[2 * i - 1] + data[2 * i]
    BY <1>2, <1>3, UnpackWordsFacts, ZenonT(60)
  <2>2. data[2 * i - 1] = words[i] \div 256 /\ data[2 * i] = words[i] % 256
    BY PackWordsFacts
  <2>3. words[i] \in Word
    BY SeqElement
  <2> QED BY <2>1, <2>2, <2>3, BytesOfWord
<1>5. UnpackWords(data) \in Seq(Word) /\ Len(UnpackWords(data)) = Len(words)
  BY <1>2, <1>3, UnpackWordsFacts
<1> QED BY <1>4, <1>5, SeqEqual

\* Bytes that were unpacked are packed again, when their number is even.
LEMMA PackUnpackedWords ==
    ASSUME NEW data \in Seq(Byte), Len(data) % 2 = 0
    PROVE  PackWords(UnpackWords(data)) = data
<1> DEFINE words == UnpackWords(data)
<1>1. Len(data) \in Nat
  BY LenProperties
<1>2. words \in Seq(Word) /\ Len(words) = Len(data) \div 2
  BY UnpackWordsFacts
<1>3. PackWords(words) \in Seq(Byte) /\ Len(PackWords(words)) = Len(data)
  BY <1>1, <1>2, PackWordsFacts
<1>4. ASSUME NEW k \in 1 .. Len(data) PROVE PackWords(words)[k] = data[k]
  <2> DEFINE i == (k + 1) \div 2
  <2>1. i \in 1 .. Len(words) /\ (k = 2 * i - 1 \/ k = 2 * i)
    BY <1>1, <1>2
  <2>2. 2 * i - 1 \in 1 .. Len(data) /\ 2 * i \in 1 .. Len(data)
    BY <1>1, <1>2, <2>1
  <2>3. data[2 * i - 1] \in Byte /\ data[2 * i] \in Byte
    BY <2>2, SeqElement
  <2> HIDE DEF i
  <2>4. words[i] = 256 * data[2 * i - 1] + data[2 * i]
    BY <1>2, <2>1, UnpackWordsFacts
  <2>5. /\ PackWords(words)[2 * i - 1] = words[i] \div 256
        /\ PackWords(words)[2 * i] = words[i] % 256
    BY <1>2, <2>1, PackWordsFacts, ZenonT(60)
  <2> QED BY <2>1, <2>3, <2>4, <2>5, WordOfBytes
<1> QED BY <1>3, <1>4, SeqEqual

\* Every bit has a byte and a place in it, and no byte is superfluous.
LEMMA BytesForFacts ==
    ASSUME NEW n \in Nat
    PROVE  /\ BytesFor(n) \in Nat /\ 8 * BytesFor(n) >= n /\ 8 * BytesFor(n) < n + 8
           /\ \A i \in 1 .. n : /\ (i - 1) \div 8 + 1 \in 1 .. BytesFor(n)
                                /\ ((i - 1) % 8) + 1 \in 1 .. 8
                                /\ i = 8 * ((i - 1) \div 8) + ((i - 1) % 8) + 1
BY DEF BytesFor

\* What pack_bits returns: each value at its bit, lowest first.
LEMMA PackBitsFacts ==
    ASSUME NEW values \in Seq({0, 1})
    PROVE  /\ pack_bits(values) \in Seq(Byte)
           /\ Len(pack_bits(values)) = BytesFor(Len(values))
           /\ \A i \in 1 .. Len(values) :
                 Bit(pack_bits(values)[(i - 1) \div 8 + 1], ((i - 1) % 8) + 1) = values[i]
<1> DEFINE n == BytesFor(Len(values))
           bits(b) == [k \in 1 .. 8 |-> At(values, 8 * (b - 1) + k)]
           f == [b \in 1 .. n |-> Octet(bits(b))]
<1>1. Len(values) \in Nat /\ n \in Nat
  BY LenProperties, BytesForFacts
<1>2. ASSUME NEW b \in 1 .. n PROVE bits(b) \in [1 .. 8 -> {0, 1}]
  <2>1. ASSUME NEW k \in 1 .. 8 PROVE At(values, 8 * (b - 1) + k) \in {0, 1}
    <3> DEFINE i == 8 * (b - 1) + k
    <3>1. i \in Nat /\ i >= 1
      BY <1>1
    <3>2. CASE i <= Len(values)
      <4>1. values[i] \in {0, 1}
        BY <1>1, <3>1, <3>2, SeqElement
      <4> QED BY <4>1, <3>2 DEF At
    <3>3. CASE ~ (i <= Len(values))
      BY <3>3 DEF At
    <3> QED BY <3>2, <3>3
  <2> QED BY <2>1
<1>3. ASSUME NEW b \in 1 .. n
      PROVE  Octet(bits(b)) \in Byte /\ \A k \in 1 .. 8 : Bit(Octet(bits(b)), k) = bits(b)[k]
  BY <1>2, BitsOfOctet
<1>4. f \in [1 .. n -> Byte]
  BY <1>3
<1>5. pack_bits(values) = f
  BY DEF pack_bits
<1>6. ASSUME NEW i \in 1 .. Len(values)
      PROVE  Bit(f[(i - 1) \div 8 + 1], ((i - 1) % 8) + 1) = values[i]
  <2> DEFINE b == (i - 1) \div 8 + 1
             k == ((i - 1) % 8) + 1
  <2>1. /\ (i - 1) \div 8 + 1 \in 1 .. n /\ ((i - 1) % 8) + 1 \in 1 .. 8
        /\ i = 8 * ((i - 1) \div 8) + ((i - 1) % 8) + 1
    BY <1>1, BytesForFacts
  <2>2. b \in 1 .. n /\ k \in 1 .. 8 /\ i = 8 * (b - 1) + k
    BY <1>1, <2>1
  <2>3. Bit(f[b], k) = bits(b)[k]
    BY <1>3, <2>2
  <2>4. bits(b)[k] = At(values, 8 * (b - 1) + k)
    BY <2>2
  <2>5. At(values, i) = values[i]
    BY <1>1 DEF At
  <2> QED BY <2>2, <2>3, <2>4, <2>5
<1>7. f \in Seq(Byte) /\ Len(f) = n
  BY <1>1, <1>4, FunctionIsSeq
<1> HIDE DEF f
<1> QED BY <1>5, <1>6, <1>7

\* What unpack_bits returns: so many of the bits.
LEMMA UnpackBitsFacts ==
    ASSUME NEW data \in Seq(Byte), NEW count \in Nat, Len(data) >= BytesFor(count)
    PROVE  /\ unpack_bits(data, count) \in Seq({0, 1})
           /\ Len(unpack_bits(data, count)) = count
           /\ \A i \in 1 .. count :
                 unpack_bits(data, count)[i] = Bit(data[(i - 1) \div 8 + 1], ((i - 1) % 8) + 1)
<1> DEFINE f == [i \in 1 .. count |-> Bit(data[(i - 1) \div 8 + 1], ((i - 1) % 8) + 1)]
<1>1. ASSUME NEW i \in 1 .. count PROVE f[i] \in {0, 1}
  <2> DEFINE b == (i - 1) \div 8 + 1
             k == ((i - 1) % 8) + 1
  <2>1. /\ Len(data) \in Nat /\ BytesFor(count) \in Nat
        /\ b \in 1 .. BytesFor(count) /\ k \in 1 .. 8
    BY LenProperties, BytesForFacts
  <2>2. b \in 1 .. Len(data)
    BY <2>1
  <2>3. data[b] \in Byte
    BY <2>2, SeqElement
  <2>4. data[b] \in Int
    BY <2>3, ByteIsNat
  <2> HIDE DEF b, k
  <2>5. Bit(data[b], k) \in {0, 1}
    BY <2>1, <2>4, BitIsBit
  <2> QED BY <2>5 DEF b, k
<1>2. f \in [1 .. count -> {0, 1}]
  BY <1>1
<1>3. unpack_bits(data, count) = f
  BY DEF unpack_bits
<1>4. f \in Seq({0, 1}) /\ Len(f) = count
  BY <1>2, FunctionIsSeq
<1>5. \A i \in 1 .. count : f[i] = Bit(data[(i - 1) \div 8 + 1], ((i - 1) % 8) + 1)
  OBVIOUS
<1> HIDE DEF f
<1> QED BY <1>3, <1>4, <1>5

\* Bits come back from their bytes.
LEMMA UnpackPackedBits ==
    ASSUME NEW values \in Seq({0, 1})
    PROVE  unpack_bits(pack_bits(values), Len(values)) = values
<1> DEFINE data == pack_bits(values)
<1>1. data \in Seq(Byte) /\ Len(data) = BytesFor(Len(values)) /\ Len(values) \in Nat
  BY PackBitsFacts, LenProperties
<1>2. Len(data) >= BytesFor(Len(values))
  BY <1>1, BytesForFacts
<1>3. /\ unpack_bits(data, Len(values)) \in Seq({0, 1})
      /\ Len(unpack_bits(data, Len(values))) = Len(values)
  BY <1>1, <1>2, UnpackBitsFacts
<1>4. ASSUME NEW i \in 1 .. Len(values)
      PROVE  unpack_bits(data, Len(values))[i] = values[i]
  <2>1. unpack_bits(data, Len(values))[i] = Bit(data[(i - 1) \div 8 + 1], ((i - 1) % 8) + 1)
    BY <1>1, <1>2, UnpackBitsFacts
  <2> QED BY <2>1, PackBitsFacts
<1> QED BY <1>3, <1>4, SeqEqual

-----------------------------------------------------------------------------
(***************************************************************************)
(* Sequences.                                                              *)
(***************************************************************************)
LEMMA Concatenation ==
    ASSUME NEW S, NEW s \in Seq(S), NEW t \in Seq(S)
    PROVE  /\ s \o t \in Seq(S) /\ Len(s \o t) = Len(s) + Len(t)
           /\ \A i \in 1 .. Len(s) : (s \o t)[i] = s[i]
           /\ \A i \in 1 .. Len(t) : (s \o t)[Len(s) + i] = t[i]
<1>1. Len(s) \in Nat /\ Len(t) \in Nat
  BY LenProperties
<1> QED BY <1>1, ConcatProperties

\* Sequences of one and two elements, and one more at the end.
LEMMA Singleton ==
    ASSUME NEW S, NEW x \in S
    PROVE  <<x>> \in Seq(S) /\ Len(<<x>>) = 1 /\ <<x>>[1] = x
OBVIOUS

LEMMA OnlyElement ==
    ASSUME NEW S, NEW s \in Seq(S), Len(s) = 1
    PROVE  <<s[1]>> = s
OBVIOUS

LEMMA Appended ==
    ASSUME NEW S, NEW s \in Seq(S), NEW x \in S
    PROVE  /\ s \o <<x>> \in Seq(S) /\ Len(s \o <<x>>) = Len(s) + 1
           /\ (s \o <<x>>)[Len(s) + 1] = x
           /\ \A i \in 1 .. Len(s) : (s \o <<x>>)[i] = s[i]
<1>1. PICK one \in Seq(S) : one = <<x>> /\ Len(one) = 1 /\ one[1] = x
  BY Singleton
<1>2. Len(s) \in Nat /\ 1 \in 1 .. Len(one)
  BY <1>1, LenProperties
<1>3. /\ s \o one \in Seq(S) /\ Len(s \o one) = Len(s) + Len(one)
      /\ \A i \in 1 .. Len(s) : (s \o one)[i] = s[i]
  BY Concatenation
<1>4. (s \o one)[Len(s) + 1] = one[1]
  BY <1>2, Concatenation
<1> QED BY <1>1, <1>3, <1>4

LEMMA TwoElements ==
    ASSUME NEW S, NEW s \in Seq(S), Len(s) = 2
    PROVE  s[1] \in S /\ s[2] \in S /\ <<s[1]>> \o <<s[2]>> = s
<1>1. 1 \in 1 .. Len(s) /\ 2 \in 1 .. Len(s)
  OBVIOUS
<1>2. s[1] \in S /\ s[2] \in S
  BY <1>1, SeqElement
<1>3. PICK one \in Seq(S) : one = <<s[1]>> /\ Len(one) = 1 /\ one[1] = s[1]
  BY <1>2, Singleton
<1>4. PICK u \in Seq(S) : u = one \o <<s[2]>> /\ Len(u) = Len(one) + 1
  <2>1. one \o <<s[2]>> \in Seq(S) /\ Len(one \o <<s[2]>>) = Len(one) + 1
    BY <1>2, Appended
  <2> QED BY <2>1
<1>5. u[Len(one) + 1] = s[2] /\ \A k \in 1 .. Len(one) : u[k] = one[k]
  BY <1>2, <1>4, Appended
<1>6. Len(u) = 2 /\ u[1] = s[1] /\ u[2] = s[2]
  BY <1>3, <1>4, <1>5
<1>7. \A k \in 1 .. Len(s) : u[k] = s[k]
  BY <1>6
<1>8. u = s
  BY <1>6, <1>7, SeqEqual
<1> QED BY <1>2, <1>3, <1>4, <1>8

LEMMA Pair ==
    ASSUME NEW S, NEW x \in S, NEW y \in S
    PROVE  <<x, y>> \in Seq(S) /\ Len(<<x, y>>) = 2
OBVIOUS

\* The first element and the others.
LEMMA Prepending ==
    ASSUME NEW S, NEW x \in S, NEW s \in Seq(S)
    PROVE  /\ <<x>> \o s \in Seq(S) /\ <<x>> \o s # <<>>
           /\ Len(<<x>> \o s) = 1 + Len(s)
           /\ (<<x>> \o s)[1] = x /\ Head(<<x>> \o s) = x
           /\ \A i \in 1 .. Len(s) : (<<x>> \o s)[i + 1] = s[i]
           /\ Tail(<<x>> \o s) = s
<1> DEFINE t == <<x>> \o s
<1>1. Len(s) \in Nat
  BY LenProperties
<1>2. /\ t \in Seq(S) /\ Len(t) = 1 + Len(s) /\ t[1] = x
      /\ \A i \in 1 .. Len(s) : t[1 + i] = s[i]
  BY Singleton, Concatenation
<1>3. t # <<>>
  BY <1>1, <1>2
<1>4. Tail(t) \in Seq(S) /\ Len(Tail(t)) = Len(s)
  BY <1>1, <1>2, <1>3, HeadTailProperties
<1>5. \A i \in 1 .. Len(s) : Tail(t)[i] = s[i]
  BY <1>1, <1>2, <1>3, <1>4, HeadTailProperties
<1>6. Tail(t) = s
  BY <1>4, <1>5, SeqEqual
<1>7. Head(t) = t[1]
  BY <1>2, <1>3
<1>8. \A i \in 1 .. Len(s) : t[i + 1] = s[i]
  BY <1>1, <1>2
<1> QED BY <1>2, <1>3, <1>6, <1>7, <1>8

\* A sequence that is not empty is its head and its tail.
LEMMA FirstAndRest ==
    ASSUME NEW S, NEW s \in Seq(S), s # <<>>
    PROVE  /\ Head(s) \in S /\ Head(s) = s[1]
           /\ Tail(s) \in Seq(S) /\ Len(s) = 1 + Len(Tail(s)) /\ Len(Tail(s)) \in Nat
           /\ s = <<Head(s)>> \o Tail(s)
           /\ \A i \in 1 .. Len(Tail(s)) : Tail(s)[i] = s[i + 1]
<1>1. /\ Len(s) \in Nat /\ Head(s) \in S /\ Head(s) = s[1]
      /\ Tail(s) \in Seq(S) /\ Len(Tail(s)) = Len(s) - 1
      /\ \A i \in 1 .. Len(Tail(s)) : Tail(s)[i] = s[i + 1]
  BY LenProperties, HeadTailProperties
<1>2. Len(Tail(s)) \in Nat
  BY <1>1, LenProperties
<1> DEFINE t == <<Head(s)>> \o Tail(s)
<1>3. /\ t \in Seq(S) /\ Len(t) = Len(s) /\ t[1] = s[1]
      /\ \A i \in 1 .. Len(Tail(s)) : t[i + 1] = Tail(s)[i]
  BY <1>1, <1>2, Prepending
<1>4. ASSUME NEW k \in 1 .. Len(s) PROVE t[k] = s[k]
  <2>1. CASE k = 1
    BY <2>1, <1>3
  <2>2. CASE k # 1
    <3>1. k - 1 \in 1 .. Len(Tail(s)) /\ (k - 1) + 1 = k
      BY <1>1, <2>2
    <3> QED BY <3>1, <1>1, <1>3
  <2> QED BY <2>1, <2>2
<1>5. t = s
  BY <1>3, <1>4, SeqEqual
<1> QED BY <1>1, <1>2, <1>5

\* The end and the beginning of a sequence, and where an element of them was.
LEMMA FromFacts ==
    ASSUME NEW S, NEW s \in Seq(S), NEW i \in 1 .. Len(s) + 1
    PROVE  /\ From(s, i) \in Seq(S) /\ Len(From(s, i)) = Len(s) - i + 1
           /\ \A k \in 1 .. Len(s) - i + 1 : From(s, i)[k] = s[i + k - 1]
<1>1. Len(s) \in Nat /\ \A k \in i .. Len(s) : s[k] \in S
  BY LenProperties, SeqElement
<1> QED BY <1>1, SubSeqProperties DEF From

LEMMA PrefixFacts ==
    ASSUME NEW S, NEW s \in Seq(S), NEW n \in 0 .. Len(s)
    PROVE  /\ SubSeq(s, 1, n) \in Seq(S) /\ Len(SubSeq(s, 1, n)) = n
           /\ \A k \in 1 .. n : SubSeq(s, 1, n)[k] = s[k]
<1>1. Len(s) \in Nat /\ \A k \in 1 .. n : s[k] \in S
  BY LenProperties, SeqElement
<1> QED BY <1>1, SubSeqProperties

\* A part in the middle.
LEMMA MiddleIs ==
    ASSUME NEW S, NEW s \in Seq(S), NEW v \in Seq(S), NEW i \in Nat,
           i + 1 + Len(v) <= Len(s), \A j \in 1 .. Len(v) : s[i + 1 + j] = v[j]
    PROVE  SubSeq(s, i + 2, i + 1 + Len(v)) = v
<1> DEFINE b == i + 1 + Len(v)
<1>1. Len(s) \in Nat /\ Len(v) \in Nat
  BY LenProperties
<1>2. i + 2 \in 1 .. Len(s) + 1 /\ b \in Nat /\ b \in i + 1 .. Len(s)
  BY <1>1
<1>3. \A k \in i + 2 .. b : s[k] \in S
  BY <1>1, <1>2, SeqElement
<1>4. /\ SubSeq(s, i + 2, b) \in Seq(S)
      /\ Len(SubSeq(s, i + 2, b)) = IF i + 2 <= b THEN b - (i + 2) + 1 ELSE 0
      /\ \A k \in 1 .. b - (i + 2) + 1 : SubSeq(s, i + 2, b)[k] = s[(i + 2) + k - 1]
  BY <1>2, <1>3, SubSeqProperties
<1>5. Len(SubSeq(s, i + 2, b)) = Len(v)
  BY <1>1, <1>4
<1>6. \A k \in 1 .. Len(v) : SubSeq(s, i + 2, b)[k] = v[k]
  <2>1. \A k \in 1 .. Len(v) : k \in 1 .. b - (i + 2) + 1 /\ (i + 2) + k - 1 = i + 1 + k
    BY <1>1
  <2> QED BY <1>4, <2>1
<1> QED BY <1>4, <1>5, <1>6, SeqEqual

\* The two parts of a concatenation.
LEMMA Parts ==
    ASSUME NEW S, NEW s \in Seq(S), NEW t \in Seq(S)
    PROVE  SubSeq(s \o t, 1, Len(s)) = s /\ From(s \o t, Len(s) + 1) = t
<1>1. Len(s) \in Nat /\ Len(t) \in Nat
  BY LenProperties
<1>2. s \o t \in Seq(S) /\ Len(s \o t) = Len(s) + Len(t)
  BY Concatenation
<1>3. SubSeq(s \o t, 1, Len(s)) = s
  <2>1. /\ SubSeq(s \o t, 1, Len(s)) \in Seq(S) /\ Len(SubSeq(s \o t, 1, Len(s))) = Len(s)
        /\ \A k \in 1 .. Len(s) : SubSeq(s \o t, 1, Len(s))[k] = (s \o t)[k]
    BY <1>1, <1>2, PrefixFacts
  <2>2. \A k \in 1 .. Len(s) : SubSeq(s \o t, 1, Len(s))[k] = s[k]
    BY <2>1, Concatenation
  <2> QED BY <2>1, <2>2, SeqEqual
<1>4. From(s \o t, Len(s) + 1) = t
  <2> DEFINE r == From(s \o t, Len(s) + 1)
  <2>1. Len(s) + 1 \in 1 .. Len(s \o t) + 1 /\ Len(s \o t) - (Len(s) + 1) + 1 = Len(t)
    BY <1>1, <1>2
  <2>2. /\ r \in Seq(S) /\ Len(r) = Len(t)
        /\ \A k \in 1 .. Len(t) : r[k] = (s \o t)[(Len(s) + 1) + k - 1]
    BY <2>1, <1>2, FromFacts
  <2>3. \A k \in 1 .. Len(t) : (Len(s) + 1) + k - 1 = Len(s) + k
    BY <1>1
  <2>4. /\ r \in Seq(S) /\ Len(r) = Len(t)
        /\ \A k \in 1 .. Len(t) : r[k] = (s \o t)[Len(s) + k]
    BY <2>2, <2>3
  <2>5. \A k \in 1 .. Len(t) : r[k] = t[k]
    BY <2>4, Concatenation
  <2> HIDE DEF r
  <2>6. r = t
    BY <2>4, <2>5, SeqEqual
  <2> QED BY <2>6 DEF r
<1> QED BY <1>3, <1>4

\* A sequence with an element between two parts.
LEMMA Around ==
    ASSUME NEW S, NEW s \in Seq(S), NEW x \in S, NEW t \in Seq(S)
    PROVE  /\ (s \o <<x>>) \o t \in Seq(S)
           /\ Len((s \o <<x>>) \o t) = Len(s) + 1 + Len(t)
           /\ ((s \o <<x>>) \o t)[Len(s) + 1] = x
           /\ SubSeq((s \o <<x>>) \o t, 1, Len(s)) = s
           /\ From((s \o <<x>>) \o t, Len(s) + 2) = t
           /\ (s \o <<x>>) \o t = s \o (<<x>> \o t)
           /\ <<x>> \o t \in Seq(S)
<1>1. Len(s) \in Nat /\ Len(t) \in Nat
  BY LenProperties
<1>2. PICK one \in Seq(S) : one = <<x>> /\ Len(one) = 1
  BY Singleton
<1>3. PICK xt \in Seq(S) : xt = one \o t
  BY Concatenation
<1>4. xt = <<x>> \o t
  BY <1>2, <1>3
<1>5. Len(xt) = 1 + Len(t)
  BY <1>4, Prepending
<1>6. xt[1] = x
  BY <1>4, Prepending
<1>7. PICK sx \in Seq(S) : sx = s \o one
  BY Concatenation
<1>8. Len(sx) = Len(s) + 1
  BY <1>2, <1>7, Concatenation
<1>9. PICK all \in Seq(S) : all = s \o xt
  BY Concatenation
<1>10. sx \o t = all
  BY <1>3, <1>7, <1>9, ConcatAssociative
<1>11. Len(all) = Len(s) + 1 + Len(t)
  <2>1. Len(all) = Len(s) + Len(xt)
    BY <1>9, Concatenation
  <2> QED BY <1>1, <1>5, <2>1
<1>12. all[Len(s) + 1] = xt[1]
  BY <1>1, <1>5, <1>9, Concatenation
<1>13. SubSeq(all, 1, Len(s)) = s
  BY <1>9, Parts
<1>14. From(all, Len(sx) + 1) = t
  BY <1>10, Parts
<1>15. Len(sx) + 1 = Len(s) + 2
  BY <1>1, <1>8
<1>16. all = (s \o <<x>>) \o t
  BY <1>2, <1>7, <1>10
<1>17. s \o (<<x>> \o t) = all
  BY <1>4, <1>9
<1> QED BY <1>4, <1>6, <1>11, <1>12, <1>13, <1>14, <1>15, <1>16, <1>17

\* A sequence is its two parts.
LEMMA Split ==
    ASSUME NEW S, NEW s \in Seq(S), NEW n \in 0 .. Len(s)
    PROVE  s = SubSeq(s, 1, n) \o From(s, n + 1)
<1>1. Len(s) \in Nat
  BY LenProperties
<1>2. SubSeq(s, 1, n) \o SubSeq(s, n + 1, Len(s)) = SubSeq(s, 1, Len(s))
  <2>1. 1 \in 1 .. Len(s) + 1 /\ n \in 1 - 1 .. Len(s) /\ Len(s) \in n .. Len(s)
    BY <1>1
  <2> QED BY <2>1, ConcatAdjacentSubSeq
<1>3. SubSeq(s, 1, Len(s)) = s
  BY SubSeqFull
<1> QED BY <1>2, <1>3 DEF From

\* Words of a concatenation.
LEMMA PackedConcatenation ==
    ASSUME NEW a \in Seq(Word), NEW b \in Seq(Word)
    PROVE  PackWords(a \o b) = PackWords(a) \o PackWords(b)
<1> DEFINE p == PackWords(a)
           q == PackWords(b)
           r == PackWords(a \o b)
<1>1. Len(a) \in Nat /\ Len(b) \in Nat
  BY LenProperties
<1>2. a \o b \in Seq(Word) /\ Len(a \o b) = Len(a) + Len(b)
  BY Concatenation
<1>3. /\ p \in Seq(Byte) /\ Len(p) = 2 * Len(a) /\ q \in Seq(Byte) /\ Len(q) = 2 * Len(b)
      /\ r \in Seq(Byte) /\ Len(r) = 2 * (Len(a) + Len(b))
  BY <1>2, PackWordsFacts
<1>4. p \o q \in Seq(Byte) /\ Len(p \o q) = Len(r)
  <2>1. p \o q \in Seq(Byte) /\ Len(p \o q) = Len(p) + Len(q)
    BY <1>3, Concatenation
  <2>2. 2 * Len(a) + 2 * Len(b) = 2 * (Len(a) + Len(b))
    BY <1>1
  <2> QED BY <1>3, <2>1, <2>2
<1>5. ASSUME NEW k \in 1 .. Len(r) PROVE (p \o q)[k] = r[k]
  <2> DEFINE i == (k + 1) \div 2
  <2>1. i \in 1 .. Len(a) + Len(b) /\ (k = 2 * i - 1 \/ k = 2 * i)
    BY <1>1, <1>3
  <2> HIDE DEF i
  <2>2. r[2 * i - 1] = (a \o b)[i] \div 256 /\ r[2 * i] = (a \o b)[i] % 256
    BY <1>2, <2>1, PackWordsFacts, ZenonT(60)
  <2>3. CASE i <= Len(a)
    <3>1. i \in 1 .. Len(a) /\ 2 * i - 1 \in 1 .. Len(p) /\ 2 * i \in 1 .. Len(p)
      BY <1>1, <1>3, <2>1, <2>3
    <3>2. (a \o b)[i] = a[i]
      BY <3>1, Concatenation
    <3>3. (p \o q)[2 * i - 1] = p[2 * i - 1] /\ (p \o q)[2 * i] = p[2 * i]
      BY <1>3, <3>1, Concatenation
    <3>4. p[2 * i - 1] = a[i] \div 256 /\ p[2 * i] = a[i] % 256
      BY <3>1, PackWordsFacts
    <3> QED BY <2>1, <2>2, <3>2, <3>3, <3>4, ZenonT(60)
  <2>4. CASE ~ (i <= Len(a))
    <3> DEFINE j == i - Len(a)
    <3>1. /\ j \in 1 .. Len(b) /\ 2 * j - 1 \in 1 .. Len(q) /\ 2 * j \in 1 .. Len(q)
          /\ i = Len(a) + j /\ 2 * i - 1 = Len(p) + (2 * j - 1) /\ 2 * i = Len(p) + 2 * j
      BY <1>1, <1>3, <2>1, <2>4
    <3> HIDE DEF j
    <3>2. (a \o b)[i] = b[j]
      BY <3>1, Concatenation, SMTT(40)
    <3>3. /\ (p \o q)[Len(p) + (2 * j - 1)] = q[2 * j - 1]
          /\ (p \o q)[Len(p) + 2 * j] = q[2 * j]
      <4>1. \A m \in 1 .. Len(q) : (p \o q)[Len(p) + m] = q[m]
        BY <1>3, Concatenation, SMTT(30)
      <4> QED BY <3>1, <4>1, SMTT(30)
    <3>4. q[2 * j - 1] = b[j] \div 256 /\ q[2 * j] = b[j] % 256
      BY <3>1, PackWordsFacts, SMTT(30)
    <3> QED BY <2>1, <2>2, <3>1, <3>2, <3>3, <3>4, ZenonT(60)
  <2> QED BY <2>3, <2>4
<1>6. p \o q = r
  BY <1>3, <1>4, <1>5, SeqEqual
<1> QED BY <1>6

\* The first words of a payload that begins with them.
LEMMA UnpackedPrefix ==
    ASSUME NEW a \in Seq(Word), NEW rest \in Seq(Byte)
    PROVE  /\ Len(UnpackWords(PackWords(a) \o rest)) >= Len(a)
           /\ \A i \in 1 .. Len(a) : UnpackWords(PackWords(a) \o rest)[i] = a[i]
<1> DEFINE p == PackWords(a)
<1>1. Len(a) \in Nat /\ Len(rest) \in Nat
  BY LenProperties
<1>2. p \in Seq(Byte) /\ Len(p) = 2 * Len(a)
  BY PackWordsFacts
<1>3. p \o rest \in Seq(Byte) /\ Len(p \o rest) = 2 * Len(a) + Len(rest)
  BY <1>2, Concatenation
<1>4. Len(UnpackWords(p \o rest)) = Len(p \o rest) \div 2
  BY <1>3, UnpackWordsFacts
<1>5. ASSUME NEW i \in 1 .. Len(a) PROVE UnpackWords(p \o rest)[i] = a[i]
  <2>1. /\ i \in 1 .. Len(p \o rest) \div 2
        /\ 2 * i - 1 \in 1 .. Len(p) /\ 2 * i \in 1 .. Len(p)
    BY <1>1, <1>2, <1>3
  <2>2. UnpackWords(p \o rest)[i] = 256 * (p \o rest)[2 * i - 1] + (p \o rest)[2 * i]
    BY <1>3, <2>1, UnpackWordsFacts
  <2>3. (p \o rest)[2 * i - 1] = p[2 * i - 1] /\ (p \o rest)[2 * i] = p[2 * i]
    BY <1>2, <2>1, Concatenation
  <2>4. p[2 * i - 1] = a[i] \div 256 /\ p[2 * i] = a[i] % 256
    BY PackWordsFacts
  <2>5. a[i] \in Word
    BY SeqElement
  <2> QED BY <2>2, <2>3, <2>4, <2>5, BytesOfWord
<1>6. Len(p \o rest) \div 2 >= Len(a)
  BY <1>1, <1>3
<1> QED BY <1>4, <1>5, <1>6

-----------------------------------------------------------------------------
(***************************************************************************)
(* Requests.                                                               *)
(***************************************************************************)
LEMMA Retyped ==
    ASSUME NEW S, NEW T, NEW s \in Seq(S), \A i \in 1 .. Len(s) : s[i] \in T
    PROVE  s \in Seq(T)
<1>1. Len(s) \in Nat /\ s \in [1 .. Len(s) -> S]
  BY LenProperties
<1>2. s \in [1 .. Len(s) -> T]
  BY <1>1
<1> QED BY <1>1, <1>2, FunctionIsSeq

\* Words, the count of the bytes that follow, and these bytes.
Layout(head, rest) == PackWords(head) \o <<Len(rest)>> \o rest

\* Words, a byte count and the bytes it counts: each is found at its place.
LEMMA LayoutFacts ==
    ASSUME NEW head \in Seq(Word), NEW rest \in Seq(Byte), Len(rest) \in Byte,
           NEW i \in Nat, i = 2 * Len(head) + 1
    PROVE  /\ Layout(head, rest) \in Seq(Byte) /\ Len(Layout(head, rest)) = i + Len(rest)
           /\ Layout(head, rest)[i] = Len(rest)
           /\ From(Layout(head, rest), i + 1) = rest
           /\ Len(UnpackWords(Layout(head, rest))) >= Len(head)
           /\ \A k \in 1 .. Len(head) : UnpackWords(Layout(head, rest))[k] = head[k]
           /\ SubSeq(Layout(head, rest), 1, i - 1) = PackWords(head)
<1> DEFINE p == PackWords(head)
           payload == Layout(head, rest)
<1>1. Len(head) \in Nat /\ Len(rest) \in Nat
  BY LenProperties
<1>2. p \in Seq(Byte) /\ Len(p) = 2 * Len(head)
  BY PackWordsFacts
<1>3. payload = (p \o <<Len(rest)>>) \o rest
  BY DEF Layout
<1> HIDE DEF p, payload
<1>4. /\ payload \in Seq(Byte) /\ Len(payload) = Len(p) + 1 + Len(rest)
      /\ payload[Len(p) + 1] = Len(rest)
      /\ SubSeq(payload, 1, Len(p)) = p
      /\ From(payload, Len(p) + 2) = rest
      /\ payload = p \o (<<Len(rest)>> \o rest) /\ <<Len(rest)>> \o rest \in Seq(Byte)
  <2>1. PICK n \in Byte : n = Len(rest)
    OBVIOUS
  <2>2. payload = (p \o <<n>>) \o rest
    BY <1>3, <2>1
  <2> HIDE <1>3
  <2>3. /\ (p \o <<n>>) \o rest \in Seq(Byte)
        /\ Len((p \o <<n>>) \o rest) = Len(p) + 1 + Len(rest)
        /\ ((p \o <<n>>) \o rest)[Len(p) + 1] = n
        /\ SubSeq((p \o <<n>>) \o rest, 1, Len(p)) = p
        /\ From((p \o <<n>>) \o rest, Len(p) + 2) = rest
        /\ (p \o <<n>>) \o rest = p \o (<<n>> \o rest)
        /\ <<n>> \o rest \in Seq(Byte)
    BY <1>2, Around
  <2> QED BY <2>1, <2>2, <2>3
<1>5. Len(p) + 1 = i /\ Len(p) = i - 1 /\ Len(p) + 2 = i + 1
  BY <1>1, <1>2
<1>6. /\ Len(UnpackWords(payload)) >= Len(head)
      /\ \A k \in 1 .. Len(head) : UnpackWords(payload)[k] = head[k]
  BY <1>4, UnpackedPrefix DEF p
<1>7. /\ payload \in Seq(Byte) /\ Len(payload) = i + Len(rest)
      /\ payload[i] = Len(rest) /\ SubSeq(payload, 1, i - 1) = p
      /\ From(payload, i + 1) = rest
  BY <1>4, <1>5
<1> QED BY <1>6, <1>7 DEF p, payload

\* A request as its class makes it, when __post_init__ raises nothing.
Valid(q) == IsRequest(q) /\ q.by = "standard" /\ PostInit(q)

\* The types of a valid request of a standard class.
LEMMA ValidFacts ==
    ASSUME NEW q, Valid(q)
    PROVE  /\ q = Request("standard", q.fc, q.fields, q.values)
           /\ q.fc \in FunctionCode \cup {EncapsulatedInterface} /\ q.fc \in 0 .. 127
           /\ q.fields \in Seq(Word) /\ Len(q.fields) = FieldCount(q.fc)
           /\ q.values \in Seq(Word)
<1>1. q.fields \in Seq(Int) /\ q.values \in Seq(Int)
  BY DEF Valid, IsRequest
<1>2. DOMAIN q.fields = 1 .. Len(q.fields) /\ DOMAIN q.values = 1 .. Len(q.values)
  BY <1>1, LenProperties
<1>3. AreWords(q.fields) /\ AreWords(q.values)
  BY DEF Valid, PostInit
<1>4. /\ \A i \in 1 .. Len(q.fields) : q.fields[i] \in Word
      /\ \A i \in 1 .. Len(q.values) : q.values[i] \in Word
  BY <1>2, <1>3 DEF AreWords
<1>5. q.fields \in Seq(Word) /\ q.values \in Seq(Word)
  BY <1>1, <1>4, Retyped
<1>6. q.fc \in 0 .. 127
  BY DEF Valid, IsRequest, FunctionCode, ReadBits, ReadRegisters, WriteSingleCoil,
         WriteSingleRegister, WriteMultipleCoils, WriteMultipleRegisters,
         MaskWriteRegister, ReadWriteMultipleRegisters, EncapsulatedInterface
<1> QED BY <1>5, <1>6 DEF Valid, IsRequest

Codes == {1, 2, 3, 4, 5, 6, 15, 16, 22, 23, 43}

\* The function codes, as numbers.
LEMMA CodeNumbers ==
    /\ ReadBits = {1, 2} /\ ReadRegisters = {3, 4}
    /\ WriteSingleCoil = 5 /\ WriteSingleRegister = 6 /\ WriteMultipleCoils = 15
    /\ WriteMultipleRegisters = 16 /\ MaskWriteRegister = 22
    /\ ReadWriteMultipleRegisters = 23 /\ EncapsulatedInterface = 43
    /\ FunctionCode = {1, 2, 3, 4, 5, 6, 15, 16, 22, 23}
BY DEF FunctionCode, ReadBits, ReadRegisters, WriteSingleCoil, WriteSingleRegister,
       WriteMultipleCoils, WriteMultipleRegisters, MaskWriteRegister,
       ReadWriteMultipleRegisters, EncapsulatedInterface

\* A request comes back from its PDU, the function code and what follows it.
ComesBack(q) ==
    \E body \in Seq(Byte) :
        /\ EncodeRequest(q) = <<q.fc>> \o body /\ Len(body) >= 2 /\ Len(body) <= 252
        /\ q.fc = EncapsulatedInterface => body[1] = READ_DEVICE_IDENTIFICATION_MEI_TYPE
        /\ WellFormed(q.fc, body) /\ Parsed(q.fc, body) = q

\* Reads, the write of a register and the mask write, which are words only.
LEMMA PlainRequestComesBack ==
    ASSUME NEW q, Valid(q), q.fc \in {1, 2, 3, 4, 6, 22}
    PROVE  ComesBack(q)
<1> DEFINE body == PackWords(q.fields)
<1>1. /\ q = Request("standard", q.fc, q.fields, q.values) /\ q.by = "standard"
      /\ q.fields \in Seq(Word) /\ Len(q.fields) = FieldCount(q.fc)
  BY ValidFacts DEF Valid
<1>2. q.values = <<>>
  BY CodeNumbers DEF Valid, IsRequest
<1>3. body \in Seq(Byte) /\ Len(body) = 2 * FieldCount(q.fc)
  BY <1>1, PackWordsFacts
<1>4. Len(body) = IF q.fc = 22 THEN 6 ELSE 4
  BY <1>3, CodeNumbers DEF FieldCount
<1>5. UnpackWords(body) = q.fields
  BY <1>1, UnpackPackedWords
<1>6. EncodeRequest(q) = <<q.fc>> \o body
  <2>1. /\ q.fc # WriteSingleCoil /\ q.fc # WriteMultipleCoils /\ q.fc # EncapsulatedInterface
        /\ q.fc \notin {WriteMultipleRegisters, ReadWriteMultipleRegisters}
    BY CodeNumbers
  <2> QED BY <1>1, <2>1 DEF EncodeRequest
<1> HIDE DEF body
<1>7. WellFormed(q.fc, body)
  BY <1>4, CodeNumbers DEF WellFormed
<1>8. Parsed(q.fc, body) = Request("standard", q.fc, q.fields, <<>>)
  BY <1>5, CodeNumbers DEF Parsed
<1>9. Parsed(q.fc, body) = q
  BY <1>1, <1>2, <1>8
<1>10. Len(body) >= 2 /\ Len(body) <= 252 /\ q.fc # EncapsulatedInterface
  BY <1>4, CodeNumbers
<1> QED BY <1>3, <1>6, <1>7, <1>9, <1>10 DEF ComesBack

\* A coil is on or off.
LEMMA CoilRequestComesBack ==
    ASSUME NEW q, Valid(q), q.fc = 5
    PROVE  ComesBack(q)
<1> DEFINE coil == CoilWord(q.values[1])
           words == q.fields \o <<coil>>
           body == PackWords(words)
<1>1. /\ q = Request("standard", q.fc, q.fields, q.values) /\ q.by = "standard"
      /\ q.fields \in Seq(Word) /\ Len(q.fields) = 1 /\ q.values \in Seq(Word)
  <2>1. FieldCount(q.fc) = 1
    BY CodeNumbers DEF FieldCount
  <2> QED BY <2>1, ValidFacts DEF Valid
<1>2. Len(q.values) = 1 /\ q.values[1] \in {0, 1}
  <2>1. Len(q.values) = 1 /\ AreBools(q.values)
    BY CodeNumbers DEF Valid, IsRequest, PostInit
  <2>2. 1 \in DOMAIN q.values
    BY <1>1, <2>1, LenProperties
  <2> QED BY <2>1, <2>2 DEF AreBools
<1>3. coil \in Word /\ coil \in {COIL_ON, COIL_OFF}
      /\ (IF coil = COIL_ON THEN 1 ELSE 0) = q.values[1]
  BY <1>2, WordIs DEF CoilWord, COIL_ON, COIL_OFF
<1>4. <<coil>> \in Seq(Word) /\ Len(<<coil>>) = 1 /\ <<coil>>[1] = coil
  BY <1>3, Singleton
<1> HIDE DEF coil
<1>5. words \in Seq(Word) /\ Len(words) = 2
  <2>1. words \in Seq(Word) /\ Len(words) = Len(q.fields) + Len(<<coil>>)
    BY <1>1, <1>4, Concatenation, ZenonT(60)
  <2> QED BY <1>1, <1>4, <2>1
<1>6. words[1] = q.fields[1] /\ words[2] = coil
  <2>1. 1 \in 1 .. Len(q.fields) /\ 1 \in 1 .. Len(<<coil>>)
    BY <1>1, <1>4
  <2>2. words[1] = q.fields[1] /\ words[Len(q.fields) + 1] = <<coil>>[1]
    BY <1>1, <1>4, <2>1, Concatenation
  <2> QED BY <1>1, <1>4, <2>2
<1>7. EncodeRequest(q) = <<q.fc>> \o body
  <2>1. EncodeRequest(q) = <<q.fc>> \o (PackWords(q.fields) \o PackWords(<<coil>>))
    BY <1>1, CodeNumbers DEF EncodeRequest, coil
  <2>2. body = PackWords(q.fields) \o PackWords(<<coil>>)
    BY <1>1, <1>4, PackedConcatenation
  <2> QED BY <2>1, <2>2
<1> HIDE DEF words
<1>8. body \in Seq(Byte) /\ Len(body) = 4 /\ UnpackWords(body) = words
  <2>1. body \in Seq(Byte) /\ Len(body) = 2 * Len(words)
    BY <1>5, PackWordsFacts
  <2>2. UnpackWords(body) = words
    BY <1>5, UnpackPackedWords
  <2> QED BY <1>5, <2>1, <2>2
<1> HIDE DEF body
<1>9. WellFormed(q.fc, body)
  BY <1>3, <1>6, <1>8, CodeNumbers DEF WellFormed
<1>10. Parsed(q.fc, body) = Request("standard", q.fc, <<q.fields[1]>>, <<q.values[1]>>)
  BY <1>3, <1>6, <1>8, CodeNumbers DEF Parsed
<1>11. <<q.fields[1]>> = q.fields /\ <<q.values[1]>> = q.values
  BY <1>1, <1>2, OnlyElement
<1>12. Parsed(q.fc, body) = q
  BY <1>1, <1>10, <1>11
<1>13. Len(body) >= 2 /\ Len(body) <= 252 /\ q.fc # EncapsulatedInterface
  BY <1>8, CodeNumbers
<1> QED BY <1>7, <1>8, <1>9, <1>12, <1>13 DEF ComesBack

\* What is read again from fields, a count of values, and as many bytes as the
\* i-th says.
ReadAgain(body, i, fields, n, rest) ==
    /\ body \in Seq(Byte) /\ Len(body) = i + Len(rest) /\ body[i] = Len(rest)
    /\ From(body, i + 1) = rest
    /\ Len(UnpackWords(body)) >= Len(fields) + 1
    /\ UnpackWords(body)[Len(fields) + 1] = n
    /\ \A k \in 1 .. Len(fields) : UnpackWords(body)[k] = fields[k]

\* After words, a count and a byte count, all of them are read again.
LEMMA CountedLayout ==
    ASSUME NEW fields \in Seq(Word), NEW n \in Word, NEW rest \in Seq(Byte),
           Len(rest) \in Byte, NEW i \in Nat, i = 2 * Len(fields) + 3, NEW body,
           body = (PackWords(fields) \o PackWords(<<n>>)) \o <<Len(rest)>> \o rest
    PROVE  ReadAgain(body, i, fields, n, rest)
<1>1. PICK head \in Seq(Word) : head = fields \o <<n>>
  BY Appended
<1>2. Len(head) = Len(fields) + 1 /\ head[Len(fields) + 1] = n
  BY <1>1, Appended
<1>3. \A k \in 1 .. Len(fields) : head[k] = fields[k]
  BY <1>1, Appended
<1>4. Len(fields) \in Nat
  BY LenProperties
<1>5. PackWords(head) = PackWords(fields) \o PackWords(<<n>>)
  BY <1>1, Singleton, PackedConcatenation
<1>6. body = Layout(head, rest)
  BY <1>5 DEF Layout
<1>7. i = 2 * Len(head) + 1
  BY <1>2, <1>4
<1>8. /\ body \in Seq(Byte) /\ Len(body) = i + Len(rest) /\ body[i] = Len(rest)
      /\ From(body, i + 1) = rest
      /\ Len(UnpackWords(body)) >= Len(head)
      /\ \A k \in 1 .. Len(head) : UnpackWords(body)[k] = head[k]
  <2>1. /\ Layout(head, rest) \in Seq(Byte) /\ Len(Layout(head, rest)) = i + Len(rest)
        /\ Layout(head, rest)[i] = Len(rest) /\ From(Layout(head, rest), i + 1) = rest
        /\ Len(UnpackWords(Layout(head, rest))) >= Len(head)
        /\ \A k \in 1 .. Len(head) : UnpackWords(Layout(head, rest))[k] = head[k]
    BY <1>7, LayoutFacts
  <2> QED BY <1>6, <2>1
<1>9. \A k \in 1 .. Len(fields) : k \in 1 .. Len(head)
  BY <1>2, <1>4
<1>10. Len(fields) + 1 \in 1 .. Len(head)
  BY <1>2, <1>4
<1>11. /\ UnpackWords(body)[Len(fields) + 1] = n
       /\ \A k \in 1 .. Len(fields) : UnpackWords(body)[k] = fields[k]
  BY <1>2, <1>3, <1>8, <1>9, <1>10
<1> QED BY <1>2, <1>8, <1>11 DEF ReadAgain

\* The write of several coils, whose bits are packed.
LEMMA CoilsRequestComesBack ==
    ASSUME NEW q, Valid(q), q.fc = 15
    PROVE  ComesBack(q)
<1>1. /\ q = Request("standard", q.fc, q.fields, q.values) /\ q.by = "standard"
      /\ q.fields \in Seq(Word) /\ Len(q.fields) = 1 /\ q.values \in Seq(Word)
  <2>1. FieldCount(q.fc) = 1
    BY CodeNumbers DEF FieldCount
  <2> QED BY <2>1, ValidFacts DEF Valid
<1>2. PICK n \in 1 .. MaxWritten(q.fc) : n = Len(q.values)
  <2>1. q.fc = WriteMultipleCoils
    BY CodeNumbers
  <2>2. Len(q.values) \in 1 .. MaxWritten(q.fc)
    BY <1>1, <2>1 DEF PostInit, Valid
  <2> QED BY <2>2
<1>3. n \in Nat /\ 1 <= n /\ n <= 1968
  <2>1. MaxWritten(q.fc) = 1968
    BY CodeNumbers DEF MaxWritten
  <2> QED BY <2>1
<1>4. q.values \in Seq({0, 1})
  <2>1. DOMAIN q.values = 1 .. n
    BY <1>1, <1>2, LenProperties
  <2>2. AreBools(q.values)
    BY CodeNumbers DEF Valid, PostInit
  <2>3. \A i \in 1 .. n : q.values[i] \in {0, 1}
    BY <2>1, <2>2 DEF AreBools
  <2> QED BY <1>1, <1>2, <2>3, Retyped
<1>5. PICK bits \in Seq(Byte) : bits = pack_bits(q.values) /\ Len(bits) = BytesFor(n)
  BY <1>2, <1>4, PackBitsFacts
<1>6. /\ BytesFor(n) \in Nat /\ 1 <= BytesFor(n) /\ BytesFor(n) <= 246
      /\ n \in Word
  <2>1. (n + 7) \div 8 \in Nat /\ 1 <= (n + 7) \div 8 /\ (n + 7) \div 8 <= 246
    BY <1>3
  <2>2. n \in Word
    BY <1>3, SmallNumber
  <2> QED BY <2>1, <2>2 DEF BytesFor
<1>7. unpack_bits(bits, n) = q.values
  BY <1>2, <1>4, <1>5, UnpackPackedBits
<1> DEFINE body == (PackWords(q.fields) \o PackWords(<<n>>)) \o <<Len(bits)>> \o bits
<1>8. EncodeRequest(q) = <<q.fc>> \o body
  BY <1>1, <1>2, <1>5, CodeNumbers DEF EncodeRequest
<1>9. /\ body \in Seq(Byte) /\ Len(body) = 5 + Len(bits) /\ body[5] = Len(bits)
      /\ From(body, 6) = bits
      /\ UnpackWords(body)[2] = n /\ UnpackWords(body)[1] = q.fields[1]
  <2>1. BytesFor(n) \in Byte
    BY <1>6, SmallNumber
  <2>2. Len(bits) \in Byte /\ 5 = 2 * Len(q.fields) + 3
    BY <1>1, <1>5, <2>1
  <2> HIDE DEF body
  <2>3. body = (PackWords(q.fields) \o PackWords(<<n>>)) \o <<Len(bits)>> \o bits
    BY DEF body
  <2>4. ReadAgain(body, 5, q.fields, n, bits)
    BY <1>1, <1>6, <2>2, <2>3, CountedLayout
  <2> QED BY <1>1, <2>4 DEF ReadAgain
<1> HIDE DEF body
<1>10. WellFormed(q.fc, body)
  <2>1. body[5] >= BytesFor(UnpackWords(body)[2])
    BY <1>5, <1>6, <1>9
  <2>2. CountsRest(body, 5)
    BY <1>5, <1>6, <1>9 DEF CountsRest
  <2> QED BY <2>1, <2>2, CodeNumbers DEF WellFormed
<1>11. Parsed(q.fc, body) = Request("standard", q.fc, <<q.fields[1]>>, q.values)
  BY <1>7, <1>9, CodeNumbers DEF Parsed
<1>12. <<q.fields[1]>> = q.fields
  BY <1>1, OnlyElement
<1>13. Len(body) >= 2 /\ Len(body) <= 252 /\ q.fc # EncapsulatedInterface
  <2>1. Len(bits) \in Nat /\ Len(bits) <= 246
    BY <1>5, <1>6
  <2>2. q.fc # EncapsulatedInterface
    BY CodeNumbers
  <2> QED BY <1>9, <2>1, <2>2
<1>14. Parsed(q.fc, body) = q
  BY <1>1, <1>11, <1>12
<1> QED BY <1>8, <1>9, <1>10, <1>13, <1>14 DEF ComesBack

\* How many values a request writes.
LEMMA WrittenCount ==
    ASSUME NEW q, Valid(q), q.fc \in {15, 16, 23}
    PROVE  /\ Len(q.values) \in Nat /\ 1 <= Len(q.values)
           /\ Len(q.values) <= IF q.fc = 15 THEN 1968 ELSE IF q.fc = 16 THEN 123 ELSE 121
<1>1. q.fc \in {WriteMultipleCoils, WriteMultipleRegisters, ReadWriteMultipleRegisters}
  BY CodeNumbers
<1>2. MaxWritten(q.fc) = IF q.fc = 15 THEN 1968 ELSE IF q.fc = 16 THEN 123 ELSE 121
  BY CodeNumbers DEF MaxWritten
<1>3. Len(q.values) \in 1 .. MaxWritten(q.fc)
  BY <1>1 DEF PostInit, Valid
<1>4. q.values \in Seq(Word)
  BY ValidFacts
<1>5. Len(q.values) \in Nat
  BY <1>4, LenProperties
<1> QED BY <1>2, <1>3, <1>5

\* Registers: two bytes each.
LEMMA RegistersRequestComesBack ==
    ASSUME NEW q, Valid(q), q.fc \in {16, 23}
    PROVE  ComesBack(q)
<1> DEFINE rest == PackWords(q.values)
           m == IF q.fc = 16 THEN 1 ELSE 3
           i == 2 * m + 3
<1>1. /\ q = Request("standard", q.fc, q.fields, q.values) /\ q.by = "standard"
      /\ q.fields \in Seq(Word) /\ Len(q.fields) = m /\ q.values \in Seq(Word)
  <2>1. FieldCount(q.fc) = m
    BY CodeNumbers DEF FieldCount
  <2> QED BY <2>1, ValidFacts DEF Valid
<1>2. PICK n \in Nat : n = Len(q.values)
  BY <1>1, LenProperties
<1>3. 1 <= n /\ n <= 123
  BY <1>2, WrittenCount
<1>4. rest \in Seq(Byte) /\ Len(rest) = 2 * n /\ UnpackWords(rest) = q.values
  BY <1>1, <1>2, PackWordsFacts, UnpackPackedWords
<1> HIDE DEF rest
<1>5. n \in Word /\ 2 * n \in Byte
  BY <1>3, SmallNumber
<1> DEFINE body == (PackWords(q.fields) \o PackWords(<<n>>)) \o <<Len(rest)>> \o rest
<1>6. EncodeRequest(q) = <<q.fc>> \o body
  BY <1>1, <1>2, CodeNumbers DEF EncodeRequest, rest
<1>7. ReadAgain(body, i, q.fields, n, rest)
  <2>1. i \in Nat /\ i = 2 * Len(q.fields) + 3 /\ Len(rest) \in Byte
    BY <1>1, <1>4, <1>5
  <2> HIDE DEF body, i, m
  <2>2. body = (PackWords(q.fields) \o PackWords(<<n>>)) \o <<Len(rest)>> \o rest
    BY DEF body
  <2> QED BY <1>1, <1>4, <1>5, <2>1, <2>2, CountedLayout
<1> HIDE DEF body
<1>8. /\ body \in Seq(Byte) /\ Len(body) = i + 2 * n /\ body[i] = 2 * n
      /\ From(body, i + 1) = rest
      /\ UnpackWords(body) \in Seq(Word) /\ Len(UnpackWords(body)) >= m + 1
      /\ UnpackWords(body)[m + 1] = n
      /\ \A k \in 1 .. m : UnpackWords(body)[k] = q.fields[k]
  <2>1. body \in Seq(Byte)
    BY <1>7 DEF ReadAgain
  <2>2. UnpackWords(body) \in Seq(Word)
    BY <2>1, UnpackWordsFacts
  <2> QED BY <1>1, <1>4, <1>7, <2>2 DEF ReadAgain
<1>9. Counted(body, i, n)
  <2>1. body[i] % 2 = 0 /\ n = body[i] \div 2
    BY <1>8
  <2>2. CountsRest(body, i)
    BY <1>8 DEF CountsRest
  <2> QED BY <2>1, <2>2 DEF Counted
<1>10. CASE q.fc = 16
  <2>1. WellFormed(q.fc, body)
    <3>1. Len(body) >= 5 /\ i = 5 /\ UnpackWords(body)[2] = n
      BY <1>8, <1>10
    <3> QED BY <1>9, <1>10, <3>1, CodeNumbers DEF WellFormed
  <2>2. From(body, 6) = rest /\ UnpackWords(body)[1] = q.fields[1]
    BY <1>8, <1>10
  <2>3. Parsed(q.fc, body) = Request("standard", q.fc, <<q.fields[1]>>, q.values)
    BY <1>4, <1>10, <2>2, CodeNumbers DEF Parsed
  <2>4. <<q.fields[1]>> = q.fields
    BY <1>1, <1>10, OnlyElement
  <2>5. Parsed(q.fc, body) = q
    BY <1>1, <2>3, <2>4
  <2>6. Len(body) >= 2 /\ Len(body) <= 252 /\ q.fc # EncapsulatedInterface
    BY <1>3, <1>8, <1>10, CodeNumbers
  <2> QED BY <1>6, <1>8, <2>1, <2>5, <2>6 DEF ComesBack
<1>11. CASE q.fc = 23
  <2>1. WellFormed(q.fc, body)
    <3>1. Len(body) >= 9 /\ i = 9 /\ UnpackWords(body)[4] = n
      BY <1>8, <1>11
    <3> QED BY <1>9, <1>11, <3>1, CodeNumbers DEF WellFormed
  <2>2. From(body, 10) = rest
    BY <1>8, <1>11
  <2>3. SubSeq(UnpackWords(body), 1, 3) = q.fields
    <3>1. 3 \in 0 .. Len(UnpackWords(body)) /\ Len(q.fields) = 3
      BY <1>1, <1>8, <1>11
    <3>2. /\ SubSeq(UnpackWords(body), 1, 3) \in Seq(Word)
          /\ Len(SubSeq(UnpackWords(body), 1, 3)) = 3
          /\ \A k \in 1 .. 3 : SubSeq(UnpackWords(body), 1, 3)[k] = UnpackWords(body)[k]
      BY <1>8, <3>1, PrefixFacts
    <3>3. \A k \in 1 .. 3 : SubSeq(UnpackWords(body), 1, 3)[k] = q.fields[k]
      BY <1>8, <1>11, <3>2
    <3> QED BY <1>1, <3>1, <3>2, <3>3, SeqEqual
  <2>4. Parsed(q.fc, body) = Request("standard", q.fc, q.fields, q.values)
    <3>1. /\ q.fc # WriteSingleCoil /\ q.fc # WriteMultipleCoils
          /\ q.fc # WriteMultipleRegisters /\ q.fc # EncapsulatedInterface
          /\ q.fc = ReadWriteMultipleRegisters
      BY <1>11, CodeNumbers
    <3>2. UnpackWords(From(body, 10)) = q.values
      BY <1>4, <2>2
    <3> QED BY <2>3, <3>1, <3>2 DEF Parsed
  <2>5. Parsed(q.fc, body) = q
    BY <1>1, <2>4
  <2>6. n <= 121
    BY <1>2, <1>11, WrittenCount
  <2>7. Len(body) >= 2 /\ Len(body) <= 252 /\ q.fc # EncapsulatedInterface
    BY <1>8, <1>11, <2>6, CodeNumbers
  <2> QED BY <1>6, <1>8, <2>1, <2>5, <2>7 DEF ComesBack
<1> QED BY <1>10, <1>11

\* Read Device Identification.
LEMMA IdentificationRequestComesBack ==
    ASSUME NEW q, Valid(q), q.fc = 43
    PROVE  ComesBack(q)
<1> DEFINE body == <<READ_DEVICE_IDENTIFICATION_MEI_TYPE>> \o q.fields
<1>1. /\ q = Request("standard", q.fc, q.fields, q.values) /\ q.by = "standard"
      /\ q.fields \in Seq(Word) /\ Len(q.fields) = 2
  <2>1. FieldCount(q.fc) = 2
    BY CodeNumbers DEF FieldCount
  <2> QED BY <2>1, ValidFacts DEF Valid
<1>2. q.values = <<>> /\ q.fields[1] \in 1 .. 4 /\ q.fields[2] \in Byte
  BY CodeNumbers DEF Valid, IsRequest, PostInit
<1>3. q.fields \in Seq(Byte)
  <2>1. \A k \in 1 .. 2 : q.fields[k] \in Byte
    <3>1. q.fields[1] \in Byte
      BY <1>2, ByteIs
    <3> QED BY <1>2, <3>1
  <2> QED BY <1>1, <2>1, Retyped
<1>4. READ_DEVICE_IDENTIFICATION_MEI_TYPE \in Byte
  BY ByteIs DEF READ_DEVICE_IDENTIFICATION_MEI_TYPE
<1>5. /\ body \in Seq(Byte) /\ Len(body) = 3
      /\ body[1] = READ_DEVICE_IDENTIFICATION_MEI_TYPE /\ Tail(body) = q.fields
  <2>1. Len(body) = 1 + Len(q.fields)
    BY <1>3, <1>4, Prepending
  <2>2. /\ body \in Seq(Byte)
        /\ body[1] = READ_DEVICE_IDENTIFICATION_MEI_TYPE /\ Tail(body) = q.fields
    BY <1>3, <1>4, Prepending
  <2> QED BY <1>1, <2>1, <2>2
<1>6. EncodeRequest(q) = <<q.fc>> \o body
  BY <1>1, CodeNumbers DEF EncodeRequest
<1> HIDE DEF body
<1>7. WellFormed(q.fc, body)
  BY <1>5, CodeNumbers DEF WellFormed
<1>8. Parsed(q.fc, body) = Request("standard", q.fc, q.fields, <<>>)
  <2>1. /\ q.fc # WriteSingleCoil /\ q.fc # WriteMultipleCoils
        /\ q.fc # WriteMultipleRegisters /\ q.fc # ReadWriteMultipleRegisters
        /\ q.fc = EncapsulatedInterface
    BY CodeNumbers
  <2> QED BY <1>5, <2>1 DEF Parsed
<1>9. Parsed(q.fc, body) = q
  BY <1>1, <1>2, <1>8
<1>10. Len(body) >= 2 /\ Len(body) <= 252
  BY <1>5
<1> QED BY <1>5, <1>6, <1>7, <1>9, <1>10 DEF ComesBack

\* What the server decodes from the PDU of a valid request is the request,
\* whatever decoders are registered; and the PDU is one of at most 253 bytes.
LEMMA RequestComesBack ==
    ASSUME NEW q, Valid(q), NEW decoders
    PROVE  /\ EncodeRequest(q) \in Seq(Byte)
           /\ Len(EncodeRequest(q)) >= 3 /\ Len(EncodeRequest(q)) <= 253
           /\ DecodeRequest(EncodeRequest(q), decoders) = Decoded(q)
<1>1. q.fc \in Codes
  BY ValidFacts, CodeNumbers DEF Codes
<1>2. ComesBack(q)
  <2>1. CASE q.fc \in {1, 2, 3, 4, 6, 22}
    BY <2>1, PlainRequestComesBack
  <2>2. CASE q.fc = 5
    BY <2>2, CoilRequestComesBack
  <2>3. CASE q.fc = 15
    BY <2>3, CoilsRequestComesBack
  <2>4. CASE q.fc \in {16, 23}
    BY <2>4, RegistersRequestComesBack
  <2>5. CASE q.fc = 43
    BY <2>5, IdentificationRequestComesBack
  <2> QED BY <1>1, <2>1, <2>2, <2>3, <2>4, <2>5 DEF Codes
<1>3. PICK body \in Seq(Byte) :
        /\ EncodeRequest(q) = <<q.fc>> \o body /\ Len(body) >= 2 /\ Len(body) <= 252
        /\ q.fc = EncapsulatedInterface => body[1] = READ_DEVICE_IDENTIFICATION_MEI_TYPE
        /\ WellFormed(q.fc, body) /\ Parsed(q.fc, body) = q
  BY <1>2 DEF ComesBack
<1>4. q.fc \in Byte
  <2>1. q.fc \in 0 .. 127
    BY ValidFacts
  <2> QED BY <2>1 DEF Byte
<1> DEFINE data == <<q.fc>> \o body
<1>5. /\ data \in Seq(Byte) /\ data # <<>> /\ Head(data) = q.fc /\ Tail(data) = body
      /\ Len(data) = 1 + Len(body)
  BY <1>4, Prepending
<1>6. EncodeRequest(q) = data
  BY <1>3
<1>7. Len(body) \in Nat /\ Len(body) >= 2 /\ Len(body) <= 252
  BY <1>3, LenProperties
<1> HIDE DEF data
<1>8. IsStandard(q.fc, body)
  <2>1. q.fc \in FunctionCode \/ q.fc = EncapsulatedInterface
    BY ValidFacts
  <2>2. body # <<>> /\ Head(body) = body[1]
    BY <1>7
  <2> QED BY <1>3, <2>1, <2>2 DEF IsStandard
<1>9. PostInit(Parsed(q.fc, body))
  BY <1>3 DEF Valid
<1>10. DecodeRequest(data, decoders) = Decoded(q)
  <2>1. WellFormed(q.fc, body) /\ Parsed(q.fc, body) = q
    BY <1>3
  <2> QED BY <1>5, <1>8, <1>9, <2>1 DEF DecodeRequest
<1>11. Len(data) >= 3 /\ Len(data) <= 253
  BY <1>5, <1>7
<1> QED BY <1>5, <1>6, <1>10, <1>11

\* The words a payload begins with.
LEMMA FirstWords ==
    ASSUME NEW data \in Seq(Byte), NEW m \in Nat, 2 * m <= Len(data)
    PROVE  /\ SubSeq(UnpackWords(data), 1, m) \in Seq(Word)
           /\ Len(SubSeq(UnpackWords(data), 1, m)) = m
           /\ \A k \in 1 .. m : SubSeq(UnpackWords(data), 1, m)[k] = UnpackWords(data)[k]
           /\ PackWords(SubSeq(UnpackWords(data), 1, m)) = SubSeq(data, 1, 2 * m)
<1> DEFINE words == UnpackWords(data)
           s == SubSeq(words, 1, m)
           t == SubSeq(data, 1, 2 * m)
<1>1. Len(data) \in Nat
  BY LenProperties
<1>2. /\ words \in Seq(Word) /\ Len(words) = Len(data) \div 2
      /\ \A k \in 1 .. Len(data) \div 2 : words[k] = 256 * data[2 * k - 1] + data[2 * k]
  BY UnpackWordsFacts
<1>3. m \in 0 .. Len(words) /\ 2 * m \in 0 .. Len(data)
  BY <1>1, <1>2
<1> HIDE DEF words
<1>4. s \in Seq(Word) /\ Len(s) = m /\ \A k \in 1 .. m : s[k] = words[k]
  BY <1>2, <1>3, PrefixFacts
<1>5. t \in Seq(Byte) /\ Len(t) = 2 * m /\ \A k \in 1 .. 2 * m : t[k] = data[k]
  BY <1>3, PrefixFacts
<1> HIDE DEF s, t
<1>6. Len(t) % 2 = 0 /\ Len(t) \div 2 = m
  BY <1>5
<1>7. UnpackWords(t) \in Seq(Word) /\ Len(UnpackWords(t)) = m
  BY <1>5, <1>6, UnpackWordsFacts
<1>8. ASSUME NEW k \in 1 .. m PROVE UnpackWords(t)[k] = s[k]
  <2>1. /\ k \in 1 .. Len(data) \div 2 /\ k \in 1 .. Len(t) \div 2
        /\ 2 * k - 1 \in 1 .. 2 * m /\ 2 * k \in 1 .. 2 * m
    BY <1>1, <1>3, <1>2, <1>6
  <2>2. UnpackWords(t)[k] = 256 * t[2 * k - 1] + t[2 * k]
    BY <1>5, <2>1, UnpackWordsFacts, ZenonT(60)
  <2>3. t[2 * k - 1] = data[2 * k - 1] /\ t[2 * k] = data[2 * k]
    BY <1>5, <2>1
  <2>4. words[k] = 256 * data[2 * k - 1] + data[2 * k]
    BY <1>2, <2>1
  <2> QED BY <1>4, <2>2, <2>3, <2>4
<1>9. UnpackWords(t) = s
  BY <1>4, <1>7, <1>8, SeqEqual
<1>10. PackWords(s) = t
  BY <1>5, <1>6, <1>9, PackUnpackedWords
<1> QED BY <1>4, <1>10 DEF s, t, words

\* A payload is its words, the byte after them, and the rest.
TakenApart(data, m, i) ==
    /\ data = (PackWords(SubSeq(UnpackWords(data), 1, m))
                 \o PackWords(<<UnpackWords(data)[m + 1]>>))
              \o <<data[i]>> \o From(data, i + 1)
    /\ SubSeq(UnpackWords(data), 1, m) \in Seq(Word)
    /\ Len(SubSeq(UnpackWords(data), 1, m)) = m
    /\ UnpackWords(data)[m + 1] \in Word
    /\ data[i] \in Byte
    /\ From(data, i + 1) \in Seq(Byte) /\ Len(From(data, i + 1)) = Len(data) - i

\* A payload with a byte count is its words, that count and what follows.
LEMMA CountedParts ==
    ASSUME NEW data \in Seq(Byte), NEW m \in Nat, NEW i \in Nat, i = 2 * m + 3, i <= Len(data)
    PROVE  TakenApart(data, m, i)
<1> DEFINE words == UnpackWords(data)
           s == SubSeq(words, 1, m)
           t == SubSeq(words, 1, m + 1)
           rest == From(data, i + 1)
<1>1. Len(data) \in Nat
  BY LenProperties
<1>2. s \in Seq(Word) /\ Len(s) = m /\ \A k \in 1 .. m : s[k] = words[k]
  <2>1. 2 * m <= Len(data)
    BY <1>1
  <2> QED BY <2>1, FirstWords
<1>3. /\ t \in Seq(Word) /\ Len(t) = m + 1 /\ \A k \in 1 .. m + 1 : t[k] = words[k]
      /\ PackWords(t) = SubSeq(data, 1, 2 * (m + 1))
  <2>1. m + 1 \in Nat /\ 2 * (m + 1) <= Len(data)
    BY <1>1
  <2> QED BY <2>1, FirstWords
<1>4. words \in Seq(Word) /\ m + 1 \in 1 .. Len(words)
  <2>1. words \in Seq(Word) /\ Len(words) = Len(data) \div 2
    BY UnpackWordsFacts
  <2> QED BY <1>1, <2>1
<1>5. words[m + 1] \in Word
  BY <1>4, SeqElement
<1>6. i + 1 \in 1 .. Len(data) + 1 /\ i \in 1 .. Len(data) /\ i - 1 \in 0 .. Len(data)
      /\ i \in 0 .. Len(data) /\ i - 1 = 2 * (m + 1)
  BY <1>1
<1>7. rest \in Seq(Byte) /\ Len(rest) = Len(data) - i
  <2>1. rest \in Seq(Byte) /\ Len(rest) = Len(data) - (i + 1) + 1
    BY <1>6, FromFacts
  <2> QED BY <1>1, <2>1
<1>8. data[i] \in Byte
  BY <1>6, SeqElement
<1> HIDE DEF words, s, t
<1>9. t = s \o <<words[m + 1]>>
  <2>1. PICK u \in Seq(Word) : u = s \o <<words[m + 1]>>
    BY <1>2, <1>5, Appended
  <2>2. Len(u) = m + 1
    BY <1>2, <1>5, <2>1, Appended
  <2>3. u[m + 1] = words[m + 1]
    BY <1>2, <1>5, <2>1, Appended
  <2>4. \A k \in 1 .. m : u[k] = s[k]
    BY <1>2, <1>5, <2>1, Appended
  <2>5. ASSUME NEW k \in 1 .. m + 1 PROVE u[k] = t[k]
    <3>1. CASE k = m + 1
      BY <3>1, <1>3, <2>3
    <3>2. CASE k # m + 1
      <4>1. k \in 1 .. m
        BY <3>2
      <4> QED BY <4>1, <1>2, <1>3, <2>4
    <3> QED BY <3>1, <3>2
  <2>6. u = t
    BY <1>3, <2>2, <2>5, SeqEqual
  <2> QED BY <2>1, <2>6
<1>10. PackWords(t) = PackWords(s) \o PackWords(<<words[m + 1]>>)
  BY <1>2, <1>5, <1>9, Singleton, PackedConcatenation
<1>11. SubSeq(data, 1, i) = SubSeq(data, 1, i - 1) \o <<data[i]>>
  <2>1. PICK p \in Seq(Byte) : p = SubSeq(data, 1, i - 1) /\ Len(p) = i - 1
    BY <1>6, PrefixFacts
  <2>2. \A k \in 1 .. i - 1 : p[k] = data[k]
    BY <1>6, <2>1, PrefixFacts
  <2>3. PICK r \in Seq(Byte) : r = SubSeq(data, 1, i) /\ Len(r) = i
    <3>1. i \in 0 .. Len(data)
      BY <1>6
    <3>2. SubSeq(data, 1, i) \in Seq(Byte) /\ Len(SubSeq(data, 1, i)) = i
      BY <3>1, PrefixFacts
    <3> QED BY <3>2
  <2>4. \A k \in 1 .. i : r[k] = data[k]
    BY <1>6, <2>3, PrefixFacts
  <2>5. PICK u \in Seq(Byte) : u = p \o <<data[i]>> /\ Len(u) = Len(p) + 1
    BY <1>8, Appended
  <2>6. u[Len(p) + 1] = data[i]
    BY <1>8, <2>5, Appended
  <2>7. \A k \in 1 .. Len(p) : u[k] = p[k]
    BY <1>8, <2>5, Appended
  <2>8. Len(u) = i /\ Len(p) + 1 = i
    BY <1>6, <2>1, <2>5
  <2>9. ASSUME NEW k \in 1 .. i PROVE u[k] = r[k]
    <3>1. CASE k = i
      BY <3>1, <2>4, <2>6, <2>8
    <3>2. CASE k # i
      <4>1. k \in 1 .. i - 1 /\ k \in 1 .. Len(p)
        BY <3>2, <2>1
      <4> QED BY <4>1, <2>2, <2>4, <2>7
    <3> QED BY <3>1, <3>2
  <2>10. u = r
    BY <2>3, <2>8, <2>9, SeqEqual
  <2> QED BY <2>1, <2>3, <2>5, <2>10
<1>12. data = SubSeq(data, 1, i) \o rest
  BY <1>6, Split
<1>13. SubSeq(data, 1, i - 1) = PackWords(t)
  BY <1>3, <1>6
<1>14. data = (PackWords(s) \o PackWords(<<words[m + 1]>>)) \o <<data[i]>> \o rest
  BY <1>10, <1>11, <1>12, <1>13
<1> QED BY <1>2, <1>5, <1>7, <1>8, <1>14 DEF TakenApart, words, s

\* Sequences of words and bytes are sequences of numbers.
LEMMA WordsAreInts ==
    ASSUME NEW s \in Seq(Word)
    PROVE  s \in Seq(Int)
<1>1. \A i \in 1 .. Len(s) : s[i] \in Word
  BY SeqElement
<1>2. \A w \in Word : w \in Int
  BY WordIs
<1> QED BY <1>1, <1>2, Retyped

LEMMA BytesAreNats ==
    ASSUME NEW s \in Seq(Byte)
    PROVE  s \in Seq(Nat) /\ s \in Seq(Int)
<1>1. \A i \in 1 .. Len(s) : s[i] \in Byte
  BY SeqElement
<1>2. \A b \in Byte : b \in Nat /\ b \in Int
  BY ByteIs
<1> QED BY <1>1, <1>2, Retyped

\* What the server makes of a payload is a request, and encoded it is the PDU.
Exact(fc, payload) ==
    /\ IsRequest(Parsed(fc, payload))
    /\ Parsed(fc, payload).by = "standard" /\ Parsed(fc, payload).fc = fc
    /\ fc # WriteMultipleCoils => EncodeRequest(Parsed(fc, payload)) = <<fc>> \o payload

\* Payloads that are words only.
LEMMA PlainPayloadIsExact ==
    ASSUME NEW fc \in {1, 2, 3, 4, 6, 22}, NEW payload \in Seq(Byte), WellFormed(fc, payload)
    PROVE  Exact(fc, payload)
<1> DEFINE words == UnpackWords(payload)
           q == Request("standard", fc, words, <<>>)
<1>1. Parsed(fc, payload) = q
  BY CodeNumbers DEF Parsed
<1>2. Len(payload) = IF fc = 22 THEN 6 ELSE 4
  BY CodeNumbers DEF WellFormed
<1>3. Len(payload) % 2 = 0 /\ Len(payload) \div 2 = IF fc = 22 THEN 3 ELSE 2
  BY <1>2
<1>4. words \in Seq(Word) /\ Len(words) = IF fc = 22 THEN 3 ELSE 2
  BY <1>3, UnpackWordsFacts
<1>5. PackWords(words) = payload
  BY <1>3, PackUnpackedWords
<1> HIDE DEF words
<1>6. Len(words) = FieldCount(fc)
  BY <1>4, CodeNumbers DEF FieldCount
<1>7. words \in Seq(Int) /\ <<>> \in Seq(Int)
  BY <1>4, WordsAreInts
<1>8. /\ q.by = "standard" /\ q.fc = fc /\ q.fields = words /\ q.values = <<>>
      /\ q = Request(q.by, q.fc, q.fields, q.values)
  BY DEF Request
<1> HIDE DEF q
<1>9. IsRequest(q)
  BY <1>6, <1>7, <1>8, CodeNumbers DEF IsRequest
<1>10. EncodeRequest(q) = <<fc>> \o payload
  <2>1. /\ fc # WriteSingleCoil /\ fc # WriteMultipleCoils /\ fc # EncapsulatedInterface
        /\ fc \notin {WriteMultipleRegisters, ReadWriteMultipleRegisters}
    BY CodeNumbers
  <2> QED BY <1>5, <1>8, <2>1 DEF EncodeRequest
<1> QED BY <1>1, <1>8, <1>9, <1>10 DEF Exact

\* The write of a coil, whose value is one of two words.
LEMMA CoilPayloadIsExact ==
    ASSUME NEW payload \in Seq(Byte), WellFormed(5, payload)
    PROVE  Exact(5, payload)
<1> DEFINE words == UnpackWords(payload)
           bit == IF words[2] = COIL_ON THEN 1 ELSE 0
           q == Request("standard", 5, <<words[1]>>, <<bit>>)
<1>1. Parsed(5, payload) = q
  BY CodeNumbers DEF Parsed
<1>2. Len(payload) = 4 /\ words[2] \in {COIL_ON, COIL_OFF}
  BY CodeNumbers DEF WellFormed
<1>3. Len(payload) % 2 = 0 /\ Len(payload) \div 2 = 2
  BY <1>2
<1>4. words \in Seq(Word) /\ Len(words) = 2
  BY <1>3, UnpackWordsFacts
<1>5. PackWords(words) = payload
  BY <1>3, PackUnpackedWords
<1> HIDE DEF words
<1>6. words[1] \in Word /\ words[2] \in Word /\ <<words[1]>> \o <<words[2]>> = words
  BY <1>4, TwoElements
<1>7. bit \in {0, 1} /\ CoilWord(bit) = words[2]
  BY <1>2 DEF CoilWord, COIL_ON, COIL_OFF
<1> HIDE DEF bit
<1>8. <<words[1]>> \in Seq(Word) /\ Len(<<words[1]>>) = 1
  BY <1>6, Singleton
<1>9. <<words[2]>> \in Seq(Word)
  BY <1>6, Singleton
<1>10. <<bit>> \in Seq(Int) /\ Len(<<bit>>) = 1 /\ <<bit>>[1] = bit
  <2>1. bit \in Int
    BY <1>7
  <2> QED BY <2>1, Singleton
<1>11. PackWords(<<words[1]>>) \o PackWords(<<words[2]>>) = payload
  <2>1. <<words[1]>> \o <<words[2]>> = words
    BY <1>6
  <2>2. PackWords(<<words[1]>> \o <<words[2]>>)
          = PackWords(<<words[1]>>) \o PackWords(<<words[2]>>)
    BY <1>8, <1>9, PackedConcatenation
  <2> QED BY <1>5, <2>1, <2>2
<1>12. /\ q.by = "standard" /\ q.fc = 5 /\ q.fields = <<words[1]>> /\ q.values = <<bit>>
       /\ q = Request(q.by, q.fc, q.fields, q.values)
  BY DEF Request
<1> HIDE DEF q
<1>13. IsRequest(q)
  <2>1. q.fields \in Seq(Int) /\ q.values \in Seq(Int)
    BY <1>8, <1>10, <1>12, WordsAreInts
  <2>2. Len(q.fields) = FieldCount(q.fc) /\ Len(q.values) = 1
    BY <1>8, <1>10, <1>12, CodeNumbers DEF FieldCount
  <2> QED BY <1>12, <2>1, <2>2, CodeNumbers DEF IsRequest
<1>14. EncodeRequest(q) = <<5>> \o payload
  <2>1. q.values[1] = bit
    BY <1>10, <1>12
  <2>2. /\ q.fc = WriteSingleCoil
        /\ PackWords(<<CoilWord(q.values[1])>>) = PackWords(<<words[2]>>)
    BY <1>7, <1>12, <2>1, CodeNumbers
  <2>3. EncodeRequest(q) = <<q.fc>> \o (PackWords(q.fields)
                                           \o PackWords(<<CoilWord(q.values[1])>>))
    BY <1>12, CodeNumbers DEF EncodeRequest
  <2> QED BY <1>11, <1>12, <2>2, <2>3
<1> QED BY <1>1, <1>12, <1>13, <1>14, CodeNumbers DEF Exact

\* The read of a device identification.
LEMMA IdentificationPayloadIsExact ==
    ASSUME NEW payload \in Seq(Byte), Len(payload) = 3,
           Head(payload) = READ_DEVICE_IDENTIFICATION_MEI_TYPE
    PROVE  Exact(43, payload)
<1> DEFINE q == Request("standard", 43, Tail(payload), <<>>)
<1>1. Parsed(43, payload) = q
  <2>1. /\ 43 # WriteSingleCoil /\ 43 # WriteMultipleCoils
        /\ 43 # WriteMultipleRegisters /\ 43 # ReadWriteMultipleRegisters
        /\ 43 = EncapsulatedInterface
    BY CodeNumbers
  <2> QED BY <2>1 DEF Parsed
<1>2. payload # <<>>
  OBVIOUS
<1>3. /\ Tail(payload) \in Seq(Byte) /\ Len(Tail(payload)) = 2
      /\ payload = <<READ_DEVICE_IDENTIFICATION_MEI_TYPE>> \o Tail(payload)
  <2>1. /\ Tail(payload) \in Seq(Byte) /\ Len(payload) = 1 + Len(Tail(payload))
        /\ Len(Tail(payload)) \in Nat /\ payload = <<Head(payload)>> \o Tail(payload)
    BY <1>2, FirstAndRest
  <2>2. Len(Tail(payload)) = 2
    BY <2>1
  <2> QED BY <2>1, <2>2
<1>4. Tail(payload) \in Seq(Int)
  <2>1. \A i \in 1 .. Len(Tail(payload)) : Tail(payload)[i] \in Byte
    BY <1>3, SeqElement
  <2>2. \A b \in Byte : b \in Int
    BY ByteIs
  <2> QED BY <1>3, <2>1, <2>2, Retyped
<1>5. /\ q.by = "standard" /\ q.fc = 43 /\ q.fields = Tail(payload) /\ q.values = <<>>
      /\ q = Request(q.by, q.fc, q.fields, q.values)
  BY DEF Request
<1> HIDE DEF q
<1>6. IsRequest(q)
  <2>1. Len(q.fields) = FieldCount(q.fc)
    BY <1>3, <1>5, CodeNumbers DEF FieldCount
  <2> QED BY <1>4, <1>5, <2>1, CodeNumbers DEF IsRequest
<1>7. EncodeRequest(q) = <<43>> \o payload
  BY <1>3, <1>5, CodeNumbers DEF EncodeRequest
<1> QED BY <1>1, <1>5, <1>6, <1>7 DEF Exact

\* Writes of registers, with their byte count.
LEMMA RegistersPayloadIsExact ==
    ASSUME NEW fc \in {16, 23}, NEW payload \in Seq(Byte), WellFormed(fc, payload)
    PROVE  Exact(fc, payload)
<1> DEFINE m == IF fc = 16 THEN 1 ELSE 3
           i == 2 * m + 3
           words == UnpackWords(payload)
           fields == SubSeq(words, 1, m)
           rest == From(payload, i + 1)
           values == UnpackWords(rest)
           q == Request("standard", fc, fields, values)
<1>1. Len(payload) >= i /\ Counted(payload, i, words[m + 1])
  <2>1. CASE fc = 16
    BY <2>1, CodeNumbers DEF WellFormed
  <2>2. CASE fc = 23
    BY <2>2, CodeNumbers DEF WellFormed
  <2> QED BY <2>1, <2>2
<1>2. Len(payload) \in Nat /\ m \in Nat /\ i \in Nat
  BY LenProperties
<1>3. /\ payload[i] = Len(payload) - i /\ payload[i] % 2 = 0
      /\ words[m + 1] = payload[i] \div 2
  BY <1>1 DEF Counted, CountsRest
<1>4. /\ payload = (PackWords(fields) \o PackWords(<<words[m + 1]>>))
                   \o <<payload[i]>> \o rest
      /\ fields \in Seq(Word) /\ Len(fields) = m /\ words[m + 1] \in Word
      /\ payload[i] \in Byte /\ rest \in Seq(Byte) /\ Len(rest) = Len(payload) - i
  <2>1. i = 2 * m + 3 /\ i <= Len(payload)
    BY <1>1, <1>2
  <2>2. TakenApart(payload, m, i)
    <3> HIDE DEF i, m
    <3> QED BY <1>2, <2>1, CountedParts
  <2> QED BY <2>2 DEF TakenApart
<1>5. Parsed(fc, payload) = q
  <2>1. CASE fc = 16
    <3>1. fields = <<words[1]>>
      <4>1. Len(fields) = 1 /\ fields[1] = words[1]
        <5>1. 2 * 1 <= Len(payload)
          BY <1>1, <1>2
        <5> QED BY <1>2, <1>4, <2>1, <5>1, FirstWords
      <4> QED BY <1>4, <4>1, OnlyElement
    <3>2. rest = From(payload, 6)
      BY <2>1
    <3> HIDE DEF rest, fields
    <3> QED BY <2>1, <3>1, <3>2, CodeNumbers DEF Parsed
  <2>2. CASE fc = 23
    <3>1. fields = SubSeq(words, 1, 3) /\ rest = From(payload, 10)
      BY <2>2
    <3>2. /\ fc # WriteSingleCoil /\ fc # WriteMultipleCoils
          /\ fc # WriteMultipleRegisters /\ fc # EncapsulatedInterface
          /\ fc = ReadWriteMultipleRegisters
      BY <2>2, CodeNumbers
    <3> HIDE DEF rest, fields
    <3> QED BY <3>1, <3>2 DEF Parsed
  <2> QED BY <2>1, <2>2
<1> HIDE DEF m, i, words, fields, rest
<1>6. Len(rest) = payload[i] /\ Len(rest) % 2 = 0 /\ Len(rest) \div 2 = words[m + 1]
  BY <1>3, <1>4
<1>7. /\ values \in Seq(Word) /\ Len(values) = words[m + 1] /\ PackWords(values) = rest
  BY <1>4, <1>6, UnpackWordsFacts, PackUnpackedWords
<1> HIDE DEF values
<1>8. /\ q.by = "standard" /\ q.fc = fc /\ q.fields = fields /\ q.values = values
      /\ q = Request(q.by, q.fc, q.fields, q.values)
  BY DEF Request
<1> HIDE DEF q
<1>9. IsRequest(q)
  <2>1. q.fields \in Seq(Int) /\ q.values \in Seq(Int)
    BY <1>4, <1>7, <1>8, WordsAreInts
  <2>2. Len(q.fields) = FieldCount(q.fc)
    BY <1>4, <1>8, CodeNumbers DEF FieldCount, m
  <2> QED BY <1>8, <2>1, <2>2, CodeNumbers DEF IsRequest
<1>10. EncodeRequest(q) = <<fc>> \o payload
  <2>1. EncodeRequest(q) =
          <<fc>> \o ((PackWords(fields) \o PackWords(<<Len(values)>>))
                     \o <<Len(PackWords(values))>> \o PackWords(values))
    BY <1>8, CodeNumbers DEF EncodeRequest
  <2> QED BY <1>4, <1>6, <1>7, <2>1
<1> QED BY <1>5, <1>8, <1>9, <1>10 DEF Exact

\* Of coils, more may be sent than are counted: they are left out.
ExactCoils(payload) ==
    LET q == Parsed(15, payload)
    IN  /\ SubSeq(EncodeRequest(q), 1, 5) = SubSeq(<<15>> \o payload, 1, 5)
        /\ payload[5] = Len(payload) - 5
        /\ q.values \in Seq({0, 1})
        /\ \A i \in 1 .. Len(q.values) :
              /\ 6 + ((i - 1) \div 8) \in 1 .. Len(payload)
              /\ q.values[i] = Bit(payload[6 + ((i - 1) \div 8)], ((i - 1) % 8) + 1)

\* The write of several coils: up to the bits beyond the count, it is exact.
LEMMA CoilsPayloadIsExact ==
    ASSUME NEW payload \in Seq(Byte), WellFormed(15, payload)
    PROVE  Exact(15, payload) /\ ExactCoils(payload)
<1> DEFINE words == UnpackWords(payload)
           fields == SubSeq(words, 1, 1)
           rest == From(payload, 6)
           count == words[2]
           values == unpack_bits(rest, count)
           q == Request("standard", 15, fields, values)
<1>1. CountsRest(payload, 5) /\ payload[5] >= BytesFor(count)
  BY CodeNumbers DEF WellFormed
<1>2. Len(payload) \in Nat /\ Len(payload) >= 5 /\ payload[5] = Len(payload) - 5
  BY <1>1, LenProperties DEF CountsRest
<1>3. TakenApart(payload, 1, 5)
  <2>1. 5 = 2 * 1 + 3 /\ 5 <= Len(payload) /\ 1 \in Nat /\ 5 \in Nat
    BY <1>2
  <2> QED BY <2>1, CountedParts
<1>4. /\ fields \in Seq(Word) /\ Len(fields) = 1 /\ count \in Word
       /\ payload[5] \in Byte /\ rest \in Seq(Byte) /\ Len(rest) = Len(payload) - 5
  BY <1>3 DEF TakenApart
<1>5. payload = (PackWords(fields) \o PackWords(<<count>>)) \o <<payload[5]>> \o rest
  <2>1. 1 + 1 = 2 /\ 5 + 1 = 6
    OBVIOUS
  <2>2. payload = (PackWords(fields) \o PackWords(<<words[1 + 1]>>))
                  \o <<payload[5]>> \o From(payload, 5 + 1)
    BY <1>3 DEF TakenApart
  <2> QED BY <2>1, <2>2
<1>6. Parsed(15, payload) = q
  <2>1. fields = <<words[1]>>
    <3>1. 2 * 1 <= Len(payload) /\ 1 \in Nat
      BY <1>2
    <3>2. fields[1] = words[1]
      BY <3>1, FirstWords
    <3> QED BY <1>4, <3>2, OnlyElement
  <2> HIDE DEF fields
  <2> QED BY <2>1, CodeNumbers DEF Parsed
<1> HIDE DEF words, fields, rest, count
<1>7. count \in Nat
  BY <1>4, WordIsNat
<1>8. Len(rest) >= BytesFor(count)
  BY <1>1, <1>2, <1>4 DEF count, words
<1>9. /\ values \in Seq({0, 1}) /\ Len(values) = count
      /\ \A i \in 1 .. count :
            values[i] = Bit(rest[(i - 1) \div 8 + 1], ((i - 1) % 8) + 1)
  BY <1>7, <1>8, <1>4, UnpackBitsFacts
<1> HIDE DEF values
<1>10. /\ q.by = "standard" /\ q.fc = 15 /\ q.fields = fields /\ q.values = values
      /\ q = Request(q.by, q.fc, q.fields, q.values)
  BY DEF Request
<1> HIDE DEF q
<1>11. IsRequest(q)
  <2>1. q.fields \in Seq(Int)
    BY <1>10, <1>4, WordsAreInts
  <2>2. q.values \in Seq(Int)
    <3>1. \A i \in 1 .. Len(values) : values[i] \in {0, 1}
      BY <1>9, SeqElement
    <3>2. \A i \in 1 .. Len(values) : values[i] \in Int
      BY <3>1
    <3> QED BY <1>9, <1>10, <3>2, Retyped
  <2>3. Len(q.fields) = FieldCount(q.fc)
    BY <1>10, <1>4, CodeNumbers DEF FieldCount
  <2> QED BY <1>10, <2>1, <2>2, <2>3, CodeNumbers DEF IsRequest
<1>12. ASSUME NEW i \in 1 .. Len(values)
       PROVE  /\ 6 + ((i - 1) \div 8) \in 1 .. Len(payload)
              /\ values[i] = Bit(payload[6 + ((i - 1) \div 8)], ((i - 1) % 8) + 1)
  <2>1. i \in 1 .. count
    BY <1>9
  <2>2. (i - 1) \div 8 + 1 \in 1 .. BytesFor(count) /\ BytesFor(count) \in Nat
    BY <1>7, <2>1, BytesForFacts
  <2>3. (i - 1) \div 8 + 1 \in 1 .. Len(payload) - 6 + 1
    BY <1>2, <1>8, <1>4, <2>2
  <2>4. 6 \in 1 .. Len(payload) + 1
    BY <1>2
  <2>5. rest[(i - 1) \div 8 + 1] = payload[6 + ((i - 1) \div 8 + 1) - 1]
    BY <2>3, <2>4, FromFacts DEF rest
  <2>6. 6 + ((i - 1) \div 8 + 1) - 1 = 6 + ((i - 1) \div 8)
    BY <2>1
  <2>7. 6 + ((i - 1) \div 8) \in 1 .. Len(payload)
    BY <1>2, <2>1, <2>3
  <2> QED BY <1>9, <2>1, <2>5, <2>6, <2>7
<1>13. SubSeq(EncodeRequest(q), 1, 5) = SubSeq(<<15>> \o payload, 1, 5)
  <2> DEFINE bits == pack_bits(values)
  <2>1. bits \in Seq(Byte)
    BY <1>9, PackBitsFacts
  <2>2. EncodeRequest(q) =
          <<15>> \o ((PackWords(fields) \o PackWords(<<count>>)) \o <<Len(bits)>> \o bits)
    <3>1. /\ q.fc = WriteMultipleCoils /\ Len(q.values) = count
          /\ q.values = values /\ q.fields = fields /\ q.fc = 15 /\ q.by = "standard"
      BY <1>9, <1>10, CodeNumbers
    <3> QED BY <3>1, CodeNumbers DEF EncodeRequest
  <2>3. PICK a \in Seq(Byte) : a = PackWords(fields) \o PackWords(<<count>>) /\ Len(a) = 4
    <3>1. PackWords(fields) \in Seq(Byte) /\ Len(PackWords(fields)) = 2
      BY <1>4, PackedLength
    <3>2. <<count>> \in Seq(Word) /\ Len(<<count>>) = 1
      BY <1>4, Singleton
    <3>3. PackWords(<<count>>) \in Seq(Byte) /\ Len(PackWords(<<count>>)) = 2
      BY <3>2, PackedLength
    <3>4. PICK f \in Seq(Byte) : f = PackWords(fields) /\ Len(f) = 2
      BY <3>1
    <3>5. PICK c \in Seq(Byte) : c = PackWords(<<count>>) /\ Len(c) = 2
      BY <3>3
    <3>6. f \o c \in Seq(Byte) /\ Len(f \o c) = Len(f) + Len(c)
      BY Concatenation
    <3>7. Len(f \o c) = 4
      BY <3>4, <3>5, <3>6
    <3> QED BY <3>4, <3>5, <3>6, <3>7
  <2>4. ASSUME NEW n, n \in Nat, NEW t \in Seq(Byte)
        PROVE  SubSeq(<<15>> \o ((a \o <<n>>) \o t), 1, 5) = <<15>> \o a
    <3>1. 15 \in Nat /\ <<15>> \in Seq(Nat) /\ Len(<<15>>) = 1
      BY Singleton
    <3>2. a \in Seq(Nat) /\ t \in Seq(Nat) /\ <<n>> \in Seq(Nat)
      BY <2>4, BytesAreNats, Singleton
    <3>3. PICK head \in Seq(Nat) : head = <<15>> \o a /\ Len(head) = 5
      <4>1. <<15>> \o a \in Seq(Nat) /\ Len(<<15>> \o a) = 1 + Len(a)
        BY <3>1, <3>2, Prepending
      <4>2. Len(<<15>> \o a) = 5
        BY <2>3, <4>1
      <4> QED BY <4>1, <4>2
    <3>4. PICK last \in Seq(Nat) : last = <<n>> \o t
      BY <3>2, Concatenation
    <3>5. (a \o <<n>>) \o t = a \o (<<n>> \o t)
      BY <3>2, ConcatAssociative
    <3>6. (<<15>> \o a) \o last = <<15>> \o (a \o last)
      BY <3>1, <3>2, ConcatAssociative, SMTT(40)
    <3>7. SubSeq(head \o last, 1, Len(head)) = head
      BY Parts
    <3> QED BY <3>3, <3>4, <3>5, <3>6, <3>7
  <2>5. Len(bits) \in Nat /\ payload[5] \in Nat
    BY <1>4, <2>1, LenProperties, ByteIsNat
  <2> HIDE DEF bits
  <2>6. SubSeq(<<15>> \o ((a \o <<Len(bits)>>) \o bits), 1, 5) = <<15>> \o a
    BY <2>1, <2>4, <2>5
  <2>7. SubSeq(<<15>> \o ((a \o <<payload[5]>>) \o rest), 1, 5) = <<15>> \o a
    BY <1>4, <2>4, <2>5
  <2> QED BY <1>5, <2>2, <2>3, <2>6, <2>7
<1>14. Exact(15, payload)
  BY <1>6, <1>10, <1>11, CodeNumbers DEF Exact
<1>15. ExactCoils(payload)
  BY <1>2, <1>6, <1>9, <1>10, <1>12, <1>13 DEF ExactCoils
<1> QED BY <1>14, <1>15

\* What a decoded request has of the bytes it was decoded from.
SaysOfBytes(data, q) ==
    IF q.fc = WriteMultipleCoils
      THEN /\ SubSeq(EncodeRequest(q), 1, 5) = SubSeq(data, 1, 5)
           /\ data[6] = Len(data) - 6
           /\ \A i \in DOMAIN q.values :
                 q.values[i] = Bit(data[7 + ((i - 1) \div 8)], ((i - 1) % 8) + 1)
      ELSE EncodeRequest(q) = data

\* Whatever bytes reach the server, a request it decodes itself is valid, and is
\* what the bytes say.
LEMMA StandardDecoding ==
    ASSUME NEW data \in Seq(Byte), data # <<>>, IsStandard(Head(data), Tail(data)),
           NEW decoders
    PROVE  \/ DecodeRequest(data, decoders) = Raises("ValueError")
           \/ \E q : /\ DecodeRequest(data, decoders) = Decoded(q)
                     /\ Valid(q) /\ q.fc = Head(data) /\ SaysOfBytes(data, q)
<1> DEFINE fc == Head(data)
           payload == Tail(data)
           q == Parsed(fc, payload)
<1>1. /\ fc \in Byte /\ payload \in Seq(Byte) /\ data = <<fc>> \o payload
      /\ \A i \in 1 .. Len(payload) : payload[i] = data[i + 1]
      /\ Len(data) = 1 + Len(payload) /\ Len(payload) \in Nat
  BY FirstAndRest
<1>2. fc \in Codes
  BY CodeNumbers DEF IsStandard, Codes
<1>3. DecodeRequest(data, decoders) = IF WellFormed(fc, payload) /\ PostInit(q)
                                        THEN Decoded(q) ELSE Raises("ValueError")
  BY DEF DecodeRequest
<1>4. CASE ~ (WellFormed(fc, payload) /\ PostInit(q))
  BY <1>3, <1>4
<1>5. CASE WellFormed(fc, payload) /\ PostInit(q)
  <2> HIDE DEF q
  <2>1. Exact(fc, payload)
    <3> HIDE DEF payload, fc
    <3>1. CASE fc \in {1, 2, 3, 4, 6, 22}
      BY <3>1, <1>1, <1>5, PlainPayloadIsExact
    <3>2. CASE fc = 5
      BY <3>2, <1>1, <1>5, CoilPayloadIsExact
    <3>3. CASE fc = 15
      BY <3>3, <1>1, <1>5, CoilsPayloadIsExact
    <3>4. CASE fc \in {16, 23}
      BY <3>4, <1>1, <1>5, RegistersPayloadIsExact
    <3>5. CASE fc = 43
      <4>1. Head(payload) = READ_DEVICE_IDENTIFICATION_MEI_TYPE
        BY <3>5, CodeNumbers DEF IsStandard, fc, payload
      <4>2. Len(payload) = 3
        BY <1>5, <3>5, CodeNumbers DEF WellFormed
      <4> QED BY <1>1, <3>5, <4>1, <4>2, IdentificationPayloadIsExact
    <3> QED BY <1>2, <3>1, <3>2, <3>3, <3>4, <3>5 DEF Codes
  <2>2. Valid(q) /\ q.fc = fc
    BY <1>5, <2>1 DEF Exact, Valid, q
  <2>3. SaysOfBytes(data, q)
    <3>1. CASE fc = 15
      <4>1. ExactCoils(payload)
        BY <3>1, <1>1, <1>5, CoilsPayloadIsExact
      <4>2. q = Parsed(15, payload)
        BY <3>1 DEF q
      <4> HIDE DEF fc, payload
      <4>3. SubSeq(EncodeRequest(q), 1, 5) = SubSeq(data, 1, 5)
        BY <1>1, <3>1, <4>1, <4>2 DEF ExactCoils
      <4>4. payload[5] = Len(payload) - 5 /\ Len(payload) >= 5
        <5>1. CountsRest(payload, 5)
          BY <1>5, <3>1, CodeNumbers DEF WellFormed
        <5> QED BY <5>1 DEF CountsRest
      <4>5. data[6] = Len(data) - 6
        <5>1. 5 \in 1 .. Len(payload) /\ 5 + 1 = 6
          BY <1>1, <4>4
        <5>2. data[6] = payload[5]
          BY <1>1, <5>1
        <5> QED BY <1>1, <4>4, <5>2
      <4>6. q.values \in Seq({0, 1}) /\ DOMAIN q.values = 1 .. Len(q.values)
            /\ Len(q.values) \in Nat
        BY <4>1, <4>2, LenProperties DEF ExactCoils
      <4>7. ASSUME NEW i \in 1 .. Len(q.values)
            PROVE  q.values[i] = Bit(data[7 + ((i - 1) \div 8)], ((i - 1) % 8) + 1)
        <5>1. q.values[i] = Bit(payload[6 + ((i - 1) \div 8)], ((i - 1) % 8) + 1)
          BY <4>1, <4>2 DEF ExactCoils
        <5>2. 6 + ((i - 1) \div 8) \in 1 .. Len(payload)
          BY <4>1, <4>2 DEF ExactCoils
        <5>3. 6 + ((i - 1) \div 8) + 1 = 7 + ((i - 1) \div 8)
          BY <4>6
        <5>4. payload[6 + ((i - 1) \div 8)] = data[7 + ((i - 1) \div 8)]
          BY <1>1, <5>2, <5>3
        <5> QED BY <5>1, <5>4
      <4>8. q.fc = WriteMultipleCoils
        BY <2>2, <3>1, CodeNumbers
      <4> QED BY <4>3, <4>5, <4>6, <4>7, <4>8 DEF SaysOfBytes
    <3>2. CASE fc # 15
      BY <1>1, <2>1, <2>2, <3>2, CodeNumbers DEF Exact, SaysOfBytes, q
    <3> QED BY <3>1, <3>2
  <2>4. DecodeRequest(data, decoders) = Decoded(q)
    BY <1>3, <1>5
  <2> QED BY <2>2, <2>3, <2>4
<1> QED BY <1>4, <1>5

\* Any other function code goes to the registry.
LEMMA OtherDecoding ==
    ASSUME NEW data, data # <<>>, ~ IsStandard(Head(data), Tail(data)), NEW decoders
    PROVE  DecodeRequest(data, decoders) =
             IF Head(data) \in DOMAIN decoders
               THEN Decoded(Request(decoders[Head(data)], Head(data), <<>>, Tail(data)))
               ELSE Raises("ModbusPDUError")
BY DEF DecodeRequest

\* Where objects begin.
Starts(f, data, i, n) ==
    /\ f \in [0 .. n -> Nat] /\ f[0] = i /\ f[n] = ObjectStart(data, i, n)
    /\ \A k \in 1 .. n : f[k] = f[k - 1] + 2 + At(data, f[k - 1] + 1)

\* The recursion of ObjectStart has a solution ...
LEMMA ObjectStartSteps ==
    ASSUME NEW data \in Seq(Byte), NEW i \in Nat, NEW n \in Nat
    PROVE  \E f : Starts(f, data, i, n)
<1> DEFINE after == [j \in Nat |-> j + 2 + At(data, j + 1)]
           step == [k \in 1 .. n |-> after]
           start == CHOOSE f : f = [k \in 0 .. n |-> IF k = 0 THEN i ELSE after[f[k - 1]]]
<1>1. \A j \in Nat : At(data, j + 1) \in Nat
  <2> SUFFICES ASSUME NEW j \in Nat PROVE At(data, j + 1) \in Nat
    OBVIOUS
  <2>1. CASE j + 1 <= Len(data)
    <3>1. j + 1 \in 1 .. Len(data)
      BY <2>1, LenProperties
    <3>2. data[j + 1] \in Nat
      BY <3>1, SeqElement, ByteIsNat
    <3> QED BY <2>1, <3>2 DEF At
  <2>2. CASE ~ (j + 1 <= Len(data))
    BY <2>2 DEF At
  <2> QED BY <2>1, <2>2
<1>2. after \in [Nat -> Nat]
  BY <1>1
<1>3. ObjectStart(data, i, n) = start[n]
  BY DEF ObjectStart
<1>4. \A j \in Nat : after[j] = j + 2 + At(data, j + 1)
  OBVIOUS
<1> HIDE DEF after
<1>5. step \in Steps(n, Nat)
  BY <1>2 DEF Steps
<1>6. \A k \in 1 .. n : step[k] = after
  OBVIOUS
<1> HIDE DEF step
<1>7. PICK f : Iterates(f, n, Nat, i, step)
  BY <1>5, Iteration
<1>8. f \in [0 .. n -> Nat] /\ f[0] = i /\ \A k \in 1 .. n : f[k] = after[f[k - 1]]
  BY <1>6, <1>7 DEF Iterates
<1>9. f = [k \in 0 .. n |-> IF k = 0 THEN i ELSE after[f[k - 1]]]
  <2>1. ASSUME NEW k \in 0 .. n PROVE f[k] = IF k = 0 THEN i ELSE after[f[k - 1]]
    <3>1. CASE k = 0
      BY <3>1, <1>8
    <3>2. CASE k # 0
      <4>1. k \in 1 .. n
        BY <3>2
      <4> QED BY <4>1, <3>2, <1>8
    <3> QED BY <3>1, <3>2
  <2> QED BY <1>8, <2>1
<1>10. start = [k \in 0 .. n |-> IF k = 0 THEN i ELSE after[start[k - 1]]]
  BY <1>9
<1> HIDE DEF start
<1>11. start[0] = i /\ \A k \in 1 .. n : start[k] = after[start[k - 1]]
  BY <1>10
<1>12. KeepsEqual(f, start, n)
  BY <1>8, <1>11 DEF KeepsEqual
<1>13. \A k \in 0 .. n : f[k] = start[k]
  <2>1. f[0] = start[0]
    BY <1>8, <1>11
  <2> QED BY <1>12, <2>1, SameSteps
<1>14. f[n] = ObjectStart(data, i, n)
  BY <1>3, <1>13
<1>15. \A k \in 1 .. n : f[k] = f[k - 1] + 2 + At(data, f[k - 1] + 1)
  <2> SUFFICES ASSUME NEW k \in 1 .. n
               PROVE  f[k] = f[k - 1] + 2 + At(data, f[k - 1] + 1)
    OBVIOUS
  <2>1. k - 1 \in 0 .. n
    OBVIOUS
  <2>2. f[k - 1] \in Nat
    BY <1>8, <2>1
  <2> QED BY <1>4, <1>8, <2>2
<1> QED BY <1>8, <1>14, <1>15 DEF Starts

\* ... so that ObjectStart takes its steps.
LEMMA ObjectStartFacts ==
    ASSUME NEW data \in Seq(Byte), NEW i \in Nat, NEW n \in Nat
    PROVE  /\ ObjectStart(data, i, n) \in Nat /\ ObjectStart(data, i, 0) = i
           /\ ObjectStart(data, i, n + 1) = ObjectStart(data, i, n) + 2
                                              + At(data, ObjectStart(data, i, n) + 1)
<1>1. PICK z : Starts(z, data, i, 0)
  <2>1. 0 \in Nat
    OBVIOUS
  <2> QED BY <2>1, ObjectStartSteps
<1>2. PICK f : Starts(f, data, i, n)
  BY ObjectStartSteps
<1>3. PICK g : Starts(g, data, i, n + 1)
  <2>1. n + 1 \in Nat
    OBVIOUS
  <2> QED BY <2>1, ObjectStartSteps
<1>4. KeepsEqual(f, g, n)
  <2> SUFFICES ASSUME NEW k \in 1 .. n, f[k - 1] = g[k - 1] PROVE f[k] = g[k]
    BY DEF KeepsEqual
  <2>1. k \in 1 .. n + 1
    OBVIOUS
  <2> QED BY <1>2, <1>3, <2>1 DEF Starts
<1>5. \A k \in 0 .. n : f[k] = g[k]
  <2>1. f[0] = g[0]
    BY <1>2, <1>3 DEF Starts
  <2> QED BY <1>4, <2>1, SameSteps
<1>6. f[n] = g[n] /\ g[n + 1] = g[n] + 2 + At(data, g[n] + 1) /\ f[n] \in Nat
  <2>1. n \in 0 .. n /\ n + 1 \in 1 .. n + 1 /\ (n + 1) - 1 = n
    OBVIOUS
  <2> QED BY <1>2, <1>3, <1>5, <2>1 DEF Starts
<1> QED BY <1>1, <1>2, <1>3, <1>6 DEF Starts

\* Sequences of bytes one after the other.
Flattens(f, parts) ==
    /\ f \in [0 .. Len(parts) -> Seq(Byte)] /\ f[0] = <<>>
    /\ \A k \in 1 .. Len(parts) : f[k] = f[k - 1] \o parts[k]
    /\ f[Len(parts)] = FlattenSeq(parts)

\* FlattenSeq by its beginnings: one part more at each step.
LEMMA FlattenSteps ==
    ASSUME NEW parts \in Seq(Seq(Byte))
    PROVE  \E f : Flattens(f, parts)
<1> DEFINE B == Seq(Byte)
           n == Len(parts)
           step == [k \in 1 .. n |-> [s \in B |-> s \o parts[k]]]
           flatten == CHOOSE g : g = [k \in 1 .. n |-> IF k = 1 THEN parts[k]
                                                       ELSE g[k - 1] \o parts[k]]
<1>1. n \in Nat /\ \A k \in 1 .. n : parts[k] \in B
  BY LenProperties, SeqElement
<1>2. \A k \in 1 .. n : \A s \in B : s \o parts[k] \in B
  BY <1>1, Concatenation
<1>3. step \in Steps(n, B)
  BY <1>2 DEF Steps
<1>4. \A k \in 1 .. n : \A s \in B : step[k][s] = s \o parts[k]
  OBVIOUS
<1>5. <<>> \in B
  OBVIOUS
<1> HIDE DEF step, B
<1>6. PICK f : Iterates(f, n, B, <<>>, step)
  BY <1>1, <1>3, <1>5, Iteration
<1>7. f \in [0 .. n -> B] /\ f[0] = <<>>
  BY <1>6 DEF Iterates
<1>8. \A k \in 1 .. n : f[k] = f[k - 1] \o parts[k]
  <2> SUFFICES ASSUME NEW k \in 1 .. n PROVE f[k] = f[k - 1] \o parts[k]
    OBVIOUS
  <2>1. f[k - 1] \in B
    <3>1. k - 1 \in 0 .. n
      BY <1>1
    <3> QED BY <1>7, <3>1
  <2>2. f[k] = step[k][f[k - 1]]
    BY <1>6 DEF Iterates
  <2> QED BY <1>4, <2>1, <2>2
<1>9. FlattenSeq(parts) = IF n = 0 THEN parts ELSE flatten[n]
  BY DEF FlattenSeq
<1>10. f[n] = FlattenSeq(parts)
  <2>1. CASE n = 0
    BY <1>7, <1>9, <2>1
  <2>2. CASE n # 0
    <3> DEFINE h == [k \in 1 .. n |-> f[k]]
    <3>1. h = [k \in 1 .. n |-> IF k = 1 THEN parts[k] ELSE h[k - 1] \o parts[k]]
      <4>1. ASSUME NEW k \in 1 .. n
            PROVE  h[k] = IF k = 1 THEN parts[k] ELSE h[k - 1] \o parts[k]
        <5>1. CASE k = 1
          <6>1. f[1] = <<>> \o parts[1]
            <7>1. f[1] = f[1 - 1] \o parts[1]
              BY <1>8, <5>1
            <7>2. 1 - 1 = 0
              OBVIOUS
            <7> QED BY <1>7, <7>1, <7>2
          <6>2. <<>> \o parts[1] = parts[1]
            <7>1. parts[1] \in Seq(Byte)
              BY <1>1, <5>1 DEF B
            <7> QED BY <7>1, ConcatEmptySeq
          <6> QED BY <5>1, <6>1, <6>2
        <5>2. CASE k # 1
          <6>1. k - 1 \in 1 .. n
            BY <1>1, <5>2
          <6> QED BY <1>8, <5>2, <6>1
        <5> QED BY <5>1, <5>2
      <4> QED BY <4>1
    <3>2. flatten = [k \in 1 .. n |-> IF k = 1 THEN parts[k]
                                      ELSE flatten[k - 1] \o parts[k]]
      BY <3>1
    <3> HIDE DEF flatten, h
    <3> DEFINE g == [k \in 0 .. n |-> IF k = 0 THEN <<>> ELSE flatten[k]]
    <3>3. g[0] = <<>> /\ \A k \in 1 .. n : g[k] = flatten[k]
      BY <1>1
    <3>4. flatten[1] = parts[1]
      BY <1>1, <2>2, <3>2
    <3>5. \A k \in 1 .. n : k # 1 => flatten[k] = flatten[k - 1] \o parts[k]
      BY <3>2
    <3> HIDE DEF g
    <3>6. KeepsEqual(f, g, n)
      <4> SUFFICES ASSUME NEW k \in 1 .. n, f[k - 1] = g[k - 1] PROVE f[k] = g[k]
        BY DEF KeepsEqual
      <4>1. CASE k = 1
        <5>1. f[1] = <<>> \o parts[1]
          <6>1. f[1] = f[1 - 1] \o parts[1]
            BY <1>8, <4>1
          <6>2. 1 - 1 = 0
            OBVIOUS
          <6> QED BY <1>7, <6>1, <6>2
        <5>2. parts[1] \in Seq(Byte)
          BY <1>1, <4>1 DEF B
        <5>3. <<>> \o parts[1] = parts[1]
          BY <5>2, ConcatEmptySeq
        <5> QED BY <3>3, <3>4, <4>1, <5>1, <5>3
      <4>2. CASE k # 1
        <5>1. k - 1 \in 1 .. n
          BY <1>1, <4>2
        <5> QED BY <1>8, <3>3, <3>5, <4>2, <5>1
      <4> QED BY <4>1, <4>2
    <3>7. f[n] = g[n]
      <4>1. f[0] = g[0]
        BY <1>7, <3>3
      <4>2. \A k \in 0 .. n : f[k] = g[k]
        BY <1>1, <3>6, <4>1, SameSteps
      <4>3. n \in 0 .. n
        BY <1>1
      <4> QED BY <4>2, <4>3
    <3>8. g[n] = flatten[n]
      <4>1. n \in 1 .. n
        BY <1>1, <2>2
      <4> QED BY <3>3, <4>1
    <3> QED BY <1>9, <2>2, <3>7, <3>8
  <2> QED BY <2>1, <2>2
<1> QED BY <1>7, <1>8, <1>10 DEF Flattens, B

\* What comes first stays at its place.
IsBeginning(s, t) == Len(s) <= Len(t) /\ \A j \in 1 .. Len(s) : t[j] = s[j]

\* Each of them is a beginning of the whole.
LEMMA FlattenedParts ==
    ASSUME NEW parts \in Seq(Seq(Byte)), NEW f, Flattens(f, parts)
    PROVE  \A k \in 0 .. Len(parts) : IsBeginning(f[k], f[Len(parts)])
<1> DEFINE n == Len(parts)
           Bad == {d \in 0 .. n : ~ IsBeginning(f[n - d], f[n])}
<1>1. n \in Nat /\ \A k \in 1 .. n : parts[k] \in Seq(Byte)
  BY LenProperties, SeqElement
<1>2. \A k \in 0 .. n : f[k] \in Seq(Byte)
  BY DEF Flattens
<1>3. Bad = {}
  <2> SUFFICES ASSUME Bad # {} PROVE FALSE
    OBVIOUS
  <2>1. Bad \subseteq 0 .. n /\ Bad \subseteq Nat
    OBVIOUS
  <2>2. /\ \A d \in Bad : ~ IsBeginning(f[n - d], f[n])
        /\ \A d \in 0 .. n : d \notin Bad => IsBeginning(f[n - d], f[n])
    OBVIOUS
  <2> HIDE DEF Bad
  <2>3. PICK d \in Bad : \A e \in Bad : d <= e
    BY <2>1, LeastNatural
  <2>4. d \in 0 .. n
    BY <2>1
  <2>5. d # 0
    <3>1. IsBeginning(f[n], f[n])
      <4>1. Len(f[n]) \in Nat
        <5>1. f[n] \in Seq(Byte)
          BY <1>1, <1>2
        <5> QED BY <5>1, LenProperties
      <4> QED BY <4>1 DEF IsBeginning
    <3>2. n - 0 = n
      BY <1>1
    <3> QED BY <2>2, <3>1, <3>2
  <2> DEFINE k == n - d
  <2>6. k \in 0 .. n /\ k + 1 \in 1 .. n /\ k + 1 = n - (d - 1) /\ (k + 1) - 1 = k
    BY <1>1, <2>4, <2>5
  <2>7. d - 1 \in 0 .. n /\ d - 1 \notin Bad
    BY <2>3, <2>4, <2>5
  <2>8. IsBeginning(f[k + 1], f[n])
    BY <2>2, <2>6, <2>7
  <2> HIDE DEF k
  <2>9. f[k + 1] = f[k] \o parts[k + 1]
    BY <2>6 DEF Flattens
  <2>10. f[k] \in Seq(Byte) /\ parts[k + 1] \in Seq(Byte)
    BY <1>1, <1>2, <2>6
  <2>11. PICK x \in Seq(Byte) : x = f[k]
    BY <2>10
  <2>12. PICK y \in Seq(Byte) : y = parts[k + 1]
    BY <2>10
  <2>13. Len(x) \in Nat /\ Len(y) \in Nat
    BY LenProperties
  <2>14. Len(x \o y) = Len(x) + Len(y) /\ \A j \in 1 .. Len(x) : (x \o y)[j] = x[j]
    BY Concatenation
  <2>15. PICK whole \in Seq(Byte) : whole = f[n] /\ Len(whole) \in Nat
    <3>1. f[n] \in Seq(Byte)
      BY <1>1, <1>2
    <3> QED BY <3>1, LenProperties
  <2>16. IsBeginning(x \o y, whole)
    BY <2>8, <2>9, <2>11, <2>12, <2>15
  <2>17. Len(x \o y) <= Len(whole) /\ \A j \in 1 .. Len(x \o y) : whole[j] = (x \o y)[j]
    BY <2>16 DEF IsBeginning
  <2>18. \A j \in 1 .. Len(x) : j \in 1 .. Len(x \o y)
    BY <2>13, <2>14
  <2>19. Len(x) <= Len(whole)
    BY <2>13, <2>14, <2>15, <2>17
  <2>20. \A j \in 1 .. Len(x) : whole[j] = x[j]
    BY <2>14, <2>17, <2>18
  <2>21. IsBeginning(x, whole)
    BY <2>19, <2>20 DEF IsBeginning
  <2> QED BY <2>2, <2>3, <2>11, <2>15, <2>21 DEF k
<1>4. \A d \in 0 .. n : IsBeginning(f[n - d], f[n])
  BY <1>3
<1> HIDE DEF n
<1>5. \A k \in 0 .. n : n - k \in 0 .. n /\ n - (n - k) = k
  BY <1>1
<1>6. \A k \in 0 .. n : IsBeginning(f[k], f[n])
  BY <1>4, <1>5
<1> QED BY <1>6 DEF n

\* Where each part is in what they make, after a head.
PartAt(data, place, part) ==
    /\ place + Len(part) <= Len(data)
    /\ \A j \in 1 .. Len(part) : data[place + j] = part[j]

\* The place of a part, behind a head.
LEMMA PartPlace ==
    ASSUME NEW parts \in Seq(Seq(Byte)), NEW f, Flattens(f, parts), NEW head \in Seq(Byte),
           NEW k \in 1 .. Len(parts)
    PROVE  /\ Len(f[k - 1]) \in Nat /\ Len(parts[k]) \in Nat /\ parts[k] \in Seq(Byte)
           /\ Len(f[k]) = Len(f[k - 1]) + Len(parts[k])
           /\ PartAt(head \o FlattenSeq(parts), Len(head) + Len(f[k - 1]), parts[k])
<1>1. Len(parts) \in Nat /\ k - 1 \in 0 .. Len(parts) /\ k \in 0 .. Len(parts)
  BY LenProperties
<1>2. PICK x \in Seq(Byte) : x = f[k - 1]
  BY <1>1 DEF Flattens
<1>3. PICK y \in Seq(Byte) : y = parts[k]
  BY SeqElement
<1>4. f[k] = x \o y
  BY <1>2, <1>3 DEF Flattens
<1>5. PICK whole \in Seq(Byte) : whole = f[Len(parts)] /\ whole = FlattenSeq(parts)
  <2>1. Len(parts) \in 0 .. Len(parts)
    BY <1>1
  <2> QED BY <2>1 DEF Flattens
<1>6. Len(x) \in Nat /\ Len(y) \in Nat /\ Len(whole) \in Nat /\ Len(head) \in Nat
  BY LenProperties
<1>7. /\ Len(x \o y) = Len(x) + Len(y)
      /\ \A j \in 1 .. Len(y) : (x \o y)[Len(x) + j] = y[j]
  BY Concatenation
<1>8. IsBeginning(x \o y, whole)
  BY <1>1, <1>4, <1>5, FlattenedParts
<1>9. Len(x \o y) <= Len(whole) /\ \A j \in 1 .. Len(x \o y) : whole[j] = (x \o y)[j]
  BY <1>8 DEF IsBeginning
<1>10. \A j \in 1 .. Len(y) : Len(x) + j \in 1 .. Len(x \o y)
  BY <1>6, <1>7
<1>11. \A j \in 1 .. Len(y) : whole[Len(x) + j] = y[j]
  BY <1>7, <1>9, <1>10
<1>12. PICK data \in Seq(Byte) : data = head \o whole
  BY Concatenation
<1>13. /\ Len(data) = Len(head) + Len(whole)
       /\ \A j \in 1 .. Len(whole) : data[Len(head) + j] = whole[j]
  BY <1>12, Concatenation
<1>14. ASSUME NEW j \in 1 .. Len(y) PROVE data[(Len(head) + Len(x)) + j] = y[j]
  <2>1. /\ Len(x) + j \in 1 .. Len(whole)
        /\ (Len(head) + Len(x)) + j = Len(head) + (Len(x) + j)
    BY <1>6, <1>7, <1>9
  <2>2. data[Len(head) + (Len(x) + j)] = whole[Len(x) + j]
    BY <1>13, <2>1
  <2> QED BY <1>11, <2>1, <2>2
<1>15. (Len(head) + Len(x)) + Len(y) <= Len(data)
  BY <1>6, <1>7, <1>9, <1>13
<1>16. PartAt(data, Len(head) + Len(x), y)
  BY <1>14, <1>15 DEF PartAt
<1>17. Len(f[k]) = Len(x) + Len(y)
  BY <1>4, <1>7
<1> QED BY <1>2, <1>3, <1>5, <1>6, <1>12, <1>16, <1>17

\* Objects of a device identification, as they are sent.
Objects == {o \in [id : Byte, value : Seq(Byte)] : Len(o.value) <= 244}

\* The bytes of an object.
LEMMA ObjectFacts ==
    ASSUME NEW o \in Objects
    PROVE  /\ o = [id |-> o.id, value |-> o.value] /\ o.id \in Byte /\ o.value \in Seq(Byte)
           /\ Len(o.value) \in Nat /\ Len(o.value) <= 244
           /\ EncodeObject(o) \in Seq(Byte) /\ Len(EncodeObject(o)) = 2 + Len(o.value)
           /\ EncodeObject(o)[1] = o.id /\ EncodeObject(o)[2] = Len(o.value)
           /\ \A j \in 1 .. Len(o.value) : EncodeObject(o)[2 + j] = o.value[j]
<1>1. /\ o = [id |-> o.id, value |-> o.value] /\ o.id \in Byte /\ o.value \in Seq(Byte)
      /\ Len(o.value) <= 244
  BY DEF Objects
<1>2. PICK v \in Seq(Byte) : v = o.value
  BY <1>1
<1>3. Len(v) \in Nat
  BY LenProperties
<1>4. Len(v) <= 255
  BY <1>1, <1>2, <1>3
<1>5. PICK n \in Byte : n = Len(v)
  BY <1>3, <1>4, SmallNumber
<1>6. PICK head \in Seq(Byte) : head = <<o.id, n>> /\ Len(head) = 2
  BY <1>1, Pair
<1>7. head[1] = o.id /\ head[2] = n
  BY <1>6
<1>8. EncodeObject(o) = head \o v
  BY <1>2, <1>5, <1>6 DEF EncodeObject
<1>9. /\ head \o v \in Seq(Byte) /\ Len(head \o v) = Len(head) + Len(v)
      /\ \A j \in 1 .. Len(head) : (head \o v)[j] = head[j]
      /\ \A j \in 1 .. Len(v) : (head \o v)[Len(head) + j] = v[j]
  BY Concatenation
<1>10. 1 \in 1 .. Len(head) /\ 2 \in 1 .. Len(head)
  BY <1>6
<1>11. (head \o v)[1] = o.id /\ (head \o v)[2] = n
  BY <1>7, <1>9, <1>10
<1>12. \A j \in 1 .. Len(v) : (head \o v)[2 + j] = v[j]
  BY <1>6, <1>9
<1>13. Len(head \o v) = 2 + Len(v)
  BY <1>6, <1>9
<1> QED BY <1>1, <1>2, <1>3, <1>5, <1>8, <1>9, <1>11, <1>12, <1>13

ObjectBytes(objects) == [k \in DOMAIN objects |-> EncodeObject(objects[k])]

\* The bytes of each of several objects.
LEMMA ObjectBytesFacts ==
    ASSUME NEW objects \in Seq(Objects)
    PROVE  /\ ObjectBytes(objects) \in Seq(Seq(Byte))
           /\ Len(ObjectBytes(objects)) = Len(objects) /\ Len(objects) \in Nat
           /\ \A k \in 1 .. Len(objects) : /\ objects[k] \in Objects
                                           /\ ObjectBytes(objects)[k] = EncodeObject(objects[k])
<1>1. Len(objects) \in Nat /\ DOMAIN objects = 1 .. Len(objects)
  BY LenProperties
<1>2. \A k \in 1 .. Len(objects) : objects[k] \in Objects
  BY SeqElement
<1>3. \A k \in 1 .. Len(objects) : EncodeObject(objects[k]) \in Seq(Byte)
  BY <1>2, ObjectFacts
<1>4. /\ ObjectBytes(objects) \in [1 .. Len(objects) -> Seq(Byte)]
      /\ \A k \in 1 .. Len(objects) : ObjectBytes(objects)[k] = EncodeObject(objects[k])
  BY <1>1, <1>3 DEF ObjectBytes
<1> QED BY <1>1, <1>2, <1>4, FunctionIsSeq

\* The objects come back from their bytes.
ObjectsAt(data, i, objects) ==
    /\ ObjectStart(data, i, Len(objects)) = Len(data) + 1
    /\ ObjectsFrom(data, i, Len(objects)) = objects

\* Objects that follow each other are found one after the other.
LEMMA ObjectsComeBack ==
    ASSUME NEW objects \in Seq(Objects), NEW head \in Seq(Byte)
    PROVE  /\ head \o FlattenSeq(ObjectBytes(objects)) \in Seq(Byte)
           /\ ObjectsAt(head \o FlattenSeq(ObjectBytes(objects)), Len(head) + 1, objects)
<1>1. PICK n \in Nat : n = Len(objects) /\ DOMAIN objects = 1 .. n
  BY LenProperties
<1>2. PICK parts \in Seq(Seq(Byte)) : parts = ObjectBytes(objects) /\ Len(parts) = n
  BY <1>1, ObjectBytesFacts
<1>3. \A k \in 1 .. n : objects[k] \in Objects /\ parts[k] = EncodeObject(objects[k])
  BY <1>1, <1>2, ObjectBytesFacts
<1>4. PICK f : Flattens(f, parts)
  BY FlattenSteps
<1>5. PICK whole \in Seq(Byte) : whole = f[n] /\ whole = FlattenSeq(parts)
  <2>1. n \in 0 .. n
    OBVIOUS
  <2> QED BY <1>2, <1>4, <2>1 DEF Flattens
<1>6. PICK data \in Seq(Byte) : data = head \o whole /\ Len(data) = Len(head) + Len(whole)
  BY Concatenation
<1>7. PICK i \in Nat : i = Len(head) + 1
  BY LenProperties
<1>8. \A k \in 0 .. n : Len(f[k]) \in Nat
  BY <1>2, <1>4, LenProperties DEF Flattens
<1> DEFINE start == [k \in 0 .. n |-> i + Len(f[k])]
<1>9. /\ start \in [0 .. n -> Nat] /\ start[0] = i /\ start[n] = Len(data) + 1
      /\ \A k \in 0 .. n : start[k] = i + Len(f[k])
  <2>1. \A k \in 0 .. n : i + Len(f[k]) \in Nat
    BY <1>8
  <2>2. start \in [0 .. n -> Nat] /\ \A k \in 0 .. n : start[k] = i + Len(f[k])
    BY <2>1
  <2>3. 0 \in 0 .. n /\ n \in 0 .. n
    OBVIOUS
  <2>4. Len(f[0]) = 0
    BY <1>4 DEF Flattens
  <2>5. start[0] = i
    <3>1. start[0] = i + Len(f[0])
      BY <2>2, <2>3
    <3> QED BY <2>4, <3>1
  <2>6. start[n] = Len(data) + 1
    <3>1. start[n] = i + Len(whole)
      BY <1>5, <2>2, <2>3
    <3>2. PICK h \in Nat, w \in Nat : h = Len(head) /\ w = Len(whole)
      BY LenProperties
    <3>3. start[n] = i + w /\ Len(data) = h + w /\ i = h + 1
      BY <1>6, <1>7, <3>1, <3>2
    <3>4. i + w = (h + w) + 1
      BY <1>7, <3>2
    <3> QED BY <3>3, <3>4
  <2> HIDE DEF start
  <2> QED BY <2>2, <2>5, <2>6
<1> HIDE DEF start
<1>10. ASSUME NEW k \in 1 .. n
       PROVE  /\ start[k - 1] \in Nat /\ start[k] = start[k - 1] + Len(parts[k])
              /\ PartAt(data, start[k - 1] - 1, parts[k])
  <2>1. k \in 1 .. Len(parts) /\ k \in 0 .. n /\ k - 1 \in 0 .. n
    BY <1>2
  <2>2. /\ Len(f[k - 1]) \in Nat /\ Len(parts[k]) \in Nat
        /\ Len(f[k]) = Len(f[k - 1]) + Len(parts[k])
        /\ PartAt(head \o FlattenSeq(parts), Len(head) + Len(f[k - 1]), parts[k])
    BY <1>4, <2>1, PartPlace, ZenonT(60)
  <2>3. start[k - 1] = i + Len(f[k - 1]) /\ start[k] = i + Len(f[k])
    BY <1>9, <2>1
  <2>4. PICK h \in Nat, x \in Nat, y \in Nat :
              h = Len(head) /\ x = Len(f[k - 1]) /\ y = Len(parts[k])
    BY <2>2, LenProperties
  <2>5. start[k - 1] = i + x /\ start[k] = i + (x + y) /\ i = h + 1
    BY <1>7, <2>2, <2>3, <2>4
  <2>6. PICK b \in Nat : b = i + x
    OBVIOUS
  <2>7. h + x = b - 1 /\ i + (x + y) = b + y
    <3>1. i = h + 1
      BY <2>5
    <3> QED BY <2>6, <3>1
  <2>8. start[k - 1] = b /\ start[k] = b + Len(parts[k])
    BY <2>4, <2>5, <2>6, <2>7
  <2>9. PartAt(head \o FlattenSeq(parts), b - 1, parts[k])
    BY <2>2, <2>4, <2>7
  <2> QED BY <1>5, <1>6, <2>8, <2>9
<1> DEFINE Place(k) ==
             LET s == start[k - 1]
                 o == objects[k]
             IN  /\ s \in Nat /\ Len(o.value) \in Nat /\ s + 1 + Len(o.value) <= Len(data)
                 /\ data[s] = o.id /\ data[s + 1] = Len(o.value)
                 /\ \A j \in 1 .. Len(o.value) : data[s + 1 + j] = o.value[j]
                 /\ start[k] = s + 2 + Len(o.value)
                 /\ o = [id |-> o.id, value |-> o.value] /\ o.value \in Seq(Byte)
<1>11. ASSUME NEW k \in 1 .. n PROVE Place(k)
  <2>1. PICK o \in Objects : o = objects[k] /\ parts[k] = EncodeObject(o)
    BY <1>3
  <2>2. PICK b \in Seq(Byte) : b = EncodeObject(o)
    BY ObjectFacts
  <2>3. PICK s \in Nat : s = start[k - 1]
    BY <1>10
  <2>4. start[k] = s + Len(b) /\ PartAt(data, s - 1, b)
    BY <1>10, <2>1, <2>2, <2>3
  <2>5. PICK m \in Nat : m = Len(o.value)
    BY ObjectFacts
  <2>6. Len(b) = 2 + m /\ b[1] = o.id /\ b[2] = m
    BY <2>2, <2>5, ObjectFacts
  <2>7. \A j \in 1 .. m : b[2 + j] = o.value[j]
    BY <2>2, <2>5, ObjectFacts
  <2>8. (s - 1) + Len(b) <= Len(data) /\ \A j \in 1 .. Len(b) : data[(s - 1) + j] = b[j]
    BY <2>4 DEF PartAt
  <2>9. data[s] = o.id /\ data[s + 1] = m
    <3>1. 1 \in 1 .. Len(b) /\ 2 \in 1 .. Len(b) /\ (s - 1) + 1 = s /\ (s - 1) + 2 = s + 1
      BY <2>6
    <3> QED BY <2>6, <2>8, <3>1
  <2>10. ASSUME NEW j \in 1 .. m PROVE data[s + 1 + j] = o.value[j]
    <3>1. 2 + j \in 1 .. Len(b) /\ (s - 1) + (2 + j) = s + 1 + j
      BY <2>6
    <3>2. data[(s - 1) + (2 + j)] = b[2 + j]
      BY <2>8, <3>1
    <3> QED BY <2>7, <3>1, <3>2
  <2>11. s + 1 + m <= Len(data) /\ start[k] = s + 2 + m
    <3>1. Len(data) \in Nat
      BY LenProperties
    <3> QED BY <2>4, <2>6, <2>8, <3>1
  <2>12. o = [id |-> o.id, value |-> o.value] /\ o.value \in Seq(Byte)
    BY ObjectFacts
  <2> QED BY <2>1, <2>3, <2>5, <2>9, <2>10, <2>11, <2>12
<1> HIDE DEF Place
<1>12. ASSUME NEW k \in 0 .. n PROVE ObjectStart(data, i, k) = start[k]
  <2> DEFINE g == [m \in 0 .. n |-> ObjectStart(data, i, m)]
  <2>1. \A m \in 0 .. n : g[m] = ObjectStart(data, i, m)
    OBVIOUS
  <2> HIDE DEF g
  <2>2. g[0] = start[0]
    <3>1. 0 \in Nat /\ 0 \in 0 .. n
      OBVIOUS
    <3> QED BY <1>9, <2>1, <3>1, ObjectStartFacts
  <2>3. KeepsEqual(g, start, n)
    <3> SUFFICES ASSUME NEW m \in 1 .. n, g[m - 1] = start[m - 1] PROVE g[m] = start[m]
      BY DEF KeepsEqual
    <3>1. m - 1 \in Nat /\ m - 1 \in 0 .. n /\ m \in 0 .. n /\ (m - 1) + 1 = m
      OBVIOUS
    <3>2. PICK s \in Nat : s = start[m - 1]
      BY <1>10
    <3>3. PICK p \in Nat : p = m - 1
      BY <3>1
    <3>4. ObjectStart(data, i, p) = s /\ g[m] = ObjectStart(data, i, p + 1)
      BY <2>1, <3>1, <3>2, <3>3
    <3>5. ObjectStart(data, i, p + 1) = ObjectStart(data, i, p) + 2
                                          + At(data, ObjectStart(data, i, p) + 1)
      BY ObjectStartFacts
    <3>6. g[m] = s + 2 + At(data, s + 1)
      BY <3>4, <3>5
    <3>7. /\ Len(objects[m].value) \in Nat
          /\ s + 1 + Len(objects[m].value) <= Len(data)
          /\ data[s + 1] = Len(objects[m].value)
          /\ start[m] = s + 2 + Len(objects[m].value)
      BY <1>11, <3>2 DEF Place
    <3>8. At(data, s + 1) = Len(objects[m].value)
      <4>1. PICK m0 \in Nat, d \in Nat : m0 = Len(objects[m].value) /\ d = Len(data)
        BY <3>7, LenProperties
      <4>2. s + 1 + m0 <= d
        BY <3>7, <4>1
      <4>3. s + 1 <= d
        BY <4>2
      <4> QED BY <3>7, <4>1, <4>3 DEF At
    <3>9. PICK m0 \in Nat : m0 = Len(objects[m].value)
      BY <3>7
    <3>10. g[m] = s + 2 + m0 /\ start[m] = s + 2 + m0
      BY <3>6, <3>7, <3>8, <3>9
    <3> QED BY <3>10
  <2>4. \A m \in 0 .. n : g[m] = start[m]
    BY <2>2, <2>3, SameSteps
  <2> QED BY <2>1, <2>4
<1>13. ObjectStart(data, i, n) = Len(data) + 1
  <2>1. n \in 0 .. n
    OBVIOUS
  <2> QED BY <1>9, <1>12, <2>1
<1>14. ObjectsFrom(data, i, n) = objects
  <2> DEFINE at == [k \in 1 .. n |-> ObjectStart(data, i, k - 1)]
             made(k) == [id |-> data[at[k]],
                         value |-> SubSeq(data, at[k] + 2, at[k] + 1 + data[at[k] + 1])]
  <2>1. ObjectsFrom(data, i, n) = [k \in 1 .. n |-> made(k)]
    BY DEF ObjectsFrom
  <2>2. ASSUME NEW k \in 1 .. n PROVE at[k] = start[k - 1]
    <3>1. k - 1 \in 0 .. n
      OBVIOUS
    <3> QED BY <1>12, <3>1
  <2> HIDE DEF at
  <2>3. ASSUME NEW k \in 1 .. n PROVE made(k) = objects[k]
    <3>1. PICK s \in Nat : s = start[k - 1]
      BY <1>10
    <3>2. PICK o \in Objects : o = objects[k]
      BY <1>3
    <3>3. PICK v \in Seq(Byte) : v = o.value
      BY ObjectFacts
    <3>4. /\ Len(v) \in Nat /\ s + 1 + Len(v) <= Len(data)
          /\ data[s] = o.id /\ data[s + 1] = Len(v)
          /\ \A j \in 1 .. Len(v) : data[s + 1 + j] = v[j]
          /\ o = [id |-> o.id, value |-> v]
      BY <1>11, <3>1, <3>2, <3>3 DEF Place
    <3>5. SubSeq(data, s + 2, s + 1 + Len(v)) = v
      <4>1. /\ s + 1 \in Nat /\ (s + 1) + Len(v) <= Len(data)
            /\ (s + 1) + 1 = s + 2
        BY <3>4, SMTT(40)
      <4>2. \A j \in 1 .. Len(v) : data[(s + 1) + j] = v[j]
        BY <3>4
      <4>3. SubSeq(data, (s + 1) + 1, (s + 1) + Len(v)) = v
        BY <4>1, <4>2, MiddleIs
      <4> QED BY <4>1, <4>3
    <3>6. made(k) = [id |-> data[s], value |-> SubSeq(data, s + 2, s + 1 + data[s + 1])]
      BY <2>2, <3>1
    <3> QED BY <3>2, <3>4, <3>5, <3>6
  <2> HIDE DEF made
  <2>4. objects = [k \in 1 .. n |-> objects[k]]
    BY <1>1, LenProperties
  <2> QED BY <2>1, <2>3, <2>4
<1>15. ObjectsAt(data, i, objects)
  BY <1>1, <1>13, <1>14 DEF ObjectsAt
<1> QED BY <1>2, <1>5, <1>6, <1>7, <1>15

-----------------------------------------------------------------------------
(***************************************************************************)
(* The CRC.  Words are taken for sixteen bits, the lowest first.  The      *)
(* register of the CRC is compared with that of a division by the          *)
(* generator, which holds the same bits in the other order.                *)
(***************************************************************************)
\* A table has the entries it is made of.
LEMMA TableFacts ==
    ASSUME NEW S, NEW entries \in [1 .. 256 -> S]
    PROVE  \A x \in Byte : /\ Table(entries)[x + 1] \in S
                           /\ Table(entries)[x + 1] = entries[x + 1]
<1>1. entries \in Seq(S) /\ Len(entries) = 256
  BY FunctionIsSeq, ZenonT(60)
<1>2. 256 \in 0 .. Len(entries)
  BY <1>1
<1>3. \A k \in 1 .. 256 : SubSeq(entries, 1, 256)[k] = entries[k]
  BY <1>1, <1>2, PrefixFacts
<1> SUFFICES ASSUME NEW x \in Byte
             PROVE  Table(entries)[x + 1] \in S /\ Table(entries)[x + 1] = entries[x + 1]
  OBVIOUS
<1>4. x + 1 \in 1 .. 256
  BY ByteIs
<1> QED BY <1>3, <1>4 DEF Table

WordBits == [1 .. 16 -> {0, 1}]
Plus(a, b) == [k \in 1 .. 16 |-> (a[k] + b[k]) % 2]
Zeros == [k \in 1 .. 16 |-> 0]
Ones == [k \in 1 .. 16 |-> 1]
UnitBit(i) == [k \in 1 .. 16 |-> IF k = i THEN 1 ELSE 0]
Mirror(a) == [k \in 1 .. 16 |-> a[17 - k]]

\* One bit is shifted out, without the generator and with it.
ShiftedDown(a) == [k \in 1 .. 16 |-> IF k = 16 THEN 0 ELSE a[k + 1]]
CrcShift(a) == [k \in 1 .. 16 |->
                  IF k = 16 THEN a[1]
                  ELSE IF k \in {1, 14} THEN (a[k + 1] + a[1]) % 2 ELSE a[k + 1]]
\* A bit of the message is added to the bit that is shifted out.
CrcBit(a, b) == CrcShift([a EXCEPT ![1] = (@ + b) % 2])
\* A step of the division: a bit shifted in, the generator taken off.
DivShift(a) == [k \in 1 .. 16 |->
                  IF k = 1 THEN a[16]
                  ELSE IF k \in {3, 16} THEN (a[k - 1] + a[16]) % 2 ELSE a[k - 1]]
DivBit(a, b) == [DivShift(a) EXCEPT ![1] = (@ + b) % 2]

\* Bits are added as bits.
LEMMA BitSum ==
    /\ \A x, y \in {0, 1} : (x + y) % 2 \in {0, 1} /\ (x + y) % 2 = (y + x) % 2
    /\ \A x \in {0, 1} : (x + 0) % 2 = x /\ (x + x) % 2 = 0
    /\ \A x, y, z \in {0, 1} : (((x + y) % 2) + z) % 2 = (x + ((y + z) % 2)) % 2
OBVIOUS

LEMMA WordBitsAre ==
    ASSUME NEW a \in WordBits, NEW b \in WordBits
    PROVE  /\ \A k \in 1 .. 16 : a[k] \in {0, 1} /\ a[k] \in Int
           /\ Plus(a, b) \in WordBits /\ Zeros \in WordBits /\ Mirror(a) \in WordBits
           /\ \A i : UnitBit(i) \in WordBits
           /\ CrcShift(a) \in WordBits /\ DivShift(a) \in WordBits /\ ShiftedDown(a) \in WordBits
           /\ \A c \in {0, 1} : CrcBit(a, c) \in WordBits /\ DivBit(a, c) \in WordBits
<1>1. \A k \in 1 .. 16 : a[k] \in {0, 1} /\ b[k] \in {0, 1}
  BY DEF WordBits
<1>2. \A k \in 1 .. 16 : a[k] \in Int
  BY <1>1
<1>3. Plus(a, b) \in WordBits
  BY <1>1, BitSum DEF WordBits, Plus
<1>4. Zeros \in WordBits /\ Mirror(a) \in WordBits /\ \A i : UnitBit(i) \in WordBits
  BY <1>1 DEF WordBits, Zeros, Mirror, UnitBit
<1>5. \A x \in WordBits : CrcShift(x) \in WordBits
  BY BitSum DEF WordBits, CrcShift
<1>6. \A x \in WordBits : DivShift(x) \in WordBits
  BY BitSum DEF WordBits, DivShift
<1>7. ShiftedDown(a) \in WordBits
  BY <1>1 DEF WordBits, ShiftedDown
<1>8. ASSUME NEW c \in {0, 1} PROVE CrcBit(a, c) \in WordBits /\ DivBit(a, c) \in WordBits
  <2>1. \A x \in WordBits : [x EXCEPT ![1] = (@ + c) % 2] \in WordBits
    BY BitSum DEF WordBits
  <2> QED BY <2>1, <1>5, <1>6 DEF CrcBit, DivBit
<1> QED BY <1>1, <1>2, <1>3, <1>4, <1>5, <1>6, <1>7, <1>8

\* Words of bits are the same if they have the same bits.
LEMMA SameBits ==
    ASSUME NEW a \in WordBits, NEW b \in WordBits, \A k \in 1 .. 16 : a[k] = b[k]
    PROVE  a = b
BY DEF WordBits

LEMMA PlusCommutes ==
    ASSUME NEW a \in WordBits, NEW b \in WordBits
    PROVE  Plus(a, b) = Plus(b, a)
<1>1. \A k \in 1 .. 16 : (a[k] + b[k]) % 2 = (b[k] + a[k]) % 2
  BY WordBitsAre, BitSum
<1> QED BY <1>1 DEF Plus

\* The division is linear.
LEMMA DivIsLinear ==
    ASSUME NEW a \in WordBits, NEW b \in WordBits
    PROVE  DivShift(Plus(a, b)) = Plus(DivShift(a), DivShift(b))
<1>1. \A k \in 1 .. 16 : a[k] \in {0, 1} /\ b[k] \in {0, 1}
  BY WordBitsAre
<1>2. \A x, y, u, v \in {0, 1} :
         (((x + y) % 2) + ((u + v) % 2)) % 2 = (((x + u) % 2) + ((y + v) % 2)) % 2
  OBVIOUS
<1>3. ASSUME NEW k \in 1 .. 16
      PROVE  DivShift(Plus(a, b))[k] = Plus(DivShift(a), DivShift(b))[k]
  <2>1. CASE k = 1
    BY <2>1 DEF DivShift, Plus
  <2>2. CASE k \in {3, 16}
    <3>1. k - 1 \in 1 .. 16
      BY <2>2
    <3>2. /\ DivShift(Plus(a, b))[k]
               = (((a[k - 1] + b[k - 1]) % 2) + ((a[16] + b[16]) % 2)) % 2
          /\ Plus(DivShift(a), DivShift(b))[k]
               = (((a[k - 1] + a[16]) % 2) + ((b[k - 1] + b[16]) % 2)) % 2
      BY <2>2, <3>1 DEF DivShift, Plus
    <3> QED BY <1>1, <1>2, <3>1, <3>2
  <2>3. CASE k \notin {1, 3, 16}
    <3>1. k - 1 \in 1 .. 16
      BY <2>3
    <3> QED BY <2>3, <3>1 DEF DivShift, Plus
  <2> QED BY <2>1, <2>2, <2>3
<1> QED BY <1>3 DEF DivShift, Plus

\* A division by the generator of nothing, and of a single bit.
LEMMA DivOfZeros == DivShift(Zeros) = Zeros
<1>1. \A k \in 1 .. 16 : DivShift(Zeros)[k] = 0
  BY DEF DivShift, Zeros
<1> QED BY <1>1 DEF DivShift, Zeros

LEMMA DivOfUnit ==
    ASSUME NEW i \in 1 .. 15
    PROVE  DivShift(UnitBit(i)) = UnitBit(i + 1)
<1>1. UnitBit(i)[16] = 0
  BY DEF UnitBit
<1>2. ASSUME NEW k \in 1 .. 16 PROVE DivShift(UnitBit(i))[k] = UnitBit(i + 1)[k]
  BY <1>1 DEF DivShift, UnitBit
<1> QED BY <1>2 DEF DivShift, UnitBit

LEMMA DivToZeros ==
    ASSUME NEW a \in WordBits, DivShift(a) = Zeros
    PROVE  a = Zeros
<1>1. \A k \in 1 .. 16 : DivShift(a)[k] = 0
  BY DEF Zeros
<1>2. a[16] = 0
  BY <1>1 DEF DivShift
<1>3. ASSUME NEW k \in 1 .. 15 PROVE a[k] = 0
  <2>1. k + 1 \in 1 .. 16 /\ k + 1 # 1 /\ (k + 1) - 1 = k
    OBVIOUS
  <2>2. DivShift(a)[k + 1] = IF k + 1 \in {3, 16} THEN (a[k] + a[16]) % 2 ELSE a[k]
    BY <2>1 DEF DivShift
  <2>3. a[k] \in {0, 1}
    BY WordBitsAre
  <2> QED BY <1>1, <1>2, <2>1, <2>2, <2>3
<1> QED BY <1>2, <1>3 DEF WordBits, Zeros

\* Sixteen steps of the division.
TwoDivs(a) == DivShift(DivShift(a))
FourDivs(a) == TwoDivs(TwoDivs(a))
EightDivs(a) == FourDivs(FourDivs(a))
WordDivs(a) == EightDivs(EightDivs(a))

\* They are linear, and another step may be taken before or after.
LEMMA WordDivsFacts ==
    ASSUME NEW a \in WordBits
    PROVE  /\ WordDivs(a) \in WordBits
           /\ WordDivs(DivShift(a)) = DivShift(WordDivs(a))
           /\ WordDivs(a) = Zeros => a = Zeros
           /\ \A b \in WordBits : WordDivs(Plus(a, b)) = Plus(WordDivs(a), WordDivs(b))
<1>1. \A x \in WordBits : /\ DivShift(x) \in WordBits
                          /\ DivShift(x) = Zeros => x = Zeros
                          /\ \A y \in WordBits : DivShift(Plus(x, y)) = Plus(DivShift(x), DivShift(y))
  BY WordBitsAre, DivToZeros, DivIsLinear
<1>2. \A x \in WordBits : /\ TwoDivs(x) \in WordBits /\ TwoDivs(DivShift(x)) = DivShift(TwoDivs(x))
                          /\ TwoDivs(x) = Zeros => x = Zeros
                          /\ \A y \in WordBits : TwoDivs(Plus(x, y)) = Plus(TwoDivs(x), TwoDivs(y))
  BY <1>1, Zenon DEF TwoDivs
<1>3. \A x \in WordBits : /\ FourDivs(x) \in WordBits /\ FourDivs(DivShift(x)) = DivShift(FourDivs(x))
                          /\ FourDivs(x) = Zeros => x = Zeros
                          /\ \A y \in WordBits : FourDivs(Plus(x, y)) = Plus(FourDivs(x), FourDivs(y))
  BY <1>2, Zenon DEF FourDivs
<1>4. \A x \in WordBits : /\ EightDivs(x) \in WordBits /\ EightDivs(DivShift(x)) = DivShift(EightDivs(x))
                          /\ EightDivs(x) = Zeros => x = Zeros
                          /\ \A y \in WordBits : EightDivs(Plus(x, y)) = Plus(EightDivs(x), EightDivs(y))
  BY <1>3, Zenon DEF EightDivs
<1> QED BY <1>4, Zenon DEF WordDivs

\* They take the lowest bit beyond the highest.
LEMMA WordDivsOfUnit == WordDivs(UnitBit(1)) = DivShift(UnitBit(16))
<1>1. \A i \in 1 .. 15 : DivShift(UnitBit(i)) = UnitBit(i + 1)
  BY DivOfUnit
<1>2. \A i \in 1 .. 14 : TwoDivs(UnitBit(i)) = UnitBit(i + 2)
  BY <1>1 DEF TwoDivs
<1>3. \A i \in 1 .. 12 : FourDivs(UnitBit(i)) = UnitBit(i + 4)
  BY <1>2 DEF FourDivs
<1>4. EightDivs(UnitBit(1)) = UnitBit(9)
  BY <1>3 DEF EightDivs
<1>5. FourDivs(UnitBit(9)) = UnitBit(13)
  BY <1>3
<1>6. TwoDivs(UnitBit(13)) = UnitBit(15)
  BY <1>2
<1>7. TwoDivs(UnitBit(15)) = DivShift(UnitBit(16))
  BY <1>1 DEF TwoDivs
<1> QED BY <1>4, <1>5, <1>6, <1>7 DEF WordDivs, EightDivs, FourDivs

\* The first sixteen bits are inverted: those that are still ahead after n.
Ahead(n) == [k \in 1 .. 16 |-> IF k > n THEN 1 ELSE 0]

\* The register of the CRC is sixteen steps ahead of that of the division.
Together(a, r, n) == WordDivs(r) = Plus(Mirror(a), Ahead(n))

\* They stay together when a bit b comes, which the division gets inverted if it
\* is one of the first sixteen.
LEMMA StayTogether ==
    ASSUME NEW a \in WordBits, NEW r \in WordBits, NEW n \in Nat, NEW b \in {0, 1},
           Together(a, r, n)
    PROVE  LET d == IF n < 16 THEN 1 - b ELSE b
           IN  Together(CrcBit(a, b), DivBit(r, d), n + 1)
<1>1. PICK d \in {0, 1} : d = IF n < 16 THEN 1 - b ELSE b
  OBVIOUS
<1> DEFINE low == IF d = 1 THEN UnitBit(1) ELSE Zeros
           high == IF d = 1 THEN UnitBit(16) ELSE Zeros
           x == Plus(Plus(Mirror(a), Ahead(n)), high)
           t == (a[1] + b) % 2
<1>2. /\ \A k \in 1 .. 16 : a[k] \in {0, 1}
      /\ Mirror(a) \in WordBits /\ DivShift(r) \in WordBits /\ CrcBit(a, b) \in WordBits
      /\ low \in WordBits /\ high \in WordBits
  BY WordBitsAre
<1>3. Ahead(n) \in WordBits
  BY DEF Ahead, WordBits
<1>4. DivBit(r, d) = Plus(DivShift(r), low)
  <2>1. \A k \in 1 .. 16 : DivShift(r)[k] \in {0, 1}
    BY <1>2, WordBitsAre
  <2>2. ASSUME NEW k \in 1 .. 16 PROVE DivBit(r, d)[k] = Plus(DivShift(r), low)[k]
    <3>1. DivBit(r, d)[k] = IF k = 1 THEN (DivShift(r)[1] + d) % 2 ELSE DivShift(r)[k]
      BY <1>2 DEF DivBit, WordBits
    <3>2. low[k] = IF k = 1 THEN d ELSE 0
      BY DEF UnitBit, Zeros
    <3>3. Plus(DivShift(r), low)[k] = (DivShift(r)[k] + low[k]) % 2
      BY DEF Plus
    <3> HIDE DEF low
    <3> QED BY <2>1, <3>1, <3>2, <3>3, BitSum
  <2>3. DivBit(r, d) \in WordBits /\ Plus(DivShift(r), low) \in WordBits
    BY <1>2, WordBitsAre
  <2> HIDE DEF low
  <2> QED BY <2>2, <2>3, SameBits
<1>5. WordDivs(low) = DivShift(high)
  <2>1. WordDivs(Zeros) = Zeros
    BY DivOfZeros DEF WordDivs, EightDivs, FourDivs, TwoDivs
  <2> QED BY <2>1, DivOfZeros, WordDivsOfUnit
<1> HIDE DEF low, high
<1>6. WordDivs(DivBit(r, d)) = DivShift(x)
  <2>1. WordDivs(DivBit(r, d)) = Plus(DivShift(WordDivs(r)), DivShift(high))
    BY <1>2, <1>4, <1>5, WordDivsFacts
  <2>2. WordDivs(r) \in WordBits
    BY WordDivsFacts
  <2>3. WordDivs(DivBit(r, d)) = DivShift(Plus(WordDivs(r), high))
    BY <1>2, <2>1, <2>2, DivIsLinear
  <2> QED BY <2>3 DEF Together
<1>7. x \in WordBits
  BY <1>2, <1>3, WordBitsAre
<1>8. \A k \in 1 .. 15 : x[k] = (a[17 - k] + (IF k > n THEN 1 ELSE 0)) % 2
  <2> SUFFICES ASSUME NEW k \in 1 .. 15
               PROVE  x[k] = (a[17 - k] + (IF k > n THEN 1 ELSE 0)) % 2
    OBVIOUS
  <2>1. high[k] = 0
    BY DEF high, UnitBit, Zeros
  <2>2. x[k] = (((a[17 - k] + (IF k > n THEN 1 ELSE 0)) % 2) + high[k]) % 2
    BY DEF Plus, Mirror, Ahead
  <2>3. a[17 - k] \in {0, 1}
    BY <1>2
  <2> QED BY <2>1, <2>2, <2>3
<1>9. x[16] = t
  <2>1. high[16] = d
    BY DEF high, UnitBit, Zeros
  <2>2. x[16] = (((a[1] + (IF 16 > n THEN 1 ELSE 0)) % 2) + d) % 2
    BY <2>1 DEF Plus, Mirror, Ahead
  <2>3. a[1] \in {0, 1}
    BY <1>2
  <2> QED BY <1>1, <2>2, <2>3
<1> DEFINE y == Mirror(CrcBit(a, b))
<1>10. \A k \in 1 .. 16 : y[k] = IF k = 1 THEN t
                                 ELSE IF k \in {3, 16} THEN (a[18 - k] + t) % 2 ELSE a[18 - k]
  <2> DEFINE c == [a EXCEPT ![1] = (@ + b) % 2]
  <2>1. \A k \in 1 .. 16 : c[k] = IF k = 1 THEN t ELSE a[k]
    BY DEF WordBits
  <2> HIDE DEF c, t
  <2> SUFFICES ASSUME NEW k \in 1 .. 16
               PROVE  CrcShift(c)[17 - k]
                        = IF k = 1 THEN t
                          ELSE IF k \in {3, 16} THEN (a[18 - k] + t) % 2 ELSE a[18 - k]
    BY DEF Mirror, CrcBit, c
  <2>2. CASE k = 1
    BY <2>1, <2>2 DEF CrcShift
  <2>3. CASE k # 1
    <3>1. 17 - k \in 1 .. 15 /\ (17 - k) + 1 = 18 - k /\ 18 - k \in 2 .. 16
      BY <2>3
    <3>2. CrcShift(c)[17 - k] = IF 17 - k \in {1, 14} THEN (c[18 - k] + c[1]) % 2 ELSE c[18 - k]
      BY <3>1 DEF CrcShift
    <3> QED BY <2>1, <2>3, <3>1, <3>2
  <2> QED BY <2>2, <2>3
<1>11. y \in WordBits /\ Ahead(n + 1) \in WordBits
  <2>1. Ahead(n + 1) \in WordBits
    BY DEF Ahead, WordBits
  <2> QED BY <1>2, <2>1, WordBitsAre
<1> HIDE DEF x, y
<1>12. ASSUME NEW k \in 1 .. 16 PROVE DivShift(x)[k] = Plus(y, Ahead(n + 1))[k]
  <2>1. Plus(y, Ahead(n + 1))[k] = (y[k] + (IF k > n + 1 THEN 1 ELSE 0)) % 2
    BY DEF Plus, Ahead
  <2>2. t \in {0, 1}
    BY <1>2
  <2>3. CASE k = 1
    BY <1>9, <1>10, <2>1, <2>2, <2>3 DEF DivShift
  <2>4. CASE k # 1
    <3>1. k - 1 \in 1 .. 15 /\ 17 - (k - 1) = 18 - k /\ 18 - k \in 1 .. 16
      BY <2>4
    <3>2. x[k - 1] = (a[18 - k] + (IF k > n + 1 THEN 1 ELSE 0)) % 2
      <4>1. x[k - 1] = (a[17 - (k - 1)] + (IF k - 1 > n THEN 1 ELSE 0)) % 2
        BY <1>8, <3>1
      <4> QED BY <3>1, <4>1
    <3>3. DivShift(x)[k] = IF k \in {3, 16} THEN (x[k - 1] + t) % 2 ELSE x[k - 1]
      BY <1>9, <2>4 DEF DivShift
    <3>4. y[k] = IF k \in {3, 16} THEN (a[18 - k] + t) % 2 ELSE a[18 - k]
      BY <1>10, <2>4
    <3>5. a[18 - k] \in {0, 1}
      BY <1>2, <3>1
    <3> HIDE DEF t
    <3> QED BY <2>1, <2>2, <3>2, <3>3, <3>4, <3>5
  <2> QED BY <2>3, <2>4
<1>13. DivShift(x) = Plus(y, Ahead(n + 1))
  <2>1. DivShift(x) \in WordBits /\ Plus(y, Ahead(n + 1)) \in WordBits
    BY <1>7, <1>11, WordBitsAre
  <2> QED BY <1>12, <2>1, SameBits
<1> QED BY <1>1, <1>6, <1>13 DEF Together, y

\* At the end they are ahead of nothing: either is zero if the other is.
LEMMA TogetherZero ==
    ASSUME NEW r \in WordBits, NEW n \in Nat, n >= 16, Together(Zeros, r, n)
    PROVE  r = Zeros
<1>1. Plus(Mirror(Zeros), Ahead(n)) = Zeros
  <2>1. \A k \in 1 .. 16 : Plus(Mirror(Zeros), Ahead(n))[k] = 0
    BY DEF Plus, Mirror, Zeros, Ahead
  <2> QED BY <2>1 DEF Plus, Zeros
<1> QED BY <1>1, WordDivsFacts DEF Together

\* They begin together, the one with ones and the other with zeros.
LEMMA BeginTogether == Together(Ones, Zeros, 0)
<1>1. WordDivs(Zeros) = Zeros
  BY DivOfZeros DEF WordDivs, EightDivs, FourDivs, TwoDivs
<1>2. Plus(Mirror(Ones), Ahead(0)) = Zeros
  <2>1. \A k \in 1 .. 16 : Plus(Mirror(Ones), Ahead(0))[k] = 0
    BY DEF Plus, Mirror, Ahead, Ones
  <2> QED BY <2>1 DEF Plus, Zeros
<1> QED BY <1>1, <1>2 DEF Together

\* The bits of a word, the lowest first.
BitsOf(w) == [k \in 1 .. 16 |-> IF k <= 8 THEN Bit(w % 256, k) ELSE Bit(w \div 256, k - 8)]

LEMMA BitsOfWord ==
    ASSUME NEW w \in Word
    PROVE  BitsOf(w) \in WordBits /\ w % 256 \in Byte /\ w \div 256 \in Byte
<1>1. w % 256 \in Byte /\ w \div 256 \in Byte
  BY BytesOfWord
<1>2. w % 256 \in Int /\ w \div 256 \in Int
  BY <1>1, ByteIs
<1>3. ASSUME NEW k \in 1 .. 16 PROVE BitsOf(w)[k] \in {0, 1}
  <2>1. CASE k <= 8
    <3>1. Bit(w % 256, k) \in {0, 1}
      BY <1>2, <2>1, BitIsBit
    <3> QED BY <2>1, <3>1 DEF BitsOf
  <2>2. CASE ~ (k <= 8)
    <3>1. k - 8 \in 1 .. 8
      BY <2>2
    <3>2. Bit(w \div 256, k - 8) \in {0, 1}
      BY <1>2, <3>1, BitIsBit
    <3> QED BY <2>2, <3>2 DEF BitsOf
  <2> QED BY <2>1, <2>2
<1> QED BY <1>1, <1>3 DEF BitsOf, WordBits

\* A byte is the sum of its bits.
LEMMA BitsMakeByte ==
    ASSUME NEW x \in Byte
    PROVE  x = Bit(x, 1) + 2 * Bit(x, 2) + 4 * Bit(x, 3) + 8 * Bit(x, 4)
                 + 16 * Bit(x, 5) + 32 * Bit(x, 6) + 64 * Bit(x, 7) + 128 * Bit(x, 8)
<1>1. x \in Nat /\ x <= 255
  BY ByteIs
<1>2. /\ x = 2 * (x \div 2) + Bit(x, 1)
      /\ x \div 2 = 2 * (x \div 4) + Bit(x, 2)
      /\ x \div 4 = 2 * (x \div 8) + Bit(x, 3)
      /\ x \div 8 = 2 * (x \div 16) + Bit(x, 4)
      /\ x \div 16 = 2 * (x \div 32) + Bit(x, 5)
      /\ x \div 32 = 2 * (x \div 64) + Bit(x, 6)
      /\ x \div 64 = 2 * (x \div 128) + Bit(x, 7)
      /\ x \div 128 = Bit(x, 8)
  BY <1>1 DEF Bit, Weight
<1>3. /\ x \div 2 \in Int /\ x \div 4 \in Int /\ x \div 8 \in Int /\ x \div 16 \in Int
      /\ x \div 32 \in Int /\ x \div 64 \in Int /\ x \div 128 \in Int
      /\ \A k \in 1 .. 8 : Bit(x, k) \in Int
  BY <1>1, BitIsBit
<1>4. PICK q1 \in Int, q2 \in Int, q3 \in Int, q4 \in Int, q5 \in Int, q6 \in Int, q7 \in Int :
         /\ q1 = x \div 2 /\ q2 = x \div 4 /\ q3 = x \div 8 /\ q4 = x \div 16
         /\ q5 = x \div 32 /\ q6 = x \div 64 /\ q7 = x \div 128
  BY <1>3
<1>5. /\ x = 2 * q1 + Bit(x, 1) /\ q1 = 2 * q2 + Bit(x, 2) /\ q2 = 2 * q3 + Bit(x, 3)
      /\ q3 = 2 * q4 + Bit(x, 4) /\ q4 = 2 * q5 + Bit(x, 5) /\ q5 = 2 * q6 + Bit(x, 6)
      /\ q6 = 2 * q7 + Bit(x, 7) /\ q7 = Bit(x, 8)
  BY <1>2, <1>4, Zenon
<1> QED BY <1>1, <1>3, <1>5

\* So words with the same bits are the same.
LEMMA BitsTellWords ==
    ASSUME NEW v \in Word, NEW w \in Word, BitsOf(v) = BitsOf(w)
    PROVE  v = w
<1>1. \A k \in 1 .. 16 : BitsOf(v)[k] = BitsOf(w)[k]
  OBVIOUS
<1>2. \A k \in 1 .. 8 : Bit(v % 256, k) = Bit(w % 256, k)
  BY <1>1 DEF BitsOf
<1>3. \A k \in 1 .. 8 : Bit(v \div 256, k) = Bit(w \div 256, k)
  <2> SUFFICES ASSUME NEW k \in 1 .. 8 PROVE Bit(v \div 256, k) = Bit(w \div 256, k)
    OBVIOUS
  <2>1. k + 8 \in 1 .. 16 /\ ~ (k + 8 <= 8) /\ (k + 8) - 8 = k
    OBVIOUS
  <2>2. BitsOf(v)[k + 8] = Bit(v \div 256, k) /\ BitsOf(w)[k + 8] = Bit(w \div 256, k)
    BY <2>1 DEF BitsOf
  <2> QED BY <1>1, <2>1, <2>2
<1>4. v % 256 = w % 256
  BY <1>2, BitsMakeByte, BytesOfWord
<1>5. v \div 256 = w \div 256
  BY <1>3, BitsMakeByte, BytesOfWord
<1> QED BY <1>4, <1>5, BytesOfWord

\* The bits of a word that is made of two bytes.
LEMMA BitsOfBytes ==
    ASSUME NEW a \in Byte, NEW b \in Byte
    PROVE  \A k \in 1 .. 16 : BitsOf(256 * a + b)[k] = IF k <= 8 THEN Bit(b, k) ELSE Bit(a, k - 8)
BY WordOfBytes DEF BitsOf

\* The exclusive or of bytes adds their bits.
LEMMA XorByteFacts ==
    ASSUME NEW x \in Byte, NEW y \in Byte
    PROVE  /\ XorByte(x, y) \in Byte
           /\ \A k \in 1 .. 8 : Bit(XorByte(x, y), k) = (Bit(x, k) + Bit(y, k)) % 2
<1> DEFINE sum(a, b) == [k \in 1 .. 8 |-> (Bit(a - 1, k) + Bit(b - 1, k)) % 2]
           row(a) == [b \in 1 .. 256 |-> Octet(sum(a, b))]
           rows == [a \in 1 .. 256 |-> Table(row(a))]
<1>1. ASSUME NEW a \in 1 .. 256, NEW b \in 1 .. 256
      PROVE  Octet(sum(a, b)) \in Byte /\ \A k \in 1 .. 8 : Bit(Octet(sum(a, b)), k) = sum(a, b)[k]
  <2>1. \A k \in 1 .. 8 : Bit(a - 1, k) \in {0, 1} /\ Bit(b - 1, k) \in {0, 1}
    BY BitIsBit
  <2>2. sum(a, b) \in [1 .. 8 -> {0, 1}]
    BY <2>1
  <2> HIDE DEF sum
  <2> QED BY <2>2, BitsOfOctet
<1>2. \A k \in 1 .. 8 : sum(x + 1, y + 1)[k] = (Bit(x, k) + Bit(y, k)) % 2
  <2>1. (x + 1) - 1 = x /\ (y + 1) - 1 = y
    BY ByteIs
  <2> QED BY <2>1
<1>3. XorTable = Table(rows)
  BY DEF XorTable
<1> HIDE DEF sum
<1>4. \A a \in 1 .. 256 : row(a) \in [1 .. 256 -> Byte]
  BY <1>1
<1>5. x + 1 \in 1 .. 256 /\ y + 1 \in 1 .. 256
  BY ByteIs
<1>6. row(x + 1)[y + 1] = Octet(sum(x + 1, y + 1))
  BY <1>5
<1> HIDE DEF row
<1>7. rows \in [1 .. 256 -> {rows[a] : a \in 1 .. 256}]
  OBVIOUS
<1>8. Table(rows)[x + 1] = rows[x + 1]
  <2> HIDE DEF rows
  <2> QED BY <1>7, TableFacts, ZenonT(60)
<1>9. Table(row(x + 1))[y + 1] = row(x + 1)[y + 1]
  <2>1. PICK t \in [1 .. 256 -> Byte] : t = row(x + 1)
    BY <1>4, <1>5
  <2>2. Table(t)[y + 1] = t[y + 1]
    BY TableFacts
  <2> QED BY <2>1, <2>2
<1>10. XorByte(x, y) = Octet(sum(x + 1, y + 1))
  BY <1>3, <1>5, <1>6, <1>8, <1>9 DEF XorByte
<1> QED BY <1>1, <1>2, <1>5, <1>10

\* And so does that of words.
LEMMA XorFacts ==
    ASSUME NEW x \in Word, NEW y \in Word
    PROVE  Xor(x, y) \in Word /\ BitsOf(Xor(x, y)) = Plus(BitsOf(x), BitsOf(y))
<1> DEFINE a == XorByte(x \div 256, y \div 256)
           b == XorByte(x % 256, y % 256)
<1>1. /\ a \in Byte /\ \A k \in 1 .. 8 : Bit(a, k) = (Bit(x \div 256, k) + Bit(y \div 256, k)) % 2
      /\ b \in Byte /\ \A k \in 1 .. 8 : Bit(b, k) = (Bit(x % 256, k) + Bit(y % 256, k)) % 2
  BY BytesOfWord, XorByteFacts
<1>2. Xor(x, y) = 256 * a + b
  BY DEF Xor
<1> HIDE DEF a, b
<1>3. Xor(x, y) \in Word
  BY <1>1, <1>2, WordOfBytes
<1>4. ASSUME NEW k \in 1 .. 16 PROVE BitsOf(Xor(x, y))[k] = Plus(BitsOf(x), BitsOf(y))[k]
  <2>1. BitsOf(Xor(x, y))[k] = IF k <= 8 THEN Bit(b, k) ELSE Bit(a, k - 8)
    BY <1>1, <1>2, BitsOfBytes
  <2>2. ~ (k <= 8) => k - 8 \in 1 .. 8
    OBVIOUS
  <2> QED BY <1>1, <2>1, <2>2 DEF Plus, BitsOf
<1>5. BitsOf(Xor(x, y)) \in WordBits /\ Plus(BitsOf(x), BitsOf(y)) \in WordBits
  BY <1>3, BitsOfWord, WordBitsAre
<1> QED BY <1>3, <1>4, <1>5, SameBits

\* The lowest bit of a word is shifted out.
LEMMA HalfFacts ==
    ASSUME NEW v \in Word
    PROVE  v \div 2 \in Word /\ BitsOf(v \div 2) = ShiftedDown(BitsOf(v))
<1> DEFINE a == v \div 256
           b == v % 256
           c == 128 * (a % 2) + (b \div 2)
<1>1. a \in Byte /\ b \in Byte /\ v = 256 * a + b
  BY BytesOfWord
<1>2. a \in Nat /\ a <= 255 /\ b \in Nat /\ b <= 255
  BY <1>1, ByteIs
<1> HIDE DEF a, b
<1>3. v \div 2 = 256 * (a \div 2) + c
  BY <1>1, <1>2
<1>4. a \div 2 \in Byte /\ c \in Byte
  BY <1>2, ByteIs
<1>5. ASSUME NEW x \in Nat, x <= 255
      PROVE  /\ \A k \in 1 .. 7 : Bit(x \div 2, k) = Bit(x, k + 1)
             /\ Bit(x \div 2, 8) = 0 /\ Bit(x, 1) = x % 2
  <2>1. Bit(x \div 2, 1) = Bit(x, 2) /\ Bit(x \div 2, 2) = Bit(x, 3)
    BY <1>5 DEF Bit, Weight
  <2>2. Bit(x \div 2, 3) = Bit(x, 4) /\ Bit(x \div 2, 4) = Bit(x, 5)
    BY <1>5 DEF Bit, Weight
  <2>3. Bit(x \div 2, 5) = Bit(x, 6) /\ Bit(x \div 2, 6) = Bit(x, 7)
    BY <1>5 DEF Bit, Weight
  <2>4. Bit(x \div 2, 7) = Bit(x, 8) /\ Bit(x \div 2, 8) = 0 /\ Bit(x, 1) = x % 2
    BY <1>5 DEF Bit, Weight
  <2> QED BY <2>1, <2>2, <2>3, <2>4
<1>6. (\A k \in 1 .. 7 : Bit(c, k) = Bit(b \div 2, k)) /\ Bit(c, 8) = a % 2
  <2>1. PICK h \in 0 .. 127, t \in {0, 1} : h = b \div 2 /\ t = a % 2 /\ c = 128 * t + h
    BY <1>2
  <2>2. Bit(c, 1) = Bit(h, 1)
    BY <2>1 DEF Bit, Weight
  <2>3. Bit(c, 2) = Bit(h, 2)
    BY <2>1 DEF Bit, Weight
  <2>4. Bit(c, 3) = Bit(h, 3)
    BY <2>1 DEF Bit, Weight
  <2>5. Bit(c, 4) = Bit(h, 4)
    BY <2>1 DEF Bit, Weight
  <2>6. Bit(c, 5) = Bit(h, 5)
    BY <2>1 DEF Bit, Weight
  <2>7. Bit(c, 6) = Bit(h, 6)
    BY <2>1 DEF Bit, Weight
  <2>8. Bit(c, 7) = Bit(h, 7)
    BY <2>1 DEF Bit, Weight
  <2>9. Bit(c, 8) = t
    BY <2>1 DEF Bit, Weight
  <2> QED BY <2>1, <2>2, <2>3, <2>4, <2>5, <2>6, <2>7, <2>8, <2>9
<1> HIDE DEF c
<1>7. v \div 2 \in Word
  BY <1>3, <1>4, WordOfBytes
<1>8. ASSUME NEW k \in 1 .. 16 PROVE BitsOf(v \div 2)[k] = ShiftedDown(BitsOf(v))[k]
  <2>1. BitsOf(v \div 2)[k] = IF k <= 8 THEN Bit(c, k) ELSE Bit(a \div 2, k - 8)
    BY <1>3, <1>4, BitsOfBytes
  <2>2. \A m \in 1 .. 16 : BitsOf(v)[m] = IF m <= 8 THEN Bit(b, m) ELSE Bit(a, m - 8)
    BY DEF BitsOf, a, b
  <2>3. ShiftedDown(BitsOf(v))[k] = IF k = 16 THEN 0 ELSE BitsOf(v)[k + 1]
    BY DEF ShiftedDown
  <2>4. CASE k <= 7
    BY <1>2, <1>5, <1>6, <2>1, <2>2, <2>3, <2>4
  <2>5. CASE k = 8
    BY <1>2, <1>5, <1>6, <2>1, <2>2, <2>3, <2>5
  <2>6. CASE k \in 9 .. 15
    <3>1. k - 8 \in 1 .. 7 /\ (k + 1) - 8 = (k - 8) + 1 /\ k + 1 \in 1 .. 16 /\ ~ (k + 1 <= 8)
      BY <2>6
    <3>2. BitsOf(v)[k + 1] = Bit(a, (k - 8) + 1)
      BY <2>2, <3>1
    <3>3. Bit(a \div 2, k - 8) = Bit(a, (k - 8) + 1)
      BY <1>2, <1>5, <3>1
    <3> QED BY <2>1, <2>3, <2>6, <3>2, <3>3
  <2>7. CASE k = 16
    BY <1>2, <1>5, <2>1, <2>3, <2>7
  <2>8. k <= 7 \/ k = 8 \/ k \in 9 .. 15 \/ k = 16
    OBVIOUS
  <2> QED BY <2>4, <2>5, <2>6, <2>7, <2>8, Zenon
<1>9. BitsOf(v \div 2) \in WordBits /\ ShiftedDown(BitsOf(v)) \in WordBits
  BY <1>7, BitsOfWord, WordBitsAre
<1> QED BY <1>7, <1>8, <1>9, SameBits

\* And the generator is taken off if it was a one.
LEMMA ShiftedFacts ==
    ASSUME NEW v \in Word
    PROVE  Shifted(v) \in Word /\ BitsOf(Shifted(v)) = CrcShift(BitsOf(v))
<1> DEFINE x == BitsOf(v)
<1>1. v \div 2 \in Word /\ BitsOf(v \div 2) = ShiftedDown(x)
  BY HalfFacts
<1>2. 40961 \in Word
  BY WordIs
<1>3. \A k \in 1 .. 16 : BitsOf(40961)[k] = IF k \in {1, 14, 16} THEN 1 ELSE 0
  <2>1. 40961 % 256 = 1 /\ 40961 \div 256 = 160
    OBVIOUS
  <2>2. \A k \in 1 .. 8 : Bit(1, k) = IF k = 1 THEN 1 ELSE 0
    BY DEF Bit, Weight
  <2>3. \A k \in 1 .. 8 : Bit(160, k) = IF k \in {6, 8} THEN 1 ELSE 0
    BY DEF Bit, Weight
  <2> SUFFICES ASSUME NEW k \in 1 .. 16
               PROVE  BitsOf(40961)[k] = IF k \in {1, 14, 16} THEN 1 ELSE 0
    OBVIOUS
  <2>4. BitsOf(40961)[k] = IF k <= 8 THEN Bit(1, k) ELSE Bit(160, k - 8)
    BY <2>1 DEF BitsOf
  <2>5. ~ (k <= 8) => k - 8 \in 1 .. 8
    OBVIOUS
  <2> QED BY <2>2, <2>3, <2>4, <2>5
<1>4. x \in WordBits /\ \A k \in 1 .. 16 : x[k] \in {0, 1}
  BY BitsOfWord, WordBitsAre
<1>5. x[1] = v % 2
  <2>1. x[1] = Bit(v % 256, 1)
    BY DEF BitsOf
  <2>2. Bit(v % 256, 1) = (v % 256) % 2
    BY BytesOfWord, ByteIs DEF Bit, Weight
  <2>3. (v % 256) % 2 = v % 2
    BY WordIs
  <2> QED BY <2>1, <2>2, <2>3
<1> HIDE DEF x
<1>6. CASE v % 2 = 1
  <2>1. Shifted(v) = Xor(v \div 2, 40961)
    BY <1>6 DEF Shifted
  <2>2. Shifted(v) \in Word /\ BitsOf(Shifted(v)) = Plus(ShiftedDown(x), BitsOf(40961))
    BY <1>1, <1>2, <2>1, XorFacts
  <2>3. ASSUME NEW k \in 1 .. 16 PROVE Plus(ShiftedDown(x), BitsOf(40961))[k] = CrcShift(x)[k]
    <3>1. Plus(ShiftedDown(x), BitsOf(40961))[k]
            = ((IF k = 16 THEN 0 ELSE x[k + 1]) + (IF k \in {1, 14, 16} THEN 1 ELSE 0)) % 2
      BY <1>3 DEF Plus, ShiftedDown
    <3>2. k # 16 => x[k + 1] \in {0, 1}
      BY <1>4
    <3> QED BY <1>5, <1>6, <3>1, <3>2 DEF CrcShift
  <2>4. Plus(ShiftedDown(x), BitsOf(40961)) = CrcShift(x)
    BY <2>3 DEF Plus, CrcShift
  <2> QED BY <2>2, <2>4 DEF x
<1>7. CASE v % 2 # 1
  <2>1. Shifted(v) = v \div 2
    BY <1>7 DEF Shifted
  <2>2. x[1] = 0
    BY <1>4, <1>5, <1>7
  <2>3. ASSUME NEW k \in 1 .. 16 PROVE ShiftedDown(x)[k] = CrcShift(x)[k]
    <3>1. k # 16 => x[k + 1] \in {0, 1}
      BY <1>4
    <3> QED BY <2>2, <3>1 DEF CrcShift, ShiftedDown
  <2>4. ShiftedDown(x) = CrcShift(x)
    BY <2>3 DEF ShiftedDown, CrcShift
  <2> QED BY <1>1, <2>1, <2>4 DEF x
<1> QED BY <1>6, <1>7

\* An entry of the table: eight bits are shifted out of a byte.
Shifts(f, value) == /\ f \in [0 .. 8 -> Word] /\ f[0] = value
                    /\ \A n \in 1 .. 8 : f[n] = Shifted(f[n - 1])

LEMMA TableEntrySteps ==
    ASSUME NEW value \in Byte
    PROVE  \E f : Shifts(f, value) /\ TableEntry(value) = f[8]
<1> DEFINE step == [i \in 1 .. 8 |-> [v \in Word |-> Shifted(v)]]
           after == CHOOSE f :
               f = [n \in 0 .. 8 |-> IF n = 0 THEN value ELSE Shifted(f[n - 1])]
<1>1. value \in Word
  BY ByteIs, WordIs
<1>2. step \in Steps(8, Word)
  BY ShiftedFacts DEF Steps
<1>3. PICK f : Iterates(f, 8, Word, value, step)
  BY <1>1, <1>2, Iteration
<1>4. f \in [0 .. 8 -> Word] /\ f[0] = value
  BY <1>3 DEF Iterates
<1>5. ASSUME NEW n \in 1 .. 8 PROVE f[n] = Shifted(f[n - 1])
  <2>1. f[n - 1] \in Word
    BY <1>4
  <2>2. f[n] = step[n][f[n - 1]]
    BY <1>3 DEF Iterates
  <2> QED BY <2>1, <2>2
<1>6. f = [n \in 0 .. 8 |-> IF n = 0 THEN value ELSE Shifted(f[n - 1])]
  BY <1>4, <1>5
<1>7. after = [n \in 0 .. 8 |-> IF n = 0 THEN value ELSE Shifted(after[n - 1])]
  BY <1>6
<1> HIDE DEF after
<1>8. after[0] = f[0]
  BY <1>6, <1>7
<1>9. KeepsEqual(after, f, 8)
  BY <1>6, <1>7 DEF KeepsEqual
<1>10. after[8] = f[8]
  BY <1>8, <1>9, SameSteps
<1>11. TableEntry(value) = after[8]
  BY DEF TableEntry, after
<1> QED BY <1>4, <1>5, <1>10, <1>11 DEF Shifts

LEMMA CrcTableFacts ==
    ASSUME NEW x \in Byte
    PROVE  TableEntry(x) \in Word /\ CRC16_MODBUS_TABLE[x + 1] = TableEntry(x)
<1> DEFINE entries == [i \in 1 .. 256 |-> TableEntry(i - 1)]
<1>1. \A y \in Byte : TableEntry(y) \in Word
  BY TableEntrySteps DEF Shifts
<1>2. entries \in [1 .. 256 -> Word] /\ entries[x + 1] = TableEntry(x)
  <2>1. \A i \in 1 .. 256 : i - 1 \in Byte
    BY ByteIs
  <2>2. x + 1 \in 1 .. 256 /\ (x + 1) - 1 = x
    BY ByteIs
  <2> QED BY <1>1, <2>1, <2>2
<1>3. CRC16_MODBUS_TABLE = Table(entries)
  BY DEF CRC16_MODBUS_TABLE
<1> HIDE DEF entries
<1>4. Table(entries)[x + 1] = entries[x + 1]
  BY <1>2, TableFacts
<1> QED BY <1>1, <1>2, <1>3, <1>4

\* One round of the loop.
LEMMA CrcAfterFacts ==
    ASSUME NEW crc \in Word, NEW byte \in Byte
    PROVE  /\ CrcAfter(crc, byte) \in Word
           /\ BitsOf(CrcAfter(crc, byte))
                = Plus(BitsOf(crc \div 256), BitsOf(TableEntry(XorByte(crc % 256, byte))))
<1>1. crc % 256 \in Byte /\ crc \div 256 \in Byte /\ crc \div 256 \in Word
  BY BytesOfWord, ByteIs, WordIs
<1>2. XorByte(crc % 256, byte) \in Byte
  BY <1>1, XorByteFacts
<1>3. CrcAfter(crc, byte) = Xor(crc \div 256, TableEntry(XorByte(crc % 256, byte)))
  BY <1>2, CrcTableFacts DEF CrcAfter
<1> QED BY <1>1, <1>2, <1>3, CrcTableFacts, XorFacts

\* y with n of its bits shifted out.
ShiftedBy(y, n) == [k \in 1 .. 16 |-> IF k + n > 16 THEN 0 ELSE y[k + n]]

\* When the lowest bit of y comes from the message, the generator is taken off
\* for those of x only.
LEMMA BitAdded ==
    ASSUME NEW x \in WordBits, NEW y \in WordBits, NEW n \in Nat
    PROVE  CrcBit(Plus(x, ShiftedBy(y, n)), ShiftedBy(y, n)[1]) = Plus(CrcShift(x), ShiftedBy(y, n + 1))
<1> DEFINE z == ShiftedBy(y, n)
           p == Plus(x, z)
           c == [p EXCEPT ![1] = (@ + z[1]) % 2]
<1>1. \A k \in 1 .. 16 : y[k] \in {0, 1} /\ x[k] \in {0, 1}
  BY WordBitsAre
<1>2. z \in WordBits /\ \A k \in 1 .. 16 : z[k] \in {0, 1}
  BY <1>1 DEF WordBits, ShiftedBy
<1>3. p \in WordBits /\ \A k \in 1 .. 16 : p[k] = (x[k] + z[k]) % 2
  BY <1>2, WordBitsAre DEF Plus
<1>4. \A k \in 1 .. 16 : ShiftedBy(y, n + 1)[k] = IF k = 16 THEN 0 ELSE z[k + 1]
  BY DEF ShiftedBy
<1>5. \A k \in 1 .. 16 : c[k] = IF k = 1 THEN x[1] ELSE (x[k] + z[k]) % 2
  <2>1. (((x[1] + z[1]) % 2) + z[1]) % 2 = x[1]
    <3>1. x[1] \in {0, 1} /\ z[1] \in {0, 1}
      BY <1>1, <1>2
    <3> HIDE DEF z
    <3> QED BY <3>1
  <2> HIDE DEF p, z
  <2> QED BY <1>3, <2>1 DEF WordBits
<1>6. CrcBit(p, z[1]) = CrcShift(c)
  BY DEF CrcBit
<1>7. ShiftedBy(y, n + 1) \in WordBits
  BY <1>1 DEF WordBits, ShiftedBy
<1> HIDE DEF c, p, z
<1>8. ASSUME NEW k \in 1 .. 16 PROVE CrcShift(c)[k] = Plus(CrcShift(x), ShiftedBy(y, n + 1))[k]
  <2>1. Plus(CrcShift(x), ShiftedBy(y, n + 1))[k]
          = (CrcShift(x)[k] + (IF k = 16 THEN 0 ELSE z[k + 1])) % 2
    BY <1>4 DEF Plus
  <2>2. CASE k = 16
    BY <1>1, <1>5, <2>1, <2>2 DEF CrcShift
  <2>3. CASE k # 16
    <3>1. k + 1 \in 2 .. 16
      BY <2>3
    <3>2. c[k + 1] = (x[k + 1] + z[k + 1]) % 2 /\ c[1] = x[1]
      BY <1>5, <3>1
    <3>3. x[k + 1] \in {0, 1} /\ z[k + 1] \in {0, 1} /\ x[1] \in {0, 1}
      BY <1>1, <1>2, <3>1
    <3>4. /\ CrcShift(c)[k] = IF k \in {1, 14} THEN (c[k + 1] + c[1]) % 2 ELSE c[k + 1]
          /\ CrcShift(x)[k] = IF k \in {1, 14} THEN (x[k + 1] + x[1]) % 2 ELSE x[k + 1]
      BY <2>3 DEF CrcShift
    <3> QED BY <2>1, <2>3, <3>2, <3>3, <3>4
  <2> QED BY <2>2, <2>3
<1>9. c \in WordBits
  BY <1>2, <1>3 DEF c, WordBits
<1>10. CrcShift(c) \in WordBits /\ Plus(CrcShift(x), ShiftedBy(y, n + 1)) \in WordBits
  BY <1>7, <1>9, WordBitsAre
<1>11. CrcShift(c) = Plus(CrcShift(x), ShiftedBy(y, n + 1))
  BY <1>8, <1>10, SameBits
<1> QED BY <1>6, <1>11 DEF p, z

\* The register while the bits of a byte come.
BitsCome(h, crc, byte) ==
    /\ h \in [0 .. 8 -> WordBits] /\ h[0] = BitsOf(crc) /\ h[8] = BitsOf(CrcAfter(crc, byte))
    /\ \A j \in 1 .. 8 : h[j] = CrcBit(h[j - 1], Bit(byte, j))

\* One round of the loop is what eight bits do, one after the other.
LEMMA ByteIsBits ==
    ASSUME NEW crc \in Word, NEW byte \in Byte
    PROVE  \E h : BitsCome(h, crc, byte)
<1> DEFINE u == XorByte(crc % 256, byte)
           y == [k \in 1 .. 16 |-> IF k <= 8 THEN Bit(byte, k) ELSE BitsOf(crc)[k]]
<1>1. crc % 256 \in Byte /\ crc \div 256 \in Byte
  BY BytesOfWord
<1>2. u \in Byte /\ \A k \in 1 .. 8 : Bit(u, k) = (Bit(crc % 256, k) + Bit(byte, k)) % 2
  BY <1>1, XorByteFacts
<1> HIDE DEF u
<1>3. PICK f : Shifts(f, u) /\ TableEntry(u) = f[8]
  BY <1>2, TableEntrySteps
<1>4. /\ BitsOf(crc) \in WordBits /\ \A k \in 1 .. 16 : BitsOf(crc)[k] \in {0, 1}
      /\ \A k \in 1 .. 8 : Bit(byte, k) \in {0, 1} /\ Bit(crc % 256, k) \in {0, 1}
  BY <1>1, BitsOfWord, WordBitsAre, BitIsBit, ByteIs
<1>5. y \in WordBits
  BY <1>4 DEF WordBits
<1> DEFINE h == [j \in 0 .. 8 |-> Plus(BitsOf(f[j]), ShiftedBy(y, j))]
<1>6. ASSUME NEW j \in 0 .. 8
      PROVE  f[j] \in Word /\ BitsOf(f[j]) \in WordBits /\ ShiftedBy(y, j) \in WordBits
  <2>1. f[j] \in Word
    BY <1>3 DEF Shifts
  <2>2. ShiftedBy(y, j) \in WordBits
    <3>1. \A k \in 1 .. 16 : y[k] \in {0, 1}
      BY <1>5, WordBitsAre
    <3> HIDE DEF y
    <3> QED BY <3>1 DEF ShiftedBy, WordBits
  <2> QED BY <2>1, <2>2, BitsOfWord
<1>7. h \in [0 .. 8 -> WordBits]
  BY <1>6, WordBitsAre
<1>8. h[0] = BitsOf(crc)
  <2>1. h[0] = Plus(BitsOf(u), ShiftedBy(y, 0))
    BY <1>3 DEF Shifts
  <2>2. u \div 256 = 0 /\ u % 256 = u /\ u \in Word
    BY <1>2, ByteIs, WordIs
  <2>3. \A k \in 1 .. 8 : Bit(0, k) = 0
    BY DEF Bit, Weight
  <2>4. \A k \in 1 .. 16 : BitsOf(u)[k] = IF k <= 8 THEN Bit(u, k) ELSE 0
    <3> SUFFICES ASSUME NEW k \in 1 .. 16
                 PROVE  BitsOf(u)[k] = IF k <= 8 THEN Bit(u, k) ELSE 0
      OBVIOUS
    <3>1. ~ (k <= 8) => k - 8 \in 1 .. 8
      OBVIOUS
    <3> QED BY <2>2, <2>3, <3>1 DEF BitsOf
  <2>5. ASSUME NEW k \in 1 .. 16 PROVE Plus(BitsOf(u), ShiftedBy(y, 0))[k] = BitsOf(crc)[k]
    <3>1. Plus(BitsOf(u), ShiftedBy(y, 0))[k] = (BitsOf(u)[k] + y[k]) % 2
      BY DEF Plus, ShiftedBy
    <3>2. CASE k <= 8
      <4>1. BitsOf(crc)[k] = Bit(crc % 256, k)
        BY <3>2 DEF BitsOf
      <4>2. y[k] = Bit(byte, k) /\ BitsOf(u)[k] = (Bit(crc % 256, k) + Bit(byte, k)) % 2
        BY <1>2, <2>4, <3>2
      <4>3. Bit(byte, k) \in {0, 1} /\ Bit(crc % 256, k) \in {0, 1}
        BY <1>4, <3>2
      <4> HIDE DEF y
      <4> QED BY <3>1, <4>1, <4>2, <4>3
    <3>3. CASE ~ (k <= 8)
      <4>1. y[k] = BitsOf(crc)[k] /\ BitsOf(u)[k] = 0
        BY <2>4, <3>3
      <4>2. BitsOf(crc)[k] \in {0, 1}
        BY <1>4
      <4> HIDE DEF y
      <4> QED BY <3>1, <4>1, <4>2
    <3> QED BY <3>2, <3>3
  <2>6. h[0] \in WordBits
    BY <1>7
  <2> HIDE DEF h, y
  <2> QED BY <1>4, <2>1, <2>5, <2>6, SameBits
<1>9. ASSUME NEW j \in 1 .. 8 PROVE h[j] = CrcBit(h[j - 1], Bit(byte, j))
  <2>1. j - 1 \in 0 .. 8 /\ j - 1 \in Nat /\ (j - 1) + 1 = j
    OBVIOUS
  <2>2. ShiftedBy(y, j - 1)[1] = Bit(byte, j)
    BY DEF ShiftedBy
  <2>3. f[j] = Shifted(f[j - 1])
    BY <1>3 DEF Shifts
  <2>4. f[j - 1] \in Word /\ BitsOf(f[j - 1]) \in WordBits
    BY <1>6, <2>1
  <2>5. BitsOf(f[j]) = CrcShift(BitsOf(f[j - 1]))
    BY <2>3, <2>4, ShiftedFacts
  <2>6. h[j - 1] = Plus(BitsOf(f[j - 1]), ShiftedBy(y, j - 1)) /\ h[j] = Plus(BitsOf(f[j]), ShiftedBy(y, j))
    BY <2>1
  <2> HIDE DEF h, y
  <2>7. CrcBit(Plus(BitsOf(f[j - 1]), ShiftedBy(y, j - 1)), ShiftedBy(y, j - 1)[1])
          = Plus(CrcShift(BitsOf(f[j - 1])), ShiftedBy(y, j))
    BY <1>5, <2>1, <2>4, BitAdded
  <2> QED BY <2>2, <2>5, <2>6, <2>7
<1>10. h[8] = BitsOf(CrcAfter(crc, byte))
  <2>1. h[8] = Plus(BitsOf(TableEntry(u)), ShiftedBy(y, 8))
    BY <1>3
  <2>2. ASSUME NEW k \in 1 .. 16 PROVE ShiftedBy(y, 8)[k] = BitsOf(crc \div 256)[k]
    <3>1. (crc \div 256) \div 256 = 0 /\ (crc \div 256) % 256 = crc \div 256
      BY <1>1, ByteIs
    <3>2. CASE k <= 8
      <4>1. k + 8 \in 1 .. 16 /\ ~ (k + 8 <= 8) /\ (k + 8) - 8 = k
        BY <3>2
      <4>2. ShiftedBy(y, 8)[k] = BitsOf(crc)[k + 8]
        BY <4>1 DEF ShiftedBy
      <4>3. BitsOf(crc)[k + 8] = Bit(crc \div 256, k)
        BY <4>1 DEF BitsOf
      <4>4. BitsOf(crc \div 256)[k] = Bit(crc \div 256, k)
        BY <3>1, <3>2 DEF BitsOf
      <4> QED BY <4>2, <4>3, <4>4
    <3>3. CASE ~ (k <= 8)
      <4>1. k - 8 \in 1 .. 8
        BY <3>3
      <4>2. BitsOf(crc \div 256)[k] = Bit(0, k - 8)
        BY <3>1, <3>3 DEF BitsOf
      <4>3. Bit(0, k - 8) = 0
        BY <4>1 DEF Bit, Weight
      <4>4. ShiftedBy(y, 8)[k] = 0
        BY <3>3 DEF ShiftedBy
      <4> QED BY <4>2, <4>3, <4>4
    <3> QED BY <3>2, <3>3
  <2>3. BitsOf(crc \div 256) \in WordBits /\ BitsOf(TableEntry(u)) \in WordBits /\ ShiftedBy(y, 8) \in WordBits
    <3>1. crc \div 256 \in Word
      BY <1>1, ByteIs, WordIs
    <3> QED BY <1>2, <1>6, <3>1, BitsOfWord, CrcTableFacts
  <2> HIDE DEF h, y
  <2>4. ShiftedBy(y, 8) = BitsOf(crc \div 256)
    BY <2>2, <2>3, SameBits
  <2>5. BitsOf(CrcAfter(crc, byte)) = Plus(BitsOf(crc \div 256), BitsOf(TableEntry(u)))
    BY CrcAfterFacts DEF u
  <2>6. Plus(BitsOf(TableEntry(u)), BitsOf(crc \div 256)) = Plus(BitsOf(crc \div 256), BitsOf(TableEntry(u)))
    BY <2>3, PlusCommutes
  <2> QED BY <2>1, <2>4, <2>5, <2>6
<1> HIDE DEF h
<1> QED BY <1>7, <1>8, <1>9, <1>10 DEF BitsCome

\* The rounds of the loop, and what they return.
Rounds(f, data) == /\ f \in [0 .. Len(data) -> Word] /\ f[0] = 65535
                   /\ \A i \in 1 .. Len(data) : f[i] = CrcAfter(f[i - 1], data[i])

LEMMA CrcRounds ==
    ASSUME NEW data \in Seq(Byte)
    PROVE  \E f : Rounds(f, data) /\ crc16_modbus(data) = f[Len(data)]
<1>1. PICK m \in Nat, first \in Word : m = Len(data) /\ first = 65535
  BY LenProperties, WordIs
<1> DEFINE step == [i \in 1 .. m |-> [v \in Word |-> CrcAfter(v, data[i])]]
           Rec(f) == f = [n \in 0 .. m |->
                             IF n = 0 THEN 65535 ELSE CrcAfter(f[n - 1], data[n])]
           crc == CHOOSE f : Rec(f)
<1>2. \A i \in 1 .. m : data[i] \in Byte
  BY <1>1, SeqElement
<1>3. step \in Steps(m, Word)
  BY <1>2, CrcAfterFacts DEF Steps
<1>4. PICK f : Iterates(f, m, Word, first, step)
  BY <1>3, Iteration
<1>5. f \in [0 .. m -> Word] /\ f[0] = 65535
  BY <1>1, <1>4 DEF Iterates
<1>6. ASSUME NEW n \in 1 .. m PROVE f[n] = CrcAfter(f[n - 1], data[n])
  <2>1. f[n - 1] \in Word
    BY <1>5
  <2>2. f[n] = step[n][f[n - 1]]
    BY <1>4 DEF Iterates
  <2> QED BY <2>1, <2>2
<1>7. Rec(f)
  BY <1>5, <1>6
<1>8. Rec(crc)
  <2> HIDE DEF Rec
  <2> QED BY <1>7, Zenon
<1> HIDE DEF crc
<1>9. crc[0] = f[0] /\ KeepsEqual(crc, f, m)
  BY <1>7, <1>8 DEF KeepsEqual
<1>10. m \in 0 .. m
  OBVIOUS
<1>11. crc[m] = f[m]
  BY <1>9, <1>10, SameSteps
<1>12. crc16_modbus(data) = crc[m]
  BY <1>1 DEF crc16_modbus, crc
<1>13. Rounds(f, data)
  BY <1>1, <1>5, <1>6 DEF Rounds
<1> QED BY <1>1, <1>11, <1>12, <1>13

\* The bits of nothing.
LEMMA BitsOfZero == BitsOf(0) = Zeros
<1>1. 0 % 256 = 0 /\ 0 \div 256 = 0
  OBVIOUS
<1>2. \A k \in 1 .. 8 : Bit(0, k) = 0
  BY DEF Bit, Weight
<1>3. ASSUME NEW k \in 1 .. 16 PROVE BitsOf(0)[k] = 0
  <2>1. ~ (k <= 8) => k - 8 \in 1 .. 8
    OBVIOUS
  <2> QED BY <1>1, <1>2, <2>1 DEF BitsOf
<1> QED BY <1>3 DEF BitsOf, Zeros

\* A byte that is that of the register leaves the other.
LEMMA OwnByte ==
    ASSUME NEW crc \in Word
    PROVE  CrcAfter(crc, crc % 256) = crc \div 256
<1> DEFINE u == XorByte(crc % 256, crc % 256)
<1>1. crc % 256 \in Byte /\ crc \div 256 \in Word
  BY BytesOfWord, ByteIs, WordIs
<1>2. u \in Byte /\ \A k \in 1 .. 8 : Bit(u, k) = 0
  <2>1. \A k \in 1 .. 8 : Bit(crc % 256, k) \in {0, 1}
    BY <1>1, ByteIs, BitIsBit
  <2>2. u \in Byte /\ \A k \in 1 .. 8 : Bit(u, k) = (Bit(crc % 256, k) + Bit(crc % 256, k)) % 2
    BY <1>1, XorByteFacts
  <2> HIDE DEF u
  <2> QED BY <2>1, <2>2
<1> HIDE DEF u
<1>3. u = 0
  BY <1>2, BitsMakeByte
<1>4. BitsOf(0) = Zeros
  BY BitsOfZero
<1>5. BitsOf(TableEntry(0)) = Zeros
  <2>1. 0 \in Byte
    BY ByteIs
  <2>2. PICK f : Shifts(f, 0) /\ TableEntry(0) = f[8]
    BY <2>1, TableEntrySteps
  <2>3. CrcShift(Zeros) = Zeros
    <3>1. \A k \in 1 .. 16 : CrcShift(Zeros)[k] = 0
      BY DEF CrcShift, Zeros
    <3> QED BY <3>1 DEF CrcShift, Zeros
  <2>4. ASSUME NEW n \in 1 .. 8, BitsOf(f[n - 1]) = Zeros PROVE BitsOf(f[n]) = Zeros
    <3>1. f[n - 1] \in Word /\ f[n] = Shifted(f[n - 1])
      BY <2>2 DEF Shifts
    <3> QED BY <2>3, <2>4, <3>1, ShiftedFacts
  <2>5. BitsOf(f[0]) = Zeros
    BY <1>4, <2>2 DEF Shifts
  <2>6. BitsOf(f[1]) = Zeros /\ BitsOf(f[2]) = Zeros /\ BitsOf(f[3]) = Zeros /\ BitsOf(f[4]) = Zeros
    BY <2>4, <2>5
  <2>7. BitsOf(f[5]) = Zeros /\ BitsOf(f[6]) = Zeros /\ BitsOf(f[7]) = Zeros /\ BitsOf(f[8]) = Zeros
    BY <2>4, <2>6
  <2> QED BY <2>2, <2>7
<1>6. Plus(BitsOf(crc \div 256), Zeros) = BitsOf(crc \div 256)
  <2>1. BitsOf(crc \div 256) \in WordBits
    BY <1>1, BitsOfWord
  <2>2. \A a \in WordBits : Plus(a, Zeros) = a
    <3> SUFFICES ASSUME NEW a \in WordBits PROVE Plus(a, Zeros) = a
      OBVIOUS
    <3>1. \A k \in 1 .. 16 : a[k] \in {0, 1}
      BY WordBitsAre
    <3>2. \A k \in 1 .. 16 : Plus(a, Zeros)[k] = a[k]
      BY <3>1 DEF Plus, Zeros
    <3> QED BY <3>2, SameBits, WordBitsAre
  <2> QED BY <2>1, <2>2
<1>7. BitsOf(CrcAfter(crc, crc % 256)) = BitsOf(crc \div 256)
  BY <1>1, <1>3, <1>5, <1>6, CrcAfterFacts DEF u
<1>8. CrcAfter(crc, crc % 256) \in Word
  BY <1>1, CrcAfterFacts
<1> QED BY <1>1, <1>7, <1>8, BitsTellWords

\* The CRC is a word: its two bytes are bytes.
LEMMA CrcIsWord ==
    ASSUME NEW data \in Seq(Byte)
    PROVE  crc16_modbus(data) \in Word
<1>1. PICK f : Rounds(f, data) /\ crc16_modbus(data) = f[Len(data)]
  BY CrcRounds
<1>2. Len(data) \in 0 .. Len(data)
  BY LenProperties
<1> QED BY <1>1, <1>2 DEF Rounds

\* The CRC is two bytes.
LEMMA CrcBytesFacts ==
    ASSUME NEW data \in Seq(Byte)
    PROVE  CrcBytes(data) \in Seq(Byte) /\ Len(CrcBytes(data)) = 2
<1>1. crc16_modbus(data) % 256 \in Byte /\ crc16_modbus(data) \div 256 \in Byte
  BY CrcIsWord, BytesOfWord
<1> QED BY <1>1, Pair DEF CrcBytes

\* The CRC of a message with its CRC is zero.
LEMMA CrcOfFrame ==
    ASSUME NEW m \in Seq(Byte)
    PROVE  crc16_modbus(m \o CrcBytes(m)) = 0
<1>1. PICK frame \in Seq(Byte), n \in Nat, c \in Word :
         frame = m \o CrcBytes(m) /\ n = Len(m) /\ c = crc16_modbus(m)
  BY CrcBytesFacts, CrcIsWord, ConcatProperties, LenProperties
<1>2. /\ Len(frame) = n + 2 /\ \A i \in 1 .. n : frame[i] = m[i]
      /\ frame[n + 1] = c % 256 /\ frame[n + 2] = c \div 256
  <2>1. CrcBytes(m) = <<c % 256, c \div 256>>
    BY <1>1 DEF CrcBytes
  <2>2. PICK t \in Seq(Byte) : t = CrcBytes(m) /\ Len(t) = 2
    BY CrcBytesFacts
  <2>3. t[1] = c % 256 /\ t[2] = c \div 256
    BY <2>1, <2>2
  <2>4. /\ Len(m \o t) = Len(m) + Len(t) /\ \A i \in 1 .. Len(m) : (m \o t)[i] = m[i]
        /\ \A i \in 1 .. Len(t) : (m \o t)[Len(m) + i] = t[i]
    <3> DEFINE Joined(x, y) ==
          /\ Len(x \o y) = Len(x) + Len(y) /\ \A i \in 1 .. Len(x) : (x \o y)[i] = x[i]
          /\ \A i \in 1 .. Len(y) : (x \o y)[Len(x) + i] = y[i]
    <3>1. \A x, y \in Seq(Byte) : Joined(x, y)
      BY Concatenation
    <3> HIDE DEF Joined
    <3>2. Joined(m, t)
      BY <3>1, Zenon
    <3> QED BY <3>2, Zenon DEF Joined
  <2>5. 1 \in 1 .. Len(t) /\ 2 \in 1 .. Len(t)
    BY <2>2
  <2>6. frame = m \o t
    BY <1>1, <2>2
  <2>7. Len(frame) = n + 2 /\ \A i \in 1 .. n : frame[i] = m[i]
    BY <1>1, <2>2, <2>4, <2>6, Zenon
  <2>8. frame[n + 1] = t[1] /\ frame[n + 2] = t[2]
    BY <1>1, <2>4, <2>5, <2>6, Zenon
  <2> QED BY <2>3, <2>7, <2>8
<1>3. PICK f : Rounds(f, m) /\ f[n] = c
  BY <1>1, CrcRounds
<1>4. PICK g : Rounds(g, frame) /\ crc16_modbus(frame) = g[n + 2]
  BY <1>2, CrcRounds
<1>5. g[0] = f[0]
  BY <1>3, <1>4 DEF Rounds
<1>6. KeepsEqual(g, f, n)
  BY <1>1, <1>2, <1>3, <1>4 DEF Rounds, KeepsEqual
<1>7. n \in 0 .. n
  BY <1>1
<1>8. g[n] = c
  BY <1>3, <1>5, <1>6, <1>7, SameSteps
<1>9. g[n + 1] = c \div 256
  <2>1. n + 1 \in 1 .. Len(frame) /\ (n + 1) - 1 = n
    BY <1>2
  <2>2. g[n + 1] = CrcAfter(c, c % 256)
    BY <1>2, <1>4, <1>8, <2>1 DEF Rounds
  <2> QED BY <2>2, OwnByte
<1>10. g[n + 2] = 0
  <2>1. n + 2 \in 1 .. Len(frame) /\ (n + 2) - 1 = n + 1
    BY <1>2
  <2>2. g[n + 2] = CrcAfter(c \div 256, c \div 256)
    BY <1>2, <1>4, <1>9, <2>1 DEF Rounds
  <2>3. c \div 256 \in Word /\ (c \div 256) % 256 = c \div 256 /\ (c \div 256) \div 256 = 0
    <3>1. PICK d \in Nat : d = c \div 256 /\ d <= 255
      BY BytesOfWord, ByteIs
    <3>2. d \in Word /\ d % 256 = d /\ d \div 256 = 0
      BY <3>1, WordIs
    <3> QED BY <3>1, <3>2, Zenon
  <2> QED BY <2>2, <2>3, OwnByte
<1> QED BY <1>1, <1>4, <1>10

-----------------------------------------------------------------------------
(***************************************************************************)
(* Flipped bits.  A bit that is flipped goes through the register of the   *)
(* division on its own, as the division is linear.  The register comes     *)
(* back to where the bit came in, but not within the length of a frame.    *)
(***************************************************************************)
\* What holds at first, and after a step if it did before, holds throughout.
LEMMA Upwards ==
    ASSUME NEW n \in Nat, NEW Good, 0 \in Good,
           \A i \in 1 .. n : i - 1 \in Good => i \in Good
    PROVE  \A i \in 0 .. n : i \in Good
<1> DEFINE Bad == {i \in 0 .. n : i \notin Good}
<1> SUFFICES ASSUME Bad # {} PROVE FALSE
  OBVIOUS
<1>1. PICK i \in Bad : \A k \in Bad : i <= k
  <2>1. Bad \subseteq Nat
    OBVIOUS
  <2> HIDE DEF Bad
  <2> QED BY <2>1, LeastNatural
<1>2. i \in 1 .. n /\ i - 1 \in 0 .. n /\ ~ (i <= i - 1)
  BY <1>1
<1> QED BY <1>1, <1>2

\* A sequence of bits that goes by the trinomial x^15 + x + 1, and by the powers of
\* it that have only three terms too.
Skips(u, n) == \A k \in Nat : u[k + 15 * n] = (u[k] + u[k + n]) % 2
Period(u, p) == \A k \in Nat : u[k + p] = u[k]

LEMMA SkipsTwice ==
    ASSUME NEW u \in [Nat -> {0, 1}], NEW n \in Nat, Skips(u, n)
    PROVE  Skips(u, 2 * n)
<1> SUFFICES ASSUME NEW k \in Nat
             PROVE  u[k + 15 * (2 * n)] = (u[k] + u[k + 2 * n]) % 2
  BY DEF Skips
<1>1. PICK i \in Nat, j \in Nat, l \in Nat, o \in Nat :
         /\ i = k + 15 * n /\ j = k + n /\ l = k + 2 * n /\ o = k + 15 * (2 * n)
         /\ o = i + 15 * n /\ i + n = j + 15 * n /\ l = j + n
  OBVIOUS
<1>2. u[i] = (u[k] + u[j]) % 2 /\ u[j + 15 * n] = (u[j] + u[l]) % 2
      /\ u[o] = (u[i] + u[i + n]) % 2
  BY <1>1 DEF Skips
<1>3. u[o] = (((u[k] + u[j]) % 2) + ((u[j] + u[l]) % 2)) % 2
  BY <1>1, <1>2, Zenon
<1>4. u[k] \in {0, 1} /\ u[j] \in {0, 1} /\ u[l] \in {0, 1}
  OBVIOUS
<1>5. \A x, y, z \in {0, 1} : (((x + y) % 2) + ((y + z) % 2)) % 2 = (x + z) % 2
  OBVIOUS
<1> QED BY <1>1, <1>3, <1>4, <1>5, Zenon

\* The bit n ahead is the sum of those that are 1, 2, 4 or 8 ahead and in S.
Term(u, k, j, S) == IF j \in S THEN u[k + j] ELSE 0
Sum4(u, k, S) == (Term(u, k, 1, S) + Term(u, k, 2, S) + Term(u, k, 4, S) + Term(u, k, 8, S)) % 2
Ahead4(u, n, S) == \A k \in Nat : u[k + n] = Sum4(u, k, S)

\* Sixteen times as far ahead: what is n and 2n ahead, together.
Both(S, T) == (S \ T) \cup (T \ S)
LEMMA AheadTwice ==
    ASSUME NEW u \in [Nat -> {0, 1}], NEW n \in Nat, Skips(u, n), NEW S, NEW T,
           Ahead4(u, n, S), Ahead4(u, 2 * n, T)
    PROVE  Ahead4(u, 16 * n, Both(S, T))
<1> SUFFICES ASSUME NEW k \in Nat PROVE u[k + 16 * n] = Sum4(u, k, Both(S, T))
  BY DEF Ahead4
<1>1. u[k + 16 * n] = (u[k + n] + u[k + 2 * n]) % 2
  <2>1. PICK i \in Nat : i = k + n /\ i + 15 * n = k + 16 * n /\ i + n = k + 2 * n
    OBVIOUS
  <2>2. u[i + 15 * n] = (u[i] + u[i + n]) % 2
    BY DEF Skips
  <2> QED BY <2>1, <2>2, Zenon
<1>2. u[k + n] = Sum4(u, k, S) /\ u[k + 2 * n] = Sum4(u, k, T)
  BY DEF Ahead4
<1>3. ASSUME NEW j \in {1, 2, 4, 8}
      PROVE  /\ Term(u, k, j, S) \in {0, 1} /\ Term(u, k, j, T) \in {0, 1}
             /\ Term(u, k, j, Both(S, T)) = (Term(u, k, j, S) + Term(u, k, j, T)) % 2
  <2>1. PICK v \in {0, 1} : v = u[k + j]
    OBVIOUS
  <2>2. j \in Both(S, T) <=> ~ (j \in S <=> j \in T)
    BY DEF Both
  <2>3. (0 + 0) % 2 = 0 /\ (v + 0) % 2 = v /\ (0 + v) % 2 = v /\ (v + v) % 2 = 0
    OBVIOUS
  <2> QED BY ONLY <2>1, <2>2, <2>3 DEF Term
<1>4. \A a, b, c, d, e, f, g, h \in {0, 1} :
         (((a + b + c + d) % 2) + ((e + f + g + h) % 2)) % 2
           = (((a + e) % 2) + ((b + f) % 2) + ((c + g) % 2) + ((d + h) % 2)) % 2
  OBVIOUS
<1>5. (Sum4(u, k, S) + Sum4(u, k, T)) % 2 = Sum4(u, k, Both(S, T))
  <2>1. /\ Term(u, k, 1, S) \in {0, 1} /\ Term(u, k, 2, S) \in {0, 1}
        /\ Term(u, k, 4, S) \in {0, 1} /\ Term(u, k, 8, S) \in {0, 1}
        /\ Term(u, k, 1, T) \in {0, 1} /\ Term(u, k, 2, T) \in {0, 1}
        /\ Term(u, k, 4, T) \in {0, 1} /\ Term(u, k, 8, T) \in {0, 1}
    BY <1>3
  <2>2. /\ Term(u, k, 1, Both(S, T)) = (Term(u, k, 1, S) + Term(u, k, 1, T)) % 2
        /\ Term(u, k, 2, Both(S, T)) = (Term(u, k, 2, S) + Term(u, k, 2, T)) % 2
        /\ Term(u, k, 4, Both(S, T)) = (Term(u, k, 4, S) + Term(u, k, 4, T)) % 2
        /\ Term(u, k, 8, Both(S, T)) = (Term(u, k, 8, S) + Term(u, k, 8, T)) % 2
    BY <1>3
  <2> QED BY ONLY <1>4, <2>1, <2>2 DEF Sum4
<1> QED BY ONLY <1>1, <1>2, <1>5

\* The same with the results by name.
Follows(u, n, m, o, S, T, U) ==
    Skips(u, n) /\ Ahead4(u, n, S) /\ Ahead4(u, m, T) => Ahead4(u, o, U)

LEMMA AheadFollows ==
    ASSUME NEW u \in [Nat -> {0, 1}], NEW n \in Nat, NEW m, m = 2 * n, NEW o, o = 16 * n,
           NEW S, NEW T, NEW U, U = Both(S, T)
    PROVE  Follows(u, n, m, o, S, T, U)
BY AheadTwice DEF Follows

LEMMA FarAhead ==
    ASSUME NEW u \in [Nat -> {0, 1}], Skips(u, 1)
    PROVE  /\ Ahead4(u, 64, {4, 8}) /\ Ahead4(u, 128, {1, 2, 8})
           /\ Ahead4(u, 1024, {1, 2, 4}) /\ Ahead4(u, 32768, {1})
<1>1. Ahead4(u, 1, {1}) /\ Ahead4(u, 2, {2}) /\ Ahead4(u, 4, {4}) /\ Ahead4(u, 8, {8})
  <2>1. ASSUME NEW k \in Nat
        PROVE  /\ u[k + 1] = Sum4(u, k, {1}) /\ u[k + 2] = Sum4(u, k, {2})
               /\ u[k + 4] = Sum4(u, k, {4}) /\ u[k + 8] = Sum4(u, k, {8})
    <3>1. u[k + 1] \in {0, 1} /\ u[k + 2] \in {0, 1} /\ u[k + 4] \in {0, 1} /\ u[k + 8] \in {0, 1}
      OBVIOUS
    <3> QED BY ONLY <3>1 DEF Sum4, Term
  <2> QED BY <2>1, Zenon DEF Ahead4
<1>2. /\ Skips(u, 2) /\ Skips(u, 4) /\ Skips(u, 8) /\ Skips(u, 16) /\ Skips(u, 32) /\ Skips(u, 64)
      /\ Skips(u, 128) /\ Skips(u, 256) /\ Skips(u, 2048)
  <2>1. ASSUME NEW n \in Nat, Skips(u, n), NEW m, m = 2 * n PROVE Skips(u, m)
    BY <2>1, SkipsTwice
  <2>2. /\ 2 = 2 * 1 /\ 4 = 2 * 2 /\ 8 = 2 * 4 /\ 16 = 2 * 8 /\ 32 = 2 * 16 /\ 64 = 2 * 32
        /\ 128 = 2 * 64 /\ 256 = 2 * 128 /\ 512 = 2 * 256 /\ 1024 = 2 * 512 /\ 2048 = 2 * 1024
    OBVIOUS
  <2>3. Skips(u, 2) /\ Skips(u, 4) /\ Skips(u, 8) /\ Skips(u, 16)
    BY ONLY <2>1, <2>2, Skips(u, 1)
  <2>4. Skips(u, 32) /\ Skips(u, 64) /\ Skips(u, 128) /\ Skips(u, 256)
    BY ONLY <2>1, <2>2, <2>3
  <2>5. Skips(u, 512) /\ Skips(u, 1024) /\ Skips(u, 2048)
    BY ONLY <2>1, <2>2, <2>4
  <2> QED BY <2>3, <2>4, <2>5
<1>3. Follows(u, 1, 2, 16, {1}, {2}, {1, 2})
  <2>1. {1, 2} = Both({1}, {2})
    BY DEF Both
  <2>2. 2 = 2 * 1 /\ 16 = 16 * 1 /\ 1 \in Nat
    OBVIOUS
  <2>3. \A S, T, U : U = Both(S, T) => Follows(u, 1, 2, 16, S, T, U)
    BY <2>2, AheadFollows
  <2> QED BY ONLY <2>1, <2>3
<1>4. Follows(u, 2, 4, 32, {2}, {4}, {2, 4})
  <2>1. {2, 4} = Both({2}, {4})
    BY DEF Both
  <2>2. 4 = 2 * 2 /\ 32 = 16 * 2 /\ 2 \in Nat
    OBVIOUS
  <2>3. \A S, T, U : U = Both(S, T) => Follows(u, 2, 4, 32, S, T, U)
    BY <2>2, AheadFollows
  <2> QED BY ONLY <2>1, <2>3
<1>5. Follows(u, 4, 8, 64, {4}, {8}, {4, 8})
  <2>1. {4, 8} = Both({4}, {8})
    BY DEF Both
  <2>2. 8 = 2 * 4 /\ 64 = 16 * 4 /\ 4 \in Nat
    OBVIOUS
  <2>3. \A S, T, U : U = Both(S, T) => Follows(u, 4, 8, 64, S, T, U)
    BY <2>2, AheadFollows
  <2> QED BY ONLY <2>1, <2>3
<1>6. Follows(u, 8, 16, 128, {8}, {1, 2}, {1, 2, 8})
  <2>1. {1, 2, 8} = Both({8}, {1, 2})
    BY DEF Both
  <2>2. 16 = 2 * 8 /\ 128 = 16 * 8 /\ 8 \in Nat
    OBVIOUS
  <2>3. \A S, T, U : U = Both(S, T) => Follows(u, 8, 16, 128, S, T, U)
    BY <2>2, AheadFollows
  <2> QED BY ONLY <2>1, <2>3
<1>7. Follows(u, 16, 32, 256, {1, 2}, {2, 4}, {1, 4})
  <2>1. {1, 4} = Both({1, 2}, {2, 4})
    BY DEF Both
  <2>2. 32 = 2 * 16 /\ 256 = 16 * 16 /\ 16 \in Nat
    OBVIOUS
  <2>3. \A S, T, U : U = Both(S, T) => Follows(u, 16, 32, 256, S, T, U)
    BY <2>2, AheadFollows
  <2> QED BY ONLY <2>1, <2>3
<1>8. Follows(u, 32, 64, 512, {2, 4}, {4, 8}, {2, 8})
  <2>1. {2, 8} = Both({2, 4}, {4, 8})
    BY DEF Both
  <2>2. 64 = 2 * 32 /\ 512 = 16 * 32 /\ 32 \in Nat
    OBVIOUS
  <2>3. \A S, T, U : U = Both(S, T) => Follows(u, 32, 64, 512, S, T, U)
    BY <2>2, AheadFollows
  <2> QED BY ONLY <2>1, <2>3
<1>9. Follows(u, 64, 128, 1024, {4, 8}, {1, 2, 8}, {1, 2, 4})
  <2>1. {1, 2, 4} = Both({4, 8}, {1, 2, 8})
    BY DEF Both
  <2>2. 128 = 2 * 64 /\ 1024 = 16 * 64 /\ 64 \in Nat
    OBVIOUS
  <2>3. \A S, T, U : U = Both(S, T) => Follows(u, 64, 128, 1024, S, T, U)
    BY <2>2, AheadFollows
  <2> QED BY ONLY <2>1, <2>3
<1>10. Follows(u, 128, 256, 2048, {1, 2, 8}, {1, 4}, {2, 4, 8})
  <2>1. {2, 4, 8} = Both({1, 2, 8}, {1, 4})
    BY DEF Both
  <2>2. 256 = 2 * 128 /\ 2048 = 16 * 128 /\ 128 \in Nat
    OBVIOUS
  <2>3. \A S, T, U : U = Both(S, T) => Follows(u, 128, 256, 2048, S, T, U)
    BY <2>2, AheadFollows
  <2> QED BY ONLY <2>1, <2>3
<1>11. Follows(u, 256, 512, 4096, {1, 4}, {2, 8}, {1, 2, 4, 8})
  <2>1. {1, 2, 4, 8} = Both({1, 4}, {2, 8})
    BY DEF Both
  <2>2. 512 = 2 * 256 /\ 4096 = 16 * 256 /\ 256 \in Nat
    OBVIOUS
  <2>3. \A S, T, U : U = Both(S, T) => Follows(u, 256, 512, 4096, S, T, U)
    BY <2>2, AheadFollows
  <2> QED BY ONLY <2>1, <2>3
<1>12. Follows(u, 2048, 4096, 32768, {2, 4, 8}, {1, 2, 4, 8}, {1})
  <2>1. {1} = Both({2, 4, 8}, {1, 2, 4, 8})
    BY DEF Both
  <2>2. 4096 = 2 * 2048 /\ 32768 = 16 * 2048 /\ 2048 \in Nat
    OBVIOUS
  <2>3. \A S, T, U : U = Both(S, T) => Follows(u, 2048, 4096, 32768, S, T, U)
    BY <2>2, AheadFollows
  <2> QED BY ONLY <2>1, <2>3
<1>13. Ahead4(u, 16, {1, 2}) /\ Ahead4(u, 32, {2, 4}) /\ Ahead4(u, 64, {4, 8})
      /\ Ahead4(u, 128, {1, 2, 8})
  BY ONLY Skips(u, 1), <1>1, <1>2, <1>3, <1>4, <1>5, <1>6 DEF Follows
<1>14. Ahead4(u, 256, {1, 4}) /\ Ahead4(u, 512, {2, 8}) /\ Ahead4(u, 1024, {1, 2, 4})
  BY ONLY <1>2, <1>7, <1>8, <1>9, <1>13 DEF Follows
<1>15. Ahead4(u, 2048, {2, 4, 8}) /\ Ahead4(u, 4096, {1, 2, 4, 8})
  BY ONLY <1>2, <1>10, <1>11, <1>13, <1>14 DEF Follows
<1>16. Ahead4(u, 32768, {1})
  BY ONLY <1>2, <1>12, <1>15 DEF Follows
<1> QED BY <1>13, <1>14, <1>16

\* Where remainders begin anew.
LEMMA RemainderIs ==
    ASSUME NEW m \in Nat \ {0}, NEW q \in Int, NEW r \in 0 .. m - 1
    PROVE  (m * q + r) % m = r
OBVIOUS

LEMMA NextRemainder ==
    ASSUME NEW k \in Nat, NEW m \in Nat \ {0}
    PROVE  /\ k % m \in 0 .. m - 1 /\ (k + m) % m = k % m
           /\ (k + 1) % m = IF k % m = m - 1 THEN 0 ELSE (k % m) + 1
<1>1. PICK q \in Int, r \in 0 .. m - 1 : k = m * q + r /\ r = k % m
  <2>1. k = m * (k \div m) + (k % m) /\ k \div m \in Int /\ k % m \in 0 .. m - 1
    OBVIOUS
  <2> QED BY <2>1
<1>2. k + m = m * (q + 1) + r /\ q + 1 \in Int
  BY <1>1
<1>3. (k + m) % m = r
  BY <1>2, RemainderIs
<1>4. CASE r = m - 1
  <2>1. k + 1 = m * (q + 1) + 0 /\ q + 1 \in Int /\ 0 \in 0 .. m - 1
    BY <1>1, <1>4
  <2>2. (k + 1) % m = 0
    BY <2>1, RemainderIs
  <2> QED BY <1>1, <1>3, <1>4, <2>2
<1>5. CASE r # m - 1
  <2>1. k + 1 = m * q + (r + 1) /\ r + 1 \in 0 .. m - 1
    BY <1>1, <1>5
  <2>2. (k + 1) % m = r + 1
    BY <2>1, RemainderIs
  <2> QED BY <1>1, <1>3, <1>5, <2>2
<1> QED BY <1>4, <1>5

\* The periods of a sequence are the multiples of one of them.
LEMMA LeastPeriod ==
    ASSUME NEW u, NEW p \in Nat \ {0}, Period(u, p)
    PROVE  \E d \in 1 .. p : /\ Period(u, d)
                             /\ \A n \in Nat : Period(u, n) => \E q \in Nat : n = d * q
<1> DEFINE P == {n \in Nat \ {0} : Period(u, n)}
<1>1. PICK d \in P : \A n \in P : d <= n
  <2>1. P \subseteq Nat /\ P # {}
    OBVIOUS
  <2> HIDE DEF P
  <2> QED BY <2>1, LeastNatural
<1>2. ASSUME NEW a \in Nat, NEW b \in Nat, a <= b, Period(u, a), Period(u, b)
      PROVE  Period(u, b - a)
  <2> SUFFICES ASSUME NEW k \in Nat PROVE u[k + (b - a)] = u[k]
    BY DEF Period
  <2>1. PICK i \in Nat : i = k + (b - a) /\ i + a = k + b
    BY <1>2
  <2>2. u[i + a] = u[i] /\ u[k + b] = u[k]
    BY <1>2 DEF Period
  <2> QED BY <2>1, <2>2, Zenon
<1> DEFINE Bad == {n \in Nat : Period(u, n) /\ \A q \in Nat : n # d * q}
<1>3. Bad = {}
  <2> SUFFICES ASSUME Bad # {} PROVE FALSE
    OBVIOUS
  <2>1. PICK n \in Bad : \A j \in Bad : n <= j
    <3>1. Bad \subseteq Nat
      OBVIOUS
    <3> HIDE DEF Bad
    <3> QED BY <3>1, LeastNatural
  <2>2. n # 0
    <3>1. 0 = d * 0
      BY <1>1
    <3> QED BY <2>1, <3>1
  <2>3. n \in P /\ d <= n /\ d \in Nat /\ d # 0
    BY <1>1, <2>1, <2>2
  <2>4. Period(u, n - d) /\ n - d \in Nat /\ ~ (n <= n - d)
    BY <1>1, <1>2, <2>1, <2>3
  <2>5. PICK q \in Nat : n - d = d * q
    BY <2>1, <2>4
  <2>6. n = d * (q + 1)
    BY <2>3, <2>5
  <2> QED BY <2>1, <2>6
<1> QED BY <1>1, <1>3

\* Less than the bits of the longest frame; and a period of every such sequence.
WithinFrame == 1 .. 2047
Cycle == 32767

LEMMA WithinIs == \A p \in WithinFrame : p \in Nat \ {0}
BY DEF WithinFrame

LEMMA CycleIsPeriod ==
    ASSUME NEW u \in [Nat -> {0, 1}], Skips(u, 1), NEW p \in Nat \ {0}, Period(u, p)
    PROVE  Period(u, Cycle)
<1> SUFFICES ASSUME NEW k \in Nat PROVE u[k + Cycle] = u[k]
  BY DEF Period
<1>1. PICK i \in Nat : i = k + p - 1 /\ i + 1 = k + p
  OBVIOUS
<1>2. PICK j \in Nat : j = k + Cycle /\ i + 32768 = j + p
  BY <1>1 DEF Cycle
<1>3. u[i + 32768] = Sum4(u, i, {1})
  BY FarAhead DEF Ahead4
<1>4. u[i + 1] \in {0, 1}
  OBVIOUS
<1>5. Sum4(u, i, {1}) = u[i + 1]
  BY ONLY <1>4 DEF Sum4, Term
<1>6. u[i + 32768] = u[i + 1]
  BY ONLY <1>3, <1>5
<1>7. u[j + p] = u[j] /\ u[k + p] = u[k]
  BY DEF Period
<1> QED BY ONLY <1>1, <1>2, <1>6, <1>7

\* A sequence that begins with fourteen zeros.
Begins(u) == (\A k \in 0 .. 13 : u[k] = 0) /\ u[14] = 1

LEMMA BitsNearby ==
    ASSUME NEW u \in [Nat -> {0, 1}], Skips(u, 1), Begins(u)
    PROVE  /\ \A k \in 0 .. 42 : u[k] = IF k \in {14, 28, 29, 42} THEN 1 ELSE 0
<1>1. \A k \in 15 .. 42 : u[k] = (u[k - 15] + u[k - 14]) % 2
  <2> SUFFICES ASSUME NEW k \in 15 .. 42 PROVE u[k] = (u[k - 15] + u[k - 14]) % 2
    OBVIOUS
  <2>1. PICK i \in Nat : i = k - 15 /\ i + 15 = k /\ i + 15 * 1 = k /\ i + 1 = k - 14
    OBVIOUS
  <2>2. u[i + 15 * 1] = (u[i] + u[i + 1]) % 2
    BY DEF Skips
  <2> QED BY <2>1, <2>2, Zenon
<1>2. \A k \in 0 .. 13 : u[k] = 0
  BY DEF Begins
<1>3. u[14] = 1
  BY DEF Begins
<1>4. \A k \in 15 .. 27 : u[k] = 0
  BY <1>1, <1>2
<1>5. u[28] = 1 /\ u[29] = 1
  BY <1>1, <1>2, <1>3, <1>4
<1>6. \A k \in 30 .. 41 : u[k] = 0
  BY <1>1, <1>4
<1>7. u[42] = 1
  BY <1>1, <1>4, <1>5
<1> QED BY ONLY <1>2, <1>3, <1>4, <1>5, <1>6, <1>7

LEMMA BitsFarAway ==
    ASSUME NEW u \in [Nat -> {0, 1}], Skips(u, 1), Begins(u)
    PROVE  u[154] = 1 /\ u[218] = 1 /\ u[1062] = 1
<1>1. ASSUME NEW k \in Nat
      PROVE  /\ u[k + 64] = (u[k + 4] + u[k + 8]) % 2
             /\ u[k + 128] = (u[k + 1] + u[k + 2] + u[k + 8]) % 2
             /\ u[k + 1024] = (u[k + 1] + u[k + 2] + u[k + 4]) % 2
  <2>1. u[k + 1] \in {0, 1} /\ u[k + 2] \in {0, 1} /\ u[k + 4] \in {0, 1} /\ u[k + 8] \in {0, 1}
    OBVIOUS
  <2>2. /\ u[k + 64] = Sum4(u, k, {4, 8}) /\ u[k + 128] = Sum4(u, k, {1, 2, 8})
        /\ u[k + 1024] = Sum4(u, k, {1, 2, 4})
    BY FarAhead DEF Ahead4
  <2>3. /\ Sum4(u, k, {4, 8}) = (u[k + 4] + u[k + 8]) % 2
        /\ Sum4(u, k, {1, 2, 8}) = (u[k + 1] + u[k + 2] + u[k + 8]) % 2
        /\ Sum4(u, k, {1, 2, 4}) = (u[k + 1] + u[k + 2] + u[k + 4]) % 2
    BY ONLY <2>1 DEF Sum4, Term
  <2> QED BY ONLY <2>2, <2>3
<1>2. \A k \in 0 .. 42 : u[k] = IF k \in {14, 28, 29, 42} THEN 1 ELSE 0
  BY BitsNearby
<1>3. u[27] = 0 /\ u[28] = 1 /\ u[31] = 0 /\ u[32] = 0 /\ u[34] = 0 /\ u[35] = 0 /\ u[36] = 0
      /\ u[38] = 0 /\ u[39] = 0 /\ u[40] = 0 /\ u[42] = 1
  BY <1>2
<1>4. u[154] = (u[27] + u[28] + u[34]) % 2
  <2>1. PICK k \in Nat : k + 128 = 154 /\ k + 1 = 27 /\ k + 2 = 28 /\ k + 8 = 34
    OBVIOUS
  <2>2. u[k + 128] = (u[k + 1] + u[k + 2] + u[k + 8]) % 2
    BY <1>1
  <2> QED BY ONLY <2>1, <2>2
<1>5. u[1062] = (u[39] + u[40] + u[42]) % 2
  <2>1. PICK k \in Nat : k + 1024 = 1062 /\ k + 1 = 39 /\ k + 2 = 40 /\ k + 4 = 42
    OBVIOUS
  <2>2. u[k + 1024] = (u[k + 1] + u[k + 2] + u[k + 4]) % 2
    BY <1>1
  <2> QED BY ONLY <2>1, <2>2
<1>6. u[91] = (u[31] + u[35]) % 2
  <2>1. PICK k \in Nat : k + 64 = 91 /\ k + 4 = 31 /\ k + 8 = 35
    OBVIOUS
  <2>2. u[k + 64] = (u[k + 4] + u[k + 8]) % 2
    BY <1>1
  <2> QED BY ONLY <2>1, <2>2
<1>7. u[92] = (u[32] + u[36]) % 2
  <2>1. PICK k \in Nat : k + 64 = 92 /\ k + 4 = 32 /\ k + 8 = 36
    OBVIOUS
  <2>2. u[k + 64] = (u[k + 4] + u[k + 8]) % 2
    BY <1>1
  <2> QED BY ONLY <2>1, <2>2
<1>8. u[98] = (u[38] + u[42]) % 2
  <2>1. PICK k \in Nat : k + 64 = 98 /\ k + 4 = 38 /\ k + 8 = 42
    OBVIOUS
  <2>2. u[k + 64] = (u[k + 4] + u[k + 8]) % 2
    BY <1>1
  <2> QED BY ONLY <2>1, <2>2
<1>9. u[218] = (u[91] + u[92] + u[98]) % 2
  <2>1. PICK k \in Nat : k + 128 = 218 /\ k + 1 = 91 /\ k + 2 = 92 /\ k + 8 = 98
    OBVIOUS
  <2>2. u[k + 128] = (u[k + 1] + u[k + 2] + u[k + 8]) % 2
    BY <1>1
  <2> QED BY ONLY <2>1, <2>2
<1> QED BY ONLY <1>3, <1>4, <1>5, <1>6, <1>7, <1>8, <1>9

\* A period divides 32767 = 7 * 31 * 151, and no short divisor is a period.
LEMMA LongPeriod ==
    ASSUME NEW u \in [Nat -> {0, 1}], Skips(u, 1), Begins(u),
           NEW p \in WithinFrame, Period(u, p)
    PROVE  FALSE
<1>1. p \in Nat \ {0}
  BY WithinIs
<1>2. Period(u, Cycle) /\ Cycle \in Nat
  BY <1>1, CycleIsPeriod DEF Cycle
<1>3. PICK d \in 1 .. p : /\ Period(u, d)
                          /\ \A n \in Nat : Period(u, n) => \E q \in Nat : n = d * q
  BY <1>1, LeastPeriod
<1>4. PICK q \in Nat : Cycle = d * q
  BY <1>2, <1>3, Zenon
<1>5. d \in {1, 7, 31, 151, 217, 1057}
  <2>1. d * q = 32767 /\ d \in 1 .. 2047
    BY <1>4 DEF Cycle, WithinFrame
  <2> QED BY ONLY <2>1, q \in Nat
<1>6. \A k \in Nat : u[k + d] = u[k]
  BY <1>3 DEF Period
<1>7. /\ u[1 + d] = u[1] /\ u[3 + d] = u[3] /\ u[5 + d] = u[5]
      /\ u[7 + d] = u[7] /\ u[11 + d] = u[11] /\ u[13 + d] = u[13]
  BY <1>6
<1>8. \A k \in 0 .. 42 : u[k] = IF k \in {14, 28, 29, 42} THEN 1 ELSE 0
  BY BitsNearby
<1>9. u[154] = 1 /\ u[218] = 1 /\ u[1062] = 1
  BY BitsFarAway
<1> QED BY ONLY <1>5, <1>7, <1>8, <1>9

\* So does the register of the division come back, but not within a frame.
Divided(F) == F[0] = UnitBit(1) /\ \A k \in Nat : F[k + 1] = DivShift(F[k])

\* Its highest bit, step by step.
LEMMA HighestBits ==
    ASSUME NEW F \in [Nat -> WordBits], Divided(F), NEW k \in Nat
    PROVE  /\ F[k][16] \in {0, 1}
           /\ F[k + 16][16] = (((F[k][16] + F[k + 2][16]) % 2) + F[k + 15][16]) % 2
<1>1. ASSUME NEW i \in Nat
      PROVE  /\ \A j \in 1 .. 16 : F[i][j] \in {0, 1}
             /\ F[i + 1][1] = F[i][16]
             /\ \A j \in 2 .. 16 : F[i + 1][j] = IF j \in {3, 16} THEN (F[i][j - 1] + F[i][16]) % 2
                                                                  ELSE F[i][j - 1]
  <2>1. F[i + 1] = DivShift(F[i])
    BY DEF Divided
  <2>2. PICK w \in WordBits : w = F[i]
    OBVIOUS
  <2>3. \A j \in 1 .. 16 : w[j] \in {0, 1}
    BY WordBitsAre
  <2>4. /\ DivShift(w)[1] = w[16]
        /\ \A j \in 2 .. 16 : DivShift(w)[j] = IF j \in {3, 16} THEN (w[j - 1] + w[16]) % 2
                                                                ELSE w[j - 1]
    BY DEF DivShift
  <2> QED BY ONLY <2>1, <2>2, <2>3, <2>4
<1> DEFINE G(n) == F[k + n]
<1>2. ASSUME NEW n \in 0 .. 15, NEW j \in 2 .. 16
      PROVE  /\ G(n + 1)[1] = G(n)[16]
             /\ G(n + 1)[j] = IF j \in {3, 16} THEN (G(n)[j - 1] + G(n)[16]) % 2 ELSE G(n)[j - 1]
  <2>1. PICK i \in Nat : i = k + n /\ i + 1 = k + (n + 1)
    OBVIOUS
  <2>2. /\ F[i + 1][1] = F[i][16]
        /\ F[i + 1][j] = IF j \in {3, 16} THEN (F[i][j - 1] + F[i][16]) % 2 ELSE F[i][j - 1]
    BY <1>1
  <2> QED BY ONLY <2>1, <2>2
<1>3. G(0) = F[k]
  OBVIOUS
<1> HIDE DEF G
<1>4. ASSUME NEW n \in 0 .. 15, NEW j \in 2 .. 16, NEW i, NEW l, i = n + 1, l = j - 1
      PROVE  /\ G(i)[1] = G(n)[16]
             /\ G(i)[j] = IF j \in {3, 16} THEN (G(n)[l] + G(n)[16]) % 2 ELSE G(n)[l]
  BY <1>2, <1>4, Zenon
<1>5. G(1)[1] = G(0)[16] /\ G(2)[2] = G(1)[1] /\ G(3)[3] = (G(2)[2] + G(2)[16]) % 2
  BY <1>4
<1>6. /\ G(4)[4] = G(3)[3] /\ G(5)[5] = G(4)[4] /\ G(6)[6] = G(5)[5] /\ G(7)[7] = G(6)[6]
      /\ G(8)[8] = G(7)[7] /\ G(9)[9] = G(8)[8] /\ G(10)[10] = G(9)[9] /\ G(11)[11] = G(10)[10]
      /\ G(12)[12] = G(11)[11] /\ G(13)[13] = G(12)[12] /\ G(14)[14] = G(13)[13]
      /\ G(15)[15] = G(14)[14] /\ G(16)[16] = (G(15)[15] + G(15)[16]) % 2
  BY <1>4
<1>7. G(16)[16] = (((G(0)[16] + G(2)[16]) % 2) + G(15)[16]) % 2
  BY ONLY <1>5, <1>6
<1>8. F[k][16] \in {0, 1}
  BY <1>1
<1> QED BY <1>3, <1>7, <1>8 DEF G

LEMMA FirstUnits ==
    ASSUME NEW F \in [Nat -> WordBits], Divided(F)
    PROVE  \A k \in 0 .. 15 : F[k] = UnitBit(k + 1)
<1>1. PICK Good : Good = {k \in 0 .. 15 : F[k] = UnitBit(k + 1)}
  OBVIOUS
<1>2. 0 \in Good
  BY <1>1 DEF Divided
<1>3. ASSUME NEW k \in 1 .. 15, k - 1 \in Good PROVE k \in Good
  <2>1. PICK i \in Nat : i = k - 1 /\ i + 1 = k
    OBVIOUS
  <2>2. F[i] = UnitBit(k) /\ F[i + 1] = DivShift(F[i])
    BY <1>1, <1>3, <2>1 DEF Divided
  <2>3. DivShift(UnitBit(k)) = UnitBit(k + 1)
    BY DivOfUnit
  <2>4. F[k] = UnitBit(k + 1)
    BY <2>1, <2>2, <2>3, Zenon
  <2> QED BY <1>1, <2>4
<1>4. \A k \in 0 .. 15 : k \in Good
  <2>1. 15 \in Nat
    OBVIOUS
  <2> QED BY <1>2, <1>3, <2>1, Upwards
<1> QED BY <1>1, <1>4

LEMMA RegisterPeriod ==
    ASSUME NEW F \in [Nat -> WordBits], Divided(F),
           NEW m \in WithinFrame, \A k \in Nat : F[k + m] = F[k]
    PROVE  FALSE
<1>1. PICK t \in [Nat -> {0, 1}] : \A k \in Nat : t[k] = F[k][16]
  <2>1. \A k \in Nat : F[k][16] \in {0, 1}
    BY HighestBits
  <2>2. [k \in Nat |-> F[k][16]] \in [Nat -> {0, 1}]
    BY <2>1
  <2> QED BY <2>2
<1>2. PICK u \in [Nat -> {0, 1}] : \A k \in Nat : u[k] = (t[k] + t[k + 1]) % 2
  <2>1. \A k \in Nat : (t[k] + t[k + 1]) % 2 \in {0, 1}
    BY BitSum
  <2>2. [k \in Nat |-> (t[k] + t[k + 1]) % 2] \in [Nat -> {0, 1}]
    BY <2>1
  <2> QED BY <2>2
<1>3. Skips(u, 1)
  <2> SUFFICES ASSUME NEW k \in Nat
               PROVE  u[k + 15] = (u[k] + u[k + 1]) % 2
    BY DEF Skips
  <2>1. t[k] \in {0, 1} /\ t[k + 1] \in {0, 1} /\ t[k + 2] \in {0, 1} /\ t[k + 15] \in {0, 1}
    OBVIOUS
  <2>2. t[k + 16] = (((t[k] + t[k + 2]) % 2) + t[k + 15]) % 2
    <3>1. t[k] = F[k][16] /\ t[k + 2] = F[k + 2][16] /\ t[k + 15] = F[k + 15][16]
          /\ t[k + 16] = F[k + 16][16]
      BY <1>1
    <3>2. F[k + 16][16] = (((F[k][16] + F[k + 2][16]) % 2) + F[k + 15][16]) % 2
      BY HighestBits
    <3> QED BY ONLY <3>1, <3>2
  <2>3. u[k] = (t[k] + t[k + 1]) % 2 /\ u[k + 1] = (t[k + 1] + t[k + 2]) % 2
        /\ u[k + 15] = (t[k + 15] + t[k + 16]) % 2
    <3>1. k + 1 \in Nat /\ k + 15 \in Nat /\ (k + 1) + 1 = k + 2 /\ (k + 15) + 1 = k + 16
      OBVIOUS
    <3> QED BY <1>2, <3>1
  <2>4. \A x, y, z, v \in {0, 1} :
           (v + ((((x + z) % 2) + v) % 2)) % 2 = (((x + y) % 2) + ((y + z) % 2)) % 2
    OBVIOUS
  <2>5. (t[k + 15] + ((((t[k] + t[k + 2]) % 2) + t[k + 15]) % 2)) % 2
          = (((t[k] + t[k + 1]) % 2) + ((t[k + 1] + t[k + 2]) % 2)) % 2
    BY ONLY <2>1, <2>4
  <2> QED BY ONLY <2>2, <2>3, <2>5
<1>4. Begins(u)
  <2>1. \A k \in 0 .. 15 : t[k] = IF k = 15 THEN 1 ELSE 0
    <3> SUFFICES ASSUME NEW k \in 0 .. 15 PROVE t[k] = IF k = 15 THEN 1 ELSE 0
      OBVIOUS
    <3>1. t[k] = UnitBit(k + 1)[16]
      BY <1>1, FirstUnits
    <3> QED BY <3>1 DEF UnitBit
  <2>2. \A k \in 0 .. 14 : u[k] = (t[k] + t[k + 1]) % 2
    BY <1>2
  <2> QED BY ONLY <2>1, <2>2 DEF Begins
<1>5. Period(u, m)
  <2> SUFFICES ASSUME NEW k \in Nat PROVE u[k + m] = u[k]
    BY DEF Period
  <2>1. PICK i \in Nat, j \in Nat : i = k + 1 /\ j = k + m /\ j + 1 = i + m
    BY WithinIs
  <2>2. F[j] = F[k] /\ F[j + 1] = F[i]
    BY <2>1
  <2>3. t[j] = t[k] /\ t[j + 1] = t[i]
    BY <1>1, <2>2
  <2>4. u[j] = (t[j] + t[j + 1]) % 2 /\ u[k] = (t[k] + t[i]) % 2
    BY <1>2, <2>1
  <2> QED BY <2>1, <2>3, <2>4
<1> QED BY <1>3, <1>4, <1>5, LongPeriod

\* Steps of a division from its lowest bit to its lowest bit again.
Returns(h, m) == /\ h \in [0 .. m -> WordBits] /\ h[0] = UnitBit(1) /\ h[m] = UnitBit(1)
                 /\ \A i \in 1 .. m : h[i] = DivShift(h[i - 1])

LEMMA NothingReturns ==
    ASSUME NEW m \in WithinFrame, NEW h, Returns(h, m)
    PROVE  FALSE
<1>1. m \in Nat \ {0}
  BY WithinIs
<1>2. ASSUME NEW k \in Nat
      PROVE  /\ k % m \in 0 .. m - 1 /\ k % m \in 0 .. m /\ (k + m) % m = k % m
             /\ (k + 1) % m = IF k % m = m - 1 THEN 0 ELSE (k % m) + 1
  <2>1. /\ k % m \in 0 .. m - 1 /\ (k + m) % m = k % m
        /\ (k + 1) % m = IF k % m = m - 1 THEN 0 ELSE (k % m) + 1
    BY <1>1, NextRemainder
  <2>2. \A r \in 0 .. m - 1 : r \in 0 .. m
    BY <1>1
  <2> QED BY <2>1, <2>2, Zenon
<1>3. PICK F \in [Nat -> WordBits] : \A k \in Nat : F[k] = h[k % m]
  <2>1. \A k \in Nat : h[k % m] \in WordBits
    BY <1>2 DEF Returns
  <2>2. [k \in Nat |-> h[k % m]] \in [Nat -> WordBits]
    BY <2>1
  <2> QED BY <2>2
<1>4. ASSUME NEW k \in Nat PROVE F[k + 1] = DivShift(F[k]) /\ F[k + m] = F[k]
  <2>1. PICK r \in 0 .. m - 1 : r = k % m
    BY <1>2
  <2>2. PICK s \in 1 .. m : s = r + 1 /\ s - 1 = r /\ (s = m <=> r = m - 1)
    BY <1>1
  <2>3. k + 1 \in Nat /\ k + m \in Nat
    BY <1>1
  <2>4. F[k] = h[r] /\ F[k + m] = h[r]
    BY <1>2, <1>3, <2>1, <2>3, Zenon
  <2>5. F[k + 1] = h[s]
    <3>1. F[k + 1] = h[(k + 1) % m]
      BY <1>3, <2>3, Zenon
    <3>2. (k + 1) % m = IF s = m THEN 0 ELSE s
      BY <1>2, <2>1, <2>2, Zenon
    <3>3. h[0] = h[m]
      BY Zenon DEF Returns
    <3> QED BY <3>1, <3>2, <3>3, Zenon
  <2>6. h[s] = DivShift(h[r])
    BY <2>2, Zenon DEF Returns
  <2> QED BY <2>4, <2>5, <2>6, Zenon
<1>5. F[0] = UnitBit(1)
  <2>1. 0 = m * 0 + 0 /\ 0 \in 0 .. m - 1 /\ 0 \in Int
    BY <1>1
  <2>2. 0 % m = 0
    BY <1>1, <2>1, RemainderIs
  <2> QED BY <1>3, <2>2 DEF Returns
<1> QED BY <1>4, <1>5, RegisterPeriod DEF Divided

\* A bit that comes into the register.
LEMMA DivBitFacts ==
    ASSUME NEW w \in WordBits
    PROVE  /\ DivBit(w, 0) = DivShift(w) /\ DivBit(Zeros, 0) = Zeros
           /\ DivBit(Zeros, 1) = UnitBit(1)
           /\ DivBit(w, 0) = Zeros => w = Zeros
           /\ DivBit(w, 1) = Zeros => DivShift(w) = UnitBit(1)
<1>1. Zeros \in WordBits /\ UnitBit(1) \in WordBits /\ DivShift(w) \in WordBits
      /\ DivBit(Zeros, 1) \in WordBits
  BY WordBitsAre
<1>2. \A v \in WordBits : v[1] \in {0, 1}
  BY WordBitsAre
<1>3. \A v \in WordBits : [v EXCEPT ![1] = (@ + 0) % 2] = v
  BY <1>2, BitSum DEF WordBits
<1>4. DivBit(w, 0) = DivShift(w) /\ DivBit(Zeros, 0) = Zeros
  BY <1>1, <1>3, DivOfZeros DEF DivBit
<1>5. DivBit(Zeros, 1) = UnitBit(1)
  <2>1. \A k \in 1 .. 16 : DivBit(Zeros, 1)[k] = UnitBit(1)[k]
    BY DivOfZeros DEF DivBit, Zeros, UnitBit
  <2> QED BY <1>1, <2>1, SameBits
<1>6. ASSUME DivBit(w, 1) = Zeros PROVE DivShift(w) = UnitBit(1)
  <2>1. \A k \in 1 .. 16 : DivBit(w, 1)[k] = 0
    BY <1>6 DEF Zeros
  <2>2. \A k \in 1 .. 16 : DivShift(w)[k] \in {0, 1}
    BY <1>1, WordBitsAre
  <2>3. \A k \in 1 .. 16 : DivBit(w, 1)[k] = IF k = 1 THEN (DivShift(w)[1] + 1) % 2 ELSE DivShift(w)[k]
    BY <1>1 DEF DivBit, WordBits
  <2>4. \A k \in 1 .. 16 : DivShift(w)[k] = UnitBit(1)[k]
    BY <2>1, <2>2, <2>3 DEF UnitBit
  <2> QED BY <1>1, <2>4, SameBits
<1> QED BY <1>4, <1>5, <1>6, DivToZeros

\* The generator is divisible by x + 1: whether the bits of the register are odd in
\* number changes with each flipped bit that comes in, and with nothing else.
Parity(w) == (w[1] + w[2] + w[3] + w[4] + w[5] + w[6] + w[7] + w[8]
              + w[9] + w[10] + w[11] + w[12] + w[13] + w[14] + w[15] + w[16]) % 2

LEMMA ParityChanges ==
    ASSUME NEW w \in WordBits, NEW b \in {0, 1}
    PROVE  Parity(DivBit(w, b)) = (Parity(w) + b) % 2 /\ Parity(w) \in {0, 1}
<1>1. \A k \in 1 .. 16 : w[k] \in {0, 1}
  BY WordBitsAre
<1>2. DivShift(w) \in WordBits
  BY WordBitsAre
<1> DEFINE v == DivBit(w, b)
<1>3. v[1] = (w[16] + b) % 2 /\ \A k \in 2 .. 16 : v[k] = DivShift(w)[k]
  BY <1>2 DEF DivBit, WordBits, DivShift
<1> HIDE DEF v
<1>4. \A k \in 2 .. 16 : DivShift(w)[k] = IF k \in {3, 16} THEN (w[k - 1] + w[16]) % 2 ELSE w[k - 1]
  BY DEF DivShift
<1>5. /\ v[2] = w[1] /\ v[3] = (w[2] + w[16]) % 2 /\ v[4] = w[3] /\ v[5] = w[4] /\ v[6] = w[5]
      /\ v[7] = w[6] /\ v[8] = w[7] /\ v[9] = w[8] /\ v[10] = w[9] /\ v[11] = w[10]
      /\ v[12] = w[11] /\ v[13] = w[12] /\ v[14] = w[13] /\ v[15] = w[14]
      /\ v[16] = (w[15] + w[16]) % 2
  BY <1>3, <1>4
<1>6. /\ w[1] \in {0, 1} /\ w[2] \in {0, 1} /\ w[3] \in {0, 1} /\ w[4] \in {0, 1}
      /\ w[5] \in {0, 1} /\ w[6] \in {0, 1} /\ w[7] \in {0, 1} /\ w[8] \in {0, 1}
      /\ w[9] \in {0, 1} /\ w[10] \in {0, 1} /\ w[11] \in {0, 1} /\ w[12] \in {0, 1}
      /\ w[13] \in {0, 1} /\ w[14] \in {0, 1} /\ w[15] \in {0, 1} /\ w[16] \in {0, 1}
  BY <1>1
<1>7. Parity(w) \in {0, 1}
  BY ONLY <1>6 DEF Parity
<1>8. Parity(v) = (Parity(w) + b) % 2
  <2>1. PICK s \in Nat : s = w[1] + w[3] + w[4] + w[5] + w[6] + w[7] + w[8] + w[9] + w[10]
                               + w[11] + w[12] + w[13] + w[14]
    BY ONLY <1>6
  <2>2. PICK x \in {0, 1}, y \in {0, 1}, z \in {0, 1} : x = w[2] /\ y = w[15] /\ z = w[16]
    BY ONLY <1>6
  <2>3. Parity(w) = (s + x + y + z) % 2
    <3>1. w[1] + w[2] + w[3] + w[4] + w[5] + w[6] + w[7] + w[8]
          + w[9] + w[10] + w[11] + w[12] + w[13] + w[14] + w[15] + w[16] = s + x + y + z
      BY ONLY <1>6, <2>1, <2>2
    <3> QED BY ONLY <3>1 DEF Parity
  <2>4. Parity(v) = (((z + b) % 2) + s + ((x + z) % 2) + ((y + z) % 2)) % 2
    <3>1. v[1] + v[2] + v[3] + v[4] + v[5] + v[6] + v[7] + v[8]
          + v[9] + v[10] + v[11] + v[12] + v[13] + v[14] + v[15] + v[16]
          = ((z + b) % 2) + s + ((x + z) % 2) + ((y + z) % 2)
      <4>1. v[1] = (z + b) % 2 /\ v[3] = (x + z) % 2 /\ v[16] = (y + z) % 2
        BY ONLY <1>3, <1>5, <2>2
      <4>2. (z + b) % 2 \in Nat /\ (x + z) % 2 \in Nat /\ (y + z) % 2 \in Nat
        OBVIOUS
      <4>3. v[1] \in Nat /\ v[3] \in Nat /\ v[16] \in Nat
        BY ONLY <4>1, <4>2
      <4>4. v[2] + v[4] + v[5] + v[6] + v[7] + v[8] + v[9] + v[10] + v[11] + v[12] + v[13]
            + v[14] + v[15] = s
        BY ONLY <1>5, <1>6, <2>1
      <4>5. /\ v[2] \in Nat /\ v[4] \in Nat /\ v[5] \in Nat /\ v[6] \in Nat /\ v[7] \in Nat
            /\ v[8] \in Nat /\ v[9] \in Nat /\ v[10] \in Nat /\ v[11] \in Nat /\ v[12] \in Nat
            /\ v[13] \in Nat /\ v[14] \in Nat /\ v[15] \in Nat
        BY ONLY <1>5, <1>6
      <4> QED BY ONLY <4>1, <4>3, <4>4, <4>5, s \in Nat
    <3> QED BY ONLY <3>1 DEF Parity
  <2>5. (((z + b) % 2) + s + ((x + z) % 2) + ((y + z) % 2)) % 2 = (((s + x + y + z) % 2) + b) % 2
    OBVIOUS
  <2> QED BY ONLY <2>3, <2>4, <2>5
<1> QED BY <1>7, <1>8 DEF v

\* The flipped bits of a frame go through the register: none is left of them.
GoThrough(e, d, n) ==
    /\ e \in [0 .. n -> WordBits] /\ e[0] = Zeros /\ e[n] = Zeros
    /\ \A i \in 1 .. n : d[i] \in {0, 1} /\ e[i] = DivBit(e[i - 1], d[i])

LEMMA BeforeTheFirst ==
    ASSUME NEW n \in Nat, NEW e, NEW d, GoThrough(e, d, n), NEW p \in 1 .. n,
           \A i \in 1 .. p - 1 : d[i] = 0
    PROVE  e[p - 1] = Zeros
<1>1. PICK Good : Good = {i \in 0 .. p - 1 : e[i] = Zeros}
  OBVIOUS
<1>2. 0 \in Good
  BY <1>1 DEF GoThrough
<1>3. ASSUME NEW i \in 1 .. p - 1, i - 1 \in Good PROVE i \in Good
  <2>1. i \in 1 .. n /\ i \in 0 .. p - 1
    OBVIOUS
  <2>2. e[i] = DivBit(e[i - 1], d[i]) /\ d[i] = 0 /\ e[i - 1] = Zeros
    BY <1>1, <1>3, <2>1 DEF GoThrough
  <2>3. DivBit(Zeros, 0) = Zeros
    <3>1. UnitBit(1) \in WordBits
      BY DEF UnitBit, WordBits
    <3> QED BY <3>1, DivBitFacts
  <2> QED BY <1>1, <2>1, <2>2, <2>3, Zenon
<1>4. p - 1 \in Nat /\ p - 1 \in 0 .. p - 1
  OBVIOUS
<1>5. p - 1 \in Good
  BY <1>2, <1>3, <1>4, Upwards
<1> QED BY <1>1, <1>5

LEMMA AfterTheLast ==
    ASSUME NEW n \in Nat, NEW e, NEW d, GoThrough(e, d, n), NEW r \in 1 .. n,
           \A i \in r + 1 .. n : d[i] = 0
    PROVE  e[r] = Zeros
<1>1. PICK Good : Good = {i \in 0 .. n - r : e[n - i] = Zeros}
  OBVIOUS
<1>2. 0 \in Good
  BY <1>1 DEF GoThrough
<1>3. ASSUME NEW i \in 1 .. n - r, i - 1 \in Good PROVE i \in Good
  <2>1. PICK k \in r + 1 .. n : k = n - (i - 1) /\ k - 1 = n - i /\ k - 1 \in 0 .. n /\ k \in 1 .. n
    OBVIOUS
  <2>2. e[k] = DivBit(e[k - 1], d[k]) /\ d[k] = 0 /\ e[k] = Zeros /\ e[k - 1] \in WordBits
    BY <1>1, <1>3, <2>1 DEF GoThrough
  <2>3. DivBit(e[k - 1], 0) = Zeros
    BY <2>2, Zenon
  <2>4. e[k - 1] = Zeros
    BY <2>2, <2>3, DivBitFacts
  <2> QED BY <1>1, <2>1, <2>4
<1>4. n - r \in Nat /\ n - r \in 0 .. n - r /\ n - (n - r) = r
  OBVIOUS
<1>5. n - r \in Good
  BY <1>2, <1>3, <1>4, Upwards
<1> QED BY <1>1, <1>4, <1>5

\* Between two flipped bits the parity stays.
LEMMA ParityStays ==
    ASSUME NEW n \in Nat, NEW e, NEW d, GoThrough(e, d, n), NEW p \in 0 .. n, NEW r \in p .. n,
           \A i \in p + 1 .. r : d[i] = 0
    PROVE  Parity(e[r]) = Parity(e[p])
<1>1. PICK Good : Good = {i \in 0 .. r - p : Parity(e[p + i]) = Parity(e[p])}
  OBVIOUS
<1>2. 0 \in Good
  BY <1>1
<1>3. ASSUME NEW i \in 1 .. r - p, i - 1 \in Good PROVE i \in Good
  <2>1. PICK k \in p + 1 .. r : k = p + i /\ k - 1 = p + (i - 1) /\ k - 1 \in 0 .. n /\ k \in 1 .. n
    OBVIOUS
  <2>2. e[k] = DivBit(e[k - 1], d[k]) /\ d[k] = 0 /\ e[k - 1] \in WordBits
    BY <2>1 DEF GoThrough
  <2>3. Parity(DivBit(e[k - 1], 0)) = (Parity(e[k - 1]) + 0) % 2 /\ Parity(e[k - 1]) \in {0, 1}
    BY <2>2, ParityChanges
  <2>4. Parity(e[k]) = Parity(e[k - 1])
    BY <2>2, <2>3
  <2>5. Parity(e[k - 1]) = Parity(e[p])
    BY <1>1, <1>3, <2>1
  <2> QED BY <1>1, <2>1, <2>4, <2>5
<1>4. r - p \in Nat /\ r - p \in 0 .. r - p /\ p + (r - p) = r
  OBVIOUS
<1>5. r - p \in Good
  BY <1>2, <1>3, <1>4, Upwards
<1> QED BY <1>1, <1>4, <1>5

\* One flipped bit is seen, and so are two within a frame.
Bounds(d, n, p, r) ==
    /\ p \in 1 .. n /\ r \in p .. n /\ d[p] = 1 /\ d[r] = 1
    /\ \A i \in 1 .. n : d[i] = 1 => p <= i /\ i <= r

LEMMA FirstAndLast ==
    ASSUME NEW n \in Nat, NEW e, NEW d, GoThrough(e, d, n), NEW p, NEW r, Bounds(d, n, p, r)
    PROVE  /\ e[p] = UnitBit(1) /\ e[r] = Zeros /\ p < r /\ e[r - 1] \in WordBits
           /\ DivShift(e[r - 1]) = UnitBit(1)
           /\ Parity(e[p]) = 1 /\ Parity(e[r]) = 0
<1>1. p \in 1 .. n /\ r \in 1 .. n /\ r \in p .. n /\ p <= r /\ d[p] = 1 /\ d[r] = 1
  BY DEF Bounds
<1>2. e[p - 1] = Zeros
  <2>1. \A i \in 1 .. p - 1 : d[i] = 0
    BY <1>1 DEF Bounds, GoThrough
  <2> QED BY <1>1, <2>1, BeforeTheFirst
<1>3. e[r] = Zeros
  <2>1. \A i \in r + 1 .. n : d[i] = 0
    BY <1>1 DEF Bounds, GoThrough
  <2> QED BY <1>1, <2>1, AfterTheLast
<1>4. Zeros \in WordBits /\ UnitBit(1) \in WordBits
  BY DEF Zeros, UnitBit, WordBits
<1>5. DivBit(Zeros, 1) = UnitBit(1)
  BY <1>4, DivBitFacts
<1>6. e[p] = UnitBit(1)
  <2>1. e[p] = DivBit(e[p - 1], d[p])
    BY <1>1 DEF GoThrough
  <2> QED BY <1>1, <1>2, <1>5, <2>1, Zenon
<1>7. p # r
  <2>1. UnitBit(1)[1] = 1 /\ Zeros[1] = 0
    BY DEF UnitBit, Zeros
  <2> QED BY <1>3, <1>6, <2>1
<1>8. e[r - 1] \in WordBits /\ DivBit(e[r - 1], 1) = Zeros
  <2>1. r - 1 \in 0 .. n
    BY <1>1
  <2>2. e[r - 1] \in WordBits /\ e[r] = DivBit(e[r - 1], d[r])
    BY <1>1, <2>1 DEF GoThrough
  <2> QED BY <1>1, <1>3, <2>2, Zenon
<1>9. DivShift(e[r - 1]) = UnitBit(1)
  BY <1>8, DivBitFacts
<1>10. Parity(e[p]) = 1 /\ Parity(e[r]) = 0
  BY <1>3, <1>6 DEF Parity, UnitBit, Zeros
<1> QED BY <1>1, <1>3, <1>6, <1>7, <1>8, <1>9, <1>10

LEMMA TwoFlips ==
    ASSUME NEW n \in Nat, \A m \in 1 .. n - 1 : m \in WithinFrame, NEW e, NEW d, GoThrough(e, d, n), NEW p, NEW r,
           Bounds(d, n, p, r), \A i \in 1 .. n : d[i] = 1 => i \in {p, r}
    PROVE  FALSE
<1>1. p \in 1 .. n /\ r \in p .. n /\ p < r
  <2>1. p \in 1 .. n /\ r \in p .. n
    BY DEF Bounds
  <2>2. p < r
    BY FirstAndLast
  <2> QED BY <2>1, <2>2
<1>2. PICK m \in Nat : m = r - p /\ m \in WithinFrame /\ p + m = r /\ p + (m - 1) = r - 1
  BY <1>1
<1>3. \A i \in 1 .. m : i - 1 \in 0 .. m /\ p + (i - 1) \in 0 .. n /\ (i - 1 # m)
  BY <1>1, <1>2
<1>4. \A i \in 0 .. m : p + i \in 0 .. n
  BY <1>1, <1>2
<1>5. PICK h \in [0 .. m -> WordBits] :
         /\ \A i \in 0 .. m : h[i] = IF i = m THEN UnitBit(1) ELSE e[p + i]
  <2>1. \A i \in 0 .. m : (IF i = m THEN UnitBit(1) ELSE e[p + i]) \in WordBits
    <3>1. UnitBit(1) \in WordBits
      BY DEF UnitBit, WordBits
    <3> QED BY <1>4, <3>1 DEF GoThrough
  <2>2. [i \in 0 .. m |-> IF i = m THEN UnitBit(1) ELSE e[p + i]] \in [0 .. m -> WordBits]
    BY <2>1
  <2> QED BY <2>2
<1>6. h[0] = UnitBit(1) /\ h[m] = UnitBit(1)
  <2>1. 0 \in 0 .. m /\ m \in 0 .. m /\ 0 # m /\ p + 0 = p
    BY <1>1, <1>2
  <2>2. e[p] = UnitBit(1)
    BY FirstAndLast
  <2> QED BY <1>5, <2>1, <2>2
<1>7. ASSUME NEW i \in 1 .. m PROVE h[i] = DivShift(h[i - 1])
  <2>1. h[i - 1] = e[p + (i - 1)]
    BY <1>3, <1>5
  <2>2. CASE i = m
    <3>1. p + (i - 1) = r - 1 /\ i \in 0 .. m
      BY <1>2, <2>2
    <3>2. h[i] = UnitBit(1)
      BY <1>5, <2>2, <3>1
    <3>3. DivShift(e[r - 1]) = UnitBit(1)
      BY FirstAndLast
    <3> QED BY <2>1, <3>1, <3>2, <3>3, Zenon
  <2>3. CASE i # m
    <3>1. PICK k \in 1 .. n : k = p + i /\ k - 1 = p + (i - 1) /\ k \notin {p, r} /\ i \in 0 .. m
                              /\ k - 1 \in 0 .. n
      BY <1>1, <1>2, <2>3
    <3>2. d[k] = 0 /\ e[k] = DivBit(e[k - 1], d[k]) /\ e[k - 1] \in WordBits
      BY <3>1 DEF GoThrough
    <3>3. DivBit(e[k - 1], 0) = DivShift(e[k - 1])
      BY <3>2, DivBitFacts
    <3>4. h[i] = e[k]
      BY <1>5, <2>3, <3>1
    <3> QED BY <2>1, <3>1, <3>2, <3>3, <3>4, Zenon
  <2> QED BY <2>2, <2>3
<1>8. Returns(h, m)
  BY <1>6, <1>7 DEF Returns
<1> QED BY <1>2, <1>8, NothingReturns

\* Nor do three flipped bits leave the register as it was: they are odd in number.
LEMMA ThreeFlips ==
    ASSUME NEW n \in Nat, NEW e, NEW d, GoThrough(e, d, n), NEW p, NEW q, NEW r,
           Bounds(d, n, p, r), q \in 1 .. n, p < q, q < r, d[q] = 1,
           \A i \in 1 .. n : d[i] = 1 => i \in {p, q, r}
    PROVE  FALSE
<1>1. p \in 1 .. n /\ r \in 1 .. n /\ d[r] = 1
  BY DEF Bounds
<1>2. /\ p \in 0 .. n /\ q - 1 \in p .. n /\ q \in 0 .. n /\ r - 1 \in q .. n
      /\ q - 1 \in 0 .. n /\ r - 1 \in 0 .. n
  BY <1>1
<1>3. \A i \in 1 .. n : i \notin {p, q, r} => d[i] = 0
  BY DEF GoThrough
<1>4. (\A i \in p + 1 .. q - 1 : d[i] = 0) /\ (\A i \in q + 1 .. r - 1 : d[i] = 0)
  BY <1>1, <1>3
<1>5. Parity(e[q - 1]) = Parity(e[p]) /\ Parity(e[r - 1]) = Parity(e[q])
  BY <1>2, <1>4, ParityStays
<1>6. /\ e[q - 1] \in WordBits /\ e[r - 1] \in WordBits
      /\ e[q] = DivBit(e[q - 1], 1) /\ e[r] = DivBit(e[r - 1], 1)
  BY <1>1, <1>2 DEF GoThrough
<1>7. Parity(e[q]) = (Parity(e[q - 1]) + 1) % 2 /\ Parity(e[r]) = (Parity(e[r - 1]) + 1) % 2
  BY <1>6, ParityChanges
<1>8. Parity(e[p]) = 1 /\ Parity(e[r]) = 0
  BY FirstAndLast
<1> QED BY <1>5, <1>7, <1>8

\* Up to three flipped bits in a frame are seen.
LEMMA FlipsShow ==
    ASSUME NEW n \in Nat, \A m \in 1 .. n - 1 : m \in WithinFrame, NEW e, NEW d, GoThrough(e, d, n), NEW a, NEW b, NEW c,
           \A i \in 1 .. n : d[i] = 1 => i \in {a, b, c}
    PROVE  \A i \in 1 .. n : d[i] = 0
<1>1. PICK F : F = {i \in 1 .. n : d[i] = 1}
  OBVIOUS
<1> SUFFICES ASSUME F # {} PROVE FALSE
  BY <1>1 DEF GoThrough
<1>2. PICK p \in F : \A i \in F : p <= i
  <2>1. F \subseteq Nat
    BY <1>1
  <2> QED BY <2>1, LeastNatural
<1>3. PICK r \in F : \A i \in F : i <= r
  <2>1. PICK G : G = {n - i : i \in F}
    OBVIOUS
  <2>2. G \subseteq Nat /\ G # {}
    BY <1>1, <2>1
  <2>3. PICK x \in G : \A y \in G : x <= y
    BY <2>2, LeastNatural
  <2>4. PICK r \in F : x = n - r
    BY <2>1, <2>3
  <2>5. \A i \in F : n - r <= n - i /\ i \in 1 .. n /\ r \in 1 .. n
    BY <1>1, <2>1, <2>3, <2>4
  <2>6. \A i \in F : i <= r
    BY <2>5
  <2> QED BY <2>6
<1>4. p \in 1 .. n /\ r \in 1 .. n /\ p <= r /\ d[p] = 1 /\ d[r] = 1
  BY <1>1, <1>2
<1>5. Bounds(d, n, p, r)
  BY <1>1, <1>2, <1>3, <1>4 DEF Bounds
<1>6. p < r
  BY <1>5, FirstAndLast
<1>7. CASE F \subseteq {p, r}
  BY <1>1, <1>5, <1>7, TwoFlips
<1>8. CASE ~ (F \subseteq {p, r})
  <2>1. PICK q \in F : q \notin {p, r}
    BY <1>8
  <2>2. q \in 1 .. n /\ d[q] = 1 /\ p < q /\ q < r
    BY <1>1, <1>2, <1>3, <1>4, <2>1
  <2>3. F \subseteq {a, b, c} /\ p # q /\ q # r /\ p # r
    BY <1>1, <1>6, <2>1
  <2>4. F \subseteq {p, q, r}
    BY <1>2, <1>3, <2>1, <2>3
  <2>5. \A i \in 1 .. n : d[i] = 1 => i \in {p, q, r}
    BY <1>1, <2>4
  <2> QED BY <1>5, <2>2, <2>5, ThreeFlips
<1> QED BY <1>7, <1>8

\* Two frames that go through the register with nothing left of them: their
\* difference does so too.
LEMMA DivBitIsLinear ==
    ASSUME NEW x \in WordBits, NEW y \in WordBits, NEW a \in {0, 1}, NEW b \in {0, 1}
    PROVE  /\ DivBit(Plus(x, y), (a + b) % 2) = Plus(DivBit(x, a), DivBit(y, b))
           /\ Plus(x, y) \in WordBits
<1>1. /\ Plus(x, y) \in WordBits /\ DivShift(x) \in WordBits /\ DivShift(y) \in WordBits
      /\ DivShift(Plus(x, y)) = Plus(DivShift(x), DivShift(y))
  <2>1. Plus(x, y) \in WordBits /\ DivShift(x) \in WordBits /\ DivShift(y) \in WordBits
    BY WordBitsAre
  <2> QED BY <2>1, DivIsLinear
<1>2. PICK u \in WordBits, v \in WordBits, w \in WordBits :
         u = DivShift(x) /\ v = DivShift(y) /\ w = Plus(u, v)
  <2>1. Plus(DivShift(x), DivShift(y)) \in WordBits
    BY <1>1, WordBitsAre
  <2> QED BY <1>1, <2>1
<1>3. \A k \in 1 .. 16 : u[k] \in {0, 1} /\ v[k] \in {0, 1} /\ w[k] = (u[k] + v[k]) % 2
  BY <1>2, WordBitsAre DEF Plus
<1>4. \A p, q, r, s \in {0, 1} :
         (((p + q) % 2) + ((r + s) % 2)) % 2 = (((p + r) % 2) + ((q + s) % 2)) % 2
  OBVIOUS
<1>5. /\ DivBit(x, a) = [u EXCEPT ![1] = (@ + a) % 2]
      /\ DivBit(y, b) = [v EXCEPT ![1] = (@ + b) % 2]
      /\ DivBit(Plus(x, y), (a + b) % 2) = [w EXCEPT ![1] = (@ + ((a + b) % 2)) % 2]
  BY <1>1, <1>2 DEF DivBit
<1> DEFINE l == [w EXCEPT ![1] = (@ + ((a + b) % 2)) % 2]
           r == Plus([u EXCEPT ![1] = (@ + a) % 2], [v EXCEPT ![1] = (@ + b) % 2])
<1>6. ASSUME NEW k \in 1 .. 16 PROVE l[k] = r[k]
  <2>1. CASE k = 1
    <3>1. l[1] = (((u[1] + v[1]) % 2) + ((a + b) % 2)) % 2
      BY <1>3 DEF WordBits
    <3>2. r[1] = (((u[1] + a) % 2) + ((v[1] + b) % 2)) % 2
      BY DEF WordBits, Plus
    <3> QED BY <1>3, <1>4, <2>1, <3>1, <3>2
  <2>2. CASE k # 1
    <3>1. l[k] = w[k] /\ r[k] = (u[k] + v[k]) % 2
      BY <2>2 DEF WordBits, Plus
    <3> QED BY <1>3, <3>1
  <2> QED BY <2>1, <2>2
<1>7. l = r
  <2>1. DOMAIN l = 1 .. 16 /\ DOMAIN r = 1 .. 16
    BY DEF Plus, WordBits
  <2>2. l = [k \in 1 .. 16 |-> l[k]]
    BY <2>1 DEF WordBits
  <2>3. r = [k \in 1 .. 16 |-> r[k]]
    BY DEF Plus
  <2> HIDE DEF l, r
  <2> QED BY <1>6, <2>2, <2>3
<1> QED BY <1>1, <1>5, <1>7

LEMMA DifferenceGoesThrough ==
    ASSUME NEW n \in Nat, NEW e, NEW d, NEW f, NEW b, GoThrough(e, d, n), GoThrough(f, b, n)
    PROVE  \E g : GoThrough(g, [i \in 1 .. n |-> (d[i] + b[i]) % 2], n)
<1> DEFINE g == [i \in 0 .. n |-> Plus(e[i], f[i])]
           c == [i \in 1 .. n |-> (d[i] + b[i]) % 2]
<1>1. \A i \in 0 .. n : e[i] \in WordBits /\ f[i] \in WordBits
  BY DEF GoThrough
<1>2. \A i \in 0 .. n : Plus(e[i], f[i]) \in WordBits
  BY <1>1, WordBitsAre
<1>3. g \in [0 .. n -> WordBits]
  BY <1>2
<1>4. Plus(Zeros, Zeros) = Zeros
  BY DEF Plus, Zeros
<1>5. g[0] = Zeros /\ g[n] = Zeros
  BY <1>4 DEF GoThrough
<1>6. ASSUME NEW i \in 1 .. n PROVE c[i] \in {0, 1} /\ g[i] = DivBit(g[i - 1], c[i])
  <2>1. PICK p \in {0, 1}, q \in {0, 1} : p = d[i] /\ q = b[i]
    BY DEF GoThrough
  <2>2. i \in 0 .. n /\ i - 1 \in 0 .. n
    OBVIOUS
  <2>3. e[i] = DivBit(e[i - 1], p) /\ f[i] = DivBit(f[i - 1], q)
    BY <2>1 DEF GoThrough
  <2>4. c[i] = (p + q) % 2 /\ (p + q) % 2 \in {0, 1}
    BY <2>1
  <2>5. g[i] = Plus(e[i], f[i]) /\ g[i - 1] = Plus(e[i - 1], f[i - 1])
    BY <2>2
  <2>6. DivBit(Plus(e[i - 1], f[i - 1]), (p + q) % 2)
          = Plus(DivBit(e[i - 1], p), DivBit(f[i - 1], q))
    BY <1>1, <2>2, DivBitIsLinear
  <2> HIDE DEF g, c
  <2> QED BY <2>3, <2>4, <2>5, <2>6, Zenon
<1> HIDE DEF g, c
<1>7. GoThrough(g, c, n)
  BY <1>3, <1>5, <1>6 DEF GoThrough
<1> QED BY <1>7 DEF c

-----------------------------------------------------------------------------
(***************************************************************************)
(* Frames.                                                                 *)
(***************************************************************************)
\* Sequences of three elements.
LEMMA Triple ==
    ASSUME NEW S, NEW x \in S, NEW y \in S, NEW z \in S
    PROVE  /\ <<x, y, z>> \in Seq(S) /\ Len(<<x, y, z>>) = 3
           /\ <<x, y, z>>[1] = x /\ <<x, y, z>>[2] = y /\ <<x, y, z>>[3] = z
OBVIOUS

\* Three words, packed, and a byte are seven bytes.
LEMMA HeaderFacts ==
    ASSUME NEW t \in Word, NEW n \in Word, NEW u \in Byte
    PROVE  /\ Header(t, 0, n, u) \in Seq(Byte) /\ Len(Header(t, 0, n, u)) = 7
           /\ Header(t, 0, n, u)[5] = n \div 256 /\ Header(t, 0, n, u)[6] = n % 256
           /\ Header(t, 0, n, u)[7] = u
           /\ SubSeq(Header(t, 0, n, u), 1, 6) = PackWords(<<t, 0, n>>)
           /\ UnpackWords(PackWords(<<t, 0, n>>)) = <<t, 0, n>>
<1>1. PICK words \in Seq(Word) : /\ words = <<t, 0, n>> /\ Len(words) = 3
                                 /\ words[3] = n
  <2>1. 0 \in Word
    BY SmallNumber
  <2>2. <<t, 0, n>> \in Seq(Word) /\ Len(<<t, 0, n>>) = 3 /\ <<t, 0, n>>[3] = n
    BY <2>1, Triple
  <2> QED BY <2>2
<1>2. PICK b \in Seq(Byte) : b = PackWords(words)
  BY PackWordsFacts
<1>3. Len(b) = 6
  <2>1. Len(b) = 2 * Len(words)
    BY <1>2, PackWordsFacts
  <2> QED BY <1>1, <2>1
<1>4. b[5] = n \div 256 /\ b[6] = n % 256
  <2>1. 3 \in 1 .. Len(words) /\ 2 * 3 - 1 = 5 /\ 2 * 3 = 6
    BY <1>1
  <2>2. b[2 * 3 - 1] = words[3] \div 256 /\ b[2 * 3] = words[3] % 256
    BY <1>2, <2>1, PackWordsFacts
  <2> QED BY <1>1, <2>1, <2>2
<1>5. Header(t, 0, n, u) = b \o <<u>>
  BY <1>1, <1>2 DEF Header
<1>6. /\ b \o <<u>> \in Seq(Byte) /\ Len(b \o <<u>>) = Len(b) + 1
      /\ (b \o <<u>>)[Len(b) + 1] = u
      /\ \A i \in 1 .. Len(b) : (b \o <<u>>)[i] = b[i]
  BY Appended
<1>7. 5 \in 1 .. Len(b) /\ 6 \in 1 .. Len(b) /\ Len(b) + 1 = 7
  BY <1>3
<1>8. (b \o <<u>>)[5] = b[5] /\ (b \o <<u>>)[6] = b[6] /\ (b \o <<u>>)[7] = u
  BY <1>6, <1>7
<1>9. SubSeq(b \o <<u>>, 1, 6) = b
  BY <1>3, Parts, Singleton
<1>10. UnpackWords(b) = words
  BY <1>2, UnpackPackedWords
<1> QED BY <1>1, <1>2, <1>4, <1>5, <1>6, <1>7, <1>8, <1>9, <1>10

\* A Modbus TCP frame is bytes, is taken whole from a stream, and gives the
\* PDU back to who knows its ids.
TcpRoundTrip(t, u, pdu, frame) ==
    /\ frame \in Seq(Byte) /\ Len(frame) = 7 + Len(pdu)
    /\ From(frame, 8) = pdu
    /\ \A i \in 1 .. Len(pdu) : frame[7 + i] = pdu[i]
    /\ TcpTaken(frame) = Len(frame)
    /\ SubSeq(frame, 1, Len(frame)) = frame
    /\ TcpPdu(frame, t, u) = Decoded(pdu)

\* A TCP frame is read as it was written, and taken whole.
LEMMA TcpFrameFacts ==
    ASSUME NEW t \in Word, NEW u \in Byte, NEW pdu, IsPDU(pdu)
    PROVE  TcpRoundTrip(t, u, pdu, TcpFrame(t, u, pdu))
<1>1. pdu \in Seq(Byte)
  BY DEF IsPDU
<1>2. PICK n \in Nat : n = Len(pdu) /\ n <= 65534
  BY <1>1, LenProperties DEF IsPDU
<1>3. 1 + n \in Word
  BY <1>2, SmallNumber
<1>4. PICK h \in Seq(Byte) :
         /\ h = Header(t, 0, 1 + n, u) /\ Len(h) = 7
         /\ h[5] = (1 + n) \div 256 /\ h[6] = (1 + n) % 256 /\ h[7] = u
         /\ SubSeq(h, 1, 6) = PackWords(<<t, 0, 1 + n>>)
  BY <1>3, HeaderFacts
<1>5. PICK frame \in Seq(Byte) : frame = h \o pdu
  BY <1>1, Concatenation
<1>6. TcpFrame(t, u, pdu) = frame
  BY <1>2, <1>4, <1>5 DEF TcpFrame
<1>7. /\ Len(frame) = 7 + n
      /\ \A i \in 1 .. 7 : frame[i] = h[i]
      /\ \A i \in 1 .. n : frame[7 + i] = pdu[i]
  <2>1. /\ Len(frame) = Len(h) + Len(pdu)
        /\ \A i \in 1 .. Len(h) : frame[i] = h[i]
        /\ \A i \in 1 .. Len(pdu) : frame[Len(h) + i] = pdu[i]
    BY <1>1, <1>5, Concatenation
  <2>2. Len(h) = 7 /\ Len(pdu) = n
    BY <1>2, <1>4
  <2> QED BY <2>1, <2>2
<1>8. From(frame, 8) = pdu
  <2>1. From(h \o pdu, Len(h) + 1) = pdu
    BY <1>1, Parts
  <2>2. Len(h) + 1 = 8
    <3>1. Len(h) = 7
      BY <1>4
    <3> QED BY <3>1
  <2> QED BY <1>5, <2>1, <2>2
<1>9. SubSeq(frame, 1, Len(frame)) = frame
  BY SubSeqFull
<1>10. frame[5] = (1 + n) \div 256 /\ frame[6] = (1 + n) % 256 /\ frame[7] = u
  BY <1>4, <1>7
<1>11. At(frame, 5) = (1 + n) \div 256 /\ At(frame, 6) = (1 + n) % 256
  <2>1. 5 <= Len(frame) /\ 6 <= Len(frame)
    BY <1>2, <1>7
  <2> QED BY <1>10, <2>1 DEF At
<1>12. TcpTaken(frame) = Len(frame)
  <2>1. 256 * ((1 + n) \div 256) + ((1 + n) % 256) = 1 + n
    BY <1>3, BytesOfWord
  <2>2. TcpTaken(frame) = 7 + (256 * ((1 + n) \div 256) + ((1 + n) % 256)) - 1
    BY <1>11 DEF TcpTaken
  <2> QED BY <1>2, <1>7, <2>1, <2>2
<1>13. SubSeq(frame, 1, 6) = SubSeq(h, 1, 6)
  <2>1. 6 \in 0 .. Len(frame) /\ 6 \in 0 .. Len(h) /\ \A i \in 1 .. 6 : i \in 1 .. 7
    BY <1>4, <1>7
  <2>2. /\ SubSeq(frame, 1, 6) \in Seq(Byte) /\ Len(SubSeq(frame, 1, 6)) = 6
        /\ \A k \in 1 .. 6 : SubSeq(frame, 1, 6)[k] = frame[k]
    BY <2>1, PrefixFacts
  <2>3. /\ SubSeq(h, 1, 6) \in Seq(Byte) /\ Len(SubSeq(h, 1, 6)) = 6
        /\ \A k \in 1 .. 6 : SubSeq(h, 1, 6)[k] = h[k]
    BY <2>1, PrefixFacts
  <2>4. \A k \in 1 .. 6 : SubSeq(frame, 1, 6)[k] = SubSeq(h, 1, 6)[k]
    BY <1>7, <2>1, <2>2, <2>3
  <2> QED BY <2>2, <2>3, <2>4, SeqEqual
<1>14. UnpackWords(SubSeq(frame, 1, 6)) = <<t, 0, 1 + n>>
  BY <1>3, <1>4, <1>13, HeaderFacts
<1>15. TcpPdu(frame, t, u) = Decoded(pdu)
  <2> DEFINE header == UnpackWords(SubSeq(frame, 1, 6))
  <2>1. header[1] = t /\ header[2] = 0 /\ header[3] = 1 + n
    BY <1>14
  <2>2. ~(Len(frame) < 7) /\ Len(frame) >= 7 /\ Len(frame) - 6 = 1 + n
    BY <1>2, <1>7
  <2> HIDE DEF header
  <2>3. header[3] = Len(frame) - 6
    BY <2>1, <2>2
  <2> QED BY <1>8, <1>10, <2>1, <2>2, <2>3 DEF TcpPdu, header
<1> QED BY <1>2, <1>6, <1>7, <1>8, <1>9, <1>12, <1>15 DEF TcpRoundTrip

\* A Modbus RTU frame is bytes and gives the PDU back.
RtuRoundTrip(u, pdu, frame) ==
    /\ frame \in Seq(Byte) /\ Len(frame) = Len(pdu) + 3
    /\ \A i \in 1 .. Len(pdu) : frame[1 + i] = pdu[i]
    /\ SubSeq(frame, 1, Len(frame)) = frame
    /\ pdu # <<>> => RtuPdu(frame, u) = Decoded(pdu)

\* An RTU frame too: it ends with the CRC of what is before.
LEMMA RtuFrameFacts ==
    ASSUME NEW u \in Byte, NEW pdu, IsPDU(pdu)
    PROVE  RtuRoundTrip(u, pdu, RtuFrame(u, pdu))
<1>1. pdu \in Seq(Byte) /\ Len(pdu) \in Nat
  BY LenProperties DEF IsPDU
<1>2. PICK m \in Seq(Byte) : m = <<u>> \o pdu
  BY <1>1, Prepending
<1>3. /\ Len(m) = 1 + Len(pdu) /\ m[1] = u /\ Tail(m) = pdu
      /\ \A i \in 1 .. Len(pdu) : m[i + 1] = pdu[i]
  BY <1>1, <1>2, Prepending
<1>4. PICK c \in Seq(Byte) : c = CrcBytes(m) /\ Len(c) = 2
  BY CrcBytesFacts
<1>5. PICK frame \in Seq(Byte) : frame = m \o c
  BY Concatenation
<1>6. RtuFrame(u, pdu) = frame
  BY <1>2, <1>4, <1>5 DEF RtuFrame
<1>7. Len(frame) = Len(m) + Len(c) /\ \A i \in 1 .. Len(m) : frame[i] = m[i]
  BY <1>5, Concatenation
<1>8. Len(frame) = Len(pdu) + 3
  BY <1>1, <1>3, <1>4, <1>7
<1>9. frame[1] = u /\ \A i \in 1 .. Len(pdu) : frame[1 + i] = pdu[i]
  <2>1. \A i \in 1 .. Len(pdu) : 1 + i \in 1 .. Len(m) /\ 1 + i = i + 1
    BY <1>1, <1>3
  <2>2. 1 \in 1 .. Len(m)
    BY <1>1, <1>3
  <2>3. \A i \in 1 .. Len(pdu) : frame[1 + i] = m[i + 1]
    BY <1>7, <2>1
  <2> QED BY <1>3, <1>7, <2>2, <2>3
<1>10. SubSeq(frame, 1, Len(frame)) = frame
  BY SubSeqFull
<1>11. SubSeq(frame, 1, Len(m)) = m /\ From(frame, Len(m) + 1) = c
  BY <1>5, Parts
<1>12. Len(frame) - 2 = Len(m) /\ Len(frame) - 1 = Len(m) + 1
  BY <1>1, <1>3, <1>8
<1>13. ASSUME pdu # <<>> PROVE RtuPdu(frame, u) = Decoded(pdu)
  <2>1. Len(pdu) >= 1
    BY <1>1, <1>13, EmptySeq
  <2>2. ~(Len(frame) < 4)
    BY <1>1, <1>8, <2>1
  <2>3. SubSeq(frame, 1, Len(frame) - 2) = m /\ From(frame, Len(frame) - 1) = CrcBytes(m)
    BY <1>4, <1>11, <1>12
  <2> QED BY <1>3, <1>9, <2>2, <2>3 DEF RtuPdu
<1> QED BY <1>6, <1>8, <1>9, <1>10, <1>13 DEF RtuRoundTrip

\* What never falls from one step to the next never falls.
LEMMA Ascending ==
    ASSUME NEW n \in Nat, NEW f \in [0 .. n -> Nat],
           \A k \in 1 .. n : f[k - 1] <= f[k],
           NEW i \in 0 .. n, NEW j \in 0 .. n, i <= j
    PROVE  f[i] <= f[j]
<1> DEFINE T == {k \in i .. n : ~(f[i] <= f[k])}
<1>1. SUFFICES ASSUME T # {} PROVE FALSE
  <2>1. j \in i .. n
    OBVIOUS
  <2> QED BY <2>1
<1>2. T \subseteq Nat
  OBVIOUS
<1> HIDE DEF T
<1>3. PICK k \in T : \A y \in T : k <= y
  BY <1>1, <1>2, LeastNatural
<1>4. k \in i .. n /\ ~(f[i] <= f[k])
  BY DEF T
<1>5. k # i
  BY <1>4
<1>6. k - 1 \in i .. n /\ k \in 1 .. n /\ k - 1 \in 0 .. n /\ k \in 0 .. n
  BY <1>4, <1>5
<1>7. k - 1 \notin T
  BY <1>3, <1>6
<1>8. f[i] <= f[k - 1]
  BY <1>6, <1>7 DEF T
<1>9. f[k - 1] <= f[k]
  BY <1>6
<1>10. PICK a \in Nat, b \in Nat, c \in Nat : a = f[i] /\ b = f[k - 1] /\ c = f[k]
  BY <1>6
<1> QED BY <1>4, <1>8, <1>9, <1>10

\* Where n objects are that fill a payload from its i-th byte on: each begins
\* with its id and length, before the last byte, and ends before the next.
Places(f, data, i, n) ==
    /\ f \in [0 .. n -> Nat] /\ f[0] = i /\ f[n] = Len(data) + 1
    /\ \A k \in 0 .. n : f[k] = ObjectStart(data, i, k) /\ i <= f[k]
    /\ \A k \in 1 .. n : /\ f[k - 1] + 1 <= Len(data) /\ f[k] <= Len(data) + 1
                         /\ data[f[k - 1] + 1] \in Nat
                         /\ f[k] = f[k - 1] + 2 + data[f[k - 1] + 1]

\* The places where the objects of a payload start, in ascending order.
LEMMA ObjectPlaces ==
    ASSUME NEW data \in Seq(Byte), NEW i \in Nat, NEW n \in Nat,
           1 <= i, ObjectStart(data, i, n) = Len(data) + 1
    PROVE  \E f : Places(f, data, i, n)
<1>1. PICK f : Starts(f, data, i, n)
  BY ObjectStartSteps
<1>2. /\ f \in [0 .. n -> Nat] /\ f[0] = i /\ f[n] = Len(data) + 1
      /\ \A k \in 1 .. n : f[k] = f[k - 1] + 2 + At(data, f[k - 1] + 1)
  BY <1>1 DEF Starts
<1>3. PICK l \in Nat : l = Len(data)
  BY LenProperties
<1>4. \A j \in Nat : At(data, j + 1) \in Nat
  <2> SUFFICES ASSUME NEW j \in Nat PROVE At(data, j + 1) \in Nat
    OBVIOUS
  <2>1. CASE j + 1 <= l
    <3>1. j + 1 \in 1 .. Len(data)
      BY <1>3, <2>1
    <3>2. data[j + 1] \in Nat
      BY <3>1, SeqElement, ByteIsNat
    <3> QED BY <1>3, <2>1, <3>2 DEF At
  <2>2. CASE ~(j + 1 <= l)
    BY <1>3, <2>2 DEF At
  <2> QED BY <2>1, <2>2
<1>5. ASSUME NEW k \in 1 .. n
      PROVE  /\ f[k - 1] \in Nat /\ f[k] \in Nat /\ At(data, f[k - 1] + 1) \in Nat
             /\ f[k] = f[k - 1] + 2 + At(data, f[k - 1] + 1)
  <2>1. k - 1 \in 0 .. n /\ k \in 0 .. n
    OBVIOUS
  <2> QED BY <1>2, <1>4, <2>1
<1>6. \A k \in 1 .. n : f[k - 1] <= f[k]
  <2> SUFFICES ASSUME NEW k \in 1 .. n PROVE f[k - 1] <= f[k]
    OBVIOUS
  <2>1. PICK a \in Nat, b \in Nat, c \in Nat :
           a = f[k - 1] /\ b = f[k] /\ c = At(data, f[k - 1] + 1)
    BY <1>5
  <2>2. b = a + 2 + c
    BY <1>5, <2>1
  <2> QED BY <2>1, <2>2
<1>7. \A k \in 0 .. n : i <= f[k] /\ f[k] <= l + 1
  <2> SUFFICES ASSUME NEW k \in 0 .. n PROVE i <= f[k] /\ f[k] <= l + 1
    OBVIOUS
  <2>1. 0 \in 0 .. n /\ n \in 0 .. n /\ 0 <= k /\ k <= n
    OBVIOUS
  <2>2. f[0] <= f[k] /\ f[k] <= f[n]
    BY <1>2, <1>6, <2>1, Ascending
  <2> QED BY <1>2, <1>3, <2>2
<1>8. ASSUME NEW k \in 1 .. n
      PROVE  /\ f[k - 1] + 1 <= Len(data) /\ f[k] <= Len(data) + 1
             /\ data[f[k - 1] + 1] \in Nat
             /\ f[k] = f[k - 1] + 2 + data[f[k - 1] + 1]
  <2>1. PICK a \in Nat, b \in Nat, c \in Nat :
           a = f[k - 1] /\ b = f[k] /\ c = At(data, f[k - 1] + 1)
    BY <1>5
  <2>2. b = a + 2 + c
    BY <1>5, <2>1
  <2>3. k \in 0 .. n
    OBVIOUS
  <2>4. b <= l + 1
    BY <1>7, <2>1, <2>3
  <2>5. a + 1 <= l
    BY <1>3, <2>1, <2>2, <2>4, SMTT(30)
  <2>6. c = data[a + 1]
    BY <1>3, <2>1, <2>5 DEF At
  <2> QED BY <1>3, <2>1, <2>2, <2>4, <2>5, <2>6
<1>9. \A k \in 0 .. n : f[k] = ObjectStart(data, i, k)
  <2> DEFINE g == [m \in 0 .. n |-> ObjectStart(data, i, m)]
  <2>1. \A m \in 0 .. n : g[m] = ObjectStart(data, i, m)
    OBVIOUS
  <2> HIDE DEF g
  <2>2. f[0] = g[0]
    <3>1. 0 \in Nat /\ 0 \in 0 .. n
      OBVIOUS
    <3> QED BY <1>2, <2>1, <3>1, ObjectStartFacts
  <2>3. KeepsEqual(f, g, n)
    <3> SUFFICES ASSUME NEW m \in 1 .. n, f[m - 1] = g[m - 1] PROVE f[m] = g[m]
      BY DEF KeepsEqual
    <3>1. PICK p \in Nat : p = m - 1 /\ p \in 0 .. n /\ p + 1 = m /\ m \in 0 .. n
      OBVIOUS
    <3>2. g[m] = ObjectStart(data, i, p + 1) /\ f[m - 1] = ObjectStart(data, i, p)
      BY <2>1, <3>1
    <3>3. ObjectStart(data, i, p + 1) = ObjectStart(data, i, p) + 2
                                          + At(data, ObjectStart(data, i, p) + 1)
      BY ObjectStartFacts
    <3>4. f[m] = f[m - 1] + 2 + At(data, f[m - 1] + 1)
      BY <1>2
    <3> QED BY <3>2, <3>3, <3>4
  <2> QED BY <2>1, <2>2, <2>3, SameSteps
<1> QED BY <1>2, <1>3, <1>7, <1>8, <1>9 DEF Places

\* Objects that fill a payload are found where it is in a stream.
LEMMA ObjectsInStream ==
    ASSUME NEW payload \in Seq(Byte), NEW stream \in Seq(Byte), NEW n \in Nat,
           Len(stream) >= 2 + Len(payload),
           \A k \in 1 .. Len(payload) : stream[2 + k] = payload[k],
           ObjectStart(payload, 7, n) = Len(payload) + 1
    PROVE  ObjectStart(stream, 9, n) = Len(payload) + 3
<1>1. PICK l \in Nat, m \in Nat : l = Len(payload) /\ m = Len(stream)
  BY LenProperties
<1>2. PICK f : Places(f, payload, 7, n)
  <2>1. 7 \in Nat /\ 1 <= 7
    OBVIOUS
  <2> QED BY <2>1, ObjectPlaces
<1>3. PICK g : Starts(g, stream, 9, n)
  <2>1. 9 \in Nat
    OBVIOUS
  <2> QED BY <2>1, ObjectStartSteps
<1>4. /\ g[0] = 9 /\ g[n] = ObjectStart(stream, 9, n)
      /\ \A k \in 1 .. n : g[k] = g[k - 1] + 2 + At(stream, g[k - 1] + 1)
  BY <1>3 DEF Starts
<1>5. f \in [0 .. n -> Nat] /\ f[0] = 7 /\ f[n] = l + 1
  BY <1>1, <1>2 DEF Places
<1> DEFINE h == [k \in 0 .. n |-> f[k] + 2]
<1>6. \A k \in 0 .. n : h[k] = f[k] + 2
  OBVIOUS
<1> HIDE DEF h
<1>7. 0 \in 0 .. n /\ n \in 0 .. n
  OBVIOUS
<1>8. h[0] = g[0]
  BY <1>4, <1>5, <1>6, <1>7
<1>9. KeepsEqual(h, g, n)
  <2> SUFFICES ASSUME NEW k \in 1 .. n, h[k - 1] = g[k - 1] PROVE h[k] = g[k]
    BY DEF KeepsEqual
  <2>1. k - 1 \in 0 .. n /\ k \in 0 .. n
    OBVIOUS
  <2>2. PICK a \in Nat, b \in Nat : a = f[k - 1] /\ b = f[k]
    BY <1>5, <2>1
  <2>3. a + 1 <= l /\ payload[a + 1] \in Nat /\ b = a + 2 + payload[a + 1]
    BY <1>1, <1>2, <2>2 DEF Places
  <2>4. g[k - 1] = a + 2 /\ h[k] = b + 2
    BY <1>6, <2>1, <2>2
  <2>5. stream[2 + (a + 1)] = payload[a + 1]
    <3>1. a + 1 \in 1 .. l
      BY <2>3
    <3> QED BY <1>1, <3>1
  <2>6. 2 + (a + 1) <= m /\ 2 + (a + 1) = (a + 2) + 1
    BY <1>1, <2>3
  <2>7. At(stream, (a + 2) + 1) = payload[a + 1]
    BY <1>1, <2>5, <2>6 DEF At
  <2>8. g[k] = (a + 2) + 2 + payload[a + 1]
    BY <1>4, <2>4, <2>7
  <2> QED BY <2>3, <2>4, <2>8, SMTT(40)
<1>10. h[n] = g[n]
  BY <1>7, <1>8, <1>9, SameSteps
<1>11. h[n] = (l + 1) + 2
  BY <1>5, <1>6, <1>7
<1> QED BY <1>1, <1>4, <1>10, <1>11

\* A client on a serial line takes an answer that its decoder accepts whole:
\* the frame has two bytes before its payload, and two of a CRC after it.
LEMMA AcceptedIsTaken ==
    ASSUME NEW q, q.by = "standard", q.fc \in Codes,
           NEW payload \in Seq(Byte), Accepted(q, payload),
           NEW stream \in Seq(Byte), Len(stream) = Len(payload) + 4, stream[2] = q.fc,
           \A k \in 1 .. Len(payload) : stream[2 + k] = payload[k]
    PROVE  RtuTaken(stream, q) = Len(stream)
<1>1. PICK l \in Nat : l = Len(payload) /\ Len(stream) = l + 4
  BY LenProperties
<1>2. q.fc < 128 /\ ~(q.fc >= 128)
  BY DEF Codes
<1>3. At(stream, 2) = q.fc
  <2>1. 2 <= Len(stream)
    BY <1>1
  <2> QED BY <2>1 DEF At
<1>4. ASSUME NEW k \in 1 .. l PROVE At(stream, 2 + k) = payload[k] /\ payload[k] \in Nat
  <2>1. 2 + k <= Len(stream)
    BY <1>1
  <2>2. payload[k] \in Nat
    BY <1>1, SeqElement, ByteIsNat
  <2> QED BY <1>1, <2>1, <2>2 DEF At
<1>5. CASE q.fc \in {1, 2, 3, 4, 23}
  <2>1. CountsRest(payload, 1)
    BY <1>5, CodeNumbers, SMTT(40) DEF Accepted, Counted
  <2>2. 1 <= l /\ payload[1] = l - 1
    BY <1>1, <2>1 DEF CountsRest
  <2>3. At(stream, 3) = l - 1
    <3>1. 1 \in 1 .. l /\ 2 + 1 = 3
      BY <2>2
    <3> QED BY <1>4, <2>2, <3>1
  <2>4. RtuTaken(stream, q) = 2 + 1 + At(stream, 3) + 2
    BY <1>2, <1>3, <1>5, CodeNumbers DEF RtuTaken
  <2> QED BY <1>1, <2>3, <2>4
<1>6. CASE q.fc \in {5, 6, 15, 16}
  <2>1. Len(payload) = 4
    BY <1>6, CodeNumbers DEF Accepted
  <2>2. RtuTaken(stream, q) = RTU_WRITE_REGISTER_RESPONSE_SIZE
    BY <1>2, <1>3, <1>6, CodeNumbers DEF RtuTaken
  <2> QED BY <1>1, <2>1, <2>2 DEF RTU_WRITE_REGISTER_RESPONSE_SIZE
<1>7. CASE q.fc = 22
  <2>1. Len(payload) = 6
    BY <1>7, CodeNumbers DEF Accepted
  <2>2. RtuTaken(stream, q) = RTU_MASK_WRITE_REGISTER_RESPONSE_SIZE
    BY <1>2, <1>3, <1>7, CodeNumbers DEF RtuTaken
  <2> QED BY <1>1, <2>1, <2>2 DEF RTU_MASK_WRITE_REGISTER_RESPONSE_SIZE
<1>8. CASE q.fc = 43
  <2>1. 6 <= l /\ ObjectStart(payload, 7, payload[6]) = Len(payload) + 1
    BY <1>1, <1>8, CodeNumbers DEF Accepted
  <2>2. At(stream, 8) = payload[6] /\ payload[6] \in Nat
    <3>1. 6 \in 1 .. l /\ 2 + 6 = 8
      BY <2>1
    <3> QED BY <1>4, <3>1
  <2>3. PICK n \in Nat : n = payload[6]
    BY <2>2
  <2>4. ObjectStart(stream, 9, n) = l + 3
    <3>1. Len(stream) >= 2 + Len(payload)
      BY <1>1
    <3> QED BY <1>1, <2>1, <2>3, <3>1, ObjectsInStream
  <2>5. RtuTaken(stream, q) = ObjectStart(stream, 9, At(stream, 8)) - 1 + 2
    BY <1>2, <1>3, <1>8, CodeNumbers DEF RtuTaken
  <2>6. RtuTaken(stream, q) = (l + 3) - 1 + 2
    BY <2>2, <2>3, <2>4, <2>5
  <2> QED BY <1>1, <2>6
<1> QED BY <1>5, <1>6, <1>7, <1>8 DEF Codes

\* An exception is five bytes on a serial line.
LEMMA ExceptionIsTaken ==
    ASSUME NEW q, NEW stream \in Seq(Byte), Len(stream) = 5, stream[2] >= 128
    PROVE  RtuTaken(stream, q) = Len(stream)
<1>1. stream[2] \in Nat
  <2>1. 2 \in 1 .. Len(stream)
    OBVIOUS
  <2> QED BY <2>1, SeqElement, ByteIsNat
<1>2. At(stream, 2) = stream[2]
  <2>1. 2 <= Len(stream)
    OBVIOUS
  <2> QED BY <2>1 DEF At
<1>3. ~(At(stream, 2) < 128) /\ At(stream, 2) >= 128
  BY <1>1, <1>2
<1> QED BY <1>3 DEF RtuTaken, RTU_EXCEPTION_RESPONSE_SIZE

-----------------------------------------------------------------------------
(***************************************************************************)
(* Every answer comes back from its bytes.                                 *)
(***************************************************************************)
\* A page of a device identification, and an answer to a valid request.
IsPage(r, q) ==
    /\ \E level \in {129, 130, 131}, more \in {0, 1}, next \in Byte :
          r.fields = <<q.fields[1], level, more, next>>
    /\ r.values \in Seq(Objects) /\ Len(r.values) <= 123
    /\ Len(FlattenSeq(ObjectBytes(r.values))) <= 246

IsAnswer(r, q) ==
    /\ r = Normal(q.fc, r.fields, r.values)
    /\ q.fc \in {1, 2} => /\ r.fields = <<>> /\ r.values \in Seq({0, 1})
                         /\ Len(r.values) = q.fields[2]
    /\ q.fc \in {3, 4, 23} => /\ r.fields = <<>> /\ r.values \in Seq(Word)
                             /\ Len(r.values) = q.fields[2]
    /\ q.fc \in {5, 6, 22} => r.fields = q.fields /\ r.values = q.values
    /\ q.fc \in {15, 16} => r.fields = <<q.fields[1], Len(q.values)>> /\ r.values = <<>>
    /\ q.fc = 43 => IsPage(r, q)

\* The bytes of an answer, which are accepted and parsed as the answer.
AnswersWith(q, r, body) ==
    /\ body \in Seq(Byte) /\ 1 <= Len(body) /\ Len(body) <= 252
    /\ EncodeResponse(r) = <<q.fc>> \o body
    /\ Accepted(q, body) /\ ParsedResponse(q, body) = r

\* Bytes after their count, as all reads are answered.
CountedBody(fc, rest, body) ==
    /\ body \in Seq(Byte) /\ Len(body) = 1 + Len(rest) /\ 1 <= Len(body)
    /\ <<fc, Len(rest)>> \o rest = <<fc>> \o body
    /\ body[1] = Len(rest) /\ Tail(body) = rest /\ CountsRest(body, 1)

\* A function code, a byte count and the bytes it counts.
LEMMA CountedBodyFacts ==
    ASSUME NEW fc \in Byte, NEW rest \in Seq(Byte), Len(rest) <= 255
    PROVE  CountedBody(fc, rest, <<Len(rest)>> \o rest)
<1>1. PICK n \in Byte : n = Len(rest)
  BY LenProperties, SmallNumber
<1>2. PICK body \in Seq(Byte) : body = <<n>> \o rest
  BY Prepending
<1>3. Len(body) = 1 + Len(rest) /\ body[1] = n /\ Tail(body) = rest
  BY <1>2, Prepending
<1>4. <<fc>> \in Seq(Byte)
  OBVIOUS
<1>5. (<<fc>> \o <<n>>) \o rest = <<fc>> \o body
  BY <1>2, <1>4, Around
<1>6. <<fc, n>> = <<fc>> \o <<n>>
  OBVIOUS
<1>7. n \in Nat
  BY ByteIsNat
<1>8. 1 <= Len(body) /\ n = Len(body) - 1
  BY <1>1, <1>3, <1>7
<1> QED BY <1>1, <1>2, <1>3, <1>5, <1>6, <1>8 DEF CountedBody, CountsRest

\* What the number of values that are asked for is.
LEMMA ReadCount ==
    ASSUME NEW q, Valid(q), q.fc \in {1, 2, 3, 4, 23}
    PROVE  /\ q.fields[2] \in Nat /\ 1 <= q.fields[2]
           /\ q.fields[2] <= IF q.fc \in {1, 2} THEN 2000 ELSE 125
<1>1. q.fields[2] \in 1 .. MaxRead(q.fc)
  BY CodeNumbers DEF Valid, PostInit
<1>2. MaxRead(q.fc) = IF q.fc \in {1, 2} THEN 2000 ELSE 125
  BY CodeNumbers DEF MaxRead
<1> QED BY <1>1, <1>2

\* The answer to a read of bits comes back.
LEMMA BitsAnswered ==
    ASSUME NEW q, Valid(q), q.fc \in {1, 2}, NEW r, IsAnswer(r, q)
    PROVE  \E body : AnswersWith(q, r, body)
<1>1. /\ r = Normal(q.fc, <<>>, r.values) /\ r.values \in Seq({0, 1})
      /\ Len(r.values) = q.fields[2]
  BY DEF IsAnswer
<1>2. PICK n \in Nat : n = Len(r.values) /\ 1 <= n /\ n <= 2000
  BY <1>1, ReadCount
<1>3. PICK bits \in Seq(Byte) : bits = pack_bits(r.values) /\ Len(bits) = BytesFor(n)
  BY <1>1, <1>2, PackBitsFacts
<1>4. BytesFor(n) <= 250 /\ BytesFor(n) \in Nat
  <2>1. PICK k \in Nat : k = BytesFor(n) /\ 8 * k < n + 8
    BY BytesForFacts
  <2>2. k <= 250
    BY <1>2, <2>1
  <2> QED BY <2>1, <2>2
<1>5. PICK body : body = <<Len(bits)>> \o bits /\ CountedBody(q.fc, bits, body)
  <2>1. q.fc \in Byte /\ Len(bits) <= 255
    BY <1>3, <1>4, ByteIs
  <2> QED BY <2>1, CountedBodyFacts
<1>6. r.kind = "normal" /\ r.fc = q.fc
  BY <1>1 DEF Normal, Response
<1>7. /\ q.fc \in ReadBits /\ q.fc \notin ReadRegisters
        /\ q.fc \notin ReadRegisters \cup {ReadWriteMultipleRegisters}
        /\ q.fc # ReadWriteMultipleRegisters
        /\ q.fc # WriteSingleCoil /\ q.fc # EncapsulatedInterface
        /\ q.fc # MaskWriteRegister
  BY CodeNumbers
<1>8. EncodeResponse(r) = <<q.fc, Len(bits)>> \o bits
  BY <1>3, <1>6, <1>7 DEF EncodeResponse
<1>9. Accepted(q, body)
  <2>1. body[1] >= BytesFor(q.fields[2])
    <3>1. body[1] = BytesFor(n) /\ q.fields[2] = n
      BY <1>1, <1>2, <1>3, <1>5 DEF CountedBody
    <3> QED BY <1>4, <3>1
  <2>2. CountsRest(body, 1)
    BY <1>5 DEF CountedBody
  <2> QED BY <2>1, <2>2, <1>7 DEF Accepted
<1>10. ParsedResponse(q, body) = r
  <2>1. Tail(body) = bits
    BY <1>5 DEF CountedBody
  <2>2. unpack_bits(bits, q.fields[2]) = r.values
    BY <1>1, <1>3, UnpackPackedBits
  <2> QED BY <1>1, <2>1, <2>2, <1>7 DEF ParsedResponse
<1>11. Len(body) <= 252
  BY <1>3, <1>4, <1>5 DEF CountedBody
<1> QED BY <1>5, <1>8, <1>9, <1>10, <1>11 DEF AnswersWith, CountedBody

\* The answer to a read of registers comes back.
LEMMA RegistersAnswered ==
    ASSUME NEW q, Valid(q), q.fc \in {3, 4, 23}, NEW r, IsAnswer(r, q)
    PROVE  \E body : AnswersWith(q, r, body)
<1>1. /\ r = Normal(q.fc, <<>>, r.values) /\ r.values \in Seq(Word)
      /\ Len(r.values) = q.fields[2]
  BY DEF IsAnswer
<1>2. PICK n \in Nat : n = Len(r.values) /\ 1 <= n /\ n <= 125
  BY <1>1, ReadCount
<1>3. PICK words \in Seq(Byte) : words = PackWords(r.values) /\ Len(words) = 2 * n
  BY <1>1, <1>2, PackWordsFacts
<1>4. PICK body : body = <<Len(words)>> \o words /\ CountedBody(q.fc, words, body)
  <2>1. q.fc \in Byte /\ Len(words) <= 255
    BY <1>2, <1>3, ByteIs, SMTT(40)
  <2> QED BY <2>1, CountedBodyFacts
<1>5. r.kind = "normal" /\ r.fc = q.fc
  BY <1>1 DEF Normal, Response
<1>6. /\ q.fc \notin ReadBits
      /\ q.fc \in ReadRegisters \cup {ReadWriteMultipleRegisters}
      /\ q.fc # WriteSingleCoil /\ q.fc # EncapsulatedInterface
      /\ q.fc # MaskWriteRegister
  BY CodeNumbers
<1>7. EncodeResponse(r) = <<q.fc, Len(words)>> \o words
  BY <1>3, <1>5, <1>6 DEF EncodeResponse
<1>8. Accepted(q, body)
  <2>1. body[1] = 2 * n /\ CountsRest(body, 1) /\ Len(body) >= 1
    BY <1>3, <1>4 DEF CountedBody
  <2>2. body[1] % 2 = 0 /\ q.fields[2] = body[1] \div 2
    BY <1>1, <1>2, <2>1
  <2> QED BY <2>1, <2>2, CodeNumbers DEF Accepted, Counted
<1>9. ParsedResponse(q, body) = r
  <2>1. Tail(body) = words
    BY <1>4 DEF CountedBody
  <2>2. UnpackWords(words) = r.values
    BY <1>1, <1>3, UnpackPackedWords
  <2>3. ParsedResponse(q, body) = Normal(q.fc, <<>>, UnpackWords(Tail(body)))
    BY <1>6 DEF ParsedResponse
  <2> QED BY <1>1, <2>1, <2>2, <2>3
<1>10. Len(body) <= 252
  BY <1>2, <1>3, <1>4 DEF CountedBody
<1> QED BY <1>4, <1>7, <1>8, <1>9, <1>10 DEF AnswersWith, CountedBody

\* Words that are echoed.
LEMMA EchoAnswered ==
    ASSUME NEW q, Valid(q), q.fc \in {6, 15, 16, 22}, NEW r, IsAnswer(r, q)
    PROVE  \E body : AnswersWith(q, r, body)
<1>1. r = Normal(q.fc, r.fields, r.values)
  BY DEF IsAnswer
<1>2. q.fields \in Seq(Word) /\ Len(q.fields) = FieldCount(q.fc) /\ q.values \in Seq(Word)
  BY ValidFacts
<1>3. /\ r.fields \in Seq(Word) /\ r.values = <<>>
      /\ Len(r.fields) = IF q.fc = 22 THEN 3 ELSE 2
  <2>1. CASE q.fc \in {6, 22}
    <3>1. q.values = <<>> /\ FieldCount(q.fc) = IF q.fc = 22 THEN 3 ELSE 2
      BY <2>1, CodeNumbers, SMTT(40) DEF Valid, IsRequest, FieldCount
    <3> QED BY <1>2, <2>1, <3>1 DEF IsAnswer
  <2>2. CASE q.fc \in {15, 16}
    <3>1. r.fields = <<q.fields[1], Len(q.values)>> /\ r.values = <<>>
      BY <2>2 DEF IsAnswer
    <3>2. Len(q.values) \in Word
      <4>1. PICK n \in Nat : n = Len(q.values) /\ n <= 1968
        BY <2>2, WrittenCount
      <4>2. n <= 65535
        BY <4>1
      <4> QED BY <4>1, <4>2, SmallNumber
    <3>3. q.fields[1] \in Word
      <4>1. FieldCount(q.fc) = 1
        BY <2>2, CodeNumbers DEF FieldCount
      <4>2. 1 \in 1 .. Len(q.fields)
        BY <1>2, <4>1
      <4> QED BY <1>2, <4>2, SeqElement
    <3>4. <<q.fields[1], Len(q.values)>> \in Seq(Word)
          /\ Len(<<q.fields[1], Len(q.values)>>) = 2
      BY <3>2, <3>3, Pair
    <3> QED BY <2>2, <3>1, <3>4
  <2> QED BY <2>1, <2>2
<1>4. PICK body \in Seq(Byte) : /\ body = PackWords(r.fields)
                                /\ Len(body) = 2 * Len(r.fields)
  BY <1>3, PackWordsFacts
<1>5. Len(body) = IF q.fc = 22 THEN 6 ELSE 4
  BY <1>3, <1>4
<1>6. UnpackWords(body) = r.fields
  BY <1>3, <1>4, UnpackPackedWords
<1>7. /\ q.fc \notin ReadBits /\ q.fc \notin ReadRegisters
      /\ q.fc \notin ReadRegisters \cup {ReadWriteMultipleRegisters}
      /\ q.fc # ReadWriteMultipleRegisters
      /\ q.fc # WriteSingleCoil /\ q.fc # EncapsulatedInterface
      /\ q.fc = MaskWriteRegister <=> q.fc = 22
  BY CodeNumbers
<1>8. EncodeResponse(r) = <<q.fc>> \o body
  <2>1. r.kind = "normal" /\ r.fc = q.fc
    BY <1>1 DEF Normal, Response
  <2> QED BY <1>4, <1>7, <2>1 DEF EncodeResponse
<1>9. Accepted(q, body)
  BY <1>5, <1>7 DEF Accepted
<1>10. ParsedResponse(q, body) = r
  <2>1. ParsedResponse(q, body) = Normal(q.fc, UnpackWords(body), <<>>)
    BY <1>7 DEF ParsedResponse
  <2> QED BY <1>1, <1>3, <1>6, <2>1
<1>11. 1 <= Len(body) /\ Len(body) <= 252
  BY <1>5
<1>12. AnswersWith(q, r, body)
  BY <1>8, <1>9, <1>10, <1>11 DEF AnswersWith
<1> QED BY <1>12

\* The coil that is echoed.
LEMMA CoilAnswered ==
    ASSUME NEW q, Valid(q), q.fc = 5, NEW r, IsAnswer(r, q)
    PROVE  \E body : AnswersWith(q, r, body)
<1>1. r = Normal(5, q.fields, q.values)
  BY DEF IsAnswer
<1>2. /\ q.fields \in Seq(Word) /\ Len(q.fields) = 1
      /\ q.values \in Seq(Word) /\ Len(q.values) = 1 /\ q.values[1] \in {0, 1}
  <2>1. q.fields \in Seq(Word) /\ Len(q.fields) = FieldCount(q.fc) /\ q.values \in Seq(Word)
    BY ValidFacts
  <2>2. FieldCount(q.fc) = 1
    BY CodeNumbers DEF FieldCount
  <2>3. Len(q.values) = 1 /\ AreBools(q.values)
    BY CodeNumbers DEF Valid, IsRequest, PostInit
  <2>4. 1 \in DOMAIN q.values
    BY <2>1, <2>3, LenProperties
  <2>5. q.values[1] \in {0, 1}
    BY <2>3, <2>4 DEF AreBools
  <2> QED BY <2>1, <2>2, <2>3, <2>5
<1>3. PICK word \in Word : word = CoilWord(q.values[1])
  BY WordIs DEF CoilWord, COIL_ON, COIL_OFF
<1>4. PICK words : words = q.fields \o <<word>>
  OBVIOUS
<1>5. words \in Seq(Word) /\ Len(words) = 2 /\ words[2] = word /\ words[1] = q.fields[1]
  <2>1. /\ words \in Seq(Word) /\ Len(words) = Len(q.fields) + 1
        /\ words[Len(q.fields) + 1] = word
        /\ \A i \in 1 .. Len(q.fields) : words[i] = q.fields[i]
    BY <1>2, <1>4, Appended
  <2>2. Len(q.fields) = 1 /\ 1 \in 1 .. Len(q.fields)
    BY <1>2
  <2> QED BY <2>1, <2>2
<1>6. PICK body \in Seq(Byte) : body = PackWords(words) /\ Len(body) = 4
  <2>1. PackWords(words) \in Seq(Byte) /\ Len(PackWords(words)) = 2 * Len(words)
    BY <1>5, PackWordsFacts
  <2> QED BY <1>5, <2>1
<1>7. UnpackWords(body) = words
  BY <1>5, <1>6, UnpackPackedWords
<1>8. EncodeResponse(r) = <<q.fc>> \o body
  BY <1>1, <1>3, <1>4, <1>6, CodeNumbers DEF EncodeResponse, Normal, Response
<1>9. word \in {COIL_ON, COIL_OFF} /\ (word = COIL_ON <=> q.values[1] = 1)
  BY <1>3 DEF CoilWord, COIL_ON, COIL_OFF
<1>10. Accepted(q, body)
  BY <1>5, <1>6, <1>7, <1>9, CodeNumbers DEF Accepted
<1>11. ParsedResponse(q, body) = r
  <2>1. ParsedResponse(q, body)
          = Normal(5, <<words[1]>>, <<IF words[2] = COIL_ON THEN 1 ELSE 0>>)
    BY <1>7, CodeNumbers DEF ParsedResponse
  <2>2. <<words[1]>> = q.fields
    BY <1>2, <1>5, OnlyElement
  <2>3. (IF words[2] = COIL_ON THEN 1 ELSE 0) = q.values[1]
    BY <1>2, <1>5, <1>9
  <2>4. <<q.values[1]>> = q.values
    BY <1>2, OnlyElement
  <2> QED BY <1>1, <2>1, <2>2, <2>3, <2>4
<1>12. 1 <= Len(body) /\ Len(body) <= 252
  BY <1>6
<1>13. AnswersWith(q, r, body)
  BY <1>8, <1>10, <1>11, <1>12 DEF AnswersWith
<1> QED BY <1>13

\* Sequences of six elements, and what is behind them.
LEMMA Sextuple ==
    ASSUME NEW S, NEW b \in S, NEW c \in S, NEW d \in S, NEW e \in S, NEW f \in S, NEW g \in S
    PROVE  <<b, c, d, e, f, g>> \in Seq(S) /\ Len(<<b, c, d, e, f, g>>) = 6
OBVIOUS

\* Six bytes before some others.
AfterSix(all, rest, head) ==
    /\ head \in Seq(Byte) /\ Len(head) = 6 /\ all \o rest = <<all[1]>> \o (head \o rest)
    /\ head \o rest \in Seq(Byte) /\ Len(head \o rest) = 6 + Len(rest)
    /\ \A i \in 1 .. 6 : (head \o rest)[i] = head[i]

LEMMA SixBefore ==
    ASSUME NEW a \in Byte, NEW b \in Byte, NEW c \in Byte, NEW d \in Byte, NEW e \in Byte,
           NEW f \in Byte, NEW g \in Byte, NEW rest \in Seq(Byte)
    PROVE  AfterSix(<<a, b, c, d, e, f, g>>, rest, <<b, c, d, e, f, g>>)
<1>1. PICK head \in Seq(Byte) : head = <<b, c, d, e, f, g>> /\ Len(head) = 6
  <2>1. <<b, c, d, e, f, g>> \in Seq(Byte) /\ Len(<<b, c, d, e, f, g>>) = 6
    BY Sextuple
  <2> QED BY <2>1
<1>2. <<a, b, c, d, e, f, g>> = <<a>> \o head
  BY <1>1
<1>3. <<a>> \in Seq(Byte)
  OBVIOUS
<1>4. (<<a>> \o head) \o rest = <<a>> \o (head \o rest)
  BY <1>3, ConcatAssociative
<1>5. /\ head \o rest \in Seq(Byte) /\ Len(head \o rest) = Len(head) + Len(rest)
      /\ \A i \in 1 .. Len(head) : (head \o rest)[i] = head[i]
  BY Concatenation
<1>6. Len(head) = 6
  BY <1>1
<1>7. \A i \in 1 .. 6 : (head \o rest)[i] = head[i]
  BY <1>5, <1>6
<1> QED BY <1>1, <1>2, <1>4, <1>5, <1>6, <1>7 DEF AfterSix

\* A page of a device identification.
LEMMA PageAnswered ==
    ASSUME NEW q, Valid(q), q.fc = 43, NEW r, IsAnswer(r, q)
    PROVE  \E body : AnswersWith(q, r, body)
<1>1. r = Normal(43, r.fields, r.values) /\ IsPage(r, q)
  BY DEF IsAnswer
<1>2. q.fields[1] \in Byte
  <2>1. q.fields[1] \in 1 .. 4
    BY CodeNumbers DEF Valid, PostInit
  <2> QED BY <2>1, ByteIs
<1>3. PICK code \in Byte, level \in {129, 130, 131}, more \in {0, 1}, next \in Byte :
         code = q.fields[1] /\ r.fields = <<code, level, more, next>>
  BY <1>1, <1>2 DEF IsPage
<1>4. PICK objects \in Seq(Objects) : objects = r.values
  BY <1>1 DEF IsPage
<1>5. PICK n \in Byte : n = Len(objects)
  <2>1. PICK k \in Nat : k = Len(objects) /\ k <= 123
    BY <1>1, <1>4, LenProperties DEF IsPage
  <2>2. k <= 255
    BY <2>1
  <2> QED BY <2>1, <2>2, SmallNumber
<1>6. ObjectBytes(objects) \in Seq(Seq(Byte))
  BY ObjectBytesFacts
<1>7. PICK rest : rest = FlattenSeq(ObjectBytes(objects))
  OBVIOUS
<1>8. rest \in Seq(Byte)
  <2>1. PICK f : Flattens(f, ObjectBytes(objects))
    BY <1>6, FlattenSteps
  <2>2. Len(ObjectBytes(objects)) \in 0 .. Len(ObjectBytes(objects))
    BY <1>6, LenProperties
  <2> QED BY <1>7, <2>1, <2>2 DEF Flattens
<1>9. Len(rest) <= 246 /\ Len(rest) \in Nat
  BY <1>1, <1>4, <1>7, <1>8, LenProperties DEF IsPage
<1>10. PICK flag \in Byte : flag = (IF more = 1 THEN 255 ELSE 0)
  BY ByteIs
<1>11. 43 \in Byte /\ 14 \in Byte /\ level \in Byte
  BY ByteIs
<1>12. AfterSix(<<43, 14, code, level, flag, next, n>>, rest,
                <<14, code, level, flag, next, n>>)
  <2>1. PICK c14 \in Byte, c43 \in Byte, lev \in Byte : c14 = 14 /\ c43 = 43 /\ lev = level
    BY <1>11
  <2>2. AfterSix(<<c43, c14, code, lev, flag, next, n>>, rest,
                 <<c14, code, lev, flag, next, n>>)
    BY <1>8, SixBefore
  <2> QED BY <2>1, <2>2
<1>13. PICK head : head = <<14, code, level, flag, next, n>>
  OBVIOUS
<1>14. PICK body : body = head \o rest
  OBVIOUS
<1>15. /\ head \in Seq(Byte) /\ Len(head) = 6 /\ body \in Seq(Byte)
       /\ <<43, 14, code, level, flag, next, n>> \o rest = <<43>> \o body
       /\ Len(body) = 6 + Len(rest) /\ \A i \in 1 .. 6 : body[i] = head[i]
  BY <1>12, <1>13, <1>14 DEF AfterSix
<1>16. /\ body[1] = 14 /\ body[2] = code /\ body[3] = level /\ body[4] = flag
       /\ body[5] = next /\ body[6] = n
  BY <1>13, <1>15
<1>17. EncodeResponse(r) = <<43>> \o body
  <2>1. r.kind = "normal" /\ r.fc = 43
    BY <1>1 DEF Normal, Response
  <2>2. /\ r.fields[1] = code /\ r.fields[2] = level /\ r.fields[3] = more
        /\ r.fields[4] = next
    BY <1>3
  <2>3. ObjectBytes(objects) = [i \in DOMAIN r.values |-> EncodeObject(r.values[i])]
    BY <1>4 DEF ObjectBytes
  <2>4. EncodeResponse(r) = <<43, 14, code, level, flag, next, n>> \o rest
    <3>1. EncodeResponse(r)
            = <<r.fc, READ_DEVICE_IDENTIFICATION_MEI_TYPE, r.fields[1], r.fields[2],
                IF r.fields[3] = 1 THEN 255 ELSE 0, r.fields[4], Len(r.values)>>
              \o FlattenSeq([i \in DOMAIN r.values |-> EncodeObject(r.values[i])])
      BY <2>1, CodeNumbers DEF EncodeResponse
    <3> QED BY <1>4, <1>5, <1>7, <1>10, <2>1, <2>2, <2>3, <3>1
            DEF READ_DEVICE_IDENTIFICATION_MEI_TYPE
  <2> QED BY <1>15, <2>4
<1>18. ObjectsAt(body, 7, objects)
  <2>1. ObjectsAt(head \o rest, Len(head) + 1, objects)
    BY <1>7, <1>15, ObjectsComeBack
  <2>2. Len(head) + 1 = 7
    <3>1. Len(head) = 6
      BY <1>15
    <3> QED BY <3>1
  <2> QED BY <1>14, <2>1, <2>2
<1>19. /\ ObjectStart(body, 7, body[6]) = Len(body) + 1
       /\ ObjectsFrom(body, 7, body[6]) = objects
  BY <1>5, <1>16, <1>18 DEF ObjectsAt
<1>20. Accepted(q, body)
  <2>1. Len(body) >= 6
    BY <1>9, <1>15
  <2>2. flag \in {0, 255}
    BY <1>10
  <2>3. \A i \in DOMAIN objects : Len(objects[i].value) <= 244
    <3>1. DOMAIN objects = 1 .. Len(objects)
      BY LenProperties
    <3> QED BY <3>1, SeqElement, ObjectFacts
  <2>4. level \in {1, 2, 3, 129, 130, 131}
    OBVIOUS
  <2>5. /\ q.fc \notin ReadBits /\ q.fc \notin ReadRegisters
        /\ q.fc # ReadWriteMultipleRegisters /\ q.fc = EncapsulatedInterface
        /\ q.fc # WriteSingleCoil /\ q.fc # MaskWriteRegister
    BY CodeNumbers
  <2> QED BY <1>3, <1>16, <1>19, <2>1, <2>2, <2>3, <2>4, <2>5
          DEF Accepted, READ_DEVICE_IDENTIFICATION_MEI_TYPE
<1>21. ParsedResponse(q, body) = r
  <2>1. ParsedResponse(q, body) = Normal(43, <<code, level, flag \div 255, next>>, objects)
    <3>1. /\ q.fc \notin ReadBits
          /\ q.fc \notin ReadRegisters \cup {ReadWriteMultipleRegisters}
          /\ q.fc = EncapsulatedInterface /\ q.fc # WriteSingleCoil
      BY CodeNumbers
    <3>2. ParsedResponse(q, body)
            = Normal(q.fc, <<body[2], body[3], body[4] \div 255, body[5]>>,
                     ObjectsFrom(body, 7, body[6]))
      BY <3>1 DEF ParsedResponse
    <3> QED BY <1>16, <1>19, <3>2
  <2>2. flag \div 255 = more
    BY <1>10
  <2> QED BY <1>1, <1>3, <1>4, <2>1, <2>2
<1>22. 1 <= Len(body) /\ Len(body) <= 252
  BY <1>9, <1>15
<1>23. AnswersWith(q, r, body)
  <2>1. body \in Seq(Byte)
    BY <1>15
  <2> QED BY <1>17, <1>20, <1>21, <1>22, <2>1 DEF AnswersWith
<1> QED BY <1>23

\* Every answer to a valid request comes back from its bytes, whatever decoders
\* are registered.
LEMMA AnswerComesBack ==
    ASSUME NEW q, Valid(q), NEW r, IsAnswer(r, q), NEW decoders
    PROVE  \E body : /\ AnswersWith(q, r, body)
                     /\ DecodeResponse(EncodeResponse(r), q, decoders) = Decoded(r)
<1>1. q.by = "standard" /\ q.fc \in Codes
  BY ValidFacts, CodeNumbers DEF Valid, Codes
<1>2. PICK body : AnswersWith(q, r, body)
  BY <1>1, BitsAnswered, RegistersAnswered, EchoAnswered, CoilAnswered, PageAnswered DEF Codes
<1>3. /\ body \in Seq(Byte) /\ EncodeResponse(r) = <<q.fc>> \o body
      /\ Accepted(q, body) /\ ParsedResponse(q, body) = r
  BY <1>2 DEF AnswersWith
<1>4. q.fc \in Byte /\ q.fc < 128 /\ ~(q.fc >= 128)
  BY <1>1, ByteIs DEF Codes
<1>5. PICK data : /\ data = EncodeResponse(r) /\ data # <<>>
                  /\ Head(data) = q.fc /\ Tail(data) = body
  BY <1>3, <1>4, Prepending
<1>6. DecodeResponse(data, q, decoders) = Decoded(r)
  BY <1>1, <1>3, <1>4, <1>5 DEF DecodeResponse, StandardAnswer
<1> QED BY <1>2, <1>5, <1>6

\* Two elements are one and another.
LEMMA PairSplit ==
    ASSUME NEW S, NEW x \in S, NEW y \in S
    PROVE  <<x>> \o <<y>> = <<x, y>>
<1>1. <<x>> \in Seq(S) /\ <<y>> \in Seq(S) /\ Len(<<x>>) = 1 /\ Len(<<y>>) = 1
  OBVIOUS
<1>2. /\ <<x>> \o <<y>> \in Seq(S) /\ Len(<<x>> \o <<y>>) = 2
      /\ (<<x>> \o <<y>>)[1] = x /\ (<<x>> \o <<y>>)[2] = y
  BY <1>1, Prepending
<1>3. <<x, y>> \in Seq(S) /\ Len(<<x, y>>) = 2
  BY Pair
<1>4. \A i \in 1 .. 2 : (<<x>> \o <<y>>)[i] = <<x, y>>[i]
  BY <1>2
<1> QED BY <1>2, <1>3, <1>4, SeqEqual

\* So does an exception to any request.
LEMMA ExceptionComesBack ==
    ASSUME NEW q, q.fc \in 0 .. 127, NEW code \in Byte, NEW decoders
    PROVE  LET data == EncodeResponse(ExceptionResponse(q.fc, code))
           IN  /\ data \in Seq(Byte) /\ data = <<q.fc + 128, code>> /\ Len(data) = 2
               /\ DecodeResponse(data, q, decoders) = Decoded(ExceptionResponse(q.fc, code))
<1>1. PICK n \in Nat, fc \in Byte : n = q.fc /\ fc = n + 128 /\ n < 128
  BY ByteIs
<1>2. <<fc, code>> \in Seq(Byte) /\ Len(<<fc, code>>) = 2
  BY Pair
<1>3. <<fc>> \in Seq(Byte) /\ <<code>> \in Seq(Byte) /\ Len(<<code>>) = 1 /\ <<code>>[1] = code
  BY Singleton
<1>4. PICK data \in Seq(Byte) :
         data = <<fc>> \o <<code>> /\ data # <<>> /\ Head(data) = fc /\ Tail(data) = <<code>>
  BY <1>3, Prepending, ZenonT(60)
<1>5. data = <<fc, code>>
  <2>1. <<fc>> \o <<code>> = <<fc, code>>
    BY PairSplit
  <2> QED BY <1>4, <2>1
<1>6. EncodeResponse(ExceptionResponse(q.fc, code)) = data
  BY <1>1, <1>4 DEF EncodeResponse, ExceptionResponse, Response
<1>7. fc >= 128 /\ fc - 128 = q.fc /\ ~(fc < 128)
  <2>1. n + 128 >= 128 /\ (n + 128) - 128 = n /\ ~(n + 128 < 128)
    OBVIOUS
  <2> QED BY <1>1, <2>1
<1>8. DecodeResponse(data, q, decoders) = Decoded(ExceptionResponse(q.fc, code))
  BY <1>3, <1>4, <1>7 DEF DecodeResponse
<1> QED BY <1>1, <1>2, <1>5, <1>6, <1>8

-----------------------------------------------------------------------------
(***************************************************************************)
(* What a response that is accepted says is what its bytes say.            *)
(***************************************************************************)
IsMiddle(x, s, a, b) ==
    Len(x) = b + 1 - a /\ \A i \in 1 .. (b + 1 - a) : x[i] = s[(a - 1) + i]

\* The middle of a sequence, and two of them that touch.
LEMMA MiddleFacts ==
    ASSUME NEW S, NEW s \in Seq(S), NEW a \in Nat, NEW b \in Nat,
           1 <= a, a <= b + 1, b <= Len(s)
    PROVE  SubSeq(s, a, b) \in Seq(S) /\ IsMiddle(SubSeq(s, a, b), s, a, b)
<1>1. PICK l \in Nat : l = Len(s)
  BY LenProperties
<1>2. b + 1 - a \in Nat /\ \A i \in 1 .. (b + 1 - a) : (a - 1) + i \in 1 .. l
  BY <1>1
<1> DEFINE x == [i \in 1 .. (b + 1 - a) |-> s[(a - 1) + i]]
<1>3. x \in [1 .. (b + 1 - a) -> S]
  BY <1>1, <1>2, SeqElement
<1>4. x \in Seq(S) /\ Len(x) = b + 1 - a
  BY <1>2, <1>3, FunctionIsSeq
<1>5. SubSeq(s, a, b) = [i \in 1 .. (1 + b - a) |-> s[i + a - 1]]
  OBVIOUS
<1>6. 1 + b - a = b + 1 - a /\ \A i \in 1 .. (b + 1 - a) : i + a - 1 = (a - 1) + i
  OBVIOUS
<1>7. SubSeq(s, a, b) = x
  BY <1>5, <1>6
<1> QED BY <1>4, <1>7 DEF IsMiddle

LEMMA Adjacent ==
    ASSUME NEW S, NEW s \in Seq(S), NEW a \in Nat, NEW b \in Nat, NEW c \in Nat,
           1 <= a, a <= b + 1, b <= c, c <= Len(s)
    PROVE  SubSeq(s, a, b) \o SubSeq(s, b + 1, c) = SubSeq(s, a, c)
<1>1. PICK l \in Nat : l = Len(s)
  BY LenProperties
<1>2. b <= l /\ c <= l /\ a <= c + 1 /\ 1 <= b + 1 /\ b + 1 <= c + 1 /\ b + 1 \in Nat
  BY <1>1
<1>3. PICK x \in Seq(S) : x = SubSeq(s, a, b) /\ IsMiddle(x, s, a, b)
  BY <1>1, <1>2, MiddleFacts
<1>4. PICK y \in Seq(S) : y = SubSeq(s, b + 1, c) /\ IsMiddle(y, s, b + 1, c)
  BY <1>1, <1>2, MiddleFacts
<1>5. PICK z \in Seq(S) : z = SubSeq(s, a, c) /\ IsMiddle(z, s, a, c)
  BY <1>1, <1>2, MiddleFacts
<1>6. PICK xy \in Seq(S) : xy = x \o y
  BY Concatenation
<1>7. Len(x) = b + 1 - a /\ \A i \in 1 .. (b + 1 - a) : x[i] = s[(a - 1) + i]
  BY <1>3 DEF IsMiddle
<1>8. Len(y) = c - b /\ \A i \in 1 .. (c - b) : y[i] = s[b + i]
  <2>1. (b + 1) - 1 = b /\ c + 1 - (b + 1) = c - b
    OBVIOUS
  <2> QED BY <1>4, <2>1 DEF IsMiddle
<1>9. Len(z) = c + 1 - a /\ \A i \in 1 .. (c + 1 - a) : z[i] = s[(a - 1) + i]
  BY <1>5 DEF IsMiddle
<1>10. /\ Len(xy) = Len(x) + Len(y)
       /\ \A i \in 1 .. Len(x) : xy[i] = x[i]
       /\ \A i \in 1 .. Len(y) : xy[Len(x) + i] = y[i]
  BY <1>6, Concatenation
<1>11. Len(xy) = Len(z)
  BY <1>7, <1>8, <1>9, <1>10
<1>12. ASSUME NEW i \in 1 .. Len(z) PROVE xy[i] = z[i]
  <2>1. i \in 1 .. (c + 1 - a) /\ z[i] = s[(a - 1) + i]
    BY <1>9
  <2>2. CASE i <= b + 1 - a
    <3>1. i \in 1 .. (b + 1 - a)
      BY <2>1, <2>2
    <3> QED BY <1>7, <1>10, <2>1, <3>1
  <2>3. CASE ~(i <= b + 1 - a)
    <3>1. PICK j \in 1 .. (c - b) : i = (b + 1 - a) + j /\ b + j = (a - 1) + i
      <4>1. i - (b + 1 - a) \in 1 .. (c - b)
        BY <2>1, <2>3
      <4> QED BY <4>1
    <3>2. xy[i] = y[j]
      BY <1>7, <1>8, <1>10, <3>1
    <3>3. y[j] = s[b + j]
      BY <1>8, <3>1
    <3> QED BY <2>1, <3>1, <3>2, <3>3
  <2> QED BY <2>2, <2>3
<1>13. xy = z
  BY <1>11, <1>12, SeqEqual
<1> QED BY <1>3, <1>4, <1>5, <1>6, <1>13

\* Objects that fill the rest of a payload are those bytes.
ObjectsSay(payload, n) ==
    LET objects == ObjectsFrom(payload, 7, n)
    IN  /\ objects \in Seq(Objects) /\ Len(objects) = n
        /\ FlattenSeq(ObjectBytes(objects)) = From(payload, 7)

\* The objects that are read from a payload are its bytes.
LEMMA ObjectsAreExact ==
    ASSUME NEW payload \in Seq(Byte), NEW n \in Nat,
           ObjectStart(payload, 7, n) = Len(payload) + 1, 6 <= Len(payload),
           \A i \in DOMAIN ObjectsFrom(payload, 7, n) :
              Len(ObjectsFrom(payload, 7, n)[i].value) <= 244
    PROVE  ObjectsSay(payload, n)
<1>1. PICK l \in Nat : l = Len(payload) /\ 6 <= l
  BY LenProperties
<1>2. PICK start : Places(start, payload, 7, n)
  <2>1. 7 \in Nat /\ 1 <= 7
    OBVIOUS
  <2> QED BY <2>1, ObjectPlaces
<1>3. /\ start \in [0 .. n -> Nat] /\ start[0] = 7 /\ start[n] = l + 1
      /\ \A k \in 0 .. n : start[k] = ObjectStart(payload, 7, k) /\ 7 <= start[k]
  BY <1>1, <1>2 DEF Places
<1> DEFINE at == [k \in 1 .. n |-> ObjectStart(payload, 7, k - 1)]
           made(k) == [id |-> payload[at[k]],
                       value |-> SubSeq(payload, at[k] + 2, at[k] + 1 + payload[at[k] + 1])]
<1>4. PICK objects : objects = ObjectsFrom(payload, 7, n)
  OBVIOUS
<1>5. objects = [k \in 1 .. n |-> made(k)]
  BY <1>4 DEF ObjectsFrom
<1>6. \A k \in 1 .. n : at[k] = start[k - 1]
  <2> SUFFICES ASSUME NEW k \in 1 .. n PROVE at[k] = start[k - 1]
    OBVIOUS
  <2>1. k - 1 \in 0 .. n
    OBVIOUS
  <2> QED BY <1>3, <2>1
<1> HIDE DEF at
<1> DEFINE Place(k, s, m) ==
             /\ s = start[k - 1] /\ m = payload[s + 1] /\ 7 <= s /\ s + 1 <= l
             /\ start[k] = s + 2 + m /\ s + 1 + m <= l
<1>7. ASSUME NEW k \in 1 .. n PROVE \E s \in Nat, m \in Nat : Place(k, s, m)
  <2>1. k - 1 \in 0 .. n /\ k \in 0 .. n
    OBVIOUS
  <2>2. PICK s \in Nat, e \in Nat : s = start[k - 1] /\ e = start[k]
    BY <1>3, <2>1
  <2>3. /\ s + 1 <= l /\ e <= l + 1 /\ payload[s + 1] \in Nat
        /\ e = s + 2 + payload[s + 1]
    BY <1>1, <1>2, <2>2 DEF Places
  <2>4. PICK m \in Nat : m = payload[s + 1] /\ e = s + 2 + m
    BY <2>3
  <2>5. 7 <= s
    BY <1>3, <2>1, <2>2
  <2>6. s + 1 + m <= l
    <3>1. e <= l + 1 /\ e = s + 2 + m
      BY <2>3, <2>4
    <3> QED BY <3>1
  <2>7. s + 1 <= l
    BY <2>3
  <2> QED BY <2>2, <2>4, <2>5, <2>6, <2>7
<1> HIDE DEF Place
<1>8. ASSUME NEW k \in 1 .. n, NEW s \in Nat, NEW m \in Nat, Place(k, s, m)
      PROVE  /\ objects[k] = [id |-> payload[s], value |-> SubSeq(payload, s + 2, s + 1 + m)]
             /\ payload[s] \in Byte
             /\ SubSeq(payload, s + 2, s + 1 + m) \in Seq(Byte)
             /\ IsMiddle(SubSeq(payload, s + 2, s + 1 + m), payload, s + 2, s + 1 + m)
  <2>1. s = start[k - 1] /\ m = payload[s + 1] /\ 7 <= s /\ s + 1 <= l /\ s + 1 + m <= l
    BY <1>8 DEF Place
  <2>2. at[k] = s
    BY <1>6, <2>1
  <2>3. objects[k] = made(k)
    BY <1>5
  <2>4. made(k) = [id |-> payload[s], value |-> SubSeq(payload, s + 2, s + 1 + m)]
    BY <2>1, <2>2
  <2>5. s \in 1 .. Len(payload)
    BY <1>1, <2>1, SMTT(40)
  <2>6. 1 <= s + 2 /\ s + 2 <= (s + 1 + m) + 1 /\ s + 1 + m <= Len(payload)
        /\ s + 2 \in Nat /\ s + 1 + m \in Nat
    <3>1. 7 <= s /\ s + 1 + m <= Len(payload)
      BY <1>1, <2>1
    <3>2. 1 <= s + 2 /\ s + 2 <= (s + 1 + m) + 1 /\ s + 2 \in Nat /\ s + 1 + m \in Nat
      OBVIOUS
    <3> QED BY <3>1, <3>2
  <2>7. /\ SubSeq(payload, s + 2, s + 1 + m) \in Seq(Byte)
        /\ IsMiddle(SubSeq(payload, s + 2, s + 1 + m), payload, s + 2, s + 1 + m)
    BY <2>6, MiddleFacts
  <2>8. payload[s] \in Byte
    BY <2>5, SeqElement
  <2> QED BY <2>3, <2>4, <2>7, <2>8
<1> HIDE DEF made
<1>9. objects \in Seq(Objects) /\ Len(objects) = n
  <2>1. ASSUME NEW k \in 1 .. n PROVE objects[k] \in Objects
    <3>1. PICK s \in Nat, m \in Nat : Place(k, s, m)
      BY <1>7
    <3>2. PICK v \in Seq(Byte), b \in Byte : objects[k] = [id |-> b, value |-> v]
      BY <1>8, <3>1
    <3>3. k \in DOMAIN objects
      BY <1>5
    <3>4. Len(objects[k].value) <= 244
      BY <1>4, <3>3
    <3> QED BY <3>2, <3>4 DEF Objects
  <2>2. objects = [k \in 1 .. n |-> objects[k]]
    BY <1>5
  <2>3. objects \in [1 .. n -> Objects]
    BY <2>1, <2>2
  <2> QED BY <2>3, FunctionIsSeq
<1>10. PICK parts \in Seq(Seq(Byte)) : parts = ObjectBytes(objects) /\ Len(parts) = n
  BY <1>9, ObjectBytesFacts
<1>11. PICK f : Flattens(f, parts)
  BY FlattenSteps
<1>12. /\ f[0] = <<>> /\ f[n] = FlattenSeq(parts)
       /\ \A k \in 1 .. n : f[k] = f[k - 1] \o parts[k]
  BY <1>10, <1>11 DEF Flattens
<1>13. ASSUME NEW k \in 1 .. n, NEW s \in Nat, NEW m \in Nat, Place(k, s, m)
       PROVE  parts[k] = SubSeq(payload, s, s + 1 + m)
  <2>1. s = start[k - 1] /\ m = payload[s + 1] /\ 7 <= s /\ s + 1 <= l /\ s + 1 + m <= l
    BY <1>13 DEF Place
  <2>2. PICK o \in Objects : o = objects[k] /\ parts[k] = EncodeObject(o)
    BY <1>9, <1>10, ObjectBytesFacts
  <2>3. PICK v \in Seq(Byte) : v = SubSeq(payload, s + 2, s + 1 + m)
    BY <1>8, <1>13
  <2>4. o.id = payload[s] /\ o.value = v
    <3>1. objects[k] = [id |-> payload[s], value |-> SubSeq(payload, s + 2, s + 1 + m)]
      BY <1>8, <1>13
    <3> QED BY <2>2, <2>3, <3>1
  <2>5. Len(v) = m /\ \A i \in 1 .. m : v[i] = payload[s + 1 + i]
    <3>1. IsMiddle(v, payload, s + 2, s + 1 + m)
      BY <1>8, <1>13, <2>3
    <3>2. (s + 1 + m) + 1 - (s + 2) = m /\ (s + 2) - 1 = s + 1
      OBVIOUS
    <3> QED BY <3>1, <3>2 DEF IsMiddle
  <2>6. PICK b \in Seq(Byte) : b = EncodeObject(o)
    BY ObjectFacts
  <2>7. /\ Len(b) = 2 + m /\ b[1] = payload[s] /\ b[2] = m
        /\ \A j \in 1 .. m : b[2 + j] = v[j]
    BY <2>4, <2>5, <2>6, ObjectFacts
  <2>8. PICK c \in Seq(Byte) :
           c = SubSeq(payload, s, s + 1 + m) /\ IsMiddle(c, payload, s, s + 1 + m)
    <3>1. /\ 1 <= s /\ s <= (s + 1 + m) + 1 /\ s + 1 + m <= Len(payload)
          /\ s + 1 + m \in Nat
      <4>1. 7 <= s
        BY <2>1
      <4>2. 1 <= s /\ s <= (s + 1 + m) + 1 /\ s + 1 + m \in Nat
        BY <4>1
      <4>3. s + 1 + m <= Len(payload)
        BY <1>1, <2>1
      <4> QED BY <4>2, <4>3
    <3> QED BY <3>1, MiddleFacts
  <2>9. Len(c) = 2 + m /\ \A i \in 1 .. 2 + m : c[i] = payload[(s - 1) + i]
    <3>1. (s + 1 + m) + 1 - s = 2 + m
      OBVIOUS
    <3> QED BY <2>8, <3>1 DEF IsMiddle
  <2>10. ASSUME NEW i \in 1 .. 2 + m PROVE b[i] = c[i]
    <3>1. CASE i = 1
      <4>1. (s - 1) + 1 = s
        OBVIOUS
      <4> QED BY <2>7, <2>9, <3>1, <4>1
    <3>2. CASE i = 2
      <4>1. (s - 1) + 2 = s + 1
        OBVIOUS
      <4> QED BY <2>1, <2>7, <2>9, <3>2, <4>1
    <3>3. CASE i # 1 /\ i # 2
      <4>1. PICK j \in 1 .. m : i = 2 + j /\ (s - 1) + i = s + 1 + j
        <5>1. i - 2 \in 1 .. m
          BY <3>3
        <5> QED BY <5>1
      <4>2. b[i] = payload[s + 1 + j]
        BY <2>5, <2>7, <4>1
      <4> QED BY <2>9, <4>1, <4>2
    <3> QED BY <3>1, <3>2, <3>3
  <2>11. b = c
    BY <2>7, <2>9, <2>10, SeqEqual
  <2> QED BY <2>2, <2>6, <2>8, <2>11
<1> DEFINE h == [k \in 0 .. n |-> SubSeq(payload, 7, start[k] - 1)]
<1>14. \A k \in 0 .. n : h[k] = SubSeq(payload, 7, start[k] - 1)
  OBVIOUS
<1> HIDE DEF h
<1>15. f[0] = h[0]
  <2>1. h[0] = SubSeq(payload, 7, 6)
    <3>1. 0 \in 0 .. n /\ 7 - 1 = 6
      OBVIOUS
    <3> QED BY <1>3, <1>14, <3>1
  <2>2. SubSeq(payload, 7, 6) = <<>>
    BY SubSeqEmpty
  <2> QED BY <1>12, <2>1, <2>2
<1>16. KeepsEqual(f, h, n)
  <2> SUFFICES ASSUME NEW k \in 1 .. n, f[k - 1] = h[k - 1] PROVE f[k] = h[k]
    BY DEF KeepsEqual
  <2>1. PICK s \in Nat, m \in Nat : Place(k, s, m)
    BY <1>7
  <2>2. s = start[k - 1] /\ start[k] = s + 2 + m /\ 7 <= s /\ s + 1 + m <= l
    BY <2>1 DEF Place
  <2>3. k - 1 \in 0 .. n /\ k \in 0 .. n
    OBVIOUS
  <2>4. h[k - 1] = SubSeq(payload, 7, s - 1) /\ h[k] = SubSeq(payload, 7, (s + 2 + m) - 1)
    BY <1>14, <2>2, <2>3
  <2>5. parts[k] = SubSeq(payload, s, s + 1 + m)
    BY <1>13, <2>1
  <2>6. PICK p \in Nat, e \in Nat :
           /\ p = s - 1 /\ p + 1 = s /\ e = s + 1 + m /\ e = (s + 2 + m) - 1
           /\ 7 <= p + 1 /\ p <= e
    <3>1. 7 <= s
      BY <2>2
    <3>2. /\ s - 1 \in Nat /\ (s - 1) + 1 = s /\ s + 1 + m \in Nat
          /\ s + 1 + m = (s + 2 + m) - 1 /\ s - 1 <= s + 1 + m
      BY <3>1
    <3> QED BY <3>1, <3>2
  <2>7. e <= Len(payload)
    BY <1>1, <2>2, <2>6
  <2>8. SubSeq(payload, 7, p) \o SubSeq(payload, p + 1, e) = SubSeq(payload, 7, e)
    <3>1. 7 \in Nat /\ 1 <= 7
      OBVIOUS
    <3> QED BY <2>6, <2>7, <3>1, Adjacent
  <2> QED BY <1>12, <2>4, <2>5, <2>6, <2>8
<1>17. n \in 0 .. n
  OBVIOUS
<1>18. f[n] = h[n]
  BY <1>15, <1>16, <1>17, SameSteps
<1>19. h[n] = From(payload, 7)
  <2>1. (l + 1) - 1 = l
    OBVIOUS
  <2> QED BY <1>1, <1>3, <1>14, <1>17, <2>1 DEF From
<1> QED BY <1>4, <1>9, <1>10, <1>12, <1>18, <1>19 DEF ObjectsSay

\* A response that is parsed, and the bytes of its PDU after the function code.
ReportsBytes(q, payload, r) ==
    /\ r.kind = "normal" /\ r.fc = q.fc
    /\ q.fc \in {1, 2} =>
          /\ r.values \in Seq({0, 1}) /\ Len(r.values) = q.fields[2]
          /\ \A i \in 1 .. Len(r.values) :
                r.values[i] = Bit(payload[2 + (i - 1) \div 8], ((i - 1) % 8) + 1)
    /\ q.fc \notin {1, 2} => EncodeResponse(r) = <<q.fc>> \o payload
    /\ q.fc = 23 => Len(r.values) = q.fields[2]
    /\ q.fc = 43 => r.fields[1] = q.fields[1]

\* An accepted read of bits says what the bytes say.
LEMMA BitsReported ==
    ASSUME NEW q, Valid(q), q.fc \in {1, 2}, NEW payload \in Seq(Byte), Accepted(q, payload)
    PROVE  ReportsBytes(q, payload, ParsedResponse(q, payload))
<1>1. /\ q.fc \in ReadBits /\ q.fc \notin ReadRegisters
      /\ q.fc \notin ReadRegisters \cup {ReadWriteMultipleRegisters}
      /\ q.fc # ReadWriteMultipleRegisters
      /\ q.fc # WriteSingleCoil /\ q.fc # EncapsulatedInterface
      /\ q.fc # MaskWriteRegister
  BY CodeNumbers
<1>2. CountsRest(payload, 1) /\ payload[1] >= BytesFor(q.fields[2])
  BY <1>1 DEF Accepted
<1>3. PICK n \in Nat : n = q.fields[2]
  BY ReadCount
<1>4. PICK l \in Nat : l = Len(payload) /\ 1 <= l /\ payload[1] = l - 1
  BY <1>2, LenProperties DEF CountsRest
<1>5. payload # <<>>
  BY <1>4, EmptySeq
<1>6. PICK rest \in Seq(Byte) :
         /\ rest = Tail(payload) /\ Len(rest) = l - 1
         /\ \A i \in 1 .. Len(rest) : rest[i] = payload[i + 1]
  <2>1. /\ Tail(payload) \in Seq(Byte) /\ Len(payload) = 1 + Len(Tail(payload))
        /\ Len(Tail(payload)) \in Nat
        /\ \A i \in 1 .. Len(Tail(payload)) : Tail(payload)[i] = payload[i + 1]
    BY <1>5, FirstAndRest
  <2>2. Len(Tail(payload)) = l - 1
    BY <1>4, <2>1
  <2> QED BY <2>1, <2>2
<1>7. PICK k \in Nat : k = BytesFor(n)
  BY BytesForFacts
<1>8. k <= l - 1 /\ Len(rest) >= BytesFor(n)
  BY <1>2, <1>3, <1>4, <1>6, <1>7
<1>9. PICK values : values = unpack_bits(rest, n)
  OBVIOUS
<1>10. /\ values \in Seq({0, 1}) /\ Len(values) = n
       /\ \A i \in 1 .. n : values[i] = Bit(rest[(i - 1) \div 8 + 1], ((i - 1) % 8) + 1)
  BY <1>8, <1>9, UnpackBitsFacts
<1>11. ASSUME NEW i \in 1 .. n PROVE rest[(i - 1) \div 8 + 1] = payload[2 + (i - 1) \div 8]
  <2>1. (i - 1) \div 8 + 1 \in 1 .. k
    BY <1>7, BytesForFacts
  <2>2. PICK j \in Nat : j = (i - 1) \div 8 /\ j + 1 \in 1 .. k
    BY <2>1
  <2>3. j + 1 \in 1 .. Len(rest)
    BY <1>6, <1>8, <2>2
  <2>4. rest[j + 1] = payload[(j + 1) + 1] /\ (j + 1) + 1 = 2 + j
    BY <1>6, <2>3
  <2> QED BY <2>2, <2>4
<1>12. ParsedResponse(q, payload) = Normal(q.fc, <<>>, values)
  BY <1>1, <1>3, <1>6, <1>9 DEF ParsedResponse
<1>13. \A i \in 1 .. Len(values) :
          values[i] = Bit(payload[2 + (i - 1) \div 8], ((i - 1) % 8) + 1)
  BY <1>10, <1>11
<1> QED BY <1>3, <1>10, <1>12, <1>13 DEF ReportsBytes, Normal, Response

\* An accepted read of registers.
LEMMA RegistersReported ==
    ASSUME NEW q, Valid(q), q.fc \in {3, 4, 23},
           NEW payload \in Seq(Byte), Accepted(q, payload)
    PROVE  ReportsBytes(q, payload, ParsedResponse(q, payload))
<1>1. /\ q.fc \notin ReadBits
      /\ q.fc \in ReadRegisters \/ q.fc = ReadWriteMultipleRegisters
      /\ q.fc = ReadWriteMultipleRegisters <=> q.fc = 23
      /\ q.fc \notin ReadRegisters <=> q.fc = 23
      /\ q.fc \in ReadRegisters \cup {ReadWriteMultipleRegisters}
      /\ q.fc # WriteSingleCoil /\ q.fc # EncapsulatedInterface
      /\ q.fc # MaskWriteRegister
  BY CodeNumbers
<1>2. /\ CountsRest(payload, 1) /\ payload[1] % 2 = 0
      /\ q.fc = 23 => q.fields[2] = payload[1] \div 2
  BY <1>1 DEF Accepted, Counted
<1>3. PICK l \in Nat : l = Len(payload) /\ 1 <= l /\ payload[1] = l - 1
  BY <1>2, LenProperties DEF CountsRest
<1>4. payload # <<>>
  BY <1>3, EmptySeq
<1>5. PICK rest \in Seq(Byte) :
         /\ rest = Tail(payload) /\ payload = <<Head(payload)>> \o rest
         /\ Head(payload) = payload[1]
  BY <1>4, FirstAndRest
<1>6. PICK k \in Nat : k = Len(rest) /\ l = 1 + k
  BY <1>3, <1>4, <1>5, FirstAndRest
<1>7. payload[1] = k /\ k % 2 = 0 /\ (q.fc = 23 => q.fields[2] = k \div 2)
  BY <1>2, <1>3, <1>6
<1>8. k <= 255
  <2>1. 1 \in 1 .. Len(payload)
    BY <1>3
  <2>2. payload[1] <= 255
    BY <2>1, SeqElement, ByteIsNat
  <2> QED BY <1>7, <2>2
<1>9. PICK words \in Seq(Word) : words = UnpackWords(rest) /\ Len(words) = k \div 2
  BY <1>6, UnpackWordsFacts
<1>10. PackWords(words) = rest
  BY <1>6, <1>7, <1>9, PackUnpackedWords
<1>11. ParsedResponse(q, payload) = Normal(q.fc, <<>>, words)
  BY <1>1, <1>5, <1>9 DEF ParsedResponse
<1>12. EncodeResponse(Normal(q.fc, <<>>, words)) = <<q.fc, Len(rest)>> \o rest
  BY <1>1, <1>10 DEF EncodeResponse, Normal, Response
<1>13. CountedBody(q.fc, rest, <<Len(rest)>> \o rest)
  <2>1. q.fc \in Byte /\ Len(rest) <= 255
    BY <1>6, <1>8 DEF Byte
  <2> QED BY <2>1, CountedBodyFacts
<1>14. <<Len(rest)>> \o rest = payload
  BY <1>5, <1>6, <1>7
<1>15. <<q.fc, Len(rest)>> \o rest = <<q.fc>> \o payload
  BY <1>13, <1>14 DEF CountedBody
<1>16. q.fc = 23 => Len(words) = q.fields[2]
  BY <1>7, <1>9
<1>17. q.fc \notin {1, 2} /\ q.fc # 43
  OBVIOUS
<1>18. PICK r : r = Normal(q.fc, <<>>, words)
  OBVIOUS
<1>19. r.kind = "normal" /\ r.fc = q.fc /\ r.values = words
  BY <1>18 DEF Normal, Response
<1>20. EncodeResponse(r) = <<q.fc>> \o payload
  BY <1>12, <1>15, <1>18
<1>21. ReportsBytes(q, payload, r)
  BY <1>16, <1>17, <1>19, <1>20 DEF ReportsBytes
<1> QED BY <1>11, <1>18, <1>21

\* An accepted echo.
LEMMA EchoReported ==
    ASSUME NEW q, Valid(q), q.fc \in {6, 15, 16, 22},
           NEW payload \in Seq(Byte), Accepted(q, payload)
    PROVE  ReportsBytes(q, payload, ParsedResponse(q, payload))
<1>1. /\ q.fc \notin ReadBits /\ q.fc \notin ReadRegisters
      /\ q.fc \notin ReadRegisters \cup {ReadWriteMultipleRegisters}
      /\ q.fc # ReadWriteMultipleRegisters
      /\ q.fc # WriteSingleCoil /\ q.fc # EncapsulatedInterface
      /\ q.fc = MaskWriteRegister <=> q.fc = 22
  BY CodeNumbers
<1>2. Len(payload) = IF q.fc = 22 THEN 6 ELSE 4
  BY <1>1 DEF Accepted
<1>3. Len(payload) % 2 = 0
  BY <1>2
<1>4. PICK words : words = UnpackWords(payload) /\ PackWords(words) = payload
  BY <1>3, PackUnpackedWords
<1>5. ParsedResponse(q, payload) = Normal(q.fc, words, <<>>)
  BY <1>1, <1>4 DEF ParsedResponse
<1>6. EncodeResponse(Normal(q.fc, words, <<>>)) = <<q.fc>> \o payload
  BY <1>1, <1>4 DEF EncodeResponse, Normal, Response
<1>7. q.fc \notin {1, 2} /\ q.fc # 43 /\ q.fc # 23
  OBVIOUS
<1> QED BY <1>5, <1>6, <1>7 DEF ReportsBytes, Normal, Response

\* An accepted write of a coil.
LEMMA CoilReported ==
    ASSUME NEW q, Valid(q), q.fc = 5, NEW payload \in Seq(Byte), Accepted(q, payload)
    PROVE  ReportsBytes(q, payload, ParsedResponse(q, payload))
<1>1. Len(payload) = 4 /\ UnpackWords(payload)[2] \in {COIL_ON, COIL_OFF}
  BY CodeNumbers DEF Accepted
<1>2. PICK words \in Seq(Word) :
         words = UnpackWords(payload) /\ PackWords(words) = payload /\ Len(words) = 2
  <2>1. Len(payload) % 2 = 0 /\ Len(payload) \div 2 = 2
    BY <1>1
  <2> QED BY <2>1, UnpackWordsFacts, PackUnpackedWords, ZenonT(60)
<1>3. PICK bit : bit = (IF words[2] = COIL_ON THEN 1 ELSE 0) /\ CoilWord(bit) = words[2]
  BY <1>1, <1>2 DEF CoilWord, COIL_ON, COIL_OFF
<1>4. ParsedResponse(q, payload) = Normal(5, <<words[1]>>, <<bit>>)
  BY <1>2, <1>3, CodeNumbers DEF ParsedResponse
<1>5. <<words[1]>> \o <<words[2]>> = words
  BY <1>2, TwoElements
<1>6. EncodeResponse(Normal(5, <<words[1]>>, <<bit>>)) = <<5>> \o payload
  <2>1. EncodeResponse(Normal(5, <<words[1]>>, <<bit>>))
          = <<5>> \o PackWords(<<words[1]>> \o <<CoilWord(bit)>>)
    BY CodeNumbers DEF EncodeResponse, Normal, Response
  <2> QED BY <1>2, <1>3, <1>5, <2>1
<1> QED BY <1>4, <1>6, SMTT(30) DEF ReportsBytes, Normal, Response

\* An accepted page of a device identification.
LEMMA PageReported ==
    ASSUME NEW q, Valid(q), q.fc = 43, NEW payload \in Seq(Byte), Accepted(q, payload)
    PROVE  ReportsBytes(q, payload, ParsedResponse(q, payload))
<1>1. /\ q.fc \notin ReadBits /\ q.fc \notin ReadRegisters
      /\ q.fc \notin ReadRegisters \cup {ReadWriteMultipleRegisters}
      /\ q.fc # ReadWriteMultipleRegisters /\ q.fc = EncapsulatedInterface
      /\ q.fc # WriteSingleCoil /\ q.fc # MaskWriteRegister
  BY CodeNumbers
<1>2. /\ Len(payload) >= 6 /\ payload[1] = 14 /\ payload[2] = q.fields[1]
      /\ payload[4] \in {0, 255}
      /\ ObjectStart(payload, 7, payload[6]) = Len(payload) + 1
      /\ \A i \in DOMAIN ObjectsFrom(payload, 7, payload[6]) :
            Len(ObjectsFrom(payload, 7, payload[6])[i].value) <= 244
  BY <1>1 DEF Accepted, READ_DEVICE_IDENTIFICATION_MEI_TYPE
<1>3. PICK l \in Nat : l = Len(payload) /\ 6 <= l
  BY <1>2, LenProperties
<1>4. \A i \in 1 .. 6 : payload[i] \in Byte
  <2>1. \A i \in 1 .. 6 : i \in 1 .. Len(payload)
    BY <1>3
  <2> QED BY <2>1, SeqElement
<1>5. PICK p1 \in Byte, p2 \in Byte, p3 \in Byte, p4 \in Byte, p5 \in Byte, n \in Byte :
         /\ p1 = payload[1] /\ p2 = payload[2] /\ p3 = payload[3]
         /\ p4 = payload[4] /\ p5 = payload[5] /\ n = payload[6]
  BY <1>4
<1>6. n \in Nat
  BY ByteIsNat
<1>7. ObjectsSay(payload, n)
  BY <1>2, <1>3, <1>5, <1>6, ObjectsAreExact
<1>8. PICK objects \in Seq(Objects) :
         /\ objects = ObjectsFrom(payload, 7, n) /\ Len(objects) = n
         /\ FlattenSeq(ObjectBytes(objects)) = From(payload, 7)
  BY <1>7 DEF ObjectsSay
<1>9. PICK r : r = Normal(43, <<p2, p3, p4 \div 255, p5>>, objects)
  OBVIOUS
<1>10. ParsedResponse(q, payload) = r
  BY <1>1, <1>5, <1>8, <1>9 DEF ParsedResponse
<1>11. /\ r.kind = "normal" /\ r.fc = 43 /\ r.values = objects
       /\ r.fields[1] = p2 /\ r.fields[2] = p3 /\ r.fields[3] = p4 \div 255
       /\ r.fields[4] = p5
  BY <1>9 DEF Normal, Response
<1>12. (IF p4 \div 255 = 1 THEN 255 ELSE 0) = p4
  BY <1>2, <1>5
<1>13. 43 \in Byte /\ From(payload, 7) \in Seq(Byte)
  <2>1. 7 \in 1 .. Len(payload) + 1
    BY <1>3
  <2> QED BY <2>1, FromFacts DEF Byte
<1>14. PICK rest \in Seq(Byte), c43 \in Byte : rest = From(payload, 7) /\ c43 = 43
  BY <1>13
<1>15. EncodeResponse(r) = <<c43, p1, p2, p3, p4, p5, n>> \o rest
  <2>1. EncodeResponse(r)
          = <<r.fc, READ_DEVICE_IDENTIFICATION_MEI_TYPE, r.fields[1], r.fields[2],
              IF r.fields[3] = 1 THEN 255 ELSE 0, r.fields[4], Len(r.values)>>
            \o FlattenSeq([i \in DOMAIN r.values |-> EncodeObject(r.values[i])])
    <3>1. r.fc = EncapsulatedInterface /\ r.fc = q.fc
      BY <1>11, CodeNumbers
    <3> QED BY <1>1, <1>11, <3>1 DEF EncodeResponse
  <2>2. [i \in DOMAIN r.values |-> EncodeObject(r.values[i])] = ObjectBytes(objects)
    BY <1>11 DEF ObjectBytes
  <2>3. READ_DEVICE_IDENTIFICATION_MEI_TYPE = p1
    BY <1>2, <1>5 DEF READ_DEVICE_IDENTIFICATION_MEI_TYPE
  <2> QED BY <1>8, <1>11, <1>12, <1>14, <2>1, <2>2, <2>3, ZenonT(60)
<1>16. PICK head : /\ head = <<p1, p2, p3, p4, p5, n>>
                   /\ AfterSix(<<c43, p1, p2, p3, p4, p5, n>>, rest, head)
  <2>1. AfterSix(<<c43, p1, p2, p3, p4, p5, n>>, rest, <<p1, p2, p3, p4, p5, n>>)
    BY SixBefore
  <2> QED BY <2>1
<1>17. /\ head \in Seq(Byte) /\ Len(head) = 6
       /\ <<c43, p1, p2, p3, p4, p5, n>> \o rest = <<c43>> \o (head \o rest)
  BY <1>16 DEF AfterSix
<1>18. head = SubSeq(payload, 1, 6)
  <2>1. 6 \in 0 .. Len(payload)
    BY <1>3
  <2>2. /\ SubSeq(payload, 1, 6) \in Seq(Byte) /\ Len(SubSeq(payload, 1, 6)) = 6
        /\ \A k \in 1 .. 6 : SubSeq(payload, 1, 6)[k] = payload[k]
    BY <2>1, PrefixFacts
  <2>3. \A k \in 1 .. 6 : head[k] = payload[k]
    BY <1>5, <1>16
  <2>4. \A k \in 1 .. 6 : head[k] = SubSeq(payload, 1, 6)[k]
    BY <2>2, <2>3
  <2> QED BY <1>17, <2>2, <2>4, SeqEqual
<1>19. head \o rest = payload
  <2>1. 6 \in 0 .. Len(payload) /\ 6 + 1 = 7
    BY <1>3
  <2>2. payload = SubSeq(payload, 1, 6) \o From(payload, 6 + 1)
    BY <2>1, Split
  <2> QED BY <1>14, <1>18, <2>1, <2>2
<1>20. EncodeResponse(r) = <<43>> \o payload
  BY <1>14, <1>15, <1>17, <1>19
<1>21. q.fc \notin {1, 2} /\ q.fc # 23
  OBVIOUS
<1>22. ReportsBytes(q, payload, r)
  BY <1>2, <1>5, <1>11, <1>20, <1>21 DEF ReportsBytes
<1> QED BY <1>10, <1>22

\* Whatever bytes a response is accepted from, it says what they say.
LEMMA AcceptedIsExact ==
    ASSUME NEW q, Valid(q), NEW payload \in Seq(Byte), Accepted(q, payload)
    PROVE  ReportsBytes(q, payload, ParsedResponse(q, payload))
<1>1. q.fc \in Codes
  BY ValidFacts, CodeNumbers DEF Codes
<1> QED BY <1>1, BitsReported, RegistersReported, EchoReported, CoilReported, PageReported
        DEF Codes

\* The values of a valid write of coils are bits.
LEMMA CoilValues ==
    ASSUME NEW q, Valid(q), q.fc = 15
    PROVE  q.values \in Seq({0, 1})
<1>1. q.values \in Seq(Word)
  BY ValidFacts
<1>2. DOMAIN q.values = 1 .. Len(q.values)
  BY <1>1, LenProperties
<1>3. AreBools(q.values)
  BY CodeNumbers DEF Valid, PostInit
<1>4. \A i \in 1 .. Len(q.values) : q.values[i] \in {0, 1}
  BY <1>2, <1>3 DEF AreBools
<1> QED BY <1>1, <1>4, Retyped

\* The function code, the address and the count are the first five bytes.
LEMMA FirstFive ==
    ASSUME NEW fc \in Nat, NEW b \in Seq(Nat), Len(b) = 4, NEW k \in Nat, NEW rest \in Seq(Nat)
    PROVE  SubSeq(<<fc>> \o ((b \o <<k>>) \o rest), 1, 5) = <<fc>> \o b
<1>1. PICK t \in Seq(Nat) : (b \o <<k>>) \o rest = b \o t
  <2>1. (b \o <<k>>) \o rest = b \o (<<k>> \o rest) /\ <<k>> \o rest \in Seq(Nat)
    BY Around
  <2> QED BY <2>1
<1>2. <<fc>> \in Seq(Nat)
  BY Singleton
<1>3. <<fc>> \o (b \o t) = (<<fc>> \o b) \o t
  BY <1>2, ConcatAssociative
<1>4. PICK s \in Seq(Nat) : s = <<fc>> \o b /\ Len(s) = 1 + Len(b)
  BY Prepending, ZenonT(60)
<1>5. Len(s) = 5
  BY <1>4
<1>6. SubSeq(s \o t, 1, Len(s)) = s
  BY Parts
<1> QED BY <1>1, <1>3, <1>4, <1>5, <1>6

\* The echo of a write is the beginning of its request.
LEMMA EchoIsBeginning ==
    ASSUME NEW q, Valid(q), NEW payload \in Seq(Byte), Accepted(q, payload),
           Echoes(q, ParsedResponse(q, payload))
    PROVE  /\ q.fc \in {5, 6, 22} => <<q.fc>> \o payload = EncodeRequest(q)
           /\ q.fc \in {15, 16} => <<q.fc>> \o payload = SubSeq(EncodeRequest(q), 1, 5)
<1>1. PICK r : r = ParsedResponse(q, payload)
  OBVIOUS
<1>2. ReportsBytes(q, payload, r)
  BY <1>1, AcceptedIsExact
<1>3. /\ q.by = "standard" /\ q.fields \in Seq(Word) /\ Len(q.fields) = FieldCount(q.fc)
      /\ q.values \in Seq(Word)
  BY ValidFacts DEF Valid
<1>4. /\ r.kind = "normal" /\ r.fc = q.fc
      /\ q.fc \notin {1, 2} => EncodeResponse(r) = <<q.fc>> \o payload
  BY <1>2 DEF ReportsBytes
<1>5. ASSUME q.fc \in {6, 22} PROVE <<q.fc>> \o payload = EncodeRequest(q)
  <2>1. r.fields = q.fields
    BY <1>1, <1>5, CodeNumbers DEF Echoes
  <2>2. /\ q.fc \notin ReadBits /\ q.fc \notin ReadRegisters \cup {ReadWriteMultipleRegisters}
        /\ q.fc # WriteSingleCoil /\ q.fc # EncapsulatedInterface /\ q.fc # WriteMultipleCoils
        /\ q.fc \notin {WriteMultipleRegisters, ReadWriteMultipleRegisters}
    BY <1>5, CodeNumbers
  <2>3. EncodeResponse(r) = <<q.fc>> \o PackWords(q.fields)
    BY <1>4, <2>1, <2>2 DEF EncodeResponse
  <2>4. EncodeRequest(q) = <<q.fc>> \o PackWords(q.fields)
    BY <1>3, <2>2 DEF EncodeRequest
  <2>5. EncodeResponse(r) = <<q.fc>> \o payload
    BY <1>4, <1>5
  <2> QED BY <2>3, <2>4, <2>5
<1>6. ASSUME q.fc = 5 PROVE <<q.fc>> \o payload = EncodeRequest(q)
  <2>1. r.fields = q.fields /\ r.values = q.values
    BY <1>1, <1>6, CodeNumbers DEF Echoes
  <2>2. PICK coil \in Word : coil = CoilWord(q.values[1])
    BY WordIs DEF CoilWord, COIL_ON, COIL_OFF
  <2>3. EncodeResponse(r) = <<q.fc>> \o PackWords(q.fields \o <<coil>>)
    BY <1>4, <1>6, <2>1, <2>2, CodeNumbers DEF EncodeResponse
  <2>4. EncodeRequest(q) = <<q.fc>> \o (PackWords(q.fields) \o PackWords(<<coil>>))
    BY <1>3, <1>6, <2>2, CodeNumbers DEF EncodeRequest
  <2>5. PackWords(q.fields \o <<coil>>) = PackWords(q.fields) \o PackWords(<<coil>>)
    BY <1>3, PackedConcatenation, Singleton
  <2>6. EncodeResponse(r) = <<q.fc>> \o payload
    BY <1>4, <1>6
  <2> QED BY <2>3, <2>4, <2>5, <2>6
<1>7. ASSUME q.fc \in {15, 16} PROVE <<q.fc>> \o payload = SubSeq(EncodeRequest(q), 1, 5)
  <2>1. r.fields = <<q.fields[1], Len(q.values)>>
    BY <1>1, <1>7, CodeNumbers DEF Echoes
  <2>2. PICK n \in Word : n = Len(q.values)
    <3>1. PICK k \in Nat : k = Len(q.values) /\ k <= 1968
      BY <1>7, WrittenCount
    <3>2. k <= 65535
      BY <3>1
    <3> QED BY <3>1, <3>2, SmallNumber
  <2>3. Len(q.fields) = 1
    BY <1>3, <1>7, CodeNumbers DEF FieldCount
  <2>4. q.fields[1] \in Word /\ <<q.fields[1]>> = q.fields
    BY <1>3, <2>3, SeqElement, OnlyElement
  <2>5. r.fields = q.fields \o <<n>>
    <3>1. <<q.fields[1]>> \o <<n>> = <<q.fields[1], n>>
      BY <2>4, PairSplit
    <3> QED BY <2>1, <2>2, <2>4, <3>1
  <2>6. PICK b \in Seq(Byte) : b = PackWords(q.fields) \o PackWords(<<n>>) /\ Len(b) = 4
    <3>1. PackWords(q.fields) \in Seq(Byte) /\ Len(PackWords(q.fields)) = 2
      BY <1>3, <2>3, PackedLength
    <3>2. PackWords(<<n>>) \in Seq(Byte) /\ Len(PackWords(<<n>>)) = 2
      BY PackedLength, Singleton
    <3>3. PICK x \in Seq(Byte), y \in Seq(Byte) :
             x = PackWords(q.fields) /\ y = PackWords(<<n>>) /\ Len(x) = 2 /\ Len(y) = 2
      BY <3>1, <3>2
    <3>4. x \o y \in Seq(Byte) /\ Len(x \o y) = Len(x) + Len(y)
      BY Concatenation
    <3>5. Len(x \o y) = 4
      BY <3>3, <3>4
    <3> QED BY <3>3, <3>4, <3>5
  <2>7. EncodeResponse(r) = <<q.fc>> \o b
    <3>1. /\ q.fc \notin ReadBits
          /\ q.fc \notin ReadRegisters \cup {ReadWriteMultipleRegisters}
          /\ q.fc # WriteSingleCoil /\ q.fc # EncapsulatedInterface
      BY <1>7, CodeNumbers
    <3>2. EncodeResponse(r) = <<q.fc>> \o PackWords(r.fields)
      BY <1>4, <3>1 DEF EncodeResponse
    <3>3. PackWords(q.fields \o <<n>>) = b
      BY <1>3, <2>6, PackedConcatenation, Singleton
    <3> QED BY <2>5, <3>2, <3>3
  <2>8. PICK rest \in Seq(Byte) : EncodeRequest(q) = <<q.fc>> \o ((b \o <<Len(rest)>>) \o rest)
    <3>1. CASE q.fc = 15
      <4>1. pack_bits(q.values) \in Seq(Byte)
        BY <3>1, CoilValues, PackBitsFacts
      <4>2. EncodeRequest(q)
              = <<q.fc>> \o ((b \o <<Len(pack_bits(q.values))>>) \o pack_bits(q.values))
        <5>1. /\ q.by = "standard" /\ q.fc # WriteSingleCoil /\ q.fc = WriteMultipleCoils
              /\ q.fc \notin {WriteMultipleRegisters, ReadWriteMultipleRegisters}
              /\ q.fc # EncapsulatedInterface
          BY <1>3, <3>1, CodeNumbers
        <5>2. b = PackWords(q.fields) \o PackWords(<<Len(q.values)>>)
          BY <2>2, <2>6
        <5> QED BY <5>1, <5>2 DEF EncodeRequest
      <4> QED BY <4>1, <4>2
    <3>2. CASE q.fc = 16
      <4>1. PackWords(q.values) \in Seq(Byte)
        BY <1>3, PackWordsFacts
      <4>2. EncodeRequest(q)
              = <<q.fc>> \o ((b \o <<Len(PackWords(q.values))>>) \o PackWords(q.values))
        <5>1. /\ q.by = "standard" /\ q.fc # WriteSingleCoil /\ q.fc # WriteMultipleCoils
              /\ q.fc \in {WriteMultipleRegisters, ReadWriteMultipleRegisters}
              /\ q.fc # EncapsulatedInterface
          BY <1>3, <3>2, CodeNumbers
        <5>2. b = PackWords(q.fields) \o PackWords(<<Len(q.values)>>)
          BY <2>2, <2>6
        <5> QED BY <5>1, <5>2 DEF EncodeRequest
      <4> QED BY <4>1, <4>2
    <3> QED BY <1>7, <3>1, <3>2
  <2>9. SubSeq(<<q.fc>> \o ((b \o <<Len(rest)>>) \o rest), 1, 5) = <<q.fc>> \o b
    <3>1. q.fc \in Nat /\ b \in Seq(Nat) /\ rest \in Seq(Nat) /\ Len(rest) \in Nat
      BY <1>7, BytesAreNats, LenProperties
    <3>2. Len(b) = 4
      BY <2>6
    <3> QED BY <3>1, <3>2, FirstFive
  <2>10. EncodeResponse(r) = <<q.fc>> \o payload
    BY <1>4, <1>7
  <2> QED BY <2>7, <2>8, <2>9, <2>10
<1> QED BY <1>5, <1>6, <1>7

=============================================================================
