----------------------- MODULE MemoryDataStoreProofs -----------------------
(***************************************************************************)
(* Proofs about MemoryDataStore, for every layout and every argument.      *)
(*                                                                         *)
(* The argument: the validation compares neighbours of the index only, but *)
(* the index is sorted by start address, so no two of its blocks overlap   *)
(* and each ends before the next one starts.  That ordering (IndexOrdered) *)
(* is what makes bisection look at the right block, and nothing disturbs   *)
(* it after construction because a write keeps the start and the length of *)
(* its block.                                                              *)
(***************************************************************************)
EXTENDS MemoryDataStore, TLAPS, WellFoundedInduction

(***************************************************************************)
(* The strengthening of TypeOK that is inductive.                          *)
(***************************************************************************)
Ordered(tuple, q) ==
    /\ \A i \in NonEmpty(tuple) : \E k \in DOMAIN q : q[k] = i
    /\ \A k, m \in DOMAIN q :
          k < m => EndAddress(tuple[q[k]]) < tuple[q[m]].start_address

IndexOrdered ==
    status = "ready" => \A area \in Area : Ordered(blocks[area], index[area])

IInv == TypeOK /\ IndexOrdered

-----------------------------------------------------------------------------
(***************************************************************************)
(* Bisection.                                                              *)
(***************************************************************************)
\* A set of naturals that is not empty has a least element.
LEMMA LeastNat ==
    ASSUME NEW T, T \subseteq Nat, T # {}
    PROVE  \E x \in T : \A y \in T : x <= y
<1> DEFINE R == {ss \in Nat \X Nat : ss[1] < ss[2]}
<1>1. IsWellFoundedOn(R, Nat)
  BY NatLessThanWellFounded DEF OpToRel
<1>2. PICK x \in T : \A y \in T : ~ (<<y, x>> \in R)
  BY <1>1, WFMin
<1>3. \A y \in T : ~ (y < x)
  BY <1>2
<1> QED BY <1>3

\* On starts in order, bisect_right splits them: those up to the result are
\* at most the address, the others larger (_find_block relies on it).
LEMMA BisectRightSplits ==
    ASSUME NEW starts \in Seq(Int), NEW address \in Int,
           \A j, k \in 1 .. Len(starts) : j < k => starts[j] <= starts[k]
    PROVE  /\ BisectRight(starts, address) \in 0 .. Len(starts)
           /\ \A j \in 1 .. Len(starts) :
                 starts[j] <= address <=> j <= BisectRight(starts, address)
<1> DEFINE Splits(k) == \A j \in 1 .. Len(starts) : starts[j] <= address <=> j <= k
           T == {k \in 0 .. Len(starts) :
                    \A j \in 1 .. Len(starts) : j > k => ~ (starts[j] <= address)}
<1>1. T \subseteq Nat /\ T # {}
  <2>1. Len(starts) \in T
    OBVIOUS
  <2> QED BY <2>1
<1>2. PICK k \in T : \A m \in T : k <= m
  BY <1>1, LeastNat
<1>3. ASSUME NEW j \in 1 .. Len(starts), j <= k
      PROVE  starts[j] <= address
  <2> SUFFICES ASSUME ~ (starts[j] <= address) PROVE FALSE
    OBVIOUS
  <2>1. \A m \in 1 .. Len(starts) : m > j - 1 => ~ (starts[m] <= address)
    <3> TAKE m \in 1 .. Len(starts)
    <3> HAVE m > j - 1
    <3>1. m = j \/ j < m
      OBVIOUS
    <3>2. starts[j] \in Int /\ starts[m] \in Int
      OBVIOUS
    <3> QED BY <3>1, <3>2
  <2>2. j - 1 \in T
    BY <2>1
  <2>3. k <= j - 1
    <3> HIDE DEF T
    <3> QED BY <1>2, <2>2
  <2> QED BY <1>3, <2>3
<1>4. k \in 0 .. Len(starts) /\ Splits(k)
  BY <1>3
<1> QED BY <1>4 DEF BisectRight

-----------------------------------------------------------------------------
(***************************************************************************)
(* Construction.                                                           *)
(***************************************************************************)
\* The tuple is a permutation of the list, in the order of the starts.
LEMMA SortedTupleFacts ==
    ASSUME NEW list \in Seq(Block), NEW tuple \in SortedTuples(list)
    PROVE  /\ tuple \in Seq(Block)
           /\ DOMAIN tuple = DOMAIN list
           /\ \A i, j \in DOMAIN tuple :
                 i < j => tuple[i].start_address <= tuple[j].start_address
           /\ \E p \in [DOMAIN list -> DOMAIN list] :
                 /\ \A i \in DOMAIN list : tuple[i] = list[p[i]]
                 /\ \A i \in DOMAIN list : \E j \in DOMAIN list : p[j] = i
                 /\ \A i, j \in DOMAIN list : p[i] = p[j] => i = j
<1>1. PICK p \in SortOrders(list) : tuple = [i \in DOMAIN list |-> list[p[i]]]
  BY DEF SortedTuples
<1>2. /\ DOMAIN list = 1 .. Len(list)
      /\ Len(list) \in Nat
      /\ \A i \in DOMAIN list : list[i] \in Block
  OBVIOUS
<1>3. /\ p \in [DOMAIN list -> DOMAIN list]
      /\ \A i \in DOMAIN list : \E j \in DOMAIN list : p[j] = i
      /\ \A i, j \in DOMAIN list :
              i < j => \/ list[p[i]].start_address < list[p[j]].start_address
                       \/ /\ list[p[i]].start_address = list[p[j]].start_address
                          /\ p[i] < p[j]
  BY <1>1 DEF SortOrders
<1>4. tuple \in Seq(Block) /\ DOMAIN tuple = DOMAIN list
  BY <1>1, <1>2, <1>3
<1>5. ASSUME NEW i \in DOMAIN list
      PROVE  list[p[i]].start_address \in Int /\ p[i] \in Int
  <2>1. p[i] \in DOMAIN list
    BY <1>3
  <2>2. list[p[i]] \in Block
    BY <1>2, <2>1
  <2> QED BY <1>2, <2>1, <2>2 DEF Block
<1>6. ASSUME NEW i \in DOMAIN tuple, NEW j \in DOMAIN tuple, i < j
      PROVE  tuple[i].start_address <= tuple[j].start_address
  <2>1. tuple[i] = list[p[i]] /\ tuple[j] = list[p[j]]
    BY <1>1, <1>4
  <2>2. /\ list[p[i]].start_address \in Int
        /\ list[p[j]].start_address \in Int
    BY <1>4, <1>5
  <2>3. \/ list[p[i]].start_address < list[p[j]].start_address
        \/ list[p[i]].start_address = list[p[j]].start_address
    BY <1>3, <1>4, <1>6
  <2> QED BY <2>1, <2>2, <2>3
<1>7. \A i, j \in DOMAIN list : p[i] = p[j] => i = j
  <2> TAKE i, j \in DOMAIN list
  <2> HAVE p[i] = p[j]
  <2>1. i \in Int /\ j \in Int
    BY <1>2
  <2>2. /\ list[p[i]].start_address \in Int /\ p[i] \in Int
        /\ list[p[j]].start_address = list[p[i]].start_address
    BY <1>5
  <2>3. ASSUME i < j PROVE FALSE
    <3>1. \/ list[p[i]].start_address < list[p[j]].start_address
          \/ p[i] < p[j]
      BY <1>3, <2>3
    <3> QED BY <3>1, <2>2
  <2>4. ASSUME j < i PROVE FALSE
    <3>1. \/ list[p[j]].start_address < list[p[i]].start_address
          \/ p[j] < p[i]
      BY <1>3, <2>4
    <3> QED BY <3>1, <2>2
  <2> QED BY <2>1, <2>3, <2>4
<1> QED BY <1>1, <1>3, <1>4, <1>6, <1>7

\* The index lists the positions of the blocks that are not empty, each once
\* and in order.
LEMMA IndexFacts ==
    ASSUME NEW tuple \in Seq(Block), NEW q \in IndexBlocks(tuple)
    PROVE  /\ q \in Seq(Nat)
           /\ \A k \in DOMAIN q : q[k] \in NonEmpty(tuple)
           /\ \A i \in NonEmpty(tuple) : \E k \in DOMAIN q : q[k] = i
           /\ \A k, m \in DOMAIN q : k < m => q[k] < q[m]
<1>1. IndexPositions(tuple) = NonEmpty(tuple) /\ NonEmpty(tuple) \subseteq Nat
  BY DEF IndexPositions, NonEmpty
<1>2. PICK n \in 0 .. Len(tuple) : q \in [1 .. n -> NonEmpty(tuple)]
  BY <1>1 DEF IndexBlocks
<1>3. q \in Seq(Nat) /\ \A k \in DOMAIN q : q[k] \in NonEmpty(tuple)
  BY <1>1, <1>2
<1> QED BY <1>1, <1>3 DEF IndexBlocks

\* What a block that is not empty looks like to arithmetic.
LEMMA BlockFacts ==
    ASSUME NEW block \in Block
    PROVE  /\ block.start_address \in Int
           /\ block.values \in Seq(Datum)
           /\ Len(block.values) \in Nat
           /\ EndAddress(block) \in Int
           /\ EndAddress(block) = block.start_address + Len(block.values) - 1
<1>1. block.start_address \in Int /\ block.values \in Seq(Datum)
  BY DEF Block
<1>2. Len(block.values) \in Nat
  BY <1>1
<1> QED BY <1>1, <1>2 DEF EndAddress

\* Neighbours that do not overlap, in an index sorted by start address, leave
\* every pair of indexed blocks in order (_validate_no_overlapping_ranges).
LEMMA NeighboursSuffice ==
    ASSUME NEW list \in Seq(Block), NEW tuple \in SortedTuples(list),
           NEW q \in IndexBlocks(tuple), ~ NeighboursOverlap(tuple, q)
    PROVE  Ordered(tuple, q)
<1>1. /\ tuple \in Seq(Block)
      /\ \A i, j \in DOMAIN tuple :
            i < j => tuple[i].start_address <= tuple[j].start_address
  BY SortedTupleFacts
<1>2. /\ q \in Seq(Nat)
      /\ \A k \in DOMAIN q : q[k] \in NonEmpty(tuple)
      /\ \A i \in NonEmpty(tuple) : \E k \in DOMAIN q : q[k] = i
      /\ \A k, m \in DOMAIN q : k < m => q[k] < q[m]
  BY <1>1, IndexFacts
<1>3. \A i \in DOMAIN tuple : /\ tuple[i].start_address \in Int
                              /\ EndAddress(tuple[i]) \in Int
  BY <1>1, BlockFacts
<1>4. \A k \in DOMAIN q : q[k] \in DOMAIN tuple
  BY <1>2 DEF NonEmpty
<1>5. ASSUME NEW k \in DOMAIN q, NEW m \in DOMAIN q, k < m
      PROVE  EndAddress(tuple[q[k]]) < tuple[q[m]].start_address
  <2>1. k \in 1 .. Len(q) - 1 /\ k + 1 \in DOMAIN q /\ m \in Nat /\ k \in Nat
    BY <1>2, <1>5
  <2>2. EndAddress(tuple[q[k]]) < tuple[q[k + 1]].start_address
    BY <2>1, <1>3, <1>4, SMTT(30) DEF NeighboursOverlap
  <2>3. tuple[q[k + 1]].start_address <= tuple[q[m]].start_address
    <3>1. CASE k + 1 = m
      BY <3>1, <2>1, <1>3, <1>4
    <3>2. CASE k + 1 < m
      BY <3>2, <2>1, <1>1, <1>2, <1>4
    <3> QED BY <3>1, <3>2, <2>1, <1>5
  <2> QED BY <2>1, <2>2, <2>3, <1>3, <1>4
<1> QED BY <1>2, <1>5 DEF Ordered

-----------------------------------------------------------------------------
(***************************************************************************)
(* Lookup.                                                                 *)
(***************************************************************************)
\* One bisection finds the block that holds all of a range whenever some
\* block does, and no other block holds it (_find_block).
LEMMA FindBlockExact ==
    ASSUME TypeOK, NEW area \in Area, Ordered(blocks[area], index[area]),
           NEW address \in Int, NEW count \in Int
    PROVE  LET found == FindBlock(area, address, count)
           IN  /\ found = NoBlock =>
                     \A i \in DOMAIN blocks[area] :
                        ~ Contains(blocks[area][i], address, count)
               /\ found # NoBlock =>
                     /\ found \in DOMAIN blocks[area]
                     /\ \A i \in DOMAIN blocks[area] :
                           Contains(blocks[area][i], address, count) <=> i = found
<1> DEFINE tuple == blocks[area]
           q == index[area]
           starts == [k \in DOMAIN q |-> tuple[q[k]].start_address]
           pos == BisectRight(starts, address)
           found == FindBlock(area, address, count)
<1>1. /\ tuple \in Seq(Block) /\ q \in Seq(Nat)
      /\ \A k \in DOMAIN q : q[k] \in NonEmpty(tuple)
  BY DEF TypeOK
<1>2. /\ \A i \in NonEmpty(tuple) : \E k \in DOMAIN q : q[k] = i
      /\ \A k, m \in DOMAIN q :
            k < m => EndAddress(tuple[q[k]]) < tuple[q[m]].start_address
  BY DEF Ordered
<1> HIDE DEF tuple, q
<1>3. ASSUME NEW i \in DOMAIN tuple
      PROVE  /\ tuple[i] \in Block
             /\ tuple[i].start_address \in Int
             /\ EndAddress(tuple[i]) \in Int
             /\ Len(tuple[i].values) \in Nat
             /\ EndAddress(tuple[i])
                  = tuple[i].start_address + Len(tuple[i].values) - 1
  <2>1. tuple[i] \in Block
    BY <1>1
  <2> QED BY <2>1, BlockFacts
<1>4. \A k \in DOMAIN q :
         /\ q[k] \in DOMAIN tuple
         /\ tuple[q[k]].start_address <= EndAddress(tuple[q[k]])
  <2> TAKE k \in DOMAIN q
  <2>1. q[k] \in DOMAIN tuple /\ Len(tuple[q[k]].values) > 0
    BY <1>1 DEF NonEmpty
  <2> QED BY <2>1, <1>3
<1>5. starts \in Seq(Int) /\ Len(starts) = Len(q) /\ DOMAIN q = 1 .. Len(q)
  BY <1>1, <1>3, <1>4
<1>6. ASSUME NEW j \in 1 .. Len(starts), NEW k \in 1 .. Len(starts), j < k
      PROVE  starts[j] <= starts[k]
  <2>1. EndAddress(tuple[q[j]]) < tuple[q[k]].start_address
    BY <1>2, <1>5, <1>6
  <2> QED BY <2>1, <1>3, <1>4, <1>5
<1>7. /\ pos \in 0 .. Len(q)
      /\ \A j \in 1 .. Len(q) : tuple[q[j]].start_address <= address <=> j <= pos
  <2>1. /\ pos \in 0 .. Len(starts)
        /\ \A j \in 1 .. Len(starts) : starts[j] <= address <=> j <= pos
    <3> HIDE DEF starts
    <3> QED BY <1>5, <1>6, BisectRightSplits
  <2> QED BY <2>1, <1>5
<1>8. found = IF pos >= 1 /\ Contains(tuple[q[pos]], address, count)
                THEN q[pos] ELSE NoBlock
  BY DEF FindBlock, tuple, q
<1> HIDE DEF starts, pos, found
<1>9. ASSUME NEW i \in DOMAIN tuple, Contains(tuple[i], address, count)
      PROVE  pos >= 1 /\ i = q[pos]
  <2>1. /\ count > 0 /\ address >= tuple[i].start_address
        /\ address + count - 1 <= EndAddress(tuple[i])
    BY <1>9 DEF Contains
  <2>2. i \in NonEmpty(tuple)
    BY <2>1, <1>3 DEF NonEmpty
  <2>3. PICK k \in 1 .. Len(q) : q[k] = i
    BY <2>2, <1>2, <1>5
  <2>4. k <= pos
    BY <2>1, <2>3, <1>7
  <2>5. ~ (k < pos)
    <3> SUFFICES ASSUME k < pos PROVE FALSE
      OBVIOUS
    <3>1. pos \in 1 .. Len(q) /\ tuple[q[pos]].start_address <= address
      BY <1>7
    <3>2. EndAddress(tuple[i]) < tuple[q[pos]].start_address
      BY <3>1, <2>3, <1>2, <1>5
    <3>3. tuple[q[pos]].start_address \in Int /\ EndAddress(tuple[i]) \in Int
      BY <3>1, <1>3, <1>4, <1>5
    <3> QED BY <3>1, <3>2, <3>3, <2>1
  <2> QED BY <2>3, <2>4, <2>5, <1>7
<1>10. /\ found = NoBlock =>
             \A i \in DOMAIN tuple : ~ Contains(tuple[i], address, count)
       /\ found # NoBlock =>
             /\ found \in DOMAIN tuple
             /\ \A i \in DOMAIN tuple :
                   Contains(tuple[i], address, count) <=> i = found
  <2>1. CASE pos >= 1 /\ Contains(tuple[q[pos]], address, count)
    <3>1. found = q[pos] /\ pos \in DOMAIN q
      BY <2>1, <1>5, <1>7, <1>8
    <3>2. found \in DOMAIN tuple /\ found # NoBlock
      BY <3>1, <1>1, <1>4 DEF NoBlock
    <3> QED BY <2>1, <3>1, <3>2, <1>9
  <2>2. CASE ~ (pos >= 1 /\ Contains(tuple[q[pos]], address, count))
    <3>1. found = NoBlock
      BY <2>2, <1>8
    <3> QED BY <2>2, <3>1, <1>9
  <2> QED BY <2>1, <2>2
<1> QED BY <1>10 DEF found, tuple

-----------------------------------------------------------------------------
(***************************************************************************)
(* Writing.                                                                *)
(***************************************************************************)
\* block.write replaces the cells of its range and nothing else: the block
\* keeps its start, its length and its protection.
LEMMA SplicedFacts ==
    ASSUME NEW block \in Block, NEW address \in Int, NEW values \in Seq(Datum),
           Contains(block, address, Len(values))
    PROVE  LET new == Spliced(block, address, values)
           IN  /\ new \in Block
               /\ new.start_address = block.start_address
               /\ new.readonly = block.readonly
               /\ DOMAIN new.values = DOMAIN block.values
               /\ Len(new.values) = Len(block.values)
               /\ \A n \in DOMAIN block.values :
                     new.values[n] =
                       IF n \in (address - block.start_address + 1)
                                  .. (address - block.start_address + Len(values))
                         THEN values[n - (address - block.start_address)]
                         ELSE block.values[n]
<1> DEFINE offset == address - block.start_address
           cell(n) == IF n \in (offset + 1) .. (offset + Len(values))
                        THEN values[n - offset] ELSE block.values[n]
           new == Spliced(block, address, values)
           new_values == [n \in 1 .. Len(block.values) |-> cell(n)]
<1>1. /\ block.start_address \in Int /\ block.values \in Seq(Datum)
      /\ block.readonly \in BOOLEAN
      /\ Len(block.values) \in Nat /\ Len(values) \in Nat
      /\ DOMAIN block.values = 1 .. Len(block.values)
  BY DEF Block
<1>2. new = [block EXCEPT !.values = new_values]
  BY DEF Spliced, OffsetFor
<1>3. new = [start_address |-> block.start_address, values |-> new_values,
             readonly |-> block.readonly]
  BY <1>2 DEF Block
<1>4. ASSUME NEW n \in 1 .. Len(block.values)
      PROVE  cell(n) \in Datum
  <2>1. CASE n \in (offset + 1) .. (offset + Len(values))
    <3>1. n - offset \in 1 .. Len(values)
      BY <2>1, <1>1
    <3>2. values[n - offset] \in Datum
      BY <3>1
    <3> QED BY <2>1, <3>2
  <2>2. CASE ~ (n \in (offset + 1) .. (offset + Len(values)))
    BY <2>2, <1>1
  <2> QED BY <2>1, <2>2
<1>5. /\ new_values \in Seq(Datum) /\ Len(new_values) = Len(block.values)
      /\ DOMAIN new_values = 1 .. Len(block.values)
      /\ \A n \in 1 .. Len(block.values) : new_values[n] = cell(n)
  <2> HIDE DEF cell
  <2> QED BY <1>1, <1>4
<1> HIDE DEF new_values
<1>6. new \in Block
  BY <1>1, <1>3, <1>5 DEF Block
<1> QED BY <1>1, <1>3, <1>5, <1>6

\* block.read returns values of the block.
LEMMA SliceType ==
    ASSUME NEW block \in Block, NEW address \in Int, NEW count \in Int,
           Contains(block, address, count)
    PROVE  Slice(block, address, count) \in Seq(Datum)
<1>1. /\ block.start_address \in Int /\ block.values \in Seq(Datum)
      /\ Len(block.values) \in Nat
      /\ EndAddress(block) = block.start_address + Len(block.values) - 1
  BY BlockFacts
<1>2. ASSUME NEW i \in 1 .. count
      PROVE  block.values[address - block.start_address + i] \in Datum
  <2>1. address - block.start_address + i \in 1 .. Len(block.values)
    BY <1>1 DEF Contains
  <2> QED BY <1>1, <2>1
<1>3. count \in Nat
  BY DEF Contains
<1> QED BY <1>2, <1>3 DEF Slice, OffsetFor

\* What a call of a setter does to the blocks: nothing, or a validated splice
\* of the one block that contains the range.
Stored(area, address, values, found) ==
    /\ found \in DOMAIN blocks[area]
    /\ Contains(blocks[area][found], address, Len(values))
    /\ ~ blocks[area][found].readonly
    /\ \A i \in DOMAIN values : values[i] \in Value[area]
    /\ blocks' = [blocks EXCEPT ![area] =
                    [blocks[area] EXCEPT ![found] =
                       Spliced(blocks[area][found], address, values)]]

\* What a call of Set does to the block it finds, and what it answers.
LEMMA SetEffect ==
    ASSUME TypeOK, IndexOrdered, NEW area \in Area, NEW address \in Int,
           NEW values \in Seq(Datum), Set(area, address, values)
    PROVE  /\ status = "ready"
           /\ UNCHANGED <<status, given, index>>
           /\ \E outcome \in Outcomes :
                 /\ answer' = Reply(outcome, <<>>)
                 /\ \/ outcome # "ok" /\ blocks' = blocks
                    \/ /\ outcome = "ok"
                       /\ \E found \in DOMAIN blocks[area] :
                             Stored(area, address, values, found)
<1> DEFINE found == FindBlock(area, address, Len(values))
           outcome == IF found = NoBlock
                        THEN "InvalidAddressError"
                        ELSE WriteCheck(area, blocks[area][found], address, values)
<1>1. /\ status = "ready" /\ UNCHANGED <<status, given, index>>
      /\ answer' = Reply(outcome, <<>>)
      /\ blocks' = IF outcome = "ok"
                     THEN [blocks EXCEPT ![area][found] =
                             Spliced(@, address, values)]
                     ELSE blocks
  BY DEF Set
<1>2. found # NoBlock =>
         found \in DOMAIN blocks[area]
  <2>1. Len(values) \in Int /\ Ordered(blocks[area], index[area])
    BY <1>1 DEF IndexOrdered
  <2> QED BY <2>1, FindBlockExact
<1> HIDE DEF found
<1>3. outcome \in Outcomes
  BY DEF Outcomes, WriteCheck
<1>4. ASSUME outcome = "ok"
      PROVE  Stored(area, address, values, found)
  <2>1. found # NoBlock /\ WriteCheck(area, blocks[area][found], address, values) = "ok"
    BY <1>4
  <2>2. /\ ~ blocks[area][found].readonly
        /\ Contains(blocks[area][found], address, Len(values))
        /\ \A i \in DOMAIN values : values[i] \in Value[area]
    BY <2>1 DEF WriteCheck
  <2>3. blocks' = [blocks EXCEPT ![area][found] =
                     Spliced(@, address, values)]
    BY <1>1, <1>4
  <2> QED BY <1>2, <2>1, <2>2, <2>3 DEF Stored
<1> HIDE DEF outcome
<1> QED BY <1>1, <1>2, <1>3, <1>4 DEF Stored

\* A splice keeps the type of the blocks, and of each block its start, its
\* end and its length.
LEMMA StoredShape ==
    ASSUME TypeOK, NEW area \in Area, NEW address \in Int,
           NEW values \in Seq(Datum), NEW found \in DOMAIN blocks[area],
           Stored(area, address, values, found)
    PROVE  /\ blocks' \in [Area -> Seq(Block)]
           /\ \A other \in Area :
                 /\ DOMAIN blocks'[other] = DOMAIN blocks[other]
                 /\ \A i \in DOMAIN blocks[other] :
                       /\ blocks'[other][i] =
                             IF other = area /\ i = found
                               THEN Spliced(blocks[area][found], address, values)
                               ELSE blocks[other][i]
                       /\ blocks'[other][i].start_address
                             = blocks[other][i].start_address
                       /\ blocks'[other][i].readonly = blocks[other][i].readonly
                       /\ Len(blocks'[other][i].values)
                             = Len(blocks[other][i].values)
<1> DEFINE new == Spliced(blocks[area][found], address, values)
           newTuple == [blocks[area] EXCEPT ![found] = new]
<1>1. /\ blocks \in [Area -> Seq(Block)]
      /\ \A other \in Area : blocks[other] \in Seq(Block)
  BY DEF TypeOK
<1>2. blocks[area][found] \in Block
  BY <1>1
<1>3. /\ new \in Block
      /\ new.start_address = blocks[area][found].start_address
      /\ new.readonly = blocks[area][found].readonly
      /\ Len(new.values) = Len(blocks[area][found].values)
  BY <1>2, SplicedFacts DEF Stored
<1> HIDE DEF new
<1>4. /\ newTuple \in Seq(Block) /\ DOMAIN newTuple = DOMAIN blocks[area]
      /\ \A i \in DOMAIN blocks[area] :
            newTuple[i] = IF i = found THEN new ELSE blocks[area][i]
  BY <1>1, <1>3
<1>5. blocks' = [blocks EXCEPT ![area] = newTuple]
  BY DEF Stored, new
<1> HIDE DEF newTuple
<1>6. /\ blocks' \in [Area -> Seq(Block)]
      /\ \A other \in Area :
            blocks'[other] = IF other = area THEN newTuple ELSE blocks[other]
  BY <1>1, <1>4, <1>5
<1>7. ASSUME NEW other \in Area
      PROVE  /\ DOMAIN blocks'[other] = DOMAIN blocks[other]
             /\ \A i \in DOMAIN blocks[other] :
                   blocks'[other][i] = IF other = area /\ i = found
                                         THEN new ELSE blocks[other][i]
  BY <1>4, <1>6
<1>8. ASSUME NEW other \in Area, NEW i \in DOMAIN blocks[other]
      PROVE  /\ blocks'[other][i].start_address = blocks[other][i].start_address
             /\ blocks'[other][i].readonly = blocks[other][i].readonly
             /\ Len(blocks'[other][i].values) = Len(blocks[other][i].values)
  BY <1>3, <1>7
<1> QED BY <1>6, <1>7, <1>8 DEF new

-----------------------------------------------------------------------------
(***************************************************************************)
(* The inductive invariant.                                                *)
(***************************************************************************)
\* Every step is a construction, a discard, a read or a write of some area.
LEMMA NextCases ==
    ASSUME Next
    PROVE  \/ \E layout \in Layout : Construct(layout)
           \/ Discard
           \/ \E area \in Area, address \in Start, count \in Count :
                 Get(area, address, count)
           \/ \E area \in Area, address \in Start, values \in Write :
                 Set(area, address, values)
<1>1. /\ "holding_registers" \in Area /\ "input_registers" \in Area
      /\ "coils" \in Area /\ "discrete_inputs" \in Area
  BY DEF Area
<1>2. ASSUME NEW address \in Start, NEW count \in Count,
             \/ GetHoldingRegisters(address, count)
             \/ GetInputRegisters(address, count)
             \/ GetCoils(address, count)
             \/ GetDiscreteInputs(address, count)
      PROVE  \E area \in Area : Get(area, address, count)
  BY <1>1, <1>2 DEF GetHoldingRegisters, GetInputRegisters, GetCoils,
                    GetDiscreteInputs
<1>3. ASSUME NEW address \in Start, NEW values \in Write,
             \/ SetHoldingRegisters(address, values)
             \/ SetCoils(address, values)
             \/ SimulatorSetInputRegisters(address, values)
             \/ SimulatorSetDiscreteInputs(address, values)
      PROVE  \E area \in Area : Set(area, address, values)
  BY <1>1, <1>3 DEF SetHoldingRegisters, SetCoils, SimulatorSetInputRegisters,
                    SimulatorSetDiscreteInputs
<1> QED BY <1>2, <1>3 DEF Next

\* What a construction leaves, accepted or refused.
LEMMA ConstructEffect ==
    ASSUME NEW layout \in Layout, Construct(layout)
    PROVE  /\ status = "unbuilt" /\ given' = layout
           /\ \A area \in Area : layout[area] \in Seq(Block)
           /\ \/ /\ status' = "rejected" /\ answer' = Reply("ValueError", <<>>)
                 /\ UNCHANGED <<blocks, index>>
                 /\ \E area \in Area : \E tuple \in SortedTuples(layout[area]) :
                       \E q \in IndexBlocks(tuple) : NeighboursOverlap(tuple, q)
              \/ /\ status' = "ready" /\ answer' = Reply("ok", <<>>)
                 /\ blocks' \in [Area -> Seq(Block)]
                 /\ index' \in [Area -> Seq(Nat)]
                 /\ \A area \in Area :
                       /\ blocks'[area] \in SortedTuples(layout[area])
                       /\ index'[area] \in IndexBlocks(blocks'[area])
                       /\ Ordered(blocks'[area], index'[area])
<1>1. \A area \in Area : layout[area] \in Seq(Block)
  BY ArgumentAssumption
<1>2a. PICK tuples \in [Area -> UNION {SortedTuples(layout[area]) : area \in Area}] :
         \E orders \in [Area -> UNION {IndexBlocks(tuples[area]) : area \in Area}] :
         /\ \A area \in Area : /\ tuples[area] \in SortedTuples(layout[area])
                               /\ orders[area] \in IndexBlocks(tuples[area])
         /\ IF \E area \in Area : NeighboursOverlap(tuples[area], orders[area])
               THEN /\ status' = "rejected"
                    /\ answer' = Reply("ValueError", <<>>)
                    /\ UNCHANGED <<blocks, index>>
               ELSE /\ status' = "ready"
                    /\ answer' = Reply("ok", <<>>)
                    /\ blocks' = tuples
                    /\ index' = orders
  BY DEF Construct
<1>2. PICK orders \in [Area -> UNION {IndexBlocks(tuples[area]) : area \in Area}] :
         /\ \A area \in Area : /\ tuples[area] \in SortedTuples(layout[area])
                               /\ orders[area] \in IndexBlocks(tuples[area])
         /\ IF \E area \in Area : NeighboursOverlap(tuples[area], orders[area])
               THEN /\ status' = "rejected"
                    /\ answer' = Reply("ValueError", <<>>)
                    /\ UNCHANGED <<blocks, index>>
               ELSE /\ status' = "ready"
                    /\ answer' = Reply("ok", <<>>)
                    /\ blocks' = tuples
                    /\ index' = orders
  BY <1>2a
<1>3. status = "unbuilt" /\ given' = layout
  BY DEF Construct
<1>4. CASE \E area \in Area : NeighboursOverlap(tuples[area], orders[area])
  BY <1>1, <1>2, <1>3, <1>4
<1>5. CASE ~ \E area \in Area : NeighboursOverlap(tuples[area], orders[area])
  <2>1. /\ status' = "ready" /\ answer' = Reply("ok", <<>>)
        /\ blocks' = tuples /\ index' = orders
    BY <1>2, <1>5
  <2>2. ASSUME NEW area \in Area
        PROVE  /\ tuples[area] \in Seq(Block)
               /\ orders[area] \in Seq(Nat)
               /\ Ordered(tuples[area], orders[area])
    <3>1. tuples[area] \in Seq(Block)
      BY <1>1, <1>2, SortedTupleFacts
    <3>2. orders[area] \in Seq(Nat)
      BY <1>2, <3>1, IndexFacts
    <3>3. Ordered(tuples[area], orders[area])
      BY <1>1, <1>2, <1>5, NeighboursSuffice
    <3> QED BY <3>1, <3>2, <3>3
  <2>3. tuples \in [Area -> Seq(Block)] /\ orders \in [Area -> Seq(Nat)]
    BY <2>2
  <2> QED BY <1>1, <1>2, <1>3, <2>1, <2>2, <2>3
<1> QED BY <1>4, <1>5

\* The empty sequence is a sequence of anything.
LEMMA EmptyIsSeq == ASSUME NEW S PROVE <<>> \in Seq(S)
OBVIOUS

\* The initial state satisfies the invariant.
LEMMA InitIInv == Init => IInv
<1> SUFFICES ASSUME Init PROVE IInv
  OBVIOUS
<1>1. /\ <<>> \in Seq(Block) /\ <<>> \in Seq(Nat) /\ <<>> \in Seq(Datum)
      /\ DOMAIN <<>> = {}
  BY EmptyIsSeq
<1>2. TypeOK
  BY <1>1 DEF Init, TypeOK, Reply, Outcomes
<1>3. IndexOrdered
  BY DEF Init, IndexOrdered
<1> QED BY <1>2, <1>3 DEF IInv

\* Every step keeps the invariant.
LEMMA NextIInv == IInv /\ [Next]_vars => IInv'
<1> SUFFICES ASSUME IInv, [Next]_vars PROVE IInv'
  OBVIOUS
<1>1. TypeOK /\ IndexOrdered
  BY DEF IInv
<1>2. <<>> \in Seq(Block) /\ <<>> \in Seq(Datum) /\ DOMAIN <<>> = {}
  BY EmptyIsSeq
<1>3. ASSUME NEW layout \in Layout, Construct(layout)
      PROVE  IInv'
  <2>1. given' \in [Area -> Seq(Block)]
    BY <1>3, ConstructEffect, ArgumentAssumption
  <2>2. CASE status' = "rejected"
    <3>1. answer' = Reply("ValueError", <<>>) /\ UNCHANGED <<blocks, index>>
      BY <1>3, <2>2, ConstructEffect
    <3>2. TypeOK'
      BY <1>1, <1>2, <2>1, <2>2, <3>1 DEF TypeOK, Reply, Outcomes
    <3> QED BY <2>2, <3>2 DEF IInv, IndexOrdered
  <2>3. CASE status' = "ready"
    <3>1. /\ answer' = Reply("ok", <<>>)
          /\ blocks' \in [Area -> Seq(Block)] /\ index' \in [Area -> Seq(Nat)]
          /\ \A area \in Area : /\ index'[area] \in IndexBlocks(blocks'[area])
                                /\ Ordered(blocks'[area], index'[area])
      BY <1>3, <2>3, ConstructEffect
    <3>2. \A area \in Area : \A k \in DOMAIN index'[area] :
             index'[area][k] \in NonEmpty(blocks'[area])
      <4> TAKE area \in Area
      <4>1. blocks'[area] \in Seq(Block)
        BY <3>1
      <4> QED BY <3>1, <4>1, IndexFacts
    <3>3. TypeOK'
      BY <1>2, <2>1, <2>3, <3>1, <3>2 DEF TypeOK, Reply, Outcomes
    <3> QED BY <3>1, <3>3 DEF IInv, IndexOrdered
  <2> QED BY <1>3, <2>2, <2>3, ConstructEffect
<1>4. ASSUME Discard
      PROVE  IInv'
  <2>1. /\ status' = "unbuilt" /\ given' = [area \in Area |-> <<>>]
        /\ answer' = Reply("ok", <<>>) /\ UNCHANGED <<blocks, index>>
    BY <1>4 DEF Discard
  <2>2. given' \in [Area -> Seq(Block)]
    BY <1>2, <2>1
  <2>3. TypeOK'
    BY <1>1, <1>2, <2>1, <2>2 DEF TypeOK, Reply, Outcomes
  <2> QED BY <2>1, <2>3 DEF IInv, IndexOrdered
<1>5. ASSUME NEW area \in Area, NEW address \in Int, NEW count \in Int,
             Get(area, address, count)
      PROVE  IInv'
  <2> DEFINE found == FindBlock(area, address, count)
  <2>1. /\ status = "ready" /\ UNCHANGED <<status, given, blocks, index>>
        /\ answer' = IF found = NoBlock
                       THEN Reply("InvalidAddressError", <<>>)
                       ELSE Reply("ok", Slice(blocks[area][found], address, count))
    BY <1>5 DEF Get
  <2>2. found # NoBlock =>
           found \in DOMAIN blocks[area]
           /\ Contains(blocks[area][found], address, count)
    <3>1. Ordered(blocks[area], index[area])
      BY <1>1, <2>1 DEF IndexOrdered
    <3> QED BY <1>1, <3>1, FindBlockExact
  <2> HIDE DEF found
  <2>3. answer' \in [outcome : Outcomes, values : Seq(Datum)]
    <3>1. CASE found = NoBlock
      BY <1>2, <2>1, <3>1 DEF Reply, Outcomes
    <3>2. CASE found # NoBlock
      <4>1. blocks[area][found] \in Block
        BY <1>1, <2>2, <3>2 DEF TypeOK
      <4>2. Slice(blocks[area][found], address, count) \in Seq(Datum)
        BY <2>2, <3>2, <4>1, SliceType
      <4> QED BY <2>1, <3>2, <4>2 DEF Reply, Outcomes
    <3> QED BY <3>1, <3>2
  <2> QED BY <1>1, <2>1, <2>3 DEF IInv, TypeOK, IndexOrdered
<1>6. ASSUME NEW area \in Area, NEW address \in Int, NEW values \in Seq(Datum),
             Set(area, address, values)
      PROVE  IInv'
  <2>1. /\ status = "ready" /\ UNCHANGED <<status, given, index>>
        /\ answer' \in [outcome : Outcomes, values : Seq(Datum)]
    <3>1. /\ status = "ready" /\ UNCHANGED <<status, given, index>>
          /\ \E outcome \in Outcomes : answer' = Reply(outcome, <<>>)
      BY <1>1, <1>6, SetEffect
    <3> QED BY <1>2, <3>1 DEF Reply
  <2>2. CASE blocks' = blocks
    BY <1>1, <2>1, <2>2 DEF IInv, TypeOK, IndexOrdered
  <2>3. ASSUME NEW found \in DOMAIN blocks[area],
               Stored(area, address, values, found)
        PROVE  IInv'
    <3>1. /\ blocks' \in [Area -> Seq(Block)]
          /\ \A other \in Area :
                /\ DOMAIN blocks'[other] = DOMAIN blocks[other]
                /\ \A i \in DOMAIN blocks[other] :
                      /\ blocks'[other][i].start_address
                            = blocks[other][i].start_address
                      /\ Len(blocks'[other][i].values)
                            = Len(blocks[other][i].values)
      BY <1>1, <2>3, StoredShape
    <3>2. \A other \in Area : NonEmpty(blocks'[other]) = NonEmpty(blocks[other])
      BY <3>1 DEF NonEmpty
    <3>3. TypeOK'
      BY <1>1, <2>1, <3>1, <3>2 DEF TypeOK
    <3>4. ASSUME NEW other \in Area
          PROVE  Ordered(blocks'[other], index'[other])
      <4>1. Ordered(blocks[other], index[other]) /\ index'[other] = index[other]
        BY <1>1, <2>1 DEF IndexOrdered
      <4>2. ASSUME NEW k \in DOMAIN index[other]
            PROVE  /\ EndAddress(blocks'[other][index[other][k]])
                        = EndAddress(blocks[other][index[other][k]])
                   /\ blocks'[other][index[other][k]].start_address
                        = blocks[other][index[other][k]].start_address
        <5>1. index[other][k] \in DOMAIN blocks[other]
          BY <1>1 DEF TypeOK, NonEmpty
        <5> QED BY <3>1, <5>1 DEF EndAddress
      <4> QED BY <3>2, <4>1, <4>2 DEF Ordered
    <3> QED BY <3>3, <3>4 DEF IInv, IndexOrdered
  <2> QED BY <1>1, <1>6, <2>2, <2>3, SetEffect
<1>7. CASE UNCHANGED vars
  BY <1>1, <1>7 DEF vars, IInv, TypeOK, IndexOrdered
<1> QED BY <1>3, <1>4, <1>5, <1>6, <1>7, NextCases, ArgumentAssumption

\* The invariant holds in every state of every behaviour.
THEOREM InvariantHolds == Spec => []IInv
BY InitIInv, NextIInv, PTL DEF Spec

\* The store keeps its types and its index names blocks that are not empty.
THEOREM TypeCorrect == Spec => []TypeOK
<1>1. IInv => TypeOK
  BY DEF IInv
<1> QED BY <1>1, InvariantHolds, PTL

\* For every layout and every range, _find_block returns the block that holds
\* the whole range, or none when none does.
THEOREM LookupExact == Spec => []LookupIsExact
<1>1. IInv => LookupIsExact
  <2> SUFFICES ASSUME TypeOK, IndexOrdered, status = "ready",
                      NEW area \in Area, NEW address \in Start, NEW count \in Count
               PROVE  LET found == FindBlock(area, address, count)
                      IN  IF found = NoBlock
                            THEN \A i \in DOMAIN blocks[area] :
                                    ~Contains(blocks[area][i], address, count)
                            ELSE \A i \in DOMAIN blocks[area] :
                                    Contains(blocks[area][i], address, count)
                                      <=> i = found
    BY DEF IInv, LookupIsExact
  <2>1. address \in Int /\ count \in Int /\ Ordered(blocks[area], index[area])
    BY ArgumentAssumption DEF IndexOrdered
  <2> QED BY <2>1, FindBlockExact
<1> QED BY <1>1, InvariantHolds, PTL

-----------------------------------------------------------------------------
(***************************************************************************)
(* The constructor accepts exactly the arguments without an overlap.       *)
(***************************************************************************)
\* An ordered index leaves no overlap among the blocks of the argument list.
LEMMA OrderedMeansDisjoint ==
    ASSUME NEW list \in Seq(Block), NEW tuple \in SortedTuples(list),
           NEW q \in Seq(Nat), Ordered(tuple, q),
           NEW i \in NonEmpty(list), NEW j \in NonEmpty(list), i # j
    PROVE  ~ RangesOverlap(list[i], list[j])
<1>1. PICK p \in [DOMAIN list -> DOMAIN list] :
         /\ \A a \in DOMAIN list : tuple[a] = list[p[a]]
         /\ \A a \in DOMAIN list : \E b \in DOMAIN list : p[b] = a
         /\ \A a, b \in DOMAIN list : p[a] = p[b] => a = b
  BY SortedTupleFacts
<1>2. tuple \in Seq(Block) /\ DOMAIN tuple = DOMAIN list
  BY SortedTupleFacts
<1>3. PICK a \in DOMAIN list, b \in DOMAIN list : p[a] = i /\ p[b] = j
  BY <1>1 DEF NonEmpty
<1>4. /\ tuple[a] = list[i] /\ tuple[b] = list[j] /\ a # b
      /\ a \in NonEmpty(tuple) /\ b \in NonEmpty(tuple)
  BY <1>1, <1>2, <1>3 DEF NonEmpty
<1>5. PICK k \in DOMAIN q, m \in DOMAIN q : q[k] = a /\ q[m] = b
  BY <1>4 DEF Ordered
<1>6. /\ list[i].start_address \in Int /\ EndAddress(list[i]) \in Int
      /\ list[j].start_address \in Int /\ EndAddress(list[j]) \in Int
  <2>1. list[i] \in Block /\ list[j] \in Block
    BY DEF NonEmpty
  <2> QED BY <2>1, BlockFacts
<1>7. k \in Nat /\ m \in Nat /\ k # m
  BY <1>4, <1>5
<1>8. CASE k < m
  <2>1. EndAddress(list[i]) < list[j].start_address
    BY <1>4, <1>5, <1>8 DEF Ordered
  <2> QED BY <2>1, <1>6 DEF RangesOverlap
<1>9. CASE m < k
  <2>1. EndAddress(list[j]) < list[i].start_address
    BY <1>4, <1>5, <1>9 DEF Ordered
  <2> QED BY <2>1, <1>6 DEF RangesOverlap
<1> QED BY <1>7, <1>8, <1>9

\* Neighbours that overlap are two blocks of the argument list that do.
LEMMA NeighboursOverlapMeansOverlap ==
    ASSUME NEW list \in Seq(Block), NEW tuple \in SortedTuples(list),
           NEW q \in IndexBlocks(tuple), NeighboursOverlap(tuple, q)
    PROVE  \E i, j \in NonEmpty(list) : i # j /\ RangesOverlap(list[i], list[j])
<1>1. /\ tuple \in Seq(Block) /\ DOMAIN tuple = DOMAIN list
      /\ \A a, b \in DOMAIN tuple :
            a < b => tuple[a].start_address <= tuple[b].start_address
  BY SortedTupleFacts
<1>2. PICK p \in [DOMAIN list -> DOMAIN list] :
         /\ \A a \in DOMAIN list : tuple[a] = list[p[a]]
         /\ \A a \in DOMAIN list : \E b \in DOMAIN list : p[b] = a
         /\ \A a, b \in DOMAIN list : p[a] = p[b] => a = b
  BY SortedTupleFacts
<1>3. /\ q \in Seq(Nat)
      /\ \A k \in DOMAIN q : q[k] \in NonEmpty(tuple)
      /\ \A k, m \in DOMAIN q : k < m => q[k] < q[m]
  BY <1>1, IndexFacts
<1>4. PICK k \in 1 .. Len(q) - 1 :
         tuple[q[k + 1]].start_address <= EndAddress(tuple[q[k]])
  BY DEF NeighboursOverlap
<1>5. k \in DOMAIN q /\ k + 1 \in DOMAIN q /\ k < k + 1
  BY <1>3
<1> DEFINE a == q[k]
           b == q[k + 1]
<1>6. /\ a \in NonEmpty(tuple) /\ b \in NonEmpty(tuple) /\ a < b
      /\ a \in Nat /\ b \in Nat
  BY <1>3, <1>5
<1>7. tuple[b].start_address <= EndAddress(tuple[a])
  BY <1>4
<1> HIDE DEF a, b
<1>8. /\ a \in DOMAIN tuple /\ b \in DOMAIN tuple /\ a # b
      /\ Len(tuple[a].values) > 0 /\ Len(tuple[b].values) > 0
  BY <1>6 DEF NonEmpty
<1>9. /\ tuple[a].start_address \in Int /\ tuple[b].start_address \in Int
      /\ EndAddress(tuple[a]) \in Int /\ EndAddress(tuple[b]) \in Int
      /\ tuple[b].start_address <= EndAddress(tuple[b])
  <2>1. tuple[a] \in Block /\ tuple[b] \in Block
    BY <1>1, <1>8
  <2> QED BY <2>1, <1>8, BlockFacts
<1>10. tuple[a].start_address <= tuple[b].start_address
  BY <1>1, <1>6, <1>8
<1>11. RangesOverlap(tuple[a], tuple[b])
  BY <1>7, <1>9, <1>10 DEF RangesOverlap
<1>12. /\ p[a] \in DOMAIN list /\ p[b] \in DOMAIN list /\ p[a] # p[b]
       /\ tuple[a] = list[p[a]] /\ tuple[b] = list[p[b]]
  BY <1>1, <1>2, <1>8
<1>13. p[a] \in NonEmpty(list) /\ p[b] \in NonEmpty(list)
  BY <1>8, <1>12 DEF NonEmpty
<1> QED BY <1>11, <1>12, <1>13

\* A store comes into being exactly when no two ranges of the arguments
\* overlap, although the constructor compares neighbours only.
THEOREM AcceptsExactlyDisjoint == Spec => []AcceptedIffDisjoint
<1>1. Init => AcceptedIffDisjoint
  BY DEF Init, AcceptedIffDisjoint
<1>2. IInv /\ AcceptedIffDisjoint /\ [Next]_vars => AcceptedIffDisjoint'
  <2> SUFFICES ASSUME IInv, AcceptedIffDisjoint, [Next]_vars
               PROVE  AcceptedIffDisjoint'
    OBVIOUS
  <2>1. ASSUME NEW layout \in Layout, Construct(layout)
        PROVE  AcceptedIffDisjoint'
    <3>1. /\ given' = layout
          /\ \A area \in Area : layout[area] \in Seq(Block)
      BY <2>1, ConstructEffect
    <3>2. CASE status' = "rejected"
      <4>1. PICK area \in Area : \E tuple \in SortedTuples(layout[area]) :
               \E q \in IndexBlocks(tuple) : NeighboursOverlap(tuple, q)
        BY <2>1, <3>2, ConstructEffect
      <4>2. \E i, j \in NonEmpty(layout[area]) :
               i # j /\ RangesOverlap(layout[area][i], layout[area][j])
        BY <3>1, <4>1, NeighboursOverlapMeansOverlap
      <4> QED BY <3>1, <3>2, <4>2 DEF AcceptedIffDisjoint
    <3>3. CASE status' = "ready"
      <4>1. ASSUME NEW area \in Area,
                   NEW i \in NonEmpty(layout[area]),
                   NEW j \in NonEmpty(layout[area]), i # j
            PROVE  ~ RangesOverlap(layout[area][i], layout[area][j])
        <5>1. /\ blocks'[area] \in SortedTuples(layout[area])
              /\ index'[area] \in Seq(Nat)
              /\ Ordered(blocks'[area], index'[area])
          BY <2>1, <3>3, ConstructEffect
        <5> QED BY <3>1, <4>1, <5>1, OrderedMeansDisjoint
      <4> QED BY <3>1, <3>3, <4>1 DEF AcceptedIffDisjoint
    <3> QED BY <2>1, <3>2, <3>3, ConstructEffect
  <2>2. CASE Discard
    BY <2>2 DEF Discard, AcceptedIffDisjoint
  <2>3. ASSUME UNCHANGED <<status, given>>
        PROVE  AcceptedIffDisjoint'
    BY <2>3 DEF AcceptedIffDisjoint
  <2>4. ASSUME NEW area \in Area, NEW address \in Int, NEW count \in Int,
               Get(area, address, count)
        PROVE  AcceptedIffDisjoint'
    BY <2>3, <2>4 DEF Get
  <2>5. ASSUME NEW area \in Area, NEW address \in Int, NEW values \in Seq(Datum),
               Set(area, address, values)
        PROVE  AcceptedIffDisjoint'
    BY <2>3, <2>5 DEF Set
  <2>6. CASE UNCHANGED vars
    BY <2>3, <2>6 DEF vars
  <2> QED BY <2>1, <2>2, <2>4, <2>5, <2>6, NextCases, ArgumentAssumption
<1> QED BY <1>1, <1>2, InvariantHolds, PTL DEF Spec

-----------------------------------------------------------------------------
\* From construction on blocks are never moved, resized or reprotected, and
\* only values the area accepts get into a cell, for every sequence of calls.
THEOREM OnlyValidValuesArriveAlways == Spec => OnlyValidValuesArrive
<1> DEFINE Cell(area, i) ==
              LET b == blocks[area][i]
                  c == blocks'[area][i]
              IN  /\ c.start_address = b.start_address
                  /\ c.readonly = b.readonly
                  /\ DOMAIN c.values = DOMAIN b.values
                  /\ \A n \in DOMAIN b.values :
                        c.values[n] # b.values[n] =>
                           ~b.readonly /\ c.values[n] \in Value[area]
           Kept == /\ index' = index
                   /\ \A area \in Area :
                         /\ DOMAIN blocks'[area] = DOMAIN blocks[area]
                         /\ \A i \in DOMAIN blocks[area] : Cell(area, i)
<1>1. IInv /\ [Next]_vars => (status = "ready" => Kept)
  <2> SUFFICES ASSUME IInv, [Next]_vars, status = "ready" PROVE Kept
    OBVIOUS
  <2>1. TypeOK /\ IndexOrdered
    BY DEF IInv
  <2>2. ASSUME UNCHANGED <<blocks, index>> PROVE Kept
    BY <2>2
  <2>3. ASSUME NEW layout \in Layout, Construct(layout) PROVE Kept
    BY <2>3 DEF Construct
  <2>4. CASE Discard
    BY <2>4 DEF Discard
  <2>5. ASSUME NEW area \in Area, NEW address \in Int, NEW count \in Int,
               Get(area, address, count)
        PROVE  Kept
    BY <2>2, <2>5 DEF Get
  <2>6. ASSUME NEW area \in Area, NEW address \in Int, NEW values \in Seq(Datum),
               Set(area, address, values)
        PROVE  Kept
    <3>1. index' = index
      BY <2>1, <2>6, SetEffect
    <3>2. CASE blocks' = blocks
      BY <2>2, <3>1, <3>2
    <3>3. ASSUME NEW found \in DOMAIN blocks[area],
                 Stored(area, address, values, found)
          PROVE  Kept
      <4>1. \A other \in Area :
               /\ DOMAIN blocks'[other] = DOMAIN blocks[other]
               /\ \A i \in DOMAIN blocks[other] :
                     blocks'[other][i] =
                        IF other = area /\ i = found
                          THEN Spliced(blocks[area][found], address, values)
                          ELSE blocks[other][i]
        BY <2>1, <3>3, StoredShape
      <4>2. Cell(area, found)
        <5> DEFINE b == blocks[area][found]
        <5>1. /\ b \in Block /\ Contains(b, address, Len(values)) /\ ~ b.readonly
              /\ blocks'[area][found] = Spliced(b, address, values)
          BY <2>1, <3>3, <4>1 DEF TypeOK, Stored
        <5>2. ASSUME NEW n \in (address - b.start_address + 1)
                                  .. (address - b.start_address + Len(values))
              PROVE  values[n - (address - b.start_address)] \in Value[area]
          <6>1. b.start_address \in Int
            BY <5>1 DEF Block
          <6>2. n - (address - b.start_address) \in DOMAIN values
            BY <6>1
          <6> QED BY <3>3, <6>2 DEF Stored
        <5> HIDE DEF b
        <5>3. LET new == Spliced(b, address, values)
              IN  /\ new.start_address = b.start_address
                  /\ new.readonly = b.readonly
                  /\ DOMAIN new.values = DOMAIN b.values
                  /\ \A n \in DOMAIN b.values :
                        new.values[n] # b.values[n] => new.values[n] \in Value[area]
          BY <5>1, <5>2, SplicedFacts
        <5> QED BY <5>1, <5>3 DEF b
      <4>3. ASSUME NEW other \in Area, NEW i \in DOMAIN blocks[other],
                   ~ (other = area /\ i = found)
            PROVE  Cell(other, i)
        <5>1. blocks'[other][i] = blocks[other][i]
          BY <4>1, <4>3
        <5> QED BY <5>1
      <4> HIDE DEF Cell
      <4> QED BY <3>1, <4>1, <4>2, <4>3
    <3> QED BY <2>1, <2>6, <3>2, <3>3, SetEffect
  <2>7. CASE UNCHANGED vars
    BY <2>2, <2>7 DEF vars
  <2> QED BY <2>3, <2>4, <2>5, <2>6, <2>7, NextCases, ArgumentAssumption
<1>2. IInv /\ [Next]_vars =>
         [status = "ready" =>
            /\ index' = index
            /\ \A area \in Area :
                 /\ DOMAIN blocks'[area] = DOMAIN blocks[area]
                 /\ \A i \in DOMAIN blocks[area] : Cell(area, i)]_vars
  BY <1>1
<1> QED BY <1>2, InvariantHolds, PTL DEF Spec, OnlyValidValuesArrive

-----------------------------------------------------------------------------
(***************************************************************************)
(* The proof that MemoryDataStore implements AddressSpace, for every       *)
(* layout and every argument: an extent per block that is not empty, a     *)
(* cell per address some block covers.  Because the index is ordered, at   *)
(* most one block covers an address, so the cell of an address is the      *)
(* value of that block and a splice of the block is an overlay of the      *)
(* cells.                                                                  *)
(***************************************************************************)

-----------------------------------------------------------------------------
(***************************************************************************)
(* Blocks and the extents and cells they stand for.                        *)
(***************************************************************************)
\* The extent of a block covers what the block contains.
LEMMA CoversIsContains ==
    ASSUME NEW block \in Block, NEW address \in Int, NEW count \in Int
    PROVE  Covers(ExtentOf(block), address, count)
             <=> Contains(block, address, count)
<1>1. block.start_address \in Int /\ EndAddress(block) \in Int
  BY BlockFacts
<1> QED BY <1>1 DEF Covers, ExtentOf, Contains

\* In an ordered tuple two blocks that are not empty lie apart.
LEMMA OrderedApart ==
    ASSUME NEW tuple \in Seq(Block), NEW q \in Seq(Nat), Ordered(tuple, q),
           NEW i \in NonEmpty(tuple), NEW j \in NonEmpty(tuple), i # j
    PROVE  \/ EndAddress(tuple[i]) < tuple[j].start_address
           \/ EndAddress(tuple[j]) < tuple[i].start_address
<1>1. PICK k \in DOMAIN q, m \in DOMAIN q : q[k] = i /\ q[m] = j
  BY DEF Ordered
<1>2. k \in Nat /\ m \in Nat /\ k # m
  BY <1>1
<1>3. k < m \/ m < k
  BY <1>2
<1> QED BY <1>1, <1>3 DEF Ordered

\* An address lies in the extents exactly when some block contains it.
LEMMA AddressesFacts ==
    ASSUME NEW tuple \in Seq(Block), NEW x
    PROVE  x \in Addresses(ExtentsOf(tuple))
             <=> x \in Int /\ \E i \in NonEmpty(tuple) : Contains(tuple[i], x, 1)
<1>1. x \in Addresses(ExtentsOf(tuple))
        <=> \E i \in NonEmpty(tuple) :
               x \in tuple[i].start_address .. EndAddress(tuple[i])
  <2>1. x \in Addresses(ExtentsOf(tuple))
          <=> \E e \in ExtentsOf(tuple) : x \in e.first .. e.last
    BY DEF Addresses
  <2>2. \A e : e \in ExtentsOf(tuple)
                <=> \E i \in NonEmpty(tuple) : e = ExtentOf(tuple[i])
    BY DEF ExtentsOf
  <2>3. \A i \in NonEmpty(tuple) :
           /\ ExtentOf(tuple[i]).first = tuple[i].start_address
           /\ ExtentOf(tuple[i]).last = EndAddress(tuple[i])
    BY DEF ExtentOf
  <2> QED BY <2>1, <2>2, <2>3
<1>2. ASSUME NEW i \in NonEmpty(tuple)
      PROVE  x \in tuple[i].start_address .. EndAddress(tuple[i])
               <=> x \in Int /\ Contains(tuple[i], x, 1)
  <2>1. tuple[i].start_address \in Int /\ EndAddress(tuple[i]) \in Int
    <3>1. tuple[i] \in Block
      BY DEF NonEmpty
    <3> QED BY <3>1, BlockFacts
  <2> QED BY <2>1 DEF Contains
<1> QED BY <1>1, <1>2

\* The cell of an address is the value of the block that contains it.
LEMMA CellAt ==
    ASSUME NEW tuple \in Seq(Block), NEW q \in Seq(Nat), Ordered(tuple, q),
           NEW i \in NonEmpty(tuple), NEW x \in Int, Contains(tuple[i], x, 1)
    PROVE  /\ x \in Addresses(ExtentsOf(tuple))
           /\ CellsOf(tuple)[x] = tuple[i].values[x - tuple[i].start_address + 1]
<1>1. x \in Addresses(ExtentsOf(tuple))
  BY AddressesFacts
<1>2. ASSUME NEW j \in NonEmpty(tuple), Contains(tuple[j], x, 1)
      PROVE  j = i
  <2> SUFFICES ASSUME j # i PROVE FALSE
    OBVIOUS
  <2>1. /\ tuple[i].start_address \in Int /\ EndAddress(tuple[i]) \in Int
        /\ tuple[j].start_address \in Int /\ EndAddress(tuple[j]) \in Int
    <3>1. tuple[i] \in Block /\ tuple[j] \in Block
      BY DEF NonEmpty
    <3> QED BY <3>1, BlockFacts
  <2>2. \/ EndAddress(tuple[i]) < tuple[j].start_address
        \/ EndAddress(tuple[j]) < tuple[i].start_address
    BY OrderedApart
  <2> QED BY <1>2, <2>1, <2>2 DEF Contains
<1>3. (CHOOSE j \in NonEmpty(tuple) : Contains(tuple[j], x, 1)) = i
  BY <1>2
<1> QED BY <1>1, <1>3 DEF CellsOf

\* The cells of a tuple hold data.
LEMMA CellsType ==
    ASSUME NEW tuple \in Seq(Block), NEW q \in Seq(Nat), Ordered(tuple, q)
    PROVE  /\ CellsOf(tuple) \in [Addresses(ExtentsOf(tuple)) -> Datum]
           /\ ExtentsOf(tuple) \subseteq Extent
           /\ PairwiseApart(ExtentsOf(tuple))
<1>1. ASSUME NEW x \in Addresses(ExtentsOf(tuple))
      PROVE  CellsOf(tuple)[x] \in Datum
  <2>1. x \in Int
    BY AddressesFacts
  <2>2. PICK i \in NonEmpty(tuple) : Contains(tuple[i], x, 1)
    BY AddressesFacts
  <2>3. CellsOf(tuple)[x] = tuple[i].values[x - tuple[i].start_address + 1]
    BY <2>1, <2>2, CellAt
  <2>4. tuple[i] \in Block
    BY DEF NonEmpty
  <2>5. x - tuple[i].start_address + 1 \in 1 .. Len(tuple[i].values)
    BY <2>1, <2>2, <2>4, BlockFacts, SMTT(30) DEF Contains
  <2>6. tuple[i].values \in Seq(Datum)
    BY <2>4, BlockFacts
  <2>7. tuple[i].values[x - tuple[i].start_address + 1] \in Datum
    BY <2>5, <2>6
  <2> QED BY <2>3, <2>7
<1>2. CellsOf(tuple) = [x \in Addresses(ExtentsOf(tuple)) |-> CellsOf(tuple)[x]]
  BY DEF CellsOf
<1>3. ASSUME NEW i \in NonEmpty(tuple)
      PROVE  /\ tuple[i].start_address \in Int /\ EndAddress(tuple[i]) \in Int
             /\ tuple[i].readonly \in BOOLEAN
  <2>1. tuple[i] \in Block
    BY DEF NonEmpty
  <2> QED BY <2>1, BlockFacts DEF Block
<1>4. ExtentsOf(tuple) \subseteq Extent
  BY <1>3 DEF ExtentsOf, ExtentOf, Extent
<1>5. ASSUME NEW e \in ExtentsOf(tuple), NEW f \in ExtentsOf(tuple), e # f
      PROVE  Apart(e, f)
  <2>1. PICK i \in NonEmpty(tuple), j \in NonEmpty(tuple) :
           e = ExtentOf(tuple[i]) /\ f = ExtentOf(tuple[j])
    BY DEF ExtentsOf
  <2>2. i # j
    BY <1>5, <2>1
  <2>3. \/ EndAddress(tuple[i]) < tuple[j].start_address
        \/ EndAddress(tuple[j]) < tuple[i].start_address
    BY <2>2, OrderedApart
  <2> QED BY <2>1, <2>3 DEF Apart, ExtentOf
<1>6. CellsOf(tuple) \in [Addresses(ExtentsOf(tuple)) -> Datum]
  BY <1>1, <1>2
<1> QED BY <1>4, <1>5, <1>6 DEF PairwiseApart

-----------------------------------------------------------------------------
(***************************************************************************)
(* Reads and writes as the abstract store sees them.                       *)
(***************************************************************************)
\* A range is covered by an extent exactly when bisection finds its block.
LEMMA ReadOutcomeIsFound ==
    ASSUME TypeOK, NEW area \in Area, Ordered(blocks[area], index[area]),
           NEW address \in Int, NEW count \in Int
    PROVE  LET found == FindBlock(area, address, count)
               home == {e \in ExtentsOf(blocks[area]) : Covers(e, address, count)}
           IN  /\ found = NoBlock => home = {}
               /\ found # NoBlock =>
                     /\ found \in NonEmpty(blocks[area])
                     /\ Contains(blocks[area][found], address, count)
                     /\ home = {ExtentOf(blocks[area][found])}
<1> DEFINE tuple == blocks[area]
           found == FindBlock(area, address, count)
           home == {e \in ExtentsOf(tuple) : Covers(e, address, count)}
<1>1. tuple \in Seq(Block)
  BY DEF TypeOK
<1>2. /\ found = NoBlock =>
            \A i \in DOMAIN tuple : ~ Contains(tuple[i], address, count)
      /\ found # NoBlock =>
            /\ found \in DOMAIN tuple
            /\ \A i \in DOMAIN tuple :
                  Contains(tuple[i], address, count) <=> i = found
  BY FindBlockExact
<1> HIDE DEF tuple, found
<1>3. ASSUME NEW i \in DOMAIN tuple
      PROVE  /\ Covers(ExtentOf(tuple[i]), address, count)
                  <=> Contains(tuple[i], address, count)
             /\ Contains(tuple[i], address, count) => i \in NonEmpty(tuple)
  <2>1. tuple[i] \in Block
    BY <1>1
  <2>2. Contains(tuple[i], address, count) => Len(tuple[i].values) > 0
    BY <2>1, BlockFacts DEF Contains
  <2> QED BY <2>1, <2>2, CoversIsContains DEF NonEmpty
<1>4. \A e : e \in ExtentsOf(tuple)
               <=> \E i \in NonEmpty(tuple) : e = ExtentOf(tuple[i])
  BY DEF ExtentsOf
<1>5. NonEmpty(tuple) \subseteq DOMAIN tuple
  BY DEF NonEmpty
<1>6. ASSUME found = NoBlock
      PROVE  home = {}
  BY <1>2, <1>3, <1>4, <1>5, <1>6
<1>7. ASSUME found # NoBlock
      PROVE  /\ found \in NonEmpty(tuple)
             /\ Contains(tuple[found], address, count)
             /\ home = {ExtentOf(tuple[found])}
  <2>1. found \in NonEmpty(tuple) /\ Contains(tuple[found], address, count)
    BY <1>2, <1>3, <1>7
  <2>2. ExtentOf(tuple[found]) \in home
    BY <1>3, <1>4, <1>5, <2>1
  <2>3. \A e \in home : e = ExtentOf(tuple[found])
    BY <1>2, <1>3, <1>4, <1>5, <1>7
  <2>4. home = {ExtentOf(tuple[found])}
    <3> HIDE DEF home
    <3> QED BY <2>2, <2>3
  <2> QED BY <2>1, <2>4
<1> QED BY <1>6, <1>7 DEF tuple, found

\* What block.read returns is the window of the cells.
LEMMA SliceIsWindow ==
    ASSUME NEW tuple \in Seq(Block), NEW q \in Seq(Nat), Ordered(tuple, q),
           NEW i \in NonEmpty(tuple), NEW address \in Int, NEW count \in Int,
           Contains(tuple[i], address, count)
    PROVE  Slice(tuple[i], address, count)
             = Window(CellsOf(tuple), address, count)
<1>1. /\ tuple[i].start_address \in Int /\ EndAddress(tuple[i]) \in Int
  <2>1. tuple[i] \in Block
    BY DEF NonEmpty
  <2> QED BY <2>1, BlockFacts
<1>2. ASSUME NEW n \in 1 .. count
      PROVE  CellsOf(tuple)[address + n - 1]
               = tuple[i].values[address - tuple[i].start_address + n]
  <2>1. address + n - 1 \in Int /\ Contains(tuple[i], address + n - 1, 1)
    BY <1>1 DEF Contains
  <2>2. CellsOf(tuple)[address + n - 1]
          = tuple[i].values[(address + n - 1) - tuple[i].start_address + 1]
    BY <2>1, CellAt
  <2>3. (address + n - 1) - tuple[i].start_address + 1
          = address - tuple[i].start_address + n
    BY <1>1
  <2> QED BY <2>2, <2>3
<1> QED BY <1>2 DEF Slice, Window, OffsetFor

\* A splice of one block overlays the cells of its area and leaves the
\* extents and the other areas alone.
LEMMA StoredIsOverlay ==
    ASSUME TypeOK, NEW area \in Area, NEW address \in Int,
           NEW values \in Seq(Datum), NEW found \in DOMAIN blocks[area],
           \A other \in Area : Ordered(blocks[other], index[other]),
           \A other \in Area : Ordered(blocks'[other], index[other]),
           Stored(area, address, values, found)
    PROVE  /\ \A other \in Area : ExtentsOf(blocks'[other]) = ExtentsOf(blocks[other])
           /\ \A other \in Area :
                 CellsOf(blocks'[other]) =
                    IF other = area
                      THEN Overlay(CellsOf(blocks[area]), address, values)
                      ELSE CellsOf(blocks[other])
<1>1. /\ \A other \in Area : /\ blocks[other] \in Seq(Block)
                             /\ index[other] \in Seq(Nat)
      /\ Contains(blocks[area][found], address, Len(values))
  BY DEF TypeOK, Stored
<1>2. /\ \A other \in Area : blocks'[other] \in Seq(Block)
      /\ \A other \in Area :
            /\ DOMAIN blocks'[other] = DOMAIN blocks[other]
            /\ \A i \in DOMAIN blocks[other] :
                  /\ blocks'[other][i] =
                        IF other = area /\ i = found
                          THEN Spliced(blocks[area][found], address, values)
                          ELSE blocks[other][i]
                  /\ blocks'[other][i].start_address
                        = blocks[other][i].start_address
                  /\ blocks'[other][i].readonly = blocks[other][i].readonly
                  /\ Len(blocks'[other][i].values)
                        = Len(blocks[other][i].values)
  BY StoredShape
<1>3. \A other \in Area : NonEmpty(blocks'[other]) = NonEmpty(blocks[other])
  BY <1>2 DEF NonEmpty
<1>4. ASSUME NEW other \in Area, NEW i \in DOMAIN blocks[other]
      PROVE  /\ ExtentOf(blocks'[other][i]) = ExtentOf(blocks[other][i])
             /\ \A x, n : Contains(blocks'[other][i], x, n)
                             <=> Contains(blocks[other][i], x, n)
  BY <1>2 DEF ExtentOf, EndAddress, Contains
<1>5. \A other \in Area : ExtentsOf(blocks'[other]) = ExtentsOf(blocks[other])
  <2> TAKE other \in Area
  <2>1. \A i \in NonEmpty(blocks[other]) :
           ExtentOf(blocks'[other][i]) = ExtentOf(blocks[other][i])
    BY <1>4 DEF NonEmpty
  <2> QED BY <1>3, <2>1 DEF ExtentsOf
<1>6. ASSUME NEW other \in Area, other # area
      PROVE  CellsOf(blocks'[other]) = CellsOf(blocks[other])
  <2>1. blocks'[other] = blocks[other]
    BY <1>6 DEF Stored, TypeOK
  <2> QED BY <2>1
<1>7. CellsOf(blocks'[area]) = Overlay(CellsOf(blocks[area]), address, values)
  <2> DEFINE old == blocks[area]
             new == blocks'[area]
             start == old[found].start_address
             range == address .. (address + Len(values) - 1)
             cell(x) == IF x \in range THEN values[x - address + 1]
                                       ELSE CellsOf(old)[x]
  <2>1. /\ old[found] \in Block /\ old[found].start_address \in Int
        /\ EndAddress(old[found]) \in Int
        /\ Len(values) \in Nat /\ Len(old[found].values) \in Nat
        /\ EndAddress(old[found]) = start + Len(old[found].values) - 1
    <3>1. old[found] \in Block
      BY <1>1
    <3> QED BY <3>1, BlockFacts
  <2>2. ASSUME NEW x \in Addresses(ExtentsOf(old))
        PROVE  CellsOf(new)[x] = cell(x)
    <3>1. x \in Int
      BY <1>1, AddressesFacts
    <3>2. PICK i \in NonEmpty(old) : Contains(old[i], x, 1)
      BY <1>1, AddressesFacts
    <3>3. i \in DOMAIN old /\ i \in NonEmpty(new) /\ Contains(new[i], x, 1)
          /\ new[i].start_address = old[i].start_address
      BY <1>2, <1>3, <1>4, <3>2 DEF NonEmpty
    <3>4a. CellsOf(old)[x] = old[i].values[x - old[i].start_address + 1]
      <4>1. /\ old \in Seq(Block) /\ index[area] \in Seq(Nat)
            /\ Ordered(old, index[area])
        BY <1>1
      <4> QED BY <3>1, <3>2, <4>1, CellAt
    <3>4b. CellsOf(new)[x] = new[i].values[x - new[i].start_address + 1]
      <4>1. /\ new \in Seq(Block) /\ index[area] \in Seq(Nat)
            /\ Ordered(new, index[area])
        BY <1>1, <1>2
      <4> HIDE DEF new
      <4> QED BY <3>1, <3>3, <4>1, CellAt
    <3>4. /\ CellsOf(old)[x] = old[i].values[x - old[i].start_address + 1]
          /\ CellsOf(new)[x] = new[i].values[x - old[i].start_address + 1]
      BY <3>3, <3>4a, <3>4b
    <3>5. CASE i # found
      <4>1. new[i] = old[i]
        BY <1>2, <3>3, <3>5
      <4>2. x \notin range
        <5>1. Contains(old[found], address, Len(values))
          BY <1>1
        <5>2. ASSUME x \in range PROVE FALSE
          <6>1. Contains(old[found], x, 1)
            BY <2>1, <3>1, <5>1, <5>2 DEF Contains
          <6>2. found \in NonEmpty(old)
            BY <2>1, <3>1, <6>1 DEF Contains, NonEmpty
          <6>3. \/ EndAddress(old[i]) < old[found].start_address
                \/ EndAddress(old[found]) < old[i].start_address
            BY <1>1, <3>5, <6>2, OrderedApart
          <6>4. old[i].start_address \in Int /\ EndAddress(old[i]) \in Int
            <7>1. old[i] \in Block
              BY <1>1, <3>3
            <7> QED BY <7>1, BlockFacts
          <6> QED BY <2>1, <3>1, <3>2, <6>1, <6>3, <6>4 DEF Contains
        <5> QED BY <5>2
      <4> QED BY <3>4, <4>1, <4>2
    <3>6. CASE i = found
      <4> DEFINE n == x - start + 1
      <4>1. n \in DOMAIN old[found].values /\ n \in Int
        <5>1. DOMAIN old[found].values = 1 .. Len(old[found].values)
          BY <2>1, BlockFacts
        <5>2. PICK l \in Nat : l = Len(old[found].values)
          BY <2>1, BlockFacts
        <5>3. n \in 1 .. l
          <6>1. Contains(old[found], x, 1) /\ start \in Int
            BY <2>1, <3>2, <3>6
          <6>2. EndAddress(old[found]) = start + l - 1
            BY <2>1, <5>2, BlockFacts
          <6>3. start <= x /\ x <= start + l - 1
            BY <3>1, <6>1, <6>2 DEF Contains
          <6>4. PICK p \in Int, q \in Int : p = x /\ q = start
            BY <3>1, <6>1
          <6>5. p - q + 1 \in 1 .. l
            BY ONLY p \in Int, q \in Int, l \in Nat, <6>3, <6>4
          <6> QED BY <6>4, <6>5
        <5> QED BY <5>1, <5>2, <5>3
      <4>2. new[found].values[n] =
               IF n \in (address - start + 1) .. (address - start + Len(values))
                 THEN values[n - (address - start)]
                 ELSE old[found].values[n]
        <5>1. new[found] = Spliced(old[found], address, values)
          BY <1>2
        <5>2. Contains(old[found], address, Len(values))
          BY <1>1
        <5>3. old[found] \in Block
          BY <2>1
        <5> DEFINE b == old[found]
        <5> HIDE DEF n, b
        <5>4. \A m \in DOMAIN b.values :
                 Spliced(b, address, values).values[m] =
                   IF m \in (address - b.start_address + 1)
                              .. (address - b.start_address + Len(values))
                     THEN values[m - (address - b.start_address)]
                     ELSE b.values[m]
          BY <5>2, <5>3, SplicedFacts DEF b
        <5> QED BY <4>1, <5>1, <5>4 DEF b
      <4>3. /\ n \in (address - start + 1) .. (address - start + Len(values))
                  <=> x \in range
            /\ n - (address - start) = x - address + 1
        <5>1. start \in Int /\ Len(values) \in Int
          BY <2>1
        <5> HIDE DEF start
        <5> QED BY <3>1, <5>1
      <4> QED BY <3>4, <3>6, <4>2, <4>3
    <3> QED BY <3>5, <3>6
  <2>3. Addresses(ExtentsOf(new)) = Addresses(ExtentsOf(old))
    BY <1>5
  <2>4. CellsOf(new) = [x \in Addresses(ExtentsOf(new)) |-> CellsOf(new)[x]]
    BY DEF CellsOf
  <2>5. DOMAIN CellsOf(old) = Addresses(ExtentsOf(old))
    BY DEF CellsOf
  <2>6. Overlay(CellsOf(old), address, values)
          = [x \in Addresses(ExtentsOf(old)) |-> cell(x)]
    BY <2>5 DEF Overlay
  <2> QED BY <2>2, <2>3, <2>4, <2>6
<1> QED BY <1>5, <1>6, <1>7

-----------------------------------------------------------------------------
(***************************************************************************)
(* Every step of the store is a step of the abstract store.                *)
(***************************************************************************)
\* The abstract store reads AddressRanges through the instance; its operators
\* are the ones of the store.
LEMMA SameRanges ==
    /\ Promise!Area = Area /\ Promise!Datum = Datum /\ Promise!Extent = Extent
    /\ \A extents : /\ Promise!Addresses(extents) = Addresses(extents)
                    /\ Promise!PairwiseApart(extents) = PairwiseApart(extents)
    /\ \A extents, address, count :
          Promise!ReadOutcome(extents, address, count)
             = ReadOutcome(extents, address, count)
    /\ \A area, extents, address, values :
          Promise!WriteOutcome(area, extents, address, values)
             = WriteOutcome(area, extents, address, values)
    /\ \A cells, address, count :
          Promise!Window(cells, address, count) = Window(cells, address, count)
    /\ \A cells, address, values :
          Promise!Overlay(cells, address, values) = Overlay(cells, address, values)
    /\ \A outcome, values : Promise!Reply(outcome, values) = Reply(outcome, values)
BY DEF Promise!Area, Area, Promise!Datum, Datum, Promise!Extent, Extent,
       Promise!Addresses, Addresses, Promise!PairwiseApart, PairwiseApart,
       Promise!Apart, Apart, Promise!Covers, Covers,
       Promise!ReadOutcome, ReadOutcome, Promise!WriteOutcome, WriteOutcome,
       Promise!Window, Window, Promise!Overlay, Overlay, Promise!Reply, Reply

\* Before construction there is nothing to read or write.
LEMMA InitRefines == Init => Promise!Init
<1> SUFFICES ASSUME Init PROVE Promise!Init
  OBVIOUS
<1>1. NonEmpty(<<>>) = {}
  BY DEF NonEmpty
<1>2. ExtentsOf(<<>>) = {}
  BY <1>1 DEF ExtentsOf
<1>3. Addresses(ExtentsOf(<<>>)) = {}
  BY <1>2 DEF Addresses
<1>4. CellsOf(<<>>) = <<>>
  BY <1>3 DEF CellsOf
<1> QED BY <1>2, <1>4, SameRanges DEF Init, Promise!Init

\* Each constructor call, access and write of the store is the abstract one, or
\* leaves everything the abstract store has as it was.
LEMMA StepRefines ==
    IInv /\ IInv' /\ [Next]_vars => [Promise!Next]_(Promise!vars)
<1> SUFFICES ASSUME IInv, IInv', [Next]_vars
             PROVE  [Promise!Next]_(Promise!vars)
  OBVIOUS
<1>1. /\ TypeOK /\ IndexOrdered
      /\ \A area \in Area : /\ blocks[area] \in Seq(Block)
                            /\ index[area] \in Seq(Nat)
  BY DEF IInv, TypeOK
<1>2. ASSUME NEW layout \in Layout, Construct(layout)
      PROVE  Promise!Next
  <2>1. status = "unbuilt"
    BY <1>2, ConstructEffect
  <2>2. CASE status' = "rejected"
    <3>1. answer' = Reply("ValueError", <<>>) /\ UNCHANGED <<blocks, index>>
      BY <1>2, <2>2, ConstructEffect
    <3>2. Promise!Reject
      BY <2>1, <2>2, <3>1, SameRanges DEF Promise!Reject
    <3> QED BY <3>2, SameRanges DEF Promise!Next
  <2>3. CASE status' = "ready"
    <3>1. answer' = Reply("ok", <<>>)
      BY <1>2, <2>3, ConstructEffect
    <3>2. ASSUME NEW area \in Area
          PROVE  /\ CellsOf(blocks'[area])
                       \in [Addresses(ExtentsOf(blocks'[area])) -> Datum]
                 /\ ExtentsOf(blocks'[area]) \subseteq Extent
                 /\ PairwiseApart(ExtentsOf(blocks'[area]))
      <4>1. /\ blocks'[area] \in Seq(Block) /\ index'[area] \in Seq(Nat)
            /\ Ordered(blocks'[area], index'[area])
        BY <1>2, <2>3, ConstructEffect
      <4> QED BY <4>1, CellsType
    <3>3. Promise!Build
      BY <2>1, <2>3, <3>1, <3>2, SameRanges DEF Promise!Build
    <3> QED BY <3>3, SameRanges DEF Promise!Next
  <2> QED BY <1>2, <2>2, <2>3, ConstructEffect
<1>3. ASSUME Discard
      PROVE  Promise!Next
  <2>1. Promise!Discard
    BY <1>3, SameRanges DEF Discard, Promise!Discard
  <2> QED BY <2>1, SameRanges DEF Promise!Next
<1>4. ASSUME NEW area \in Area, NEW address \in Start, NEW count \in Count,
             Get(area, address, count)
      PROVE  Promise!Next
  <2> DEFINE found == FindBlock(area, address, count)
             extents == ExtentsOf(blocks[area])
             home == {e \in extents : Covers(e, address, count)}
  <2>1. /\ status = "ready" /\ UNCHANGED <<status, given, blocks, index>>
        /\ answer' = IF found = NoBlock
                       THEN Reply("InvalidAddressError", <<>>)
                       ELSE Reply("ok", Slice(blocks[area][found], address, count))
    BY <1>4 DEF Get
  <2>2. /\ Ordered(blocks[area], index[area])
        /\ address \in Int /\ count \in Int
    BY <1>1, <2>1, ArgumentAssumption DEF IndexOrdered
  <2>3. /\ found = NoBlock => home = {}
        /\ found # NoBlock =>
              /\ found \in NonEmpty(blocks[area])
              /\ Contains(blocks[area][found], address, count)
              /\ home # {}
    BY <1>1, <2>2, ReadOutcomeIsFound
  <2> HIDE DEF found
  <2>4. ReadOutcome(extents, address, count)
          = IF found = NoBlock THEN "InvalidAddressError" ELSE "ok"
    BY <2>3 DEF ReadOutcome
  <2>5. found # NoBlock => Slice(blocks[area][found], address, count)
                              = Window(CellsOf(blocks[area]), address, count)
    BY <1>1, <2>2, <2>3, SliceIsWindow
  <2>6. Promise!Get(area, address, count)
    BY <2>1, <2>4, <2>5, SameRanges DEF Promise!Get
  <2> QED BY <2>6, SameRanges DEF Promise!Next
<1>5. ASSUME NEW area \in Area, NEW address \in Start, NEW values \in Write,
             Set(area, address, values)
      PROVE  Promise!Next
  <2> DEFINE found == FindBlock(area, address, Len(values))
             extents == ExtentsOf(blocks[area])
             home == {e \in extents : Covers(e, address, Len(values))}
             outcome == IF found = NoBlock
                          THEN "InvalidAddressError"
                          ELSE WriteCheck(area, blocks[area][found],
                                          address, values)
  <2>1. /\ status = "ready" /\ UNCHANGED <<status, given, index>>
        /\ answer' = Reply(outcome, <<>>)
        /\ blocks' = IF outcome = "ok"
                       THEN [blocks EXCEPT ![area][found] =
                               Spliced(@, address, values)]
                       ELSE blocks
    BY <1>5 DEF Set
  <2>2. /\ \A other \in Area : Ordered(blocks[other], index[other])
        /\ \A other \in Area : Ordered(blocks'[other], index[other])
        /\ address \in Int /\ values \in Seq(Datum) /\ Len(values) \in Int
    <3>1. IndexOrdered /\ IndexOrdered' /\ status' = "ready" /\ index' = index
      BY <1>1, <2>1 DEF IInv
    <3> QED BY <2>1, <3>1, ArgumentAssumption DEF IndexOrdered
  <2>3. /\ found = NoBlock => home = {}
        /\ found # NoBlock =>
              /\ found \in NonEmpty(blocks[area])
              /\ Contains(blocks[area][found], address, Len(values))
              /\ home = {ExtentOf(blocks[area][found])}
    BY <1>1, <2>2, ReadOutcomeIsFound
  <2> HIDE DEF found
  <2>4. WriteOutcome(area, extents, address, values) = outcome
    <3>1. CASE found = NoBlock
      BY <2>3, <3>1 DEF WriteOutcome
    <3>2. CASE found # NoBlock
      <4>1. home = {ExtentOf(blocks[area][found])} /\ home # {}
        BY <2>3, <3>2
      <4>2. (\E e \in home : e.readonly) <=> blocks[area][found].readonly
        BY <4>1 DEF ExtentOf
      <4> HIDE DEF home
      <4>3. WriteOutcome(area, extents, address, values)
              = CASE home = {} -> "InvalidAddressError"
                  [] \E e \in home : e.readonly -> "ReadOnlyDataBlockError"
                  [] OTHER -> IF \A i \in DOMAIN values : values[i] \in Value[area]
                                THEN "ok" ELSE "InvalidValueError"
        BY DEF WriteOutcome, home
      <4> QED BY <2>3, <3>2, <4>1, <4>2, <4>3 DEF WriteCheck
    <3> QED BY <3>1, <3>2
  <2>5. CASE outcome = "ok"
    <3>1. Stored(area, address, values, found) /\ found \in DOMAIN blocks[area]
      <4>1. found # NoBlock /\ WriteCheck(area, blocks[area][found], address, values) = "ok"
        BY <2>5
      <4>2. /\ ~ blocks[area][found].readonly
            /\ \A i \in DOMAIN values : values[i] \in Value[area]
        BY <4>1 DEF WriteCheck
      <4> QED BY <2>1, <2>3, <2>5, <4>1, <4>2 DEF Stored, NonEmpty
    <3>2. /\ \A other \in Area : ExtentsOf(blocks'[other]) = ExtentsOf(blocks[other])
          /\ \A other \in Area :
                CellsOf(blocks'[other]) =
                   IF other = area
                     THEN Overlay(CellsOf(blocks[area]), address, values)
                     ELSE CellsOf(blocks[other])
      BY <1>1, <2>2, <3>1, StoredIsOverlay
    <3> HIDE DEF outcome
    <3>3. Promise!Set(area, address, values)
      BY <2>1, <2>4, <2>5, <3>2, SameRanges DEF Promise!Set
    <3> QED BY <3>3, SameRanges DEF Promise!Next
  <2>6. CASE outcome # "ok"
    <3> HIDE DEF outcome
    <3>1. Promise!Set(area, address, values)
      BY <2>1, <2>4, <2>6, SameRanges DEF Promise!Set
    <3> QED BY <3>1, SameRanges DEF Promise!Next
  <2> QED BY <2>5, <2>6
<1>6. CASE UNCHANGED vars
  BY <1>6 DEF vars, Promise!vars
<1> QED BY <1>2, <1>3, <1>4, <1>5, <1>6, NextCases

\* A caller that sees only what calls return and raise cannot tell the store
\* from the abstract one, for every layout and every sequence of calls.
THEOREM StoreImplementsAddressSpace == Spec => ImplementsAddressSpace
BY InitRefines, StepRefines, InvariantHolds, PTL
   DEF Spec, ImplementsAddressSpace, Promise!Spec
=============================================================================
