-------------------------- MODULE MemoryDataStore --------------------------
(***************************************************************************)
(* MemoryDataStore (datastore/memory.py): blocks sorted by start address   *)
(* at construction, an index of the blocks that are not empty, and every   *)
(* access resolved by bisection over the start addresses of the index.     *)
(* The index refers to the very block objects of the sorted tuple, so it   *)
(* is modelled as a sequence of positions in that tuple.                   *)
(*                                                                         *)
(* No method awaits: a call is one atomic step of the event loop.          *)
(***************************************************************************)
EXTENDS Blocks

CONSTANTS
    Layout,  \* the arguments the constructor may be called with:
             \* a set of functions from Area to sequences of blocks
    Start,   \* addresses callers pass
    Count,   \* counts callers pass
    Write    \* sequences of values callers write

ASSUME ArgumentAssumption ==
    /\ Layout \subseteq [Area -> Seq(Block)]
    /\ Start \subseteq Int
    /\ Count \subseteq Int
    /\ Write \subseteq Seq(Datum)

VARIABLES
    status,  \* "unbuilt", "rejected" (the constructor raised) or "ready"
    given,   \* the arguments of the last constructor call
    blocks,  \* blocks[area]: the tuple sorted by start address
    index,   \* index[area]: the positions of the indexed blocks
    answer   \* what the last call returned or raised

vars == <<status, given, blocks, index, answer>>

NoBlock == 0

Reply(outcome, values) == [outcome |-> outcome, values |-> values]

(***************************************************************************)
(* Construction.                                                           *)
(***************************************************************************)
\* Python's sort is stable: blocks with one start keep their given order.
SortOrders(list) ==
    {p \in [DOMAIN list -> DOMAIN list] :
        /\ \A i \in DOMAIN list : \E j \in DOMAIN list : p[j] = i
        /\ \A i, j \in DOMAIN list :
              i < j => \/ list[p[i]].start_address < list[p[j]].start_address
                       \/ /\ list[p[i]].start_address
                                = list[p[j]].start_address
                          /\ p[i] < p[j]}

SortedTuples(list) == {[i \in DOMAIN list |-> list[p[i]]] : p \in SortOrders(list)}

\* Mistake: the index keeps the empty blocks.
IndexPositionsWithEmpty(tuple) == DOMAIN tuple

IndexPositions(tuple) == {i \in DOMAIN tuple : Len(tuple[i].values) > 0}

\* The comprehension that drops the empty blocks keeps the tuple's order.
IndexBlocks(tuple) ==
    {q \in UNION {[1 .. n -> IndexPositions(tuple)] : n \in 0 .. Len(tuple)} :
        /\ \A i \in IndexPositions(tuple) : \E k \in DOMAIN q : q[k] = i
        /\ \A k, m \in DOMAIN q : k < m => q[k] < q[m]}

(***************************************************************************)
(* The validation sorts the ranges of the blocks that are not empty once   *)
(* more, by (start, end), and compares neighbours.  Blocks with one start  *)
(* overlap in whichever order they stand, so the order of the index        *)
(* decides the same.                                                       *)
(***************************************************************************)
\* Mistake: two blocks may share one address.
NeighboursOverlapStrictly(tuple, q) ==
    \E k \in 1 .. Len(q) - 1 :
        tuple[q[k + 1]].start_address < EndAddress(tuple[q[k]])

NeighboursOverlap(tuple, q) ==
    \E k \in 1 .. Len(q) - 1 :
        tuple[q[k + 1]].start_address <= EndAddress(tuple[q[k]])

Construct(layout) ==
    /\ status = "unbuilt"
    /\ given' = layout
    /\ \E tuples \in [Area -> UNION {SortedTuples(layout[area]) : area \in Area}] :
       \E orders \in [Area -> UNION {IndexBlocks(tuples[area]) : area \in Area}] :
          /\ \A area \in Area : /\ tuples[area] \in SortedTuples(layout[area])
                                /\ orders[area] \in IndexBlocks(tuples[area])
          /\ IF \E area \in Area : NeighboursOverlap(tuples[area], orders[area])
               THEN /\ status' = "rejected"
                    /\ answer' = Reply("ValueError", <<>>)
                    /\ UNCHANGED <<blocks, index>>
               ELSE /\ status' = "ready"
                    /\ answer' = Reply("ok", <<>>)
                    /\ blocks' = tuples
                    /\ index' = orders

\* The constructor raised: there is no store, and the caller may try again.
Discard ==
    /\ status = "rejected"
    /\ status' = "unbuilt"
    /\ given' = [area \in Area |-> <<>>]
    /\ answer' = Reply("ok", <<>>)
    /\ UNCHANGED <<blocks, index>>

(***************************************************************************)
(* Lookup.  bisect_right returns the insertion point that keeps every      *)
(* start at most the address on its left and every larger one on its right.*)
(***************************************************************************)
\* Mistake: bisect_left, which misses the block that starts at the address.
BisectLeft(starts, address) ==
    CHOOSE k \in 0 .. Len(starts) :
        \A j \in 1 .. Len(starts) : starts[j] < address <=> j <= k

BisectRight(starts, address) ==
    CHOOSE k \in 0 .. Len(starts) :
        \A j \in 1 .. Len(starts) : starts[j] <= address <=> j <= k

FindBlock(area, address, count) ==
    LET starts == [k \in DOMAIN index[area] |->
                      blocks[area][index[area][k]].start_address]
        k == BisectRight(starts, address)
    IN  IF k >= 1 /\ Contains(blocks[area][index[area][k]], address, count)
          THEN index[area][k] ELSE NoBlock

(***************************************************************************)
(* The accessors.  block.read checks Contains again: after _find_block it  *)
(* always holds.                                                           *)
(***************************************************************************)
Get(area, address, count) ==
    /\ status = "ready"
    /\ LET found == FindBlock(area, address, count)
       IN  answer' = IF found = NoBlock
                       THEN Reply("InvalidAddressError", <<>>)
                       ELSE Reply("ok",
                                  Slice(blocks[area][found], address, count))
    /\ UNCHANGED <<status, given, blocks, index>>

Set(area, address, values) ==
    /\ status = "ready"
    /\ LET found == FindBlock(area, address, Len(values))
           outcome == IF found = NoBlock
                        THEN "InvalidAddressError"
                        ELSE WriteCheck(area, blocks[area][found],
                                        address, values)
       IN  /\ answer' = Reply(outcome, <<>>)
           /\ blocks' = IF outcome = "ok"
                          THEN [blocks EXCEPT ![area][found] =
                                   Spliced(@, address, values)]
                          ELSE blocks
    /\ UNCHANGED <<status, given, index>>

GetHoldingRegisters(address, count) == Get("holding_registers", address, count)
GetInputRegisters(address, count) == Get("input_registers", address, count)
GetCoils(address, count) == Get("coils", address, count)
GetDiscreteInputs(address, count) == Get("discrete_inputs", address, count)

SetHoldingRegisters(address, values) == Set("holding_registers", address, values)
SetCoils(address, values) == Set("coils", address, values)

\* The simulator writes the areas the datastore has no setter for by calling
\* _find_block and block.write itself.
SimulatorSetInputRegisters(address, values) ==
    Set("input_registers", address, values)
SimulatorSetDiscreteInputs(address, values) ==
    Set("discrete_inputs", address, values)

Init ==
    /\ status = "unbuilt"
    /\ given = [area \in Area |-> <<>>]
    /\ blocks = [area \in Area |-> <<>>]
    /\ index = [area \in Area |-> <<>>]
    /\ answer = Reply("ok", <<>>)

Next ==
    \/ \E layout \in Layout : Construct(layout)
    \/ Discard
    \/ \E address \in Start, count \in Count :
          \/ GetHoldingRegisters(address, count)
          \/ GetInputRegisters(address, count)
          \/ GetCoils(address, count)
          \/ GetDiscreteInputs(address, count)
    \/ \E address \in Start, values \in Write :
          \/ SetHoldingRegisters(address, values)
          \/ SetCoils(address, values)
          \/ SimulatorSetInputRegisters(address, values)
          \/ SimulatorSetDiscreteInputs(address, values)

Spec == Init /\ [][Next]_vars

-----------------------------------------------------------------------------
(***************************************************************************)
(* Properties.                                                             *)
(***************************************************************************)
Outcomes == {"ok", "InvalidAddressError", "ReadOnlyDataBlockError",
             "InvalidValueError", "ValueError"}

NonEmpty(list) == {i \in DOMAIN list : Len(list[i].values) > 0}

\* The state has its types, and the index names blocks of the tuple that are
\* not empty (__init__ builds both, and nothing resizes them after).
TypeOK ==
    /\ status \in {"unbuilt", "rejected", "ready"}
    /\ given \in [Area -> Seq(Block)]
    /\ blocks \in [Area -> Seq(Block)]
    /\ index \in [Area -> Seq(Nat)]
    /\ \A area \in Area : \A k \in DOMAIN index[area] :
          index[area][k] \in NonEmpty(blocks[area])
    /\ answer \in [outcome : Outcomes, values : Seq(Datum)]

RangesOverlap(b, c) ==
    b.start_address <= EndAddress(c) /\ c.start_address <= EndAddress(b)

\* The constructor compares neighbours only (_validate_no_overlapping_ranges);
\* that must decide whether ANY two ranges of the arguments overlap, so that
\* a store exists exactly for arguments whose ranges are pairwise disjoint.
AcceptedIffDisjoint ==
    LET overlapping == \E area \in Area : \E i, j \in NonEmpty(given[area]) :
                           i # j /\ RangesOverlap(given[area][i], given[area][j])
    IN  /\ status = "ready" => ~overlapping
        /\ status = "rejected" => overlapping

\* Bisection over the start addresses looks at one block only (_find_block);
\* for every range, it must find the block that holds it exactly when some
\* block does, whatever the order, the gaps and the empty blocks.
LookupIsExact ==
    status = "ready" =>
        \A area \in Area, address \in Start, count \in Count :
            LET found == FindBlock(area, address, count)
            IN  IF found = NoBlock
                  THEN \A i \in DOMAIN blocks[area] :
                          ~Contains(blocks[area][i], address, count)
                  ELSE \A i \in DOMAIN blocks[area] :
                          Contains(blocks[area][i], address, count) <=> i = found

\* Once a store exists, no sequence of calls moves, resizes or reprotects a
\* block (the class promises that block collections are fixed), and no write
\* puts into a cell a value its area does not accept (RegisterBlock.write and
\* BitBlock.write validate every value before they store the first).
OnlyValidValuesArrive ==
    [][status = "ready" =>
         /\ index' = index
         /\ \A area \in Area :
              /\ DOMAIN blocks'[area] = DOMAIN blocks[area]
              /\ \A i \in DOMAIN blocks[area] :
                   LET b == blocks[area][i]
                       c == blocks'[area][i]
                   IN  /\ c.start_address = b.start_address
                       /\ c.readonly = b.readonly
                       /\ DOMAIN c.values = DOMAIN b.values
                       /\ \A n \in DOMAIN b.values :
                            c.values[n] # b.values[n] =>
                              ~b.readonly /\ c.values[n] \in Value[area]]_vars

(***************************************************************************)
(* The store implements AddressSpace: an extent per block that is not      *)
(* empty, a cell per address some block covers.                            *)
(***************************************************************************)
ExtentOf(block) == [first |-> block.start_address, last |-> EndAddress(block),
                    readonly |-> block.readonly]

ExtentsOf(tuple) == {ExtentOf(tuple[i]) : i \in NonEmpty(tuple)}

CellsOf(tuple) ==
    [x \in Addresses(ExtentsOf(tuple)) |->
        LET i == CHOOSE j \in NonEmpty(tuple) : Contains(tuple[j], x, 1)
        IN  tuple[i].values[x - tuple[i].start_address + 1]]

Promise == INSTANCE AddressSpace
             WITH extents <- [area \in Area |-> ExtentsOf(blocks[area])],
                  cells <- [area \in Area |-> CellsOf(blocks[area])]

\* Whatever the layout, a caller that sees only returned values and raised
\* exceptions cannot tell this store from the ideal AddressSpace: reads see
\* the last write, a range across two blocks is refused, a refused write
\* leaves every cell alone, an accepted one changes its range only.
ImplementsAddressSpace == Promise!Spec
=============================================================================
