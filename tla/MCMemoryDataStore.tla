------------------------- MODULE MCMemoryDataStore -------------------------
(***************************************************************************)
(* Instances of MemoryDataStore.  A layout is a list of at most three      *)
(* blocks of at most two cells: enough for a gap, for two blocks that      *)
(* touch, for an overlap of blocks that are not neighbours in the argument *)
(* list, and for an empty block between or on top of others.               *)
(***************************************************************************)
EXTENDS MemoryDataStore

CONSTANTS r0, r1, off, on, junk

MCValue == [area \in Area |-> IF area \in {"holding_registers", "input_registers"}
                                THEN {r0, r1} ELSE {off, on}]

MCJunk == {junk}

RegisterBlockAt(start, length, ro) ==
    [start_address |-> start, values |-> [i \in 1 .. length |-> r0], readonly |-> ro]

SmallBlocks == {RegisterBlockAt(start, length, FALSE) :
                    start \in 0 .. 2, length \in 0 .. 2}
               \cup {RegisterBlockAt(1, 1, TRUE)}

ListsOf(set, n) == UNION {[1 .. k -> set] : k \in 0 .. n}

OnlyHolding(list) == [area \in Area |->
                         IF area = "holding_registers" THEN list ELSE <<>>]

\* Every list of up to three small blocks as the holding registers.
EveryLayout == {OnlyHolding(list) : list \in ListsOf(SmallBlocks, 3)}

BitBlockAt(start, values) ==
    [start_address |-> start, values |-> values, readonly |-> FALSE]

\* One device with all four areas: blocks that touch, one read-only, one that
\* starts out holding a value no write would accept.
FourAreas ==
    {[area \in Area |->
        CASE area = "holding_registers"
               -> <<RegisterBlockAt(2, 1, TRUE), RegisterBlockAt(0, 2, FALSE)>>
          [] area = "input_registers"
               -> <<[start_address |-> 1, values |-> <<junk>>, readonly |-> FALSE]>>
          [] area = "coils" -> <<BitBlockAt(0, <<off>>), BitBlockAt(1, <<off, on>>)>>
          [] OTHER -> <<BitBlockAt(1, <<on>>)>>]}

AllLayouts == EveryLayout \cup FourAreas

\* Writes of no value, of valid ones, of a bit into a register and back, and
\* of a sequence whose second value only is invalid.
Writes == {<<>>, <<r1>>, <<r0, r1>>, <<r1, on>>, <<on>>, <<on, on>>, <<on, r1>>}
=============================================================================
