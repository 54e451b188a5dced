------------------------------- MODULE Blocks -------------------------------
(***************************************************************************)
(* RegisterBlock and BitBlock (datastore/blocks.py).  The two classes have *)
(* the same control; they differ in the values a write accepts, which      *)
(* AddressRanges!Value keeps per area.  The constructor validates nothing: *)
(* a block may start out holding junk.                                     *)
(***************************************************************************)
EXTENDS AddressRanges

Block == [start_address : Int, values : Seq(Datum), readonly : BOOLEAN]

EndAddress(block) == block.start_address + Len(block.values) - 1

Contains(block, address, count) ==
    /\ count > 0
    /\ address >= block.start_address
    /\ address + count - 1 <= EndAddress(block)

OffsetFor(block, address) == address - block.start_address

\* self.values[offset : offset + count], for a range the block contains
Slice(block, address, count) ==
    [i \in 1 .. count |-> block.values[OffsetFor(block, address) + i]]

\* Mistake: only the first value is validated.
WriteCheckFirstValue(area, block, address, values) ==
    CASE block.readonly -> "ReadOnlyDataBlockError"
      [] ~block.readonly /\ ~Contains(block, address, Len(values))
           -> "InvalidAddressError"
      [] OTHER -> IF values[1] \in Value[area] THEN "ok" ELSE "InvalidValueError"

\* The exception write raises, in the order the code looks, or "ok".
WriteCheck(area, block, address, values) ==
    CASE block.readonly -> "ReadOnlyDataBlockError"
      [] ~block.readonly /\ ~Contains(block, address, Len(values))
           -> "InvalidAddressError"
      [] OTHER -> IF \A i \in DOMAIN values : values[i] \in Value[area]
                    THEN "ok" ELSE "InvalidValueError"

\* Mistake: the last value of the range is not stored.
SplicedShort(block, address, values) ==
    LET offset == OffsetFor(block, address)
    IN  [block EXCEPT !.values =
            [i \in 1 .. Len(@) |->
                IF i \in (offset + 1) .. (offset + Len(values) - 1)
                  THEN values[i - offset] ELSE @[i]]]

\* self.values[offset : offset + len(values)] = values
Spliced(block, address, values) ==
    LET offset == OffsetFor(block, address)
    IN  [block EXCEPT !.values =
            [i \in 1 .. Len(@) |->
                IF i \in (offset + 1) .. (offset + Len(values))
                  THEN values[i - offset] ELSE @[i]]]
=============================================================================
