--------------------------- MODULE AddressRanges ---------------------------
(***************************************************************************)
(* The data model of a Modbus device as the datastore protocol presents it *)
(* (datastore/base.py, datastore/errors.py): four areas of addressable     *)
(* cells, each area made of contiguous extents, and the outcome a read or  *)
(* a write of a range of addresses promises.  Nothing here knows of blocks,*)
(* of sorting or of bisection: these operators are what a store promises,  *)
(* and MemoryDataStore is shown to keep the promise.                       *)
(*                                                                         *)
(* Addresses are integers, not 16-bit words: the application may call the  *)
(* store directly with any integer, and a block may reach past 0xFFFF.     *)
(***************************************************************************)
EXTENDS Integers, Sequences

CONSTANTS
    Value,  \* Value[area]: what a write to the area accepts (an int in
            \* 0..0xFFFF for the register areas, a bool for the bit areas)
    Junk    \* everything else a caller can pass as a value

Area == {"holding_registers", "input_registers", "coils", "discrete_inputs"}

Datum == UNION {Value[area] : area \in Area} \cup Junk

ASSUME ValueAssumption ==
    /\ DOMAIN Value = Area
    /\ \A area \in Area : Value[area] \cap Junk = {}

Extent == [first : Int, last : Int, readonly : BOOLEAN]

Covers(extent, address, count) ==
    /\ count > 0
    /\ extent.first <= address
    /\ address + count - 1 <= extent.last

Apart(e, f) == e.last < f.first \/ f.last < e.first

PairwiseApart(extents) == \A e, f \in extents : e # f => Apart(e, f)

Addresses(extents) == UNION {e.first .. e.last : e \in extents}

(***************************************************************************)
(* A range is served only when one extent covers all of it, even if it     *)
(* spans two extents that touch.  "ok" or the exception the call raises.   *)
(***************************************************************************)
ReadOutcome(extents, address, count) ==
    IF \E e \in extents : Covers(e, address, count)
      THEN "ok" ELSE "InvalidAddressError"

WriteOutcome(area, extents, address, values) ==
    LET home == {e \in extents : Covers(e, address, Len(values))}
    IN  CASE home = {} -> "InvalidAddressError"
          [] \E e \in home : e.readonly -> "ReadOnlyDataBlockError"
          [] OTHER -> IF \A i \in DOMAIN values : values[i] \in Value[area]
                        THEN "ok" ELSE "InvalidValueError"

Window(cells, address, count) == [i \in 1 .. count |-> cells[address + i - 1]]

Overlay(cells, address, values) ==
    [x \in DOMAIN cells |->
        IF x \in address .. (address + Len(values) - 1)
          THEN values[x - address + 1] ELSE cells[x]]
=============================================================================
