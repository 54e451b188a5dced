---------------------------- MODULE AddressSpace ----------------------------
(***************************************************************************)
(* What a datastore promises its callers, as a state machine: a store is   *)
(* built once, from extents that do not overlap, and from then on every    *)
(* read returns the last values written and every write either replaces    *)
(* exactly the cells it names or changes nothing.                          *)
(***************************************************************************)
EXTENDS AddressRanges

VARIABLES
    status,   \* "unbuilt", "rejected" (constructor raised) or "ready"
    extents,  \* extents[area]: the contiguous ranges the area serves
    cells,    \* cells[area]: what each served address holds
    answer    \* what the last call returned or raised

vars == <<status, extents, cells, answer>>

Outcome == {"ok", "InvalidAddressError", "ReadOnlyDataBlockError",
            "InvalidValueError", "ValueError"}

Reply(outcome, values) == [outcome |-> outcome, values |-> values]

Init ==
    /\ status = "unbuilt"
    /\ extents = [area \in Area |-> {}]
    /\ cells = [area \in Area |-> <<>>]
    /\ answer = Reply("ok", <<>>)

Build ==
    /\ status = "unbuilt"
    /\ status' = "ready"
    /\ extents' \in [Area -> SUBSET Extent]
    /\ \A area \in Area :
          /\ PairwiseApart(extents'[area])
          /\ cells'[area] \in [Addresses(extents'[area]) -> Datum]
    /\ answer' = Reply("ok", <<>>)

Reject ==
    /\ status = "unbuilt"
    /\ status' = "rejected"
    /\ answer' = Reply("ValueError", <<>>)
    /\ UNCHANGED <<extents, cells>>

\* After a rejection there is no store; the caller may try again.
Discard ==
    /\ status = "rejected"
    /\ status' = "unbuilt"
    /\ answer' = Reply("ok", <<>>)
    /\ UNCHANGED <<extents, cells>>

Get(area, address, count) ==
    /\ status = "ready"
    /\ LET outcome == ReadOutcome(extents[area], address, count)
       IN  answer' = Reply(outcome,
                           IF outcome = "ok"
                             THEN Window(cells[area], address, count)
                             ELSE <<>>)
    /\ UNCHANGED <<status, extents, cells>>

Set(area, address, values) ==
    /\ status = "ready"
    /\ LET outcome == WriteOutcome(area, extents[area], address, values)
       IN  /\ answer' = Reply(outcome, <<>>)
           /\ cells' = IF outcome = "ok"
                         THEN [cells EXCEPT ![area] =
                                  Overlay(@, address, values)]
                         ELSE cells
    /\ UNCHANGED <<status, extents>>

CONSTANTS Start, Count, Write  \* the arguments callers pass

Next ==
    \/ Build
    \/ Reject
    \/ Discard
    \/ \E area \in Area, address \in Start :
          \/ \E count \in Count : Get(area, address, count)
          \/ \E values \in Write : Set(area, address, values)

Spec == Init /\ [][Next]_vars
=============================================================================
