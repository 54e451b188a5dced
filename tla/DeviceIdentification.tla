------------------------ MODULE DeviceIdentification ------------------------
(***************************************************************************)
(* Read Device Identification (server.py): how the server selects the      *)
(* objects of a request and fits them into one PDU.                        *)
(*                                                                         *)
(* A table maps the ids of the objects a device has to the lengths of      *)
(* their values, after encoding.                                           *)
(***************************************************************************)
EXTENDS Naturals, Sequences, FiniteSets

\* _normalize_device_identification accepts these.
IsTable(table) ==
    \A i \in DOMAIN table : i \in 0 .. 255 /\ table[i] \in 0 .. 244

\* The object ids a read code gives access to.
Allowed(code, start) ==
    CASE code = 1 -> 0 .. 2
      [] code = 2 -> 0 .. 127
      [] code = 3 -> 0 .. 255
      [] OTHER -> {start}

\* _select_device_identification_objects: sorted, the k-th object is the one
\* that has k - 1 before it.
Selected(code, start, table) ==
    {i \in DOMAIN table : i \in Allowed(code, start) /\ i >= start}
Select(code, start, table) ==
    LET ids == Selected(code, start, table)
    IN  [k \in 1 .. Cardinality(ids) |->
            CHOOSE i \in ids : Cardinality({j \in ids : j < i}) = k - 1]

\* Mistake: room is kept for the unit id and the CRC of an RTU frame as well.
RemainingInFrame == 253 - 7 - 3

\* 253 bytes of a PDU less the function code and six bytes of MEI header
Remaining == 253 - 7

\* The bytes the first n objects of ids take, each with its id and length.
Size(ids, table, n) ==
    LET size[i \in 0 .. n] == IF i = 0 THEN 0 ELSE size[i - 1] + 2 + table[ids[i]]
    IN  size[n]

\* _fit_device_identification_objects: how many of the objects are sent
Fit(ids, table) ==
    CHOOSE n \in 0 .. Len(ids) :
        /\ Size(ids, table, n) <= Remaining
        /\ n < Len(ids) => Size(ids, table, n + 1) > Remaining

\* Mistake: the last object that was sent is asked for again.
NextObjectIdAgain(ids, n) == IF n < Len(ids) /\ n > 0 THEN ids[n] ELSE 0

\* The object the next request starts at, 0 when nothing follows.
NextObjectId(ids, n) == IF n < Len(ids) THEN ids[n + 1] ELSE 0

\* _device_identification_conformity_level
ConformityLevel(table) ==
    CASE \E i \in DOMAIN table : i >= 128 -> 131
      [] (\E i \in DOMAIN table : i > 2) /\ \A i \in DOMAIN table : i < 128 -> 130
      [] OTHER -> 129
=============================================================================
