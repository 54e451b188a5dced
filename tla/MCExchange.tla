----------------------------- MODULE MCExchange -----------------------------
(***************************************************************************)
(* An instance of Exchange: every helper with arguments at and beyond each *)
(* limit; peers that send up to two mistakes; every frame of a line with   *)
(* up to two flipped bits; identification tables with an id on each side   *)
(* of every limit of the read codes and the conformity levels, empty       *)
(* values, the longest, and two that fill a PDU together to the last byte, *)
(* or miss it by one.                                                      *)
(***************************************************************************)
EXTENDS Exchange

Standard(fc, fields, values) == Request("standard", fc, fields, values)
Custom(fc, payload) == Request("custom", fc, <<>>, payload)

Alternating(n) == [i \in 1 .. n |-> i % 2]
OneAt(n, k) == [i \in 1 .. n |-> IF i = k THEN 1 ELSE 0]
MCBitPattern(n) ==
    IF n <= 3 THEN [1 .. n -> {0, 1}]
    ELSE {Alternating(n), OneAt(n, 1), OneAt(n, n), [i \in 1 .. n |-> 1]}
MCWordPattern(n) == {[i \in 1 .. n |-> 256 * i + 7], [i \in 1 .. n |-> 65535]}

\* The arguments of helpers, good and bad.
Reads ==
    {Standard(1, <<0, n>>, <<>>) : n \in {0, 1, 3, 8, 9, 2000, 2001}} \cup
    {Standard(fc, <<258, n>>, <<>>) : fc \in {2, 3, 4}, n \in {1, 2, 125, 126}} \cup
    {Standard(3, <<a, 1>>, <<>>) : a \in {-1, 65535, 65536}}
Writes ==
    {Standard(5, <<a>>, <<v>>) : a \in {0, 65535, 65536}, v \in {0, 1, 2}} \cup
    {Standard(6, <<a, v>>, <<>>) : a \in {-1, 513}, v \in {-1, 0, 4660, 65535, 65536}} \cup
    {Standard(15, <<300>>, v) :
        v \in UNION {MCBitPattern(n) : n \in {1, 2, 3, 8, 9, 1968, 1969}} \cup {<<0, 2>>, <<>>}} \cup
    {Standard(16, <<300>>, v) :
        v \in UNION {MCWordPattern(n) : n \in {1, 2, 123, 124}} \cup {<<0, 65536>>, <<>>}} \cup
    {Standard(22, <<1, 65535, m>>, <<>>) : m \in {0, 4660, 65536}}
ReadWrites ==
    {Standard(23, <<1, n, 770>>, v) :
        n \in {0, 2, 125, 126}, v \in UNION {MCWordPattern(k) : k \in {1, 121, 122, 123}}}
Identifications ==
    {Standard(43, <<code, id>>, <<>>) : code \in 0 .. 5, id \in {0, 255, 256}}

\* A custom function, with an answer that begins with a byte count and one
\* that does not; another MEI type; and classes with codes of the library.
Customs ==
    {Custom(65, <<2, 7, 8>>), Custom(65, <<>>), Custom(43, <<13, 1>>),
     Custom(43, <<14, 1, 0>>), Custom(3, <<0, 0, 0, 1>>), Custom(1, <<0, 0, 0, 1>>)}

Short ==
    {Standard(1, <<1, 3>>, <<>>), Standard(2, <<1, 9>>, <<>>), Standard(3, <<1, 1>>, <<>>),
     Standard(4, <<2, 1>>, <<>>), Standard(5, <<2>>, <<1>>), Standard(6, <<2, 5>>, <<>>),
     Standard(15, <<2>>, <<1, 0, 1>>), Standard(16, <<2>>, <<5>>),
     Standard(22, <<2, 5, 1>>, <<>>), Standard(23, <<2, 1, 3>>, <<4>>),
     Standard(43, <<4, 2>>, <<>>), Standard(43, <<1, 0>>, <<>>)}

\* Up to two mistakes: a byte changed, missing or added at the end.
Value == {0, 1, 2, 8, 255}
Changed(s) == {[s EXCEPT ![i] = v] : i \in DOMAIN s, v \in Value}
Resized(s) == {SubSeq(s, 1, n) : n \in 0 .. Len(s)} \cup {Append(s, v) : v \in Value}
MCNear(s) == UNION {Changed(t) \cup Resized(t) : t \in Changed(s) \cup Resized(s)}

EmptyTable == [i \in {} |-> 0]
Small == (0 :> 2) @@ (2 :> 1)
MCSession ==
    LET S(kind, link, q, tries, bits, table) ==
            [kind |-> kind, link |-> link, request |-> q, registrations |-> tries,
             flips |-> bits, table |-> table]
    IN  {S("call", "tcp", q, 0, 0, EmptyTable) :
            q \in Reads \cup Writes \cup ReadWrites \cup Identifications} \cup
        {S("call", "tcp", q, 2, 0, Small) :
            q \in Customs \cup {Standard(3, <<1, 1>>, <<>>), Standard(43, <<1, 0>>, <<>>)}} \cup
        {S("foreign_answer", link, q, 1, 0, Small) : link \in {"tcp", "rtu"}, q \in Customs} \cup
        {S("foreign_request", "tcp", q, 0, 0, Small) : q \in Short} \cup
        {S("foreign_answer", link, q, 0, 0, Small) : link \in {"tcp", "rtu"}, q \in Short} \cup
        {S("device", "rtu", q, 0, 2, Small) : q \in Short} \cup
        {S("device", link, q, 2, 0, Small) : link \in {"tcp", "rtu"}, q \in Customs} \cup
        {S("walk", "tcp", Standard(43, <<code, first>>, <<>>), 0, 0, table) :
            code \in 1 .. 4, first \in {0, 3},
            table \in UNION {[ids -> {0, 121, 122, 244}] :
                               ids \in SUBSET {0, 2, 3, 128} \cup SUBSET {0, 127, 128}}}

MCCode == {3, 43, 65, 128}
MCDecoder == {"d1", "d2"}
=============================================================================
