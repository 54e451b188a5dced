-------------------------- MODULE ModbusServerProofs --------------------------
(***************************************************************************)
(* Proofs about ModbusServer: for any number of connections, any frames,   *)
(* any datastore and any writes of the application, the responses of a     *)
(* connection follow its requests, and no more than one of them waits in   *)
(* the server for a client that does not read.                             *)
(***************************************************************************)
EXTENDS ModbusServer, TLAPS

-----------------------------------------------------------------------------
(***************************************************************************)
(* What handle_request does for every request it can be given, over every  *)
(* datastore whose registers hold 16 bits: the lemmas that the proofs      *)
(* about the connections of the server cite.                               *)
(***************************************************************************)

\* What the cells of an area may hold for a read of them to be packed.
Held(area) == IF area \in {"holding_registers", "input_registers"} THEN Word ELSE Datum

PlainStore(store) ==
    /\ store = [area \in Area |-> store[area]]
    /\ \A area \in Area : store[area] \in [Addresses(Extents[area]) -> Held(area)]

(***************************************************************************)
(* The function code of a response.                                        *)
(***************************************************************************)
\* Whatever handle_request does, its response has the request's function code.
LEMMA ResponseCode ==
    ASSUME NEW pdu, NEW store
    PROVE  HandleRequest(pdu, store).response.fc = pdu.fc
<1>1. ASSUME NEW fc, NEW st, NEW values
      PROVE  Answered(fc, values, st).response.fc = fc
  BY DEF Answered
<1>2. ASSUME NEW fc, NEW st, NEW code
      PROVE  Refused(fc, code, st).response.fc = fc
  BY DEF Refused
<1>3. ASSUME NEW fc, NEW st, NEW area, NEW address, NEW count
      PROVE  HandleRead(fc, st, area, address, count).response.fc = fc
  BY <1>1, <1>2 DEF HandleRead
<1>4. ASSUME NEW fc, NEW st, NEW area, NEW address, NEW values
      PROVE  HandleWrite(fc, st, area, address, values).response.fc = fc
  BY <1>1, <1>2 DEF HandleWrite
<1>5. ASSUME NEW fc, NEW st, NEW address, NEW and_mask, NEW or_mask
      PROVE  HandleMaskWrite(fc, st, address, and_mask, or_mask).response.fc = fc
  BY <1>3, <1>4 DEF HandleMaskWrite
<1>6. ASSUME NEW fc, NEW st, NEW read_address, NEW read_count, NEW address, NEW values
      PROVE  HandleReadWrite(fc, st, read_address, read_count, address, values).response.fc = fc
  BY <1>3, <1>4 DEF HandleReadWrite
<1> QED BY <1>1, <1>2, <1>3, <1>4, <1>5, <1>6 DEF HandleRequest

-----------------------------------------------------------------------------
(***************************************************************************)
(* Reads and writes.                                                       *)
(***************************************************************************)
LEMMA WordFacts ==
    /\ Word \subseteq Datum
    /\ \A area \in Area : Held(area) \subseteq Datum /\ Value[area] \subseteq Held(area)
<1>1. \A area \in Area : Value[area] \subseteq Datum
  BY DEF Datum
<1>2. Value["holding_registers"] = Word /\ Value["input_registers"] = Word
  BY WordAssumption
<1>3. "holding_registers" \in Area
  BY DEF Area
<1> QED BY <1>1, <1>2, <1>3 DEF Held

RefusalForm(result) ==
    result.response.kind \in ExceptionCode /\ result.response.values = <<>>

\* A range that is served lies in the area.
LEMMA CoveredRange ==
    ASSUME NEW area \in Area, NEW e \in Extents[area], NEW address \in Int, NEW count \in Nat,
           Covers(e, address, count), NEW i \in 1 .. count
    PROVE  address + i - 1 \in Addresses(Extents[area])
<1>1. e.first \in Int /\ e.last \in Int
  BY ExtentAssumption DEF Extent
<1>2. address + i - 1 \in e.first .. e.last
  BY <1>1 DEF Covers
<1> QED BY <1>2 DEF Addresses

\* A read changes nothing; when it is not refused it returns what is stored.
LEMMA ReadFacts ==
    ASSUME NEW store, PlainStore(store), NEW fc, NEW area \in Area,
           NEW address \in Int, NEW count \in Nat
    PROVE  LET result == HandleRead(fc, store, area, address, count)
           IN  /\ result.store = store
               /\ IsRefused(result) => RefusalForm(result)
               /\ ~ IsRefused(result) =>
                     /\ result.response.kind = "normal"
                     /\ result.response.values \in Seq(Held(area))
                     /\ Len(result.response.values) = count
                     /\ count > 0
                     /\ result.response.values = Window(store[area], address, count)
<1> DEFINE outcome == ReadOutcome(Extents[area], address, count)
<1>1. CASE outcome = "ok"
  <2>1. PICK e \in Extents[area] : Covers(e, address, count)
    BY <1>1 DEF ReadOutcome
  <2>2. \A i \in 1 .. count : store[area][address + i - 1] \in Held(area)
    BY <2>1, CoveredRange DEF PlainStore
  <2> DEFINE w == Window(store[area], address, count)
  <2>3. w \in [1 .. count -> Held(area)]
    BY <2>2 DEF Window
  <2>4. w \in Seq(Held(area)) /\ Len(w) = count
    <3> HIDE DEF w
    <3> QED BY <2>3
  <2>5. count > 0
    BY <2>1 DEF Covers
  <2>6. HandleRead(fc, store, area, address, count) = Answered(fc, w, store)
    BY <1>1 DEF HandleRead
  <2> HIDE DEF w
  <2>7. HandleRead(fc, store, area, address, count) =
          [response |-> [fc |-> fc, kind |-> "normal", values |-> w], store |-> store]
    BY <2>6 DEF Answered
  <2>8. ~ IsRefused(HandleRead(fc, store, area, address, count))
    BY <2>7 DEF IsRefused
  <2> QED BY <2>4, <2>5, <2>7, <2>8 DEF w
<1>2. CASE outcome # "ok"
  <2>1. HandleRead(fc, store, area, address, count) = Refused(fc, CodeFor(outcome), store)
    BY <1>2 DEF HandleRead
  <2> QED BY <2>1 DEF Refused, CodeFor, IsRefused, RefusalForm, ExceptionCode
<1> QED BY <1>1, <1>2

\* A write that is refused changes nothing, and no write another area.
LEMMA WriteFacts ==
    ASSUME NEW store, PlainStore(store), NEW fc, NEW area \in Area,
           NEW address \in Int, NEW values \in Seq(Datum)
    PROVE  LET result == HandleWrite(fc, store, area, address, values)
           IN  /\ PlainStore(result.store)
               /\ IsRefused(result) => result.store = store /\ RefusalForm(result)
               /\ ~ IsRefused(result) => result.response.kind = "normal"
                                           /\ result.response.values = <<>>
               /\ \A other \in Area \ {area} : result.store[other] = store[other]
<1> DEFINE outcome == WriteOutcome(area, Extents[area], address, values)
           overlaid == Overlay(store[area], address, values)
           new == [store EXCEPT ![area] = overlaid]
<1>1. CASE outcome = "ok"
  <2>1. \A i \in DOMAIN values : values[i] \in Held(area)
    BY <1>1, WordFacts DEF WriteOutcome
  <2>2. store[area] \in [Addresses(Extents[area]) -> Held(area)]
    BY DEF PlainStore
  <2>3. Addresses(Extents[area]) \subseteq Int
    BY ExtentAssumption DEF Addresses, Extent
  <2>4. overlaid \in [Addresses(Extents[area]) -> Held(area)]
    <3>1. DOMAIN store[area] = Addresses(Extents[area])
      BY <2>2
    <3>2. Len(values) \in Nat /\ DOMAIN values = 1 .. Len(values)
      OBVIOUS
    <3>3. ASSUME NEW x \in Addresses(Extents[area])
          PROVE  (IF x \in address .. (address + Len(values) - 1)
                    THEN values[x - address + 1] ELSE store[area][x]) \in Held(area)
      <4>1. CASE x \in address .. (address + Len(values) - 1)
        <5>1. x - address + 1 \in 1 .. Len(values)
          BY <2>3, <3>2, <4>1
        <5> QED BY <2>1, <3>2, <4>1, <5>1
      <4>2. CASE x \notin address .. (address + Len(values) - 1)
        BY <2>2, <4>2
      <4> QED BY <4>1, <4>2
    <3> QED BY <3>1, <3>3 DEF Overlay
  <2> HIDE DEF overlaid
  <2>5. new[area] = overlaid /\ \A other \in Area \ {area} : new[other] = store[other]
    BY DEF PlainStore
  <2>6. new = [a \in Area |-> new[a]]
    BY DEF PlainStore
  <2> HIDE DEF new
  <2>7. PlainStore(new)
    <3>1. \A other \in Area : store[other] \in [Addresses(Extents[other]) -> Held(other)]
      BY DEF PlainStore
    <3> QED BY <2>4, <2>5, <2>6, <3>1 DEF PlainStore
  <2>8. HandleWrite(fc, store, area, address, values) = Answered(fc, <<>>, new)
    BY <1>1 DEF HandleWrite, new, overlaid
  <2> QED BY <2>5, <2>7, <2>8 DEF Answered, IsRefused
<1>2. CASE outcome # "ok"
  <2>1. HandleWrite(fc, store, area, address, values) = Refused(fc, CodeFor(outcome), store)
    BY <1>2 DEF HandleWrite
  <2> QED BY <2>1 DEF Refused, CodeFor, IsRefused, RefusalForm, ExceptionCode
<1> QED BY <1>1, <1>2

-----------------------------------------------------------------------------
(***************************************************************************)
(* Whole requests.                                                         *)
(***************************************************************************)
ReadAddress(pdu) == IF pdu.fc = "READ_WRITE_MULTIPLE_REGISTERS"
                      THEN pdu.read_address ELSE pdu.address

\* What a request does: it keeps the types of the store, changes it only when
\* it is answered and only in the area of its function code, its response can
\* be packed, and what a read returns is what the store then holds.
Sound(fc, address, store, result) ==
    /\ PlainStore(result.store)
    /\ ~ EncodeRaises(result.response)
    /\ result.response.kind \in ExceptionCode \cup {"normal"}
    /\ result.response.values \in Seq(Datum)
    /\ result.store # store =>
          /\ result.response.kind = "normal" /\ fc \in WriteCode
          /\ \A area \in Area \ {AreaOf(fc)} : result.store[area] = store[area]
    /\ LET values == result.response.values
       IN  result.response.kind = "normal" /\ Len(values) > 0 =>
              values = Window(result.store[AreaOf(fc)], address, Len(values))

LEMMA RefusedSound ==
    ASSUME NEW store, PlainStore(store), NEW fc, NEW address, NEW result,
           result.store = store, RefusalForm(result)
    PROVE  Sound(fc, address, store, result)
BY DEF Sound, EncodeRaises, RefusalForm, ExceptionCode

LEMMA EmptySound ==
    ASSUME NEW store, NEW fc, NEW address, NEW result, PlainStore(result.store),
           result.response.values = <<>>, result.response.kind = "normal",
           result.store # store => fc \in WriteCode,
           \A area \in Area \ {AreaOf(fc)} : result.store[area] = store[area]
    PROVE  Sound(fc, address, store, result)
<1>1. /\ DOMAIN result.response.values = {} /\ Len(result.response.values) = 0
      /\ result.response.values \in Seq(Datum)
  OBVIOUS
<1> QED BY <1>1 DEF Sound, EncodeRaises

\* A read of the area of its function code, after a write that kept the rest.
LEMMA ReadSound ==
    ASSUME NEW store, NEW between, PlainStore(between), NEW fc,
           NEW address \in Int, NEW count \in Nat, NEW result,
           result = HandleRead(fc, between, AreaOf(fc), address, count),
           ~ IsRefused(result), AreaOf(fc) \in Area,
           between # store =>
              /\ fc \in WriteCode
              /\ \A area \in Area \ {AreaOf(fc)} : between[area] = store[area]
    PROVE  Sound(fc, address, store, result)
<1>1. /\ result.store = between /\ result.response.kind = "normal"
      /\ result.response.values \in Seq(Held(AreaOf(fc)))
      /\ Len(result.response.values) = count
      /\ result.response.values = Window(between[AreaOf(fc)], address, count)
  BY ReadFacts
<1>2. result.response.fc = fc
  BY DEF HandleRead, Answered, Refused
<1>3. ~ EncodeRaises(result.response)
  <2>1. \A i \in DOMAIN result.response.values :
           result.response.values[i] \in Held(AreaOf(fc))
    BY <1>1
  <2> QED BY <1>2, <2>1 DEF EncodeRaises, Held
<1>4. result.response.values \in Seq(Datum)
  BY <1>1, WordFacts
<1> QED BY <1>1, <1>3, <1>4 DEF Sound

LEMMA WriteSound ==
    ASSUME NEW store, PlainStore(store), NEW fc \in WriteCode, AreaOf(fc) \in Area,
           NEW address \in Int, NEW values \in Seq(Datum), NEW at
    PROVE  Sound(fc, at, store, HandleWrite(fc, store, AreaOf(fc), address, values))
<1>1. PICK area \in Area : area = AreaOf(fc)
  OBVIOUS
<1> DEFINE write == HandleWrite(fc, store, area, address, values)
<1>2. /\ PlainStore(write.store)
      /\ IsRefused(write) => write.store = store /\ RefusalForm(write)
      /\ ~ IsRefused(write) => write.response.kind = "normal"
                                /\ write.response.values = <<>>
      /\ \A other \in Area \ {area} : write.store[other] = store[other]
  BY WriteFacts
<1> HIDE DEF write
<1>3. Sound(fc, at, store, write)
  BY <1>1, <1>2, RefusedSound, EmptySound
<1> QED BY <1>1, <1>3 DEF write

LEMMA MaskWriteSound ==
    ASSUME NEW store, PlainStore(store), NEW fc, fc = "MASK_WRITE_REGISTER",
           NEW address \in Int, NEW and_mask \in Word, NEW or_mask \in Word
    PROVE  Sound(fc, address, store, HandleMaskWrite(fc, store, address, and_mask, or_mask))
<1> DEFINE read == HandleRead(fc, store, "holding_registers", address, 1)
           values == <<Masked(read.response.values[1], and_mask, or_mask)>>
           write == HandleWrite(fc, store, "holding_registers", address, values)
           result == HandleMaskWrite(fc, store, address, and_mask, or_mask)
<1> SUFFICES Sound(fc, address, store, result)
  OBVIOUS
<1>1. "holding_registers" \in Area
  BY DEF Area
<1>2. read.store = store /\ (IsRefused(read) => RefusalForm(read))
  BY <1>1, ReadFacts
<1>3. CASE IsRefused(read)
  <2>1. result = read
    BY <1>3 DEF HandleMaskWrite
  <2> HIDE DEF result, read
  <2> QED BY <1>2, <1>3, <2>1, RefusedSound
<1>4. CASE ~ IsRefused(read)
  <2>1. read.response.values \in Seq(Word) /\ Len(read.response.values) = 1
    <3>1. Held("holding_registers") = Word /\ 1 \in Nat
      BY DEF Held
    <3>2. ASSUME NEW area \in Area, NEW count \in Nat,
                 ~ IsRefused(HandleRead(fc, store, area, address, count))
          PROVE  LET values_read == HandleRead(fc, store, area, address, count).response.values
                 IN  values_read \in Seq(Held(area)) /\ Len(values_read) = count
      BY <3>2, ReadFacts
    <3>3. /\ read.response.values \in Seq(Held("holding_registers"))
          /\ Len(read.response.values) = 1
      BY <1>1, <1>4, <3>1, <3>2
    <3> HIDE DEF read
    <3> QED BY <3>1, <3>3
  <2>2. read.response.values[1] \in Word
    <3> HIDE DEF read
    <3> QED BY <2>1
  <2>3. Masked(read.response.values[1], and_mask, or_mask) \in Word
    BY <2>2 DEF Masked, Word
  <2>4. values \in Seq(Datum)
    BY <2>3, WordFacts
  <2>5. result = write
    BY <1>4 DEF HandleMaskWrite
  <2> HIDE DEF values, read
  <2>6. /\ PlainStore(write.store)
        /\ IsRefused(write) => write.store = store /\ RefusalForm(write)
        /\ ~ IsRefused(write) => write.response.kind = "normal"
                                  /\ write.response.values = <<>>
        /\ \A area \in Area \ {"holding_registers"} : write.store[area] = store[area]
    BY <1>1, <2>4, WriteFacts
  <2>7. fc \in WriteCode /\ AreaOf(fc) = "holding_registers"
    BY DEF WriteCode, AreaOf
  <2> HIDE DEF write, result
  <2>8. CASE IsRefused(write)
    BY <2>5, <2>6, <2>8, RefusedSound
  <2>9. CASE ~ IsRefused(write)
    BY <2>5, <2>6, <2>7, <2>9, EmptySound
  <2> QED BY <2>8, <2>9
<1> QED BY <1>3, <1>4

LEMMA ReadWriteSound ==
    ASSUME NEW store, PlainStore(store), NEW fc, fc = "READ_WRITE_MULTIPLE_REGISTERS",
           NEW read_address \in Int, NEW read_count \in Nat,
           NEW address \in Int, NEW values \in Seq(Datum)
    PROVE  Sound(fc, read_address, store,
                 HandleReadWrite(fc, store, read_address, read_count, address, values))
<1> DEFINE read == HandleRead(fc, store, "holding_registers", read_address, read_count)
           write == HandleWrite(fc, store, "holding_registers", address, values)
           last == HandleRead(fc, write.store, "holding_registers", read_address, read_count)
           result == HandleReadWrite(fc, store, read_address, read_count, address, values)
<1> SUFFICES Sound(fc, read_address, store, result)
  OBVIOUS
<1>1. "holding_registers" \in Area
  BY DEF Area
<1>2. fc \in WriteCode /\ AreaOf(fc) = "holding_registers"
  BY DEF WriteCode, AreaOf
<1>3. read.store = store /\ (IsRefused(read) => RefusalForm(read))
  BY <1>1, ReadFacts
<1>4. /\ PlainStore(write.store)
      /\ IsRefused(write) => write.store = store /\ RefusalForm(write)
      /\ \A area \in Area \ {"holding_registers"} : write.store[area] = store[area]
  BY <1>1, WriteFacts
<1>5. /\ IsRefused(read) => result = read
      /\ ~ IsRefused(read) /\ IsRefused(write) => result = write
      /\ ~ IsRefused(read) /\ ~ IsRefused(write) => result = last
  BY DEF HandleReadWrite
<1>6. ~ IsRefused(read) => ~ IsRefused(last)
  BY DEF HandleRead, IsRefused, Answered, Refused, CodeFor, ReadOutcome
<1> HIDE DEF result, read, write
<1>7. CASE IsRefused(read)
  BY <1>3, <1>5, <1>7, RefusedSound
<1>8. CASE ~ IsRefused(read) /\ IsRefused(write)
  BY <1>4, <1>5, <1>8, RefusedSound
<1>9. CASE ~ IsRefused(read) /\ ~ IsRefused(write)
  <2>1. result = HandleRead(fc, write.store, AreaOf(fc), read_address, read_count)
    BY <1>2, <1>5, <1>9
  <2>2. ~ IsRefused(result)
    BY <1>5, <1>6, <1>9
  <2> QED BY <1>1, <1>2, <1>4, <2>1, <2>2, ReadSound
<1> QED BY <1>7, <1>8, <1>9

LEMMA HandleRequestSound ==
    ASSUME NEW store, PlainStore(store), NEW pdu, HasFields(pdu)
    PROVE  Sound(pdu.fc, ReadAddress(pdu), store, HandleRequest(pdu, store))
<1> DEFINE result == HandleRequest(pdu, store)
<1>1. AreaOf(pdu.fc) \in Area
  BY DEF AreaOf, Area
<1>2. CASE pdu.fc \in ReadCode
  <2>1. result = HandleRead(pdu.fc, store, AreaOf(pdu.fc), pdu.address, pdu.count)
    BY <1>2 DEF HandleRequest, ReadCode, WriteCode
  <2>2. pdu.address \in Int /\ pdu.count \in Nat /\ ReadAddress(pdu) = pdu.address
    BY <1>2 DEF HasFields, ReadAddress, ReadCode
  <2>3. result.store = store /\ (IsRefused(result) => RefusalForm(result))
    BY <1>1, <2>1, <2>2, ReadFacts
  <2> HIDE DEF result
  <2> QED BY <1>1, <2>1, <2>2, <2>3, RefusedSound, ReadSound DEF result
<1>3. CASE pdu.fc = "MASK_WRITE_REGISTER"
  <2>1. result = HandleMaskWrite(pdu.fc, store, pdu.address, pdu.and_mask, pdu.or_mask)
    BY <1>3 DEF HandleRequest, ReadCode, WriteCode
  <2>2. /\ pdu.address \in Int /\ pdu.and_mask \in Word /\ pdu.or_mask \in Word
        /\ ReadAddress(pdu) = pdu.address
    BY <1>3 DEF HasFields, ReadAddress
  <2> QED BY <1>3, <2>1, <2>2, MaskWriteSound
<1>4. CASE pdu.fc = "READ_WRITE_MULTIPLE_REGISTERS"
  <2>1. result = HandleReadWrite(pdu.fc, store, pdu.read_address, pdu.read_count,
                                 pdu.address, pdu.values)
    BY <1>4 DEF HandleRequest, ReadCode, WriteCode
  <2>2. /\ pdu.address \in Int /\ pdu.values \in Seq(Datum)
        /\ pdu.read_address \in Int /\ pdu.read_count \in Nat
        /\ ReadAddress(pdu) = pdu.read_address
    BY <1>4 DEF HasFields, ReadAddress, WriteCode
  <2> QED BY <1>4, <2>1, <2>2, ReadWriteSound
<1>5. CASE pdu.fc \in WriteCode \ {"MASK_WRITE_REGISTER", "READ_WRITE_MULTIPLE_REGISTERS"}
  <2>1. result = HandleWrite(pdu.fc, store, AreaOf(pdu.fc), pdu.address, pdu.values)
    BY <1>5 DEF HandleRequest, ReadCode, WriteCode
  <2>2. pdu.address \in Int /\ pdu.values \in Seq(Datum) /\ pdu.fc \in WriteCode
    BY <1>5 DEF HasFields
  <2>3. \A at : Sound(pdu.fc, at, store,
                    HandleWrite(pdu.fc, store, AreaOf(pdu.fc), pdu.address, pdu.values))
    BY <1>1, <2>2, WriteSound
  <2> HIDE DEF result
  <2>4. Sound(pdu.fc, ReadAddress(pdu), store, result)
    BY <2>1, <2>3
  <2> QED BY <2>4 DEF result
<1>6. CASE pdu.fc \notin ReadCode \cup WriteCode
  <2>1. /\ result.store = store
        /\ RefusalForm(result) \/ (result.response.kind = "normal"
                                  /\ result.response.values = <<>>)
    <3>1. \/ result = Refused(pdu.fc, "ILLEGAL_DATA_ADDRESS", store)
          \/ result = Answered(pdu.fc, <<>>, store)
          \/ result = Refused(pdu.fc, "ILLEGAL_FUNCTION", store)
      BY <1>6 DEF HandleRequest, ReadCode, WriteCode
    <3> QED BY <3>1 DEF Refused, Answered, RefusalForm, ExceptionCode
  <2> HIDE DEF result
  <2> QED BY <2>1, RefusedSound, EmptySound DEF result
<1> QED BY <1>2, <1>3, <1>4, <1>5, <1>6

-----------------------------------------------------------------------------

(***************************************************************************)
(* What a task has before it, and which request each piece is of.          *)
(***************************************************************************)
\* The header that the task has read, and the pieces it has not.
Queue(c) == IF pc[c] = "body" THEN <<header[c]>> \o inbox[c] ELSE inbox[c]

IsSequence(s) == s \in Seq({s[i] : i \in DOMAIN s})

\* A slot says that the next piece is a header, or the PDU, of a request.
HeaderOf(n) == [of |-> n, kind |-> "header"]
PDUOf(n) == [of |-> n, kind |-> "pdu"]
After(slot, piece) ==
    CASE slot.kind = "header" /\ piece.length = 2 -> PDUOf(slot.of)
      [] slot.kind = "header" /\ piece.length = 0 -> slot
      [] OTHER -> HeaderOf(slot.of + 1)

PDUs == {f.pdu : f \in Sendable}

\* The piece is what the requests a, and the frame s that is half sent, say.
Fits(a, s, slot, piece) ==
    IF slot.kind = "pdu"
    THEN slot.of <= Len(a) /\ a[slot.of].fc = piece.fc /\ piece \in PDUs
    ELSE /\ piece \in Header
         /\ piece.length = 1 =>
              slot.of <= Len(a) /\ a[slot.of] = [tid |-> piece.tid, unit |-> piece.unit,
                                                fc |-> "NONE"]
         /\ piece.length = 2 =>
              IF slot.of <= Len(a)
                THEN a[slot.of].tid = piece.tid /\ a[slot.of].unit = piece.unit
                ELSE s # <<>> /\ s[1].header = piece

Slots(a) == [of : 1 .. Len(a) + 1, kind : {"header", "pdu"}]

Planned(q, a, s, n, slot) ==
    /\ slot[1] = HeaderOf(n + 1)
    /\ slot[Len(q) + 1] = IF s = <<>> THEN HeaderOf(Len(a) + 1) ELSE PDUOf(Len(a) + 1)
    /\ \A i \in 1 .. Len(q) : slot[i + 1] = After(slot[i], q[i]) /\ Fits(a, s, slot[i], q[i])

\* With the first n requests of a answered, the pieces of q are those of the
\* rest, in order; s is the frame of which only the header was sent.
Plan(q, a, s, n) ==
    /\ IsSequence(q) /\ IsSequence(a)
    /\ \E slot \in [1 .. Len(q) + 1 -> Slots(a)] : Planned(q, a, s, n, slot)

(***************************************************************************)
(* The inductive invariant.                                                *)
(***************************************************************************)
Ordered(c) ==
    /\ IsSequence(inbox[c]) /\ IsSequence(answered[c])
    /\ sending[c] = <<>> \/ \E f \in Frame[c] : sending[c] = <<f>>
    /\ pc[c] = "body" => header[c].length # 0
    /\ pc[c] \notin {"closing", "closed"} =>
          Plan(Queue(c), asked[c], sending[c], Len(answered[c]))

Buffered(c) ==
    /\ unread[c] \in 0 .. Absorbed + 1
    /\ pc[c] \in {"unconnected", "header", "body"} => unread[c] <= Absorbed

\* AnswersFollowRequests, of one connection.
Follows(c) ==
    /\ Len(answered[c]) <= Len(asked[c])
    /\ \A i \in DOMAIN answered[c] :
          /\ answered[c][i].tid = asked[c][i].tid
          /\ answered[c][i].unit = asked[c][i].unit
          /\ answered[c][i].fc = asked[c][i].fc

CInv(c) == Follows(c) /\ Ordered(c) /\ Buffered(c)

OnConns ==
    /\ DOMAIN pc = Conn /\ DOMAIN header = Conn /\ DOMAIN link = Conn
    /\ DOMAIN sending = Conn /\ DOMAIN inbox = Conn /\ DOMAIN asked = Conn
    /\ DOMAIN answered = Conn /\ DOMAIN unread = Conn

SInv == OnConns /\ \A c \in Conn : CInv(c)

-----------------------------------------------------------------------------
(***************************************************************************)
(* Sequences.                                                              *)
(***************************************************************************)
\* A sequence is one over its own elements.
LEMMA SequenceOver ==
    ASSUME NEW T, NEW s \in Seq(T)
    PROVE  IsSequence(s)
<1> DEFINE U == {s[i] : i \in DOMAIN s}
<1>1. Len(s) \in Nat /\ DOMAIN s = 1 .. Len(s) /\ s = [i \in 1 .. Len(s) |-> s[i]]
  OBVIOUS
<1>2. s \in [1 .. Len(s) -> U]
  BY <1>1
<1>3. s \in Seq(U)
  <2> HIDE DEF U
  <2> QED BY <1>1, <1>2
<1> QED BY <1>3 DEF IsSequence

\* What Append and Tail do to one.
LEMMA AppendFacts ==
    ASSUME NEW s, IsSequence(s), NEW x
    PROVE  /\ IsSequence(Append(s, x)) /\ Append(s, x) # <<>>
           /\ Len(s) \in Nat /\ Len(Append(s, x)) = Len(s) + 1
           /\ DOMAIN s = 1 .. Len(s)
           /\ \A i \in 1 .. Len(s) : Append(s, x)[i] = s[i]
           /\ Append(s, x)[Len(s) + 1] = x
<1>1. PICK U : U = {s[i] : i \in DOMAIN s}
  OBVIOUS
<1>2. s \in Seq(U)
  BY <1>1 DEF IsSequence
<1>3. s \in Seq(U \cup {x}) /\ Append(s, x) \in Seq(U \cup {x})
  BY <1>2
<1>4. IsSequence(Append(s, x))
  BY <1>3, SequenceOver
<1> QED BY <1>2, <1>4

LEMMA TailFacts ==
    ASSUME NEW s, IsSequence(s), s # <<>>
    PROVE  /\ IsSequence(Tail(s))
           /\ Len(s) \in Nat \ {0} /\ Len(Tail(s)) = Len(s) - 1
           /\ Head(s) = s[1]
           /\ \A i \in 1 .. Len(s) - 1 : Tail(s)[i] = s[i + 1]
<1>1. PICK U : U = {s[i] : i \in DOMAIN s}
  OBVIOUS
<1>2. s \in Seq(U)
  BY <1>1 DEF IsSequence
<1>3. Tail(s) \in Seq(U)
  BY <1>2
<1>4. IsSequence(Tail(s))
  BY <1>3, SequenceOver
<1> QED BY <1>2, <1>4

\* A header that was read stands before what was not.
LEMMA ConsFacts ==
    ASSUME NEW s, IsSequence(s), NEW x
    PROVE  /\ IsSequence(<<x>> \o s) /\ <<x>> \o s # <<>>
           /\ (<<x>> \o s)[1] = x /\ Tail(<<x>> \o s) = s
           /\ Len(<<x>> \o s) = Len(s) + 1
           /\ \A i \in 1 .. Len(s) : (<<x>> \o s)[i + 1] = s[i]
           /\ \A y : <<x>> \o Append(s, y) = Append(<<x>> \o s, y)
           /\ s # <<>> => <<Head(s)>> \o Tail(s) = s
<1>1. PICK U : U = {s[i] : i \in DOMAIN s}
  OBVIOUS
<1>2. s \in Seq(U)
  BY <1>1 DEF IsSequence
<1>3. s \in Seq(U \cup {x}) /\ <<x>> \in Seq(U \cup {x}) /\ <<x>> \o s \in Seq(U \cup {x})
  BY <1>2
<1>4. IsSequence(<<x>> \o s)
  BY <1>3, SequenceOver
<1>5. /\ <<x>> \o s # <<>> /\ (<<x>> \o s)[1] = x
      /\ Len(<<x>> \o s) = Len(s) + 1
      /\ \A i \in 1 .. Len(s) : (<<x>> \o s)[i + 1] = s[i]
  BY <1>3
<1>6. Tail(<<x>> \o s) = s
  BY <1>3, <1>5
<1>7. \A y : <<x>> \o Append(s, y) = Append(<<x>> \o s, y)
  <2> TAKE y
  <2>1. PICK V : V = U \cup {x, y}
    OBVIOUS
  <2>2. s \in Seq(V) /\ <<x>> \in Seq(V) /\ y \in V
    BY <1>2, <2>1
  <2> QED BY <2>2
<1>8. s # <<>> => <<Head(s)>> \o Tail(s) = s
  <2> HAVE s # <<>>
  <2>1. Head(s) \in U /\ Tail(s) \in Seq(U)
    BY <1>2
  <2>2. <<Head(s)>> \in Seq(U)
    BY <2>1
  <2> QED BY <1>2, <2>1, <2>2
<1> QED BY <1>4, <1>5, <1>6, <1>7, <1>8
-----------------------------------------------------------------------------
(***************************************************************************)
(* What a client and its task do to the plan.                              *)
(***************************************************************************)
LEMMA PlanEmpty == Plan(<<>>, <<>>, <<>>, 0)
<1> DEFINE slot == [i \in {1} |-> HeaderOf(1)]
<1>1. IsSequence(<<>>)
  BY DEF IsSequence
<1>2. slot \in [1 .. Len(<<>>) + 1 -> Slots(<<>>)]
  BY DEF Slots, HeaderOf
<1>3. Planned(<<>>, <<>>, <<>>, 0, slot)
  BY DEF Planned
<1> QED BY <1>1, <1>2, <1>3 DEF Plan

\* A header is appended to the queue: a request of its own if there is no PDU.
LEMMA PlanHeader ==
    ASSUME NEW q, NEW a, NEW n \in Nat, Plan(q, a, <<>>, n), NEW f,
           f.header \in Header, f.header.length = 1 => f.pdu.fc = "NONE"
    PROVE  Plan(Append(q, f.header),
                IF f.header.length = 1 THEN Append(a, Request(f)) ELSE a,
                IF f.header.length = 2 THEN <<f>> ELSE <<>>, n)
<1>1. PICK slot \in [1 .. Len(q) + 1 -> Slots(a)] : Planned(q, a, <<>>, n, slot)
  BY DEF Plan
<1>p. PICK p : p = f.header
  OBVIOUS
<1> DEFINE r == Request(f)
           b == IF p.length = 1 THEN Append(a, r) ELSE a
           s == IF p.length = 2 THEN <<f>> ELSE <<>>
           end == IF s = <<>> THEN HeaderOf(Len(b) + 1) ELSE PDUOf(Len(b) + 1)
           more == [i \in 1 .. Len(q) + 2 |-> IF i <= Len(q) + 1 THEN slot[i] ELSE end]
<1>2. /\ IsSequence(q) /\ Len(q) \in Nat /\ IsSequence(Append(q, p))
      /\ Len(Append(q, p)) = Len(q) + 1
      /\ \A i \in 1 .. Len(q) : Append(q, p)[i] = q[i]
      /\ Append(q, p)[Len(q) + 1] = p
  BY AppendFacts DEF Plan
<1>3. /\ IsSequence(b) /\ Len(a) \in Nat
      /\ Len(b) = IF p.length = 1 THEN Len(a) + 1 ELSE Len(a)
      /\ \A i \in 1 .. Len(a) : b[i] = a[i]
      /\ p.length = 1 => b[Len(a) + 1] = r
  BY AppendFacts DEF Plan
<1>4. /\ p \in Header /\ p.length \in 0 .. 2
      /\ p.length = 1 => r = [tid |-> p.tid, unit |-> p.unit, fc |-> "NONE"]
  BY <1>p DEF Header, Request
<1>5. s = <<>> <=> p.length # 2
  OBVIOUS
<1>6. p.length = 2 => s[1] = f
  OBVIOUS
<1> HIDE DEF b, s, r
<1>7. end \in Slots(b)
  BY <1>3 DEF Slots, HeaderOf, PDUOf
<1>8. more \in [1 .. Len(q) + 2 -> Slots(b)]
  <2>1. Slots(a) \subseteq Slots(b)
    BY <1>3 DEF Slots
  <2> HIDE DEF end
  <2> QED BY <1>2, <1>7, <2>1
<1>9. slot[Len(q) + 1] = HeaderOf(Len(a) + 1)
  BY <1>1 DEF Planned
<1>10. end = After(HeaderOf(Len(a) + 1), p)
  BY <1>3, <1>4, <1>5 DEF After, HeaderOf, PDUOf
<1>11. Fits(b, s, HeaderOf(Len(a) + 1), p)
  BY <1>3, <1>4, <1>5, <1>6, <1>p DEF Fits, HeaderOf
<1> HIDE DEF end
<1>12. \A i \in 1 .. Len(q) : Fits(b, s, slot[i], q[i])
  <2> TAKE i \in 1 .. Len(q)
  <2>1. /\ slot[i] \in Slots(a) /\ Fits(a, <<>>, slot[i], q[i])
    BY <1>1, <1>2 DEF Planned
  <2>2. slot[i].of \in 1 .. Len(a) + 1 /\ slot[i].kind \in {"header", "pdu"}
    BY <2>1 DEF Slots
  <2>3. CASE slot[i].kind = "pdu"
    BY <1>3, <2>1, <2>2, <2>3 DEF Fits
  <2>4. CASE slot[i].kind = "header"
    <3>1. /\ q[i] \in Header
          /\ q[i].length \in {1, 2} => slot[i].of <= Len(a)
      BY <2>1, <2>4 DEF Fits
    <3> QED BY <1>3, <2>1, <2>2, <2>4, <3>1 DEF Fits
  <2> QED BY <2>2, <2>3, <2>4
<1>13. Planned(Append(q, p), b, s, n, more)
  <2>1. more[1] = HeaderOf(n + 1)
    BY <1>1, <1>2 DEF Planned
  <2>2. more[Len(Append(q, p)) + 1] = end
    BY <1>2
  <2>3. ASSUME NEW i \in 1 .. Len(q) + 1
        PROVE  more[i + 1] = After(more[i], Append(q, p)[i]) /\ Fits(b, s, more[i], Append(q, p)[i])
    <3>1. CASE i = Len(q) + 1
      <4>1. more[i] = HeaderOf(Len(a) + 1) /\ more[i + 1] = end /\ Append(q, p)[i] = p
        BY <1>2, <1>9, <3>1
      <4> QED BY <1>10, <1>11, <4>1
    <3>2. CASE i \in 1 .. Len(q)
      <4>1. more[i] = slot[i] /\ more[i + 1] = slot[i + 1] /\ Append(q, p)[i] = q[i]
        BY <1>2, <3>2
      <4> QED BY <1>1, <1>12, <3>2, <4>1 DEF Planned
    <3> QED BY <1>2, <3>1, <3>2
  <2> QED BY <1>2, <2>1, <2>2, <2>3 DEF Planned, end
<1>14. Plan(Append(q, p), b, s, n)
  <2>1. Len(Append(q, p)) + 1 = Len(q) + 2
    BY <1>2
  <2> HIDE DEF more
  <2> QED BY <1>2, <1>3, <1>8, <1>13, <2>1 DEF Plan
<1> QED BY <1>14, <1>p DEF b, s, r

\* The PDU that completes the request of the last header is appended.
LEMMA PlanPDU ==
    ASSUME NEW q, NEW a, NEW n \in Nat, NEW f \in Sendable, Plan(q, a, <<f>>, n)
    PROVE  Plan(Append(q, f.pdu), Append(a, Request(f)), <<>>, n)
<1>1. PICK slot \in [1 .. Len(q) + 1 -> Slots(a)] : Planned(q, a, <<f>>, n, slot)
  BY DEF Plan
<1>p. PICK p, r : p = f.pdu /\ r = Request(f)
  OBVIOUS
<1> DEFINE b == Append(a, r)
           end == HeaderOf(Len(b) + 1)
           more == [i \in 1 .. Len(q) + 2 |-> IF i <= Len(q) + 1 THEN slot[i] ELSE end]
<1>2. /\ IsSequence(q) /\ Len(q) \in Nat /\ IsSequence(Append(q, p))
      /\ Len(Append(q, p)) = Len(q) + 1
      /\ \A i \in 1 .. Len(q) : Append(q, p)[i] = q[i]
      /\ Append(q, p)[Len(q) + 1] = p
  BY AppendFacts DEF Plan
<1>3. /\ IsSequence(b) /\ Len(a) \in Nat /\ Len(b) = Len(a) + 1
      /\ \A i \in 1 .. Len(a) : b[i] = a[i]
      /\ b[Len(a) + 1] = r
  BY AppendFacts DEF Plan
<1>4. r.fc = p.fc /\ r.tid = f.header.tid /\ r.unit = f.header.unit /\ p \in PDUs
  BY <1>p DEF Request, PDUs
<1> HIDE DEF b
<1>7. end \in Slots(b)
  BY <1>3 DEF Slots, HeaderOf
<1>8. more \in [1 .. Len(q) + 2 -> Slots(b)]
  <2>1. Slots(a) \subseteq Slots(b)
    BY <1>3 DEF Slots
  <2> HIDE DEF end
  <2> QED BY <1>2, <1>7, <2>1
<1>9. slot[Len(q) + 1] = PDUOf(Len(a) + 1)
  BY <1>1 DEF Planned
<1>10. end = After(PDUOf(Len(a) + 1), p)
  BY <1>3 DEF After, HeaderOf, PDUOf
<1>11. Fits(b, <<>>, PDUOf(Len(a) + 1), p)
  BY <1>3, <1>4 DEF Fits, PDUOf
<1> HIDE DEF end
<1>12. \A i \in 1 .. Len(q) : Fits(b, <<>>, slot[i], q[i])
  <2> TAKE i \in 1 .. Len(q)
  <2>1. /\ slot[i] \in Slots(a) /\ Fits(a, <<f>>, slot[i], q[i])
    BY <1>1, <1>2, SMTT(30) DEF Planned
  <2>2. slot[i].of \in 1 .. Len(a) + 1 /\ slot[i].kind \in {"header", "pdu"}
    BY <2>1 DEF Slots
  <2>3. CASE slot[i].kind = "pdu"
    BY <1>3, <2>1, <2>2, <2>3 DEF Fits
  <2>4. CASE slot[i].kind = "header" /\ slot[i].of <= Len(a)
    BY <1>3, <2>1, <2>2, <2>4 DEF Fits
  <2>5. CASE slot[i].kind = "header" /\ slot[i].of = Len(a) + 1
    <3>1. /\ q[i] \in Header /\ q[i].length # 1
          /\ q[i].length = 2 => f.header = q[i]
      BY <1>3, <2>1, <2>5 DEF Fits
    <3> QED BY <1>3, <1>4, <2>5, <3>1 DEF Fits
  <2> QED BY <1>3, <2>2, <2>3, <2>4, <2>5
<1>13. Planned(Append(q, p), b, <<>>, n, more)
  <2>1. more[1] = HeaderOf(n + 1)
    BY <1>1, <1>2 DEF Planned
  <2>2. more[Len(Append(q, p)) + 1] = end
    BY <1>2
  <2>3. ASSUME NEW i \in 1 .. Len(q) + 1
        PROVE  /\ more[i + 1] = After(more[i], Append(q, p)[i])
               /\ Fits(b, <<>>, more[i], Append(q, p)[i])
    <3>1. CASE i = Len(q) + 1
      <4>1. more[i] = PDUOf(Len(a) + 1) /\ more[i + 1] = end /\ Append(q, p)[i] = p
        BY <1>2, <1>9, <3>1
      <4> QED BY <1>10, <1>11, <4>1
    <3>2. CASE i \in 1 .. Len(q)
      <4>1. more[i] = slot[i] /\ more[i + 1] = slot[i + 1] /\ Append(q, p)[i] = q[i]
        BY <1>2, <3>2
      <4> QED BY <1>1, <1>12, <3>2, <4>1 DEF Planned
    <3> QED BY <1>2, <3>1, <3>2
  <2> QED BY <1>2, <2>1, <2>2, <2>3 DEF Planned, end
<1>14. Plan(Append(q, p), b, <<>>, n)
  <2>1. Len(Append(q, p)) + 1 = Len(q) + 2
    BY <1>2
  <2> HIDE DEF more
  <2> QED BY <1>2, <1>3, <1>8, <1>13, <2>1 DEF Plan
<1> QED BY <1>14, <1>p DEF b

\* What comes first in the queue is a header; one that is a request of its own
\* is the next to answer.
LEMMA PlanNext ==
    ASSUME NEW q, NEW a, NEW s, NEW n \in Nat, Plan(q, a, s, n), q # <<>>
    PROVE  /\ q[1] \in Header
           /\ q[1].length = 1 =>
                 /\ n + 1 <= Len(a)
                 /\ a[n + 1] = [tid |-> q[1].tid, unit |-> q[1].unit, fc |-> "NONE"]
                 /\ Plan(Tail(q), a, s, n + 1)
<1>1. PICK slot \in [1 .. Len(q) + 1 -> Slots(a)] : Planned(q, a, s, n, slot)
  BY DEF Plan
<1>2. /\ Len(q) \in Nat \ {0} /\ IsSequence(Tail(q)) /\ Len(Tail(q)) = Len(q) - 1
      /\ \A i \in 1 .. Len(q) - 1 : Tail(q)[i] = q[i + 1]
  BY TailFacts DEF Plan
<1>3. /\ slot[1] = HeaderOf(n + 1) /\ Fits(a, s, HeaderOf(n + 1), q[1])
      /\ slot[2] = After(HeaderOf(n + 1), q[1])
  <2>1. 1 \in 1 .. Len(q) /\ 1 + 1 = 2
    BY <1>2
  <2> QED BY <1>1, <2>1 DEF Planned
<1>4. q[1] \in Header
  BY <1>3 DEF Fits, HeaderOf
<1>5. ASSUME q[1].length = 1
      PROVE  /\ n + 1 <= Len(a)
             /\ a[n + 1] = [tid |-> q[1].tid, unit |-> q[1].unit, fc |-> "NONE"]
             /\ Plan(Tail(q), a, s, n + 1)
  <2> DEFINE rest == [i \in 1 .. Len(q) |-> slot[i + 1]]
  <2>1. slot[2] = HeaderOf(n + 2)
    BY <1>3, <1>5 DEF After, HeaderOf
  <2>2. rest \in [1 .. Len(q) -> Slots(a)]
    BY <1>2
  <2>3. Planned(Tail(q), a, s, n + 1, rest)
    <3>1. rest[1] = HeaderOf(n + 2) /\ rest[Len(q)] = slot[Len(q) + 1]
      BY <1>2, <2>1
    <3>2. \A i \in 1 .. Len(q) - 1 :
             /\ rest[i] = slot[i + 1] /\ rest[i + 1] = slot[(i + 1) + 1]
             /\ Tail(q)[i] = q[i + 1] /\ i + 1 \in 1 .. Len(q)
      BY <1>2
    <3>3. \A i \in 1 .. Len(q) - 1 :
             rest[i + 1] = After(rest[i], Tail(q)[i]) /\ Fits(a, s, rest[i], Tail(q)[i])
      BY <1>1, <3>2 DEF Planned
    <3>4. slot[Len(q) + 1] = IF s = <<>> THEN HeaderOf(Len(a) + 1) ELSE PDUOf(Len(a) + 1)
      BY <1>1 DEF Planned
    <3>5. Len(Tail(q)) = Len(q) - 1 /\ Len(Tail(q)) + 1 = Len(q) /\ (n + 1) + 1 = n + 2
      BY <1>2
    <3> HIDE DEF rest
    <3> QED BY <3>1, <3>3, <3>4, <3>5 DEF Planned
  <2>4. Plan(Tail(q), a, s, n + 1)
    <3>1. Len(Tail(q)) + 1 = Len(q)
      BY <1>2
    <3> HIDE DEF rest
    <3> QED BY <1>2, <2>2, <2>3, <3>1 DEF Plan
  <2> QED BY <1>3, <1>5, <2>4 DEF Fits, HeaderOf
<1> QED BY <1>4, <1>5

\* One with a PDU is the next to answer once that has arrived.
LEMMA PlanNextTwo ==
    ASSUME NEW q, NEW a, NEW s, NEW n \in Nat, Plan(q, a, s, n), q # <<>>,
           q[1].length = 2, Tail(q) # <<>>
    PROVE  /\ n + 1 <= Len(a)
           /\ a[n + 1].tid = q[1].tid /\ a[n + 1].unit = q[1].unit
           /\ a[n + 1].fc = Tail(q)[1].fc /\ Tail(q)[1] \in PDUs
           /\ Plan(Tail(Tail(q)), a, s, n + 1)
<1>1. PICK slot \in [1 .. Len(q) + 1 -> Slots(a)] : Planned(q, a, s, n, slot)
  BY DEF Plan
<1>2. /\ Len(q) \in Nat \ {0} /\ IsSequence(Tail(q)) /\ Len(Tail(q)) = Len(q) - 1
      /\ \A i \in 1 .. Len(q) - 1 : Tail(q)[i] = q[i + 1]
  BY TailFacts DEF Plan
<1>t. PICK t : t = Tail(Tail(q))
  OBVIOUS
<1>3. /\ Len(Tail(q)) \in Nat \ {0} /\ IsSequence(t) /\ Len(t) = Len(q) - 2
      /\ \A i \in 1 .. Len(q) - 2 : t[i] = Tail(q)[i + 1]
  <2>1. /\ Len(Tail(q)) \in Nat \ {0} /\ IsSequence(t) /\ Len(t) = Len(Tail(q)) - 1
        /\ \A i \in 1 .. Len(Tail(q)) - 1 : t[i] = Tail(q)[i + 1]
    BY <1>2, <1>t, TailFacts
  <2>2. Len(Tail(q)) - 1 = Len(q) - 2
    BY <1>2
  <2> QED BY <2>1, <2>2
<1>4. /\ Len(q) \in Nat /\ Len(q) >= 2
      /\ \A i \in 1 .. Len(q) - 2 : t[i] = q[i + 2]
  <2>1. Len(q) >= 2
    BY <1>2, <1>3
  <2>2. \A i \in 1 .. Len(q) - 2 : i + 1 \in 1 .. Len(q) - 1 /\ (i + 1) + 1 = i + 2
    BY <1>2
  <2> QED BY <1>2, <1>3, <2>1, <2>2
<1>5. /\ slot[1] = HeaderOf(n + 1) /\ Fits(a, s, HeaderOf(n + 1), q[1])
      /\ slot[2] = After(HeaderOf(n + 1), q[1])
      /\ Fits(a, s, slot[2], q[2]) /\ slot[3] = After(slot[2], q[2])
  <2>1. 1 \in 1 .. Len(q) /\ 2 \in 1 .. Len(q) /\ 1 + 1 = 2 /\ 2 + 1 = 3
    BY <1>4
  <2> QED BY <1>1, <2>1 DEF Planned
<1>6. slot[2] = PDUOf(n + 1)
  BY <1>5 DEF After, HeaderOf
<1>7. slot[3] = HeaderOf(n + 2)
  BY <1>5, <1>6 DEF After, PDUOf, HeaderOf
<1>8. /\ n + 1 <= Len(a) /\ a[n + 1].fc = q[2].fc /\ q[2] \in PDUs
      /\ a[n + 1].tid = q[1].tid /\ a[n + 1].unit = q[1].unit
  BY <1>5, <1>6 DEF Fits, PDUOf, HeaderOf
<1> DEFINE rest == [i \in 1 .. Len(q) - 1 |-> slot[i + 2]]
<1>9. rest \in [1 .. Len(q) - 1 -> Slots(a)]
  BY <1>4
<1>10. Planned(t, a, s, n + 1, rest)
  <2>1. rest[1] = HeaderOf(n + 2) /\ rest[Len(q) - 1] = slot[Len(q) + 1]
    <3>1. 1 \in 1 .. Len(q) - 1 /\ Len(q) - 1 \in 1 .. Len(q) - 1
          /\ (Len(q) - 1) + 2 = Len(q) + 1 /\ 1 + 2 = 3
      BY <1>4
    <3> QED BY <1>7, <3>1
  <2>2. \A i \in 1 .. Len(q) - 2 :
           /\ rest[i] = slot[i + 2] /\ rest[i + 1] = slot[(i + 2) + 1]
           /\ t[i] = q[i + 2] /\ i + 2 \in 1 .. Len(q)
    BY <1>4
  <2>3. \A i \in 1 .. Len(q) - 2 : rest[i + 1] = After(rest[i], t[i]) /\ Fits(a, s, rest[i], t[i])
    BY <1>1, <2>2 DEF Planned
  <2>4. slot[Len(q) + 1] = IF s = <<>> THEN HeaderOf(Len(a) + 1) ELSE PDUOf(Len(a) + 1)
    BY <1>1 DEF Planned
  <2>5. Len(t) = Len(q) - 2 /\ Len(t) + 1 = Len(q) - 1 /\ (n + 1) + 1 = n + 2
    BY <1>3, <1>4
  <2> HIDE DEF rest
  <2> QED BY <2>1, <2>3, <2>4, <2>5 DEF Planned
<1>11. Plan(t, a, s, n + 1)
  <2>1. Len(t) + 1 = Len(q) - 1
    BY <1>3, <1>4
  <2> HIDE DEF rest
  <2> QED BY <1>3, <1>9, <1>10, <2>1 DEF Plan
<1>12. Tail(q)[1] = q[2]
  BY <1>2, <1>4
<1> QED BY <1>t, <1>8, <1>11, <1>12

-----------------------------------------------------------------------------
(***************************************************************************)
(* The answer to a PDU.                                                    *)
(***************************************************************************)
LEMMA ResultCode ==
    ASSUME NEW c \in Conn
    PROVE  Result(c).response.fc = Body(c).fc
BY ResponseCode DEF Result, ExceptionTo
-----------------------------------------------------------------------------
(***************************************************************************)
(* The invariant, connection by connection.                                *)
(***************************************************************************)
LEMMA InitOrdered == Init => SInv
<1> SUFFICES ASSUME Init PROVE SInv
  OBVIOUS
<1>1. OnConns
  BY DEF Init, OnConns
<1>2. ASSUME NEW c \in Conn PROVE CInv(c)
  <2>1. /\ pc[c] = "unconnected" /\ inbox[c] = <<>> /\ answered[c] = <<>> /\ asked[c] = <<>>
        /\ sending[c] = <<>> /\ unread[c] = 0
    BY DEF Init
  <2>2. Follows(c)
    BY <2>1 DEF Follows
  <2>3. Buffered(c)
    BY <2>1, FrameAssumption DEF Buffered
  <2>4. IsSequence(<<>>)
    BY DEF IsSequence
  <2>5. Plan(Queue(c), asked[c], sending[c], Len(answered[c]))
    BY <2>1, PlanEmpty DEF Queue
  <2>6. Ordered(c)
    BY <2>1, <2>4, <2>5 DEF Ordered
  <2> QED BY <2>2, <2>3, <2>6 DEF CInv
<1> QED BY <1>1, <1>2 DEF SInv

\* A step that leaves a connection alone leaves it as it was.
LEMMA Untouched ==
    ASSUME NEW c \in Conn, CInv(c),
           pc'[c] = pc[c], header'[c] = header[c], inbox'[c] = inbox[c],
           sending'[c] = sending[c], asked'[c] = asked[c],
           answered'[c] = answered[c], unread'[c] = unread[c]
    PROVE  CInv(c)'
<1>1. Queue(c)' = Queue(c)
  BY DEF Queue
<1>2. Follows(c)'
  BY DEF CInv, Follows
<1>3. Buffered(c)'
  BY DEF CInv, Buffered
<1>4. Ordered(c)'
  BY <1>1 DEF CInv, Ordered
<1> QED BY <1>2, <1>3, <1>4 DEF CInv

\* What a client does to its own connection.
LEMMA ClientKeeps ==
    ASSUME SInv, NEW c \in Conn, Client(c)
    PROVE  CInv(c)'
<1>1. OnConns /\ CInv(c) /\ Follows(c) /\ Ordered(c) /\ Buffered(c)
  BY DEF SInv, CInv
<1>a. Absorbed \in Nat
  BY FrameAssumption
<1>2. CASE Accept(c)
  <2>1. /\ pc[c] = "unconnected" /\ pc'[c] = "header"
        /\ UNCHANGED <<header, inbox, answered, unread, sending, asked>>
    BY <1>1, <1>2 DEF Accept, OnConns, clientVars
  <2>2. Queue(c)' = Queue(c)
    BY <2>1 DEF Queue
  <2> QED BY <1>1, <2>1, <2>2 DEF CInv, Follows, Ordered, Buffered
<1>3. ASSUME NEW f \in Frame[c], ClientHeader(c, f)
      PROVE  CInv(c)'
  <2>1. /\ Serving(c) /\ sending[c] = <<>>
        /\ inbox'[c] = Append(inbox[c], f.header)
        /\ sending'[c] = IF f.header.length = 2 THEN <<f>> ELSE <<>>
        /\ asked'[c] = IF f.header.length = 1 THEN Append(asked[c], Request(f)) ELSE asked[c]
        /\ UNCHANGED <<pc, header, answered, unread>>
    BY <1>1, <1>3 DEF ClientHeader, OnConns
  <2>2. f.header \in Header /\ (f.header.length = 1 => f.pdu.fc = "NONE")
    BY FrameAssumption
  <2>3. /\ IsSequence(inbox[c]) /\ Len(answered[c]) \in Nat
        /\ Plan(Queue(c), asked[c], <<>>, Len(answered[c]))
    BY <1>1, <2>1, AppendFacts DEF Ordered, Serving
  <2>4. Queue(c)' = Append(Queue(c), f.header)
    BY <2>1, <2>3, ConsFacts DEF Queue
  <2>5. Plan(Queue(c)', asked'[c], sending'[c], Len(answered'[c]))
    BY <2>1, <2>2, <2>3, <2>4, PlanHeader
  <2>6. IsSequence(inbox'[c])
    BY <2>1, <2>3, AppendFacts
  <2>7. Ordered(c)'
    BY <1>1, <2>1, <2>5, <2>6 DEF Ordered
  <2>8. Follows(c)'
    <3>1. IsSequence(asked[c]) /\ IsSequence(answered[c])
      BY <1>1, <2>3 DEF Plan, Ordered
    <3>2. /\ Len(asked[c]) \in Nat /\ Len(asked'[c]) \in Nat
          /\ Len(asked[c]) <= Len(asked'[c])
          /\ \A i \in 1 .. Len(asked[c]) : asked'[c][i] = asked[c][i]
      BY <2>1, <3>1, AppendFacts
    <3>3. DOMAIN answered[c] = 1 .. Len(answered[c])
      BY <3>1, AppendFacts
    <3> QED BY <1>1, <2>1, <2>3, <3>2, <3>3 DEF Follows
  <2>9. Buffered(c)'
    BY <1>1, <2>1 DEF Buffered
  <2> QED BY <2>7, <2>8, <2>9 DEF CInv
<1>4. CASE ClientBody(c)
  <2>1. /\ Serving(c) /\ sending[c] # <<>>
        /\ inbox'[c] = Append(inbox[c], sending[c][1].pdu)
        /\ asked'[c] = Append(asked[c], Request(sending[c][1]))
        /\ sending'[c] = <<>>
        /\ UNCHANGED <<pc, header, answered, unread>>
    BY <1>1, <1>4 DEF ClientBody, OnConns
  <2>2. PICK f \in Frame[c] : sending[c] = <<f>>
    BY <1>1, <2>1 DEF Ordered
  <2>3. /\ IsSequence(inbox[c]) /\ Len(answered[c]) \in Nat
        /\ Plan(Queue(c), asked[c], <<f>>, Len(answered[c]))
    BY <1>1, <2>1, <2>2, AppendFacts DEF Ordered, Serving
  <2>4. Queue(c)' = Append(Queue(c), f.pdu)
    BY <2>1, <2>2, <2>3, ConsFacts DEF Queue
  <2>5. Plan(Queue(c)', asked'[c], sending'[c], Len(answered'[c]))
    <3>1. f \in Sendable
      BY DEF Sendable
    <3> QED BY <2>1, <2>2, <2>3, <2>4, <3>1, PlanPDU
  <2>6. IsSequence(inbox'[c])
    BY <2>1, <2>3, AppendFacts
  <2>7. Ordered(c)'
    BY <1>1, <2>1, <2>5, <2>6 DEF Ordered
  <2>8. Follows(c)'
    <3>1. IsSequence(asked[c]) /\ IsSequence(answered[c])
      BY <1>1, <2>3 DEF Plan, Ordered
    <3>2. /\ Len(asked[c]) \in Nat /\ Len(asked'[c]) = Len(asked[c]) + 1
          /\ \A i \in 1 .. Len(asked[c]) : asked'[c][i] = asked[c][i]
      BY <2>1, <3>1, AppendFacts
    <3>3. DOMAIN answered[c] = 1 .. Len(answered[c])
      BY <3>1, AppendFacts
    <3> QED BY <1>1, <2>1, <2>3, <3>2, <3>3 DEF Follows
  <2>9. Buffered(c)'
    BY <1>1, <2>1 DEF Buffered
  <2> QED BY <2>7, <2>8, <2>9 DEF CInv
<1>5. CASE ClientReads(c)
  <2>1. /\ unread[c] > 0 /\ unread'[c] = unread[c] - 1
        /\ UNCHANGED <<pc, header, inbox, answered, sending, asked>>
    BY <1>1, <1>5 DEF ClientReads, OnConns, clientVars
  <2>2. Queue(c)' = Queue(c)
    BY <2>1 DEF Queue
  <2>3. Buffered(c)'
    BY <1>1, <1>a, <2>1 DEF Buffered
  <2> QED BY <1>1, <2>1, <2>2, <2>3 DEF CInv, Follows, Ordered
<1>6. ASSUME NEW how, ClientLeaves(c, how)
      PROVE  CInv(c)'
  <2>1. UNCHANGED <<pc, header, inbox, answered, sending, asked, unread>>
    BY <1>6 DEF ClientLeaves
  <2> QED BY <1>1, <2>1, Untouched
<1> QED BY <1>2, <1>3, <1>4, <1>5, <1>6 DEF Client

\* The PDU that the task consumes is the next request's, whatever is behind it.
Rest(c) == IF header[c].length = 1 THEN inbox[c] ELSE Tail(inbox[c])

LEMMA BodyConsumed ==
    ASSUME SInv, NEW c \in Conn, pc[c] = "body", BodyArrived(c)
    PROVE  /\ Len(answered[c]) + 1 <= Len(asked[c])
           /\ asked[c][Len(answered[c]) + 1].tid = header[c].tid
           /\ asked[c][Len(answered[c]) + 1].unit = header[c].unit
           /\ asked[c][Len(answered[c]) + 1].fc = Body(c).fc
           /\ Plan(Rest(c), asked[c], sending[c], Len(answered[c]) + 1)
           /\ IsSequence(Rest(c)) /\ IsSequence(asked[c])
           /\ Body(c) \in PDUs \cup {NoPDU}
           /\ header[c].length = 2 => inbox[c] # <<>>
<1>1. OnConns /\ Ordered(c)
  BY DEF SInv, CInv
<1>2. /\ IsSequence(inbox[c]) /\ Len(answered[c]) \in Nat
      /\ inbox[c] # <<>> => IsSequence(Tail(inbox[c])) /\ Head(inbox[c]) = inbox[c][1]
  BY <1>1, AppendFacts, TailFacts DEF Ordered
<1>3. /\ header[c].length # 0
      /\ Queue(c) = <<header[c]>> \o inbox[c]
      /\ Plan(Queue(c), asked[c], sending[c], Len(answered[c]))
  BY <1>1 DEF Ordered, Queue
<1>4. Queue(c) # <<>> /\ Queue(c)[1] = header[c] /\ Tail(Queue(c)) = inbox[c]
  <2>1. \A x : /\ <<x>> \o inbox[c] # <<>> /\ (<<x>> \o inbox[c])[1] = x
               /\ Tail(<<x>> \o inbox[c]) = inbox[c]
    BY <1>2, ConsFacts
  <2> QED BY <1>3, <2>1
<1>5. header[c].length \in {1, 2} /\ IsSequence(asked[c])
  <2>1. header[c] \in Header
    BY <1>2, <1>3, <1>4, PlanNext
  <2> QED BY <1>3, <2>1 DEF Header, Plan
<1>6. CASE header[c].length = 1
  <2>1. Body(c) = NoPDU /\ Body(c).fc = "NONE" /\ Rest(c) = inbox[c]
    BY <1>6 DEF Body, NoPDU, Rest
  <2>2. /\ Len(answered[c]) + 1 <= Len(asked[c])
        /\ asked[c][Len(answered[c]) + 1] =
             [tid |-> header[c].tid, unit |-> header[c].unit, fc |-> "NONE"]
        /\ Plan(Tail(Queue(c)), asked[c], sending[c], Len(answered[c]) + 1)
    BY <1>2, <1>3, <1>4, <1>6, PlanNext, ZenonT(60)
  <2>3. /\ asked[c][Len(answered[c]) + 1].tid = header[c].tid
        /\ asked[c][Len(answered[c]) + 1].unit = header[c].unit
        /\ asked[c][Len(answered[c]) + 1].fc = "NONE"
    BY <2>2
  <2>4. Plan(Rest(c), asked[c], sending[c], Len(answered[c]) + 1)
    BY <1>4, <2>1, <2>2
  <2>5. IsSequence(Rest(c)) /\ header[c].length # 2
    BY <1>2, <1>6, <2>1
  <2> QED BY <1>5, <2>1, <2>2, <2>3, <2>4, <2>5
<1>7. CASE header[c].length = 2
  <2>1. inbox[c] # <<>> /\ Rest(c) = Tail(inbox[c]) /\ Body(c) = inbox[c][1]
    BY <1>2, <1>7 DEF BodyArrived, Body, Rest
  <2>2. Queue(c)[1].length = 2 /\ Tail(Queue(c)) # <<>>
    BY <1>4, <1>7, <2>1
  <2>3. /\ Len(answered[c]) + 1 <= Len(asked[c])
        /\ asked[c][Len(answered[c]) + 1].tid = Queue(c)[1].tid
        /\ asked[c][Len(answered[c]) + 1].unit = Queue(c)[1].unit
        /\ asked[c][Len(answered[c]) + 1].fc = Tail(Queue(c))[1].fc
        /\ Tail(Queue(c))[1] \in PDUs
        /\ Plan(Tail(Tail(Queue(c))), asked[c], sending[c], Len(answered[c]) + 1)
    BY <1>2, <1>3, <1>4, <2>2, PlanNextTwo
  <2>4. /\ asked[c][Len(answered[c]) + 1].tid = header[c].tid
        /\ asked[c][Len(answered[c]) + 1].unit = header[c].unit
        /\ asked[c][Len(answered[c]) + 1].fc = Body(c).fc
        /\ Body(c) \in PDUs
        /\ Plan(Rest(c), asked[c], sending[c], Len(answered[c]) + 1)
    BY <1>4, <2>1, <2>3
  <2> QED BY <1>2, <1>5, <2>1, <2>3, <2>4
<1> QED BY <1>5, <1>6, <1>7

\* What the task does to its own connection.
LEMMA TaskKeeps ==
    ASSUME SInv, NEW c \in Conn, Task(c)
    PROVE  CInv(c)'
<1>1. OnConns /\ CInv(c) /\ Follows(c) /\ Ordered(c) /\ Buffered(c)
  BY DEF SInv, CInv
<1>a. Absorbed \in Nat
  BY FrameAssumption
<1>s. /\ IsSequence(inbox[c]) /\ IsSequence(answered[c])
      /\ Len(answered[c]) \in Nat /\ DOMAIN answered[c] = 1 .. Len(answered[c])
  BY <1>1, AppendFacts DEF Ordered
<1>t. inbox[c] # <<>> => IsSequence(Tail(inbox[c])) /\ Head(inbox[c]) = inbox[c][1]
  BY <1>s, TailFacts
<1>2. CASE ReadHeader(c)
  <2>1. /\ pc[c] = "header" /\ inbox[c] # <<>>
        /\ inbox'[c] = Tail(inbox[c]) /\ header'[c] = Head(inbox[c])
        /\ pc'[c] = IF HeaderAccepted(Head(inbox[c])) THEN "body" ELSE "closing"
        /\ UNCHANGED <<answered, unread, sending, asked>>
    BY <1>1, <1>2 DEF ReadHeader, OnConns, clientVars
  <2>2. Plan(inbox[c], asked[c], sending[c], Len(answered[c]))
    BY <1>1, <2>1 DEF Ordered, Queue
  <2>3. Head(inbox[c]) \in Header
    BY <1>s, <1>t, <2>1, <2>2, PlanNext
  <2>4. HeaderAccepted(Head(inbox[c])) => header'[c].length # 0
    BY <2>1, <2>3 DEF HeaderAccepted, Header
  <2>5. pc'[c] = "body" => Queue(c)' = inbox[c]
    BY <1>s, <2>1, ConsFacts, ZenonT(60) DEF Queue
  <2>6. Ordered(c)'
    BY <1>1, <1>s, <1>t, <2>1, <2>2, <2>4, <2>5 DEF Ordered
  <2> QED BY <1>1, <2>1, <2>6 DEF CInv, Follows, Buffered
<1>3. CASE ReadBody(c)
  <2> DEFINE stamp == Stamp(c, Result(c).response)
  <2>1. /\ pc[c] = "body" /\ BodyArrived(c)
        /\ inbox'[c] = Rest(c)
        /\ \/ /\ pc'[c] = "closing" /\ UNCHANGED <<answered, unread>>
           \/ /\ pc'[c] = "drain" /\ answered'[c] = Append(answered[c], stamp)
              /\ unread'[c] = unread[c] + 1
        /\ UNCHANGED <<header, sending, asked>>
    BY <1>1, <1>3 DEF ReadBody, OnConns, clientVars, Rest
  <2>2. /\ stamp.tid = header[c].tid /\ stamp.unit = header[c].unit
        /\ stamp.fc = Body(c).fc
    BY ResultCode DEF Stamp
  <2> HIDE DEF stamp
  <2>6. /\ Len(answered[c]) + 1 <= Len(asked[c])
        /\ asked[c][Len(answered[c]) + 1].tid = header[c].tid
        /\ asked[c][Len(answered[c]) + 1].unit = header[c].unit
        /\ asked[c][Len(answered[c]) + 1].fc = Body(c).fc
        /\ Plan(inbox'[c], asked[c], sending[c], Len(answered[c]) + 1)
        /\ IsSequence(inbox'[c]) /\ IsSequence(asked[c])
    BY <2>1, BodyConsumed
  <2>7. CASE pc'[c] = "closing" /\ UNCHANGED <<answered, unread>>
    BY <1>1, <2>1, <2>6, <2>7 DEF CInv, Follows, Ordered, Buffered
  <2>8. CASE /\ pc'[c] = "drain" /\ answered'[c] = Append(answered[c], stamp)
             /\ unread'[c] = unread[c] + 1
    <3>1. /\ IsSequence(answered'[c]) /\ Len(answered'[c]) = Len(answered[c]) + 1
          /\ DOMAIN answered'[c] = 1 .. Len(answered[c]) + 1
          /\ \A i \in 1 .. Len(answered[c]) : answered'[c][i] = answered[c][i]
          /\ answered'[c][Len(answered[c]) + 1] = stamp
      BY <1>s, <2>8, AppendFacts
    <3>2. Queue(c)' = inbox'[c]
      BY <2>8 DEF Queue
    <3>3. Ordered(c)'
      BY <1>1, <2>1, <2>6, <2>8, <3>1, <3>2 DEF Ordered
    <3>4. Follows(c)'
      <4>1. ASSUME NEW i \in DOMAIN answered'[c]
            PROVE  /\ answered'[c][i].tid = asked[c][i].tid
                   /\ answered'[c][i].unit = asked[c][i].unit
                   /\ answered'[c][i].fc = asked[c][i].fc
        <5>1. CASE i \in 1 .. Len(answered[c])
          BY <1>1, <1>s, <3>1, <5>1 DEF Follows
        <5>2. CASE i = Len(answered[c]) + 1
          BY <2>2, <2>6, <3>1, <5>2
        <5> QED BY <1>s, <3>1, <5>1, <5>2
      <4> QED BY <2>1, <2>6, <3>1, <4>1 DEF Follows
    <3>5. Buffered(c)'
      BY <1>1, <1>a, <2>1, <2>8 DEF Buffered
    <3> QED BY <3>3, <3>4, <3>5 DEF CInv
  <2> QED BY <2>1, <2>7, <2>8
<1>4. CASE Drained(c)
  <2>1. /\ pc[c] = "drain" /\ pc'[c] = "header" /\ unread[c] <= Absorbed
        /\ UNCHANGED <<header, inbox, answered, unread, sending, asked>>
    BY <1>1, <1>4 DEF Drained, OnConns, clientVars
  <2>2. Queue(c)' = Queue(c)
    BY <2>1 DEF Queue
  <2> QED BY <1>1, <2>1, <2>2 DEF CInv, Follows, Ordered, Buffered
<1>5. CASE LinkEnds(c)
  <2>1. /\ pc'[c] = "closing"
        /\ UNCHANGED <<header, inbox, answered, unread, sending, asked>>
    BY <1>1, <1>5 DEF LinkEnds, OnConns, clientVars
  <2> QED BY <1>1, <2>1 DEF CInv, Follows, Ordered, Buffered
<1>6. CASE Close(c)
  <2>1. /\ pc'[c] = "closed" /\ inbox'[c] = <<>>
        /\ UNCHANGED <<header, answered, unread, sending, asked>>
    BY <1>1, <1>6 DEF Close, OnConns, clientVars
  <2>2. IsSequence(<<>>)
    BY DEF IsSequence
  <2> QED BY <1>1, <2>1, <2>2 DEF CInv, Follows, Ordered, Buffered
<1> QED BY <1>2, <1>3, <1>4, <1>5, <1>6 DEF Task

\* A step of one connection leaves the others alone.
LEMMA OthersUntouched ==
    ASSUME SInv, NEW c \in Conn, Task(c) \/ Client(c), NEW d \in Conn, d # c
    PROVE  CInv(d)'
<1>1. OnConns /\ CInv(d)
  BY DEF SInv
<1>2. /\ pc'[d] = pc[d] /\ header'[d] = header[d] /\ inbox'[d] = inbox[d]
      /\ sending'[d] = sending[d] /\ asked'[d] = asked[d]
      /\ answered'[d] = answered[d] /\ unread'[d] = unread[d]
  <2>1. CASE Task(c)
    BY <1>1, <2>1 DEF Task, ReadHeader, ReadBody, Drained, LinkEnds, Close, OnConns, clientVars
  <2>2. CASE Client(c)
    BY <1>1, <2>2 DEF Client, Accept, ClientHeader, ClientBody, ClientReads, ClientLeaves,
                      OnConns, clientVars
  <2> QED BY <2>1, <2>2
<1> QED BY <1>1, <1>2, Untouched

LEMMA StepKeeps == SInv /\ [Next]_vars => SInv'
<1> SUFFICES ASSUME SInv, [Next]_vars PROVE SInv'
  OBVIOUS
<1>1. OnConns /\ \A c \in Conn : CInv(c)
  BY DEF SInv
<1>2. ASSUME NEW c \in Conn, Task(c) \/ Client(c)
      PROVE  SInv'
  <2>1. CInv(c)'
    BY <1>2, TaskKeeps, ClientKeeps
  <2>2. \A d \in Conn : CInv(d)'
    BY <1>2, <2>1, OthersUntouched
  <2>3. OnConns'
    <3>1. CASE Task(c)
      BY <1>1, <3>1 DEF Task, ReadHeader, ReadBody, Drained, LinkEnds, Close, OnConns, clientVars
    <3>2. CASE Client(c)
      BY <1>1, <3>2 DEF Client, Accept, ClientHeader, ClientBody, ClientReads, ClientLeaves,
                        OnConns, clientVars
    <3> QED BY <1>2, <3>1, <3>2
  <2> QED BY <2>2, <2>3 DEF SInv
<1>3. ASSUME UNCHANGED <<pc, header, link, inbox, sending, asked, answered, unread>>
      PROVE  SInv'
  <2>1. \A d \in Conn : CInv(d)'
    BY <1>1, <1>3, Untouched
  <2>2. OnConns'
    BY <1>1, <1>3 DEF OnConns
  <2> QED BY <2>1, <2>2 DEF SInv
<1>4. CASE \E w \in LocalWrite : LocalSet(w)
  BY <1>3, <1>4 DEF LocalSet, clientVars
<1>5. CASE UNCHANGED vars
  BY <1>3, <1>5 DEF vars
<1> QED BY <1>2, <1>4, <1>5 DEF Next

-----------------------------------------------------------------------------
\* On every connection of ModbusTcpServer what is still unread is the rest of
\* the requests, in order, behind the header the task holds across its await.
THEOREM ServerInvariant == Spec => []SInv
BY InitOrdered, StepKeeps, PTL DEF Spec

\* _handle_client answers the requests of a connection in the order they were
\* sent, each at most once and under its own transaction id, unit id and
\* function code, whatever other connections and the application do.
THEOREM AnswersFollowRequestsAlways == Spec => []AnswersFollowRequests
<1>1. SInv => AnswersFollowRequests
  BY DEF SInv, CInv, Follows, AnswersFollowRequests
<1> QED BY <1>1, ServerInvariant, PTL

\* _handle_client awaits drain after every write: a client that does not read
\* never has more than one response buffered beyond what its network took.
THEOREM OneResponseBuffered == Spec => [](\A c \in Conn : unread[c] \in 0 .. Absorbed + 1)
<1>1. SInv => \A c \in Conn : unread[c] \in 0 .. Absorbed + 1
  BY DEF SInv, CInv, Buffered
<1> QED BY <1>1, ServerInvariant, PTL
-----------------------------------------------------------------------------
(***************************************************************************)
(* What the requests do to the datastore, when its registers hold 16 bits  *)
(* at first: no request and no write of the application changes that.      *)
(***************************************************************************)
\* Every PDU that is decoded and handled has the effect its code allows.
LEMMA ResultSound ==
    ASSUME SInv, PlainStore(cells), NEW c \in Conn, pc[c] = "body", BodyArrived(c)
    PROVE  Sound(Body(c).fc, ReadAddress(Body(c)), cells, Result(c))
<1>1. Body(c) \in PDUs \cup {NoPDU}
  BY BodyConsumed
<1>2. CASE DecodeRequest(Body(c)) = "ok"
  <2>1. Body(c) # NoPDU
    BY <1>2 DEF DecodeRequest, NoPDU
  <2>2. HasFields(Body(c))
    BY <1>1, <1>2, <2>1, RequestAssumption DEF PDUs, Sendable
  <2>3. Result(c) = HandleRequest(Body(c), cells)
    BY <1>2 DEF Result
  <2> QED BY <2>2, <2>3, HandleRequestSound
<1>3. CASE DecodeRequest(Body(c)) # "ok"
  <2>1. /\ Result(c).store = cells
        /\ \/ Result(c).response = ExceptionTo(Body(c), "ILLEGAL_FUNCTION")
           \/ Result(c).response = ExceptionTo(Body(c), "ILLEGAL_DATA_VALUE")
    BY <1>3 DEF Result
  <2>2. RefusalForm(Result(c))
    BY <2>1 DEF ExceptionTo, RefusalForm, ExceptionCode
  <2> QED BY <2>1, <2>2, RefusedSound
<1> QED BY <1>2, <1>3

LEMMA LocalSetKeeps ==
    ASSUME PlainStore(cells), NEW w \in LocalWrite, LocalSet(w)
    PROVE  PlainStore(cells)'
<1>1. PICK fc, area \in Area, address \in Int, values \in Seq(Datum) :
         area = w.area /\ address = w.address /\ values = w.values
  BY LocalAssumption
<1>2. HandleWrite(fc, cells, area, address, values).store = cells'
  BY <1>1 DEF LocalSet, HandleWrite, Answered
<1>3. PlainStore(HandleWrite(fc, cells, area, address, values).store)
  BY WriteFacts
<1> QED BY <1>2, <1>3 DEF PlainStore

TInv == SInv /\ PlainStore(cells) /\ TypeOK

LEMMA InitTyped ==
    ASSUME PlainStore(InitialCells)
    PROVE  Init => TInv
<1> SUFFICES ASSUME Init PROVE TInv
  OBVIOUS
<1>1. SInv /\ PlainStore(cells)
  BY InitOrdered DEF Init
<1>2. NoHeader \in Header
  BY DEF NoHeader, Header
<1>3. \A T : <<>> \in Seq(T)
  OBVIOUS
<1>4. TypeOK
  BY <1>1, <1>2, <1>3, FrameAssumption, WordFacts DEF Init, TypeOK, PlainStore
<1> QED BY <1>1, <1>4 DEF TInv

LEMMA TypesKept ==
    ASSUME TInv, [Next]_vars
    PROVE  TInv'
<1>1. SInv /\ PlainStore(cells) /\ TypeOK
  BY DEF TInv
<1>2. SInv'
  BY <1>1, StepKeeps
<1>3. Absorbed \in Nat /\ MaxFrames \in Nat
  BY FrameAssumption
<1> DEFINE Asked == [tid : Nat, unit : Nat, fc : Code]
           Given == [tid : Nat, unit : Nat, fc : Code,
                     kind : ExceptionCode \cup {"normal"}, values : Seq(Datum)]
<1>4. /\ pc \in [Conn -> {"unconnected", "header", "body", "drain", "closing", "closed"}]
      /\ header \in [Conn -> Header]
      /\ link \in [Conn -> {"up", "eof", "reset"}]
      /\ sending \in [Conn -> {<<>>} \cup {<<f>> : f \in Sendable}]
      /\ asked \in [Conn -> Seq(Asked)] /\ answered \in [Conn -> Seq(Given)]
      /\ unread \in [Conn -> 0 .. Absorbed + 1] /\ sent \in 0 .. MaxFrames
  BY <1>1 DEF TypeOK
<1> DEFINE Typed ==
      /\ pc' \in [Conn -> {"unconnected", "header", "body", "drain", "closing", "closed"}]
      /\ header' \in [Conn -> Header]
      /\ link' \in [Conn -> {"up", "eof", "reset"}]
      /\ sending' \in [Conn -> {<<>>} \cup {<<f>> : f \in Sendable}]
      /\ asked' \in [Conn -> Seq(Asked)] /\ answered' \in [Conn -> Seq(Given)]
      /\ unread' \in [Conn -> 0 .. Absorbed + 1] /\ sent' \in 0 .. MaxFrames
<1>5. ASSUME NEW f \in Sendable
      PROVE  Request(f) \in Asked
  BY <1>5, FrameAssumption DEF Sendable, Request, Code, Header
<1> HIDE DEF Asked, Given
<1>6. unread' \in [Conn -> Int] => unread' \in [Conn -> 0 .. Absorbed + 1]
  BY <1>2, <1>3 DEF SInv, CInv, Buffered
<1>7. ASSUME NEW c \in Conn, Client(c)
      PROVE  Typed /\ cells' = cells
  <2>1. CASE Accept(c)
    BY <1>4, <2>1 DEF Accept, clientVars
  <2>2. ASSUME NEW f \in Frame[c], ClientHeader(c, f)
        PROVE  Typed /\ cells' = cells
    <3>1. f \in Sendable
      BY DEF Sendable
    <3>2. Request(f) \in Asked
      BY <1>5, <3>1
    <3>3. asked' \in [Conn -> Seq(Asked)]
      BY <1>4, <2>2, <3>2 DEF ClientHeader
    <3> QED BY <1>3, <1>4, <2>2, <3>1, <3>3 DEF ClientHeader
  <2>3. CASE ClientBody(c)
    <3>1. PICK f \in Sendable : sending[c] = <<f>>
      BY <1>4, <2>3 DEF ClientBody
    <3>2. Request(sending[c][1]) \in Asked
      BY <1>5, <3>1
    <3>3. asked' \in [Conn -> Seq(Asked)]
      BY <1>4, <2>3, <3>2 DEF ClientBody
    <3> QED BY <1>4, <2>3, <3>3 DEF ClientBody
  <2>4. CASE ClientReads(c)
    <3>1. unread' \in [Conn -> Int]
      BY <1>3, <1>4, <2>4 DEF ClientReads
    <3> QED BY <1>4, <1>6, <2>4, <3>1 DEF ClientReads, clientVars
  <2>5. ASSUME NEW how \in {"eof", "reset"}, ClientLeaves(c, how)
        PROVE  Typed /\ cells' = cells
    BY <1>4, <2>5 DEF ClientLeaves
  <2> QED BY <1>7, <2>1, <2>2, <2>3, <2>4, <2>5 DEF Client
<1>8. ASSUME NEW c \in Conn, Task(c)
      PROVE  Typed /\ PlainStore(cells)'
  <2>1. CASE ReadHeader(c)
    <3>1. Head(inbox[c]) \in Header
      <4>1. /\ pc[c] = "header" /\ inbox[c] # <<>> /\ Ordered(c)
        BY <1>1, <2>1 DEF ReadHeader, SInv, CInv
      <4>2. /\ IsSequence(inbox[c]) /\ IsSequence(answered[c])
            /\ Plan(inbox[c], asked[c], sending[c], Len(answered[c]))
        BY <4>1 DEF Ordered, Queue
      <4>3. Len(answered[c]) \in Nat /\ Head(inbox[c]) = inbox[c][1]
        BY <4>1, <4>2, AppendFacts, TailFacts
      <4> QED BY <4>1, <4>2, <4>3, PlanNext
    <3>2. header' \in [Conn -> Header]
      BY <1>4, <2>1, <3>1 DEF ReadHeader
    <3> QED BY <1>1, <1>4, <2>1, <3>2 DEF ReadHeader, clientVars, PlainStore
  <2>2. CASE ReadBody(c)
    <3>1. pc[c] = "body" /\ BodyArrived(c) /\ cells' = Result(c).store
      BY <2>2 DEF ReadBody
    <3>2. Sound(Body(c).fc, ReadAddress(Body(c)), cells, Result(c))
      BY <1>1, <3>1, ResultSound
    <3>3. PlainStore(cells)'
      BY <3>1, <3>2 DEF Sound, PlainStore
    <3>4. Stamp(c, Result(c).response) \in Given
      <4>1. Body(c) \in PDUs \cup {NoPDU}
        BY <1>1, <3>1, BodyConsumed
      <4>2. Body(c).fc \in Code
        BY <4>1 DEF PDUs, Code, NoPDU
      <4>3. header[c].tid \in Nat /\ header[c].unit \in Nat
        BY <1>4 DEF Header
      <4> QED BY <3>2, <4>2, <4>3, ResultCode DEF Stamp, Given, Sound
    <3>5. answered' \in [Conn -> Seq(Given)]
      <4>1. \/ answered' = answered
            \/ answered' = [answered EXCEPT ![c] = Append(@, Stamp(c, Result(c).response))]
        BY <2>2 DEF ReadBody
      <4>2. Append(answered[c], Stamp(c, Result(c).response)) \in Seq(Given)
        BY <1>4, <3>4
      <4> QED BY <1>4, <4>1, <4>2
    <3>6. unread' \in [Conn -> Int]
      BY <1>3, <1>4, <2>2 DEF ReadBody
    <3> QED BY <1>4, <1>6, <2>2, <3>3, <3>5, <3>6 DEF ReadBody, clientVars
  <2>3. CASE Drained(c)
    BY <1>1, <1>4, <2>3 DEF Drained, clientVars, PlainStore
  <2>4. CASE LinkEnds(c)
    BY <1>1, <1>4, <2>4 DEF LinkEnds, clientVars, PlainStore
  <2>5. CASE Close(c)
    BY <1>1, <1>4, <2>5 DEF Close, clientVars, PlainStore
  <2> QED BY <1>8, <2>1, <2>2, <2>3, <2>4, <2>5 DEF Task
<1>9. ASSUME NEW w \in LocalWrite, LocalSet(w)
      PROVE  Typed /\ PlainStore(cells)'
  <2>1. PlainStore(cells)'
    BY <1>1, <1>9, LocalSetKeeps
  <2> QED BY <1>4, <1>9, <2>1 DEF LocalSet, clientVars
<1>10. ASSUME UNCHANGED vars
       PROVE  Typed /\ PlainStore(cells)'
  BY <1>1, <1>4, <1>10 DEF vars, PlainStore
<1>11. Typed /\ PlainStore(cells)'
  <2>1. ASSUME NEW c \in Conn, Client(c)
        PROVE  Typed /\ PlainStore(cells)'
    BY <1>1, <1>7, <2>1 DEF PlainStore
  <2> HIDE DEF Typed
  <2> QED BY <1>8, <1>9, <1>10, <2>1 DEF Next
<1>12. TypeOK'
  <2>1. \A area \in Area : cells'[area] \in [Addresses(Extents[area]) -> Datum]
    BY <1>11, WordFacts DEF PlainStore
  <2> QED BY <1>11, <2>1 DEF TypeOK, Asked, Given
<1> QED BY <1>2, <1>11, <1>12 DEF TInv

\* The types of the server, for every datastore whose registers hold 16 bits.
THEOREM TypeCorrect ==
    ASSUME PlainStore(InitialCells)
    PROVE  Spec => []TypeOK
<1>1. Init => TInv
  BY InitTyped
<1>2. TInv /\ [Next]_vars => TInv'
  BY TypesKept
<1>3. TInv => TypeOK
  BY DEF TInv
<1> QED BY <1>1, <1>2, <1>3, PTL DEF Spec

\* The step in which a task consumes a PDU is ReadBody, and what it stores and
\* answers is the result of the request.
LEMMA HandlesMeans ==
    ASSUME TInv, [Next]_vars, NEW c \in Conn, Handles(c)
    PROVE  /\ Answers(c) \/ cells' # cells =>
                 /\ pc[c] = "body" /\ BodyArrived(c) /\ cells' = Result(c).store
                 /\ Answers(c) /\ NewAnswer(c) = Stamp(c, Result(c).response)
<1>1. SInv /\ PlainStore(cells) /\ TypeOK
  BY DEF TInv
<1>2. OnConns /\ Ordered(c) /\ pc[c] = "body" /\ pc'[c] # pc[c]
  BY <1>1 DEF SInv, CInv, Handles
<1>3. /\ IsSequence(answered[c])
      /\ \A x : /\ Len(Append(answered[c], x)) > Len(answered[c])
                /\ Append(answered[c], x)[Len(Append(answered[c], x))] = x
  BY <1>2, AppendFacts DEF Ordered
<1>4. ASSUME answered'[c] = answered[c]
      PROVE  ~ Answers(c)
  <2>1. Len(answered[c]) \in Nat
    BY <1>3, AppendFacts
  <2> QED BY <1>4, <2>1 DEF Answers
<1>5. CASE ReadBody(c)
  <2>1. BodyArrived(c) /\ cells' = Result(c).store
    BY <1>5 DEF ReadBody
  <2>2. ~ EncodeRaises(Result(c).response)
    BY <1>1, <1>2, <2>1, ResultSound DEF Sound
  <2>3. answered'[c] = Append(answered[c], Stamp(c, Result(c).response))
    BY <1>2, <1>5, <2>2 DEF ReadBody, OnConns
  <2> QED BY <1>2, <1>3, <2>1, <2>3 DEF Answers, NewAnswer
<1>6. CASE LinkEnds(c)
  <2>1. answered'[c] = answered[c] /\ cells' = cells
    BY <1>6 DEF LinkEnds
  <2> QED BY <1>4, <2>1
<1>7. ReadBody(c) \/ LinkEnds(c)
  <2>1. ASSUME NEW d \in Conn, Task(d) \/ Client(d)
        PROVE  ReadBody(c) \/ LinkEnds(c)
    <3>1. CASE Client(d)
      BY <1>2, <3>1 DEF Client, Accept, ClientHeader, ClientBody, ClientReads,
                        ClientLeaves, OnConns
    <3>2. CASE Task(d)
      <4>1. d = c
        BY <1>2, <3>2 DEF Task, ReadHeader, ReadBody, Drained, LinkEnds, Close, OnConns
      <4> QED BY <1>2, <3>2, <4>1 DEF Task, ReadHeader, Drained, Close
    <3> QED BY <2>1, <3>1, <3>2
  <2>2. ~ (UNCHANGED vars) /\ ~ \E w \in LocalWrite : LocalSet(w)
    BY <1>2 DEF vars, LocalSet
  <2> QED BY <2>1, <2>2 DEF Next
<1> QED BY <1>5, <1>6, <1>7

\* handle_request refuses or fails before it stores anything: an answer with an
\* exception, and a connection closed without one, leave the datastore as it
\* was, and a request only writes the area of its function code.
THEOREM RefusalChangesNothingAlways ==
    ASSUME PlainStore(InitialCells)
    PROVE  Spec => RefusalChangesNothing
<1> DEFINE Step ==
      \A c \in Conn : Handles(c) /\ cells' # cells =>
         /\ Answers(c)
         /\ NewAnswer(c).kind = "normal"
         /\ NewAnswer(c).fc \in WriteCode
         /\ \A area \in Area \ {AreaOf(NewAnswer(c).fc)} : cells'[area] = cells[area]
<1>1. ASSUME TInv, [Next]_vars PROVE Step
  <2> SUFFICES ASSUME NEW c \in Conn, Handles(c), cells' # cells
               PROVE  /\ Answers(c)
                      /\ NewAnswer(c).kind = "normal"
                      /\ NewAnswer(c).fc \in WriteCode
                      /\ \A area \in Area \ {AreaOf(NewAnswer(c).fc)} :
                            cells'[area] = cells[area]
    OBVIOUS
  <2>1. /\ pc[c] = "body" /\ BodyArrived(c) /\ cells' = Result(c).store
        /\ Answers(c) /\ NewAnswer(c) = Stamp(c, Result(c).response)
    BY <1>1, HandlesMeans
  <2>2. Sound(Body(c).fc, ReadAddress(Body(c)), cells, Result(c))
    BY <1>1, <2>1, ResultSound DEF TInv
  <2>3. /\ NewAnswer(c).kind = Result(c).response.kind
        /\ NewAnswer(c).fc = Body(c).fc
    BY <2>1, ResultCode DEF Stamp
  <2> QED BY <2>1, <2>2, <2>3 DEF Sound
<1>2. TInv /\ [Next]_vars => [Step]_vars
  BY <1>1
<1>3. Init => TInv
  BY InitTyped
<1>4. TInv /\ [Next]_vars => TInv'
  BY TypesKept
<1> HIDE DEF Step
<1>5. Spec => [][Step]_vars
  BY <1>2, <1>3, <1>4, PTL DEF Spec
<1> QED BY <1>5 DEF RefusalChangesNothing, Step

\* What a read is answered with is what the datastore holds after the request:
\* the second read of READ_WRITE_MULTIPLE_REGISTERS sees its own write.
THEOREM ReadsSeeTheStoreAlways ==
    ASSUME PlainStore(InitialCells)
    PROVE  Spec => ReadsSeeTheStore
<1> DEFINE Seen(c) ==
      LET a == NewAnswer(c)
          pdu == Body(c)
          address == IF a.fc = "READ_WRITE_MULTIPLE_REGISTERS"
                       THEN pdu.read_address ELSE pdu.address
      IN  a.kind = "normal" /\ Len(a.values) > 0 =>
            a.values = Window(cells'[AreaOf(a.fc)], address, Len(a.values))
           Step == \A c \in Conn : Handles(c) /\ Answers(c) => Seen(c)
<1>1. ASSUME TInv, [Next]_vars PROVE Step
  <2> SUFFICES ASSUME NEW c \in Conn, Handles(c), Answers(c)
               PROVE  Seen(c)
    OBVIOUS
  <2>1. /\ pc[c] = "body" /\ BodyArrived(c) /\ cells' = Result(c).store
        /\ NewAnswer(c) = Stamp(c, Result(c).response)
    BY <1>1, HandlesMeans
  <2>2. Sound(Body(c).fc, ReadAddress(Body(c)), cells, Result(c))
    BY <1>1, <2>1, ResultSound DEF TInv
  <2>3. /\ NewAnswer(c).kind = Result(c).response.kind
        /\ NewAnswer(c).values = Result(c).response.values
        /\ NewAnswer(c).fc = Body(c).fc
    BY <2>1, ResultCode DEF Stamp
  <2> QED BY <2>1, <2>2, <2>3 DEF Sound, ReadAddress
<1>2. TInv /\ [Next]_vars => [Step]_vars
  BY <1>1
<1>3. Init => TInv
  BY InitTyped
<1>4. TInv /\ [Next]_vars => TInv'
  BY TypesKept
<1> HIDE DEF Step
<1>5. Spec => [][Step]_vars
  BY <1>2, <1>3, <1>4, PTL DEF Spec
<1> QED BY <1>5 DEF ReadsSeeTheStore, Step, Seen
=============================================================================
