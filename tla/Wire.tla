-------------------------------- MODULE Wire --------------------------------
(***************************************************************************)
(* The two revisions of the wire format (message.py, wire.py, leb128.py):  *)
(* Encode turns a message into what Message.write puts on a stream, Decode *)
(* reads the first message of a stream as Message.read does.               *)
(*                                                                         *)
(* A stream is a sequence of fields, one for every struct, byte or string  *)
(* of bytes the codec reads in one go; a field that is read as another     *)
(* kind than it was written as is garbled.  What garbled bytes happen to   *)
(* decode to is not modelled.  A value is a type and its data: a Boolean,  *)
(* a number, the length in bytes of a string, or a sequence of these.      *)
(* Names and identities are short.                                         *)
(***************************************************************************)
EXTENDS Storage, SequencesExt

CONSTANTS
    MaxArray,    \* 0xFF: the length of an array is one byte
    MaxString,   \* 0xFFFF: that of a string is two bytes in revision 2
    LebBase      \* 128: a LEB128 digit has seven bits

ASSUME WireAssumption ==
    /\ MaxArray \in Nat \ {0} /\ MaxString \in Nat \ {0}
    /\ LebBase \in Nat /\ LebBase >= 2

Revs == {2, 3}       \* 0x0200 and 0x0300

Shorter(a, b) == IF a < b THEN a ELSE b

-----------------------------------------------------------------------------
(* Messages of the handshake (those of the entries are in Storage.tla) *)

Plain == {"KeepAlive", "ServerHelloDone", "ClientHelloDone"}

ClientHello(rev)  == [type |-> "ClientHello", rev |-> rev]
ProtoUnsup(rev)   == [type |-> "ProtoUnsup", rev |-> rev]
ServerHello       == [type |-> "ServerHello"]
ServerHelloDone   == [type |-> "ServerHelloDone"]
ClientHelloDone   == [type |-> "ClientHelloDone"]

-----------------------------------------------------------------------------
(* Writing *)

Field(kind, v) == [kind |-> kind, v |-> v]

\* Mutant: the test for the last digit is off by one.
LebOffByOne(n) ==
    LET digits[k \in 0 .. n] ==
          IF k <= LebBase THEN << Field("leb", k) >>
          ELSE << Field("leb", LebBase + (k % LebBase)) >> \o digits[k \div LebBase]
    IN  digits[n]

\* encode_uleb128: the low digit first, all but the last with the high bit.
EncodeLeb(n) ==
    LET digits[k \in 0 .. n] ==
          IF k < LebBase THEN << Field("leb", k) >>
          ELSE << Field("leb", LebBase + (k % LebBase)) >> \o digits[k \div LebBase]
    IN  digits[n]

\* Mutant: strings are cut in both revisions.
WriteStringCut(rev, len) ==
    LET n == Shorter(len, MaxString)
    IN  IF rev = 2 THEN << Field("H", n), Field("bytes", n) >>
        ELSE Append(EncodeLeb(n), Field("bytes", n))

WriteString(rev, len) ==
    IF rev = 2 THEN LET n == Shorter(len, MaxString)
                    IN  << Field("H", n), Field("bytes", n) >>
    ELSE Append(EncodeLeb(len), Field("bytes", len))

\* A name is a string like any other, and stands for itself.
WriteName(rev, n) == << Field(IF rev = 2 THEN "name2" ELSE "name3", n) >>

ArrayTypes == {"boolean[]", "double[]", "string[]"}
ElementType == [t \in ArrayTypes |->
    CASE t = "boolean[]" -> "boolean" [] t = "double[]" -> "double"
      [] t = "string[]" -> "string"]

\* What both revisions can carry, and what only revision 3 can.
CommonTypes == {"boolean", "double", "string"} \cup ArrayTypes
NewTypes    == {"raw", "rpc"}
TypesOf(rev) == IF rev = 2 THEN CommonTypes ELSE CommonTypes \cup NewTypes

\* What the codec is given: of a string only the length matters, and an array
\* is a sequence of such data.
Scalars(v) == IF v.type \in ArrayTypes THEN Range(v.data) ELSE {v.data}
ScalarType(type) == IF type \in ArrayTypes THEN ElementType[type] ELSE type

IsWireValue(v) ==
    /\ v = [type |-> v.type, data |-> v.data]
    /\ v.type \in CommonTypes \cup NewTypes
    /\ v.type \in ArrayTypes => v.data \in Seq(Scalars(v))
    /\ ScalarType(v.type) \in {"string", "raw", "rpc"} => Scalars(v) \subseteq Nat

WriteScalar(rev, type, data) ==
    CASE type = "boolean" -> << Field("?", data) >>
      [] type = "double"  -> << Field("d", data) >>
      [] type = "raw"     -> Append(EncodeLeb(data), Field("bytes", data))
      [] OTHER            -> WriteString(rev, data)

\* Mutant: the elements beyond the length byte are written, too.
WriteAllElements(rev, v) ==
    IF v.type \notin ArrayTypes THEN WriteScalar(rev, v.type, v.data)
    ELSE << Field("B", Shorter(Len(v.data), MaxArray)) >> \o
         FlattenSeq([i \in DOMAIN v.data |->
                        WriteScalar(rev, ElementType[v.type], v.data[i])])

\* write_value: an array is cut to what its length byte can say.
WriteValue(rev, v) ==
    IF v.type \notin ArrayTypes THEN WriteScalar(rev, v.type, v.data)
    ELSE LET n == Shorter(Len(v.data), MaxArray)
         IN  << Field("B", n) >> \o
             FlattenSeq([i \in 1 .. n |->
                            WriteScalar(rev, ElementType[v.type], v.data[i])])

\* write_value raises ValueError otherwise.
Encodable(rev, m) ==
    m.type \in {"EntryAssign", "EntryUpdate"} => m.value.type \in TypesOf(rev)

\* Message.write.  Revision 2 has no word for flags, deletions and the hello
\* of a server: it writes nothing.
Encode(rev, m) ==
    LET Msg(fields) == << Field("msg", m.type) >> \o fields
        Since3(fields) == IF rev >= 3 THEN Msg(fields) ELSE << >>
    IN
    CASE m.type \in Plain -> Msg(<< >>)
      [] m.type = "ClientHello" ->
            Msg(<< Field("H", m.rev) >> \o
                IF m.rev >= 3 THEN WriteName(3, "identity") ELSE << >>)
      [] m.type = "ProtoUnsup"  -> Msg(<< Field("H", m.rev) >>)
      [] m.type = "ServerHello" ->
            Since3(<< Field("b", 0) >> \o WriteName(3, "identity"))
      [] m.type = "EntryAssign" ->
            Msg(WriteName(rev, m.name) \o << Field("vtype", m.value.type) >> \o
                (IF rev >= 3 THEN << Field("HHb", << m.id, m.seq, m.flags >>) >>
                             ELSE << Field("HH", << m.id, m.seq >>) >>) \o
                WriteValue(rev, m.value))
      [] m.type = "EntryUpdate" ->
            Msg(<< Field("HH", << m.id, m.seq >>) >> \o
                (IF rev >= 3 THEN << Field("vtype", m.value.type) >> ELSE << >>) \o
                WriteValue(rev, m.value))
      [] m.type = "FlagsUpdate"  -> Since3(<< Field("Hb", << m.id, m.flags >>) >>)
      [] m.type = "EntryDelete"  -> Since3(<< Field("H", m.id) >>)
      [] m.type = "ClearEntries" -> Since3(<< Field("I", "magic") >>)

-----------------------------------------------------------------------------
(* Reading.  A reader yields the set of what can be read: a value with the *)
(* rest of the stream, or nothing at all where the code raises.            *)

Read(x, rest) == [val |-> x, rest |-> rest]

\* The next fields of a stream have these kinds.
Starts(s, kinds) ==
    Len(s) >= Len(kinds) /\ \A i \in DOMAIN kinds : s[i].kind = kinds[i]

\* The stream without its first n fields.
Beyond(n, s) == SubSeq(s, n + 1, Len(s))

ReadField(kind, s) ==
    IF Starts(s, << kind >>) THEN {Read(s[1].v, Tail(s))} ELSE {}

\* The number that the first n digits of a stream stand for.
LebValue(s, n) ==
    LET from[k \in 1 .. n] ==
            IF k = n THEN s[k].v
            ELSE (s[k].v % LebBase) + LebBase * from[k + 1]
    IN  from[1]

\* read_uleb128: up to the first digit without the high bit.
ReadLeb(s) ==
    {Read(LebValue(s, n), Beyond(n, s)) :
        n \in {k \in DOMAIN s : /\ s[k].kind = "leb" /\ s[k].v < LebBase
                                /\ \A j \in 1 .. k - 1 :
                                      s[j].kind = "leb" /\ s[j].v >= LebBase}}

\* As many bytes as a length that was read says.
ReadBytes(lengths) ==
    {Read(l.val, Tail(l.rest)) :
        l \in {x \in lengths : /\ x.rest # << >>
                               /\ Head(x.rest) = Field("bytes", x.val)}}

ReadString(rev, s) == ReadBytes(IF rev = 2 THEN ReadField("H", s) ELSE ReadLeb(s))

ReadScalar(rev, type, s) ==
    CASE type = "boolean" -> ReadField("?", s)
      [] type = "double"  -> ReadField("d", s)
      [] type = "raw"     -> ReadBytes(ReadLeb(s))
      [] OTHER            -> ReadString(rev, s)

\* n values of one type, as a sequence.
ReadElements(rev, type, n, s) ==
    LET read[k \in 0 .. n] ==
          IF k = 0 THEN {Read(<< >>, s)}
          ELSE UNION {{Read(Append(xs.val, x.val), x.rest) :
                          x \in ReadScalar(rev, type, xs.rest)} : xs \in read[k - 1]}
    IN  read[n]

\* read_value: it raises ValueError for a type the revision does not have.
ReadValue(rev, type, s) ==
    LET data == CASE type \notin TypesOf(rev) -> {}
                  [] type \in ArrayTypes ->
                       UNION {ReadElements(rev, ElementType[type], n.val, n.rest) :
                                 n \in ReadField("B", s)}
                  [] OTHER -> ReadScalar(rev, type, s)
    IN  {Read([type |-> type, data |-> d.val], d.rest) : d \in data}

\* getMessageEntryType: how revision 2 knows what an update holds.
GetMessageEntryType(store, id) ==
    IF Known(store, id) /\ Has(store, NameOf(store, id))
    THEN store.entries[NameOf(store, id)].value.type ELSE "unassigned"

UpdateHeader(rev) == IF rev >= 3 THEN << "HH", "vtype" >> ELSE << "HH" >>

\* Mutant: the type comes from the table of entries whatever the revision.
TypeByTable(rev, store, s) == GetMessageEntryType(store, s[1].v[1])

TypeOfUpdate(rev, store, s) ==
    IF rev >= 3 THEN s[2].v ELSE GetMessageEntryType(store, s[1].v[1])

ReadUpdate(rev, store, s) ==
    IF ~Starts(s, UpdateHeader(rev)) THEN {}
    ELSE {Read(EntryUpdate(s[1].v[1], s[1].v[2], v.val), v.rest) :
            v \in ReadValue(rev, TypeOfUpdate(rev, store, s),
                            Beyond(Len(UpdateHeader(rev)), s))}

AssignHeader(rev) == IF rev >= 3 THEN << "name3", "vtype", "HHb" >>
                                 ELSE << "name2", "vtype", "HH" >>

\* Mutant: no flags instead of the flags 0.
FlagsOrNone(rev, header) == IF rev >= 3 THEN header[3] ELSE NoValue

\* The flags of an assignment; revision 2 has none.
FlagsOf(rev, header) == rev >= 3 /\ header[Len(header)]

ReadAssign(rev, s) ==
    IF ~Starts(s, AssignHeader(rev)) THEN {}
    ELSE {Read(EntryAssign(s[1].v, s[3].v[1], s[3].v[2], v.val,
                           FlagsOf(rev, s[3].v)), v.rest) :
            v \in ReadValue(rev, s[2].v, Beyond(3, s))}

\* The body of the messages revision 3 added; a codec for revision 2 has no
\* layout for them, and the read raises AttributeError.
ReadNewer(type, s) ==
    CASE type = "ServerHello" /\ Starts(s, << "b", "name3" >>) ->
            {Read(ServerHello, Beyond(2, s))}
      [] type = "FlagsUpdate" /\ Starts(s, << "Hb" >>) ->
            {Read(FlagsUpdate(s[1].v[1], s[1].v[2]), Tail(s))}
      [] type = "EntryDelete" /\ Starts(s, << "H" >>) ->
            {Read(EntryDelete(s[1].v), Tail(s))}
      [] type = "ClearEntries" /\ Starts(s, << "I" >>) ->
            {Read(ClearEntries, Tail(s))}
      [] OTHER -> {}

ReadHello(s) ==
    CASE Starts(s, << "H" >>) /\ s[1].v < 3 ->
            {Read(ClientHello(s[1].v), Tail(s))}
      [] Starts(s, << "H", "name3" >>) /\ s[1].v >= 3 ->
            {Read(ClientHello(s[1].v), Beyond(2, s))}
      [] OTHER -> {}

\* The body of a message of a type.
ReadBody(rev, store, type, s) ==
    CASE type \in Plain         -> {Read([type |-> type], s)}
      [] type = "ClientHello"   -> ReadHello(s)
      [] type = "ProtoUnsup"    ->
            {Read(ProtoUnsup(h.val), h.rest) : h \in ReadField("H", s)}
      [] type = "EntryAssign"   -> ReadAssign(rev, s)
      [] type = "EntryUpdate"   -> ReadUpdate(rev, store, s)
      [] OTHER                  -> IF rev >= 3 THEN ReadNewer(type, s) ELSE {}

\* Message.read, by a node whose codec is set to rev.
Decode(rev, store, s) ==
    UNION {ReadBody(rev, store, t.val, t.rest) : t \in ReadField("msg", s)}

-----------------------------------------------------------------------------
(* What a revision can say: the reference definition of the codec.  Of a   *)
(* long array only the first MaxArray elements, of a string in revision 2  *)
(* the first MaxString bytes; in revision 2 no flags.                      *)

Heard(rev, v) ==
    LET Cut(type, x) == IF rev = 2 /\ type = "string" THEN Shorter(x, MaxString)
                        ELSE x
    IN  [type |-> v.type, data |->
           IF v.type \in ArrayTypes
           THEN [i \in 1 .. Shorter(Len(v.data), MaxArray) |->
                    Cut(ElementType[v.type], v.data[i])]
           ELSE Cut(v.type, v.data)]

Sayable(rev, m) ==
    rev >= 3 \/ m.type \notin {"ServerHello", "FlagsUpdate", "EntryDelete",
                               "ClearEntries"}

HeardAs(rev, m) ==
    CASE m.type = "EntryAssign" ->
            [m EXCEPT !.value = Heard(rev, @), !.flags = @ /\ rev >= 3]
      [] m.type = "EntryUpdate" -> [m EXCEPT !.value = Heard(rev, @)]
      [] OTHER -> m

\* What the peer hears when a message is written: nothing, if the
\* revision cannot say it.
HeardFrom(rev, m) == IF Sayable(rev, m) THEN << HeardAs(rev, m) >> ELSE << >>

=============================================================================
