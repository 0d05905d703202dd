--------------------------- MODULE Storage_proofs ---------------------------
(***************************************************************************)
(* What is proved about the operators of SeqNum and Storage, for every     *)
(* value of the constants: the types; what every operation of a server's   *)
(* store keeps, so that its entries and its id map stay consistent         *)
(* (IdsConsistent in Storage.tla) and no entry goes back to an older       *)
(* sequence number; and what an operation does to the ids on either side:  *)
(* it takes the ids of some names away or gives one name an id that leads  *)
(* nowhere yet, so that the id of an entry always leads back to it, a      *)
(* server's slot never changes its name, and what a server announces names *)
(* what it has in the slot.  Last, what an operation does to the value and *)
(* the flags of an entry, where numbers are below half of the circle.      *)
(***************************************************************************)
EXTENDS Storage, FiniteSetTheorems, TLAPS

-----------------------------------------------------------------------------
(* Sequence numbers *)

\* What the assumption says of the sequence space and its half.
LEMMA SeqSpaceFacts ==
    /\ SeqSpace \in Nat /\ SeqSpace >= 4
    /\ Half \in Nat /\ SeqSpace = 2 * Half /\ Half >= 2
    /\ 0 \in SeqNums
  BY SeqSpaceAssumption DEF SeqSpaceAssumption, SeqNums, Half

\* What the remainder in Later comes to.
LEMMA LaterIs ==
    ASSUME NEW a \in SeqNums, NEW k \in 0 .. SeqSpace
    PROVE  /\ Later(a, k) = IF a + k < SeqSpace THEN a + k ELSE a + k - SeqSpace
           /\ Later(a, k) \in SeqNums
  BY SeqSpaceFacts DEF Later, SeqNums

\* The next sequence number is one (increment_seqnum).
LEMMA IncrementSeqnumType ==
    ASSUME NEW a \in SeqNums PROVE IncrementSeqnum(a) \in SeqNums
  BY LaterIs, SeqSpaceFacts DEF IncrementSeqnum

\* A number that is between 1 and half the circle later is newer, and the
\* earlier one is not newer than it: writes are ordered as long as a reader
\* is less than 32768 of them behind (isSeqNewerThan).
THEOREM LaterIsNewer ==
    ASSUME NEW a \in SeqNums, NEW k \in 1 .. (Half - 1)
    PROVE  /\ IsSeqNewerThan(Later(a, k), a)
           /\ ~IsSeqNewerThan(a, Later(a, k))
<1>1. k \in 0 .. SeqSpace /\ 0 < k /\ k < Half
  BY SeqSpaceFacts
<1>2. Later(a, k) = IF a + k < SeqSpace THEN a + k ELSE a + k - SeqSpace
  BY <1>1, LaterIs
<1>3. a \in Nat /\ a < SeqSpace
  BY SeqSpaceFacts DEF SeqNums
<1>4. CASE a + k < SeqSpace
  BY <1>1, <1>2, <1>3, <1>4, SeqSpaceFacts DEF IsSeqNewerThan
<1>5. CASE ~(a + k < SeqSpace)
  BY <1>1, <1>2, <1>3, <1>5, SeqSpaceFacts DEF IsSeqNewerThan
<1>6. QED
  BY <1>4, <1>5

\* Two nodes never both believe that theirs is the newer one.
THEOREM NewerIsAsymmetric ==
    ASSUME NEW a \in SeqNums, NEW b \in SeqNums, IsSeqNewerThan(a, b)
    PROVE  ~IsSeqNewerThan(b, a)
  BY SeqSpaceFacts DEF IsSeqNewerThan, SeqNums

\* And one of them does, unless the numbers are equal or half the circle
\* apart: only then can two nodes ignore each other's update for good.
THEOREM OneIsNewer ==
    ASSUME NEW a \in SeqNums, NEW b \in SeqNums, a # b,
           ~IsSeqNewerThan(a, b), ~IsSeqNewerThan(b, a)
    PROVE  b = Later(a, Half) /\ a = Later(b, Half)
<1>1. Half \in 0 .. SeqSpace
  BY SeqSpaceFacts
<1>2. /\ Later(a, Half) = IF a + Half < SeqSpace THEN a + Half
                          ELSE a + Half - SeqSpace
      /\ Later(b, Half) = IF b + Half < SeqSpace THEN b + Half
                          ELSE b + Half - SeqSpace
  BY <1>1, LaterIs
<1>3. a \in Nat /\ b \in Nat /\ a < SeqSpace /\ b < SeqSpace
  BY SeqSpaceFacts DEF SeqNums
<1>4. (a < b /\ b - a = Half) \/ (b < a /\ a - b = Half)
  BY <1>3, SeqSpaceFacts DEF IsSeqNewerThan
<1>5. QED
  BY <1>2, <1>3, <1>4, SeqSpaceFacts

-----------------------------------------------------------------------------
(* Types *)

Slots == Seq(Names \cup {NoName})

\* What every operation returns.
GoodResult(s, r) ==
    /\ r.store \in Store
    /\ r.store.server = s.server
    /\ r.out \in Seq(EntryMsg)
    /\ r.toSender \in BOOLEAN

\* An operation that is refused leaves the store as it is.
LEMMA IgnoredType ==
    ASSUME NEW s \in Store PROVE GoodResult(s, Ignored(s))
  BY DEF GoodResult, Ignored, Result

\* At most one message is a sequence of messages.
LEMMA OneMessage ==
    ASSUME NEW m \in EntryMsg
    PROVE  << >> \in Seq(EntryMsg) /\ << m >> \in Seq(EntryMsg)
  OBVIOUS

\* The id map grows as far as the id needs (ensure_id_exists).
LEMMA WithSlotType ==
    ASSUME NEW idmap \in Slots, NEW id \in Nat, NEW n \in Names
    PROVE  /\ WithSlot(idmap, id, n) \in Slots
           /\ id < Len(WithSlot(idmap, id, n))
           /\ Len(WithSlot(idmap, id, n)) >= Len(idmap)
<1> DEFINE len == IF id < Len(idmap) THEN Len(idmap) ELSE id + 1
<1>1. len \in Nat /\ id < len /\ len >= Len(idmap)
  BY DEF Slots
<1>2. WithSlot(idmap, id, n) \in [1 .. len -> Names \cup {NoName}]
  BY <1>1 DEF WithSlot, Slots
<1>3. WithSlot(idmap, id, n) \in Slots /\ Len(WithSlot(idmap, id, n)) = len
  BY <1>1, <1>2 DEF Slots
<1>4. QED
  BY <1>1, <1>3

\* Emptying a slot keeps the length and the other slots.
LEMMA WithoutSlotType ==
    ASSUME NEW idmap \in Slots, NEW id \in Nat
    PROVE  /\ WithoutSlot(idmap, id) \in Slots
           /\ Len(WithoutSlot(idmap, id)) = Len(idmap)
           /\ \A k \in 1 .. Len(idmap) : WithoutSlot(idmap, id)[k] =
                IF k = id + 1 THEN NoName ELSE idmap[k]
<1>1. DOMAIN idmap = 1 .. Len(idmap) /\ Len(idmap) \in Nat
  BY DEF Slots
<1>2. WithoutSlot(idmap, id) \in [1 .. Len(idmap) -> Names \cup {NoName}]
  BY <1>1 DEF WithoutSlot, Slots
<1>3. WithoutSlot(idmap, id) \in Slots /\ Len(WithoutSlot(idmap, id)) = Len(idmap)
  BY <1>1, <1>2 DEF Slots
<1>4. QED
  BY <1>1, <1>3 DEF WithoutSlot

\* The fields of a store and of an entry.
LEMMA StoreFields ==
    ASSUME NEW s \in Store, NEW n \in Names
    PROVE  /\ s.entries \in [Names -> Entry] /\ s.idmap \in Slots
           /\ s.server \in BOOLEAN
           /\ s.entries[n] \in Entry
           /\ s.entries[n].value \in Values \cup {NoValue}
           /\ s.entries[n].flags \in BOOLEAN /\ s.entries[n].id \in Nat
           /\ s.entries[n].seq \in SeqNums
           /\ s.entries[n].localWrite \in BOOLEAN
  BY DEF Store, Entry, Slots

\* The two ways an operation changes one entry.
LEMMA PutFacts ==
    ASSUME NEW s \in Store, NEW n \in Names, NEW e \in Entry
    PROVE  /\ Put(s, n, e) \in Store
           /\ Put(s, n, e).server = s.server
           /\ Put(s, n, e).idmap = s.idmap
           /\ Put(s, n, e).entries[n] = e
           /\ \A x \in Names \ {n} : Put(s, n, e).entries[x] = s.entries[x]
  BY DEF Store, Put

\* The same when the id map changes, too.
LEMMA PutIdsFacts ==
    ASSUME NEW s \in Store, NEW n \in Names, NEW e \in Entry,
           NEW idmap \in Slots
    PROVE  /\ PutIds(s, n, e, idmap) \in Store
           /\ PutIds(s, n, e, idmap).server = s.server
           /\ PutIds(s, n, e, idmap).idmap = idmap
           /\ PutIds(s, n, e, idmap).entries[n] = e
           /\ \A x \in Names \ {n} :
                 PutIds(s, n, e, idmap).entries[x] = s.entries[x]
  BY DEF Store, PutIds, Slots

\* A result is good if its parts are.
LEMMA ResultIsGood ==
    ASSUME NEW s \in Store, NEW t \in Store, t.server = s.server,
           NEW out \in Seq(EntryMsg), NEW toSender \in BOOLEAN, NEW dirty
    PROVE  GoodResult(s, Result(t, out, toSender, dirty))
  BY DEF GoodResult, Result

\* _setEntryValueImpl returns a good result.
LEMMA SetEntryValueImplType ==
    ASSUME NEW s \in Store, NEW n \in Names, NEW v \in Values,
           NEW local \in BOOLEAN
    PROVE  GoodResult(s, SetEntryValueImpl(s, n, v, local))
<1> DEFINE e == s.entries[n]
           newId == s.server /\ e.id = NoId
           id == IF newId THEN Len(s.idmap) ELSE e.id
           changed == e.value # v
           seq == IF local /\ changed THEN IncrementSeqnum(e.seq) ELSE e.seq
           r == SetEntryValueImpl(s, n, v, local)
           idmap == IF newId THEN Append(s.idmap, n) ELSE s.idmap
           entry == [value |-> v, flags |-> e.flags, id |-> id, seq |-> seq,
                     localWrite |-> e.localWrite \/ local]
<1>1. id \in Nat /\ seq \in SeqNums /\ idmap \in Slots
  BY StoreFields, IncrementSeqnumType DEF Slots
<1>2. entry \in Entry
  BY <1>1, StoreFields DEF Entry
<1>3. /\ EntryAssign(n, id, seq, v, e.flags) \in EntryMsg
      /\ EntryUpdate(id, seq, v) \in EntryMsg
  BY <1>1, StoreFields DEF EntryAssign, EntryUpdate, EntryMsg, AssignMsg, UpdateMsg
<1>4. /\ r.store = PutIds(s, n, entry, idmap) /\ r.toSender = TRUE
      /\ r.out \in {<< >>, << EntryAssign(n, id, seq, v, e.flags) >>,
                    << EntryUpdate(id, seq, v) >>}
  BY DEF SetEntryValueImpl, Result
<1> HIDE DEF entry, idmap, r, id, seq
<1>5. r.out \in Seq(EntryMsg)
  BY <1>3, <1>4, OneMessage
<1>6. PutIds(s, n, entry, idmap) \in Store
      /\ PutIds(s, n, entry, idmap).server = s.server
  BY <1>1, <1>2, PutIdsFacts
<1>7. GoodResult(s, r)
  BY <1>4, <1>5, <1>6 DEF GoodResult
<1>8. QED
  BY <1>7 DEF r

\* _setEntryFlagsImpl returns a good result.
LEMMA SetEntryFlagsImplType ==
    ASSUME NEW s \in Store, NEW n \in Names, NEW flags \in BOOLEAN,
           NEW local \in BOOLEAN
    PROVE  GoodResult(s, SetEntryFlagsImpl(s, n, flags, local))
<1> DEFINE e == s.entries[n]
           out == IF local /\ e.id # NoId
                  THEN << FlagsUpdate(e.id, flags) >> ELSE << >>
           new == [e EXCEPT !.flags = flags]
<1>1. new \in Entry
  BY StoreFields DEF Entry
<1>2. FlagsUpdate(e.id, flags) \in EntryMsg
  BY StoreFields DEF FlagsUpdate, EntryMsg, FlagsMsg
<1>3. out \in Seq(EntryMsg)
  BY <1>2, OneMessage
<1>4. SetEntryFlagsImpl(s, n, flags, local)
        \in {Ignored(s), Result(Put(s, n, new), out, TRUE, TRUE)}
  BY DEF SetEntryFlagsImpl
<1>5. GoodResult(s, Result(Put(s, n, new), out, TRUE, TRUE))
  <2> HIDE DEF new, out
  <2> QED BY <1>1, <1>3, PutFacts, ResultIsGood
<1>6. QED
  BY <1>4, <1>5, IgnoredType

\* What is left of a deleted entry is an entry.
LEMMA DeletedEntryType ==
    ASSUME NEW seq \in SeqNums
    PROVE  [NewEntry EXCEPT !.seq = seq] \in Entry
  BY SeqSpaceFacts, StorageAssumption DEF NewEntry, Entry, StorageAssumption

\* _deleteEntryImpl returns a good result.
LEMMA DeleteEntryImplType ==
    ASSUME NEW s \in Store, NEW n \in Names, NEW local \in BOOLEAN
    PROVE  GoodResult(s, DeleteEntryImpl(s, n, local))
<1> DEFINE e == s.entries[n]
           gone == [NewEntry EXCEPT !.seq = e.seq]
           idmap == WithoutSlot(s.idmap, e.id)
           out == IF Has(s, n) /\ local /\ e.id # NoId
                  THEN << EntryDelete(e.id) >> ELSE << >>
<1>1. gone \in Entry /\ idmap \in Slots
  BY StoreFields, DeletedEntryType, WithoutSlotType
<1>2. EntryDelete(e.id) \in EntryMsg
  BY StoreFields DEF EntryDelete, EntryMsg, DeleteMsg
<1>3. out \in Seq(EntryMsg)
  BY <1>2, OneMessage
<1>4. DeleteEntryImpl(s, n, local)
        = Result(PutIds(s, n, gone, idmap), out, TRUE, e.flags)
  BY DEF DeleteEntryImpl
<1> HIDE DEF gone, idmap, out
<1>5. PutIds(s, n, gone, idmap) \in Store
      /\ PutIds(s, n, gone, idmap).server = s.server
  BY <1>1, PutIdsFacts
<1>6. QED
  BY <1>3, <1>4, <1>5 DEF GoodResult, Result

\* What _deleteAllEntriesImpl does to the entries and to the slots.
LEMMA DeleteEntriesFacts ==
    ASSUME NEW s \in Store, NEW doomed \in SUBSET Names
    PROVE  LET t == DeleteEntries(s, doomed) IN
           /\ t \in Store /\ t.server = s.server
           /\ Len(t.idmap) = Len(s.idmap)
           /\ \A k \in 1 .. Len(s.idmap) : t.idmap[k] =
                 IF \E n \in doomed : s.entries[n].id = k - 1
                 THEN NoName ELSE s.idmap[k]
           /\ \A n \in Names : n \notin doomed => t.entries[n] = s.entries[n]
           /\ \A n \in doomed : t.entries[n].value = NoValue
                                /\ t.entries[n].id = NoId
<1> DEFINE entries == [n \in Names |->
                IF n \in doomed
                THEN [s.entries[n] EXCEPT !.value = NoValue, !.id = NoId,
                                          !.localWrite = FALSE]
                ELSE s.entries[n]]
           idmap == [k \in DOMAIN s.idmap |->
                IF \E n \in doomed : s.entries[n].id = k - 1
                THEN NoName ELSE s.idmap[k]]
           t == DeleteEntries(s, doomed)
<1>1. t = [s EXCEPT !.entries = entries, !.idmap = idmap]
  BY DEF DeleteEntries
<1>2. entries \in [Names -> Entry]
  <2>1. ASSUME NEW n \in Names PROVE entries[n] \in Entry
    BY StoreFields, StorageAssumption DEF Entry, StorageAssumption
  <2>2. QED
    BY <2>1
<1>3. DOMAIN s.idmap = 1 .. Len(s.idmap) /\ Len(s.idmap) \in Nat
  BY StoreFields DEF Slots, Store
<1>4. idmap \in [1 .. Len(s.idmap) -> Names \cup {NoName}]
  BY <1>3 DEF Store
<1>5. idmap \in Slots /\ Len(idmap) = Len(s.idmap)
  <2> HIDE DEF idmap
  <2> QED BY <1>3, <1>4 DEF Slots
<1>6. t \in Store /\ t.server = s.server /\ t.idmap = idmap /\ t.entries = entries
  <2> HIDE DEF idmap, entries, t
  <2> QED BY <1>1, <1>2, <1>5 DEF Store, Slots
<1>7. \A n \in doomed : entries[n].value = NoValue /\ entries[n].id = NoId
  BY StoreFields DEF Entry
<1>8. QED
  BY <1>3, <1>5, <1>6, <1>7

\* The fields of the messages, by kind.
LEMMA MsgFields ==
    /\ \A m \in AssignMsg : /\ m \in EntryMsg /\ m.type = "EntryAssign"
                            /\ m.name \in Names /\ m.id \in Nat
                            /\ m.seq \in SeqNums /\ m.value \in Values
                            /\ m.value # NoValue /\ m.flags \in BOOLEAN
    /\ \A m \in UpdateMsg : /\ m \in EntryMsg /\ m.type = "EntryUpdate"
                            /\ m.id \in Nat /\ m.seq \in SeqNums
                            /\ m.value \in Values /\ m.value # NoValue
    /\ \A m \in FlagsMsg : /\ m \in EntryMsg /\ m.type = "FlagsUpdate"
                           /\ m.id \in Nat /\ m.flags \in BOOLEAN
    /\ \A m \in DeleteMsg : /\ m \in EntryMsg /\ m.type = "EntryDelete"
                            /\ m.id \in Nat
    /\ \A m \in ClearMsg : m \in EntryMsg /\ m.type = "ClearEntries"
  BY StorageAssumption DEF StorageAssumption, EntryMsg, AssignMsg, UpdateMsg,
     FlagsMsg, DeleteMsg, ClearMsg

\* A known id leads to a name.
LEMMA KnownName ==
    ASSUME NEW s \in Store, NEW id \in Nat, Known(s, id)
    PROVE  /\ NameOf(s, id) \in Names
           /\ id + 1 \in 1 .. Len(s.idmap)
  BY DEF Store, Known, NameOf

\* A request for an id leaves a good result.
LEMMA ProcessIdRequestType ==
    ASSUME NEW s \in Store, NEW m \in AssignMsg
    PROVE  GoodResult(s, ProcessIdRequest(s, m))
<1> DEFINE new == [s.entries[m.name] EXCEPT !.flags = m.flags, !.seq = m.seq]
           t == Put(s, m.name, new)
<1>1. new \in Entry
  <2>1. s.entries[m.name] \in Entry /\ m.flags \in BOOLEAN /\ m.seq \in SeqNums
    BY StoreFields, MsgFields
  <2>2. QED
    BY <2>1 DEF Entry
<1>2. t \in Store /\ t.server = s.server
  <2> HIDE DEF new
  <2> QED BY <1>1, PutFacts, MsgFields
<1>3. GoodResult(t, SetEntryValueImpl(t, m.name, m.value, FALSE))
  <2> HIDE DEF t
  <2> QED BY <1>2, MsgFields, SetEntryValueImplType
<1>4. ProcessIdRequest(s, m) \in
        {Ignored(s), SetEntryValueImpl(t, m.name, m.value, FALSE)}
  BY DEF ProcessIdRequest
<1>5. QED
  <2> HIDE DEF t
  <2> QED BY <1>2, <1>3, <1>4, IgnoredType DEF GoodResult

\* So does an assignment of an id that is new to a client.
LEMMA ProcessNewAssignmentType ==
    ASSUME NEW s \in Store, NEW m \in AssignMsg
    PROVE  GoodResult(s, ProcessNewAssignment(s, m))
<1> DEFINE e == s.entries[m.name]
           idmap == WithSlot(s.idmap, m.id, m.name)
           own == [e EXCEPT !.id = m.id]
           taken == [own EXCEPT !.value = m.value, !.seq = m.seq]
           fresh == [taken EXCEPT !.flags = m.flags]
           new(x) == PutIds(s, m.name, x, idmap)
           reflag == IF m.flags # e.flags
                     THEN << FlagsUpdate(m.id, e.flags) >> ELSE << >>
           update == EntryUpdate(m.id, e.seq, e.value)
<1>1. idmap \in Slots
  BY MsgFields, StoreFields, WithSlotType
<1>2. own \in Entry /\ taken \in Entry /\ fresh \in Entry
  <2>1. /\ e \in Entry /\ m.flags \in BOOLEAN /\ m.seq \in SeqNums
        /\ m.id \in Nat /\ m.value \in Values
    BY StoreFields, MsgFields
  <2> HIDE DEF e
  <2>2. QED
    BY <2>1 DEF Entry
<1>3. \A x \in Entry : new(x) \in Store /\ new(x).server = s.server
  <2> HIDE DEF idmap
  <2> QED BY <1>1, MsgFields, PutIdsFacts
<1>4. reflag \in Seq(EntryMsg)
  <2>1. FlagsUpdate(m.id, e.flags) \in EntryMsg
    BY StoreFields, MsgFields DEF FlagsUpdate, EntryMsg, FlagsMsg
  <2>2. QED
    BY <2>1, OneMessage
<1>5. e.value # NoValue => Append(reflag, update) \in Seq(EntryMsg)
  <2>1. e.value # NoValue => update \in EntryMsg
    BY StoreFields, MsgFields DEF EntryUpdate, EntryMsg, UpdateMsg
  <2> HIDE DEF reflag, update
  <2>2. QED
    BY <2>1, <1>4
<1>6. \/ ProcessNewAssignment(s, m) = Result(new(fresh), << >>, TRUE, FALSE)
      \/ /\ e.value # NoValue
         /\ ProcessNewAssignment(s, m)
              = Result(new(own), Append(reflag, update), TRUE, FALSE)
      \/ ProcessNewAssignment(s, m)
           = Result(new(taken), reflag, TRUE, e.flags /\ e.value # m.value)
  BY DEF ProcessNewAssignment
<1>7. << >> \in Seq(EntryMsg)
  OBVIOUS
<1> HIDE DEF own, taken, fresh, new, reflag, update
<1>8. QED
  BY <1>2, <1>3, <1>4, <1>5, <1>6, <1>7, ResultIsGood

\* And one to an entry whose id is known.
LEMMA ProcessAssignmentType ==
    ASSUME NEW s \in Store, NEW m \in AssignMsg, Known(s, m.id)
    PROVE  GoodResult(s, ProcessAssignment(s, m))
<1> DEFINE n == NameOf(s, m.id)
           e == s.entries[n]
           new == [e EXCEPT !.value = m.value, !.flags = m.flags, !.seq = m.seq]
           out == IF s.server THEN << m >> ELSE << >>
           dirty == e.flags # m.flags \/ (m.flags /\ e.value # m.value)
<1>1. n \in Names
  BY KnownName, MsgFields
<1>2. new \in Entry
  <2>1. /\ e \in Entry /\ m.flags \in BOOLEAN /\ m.seq \in SeqNums
        /\ m.value \in Values
    BY <1>1, StoreFields, MsgFields
  <2> HIDE DEF e
  <2>2. QED
    BY <2>1 DEF Entry
<1>3. out \in Seq(EntryMsg)
  BY MsgFields, OneMessage
<1>4. ProcessAssignment(s, m) \in
        {Ignored(s), Result(Put(s, n, new), out, FALSE, dirty)}
  BY DEF ProcessAssignment
<1> HIDE DEF n, new, out, dirty
<1>5. GoodResult(s, Result(Put(s, n, new), out, FALSE, dirty))
  BY <1>1, <1>2, <1>3, PutFacts, ResultIsGood
<1>6. QED
  BY <1>4, <1>5, IgnoredType

\* Hence _processIncomingEntryAssign as a whole.
LEMMA ProcessEntryAssignType ==
    ASSUME NEW s \in Store, NEW m \in AssignMsg
    PROVE  GoodResult(s, ProcessEntryAssign(s, m))
  BY IgnoredType, ProcessIdRequestType, ProcessAssignmentType,
     ProcessNewAssignmentType DEF ProcessEntryAssign

\* _processIncomingEntryUpdate returns a good result.
LEMMA ProcessEntryUpdateType ==
    ASSUME NEW s \in Store, NEW m \in UpdateMsg
    PROVE  GoodResult(s, ProcessEntryUpdate(s, m))
<1> DEFINE n == NameOf(s, m.id)
           e == s.entries[n]
           new == [e EXCEPT !.value = m.value, !.seq = m.seq]
           out == IF s.server THEN << m >> ELSE << >>
<1>1. CASE ~Known(s, m.id) \/ IsSeqNewerOrEqual(e.seq, m.seq)
  BY <1>1, IgnoredType DEF ProcessEntryUpdate
<1>2. CASE Known(s, m.id) /\ ~IsSeqNewerOrEqual(e.seq, m.seq)
  <2>1. n \in Names
    BY <1>2, KnownName, MsgFields
  <2>2. new \in Entry
    <3>1. e \in Entry /\ m.seq \in SeqNums /\ m.value \in Values
      BY <2>1, StoreFields, MsgFields
    <3> HIDE DEF e
    <3>2. QED
      BY <3>1 DEF Entry
  <2>3. out \in Seq(EntryMsg)
    BY MsgFields, OneMessage
  <2>4. ProcessEntryUpdate(s, m) = Result(Put(s, n, new), out, FALSE, e.flags)
    BY <1>2 DEF ProcessEntryUpdate
  <2> HIDE DEF n, new, out
  <2>5. Put(s, n, new) \in Store /\ Put(s, n, new).server = s.server
    BY <2>1, <2>2, PutFacts
  <2>6. QED
    BY <2>3, <2>4, <2>5 DEF GoodResult, Result
<1>3. QED
  BY <1>1, <1>2

\* Passing a message on keeps a result good.
LEMMA PassOnType ==
    ASSUME NEW s \in Store, NEW r, GoodResult(s, r), NEW m \in EntryMsg
    PROVE  GoodResult(s, PassOn(s, r, m))
  BY OneMessage DEF PassOn, GoodResult, Result

\* Clearing leaves a good result.
LEMMA ClearType ==
    ASSUME NEW s \in Store, NEW out \in Seq(EntryMsg)
    PROVE  GoodResult(s, Result(DeleteEntries(s, Deletable(s)), out, TRUE, FALSE))
<1>1. Deletable(s) \in SUBSET Names
  BY DEF Deletable
<1>2. DeleteEntries(s, Deletable(s)) \in Store
      /\ DeleteEntries(s, Deletable(s)).server = s.server
  BY <1>1, DeleteEntriesFacts
<1>3. QED
  BY <1>2, ResultIsGood

\* Whatever message arrives, the store stays a store.
THEOREM ProcessIncomingType ==
    ASSUME NEW s \in Store, NEW m \in EntryMsg
    PROVE  GoodResult(s, ProcessIncoming(s, m))
<1>1. CASE m \in AssignMsg
  BY <1>1, MsgFields, ProcessEntryAssignType DEF ProcessIncoming
<1>2. CASE m \in UpdateMsg
  BY <1>2, MsgFields, ProcessEntryUpdateType DEF ProcessIncoming
<1>3. CASE m \in FlagsMsg
  <2>1. ProcessIncoming(s, m) = ProcessFlagsUpdate(s, m)
    BY <1>3, MsgFields DEF ProcessIncoming
  <2>2. Known(s, m.id) =>
          GoodResult(s, SetEntryFlagsImpl(s, NameOf(s, m.id), m.flags, FALSE))
    BY <1>3, MsgFields, KnownName, SetEntryFlagsImplType
  <2>3. QED
    BY <2>1, <2>2, PassOnType, IgnoredType DEF ProcessFlagsUpdate
<1>4. CASE m \in DeleteMsg
  <2>1. ProcessIncoming(s, m) = ProcessEntryDelete(s, m)
    BY <1>4, MsgFields DEF ProcessIncoming
  <2>2. Known(s, m.id) =>
          GoodResult(s, DeleteEntryImpl(s, NameOf(s, m.id), FALSE))
    BY <1>4, MsgFields, KnownName, DeleteEntryImplType
  <2>3. QED
    BY <2>1, <2>2, PassOnType, IgnoredType DEF ProcessEntryDelete
<1>5. CASE m \in ClearMsg
  <2>1. ProcessIncoming(s, m) = ProcessClearEntries(s, m)
    BY <1>5, MsgFields DEF ProcessIncoming
  <2> DEFINE r == Result(DeleteEntries(s, Deletable(s)), << >>, TRUE, FALSE)
  <2>2. GoodResult(s, r)
    <3>1. << >> \in Seq(EntryMsg)
      OBVIOUS
    <3>2. QED
      BY <3>1, ClearType
  <2>3. ProcessIncoming(s, m) = PassOn(s, r, m)
    BY <2>1 DEF ProcessClearEntries
  <2> HIDE DEF r
  <2>4. QED
    BY <2>2, <2>3, PassOnType
<1>6. QED
  BY <1>1, <1>2, <1>3, <1>4, <1>5 DEF EntryMsg

\* So does whatever the user calls.
LEMMA LocalOperationTypes ==
    ASSUME NEW s \in Store, NEW n \in Names, NEW v \in Values,
           NEW flags \in BOOLEAN
    PROVE  /\ GoodResult(s, SetDefaultEntryValue(s, n, v))
           /\ GoodResult(s, SetEntryValue(s, n, v))
           /\ GoodResult(s, SetEntryTypeValue(s, n, v))
           /\ GoodResult(s, SetEntryFlags(s, n, flags))
           /\ GoodResult(s, DeleteEntry(s, n))
<1>1. GoodResult(s, SetEntryValueImpl(s, n, v, TRUE))
  BY SetEntryValueImplType
<1>2. QED
  BY <1>1, IgnoredType, SetEntryFlagsImplType, DeleteEntryImplType
     DEF SetDefaultEntryValue, SetEntryValue, SetEntryTypeValue, SetEntryFlags,
         DeleteEntry

\* deleteAllEntries returns a good result.
LEMMA DeleteAllEntriesType ==
    ASSUME NEW s \in Store
    PROVE  GoodResult(s, DeleteAllEntries(s))
<1> DEFINE out == IF Deletable(s) = {} THEN << >> ELSE << ClearEntries >>
<1>1. ClearEntries \in EntryMsg
  BY DEF ClearEntries, EntryMsg, ClearMsg
<1>2. out \in Seq(EntryMsg)
  BY <1>1, OneMessage
<1>3. DeleteAllEntries(s)
        = Result(DeleteEntries(s, Deletable(s)), out, TRUE, FALSE)
  BY DEF DeleteAllEntries
<1> HIDE DEF out
<1>4. QED
  BY <1>2, <1>3, ClearType

-----------------------------------------------------------------------------
(* Types: the handshake *)

\* FS_Image for the function f.
LEMMA FiniteRange ==
    ASSUME NEW S, IsFiniteSet(S), NEW f, DOMAIN f = S
    PROVE  IsFiniteSet({f[x] : x \in S})
<1> DEFINE T == {f[x] : x \in S}
           g == [x \in S |-> f[x]]
<1>1. g \in Surjection(S, T)
  BY DEF Surjection
<1>2. QED
  BY <1>1, FS_Surjection

\* The server's snapshot is a finite set of assignments.
LEMMA GetInitialAssignmentsType ==
    ASSUME NEW s \in Store, IsFiniteSet(Names)
    PROVE  GetInitialAssignments(s) \in Snapshots
<1> DEFINE D == {x \in Names : Has(s, x)}
           msg(n) == EntryAssign(n, s.entries[n].id, s.entries[n].seq,
                                 s.entries[n].value, s.entries[n].flags)
           f == [n \in D |-> msg(n)]
<1>1. \A n \in D : msg(n) \in AssignMsg
  BY StoreFields DEF Has, EntryAssign, AssignMsg
<1>2. IsFiniteSet(D)
  BY FS_Subset
<1>3. GetInitialAssignments(s) = {f[n] : n \in D}
  BY DEF GetInitialAssignments
<1>4. IsFiniteSet({f[n] : n \in D})
  <2> HIDE DEF D
  <2>1. DOMAIN f = D
    OBVIOUS
  <2> HIDE DEF f
  <2>2. QED
    BY <1>2, <2>1, FiniteRange
<1>5. QED
  BY <1>1, <1>3, <1>4 DEF Snapshots

\* The message for a name is one of those received.
LEMMA AssignmentOfType ==
    ASSUME NEW msgs \in SUBSET AssignMsg, NEW n \in Assigned(msgs)
    PROVE  /\ n \in Names
           /\ AssignmentOf(msgs, n) \in msgs
           /\ AssignmentOf(msgs, n).name = n /\ AssignmentOf(msgs, n).id # NoId
<1>1. \E m \in msgs : m.name = n /\ m.id # NoId
  BY DEF Assigned
<1>2. AssignmentOf(msgs, n) \in msgs /\ AssignmentOf(msgs, n).name = n
      /\ AssignmentOf(msgs, n).id # NoId
  BY <1>1 DEF AssignmentOf
<1>3. QED
  BY <1>2, MsgFields

\* The id map has a length, because the messages are finitely many.
LEMMA IndicesAreFinite ==
    ASSUME NEW msgs \in Snapshots
    PROVE  IsFiniteSet(Indices(msgs)) /\ Cardinality(Indices(msgs)) \in Nat
<1> DEFINE D == {x \in msgs : x.id # NoId}
           f == [m \in D |-> 0 .. m.id]
           ranges == {f[m] : m \in D}
<1>1. IsFiniteSet(D)
  BY FS_Subset DEF Snapshots
<1>2. IsFiniteSet(ranges)
  <2> HIDE DEF D
  <2>1. DOMAIN f = D
    OBVIOUS
  <2> HIDE DEF f
  <2>2. QED
    BY <1>1, <2>1, FiniteRange
<1>3. \A r \in ranges : IsFiniteSet(r)
  <2>1. \A m \in D : m.id \in Nat
    BY MsgFields DEF Snapshots
  <2>2. \A m \in D : IsFiniteSet(0 .. m.id)
    BY <2>1, FS_Interval
  <2>3. QED
    BY <2>2
<1>4. Indices(msgs) = UNION ranges
  BY DEF Indices
<1>5. IsFiniteSet(UNION ranges)
  <2> HIDE DEF ranges
  <2>1. QED
    BY <1>2, <1>3, FS_UNION
<1>6. QED
  BY <1>4, <1>5, FS_CardinalityType

\* So the id map of a snapshot is a list of names and empty slots.
LEMMA IdMapOfType ==
    ASSUME NEW msgs \in Snapshots
    PROVE  IdMapOf(msgs) \in Slots
<1> DEFINE len == Cardinality(Indices(msgs))
<1>1. len \in Nat
  BY IndicesAreFinite
<1>2. \A n \in Assigned(msgs) : n \in Names
  BY AssignmentOfType DEF Snapshots
<1>3. \A k \in 1 .. len : IdMapOf(msgs)[k] \in Names \cup {NoName}
  <2> TAKE k \in 1 .. len
  <2>1. IdMapOf(msgs)[k] =
          IF \E n \in Assigned(msgs) : AssignmentOf(msgs, n).id = k - 1
          THEN CHOOSE n \in Assigned(msgs) : AssignmentOf(msgs, n).id = k - 1
          ELSE NoName
    BY DEF IdMapOf
  <2>2. QED
    BY <2>1, <1>2
<1>4. IdMapOf(msgs) \in [1 .. len -> Names \cup {NoName}]
  BY <1>3 DEF IdMapOf
<1>5. QED
  BY <1>1, <1>4 DEF Slots

\* What the handshake makes of one entry is an entry.
LEMMA HandshakeEntryTypes ==
    ASSUME NEW e \in Entry, NEW m \in AssignMsg
    PROVE  EntryAfterHandshake(e, m) \in Entry /\ EntryUnknownToServer(e) \in Entry
<1>1. /\ m.flags \in BOOLEAN /\ m.seq \in SeqNums /\ m.id \in Nat
      /\ m.value \in Values /\ NoId \in Nat
      /\ IncrementSeqnum(m.seq) \in SeqNums
  BY MsgFields, IncrementSeqnumType, StorageAssumption DEF StorageAssumption
<1>2. QED
  BY <1>1 DEF Entry, EntryAfterHandshake, EntryUnknownToServer

\* A client's store stays a store when it applies a snapshot.
LEMMA ApplyInitialAssignmentsType ==
    ASSUME NEW s \in Store, NEW msgs \in Snapshots
    PROVE  /\ ApplyInitialAssignments(s, msgs) \in Store
           /\ ApplyInitialAssignments(s, msgs).server = s.server
<1> DEFINE entries == [n \in Names |->
                IF n \in Assigned(msgs)
                THEN EntryAfterHandshake(s.entries[n], AssignmentOf(msgs, n))
                ELSE EntryUnknownToServer(s.entries[n])]
<1>1. \A n \in Assigned(msgs) : AssignmentOf(msgs, n) \in AssignMsg
  BY AssignmentOfType DEF Snapshots
<1>2. entries \in [Names -> Entry]
  <2>1. ASSUME NEW n \in Names PROVE entries[n] \in Entry
    <3>1. s.entries[n] \in Entry
      BY StoreFields
    <3>2. EntryUnknownToServer(s.entries[n]) \in Entry
      <4>1. s.entries[n].value \in Values \cup {NoValue} /\ NoId \in Nat
        BY StoreFields, StorageAssumption DEF StorageAssumption
      <4>2. QED
        BY <3>1, <4>1 DEF Entry, EntryUnknownToServer
    <3>3. QED
      BY <1>1, <3>1, <3>2, HandshakeEntryTypes
  <2>2. QED
    BY <2>1
<1>3. ApplyInitialAssignments(s, msgs)
        = [s EXCEPT !.entries = entries, !.idmap = IdMapOf(msgs)]
  BY DEF ApplyInitialAssignments
<1> HIDE DEF entries
<1>4. QED
  BY <1>2, <1>3, IdMapOfType DEF Store, Slots

\* What the client sends with it.
LEMMA InitialRequestsType ==
    ASSUME NEW s \in Store, NEW msgs \in Snapshots, IsFiniteSet(Names)
    PROVE  /\ InitialRequests(s, msgs) \subseteq EntryMsg
           /\ IsFiniteSet(InitialRequests(s, msgs))
<1> DEFINE D == {x \in Names \ Assigned(msgs) :
                    Has(s, x) /\ s.entries[x].localWrite}
           msg(n) == EntryAssign(n, NoId, s.entries[n].seq, s.entries[n].value,
                                 s.entries[n].flags)
           f == [n \in D |-> msg(n)]
<1>1. \A n \in D : msg(n) \in EntryMsg
  BY StoreFields, StorageAssumption
     DEF StorageAssumption, Has, EntryAssign, EntryMsg, AssignMsg
<1>2. IsFiniteSet(D)
  BY FS_Subset
<1>3. InitialRequests(s, msgs) = {f[n] : n \in D}
  BY DEF InitialRequests
<1>4. IsFiniteSet({f[n] : n \in D})
  <2> HIDE DEF D
  <2>1. DOMAIN f = D
    OBVIOUS
  <2> HIDE DEF f
  <2>2. QED
    BY <1>2, <2>1, FiniteRange
<1>5. QED
  BY <1>1, <1>3, <1>4

\* And the updates it queues for values it kept.
LEMMA InitialUpdatesType ==
    ASSUME NEW s \in Store, NEW msgs \in Snapshots, IsFiniteSet(Names)
    PROVE  /\ InitialUpdates(s, msgs) \subseteq EntryMsg
           /\ IsFiniteSet(InitialUpdates(s, msgs))
<1> DEFINE D == {x \in Assigned(msgs) : KeepsOwn(s.entries[x])}
           msg(n) == EntryUpdate(AssignmentOf(msgs, n).id,
                                 IncrementSeqnum(AssignmentOf(msgs, n).seq),
                                 s.entries[n].value)
           f == [n \in D |-> msg(n)]
<1>1. \A n \in D : n \in Names /\ AssignmentOf(msgs, n) \in AssignMsg
  BY AssignmentOfType DEF Snapshots
<1>2. \A n \in D : msg(n) \in EntryMsg
  <2> TAKE n \in D
  <2>1. /\ AssignmentOf(msgs, n).id \in Nat
        /\ IncrementSeqnum(AssignmentOf(msgs, n).seq) \in SeqNums
    BY <1>1, MsgFields, IncrementSeqnumType
  <2>2. s.entries[n].value \in Values
    BY <1>1, StoreFields DEF KeepsOwn
  <2>3. QED
    BY <2>1, <2>2 DEF EntryUpdate, EntryMsg, UpdateMsg
<1>3. D \in SUBSET Names
  BY <1>1
<1>4. IsFiniteSet(D)
  BY <1>3, FS_Subset
<1>5. InitialUpdates(s, msgs) = {f[n] : n \in D}
  BY DEF InitialUpdates
<1>6. IsFiniteSet({f[n] : n \in D})
  <2> HIDE DEF D
  <2>1. DOMAIN f = D
    OBVIOUS
  <2> HIDE DEF f
  <2>2. QED
    BY <1>4, <2>1, FiniteRange
<1>7. QED
  BY <1>2, <1>5, <1>6

-----------------------------------------------------------------------------
(* A server's ids and sequence numbers *)

\* What an operation of a server does to the ids: the map only grows, and if
\* it led from ids to entries and back it still does.
KeepsIds(s, t) ==
    /\ t \in Store
    /\ Len(t.idmap) >= Len(s.idmap)
    /\ IdsConsistent(s) => IdsConsistent(t)

\* The id map of a store is a sequence.
LEMMA StoreLen ==
    ASSUME NEW s \in Store
    PROVE  s.idmap \in Slots /\ Len(s.idmap) \in Nat
  BY DEF Store, Slots

\* Doing nothing keeps the ids.
LEMMA KeepsIdsReflexive ==
    ASSUME NEW s \in Store PROVE KeepsIds(s, s)
  BY StoreLen DEF KeepsIds

\* Two operations that keep the ids, one after the other, keep them.
LEMMA KeepsIdsTransitive ==
    ASSUME NEW s \in Store, NEW t, NEW u, KeepsIds(s, t), KeepsIds(t, u)
    PROVE  KeepsIds(s, u)
  BY StoreLen DEF KeepsIds

\* An operation that changes neither ids nor which entries exist.
LEMMA SameSlots ==
    ASSUME NEW s \in Store, NEW t \in Store, t.idmap = s.idmap,
           \A x \in Names : /\ t.entries[x].id = s.entries[x].id
                            /\ Has(t, x) <=> Has(s, x)
    PROVE  /\ IdsMatchEntries(s) => IdsMatchEntries(t)
           /\ SlotsMatchEntries(s) => SlotsMatchEntries(t)
<1>1. \A k \in 1 .. Len(s.idmap) :
        s.idmap[k] # NoName => s.idmap[k] \in Names
  BY StoreLen DEF Slots
<1>2. SlotsMatchEntries(s) => SlotsMatchEntries(t)
  BY <1>1 DEF SlotsMatchEntries
<1>3. IdsMatchEntries(s) => IdsMatchEntries(t)
  BY DEF IdsMatchEntries, Known, NameOf
<1>4. QED
  BY <1>2, <1>3

\* Such an operation keeps the ids.
LEMMA SameIds ==
    ASSUME NEW s \in Store, NEW t \in Store, t.idmap = s.idmap,
           \A x \in Names : /\ t.entries[x].id = s.entries[x].id
                            /\ Has(t, x) <=> Has(s, x)
    PROVE  KeepsIds(s, t)
  BY SameSlots, StoreLen DEF KeepsIds, IdsConsistent

\* The entry that an id leads to has that id, and a value.
LEMMA KnownHas ==
    ASSUME NEW s \in Store, NEW id \in Nat, Known(s, id),
           IdsConsistent(s), Len(s.idmap) <= NoId
    PROVE  s.entries[NameOf(s, id)].id = id /\ Has(s, NameOf(s, id))
<1>1. id + 1 \in 1 .. Len(s.idmap) /\ NameOf(s, id) \in Names
  BY KnownName
<1>2. s.idmap[id + 1] # NoName /\ id < Len(s.idmap)
  BY DEF Known
<1>3. s.entries[NameOf(s, id)].id = (id + 1) - 1
  BY <1>1, <1>2 DEF IdsConsistent, SlotsMatchEntries, NameOf
<1>4. id # NoId
  BY <1>2, StoreLen, StorageAssumption DEF StorageAssumption
<1>5. QED
  BY <1>1, <1>3, <1>4 DEF IdsConsistent, IdsMatchEntries

\* Giving a value to an entry that has an id, or else the next id.
LEMMA SetValueKeepsIds ==
    ASSUME NEW s \in Store, s.server, NEW n \in Names, NEW e \in Entry,
           e.value # NoValue,
           s.entries[n].id # NoId => e.id = s.entries[n].id,
           s.entries[n].id = NoId => e.id = Len(s.idmap)
    PROVE  KeepsIds(s, PutIds(s, n, e, IF s.entries[n].id = NoId
                                       THEN Append(s.idmap, n) ELSE s.idmap))
<1> DEFINE idmap == IF s.entries[n].id = NoId THEN Append(s.idmap, n)
                    ELSE s.idmap
           t == PutIds(s, n, e, idmap)
<1>1. s.idmap \in Slots /\ Len(s.idmap) \in Nat /\ NoId \in Nat /\ NoName \notin Names
  BY StoreLen, StorageAssumption DEF StorageAssumption
<1>2. /\ idmap \in Slots /\ Len(idmap) >= Len(s.idmap)
      /\ \A k \in 1 .. Len(s.idmap) : idmap[k] = s.idmap[k]
  BY <1>1 DEF Slots
<1>3. /\ t \in Store /\ t.idmap = idmap /\ t.entries[n] = e
      /\ \A x \in Names \ {n} : t.entries[x] = s.entries[x]
  <2> HIDE DEF idmap
  <2> QED BY <1>2, PutIdsFacts
<1>4. ASSUME IdsConsistent(s), Len(idmap) <= NoId
      PROVE  IdsMatchEntries(t) /\ SlotsMatchEntries(t)
  <2>1. IdsMatchEntries(s) /\ SlotsMatchEntries(s)
    BY <1>1, <1>2, <1>4 DEF IdsConsistent, Slots
  <2>2. CASE s.entries[n].id = NoId
    <3>1. /\ Len(idmap) = Len(s.idmap) + 1 /\ idmap[Len(s.idmap) + 1] = n
          /\ e.id = Len(s.idmap) /\ e.id < NoId
      BY <1>1, <1>4, <2>2 DEF Slots
    <3>2. \A x \in Names \ {n} : Has(s, x) =>
              /\ s.entries[x].id \in Nat /\ s.entries[x].id < Len(s.idmap)
              /\ s.idmap[s.entries[x].id + 1] = x
      BY <2>1, StoreFields DEF IdsMatchEntries, Known, NameOf
    <3> HIDE DEF idmap, t
    <3>3. IdsMatchEntries(t)
      <4>1. ASSUME NEW x \in Names \ {n}, Has(s, x)
            PROVE  Known(t, s.entries[x].id) /\ NameOf(t, s.entries[x].id) = x
        <5>1. s.entries[x].id + 1 \in 1 .. Len(s.idmap)
          BY <1>1, <3>2, <4>1
        <5>2. idmap[s.entries[x].id + 1] = x
          BY <1>2, <3>2, <4>1, <5>1
        <5>3. QED
          BY <1>1, <1>3, <3>1, <5>1, <5>2, <3>2, <4>1 DEF Known, NameOf
      <4>2. Known(t, e.id) /\ NameOf(t, e.id) = n
        BY <1>1, <1>3, <3>1 DEF Known, NameOf
      <4>3. QED
        BY <1>3, <2>1, <3>1, <4>1, <4>2 DEF IdsMatchEntries, Has
    <3>4. SlotsMatchEntries(t)
      <4>1. ASSUME NEW k \in 1 .. Len(s.idmap), s.idmap[k] # NoName
            PROVE  s.idmap[k] \in Names \ {n} /\ s.entries[s.idmap[k]].id = k - 1
        <5>1. s.entries[s.idmap[k]].id = k - 1
          BY <2>1, <4>1 DEF SlotsMatchEntries
        <5>2. k - 1 < NoId
          BY <1>1, <3>1
        <5>3. QED
          BY <1>1, <2>2, <4>1, <5>1, <5>2 DEF Slots
      <4>2. ASSUME NEW k \in 1 .. Len(idmap), idmap[k] # NoName
            PROVE  t.entries[idmap[k]].id = k - 1
        <5>1. CASE k = Len(s.idmap) + 1
          BY <1>1, <1>3, <3>1, <5>1
        <5>2. CASE k # Len(s.idmap) + 1
          <6>1. k \in 1 .. Len(s.idmap) /\ idmap[k] = s.idmap[k]
            BY <1>1, <1>2, <3>1, <5>2
          <6>2. QED
            BY <1>3, <4>1, <4>2, <6>1
        <5>3. QED
          BY <5>1, <5>2
      <4>3. QED
        BY <1>3, <4>2 DEF SlotsMatchEntries
    <3>5. QED
      BY <3>3, <3>4
  <2>3. CASE s.entries[n].id # NoId
    <3>1. t.idmap = s.idmap /\ e.id = s.entries[n].id
      BY <1>3, <2>3
    <3>2. Has(s, n)
      BY <2>1, <2>3 DEF IdsMatchEntries
    <3> HIDE DEF t, idmap
    <3>3. \A x \in Names : /\ t.entries[x].id = s.entries[x].id
                           /\ Has(t, x) <=> Has(s, x)
      BY <1>3, <3>1, <3>2 DEF Has
    <3>4. QED
      BY <1>3, <2>1, <3>1, <3>3, SameSlots
  <2>4. QED
    BY <2>2, <2>3
<1>5. QED
  <2>1. KeepsIds(s, t)
    <3> HIDE DEF t, idmap
    <3> QED BY <1>2, <1>3, <1>4 DEF KeepsIds, IdsConsistent
  <2>2. QED
    BY <2>1

\* _setEntryValueImpl on a server keeps the ids.
LEMMA SetEntryValueImplKeepsIds ==
    ASSUME NEW s \in Store, s.server, NEW n \in Names, NEW v \in Values,
           NEW local \in BOOLEAN
    PROVE  KeepsIds(s, SetEntryValueImpl(s, n, v, local).store)
<1> DEFINE e == s.entries[n]
           changed == e.value # v
           seq == IF local /\ changed THEN IncrementSeqnum(e.seq) ELSE e.seq
           id == IF e.id = NoId THEN Len(s.idmap) ELSE e.id
           entry == [value |-> v, flags |-> e.flags, id |-> id, seq |-> seq,
                     localWrite |-> e.localWrite \/ local]
           idmap == IF e.id = NoId THEN Append(s.idmap, n) ELSE s.idmap
<1>1. id \in Nat /\ seq \in SeqNums
  BY StoreFields, StoreLen, IncrementSeqnumType
<1>2. entry \in Entry
  BY <1>1, StoreFields DEF Entry
<1>3. entry.value # NoValue /\ entry.id = id
  BY StorageAssumption DEF StorageAssumption
<1>4. SetEntryValueImpl(s, n, v, local).store = PutIds(s, n, entry, idmap)
  BY DEF SetEntryValueImpl, Result
<1> HIDE DEF entry
<1>5. KeepsIds(s, PutIds(s, n, entry, idmap))
  BY <1>2, <1>3, SetValueKeepsIds
<1>6. QED
  BY <1>4, <1>5

\* _setEntryFlagsImpl keeps them.
LEMMA SetEntryFlagsImplKeepsIds ==
    ASSUME NEW s \in Store, NEW n \in Names, NEW flags \in BOOLEAN,
           NEW local \in BOOLEAN
    PROVE  KeepsIds(s, SetEntryFlagsImpl(s, n, flags, local).store)
<1> DEFINE new == [s.entries[n] EXCEPT !.flags = flags]
           t == Put(s, n, new)
<1>1. new \in Entry /\ new.id = s.entries[n].id /\ new.value = s.entries[n].value
  BY StoreFields DEF Entry
<1>2. /\ t \in Store /\ t.idmap = s.idmap /\ t.entries[n] = new
      /\ \A x \in Names \ {n} : t.entries[x] = s.entries[x]
  <2> HIDE DEF new
  <2> QED BY <1>1, PutFacts
<1>3. SetEntryFlagsImpl(s, n, flags, local).store \in {s, t}
  BY DEF SetEntryFlagsImpl, Ignored, Result
<1> HIDE DEF new, t
<1>4. KeepsIds(s, t)
  <2>1. \A x \in Names : /\ t.entries[x].id = s.entries[x].id
                         /\ Has(t, x) <=> Has(s, x)
    BY <1>1, <1>2 DEF Has
  <2>2. QED
    BY <1>2, <2>1, SameIds
<1>5. QED
  BY <1>3, <1>4, KeepsIdsReflexive

\* The deletes empty exactly the slots of the entries they delete.
LEMMA DeletingKeepsIds ==
    ASSUME NEW s \in Store, NEW t \in Store, NEW doomed \in SUBSET Names,
           Len(t.idmap) = Len(s.idmap),
           \A k \in 1 .. Len(s.idmap) : t.idmap[k] =
              IF \E n \in doomed : s.entries[n].id = k - 1
              THEN NoName ELSE s.idmap[k],
           \A n \in Names \ doomed : t.entries[n] = s.entries[n],
           \A n \in doomed : t.entries[n].value = NoValue
                             /\ t.entries[n].id = NoId
    PROVE  KeepsIds(s, t)
<1>1. s.idmap \in Slots /\ Len(s.idmap) \in Nat /\ NoId \in Nat
  BY StoreLen, StorageAssumption DEF StorageAssumption
<1>2. ASSUME IdsConsistent(s), Len(s.idmap) <= NoId
      PROVE  IdsMatchEntries(t) /\ SlotsMatchEntries(t)
  <2>1. IdsMatchEntries(s) /\ SlotsMatchEntries(s)
    BY <1>2 DEF IdsConsistent
  <2>2. ASSUME NEW x \in Names \ doomed, Has(s, x)
        PROVE  Known(t, s.entries[x].id) /\ NameOf(t, s.entries[x].id) = x
    <3> DEFINE k == s.entries[x].id + 1
    <3>1. s.idmap[k] = x /\ s.idmap[k] # NoName
          /\ s.entries[x].id \in Nat /\ k \in 1 .. Len(s.idmap)
          /\ s.entries[x].id < Len(s.idmap)
      BY <1>1, <2>1, <2>2, StoreFields DEF IdsMatchEntries, Known, NameOf
    <3>2. ASSUME NEW y \in doomed, s.entries[y].id = k - 1 PROVE FALSE
      <4>1. s.entries[y].id = s.entries[x].id /\ s.entries[y].id # NoId
        BY <1>1, <1>2, <3>1, <3>2
      <4>2. Has(s, y) /\ NameOf(s, s.entries[y].id) = y
        BY <2>1, <4>1 DEF IdsMatchEntries
      <4>3. QED
        BY <2>2, <3>1, <4>1, <4>2 DEF NameOf
    <3>3. t.idmap[k] = s.idmap[k]
      BY <3>1, <3>2
    <3>4. QED
      BY <1>1, <3>1, <3>3 DEF Known, NameOf
  <2>3. IdsMatchEntries(t)
    BY <2>1, <2>2 DEF IdsMatchEntries, Has
  <2>4. ASSUME NEW k \in 1 .. Len(s.idmap), t.idmap[k] # NoName
        PROVE  t.entries[t.idmap[k]].id = k - 1
    <3>1. t.idmap[k] = s.idmap[k] /\ ~\E n \in doomed : s.entries[n].id = k - 1
      BY <2>4
    <3>2. s.idmap[k] \in Names /\ s.entries[s.idmap[k]].id = k - 1
      BY <1>1, <2>1, <2>4, <3>1 DEF SlotsMatchEntries, Slots
    <3>3. QED
      BY <3>1, <3>2
  <2>5. QED
    BY <2>3, <2>4 DEF SlotsMatchEntries
<1>3. QED
  BY <1>1, <1>2 DEF KeepsIds, IdsConsistent

\* _deleteEntryImpl keeps them.
LEMMA DeleteEntryImplKeepsIds ==
    ASSUME NEW s \in Store, NEW n \in Names, NEW local \in BOOLEAN
    PROVE  KeepsIds(s, DeleteEntryImpl(s, n, local).store)
<1> DEFINE e == s.entries[n]
           gone == [NewEntry EXCEPT !.seq = e.seq]
           idmap == WithoutSlot(s.idmap, e.id)
           t == PutIds(s, n, gone, idmap)
<1>1. gone \in Entry /\ e.id \in Nat
  BY StoreFields, DeletedEntryType
<1>2. gone.value = NoValue /\ gone.id = NoId
  BY DEF NewEntry
<1>3. /\ idmap \in Slots /\ Len(idmap) = Len(s.idmap)
      /\ \A k \in 1 .. Len(s.idmap) : idmap[k] =
            IF k = e.id + 1 THEN NoName ELSE s.idmap[k]
  BY <1>1, StoreLen, WithoutSlotType
<1>4. /\ t \in Store /\ t.idmap = idmap /\ t.entries[n] = gone
      /\ \A x \in Names \ {n} : t.entries[x] = s.entries[x]
  <2> HIDE DEF gone, idmap
  <2> QED BY <1>1, <1>3, PutIdsFacts
<1>5. DeleteEntryImpl(s, n, local).store = t
  BY DEF DeleteEntryImpl, Result
<1>6. \A k \in 1 .. Len(s.idmap) :
        k = e.id + 1 <=> \E x \in {n} : s.entries[x].id = k - 1
  BY <1>1
<1> HIDE DEF gone, idmap, t
<1>7. /\ Len(t.idmap) = Len(s.idmap)
      /\ \A k \in 1 .. Len(s.idmap) : t.idmap[k] =
            IF \E x \in {n} : s.entries[x].id = k - 1
            THEN NoName ELSE s.idmap[k]
  BY <1>3, <1>4, <1>6
<1>8. KeepsIds(s, t)
  <2>1. /\ {n} \in SUBSET Names
        /\ \A x \in {n} : t.entries[x].value = NoValue /\ t.entries[x].id = NoId
    BY <1>2, <1>4
  <2>2. QED
    BY <1>4, <1>7, <2>1, DeletingKeepsIds
<1>9. QED
  BY <1>5, <1>8

\* _deleteAllEntriesImpl keeps them.
LEMMA DeleteEntriesKeepsIds ==
    ASSUME NEW s \in Store
    PROVE  KeepsIds(s, DeleteEntries(s, Deletable(s)))
<1>1. Deletable(s) \in SUBSET Names
  BY DEF Deletable
<1> DEFINE t == DeleteEntries(s, Deletable(s))
<1>2. /\ t \in Store /\ Len(t.idmap) = Len(s.idmap)
      /\ \A k \in 1 .. Len(s.idmap) : t.idmap[k] =
            IF \E n \in Deletable(s) : s.entries[n].id = k - 1
            THEN NoName ELSE s.idmap[k]
      /\ \A n \in Names \ Deletable(s) : t.entries[n] = s.entries[n]
      /\ \A n \in Deletable(s) : t.entries[n].value = NoValue
                                 /\ t.entries[n].id = NoId
  BY <1>1, DeleteEntriesFacts
<1>3. QED
  BY <1>1, <1>2, DeletingKeepsIds

\* An incoming value for an entry whose id the message names.
LEMMA PutValueKeepsIds ==
    ASSUME NEW s \in Store, NEW id \in Nat, Known(s, id), NEW e \in Entry,
           e.value # NoValue, e.id = s.entries[NameOf(s, id)].id
    PROVE  KeepsIds(s, Put(s, NameOf(s, id), e))
<1> DEFINE n == NameOf(s, id)
           t == Put(s, n, e)
<1>1. n \in Names
  BY KnownName
<1> HIDE DEF n
<1>2. /\ t \in Store /\ t.idmap = s.idmap /\ t.entries[n] = e
      /\ \A x \in Names \ {n} : t.entries[x] = s.entries[x]
  BY <1>1, PutFacts
<1> HIDE DEF t
<1>3. ASSUME IdsConsistent(s), Len(s.idmap) <= NoId
      PROVE  IdsMatchEntries(t) /\ SlotsMatchEntries(t)
  <2>1. Has(s, n)
    BY <1>3, KnownHas DEF n
  <2>2. \A x \in Names : /\ t.entries[x].id = s.entries[x].id
                         /\ Has(t, x) <=> Has(s, x)
    BY <1>2, <2>1 DEF Has, n
  <2>3. QED
    BY <1>2, <1>3, <2>2, SameSlots DEF IdsConsistent
<1>4. KeepsIds(s, t)
  BY <1>2, <1>3, StoreLen DEF KeepsIds, IdsConsistent
<1>5. QED
  BY <1>4 DEF t, n

-----------------------------------------------------------------------------
(* The operations of a server *)

\* An incoming assignment keeps the ids.
LEMMA ProcessEntryAssignKeepsIds ==
    ASSUME NEW s \in Store, s.server, NEW m \in AssignMsg
    PROVE  KeepsIds(s, ProcessEntryAssign(s, m).store)
<1>1. /\ m.name \in Names /\ m.id \in Nat /\ m.seq \in SeqNums
      /\ m.value \in Values /\ m.value # NoValue /\ m.flags \in BOOLEAN
  BY MsgFields
<1>2. CASE m.id = NoId /\ s.entries[m.name].id = NoId
  <2> DEFINE n == m.name
             e == s.entries[n]
             new == [e EXCEPT !.flags = m.flags, !.seq = m.seq]
             t == Put(s, n, new)
  <2>1. ProcessEntryAssign(s, m) = SetEntryValueImpl(t, n, m.value, FALSE)
    BY <1>2 DEF ProcessEntryAssign, ProcessIdRequest
  <2>2. n \in Names
    BY <1>1
  <2> HIDE DEF n
  <2>3. new \in Entry /\ new.id = e.id /\ new.value = e.value
    <3>1. e \in Entry
      BY <2>2, StoreFields
    <3> HIDE DEF e
    <3>2. QED
      BY <1>1, <3>1 DEF Entry
  <2> HIDE DEF new
  <2>4. /\ t \in Store /\ t.idmap = s.idmap /\ t.entries[n] = new
        /\ \A x \in Names \ {n} : t.entries[x] = s.entries[x]
    BY <2>2, <2>3, PutFacts
  <2>5. t.server
    BY DEF Put
  <2> HIDE DEF t
  <2>6. \A x \in Names : /\ t.entries[x].id = s.entries[x].id
                         /\ Has(t, x) <=> Has(s, x)
    BY <2>2, <2>3, <2>4 DEF Has
  <2>7. KeepsIds(s, t)
    BY <2>4, <2>6, SameIds
  <2>8. KeepsIds(t, SetEntryValueImpl(t, n, m.value, FALSE).store)
    BY <1>1, <2>2, <2>4, <2>5, SetEntryValueImplKeepsIds
  <2>9. QED
    BY <2>1, <2>4, <2>7, <2>8, KeepsIdsTransitive
<1>3. CASE m.id # NoId /\ Known(s, m.id)
  <2> DEFINE n == NameOf(s, m.id)
             e == s.entries[n]
             new == [e EXCEPT !.value = m.value, !.flags = m.flags,
                              !.seq = m.seq]
  <2>1. e \in Entry
    BY <1>1, <1>3, KnownName, StoreFields
  <2>2. new \in Entry /\ new.value # NoValue /\ new.id = e.id
    <3> HIDE DEF e
    <3> QED BY <1>1, <2>1 DEF Entry
  <2>3. ProcessEntryAssign(s, m).store \in {s, Put(s, n, new)}
    BY <1>3 DEF ProcessEntryAssign, ProcessAssignment, Ignored, Result
  <2>4. KeepsIds(s, Put(s, n, new))
    <3> HIDE DEF new
    <3> QED BY <1>1, <1>3, <2>2, PutValueKeepsIds
  <2>5. QED
    BY <2>3, <2>4, KeepsIdsReflexive
<1>4. CASE \/ m.id = NoId /\ s.entries[m.name].id # NoId
           \/ m.id # NoId /\ ~Known(s, m.id)
  <2>1. ProcessEntryAssign(s, m).store = s
    BY <1>4 DEF ProcessEntryAssign, ProcessIdRequest, Ignored, Result
  <2>2. QED
    BY <2>1, KeepsIdsReflexive
<1>5. QED
  BY <1>2, <1>3, <1>4

\* An incoming update keeps the ids.
LEMMA ProcessEntryUpdateKeepsIds ==
    ASSUME NEW s \in Store, NEW m \in UpdateMsg
    PROVE  KeepsIds(s, ProcessEntryUpdate(s, m).store)
<1> DEFINE n == NameOf(s, m.id)
           e == s.entries[n]
           new == [e EXCEPT !.value = m.value, !.seq = m.seq]
<1>1. /\ m.id \in Nat /\ m.seq \in SeqNums /\ m.value \in Values
      /\ m.value # NoValue
  BY MsgFields
<1>2. CASE Known(s, m.id)
  <2>1. e \in Entry
    BY <1>1, <1>2, KnownName, StoreFields
  <2>2. new \in Entry /\ new.value # NoValue /\ new.id = e.id
    <3> HIDE DEF e
    <3> QED BY <1>1, <2>1 DEF Entry
  <2>3. ProcessEntryUpdate(s, m).store \in {s, Put(s, n, new)}
    BY DEF ProcessEntryUpdate, Ignored, Result
  <2>4. KeepsIds(s, Put(s, n, new))
    <3> HIDE DEF new
    <3> QED BY <1>1, <1>2, <2>2, PutValueKeepsIds
  <2>5. QED
    BY <2>3, <2>4, KeepsIdsReflexive
<1>3. CASE ~Known(s, m.id)
  BY <1>3, KeepsIdsReflexive DEF ProcessEntryUpdate, Ignored, Result
<1>4. QED
  BY <1>2, <1>3

\* Whatever message arrives at a server, its ids stay consistent.
THEOREM ProcessIncomingKeepsIds ==
    ASSUME NEW s \in Store, s.server, NEW m \in EntryMsg
    PROVE  KeepsIds(s, ProcessIncoming(s, m).store)
<1>1. CASE m \in AssignMsg
  BY <1>1, MsgFields, ProcessEntryAssignKeepsIds DEF ProcessIncoming
<1>2. CASE m \in UpdateMsg
  BY <1>2, MsgFields, ProcessEntryUpdateKeepsIds DEF ProcessIncoming
<1>3. CASE m \in FlagsMsg
  <2>1. ProcessIncoming(s, m).store =
          IF Known(s, m.id)
          THEN SetEntryFlagsImpl(s, NameOf(s, m.id), m.flags, FALSE).store
          ELSE s
    BY <1>3, MsgFields
       DEF ProcessIncoming, ProcessFlagsUpdate, PassOn, Ignored, Result
  <2>2. Known(s, m.id) =>
          KeepsIds(s, SetEntryFlagsImpl(s, NameOf(s, m.id), m.flags, FALSE).store)
    BY <1>3, MsgFields, KnownName, SetEntryFlagsImplKeepsIds
  <2>3. QED
    BY <2>1, <2>2, KeepsIdsReflexive
<1>4. CASE m \in DeleteMsg
  <2>1. ProcessIncoming(s, m).store =
          IF Known(s, m.id)
          THEN DeleteEntryImpl(s, NameOf(s, m.id), FALSE).store ELSE s
    BY <1>4, MsgFields
       DEF ProcessIncoming, ProcessEntryDelete, PassOn, Ignored, Result
  <2>2. Known(s, m.id) =>
          KeepsIds(s, DeleteEntryImpl(s, NameOf(s, m.id), FALSE).store)
    BY <1>4, MsgFields, KnownName, DeleteEntryImplKeepsIds
  <2>3. QED
    BY <2>1, <2>2, KeepsIdsReflexive
<1>5. CASE m \in ClearMsg
  <2>1. ProcessIncoming(s, m).store = DeleteEntries(s, Deletable(s))
    BY <1>5, MsgFields DEF ProcessIncoming, ProcessClearEntries, PassOn, Result
  <2>2. QED
    BY <2>1, DeleteEntriesKeepsIds
<1>6. QED
  BY <1>1, <1>2, <1>3, <1>4, <1>5 DEF EntryMsg

\* And so they do whatever the user of a server calls.
THEOREM LocalOperationsKeepIds ==
    ASSUME NEW s \in Store, s.server, NEW n \in Names, NEW v \in Values,
           NEW flags \in BOOLEAN
    PROVE  /\ KeepsIds(s, SetDefaultEntryValue(s, n, v).store)
           /\ KeepsIds(s, SetEntryValue(s, n, v).store)
           /\ KeepsIds(s, SetEntryTypeValue(s, n, v).store)
           /\ KeepsIds(s, SetEntryFlags(s, n, flags).store)
           /\ KeepsIds(s, DeleteEntry(s, n).store)
<1>1. KeepsIds(s, SetEntryValueImpl(s, n, v, TRUE).store)
  BY SetEntryValueImplKeepsIds
<1>2. Ignored(s).store = s
  BY DEF Ignored, Result
<1>3. KeepsIds(s, SetEntryFlagsImpl(s, n, flags, TRUE).store)
  BY SetEntryFlagsImplKeepsIds
<1>4. KeepsIds(s, DeleteEntryImpl(s, n, TRUE).store)
  BY DeleteEntryImplKeepsIds
<1>5. QED
  BY <1>1, <1>2, <1>3, <1>4, KeepsIdsReflexive
     DEF SetDefaultEntryValue, SetEntryValue, SetEntryTypeValue, SetEntryFlags,
         DeleteEntry

\* So does deleteAllEntries.
LEMMA DeleteAllEntriesKeepsIds ==
    ASSUME NEW s \in Store
    PROVE  KeepsIds(s, DeleteAllEntries(s).store)
  BY DeleteEntriesKeepsIds DEF DeleteAllEntries, Result

-----------------------------------------------------------------------------
(* Sequence numbers *)

\* No entry that keeps its id gets an older sequence number.
NoOlderSeq(s, t) ==
    \A n \in Names :
        s.entries[n].id # NoId /\ t.entries[n].id = s.entries[n].id
            => ~IsSeqNewerThan(s.entries[n].seq, t.entries[n].seq)

\* A number is not newer than itself or than the next one.
LEMMA NotNewerThanSelf ==
    ASSUME NEW x \in SeqNums
    PROVE  ~IsSeqNewerThan(x, x) /\ ~IsSeqNewerThan(x, IncrementSeqnum(x))
<1>1. ~IsSeqNewerThan(x, x)
  BY SeqSpaceFacts DEF IsSeqNewerThan, SeqNums
<1>2. 1 \in 1 .. (Half - 1)
  BY SeqSpaceFacts
<1>3. ~IsSeqNewerThan(x, Later(x, 1))
  BY <1>2, LaterIsNewer
<1>4. QED
  BY <1>1, <1>3 DEF IncrementSeqnum

\* Doing nothing makes no sequence number older.
LEMMA NoOlderSeqReflexive ==
    ASSUME NEW s \in Store PROVE NoOlderSeq(s, s)
  BY StoreFields, NotNewerThanSelf DEF NoOlderSeq

\* An operation on one entry.
LEMMA OneEntryNoOlderSeq ==
    ASSUME NEW s \in Store, NEW t, NEW n \in Names,
           \A x \in Names \ {n} : t.entries[x] = s.entries[x],
           s.entries[n].id # NoId /\ t.entries[n].id = s.entries[n].id
              => ~IsSeqNewerThan(s.entries[n].seq, t.entries[n].seq)
    PROVE  NoOlderSeq(s, t)
  BY StoreFields, NotNewerThanSelf DEF NoOlderSeq

\* _setEntryValueImpl keeps a sequence number or raises it.
LEMMA SetEntryValueImplNoOlderSeq ==
    ASSUME NEW s \in Store, NEW n \in Names, NEW v \in Values,
           NEW local \in BOOLEAN
    PROVE  NoOlderSeq(s, SetEntryValueImpl(s, n, v, local).store)
<1> DEFINE e == s.entries[n]
           t == SetEntryValueImpl(s, n, v, local).store
<1>1. /\ \A x \in Names \ {n} : t.entries[x] = s.entries[x]
      /\ t.entries[n].seq \in {e.seq, IncrementSeqnum(e.seq)}
  BY DEF SetEntryValueImpl, Result, PutIds, Store
<1>2. e.seq \in SeqNums
  BY StoreFields
<1>3. ~IsSeqNewerThan(e.seq, t.entries[n].seq)
  <2> HIDE DEF t
  <2> QED BY <1>1, <1>2, NotNewerThanSelf
<1> HIDE DEF t
<1>4. QED
  BY <1>1, <1>3, OneEntryNoOlderSeq DEF t

\* _setEntryFlagsImpl keeps it.
LEMMA SetEntryFlagsImplNoOlderSeq ==
    ASSUME NEW s \in Store, NEW n \in Names, NEW flags \in BOOLEAN,
           NEW local \in BOOLEAN
    PROVE  NoOlderSeq(s, SetEntryFlagsImpl(s, n, flags, local).store)
<1> DEFINE t == SetEntryFlagsImpl(s, n, flags, local).store
<1>1. /\ \A x \in Names \ {n} : t.entries[x] = s.entries[x]
      /\ t.entries[n].seq = s.entries[n].seq
  BY StoreFields DEF SetEntryFlagsImpl, Ignored, Result, Put, Store, Entry
<1>2. ~IsSeqNewerThan(s.entries[n].seq, t.entries[n].seq)
  BY <1>1, StoreFields, NotNewerThanSelf
<1> HIDE DEF t
<1>3. NoOlderSeq(s, t)
  BY <1>1, <1>2, OneEntryNoOlderSeq
<1>4. QED
  BY <1>3 DEF t

\* A deleted entry has no id any more.
LEMMA DeletingNoOlderSeq ==
    ASSUME NEW s \in Store, NEW n \in Names, NEW local \in BOOLEAN
    PROVE  NoOlderSeq(s, DeleteEntryImpl(s, n, local).store)
<1> DEFINE t == DeleteEntryImpl(s, n, local).store
<1>1. /\ \A x \in Names \ {n} : t.entries[x] = s.entries[x]
      /\ t.entries[n].id = NoId
  BY DEF DeleteEntryImpl, Result, PutIds, Store, NewEntry
<1> HIDE DEF t
<1>2. NoOlderSeq(s, t)
  BY <1>1, OneEntryNoOlderSeq
<1>3. QED
  BY <1>2 DEF t

\* And so are cleared ones.
LEMMA ClearingNoOlderSeq ==
    ASSUME NEW s \in Store
    PROVE  NoOlderSeq(s, DeleteEntries(s, Deletable(s)))
<1> DEFINE t == DeleteEntries(s, Deletable(s))
<1>1. Deletable(s) \in SUBSET Names
  BY DEF Deletable
<1>2. /\ \A x \in Names : x \notin Deletable(s) => t.entries[x] = s.entries[x]
      /\ \A x \in Deletable(s) : t.entries[x].id = NoId
  BY <1>1, DeleteEntriesFacts
<1> HIDE DEF t
<1>3. NoOlderSeq(s, t)
  BY <1>2, StoreFields, NotNewerThanSelf DEF NoOlderSeq
<1>4. QED
  BY <1>3 DEF t

\* An incoming assignment is taken only if the entry is not newer.
LEMMA ProcessEntryAssignNoOlderSeq ==
    ASSUME NEW s \in Store, s.server, NEW m \in AssignMsg
    PROVE  NoOlderSeq(s, ProcessEntryAssign(s, m).store)
<1>1. /\ m.name \in Names /\ m.id \in Nat /\ m.seq \in SeqNums
      /\ m.value \in Values /\ m.flags \in BOOLEAN
  BY MsgFields
<1>2. CASE m.id = NoId /\ s.entries[m.name].id = NoId
  <2> DEFINE n == m.name
             t == ProcessEntryAssign(s, m).store
  <2>1. \A x \in Names \ {n} : t.entries[x] = s.entries[x]
    BY <1>2 DEF ProcessEntryAssign, ProcessIdRequest, SetEntryValueImpl, Result,
       Put, PutIds, Store
  <2>2. n \in Names /\ s.entries[n].id = NoId
    BY <1>1, <1>2
  <2> HIDE DEF t, n
  <2>3. NoOlderSeq(s, t)
    BY <2>1, <2>2, OneEntryNoOlderSeq
  <2>4. QED
    BY <2>3 DEF t
<1>3. CASE m.id # NoId /\ Known(s, m.id) /\ ~IsSeqNewerThan(s.entries[NameOf(s, m.id)].seq, m.seq)
  <2> DEFINE n == NameOf(s, m.id)
             t == ProcessEntryAssign(s, m).store
  <2>1. n \in Names
    BY <1>1, <1>3, KnownName
  <2>2. /\ \A x \in Names \ {n} : t.entries[x] = s.entries[x]
        /\ t.entries[n].seq \in {s.entries[n].seq, m.seq}
    BY <1>3, <2>1, StoreFields
       DEF ProcessEntryAssign, ProcessAssignment, Ignored, Result, Put, Store,
           Entry
  <2>3. ~IsSeqNewerThan(s.entries[n].seq, t.entries[n].seq)
    BY <1>3, <2>1, <2>2, StoreFields, NotNewerThanSelf
  <2> HIDE DEF t, n
  <2>4. NoOlderSeq(s, t)
    BY <2>1, <2>2, <2>3, OneEntryNoOlderSeq
  <2>5. QED
    BY <2>4 DEF t
<1>4. CASE \/ m.id = NoId /\ s.entries[m.name].id # NoId
           \/ m.id # NoId /\ ~Known(s, m.id)
           \/ /\ m.id # NoId /\ Known(s, m.id)
              /\ IsSeqNewerThan(s.entries[NameOf(s, m.id)].seq, m.seq)
  <2>1. ProcessEntryAssign(s, m).store = s
    BY <1>4 DEF ProcessEntryAssign, ProcessIdRequest, ProcessAssignment,
       Ignored, Result
  <2>2. QED
    BY <2>1, NoOlderSeqReflexive
<1>5. QED
  BY <1>2, <1>3, <1>4

\* An incoming update is taken only if it is newer.
LEMMA ProcessEntryUpdateNoOlderSeq ==
    ASSUME NEW s \in Store, NEW m \in UpdateMsg
    PROVE  NoOlderSeq(s, ProcessEntryUpdate(s, m).store)
<1> DEFINE n == NameOf(s, m.id)
           t == ProcessEntryUpdate(s, m).store
<1>1. m.id \in Nat /\ m.seq \in SeqNums /\ m.value \in Values
  BY MsgFields
<1>2. CASE Known(s, m.id) /\ ~IsSeqNewerThan(s.entries[n].seq, m.seq)
  <2>1. n \in Names
    BY <1>1, <1>2, KnownName
  <2>2. /\ \A x \in Names \ {n} : t.entries[x] = s.entries[x]
        /\ t.entries[n].seq \in {s.entries[n].seq, m.seq}
    BY <2>1, StoreFields
       DEF ProcessEntryUpdate, Ignored, Result, Put, Store, Entry
  <2>3. ~IsSeqNewerThan(s.entries[n].seq, t.entries[n].seq)
    BY <1>2, <2>1, <2>2, StoreFields, NotNewerThanSelf
  <2> HIDE DEF t, n
  <2>4. NoOlderSeq(s, t)
    BY <2>1, <2>2, <2>3, OneEntryNoOlderSeq
  <2>5. QED
    BY <2>4 DEF t
<1>3. CASE ~Known(s, m.id) \/ IsSeqNewerThan(s.entries[n].seq, m.seq)
  <2>1. t = s
    BY <1>3 DEF ProcessEntryUpdate, IsSeqNewerOrEqual, Ignored, Result
  <2>2. QED
    BY <2>1, NoOlderSeqReflexive
<1>4. QED
  BY <1>2, <1>3

\* Whatever message arrives at a server, and whatever its user calls.
THEOREM ProcessIncomingNoOlderSeq ==
    ASSUME NEW s \in Store, s.server, NEW m \in EntryMsg
    PROVE  NoOlderSeq(s, ProcessIncoming(s, m).store)
<1>1. CASE m \in AssignMsg
  BY <1>1, MsgFields, ProcessEntryAssignNoOlderSeq DEF ProcessIncoming
<1>2. CASE m \in UpdateMsg
  BY <1>2, MsgFields, ProcessEntryUpdateNoOlderSeq DEF ProcessIncoming
<1>3. CASE m \in FlagsMsg
  <2>1. ProcessIncoming(s, m).store =
          IF Known(s, m.id)
          THEN SetEntryFlagsImpl(s, NameOf(s, m.id), m.flags, FALSE).store
          ELSE s
    BY <1>3, MsgFields
       DEF ProcessIncoming, ProcessFlagsUpdate, PassOn, Ignored, Result
  <2>2. Known(s, m.id) =>
          NoOlderSeq(s, SetEntryFlagsImpl(s, NameOf(s, m.id), m.flags, FALSE).store)
    BY <1>3, MsgFields, KnownName, SetEntryFlagsImplNoOlderSeq
  <2>3. QED
    BY <2>1, <2>2, NoOlderSeqReflexive
<1>4. CASE m \in DeleteMsg
  <2>1. ProcessIncoming(s, m).store =
          IF Known(s, m.id)
          THEN DeleteEntryImpl(s, NameOf(s, m.id), FALSE).store ELSE s
    BY <1>4, MsgFields
       DEF ProcessIncoming, ProcessEntryDelete, PassOn, Ignored, Result
  <2>2. Known(s, m.id) =>
          NoOlderSeq(s, DeleteEntryImpl(s, NameOf(s, m.id), FALSE).store)
    BY <1>4, MsgFields, KnownName, DeletingNoOlderSeq
  <2>3. QED
    BY <2>1, <2>2, NoOlderSeqReflexive
<1>5. CASE m \in ClearMsg
  <2>1. ProcessIncoming(s, m).store = DeleteEntries(s, Deletable(s))
    BY <1>5, MsgFields DEF ProcessIncoming, ProcessClearEntries, PassOn, Result
  <2>2. QED
    BY <2>1, ClearingNoOlderSeq
<1>6. QED
  BY <1>1, <1>2, <1>3, <1>4, <1>5 DEF EntryMsg

\* The calls of the user of a server.
LEMMA LocalOperationsNoOlderSeq ==
    ASSUME NEW s \in Store, NEW n \in Names, NEW v \in Values,
           NEW flags \in BOOLEAN
    PROVE  /\ NoOlderSeq(s, SetDefaultEntryValue(s, n, v).store)
           /\ NoOlderSeq(s, SetEntryValue(s, n, v).store)
           /\ NoOlderSeq(s, SetEntryTypeValue(s, n, v).store)
           /\ NoOlderSeq(s, SetEntryFlags(s, n, flags).store)
           /\ NoOlderSeq(s, DeleteEntry(s, n).store)
<1>1. NoOlderSeq(s, SetEntryValueImpl(s, n, v, TRUE).store)
  BY SetEntryValueImplNoOlderSeq
<1>2. Ignored(s).store = s
  BY DEF Ignored, Result
<1>3. NoOlderSeq(s, SetEntryFlagsImpl(s, n, flags, TRUE).store)
  BY SetEntryFlagsImplNoOlderSeq
<1>4. NoOlderSeq(s, DeleteEntryImpl(s, n, TRUE).store)
  BY DeletingNoOlderSeq
<1>5. QED
  BY <1>1, <1>2, <1>3, <1>4, NoOlderSeqReflexive
     DEF SetDefaultEntryValue, SetEntryValue, SetEntryTypeValue, SetEntryFlags,
         DeleteEntry

\* And the call that clears.
LEMMA DeleteAllEntriesNoOlderSeq ==
    ASSUME NEW s \in Store
    PROVE  NoOlderSeq(s, DeleteAllEntries(s).store)
  BY ClearingNoOlderSeq DEF DeleteAllEntries, Result

-----------------------------------------------------------------------------
(* The ids on either side *)

\* The id of every entry leads back to it.
IdsResolve(s) ==
    \A n \in Names :
        s.entries[n].id # NoId =>
            Known(s, s.entries[n].id) /\ NameOf(s, s.entries[n].id) = n

\* The names in D lose their ids, and their slots are emptied.
Dropped(s, t, D) ==
    /\ D \in SUBSET Names
    /\ Len(t.idmap) = Len(s.idmap)
    /\ \A k \in 1 .. Len(s.idmap) :
          t.idmap[k] = IF \E n \in D : s.entries[n].id = k - 1
                       THEN NoName ELSE s.idmap[k]
    /\ \A n \in Names \ D : t.entries[n].id = s.entries[n].id
    /\ \A n \in D : t.entries[n].id = NoId

\* A name gets an id whose slot is empty or beyond the end of the map.
Given(s, t, n, id) ==
    /\ n \in Names /\ id \in Nat /\ ~Known(s, id)
    /\ Len(t.idmap) >= Len(s.idmap) /\ Len(t.idmap) > id
    /\ \A k \in 1 .. Len(t.idmap) :
          t.idmap[k] = IF k = id + 1 THEN n
                       ELSE IF k <= Len(s.idmap) THEN s.idmap[k] ELSE NoName
    /\ t.entries[n].id = id
    /\ \A x \in Names \ {n} : t.entries[x].id = s.entries[x].id

\* What an operation does to the ids.  A server gives the next id, which was
\* never used; a client gives a name the id it is told.
IdStep(s, t, told) ==
    \/ \E D \in SUBSET Names : Dropped(s, t, D)
    \/ \E n \in Names, id \in Nat :
          /\ Given(s, t, n, id)
          /\ IF s.server THEN id = Len(s.idmap) ELSE << n, id >> \in told

\* The id a message tells a client for a name.
Told(m) ==
    IF m.type = "EntryAssign" /\ m.id # NoId THEN {<< m.name, m.id >>} ELSE {}

\* An assignment names what the map has in its slot, or the slot is empty.
Agrees(idmap, m) ==
    m.id # NoId => m.id < Len(idmap) /\ idmap[m.id + 1] \in {m.name, NoName}

\* So do the assignments among some messages.
AllAgreeWith(idmap, msgs) ==
    \A i \in 1 .. Len(msgs) :
        msgs[i].type = "EntryAssign" => Agrees(idmap, msgs[i])

\* No slot of a map is ever given to another name.
SlotsPersist(idmap, new) ==
    /\ Len(idmap) <= Len(new)
    /\ \A k \in 1 .. Len(idmap) : new[k] \in {idmap[k], NoName}

-----------------------------------------------------------------------------
(* What follows from that *)

\* A step on the ids keeps them leading back.
LEMMA IdStepResolves ==
    ASSUME NEW told, NEW s \in Store, NEW t \in Store, IdStep(s, t, told), IdsResolve(s)
    PROVE  IdsResolve(t)
<1>1. Len(s.idmap) \in Nat /\ Len(t.idmap) \in Nat
  BY StoreLen
<1> SUFFICES ASSUME NEW n \in Names, t.entries[n].id # NoId
             PROVE  Known(t, t.entries[n].id) /\ NameOf(t, t.entries[n].id) = n
  BY DEF IdsResolve
<1>2. n # NoName
  BY StorageAssumption DEF StorageAssumption
<1>3. CASE \E D \in SUBSET Names : Dropped(s, t, D)
  <2>1. PICK D \in SUBSET Names : Dropped(s, t, D)
    BY <1>3
  <2>2. n \notin D /\ t.entries[n].id = s.entries[n].id
    BY <2>1 DEF Dropped
  <2> DEFINE k == s.entries[n].id + 1
  <2>3. /\ s.entries[n].id \in Nat /\ s.entries[n].id < Len(s.idmap)
        /\ s.idmap[k] = n /\ k \in 1 .. Len(s.idmap)
    BY <1>1, <2>2, StoreFields DEF IdsResolve, Known, NameOf
  <2>4. ~\E x \in D : s.entries[x].id = k - 1
    <3> SUFFICES ASSUME NEW x \in D, s.entries[x].id = k - 1 PROVE FALSE
      OBVIOUS
    <3>1. s.entries[x].id = s.entries[n].id /\ x \in Names
      BY <2>3
    <3>2. NameOf(s, s.entries[x].id) = x
      BY <2>2, <3>1 DEF IdsResolve
    <3>3. QED
      BY <2>2, <2>3, <3>1, <3>2 DEF NameOf
  <2>5. t.idmap[k] = n
    BY <2>1, <2>3, <2>4 DEF Dropped
  <2>6. QED
    BY <1>1, <1>2, <2>1, <2>2, <2>3, <2>5 DEF Dropped, Known, NameOf
<1>4. CASE \E x \in Names, id \in Nat : Given(s, t, x, id)
  <2>1. PICK x \in Names, id \in Nat : Given(s, t, x, id)
    BY <1>4
  <2>2. CASE n = x
    <3>1. /\ t.entries[n].id = id /\ id < Len(t.idmap)
          /\ t.idmap[id + 1] = n
      BY <1>1, <2>1, <2>2 DEF Given
    <3>2. QED
      BY <1>2, <3>1 DEF Known, NameOf
  <2>3. CASE n # x
    <3>1. t.entries[n].id = s.entries[n].id
      BY <2>1, <2>3 DEF Given
    <3> DEFINE k == s.entries[n].id + 1
    <3>2. /\ s.entries[n].id \in Nat /\ s.entries[n].id < Len(s.idmap)
          /\ s.idmap[k] = n /\ k \in 1 .. Len(s.idmap)
          /\ Known(s, s.entries[n].id)
      BY <1>1, <3>1, StoreFields DEF IdsResolve, Known, NameOf
    <3>3. k # id + 1 /\ k \in 1 .. Len(t.idmap) /\ k <= Len(s.idmap)
      BY <1>1, <2>1, <3>2 DEF Given
    <3>4. t.idmap[k] = n
      BY <2>1, <3>2, <3>3 DEF Given
    <3>5. QED
      BY <1>1, <1>2, <3>1, <3>2, <3>3, <3>4 DEF Known, NameOf
  <2>4. QED
    BY <2>2, <2>3
<1>5. QED
  BY <1>3, <1>4 DEF IdStep

\* A server's slots persist.
LEMMA IdStepPersists ==
    ASSUME NEW told, NEW s \in Store, NEW t \in Store, s.server, IdStep(s, t, told)
    PROVE  SlotsPersist(s.idmap, t.idmap)
<1>1. Len(s.idmap) \in Nat /\ Len(t.idmap) \in Nat
  BY StoreLen
<1>2. CASE \E D \in SUBSET Names : Dropped(s, t, D)
  BY <1>1, <1>2 DEF Dropped, SlotsPersist
<1>3. CASE \E n \in Names : Given(s, t, n, Len(s.idmap))
  <2>1. PICK n \in Names : Given(s, t, n, Len(s.idmap))
    BY <1>3
  <2>2. ASSUME NEW k \in 1 .. Len(s.idmap) PROVE t.idmap[k] = s.idmap[k]
    <3>1. k # Len(s.idmap) + 1 /\ k \in 1 .. Len(t.idmap) /\ k <= Len(s.idmap)
      BY <1>1, <2>1 DEF Given
    <3>2. QED
      BY <2>1, <3>1 DEF Given
  <2>3. QED
    BY <1>1, <2>1, <2>2 DEF Given, SlotsPersist
<1>4. QED
  BY <1>2, <1>3 DEF IdStep

\* What agreed with the map still does when the slots persist.
LEMMA AgreesPersists ==
    ASSUME NEW idmap \in Slots, NEW new \in Slots, SlotsPersist(idmap, new),
           NEW m, m.id \in Nat, Agrees(idmap, m)
    PROVE  Agrees(new, m)
<1>1. Len(idmap) \in Nat /\ Len(new) \in Nat
  BY DEF Slots
<1>2. CASE m.id # NoId
  <2>1. m.id + 1 \in 1 .. Len(idmap) /\ m.id < Len(new)
    BY <1>1, <1>2 DEF Agrees, SlotsPersist
  <2>2. new[m.id + 1] \in {idmap[m.id + 1], NoName}
    BY <2>1 DEF SlotsPersist
  <2>3. QED
    BY <1>2, <2>1, <2>2 DEF Agrees
<1>3. QED
  BY <1>2 DEF Agrees

\* An operation that changes no id.
LEMMA NoIdChanged ==
    ASSUME NEW told, NEW s \in Store, NEW t \in Store, t.idmap = s.idmap,
           \A x \in Names : t.entries[x].id = s.entries[x].id
    PROVE  IdStep(s, t, told)
<1>1. Dropped(s, t, {})
  BY DEF Dropped
<1>2. QED
  BY <1>1 DEF IdStep

\* Two stores that have the same ids take the same steps.
LEMMA IdStepFromSameIds ==
    ASSUME NEW told, NEW s \in Store, NEW t \in Store, NEW u \in Store,
           t.idmap = s.idmap, t.server = s.server,
           \A x \in Names : t.entries[x].id = s.entries[x].id,
           IdStep(t, u, told)
    PROVE  IdStep(s, u, told)
<1>1. ASSUME NEW D \in SUBSET Names, Dropped(t, u, D) PROVE Dropped(s, u, D)
  BY <1>1 DEF Dropped
<1>2. ASSUME NEW n \in Names, NEW id \in Nat, Given(t, u, n, id)
      PROVE  Given(s, u, n, id)
  BY <1>2 DEF Given, Known
<1>3. QED
  BY <1>1, <1>2 DEF IdStep

\* A client's slots hold what they held, what it was told, or nothing.
LEMMA IdStepOfClient ==
    ASSUME NEW told, NEW s \in Store, NEW t \in Store, ~s.server,
           IdStep(s, t, told), NEW k \in 1 .. Len(t.idmap),
           t.idmap[k] # NoName
    PROVE  \/ k \in 1 .. Len(s.idmap) /\ t.idmap[k] = s.idmap[k]
           \/ << t.idmap[k], k - 1 >> \in told
<1>1. Len(s.idmap) \in Nat /\ Len(t.idmap) \in Nat
  BY StoreLen
<1>2. CASE \E D \in SUBSET Names : Dropped(s, t, D)
  BY <1>1, <1>2 DEF Dropped
<1>3. CASE \E n \in Names, id \in Nat :
             Given(s, t, n, id) /\ << n, id >> \in told
  <2>1. PICK n \in Names, id \in Nat :
             Given(s, t, n, id) /\ << n, id >> \in told
    BY <1>3
  <2>2. t.idmap[k] = IF k = id + 1 THEN n
                     ELSE IF k <= Len(s.idmap) THEN s.idmap[k] ELSE NoName
    BY <2>1 DEF Given
  <2>3. CASE k = id + 1
    <3>1. t.idmap[k] = n /\ k - 1 = id
      BY <2>2, <2>3
    <3>2. QED
      BY <2>1, <3>1
  <2>4. CASE k # id + 1
    BY <1>1, <2>2, <2>4
  <2>5. QED
    BY <2>3, <2>4
<1>4. QED
  BY <1>2, <1>3 DEF IdStep

-----------------------------------------------------------------------------
(* The operations *)

\* What an operation does to the ids, and what a server announces of them.
GoodIds(s, r, told) ==
    /\ IdStep(s, r.store, told)
    /\ s.server /\ IdsResolve(s) => AllAgreeWith(r.store.idmap, r.out)

\* Nothing, or one message that assigns no id, agrees with every map.
LEMMA NothingAssigned ==
    ASSUME NEW idmap, NEW m, m.type # "EntryAssign"
    PROVE  AllAgreeWith(idmap, << >>) /\ AllAgreeWith(idmap, << m >>)
<1>1. Len(<< m >>) = 1 /\ << m >>[1] = m /\ Len(<< >>) = 0
  OBVIOUS
<1>2. QED
  BY <1>1 DEF AllAgreeWith

\* One assignment that agrees.
LEMMA OneAssigned ==
    ASSUME NEW idmap, NEW m, Agrees(idmap, m)
    PROVE  AllAgreeWith(idmap, << >>) /\ AllAgreeWith(idmap, << m >>)
<1>1. Len(<< m >>) = 1 /\ << m >>[1] = m /\ Len(<< >>) = 0
  OBVIOUS
<1>2. QED
  BY <1>1 DEF AllAgreeWith

\* An assignment of the id an entry has.
LEMMA OwnIdAgrees ==
    ASSUME NEW s \in Store, IdsResolve(s), NEW m, m.name \in Names,
           m.id = s.entries[m.name].id
    PROVE  Agrees(s.idmap, m)
  BY DEF IdsResolve, Known, NameOf, Agrees

\* An operation that is refused.
LEMMA IgnoredGoodIds ==
    ASSUME NEW told, NEW s \in Store PROVE GoodIds(s, Ignored(s), told)
<1>1. IdStep(s, s, told)
  BY NoIdChanged
<1>2. AllAgreeWith(s.idmap, << >>)
  BY DEF AllAgreeWith
<1>3. QED
  BY <1>1, <1>2 DEF GoodIds, Ignored, Result

\* _setEntryValueImpl: a server's new entry gets the next id.
LEMMA SetEntryValueImplGoodIds ==
    ASSUME NEW told, NEW s \in Store, NEW n \in Names, NEW v \in Values,
           NEW local \in BOOLEAN
    PROVE  GoodIds(s, SetEntryValueImpl(s, n, v, local), told)
<1> DEFINE e == s.entries[n]
           newId == s.server /\ e.id = NoId
           id == IF newId THEN Len(s.idmap) ELSE e.id
           changed == e.value # v
           seq == IF local /\ changed THEN IncrementSeqnum(e.seq) ELSE e.seq
           r == SetEntryValueImpl(s, n, v, local)
           idmap == IF newId THEN Append(s.idmap, n) ELSE s.idmap
           entry == [value |-> v, flags |-> e.flags, id |-> id, seq |-> seq,
                     localWrite |-> e.localWrite \/ local]
           assign == EntryAssign(n, id, seq, v, e.flags)
           update == EntryUpdate(id, seq, v)
<1>1. id \in Nat /\ seq \in SeqNums /\ idmap \in Slots
  BY StoreFields, StoreLen, IncrementSeqnumType DEF Slots
<1>2. entry \in Entry /\ entry.id = id
  BY <1>1, StoreFields DEF Entry
<1>3. /\ r.store = PutIds(s, n, entry, idmap)
      /\ r.out \in {<< >>, << assign >>, << update >>}
  BY DEF SetEntryValueImpl, Result
<1>4. /\ assign.name = n /\ assign.id = id
      /\ update.type # "EntryAssign"
  BY DEF EntryAssign, EntryUpdate
<1>5. s.idmap \in Slots /\ Len(s.idmap) \in Nat
  BY StoreLen
<1>6. CASE newId
  <2>1. /\ Len(idmap) = Len(s.idmap) + 1 /\ id = Len(s.idmap)
        /\ \A k \in 1 .. Len(idmap) : idmap[k] =
              IF k = id + 1 THEN n
              ELSE IF k <= Len(s.idmap) THEN s.idmap[k] ELSE NoName
    BY <1>5, <1>6 DEF Slots
  <2> HIDE DEF idmap, entry, id, r, assign, update, seq, changed
  <2>2. /\ r.store \in Store /\ r.store.idmap = idmap
        /\ r.store.entries[n].id = id
        /\ \A x \in Names \ {n} : r.store.entries[x] = s.entries[x]
    BY <1>1, <1>2, <1>3, PutIdsFacts
  <2>3. ~Known(s, id)
    BY <1>5, <2>1 DEF Known
  <2>4. Given(s, r.store, n, id)
    BY <1>1, <1>5, <2>1, <2>2, <2>3 DEF Given
  <2>5. IdStep(s, r.store, told)
    BY <1>1, <1>6, <2>1, <2>4 DEF IdStep
  <2>6. IdsResolve(s) => Agrees(r.store.idmap, assign)
    BY <1>4, <2>2, <2>5, IdStepResolves, OwnIdAgrees
  <2>7. GoodIds(s, r, told)
    BY <1>3, <1>4, <2>5, <2>6, NothingAssigned, OneAssigned DEF GoodIds
  <2>8. QED
    BY <2>7 DEF r
<1>7. CASE ~newId
  <2>1. idmap = s.idmap /\ id = e.id
    BY <1>7
  <2> HIDE DEF idmap, entry, id, r, assign, update, seq, changed
  <2>2. /\ r.store \in Store /\ r.store.idmap = s.idmap
        /\ r.store.entries[n].id = id
        /\ \A x \in Names \ {n} : r.store.entries[x] = s.entries[x]
    BY <1>1, <1>2, <1>3, <2>1, PutIdsFacts
  <2>3. IdStep(s, r.store, told)
    BY <2>1, <2>2, NoIdChanged
  <2>4. IdsResolve(s) => Agrees(r.store.idmap, assign)
    BY <1>4, <2>2, <2>3, IdStepResolves, OwnIdAgrees
  <2>5. GoodIds(s, r, told)
    BY <1>3, <1>4, <2>3, <2>4, NothingAssigned, OneAssigned DEF GoodIds
  <2>6. QED
    BY <2>5 DEF r
<1>8. QED
  BY <1>6, <1>7

\* _setEntryFlagsImpl leaves the ids alone.
LEMMA SetEntryFlagsImplGoodIds ==
    ASSUME NEW told, NEW s \in Store, NEW n \in Names, NEW flags \in BOOLEAN,
           NEW local \in BOOLEAN
    PROVE  GoodIds(s, SetEntryFlagsImpl(s, n, flags, local), told)
<1> DEFINE e == s.entries[n]
           new == [e EXCEPT !.flags = flags]
           t == Put(s, n, new)
           update == FlagsUpdate(e.id, flags)
           out == IF local /\ e.id # NoId THEN << update >> ELSE << >>
<1>1. new \in Entry /\ new.id = e.id
  BY StoreFields DEF Entry
<1>2. update.type # "EntryAssign"
  BY DEF FlagsUpdate
<1>3. SetEntryFlagsImpl(s, n, flags, local)
        \in {Ignored(s), Result(t, out, TRUE, TRUE)}
  BY DEF SetEntryFlagsImpl
<1> HIDE DEF new, update
<1>4. /\ t \in Store /\ t.idmap = s.idmap
      /\ \A x \in Names : t.entries[x].id = s.entries[x].id
  BY <1>1, PutFacts
<1> HIDE DEF t
<1>5. IdStep(s, t, told) /\ AllAgreeWith(t.idmap, out)
  BY <1>2, <1>4, NoIdChanged, NothingAssigned
<1>6. GoodIds(s, Result(t, out, TRUE, TRUE), told)
  BY <1>5 DEF GoodIds, Result
<1>7. QED
  BY <1>3, <1>6, IgnoredGoodIds

\* _deleteEntryImpl takes one id away.
LEMMA DeleteEntryImplGoodIds ==
    ASSUME NEW told, NEW s \in Store, NEW n \in Names, NEW local \in BOOLEAN
    PROVE  GoodIds(s, DeleteEntryImpl(s, n, local), told)
<1> DEFINE e == s.entries[n]
           gone == [NewEntry EXCEPT !.seq = e.seq]
           idmap == WithoutSlot(s.idmap, e.id)
           t == PutIds(s, n, gone, idmap)
           delete == EntryDelete(e.id)
           out == IF Has(s, n) /\ local /\ e.id # NoId
                  THEN << delete >> ELSE << >>
<1>1. gone \in Entry /\ e.id \in Nat /\ gone.id = NoId
  BY StoreFields, DeletedEntryType DEF NewEntry
<1>2. /\ idmap \in Slots /\ Len(idmap) = Len(s.idmap)
      /\ \A k \in 1 .. Len(s.idmap) : idmap[k] =
            IF k = e.id + 1 THEN NoName ELSE s.idmap[k]
  BY <1>1, StoreLen, WithoutSlotType
<1>3. delete.type # "EntryAssign"
  BY DEF EntryDelete
<1>4. DeleteEntryImpl(s, n, local) = Result(t, out, TRUE, e.flags)
  BY DEF DeleteEntryImpl
<1>5. \A k \in 1 .. Len(s.idmap) :
        k = e.id + 1 <=> \E x \in {n} : s.entries[x].id = k - 1
  BY <1>1
<1> HIDE DEF gone, idmap, delete
<1>6. /\ t \in Store /\ t.idmap = idmap /\ t.entries[n] = gone
      /\ \A x \in Names \ {n} : t.entries[x] = s.entries[x]
  BY <1>1, <1>2, PutIdsFacts
<1> HIDE DEF t
<1>7. Dropped(s, t, {n})
  BY <1>1, <1>2, <1>5, <1>6 DEF Dropped
<1>8. AllAgreeWith(t.idmap, out)
  BY <1>3, NothingAssigned
<1>9. QED
  BY <1>4, <1>7, <1>8 DEF GoodIds, IdStep, Result

\* _deleteAllEntriesImpl takes the ids of all it deletes.
LEMMA DeleteEntriesIdStep ==
    ASSUME NEW told, NEW s \in Store
    PROVE  IdStep(s, DeleteEntries(s, Deletable(s)), told)
<1> DEFINE t == DeleteEntries(s, Deletable(s))
<1>1. Deletable(s) \in SUBSET Names
  BY DEF Deletable
<1>2. /\ Len(t.idmap) = Len(s.idmap)
      /\ \A k \in 1 .. Len(s.idmap) : t.idmap[k] =
            IF \E n \in Deletable(s) : s.entries[n].id = k - 1
            THEN NoName ELSE s.idmap[k]
      /\ \A n \in Names : n \notin Deletable(s) => t.entries[n] = s.entries[n]
      /\ \A n \in Deletable(s) : t.entries[n].id = NoId
  BY <1>1, DeleteEntriesFacts
<1> HIDE DEF t
<1>3. Dropped(s, t, Deletable(s))
  BY <1>1, <1>2 DEF Dropped
<1>4. IdStep(s, t, told)
  BY <1>1, <1>3 DEF IdStep
<1>5. QED
  BY <1>4 DEF t

\* deleteAllEntries.
LEMMA DeleteAllEntriesGoodIds ==
    ASSUME NEW told, NEW s \in Store
    PROVE  GoodIds(s, DeleteAllEntries(s), told)
<1> DEFINE t == DeleteEntries(s, Deletable(s))
           out == IF Deletable(s) = {} THEN << >> ELSE << ClearEntries >>
<1>1. ClearEntries.type # "EntryAssign"
  BY DEF ClearEntries
<1>2. AllAgreeWith(t.idmap, out)
  BY <1>1, NothingAssigned
<1>3. QED
  BY <1>2, DeleteEntriesIdStep DEF DeleteAllEntries, GoodIds, Result

\* The request for an id.
LEMMA ProcessIdRequestGoodIds ==
    ASSUME NEW told, NEW s \in Store, NEW m \in AssignMsg
    PROVE  GoodIds(s, ProcessIdRequest(s, m), told)
<1> DEFINE e == s.entries[m.name]
           new == [e EXCEPT !.flags = m.flags, !.seq = m.seq]
           t == Put(s, m.name, new)
           r == SetEntryValueImpl(t, m.name, m.value, FALSE)
<1>1. m.name \in Names /\ m.value \in Values
  BY MsgFields
<1>2. new \in Entry /\ new.id = e.id
  <2>1. e \in Entry /\ m.flags \in BOOLEAN /\ m.seq \in SeqNums
    BY StoreFields, MsgFields
  <2> HIDE DEF e
  <2>2. QED
    BY <2>1 DEF Entry
<1>3. ProcessIdRequest(s, m) \in {Ignored(s), r}
  BY DEF ProcessIdRequest
<1> HIDE DEF new
<1>4. /\ t \in Store /\ t.idmap = s.idmap /\ t.server = s.server
      /\ \A x \in Names : t.entries[x].id = s.entries[x].id
  BY <1>1, <1>2, PutFacts
<1> HIDE DEF t
<1>5. GoodIds(t, r, told) /\ r.store \in Store
  BY <1>1, <1>4, SetEntryValueImplGoodIds, SetEntryValueImplType DEF GoodResult
<1> HIDE DEF r
<1>6. IdsResolve(s) => IdsResolve(t)
  BY <1>4 DEF IdsResolve, Known, NameOf
<1>7. IdStep(s, r.store, told)
  BY <1>4, <1>5, IdStepFromSameIds DEF GoodIds
<1>8. GoodIds(s, r, told)
  BY <1>4, <1>5, <1>6, <1>7 DEF GoodIds
<1>9. QED
  BY <1>3, <1>8, IgnoredGoodIds

\* The slots of a map with one more name.
LEMMA WithSlotSlots ==
    ASSUME NEW idmap \in Slots, NEW id \in Nat, NEW n \in Names
    PROVE  \A k \in 1 .. Len(WithSlot(idmap, id, n)) :
             WithSlot(idmap, id, n)[k] =
                IF k = id + 1 THEN n
                ELSE IF k <= Len(idmap) THEN idmap[k] ELSE NoName
<1> DEFINE len == IF id < Len(idmap) THEN Len(idmap) ELSE id + 1
<1>1. WithSlot(idmap, id, n) \in Slots
  BY WithSlotType
<1>2. DOMAIN WithSlot(idmap, id, n) = 1 .. len
  BY DEF WithSlot
<1>3. DOMAIN WithSlot(idmap, id, n) = 1 .. Len(WithSlot(idmap, id, n))
  BY <1>1 DEF Slots
<1>4. QED
  BY <1>2, <1>3 DEF WithSlot

\* An assignment that is new to a client gives the name the id it was told.
LEMMA ProcessNewAssignmentIdStep ==
    ASSUME NEW s \in Store, ~s.server, NEW m \in AssignMsg, ~Known(s, m.id),
           m.id # NoId
    PROVE  IdStep(s, ProcessNewAssignment(s, m).store, Told(m))
<1> DEFINE e == s.entries[m.name]
           idmap == WithSlot(s.idmap, m.id, m.name)
           own == [e EXCEPT !.id = m.id]
           taken == [own EXCEPT !.value = m.value, !.seq = m.seq]
           flagged == [taken EXCEPT !.flags = m.flags]
           r == ProcessNewAssignment(s, m)
           new(x) == PutIds(s, m.name, x, idmap)
<1>1. /\ m.name \in Names /\ m.id \in Nat /\ m.seq \in SeqNums
      /\ m.value \in Values /\ m.flags \in BOOLEAN
  BY MsgFields
<1>2. e \in Entry
  BY <1>1, StoreFields
<1>3. /\ own \in Entry /\ own.id = m.id
      /\ taken \in Entry /\ taken.id = m.id
      /\ flagged \in Entry /\ flagged.id = m.id
  <2> HIDE DEF e
  <2> QED BY <1>1, <1>2 DEF Entry
<1>4. r.store \in {new(flagged), new(own), new(taken)}
  <2>1. CASE e.value = NoValue
    BY <2>1 DEF ProcessNewAssignment, Result
  <2>2. CASE e.value # NoValue /\ IsSeqNewerThan(e.seq, m.seq)
    BY <2>2 DEF ProcessNewAssignment, Result
  <2>3. CASE e.value # NoValue /\ ~IsSeqNewerThan(e.seq, m.seq)
    BY <2>3 DEF ProcessNewAssignment, Result
  <2>4. QED
    BY <2>1, <2>2, <2>3
<1>5. PICK x \in {flagged, own, taken} : r.store = new(x)
  BY <1>4
<1>6. x \in Entry /\ x.id = m.id
  BY <1>3
<1>7. /\ idmap \in Slots /\ Len(idmap) >= Len(s.idmap) /\ Len(idmap) > m.id
      /\ \A k \in 1 .. Len(idmap) : idmap[k] =
            IF k = m.id + 1 THEN m.name
            ELSE IF k <= Len(s.idmap) THEN s.idmap[k] ELSE NoName
  BY <1>1, StoreLen, WithSlotType, WithSlotSlots
<1> HIDE DEF idmap, r
<1>8. /\ r.store.idmap = idmap /\ r.store.entries[m.name] = x
      /\ \A y \in Names \ {m.name} : r.store.entries[y] = s.entries[y]
  BY <1>1, <1>5, <1>6, <1>7, PutIdsFacts
<1>9. Given(s, r.store, m.name, m.id)
  BY <1>1, <1>6, <1>7, <1>8 DEF Given
<1>10. << m.name, m.id >> \in Told(m)
  BY MsgFields DEF Told
<1>11. QED
  BY <1>1, <1>9, <1>10 DEF IdStep, r

\* A message that a server passes on, with an entry changed but not its id.
LEMMA PutGoodIds ==
    ASSUME NEW told, NEW s \in Store, NEW n \in Names, NEW e \in Entry,
           e.id = s.entries[n].id, NEW out, NEW toSender, NEW dirty,
           s.server /\ IdsResolve(s) => AllAgreeWith(s.idmap, out)
    PROVE  GoodIds(s, Result(Put(s, n, e), out, toSender, dirty), told)
<1> DEFINE t == Put(s, n, e)
<1>1. /\ t \in Store /\ t.idmap = s.idmap
      /\ \A x \in Names : t.entries[x].id = s.entries[x].id
  BY PutFacts
<1> HIDE DEF t
<1>2. IdStep(s, t, told)
  BY <1>1, NoIdChanged
<1>3. GoodIds(s, Result(t, out, toSender, dirty), told)
  BY <1>1, <1>2 DEF GoodIds, Result
<1>4. QED
  BY <1>3 DEF t

\* An incoming assignment.
LEMMA ProcessEntryAssignGoodIds ==
    ASSUME NEW s \in Store, NEW m \in AssignMsg
    PROVE  GoodIds(s, ProcessEntryAssign(s, m), Told(m))
<1>1. /\ m.name \in Names /\ m.id \in Nat /\ m.seq \in SeqNums
      /\ m.value \in Values /\ m.flags \in BOOLEAN
  BY MsgFields
<1>2. CASE m.id = NoId
  <2>1. ProcessEntryAssign(s, m) \in {ProcessIdRequest(s, m), Ignored(s)}
    BY <1>2 DEF ProcessEntryAssign
  <2>2. QED
    BY <2>1, ProcessIdRequestGoodIds, IgnoredGoodIds
<1>3. CASE m.id # NoId /\ Known(s, m.id)
  <2> DEFINE n == NameOf(s, m.id)
             e == s.entries[n]
             new == [e EXCEPT !.value = m.value, !.flags = m.flags,
                              !.seq = m.seq]
             out == IF s.server THEN << m >> ELSE << >>
             dirty == e.flags # m.flags \/ (m.flags /\ e.value # m.value)
             r == Result(Put(s, n, new), out, FALSE, dirty)
  <2>1. n \in Names /\ e \in Entry
    BY <1>1, <1>3, KnownName, StoreFields
  <2>2. new \in Entry /\ new.id = e.id
    <3> HIDE DEF e
    <3> QED BY <1>1, <2>1 DEF Entry
  <2>3. CASE m.name # n
    <3>1. ProcessEntryAssign(s, m) = Ignored(s)
      BY <1>3, <2>3 DEF ProcessEntryAssign, ProcessAssignment
    <3>2. QED
      BY <3>1, IgnoredGoodIds
  <2>4. CASE m.name = n
    <3>1. ProcessEntryAssign(s, m) \in {Ignored(s), r}
      BY <1>3 DEF ProcessEntryAssign, ProcessAssignment
    <3>2. Agrees(s.idmap, m)
      BY <1>3, <2>4 DEF Agrees, Known, NameOf
    <3>3. AllAgreeWith(s.idmap, out)
      BY <3>2, OneAssigned
    <3> HIDE DEF new, n, out, dirty
    <3>4. GoodIds(s, r, Told(m))
      BY <2>1, <2>2, <3>3, PutGoodIds
    <3>5. QED
      BY <3>1, <3>4, IgnoredGoodIds
  <2>5. QED
    BY <2>3, <2>4
<1>4. CASE m.id # NoId /\ ~Known(s, m.id)
  <2>1. CASE s.server
    <3>1. ProcessEntryAssign(s, m) = Ignored(s)
      BY <1>4, <2>1 DEF ProcessEntryAssign
    <3>2. QED
      BY <3>1, IgnoredGoodIds
  <2>2. CASE ~s.server
    <3>1. ProcessEntryAssign(s, m) = ProcessNewAssignment(s, m)
      BY <1>4, <2>2 DEF ProcessEntryAssign
    <3>2. QED
      BY <1>4, <2>2, <3>1, ProcessNewAssignmentIdStep DEF GoodIds
  <2>3. QED
    BY <2>1, <2>2
<1>5. QED
  BY <1>2, <1>3, <1>4

\* An incoming update.
LEMMA ProcessEntryUpdateGoodIds ==
    ASSUME NEW told, NEW s \in Store, NEW m \in UpdateMsg
    PROVE  GoodIds(s, ProcessEntryUpdate(s, m), told)
<1> DEFINE n == NameOf(s, m.id)
           e == s.entries[n]
           new == [e EXCEPT !.value = m.value, !.seq = m.seq]
           out == IF s.server THEN << m >> ELSE << >>
           r == Result(Put(s, n, new), out, FALSE, e.flags)
<1>1. /\ m.id \in Nat /\ m.seq \in SeqNums /\ m.value \in Values
      /\ m.type # "EntryAssign"
  BY MsgFields
<1>2. CASE Known(s, m.id)
  <2>1. n \in Names /\ e \in Entry
    BY <1>1, <1>2, KnownName, StoreFields
  <2>2. new \in Entry /\ new.id = e.id
    <3> HIDE DEF e
    <3> QED BY <1>1, <2>1 DEF Entry
  <2>3. ProcessEntryUpdate(s, m) \in {Ignored(s), r}
    BY DEF ProcessEntryUpdate
  <2>4. AllAgreeWith(s.idmap, out)
    BY <1>1, NothingAssigned
  <2> DEFINE dirty == e.flags
  <2> HIDE DEF new, n, out, dirty
  <2>5. GoodIds(s, Result(Put(s, n, new), out, FALSE, dirty), told)
    BY <2>1, <2>2, <2>4, PutGoodIds
  <2>6. QED
    BY <2>3, <2>5, IgnoredGoodIds DEF dirty
<1>3. CASE ~Known(s, m.id)
  <2>1. ProcessEntryUpdate(s, m) = Ignored(s)
    BY <1>3 DEF ProcessEntryUpdate
  <2>2. QED
    BY <2>1, IgnoredGoodIds
<1>4. QED
  BY <1>2, <1>3

\* What a server passes on of the other messages assigns nothing.
LEMMA PassOnGoodIds ==
    ASSUME NEW told, NEW s \in Store, NEW r, IdStep(s, r.store, told),
           NEW m, m.type # "EntryAssign"
    PROVE  GoodIds(s, PassOn(s, r, m), told)
  BY NothingAssigned DEF PassOn, Result, GoodIds

\* Whatever message arrives on either side takes ids away or gives one that
\* leads nowhere yet, and what the server then sends agrees with its map.
THEOREM ProcessIncomingGoodIds ==
    ASSUME NEW s \in Store, NEW m \in EntryMsg
    PROVE  GoodIds(s, ProcessIncoming(s, m), Told(m))
<1>1. CASE m \in AssignMsg
  BY <1>1, MsgFields, ProcessEntryAssignGoodIds DEF ProcessIncoming
<1>2. CASE m \in UpdateMsg
  BY <1>2, MsgFields, ProcessEntryUpdateGoodIds DEF ProcessIncoming
<1>3. CASE m \in FlagsMsg
  <2> DEFINE r == SetEntryFlagsImpl(s, NameOf(s, m.id), m.flags, FALSE)
  <2>1. m.type = "FlagsUpdate" /\ m.id \in Nat /\ m.flags \in BOOLEAN
    BY <1>3, MsgFields
  <2>2. ProcessIncoming(s, m) =
          IF Known(s, m.id) THEN PassOn(s, r, m) ELSE Ignored(s)
    BY <2>1 DEF ProcessIncoming, ProcessFlagsUpdate
  <2>3. Known(s, m.id) => IdStep(s, r.store, Told(m))
    BY <2>1, KnownName, SetEntryFlagsImplGoodIds DEF GoodIds
  <2> HIDE DEF r
  <2>4. QED
    BY <2>1, <2>2, <2>3, PassOnGoodIds, IgnoredGoodIds
<1>4. CASE m \in DeleteMsg
  <2> DEFINE r == DeleteEntryImpl(s, NameOf(s, m.id), FALSE)
  <2>1. m.type = "EntryDelete" /\ m.id \in Nat
    BY <1>4, MsgFields
  <2>2. ProcessIncoming(s, m) =
          IF Known(s, m.id) THEN PassOn(s, r, m) ELSE Ignored(s)
    BY <2>1 DEF ProcessIncoming, ProcessEntryDelete
  <2>3. Known(s, m.id) => IdStep(s, r.store, Told(m))
    BY <2>1, KnownName, DeleteEntryImplGoodIds DEF GoodIds
  <2> HIDE DEF r
  <2>4. QED
    BY <2>1, <2>2, <2>3, PassOnGoodIds, IgnoredGoodIds
<1>5. CASE m \in ClearMsg
  <2> DEFINE r == Result(DeleteEntries(s, Deletable(s)), << >>, TRUE, FALSE)
  <2>1. m.type = "ClearEntries"
    BY <1>5, MsgFields
  <2>2. ProcessIncoming(s, m) = PassOn(s, r, m)
    BY <2>1 DEF ProcessIncoming, ProcessClearEntries
  <2>3. IdStep(s, r.store, Told(m))
    BY DeleteEntriesIdStep DEF Result
  <2> HIDE DEF r
  <2>4. QED
    BY <2>1, <2>2, <2>3, PassOnGoodIds
<1>6. QED
  BY <1>1, <1>2, <1>3, <1>4, <1>5 DEF EntryMsg

\* And so does whatever a user calls.
LEMMA LocalOperationsGoodIds ==
    ASSUME NEW told, NEW s \in Store, NEW n \in Names, NEW v \in Values,
           NEW flags \in BOOLEAN
    PROVE  /\ GoodIds(s, SetDefaultEntryValue(s, n, v), told)
           /\ GoodIds(s, SetEntryValue(s, n, v), told)
           /\ GoodIds(s, SetEntryTypeValue(s, n, v), told)
           /\ GoodIds(s, SetEntryFlags(s, n, flags), told)
           /\ GoodIds(s, DeleteEntry(s, n), told)
  BY SetEntryValueImplGoodIds, SetEntryFlagsImplGoodIds,
     DeleteEntryImplGoodIds, IgnoredGoodIds
     DEF SetDefaultEntryValue, SetEntryValue, SetEntryTypeValue, SetEntryFlags,
         DeleteEntry

-----------------------------------------------------------------------------
(* The handshake *)

\* In a snapshot no name is assigned twice and no id is.
IsSnapshot(msgs) ==
    \A x, y \in msgs :
        x.name = y.name \/ (x.id = y.id /\ x.id # NoId) => x = y

\* The server's snapshot is one, and it agrees with the server's map.
LEMMA GetInitialAssignmentsSound ==
    ASSUME NEW s \in Store, IdsResolve(s)
    PROVE  /\ IsSnapshot(GetInitialAssignments(s))
           /\ \A m \in GetInitialAssignments(s) : Agrees(s.idmap, m)
<1> DEFINE msg(n) == EntryAssign(n, s.entries[n].id, s.entries[n].seq,
                                 s.entries[n].value, s.entries[n].flags)
<1>1. \A n \in Names : msg(n).name = n /\ msg(n).id = s.entries[n].id
  BY DEF EntryAssign
<1>2. \A m \in GetInitialAssignments(s) : \E n \in Names : m = msg(n)
  BY DEF GetInitialAssignments
<1> HIDE DEF msg
<1>3. ASSUME NEW x \in GetInitialAssignments(s),
             NEW y \in GetInitialAssignments(s),
             x.name = y.name \/ (x.id = y.id /\ x.id # NoId)
      PROVE  x = y
  <2>1. PICK k \in Names : x = msg(k)
    BY <1>2
  <2>2. PICK n \in Names : y = msg(n)
    BY <1>2
  <2>3. k = n
    BY <1>1, <1>3, <2>1, <2>2 DEF IdsResolve
  <2>4. QED
    BY <2>1, <2>2, <2>3
<1>4. \A m \in GetInitialAssignments(s) : Agrees(s.idmap, m)
  BY <1>1, <1>2, OwnIdAgrees
<1>5. QED
  BY <1>3, <1>4 DEF IsSnapshot

\* Every id of the messages has a slot in the map they build.
LEMMA IdMapReaches ==
    ASSUME NEW msgs \in Snapshots, NEW m \in msgs, m.id # NoId
    PROVE  m.id + 1 \in 1 .. Len(IdMapOf(msgs))
<1> DEFINE len == Cardinality(Indices(msgs))
<1>1. m.id \in Nat
  BY MsgFields DEF Snapshots
<1>2. 0 .. m.id \subseteq Indices(msgs)
  BY DEF Indices
<1>3. IsFiniteSet(Indices(msgs)) /\ len \in Nat
  BY IndicesAreFinite
<1>4. Cardinality(0 .. m.id) = m.id + 1 /\ IsFiniteSet(0 .. m.id)
  BY <1>1, FS_Interval
<1>5. m.id + 1 <= len
  BY <1>2, <1>3, <1>4, FS_Subset
<1>6. Len(IdMapOf(msgs)) = len
  <2>1. IdMapOf(msgs) \in Slots /\ DOMAIN IdMapOf(msgs) = 1 .. len
    BY IdMapOfType DEF IdMapOf
  <2> HIDE DEF len
  <2>2. DOMAIN IdMapOf(msgs) = 1 .. Len(IdMapOf(msgs))
        /\ Len(IdMapOf(msgs)) \in Nat
    BY <2>1 DEF Slots
  <2>3. QED
    BY <1>3, <2>1, <2>2
<1>7. QED
  BY <1>1, <1>3, <1>5, <1>6

\* The map holds what the messages assign and nothing else.
LEMMA IdMapSlots ==
    ASSUME NEW msgs \in Snapshots, IsSnapshot(msgs)
    PROVE  /\ \A m \in msgs : m.id # NoId => IdMapOf(msgs)[m.id + 1] = m.name
           /\ \A k \in 1 .. Len(IdMapOf(msgs)) : IdMapOf(msgs)[k] # NoName =>
                \E m \in msgs : m.id = k - 1 /\ m.id # NoId
                                /\ m.name = IdMapOf(msgs)[k]
<1> DEFINE idmap == IdMapOf(msgs)
<1>1. \A m \in msgs : m.id \in Nat /\ m.name \in Names
  BY MsgFields DEF Snapshots
<1>2. \A n \in Assigned(msgs) :
        /\ AssignmentOf(msgs, n) \in msgs
        /\ AssignmentOf(msgs, n).name = n /\ AssignmentOf(msgs, n).id # NoId
  BY AssignmentOfType DEF Snapshots
<1>3. \A k \in 1 .. Len(idmap) : idmap[k] =
        IF \E n \in Assigned(msgs) : AssignmentOf(msgs, n).id = k - 1
        THEN CHOOSE n \in Assigned(msgs) : AssignmentOf(msgs, n).id = k - 1
        ELSE NoName
  <2>1. DOMAIN idmap = 1 .. Len(idmap)
    BY IdMapOfType DEF Slots
  <2>2. QED
    BY <2>1 DEF IdMapOf
<1>4. ASSUME NEW m \in msgs, m.id # NoId PROVE idmap[m.id + 1] = m.name
  <2>1. m.id + 1 \in 1 .. Len(idmap) /\ (m.id + 1) - 1 = m.id
    BY <1>1, <1>4, IdMapReaches
  <2>2. m.name \in Assigned(msgs)
    BY <1>4 DEF Assigned
  <2>3. AssignmentOf(msgs, m.name) = m
    BY <1>2, <2>2 DEF IsSnapshot
  <2>4. \A n \in Assigned(msgs) : AssignmentOf(msgs, n).id = m.id => n = m.name
    BY <1>2, <1>4 DEF IsSnapshot
  <2>5. \E n \in Assigned(msgs) : AssignmentOf(msgs, n).id = (m.id + 1) - 1
    BY <2>1, <2>2, <2>3
  <2>6. idmap[m.id + 1] =
          CHOOSE n \in Assigned(msgs) : AssignmentOf(msgs, n).id = (m.id + 1) - 1
    BY <1>3, <2>1, <2>5
  <2>7. /\ idmap[m.id + 1] \in Assigned(msgs)
        /\ AssignmentOf(msgs, idmap[m.id + 1]).id = (m.id + 1) - 1
    BY <2>5, <2>6
  <2>8. QED
    BY <2>1, <2>4, <2>7
<1>5. ASSUME NEW k \in 1 .. Len(idmap), idmap[k] # NoName
      PROVE  \E m \in msgs : m.id = k - 1 /\ m.id # NoId /\ m.name = idmap[k]
  <2>1. \E n \in Assigned(msgs) : AssignmentOf(msgs, n).id = k - 1
    BY <1>3, <1>5
  <2>2. idmap[k] \in Assigned(msgs) /\ AssignmentOf(msgs, idmap[k]).id = k - 1
    BY <1>3, <2>1
  <2>3. QED
    BY <1>2, <2>2
<1>6. QED
  BY <1>4, <1>5

\* After the handshake the ids of a client lead back to their entries, and a
\* slot holds the name that a message assigned to it.
THEOREM ApplyInitialAssignmentsResolves ==
    ASSUME NEW s \in Store, NEW msgs \in Snapshots, IsSnapshot(msgs)
    PROVE  LET t == ApplyInitialAssignments(s, msgs) IN
           /\ IdsResolve(t)
           /\ \A k \in 1 .. Len(t.idmap) : t.idmap[k] # NoName =>
                \E m \in msgs : m.id = k - 1 /\ m.id # NoId
                                /\ m.name = t.idmap[k]
<1> DEFINE t == ApplyInitialAssignments(s, msgs)
           entries == [n \in Names |->
                IF n \in Assigned(msgs)
                THEN EntryAfterHandshake(s.entries[n], AssignmentOf(msgs, n))
                ELSE EntryUnknownToServer(s.entries[n])]
<1>1. t.idmap = IdMapOf(msgs) /\ t.entries = entries
  <2>1. t = [s EXCEPT !.entries = entries, !.idmap = IdMapOf(msgs)]
    BY DEF ApplyInitialAssignments
  <2> HIDE DEF entries, t
  <2>2. QED
    BY <2>1 DEF Store
<1>2. ASSUME NEW n \in Names, t.entries[n].id # NoId
      PROVE  n \in Assigned(msgs) /\ t.entries[n].id = AssignmentOf(msgs, n).id
  <2>1. s.entries[n] \in Entry
    BY StoreFields
  <2>2. EntryUnknownToServer(s.entries[n]).id = NoId
    BY <2>1 DEF EntryUnknownToServer, Entry
  <2>3. n \in Assigned(msgs)
    BY <1>1, <1>2, <2>2
  <2>4. EntryAfterHandshake(s.entries[n], AssignmentOf(msgs, n)).id
          = AssignmentOf(msgs, n).id
    BY <2>1 DEF EntryAfterHandshake, Entry
  <2>5. QED
    BY <1>1, <2>3, <2>4
<1> HIDE DEF t, entries
<1>3. ASSUME NEW n \in Names, t.entries[n].id # NoId
      PROVE  Known(t, t.entries[n].id) /\ NameOf(t, t.entries[n].id) = n
  <2> DEFINE m == AssignmentOf(msgs, n)
  <2>1. m \in msgs /\ m.name = n /\ m.id # NoId /\ t.entries[n].id = m.id
    BY <1>2, <1>3, AssignmentOfType DEF Snapshots
  <2> HIDE DEF m
  <2>2. m.id \in Nat
    BY <2>1, MsgFields DEF Snapshots
  <2>3. m.id + 1 \in 1 .. Len(t.idmap) /\ t.idmap[m.id + 1] = n
    BY <1>1, <2>1, IdMapReaches, IdMapSlots
  <2>4. n # NoName /\ m.id < Len(t.idmap)
    BY <2>2, <2>3, StorageAssumption DEF StorageAssumption
  <2>5. QED
    BY <2>1, <2>3, <2>4 DEF Known, NameOf
<1>4. QED
  BY <1>1, <1>3, IdMapSlots DEF IdsResolve, t

-----------------------------------------------------------------------------
(* What the operations do to the values *)

\* Two entries, or two stores, with the same values, numbers and ids; flags may
\* differ.
Alike(e, f) == f.value = e.value /\ f.seq = e.seq /\ f.id = e.id

SameContent(s, t) ==
    /\ t.idmap = s.idmap
    /\ \A n \in Names : Alike(s.entries[n], t.entries[n])
    /\ \A n \in Names : s.entries[n].localWrite => t.entries[n].localWrite

\* Only the entry of one name changed.
OnlyAt(s, t, n) == \A x \in Names \ {n} : t.entries[x] = s.entries[x]

\* Below half the circle the numbers compare as numbers.
LEMMA SmallSeqs ==
    ASSUME NEW x \in Nat, NEW y \in Nat, x < Half, y < Half
    PROVE  /\ x \in SeqNums /\ y \in SeqNums
           /\ IsSeqNewerThan(x, y) <=> x > y
           /\ IsSeqNewerOrEqual(x, y) <=> x >= y
           /\ IncrementSeqnum(x) = x + 1
<1>1. x \in SeqNums /\ y \in SeqNums
  BY SeqSpaceFacts DEF SeqNums
<1>2. IncrementSeqnum(x) = x + 1
  BY <1>1, LaterIs, SeqSpaceFacts DEF IncrementSeqnum
<1>3. QED
  BY <1>1, <1>2, SeqSpaceFacts DEF IsSeqNewerThan, IsSeqNewerOrEqual

\* The messages of a channel, whatever their order.
LEMMA Messages ==
    ASSUME NEW T, NEW q \in Seq(T)
    PROVE  /\ Range(q) \subseteq T
           /\ Range(<< >>) = {}
           /\ \A x : Range(<< x >>) = {x}
           /\ \A out \in Seq(T) : Range(q \o out) = Range(q) \cup Range(out)
           /\ \A x \in T : Range(Append(q, x)) = Range(q) \cup {x}
           /\ q # << >> => /\ Head(q) \in Range(q)
                           /\ Tail(q) \in Seq(T)
                           /\ Range(q) = {Head(q)} \cup Range(Tail(q))
<1>1. Range(q) \subseteq T
  BY DEF Range
<1>2. Range(<< >>) = {}
  BY DEF Range
<1>3. \A x : Range(<< x >>) = {x}
  BY DEF Range
<1>4. ASSUME NEW out \in Seq(T)
      PROVE  Range(q \o out) = Range(q) \cup Range(out)
  <2>1. /\ DOMAIN (q \o out) = 1 .. Len(q) + Len(out)
        /\ Len(q) \in Nat /\ Len(out) \in Nat
        /\ DOMAIN q = 1 .. Len(q) /\ DOMAIN out = 1 .. Len(out)
    OBVIOUS
  <2>2. \A i \in 1 .. Len(q) : (q \o out)[i] = q[i]
    OBVIOUS
  <2>3. \A i \in 1 .. Len(out) : (q \o out)[i + Len(q)] = out[i]
    OBVIOUS
  <2>4. ASSUME NEW i \in DOMAIN (q \o out)
        PROVE  (q \o out)[i] \in Range(q) \cup Range(out)
    <3>1. CASE i \in 1 .. Len(q)
      BY <2>1, <2>2, <3>1 DEF Range
    <3>2. CASE i \notin 1 .. Len(q)
      <4>1. i - Len(q) \in 1 .. Len(out) /\ (i - Len(q)) + Len(q) = i
        BY <2>1, <2>4, <3>2
      <4>2. QED
        BY <2>1, <2>3, <4>1 DEF Range
    <3>3. QED
      BY <3>1, <3>2
  <2>5. ASSUME NEW i \in DOMAIN q PROVE q[i] \in Range(q \o out)
    <3>1. i \in DOMAIN (q \o out)
      BY <2>1, <2>5
    <3>2. QED
      BY <2>1, <2>2, <2>5, <3>1 DEF Range
  <2>6. ASSUME NEW i \in DOMAIN out PROVE out[i] \in Range(q \o out)
    <3>1. i + Len(q) \in DOMAIN (q \o out)
      BY <2>1, <2>6
    <3>2. QED
      BY <2>1, <2>3, <2>6, <3>1 DEF Range
  <2>7. QED
    BY <2>4, <2>5, <2>6 DEF Range
<1>5. ASSUME NEW x \in T PROVE Range(Append(q, x)) = Range(q) \cup {x}
  <2>1. Append(q, x) = q \o << x >> /\ << x >> \in Seq(T)
    OBVIOUS
  <2>2. QED
    BY <1>3, <1>4, <2>1
<1>6. ASSUME q # << >>
      PROVE  /\ Head(q) \in Range(q) /\ Tail(q) \in Seq(T)
             /\ Range(q) = {Head(q)} \cup Range(Tail(q))
  <2>1. /\ Len(q) \in Nat /\ Len(q) >= 1 /\ Len(Tail(q)) = Len(q) - 1
        /\ DOMAIN q = 1 .. Len(q) /\ DOMAIN Tail(q) = 1 .. (Len(q) - 1)
        /\ Tail(q) \in Seq(T)
    BY <1>6
  <2>2. Head(q) = q[1] /\ 1 \in DOMAIN q
    BY <1>6, <2>1
  <2>3. \A i \in 1 .. (Len(q) - 1) : Tail(q)[i] = q[i + 1]
    BY <1>6, <2>1
  <2>4. ASSUME NEW i \in DOMAIN q, i # 1 PROVE q[i] \in Range(Tail(q))
    <3>1. i - 1 \in 1 .. (Len(q) - 1) /\ (i - 1) + 1 = i
      BY <2>1, <2>4
    <3>2. QED
      BY <2>1, <2>3, <3>1 DEF Range
  <2>5. ASSUME NEW i \in DOMAIN Tail(q) PROVE Tail(q)[i] \in Range(q)
    <3>1. i + 1 \in DOMAIN q
      BY <2>1, <2>5
    <3>2. QED
      BY <2>1, <2>3, <2>5, <3>1 DEF Range
  <2>6. QED
    BY <2>1, <2>2, <2>4, <2>5 DEF Range
<1>7. QED
  BY <1>1, <1>2, <1>3, <1>4, <1>5, <1>6

\* A write on a client: nothing new, or the next number and a message, unless
\* the entry still waits for its id.
LEMMA WriteEffect ==
    ASSUME NEW s \in Store, ~s.server, NEW n \in Names, NEW v \in Values,
           s.entries[n].seq < Half,
           NEW r \in {SetDefaultEntryValue(s, n, v), SetEntryValue(s, n, v),
                      SetEntryTypeValue(s, n, v)}
    PROVE  LET e == s.entries[n]
               f == r.store.entries[n]
           IN  \/ SameContent(s, r.store) /\ r.out = << >>
               \/ /\ OnlyAt(s, r.store, n) /\ r.store.idmap = s.idmap
                  /\ f.value = v /\ f.id = e.id /\ f.seq = e.seq + 1
                  /\ f.localWrite
                  /\ \/ r.out = << EntryAssign(n, e.id, e.seq + 1, v, e.flags) >>
                     \/ /\ e.id # NoId
                        /\ r.out = << EntryUpdate(e.id, e.seq + 1, v) >>
                     \/ e.id = NoId /\ Has(s, n) /\ r.out = << >>
<1> DEFINE e == s.entries[n]
           changed == e.value # v
           seq == IF changed THEN e.seq + 1 ELSE e.seq
           new == [value |-> v, flags |-> e.flags, id |-> e.id, seq |-> seq,
                   localWrite |-> TRUE]
           i == SetEntryValueImpl(s, n, v, TRUE)
<1>1. e \in Entry /\ e.seq \in Nat
  BY StoreFields DEF SeqNums
<1>2. IncrementSeqnum(e.seq) = e.seq + 1 /\ e.seq + 1 \in SeqNums
        /\ e.seq \in SeqNums
  BY <1>1, SmallSeqs, IncrementSeqnumType, StoreFields
<1>3. new \in Entry
  BY <1>1, <1>2, StoreFields DEF Entry
<1>4. /\ i.store = PutIds(s, n, new, s.idmap)
      /\ ~changed => i.out = << >>
      /\ changed /\ (e.value = NoValue \/ TypeOf[e.value] # TypeOf[v]) =>
            i.out = << EntryAssign(n, e.id, seq, v, e.flags) >>
      /\ changed /\ ~(e.value = NoValue \/ TypeOf[e.value] # TypeOf[v]) =>
            i.out = IF e.id = NoId THEN << >> ELSE << EntryUpdate(e.id, seq, v) >>
  BY <1>1, <1>2 DEF SetEntryValueImpl, Result
<1>5. r = i \/ r = Ignored(s)
  BY DEF SetDefaultEntryValue, SetEntryValue, SetEntryTypeValue
<1>6. CASE r = Ignored(s)
  BY <1>6 DEF Ignored, Result, SameContent, Alike
<1>7. CASE r = i
  <2> HIDE DEF new, i
  <2>1. /\ i.store.idmap = s.idmap /\ i.store.entries[n] = new
        /\ OnlyAt(s, i.store, n)
    BY <1>3, <1>4, PutIdsFacts, StoreFields DEF OnlyAt
  <2>2. /\ new.value = v /\ new.id = e.id /\ new.localWrite
        /\ changed => new.seq = e.seq + 1
        /\ ~changed => new.seq = e.seq
    BY DEF new
  <2>3. CASE ~changed
    <3>1. SameContent(s, i.store)
      <4>1. Alike(e, new)
        BY <2>2, <2>3 DEF Alike
      <4>2. \A x \in Names : Alike(s.entries[x], i.store.entries[x])
        BY <2>1, <4>1 DEF OnlyAt, Alike
      <4>3. \A x \in Names : s.entries[x].localWrite => i.store.entries[x].localWrite
        BY <2>1, <2>2 DEF OnlyAt
      <4>4. QED
        BY <2>1, <4>2, <4>3 DEF SameContent
    <3>2. QED
      BY <1>4, <1>7, <2>3, <3>1
  <2>4. CASE changed
    <3>1. \/ i.out = << EntryAssign(n, e.id, e.seq + 1, v, e.flags) >>
          \/ e.id # NoId /\ i.out = << EntryUpdate(e.id, e.seq + 1, v) >>
          \/ e.id = NoId /\ Has(s, n) /\ i.out = << >>
      BY <1>4, <2>4 DEF Has
    <3>2. QED
      BY <1>7, <2>1, <2>2, <2>4, <3>1
  <2>5. QED
    BY <2>3, <2>4
<1>8. QED
  BY <1>5, <1>6, <1>7

\* Setting the flags leaves the values alone, and tells only of flags.
LEMMA FlagsEffect ==
    ASSUME NEW s \in Store, NEW n \in Names, NEW flags \in BOOLEAN,
           NEW local \in BOOLEAN
    PROVE  LET r == SetEntryFlagsImpl(s, n, flags, local) IN
           /\ SameContent(s, r.store)
           /\ \A x \in Names :
                 r.store.entries[x].localWrite = s.entries[x].localWrite
           /\ \A m \in Range(r.out) : m.type = "FlagsUpdate"
           /\ ~local => r.out = << >>
<1> DEFINE e == s.entries[n]
           new == [e EXCEPT !.flags = flags]
           r == SetEntryFlagsImpl(s, n, flags, local)
<1>1. e \in Entry /\ new \in Entry /\ Alike(e, new)
      /\ new.localWrite = e.localWrite
  BY StoreFields DEF Entry, Alike
<1>2. \/ r = Ignored(s)
      \/ r.store = Put(s, n, new)
         /\ r.out \in {<< >>, << FlagsUpdate(e.id, flags) >>}
         /\ (~local => r.out = << >>)
  BY DEF SetEntryFlagsImpl, Result
<1>3. \A m \in Range(r.out) : m.type = "FlagsUpdate"
  <2>1. /\ Range(<< >>) = {}
        /\ Range(<< FlagsUpdate(e.id, flags) >>) = {FlagsUpdate(e.id, flags)}
    BY DEF Range
  <2>2. FlagsUpdate(e.id, flags).type = "FlagsUpdate"
    BY DEF FlagsUpdate
  <2>3. r.out \in {<< >>, << FlagsUpdate(e.id, flags) >>}
    BY <1>2 DEF Ignored, Result
  <2>4. QED
    BY <2>1, <2>2, <2>3
<1>4. CASE r = Ignored(s)
  BY <1>3, <1>4 DEF Ignored, Result, SameContent, Alike
<1>5. CASE r.store = Put(s, n, new) /\ (~local => r.out = << >>)
  <2> HIDE DEF new, r
  <2>1. /\ r.store.idmap = s.idmap /\ r.store.entries[n] = new
        /\ \A x \in Names \ {n} : r.store.entries[x] = s.entries[x]
    BY <1>1, <1>5, PutFacts
  <2>2. SameContent(s, r.store)
    BY <1>1, <2>1 DEF SameContent, Alike
  <2>3. QED
    BY <1>1, <1>3, <1>5, <2>1, <2>2 DEF r
<1>6. QED
  BY <1>2, <1>4, <1>5

\* A message changed the value under one name to what it carries, or was too
\* late.
TakenAt(s, t, n, m) ==
    LET e == s.entries[n]
        f == t.entries[n]
    IN  /\ OnlyAt(s, t, n) /\ t.idmap = s.idmap
        /\ f.value = m.value /\ f.seq = m.seq /\ f.id = e.id
        /\ f.localWrite = e.localWrite

\* A request for an id that the server has given already is ignored.
LEMMA KnownRequestEffect ==
    ASSUME NEW s \in Store, s.server, NEW m \in AssignMsg, m.id = NoId,
           s.entries[m.name].id # NoId
    PROVE  ProcessIncoming(s, m) = Ignored(s)
  BY MsgFields DEF ProcessIncoming, ProcessEntryAssign, ProcessIdRequest

\* A request for a new name: the server's entry is as requested, with the next
\* id, and every connection is told.
LEMMA NewRequestEffect ==
    ASSUME NEW s \in Store, s.server, NEW m \in AssignMsg, m.id = NoId,
           s.entries[m.name].id = NoId, ~Has(s, m.name)
    PROVE  LET r == ProcessIncoming(s, m)
               f == r.store.entries[m.name]
           IN  /\ OnlyAt(s, r.store, m.name)
               /\ r.store.idmap = Append(s.idmap, m.name)
               /\ f.value = m.value /\ f.seq = m.seq /\ f.id = Len(s.idmap)
               /\ r.out = << EntryAssign(m.name, Len(s.idmap), m.seq, m.value,
                                         m.flags) >>
               /\ r.toSender
<1> DEFINE n == m.name
           e == s.entries[n]
           asked == [e EXCEPT !.flags = m.flags, !.seq = m.seq]
           u == Put(s, n, asked)
           new == [value |-> m.value, flags |-> m.flags, id |-> Len(s.idmap),
                   seq |-> m.seq, localWrite |-> e.localWrite \/ FALSE]
           r == ProcessIncoming(s, m)
<1>1. /\ n \in Names /\ m.value \in Values /\ m.value # NoValue
      /\ m.seq \in SeqNums /\ m.flags \in BOOLEAN /\ m.type = "EntryAssign"
  BY MsgFields
<1>2. e \in Entry /\ s.idmap \in Slots
  BY <1>1, StoreFields
<1>3. /\ asked \in Entry /\ asked.value = NoValue /\ asked.flags = m.flags
      /\ asked.seq = m.seq /\ asked.id = NoId
      /\ asked.localWrite = e.localWrite
  BY <1>1, <1>2 DEF Entry, Has
<1> HIDE DEF asked
<1>4. /\ u \in Store /\ u.server /\ u.idmap = s.idmap /\ u.entries[n] = asked
      /\ \A x \in Names \ {n} : u.entries[x] = s.entries[x]
  BY <1>1, <1>3, PutFacts
<1>5. r = SetEntryValueImpl(u, n, m.value, FALSE)
  BY <1>1 DEF ProcessIncoming, ProcessEntryAssign, ProcessIdRequest, asked
<1> HIDE DEF u
<1>6. /\ r.store = PutIds(u, n, new, Append(s.idmap, n))
      /\ r.out = << EntryAssign(n, Len(s.idmap), m.seq, m.value, m.flags) >>
      /\ r.toSender
  BY <1>1, <1>3, <1>4, <1>5 DEF SetEntryValueImpl, Result
<1>7. new \in Entry /\ Append(s.idmap, n) \in Slots
  BY <1>1, <1>2 DEF Entry, Slots
<1>8. /\ new.value = m.value /\ new.seq = m.seq /\ new.id = Len(s.idmap)
  OBVIOUS
<1> DEFINE ids == Append(s.idmap, n)
<1> HIDE DEF new, r, ids
<1>9. /\ r.store.idmap = ids /\ r.store.entries[n] = new
      /\ \A x \in Names \ {n} : r.store.entries[x] = u.entries[x]
  <2>1. r.store = PutIds(u, n, new, ids) /\ ids \in Slots
    BY <1>6, <1>7 DEF ids
  <2>2. QED
    BY <1>1, <1>4, <1>7, <2>1, PutIdsFacts
<1>10. OnlyAt(s, r.store, n)
  BY <1>4, <1>9 DEF OnlyAt
<1>11. QED
  BY <1>6, <1>8, <1>9, <1>10 DEF r, ids

\* An assignment under a known id, on either side.
LEMMA AssignmentEffect ==
    ASSUME NEW s \in Store, NEW m \in AssignMsg, m.id # NoId, Known(s, m.id),
           NameOf(s, m.id) = m.name, s.entries[m.name].seq < Half, m.seq < Half
    PROVE  LET r == ProcessIncoming(s, m) IN
           IF s.entries[m.name].seq > m.seq
           THEN r = Ignored(s)
           ELSE /\ TakenAt(s, r.store, m.name, m) /\ ~r.toSender
                /\ r.out = IF s.server THEN << m >> ELSE << >>
<1> DEFINE n == m.name
           e == s.entries[n]
           new == [e EXCEPT !.value = m.value, !.flags = m.flags, !.seq = m.seq]
           r == ProcessIncoming(s, m)
<1>1. /\ n \in Names /\ m.value \in Values /\ m.seq \in SeqNums
      /\ m.flags \in BOOLEAN /\ m.type = "EntryAssign"
      /\ e \in Entry /\ e.seq \in Nat /\ m.seq \in Nat
  BY MsgFields, StoreFields DEF SeqNums
<1>2. IsSeqNewerThan(e.seq, m.seq) <=> e.seq > m.seq
  BY <1>1, SmallSeqs
<1>3. r = IF e.seq > m.seq THEN Ignored(s)
          ELSE Result(Put(s, n, new), IF s.server THEN << m >> ELSE << >>, FALSE,
                      e.flags # m.flags \/ (m.flags /\ e.value # m.value))
  BY <1>1, <1>2 DEF ProcessIncoming, ProcessEntryAssign, ProcessAssignment
<1>4. /\ new \in Entry /\ new.value = m.value /\ new.seq = m.seq
      /\ new.id = e.id /\ new.localWrite = e.localWrite
  BY <1>1 DEF Entry
<1> HIDE DEF new
<1>5. TakenAt(s, Put(s, n, new), n, m)
  BY <1>1, <1>4, PutFacts DEF TakenAt, OnlyAt
<1>6. QED
  BY <1>1, <1>3, <1>5 DEF Result

\* An assignment under a known id that leads to another name is ignored.
LEMMA StrayAssignmentEffect ==
    ASSUME NEW s \in Store, NEW m \in AssignMsg, m.id # NoId, Known(s, m.id),
           NameOf(s, m.id) # m.name
    PROVE  ProcessIncoming(s, m) = Ignored(s)
  BY MsgFields DEF ProcessIncoming, ProcessEntryAssign, ProcessAssignment

\* An update under a known id, on either side.
LEMMA UpdateEffect ==
    ASSUME NEW s \in Store, NEW m \in UpdateMsg, Known(s, m.id),
           NEW n \in Names, NameOf(s, m.id) = n,
           s.entries[n].seq < Half, m.seq < Half
    PROVE  LET r == ProcessIncoming(s, m) IN
           IF s.entries[n].seq >= m.seq
           THEN r = Ignored(s)
           ELSE /\ TakenAt(s, r.store, n, m) /\ ~r.toSender
                /\ r.out = IF s.server THEN << m >> ELSE << >>
<1> DEFINE e == s.entries[n]
           new == [e EXCEPT !.value = m.value, !.seq = m.seq]
           r == ProcessIncoming(s, m)
<1>1. /\ m.value \in Values /\ m.seq \in SeqNums /\ m.type = "EntryUpdate"
      /\ e \in Entry /\ e.seq \in Nat /\ m.seq \in Nat
  BY MsgFields, StoreFields DEF SeqNums
<1>2. IsSeqNewerOrEqual(e.seq, m.seq) <=> e.seq >= m.seq
  BY <1>1, SmallSeqs
<1>3. r = IF e.seq >= m.seq THEN Ignored(s)
          ELSE Result(Put(s, n, new), IF s.server THEN << m >> ELSE << >>, FALSE,
                      e.flags)
  BY <1>1, <1>2 DEF ProcessIncoming, ProcessEntryUpdate
<1>4. /\ new \in Entry /\ new.value = m.value /\ new.seq = m.seq
      /\ new.id = e.id /\ new.localWrite = e.localWrite
  BY <1>1 DEF Entry
<1> HIDE DEF new
<1>5. TakenAt(s, Put(s, n, new), n, m)
  BY <1>1, <1>4, PutFacts DEF TakenAt, OnlyAt
<1>6. QED
  BY <1>1, <1>3, <1>5 DEF Result

\* An update under an unknown id is ignored.
LEMMA StrayUpdateEffect ==
    ASSUME NEW s \in Store, NEW m \in UpdateMsg, ~Known(s, m.id)
    PROVE  ProcessIncoming(s, m) = Ignored(s)
  BY MsgFields DEF ProcessIncoming, ProcessEntryUpdate

\* Flags that arrive leave the values alone.
LEMMA FlagsMessageEffect ==
    ASSUME NEW s \in Store, NEW m \in FlagsMsg
    PROVE  LET r == ProcessIncoming(s, m) IN
           /\ SameContent(s, r.store)
           /\ \A x \in Names :
                 r.store.entries[x].localWrite = s.entries[x].localWrite
           /\ r.out = IF r.toSender \/ ~s.server THEN << >> ELSE << m >>
<1> DEFINE r == ProcessIncoming(s, m)
           n == NameOf(s, m.id)
           i == SetEntryFlagsImpl(s, n, m.flags, FALSE)
<1>1. m.type = "FlagsUpdate" /\ m.id \in Nat /\ m.flags \in BOOLEAN
  BY MsgFields
<1>2. r = IF ~Known(s, m.id) THEN Ignored(s) ELSE PassOn(s, i, m)
  BY <1>1 DEF ProcessIncoming, ProcessFlagsUpdate
<1>3. CASE ~Known(s, m.id)
  BY <1>2, <1>3 DEF Ignored, Result, SameContent, Alike
<1>4. CASE Known(s, m.id)
  <2>1. n \in Names
    BY <1>1, <1>4, KnownName
  <2>2. /\ SameContent(s, i.store)
        /\ \A x \in Names : i.store.entries[x].localWrite = s.entries[x].localWrite
    BY <1>1, <2>1, FlagsEffect
  <2>3. r = Result(i.store, IF s.server THEN << m >> ELSE << >>, FALSE, i.dirty)
    BY <1>2, <1>4 DEF PassOn
  <2> HIDE DEF i, r
  <2>4. QED
    BY <2>2, <2>3 DEF Result, r
<1>5. QED
  BY <1>3, <1>4

\* A client learns an id: of an entry it does not have it takes everything, of
\* its own it keeps the value if that is newer, and sends it.
LEMMA NewAssignmentEffect ==
    ASSUME NEW s \in Store, ~s.server, NEW m \in AssignMsg, m.id # NoId,
           ~Known(s, m.id),
           Has(s, m.name) => s.entries[m.name].seq < Half /\ m.seq < Half
    PROVE  LET r == ProcessIncoming(s, m)
               e == s.entries[m.name]
               f == r.store.entries[m.name]
           IN  /\ OnlyAt(s, r.store, m.name)
               /\ r.store.idmap = WithSlot(s.idmap, m.id, m.name)
               /\ f.id = m.id /\ f.localWrite = e.localWrite
               /\ ~Has(s, m.name) => /\ f.value = m.value /\ f.seq = m.seq
                                     /\ r.out = << >>
               /\ Has(s, m.name) /\ e.seq > m.seq =>
                     /\ f.value = e.value /\ f.seq = e.seq
                     /\ EntryUpdate(m.id, e.seq, e.value) \in Range(r.out)
                     /\ \A x \in Range(r.out) :
                           \/ x.type = "FlagsUpdate"
                           \/ x = EntryUpdate(m.id, e.seq, e.value)
               /\ Has(s, m.name) /\ e.seq <= m.seq =>
                     /\ f.value = m.value /\ f.seq = m.seq
                     /\ \A x \in Range(r.out) : x.type = "FlagsUpdate"
<1> DEFINE n == m.name
           e == s.entries[n]
           own == [e EXCEPT !.id = m.id]
           taken == [own EXCEPT !.value = m.value, !.seq = m.seq]
           all == [taken EXCEPT !.flags = m.flags]
           reflag == IF m.flags # e.flags
                     THEN << FlagsUpdate(m.id, e.flags) >> ELSE << >>
           update == EntryUpdate(m.id, e.seq, e.value)
           idmap == WithSlot(s.idmap, m.id, n)
           r == ProcessIncoming(s, m)
<1>1. /\ n \in Names /\ m.value \in Values /\ m.seq \in SeqNums
      /\ m.flags \in BOOLEAN /\ m.type = "EntryAssign" /\ m.id \in Nat
      /\ e \in Entry /\ e.seq \in Nat /\ m.seq \in Nat /\ s.idmap \in Slots
  BY MsgFields, StoreFields DEF SeqNums
<1>2. Has(s, n) => (IsSeqNewerThan(e.seq, m.seq) <=> e.seq > m.seq)
  BY <1>1, SmallSeqs
<1>3. r = ProcessNewAssignment(s, m)
  BY <1>1 DEF ProcessIncoming, ProcessEntryAssign
<1>4. /\ ~Has(s, n) => r.store = PutIds(s, n, all, idmap) /\ r.out = << >>
      /\ Has(s, n) /\ e.seq > m.seq =>
            r.store = PutIds(s, n, own, idmap) /\ r.out = Append(reflag, update)
      /\ Has(s, n) /\ e.seq <= m.seq =>
            r.store = PutIds(s, n, taken, idmap) /\ r.out = reflag
  <2>1. CASE ~Has(s, n)
    <3>1. e.value = NoValue
      BY <2>1 DEF Has
    <3>2. r = Result(PutIds(s, n, all, idmap), << >>, TRUE, FALSE)
      BY <1>3, <3>1 DEF ProcessNewAssignment
    <3>3. r.store = PutIds(s, n, all, idmap) /\ r.out = << >>
      <4> HIDE DEF r, all, idmap
      <4>1. QED
        BY <3>2 DEF Result
    <3>4. QED
      BY <2>1, <3>3
  <2>2. CASE Has(s, n) /\ e.seq > m.seq
    <3>1. IsSeqNewerThan(e.seq, m.seq) /\ e.value # NoValue
      BY <1>2, <2>2 DEF Has
    <3>2. r = Result(PutIds(s, n, own, idmap), Append(reflag, update), TRUE, FALSE)
      BY <1>3, <3>1 DEF ProcessNewAssignment
    <3>3. r.store = PutIds(s, n, own, idmap) /\ r.out = Append(reflag, update)
      <4> HIDE DEF r, own, idmap, reflag, update
      <4>1. QED
        BY <3>2 DEF Result
    <3>4. ~(e.seq <= m.seq)
      BY <1>1, <2>2
    <3>5. QED
      BY <2>2, <3>3, <3>4
  <2>3. CASE Has(s, n) /\ e.seq <= m.seq
    <3>1. ~IsSeqNewerThan(e.seq, m.seq) /\ e.value # NoValue
      BY <1>1, <1>2, <2>3 DEF Has
    <3>2. r = Result(PutIds(s, n, taken, idmap), reflag, TRUE,
                     e.flags /\ e.value # m.value)
      BY <1>3, <3>1 DEF ProcessNewAssignment
    <3>3. r.store = PutIds(s, n, taken, idmap) /\ r.out = reflag
      <4> HIDE DEF r, taken, idmap, reflag
      <4>1. QED
        BY <3>2 DEF Result
    <3>4. ~(e.seq > m.seq)
      BY <1>1, <2>3
    <3>5. QED
      BY <2>3, <3>3, <3>4
  <2>4. QED
    BY <2>1, <2>2, <2>3
<1>5. /\ own \in Entry /\ own.value = e.value /\ own.seq = e.seq
      /\ own.id = m.id /\ own.localWrite = e.localWrite
  BY <1>1 DEF Entry
<1>6. /\ taken \in Entry /\ taken.value = m.value /\ taken.seq = m.seq
      /\ taken.id = m.id /\ taken.localWrite = e.localWrite
  BY <1>1 DEF Entry
<1>7. /\ all \in Entry /\ all.value = m.value /\ all.seq = m.seq
      /\ all.id = m.id /\ all.localWrite = e.localWrite
  BY <1>1 DEF Entry
<1>8. idmap \in Slots
  BY <1>1, WithSlotType
<1>9. /\ reflag \in Seq(FlagsMsg \cup {update})
      /\ \A x \in Range(reflag) : x.type = "FlagsUpdate"
      /\ Range(Append(reflag, update)) = Range(reflag) \cup {update}
  <2> DEFINE flags == FlagsUpdate(m.id, e.flags)
             T == FlagsMsg \cup {update}
  <2>1. flags \in T /\ update \in T
    BY <1>1, StoreFields DEF FlagsUpdate, FlagsMsg
  <2>2. flags.type = "FlagsUpdate"
    BY DEF FlagsUpdate
  <2>3. reflag = << flags >> \/ reflag = << >>
    OBVIOUS
  <2> HIDE DEF update, flags, reflag, T
  <2>4. << flags >> \in Seq(T) /\ << >> \in Seq(T)
    BY <2>1
  <2>5. reflag \in Seq(T)
    BY <2>3, <2>4
  <2>6. Range(<< flags >>) = {flags} /\ Range(<< >>) = {}
    BY <2>1, <2>4, Messages
  <2>7. \A x \in Range(reflag) : x.type = "FlagsUpdate"
    BY <2>2, <2>3, <2>6
  <2>8. Range(Append(reflag, update)) = Range(reflag) \cup {update}
    BY <2>1, <2>5, Messages
  <2>9. QED
    BY <2>5, <2>7, <2>8 DEF T
<1> HIDE DEF own, taken, all, idmap, reflag, update, r
<1>10. \A x \in {own, taken, all} :
          /\ PutIds(s, n, x, idmap).idmap = idmap
          /\ PutIds(s, n, x, idmap).entries[n] = x
          /\ OnlyAt(s, PutIds(s, n, x, idmap), n)
  BY <1>1, <1>5, <1>6, <1>7, <1>8, PutIdsFacts, SMTT(20) DEF OnlyAt
<1>11. CASE ~Has(s, n)
  BY <1>4, <1>7, <1>10, <1>11 DEF r, idmap
<1>12. CASE Has(s, n) /\ e.seq > m.seq
  <2>1. /\ r.store.entries[n] = own /\ r.store.idmap = idmap
        /\ OnlyAt(s, r.store, n) /\ r.out = Append(reflag, update)
    BY <1>4, <1>10, <1>12
  <2>2. /\ update \in Range(r.out)
        /\ \A x \in Range(r.out) : x.type = "FlagsUpdate" \/ x = update
    BY <1>9, <2>1
  <2>3. ~(e.seq <= m.seq)
    BY <1>1, <1>12
  <2>4. QED
    BY <1>5, <1>12, <2>1, <2>2, <2>3 DEF r, idmap, update
<1>13. CASE Has(s, n) /\ e.seq <= m.seq
  <2>1. ~(e.seq > m.seq)
    BY <1>1, <1>13
  <2>2. QED
    BY <1>4, <1>6, <1>9, <1>10, <1>13, <2>1 DEF r, idmap
<1>14. QED
  BY <1>1, <1>11, <1>12, <1>13

\* A client that wrote nothing takes the snapshot, and has nothing to send.
LEMMA ReaderSnapshotEffect ==
    ASSUME NEW s \in Store, NEW msgs \in Snapshots, IsSnapshot(msgs),
           \A n \in Names : ~s.entries[n].localWrite,
           \A m \in msgs : m.id # NoId
    PROVE  LET t == ApplyInitialAssignments(s, msgs) IN
           /\ \A n \in Names : ~t.entries[n].localWrite
           /\ \A m \in msgs : Alike(m, t.entries[m.name])
           /\ \A n \in Names : (\E m \in msgs : m.name = n)
                               \/ (~Has(t, n) /\ t.entries[n].id = NoId)
           /\ InitialRequests(s, msgs) = {} /\ InitialUpdates(s, msgs) = {}
<1> DEFINE t == ApplyInitialAssignments(s, msgs)
           after(n) == IF n \in Assigned(msgs)
                       THEN EntryAfterHandshake(s.entries[n], AssignmentOf(msgs, n))
                       ELSE EntryUnknownToServer(s.entries[n])
<1>1. ASSUME NEW n \in Names PROVE t.entries[n] = after(n)
  BY DEF ApplyInitialAssignments, Store
<1> HIDE DEF t
<1>2. ASSUME NEW m \in msgs
      PROVE  m.name \in Assigned(msgs) /\ AssignmentOf(msgs, m.name) = m
  <2>1. m.name \in Assigned(msgs)
    BY DEF Assigned
  <2>2. /\ AssignmentOf(msgs, m.name) \in msgs
        /\ AssignmentOf(msgs, m.name).name = m.name
    BY <2>1, AssignmentOfType DEF Snapshots
  <2>3. QED
    BY <2>1, <2>2 DEF IsSnapshot
<1>3. ASSUME NEW n \in Names
      PROVE  /\ ~KeepsOwn(s.entries[n]) /\ s.entries[n] \in Entry
             /\ \A m \in msgs : /\ Alike(m, EntryAfterHandshake(s.entries[n], m))
                                /\ ~EntryAfterHandshake(s.entries[n], m).localWrite
             /\ LET f == EntryUnknownToServer(s.entries[n]) IN
                f.value = NoValue /\ f.id = NoId /\ ~f.localWrite
  <2>1. ~KeepsOwn(s.entries[n]) /\ s.entries[n] \in Entry
    BY StoreFields DEF KeepsOwn
  <2>2. QED
    BY <2>1 DEF EntryAfterHandshake, EntryUnknownToServer, Alike, Entry
<1>4. \A n \in Names : ~t.entries[n].localWrite
  BY <1>1, <1>3, AssignmentOfType DEF Snapshots
<1>5. \A m \in msgs : m.name \in Names
  BY MsgFields DEF Snapshots
<1>6. \A m \in msgs : Alike(m, t.entries[m.name])
  BY <1>1, <1>2, <1>3, <1>5
<1>7. \A n \in Names : (\E m \in msgs : m.name = n)
                       \/ (~Has(t, n) /\ t.entries[n].id = NoId)
  <2>1. ASSUME NEW n \in Names, ~\E m \in msgs : m.name = n
        PROVE  ~Has(t, n) /\ t.entries[n].id = NoId
    <3>1. n \notin Assigned(msgs)
      BY <2>1 DEF Assigned
    <3>2. QED
      BY <1>1, <1>3, <3>1 DEF Has
  <2>2. QED
    BY <2>1
<1>8. InitialRequests(s, msgs) = {}
  BY DEF InitialRequests
<1>9. InitialUpdates(s, msgs) = {}
  <2>1. \A n \in Assigned(msgs) : n \in Names
    BY AssignmentOfType DEF Snapshots
  <2>2. QED
    BY <1>3, <2>1 DEF InitialUpdates
<1>10. QED
  BY <1>4, <1>6, <1>7, <1>8, <1>9 DEF t

\* A client that gets an empty snapshot keeps what it wrote, forgets the ids
\* and asks for them.
LEMMA EmptySnapshotEffect ==
    ASSUME NEW s \in Store,
           \A n \in Names : Has(s, n) => s.entries[n].localWrite
    PROVE  LET t == ApplyInitialAssignments(s, {}) IN
           /\ \A n \in Names :
                 LET e == s.entries[n]
                     f == t.entries[n]
                 IN  /\ f.value = e.value /\ f.seq = e.seq /\ f.id = NoId
                     /\ f.localWrite = e.localWrite
           /\ InitialUpdates(s, {}) = {}
           /\ InitialRequests(s, {}) =
                 {EntryAssign(n, NoId, s.entries[n].seq, s.entries[n].value,
                              s.entries[n].flags) : n \in {x \in Names : Has(s, x)}}
           /\ \A k \in 1 .. Len(t.idmap) : t.idmap[k] = NoName
<1> DEFINE t == ApplyInitialAssignments(s, {})
<1>1. Assigned({}) = {}
  BY DEF Assigned
<1>2. {} \in Snapshots /\ IsSnapshot({})
  BY FS_EmptySet DEF Snapshots, IsSnapshot
<1>3. \A n \in Names : t.entries[n] = EntryUnknownToServer(s.entries[n])
  BY <1>1 DEF ApplyInitialAssignments, Store
<1>4. \A k \in 1 .. Len(t.idmap) : t.idmap[k] = NoName
  BY <1>2, ApplyInitialAssignmentsResolves
<1> HIDE DEF t
<1>5. ASSUME NEW n \in Names
      PROVE  LET e == s.entries[n]
                 f == t.entries[n]
             IN  /\ f.value = e.value /\ f.seq = e.seq /\ f.id = NoId
                 /\ f.localWrite = e.localWrite
  <2> DEFINE e == s.entries[n]
  <2>1. e \in Entry /\ (e.value = NoValue \/ e.localWrite)
    BY StoreFields DEF Has
  <2>2. t.entries[n] = EntryUnknownToServer(e)
    BY <1>3
  <2> HIDE DEF e
  <2>3. CASE e.localWrite
    BY <2>1, <2>2, <2>3 DEF EntryUnknownToServer, Entry, e
  <2>4. CASE ~e.localWrite
    <3>1. t.entries[n] = [e EXCEPT !.id = NoId, !.value = NoValue]
      BY <2>2, <2>4 DEF EntryUnknownToServer
    <3>2. QED
      BY <2>1, <2>4, <3>1 DEF Entry, e
  <2>5. QED
    BY <2>3, <2>4
<1>6. InitialUpdates(s, {}) = {}
  BY <1>1 DEF InitialUpdates
<1>7. {x \in Names \ Assigned({}) : Has(s, x) /\ s.entries[x].localWrite}
        = {x \in Names : Has(s, x)}
  BY <1>1
<1>8. QED
  BY <1>4, <1>5, <1>6, <1>7 DEF t, InitialRequests

-----------------------------------------------------------------------------
(* What messages do to flags *)

\* What a message that is no hello makes of the flags and the number of the
\* entry with the id.
Leads(m, id, e, x) ==
    \/ m.type = "EntryAssign" /\ m.id = id /\ x.flags = m.flags /\ x.seq = m.seq
    \/ m.type = "EntryUpdate" /\ m.id = id /\ x.flags = e.flags /\ x.seq = m.seq
    \/ m.type = "FlagsUpdate" /\ m.id = id /\ x.flags = m.flags /\ x.seq = e.seq
    \/ /\ ~(m.type \in {"EntryAssign", "EntryUpdate", "FlagsUpdate"} /\ m.id = id)
       /\ x.flags = e.flags /\ x.seq = e.seq

\* A store whose ids lead to entries with small numbers.
Ready(s) ==
    /\ \A id \in Nat : Known(s, id) =>
          Has(s, NameOf(s, id)) /\ s.entries[NameOf(s, id)].id = id
    /\ \A n \in Names : Has(s, n) => s.entries[n].seq < Half
    /\ s.server => \A n \in Names : Has(s, n) <=> s.entries[n].id # NoId

\* A request for a new name brings its flags.
LEMMA NewRequestFlags ==
    ASSUME NEW s \in Store, s.server, NEW m \in AssignMsg, m.id = NoId,
           s.entries[m.name].id = NoId
    PROVE  ProcessIncoming(s, m).store.entries[m.name].flags = m.flags
<1> DEFINE n == m.name
           e == s.entries[n]
           asked == [e EXCEPT !.flags = m.flags, !.seq = m.seq]
           u == Put(s, n, asked)
           r == SetEntryValueImpl(u, n, m.value, FALSE)
<1>1. /\ n \in Names /\ m.value \in Values /\ m.seq \in SeqNums
      /\ m.flags \in BOOLEAN /\ m.type = "EntryAssign"
  BY MsgFields
<1>2. asked \in Entry /\ asked.flags = m.flags
  <2>1. e \in Entry
    BY <1>1, StoreFields
  <2>2. QED
    BY <1>1, <2>1 DEF Entry
<1>3. u \in Store /\ u.entries[n] = asked
  BY <1>1, <1>2, PutFacts
<1>4. ProcessIncoming(s, m) = r
  BY <1>1 DEF ProcessIncoming, ProcessEntryAssign, ProcessIdRequest
<1>5. u.entries \in [Names -> Entry]
  BY <1>1, <1>3, StoreFields
<1> HIDE DEF u, asked
<1>6. r.store.entries[n].flags = asked.flags
  BY <1>1, <1>3, <1>5 DEF SetEntryValueImpl, Result, PutIds, Store
<1>7. QED
  BY <1>2, <1>4, <1>6

\* An assignment under a known id brings its flags, unless it is too late.
LEMMA AssignmentFlags ==
    ASSUME NEW s \in Store, NEW m \in AssignMsg, m.id # NoId, Known(s, m.id),
           NameOf(s, m.id) = m.name, s.entries[m.name].seq < Half, m.seq < Half,
           s.entries[m.name].seq <= m.seq
    PROVE  ProcessIncoming(s, m).store.entries[m.name].flags = m.flags
<1> DEFINE n == m.name
           e == s.entries[n]
           new == [e EXCEPT !.value = m.value, !.flags = m.flags, !.seq = m.seq]
<1>1. /\ n \in Names /\ m.value \in Values /\ m.seq \in SeqNums
      /\ m.flags \in BOOLEAN /\ m.type = "EntryAssign"
      /\ e \in Entry /\ e.seq \in Nat /\ m.seq \in Nat
  BY MsgFields, StoreFields DEF SeqNums
<1>2. ~IsSeqNewerThan(e.seq, m.seq)
  BY <1>1, SmallSeqs
<1>3. new \in Entry /\ new.flags = m.flags
  BY <1>1 DEF Entry
<1> HIDE DEF new
<1>4. ProcessIncoming(s, m).store = Put(s, n, new)
  BY <1>1, <1>2 DEF ProcessIncoming, ProcessEntryAssign, ProcessAssignment,
     Result, new
<1>5. QED
  BY <1>1, <1>3, <1>4, PutFacts

\* An update brings no flags.
LEMMA UpdateFlags ==
    ASSUME NEW s \in Store, NEW m \in UpdateMsg, NEW n \in Names
    PROVE  ProcessIncoming(s, m).store.entries[n].flags = s.entries[n].flags
<1> DEFINE x == NameOf(s, m.id)
           e == s.entries[x]
           new == [e EXCEPT !.value = m.value, !.seq = m.seq]
           r == ProcessIncoming(s, m)
<1>1. /\ m.value \in Values /\ m.seq \in SeqNums /\ m.type = "EntryUpdate"
      /\ m.id \in Nat
  BY MsgFields
<1>2. \/ r.store = s
      \/ Known(s, m.id) /\ r.store = Put(s, x, new)
  BY <1>1 DEF ProcessIncoming, ProcessEntryUpdate, Result, Ignored
<1>3. CASE r.store = s
  BY <1>3
<1>4. CASE Known(s, m.id) /\ r.store = Put(s, x, new)
  <2>1. x \in Names
    BY <1>1, <1>4, KnownName
  <2>2. new \in Entry /\ new.flags = e.flags
    BY <1>1, <2>1, StoreFields DEF Entry
  <2> HIDE DEF new, x, r
  <2>3. QED
    BY <1>4, <2>1, <2>2, PutFacts DEF r
<1>5. QED
  BY <1>2, <1>3, <1>4

\* A message with flags sets those of one entry, if the id is known.
LEMMA FlagsMessageFlags ==
    ASSUME NEW s \in Store, NEW m \in FlagsMsg, NEW n \in Names
    PROVE  LET t == ProcessIncoming(s, m).store IN
           t.entries[n].flags = IF Known(s, m.id) /\ NameOf(s, m.id) = n /\ Has(s, n)
                                THEN m.flags ELSE s.entries[n].flags
<1> DEFINE x == NameOf(s, m.id)
           e == s.entries[x]
           new == [e EXCEPT !.flags = m.flags]
           i == SetEntryFlagsImpl(s, x, m.flags, FALSE)
           t == ProcessIncoming(s, m).store
<1>1. m.type = "FlagsUpdate" /\ m.id \in Nat /\ m.flags \in BOOLEAN
  BY MsgFields
<1>2. t = IF ~Known(s, m.id) THEN s ELSE i.store
  BY <1>1 DEF ProcessIncoming, ProcessFlagsUpdate, Ignored, PassOn, Result
<1>3. CASE ~Known(s, m.id)
  BY <1>2, <1>3
<1>4. CASE Known(s, m.id)
  <2>1. x \in Names /\ t = i.store
    BY <1>1, <1>2, <1>4, KnownName
  <2>2. new \in Entry /\ new.flags = m.flags
    BY <1>1, <2>1, StoreFields DEF Entry
  <2>3. i.store = IF e.value = NoValue \/ e.flags = m.flags THEN s ELSE Put(s, x, new)
    BY DEF SetEntryFlagsImpl, Ignored, Result
  <2> HIDE DEF new, i, t
  <2>4. CASE e.value = NoValue \/ e.flags = m.flags
    BY <1>4, <2>1, <2>3, <2>4 DEF Has, t
  <2>5. CASE ~(e.value = NoValue \/ e.flags = m.flags)
    <3>1. /\ t.entries[x] = new
          /\ \A y \in Names \ {x} : t.entries[y] = s.entries[y]
      BY <2>1, <2>2, <2>3, <2>5, PutFacts
    <3>2. QED
      BY <1>4, <2>2, <2>5, <3>1 DEF Has, t
  <2>6. QED
    BY <2>4, <2>5
<1>5. QED
  BY <1>3, <1>4

\* A client that learns an id takes the flags with a new entry, keeps those of
\* its own, and tells them if they differ.
LEMMA NewAssignmentFlags ==
    ASSUME NEW s \in Store, ~s.server, NEW m \in AssignMsg, m.id # NoId,
           ~Known(s, m.id)
    PROVE  LET r == ProcessIncoming(s, m)
               e == s.entries[m.name]
               f == r.store.entries[m.name]
               reflag == IF m.flags # e.flags
                         THEN << FlagsUpdate(m.id, e.flags) >> ELSE << >>
           IN  /\ f.flags = IF Has(s, m.name) THEN e.flags ELSE m.flags
               /\ ~Has(s, m.name) => r.out = << >>
               /\ Has(s, m.name) =>
                     r.out \in {reflag, Append(reflag, EntryUpdate(m.id, e.seq, e.value))}
<1> DEFINE n == m.name
           e == s.entries[n]
           own == [e EXCEPT !.id = m.id]
           taken == [own EXCEPT !.value = m.value, !.seq = m.seq]
           all == [taken EXCEPT !.flags = m.flags]
           reflag == IF m.flags # e.flags
                     THEN << FlagsUpdate(m.id, e.flags) >> ELSE << >>
           update == EntryUpdate(m.id, e.seq, e.value)
           idmap == WithSlot(s.idmap, m.id, n)
           r == ProcessIncoming(s, m)
<1>1. /\ n \in Names /\ m.value \in Values /\ m.seq \in SeqNums
      /\ m.flags \in BOOLEAN /\ m.type = "EntryAssign" /\ m.id \in Nat
      /\ e \in Entry /\ s.idmap \in Slots
  BY MsgFields, StoreFields
<1>2. r = ProcessNewAssignment(s, m)
  BY <1>1 DEF ProcessIncoming, ProcessEntryAssign
<1>3. /\ own \in Entry /\ own.flags = e.flags
      /\ taken \in Entry /\ taken.flags = e.flags
      /\ all \in Entry /\ all.flags = m.flags
  BY <1>1 DEF Entry
<1>4. idmap \in Slots
  BY <1>1, WithSlotType
<1>5. /\ ~Has(s, n) => r.store = PutIds(s, n, all, idmap) /\ r.out = << >>
      /\ Has(s, n) => \/ r.store = PutIds(s, n, own, idmap)
                         /\ r.out = Append(reflag, update)
                      \/ r.store = PutIds(s, n, taken, idmap) /\ r.out = reflag
  <2>1. CASE ~Has(s, n)
    <3>1. e.value = NoValue
      BY <2>1 DEF Has
    <3>2. r = Result(PutIds(s, n, all, idmap), << >>, TRUE, FALSE)
      BY <1>2, <3>1 DEF ProcessNewAssignment
    <3> HIDE DEF r, all, idmap
    <3>3. QED
      BY <2>1, <3>2 DEF Result
  <2>2. CASE Has(s, n) /\ IsSeqNewerThan(e.seq, m.seq)
    <3>1. e.value # NoValue
      BY <2>2 DEF Has
    <3>2. r = Result(PutIds(s, n, own, idmap), Append(reflag, update), TRUE, FALSE)
      BY <1>2, <2>2, <3>1 DEF ProcessNewAssignment
    <3> HIDE DEF r, own, idmap, reflag, update
    <3>3. QED
      BY <2>2, <3>2 DEF Result
  <2>3. CASE Has(s, n) /\ ~IsSeqNewerThan(e.seq, m.seq)
    <3>1. e.value # NoValue
      BY <2>3 DEF Has
    <3>2. r = Result(PutIds(s, n, taken, idmap), reflag, TRUE,
                     e.flags /\ e.value # m.value)
      BY <1>2, <2>3, <3>1 DEF ProcessNewAssignment
    <3> HIDE DEF r, taken, idmap, reflag
    <3>3. QED
      BY <2>3, <3>2 DEF Result
  <2>4. QED
    BY <2>1, <2>2, <2>3
<1> HIDE DEF own, taken, all, idmap, reflag, update, r
<1>6. \A x \in {own, taken, all} : PutIds(s, n, x, idmap).entries[n] = x
  BY <1>1, <1>3, <1>4, PutIdsFacts
<1>7. QED
  BY <1>3, <1>5, <1>6 DEF r, reflag, update

\* A message about other entries leaves an entry alone.
LEMMA OthersKept ==
    ASSUME NEW s \in Store, Ready(s), NEW n \in Names,
           NEW m \in AssignMsg \cup UpdateMsg, m.seq < Half,
           m.type = "EntryAssign" /\ (m.id # NoId \/ s.entries[n].id = NoId)
              => m.name # n,
           Known(s, m.id) /\ (m.id # NoId \/ m.type = "EntryUpdate")
              => NameOf(s, m.id) # n
    PROVE  ProcessIncoming(s, m).store.entries[n] = s.entries[n]
<1> DEFINE r == ProcessIncoming(s, m)
<1>1. m.seq \in Nat /\ m.id \in Nat
  BY MsgFields DEF SeqNums
<1>2. CASE m \in AssignMsg
  <2>1. m.type = "EntryAssign" /\ m.name \in Names
    BY <1>2, MsgFields
  <2>2. CASE m.id = NoId
    <3>1. CASE ~s.server
      <4>1. r = Ignored(s)
        BY <2>1, <2>2, <3>1 DEF ProcessIncoming, ProcessEntryAssign
      <4>2. QED
        BY <4>1 DEF Ignored, Result
    <3>2. CASE s.server /\ s.entries[m.name].id # NoId
      <4>1. r = Ignored(s)
        BY <1>2, <2>2, <3>2, KnownRequestEffect
      <4>2. QED
        BY <4>1 DEF Ignored, Result
    <3>3. CASE s.server /\ s.entries[m.name].id = NoId
      <4>1. m.name # n
        BY <2>1, <2>2, <3>3
      <4>2. ~Has(s, m.name)
        BY <2>1, <3>3 DEF Ready
      <4>3. OnlyAt(s, r.store, m.name)
        BY <1>2, <2>2, <3>3, <4>2, NewRequestEffect
      <4>4. QED
        BY <4>1, <4>3 DEF OnlyAt
    <3>4. QED
      BY <3>1, <3>2, <3>3
  <2>3. CASE m.id # NoId /\ Known(s, m.id)
    <3>1. NameOf(s, m.id) # n
      BY <2>3
    <3>2. CASE NameOf(s, m.id) # m.name
      <4>1. r = Ignored(s)
        BY <1>2, <2>3, <3>2, StrayAssignmentEffect
      <4>2. QED
        BY <4>1 DEF Ignored, Result
    <3>3. CASE NameOf(s, m.id) = m.name
      <4>1. s.entries[m.name].seq < Half
        BY <1>1, <2>1, <2>3, <3>3 DEF Ready
      <4>2. r = Ignored(s) \/ TakenAt(s, r.store, m.name, m)
        BY <1>2, <2>3, <3>3, <4>1, AssignmentEffect
      <4> HIDE DEF r
      <4>3. QED
        BY <3>1, <3>3, <4>2 DEF Ignored, Result, TakenAt, OnlyAt, r
    <3>4. QED
      BY <3>2, <3>3
  <2>4. CASE m.id # NoId /\ ~Known(s, m.id)
    <3>1. CASE s.server
      <4>1. r = Ignored(s)
        BY <2>1, <2>4, <3>1 DEF ProcessIncoming, ProcessEntryAssign
      <4>2. QED
        BY <4>1 DEF Ignored, Result
    <3>2. CASE ~s.server
      <4>1. m.name # n /\ (Has(s, m.name) => s.entries[m.name].seq < Half)
        BY <2>1, <2>4 DEF Ready
      <4>2. OnlyAt(s, r.store, m.name)
        BY <1>2, <2>4, <3>2, <4>1, NewAssignmentEffect
      <4>3. QED
        BY <4>1, <4>2 DEF OnlyAt
    <3>3. QED
      BY <3>1, <3>2
  <2>5. QED
    BY <2>2, <2>3, <2>4
<1>3. CASE m \in UpdateMsg
  <2>1. CASE ~Known(s, m.id)
    <3>1. r = Ignored(s)
      BY <1>3, <2>1, StrayUpdateEffect
    <3>2. QED
      BY <3>1 DEF Ignored, Result
  <2>2. CASE Known(s, m.id)
    <3>1. NameOf(s, m.id) \in Names /\ s.entries[NameOf(s, m.id)].seq < Half
          /\ s.entries[NameOf(s, m.id)].id = m.id
      BY <1>1, <2>2, KnownName DEF Ready
    <3>2. r = Ignored(s) \/ TakenAt(s, r.store, NameOf(s, m.id), m)
      BY <1>3, <2>2, <3>1, UpdateEffect
    <3>3. NameOf(s, m.id) # n
      BY <1>3, <2>2, MsgFields
    <3> HIDE DEF r
    <3>4. QED
      BY <3>2, <3>3 DEF Ignored, Result, TakenAt, OnlyAt, r
  <2>3. QED
    BY <2>1, <2>2
<1>4. QED
  BY <1>2, <1>3

\* What a message does to the flags and the number of an entry that has an id is
\* what it says.
LEMMA HearsFlags ==
    ASSUME NEW s \in Store, Ready(s), NEW n \in Names, Has(s, n),
           s.entries[n].id # NoId, Known(s, s.entries[n].id),
           NameOf(s, s.entries[n].id) = n,
           NEW m \in AssignMsg \cup UpdateMsg \cup FlagsMsg,
           m.type \in {"EntryAssign", "EntryUpdate"} => m.seq < Half,
           m.type \in {"EntryAssign", "EntryUpdate"} /\ m.id = s.entries[n].id
              => s.entries[n].seq <= m.seq,
           m.type = "EntryAssign" /\ m.id # NoId
              => (m.name = n <=> m.id = s.entries[n].id)
    PROVE  LET t == ProcessIncoming(s, m).store IN
           /\ t.entries[n] \in Entry
           /\ Leads(m, s.entries[n].id, s.entries[n], t.entries[n])
<1> DEFINE e == s.entries[n]
           r == ProcessIncoming(s, m)
           f == r.store.entries[n]
<1>1. /\ m.id \in Nat /\ e \in Entry /\ e.id \in Nat /\ e.seq \in Nat
      /\ e.seq < Half
  BY MsgFields, StoreFields DEF SeqNums, Ready
<1>2. \A id \in Nat : Known(s, id) => (NameOf(s, id) = n <=> id = e.id)
  BY DEF Ready
<1>3. f \in Entry
  <2>1. m \in EntryMsg
    BY MsgFields
  <2>2. r.store \in Store
    BY <2>1, ProcessIncomingType DEF GoodResult
  <2>3. QED
    BY <2>2, StoreFields
<1>4. CASE m \in AssignMsg
  <2>1. m.type = "EntryAssign" /\ m.seq \in Nat /\ m.seq < Half
    BY <1>4, MsgFields DEF SeqNums
  <2>2. CASE m.id = e.id
    <3>1. m.name = n /\ e.seq <= m.seq
      BY <2>1, <2>2
    <3>2. f.flags = m.flags
      BY <1>1, <1>4, <2>1, <2>2, <3>1, AssignmentFlags
    <3>3. TakenAt(s, r.store, n, m)
      <4>1. ~(e.seq > m.seq)
        BY <1>1, <2>1, <3>1
      <4>2. QED
        BY <1>1, <1>4, <2>1, <2>2, <3>1, <4>1, AssignmentEffect
    <3> HIDE DEF r
    <3>4. QED
      BY <1>3, <2>1, <2>2, <3>2, <3>3 DEF Leads, TakenAt, r
  <2>3. CASE m.id # e.id
    <3>1. /\ m.id # NoId => m.name # n
          /\ Known(s, m.id) => NameOf(s, m.id) # n
      BY <1>1, <1>2, <2>1, <2>3
    <3>2. f = e
      BY <1>4, <2>1, <3>1, OthersKept
    <3>3. QED
      BY <1>3, <2>3, <3>2 DEF Leads
  <2>4. QED
    BY <2>2, <2>3
<1>5. CASE m \in UpdateMsg
  <2>1. m.type = "EntryUpdate" /\ m.seq \in Nat /\ m.seq < Half
    BY <1>5, MsgFields DEF SeqNums
  <2>2. CASE m.id = e.id
    <3>1. e.seq <= m.seq
      BY <2>1, <2>2
    <3>2. f.flags = e.flags
      BY <1>5, UpdateFlags
    <3>3. f.seq = m.seq
      <4>1. IF e.seq >= m.seq THEN r = Ignored(s) ELSE TakenAt(s, r.store, n, m)
        BY <1>1, <1>5, <2>1, <2>2, UpdateEffect
      <4>2. CASE e.seq >= m.seq
        <5>1. e.seq = m.seq
          BY <1>1, <2>1, <3>1, <4>2
        <5>2. r = Ignored(s)
          BY <4>1, <4>2
        <5>3. QED
          BY <5>1, <5>2 DEF Ignored, Result
      <4>3. CASE ~(e.seq >= m.seq)
        BY <4>1, <4>3 DEF TakenAt
      <4>4. QED
        BY <4>2, <4>3
    <3>4. QED
      BY <1>3, <2>1, <2>2, <3>2, <3>3 DEF Leads
  <2>3. CASE m.id # e.id
    <3>1. Known(s, m.id) => NameOf(s, m.id) # n
      BY <1>1, <1>2, <2>3
    <3>2. f = e
      BY <1>5, <2>1, <3>1, OthersKept
    <3>3. QED
      BY <1>3, <2>3, <3>2 DEF Leads
  <2>4. QED
    BY <2>2, <2>3
<1>6. CASE m \in FlagsMsg
  <2>1. m.type = "FlagsUpdate"
    BY <1>6, MsgFields
  <2>2. f.seq = e.seq
    <3>1. SameContent(s, r.store)
      BY <1>6, FlagsMessageEffect
    <3> HIDE DEF r
    <3>2. QED
      BY <3>1 DEF SameContent, Alike
  <2>3. f.flags = IF m.id = e.id THEN m.flags ELSE e.flags
    BY <1>1, <1>2, <1>6, FlagsMessageFlags
  <2>4. QED
    BY <1>3, <2>1, <2>2, <2>3 DEF Leads
<1>7. QED
  BY <1>4, <1>5, <1>6

\* The server passes on what it takes, announces what is new, and says nothing
\* of what it ignores.
LEMMA ServerAnswers ==
    ASSUME NEW s \in Store, s.server, Ready(s),
           NEW m \in AssignMsg \cup UpdateMsg \cup FlagsMsg,
           m.type \in {"EntryAssign", "EntryUpdate"} => m.seq < Half
    PROVE  LET r == ProcessIncoming(s, m) IN
           \/ r = Ignored(s)
           \/ r.out = << m >> /\ ~r.toSender
              /\ (m.type = "EntryAssign" => m.id # NoId)
           \/ /\ m \in AssignMsg /\ m.id = NoId
              /\ s.entries[m.name].id = NoId /\ ~Has(s, m.name)
<1> DEFINE r == ProcessIncoming(s, m)
<1>1. m.id \in Nat
  BY MsgFields
<1>2. CASE m \in AssignMsg
  <2>1. m.type = "EntryAssign" /\ m.seq < Half /\ m.name \in Names
    BY <1>2, MsgFields
  <2>2. CASE m.id = NoId
    <3>1. CASE s.entries[m.name].id # NoId
      BY <1>2, <2>2, <3>1, KnownRequestEffect
    <3>2. CASE s.entries[m.name].id = NoId
      BY <1>2, <2>1, <2>2, <3>2 DEF Ready
    <3>3. QED
      BY <3>1, <3>2
  <2>3. CASE m.id # NoId /\ ~Known(s, m.id)
    BY <2>1, <2>3 DEF ProcessIncoming, ProcessEntryAssign
  <2>4. CASE m.id # NoId /\ Known(s, m.id)
    <3>1. CASE NameOf(s, m.id) # m.name
      BY <1>2, <2>4, <3>1, StrayAssignmentEffect
    <3>2. CASE NameOf(s, m.id) = m.name
      <4>1. s.entries[m.name].seq < Half
        BY <1>1, <2>1, <2>4, <3>2 DEF Ready
      <4>2. r = Ignored(s) \/ (r.out = << m >> /\ ~r.toSender)
        BY <1>2, <2>1, <2>4, <3>2, <4>1, AssignmentEffect
      <4>3. QED
        BY <2>4, <4>2
    <3>3. QED
      BY <3>1, <3>2
  <2>5. QED
    BY <2>2, <2>3, <2>4
<1>3. CASE m \in UpdateMsg
  <2>1. m.type = "EntryUpdate" /\ m.seq < Half
    BY <1>3, MsgFields
  <2>2. CASE ~Known(s, m.id)
    BY <1>3, <2>2, StrayUpdateEffect
  <2>3. CASE Known(s, m.id)
    <3>1. NameOf(s, m.id) \in Names /\ s.entries[NameOf(s, m.id)].seq < Half
      BY <1>1, <2>3, KnownName DEF Ready
    <3>2. r = Ignored(s) \/ (r.out = << m >> /\ ~r.toSender)
      BY <1>3, <2>1, <2>3, <3>1, UpdateEffect
    <3>3. QED
      BY <2>1, <3>2
  <2>4. QED
    BY <2>2, <2>3
<1>4. CASE m \in FlagsMsg
  <2>1. m.type = "FlagsUpdate"
    BY <1>4, MsgFields
  <2>2. r = Ignored(s) \/ (r.out = << m >> /\ ~r.toSender)
    BY <2>1 DEF ProcessIncoming, ProcessFlagsUpdate, PassOn, Result
  <2>3. QED
    BY <2>1, <2>2
<1>5. QED
  BY <1>2, <1>3, <1>4

\* So whoever follows the server can follow it further.
LEMMA ServerPassesOn ==
    ASSUME NEW s \in Store, s.server, Ready(s), NEW n \in Names, Has(s, n),
           s.entries[n].id # NoId, Known(s, s.entries[n].id),
           NameOf(s, s.entries[n].id) = n,
           NEW m \in AssignMsg \cup UpdateMsg \cup FlagsMsg,
           m.type \in {"EntryAssign", "EntryUpdate"} => m.seq < Half,
           m.type \in {"EntryAssign", "EntryUpdate"} /\ m.id = s.entries[n].id
              => s.entries[n].seq <= m.seq,
           m.type = "EntryAssign" /\ m.id # NoId
              => (m.name = n <=> m.id = s.entries[n].id)
    PROVE  LET r == ProcessIncoming(s, m)
               e == s.entries[n]
               f == r.store.entries[n]
           IN  \/ r.out = << >> /\ f.flags = e.flags /\ f.seq = e.seq
               \/ \E y : r.out = << y >> /\ Leads(y, e.id, e, f)
<1> DEFINE r == ProcessIncoming(s, m)
           e == s.entries[n]
           f == r.store.entries[n]
<1>1. Leads(m, e.id, e, f)
  BY HearsFlags
<1>2. CASE r = Ignored(s)
  BY <1>2 DEF Ignored, Result
<1>3. CASE r.out = << m >>
  BY <1>1, <1>3
<1>4. CASE /\ m \in AssignMsg /\ m.id = NoId
           /\ s.entries[m.name].id = NoId /\ ~Has(s, m.name)
  <2> DEFINE y == EntryAssign(m.name, Len(s.idmap), m.seq, m.value, m.flags)
  <2>1. OnlyAt(s, r.store, m.name) /\ r.out = << y >>
    BY <1>4, NewRequestEffect
  <2>2. f = e
    BY <1>4, <2>1 DEF OnlyAt
  <2>3. e.id < Len(s.idmap) /\ e.id \in Nat /\ Len(s.idmap) \in Nat
    BY StoreFields, StoreLen DEF Known
  <2>4. y.id # e.id
    BY <2>3 DEF EntryAssign
  <2> HIDE DEF y, r
  <2>5. Leads(y, e.id, e, f)
    BY <2>2, <2>4 DEF Leads
  <2>6. QED
    BY <2>1, <2>5 DEF r
<1>5. QED
  BY <1>2, <1>3, <1>4, ServerAnswers

=============================================================================
