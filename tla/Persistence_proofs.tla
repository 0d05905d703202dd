------------------------- MODULE Persistence_proofs -------------------------
(***************************************************************************)
(* No change of a persistent entry is ever forgotten, and a complete save  *)
(* survives on the disk: for any number of names, values, operations,      *)
(* failures and restarts.                                                  *)
(***************************************************************************)
EXTENDS Persistence, Storage_proofs

-----------------------------------------------------------------------------
(* The dirty flag *)

Persists(e) == e.value # NoValue /\ e.flags

\* Two entries that mean the same to the file.
SameForFile(e, f) ==
    /\ Persists(e) <=> Persists(f)
    /\ Persists(e) => e.value = f.value

\* What an operation must do: set the flag, or leave alone what persists.
Marked(s, r) ==
    \/ r.dirty
    \/ \A n \in Names : SameForFile(s.entries[n], r.store.entries[n])

\* Then the file would be the same.
LEMMA SameFile ==
    ASSUME NEW s, NEW t,
           \A n \in Names : SameForFile(s.entries[n], t.entries[n])
    PROVE  PersistentEntries(t) = PersistentEntries(s)
<1> DEFINE D(u) == {x \in Names : Has(u, x) /\ u.entries[x].flags}
<1>1. D(s) = D(t)
  BY DEF SameForFile, Persists, Has
<1>2. \A n \in D(s) : s.entries[n].value = t.entries[n].value
  BY DEF SameForFile, Persists, Has
<1>3. /\ PersistentEntries(s) = [n \in D(s) |-> s.entries[n].value]
      /\ PersistentEntries(t) = [n \in D(t) |-> t.entries[n].value]
  BY DEF PersistentEntries
<1> HIDE DEF D
<1>4. QED
  BY <1>1, <1>2, <1>3

\* A refused operation changes nothing.
LEMMA IgnoredMarked ==
    ASSUME NEW s PROVE Marked(s, Ignored(s))
  BY DEF Marked, Ignored, Result, SameForFile

\* An operation on one entry.
LEMMA OneEntryMarked ==
    ASSUME NEW s \in Store, NEW n \in Names, NEW r,
           \A x \in Names \ {n} : r.store.entries[x] = s.entries[x],
           r.dirty \/ SameForFile(s.entries[n], r.store.entries[n])
    PROVE  Marked(s, r)
  BY DEF Marked, SameForFile

\* _setEntryValueImpl marks a new value of a persistent entry.
LEMMA SetEntryValueImplMarked ==
    ASSUME NEW s \in Store, NEW n \in Names, NEW v \in Values,
           NEW local \in BOOLEAN
    PROVE  Marked(s, SetEntryValueImpl(s, n, v, local))
<1> DEFINE e == s.entries[n]
           newId == s.server /\ e.id = NoId
           id == IF newId THEN Len(s.idmap) ELSE e.id
           changed == e.value # v
           seq == IF local /\ changed THEN IncrementSeqnum(e.seq) ELSE e.seq
           r == SetEntryValueImpl(s, n, v, local)
           idmap == IF newId THEN Append(s.idmap, n) ELSE s.idmap
           entry == [value |-> v, flags |-> e.flags, id |-> id, seq |-> seq,
                     localWrite |-> e.localWrite \/ local]
<1>1. id \in Nat /\ seq \in SeqNums /\ idmap \in Slots
  BY StoreFields, IncrementSeqnumType DEF Slots
<1>2. entry \in Entry
  BY <1>1, StoreFields DEF Entry
<1>3. entry.value = v /\ entry.flags = e.flags
  OBVIOUS
<1>4. r.store = PutIds(s, n, entry, idmap) /\ r.dirty = (e.flags /\ changed)
  BY DEF SetEntryValueImpl, Result
<1> HIDE DEF entry, idmap, r, id, seq
<1>5. /\ r.store.entries[n] = entry
      /\ \A x \in Names \ {n} : r.store.entries[x] = s.entries[x]
  BY <1>1, <1>2, <1>4, PutIdsFacts
<1>6. r.dirty \/ SameForFile(e, entry)
  BY <1>3, <1>4 DEF SameForFile, Persists
<1>7. Marked(s, r)
  BY <1>5, <1>6, OneEntryMarked
<1>8. QED
  BY <1>7 DEF r

\* _setEntryFlagsImpl marks every change of flags.
LEMMA SetEntryFlagsImplMarked ==
    ASSUME NEW s \in Store, NEW n \in Names, NEW flags \in BOOLEAN,
           NEW local \in BOOLEAN
    PROVE  Marked(s, SetEntryFlagsImpl(s, n, flags, local))
<1>1. \/ SetEntryFlagsImpl(s, n, flags, local) = Ignored(s)
      \/ SetEntryFlagsImpl(s, n, flags, local).dirty
  BY DEF SetEntryFlagsImpl, Result
<1>2. QED
  BY <1>1, IgnoredMarked DEF Marked

\* _deleteEntryImpl marks the end of a persistent entry.
LEMMA DeleteEntryImplMarked ==
    ASSUME NEW s \in Store, NEW n \in Names, NEW local \in BOOLEAN
    PROVE  Marked(s, DeleteEntryImpl(s, n, local))
<1> DEFINE e == s.entries[n]
           gone == [NewEntry EXCEPT !.seq = e.seq]
           idmap == WithoutSlot(s.idmap, e.id)
           r == DeleteEntryImpl(s, n, local)
<1>1. gone \in Entry /\ idmap \in Slots /\ gone.value = NoValue
  BY StoreFields, DeletedEntryType, WithoutSlotType DEF NewEntry
<1>2. r.store = PutIds(s, n, gone, idmap) /\ r.dirty = e.flags
  BY DEF DeleteEntryImpl, Result
<1> HIDE DEF gone, idmap, r
<1>3. /\ r.store.entries[n] = gone
      /\ \A x \in Names \ {n} : r.store.entries[x] = s.entries[x]
  BY <1>1, <1>2, PutIdsFacts
<1>4. r.dirty \/ SameForFile(e, gone)
  BY <1>1, <1>2 DEF SameForFile, Persists
<1>5. Marked(s, r)
  BY <1>3, <1>4, OneEntryMarked
<1>6. QED
  BY <1>5 DEF r

\* _deleteAllEntriesImpl marks nothing, because it spares what persists.
LEMMA DeletableMarked ==
    ASSUME NEW s \in Store, NEW r, r.store = DeleteEntries(s, Deletable(s))
    PROVE  Marked(s, r)
<1> DEFINE t == DeleteEntries(s, Deletable(s))
<1>1. Deletable(s) \in SUBSET Names
  BY DEF Deletable
<1>2. /\ \A n \in Names : n \notin Deletable(s) => t.entries[n] = s.entries[n]
      /\ \A n \in Deletable(s) : t.entries[n].value = NoValue
  <2> HIDE DEF t
  <2>1. t = DeleteEntries(s, Deletable(s))
    BY DEF t
  <2>2. QED
    BY <1>1, <2>1, DeleteEntriesFacts
<1>3. \A n \in Deletable(s) : ~s.entries[n].flags
  BY DEF Deletable
<1> HIDE DEF t
<1>4. \A n \in Names : SameForFile(s.entries[n], t.entries[n])
  BY <1>2, <1>3 DEF SameForFile, Persists
<1>5. QED
  BY <1>4 DEF Marked, t

\* A request for an id creates an entry, so its old flags do not matter.
LEMMA ProcessEntryAssignMarked ==
    ASSUME NEW s \in Store, s.server, NEW m \in AssignMsg,
           IdsMatchEntries(s)
    PROVE  Marked(s, ProcessEntryAssign(s, m))
<1>1. /\ m.name \in Names /\ m.id \in Nat /\ m.seq \in SeqNums
      /\ m.value \in Values /\ m.value # NoValue /\ m.flags \in BOOLEAN
  BY MsgFields
<1>2. CASE m.id = NoId /\ s.entries[m.name].id = NoId
  <2> DEFINE n == m.name
             e == s.entries[n]
             new == [e EXCEPT !.flags = m.flags, !.seq = m.seq]
             t == Put(s, n, new)
             r == SetEntryValueImpl(t, n, m.value, FALSE)
  <2>1. ProcessEntryAssign(s, m) = r
    BY <1>2 DEF ProcessEntryAssign, ProcessIdRequest
  <2>2. n \in Names
    BY <1>1
  <2>3. e.value = NoValue
    BY <1>2, <2>2 DEF IdsMatchEntries, Has
  <2> HIDE DEF n
  <2>4. new \in Entry /\ new.value = NoValue
    <3>1. e \in Entry
      BY <2>2, StoreFields
    <3> HIDE DEF e
    <3>2. QED
      BY <1>1, <2>3, <3>1 DEF Entry
  <2> HIDE DEF new
  <2>5. /\ t \in Store /\ t.entries[n] = new
        /\ \A x \in Names \ {n} : t.entries[x] = s.entries[x]
    BY <2>2, <2>4, PutFacts
  <2> HIDE DEF t
  <2>6. Marked(t, r)
    BY <1>1, <2>2, <2>5, SetEntryValueImplMarked
  <2>7. \A x \in Names : SameForFile(s.entries[x], t.entries[x])
    BY <2>2, <2>3, <2>4, <2>5 DEF SameForFile, Persists
  <2> HIDE DEF r
  <2>8. Marked(s, r)
    BY <2>6, <2>7 DEF Marked, SameForFile
  <2>9. QED
    BY <2>1, <2>8
<1>3. CASE m.id # NoId /\ Known(s, m.id)
  <2> DEFINE n == NameOf(s, m.id)
             e == s.entries[n]
             new == [e EXCEPT !.value = m.value, !.flags = m.flags,
                              !.seq = m.seq]
             r == ProcessAssignment(s, m)
  <2>1. n \in Names
    BY <1>1, <1>3, KnownName
  <2>2. new \in Entry /\ new.value = m.value /\ new.flags = m.flags
    <3>1. e \in Entry
      BY <2>1, StoreFields
    <3> HIDE DEF e
    <3>2. QED
      BY <1>1, <3>1 DEF Entry
  <2>3. \/ r = Ignored(s)
        \/ /\ r.store = Put(s, n, new)
           /\ r.dirty = (e.flags # m.flags \/ (m.flags /\ e.value # m.value))
    BY DEF ProcessAssignment, Result
  <2>4. ProcessEntryAssign(s, m) = r
    BY <1>3 DEF ProcessEntryAssign
  <2>5. e.flags \in BOOLEAN
    BY <2>1, StoreFields
  <2> HIDE DEF n, new, r
  <2>6. /\ Put(s, n, new).entries[n] = new
        /\ \A x \in Names \ {n} : Put(s, n, new).entries[x] = s.entries[x]
    BY <2>1, <2>2, PutFacts
  <2>7. CASE r = Ignored(s)
    BY <2>4, <2>7, IgnoredMarked
  <2>8. CASE /\ r.store = Put(s, n, new)
             /\ r.dirty = (e.flags # m.flags \/ (m.flags /\ e.value # m.value))
    <3>1. r.dirty \/ SameForFile(e, new)
      BY <1>1, <2>2, <2>5, <2>8 DEF SameForFile, Persists
    <3>2. QED
      BY <2>1, <2>4, <2>6, <2>8, <3>1, OneEntryMarked
  <2>9. QED
    BY <2>3, <2>7, <2>8
<1>4. CASE \/ m.id = NoId /\ s.entries[m.name].id # NoId
           \/ m.id # NoId /\ ~Known(s, m.id)
  <2>1. ProcessEntryAssign(s, m) = Ignored(s)
    BY <1>4 DEF ProcessEntryAssign, ProcessIdRequest
  <2>2. QED
    BY <2>1, IgnoredMarked
<1>5. QED
  BY <1>2, <1>3, <1>4

\* An update marks the entry if it is persistent.
LEMMA ProcessEntryUpdateMarked ==
    ASSUME NEW s \in Store, NEW m \in UpdateMsg
    PROVE  Marked(s, ProcessEntryUpdate(s, m))
<1> DEFINE n == NameOf(s, m.id)
           e == s.entries[n]
           new == [e EXCEPT !.value = m.value, !.seq = m.seq]
           r == ProcessEntryUpdate(s, m)
<1>1. /\ m.id \in Nat /\ m.seq \in SeqNums /\ m.value \in Values
  BY MsgFields
<1>2. CASE r = Ignored(s)
  BY <1>2, IgnoredMarked
<1>3. CASE r # Ignored(s)
  <2>1. Known(s, m.id) /\ r.store = Put(s, n, new) /\ r.dirty = e.flags
    BY <1>3 DEF ProcessEntryUpdate, Result
  <2>2. n \in Names
    BY <1>1, <2>1, KnownName
  <2>3. new \in Entry /\ new.flags = e.flags
    <3>1. e \in Entry
      BY <2>2, StoreFields
    <3> HIDE DEF e
    <3>2. QED
      BY <1>1, <3>1 DEF Entry
  <2> HIDE DEF n, new, r
  <2>4. /\ Put(s, n, new).entries[n] = new
        /\ \A x \in Names \ {n} : Put(s, n, new).entries[x] = s.entries[x]
    BY <2>2, <2>3, PutFacts
  <2>5. r.dirty \/ SameForFile(e, new)
    BY <2>1, <2>3 DEF SameForFile, Persists
  <2>6. Marked(s, r)
    BY <2>1, <2>2, <2>4, <2>5, OneEntryMarked
  <2>7. QED
    BY <2>6 DEF r
<1>4. QED
  BY <1>2, <1>3

\* Every message a server processes either sets the dirty flag or changes
\* nothing that the file would hold.
THEOREM ProcessIncomingMarked ==
    ASSUME NEW s \in Store, s.server, NEW m \in EntryMsg,
           IdsMatchEntries(s)
    PROVE  Marked(s, ProcessIncoming(s, m))
<1>1. CASE m \in AssignMsg
  BY <1>1, MsgFields, ProcessEntryAssignMarked DEF ProcessIncoming
<1>2. CASE m \in UpdateMsg
  BY <1>2, MsgFields, ProcessEntryUpdateMarked DEF ProcessIncoming
<1>3. CASE m \in FlagsMsg
  <2> DEFINE q == SetEntryFlagsImpl(s, NameOf(s, m.id), m.flags, FALSE)
  <2>1. \/ ProcessIncoming(s, m) = Ignored(s)
        \/ /\ Known(s, m.id)
           /\ ProcessIncoming(s, m).store = q.store
           /\ ProcessIncoming(s, m).dirty = q.dirty
    BY <1>3, MsgFields DEF ProcessIncoming, ProcessFlagsUpdate, PassOn, Result
  <2>2. Known(s, m.id) => Marked(s, q)
    BY <1>3, MsgFields, KnownName, SetEntryFlagsImplMarked
  <2> HIDE DEF q
  <2>3. QED
    BY <2>1, <2>2, IgnoredMarked DEF Marked
<1>4. CASE m \in DeleteMsg
  <2> DEFINE q == DeleteEntryImpl(s, NameOf(s, m.id), FALSE)
  <2>1. \/ ProcessIncoming(s, m) = Ignored(s)
        \/ /\ Known(s, m.id)
           /\ ProcessIncoming(s, m).store = q.store
           /\ ProcessIncoming(s, m).dirty = q.dirty
    BY <1>4, MsgFields DEF ProcessIncoming, ProcessEntryDelete, PassOn, Result
  <2>2. Known(s, m.id) => Marked(s, q)
    BY <1>4, MsgFields, KnownName, DeleteEntryImplMarked
  <2> HIDE DEF q
  <2>3. QED
    BY <2>1, <2>2, IgnoredMarked DEF Marked
<1>5. CASE m \in ClearMsg
  <2>1. ProcessIncoming(s, m).store = DeleteEntries(s, Deletable(s))
    BY <1>5, MsgFields DEF ProcessIncoming, ProcessClearEntries, PassOn, Result
  <2>2. QED
    BY <2>1, DeletableMarked
<1>6. QED
  BY <1>1, <1>2, <1>3, <1>4, <1>5 DEF EntryMsg

\* So does every call of the user, and it keeps the ids.
LEMMA UserOperationsMarked ==
    ASSUME NEW s \in Store, s.server, NEW ks, NEW r \in UserOperations(s, ks)
    PROVE  /\ Marked(s, r)
           /\ r.store \in Store /\ r.store.server
           /\ KeepsIds(s, r.store)
<1>1. CASE \E n \in Names, v \in Values :
              r \in {SetDefaultEntryValue(s, n, v), SetEntryValue(s, n, v),
                     SetEntryTypeValue(s, n, v)}
  <2>1. PICK n \in Names, v \in Values :
              r \in {SetDefaultEntryValue(s, n, v), SetEntryValue(s, n, v),
                     SetEntryTypeValue(s, n, v)}
    BY <1>1
  <2>2. TRUE \in BOOLEAN
    OBVIOUS
  <2>3. GoodResult(s, r) /\ KeepsIds(s, r.store)
    BY <2>1, <2>2, LocalOperationTypes, LocalOperationsKeepIds
  <2>4. r \in {Ignored(s), SetEntryValueImpl(s, n, v, TRUE)}
    BY <2>1 DEF SetDefaultEntryValue, SetEntryValue, SetEntryTypeValue
  <2>5. Marked(s, r)
    BY <2>1, <2>2, <2>4, IgnoredMarked, SetEntryValueImplMarked
  <2>6. QED
    BY <2>3, <2>5 DEF GoodResult
<1>2. CASE \E n \in Names, f \in BOOLEAN : r = SetEntryFlags(s, n, f)
  <2>1. PICK n \in Names, f \in BOOLEAN : r = SetEntryFlagsImpl(s, n, f, TRUE)
    BY <1>2 DEF SetEntryFlags
  <2>2. GoodResult(s, r) /\ KeepsIds(s, r.store) /\ Marked(s, r)
    BY <2>1, SetEntryFlagsImplType, SetEntryFlagsImplKeepsIds,
       SetEntryFlagsImplMarked
  <2>3. QED
    BY <2>2 DEF GoodResult
<1>3. CASE \E n \in Names : r = DeleteEntry(s, n)
  <2>1. PICK n \in Names : r = DeleteEntryImpl(s, n, TRUE)
    BY <1>3 DEF DeleteEntry
  <2>2. GoodResult(s, r) /\ KeepsIds(s, r.store) /\ Marked(s, r)
    BY <2>1, DeleteEntryImplType, DeleteEntryImplKeepsIds, DeleteEntryImplMarked
  <2>3. QED
    BY <2>2 DEF GoodResult
<1>4. CASE r = DeleteAllEntries(s)
  <2>1. GoodResult(s, r) /\ KeepsIds(s, r.store)
    BY <1>4, DeleteAllEntriesType, DeleteAllEntriesKeepsIds
  <2>2. r.store = DeleteEntries(s, Deletable(s))
    BY <1>4 DEF DeleteAllEntries, Result
  <2>3. QED
    BY <2>1, <2>2, DeletableMarked DEF GoodResult
<1>5. QED
  BY <1>1, <1>2, <1>3, <1>4 DEF UserOperations

-----------------------------------------------------------------------------
(* Reading the file at the start *)

\* SetToSeq of the community modules lists every element once.
LEMMA SetToSeqFacts ==
    ASSUME NEW S, IsFiniteSet(S)
    PROVE  /\ Cardinality(S) \in Nat
           /\ SetToSeq(S) \in [1 .. Cardinality(S) -> S]
           /\ \A x \in S : \E k \in 1 .. Cardinality(S) : SetToSeq(S)[k] = x
           /\ \A j, k \in 1 .. Cardinality(S) :
                 SetToSeq(S)[j] = SetToSeq(S)[k] => j = k
<1> DEFINE N == Cardinality(S)
           D == 1 .. N
           q == SetToSeq(S)
<1>1. N \in Nat /\ ExistsBijection(D, S)
  BY FS_CardinalityType
<1>2. \E f \in [D -> S] : IsInjective(f)
  BY <1>1 DEF ExistsBijection, Bijection, Injection
<1>3. q \in [D -> S] /\ IsInjective(q)
  BY <1>2 DEF SetToSeq
<1>4. q \in Injection(D, S)
  BY <1>3 DEF Injection
<1>5. Cardinality(D) = N
  BY <1>1, FS_Interval
<1> HIDE DEF q, D
<1>6. q \in Surjection(D, S)
  BY <1>4, <1>5, FS_Injection
<1>7. \A x \in S : \E k \in D : q[k] = x
  BY <1>6 DEF Surjection
<1>8. \A j, k \in D : q[j] = q[k] => j = k
  BY <1>3 DEF IsInjective
<1>9. QED
  BY <1>1, <1>3, <1>7, <1>8 DEF q, D

\* What a file holds: values for some of the names.
LEMMA ContentsFacts ==
    /\ \A c \in Contents : DOMAIN c \subseteq Names /\ c \in [DOMAIN c -> Values]
    /\ \A S \in SUBSET Names : [S -> Values] \subseteq Contents
    /\ Empty \in Contents
<1>1. \A c \in Contents : DOMAIN c \subseteq Names /\ c \in [DOMAIN c -> Values]
  BY DEF Contents
<1>2. \A S \in SUBSET Names : [S -> Values] \subseteq Contents
  BY DEF Contents
<1>3. Empty \in [{} -> Values]
  BY DEF Empty
<1>4. {} \in SUBSET Names
  OBVIOUS
<1>5. Empty \in Contents
  BY <1>2, <1>3, <1>4
<1>6. QED
  BY <1>1, <1>2, <1>5

\* What is read is what a file can hold, and it is read the same when it is
\* saved again.
LEMMA ReadFacts ==
    ASSUME NEW c \in {NoFile, Partial} \cup Contents
    PROVE  Read(c) \in Contents /\ Read(Read(c)) = Read(c)
<1>1. CASE c \in {NoFile, Partial}
  <2>1. Read(c) = Empty /\ Empty \in Contents
    BY <1>1, ContentsFacts DEF Read
  <2>2. Empty \notin {NoFile, Partial}
    BY <2>1, FileAssumption DEF FileAssumption
  <2>3. Read(Empty) = [n \in DOMAIN Empty \ Unreadable |-> ReadBack[Empty[n]]]
    BY <2>2 DEF Read
  <2>4. DOMAIN Empty = {} /\ DOMAIN Empty \ Unreadable = {}
    BY DEF Empty
  <2>5. Read(Empty) = Empty
    BY <2>3, <2>4 DEF Empty
  <2>6. QED
    BY <2>1, <2>5
<1>2. CASE c \in Contents
  <2> DEFINE D == DOMAIN c \ Unreadable
             r == [n \in D |-> ReadBack[c[n]]]
  <2>1. c \notin {NoFile, Partial}
    BY <1>2, FileAssumption DEF FileAssumption
  <2>2. Read(c) = r
    BY <2>1 DEF Read
  <2>3. D \in SUBSET Names /\ \A n \in D : c[n] \in Values
    BY <1>2, ContentsFacts
  <2>4. \A v \in Values : ReadBack[v] \in Values /\ ReadBack[ReadBack[v]] = ReadBack[v]
    BY PersistenceAssumption DEF PersistenceAssumption
  <2>5. r \in [D -> Values]
    BY <2>3, <2>4
  <2>6. r \in Contents
    BY <2>3, <2>5, ContentsFacts
  <2>7. r \notin {NoFile, Partial}
    BY <2>6, FileAssumption DEF FileAssumption
  <2>8. Read(r) = [n \in DOMAIN r \ Unreadable |-> ReadBack[r[n]]]
    BY <2>7 DEF Read
  <2>9. DOMAIN r \ Unreadable = D /\ \A n \in D : ReadBack[r[n]] = r[n]
    BY <2>3, <2>4
  <2>10. r = [n \in D |-> r[n]]
    OBVIOUS
  <2> HIDE DEF r, D
  <2>11. Read(r) = r
    BY <2>8, <2>9, <2>10
  <2>12. QED
    BY <2>2, <2>6, <2>11
<1>3. QED
  BY <1>1, <1>2

\* The entries of a server's store are what a file can hold.
LEMMA PersistentEntriesType ==
    ASSUME NEW s \in Store PROVE PersistentEntries(s) \in Contents
<1> DEFINE D == {x \in Names : Has(s, x) /\ s.entries[x].flags}
<1>1. \A n \in D : s.entries[n].value \in Values
  BY StoreFields DEF Has
<1>2. PersistentEntries(s) \in [D -> Values]
  BY <1>1 DEF PersistentEntries
<1>3. D \in SUBSET Names
  OBVIOUS
<1> HIDE DEF D
<1>4. QED
  BY <1>2, <1>3, ContentsFacts

\* LoadEntries on a new entry.
LEMMA LoadedEntry ==
    ASSUME NEW v \in Values, NEW id \in Nat
    PROVE  LET e == [NewEntry EXCEPT !.value = v, !.flags = TRUE, !.id = id,
                                     !.seq = IncrementSeqnum(@)] IN
           e \in Entry /\ e.value = v /\ e.flags /\ e.id = id
<1>1. NewEntry \in Entry
  BY SeqSpaceFacts, StorageAssumption DEF NewEntry, Entry, StorageAssumption
<1>2. IncrementSeqnum(NewEntry.seq) \in SeqNums
  BY <1>1, IncrementSeqnumType DEF Entry
<1>3. QED
  BY <1>1, <1>2 DEF Entry

\* LoadEntries, when q lists the names that need an id.
LoadedWith(s, c, q) ==
    LET Loaded(n) == [s.entries[n] EXCEPT !.value = c[n], !.flags = TRUE,
                        !.id = IF s.entries[n].id # NoId THEN s.entries[n].id
                               ELSE Len(s.idmap)
                                    + (CHOOSE k \in DOMAIN q : q[k] = n) - 1,
                        !.seq = IncrementSeqnum(@)]
    IN  [s EXCEPT
           !.entries = [n \in Names |->
                IF n \in DOMAIN c THEN Loaded(n) ELSE s.entries[n]],
           !.idmap = @ \o q]

\* It is what _loadEntries does.
LEMMA LoadEntriesShape ==
    ASSUME NEW s, NEW c, NEW q,
           q = SetToSeq({n \in DOMAIN c : s.entries[n].id = NoId})
    PROVE  LoadEntries(s, c) = LoadedWith(s, c, q)
  BY DEF LoadEntries, LoadedWith

\* A server that starts has consistent ids, and holds what was read.
LEMMA LoadEntriesFacts ==
    ASSUME NEW c \in Contents
    PROVE  LET t == LoadEntries(NewStore(TRUE), c) IN
           /\ t \in Store /\ t.server
           /\ IdsConsistent(t)
           /\ PersistentEntries(t) = c
<1> DEFINE s == NewStore(TRUE)
           D == DOMAIN c
           q == SetToSeq(D)
           N == Cardinality(D)
           Index(n) == CHOOSE k \in DOMAIN q : q[k] = n
           loaded(n) == [NewEntry EXCEPT !.value = c[n], !.flags = TRUE,
                                         !.id = Index(n) - 1,
                                         !.seq = IncrementSeqnum(@)]
           entries == [n \in Names |-> IF n \in D THEN loaded(n) ELSE NewEntry]
           t == LoadEntries(s, c)
<1>1. D \in SUBSET Names /\ c \in [D -> Values] /\ IsFiniteSet(D)
  BY ContentsFacts, PersistenceAssumption, FS_Subset DEF PersistenceAssumption
<1>2. /\ N \in Nat /\ q \in [1 .. N -> D]
      /\ \A x \in D : \E k \in 1 .. N : q[k] = x
      /\ \A j, k \in 1 .. N : q[j] = q[k] => j = k
  BY <1>1, SetToSeqFacts
<1>3. DOMAIN q = 1 .. N /\ q \in Seq(D) /\ Len(q) = N
  BY <1>2
<1>4. \A n \in D : /\ Index(n) \in 1 .. N /\ q[Index(n)] = n
  BY <1>2, <1>3
<1>5. \A k \in 1 .. N : q[k] \in D /\ Index(q[k]) = k
  BY <1>2, <1>4
<1>6. /\ \A n \in Names : s.entries[n] = NewEntry
      /\ s.idmap = << >> /\ s.server = TRUE /\ NewEntry.id = NoId
  BY DEF NewStore, NewEntry
<1>7. {n \in DOMAIN c : s.entries[n].id = NoId} = D
  <2> HIDE DEF s
  <2>1. QED
    BY <1>1, <1>6
<1>8. NewEntry \in Entry /\ s \in Store
  <2>1. NewEntry \in Entry
    BY SeqSpaceFacts, StorageAssumption DEF NewEntry, Entry, StorageAssumption
  <2> HIDE DEF NewEntry
  <2>2. QED
    BY <2>1 DEF NewStore, Store
<1>9. t = [s EXCEPT !.entries = entries, !.idmap = q]
  <2> DEFINE IdOf(n) == IF s.entries[n].id # NoId THEN s.entries[n].id
                        ELSE Len(s.idmap) + Index(n) - 1
             new == [n \in Names |->
                IF n \in D
                THEN [s.entries[n] EXCEPT !.value = c[n], !.flags = TRUE,
                                          !.id = IdOf(n), !.seq = IncrementSeqnum(@)]
                ELSE s.entries[n]]
  <2>1. \A n \in D : IdOf(n) = Index(n) - 1
    <3>1. \A n \in D : Index(n) \in Nat
      BY <1>2, <1>4
    <3> HIDE DEF s, Index
    <3>2. Len(s.idmap) = 0
      BY <1>6
    <3>3. QED
      BY <1>1, <1>6, <3>1, <3>2
  <2>2. t = [s EXCEPT !.entries = new, !.idmap = s.idmap \o q]
    <3>1. q = SetToSeq({n \in DOMAIN c : s.entries[n].id = NoId})
      BY <1>7
    <3> HIDE DEF s, q
    <3>2. t = LoadedWith(s, c, q)
      BY <3>1, LoadEntriesShape
    <3>3. QED
      BY <3>2 DEF LoadedWith
  <2>3. s.idmap \o q = q
    <3> HIDE DEF s, q
    <3>1. QED
      BY <1>3, <1>6
  <2>4. new = entries
    <3>1. \A n \in D : s.entries[n] = NewEntry
      BY <1>1, <1>6
    <3>2. \A n \in D : [s.entries[n] EXCEPT !.value = c[n], !.flags = TRUE,
                                            !.id = IdOf(n),
                                            !.seq = IncrementSeqnum(@)] = loaded(n)
      <4> HIDE DEF IdOf, s, Index
      <4>1. QED
        BY <2>1, <3>1
    <3> HIDE DEF IdOf, s, loaded, Index
    <3>3. QED
      BY <1>6, <3>2
  <2> HIDE DEF t, s, q, entries, new
  <2>5. QED
    BY <2>2, <2>3, <2>4
<1>10. /\ \A n \in D : /\ loaded(n) \in Entry /\ loaded(n).value = c[n]
                       /\ loaded(n).flags /\ loaded(n).id = Index(n) - 1
       /\ NewEntry.value = NoValue /\ NewEntry.id = NoId /\ ~NewEntry.flags
  <2>1. ASSUME NEW n \in D
        PROVE  /\ loaded(n) \in Entry /\ loaded(n).value = c[n]
               /\ loaded(n).flags /\ loaded(n).id = Index(n) - 1
    <3>1. Index(n) \in 1 .. N
      BY <1>4
    <3> HIDE DEF Index
    <3>2. Index(n) - 1 \in Nat /\ c[n] \in Values
      BY <1>1, <1>2, <3>1
    <3>3. QED
      BY <3>2, LoadedEntry
  <2>2. QED
    BY <2>1 DEF NewEntry
<1> HIDE DEF t, s, q, loaded, Index, D, N
<1>11. entries \in [Names -> Entry] /\ q \in Seq(Names \cup {NoName})
  BY <1>1, <1>2, <1>8, <1>10
<1> HIDE DEF entries
<1>12. t.entries = entries /\ t.idmap = q /\ t.server = s.server
  BY <1>8, <1>9 DEF Store
<1>13. t \in Store /\ t.server
  <2>1. [s EXCEPT !.entries = entries, !.idmap = q] \in Store
    BY <1>8, <1>11 DEF Store
  <2>2. QED
    BY <1>6, <1>9, <1>12, <2>1
<1>14. \A n \in D : c[n] \in Values /\ c[n] # NoValue /\ n \in Names /\ n # NoName
  BY <1>1, StorageAssumption DEF StorageAssumption
<1>15. /\ \A n \in D : t.entries[n] = loaded(n)
       /\ \A n \in Names \ D : t.entries[n] = NewEntry
       /\ t.idmap = q
  BY <1>1, <1>12 DEF entries
<1>16. IdsConsistent(t)
  <2> SUFFICES ASSUME Len(t.idmap) <= NoId
               PROVE  IdsMatchEntries(t) /\ SlotsMatchEntries(t)
    BY DEF IdsConsistent
  <2>1. N <= NoId /\ NoId \in Nat
    BY <1>3, <1>15, StorageAssumption DEF StorageAssumption
  <2>2. \A n \in D : /\ Has(t, n) /\ t.entries[n].id # NoId
                     /\ Known(t, t.entries[n].id)
                     /\ NameOf(t, t.entries[n].id) = n
    <3>1. TAKE n \in D
    <3>2. t.entries[n].id = Index(n) - 1 /\ Has(t, n)
      BY <1>10, <1>14, <1>15 DEF Has
    <3>3. Index(n) \in 1 .. N /\ q[Index(n)] = n
      BY <1>4
    <3>4. /\ Index(n) - 1 # NoId /\ Index(n) - 1 < N
          /\ (Index(n) - 1) + 1 = Index(n)
      BY <1>2, <2>1, <3>3
    <3>5. QED
      BY <1>3, <1>14, <1>15, <3>2, <3>3, <3>4 DEF Known, NameOf
  <2>3. \A n \in Names \ D : ~Has(t, n) /\ t.entries[n].id = NoId
    BY <1>10, <1>15 DEF Has
  <2>4. IdsMatchEntries(t)
    BY <2>2, <2>3 DEF IdsMatchEntries
  <2>5. SlotsMatchEntries(t)
    BY <1>3, <1>5, <1>10, <1>15 DEF SlotsMatchEntries
  <2>6. QED
    BY <2>4, <2>5
<1>17. PersistentEntries(t) = c
  <2>1. {x \in Names : Has(t, x) /\ t.entries[x].flags} = D
    BY <1>1, <1>10, <1>14, <1>15 DEF Has
  <2>2. \A n \in D : t.entries[n].value = c[n]
    BY <1>10, <1>15
  <2>3. PersistentEntries(t) = [n \in D |-> t.entries[n].value]
    BY <2>1 DEF PersistentEntries
  <2>4. c = [n \in D |-> c[n]]
    BY <1>1
  <2>5. QED
    BY <2>2, <2>3, <2>4
<1>18. QED
  BY <1>13, <1>16, <1>17 DEF t, s

\* Whatever is in the file, the server that starts holds what can be read of it.
LEMMA StartedFacts ==
    ASSUME NEW c \in {NoFile, Partial} \cup Contents
    PROVE  /\ Started(c) \in Store /\ Started(c).server
           /\ IdsConsistent(Started(c))
           /\ PersistentEntries(Started(c)) = Read(c)
           /\ Read(PersistentEntries(Started(c))) = Read(c)
  BY ReadFacts, LoadEntriesFacts DEF Started

\* What a client sends is a message.
LEMMA ClientMessagesType ==
    ASSUME NEW s \in Store PROVE ClientMessages(s) \subseteq EntryMsg
<1>1. /\ \A n \in Names : s.entries[n].id \in Nat
                          /\ IncrementSeqnum(s.entries[n].seq) \in SeqNums
      /\ NoId \in Nat /\ 1 \in SeqNums
  BY StoreFields, IncrementSeqnumType, SeqSpaceFacts, StorageAssumption
     DEF StorageAssumption, SeqNums
<1>2. \A n \in Names, id \in Nat, seq \in SeqNums, v \in Values, f \in BOOLEAN :
        EntryAssign(n, id, seq, v, f) \in EntryMsg
  BY DEF EntryAssign, AssignMsg, EntryMsg
<1>3. \A id \in Nat, seq \in SeqNums, v \in Values :
        EntryUpdate(id, seq, v) \in EntryMsg
  BY DEF EntryUpdate, UpdateMsg, EntryMsg
<1>4. \A id \in Nat, f \in BOOLEAN : FlagsUpdate(id, f) \in EntryMsg
  BY DEF FlagsUpdate, FlagsMsg, EntryMsg
<1>5. (\A id \in Nat : EntryDelete(id) \in EntryMsg) /\ ClearEntries \in EntryMsg
  BY DEF EntryDelete, DeleteMsg, ClearEntries, ClearMsg, EntryMsg
<1> DEFINE known == {n \in Names : Has(s, n)}
           Id(n) == s.entries[n].id
           Seq1(n) == IncrementSeqnum(s.entries[n].seq)
           A == {EntryAssign(n, NoId, 1, v, f) :
                    n \in Names, v \in Values, f \in BOOLEAN}
           B == {EntryAssign(n, Id(n), Seq1(n), v, f) :
                    n \in known, v \in Values, f \in BOOLEAN}
           C == {EntryUpdate(Id(n), Seq1(n), v) : n \in known, v \in Values}
           D == {FlagsUpdate(Id(n), f) : n \in known, f \in BOOLEAN}
           E == {EntryDelete(Id(n)) : n \in known}
<1>6. A \subseteq EntryMsg
  BY <1>1, <1>2
<1>7. known \subseteq Names
  OBVIOUS
<1> HIDE DEF known
<1>8. B \subseteq EntryMsg /\ C \subseteq EntryMsg
  BY <1>1, <1>2, <1>3, <1>7
<1>9. D \subseteq EntryMsg /\ E \subseteq EntryMsg
  BY <1>1, <1>4, <1>5, <1>7
<1>10. ClientMessages(s) = UNION {A, B, C, D, E, {ClearEntries}}
  BY DEF ClientMessages, known
<1> HIDE DEF A, B, C, D, E
<1>11. QED
  BY <1>5, <1>6, <1>8, <1>9, <1>10

-----------------------------------------------------------------------------
(* The inductive invariant *)

Files == {NoFile} \cup Contents

TypesAreRight ==
    /\ store \in Store /\ store.server /\ IdsConsistent(store)
    /\ main \in Files /\ bak \in Files /\ snapshot \in Contents
    /\ manual \in Nat /\ faults \in Nat

\* The newest complete save is the file, or the backup while there is no file.
\* A file that is still there when the new one takes its place could not be
\* renamed.
NewestIsSaved ==
    /\ faults <= 1 => saved = IF main = NoFile THEN bak ELSE main
    /\ pc \in {"backup", "replace"} => tmp = snapshot
    /\ pc = "replace" /\ main # NoFile => faults # 0

Saving == {"open", "write", "backup", "replace"}

\* Until the user saves: what the server holds is in the file, or will be
\* when the save that runs is complete, or the flag is set.
NothingForgotten ==
    Len(store.idmap) <= NoId /\ manual = 0 /\ ~dirty =>
        /\ pc = "idle" => Read(main) = Read(PersistentEntries(store))
        /\ pc \in Saving => snapshot = PersistentEntries(store)

PersistenceInv == TypesAreRight /\ NewestIsSaved /\ NothingForgotten

\* A server that starts with a file.
LEMMA InitPersistenceInv == Init => PersistenceInv
<1> SUFFICES ASSUME Init PROVE PersistenceInv
  OBVIOUS
<1>1. saved \in Files /\ main = saved /\ bak = NoFile /\ store = Started(main)
  BY DEF Init, Files
<1>2. /\ store \in Store /\ store.server /\ IdsConsistent(store)
      /\ Read(PersistentEntries(store)) = Read(main)
  BY <1>1, StartedFacts DEF Files
<1>3. TypesAreRight
  BY <1>1, <1>2, ContentsFacts DEF TypesAreRight, Init, Files
<1>4. NewestIsSaved
  BY <1>1 DEF NewestIsSaved, Init
<1>5. NothingForgotten
  BY <1>2 DEF NothingForgotten, Init, Saving
<1>6. QED
  BY <1>3, <1>4, <1>5 DEF PersistenceInv

\* An operation that sets the flag or changes nothing for the file.
LEMMA BecomesKeeps ==
    ASSUME PersistenceInv, NEW r, Becomes(r),
           r.store \in Store, r.store.server, KeepsIds(store, r.store),
           Len(store.idmap) <= NoId => Marked(store, r)
    PROVE  PersistenceInv'
<1>1. /\ store' = r.store /\ (dirty' <=> dirty \/ r.dirty)
      /\ UNCHANGED << main, bak, tmp, pc, snapshot, saved, manual, faults >>
  BY DEF Becomes, files
<1>2. /\ store \in Store /\ IdsConsistent(store)
      /\ Len(store'.idmap) >= Len(store.idmap) /\ IdsConsistent(store')
  BY <1>1 DEF PersistenceInv, TypesAreRight, KeepsIds
<1>3. TypesAreRight'
  BY <1>1, <1>2 DEF PersistenceInv, TypesAreRight, Files
<1>4. NewestIsSaved'
  BY <1>1 DEF PersistenceInv, NewestIsSaved
<1>5. NothingForgotten'
  <2> SUFFICES ASSUME Len(store'.idmap) <= NoId, manual' = 0, ~dirty'
               PROVE  /\ pc = "idle" =>
                           Read(main) = Read(PersistentEntries(store'))
                      /\ pc \in Saving => snapshot = PersistentEntries(store')
    BY <1>1 DEF NothingForgotten
  <2>1. Len(store.idmap) <= NoId
    BY <1>1, <1>2, StoreLen, StorageAssumption DEF StorageAssumption
  <2>2. ~dirty /\ ~r.dirty /\ manual = 0
    BY <1>1
  <2>3. \A n \in Names : SameForFile(store.entries[n], store'.entries[n])
    BY <1>1, <2>1, <2>2 DEF Marked
  <2>4. PersistentEntries(store') = PersistentEntries(store)
    BY <2>3, SameFile
  <2>5. QED
    BY <2>1, <2>2, <2>4 DEF PersistenceInv, NothingForgotten
<1>6. QED
  BY <1>3, <1>4, <1>5 DEF PersistenceInv

\* Every step keeps it.
LEMMA NextPersistenceInv ==
    PersistenceInv /\ [Next]_vars => PersistenceInv'
<1> SUFFICES ASSUME PersistenceInv, [Next]_vars PROVE PersistenceInv'
  OBVIOUS
<1>1. /\ store \in Store /\ store.server /\ IdsConsistent(store)
      /\ main \in Files /\ bak \in Files /\ snapshot \in Contents
      /\ manual \in Nat /\ faults \in Nat
  BY DEF PersistenceInv, TypesAreRight
<1>2. PersistentEntries(store) \in Contents /\ Empty \in Contents
  BY <1>1, PersistentEntriesType, ContentsFacts
<1>3. \A c \in Contents : c # NoFile
  BY FileAssumption DEF FileAssumption
<1>4. CASE LocalOp
  <2>1. PICK r \in UserOperations(store, OpKinds) : Becomes(r)
    BY <1>4 DEF LocalOp
  <2>2. /\ Marked(store, r) /\ r.store \in Store /\ r.store.server
        /\ KeepsIds(store, r.store)
    BY <1>1, UserOperationsMarked
  <2>3. QED
    BY <2>1, <2>2, BecomesKeeps
<1>5. CASE Incoming
  <2>1. PICK m \in ClientMessages(store) : Becomes(ProcessIncoming(store, m))
    BY <1>5 DEF Incoming
  <2> DEFINE r == ProcessIncoming(store, m)
  <2>2. m \in EntryMsg
    BY <1>1, ClientMessagesType
  <2>3. r.store \in Store /\ r.store.server /\ KeepsIds(store, r.store)
    BY <1>1, <2>2, ProcessIncomingType, ProcessIncomingKeepsIds DEF GoodResult
  <2>4. Len(store.idmap) <= NoId => Marked(store, r)
    BY <1>1, <2>2, ProcessIncomingMarked DEF IdsConsistent
  <2> HIDE DEF r
  <2>5. Becomes(r)
    BY <2>1 DEF r
  <2>6. QED
    BY <2>3, <2>4, <2>5, BecomesKeeps
<1>6. CASE PeriodicSave
  <2>1. TypesAreRight'
    BY <1>1, <1>2, <1>6 DEF TypesAreRight, PeriodicSave, files, bounds, Files
  <2>2. NewestIsSaved'
    BY <1>6 DEF PeriodicSave, Goto, files, bounds, PersistenceInv, NewestIsSaved
  <2>3. NothingForgotten'
    BY <1>6 DEF PeriodicSave, Goto, NothingForgotten
  <2>4. QED
    BY <2>1, <2>2, <2>3 DEF PersistenceInv
<1>7. CASE UserSave
  <2>1. manual' = manual + 1 /\ manual' \in Nat /\ manual' # 0
    BY <1>1, <1>7 DEF UserSave
  <2>2. TypesAreRight'
    BY <1>1, <1>7, <2>1 DEF TypesAreRight, UserSave, files, Files
  <2>3. NewestIsSaved'
    BY <1>7 DEF UserSave, files, PersistenceInv, NewestIsSaved
  <2>4. NothingForgotten'
    BY <2>1 DEF NothingForgotten
  <2>5. QED
    BY <2>2, <2>3, <2>4 DEF PersistenceInv
<1>8. CASE OpenTmp \/ WriteTmp \/ WriteFails
  <2>1. UNCHANGED << store, dirty, main, bak, snapshot, saved, manual >>
    BY <1>8 DEF OpenTmp, WriteTmp, WriteFails, bounds, files
  <2>2. /\ pc \in Saving
        /\ pc' \in {"write", "backup", "failed"}
        /\ pc' = "backup" => tmp' = snapshot
    BY <1>8 DEF OpenTmp, WriteTmp, WriteFails, Goto, Saving
  <2>3. faults' \in Nat /\ faults <= faults'
    BY <1>1, <1>8 DEF OpenTmp, WriteTmp, WriteFails, Fails, bounds
  <2>4. TypesAreRight'
    BY <1>1, <2>1, <2>3 DEF TypesAreRight, Files
  <2>5. NewestIsSaved'
    BY <1>1, <2>1, <2>2, <2>3 DEF PersistenceInv, NewestIsSaved
  <2>6. NothingForgotten'
    BY <2>1, <2>2 DEF PersistenceInv, NothingForgotten, Saving
  <2>7. QED
    BY <2>4, <2>5, <2>6 DEF PersistenceInv
<1>9. CASE BackUp
  <2>1. TypesAreRight'
    BY <1>1, <1>9 DEF TypesAreRight, BackUp, bounds, Files
  <2>2. NewestIsSaved'
    BY <1>9 DEF BackUp, Goto, bounds, PersistenceInv, NewestIsSaved
  <2>3. NothingForgotten'
    BY <1>9 DEF BackUp, Goto, bounds, PersistenceInv, NothingForgotten, Saving
  <2>4. QED
    BY <2>1, <2>2, <2>3 DEF PersistenceInv
<1>10. CASE Replace
  <2>1. tmp = snapshot /\ tmp \in Contents /\ tmp # NoFile
    BY <1>1, <1>3, <1>10 DEF Replace, Goto, PersistenceInv, NewestIsSaved
  <2>2. TypesAreRight'
    BY <1>1, <1>2, <1>10, <2>1 DEF TypesAreRight, Replace, bounds, Files
  <2>3. NewestIsSaved'
    BY <1>10, <2>1 DEF Replace, Goto, NewestIsSaved
  <2>4. NothingForgotten'
    BY <1>10, <2>1
       DEF Replace, Goto, bounds, PersistenceInv, NothingForgotten, Saving
  <2>5. QED
    BY <2>2, <2>3, <2>4 DEF PersistenceInv
<1>11. CASE ReplaceFails
  <2>1. faults' = faults + 1 /\ faults' \in Nat
    BY <1>1, <1>11 DEF ReplaceFails, Fails
  <2>2. faults' <= 1 => main = NoFile /\ saved = bak
    BY <1>1, <1>11, <2>1
       DEF ReplaceFails, Goto, PersistenceInv, NewestIsSaved
  <2>3. TypesAreRight'
    BY <1>1, <1>11, <2>1 DEF TypesAreRight, ReplaceFails, Files
  <2>4. NewestIsSaved'
    BY <1>11, <2>2 DEF ReplaceFails, Goto, NewestIsSaved
  <2>5. NothingForgotten'
    BY <1>11 DEF ReplaceFails, Goto, NothingForgotten, Saving
  <2>6. QED
    BY <2>3, <2>4, <2>5 DEF PersistenceInv
<1>12. CASE GiveUp
  <2>1. TypesAreRight'
    BY <1>1, <1>2, <1>12 DEF TypesAreRight, GiveUp, files, bounds, Files
  <2>2. NewestIsSaved'
    BY <1>12 DEF GiveUp, Goto, files, bounds, PersistenceInv, NewestIsSaved
  <2>3. NothingForgotten'
    BY <1>12 DEF GiveUp, NothingForgotten
  <2>4. QED
    BY <2>1, <2>2, <2>3 DEF PersistenceInv
<1>13. CASE Restart
  <2>1. /\ store' = Started(main) /\ pc' = "idle" /\ snapshot' = Empty
        /\ UNCHANGED << main, bak, tmp, saved, manual, faults >>
    BY <1>13 DEF Restart, files
  <2>2. /\ store' \in Store /\ store'.server /\ IdsConsistent(store')
        /\ Read(PersistentEntries(store')) = Read(main)
    BY <1>1, <2>1, StartedFacts DEF Files
  <2>3. TypesAreRight'
    BY <1>1, <1>2, <2>1, <2>2 DEF TypesAreRight, Files
  <2>4. NewestIsSaved'
    BY <2>1 DEF PersistenceInv, NewestIsSaved
  <2>5. NothingForgotten'
    BY <2>1, <2>2 DEF NothingForgotten, Saving
  <2>6. QED
    BY <2>3, <2>4, <2>5 DEF PersistenceInv
<1>14. CASE BackUpFails
  <2>1. faults' = faults + 1 /\ faults' \in Nat
    BY <1>1, <1>14 DEF BackUpFails, Fails
  <2>2. UNCHANGED << store, dirty, main, bak, tmp, snapshot, saved, manual >>
    BY <1>14 DEF BackUpFails, files
  <2>3. pc = "backup" /\ pc' = "replace"
    BY <1>14 DEF BackUpFails, Goto
  <2>4. TypesAreRight'
    BY <1>1, <2>1, <2>2 DEF TypesAreRight, Files
  <2>5. NewestIsSaved'
    BY <1>1, <2>1, <2>2, <2>3 DEF PersistenceInv, NewestIsSaved
  <2>6. NothingForgotten'
    BY <2>2, <2>3 DEF PersistenceInv, NothingForgotten, Saving
  <2>7. QED
    BY <2>4, <2>5, <2>6 DEF PersistenceInv
<1>15. CASE UNCHANGED vars
  <2>1. UNCHANGED << store, dirty, files, pc, snapshot, saved, manual, faults >>
    BY <1>15 DEF vars, bounds, files
  <2>2. TypesAreRight' /\ NewestIsSaved' /\ NothingForgotten'
    BY <2>1 DEF PersistenceInv, TypesAreRight, NewestIsSaved, NothingForgotten,
                Files, Saving, files
  <2>3. QED
    BY <2>2 DEF PersistenceInv
<1>16. QED
  BY <1>4, <1>5, <1>6, <1>7, <1>8, <1>9, <1>10, <1>11, <1>12, <1>13, <1>14,
     <1>15
     DEF Next, SaveStep

\* It holds at all times.
LEMMA PersistenceInvHolds == Spec => []PersistenceInv
<1>1. QED
  BY InitPersistenceInv, NextPersistenceInv, PTL DEF Spec

\* No change of a persistent entry is forgotten: whenever the dispatch thread
\* has nothing to save, the file holds what the server holds, as long as the
\* server has ids left and the user did not save himself.
THEOREM FileStaysCurrent ==
    Spec => [](Len(store.idmap) <= NoId => FileIsCurrent)
<1>1. PersistenceInv => (Len(store.idmap) <= NoId => FileIsCurrent)
  BY DEF PersistenceInv, NothingForgotten, FileIsCurrent
<1>2. QED
  BY <1>1, PersistenceInvHolds, PTL

\* What the last complete save wrote is in the file or in its backup, wherever
\* the process ends, as long as no more than one step of a save has failed.
THEOREM LastSaveAlwaysSurvives ==
    Spec => [](faults <= 1 => LastSaveSurvives)
<1>1. PersistenceInv => (faults <= 1 => LastSaveSurvives)
  BY DEF PersistenceInv, NewestIsSaved, LastSaveSurvives
<1>2. QED
  BY <1>1, PersistenceInvHolds, PTL

=============================================================================
