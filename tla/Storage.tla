------------------------------ MODULE Storage ------------------------------
(***************************************************************************)
(* The entry store of one NetworkTables node (storage.py).  A store is a   *)
(* record: `entries` maps every name to its entry, `idmap` is the list     *)
(* that turns the id of a network message into an entry, and `server` is   *)
(* m_server.  Every operation of the class is an operator from a store to  *)
(* a Result: the store it leaves, the messages it hands to the dispatcher, *)
(* and what it does to the persistent-dirty flag.  The modules that extend *)
(* this one decide when the operations run and what becomes of the         *)
(* messages.                                                               *)
(*                                                                         *)
(* An entry that was never created and one that was deleted are alike to   *)
(* every operation (both have value None), except that a deleted one keeps *)
(* its sequence number and sometimes its flags; so the map is total.       *)
(* flags is the NT_PERSISTENT bit, the only flag there is; isPersistent    *)
(* always repeats it.  Both ends speak protocol 3.0.                       *)
(***************************************************************************)
EXTENDS SeqNum, Sequences, FiniteSets

CONSTANTS
    Names,      \* entry names
    Values,     \* values an entry can be given
    TypeOf,     \* the NT_* type of each value
    NoValue,    \* None
    NoName,     \* an empty slot of the id map
    NoId        \* 0xFFFF: "no id assigned"

ASSUME StorageAssumption ==
    /\ NoValue \notin Values
    /\ NoName \notin Names
    /\ NoId \in Nat

\* An id is what fits the id field: every id is at most NoId = 0xFFFF as long
\* as the server has not handed out all of them.
Entry == [value: Values \cup {NoValue}, flags: BOOLEAN, id: Nat,
          seq: SeqNums, localWrite: BOOLEAN]

Store == [entries: [Names -> Entry], idmap: Seq(Names \cup {NoName}),
          server: BOOLEAN]

NewEntry == [value |-> NoValue, flags |-> FALSE, id |-> NoId,
             seq |-> 0, localWrite |-> FALSE]

NewStore(isServer) ==
    [entries |-> [n \in Names |-> NewEntry], idmap |-> << >>,
     server |-> isServer]

-----------------------------------------------------------------------------
(* Messages (message.py) *)

EntryAssign(n, id, seq, v, flags) ==
    [type |-> "EntryAssign", name |-> n, id |-> id, seq |-> seq,
     value |-> v, flags |-> flags]
EntryUpdate(id, seq, v) ==
    [type |-> "EntryUpdate", id |-> id, seq |-> seq, value |-> v]
FlagsUpdate(id, flags) == [type |-> "FlagsUpdate", id |-> id, flags |-> flags]
EntryDelete(id) == [type |-> "EntryDelete", id |-> id]
ClearEntries == [type |-> "ClearEntries"]

AssignMsg == [type: {"EntryAssign"}, name: Names, id: Nat, seq: SeqNums,
              value: Values, flags: BOOLEAN]
UpdateMsg == [type: {"EntryUpdate"}, id: Nat, seq: SeqNums, value: Values]
FlagsMsg  == [type: {"FlagsUpdate"}, id: Nat, flags: BOOLEAN]
DeleteMsg == [type: {"EntryDelete"}, id: Nat]
ClearMsg  == [type: {"ClearEntries"}]

EntryMsg == AssignMsg \cup UpdateMsg \cup FlagsMsg \cup DeleteMsg \cup ClearMsg

\* The initial assignments of a handshake.
Snapshots == {msgs \in SUBSET AssignMsg : IsFiniteSet(msgs)}

\* What an operation returns.  toSender is FALSE when the messages skip the
\* connection the incoming message came from; it means nothing for a local
\* operation.
Result(s, out, toSender, dirty) ==
    [store |-> s, out |-> out, toSender |-> toSender, dirty |-> dirty]

Ignored(s) == Result(s, << >>, TRUE, FALSE)

-----------------------------------------------------------------------------
(* The id map *)

Has(s, n) == s.entries[n].value # NoValue

\* What `msg_id >= len(idmap) or not idmap[msg_id]` rejects.
Known(s, id) == id < Len(s.idmap) /\ s.idmap[id + 1] # NoName

NameOf(s, id) == s.idmap[id + 1]

\* The store with another entry under a name, and with another id map.
Put(s, n, e) == [s EXCEPT !.entries[n] = e]
PutIds(s, n, e, idmap) == [s EXCEPT !.entries[n] = e, !.idmap = idmap]

\* Mutant: the map is extended but the entry lands one slot early.
WithSlotOffByOne(idmap, id, n) ==
    [k \in 1 .. (IF id < Len(idmap) THEN Len(idmap) ELSE id + 1) |->
        IF k = (IF id = 0 THEN 1 ELSE id) THEN n
        ELSE IF k <= Len(idmap) THEN idmap[k] ELSE NoName]

\* ensure_id_exists followed by the assignment of slot id.
WithSlot(idmap, id, n) ==
    [k \in 1 .. (IF id < Len(idmap) THEN Len(idmap) ELSE id + 1) |->
        IF k = id + 1 THEN n
        ELSE IF k <= Len(idmap) THEN idmap[k] ELSE NoName]

\* Mutant: a deleted entry stays in the id map.
WithoutSlotKept(idmap, id) == idmap

\* Empties the slot of an id that is inside the list.
WithoutSlot(idmap, id) ==
    [k \in DOMAIN idmap |-> IF k = id + 1 THEN NoName ELSE idmap[k]]

-----------------------------------------------------------------------------
(* Local operations *)

\* _setEntryValueImpl: a server gives the entry an id, a local write raises
\* the sequence number when the value changes, and what is announced is an
\* assignment for a new entry or a new type and an update otherwise - but a
\* client says nothing about an entry that still waits for its id.
SetEntryValueImpl(s, n, v, local) ==
    LET e       == s.entries[n]
        newId   == s.server /\ e.id = NoId
        id      == IF newId THEN Len(s.idmap) ELSE e.id
        changed == e.value # v
        seq     == IF local /\ changed THEN IncrementSeqnum(e.seq) ELSE e.seq
        retyped == e.value = NoValue \/ TypeOf[e.value] # TypeOf[v]
        out     == CASE ~(local \/ s.server) \/ ~changed -> << >>
                     [] changed /\ (local \/ s.server) /\ retyped ->
                            << EntryAssign(n, id, seq, v, e.flags) >>
                     [] OTHER -> IF id = NoId THEN << >>
                                 ELSE << EntryUpdate(id, seq, v) >>
    IN  Result(PutIds(s, n, [value |-> v, flags |-> e.flags, id |-> id,
                             seq |-> seq, localWrite |-> e.localWrite \/ local],
                      IF newId THEN Append(s.idmap, n) ELSE s.idmap),
               out, TRUE, e.flags /\ changed)

SetDefaultEntryValue(s, n, v) ==
    IF Has(s, n) THEN Ignored(s) ELSE SetEntryValueImpl(s, n, v, TRUE)

\* setEntryValue refuses to change the type of an entry.
SetEntryValue(s, n, v) ==
    IF Has(s, n) /\ TypeOf[s.entries[n].value] # TypeOf[v]
    THEN Ignored(s) ELSE SetEntryValueImpl(s, n, v, TRUE)

SetEntryTypeValue(s, n, v) == SetEntryValueImpl(s, n, v, TRUE)

SetEntryFlagsImpl(s, n, flags, local) ==
    LET e == s.entries[n]
    IN  IF e.value = NoValue \/ e.flags = flags THEN Ignored(s)
        ELSE Result(Put(s, n, [e EXCEPT !.flags = flags]),
                    IF local /\ e.id # NoId
                    THEN << FlagsUpdate(e.id, flags) >> ELSE << >>,
                    TRUE, TRUE)

SetEntryFlags(s, n, flags) == SetEntryFlagsImpl(s, n, flags, TRUE)

DeleteEntryImpl(s, n, local) ==
    LET e == s.entries[n]
    IN  Result(PutIds(s, n, [NewEntry EXCEPT !.seq = e.seq],
                      WithoutSlot(s.idmap, e.id)),
               IF Has(s, n) /\ local /\ e.id # NoId
               THEN << EntryDelete(e.id) >> ELSE << >>,
               TRUE, e.flags)

DeleteEntry(s, n) == DeleteEntryImpl(s, n, TRUE)

\* _deleteAllEntriesImpl on the names that its predicate picked.  Unlike
\* DeleteEntryImpl it leaves the flags behind and does not touch the dirty
\* flag.
DeleteEntries(s, doomed) ==
    [s EXCEPT
       !.entries = [n \in Names |->
            IF n \in doomed
            THEN [@[n] EXCEPT !.value = NoValue, !.id = NoId,
                              !.localWrite = FALSE]
            ELSE @[n]],
       !.idmap = [k \in DOMAIN @ |->
            IF \E n \in doomed : s.entries[n].id = k - 1
            THEN NoName ELSE @[k]]]

\* The default predicate spares persistent entries.
Deletable(s) == {n \in Names : Has(s, n) /\ ~s.entries[n].flags}

DeleteAllEntries(s) ==
    Result(DeleteEntries(s, Deletable(s)),
           IF Deletable(s) = {} THEN << >> ELSE << ClearEntries >>,
           TRUE, FALSE)

OpKinds == {"write", "flags", "delete", "clear"}

\* What the user calls of some kinds can return.
UserOperations(s, kinds) ==
    UNION { IF "write" \notin kinds THEN {} ELSE
                UNION {{SetDefaultEntryValue(s, n, v), SetEntryValue(s, n, v),
                        SetEntryTypeValue(s, n, v)} : n \in Names, v \in Values},
            IF "flags" \notin kinds THEN {} ELSE
                {SetEntryFlags(s, n, f) : n \in Names, f \in BOOLEAN},
            IF "delete" \notin kinds THEN {} ELSE
                {DeleteEntry(s, n) : n \in Names},
            IF "clear" \notin kinds THEN {} ELSE {DeleteAllEntries(s)} }

-----------------------------------------------------------------------------
(* Incoming messages *)

\* The server is asked for an id.  The first request for a name wins; the
\* assignment goes to every connection, the sender's too.
ProcessIdRequest(s, m) ==
    LET e == s.entries[m.name]
    IN  IF e.id # NoId THEN Ignored(s)
        ELSE SetEntryValueImpl(
               Put(s, m.name, [e EXCEPT !.flags = m.flags, !.seq = m.seq]),
               m.name, m.value, FALSE)

\* Mutants of ProcessNewAssignment: the client does not send what is newer
\* here, value or flags; it takes every value.
NewAssignmentUnanswered(s, m) ==
    LET e     == s.entries[m.name]
        newer == e.value # NoValue /\ IsSeqNewerThan(e.seq, m.seq)
    IN  Result(PutIds(s, m.name,
                      [e EXCEPT !.id = m.id,
                                !.value = IF newer THEN @ ELSE m.value,
                                !.seq   = IF newer THEN @ ELSE m.seq],
                      WithSlot(s.idmap, m.id, m.name)),
               << >>, TRUE, FALSE)

NewAssignmentTaken(s, m) ==
    Result(PutIds(s, m.name, [s.entries[m.name] EXCEPT
                                 !.id = m.id, !.value = m.value, !.seq = m.seq],
                  WithSlot(s.idmap, m.id, m.name)),
           << >>, TRUE, FALSE)

\* A client learns the id of a name.  If it has a value of its own, that one
\* was written here: its flags stand and are sent, and so is the value when
\* it is newer than the assignment.
ProcessNewAssignment(s, m) ==
    LET e      == s.entries[m.name]
        own    == [e EXCEPT !.id = m.id]
        taken  == [own EXCEPT !.value = m.value, !.seq = m.seq]
        new(x) == PutIds(s, m.name, x, WithSlot(s.idmap, m.id, m.name))
        reflag == IF m.flags # e.flags
                  THEN << FlagsUpdate(m.id, e.flags) >> ELSE << >>
    IN  CASE e.value = NoValue ->
               Result(new([taken EXCEPT !.flags = m.flags]), << >>, TRUE, FALSE)
          [] e.value # NoValue /\ IsSeqNewerThan(e.seq, m.seq) ->
               Result(new(own),
                      Append(reflag, EntryUpdate(m.id, e.seq, e.value)),
                      TRUE, FALSE)
          [] OTHER ->
               Result(new(taken), reflag, TRUE, e.flags /\ e.value # m.value)

\* An assignment to an entry whose id is known, on either side: taken unless
\* the local one is newer, and passed on by the server.
ProcessAssignment(s, m) ==
    LET n == NameOf(s, m.id)
        e == s.entries[n]
    IN  IF IsSeqNewerThan(e.seq, m.seq) \/ m.name # n THEN Ignored(s)
        ELSE Result(Put(s, n, [e EXCEPT !.value = m.value, !.flags = m.flags,
                                        !.seq = m.seq]),
                    IF s.server THEN << m >> ELSE << >>, FALSE,
                    e.flags # m.flags \/ (m.flags /\ e.value # m.value))

ProcessEntryAssign(s, m) ==
    CASE m.id = NoId -> IF s.server THEN ProcessIdRequest(s, m) ELSE Ignored(s)
      [] m.id # NoId /\ Known(s, m.id) -> ProcessAssignment(s, m)
      [] OTHER -> IF s.server THEN Ignored(s) ELSE ProcessNewAssignment(s, m)

\* Mutant: the sequence number of an update is not looked at.
ProcessAnyUpdate(s, m) ==
    IF ~Known(s, m.id) THEN Ignored(s)
    ELSE Result(Put(s, NameOf(s, m.id),
                    [s.entries[NameOf(s, m.id)] EXCEPT !.value = m.value,
                                                       !.seq = m.seq]),
                IF s.server THEN << m >> ELSE << >>, FALSE, FALSE)

ProcessEntryUpdate(s, m) ==
    LET n == NameOf(s, m.id)
        e == s.entries[n]
    IN  IF ~Known(s, m.id) \/ IsSeqNewerOrEqual(e.seq, m.seq) THEN Ignored(s)
        ELSE Result(Put(s, n, [e EXCEPT !.value = m.value, !.seq = m.seq]),
                    IF s.server THEN << m >> ELSE << >>, FALSE, e.flags)

\* What the server received it passes on, unless the message was ignored for
\* an unknown id.
PassOn(s, r, m) ==
    Result(r.store, IF s.server THEN << m >> ELSE << >>, FALSE, r.dirty)

ProcessFlagsUpdate(s, m) ==
    IF ~Known(s, m.id) THEN Ignored(s)
    ELSE PassOn(s, SetEntryFlagsImpl(s, NameOf(s, m.id), m.flags, FALSE), m)

ProcessEntryDelete(s, m) ==
    IF ~Known(s, m.id) THEN Ignored(s)
    ELSE PassOn(s, DeleteEntryImpl(s, NameOf(s, m.id), FALSE), m)

ProcessClearEntries(s, m) ==
    PassOn(s, Result(DeleteEntries(s, Deletable(s)), << >>, TRUE, FALSE), m)

ProcessIncoming(s, m) ==
    CASE m.type = "EntryAssign"  -> ProcessEntryAssign(s, m)
      [] m.type = "EntryUpdate"  -> ProcessEntryUpdate(s, m)
      [] m.type = "FlagsUpdate"  -> ProcessFlagsUpdate(s, m)
      [] m.type = "EntryDelete"  -> ProcessEntryDelete(s, m)
      [] m.type = "ClearEntries" -> ProcessClearEntries(s, m)
      [] OTHER -> Ignored(s)

-----------------------------------------------------------------------------
(* The initial handshake *)

\* Mutant: the snapshot holds deleted entries, too.
SnapshotOfAll(s) ==
    {EntryAssign(n, s.entries[n].id, s.entries[n].seq, s.entries[n].value,
                 s.entries[n].flags) : n \in Names}

\* getInitialAssignments: the server's snapshot.
GetInitialAssignments(s) ==
    {EntryAssign(n, s.entries[n].id, s.entries[n].seq, s.entries[n].value,
                 s.entries[n].flags) : n \in {x \in Names : Has(s, x)}}

\* applyInitialAssignments: the client forgets its ids and takes the server's
\* entries, but keeps a value it wrote itself (unless the entry is persistent)
\* under a sequence number one above the server's.  Of the entries the server
\* does not have it keeps those it wrote itself.
Assigned(msgs) == {m.name : m \in {x \in msgs : x.id # NoId}}

AssignmentOf(msgs, n) == CHOOSE m \in msgs : m.name = n /\ m.id # NoId

KeepsOwn(e) == e.value # NoValue /\ e.localWrite /\ ~e.flags

EntryAfterHandshake(e, m) ==
    IF KeepsOwn(e)
    THEN [e EXCEPT !.id = m.id, !.seq = IncrementSeqnum(m.seq)]
    ELSE [e EXCEPT !.id = m.id, !.seq = m.seq, !.value = m.value,
                   !.flags = m.flags]

EntryUnknownToServer(e) ==
    IF e.localWrite THEN [e EXCEPT !.id = NoId]
    ELSE [e EXCEPT !.id = NoId, !.value = NoValue]

\* Mutant: the ids of the previous server survive.
ApplyWithoutClearing(s, msgs) ==
    [s EXCEPT !.entries = [n \in Names |->
                IF n \in Assigned(msgs)
                THEN EntryAfterHandshake(@[n], AssignmentOf(msgs, n))
                ELSE @[n]]]

\* The indices of an id map that has room for the ids of the messages.
Indices(msgs) == UNION {0 .. m.id : m \in {x \in msgs : x.id # NoId}}

\* The id map those messages build, from an empty one.
IdMapOf(msgs) ==
    [k \in 1 .. Cardinality(Indices(msgs)) |->
        IF \E n \in Assigned(msgs) : AssignmentOf(msgs, n).id = k - 1
        THEN CHOOSE n \in Assigned(msgs) : AssignmentOf(msgs, n).id = k - 1
        ELSE NoName]

ApplyInitialAssignments(s, msgs) ==
    [s EXCEPT !.entries = [n \in Names |->
                IF n \in Assigned(msgs)
                THEN EntryAfterHandshake(@[n], AssignmentOf(msgs, n))
                ELSE EntryUnknownToServer(@[n])],
              !.idmap = IdMapOf(msgs)]

\* The requests the client sends before CLIENT_HELLO_DONE, for entries the
\* server does not have.
InitialRequests(s, msgs) ==
    {EntryAssign(n, NoId, s.entries[n].seq, s.entries[n].value,
                 s.entries[n].flags) :
        n \in {x \in Names \ Assigned(msgs) :
                   Has(s, x) /\ s.entries[x].localWrite}}

\* The updates it queues for the values of its own that it kept.
InitialUpdates(s, msgs) ==
    {EntryUpdate(AssignmentOf(msgs, n).id,
                 IncrementSeqnum(AssignmentOf(msgs, n).seq),
                 s.entries[n].value) :
        n \in {x \in Assigned(msgs) : KeepsOwn(s.entries[x])}}

-----------------------------------------------------------------------------
(* What a server's store is meant to keep: it has an id for exactly the     *)
(* entries that have a value, and the id map leads from the id back to the  *)
(* entry and nowhere else.  The last id is 0xFFFF itself, so this ends when *)
(* the server has handed out all of them.                                   *)

IdsMatchEntries(s) ==
    \A n \in Names :
        /\ Has(s, n) <=> s.entries[n].id # NoId
        /\ Has(s, n) => /\ Known(s, s.entries[n].id)
                        /\ NameOf(s, s.entries[n].id) = n

SlotsMatchEntries(s) ==
    \A k \in 1 .. Len(s.idmap) :
        s.idmap[k] # NoName => s.entries[s.idmap[k]].id = k - 1

IdsConsistent(s) ==
    Len(s.idmap) <= NoId => IdsMatchEntries(s) /\ SlotsMatchEntries(s)

=============================================================================
