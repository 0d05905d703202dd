------------------------ MODULE OutgoingQueue_proofs ------------------------
(***************************************************************************)
(* The positions queueOutgoing keeps are right, for any number of names,   *)
(* values and operations.                                                  *)
(***************************************************************************)
EXTENDS OutgoingQueue, Storage_proofs

Slot == EntryMsg \cup {NoMsg}
Pairs == [first: Nat, second: Nat]

QueueType(q) ==
    /\ q = [pending |-> q.pending, update |-> q.update]
    /\ q.pending \in Seq(Slot)
    /\ DOMAIN q.update \subseteq Nat
    /\ q.update \in [DOMAIN q.update -> Pairs]

QueueOK(q) == QueueType(q) /\ RightPositions(q)

\* The inductive invariant.  Besides the queue it needs the types of the
\* sender's store and of the messages on the way, so that what is queued is a
\* message; the receiver is needed because its answers make the sender queue.
IInv ==
    /\ sender \in Store /\ receiver \in Store
    /\ outbox \in Seq(EntryMsg) /\ replies \in Seq(EntryMsg)
    /\ posted \in Seq(Slot)
    /\ QueueOK(queue)

-----------------------------------------------------------------------------
(* The queue *)

\* A knocked out message is no message.
LEMMA NoMsgIsNoMessage == NoMsg \notin EntryMsg
  BY OutgoingQueueAssumption DEF OutgoingQueueAssumption

\* The positions of an id, whether there are any or not.
LEMMA PairOfType ==
    ASSUME NEW q, QueueType(q), NEW id \in Nat
    PROVE  PairOf(q, id) \in Pairs
  BY DEF PairOf, EmptyPair, QueueType, Pairs

\* The position of a pending value or of pending flags is the right one.
LEMMA PairOfIsRight ==
    ASSUME NEW q, QueueOK(q), NEW id \in Nat
    PROVE  /\ PairOf(q, id).first # 0 =>
                PointsAt(q, PairOf(q, id).first, id, {"EntryAssign", "EntryUpdate"})
           /\ PairOf(q, id).second # 0 =>
                PointsAt(q, PairOf(q, id).second, id, {"FlagsUpdate"})
  BY DEF PairOf, EmptyPair, QueueOK, RightPositions

\* Replacing a message by one for the same id and of the same kind.
LEMMA ReplaceOK ==
    ASSUME NEW q, QueueOK(q), NEW m \in EntryMsg, NEW id \in Nat, NEW types,
           types \in {{"EntryAssign", "EntryUpdate"}, {"FlagsUpdate"}},
           NEW k, PointsAt(q, k, id, types), m.id = id, m.type \in types
    PROVE  QueueOK(Replace(q, k, m))
<1> DEFINE r == Replace(q, k, m)
<1>1. k \in DOMAIN q.pending /\ DOMAIN q.pending = 1 .. Len(q.pending)
  BY DEF PointsAt, QueueOK, QueueType
<1>2. /\ r = [pending |-> [q.pending EXCEPT ![k] = m], update |-> q.update]
      /\ r.pending = [q.pending EXCEPT ![k] = m] /\ r.update = q.update
  BY DEF Replace, QueueOK, QueueType
<1>3. r.pending \in Seq(Slot) /\ DOMAIN r.pending = DOMAIN q.pending
  BY <1>1, <1>2 DEF QueueOK, QueueType, Slot
<1>4. QueueType(r)
  BY <1>2, <1>3 DEF QueueOK, QueueType
<1>5. ASSUME NEW j \in Nat, NEW i \in Nat,
             NEW ts \in {{"EntryAssign", "EntryUpdate"}, {"FlagsUpdate"}},
             PointsAt(q, j, i, ts)
      PROVE  PointsAt(r, j, i, ts)
  <2>1. CASE j # k
    BY <1>2, <1>3, <1>5, <2>1 DEF PointsAt
  <2>2. CASE j = k
    <3>1. i = id /\ ts = types
      BY <1>5, <2>2 DEF PointsAt
    <3>2. r.pending[k] = m
      BY <1>1, <1>2
    <3>3. QED
      BY <1>1, <1>3, <2>2, <3>1, <3>2, NoMsgIsNoMessage DEF PointsAt
  <2>3. QED
    BY <2>1, <2>2
<1> HIDE DEF r
<1>6. RightPositions(r)
  <2> SUFFICES ASSUME NEW i \in DOMAIN q.update
               PROVE  LET p == q.update[i]
                      IN  /\ p.first # 0 =>
                               PointsAt(r, p.first, i, {"EntryAssign", "EntryUpdate"})
                          /\ p.second # 0 =>
                               PointsAt(r, p.second, i, {"FlagsUpdate"})
    BY <1>2 DEF RightPositions
  <2>1. i \in Nat /\ q.update[i].first \in Nat /\ q.update[i].second \in Nat
    BY DEF QueueOK, QueueType, Pairs
  <2>2. QED
    BY <1>5, <2>1 DEF QueueOK, RightPositions
<1>7. QED
  BY <1>4, <1>6 DEF QueueOK, r

\* Messages behind the end do not disturb what stands before.
LEMMA PointsAtAppend ==
    ASSUME NEW q, QueueType(q), NEW r, NEW m \in EntryMsg,
           r.pending = Append(q.pending, m),
           NEW k, NEW id, NEW types, PointsAt(q, k, id, types)
    PROVE  PointsAt(r, k, id, types)
  BY DEF PointsAt, QueueType

\* Appending without remembering the position.
LEMMA AppendOnlyOK ==
    ASSUME NEW q, QueueOK(q), NEW m \in EntryMsg
    PROVE  QueueOK(AppendOnly(q, m))
<1> DEFINE r == AppendOnly(q, m)
<1>1. /\ r = [pending |-> Append(q.pending, m), update |-> q.update]
      /\ r.pending = Append(q.pending, m) /\ r.update = q.update
  <2> DEFINE pending == Append(q.pending, m)
  <2>1. q = [pending |-> q.pending, update |-> q.update]
    BY DEF QueueOK, QueueType
  <2>2. r = [q EXCEPT !.pending = pending]
    BY DEF AppendOnly
  <2> HIDE DEF r, pending
  <2>3. /\ r = [pending |-> pending, update |-> q.update]
        /\ r.pending = pending /\ r.update = q.update
    BY <2>1, <2>2
  <2>4. QED
    BY <2>3 DEF pending
<1>2. r.pending \in Seq(Slot)
  BY <1>1 DEF QueueOK, QueueType, Slot
<1>3. QueueType(r)
  BY <1>1, <1>2 DEF QueueOK, QueueType
<1> HIDE DEF r
<1>4. RightPositions(r)
  BY <1>1, PointsAtAppend DEF RightPositions, QueueOK
<1>5. QED
  BY <1>3, <1>4 DEF QueueOK, r

\* Appending and remembering the position.
LEMMA AppendAtOK ==
    ASSUME NEW q, QueueOK(q), NEW m \in EntryMsg, m.id \in Nat, NEW p \in Pairs,
           \/ /\ p = [first |-> Len(q.pending) + 1, second |-> 0]
              /\ m.type \in {"EntryAssign", "EntryUpdate"}
           \/ /\ p = [first |-> 0, second |-> Len(q.pending) + 1]
              /\ m.type \in {"FlagsUpdate"}
    PROVE  QueueOK(AppendAt(q, m, p))
<1> DEFINE r == AppendAt(q, m, p)
<1>1. /\ r = [pending |-> Append(q.pending, m), update |-> SetPair(q.update, m.id, p)]
      /\ r.pending = Append(q.pending, m) /\ r.update = SetPair(q.update, m.id, p)
  BY DEF AppendAt
<1>2. /\ r.pending \in Seq(Slot) /\ Len(q.pending) + 1 \in DOMAIN r.pending
      /\ r.pending[Len(q.pending) + 1] = m
  BY <1>1 DEF QueueOK, QueueType, Slot
<1>3. /\ DOMAIN r.update = DOMAIN q.update \cup {m.id}
      /\ \A i \in DOMAIN q.update \cup {m.id} :
            r.update[i] = IF i = m.id THEN p ELSE q.update[i]
  BY <1>1 DEF SetPair
<1>4. r.update \in [DOMAIN r.update -> Pairs]
  BY <1>1, <1>3 DEF QueueOK, QueueType, SetPair
<1>5. QueueType(r)
  BY <1>1, <1>2, <1>3, <1>4 DEF QueueOK, QueueType
<1> HIDE DEF r
<1>6. ASSUME NEW i \in DOMAIN r.update
      PROVE  LET x == r.update[i]
             IN  /\ x.first # 0 =>
                      PointsAt(r, x.first, i, {"EntryAssign", "EntryUpdate"})
                 /\ x.second # 0 => PointsAt(r, x.second, i, {"FlagsUpdate"})
  <2>1. CASE i = m.id
    <3>1. r.update[i] = p
      BY <1>3, <2>1
    <3>2. QED
      BY <1>2, <2>1, <3>1, NoMsgIsNoMessage DEF PointsAt
  <2>2. CASE i # m.id
    <3>1. r.update[i] = q.update[i] /\ i \in DOMAIN q.update
      BY <1>3, <2>2
    <3>2. QED
      BY <1>1, <3>1, PointsAtAppend DEF QueueOK, RightPositions
  <2>3. QED
    BY <2>1, <2>2
<1>7. RightPositions(r)
  BY <1>6 DEF RightPositions
<1>8. QED
  BY <1>5, <1>7 DEF QueueOK, r

\* What a delete knocks out of the list, and the pair it resets.
LEMMA QueueDeleteOK ==
    ASSUME NEW q, QueueOK(q), NEW m \in EntryMsg, m.id \in Nat
    PROVE  QueueOK(QueueDelete(q, m))
<1> DEFINE p == PairOf(q, m.id)
           kept == [k \in DOMAIN q.pending |->
                       IF k \in {p.first, p.second} THEN NoMsg ELSE q.pending[k]]
           r == QueueDelete(q, m)
           update == [i \in DOMAIN q.update |->
                         IF i = m.id THEN EmptyPair ELSE q.update[i]]
<1>1. r = [pending |-> Append(kept, m), update |-> update]
  BY DEF QueueDelete
<1>2. kept \in Seq(Slot) /\ DOMAIN kept = DOMAIN q.pending
  BY DEF QueueOK, QueueType, Slot
<1>3. EmptyPair \in Pairs
  BY DEF EmptyPair, Pairs
<1>4. /\ update \in [DOMAIN update -> Pairs] /\ DOMAIN update = DOMAIN q.update
      /\ \A i \in DOMAIN update :
            update[i] = IF i = m.id THEN EmptyPair ELSE q.update[i]
  BY <1>3 DEF QueueOK, QueueType
<1>5. \A k \in DOMAIN kept :
         kept[k] = IF k \in {p.first, p.second} THEN NoMsg ELSE q.pending[k]
  BY <1>2
<1> HIDE DEF kept, update, r
<1>6. /\ r.pending = Append(kept, m) /\ r.update = update
      /\ r.pending \in Seq(Slot)
  BY <1>1, <1>2 DEF Slot
<1>7. QueueType(r)
  BY <1>1, <1>4, <1>6 DEF QueueOK, QueueType
<1>8. ASSUME NEW i \in DOMAIN q.update, i # m.id,
             NEW k, NEW types, PointsAt(q, k, i, types)
      PROVE  PointsAt(r, k, i, types)
  <2>1. k \notin {p.first, p.second}
    <3>1. i \in Nat
      BY DEF QueueOK, QueueType
    <3>2. k # 0 /\ q.pending[k].id # m.id
      BY <1>8 DEF PointsAt, QueueOK, QueueType
    <3>3. QED
      BY <3>2, PairOfIsRight DEF PointsAt
  <2>2. k \in DOMAIN kept /\ kept[k] = q.pending[k]
    BY <1>2, <1>5, <1>8, <2>1 DEF PointsAt
  <2>3. r.pending[k] = q.pending[k] /\ k \in DOMAIN r.pending
    BY <1>2, <1>6, <2>2
  <2>4. QED
    BY <1>8, <2>3 DEF PointsAt
<1>9. RightPositions(r)
  <2> SUFFICES ASSUME NEW i \in DOMAIN q.update
               PROVE  LET x == update[i]
                      IN  /\ x.first # 0 =>
                               PointsAt(r, x.first, i, {"EntryAssign", "EntryUpdate"})
                          /\ x.second # 0 =>
                               PointsAt(r, x.second, i, {"FlagsUpdate"})
    BY <1>4, <1>6 DEF RightPositions
  <2>1. CASE i = m.id
    BY <1>4, <2>1 DEF EmptyPair
  <2>2. CASE i # m.id
    <3>1. update[i] = q.update[i]
      BY <1>4, <2>2
    <3>2. QED
      BY <1>8, <2>2, <3>1 DEF QueueOK, RightPositions
  <2>3. QED
    BY <2>1, <2>2
<1>10. QED
  BY <1>7, <1>9 DEF QueueOK, r

\* A clear knocks out everything and forgets all positions.
LEMMA QueueClearOK ==
    ASSUME NEW q, QueueOK(q), NEW m \in EntryMsg
    PROVE  QueueOK(QueueClear(q, m))
<1> DEFINE none == [k \in DOMAIN q.pending |-> NoMsg]
           r == QueueClear(q, m)
<1>1. r = [pending |-> Append(none, m), update |-> << >>]
  BY DEF QueueClear
<1>2. none \in Seq(Slot)
  BY DEF QueueOK, QueueType, Slot
<1> HIDE DEF none, r
<1>3. /\ r.pending = Append(none, m) /\ r.update = << >>
      /\ r.pending \in Seq(Slot)
  BY <1>1, <1>2 DEF Slot
<1>4. DOMAIN r.update = {} /\ r.update \in [{} -> Pairs]
  BY <1>3
<1>5. QED
  BY <1>1, <1>3, <1>4 DEF QueueOK, QueueType, RightPositions, r

\* A value or flags: replaced or remembered.
LEMMA QueueValueOK ==
    ASSUME NEW q, QueueOK(q), NEW m \in AssignMsg \cup UpdateMsg
    PROVE  QueueOK(QueueValue(q, m))
<1> DEFINE at == PairOf(q, m.id).first
<1>1. m \in EntryMsg /\ m.id \in Nat /\ m.type \in {"EntryAssign", "EntryUpdate"}
  BY MsgFields
<1>2. CASE at # 0
  <2>1. PointsAt(q, at, m.id, {"EntryAssign", "EntryUpdate"})
    BY <1>1, <1>2, PairOfIsRight
  <2>2. /\ Merged(q.pending[at], m) \in EntryMsg
        /\ Merged(q.pending[at], m).id = m.id
        /\ Merged(q.pending[at], m).type \in {"EntryAssign", "EntryUpdate"}
    <3>1. q.pending[at] \in EntryMsg
      BY <2>1 DEF PointsAt, QueueOK, QueueType, Slot
    <3>2. CASE q.pending[at].type = "EntryAssign" /\ m.type = "EntryUpdate"
      <4>1. q.pending[at] \in AssignMsg /\ m \in UpdateMsg
        BY <3>1, <3>2, MsgFields DEF EntryMsg
      <4>2. EntryAssign(q.pending[at].name, m.id, m.seq, m.value,
                        q.pending[at].flags) \in AssignMsg
        BY <4>1, MsgFields DEF EntryAssign, AssignMsg
      <4>3. QED
        BY <3>2, <4>2, MsgFields DEF Merged, EntryAssign
    <3>3. CASE ~(q.pending[at].type = "EntryAssign" /\ m.type = "EntryUpdate")
      BY <1>1, <3>3 DEF Merged
    <3>4. QED
      BY <3>2, <3>3
  <2>3. QED
    BY <1>1, <1>2, <2>1, <2>2, ReplaceOK DEF QueueValue
<1>3. CASE at = 0
  <2>1. [first |-> Len(q.pending) + 1, second |-> 0] \in Pairs
    BY DEF QueueOK, QueueType, Pairs
  <2>2. QED
    BY <1>1, <1>3, <2>1, AppendAtOK DEF QueueValue
<1>4. QED
  BY <1>2, <1>3

\* The same for flags.
LEMMA QueueFlagsOK ==
    ASSUME NEW q, QueueOK(q), NEW m \in FlagsMsg
    PROVE  QueueOK(QueueFlags(q, m))
<1> DEFINE at == PairOf(q, m.id).second
<1>1. m \in EntryMsg /\ m.id \in Nat /\ m.type \in {"FlagsUpdate"}
  BY MsgFields
<1>2. CASE at # 0
  BY <1>1, <1>2, PairOfIsRight, ReplaceOK DEF QueueFlags
<1>3. CASE at = 0
  <2>1. [first |-> 0, second |-> Len(q.pending) + 1] \in Pairs
    BY DEF QueueOK, QueueType, Pairs
  <2>2. QED
    BY <1>1, <1>3, <2>1, AppendAtOK DEF QueueFlags
<1>4. QED
  BY <1>2, <1>3

\* Whatever message is queued, the positions stay right.
THEOREM QueueOutgoingOK ==
    ASSUME NEW q, QueueOK(q), NEW m \in EntryMsg
    PROVE  QueueOK(QueueOutgoing(q, m))
<1>1. CASE m \in AssignMsg \cup UpdateMsg
  BY <1>1, MsgFields, QueueValueOK, AppendOnlyOK DEF QueueOutgoing
<1>2. CASE m \in FlagsMsg
  BY <1>2, MsgFields, QueueFlagsOK DEF QueueOutgoing
<1>3. CASE m \in DeleteMsg
  BY <1>3, MsgFields, QueueDeleteOK, AppendOnlyOK DEF QueueOutgoing
<1>4. CASE m \in ClearMsg
  BY <1>4, MsgFields, QueueClearOK DEF QueueOutgoing
<1>5. QED
  BY <1>1, <1>2, <1>3, <1>4 DEF EntryMsg

-----------------------------------------------------------------------------
(* The specification *)

\* What the user's operations return.
LEMMA UserOperationsType ==
    ASSUME NEW s \in Store, NEW ks, NEW r \in UserOperations(s, ks)
    PROVE  r.store \in Store /\ r.out \in Seq(EntryMsg)
<1>1. \/ \E n \in Names, v \in Values :
            r \in {SetDefaultEntryValue(s, n, v), SetEntryValue(s, n, v),
                   SetEntryTypeValue(s, n, v)}
      \/ \E n \in Names, f \in BOOLEAN : r = SetEntryFlags(s, n, f)
      \/ \E n \in Names : r = DeleteEntry(s, n)
      \/ r = DeleteAllEntries(s)
  BY DEF UserOperations
<1>2. CASE \E n \in Names, v \in Values :
              r \in {SetDefaultEntryValue(s, n, v), SetEntryValue(s, n, v),
                     SetEntryTypeValue(s, n, v)}
  <2>1. TRUE \in BOOLEAN
    OBVIOUS
  <2>2. GoodResult(s, r)
    BY <1>2, <2>1, LocalOperationTypes
  <2>3. QED
    BY <2>2 DEF GoodResult
<1>3. CASE \E n \in Names, f \in BOOLEAN : r = SetEntryFlags(s, n, f)
  <2>1. GoodResult(s, r)
    BY <1>3, SetEntryFlagsImplType DEF SetEntryFlags
  <2>2. QED
    BY <2>1 DEF GoodResult
<1>4. CASE \E n \in Names : r = DeleteEntry(s, n)
  <2>1. GoodResult(s, r)
    BY <1>4, DeleteEntryImplType DEF DeleteEntry
  <2>2. QED
    BY <2>1 DEF GoodResult
<1>5. CASE r = DeleteAllEntries(s)
  BY <1>5, DeleteAllEntriesType DEF GoodResult
<1>6. QED
  BY <1>1, <1>2, <1>3, <1>4, <1>5

\* A new connection starts with an empty list and empty stores.
LEMMA InitIInv == Init => IInv
<1> SUFFICES ASSUME Init PROVE IInv
  OBVIOUS
<1>1. \A isServer \in BOOLEAN : NewStore(isServer) \in Store
  BY SeqSpaceFacts, StorageAssumption
     DEF StorageAssumption, NewStore, Store, NewEntry, Entry
<1>2. sender \in Store /\ receiver \in Store
  BY <1>1, OutgoingQueueAssumption DEF Init, OutgoingQueueAssumption
<1>3. QueueOK(EmptyQueue)
  <2>1. EmptyQueue.pending = << >> /\ EmptyQueue.update = << >>
    BY DEF EmptyQueue
  <2>2. DOMAIN EmptyQueue.update = {} /\ EmptyQueue.update \in [{} -> Pairs]
    BY <2>1
  <2>3. EmptyQueue.pending \in Seq(Slot)
    BY <2>1
  <2>4. EmptyQueue = [pending |-> EmptyQueue.pending, update |-> EmptyQueue.update]
    BY DEF EmptyQueue
  <2>5. QED
    BY <2>2, <2>3, <2>4 DEF QueueOK, QueueType, RightPositions
<1>4. QED
  BY <1>2, <1>3 DEF Init, IInv

\* Every step preserves the invariant.
LEMMA NextIInv == IInv /\ [Next]_vars => IInv'
<1> SUFFICES ASSUME IInv, [Next]_vars PROVE IInv'
  OBVIOUS
<1> USE DEF IInv
<1>1. CASE LocalOp
  <2>1. PICK r \in UserOperations(sender, kinds) :
               sender' = r.store /\ outbox' = r.out
    BY <1>1 DEF LocalOp
  <2>2. sender' \in Store /\ outbox' \in Seq(EntryMsg)
    BY <2>1, UserOperationsType
  <2>3. QED
    BY <1>1, <2>2 DEF LocalOp
<1>2. CASE TakeReply
  <2>1. Head(replies) \in EntryMsg /\ Tail(replies) \in Seq(EntryMsg)
    BY <1>2 DEF TakeReply
  <2>2. GoodResult(sender, ProcessIncoming(sender, Head(replies)))
    BY <2>1, ProcessIncomingType
  <2>3. QED
    BY <1>2, <2>1, <2>2 DEF TakeReply, GoodResult
<1>3. CASE Enqueue
  <2>1. Head(outbox) \in EntryMsg /\ Tail(outbox) \in Seq(EntryMsg)
    BY <1>3 DEF Enqueue
  <2>2. QueueOK(queue')
    BY <1>3, <2>1, QueueOutgoingOK DEF Enqueue
  <2>3. QED
    BY <1>3, <2>1, <2>2 DEF Enqueue
<1>4. CASE PostOutgoing
  <2>1. QueueOK(EmptyQueue)
    <3>1. EmptyQueue.pending = << >> /\ EmptyQueue.update = << >>
      BY DEF EmptyQueue
    <3>2. DOMAIN EmptyQueue.update = {} /\ EmptyQueue.update \in [{} -> Pairs]
      BY <3>1
    <3>3. EmptyQueue.pending \in Seq(Slot)
      BY <3>1
    <3>4. EmptyQueue = [pending |-> EmptyQueue.pending, update |-> EmptyQueue.update]
      BY DEF EmptyQueue
    <3>5. QED
      BY <3>2, <3>3, <3>4 DEF QueueOK, QueueType, RightPositions
  <2>2. posted' \in Seq(Slot)
    BY <1>4 DEF PostOutgoing, QueueOK, QueueType
  <2>3. QED
    BY <1>4, <2>1, <2>2 DEF PostOutgoing
<1>5. CASE Receive
  <2>1. Head(posted) \in Slot /\ Tail(posted) \in Seq(Slot)
    BY <1>5 DEF Receive
  <2>2. GoodResult(receiver, Process(receiver, Head(posted)))
    BY <2>1, IgnoredType, ProcessIncomingType DEF Process, Slot
  <2>3. QED
    BY <1>5, <2>1, <2>2 DEF Receive, GoodResult
<1>6. CASE UNCHANGED vars
  BY <1>6 DEF vars
<1>7. QED
  BY <1>1, <1>2, <1>3, <1>4, <1>5, <1>6 DEF Next

\* Merging never indexes outside the pending list nor hits a message of
\* another entry.
THEOREM PositionsStayRight == Spec => []PositionsAreRight
<1>1. IInv => PositionsAreRight
  BY DEF IInv, QueueOK, PositionsAreRight
<1>2. QED
  BY <1>1, InitIInv, NextIInv, PTL DEF Spec

=============================================================================
