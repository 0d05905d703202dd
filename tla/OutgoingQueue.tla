--------------------------- MODULE OutgoingQueue ---------------------------
(***************************************************************************)
(* The pending list of a connection (NetworkConnection.queueOutgoing and   *)
(* postOutgoing).  Messages wait there until the dispatch thread posts     *)
(* them; meanwhile a newer value or newer flags replace the older message  *)
(* for the same id, a delete takes the messages it makes pointless with    *)
(* it, and a clear takes everything.                                       *)
(*                                                                         *)
(* Only the user of one end of the connection, the sender, changes values, *)
(* so that the stores of the two ends do not differ for other reasons; the *)
(* receiver's answers come back to it.                                     *)
(***************************************************************************)
EXTENDS Storage, SequencesExt

CONSTANTS
    NoMsg,       \* a message that was knocked out of the list (None)
    SenderRoles, \* {TRUE}: the sender is the server, {FALSE}: a client
    OpSets,      \* sets of the kinds of operation the sender's user performs
    MaxOps       \* bound: operations in a behaviour

ASSUME OutgoingQueueAssumption ==
    /\ NoMsg \notin EntryMsg
    /\ SenderRoles \subseteq BOOLEAN
    /\ OpSets \subseteq SUBSET OpKinds
    /\ MaxOps \in Nat

VARIABLES
    sender,     \* the store of the node that queues
    outbox,     \* what its last operation has still to queue
    queue,      \* the pending list
    plain,      \* what a list that merges nothing would hold
    posted,     \* what the write thread and the stream hold
    receiver,   \* the store at the other end
    replies,    \* its answers on their way to the sender
    kinds, ops

vars == << sender, outbox, queue, plain, posted, receiver, replies, kinds, ops >>

-----------------------------------------------------------------------------
(* queueOutgoing.  A queue is m_pending_outgoing and m_pending_update, which *)
(* has for an id the position of the pending assignment or update (first)  *)
(* and of the pending flags (second), 0 if there is none.                  *)

EmptyPair == [first |-> 0, second |-> 0]

EmptyQueue == [pending |-> << >>, update |-> << >>]

PairOf(q, id) == IF id \in DOMAIN q.update THEN q.update[id] ELSE EmptyPair

\* The positions of an id become p.
SetPair(update, id, p) ==
    [i \in DOMAIN update \cup {id} |-> IF i = id THEN p ELSE update[i]]

Replace(q, k, m) == [q EXCEPT !.pending[k] = m]

AppendOnly(q, m) == [q EXCEPT !.pending = Append(@, m)]

AppendAt(q, m, p) ==
    [pending |-> Append(q.pending, m), update |-> SetPair(q.update, m.id, p)]

\* An update that meets its assignment is folded into it.
Merged(older, m) ==
    IF older.type = "EntryAssign" /\ m.type = "EntryUpdate"
    THEN EntryAssign(older.name, m.id, m.seq, m.value, older.flags)
    ELSE m

\* Mutant: the update replaces its assignment.
QueueValueOver(q, m) ==
    LET at == PairOf(q, m.id).first
    IN  IF at # 0 THEN Replace(q, at, m)
        ELSE AppendAt(q, m, [first |-> Len(q.pending) + 1, second |-> 0])

QueueValue(q, m) ==
    LET at == PairOf(q, m.id).first
    IN  IF at # 0 THEN Replace(q, at, Merged(q.pending[at], m))
        ELSE AppendAt(q, m, [first |-> Len(q.pending) + 1, second |-> 0])

QueueFlags(q, m) ==
    LET at == PairOf(q, m.id).second
    IN  IF at # 0 THEN Replace(q, at, m)
        ELSE AppendAt(q, m, [first |-> 0, second |-> Len(q.pending) + 1])

\* Mutant: the positions outlive the messages.
QueueDeleteKeepingPair(q, m) ==
    LET p == PairOf(q, m.id)
    IN  [q EXCEPT !.pending = Append(
            [k \in DOMAIN @ |-> IF k \in {p.first, p.second} THEN NoMsg ELSE @[k]],
            m)]

QueueDelete(q, m) ==
    LET p == PairOf(q, m.id)
    IN  [pending |-> Append(
            [k \in DOMAIN q.pending |->
                IF k \in {p.first, p.second} THEN NoMsg ELSE q.pending[k]], m),
         update  |-> [i \in DOMAIN q.update |->
                IF i = m.id THEN EmptyPair ELSE q.update[i]]]

QueueClear(q, m) ==
    [pending |-> Append([k \in DOMAIN q.pending |-> NoMsg], m),
     update  |-> << >>]

\* An assignment or a delete without an id is not merged.
QueueOutgoing(q, m) ==
    CASE m.type \in {"EntryAssign", "EntryUpdate"} /\ m.id # NoId ->
             QueueValue(q, m)
      [] m.type = "EntryDelete" /\ m.id # NoId -> QueueDelete(q, m)
      [] m.type = "FlagsUpdate"  -> QueueFlags(q, m)
      [] m.type = "ClearEntries" -> QueueClear(q, m)
      [] OTHER -> AppendOnly(q, m)

-----------------------------------------------------------------------------
Init ==
    /\ \E isServer \in SenderRoles :
         sender = NewStore(isServer) /\ receiver = NewStore(~isServer)
    /\ kinds \in OpSets
    /\ queue = EmptyQueue
    /\ outbox = << >> /\ plain = << >> /\ posted = << >> /\ replies = << >>
    /\ ops = 0

\* An operation of the user, and the processing of an answer: the messages
\* are queued one by one after the store is unlocked.
LocalOp ==
    /\ ops < MaxOps /\ outbox = << >>
    /\ ops' = ops + 1
    /\ \E r \in UserOperations(sender, kinds) :
        r.store # sender /\ sender' = r.store /\ outbox' = r.out
    /\ UNCHANGED << queue, plain, posted, receiver, replies, kinds >>

TakeReply ==
    /\ replies # << >> /\ outbox = << >>
    /\ LET r == ProcessIncoming(sender, Head(replies))
       IN  sender' = r.store /\ outbox' = r.out
    /\ replies' = Tail(replies)
    /\ UNCHANGED << queue, plain, posted, receiver, kinds, ops >>

Enqueue ==
    /\ outbox # << >>
    /\ queue'  = QueueOutgoing(queue, Head(outbox))
    /\ plain'  = Append(plain, Head(outbox))
    /\ outbox' = Tail(outbox)
    /\ UNCHANGED << sender, posted, receiver, replies, kinds, ops >>

PostOutgoing ==
    /\ queue.pending # << >>
    /\ posted' = posted \o queue.pending
    /\ queue' = EmptyQueue
    /\ plain' = << >>
    /\ UNCHANGED << sender, outbox, receiver, replies, kinds, ops >>

\* The write thread skips what was knocked out.
Process(s, m) == IF m = NoMsg THEN Ignored(s) ELSE ProcessIncoming(s, m)

Receive ==
    /\ posted # << >>
    /\ LET r == Process(receiver, Head(posted))
       IN  /\ receiver' = r.store
           /\ replies' = IF r.toSender THEN replies \o r.out ELSE replies
    /\ posted' = Tail(posted)
    /\ UNCHANGED << sender, outbox, queue, plain, kinds, ops >>

Next == LocalOp \/ TakeReply \/ Enqueue \/ PostOutgoing \/ Receive

Spec == Init /\ [][Next]_vars

-----------------------------------------------------------------------------
(* Properties *)

\* The entries of a store, but for the ids: of an entry that was deleted and
\* made again before it was sent, a receiving server never sees the first life.
View(s) ==
    [n \in {x \in Names : Has(s, x)} |->
        << s.entries[n].value, s.entries[n].flags, s.entries[n].seq >>]

\* The receiver's store when it has processed some messages.
Deliver(msgs) == FoldLeft(LAMBDA s, m : Process(s, m).store, receiver, msgs)

\* Whenever the list is posted, the receiver ends with the entries it would
\* have if every message had been sent as it was queued.
MergingIsInvisible ==
    View(Deliver(posted \o queue.pending)) = View(Deliver(posted \o plain))

\* The positions kept for an id are those of live messages for that id, of the
\* right kind: merging never indexes outside the list nor hits a message of
\* another entry (queueOutgoing).
PointsAt(q, k, id, types) ==
    /\ k \in DOMAIN q.pending /\ q.pending[k] # NoMsg
    /\ q.pending[k].type \in types /\ q.pending[k].id = id

RightPositions(q) ==
    \A id \in DOMAIN q.update :
        LET p == q.update[id]
        IN  /\ p.first # 0 =>
                 PointsAt(q, p.first, id, {"EntryAssign", "EntryUpdate"})
            /\ p.second # 0 => PointsAt(q, p.second, id, {"FlagsUpdate"})

PositionsAreRight == RightPositions(queue)

\* A clear does not take a persistent value from the other nodes: after the
\* list is posted they have it as the sender has it ("Deletes ALL keys in ALL
\* subtables (except persistent values)", instance.py).
ClearSparesPersistent ==
    outbox = << >> => \A n \in Names : Has(sender, n) /\ sender.entries[n].flags =>
        Deliver(posted \o queue.pending).entries[n].value = sender.entries[n].value
=============================================================================
