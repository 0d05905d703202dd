---------------------------- MODULE StorageLock ----------------------------
(***************************************************************************)
(* How the messages of a storage operation get to the dispatcher.  Every   *)
(* operation is `with self as outgoing: ...`: __enter__ takes the mutex,   *)
(* makes a list and remembers it in an attribute that all threads share;   *)
(* __exit__ releases the mutex and only then reads the attribute and       *)
(* queues what the list holds.                                             *)
(*                                                                         *)
(* A list is identified by the call that made it.  While a thread iterates *)
(* over a list, another thread may still append to it; Python's iteration  *)
(* sees what was appended.                                                 *)
(***************************************************************************)
EXTENDS Naturals, Sequences, FiniteSets

CONSTANTS
    Threads,    \* threads that use the storage: users and read threads
    NoThread,
    MaxCalls,   \* bound: the calls that are made
    MaxMsgs     \* bound: messages one call produces

ASSUME StorageLockAssumption ==
    NoThread \notin Threads /\ MaxCalls \in Nat /\ MaxMsgs \in Nat

Calls == 1 .. MaxCalls

VARIABLES
    mutex,           \* the holder of m_mutex
    pc,
    call,            \* the call each thread executes
    made,            \* the calls that were started
    lists,           \* the outgoing list of every call
    enter_outgoing,  \* the shared attribute: a call
    iter,            \* what __exit__ iterates over, and how far it is
    queued,          \* the messages handed to Dispatcher._queueOutgoing
    overlapped       \* the calls that another call overlapped (a history)

vars == << mutex, pc, call, made, lists, enter_outgoing, iter, queued,
           overlapped >>

NoCall == 0

Init ==
    /\ mutex = NoThread
    /\ pc = [t \in Threads |-> "idle"]
    /\ call = [t \in Threads |-> NoCall]
    /\ made = {}
    /\ lists = [k \in Calls |-> << >>]
    /\ enter_outgoing = NoCall
    /\ iter = [t \in Threads |-> [list |-> NoCall, next |-> 1]]
    /\ queued = << >>
    /\ overlapped = {}

\* A call begins; those that have not returned overlap it.
Begin(t, k) ==
    LET running == {call[u] : u \in {x \in Threads : pc[x] # "idle"}}
    IN  /\ made' = made \cup {k}
        /\ call' = [call EXCEPT ![t] = k]
        /\ overlapped' = overlapped \cup running
                             \cup (IF running = {} THEN {} ELSE {k})

\* Calls are numbered in the order in which they take the mutex.
NextCall == Cardinality(made) + 1

\* Mutant: the list of the first call is used for ever.
EnterKeepingList(t) ==
    /\ pc[t] = "idle" /\ mutex = NoThread /\ made # Calls
    /\ Begin(t, NextCall)
    /\ enter_outgoing' = IF made = {} THEN NextCall ELSE enter_outgoing
    /\ mutex' = t
    /\ pc' = [pc EXCEPT ![t] = "locked"]
    /\ UNCHANGED << lists, iter, queued >>

\* __enter__
Enter(t) ==
    /\ pc[t] = "idle" /\ mutex = NoThread /\ made # Calls
    /\ Begin(t, NextCall)
    /\ enter_outgoing' = NextCall
    /\ mutex' = t
    /\ pc' = [pc EXCEPT ![t] = "locked"]
    /\ UNCHANGED << lists, iter, queued >>

\* The body appends a message to its own list.
AppendMessage(t) ==
    /\ pc[t] = "locked" /\ Len(lists[call[t]]) < MaxMsgs
    /\ lists' = [lists EXCEPT ![call[t]] =
                    Append(@, << call[t], Len(@) + 1 >>)]
    /\ UNCHANGED << mutex, pc, call, made, enter_outgoing, iter, queued,
                    overlapped >>

\* __exit__ releases the mutex ...
Release(t) ==
    /\ pc[t] = "locked"
    /\ mutex' = NoThread
    /\ pc' = [pc EXCEPT ![t] = "released"]
    /\ UNCHANGED << call, made, lists, enter_outgoing, iter, queued, overlapped >>

\* A body that raises queues nothing.  The one that does (ExecuteRpc) has
\* made no message.
Raise(t) ==
    /\ pc[t] = "locked" /\ lists[call[t]] = << >>
    /\ mutex' = NoThread
    /\ pc' = [pc EXCEPT ![t] = "idle"]
    /\ UNCHANGED << call, made, lists, enter_outgoing, iter, queued, overlapped >>

\* ... reads the attribute ...
ReadAttribute(t) ==
    /\ pc[t] = "released"
    /\ iter' = [iter EXCEPT ![t] = [list |-> enter_outgoing, next |-> 1]]
    /\ pc' = [pc EXCEPT ![t] = "queueing"]
    /\ UNCHANGED << mutex, call, made, lists, enter_outgoing, queued, overlapped >>

\* ... and queues the messages of the list it found.
QueueOne(t) ==
    LET list == lists[iter[t].list]
    IN  /\ pc[t] = "queueing" /\ iter[t].next <= Len(list)
        /\ queued' = Append(queued, list[iter[t].next])
        /\ iter' = [iter EXCEPT ![t].next = @ + 1]
        /\ UNCHANGED << mutex, pc, call, made, lists, enter_outgoing, overlapped >>

Return(t) ==
    /\ pc[t] = "queueing" /\ iter[t].next > Len(lists[iter[t].list])
    /\ pc' = [pc EXCEPT ![t] = "idle"]
    /\ UNCHANGED << mutex, call, made, lists, enter_outgoing, iter, queued,
                    overlapped >>

Next == \E t \in Threads :
    \/ Enter(t) \/ AppendMessage(t) \/ Release(t) \/ Raise(t)
    \/ ReadAttribute(t) \/ QueueOne(t) \/ Return(t)

Spec == Init /\ [][Next]_vars

-----------------------------------------------------------------------------
AllReturned == \A t \in Threads : pc[t] = "idle"

TimesQueued(m) == Cardinality({j \in DOMAIN queued : queued[j] = m})

\* Once all operations have returned, each message was queued exactly once
\* (tests/test_storage.py: after one setEntryTypeValue,
\* `dispatcher._queueOutgoing.call_count == 1`).
QueuedExactlyOnce ==
    AllReturned => \A k \in made : \A i \in DOMAIN lists[k] :
        TimesQueued(lists[k][i]) = 1

\* That much holds of a call that no other call overlaps, even after other
\* threads raced (__enter__ makes a list of its own for every call).
QueuedOnceUnlessOverlapped ==
    AllReturned => \A k \in made \ overlapped : \A i \in DOMAIN lists[k] :
        TimesQueued(lists[k][i]) = 1

\* Of the calls that overlap, the last one to take the lock loses nothing:
\* what the race drops are messages of earlier calls.
LastCallIsQueued ==
    AllReturned => \A k \in made : (\A j \in made : j <= k) =>
        \A i \in DOMAIN lists[k] : TimesQueued(lists[k][i]) >= 1
=============================================================================
