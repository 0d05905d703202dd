------------------------------ MODULE Notifier ------------------------------
(***************************************************************************)
(* Entry listeners (callback_manager.py, entry_notifier.py, the listener   *)
(* methods of storage.py).  The storage queues a notification for every    *)
(* change; one thread takes them from the queue and hands each to the      *)
(* listeners there are at that moment, by a callback or through a poller.  *)
(*                                                                         *)
(* An operation of the storage is one step: it holds m_mutex while it      *)
(* changes the entry and queues the notification, and so does the addition *)
(* of a listener.  Removing one and polling take no lock of the storage.   *)
(* The ids, sequence numbers and messages of the entries play no part.     *)
(***************************************************************************)
EXTENDS Integers, SequencesExt

CONSTANTS
    Names, Values, NoValue,
    Specs,       \* the listeners a user may add: [names, flags, poller]
    Pollers,
    NoPoller,    \* poller_uid None: the listener is a callback
    Everybody,   \* only_listener None: a notification for every listener
    MaxChanges, MaxListeners   \* bounds

\* NT_NOTIFY_*
NotifyFlags == {"immediate", "local", "new", "delete", "update", "flags"}

Uids == 0 .. (MaxListeners - 1)

ASSUME NotifierAssumption ==
    /\ NoValue \notin Values
    /\ Specs \subseteq [names: SUBSET Names, flags: SUBSET NotifyFlags,
                        poller: Pollers \cup {NoPoller}]
    /\ NoPoller \notin Pollers
    /\ MaxChanges \in Nat /\ MaxListeners \in Nat
    /\ Everybody \notin Uids

VARIABLES
    value, persistent, \* the entries
    localNotifiers,    \* m_local_notifiers
    listeners,         \* m_listeners: uid -> listener
    nextUid,
    queue,             \* m_queue
    todo,              \* who has yet to be told of the notification that the
                       \* thread took
    thread,            \* "running" or "ended"
    poller,            \* of each: not yet in m_pollers, in it, removed
    pollQueue,         \* poll_queue of each
    sleeper,           \* of each: the call of poll that waits on poll_cond
    view,              \* the values of which each listener was told last
    hidden,            \* names whose deletion was not queued while an older
                       \* notification still was
    atStop,            \* the values and the listeners when stop was called
    changes

entryVars == << value, persistent >>
managerVars == << listeners, nextUid, localNotifiers, poller >>
threadVars == << todo, thread, pollQueue, sleeper, view >>
vars == << entryVars, managerVars, queue, threadVars, hidden, atStop, changes >>

-----------------------------------------------------------------------------
(* Notifications *)

Note(n, v, flags) == [name |-> n, value |-> v, flags |-> flags]

StopItem == << >>

\* Mutant: a notification of both a new value and new flags reaches only the
\* listeners that asked for both.
MatchesExactly(listener, note) ==
    /\ note.name \in listener.names
    /\ note.flags \ {"immediate", "local"} \subseteq listener.flags

\* EntryNotifierThread.matches.  A notification has always a value.
Matches(listener, note) ==
    LET both   == {"update", "flags"}
        asked  == listener.flags
        flags  == note.flags \ {"immediate", "local"}
    IN  /\ note.name \in listener.names
        /\ IF both \subseteq flags
           THEN both \cap asked # {} /\ flags \ both \subseteq asked
           ELSE flags \subseteq asked

\* notifyEntry and send: nothing is queued without a listener, and nothing of
\* a local change until someone asks for local changes.
Queued(note) ==
    DOMAIN listeners # {} /\ ("local" \in note.flags => localNotifiers)

Waiting(n) ==
    \E i \in DOMAIN queue :
        /\ queue[i] # StopItem /\ queue[i].only = Everybody
        /\ queue[i].note.name = n

\* A change of the storage, with its notifications: all are local, or none is.
Send(notes) ==
    LET deleted == {notes[i].name : i \in {j \in DOMAIN notes :
                                              "delete" \in notes[j].flags}}
    IN  IF \A i \in DOMAIN notes : Queued(notes[i])
        THEN /\ queue' = queue \o [i \in DOMAIN notes |->
                                      [only |-> Everybody, note |-> notes[i]]]
             /\ UNCHANGED hidden
        ELSE /\ hidden' = hidden \cup {n \in deleted : Waiting(n)}
             /\ UNCHANGED queue

Changed(notes) ==
    /\ changes < MaxChanges /\ changes' = changes + 1
    /\ Send(notes)
    /\ UNCHANGED << managerVars, threadVars, atStop >>

LocalFlag(local) == IF local THEN {"local"} ELSE {}

-----------------------------------------------------------------------------
(* Operations of the storage *)

SetValue(n, v) == value' = [value EXCEPT ![n] = v]

\* _setEntryValueImpl of a local write.
Write(n, v) ==
    /\ v # value[n] /\ SetValue(n, v)
    /\ Changed(<< Note(n, v, {"local", IF value[n] = NoValue
                                       THEN "new" ELSE "update"}) >>)
    /\ UNCHANGED persistent

\* An assignment or update from the network; also one with the same value.
Receive(n, v, flag) ==
    /\ SetValue(n, v)
    /\ persistent' = [persistent EXCEPT ![n] = flag]
    /\ Changed(<< Note(n, v,
            IF value[n] = NoValue THEN {"new"}
            ELSE IF persistent[n] # flag THEN {"update", "flags"}
            ELSE {"update"}) >>)

\* _setEntryFlagsImpl.
SetFlags(n, local) ==
    /\ value[n] # NoValue
    /\ persistent' = [persistent EXCEPT ![n] = ~@]
    /\ Changed(<< Note(n, value[n], {"flags"} \cup LocalFlag(local)) >>)
    /\ UNCHANGED value

\* _deleteEntryImpl; the notification carries the old value.
Delete(n, local) ==
    /\ value[n] # NoValue
    /\ SetValue(n, NoValue)
    /\ persistent' = [persistent EXCEPT ![n] = FALSE]
    /\ Changed(<< Note(n, value[n], {"delete"} \cup LocalFlag(local)) >>)

\* _deleteAllEntriesImpl.
DeleteAll(local) ==
    LET doomed == {n \in Names : value[n] # NoValue /\ ~persistent[n]}
        order  == SetToSeq(doomed)
    IN  /\ doomed # {}
        /\ value' = [n \in Names |-> IF n \in doomed THEN NoValue ELSE value[n]]
        /\ Changed([i \in DOMAIN order |->
                Note(order[i], value[order[i]], {"delete"} \cup LocalFlag(local))])
        /\ UNCHANGED persistent

\* _loadEntries of a persistent file, one entry.
Load(n, v) ==
    LET newFlag == IF persistent[n] THEN {} ELSE {"flags"}
        flags   == IF value[n] = NoValue THEN {"new"}
                   ELSE IF v # value[n] THEN {"update"} \cup newFlag
                   ELSE newFlag
    IN  /\ flags # {}
        /\ SetValue(n, v)
        /\ persistent' = [persistent EXCEPT ![n] = TRUE]
        /\ Changed(<< Note(n, v, flags \cup {"local"}) >>)

Storage ==
    \/ \E n \in Names, v \in Values :
          Write(n, v) \/ Load(n, v) \/ \E flag \in BOOLEAN : Receive(n, v, flag)
    \/ \E local \in BOOLEAN :
          DeleteAll(local) \/ \E n \in Names : SetFlags(n, local) \/ Delete(n, local)

-----------------------------------------------------------------------------
(* Listeners and pollers *)

\* The pollers in m_pollers.  Their uids are not used again.
Open == {p \in Pollers : poller[p] = "open"}

\* What addListener queues for the new listener alone.
Immediate(uid, spec) ==
    LET now == SetToSeq({n \in spec.names : value[n] # NoValue})
    IN  IF {"immediate", "new"} \subseteq spec.flags
        THEN [i \in DOMAIN now |->
                [only |-> uid,
                 note |-> Note(now[i], value[now[i]], {"immediate", "new"})]]
        ELSE << >>

\* add and the three methods like it of the notifier.
\* Bound: no two listeners are alike.
Register(spec) ==
    /\ spec \notin Range(listeners)
    /\ nextUid \in Uids /\ nextUid' = nextUid + 1
    /\ spec.poller \in Open \cup {NoPoller}
    /\ listeners' = [u \in DOMAIN listeners \cup {nextUid} |->
                        IF u = nextUid THEN spec ELSE listeners[u]]
    /\ localNotifiers' = (localNotifiers \/ "local" \in spec.flags)

\* addListener and the three methods like it of the storage.
AddListener(spec) ==
    /\ Register(spec)
    /\ queue' = queue \o Immediate(nextUid, spec)
    /\ UNCHANGED << entryVars, poller, threadVars, hidden, atStop, changes >>

Without(uids) == [u \in DOMAIN listeners \ uids |-> listeners[u]]

RemoveListener(uid) ==
    /\ uid \in DOMAIN listeners
    /\ listeners' = Without({uid})
    /\ UNCHANGED << entryVars, nextUid, localNotifiers, poller, queue,
                    threadVars, hidden, atStop, changes >>

CreatePoller(p) ==
    /\ poller[p] = "new" /\ poller' = [poller EXCEPT ![p] = "open"]
    /\ UNCHANGED << entryVars, listeners, nextUid, localNotifiers, queue,
                    threadVars, hidden, atStop, changes >>

\* notify and notify_all: one thread polls a poller.
Wake(ps) ==
    sleeper' = [p \in Pollers |->
                  IF p \in ps /\ sleeper[p] = "asleep" THEN "woken" ELSE sleeper[p]]

\* The poller is terminated, which its wait does not look at.
RemovePoller(p) ==
    /\ p \in Open /\ poller' = [poller EXCEPT ![p] = "removed"]
    /\ listeners' = Without({u \in DOMAIN listeners : listeners[u].poller = p})
    /\ Wake({p})
    /\ UNCHANGED << entryVars, nextUid, localNotifiers, queue, todo, thread,
                    pollQueue, view, hidden, atStop, changes >>

-----------------------------------------------------------------------------
(* The thread, and the end *)

\* The thread takes a notification, and a copy of the listeners it is for.
Take ==
    LET item == Head(queue)
        uids == {u \in DOMAIN listeners : /\ item.only \in {Everybody, u}
                                          /\ Matches(listeners[u], item.note)}
    IN  /\ thread = "running" /\ todo = {}
        /\ queue # << >> /\ item # StopItem
        /\ queue' = Tail(queue)
        /\ todo' = {[uid |-> u, poller |-> listeners[u].poller,
                     note |-> item.note] : u \in uids}
        /\ UNCHANGED << entryVars, managerVars, thread, pollQueue, sleeper, view,
                        hidden, atStop, changes >>

\* What a notification says of its entry.
Says(note) == IF "delete" \in note.flags THEN NoValue ELSE note.value

Tells(d) == view' = [view EXCEPT ![d.uid][d.note.name] = Says(d.note)]

\* The listeners are told in the order in which they were added.
FirstTodo == CHOOSE d \in todo : \A e \in todo : d.uid <= e.uid

\* Mutant: an exception in a callback ends the thread.
DeliverOrDie ==
    /\ todo # {}
    /\ todo' = todo \ {FirstTodo}
    /\ Tells(FirstTodo)
    /\ thread' \in {thread, "dead"}
    /\ UNCHANGED << entryVars, managerVars, queue, pollQueue, sleeper, hidden,
                    atStop, changes >>

\* Mutant: the notification is added without a notify.
AddToPoller(p, d) ==
    /\ pollQueue' = IF p \in Open THEN [pollQueue EXCEPT ![p] = Append(@, d)]
                    ELSE pollQueue
    /\ UNCHANGED sleeper

SendPoller(p, d) ==
    IF p \in Open
    THEN pollQueue' = [pollQueue EXCEPT ![p] = Append(@, d)] /\ Wake({p})
    ELSE UNCHANGED << pollQueue, sleeper >>

\* One of them is called, or its poller is given the notification.  Whether
\* the callback raises makes no difference.
Deliver ==
    LET d == FirstTodo
    IN  /\ thread = "running" /\ todo # {}
        /\ todo' = todo \ {d}
        /\ IF d.poller = NoPoller
           THEN Tells(d) /\ UNCHANGED << pollQueue, sleeper >>
           ELSE SendPoller(d.poller, d) /\ UNCHANGED view
        /\ UNCHANGED << entryVars, managerVars, queue, thread, hidden, atStop,
                        changes >>

\* poll looks at its queue when it is called and when it is woken; by then its
\* poller may have been removed, but it keeps it.
Looks(p) == (sleeper[p] = "none" /\ p \in Open) \/ sleeper[p] = "woken"

\* It takes all the notifications there are and returns; the last of an entry
\* is what the listener knows of it then.
Poll(p) ==
    /\ Looks(p) /\ pollQueue[p] # << >>
    /\ sleeper' = [sleeper EXCEPT ![p] = "none"]
    /\ pollQueue' = [pollQueue EXCEPT ![p] = << >>]
    /\ view' = [u \in Uids |-> [n \in Names |->
                  LET told == {i \in DOMAIN pollQueue[p] :
                                  /\ pollQueue[p][i].uid = u
                                  /\ pollQueue[p][i].note.name = n}
                  IN  IF told = {} THEN view[u][n]
                      ELSE Says(pollQueue[p][Max(told)].note)]]
    /\ UNCHANGED << entryVars, managerVars, queue, todo, thread, hidden, atStop,
                    changes >>

\* Bound: a poller that no listener uses is not polled.
Used(p) == \E u \in DOMAIN listeners : listeners[u].poller = p

PollWaits(p) ==
    /\ Looks(p) /\ pollQueue[p] = << >> /\ (Used(p) \/ sleeper[p] = "woken")
    /\ sleeper' = [sleeper EXCEPT ![p] = "asleep"]
    /\ UNCHANGED << entryVars, managerVars, queue, todo, thread, pollQueue, view,
                    hidden, atStop, changes >>

PollTimesOut(p) ==
    /\ sleeper[p] = "asleep" /\ pollQueue[p] = << >>
    /\ sleeper' = [sleeper EXCEPT ![p] = "none"]
    /\ UNCHANGED << entryVars, managerVars, queue, todo, thread, pollQueue, view,
                    hidden, atStop, changes >>

\* Mutant: what is still queued is thrown away.
StopAtOnce ==
    /\ atStop = << >>
    /\ atStop' = [value |-> value, uids |-> DOMAIN listeners]
    /\ queue' = << StopItem >>
    /\ UNCHANGED << entryVars, managerVars, threadVars, hidden, changes >>

\* stop queues the item that ends the thread.
Stop ==
    /\ atStop = << >>
    /\ atStop' = [value |-> value, uids |-> DOMAIN listeners]
    /\ queue' = Append(queue, StopItem)
    /\ UNCHANGED << entryVars, managerVars, threadVars, hidden, changes >>

End ==
    /\ thread = "running" /\ todo = {}
    /\ queue # << >> /\ Head(queue) = StopItem
    /\ queue' = Tail(queue) /\ thread' = "ended"
    /\ Wake(Open)
    /\ UNCHANGED << entryVars, managerVars, todo, pollQueue, view, hidden,
                    atStop, changes >>

ThreadStep == Take \/ Deliver \/ End

-----------------------------------------------------------------------------
Init ==
    /\ value = [n \in Names |-> NoValue]
    /\ persistent = [n \in Names |-> FALSE]
    /\ listeners = << >> /\ nextUid = 0 /\ localNotifiers = FALSE
    /\ poller = [p \in Pollers |-> "new"] /\ pollQueue = [p \in Pollers |-> << >>]
    /\ sleeper = [p \in Pollers |-> "none"]
    /\ queue = << >> /\ todo = {} /\ thread = "running"
    /\ view = [u \in Uids |-> [n \in Names |-> NoValue]]
    /\ hidden = {} /\ atStop = << >> /\ changes = 0

Next ==
    \/ Storage
    \/ \E spec \in Specs : AddListener(spec)
    \/ \E uid \in Uids : RemoveListener(uid)
    \/ \E p \in Pollers : CreatePoller(p) \/ RemovePoller(p)
                         \/ Poll(p) \/ PollWaits(p) \/ PollTimesOut(p)
    \/ ThreadStep
    \/ Stop

Spec == Init /\ [][Next]_vars

\* The thread runs as long as it is not stopped, and every callback returns.
FairSpec == Spec /\ WF_vars(ThreadStep)

-----------------------------------------------------------------------------
(* Properties *)

\* A listener that asks for every value, from the first on.
Follows(listener) ==
    {"immediate", "local", "new", "delete", "update"} \subseteq listener.flags

Followers == {u \in DOMAIN listeners : Follows(listeners[u])}

Polled == \A p \in Open : pollQueue[p] = << >>

\* Listener u knows the values vals, but for the names that are hidden.
Knows(u, vals) == \A n \in listeners[u].names \ hidden : view[u][n] = vals[n]

\* When the queues are empty, a listener that asks for every value knows the
\* value of every entry, except one whose deletion was not queued while an older
\* notification of it still was (addListener, notifyEntry, main).
FollowersKnow ==
    thread = "running" /\ queue = << >> /\ todo = {} /\ Polled =>
        \A u \in Followers : Knows(u, value)

\* "... the listener will be called immediately with the current values of
\* the table" (table.py): then it knows them, without exceptions.
FollowersKnowAll ==
    thread = "running" /\ queue = << >> /\ todo = {} /\ Polled =>
        \A u \in Followers : \A n \in listeners[u].names : view[u][n] = value[n]

\* When stop has ended the thread, a listener that asked for every value was told
\* of all that happened before stop was called, and of nothing later.
NothingLostByStop ==
    thread = "ended" /\ Polled =>
        \A u \in Followers \cap atStop.uids : Knows(u, atStop.value)

\* No call of poll sleeps while its poller has notifications for it: none is added
\* between its look at the queue and its wait, or without waking it (poll,
\* sendPoller).
NobodySleepsOverNotes == \A p \in Pollers : sleeper[p] = "asleep" => pollQueue[p] = << >>

\* The thread gets to the end of its queue, again and again.
AllIsTold == []<>(todo = {} /\ (thread = "ended" \/ queue = << >>))
=============================================================================
