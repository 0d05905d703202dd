------------------------------- MODULE NTSync -------------------------------
(***************************************************************************)
(* One NetworkTables server and its clients: the stores of Storage.tla,    *)
(* the initial handshake of dispatcher.py and the connections between      *)
(* them.                                                                   *)
(*                                                                         *)
(* A connection is two FIFO channels.  A channel stands for everything     *)
(* between one store and the other: the pending list of the sender's       *)
(* NetworkConnection, its outgoing queue, the TCP stream.  Messages queued *)
(* while the sender's side is not yet Active wait there, as they wait in   *)
(* the pending list until postOutgoing.  (What merging does to the pending *)
(* list is the subject of OutgoingQueue.tla, and what happens between the  *)
(* unlock of a store and the queueing of its messages of StorageLock.tla:  *)
(* here an operation and the queueing of its messages are one step.)       *)
(*                                                                         *)
(* A connection can break.  Each end finds out on its own: until then the  *)
(* client still reads what had arrived, and the server may be draining the *)
(* old connection (old) while the client has opened a new one.             *)
(***************************************************************************)
EXTENDS Storage, SequencesExt

CONSTANTS
    Clients,
    Server,
    Ops,            \* the kinds of local operation each node performs
    MaxOps,         \* bound: local operations in a behaviour
    MaxBreaks,      \* bound: connections that break
    MaxRestarts     \* bound: server restarts

Nodes == Clients \cup {Server}

ASSUME NTSyncAssumption ==
    /\ IsFiniteSet(Names)
    /\ Server \notin Clients
    /\ Ops \in [Nodes -> SUBSET OpKinds]
    /\ MaxOps \in Nat /\ MaxBreaks \in Nat /\ MaxRestarts \in Nat

VARIABLES
    storage,    \* the store of every node
    client,     \* state of each client's connection
    session,    \* state of the server's side of it
    link,       \* whether the TCP connection of the two still works
    toServer,   \* messages on the way from each client
    toClient,   \* messages on the way to each client
    old,        \* what the server still drains of the client's last connection
    meddled,    \* a client has deleted an entry or set its flags (a history)
    ops, breaks, restarts

net  == << client, session, link, toServer, toClient, old >>
vars == << storage, client, session, link, toServer, toClient, old,
           meddled, ops, breaks, restarts >>

ClientHello == [type |-> "ClientHello"]
ClientHelloDone == [type |-> "ClientHelloDone"]

\* SERVER_HELLO, the initial assignments and SERVER_HELLO_DONE: the client
\* reads them all before it looks at any.
ServerHello(assigns) == [type |-> "ServerHello", assigns |-> assigns]

IsServerHello(m) == m.type = "ServerHello"

NoOld == [session |-> "None", msgs |-> << >>]

Init ==
    /\ storage  = [p \in Nodes |-> NewStore(p = Server)]
    /\ client   = [c \in Clients |-> "Dead"]
    /\ session  = [c \in Clients |-> "None"]
    /\ link     = [c \in Clients |-> "down"]
    /\ toServer = [c \in Clients |-> << >>]
    /\ toClient = [c \in Clients |-> << >>]
    /\ old      = [c \in Clients |-> NoOld]
    /\ meddled = FALSE /\ ops = 0 /\ breaks = 0 /\ restarts = 0

-----------------------------------------------------------------------------
(* Dispatcher._queueOutgoing: only to connections that have synchronized. *)

\* Mutant: a connection whose handshake is running gets nothing.
BroadcastToActive(out, except) ==
    toClient' = [c \in Clients |->
        IF session[c] = "Active" /\ link[c] = "up" /\ c # except
        THEN toClient[c] \o out ELSE toClient[c]]

Broadcast(out, except) ==
    toClient' = [c \in Clients |->
        IF /\ session[c] \in {"Synchronized", "Active"}
           /\ link[c] = "up" /\ c # except
        THEN toClient[c] \o out ELSE toClient[c]]

SendToServer(c, out) ==
    toServer' = IF link[c] = "up" THEN [toServer EXCEPT ![c] = @ \o out]
                                  ELSE toServer

-----------------------------------------------------------------------------
(* Local operations *)

LocalResults(p) == UserOperations(storage[p], Ops[p])

\* An entry is deleted, or its flags change.
NotAWrite(s, t) ==
    \E n \in Names :
        /\ s.entries[n].value # NoValue
        /\ \/ t.entries[n].value = NoValue
           \/ t.entries[n].flags # s.entries[n].flags

\* A call that changes nothing is a stuttering step.
LocalOp(p) ==
    /\ ops < MaxOps
    /\ ops' = ops + 1
    /\ \E r \in LocalResults(p) :
        /\ r.store # storage[p]
        /\ storage' = [storage EXCEPT ![p] = r.store]
        /\ meddled' = (meddled \/ (p # Server /\ NotAWrite(storage[p], r.store)))
        /\ IF p = Server
           THEN Broadcast(r.out, Server) /\ UNCHANGED toServer
           ELSE /\ IF client[p] = "Active" THEN SendToServer(p, r.out)
                                           ELSE UNCHANGED toServer
                /\ UNCHANGED toClient
    /\ UNCHANGED << client, session, link, old, breaks, restarts >>

-----------------------------------------------------------------------------
(* Connections *)

\* The server accepts a connection.  One it has not yet given up stays behind
\* in m_connections; the slot of a dead one is used again.
Accept(c) ==
    /\ session' = [session EXCEPT ![c] = "Handshake"]
    /\ old' = [old EXCEPT ![c] =
                 IF session[c] \in {"Synchronized", "Active"}
                 THEN [session |-> session[c], msgs |-> toServer[c]]
                 ELSE NoOld]

\* The client thread connects, and the client's handshake sends its hello.
\* Bound: only one connection per client that stayed behind.
Connect(c) ==
    /\ client[c] = "Dead" /\ old[c] = NoOld
    /\ client'   = [client EXCEPT ![c] = "Handshake"]
    /\ link'     = [link EXCEPT ![c] = "up"]
    /\ toServer' = [toServer EXCEPT ![c] = << ClientHello >>]
    /\ toClient' = [toClient EXCEPT ![c] = << >>]
    /\ Accept(c)
    /\ UNCHANGED << storage, meddled, ops, breaks, restarts >>

\* _serverHandshake up to the snapshot: under the lock of the store the
\* connection becomes Synchronized, so that what changes later is queued.
SendSnapshot(c) ==
    /\ session[c] = "Handshake" /\ toServer[c] # << >>
    /\ session'  = [session EXCEPT ![c] = "Synchronized"]
    /\ toServer' = [toServer EXCEPT ![c] = Tail(@)]
    /\ toClient' = IF link[c] = "up"
                   THEN [toClient EXCEPT ![c] = Append(@,
                            ServerHello(GetInitialAssignments(storage[Server])))]
                   ELSE toClient
    /\ UNCHANGED << storage, client, link, old, meddled, ops, breaks, restarts >>

\* _clientHandshake from SERVER_HELLO_DONE on.  The requests and
\* CLIENT_HELLO_DONE are written at once, the updates wait in the pending list.
ApplySnapshot(c) ==
    /\ client[c] = "Handshake" /\ toClient[c] # << >>
    /\ IsServerHello(Head(toClient[c]))
    /\ LET s    == storage[c]
           msgs == Head(toClient[c]).assigns
       IN  /\ storage' = [storage EXCEPT ![c] = ApplyInitialAssignments(s, msgs)]
           /\ \E reqs \in SetToSeqs(InitialRequests(s, msgs)),
                 upds \in SetToSeqs(InitialUpdates(s, msgs)) :
                SendToServer(c, reqs \o << ClientHelloDone >> \o upds)
    /\ client'   = [client EXCEPT ![c] = "Active"]
    /\ toClient' = [toClient EXCEPT ![c] = Tail(@)]
    /\ UNCHANGED << session, link, old, meddled, ops, breaks, restarts >>

\* What the server can read of a connection now: while the handshake runs,
\* nothing until CLIENT_HELLO_DONE has arrived.
Readable(state, msgs) ==
    /\ msgs # << >>
    /\ \/ state = "Active"
       \/ state = "Synchronized" /\ ClientHelloDone \in Range(msgs)

\* The server processes one message; a broadcast skips the connection `from`.
ServerHandles(m, from) ==
    IF m = ClientHelloDone
    THEN UNCHANGED << storage, toClient >>
    ELSE LET r == ProcessIncoming(storage[Server], m)
         IN  /\ storage' = [storage EXCEPT ![Server] = r.store]
             /\ Broadcast(r.out, IF r.toSender THEN Server ELSE from)

\* Mutant: the end of the handshake is not noticed.
StateNeverActive(state, m) == state

StateAfter(state, m) == IF m = ClientHelloDone THEN "Active" ELSE state

ServerReceive(c) ==
    /\ Readable(session[c], toServer[c])
    /\ toServer' = [toServer EXCEPT ![c] = Tail(@)]
    /\ session'  = [session EXCEPT ![c] = StateAfter(@, Head(toServer[c]))]
    /\ ServerHandles(Head(toServer[c]), c)
    /\ UNCHANGED << client, link, old, meddled, ops, breaks, restarts >>

\* The same on a connection whose client has moved on: its own broadcast does
\* reach the client's new connection.
ServerReceiveOld(c) ==
    /\ Readable(old[c].session, old[c].msgs)
    /\ old' = [old EXCEPT ![c] =
                 [session |-> StateAfter(@.session, Head(@.msgs)),
                  msgs |-> Tail(@.msgs)]]
    /\ ServerHandles(Head(old[c].msgs), Server)
    /\ UNCHANGED << client, session, link, toServer, meddled, ops, breaks, restarts >>

\* A client gets what the server queued once the server's side is Active.
ClientReceive(c) ==
    /\ client[c] = "Active" /\ toClient[c] # << >>
    /\ session[c] = "Active" \/ link[c] = "down"
    /\ LET r == ProcessIncoming(storage[c], Head(toClient[c]))
       IN  /\ storage' = [storage EXCEPT ![c] = r.store]
           /\ SendToServer(c, r.out)
    /\ toClient' = [toClient EXCEPT ![c] = Tail(@)]
    /\ UNCHANGED << client, session, link, old, meddled, ops, breaks, restarts >>

-----------------------------------------------------------------------------
(* Failures *)

\* What reaches a client whose connection breaks: not what was still pending.
Posted(c) ==
    LET msgs == toClient[c] IN
    CASE session[c] = "Active" -> msgs
      [] session[c] # "Active" /\ msgs # << >> /\ IsServerHello(Head(msgs)) ->
             << Head(msgs) >>
      [] OTHER -> << >>

Break(c) ==
    /\ breaks < MaxBreaks /\ link[c] = "up"
    /\ breaks' = breaks + 1
    /\ link' = [link EXCEPT ![c] = "down"]
    /\ toClient' = [toClient EXCEPT ![c] = Posted(c)]
    /\ UNCHANGED << storage, client, session, toServer, old, meddled, ops, restarts >>

ClientNotices(c) ==
    /\ link[c] = "down" /\ client[c] # "Dead"
    /\ client' = [client EXCEPT ![c] = "Dead"]
    /\ toClient' = [toClient EXCEPT ![c] = << >>]
    /\ UNCHANGED << storage, session, link, toServer, old, meddled, ops, breaks, restarts >>

ServerNotices(c) ==
    /\ link[c] = "down" /\ session[c] # "None"
    /\ session' = [session EXCEPT ![c] = "None"]
    /\ toServer' = [toServer EXCEPT ![c] = << >>]
    /\ UNCHANGED << storage, client, link, toClient, old, meddled, ops, breaks, restarts >>

ServerNoticesOld(c) ==
    /\ old[c] # NoOld
    /\ old' = [old EXCEPT ![c] = NoOld]
    /\ UNCHANGED << storage, client, session, link, toServer, toClient,
                    meddled, ops, breaks, restarts >>

\* The server process ends and comes back with no persistent file.
ServerRestart ==
    /\ restarts < MaxRestarts
    /\ restarts' = restarts + 1
    /\ storage'  = [storage EXCEPT ![Server] = NewStore(TRUE)]
    /\ session'  = [c \in Clients |-> "None"]
    /\ link'     = [c \in Clients |-> "down"]
    /\ toServer' = [c \in Clients |-> << >>]
    /\ toClient' = [c \in Clients |-> Posted(c)]
    /\ old'      = [c \in Clients |-> NoOld]
    /\ UNCHANGED << client, meddled, ops, breaks >>

-----------------------------------------------------------------------------
ProtocolStep(c) ==
    \/ Connect(c) \/ SendSnapshot(c) \/ ApplySnapshot(c)
    \/ ServerReceive(c) \/ ServerReceiveOld(c) \/ ClientReceive(c)
    \/ ClientNotices(c) \/ ServerNotices(c) \/ ServerNoticesOld(c)

Next ==
    \/ \E p \in Nodes : LocalOp(p)
    \/ \E c \in Clients : ProtocolStep(c)
    \/ \E c \in Clients : Break(c)
    \/ ServerRestart

Spec == Init /\ [][Next]_vars

\* The threads of a node keep running: the client thread reconnects, the read
\* threads read, a dead TCP connection is noticed.
Fairness == \A c \in Clients :
    /\ WF_vars(Connect(c)) /\ WF_vars(SendSnapshot(c))
    /\ WF_vars(ApplySnapshot(c)) /\ WF_vars(ServerReceive(c))
    /\ WF_vars(ServerReceiveOld(c)) /\ WF_vars(ClientReceive(c))
    /\ WF_vars(ClientNotices(c)) /\ WF_vars(ServerNotices(c))
    /\ WF_vars(ServerNoticesOld(c))

FairSpec == Spec /\ Fairness

-----------------------------------------------------------------------------
(* Properties *)

ServerHelloMsg == [type: {"ServerHello"}, assigns: Snapshots]
ClientMsg == EntryMsg \cup {ClientHello, ClientHelloDone}
ServerMsg == EntryMsg \cup ServerHelloMsg

SessionStates == {"None", "Handshake", "Synchronized", "Active"}

\* The types of the state; only the server's store is in server mode.
TypeOK ==
    /\ storage  \in [Nodes -> Store]
    /\ \A p \in Nodes : storage[p].server <=> p = Server
    /\ client   \in [Clients -> {"Dead", "Handshake", "Active"}]
    /\ session  \in [Clients -> SessionStates]
    /\ link     \in [Clients -> {"up", "down"}]
    /\ toServer \in [Clients -> Seq(ClientMsg)]
    /\ toClient \in [Clients -> Seq(ServerMsg)]
    /\ old      \in [Clients -> [session: SessionStates, msgs: Seq(ClientMsg)]]
    /\ meddled \in BOOLEAN
    /\ ops \in Nat /\ breaks \in Nat /\ restarts \in Nat

Exists(p, n) == Has(storage[p], n)
E(p, n) == storage[p].entries[n]

\* Everything that was sent has arrived.
Quiescent ==
    \A c \in Clients :
        /\ client[c] = "Active" /\ session[c] = "Active" /\ link[c] = "up"
        /\ toServer[c] = << >> /\ toClient[c] = << >> /\ old[c] = NoOld

\* The server's id map and its entries are each other's inverse, whatever the
\* clients send (processIncoming, _setEntryValueImpl, the two deletes).
ServerIdsConsistent == IdsConsistent(storage[Server])

\* A connected client and the server mean the same entry by an id: a slot of
\* the client's map names the entry the server has in that slot, unless the
\* server has emptied it.  An update by id never hits another entry, also
\* across reconnects and restarts of the server (applyInitialAssignments).
IdsAgree ==
    \A c \in Clients : client[c] = "Active" /\ link[c] = "up" =>
        LET cmap == storage[c].idmap
            smap == storage[Server].idmap
        IN  \A k \in 1 .. Len(cmap) : cmap[k] # NoName =>
                k <= Len(smap) /\ smap[k] \in {cmap[k], NoName}

\* The id a client has for an entry leads back to the entry
\* (_processIncomingEntryAssign on a client, the deletes).
ClientIdsResolve ==
    \A c \in Clients, n \in Names :
        LET s == storage[c] IN
        s.entries[n].id # NoId =>
            Known(s, s.entries[n].id) /\ NameOf(s, s.entries[n].id) = n

\* While an entry of the server lives, its sequence number never goes back to
\* an older one, in whatever order the messages of the clients, old
\* connections included, arrive (isSeqNewerThan and isSeqNewerOrEqual in
\* processIncoming).
ServerSeqNeverRegresses ==
    [][\A n \in Names :
         LET e == E(Server, n)
             f == E(Server, n)'
         IN  e.id # NoId /\ f.id = e.id /\ restarts' = restarts
                => ~IsSeqNewerThan(e.seq, f.seq)]_vars

\* Two writes got the same sequence number.
Tied(e, f) ==
    e.value # NoValue /\ f.value # NoValue /\ e.id = f.id /\ e.seq = f.seq

\* As long as the clients only write (the server may also delete, clear and
\* set flags), then once all messages have arrived a client and the server have
\* the same values, except where two different writes got the same sequence
\* number: no update is lost in a handshake, by a reconnect or by a restart.
WritersConverge ==
    Quiescent /\ ~meddled => \A c \in Clients, n \in Names :
        E(c, n).value = E(Server, n).value \/ Tied(E(c, n), E(Server, n))

\* What one client alone writes reaches everyone (the tables in
\* tests/test_synchronization.py).
AllAgree ==
    Quiescent => \A c \in Clients, n \in Names :
        E(c, n).value = E(Server, n).value

\* And so do the flags it sets, also those set while the entry still waits
\* for its id (the flags message of _processIncomingEntryAssign).
FlagsAgree ==
    Quiescent => \A c \in Clients, n \in Names :
        Exists(c, n) => E(c, n).flags = E(Server, n).flags

\* Nothing that comes back over the network overwrites what the only writer
\* wrote: neither the answer to its request for an id, which may be older
\* than its latest value, nor the snapshot of a restarted server.
SoleWriterKeepsItsValues ==
    [][\A c \in Clients :
         Ops[c] # {} /\ ops' = ops =>
            \A n \in Names : E(c, n)'.value = E(c, n).value]_vars

\* When the operations end, every handshake completes and every message is
\* processed: no exchange of messages goes on for ever or gets stuck.
Settles == <>[]Quiescent

=============================================================================
