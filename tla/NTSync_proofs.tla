---------------------------- MODULE NTSync_proofs ----------------------------
(***************************************************************************)
(* Safety of NTSync for any number of clients, names, values, operations,  *)
(* breaks and restarts: the types, the server's ids and the server's       *)
(* sequence numbers; and, where one client alone writes, that its values   *)
(* survive and that all nodes agree at rest, on values and on flags.       *)
(***************************************************************************)
EXTENDS NTSync, Storage_proofs

\* The inductive invariant.  The consistency of the server's ids is preserved
\* by every operation on a well-typed store in server mode, which is what
\* TypeOK says of it; nothing need be known about the messages on the way.
IInv == TypeOK /\ ServerIdsConsistent

-----------------------------------------------------------------------------
(* Messages *)

\* How the messages of the handshake differ from those about entries.
LEMMA MsgTypes ==
    /\ \A m \in EntryMsg : m \in ClientMsg /\ m \in ServerMsg
                           /\ m # ClientHelloDone /\ m # ClientHello
    /\ ClientHello \in ClientMsg /\ ClientHelloDone \in ClientMsg
    /\ \A m \in ServerMsg : IsServerHello(m) => m.assigns \in Snapshots
<1>1. \A m \in EntryMsg : m # ClientHelloDone /\ m # ClientHello
                          /\ ~IsServerHello(m)
  BY MsgFields DEF EntryMsg, ClientHello, ClientHelloDone, IsServerHello
<1>2. QED
  BY <1>1 DEF ClientMsg, ServerMsg, ServerHelloMsg

\* Messages about entries go either way.
LEMMA SeqOfEntryMsg ==
    ASSUME NEW out \in Seq(EntryMsg)
    PROVE  out \in Seq(ClientMsg) /\ out \in Seq(ServerMsg)
  BY DEF ClientMsg, ServerMsg

\* Messages of the handshake do nothing to a store, so every message that a
\* node may process leaves a store.
LEMMA ReceiveType ==
    ASSUME NEW s \in Store, NEW m \in ClientMsg \cup ServerMsg
    PROVE  GoodResult(s, ProcessIncoming(s, m))
<1>1. CASE m \in EntryMsg
  BY <1>1, ProcessIncomingType
<1>2. CASE m \in {ClientHello, ClientHelloDone} \cup ServerHelloMsg
  <2>1. m.type \in {"ClientHello", "ClientHelloDone", "ServerHello"}
    BY <1>2 DEF ClientHello, ClientHelloDone, ServerHelloMsg
  <2>2. ProcessIncoming(s, m) = Ignored(s)
    BY <2>1 DEF ProcessIncoming
  <2>3. QED
    BY <2>2, IgnoredType
<1>3. QED
  BY <1>1, <1>2 DEF ClientMsg, ServerMsg

\* What Broadcast leaves in the channels to the clients.
LEMMA BroadcastType ==
    ASSUME TypeOK, NEW out \in Seq(EntryMsg), NEW except,
           Broadcast(out, except)
    PROVE  toClient' \in [Clients -> Seq(ServerMsg)]
<1>1. out \in Seq(ServerMsg)
  BY SeqOfEntryMsg
<1>2. \A c \in Clients : toClient[c] \in Seq(ServerMsg)
  BY DEF TypeOK
<1>3. \A c \in Clients : toClient[c] \o out \in Seq(ServerMsg)
  BY <1>1, <1>2
<1>4. QED
  BY <1>2, <1>3 DEF Broadcast

\* What SendToServer leaves in the channels to the server.
LEMMA SendToServerType ==
    ASSUME TypeOK, NEW c \in Clients, NEW out \in Seq(ClientMsg),
           SendToServer(c, out)
    PROVE  toServer' \in [Clients -> Seq(ClientMsg)]
<1>1. toServer[c] \o out \in Seq(ClientMsg)
  BY DEF TypeOK
<1>2. QED
  BY <1>1 DEF SendToServer, TypeOK

-----------------------------------------------------------------------------
(* What a step does to the server's store *)

\* Where the store of a node is replaced by that of a good result.
LEMMA StorageType ==
    ASSUME TypeOK, NEW p \in Nodes, NEW r, GoodResult(storage[p], r),
           storage' = [storage EXCEPT ![p] = r.store]
    PROVE  /\ storage' \in [Nodes -> Store]
           /\ \A q \in Nodes : storage'[q].server <=> q = Server
<1>1. r.store \in Store /\ r.store.server = storage[p].server
  BY DEF GoodResult
<1>2. storage' \in [Nodes -> Store]
  BY <1>1 DEF TypeOK
<1>3. ASSUME NEW q \in Nodes PROVE storage'[q].server <=> q = Server
  <2>1. storage'[q] = IF q = p THEN r.store ELSE storage[q]
    BY DEF TypeOK
  <2>2. storage[q].server <=> q = Server
    BY DEF TypeOK
  <2>3. QED
    BY <1>1, <2>1, <2>2
<1>4. QED
  BY <1>2, <1>3

\* What a user's call returns.
LEMMA LocalResultsFacts ==
    ASSUME TypeOK, NEW p \in Nodes, NEW r \in LocalResults(p)
    PROVE  /\ GoodResult(storage[p], r)
           /\ p = Server => /\ KeepsIds(storage[p], r.store)
                            /\ NoOlderSeq(storage[p], r.store)
<1> DEFINE s == storage[p]
<1>1. s \in Store /\ (s.server <=> p = Server)
  BY DEF TypeOK
<1>2. \/ \E n \in Names, v \in Values :
            r \in {SetDefaultEntryValue(s, n, v), SetEntryValue(s, n, v),
                   SetEntryTypeValue(s, n, v)}
      \/ \E n \in Names, f \in BOOLEAN : r = SetEntryFlags(s, n, f)
      \/ \E n \in Names : r = DeleteEntry(s, n)
      \/ r = DeleteAllEntries(s)
  BY DEF LocalResults, UserOperations
<1> HIDE DEF s
<1>3. CASE \E n \in Names, v \in Values :
              r \in {SetDefaultEntryValue(s, n, v), SetEntryValue(s, n, v),
                     SetEntryTypeValue(s, n, v)}
  <2>1. PICK n \in Names, v \in Values :
              r \in {SetDefaultEntryValue(s, n, v), SetEntryValue(s, n, v),
                     SetEntryTypeValue(s, n, v)}
    BY <1>3
  <2>2. TRUE \in BOOLEAN
    OBVIOUS
  <2>3. GoodResult(s, r)
    BY <1>1, <2>1, <2>2, LocalOperationTypes
  <2>4. NoOlderSeq(s, r.store)
    BY <1>1, <2>1, <2>2, LocalOperationsNoOlderSeq
  <2>5. s.server => KeepsIds(s, r.store)
    BY <1>1, <2>1, <2>2, LocalOperationsKeepIds
  <2>6. QED
    BY <1>1, <2>3, <2>4, <2>5 DEF s
<1>4. CASE \E n \in Names, f \in BOOLEAN : r = SetEntryFlags(s, n, f)
  <2>1. PICK n \in Names, f \in BOOLEAN : r = SetEntryFlags(s, n, f)
    BY <1>4
  <2>2. r = SetEntryFlagsImpl(s, n, f, TRUE)
    BY <2>1 DEF SetEntryFlags
  <2>3. GoodResult(s, r) /\ NoOlderSeq(s, r.store) /\ KeepsIds(s, r.store)
    BY <1>1, <2>2, SetEntryFlagsImplType, SetEntryFlagsImplNoOlderSeq,
       SetEntryFlagsImplKeepsIds
  <2>4. QED
    BY <2>3 DEF s
<1>5. CASE \E n \in Names : r = DeleteEntry(s, n)
  <2>1. PICK n \in Names : r = DeleteEntryImpl(s, n, TRUE)
    BY <1>5 DEF DeleteEntry
  <2>2. GoodResult(s, r) /\ NoOlderSeq(s, r.store) /\ KeepsIds(s, r.store)
    BY <1>1, <2>1, DeleteEntryImplType, DeletingNoOlderSeq,
       DeleteEntryImplKeepsIds
  <2>3. QED
    BY <2>2 DEF s
<1>6. CASE r = DeleteAllEntries(s)
  <2>1. GoodResult(s, r) /\ NoOlderSeq(s, r.store) /\ KeepsIds(s, r.store)
    BY <1>1, <1>6, DeleteAllEntriesType, DeleteAllEntriesNoOlderSeq,
       DeleteAllEntriesKeepsIds
  <2>2. QED
    BY <2>1 DEF s
<1>7. QED
  BY <1>2, <1>3, <1>4, <1>5, <1>6

\* What the server's processing of a message does.
LEMMA ServerHandlesFacts ==
    ASSUME TypeOK, NEW m \in ClientMsg, NEW from, ServerHandles(m, from)
    PROVE  /\ storage' \in [Nodes -> Store]
           /\ \A q \in Nodes : storage'[q].server <=> q = Server
           /\ toClient' \in [Clients -> Seq(ServerMsg)]
           /\ KeepsIds(storage[Server], storage'[Server])
           /\ NoOlderSeq(storage[Server], storage'[Server])
<1> DEFINE s == storage[Server]
           r == ProcessIncoming(s, m)
<1>1. s \in Store /\ s.server /\ Server \in Nodes
  BY DEF TypeOK, Nodes
<1>2. CASE m = ClientHelloDone
  <2>1. storage' = storage /\ toClient' = toClient
    BY <1>2 DEF ServerHandles
  <2>2. QED
    BY <1>1, <2>1, KeepsIdsReflexive, NoOlderSeqReflexive DEF TypeOK
<1>3. CASE m # ClientHelloDone
  <2>1. /\ storage' = [storage EXCEPT ![Server] = r.store]
        /\ Broadcast(r.out, IF r.toSender THEN Server ELSE from)
    BY <1>3 DEF ServerHandles
  <2>2. GoodResult(s, r)
    BY <1>1, ReceiveType
  <2>3. KeepsIds(s, r.store) /\ NoOlderSeq(s, r.store)
    <3>1. CASE m \in EntryMsg
      BY <1>1, <3>1, ProcessIncomingKeepsIds, ProcessIncomingNoOlderSeq
    <3>2. CASE m = ClientHello
      <4>1. r.store = s
        BY <3>2 DEF ClientHello, ProcessIncoming, Ignored, Result
      <4>2. QED
        BY <1>1, <4>1, KeepsIdsReflexive, NoOlderSeqReflexive
    <3>3. QED
      BY <1>3, <3>1, <3>2 DEF ClientMsg
  <2>4. storage'[Server] = r.store
    BY <1>1, <2>1 DEF TypeOK
  <2> HIDE DEF r
  <2>5. toClient' \in [Clients -> Seq(ServerMsg)]
    BY <2>1, <2>2, BroadcastType DEF GoodResult
  <2>6. QED
    BY <1>1, <2>1, <2>2, <2>3, <2>4, <2>5, StorageType
<1>4. QED
  BY <1>2, <1>3

-----------------------------------------------------------------------------
(* The inductive invariant *)

\* The invariant holds initially.
LEMMA InitIInv == Init => IInv
<1> SUFFICES ASSUME Init PROVE IInv
  OBVIOUS
<1>1. NewEntry \in Entry
  BY SeqSpaceFacts, StorageAssumption DEF NewEntry, Entry, StorageAssumption
<1>2. \A b \in BOOLEAN : NewStore(b) \in Store /\ (NewStore(b).server <=> b)
  BY <1>1 DEF NewStore, Store
<1>3. /\ storage \in [Nodes -> Store]
      /\ \A q \in Nodes : storage[q].server <=> q = Server
  BY <1>2 DEF Init
<1>4. toServer \in [Clients -> Seq(ClientMsg)]
      /\ toClient \in [Clients -> Seq(ServerMsg)]
  BY DEF Init
<1>5. old \in [Clients -> [session : SessionStates, msgs : Seq(ClientMsg)]]
  BY DEF Init, NoOld, SessionStates
<1>6. TypeOK
  BY <1>3, <1>4, <1>5 DEF Init, TypeOK, SessionStates
<1>7. ServerIdsConsistent
  <2>1. storage[Server] = NewStore(TRUE)
    BY DEF Init, Nodes
  <2>2. IdsConsistent(NewStore(TRUE))
    BY DEF NewStore, NewEntry, IdsConsistent, IdsMatchEntries,
       SlotsMatchEntries, Has
  <2>3. QED
    BY <2>1, <2>2 DEF ServerIdsConsistent
<1>8. QED
  BY <1>6, <1>7 DEF IInv

\* One step: the types, the ids, and the sequence numbers unless the server
\* restarts.
SafeStep ==
    /\ TypeOK'
    /\ ServerIdsConsistent'
    /\ NoOlderSeq(storage[Server], storage'[Server]) \/ restarts' # restarts

\* Of a step that changes nothing in the server's store only the types are left
\* to show.
LEMMA SameServerStore ==
    ASSUME IInv, storage'[Server] = storage[Server], TypeOK'
    PROVE  SafeStep
<1>1. storage[Server] \in Store
  BY DEF IInv, TypeOK, Nodes
<1>2. QED
  BY <1>1, NoOlderSeqReflexive DEF SafeStep, IInv, ServerIdsConsistent

\* Local operations.
LEMMA LocalOpSafe ==
    ASSUME IInv, NEW p \in Nodes, LocalOp(p)
    PROVE  SafeStep
<1>1. TypeOK
  BY DEF IInv
<1>2. PICK r \in LocalResults(p) :
        /\ storage' = [storage EXCEPT ![p] = r.store]
        /\ IF p = Server
           THEN Broadcast(r.out, Server) /\ UNCHANGED toServer
           ELSE /\ IF client[p] = "Active" THEN SendToServer(p, r.out)
                                           ELSE UNCHANGED toServer
                /\ UNCHANGED toClient
  BY DEF LocalOp
<1>3. /\ GoodResult(storage[p], r)
      /\ p = Server => /\ KeepsIds(storage[p], r.store)
                       /\ NoOlderSeq(storage[p], r.store)
  BY <1>1, LocalResultsFacts
<1>4. r.out \in Seq(EntryMsg) /\ r.out \in Seq(ClientMsg)
  BY <1>3, SeqOfEntryMsg DEF GoodResult
<1>5. /\ storage' \in [Nodes -> Store]
      /\ \A q \in Nodes : storage'[q].server <=> q = Server
  BY <1>1, <1>2, <1>3, StorageType
<1>6. toClient' \in [Clients -> Seq(ServerMsg)]
  BY <1>1, <1>2, <1>4, BroadcastType DEF TypeOK
<1>7. toServer' \in [Clients -> Seq(ClientMsg)]
  <2>1. CASE p = Server \/ client[p] # "Active"
    BY <1>1, <1>2, <2>1 DEF TypeOK
  <2>2. CASE p # Server /\ client[p] = "Active"
    <3>1. p \in Clients /\ SendToServer(p, r.out)
      BY <1>2, <2>2 DEF Nodes
    <3>2. QED
      BY <1>1, <1>4, <3>1, SendToServerType
  <2>3. QED
    BY <2>1, <2>2
<1>8. TypeOK'
  <2>1. /\ UNCHANGED << client, session, link, old, breaks, restarts >>
        /\ ops' = ops + 1
        /\ meddled' \in BOOLEAN
    BY DEF LocalOp
  <2>2. QED
    BY <1>1, <1>5, <1>6, <1>7, <2>1 DEF TypeOK
<1>9. CASE p = Server
  <2>1. storage'[Server] = r.store
    BY <1>1, <1>2, <1>9 DEF TypeOK
  <2>2. QED
    BY <1>3, <1>8, <1>9, <2>1 DEF SafeStep, IInv, ServerIdsConsistent, KeepsIds
<1>10. CASE p # Server
  <2>1. storage'[Server] = storage[Server]
    BY <1>1, <1>2, <1>10 DEF TypeOK, Nodes
  <2>2. QED
    BY <1>8, <2>1, SameServerStore
<1>11. QED
  BY <1>9, <1>10

\* A client connects.
LEMMA ConnectSafe ==
    ASSUME IInv, NEW c \in Clients, Connect(c)
    PROVE  SafeStep
<1>1. << ClientHello >> \in Seq(ClientMsg)
  BY MsgTypes
<1>2. old' \in [Clients -> [session : SessionStates, msgs : Seq(ClientMsg)]]
  <2>1. NoOld \in [session : SessionStates, msgs : Seq(ClientMsg)]
    BY DEF NoOld, SessionStates
  <2>2. [session |-> session[c], msgs |-> toServer[c]]
          \in [session : SessionStates, msgs : Seq(ClientMsg)]
    BY DEF IInv, TypeOK
  <2>3. QED
    BY <2>1, <2>2 DEF Connect, Accept, IInv, TypeOK
<1>3. toServer' \in [Clients -> Seq(ClientMsg)]
      /\ toClient' \in [Clients -> Seq(ServerMsg)]
  BY <1>1 DEF Connect, IInv, TypeOK
<1>4. TypeOK'
  BY <1>2, <1>3 DEF Connect, Accept, IInv, TypeOK, SessionStates
<1>5. QED
  BY <1>4, SameServerStore DEF Connect

\* The server's part of the handshake.
LEMMA SendSnapshotSafe ==
    ASSUME IInv, NEW c \in Clients, SendSnapshot(c)
    PROVE  SafeStep
<1>1. storage[Server] \in Store /\ IsFiniteSet(Names)
  BY NTSyncAssumption DEF NTSyncAssumption, IInv, TypeOK, Nodes
<1> DEFINE hello == ServerHello(GetInitialAssignments(storage[Server]))
<1>2. hello \in ServerMsg
  BY <1>1, GetInitialAssignmentsType DEF ServerHello, ServerMsg, ServerHelloMsg
<1>3. toClient[c] \in Seq(ServerMsg) /\ toServer[c] \in Seq(ClientMsg)
  BY DEF IInv, TypeOK
<1>4. Append(toClient[c], hello) \in Seq(ServerMsg)
  <2> HIDE DEF hello
  <2> QED BY <1>2, <1>3
<1>5. Tail(toServer[c]) \in Seq(ClientMsg)
  BY <1>3 DEF SendSnapshot
<1>6. toServer' \in [Clients -> Seq(ClientMsg)]
  BY <1>5 DEF SendSnapshot, IInv, TypeOK
<1>7. toClient' \in [Clients -> Seq(ServerMsg)]
  BY <1>4 DEF SendSnapshot, IInv, TypeOK
<1>8. TypeOK'
  BY <1>6, <1>7 DEF SendSnapshot, IInv, TypeOK, SessionStates
<1>9. QED
  BY <1>8, SameServerStore DEF SendSnapshot

\* A finite set of messages in some order.
LEMMA SetToSeqsType ==
    ASSUME NEW S, S \subseteq EntryMsg, IsFiniteSet(S), NEW q \in SetToSeqs(S)
    PROVE  q \in Seq(ClientMsg)
<1>1. Cardinality(S) \in Nat
  BY FS_CardinalityType
<1>2. q \in [1 .. Cardinality(S) -> S]
  BY DEF SetToSeqs
<1>3. q \in [1 .. Cardinality(S) -> ClientMsg]
  BY <1>2 DEF ClientMsg
<1>4. QED
  BY <1>1, <1>3

\* The client's part of the handshake.
LEMMA ApplySnapshotSafe ==
    ASSUME IInv, NEW c \in Clients, ApplySnapshot(c)
    PROVE  SafeStep
<1> DEFINE s == storage[c]
           msgs == Head(toClient[c]).assigns
           t == ApplyInitialAssignments(s, msgs)
<1>1. TypeOK /\ c \in Nodes /\ c # Server /\ IsFiniteSet(Names)
  BY NTSyncAssumption DEF NTSyncAssumption, IInv, Nodes
<1>2. s \in Store
  BY <1>1 DEF TypeOK
<1>3. /\ toClient[c] \in Seq(ServerMsg) /\ toClient[c] # << >>
      /\ IsServerHello(Head(toClient[c]))
  BY <1>1 DEF ApplySnapshot, TypeOK
<1>4. Head(toClient[c]) \in ServerMsg /\ Tail(toClient[c]) \in Seq(ServerMsg)
  BY <1>3
<1>5. msgs \in Snapshots
  BY <1>3, <1>4, MsgTypes
<1>6. PICK reqs \in SetToSeqs(InitialRequests(s, msgs)),
           upds \in SetToSeqs(InitialUpdates(s, msgs)) :
        SendToServer(c, reqs \o << ClientHelloDone >> \o upds)
  BY DEF ApplySnapshot
<1>7. /\ storage' = [storage EXCEPT ![c] = t]
      /\ client' = [client EXCEPT ![c] = "Active"]
      /\ toClient' = [toClient EXCEPT ![c] = Tail(@)]
      /\ UNCHANGED << session, link, old, meddled, ops, breaks, restarts >>
  BY DEF ApplySnapshot
<1> HIDE DEF msgs, s
<1>8. t \in Store /\ t.server = s.server
  BY <1>2, <1>5, ApplyInitialAssignmentsType
<1>9. reqs \in Seq(ClientMsg) /\ upds \in Seq(ClientMsg)
  <2>1. /\ InitialRequests(s, msgs) \subseteq EntryMsg
        /\ IsFiniteSet(InitialRequests(s, msgs))
    BY <1>1, <1>2, <1>5, InitialRequestsType
  <2>2. /\ InitialUpdates(s, msgs) \subseteq EntryMsg
        /\ IsFiniteSet(InitialUpdates(s, msgs))
    BY <1>1, <1>2, <1>5, InitialUpdatesType
  <2>3. QED
    BY <1>6, <2>1, <2>2, SetToSeqsType
<1>10. reqs \o << ClientHelloDone >> \o upds \in Seq(ClientMsg)
  <2>1. << ClientHelloDone >> \in Seq(ClientMsg)
    BY MsgTypes
  <2>2. QED
    BY <1>9, <2>1
<1>11. toServer' \in [Clients -> Seq(ClientMsg)]
  BY <1>1, <1>6, <1>10, SendToServerType
<1> HIDE DEF t
<1>12. storage' \in [Nodes -> Store] /\ storage'[Server] = storage[Server]
  BY <1>1, <1>7, <1>8 DEF TypeOK, Nodes
<1>13. \A q \in Nodes : storage'[q].server <=> q = Server
  BY <1>1, <1>7, <1>8 DEF TypeOK, s
<1>14. toClient' \in [Clients -> Seq(ServerMsg)]
  BY <1>1, <1>4, <1>7 DEF TypeOK
<1>15. TypeOK'
  BY <1>1, <1>7, <1>11, <1>12, <1>13, <1>14 DEF TypeOK
<1>16. QED
  BY <1>12, <1>15, SameServerStore

\* A step in which the server processes a message.
LEMMA HandlesSafe ==
    ASSUME IInv, NEW m \in ClientMsg, NEW from, ServerHandles(m, from),
           toServer' \in [Clients -> Seq(ClientMsg)],
           session' \in [Clients -> SessionStates],
           old' \in [Clients -> [session : SessionStates, msgs : Seq(ClientMsg)]],
           UNCHANGED << client, link, meddled, ops, breaks, restarts >>
    PROVE  SafeStep
<1>1. /\ storage' \in [Nodes -> Store]
      /\ \A q \in Nodes : storage'[q].server <=> q = Server
      /\ toClient' \in [Clients -> Seq(ServerMsg)]
      /\ KeepsIds(storage[Server], storage'[Server])
      /\ NoOlderSeq(storage[Server], storage'[Server])
  BY ServerHandlesFacts DEF IInv
<1>2. TypeOK'
  BY <1>1 DEF IInv, TypeOK
<1>3. QED
  BY <1>1, <1>2 DEF SafeStep, IInv, ServerIdsConsistent, KeepsIds

\* The state of a session after a message.
LEMMA StateAfterType ==
    ASSUME NEW state \in SessionStates, NEW m
    PROVE  StateAfter(state, m) \in SessionStates
  BY DEF StateAfter, SessionStates

\* The server reads from a connection.
LEMMA ServerReceiveSafe ==
    ASSUME IInv, NEW c \in Clients, ServerReceive(c)
    PROVE  SafeStep
<1>1. toServer[c] \in Seq(ClientMsg) /\ toServer[c] # << >>
  BY DEF ServerReceive, Readable, IInv, TypeOK
<1>2. Head(toServer[c]) \in ClientMsg /\ Tail(toServer[c]) \in Seq(ClientMsg)
  BY <1>1
<1>3. toServer' \in [Clients -> Seq(ClientMsg)]
  BY <1>2 DEF ServerReceive, IInv, TypeOK
<1>4. session' \in [Clients -> SessionStates]
  BY StateAfterType DEF ServerReceive, IInv, TypeOK
<1>5. QED
  BY <1>2, <1>3, <1>4, HandlesSafe DEF ServerReceive, IInv, TypeOK

\* The server reads from a connection its client has left.
LEMMA ServerReceiveOldSafe ==
    ASSUME IInv, NEW c \in Clients, ServerReceiveOld(c)
    PROVE  SafeStep
<1>1. /\ old[c] \in [session : SessionStates, msgs : Seq(ClientMsg)]
      /\ old[c].msgs # << >>
  BY DEF ServerReceiveOld, Readable, IInv, TypeOK
<1>2. Head(old[c].msgs) \in ClientMsg /\ Tail(old[c].msgs) \in Seq(ClientMsg)
  BY <1>1
<1>3. [session |-> StateAfter(old[c].session, Head(old[c].msgs)),
       msgs |-> Tail(old[c].msgs)]
        \in [session : SessionStates, msgs : Seq(ClientMsg)]
  BY <1>1, <1>2, StateAfterType
<1>4. old' \in [Clients -> [session : SessionStates, msgs : Seq(ClientMsg)]]
  BY <1>3 DEF ServerReceiveOld, IInv, TypeOK
<1>5. QED
  BY <1>2, <1>4, HandlesSafe DEF ServerReceiveOld, IInv, TypeOK

\* A client reads from its connection.
LEMMA ClientReceiveSafe ==
    ASSUME IInv, NEW c \in Clients, ClientReceive(c)
    PROVE  SafeStep
<1> DEFINE r == ProcessIncoming(storage[c], Head(toClient[c]))
<1>1. TypeOK /\ c \in Nodes /\ c # Server
  BY NTSyncAssumption DEF NTSyncAssumption, IInv, Nodes
<1>2. toClient[c] \in Seq(ServerMsg) /\ toClient[c] # << >>
      /\ storage[c] \in Store
  BY <1>1 DEF ClientReceive, TypeOK
<1>3. Head(toClient[c]) \in ServerMsg /\ Tail(toClient[c]) \in Seq(ServerMsg)
  BY <1>2
<1>4. GoodResult(storage[c], r)
  BY <1>2, <1>3, ReceiveType
<1>5. /\ storage' = [storage EXCEPT ![c] = r.store] /\ SendToServer(c, r.out)
      /\ toClient' = [toClient EXCEPT ![c] = Tail(@)]
      /\ UNCHANGED << client, session, link, old, meddled, ops, breaks, restarts >>
  BY DEF ClientReceive
<1> HIDE DEF r
<1>6. r.out \in Seq(ClientMsg)
  BY <1>4, SeqOfEntryMsg DEF GoodResult
<1>7. toServer' \in [Clients -> Seq(ClientMsg)]
  BY <1>1, <1>5, <1>6, SendToServerType
<1>8. /\ storage' \in [Nodes -> Store]
      /\ \A q \in Nodes : storage'[q].server <=> q = Server
  BY <1>1, <1>4, <1>5, StorageType
<1>9. toClient' \in [Clients -> Seq(ServerMsg)]
  BY <1>1, <1>3, <1>5 DEF TypeOK
<1>10. TypeOK'
  BY <1>1, <1>5, <1>7, <1>8, <1>9 DEF TypeOK
<1>11. storage'[Server] = storage[Server]
  BY <1>1, <1>5 DEF TypeOK, Nodes
<1>12. QED
  BY <1>10, <1>11, SameServerStore

\* What a breaking connection still delivers.
LEMMA PostedType ==
    ASSUME TypeOK, NEW c \in Clients
    PROVE  Posted(c) \in Seq(ServerMsg)
<1>1. toClient[c] \in Seq(ServerMsg)
  BY DEF TypeOK
<1>2. toClient[c] # << >> => << Head(toClient[c]) >> \in Seq(ServerMsg)
  BY <1>1
<1>3. CASE session[c] = "Active"
  BY <1>1, <1>3 DEF Posted
<1>4. CASE session[c] # "Active" /\ toClient[c] # << >>
           /\ IsServerHello(Head(toClient[c]))
  BY <1>2, <1>4 DEF Posted
<1>5. CASE ~(session[c] = "Active")
           /\ ~(toClient[c] # << >> /\ IsServerHello(Head(toClient[c])))
  <2>1. Posted(c) = << >>
    BY <1>5 DEF Posted
  <2>2. QED
    BY <2>1
<1>6. QED
  BY <1>3, <1>4, <1>5

\* Connections break and the ends find out.
LEMMA FailuresSafe ==
    ASSUME IInv, NEW c \in Clients,
           \/ Break(c) \/ ClientNotices(c)
           \/ ServerNotices(c) \/ ServerNoticesOld(c)
    PROVE  SafeStep
<1>1. TypeOK /\ UNCHANGED storage
  BY DEF IInv, Break, ClientNotices, ServerNotices, ServerNoticesOld
<1>2. CASE Break(c)
  <2>1. Posted(c) \in Seq(ServerMsg)
    BY <1>1, PostedType
  <2>2. toClient' \in [Clients -> Seq(ServerMsg)]
    BY <1>1, <1>2, <2>1 DEF Break, TypeOK
  <2>3. TypeOK'
    BY <1>1, <1>2, <2>2 DEF Break, TypeOK
  <2>4. QED
    BY <1>1, <2>3, SameServerStore
<1>3. CASE ClientNotices(c)
  <2>1. toClient' \in [Clients -> Seq(ServerMsg)]
    BY <1>1, <1>3 DEF ClientNotices, TypeOK
  <2>2. TypeOK'
    BY <1>1, <1>3, <2>1 DEF ClientNotices, TypeOK
  <2>3. QED
    BY <1>1, <2>2, SameServerStore
<1>4. CASE ServerNotices(c)
  <2>1. toServer' \in [Clients -> Seq(ClientMsg)]
    BY <1>1, <1>4 DEF ServerNotices, TypeOK
  <2>2. TypeOK'
    BY <1>1, <1>4, <2>1 DEF ServerNotices, TypeOK, SessionStates
  <2>3. QED
    BY <1>1, <2>2, SameServerStore
<1>5. CASE ServerNoticesOld(c)
  <2>1. NoOld \in [session : SessionStates, msgs : Seq(ClientMsg)]
    BY DEF NoOld, SessionStates
  <2>2. TypeOK'
    BY <1>1, <1>5, <2>1 DEF ServerNoticesOld, TypeOK
  <2>3. QED
    BY <1>1, <2>2, SameServerStore
<1>6. QED
  BY <1>2, <1>3, <1>4, <1>5

\* The server restarts.
LEMMA ServerRestartSafe ==
    ASSUME IInv, ServerRestart
    PROVE  SafeStep
<1>1. TypeOK
  BY DEF IInv
<1>2. NewStore(TRUE) \in Store /\ NewStore(TRUE).server
      /\ IdsConsistent(NewStore(TRUE))
  <2>1. NewEntry \in Entry
    BY SeqSpaceFacts, StorageAssumption DEF NewEntry, Entry, StorageAssumption
  <2>2. NewStore(TRUE) \in Store /\ NewStore(TRUE).server
    BY <2>1 DEF NewStore, Store
  <2>3. IdsConsistent(NewStore(TRUE))
    BY DEF NewStore, NewEntry, IdsConsistent, IdsMatchEntries,
       SlotsMatchEntries, Has
  <2>4. QED
    BY <2>2, <2>3
<1>3. /\ storage' \in [Nodes -> Store]
      /\ \A q \in Nodes : storage'[q].server <=> q = Server
      /\ storage'[Server] = NewStore(TRUE)
  <2> HIDE DEF NewStore
  <2> QED BY <1>1, <1>2 DEF ServerRestart, TypeOK, Nodes
<1>4. /\ toServer' \in [Clients -> Seq(ClientMsg)]
      /\ old' \in [Clients -> [session : SessionStates, msgs : Seq(ClientMsg)]]
      /\ session' \in [Clients -> SessionStates]
      /\ link' \in [Clients -> {"up", "down"}]
  BY DEF ServerRestart, NoOld, SessionStates
<1>5. toClient' \in [Clients -> Seq(ServerMsg)]
  BY <1>1, PostedType DEF ServerRestart
<1>6. /\ restarts' = restarts + 1 /\ restarts \in Nat
      /\ UNCHANGED << client, meddled, ops, breaks >>
  BY <1>1 DEF ServerRestart, TypeOK
<1>7. restarts' \in Nat /\ restarts' # restarts
  BY <1>6
<1>8. TypeOK'
  BY <1>1, <1>3, <1>4, <1>5, <1>6, <1>7 DEF TypeOK
<1>9. QED
  BY <1>2, <1>3, <1>7, <1>8 DEF SafeStep, ServerIdsConsistent

\* Every step is safe.
LEMMA NextSafe ==
    ASSUME IInv, [Next]_vars
    PROVE  SafeStep
<1>1. ASSUME NEW p \in Nodes, LocalOp(p) PROVE SafeStep
  BY <1>1, LocalOpSafe
<1>2. ASSUME NEW c \in Clients, ProtocolStep(c) PROVE SafeStep
  BY <1>2, ConnectSafe, SendSnapshotSafe, ApplySnapshotSafe, ServerReceiveSafe,
     ServerReceiveOldSafe, ClientReceiveSafe, FailuresSafe DEF ProtocolStep
<1>3. ASSUME NEW c \in Clients, Break(c) PROVE SafeStep
  BY <1>3, FailuresSafe
<1>4. CASE ServerRestart
  BY <1>4, ServerRestartSafe
<1>5. CASE UNCHANGED vars
  <2>1. TypeOK' /\ storage' = storage
    BY <1>5 DEF IInv, TypeOK, vars
  <2>2. QED
    BY <2>1, SameServerStore
<1>6. QED
  BY <1>1, <1>2, <1>3, <1>4, <1>5 DEF Next

-----------------------------------------------------------------------------
(* The theorems *)

\* The invariant is inductive.
THEOREM Invariance == Spec => []IInv
<1>1. Init => IInv
  BY InitIInv
<1>2. IInv /\ [Next]_vars => IInv'
  BY NextSafe DEF SafeStep, IInv
<1>3. QED
  BY <1>1, <1>2, PTL DEF Spec

\* Every state is well-typed, whatever the clients send.
THEOREM TypeCorrect == Spec => []TypeOK
<1>1. IInv => TypeOK
  BY DEF IInv
<1>2. QED
  BY <1>1, Invariance, PTL

\* The server's id map and its entries are each other's inverse, as long as an
\* id is left.
THEOREM ServerIdsStayConsistent == Spec => []ServerIdsConsistent
<1>1. IInv => ServerIdsConsistent
  BY DEF IInv
<1>2. QED
  BY <1>1, Invariance, PTL

\* No entry of a running server goes back to an older sequence number.
THEOREM SeqNeverRegresses == Spec => ServerSeqNeverRegresses
<1> DEFINE A == \A n \in Names :
                   LET e == E(Server, n)
                       f == E(Server, n)'
                   IN  e.id # NoId /\ f.id = e.id /\ restarts' = restarts
                          => ~IsSeqNewerThan(e.seq, f.seq)
<1>1. IInv /\ [Next]_vars => [A]_vars
  <2> SUFFICES ASSUME IInv, [Next]_vars PROVE A
    OBVIOUS
  <2>1. NoOlderSeq(storage[Server], storage'[Server]) \/ restarts' # restarts
    BY NextSafe DEF SafeStep
  <2>2. QED
    BY <2>1 DEF NoOlderSeq, E
<1>2. QED
  BY <1>1, Invariance, PTL DEF Spec, ServerSeqNeverRegresses

-----------------------------------------------------------------------------
(* Ids: the inductive invariant *)

\* What the messages to a client say of ids agrees with the server's map.
AgreesWith(idmap, m) ==
    /\ IsServerHello(m) => \A x \in m.assigns : Agrees(idmap, x)
    /\ m.type = "EntryAssign" => Agrees(idmap, m)

EveryIdResolves == \A p \in Nodes : IdsResolve(storage[p])

SnapshotsAreSound ==
    \A c \in Clients : \A i \in 1 .. Len(toClient[c]) :
        IsServerHello(toClient[c][i]) => IsSnapshot(toClient[c][i].assigns)

\* On a connection that works, whatever the server has done to its map since:
\* the messages were sent by this server, and its slots keep their names.
AssignmentsAgree ==
    \A c \in Clients : link[c] = "up" =>
        \A i \in 1 .. Len(toClient[c]) :
            AgreesWith(storage[Server].idmap, toClient[c][i])

\* Every slot of one map is empty, or what the other has there or had.
SlotsAgree(idmap, servers) ==
    \A k \in 1 .. Len(idmap) : idmap[k] # NoName =>
        k <= Len(servers) /\ servers[k] \in {idmap[k], NoName}

IdInv ==
    /\ EveryIdResolves
    /\ SnapshotsAreSound
    /\ AssignmentsAgree
    /\ IdsAgree

\* No message of a sequence is new to another.
Among(q, r) == \A i \in 1 .. Len(q) : \E j \in 1 .. Len(r) : q[i] = r[j]

\* What is left when the first message was read.
LEMMA AmongFacts ==
    ASSUME NEW T, NEW q \in Seq(T)
    PROVE  /\ Among(q, q) /\ Among(<< >>, q)
           /\ q # << >> => Among(Tail(q), q) /\ Among(<< Head(q) >>, q)
                           /\ 1 \in 1 .. Len(q) /\ Head(q) = q[1]
<1>1. Among(q, q) /\ Among(<< >>, q)
  BY DEF Among
<1>2. ASSUME q # << >> PROVE Among(Tail(q), q)
  <2>1. /\ Len(q) \in Nat /\ Len(q) > 0 /\ Len(Tail(q)) = Len(q) - 1
        /\ \A i \in 1 .. Len(Tail(q)) : Tail(q)[i] = q[i + 1]
    BY <1>2
  <2>2. \A i \in 1 .. Len(Tail(q)) : i + 1 \in 1 .. Len(q)
    BY <2>1
  <2>3. QED
    BY <2>1, <2>2 DEF Among
<1>3. ASSUME q # << >>
      PROVE  Among(<< Head(q) >>, q) /\ 1 \in 1 .. Len(q) /\ Head(q) = q[1]
  <2>1. 1 \in 1 .. Len(q) /\ Head(q) = q[1]
    BY <1>3
  <2>2. Len(<< Head(q) >>) = 1 /\ << Head(q) >>[1] = Head(q)
    OBVIOUS
  <2>3. QED
    BY <2>1, <2>2 DEF Among
<1>4. QED
  BY <1>1, <1>2, <1>3

\* Which messages to a client have ids: those about entries are no hellos, and
\* a hello is not an assignment.
LEMMA AssignIds ==
    ASSUME NEW m \in ServerMsg
    PROVE  /\ m.type = "EntryAssign" => m.id \in Nat /\ ~IsServerHello(m)
           /\ IsServerHello(m) => \A x \in m.assigns : x.id \in Nat
           /\ m \in EntryMsg => ~IsServerHello(m)
<1>1. m \in EntryMsg => m.type # "ServerHello"
  BY MsgFields DEF EntryMsg
<1>2. m \in ServerHelloMsg => m.type = "ServerHello"
  BY DEF ServerHelloMsg
<1>3. m \in EntryMsg /\ m.type = "EntryAssign" => m \in AssignMsg
  BY MsgFields DEF EntryMsg
<1>4. m \in ServerHelloMsg => \A x \in m.assigns : x \in AssignMsg
  BY DEF ServerHelloMsg, Snapshots
<1>5. QED
  BY <1>1, <1>2, <1>3, <1>4, MsgFields DEF ServerMsg, IsServerHello

\* Agreement with the server's map lasts.
LEMMA AgreesWithPersists ==
    ASSUME NEW idmap \in Slots, NEW new \in Slots, SlotsPersist(idmap, new),
           NEW m \in ServerMsg, AgreesWith(idmap, m)
    PROVE  AgreesWith(new, m)
  BY AssignIds, AgreesPersists DEF AgreesWith

\* The steps in which the server's store stays as it is, and nothing is sent to
\* a client.
LEMMA ClientSideKeepsIds ==
    ASSUME IdInv, storage'[Server] = storage[Server],
           \A c \in Clients :
              /\ Among(toClient'[c], toClient[c])
              /\ IdsResolve(storage'[c])
              /\ link'[c] = "up" => link[c] = "up" \/ toClient'[c] = << >>
              /\ client'[c] = "Active" /\ link'[c] = "up" =>
                    SlotsAgree(storage'[c].idmap, storage[Server].idmap)
    PROVE  IdInv'
<1>1. EveryIdResolves'
  BY DEF EveryIdResolves, IdInv, Nodes
<1>2. SnapshotsAreSound'
  <2>1. ASSUME NEW c \in Clients, NEW i \in 1 .. Len(toClient'[c]),
               IsServerHello(toClient'[c][i])
        PROVE  IsSnapshot(toClient'[c][i].assigns)
    <3>1. PICK j \in 1 .. Len(toClient[c]) : toClient'[c][i] = toClient[c][j]
      BY DEF Among
    <3>2. QED
      BY <2>1, <3>1 DEF IdInv, SnapshotsAreSound
  <2>2. QED
    BY <2>1 DEF SnapshotsAreSound
<1>3. AssignmentsAgree'
  <2>1. ASSUME NEW c \in Clients, link'[c] = "up",
               NEW i \in 1 .. Len(toClient'[c])
        PROVE  AgreesWith(storage[Server].idmap, toClient'[c][i])
    <3>1. PICK j \in 1 .. Len(toClient[c]) : toClient'[c][i] = toClient[c][j]
      BY DEF Among
    <3>2. link[c] = "up"
      BY <2>1
    <3>3. QED
      BY <3>1, <3>2 DEF IdInv, AssignmentsAgree
  <2>2. QED
    BY <2>1 DEF AssignmentsAgree
<1>4. IdsAgree'
  BY DEF IdsAgree, SlotsAgree
<1>5. QED
  BY <1>1, <1>2, <1>3, <1>4 DEF IdInv

\* What IdsAgree says of one client.
LEMMA IdsAgreeIs ==
    IdsAgree <=>
        \A c \in Clients : client[c] = "Active" /\ link[c] = "up" =>
            SlotsAgree(storage[c].idmap, storage[Server].idmap)
  BY DEF IdsAgree, SlotsAgree

\* The steps in which the server's store changes, and messages that agree with
\* its new map are sent.
LEMMA ServerSideKeepsIds ==
    ASSUME TypeOK, TypeOK', IdInv, NEW out \in Seq(EntryMsg),
           IdsResolve(storage'[Server]),
           SlotsPersist(storage[Server].idmap, storage'[Server].idmap),
           AllAgreeWith(storage'[Server].idmap, out),
           UNCHANGED << client, link >>,
           \A c \in Clients :
              /\ storage'[c] = storage[c]
              /\ toClient'[c] \in {toClient[c], toClient[c] \o out}
    PROVE  IdInv'
<1> DEFINE smap == storage[Server].idmap
           new == storage'[Server].idmap
<1>1. smap \in Slots /\ new \in Slots /\ Len(smap) \in Nat /\ Len(new) \in Nat
  BY StoreLen DEF TypeOK, Nodes
<1>2. ASSUME NEW c \in Clients, NEW i \in 1 .. Len(toClient'[c])
      PROVE  \/ /\ i \in 1 .. Len(toClient[c])
                /\ toClient'[c][i] = toClient[c][i]
                /\ toClient[c][i] \in ServerMsg
             \/ /\ toClient'[c][i] \in EntryMsg /\ toClient'[c][i] \in ServerMsg
                /\ toClient'[c][i].type = "EntryAssign"
                      => Agrees(new, toClient'[c][i])
  <2>1. toClient[c] \in Seq(ServerMsg)
    BY DEF TypeOK
  <2>2. CASE i \in 1 .. Len(toClient[c])
    BY <2>1, <2>2
  <2>3. CASE i \notin 1 .. Len(toClient[c])
    <3>1. toClient'[c] = toClient[c] \o out
      BY <1>2, <2>3
    <3>2. PICK j \in 1 .. Len(out) : toClient'[c][i] = out[j]
      <4>1. /\ i \in 1 .. Len(toClient[c]) + Len(out) /\ Len(toClient[c]) \in Nat
            /\ Len(out) \in Nat
        BY <1>2, <2>1, <3>1
      <4>2. /\ i - Len(toClient[c]) \in 1 .. Len(out)
            /\ toClient'[c][i] = out[i - Len(toClient[c])]
        BY <2>1, <2>3, <3>1, <4>1
      <4>3. QED
        BY <4>2
    <3>3. out[j] \in EntryMsg
      OBVIOUS
    <3>4. QED
      BY <3>2, <3>3, MsgTypes DEF AllAgreeWith
  <2>4. QED
    BY <2>2, <2>3
<1>3. EveryIdResolves'
  BY DEF EveryIdResolves, IdInv, Nodes
<1>4. SnapshotsAreSound'
  <2>1. ASSUME NEW c \in Clients, NEW i \in 1 .. Len(toClient'[c]),
               IsServerHello(toClient'[c][i])
        PROVE  IsSnapshot(toClient'[c][i].assigns)
    BY <1>2, <2>1, AssignIds DEF IdInv, SnapshotsAreSound
  <2>2. QED
    BY <2>1 DEF SnapshotsAreSound
<1>5. AssignmentsAgree'
  <2>1. ASSUME NEW c \in Clients, link'[c] = "up",
               NEW i \in 1 .. Len(toClient'[c])
        PROVE  AgreesWith(new, toClient'[c][i])
    <3>1. CASE i \in 1 .. Len(toClient[c]) /\ toClient'[c][i] = toClient[c][i]
               /\ toClient[c][i] \in ServerMsg
      <4>1. AgreesWith(smap, toClient[c][i])
        BY <2>1, <3>1 DEF IdInv, AssignmentsAgree
      <4> HIDE DEF smap, new
      <4>2. AgreesWith(new, toClient[c][i])
        BY <1>1, <3>1, <4>1, AgreesWithPersists DEF smap, new
      <4>3. QED
        BY <3>1, <4>2
    <3>2. CASE /\ toClient'[c][i] \in EntryMsg /\ toClient'[c][i] \in ServerMsg
               /\ toClient'[c][i].type = "EntryAssign"
                     => Agrees(new, toClient'[c][i])
      BY <3>2, AssignIds DEF AgreesWith
    <3>3. QED
      BY <1>2, <3>1, <3>2
  <2>2. QED
    BY <2>1 DEF AssignmentsAgree
<1>6. IdsAgree'
  <2>1. ASSUME NEW c \in Clients, client'[c] = "Active", link'[c] = "up"
        PROVE  SlotsAgree(storage'[c].idmap, new)
    <3>1. SlotsAgree(storage[c].idmap, smap)
      BY <2>1, IdsAgreeIs DEF IdInv
    <3>2. storage'[c].idmap = storage[c].idmap /\ Len(storage[c].idmap) \in Nat
      BY StoreLen DEF TypeOK, Nodes
    <3> DEFINE cmap == storage[c].idmap
    <3>3. ASSUME NEW k \in 1 .. Len(cmap), cmap[k] # NoName
          PROVE  k <= Len(new) /\ new[k] \in {cmap[k], NoName}
      <4>1. k <= Len(smap) /\ smap[k] \in {cmap[k], NoName}
        BY <3>1, <3>3 DEF SlotsAgree
      <4>2. k \in 1 .. Len(smap) /\ k <= Len(new)
        BY <1>1, <3>2, <4>1 DEF SlotsPersist
      <4>3. new[k] \in {smap[k], NoName}
        BY <4>2 DEF SlotsPersist
      <4>4. QED
        BY <4>1, <4>2, <4>3
    <3>4. QED
      BY <3>2, <3>3 DEF SlotsAgree
  <2>2. QED
    BY <2>1 DEF IdsAgree, SlotsAgree
<1>7. QED
  BY <1>3, <1>4, <1>5, <1>6 DEF IdInv

-----------------------------------------------------------------------------
(* Ids: the steps *)

\* Before the first connection there are no ids.
LEMMA InitIds == Init => IdInv
<1> SUFFICES ASSUME Init PROVE IdInv
  OBVIOUS
<1>1. \A b \in BOOLEAN : IdsResolve(NewStore(b))
  BY DEF IdsResolve, NewStore, NewEntry
<1>2. \A p \in Nodes : storage[p] = NewStore(p = Server)
  BY DEF Init
<1>3. EveryIdResolves
  BY <1>1, <1>2 DEF EveryIdResolves
<1>4. \A c \in Clients :
        toClient[c] = << >> /\ link[c] = "down" /\ client[c] = "Dead"
  BY DEF Init
<1>5. QED
  BY <1>3, <1>4
     DEF IdInv, SnapshotsAreSound, AssignmentsAgree, IdsAgree

\* What a user's call does to the ids: a client's gives none.
LEMMA LocalResultsGoodIds ==
    ASSUME TypeOK, NEW p \in Nodes, NEW r \in LocalResults(p)
    PROVE  GoodIds(storage[p], r, {})
<1> DEFINE s == storage[p]
<1>1. s \in Store /\ TRUE \in BOOLEAN
  BY DEF TypeOK
<1>2. \/ \E n \in Names, v \in Values :
            r \in {SetDefaultEntryValue(s, n, v), SetEntryValue(s, n, v),
                   SetEntryTypeValue(s, n, v)}
      \/ \E n \in Names, f \in BOOLEAN : r = SetEntryFlags(s, n, f)
      \/ \E n \in Names : r = DeleteEntry(s, n)
      \/ r = DeleteAllEntries(s)
  BY DEF LocalResults, UserOperations
<1> HIDE DEF s
<1>3. CASE \E n \in Names, v \in Values :
              r \in {SetDefaultEntryValue(s, n, v), SetEntryValue(s, n, v),
                     SetEntryTypeValue(s, n, v)}
  BY <1>1, <1>3, LocalOperationsGoodIds DEF s
<1>4. CASE \E n \in Names, f \in BOOLEAN : r = SetEntryFlags(s, n, f)
  BY <1>1, <1>4, SetEntryFlagsImplGoodIds DEF s, SetEntryFlags
<1>5. CASE \E n \in Names : r = DeleteEntry(s, n)
  BY <1>1, <1>5, DeleteEntryImplGoodIds DEF s, DeleteEntry
<1>6. CASE r = DeleteAllEntries(s)
  BY <1>1, <1>6, DeleteAllEntriesGoodIds DEF s
<1>7. QED
  BY <1>2, <1>3, <1>4, <1>5, <1>6

\* A broadcast appends to the channels of some clients.
LEMMA BroadcastAppends ==
    ASSUME NEW out, NEW except, Broadcast(out, except)
    PROVE  \A c \in Clients : toClient'[c] \in {toClient[c], toClient[c] \o out}
  BY DEF Broadcast

\* What the server does to its own store.
LEMMA ServerResultKeepsIds ==
    ASSUME TypeOK, TypeOK', IdInv, NEW told, NEW r, NEW except,
           GoodResult(storage[Server], r), GoodIds(storage[Server], r, told),
           storage' = [storage EXCEPT ![Server] = r.store],
           Broadcast(r.out, except),
           UNCHANGED << client, link >>
    PROVE  IdInv'
<1>1. /\ storage[Server] \in Store /\ storage[Server].server
      /\ IdsResolve(storage[Server])
  BY DEF TypeOK, Nodes, IdInv, EveryIdResolves
<1>2. r.store \in Store /\ r.out \in Seq(EntryMsg)
  BY DEF GoodResult
<1>3. IdStep(storage[Server], r.store, told) /\ AllAgreeWith(r.store.idmap, r.out)
  BY <1>1 DEF GoodIds
<1>4. storage'[Server] = r.store /\ \A c \in Clients : storage'[c] = storage[c]
  BY NTSyncAssumption DEF NTSyncAssumption, TypeOK, Nodes
<1>5. IdsResolve(r.store)
  BY <1>1, <1>2, <1>3, IdStepResolves
<1>6. SlotsPersist(storage[Server].idmap, r.store.idmap)
  BY <1>1, <1>2, <1>3, IdStepPersists
<1>7. \A c \in Clients : toClient'[c] \in {toClient[c], toClient[c] \o r.out}
  BY BroadcastAppends
<1>8. QED
  BY <1>2, <1>3, <1>4, <1>5, <1>6, <1>7, ServerSideKeepsIds

\* A step of one client that changes its own store and reads at most one
\* message.
LEMMA ClientResultKeepsIds ==
    ASSUME TypeOK, IdInv, NEW c \in Clients, NEW t,
           storage' = [storage EXCEPT ![c] = t], IdsResolve(t),
           toClient' \in {toClient, [toClient EXCEPT ![c] = Tail(@)]},
           toClient' # toClient => toClient[c] # << >>,
           UNCHANGED link,
           \A d \in Clients \ {c} : client'[d] = client[d],
           client'[c] = "Active" /\ link[c] = "up" =>
              SlotsAgree(t.idmap, storage[Server].idmap)
    PROVE  IdInv'
<1>1. /\ storage'[Server] = storage[Server] /\ storage'[c] = t
      /\ \A d \in Clients \ {c} : storage'[d] = storage[d]
  BY NTSyncAssumption DEF NTSyncAssumption, TypeOK, Nodes
<1>2. ASSUME NEW d \in Clients PROVE Among(toClient'[d], toClient[d])
  <2>1. toClient[d] \in Seq(ServerMsg)
    BY DEF TypeOK
  <2>2. CASE toClient'[d] = toClient[d]
    BY <2>1, <2>2, AmongFacts
  <2>3. CASE toClient'[d] # toClient[d]
    <3>1. d = c /\ toClient[d] # << >> /\ toClient'[d] = Tail(toClient[d])
      BY <2>3 DEF TypeOK
    <3>2. QED
      BY <2>1, <3>1, AmongFacts
  <2>4. QED
    BY <2>2, <2>3
<1>3. \A d \in Clients : IdsResolve(storage'[d])
  BY <1>1 DEF IdInv, EveryIdResolves, Nodes
<1>4. ASSUME NEW d \in Clients, client'[d] = "Active", link'[d] = "up"
      PROVE  SlotsAgree(storage'[d].idmap, storage[Server].idmap)
  BY <1>1, <1>4, IdsAgreeIs DEF IdInv
<1>5. QED
  BY <1>1, <1>2, <1>3, <1>4, ClientSideKeepsIds

\* Local operations.
LEMMA LocalOpKeepsIds ==
    ASSUME IInv, TypeOK', IdInv, NEW p \in Nodes, LocalOp(p)
    PROVE  IdInv'
<1>1. TypeOK
  BY DEF IInv
<1>2. PICK r \in LocalResults(p) :
        /\ storage' = [storage EXCEPT ![p] = r.store]
        /\ IF p = Server THEN Broadcast(r.out, Server) ELSE UNCHANGED toClient
  BY DEF LocalOp
<1>3. UNCHANGED << client, link >>
  BY DEF LocalOp
<1>4. GoodResult(storage[p], r) /\ GoodIds(storage[p], r, {})
  BY <1>1, LocalResultsFacts, LocalResultsGoodIds
<1>5. CASE p = Server
  BY <1>1, <1>2, <1>3, <1>4, <1>5, ServerResultKeepsIds
<1>6. CASE p # Server
  <2>1. p \in Clients /\ storage[p] \in Store /\ ~storage[p].server
    BY <1>1, <1>6 DEF Nodes, TypeOK
  <2>2. r.store \in Store /\ IdStep(storage[p], r.store, {})
    BY <1>4 DEF GoodResult, GoodIds
  <2>3. IdsResolve(r.store)
    BY <2>1, <2>2, IdStepResolves DEF IdInv, EveryIdResolves
  <2>4. ASSUME client'[p] = "Active", link[p] = "up"
        PROVE  SlotsAgree(r.store.idmap, storage[Server].idmap)
    <3>1. SlotsAgree(storage[p].idmap, storage[Server].idmap)
      BY <1>3, <2>1, <2>4, IdsAgreeIs DEF IdInv
    <3>2. ASSUME NEW k \in 1 .. Len(r.store.idmap), r.store.idmap[k] # NoName
          PROVE  /\ k \in 1 .. Len(storage[p].idmap)
                 /\ r.store.idmap[k] = storage[p].idmap[k]
      <4>1. << r.store.idmap[k], k - 1 >> \notin {}
        OBVIOUS
      <4>2. QED
        BY <2>1, <2>2, <3>2, <4>1, IdStepOfClient
    <3>3. QED
      BY <3>1, <3>2 DEF SlotsAgree
  <2>5. QED
    BY <1>1, <1>2, <1>3, <1>6, <2>1, <2>3, <2>4, ClientResultKeepsIds
<1>7. QED
  BY <1>5, <1>6

\* The server processes a message.
LEMMA HandlesKeepsIds ==
    ASSUME IInv, TypeOK', IdInv, NEW m \in ClientMsg, NEW from,
           ServerHandles(m, from), UNCHANGED << client, link >>
    PROVE  IdInv'
<1> DEFINE s == storage[Server]
           r == ProcessIncoming(s, m)
<1>1. s \in Store /\ TypeOK
  BY DEF IInv, TypeOK, Nodes
<1>2. CASE m = ClientHelloDone
  <2>1. storage' = storage /\ toClient' = toClient
    BY <1>2 DEF ServerHandles
  <2>2. QED
    BY <2>1 DEF IdInv, EveryIdResolves, SnapshotsAreSound, AssignmentsAgree,
       IdsAgree
<1>3. CASE m # ClientHelloDone
  <2>1. /\ storage' = [storage EXCEPT ![Server] = r.store]
        /\ Broadcast(r.out, IF r.toSender THEN Server ELSE from)
    BY <1>3 DEF ServerHandles
  <2>2. GoodResult(s, r)
    BY <1>1, ReceiveType
  <2>3. GoodIds(s, r, Told(m))
    <3>1. CASE m \in EntryMsg
      BY <1>1, <3>1, ProcessIncomingGoodIds
    <3>2. CASE m = ClientHello
      <4>1. r = Ignored(s)
        BY <3>2 DEF ClientHello, ProcessIncoming
      <4>2. QED
        BY <1>1, <4>1, IgnoredGoodIds
    <3>3. QED
      BY <1>3, <3>1, <3>2 DEF ClientMsg
  <2> HIDE DEF r
  <2>4. QED
    BY <1>1, <2>1, <2>2, <2>3, ServerResultKeepsIds
<1>4. QED
  BY <1>2, <1>3

\* The server's part of the handshake.
LEMMA SendSnapshotKeepsIds ==
    ASSUME IInv, IdInv, NEW c \in Clients, SendSnapshot(c)
    PROVE  IdInv'
<1> DEFINE s == storage[Server]
           hello == ServerHello(GetInitialAssignments(s))
<1>1. TypeOK /\ s \in Store /\ IdsResolve(s)
  BY DEF IInv, TypeOK, Nodes, IdInv, EveryIdResolves
<1>2. /\ UNCHANGED << storage, client, link >>
      /\ \A d \in Clients \ {c} : toClient'[d] = toClient[d]
      /\ toClient'[c] \in {toClient[c], Append(toClient[c], hello)}
  BY <1>1 DEF SendSnapshot, TypeOK
<1>3. /\ IsServerHello(hello) => IsSnapshot(hello.assigns)
      /\ AgreesWith(s.idmap, hello)
  BY <1>1, GetInitialAssignmentsSound
     DEF ServerHello, IsServerHello, AgreesWith
<1> HIDE DEF hello
<1>4. ASSUME NEW d \in Clients, NEW i \in 1 .. Len(toClient'[d])
      PROVE  \/ i \in 1 .. Len(toClient[d]) /\ toClient'[d][i] = toClient[d][i]
             \/ toClient'[d][i] = hello
  <2>1. toClient[d] \in Seq(ServerMsg)
    BY <1>1 DEF TypeOK
  <2>2. CASE toClient'[d] = toClient[d]
    BY <1>4, <2>2
  <2>3. CASE toClient'[d] = Append(toClient[d], hello)
    BY <1>4, <2>1, <2>3
  <2>4. QED
    BY <1>2, <2>2, <2>3
<1>5. EveryIdResolves'
  BY <1>2 DEF IdInv, EveryIdResolves
<1>6. SnapshotsAreSound'
  <2>1. ASSUME NEW d \in Clients, NEW i \in 1 .. Len(toClient'[d]),
               IsServerHello(toClient'[d][i])
        PROVE  IsSnapshot(toClient'[d][i].assigns)
    BY <1>3, <1>4, <2>1 DEF IdInv, SnapshotsAreSound
  <2>2. QED
    BY <2>1 DEF SnapshotsAreSound
<1>7. AssignmentsAgree'
  <2>1. ASSUME NEW d \in Clients, link'[d] = "up",
               NEW i \in 1 .. Len(toClient'[d])
        PROVE  AgreesWith(storage[Server].idmap, toClient'[d][i])
    BY <1>2, <1>3, <1>4, <2>1 DEF IdInv, AssignmentsAgree
  <2>2. QED
    BY <1>2, <2>1 DEF AssignmentsAgree
<1>8. IdsAgree'
  BY <1>2 DEF IdInv, IdsAgree
<1>9. QED
  BY <1>5, <1>6, <1>7, <1>8 DEF IdInv

\* The client's part of the handshake.
LEMMA ApplySnapshotKeepsIds ==
    ASSUME IInv, IdInv, NEW c \in Clients, ApplySnapshot(c)
    PROVE  IdInv'
<1> DEFINE s == storage[c]
           msgs == Head(toClient[c]).assigns
           t == ApplyInitialAssignments(s, msgs)
<1>1. TypeOK /\ s \in Store
  BY DEF IInv, TypeOK, Nodes
<1>2. /\ toClient[c] \in Seq(ServerMsg) /\ toClient[c] # << >>
      /\ IsServerHello(Head(toClient[c]))
  BY <1>1 DEF ApplySnapshot, TypeOK
<1>3. 1 \in 1 .. Len(toClient[c]) /\ Head(toClient[c]) = toClient[c][1]
  BY <1>2, AmongFacts
<1>4. msgs \in Snapshots /\ IsSnapshot(msgs)
  BY <1>2, <1>3, MsgTypes DEF IdInv, SnapshotsAreSound
<1>5. link[c] = "up" => \A m \in msgs : Agrees(storage[Server].idmap, m)
  BY <1>2, <1>3 DEF IdInv, AssignmentsAgree, AgreesWith
<1>6. /\ storage' = [storage EXCEPT ![c] = t]
      /\ toClient' = [toClient EXCEPT ![c] = Tail(@)]
      /\ client' = [client EXCEPT ![c] = "Active"]
      /\ UNCHANGED link
  BY DEF ApplySnapshot
<1> HIDE DEF msgs, s
<1>7. /\ IdsResolve(t) /\ t \in Store
      /\ \A k \in 1 .. Len(t.idmap) : t.idmap[k] # NoName =>
            \E m \in msgs : m.id = k - 1 /\ m.id # NoId /\ m.name = t.idmap[k]
  BY <1>1, <1>4, ApplyInitialAssignmentsResolves, ApplyInitialAssignmentsType
<1> HIDE DEF t
<1>8. ASSUME link[c] = "up"
      PROVE  SlotsAgree(t.idmap, storage[Server].idmap)
  <2>1. ASSUME NEW k \in 1 .. Len(t.idmap), t.idmap[k] # NoName
        PROVE  /\ k <= Len(storage[Server].idmap)
               /\ storage[Server].idmap[k] \in {t.idmap[k], NoName}
    <3>1. PICK m \in msgs : m.id = k - 1 /\ m.id # NoId /\ m.name = t.idmap[k]
      BY <1>7, <2>1
    <3>2. Agrees(storage[Server].idmap, m)
      BY <1>5, <1>8
    <3>3. m.id + 1 = k /\ Len(storage[Server].idmap) \in Nat
          /\ Len(t.idmap) \in Nat
      BY <1>1, <1>7, <3>1, StoreLen DEF TypeOK, Nodes
    <3>4. QED
      BY <3>1, <3>2, <3>3 DEF Agrees
  <2>2. QED
    BY <2>1 DEF SlotsAgree
<1>9. \A d \in Clients \ {c} : client'[d] = client[d]
  BY <1>1, <1>6 DEF TypeOK
<1>10. QED
  BY <1>1, <1>2, <1>6, <1>7, <1>8, <1>9, ClientResultKeepsIds

\* A client reads from its connection.
LEMMA ClientReceiveKeepsIds ==
    ASSUME IInv, IdInv, NEW c \in Clients, ClientReceive(c)
    PROVE  IdInv'
<1> DEFINE s == storage[c]
           m == Head(toClient[c])
           r == ProcessIncoming(s, m)
<1>1. TypeOK /\ s \in Store /\ ~s.server
  BY NTSyncAssumption DEF NTSyncAssumption, IInv, TypeOK, Nodes
<1>2. toClient[c] \in Seq(ServerMsg) /\ toClient[c] # << >>
  BY <1>1 DEF ClientReceive, TypeOK
<1>3. 1 \in 1 .. Len(toClient[c]) /\ m = toClient[c][1] /\ m \in ServerMsg
  BY <1>2, AmongFacts
<1>4. link[c] = "up" => AgreesWith(storage[Server].idmap, m)
  BY <1>3 DEF IdInv, AssignmentsAgree
<1>5. /\ storage' = [storage EXCEPT ![c] = r.store]
      /\ toClient' = [toClient EXCEPT ![c] = Tail(@)]
      /\ UNCHANGED << client, link >> /\ client[c] = "Active"
  BY DEF ClientReceive
<1> HIDE DEF m, s
<1>6. GoodIds(s, r, Told(m)) /\ r.store \in Store
  <2>1. r.store \in Store
    BY <1>1, <1>3, ReceiveType DEF GoodResult
  <2>2. CASE m \in EntryMsg
    BY <1>1, <2>1, <2>2, ProcessIncomingGoodIds
  <2>3. CASE m \in ServerHelloMsg
    <3>1. r = Ignored(s)
      BY <2>3 DEF ServerHelloMsg, ProcessIncoming
    <3>2. QED
      BY <1>1, <2>1, <3>1, IgnoredGoodIds
  <2>4. QED
    BY <1>3, <2>2, <2>3 DEF ServerMsg
<1> HIDE DEF r
<1>7. IdsResolve(r.store)
  BY <1>1, <1>6, IdStepResolves DEF GoodIds, IdInv, EveryIdResolves, Nodes, s
<1>8. ASSUME link[c] = "up"
      PROVE  SlotsAgree(r.store.idmap, storage[Server].idmap)
  <2> DEFINE smap == storage[Server].idmap
  <2>1. SlotsAgree(s.idmap, smap)
    BY <1>5, <1>8, IdsAgreeIs DEF IdInv, s
  <2>2. ASSUME NEW k \in 1 .. Len(r.store.idmap), r.store.idmap[k] # NoName
        PROVE  k <= Len(smap) /\ smap[k] \in {r.store.idmap[k], NoName}
    <3>1. CASE k \in 1 .. Len(s.idmap) /\ r.store.idmap[k] = s.idmap[k]
      BY <2>1, <2>2, <3>1 DEF SlotsAgree
    <3>2. CASE << r.store.idmap[k], k - 1 >> \in Told(m)
      <4>1. /\ m.type = "EntryAssign" /\ m.id # NoId /\ m.id = k - 1
            /\ m.name = r.store.idmap[k]
        BY <3>2 DEF Told
      <4>2. Agrees(smap, m)
        BY <1>4, <1>8, <4>1 DEF AgreesWith
      <4>3. m.id + 1 = k /\ Len(smap) \in Nat /\ Len(r.store.idmap) \in Nat
        BY <1>1, <1>6, <4>1, StoreLen DEF TypeOK, Nodes
      <4>4. QED
        BY <4>1, <4>2, <4>3 DEF Agrees
    <3>3. QED
      BY <1>1, <1>6, <2>2, <3>1, <3>2, IdStepOfClient DEF GoodIds
  <2>3. QED
    BY <2>2 DEF SlotsAgree
<1>9. QED
  BY <1>1, <1>2, <1>5, <1>7, <1>8, ClientResultKeepsIds

\* What a breaking connection still delivers had been sent.
LEMMA PostedAmong ==
    ASSUME TypeOK, NEW c \in Clients
    PROVE  Among(Posted(c), toClient[c])
<1>1. toClient[c] \in Seq(ServerMsg)
  BY DEF TypeOK
<1>2. \/ Posted(c) \in {toClient[c], << >>}
      \/ /\ toClient[c] # << >>
         /\ Posted(c) = << Head(toClient[c]) >>
  <2>1. CASE session[c] = "Active"
    BY <2>1 DEF Posted
  <2>2. CASE session[c] # "Active" /\ toClient[c] # << >>
             /\ IsServerHello(Head(toClient[c]))
    BY <2>2 DEF Posted
  <2>3. CASE ~(session[c] = "Active")
             /\ ~(toClient[c] # << >> /\ IsServerHello(Head(toClient[c])))
    BY <2>3 DEF Posted
  <2>4. QED
    BY <2>1, <2>2, <2>3
<1>3. QED
  BY <1>1, <1>2, AmongFacts

\* Connections are opened, break and are given up.
LEMMA LinksKeepIds ==
    ASSUME IInv, IdInv, NEW c \in Clients,
           \/ Connect(c) \/ Break(c) \/ ClientNotices(c)
           \/ ServerNotices(c) \/ ServerNoticesOld(c)
    PROVE  IdInv'
<1>1. TypeOK /\ storage' = storage
  BY DEF IInv, Connect, Break, ClientNotices, ServerNotices, ServerNoticesOld
<1>2. /\ toClient[c] \in Seq(ServerMsg)
      /\ Among(toClient[c], toClient[c]) /\ Among(<< >>, toClient[c])
      /\ Among(Posted(c), toClient[c])
  BY <1>1, PostedAmong, AmongFacts DEF TypeOK
<1>3. \A d \in Clients \ {c} :
        /\ toClient'[d] = toClient[d] /\ link'[d] = link[d]
        /\ client'[d] = client[d]
  BY <1>1 DEF TypeOK, Connect, Break, ClientNotices, ServerNotices,
     ServerNoticesOld
<1>4. /\ toClient'[c] \in {toClient[c], << >>, Posted(c)}
      /\ link'[c] = "up" => link[c] = "up" \/ toClient'[c] = << >>
      /\ client'[c] = "Active" /\ link'[c] = "up" =>
            client[c] = "Active" /\ link[c] = "up"
  BY <1>1 DEF TypeOK, Connect, Break, ClientNotices, ServerNotices,
     ServerNoticesOld
<1>5. ASSUME NEW d \in Clients
      PROVE  /\ Among(toClient'[d], toClient[d])
             /\ IdsResolve(storage'[d])
             /\ link'[d] = "up" => link[d] = "up" \/ toClient'[d] = << >>
             /\ client'[d] = "Active" /\ link'[d] = "up" =>
                   SlotsAgree(storage'[d].idmap, storage[Server].idmap)
  <2>1. toClient[d] \in Seq(ServerMsg) /\ Among(toClient[d], toClient[d])
    BY <1>1, AmongFacts DEF TypeOK
  <2>2. IdsResolve(storage'[d])
    BY <1>1 DEF IdInv, EveryIdResolves, Nodes
  <2>3. client[d] = "Active" /\ link[d] = "up" =>
           SlotsAgree(storage'[d].idmap, storage[Server].idmap)
    BY <1>1, IdsAgreeIs DEF IdInv
  <2>4. QED
    BY <1>2, <1>3, <1>4, <2>1, <2>2, <2>3
<1>6. QED
  BY <1>1, <1>5, ClientSideKeepsIds

\* The server restarts: its ids start anew, and so do the connections.
LEMMA RestartKeepsIds ==
    ASSUME IInv, IdInv, ServerRestart
    PROVE  IdInv'
<1>1. TypeOK
  BY DEF IInv
<1>2. \A c \in Clients : link'[c] = "down" /\ toClient'[c] = Posted(c)
  BY DEF ServerRestart
<1>3. /\ storage'[Server] = NewStore(TRUE)
      /\ \A c \in Clients : storage'[c] = storage[c]
  BY <1>1, NTSyncAssumption DEF NTSyncAssumption, TypeOK, Nodes, ServerRestart
<1>4. IdsResolve(NewStore(TRUE))
  BY DEF IdsResolve, NewStore, NewEntry
<1>5. EveryIdResolves'
  BY <1>3, <1>4 DEF IdInv, EveryIdResolves, Nodes
<1>6. SnapshotsAreSound'
  <2>1. ASSUME NEW c \in Clients, NEW i \in 1 .. Len(toClient'[c]),
               IsServerHello(toClient'[c][i])
        PROVE  IsSnapshot(toClient'[c][i].assigns)
    <3>1. PICK j \in 1 .. Len(toClient[c]) : toClient'[c][i] = toClient[c][j]
      BY <1>1, <1>2, PostedAmong DEF Among
    <3>2. QED
      BY <2>1, <3>1 DEF IdInv, SnapshotsAreSound
  <2>2. QED
    BY <2>1 DEF SnapshotsAreSound
<1>7. AssignmentsAgree' /\ IdsAgree'
  BY <1>2 DEF AssignmentsAgree, IdsAgree
<1>8. QED
  BY <1>5, <1>6, <1>7 DEF IdInv

\* Every step keeps what is said of ids.
LEMMA NextKeepsIds ==
    ASSUME IInv, IdInv, [Next]_vars
    PROVE  IdInv'
<1>1. TypeOK /\ TypeOK'
  BY NextSafe DEF IInv, SafeStep
<1>2. ASSUME NEW p \in Nodes, LocalOp(p) PROVE IdInv'
  BY <1>1, <1>2, LocalOpKeepsIds
<1>3. ASSUME NEW c \in Clients, ServerReceive(c) PROVE IdInv'
  <2>1. /\ ServerHandles(Head(toServer[c]), c) /\ UNCHANGED << client, link >>
        /\ toServer[c] \in Seq(ClientMsg) /\ toServer[c] # << >>
    BY <1>1, <1>3 DEF ServerReceive, Readable, TypeOK
  <2>2. Head(toServer[c]) \in ClientMsg
    BY <2>1
  <2>3. QED
    BY <1>1, <2>1, <2>2, HandlesKeepsIds
<1>4. ASSUME NEW c \in Clients, ServerReceiveOld(c) PROVE IdInv'
  <2>1. /\ ServerHandles(Head(old[c].msgs), Server)
        /\ UNCHANGED << client, link >>
        /\ old[c].msgs \in Seq(ClientMsg) /\ old[c].msgs # << >>
    BY <1>1, <1>4 DEF ServerReceiveOld, Readable, TypeOK
  <2>2. Head(old[c].msgs) \in ClientMsg
    BY <2>1
  <2>3. QED
    BY <1>1, <2>1, <2>2, HandlesKeepsIds
<1>5. ASSUME NEW c \in Clients, ProtocolStep(c) PROVE IdInv'
  BY <1>3, <1>4, <1>5, SendSnapshotKeepsIds, ApplySnapshotKeepsIds,
     ClientReceiveKeepsIds, LinksKeepIds DEF ProtocolStep
<1>6. ASSUME NEW c \in Clients, Break(c) PROVE IdInv'
  BY <1>6, LinksKeepIds
<1>7. CASE ServerRestart
  BY <1>7, RestartKeepsIds
<1>8. CASE UNCHANGED vars
  BY <1>8 DEF vars, IdInv, EveryIdResolves, SnapshotsAreSound,
     AssignmentsAgree, IdsAgree
<1>9. QED
  BY <1>2, <1>5, <1>6, <1>7, <1>8 DEF Next

\* What is said of ids holds for ever.
THEOREM IdInvariance == Spec => []IdInv
<1>1. Init => IdInv
  BY InitIds
<1>2. IInv /\ IdInv /\ [Next]_vars => IdInv'
  BY NextKeepsIds
<1>3. QED
  BY <1>1, <1>2, Invariance, PTL DEF Spec

\* A connected client and the server never mean different entries by an id,
\* however the connections broke and the server restarted, and also when the
\* ids have run out.
THEOREM IdsAlwaysAgree == Spec => []IdsAgree
<1>1. IdInv => IdsAgree
  BY DEF IdInv
<1>2. QED
  BY <1>1, IdInvariance, PTL

\* The id a client has for an entry always leads back to it.
THEOREM ClientIdsAlwaysResolve == Spec => []ClientIdsResolve
<1>1. IdInv => ClientIdsResolve
  BY DEF IdInv, EveryIdResolves, IdsResolve, ClientIdsResolve, Nodes
<1>2. QED
  BY <1>1, IdInvariance, PTL

-----------------------------------------------------------------------------
(* One writer: the inductive invariant *)

\* The setting: one client writes and sets flags, nobody else does anything, no
\* connection breaks (the server may restart), the writer makes fewer
\* operations than half the circle has numbers, and there are ids for all
\* names.
SoleWriter(w) ==
    /\ w \in Clients
    /\ Ops[w] \subseteq {"write", "flags"}
    /\ \A p \in Nodes \ {w} : Ops[p] = {}
    /\ MaxBreaks = 0
    /\ MaxOps < Half
    /\ Cardinality(Names) <= NoId

\* A number and a value of an entry that the writer once had: not later than
\* what it has now, and the same if it is as late.
Wrote(w, n, seq, v) ==
    /\ Exists(w, n) /\ seq <= E(w, n).seq
    /\ seq = E(w, n).seq => v = E(w, n).value

\* The id stands for the name on the server.
Denotes(id, n) == id # NoId /\ Exists(Server, n) /\ E(Server, n).id = id

\* The server queues what changes for the client; the client works with the ids
\* of this server.
Synced(c) == link[c] = "up" /\ session[c] \in {"Synchronized", "Active"}
Joined(c) == link[c] = "up" /\ client[c] = "Active"

\* The messages that carry a value the writer had.
GoodRequest(w, m) ==
    /\ m.type = "EntryAssign" /\ m.id = NoId
    /\ Wrote(w, m.name, m.seq, m.value)
GoodAssign(w, m) ==
    /\ m.type = "EntryAssign" /\ Denotes(m.id, m.name)
    /\ Wrote(w, m.name, m.seq, m.value)
GoodUpdate(w, m) ==
    /\ m.type = "EntryUpdate"
    /\ \E n \in Names : Denotes(m.id, n) /\ Wrote(w, n, m.seq, m.value)
GoodHello(w, m) == IsServerHello(m) /\ \A x \in m.assigns : GoodAssign(w, x)

\* Where a connection is in its handshake, and what its channels then hold.
Greets(c) ==
    /\ old[c] = NoOld
    /\ link[c] = "down" => session[c] = "None" /\ toServer[c] = << >>
    /\ link[c] = "up" => session[c] # "None" /\ client[c] # "Dead"
    /\ link[c] = "up" /\ session[c] = "Handshake" =>
          /\ client[c] = "Handshake"
          /\ toServer[c] = << ClientHello >> /\ toClient[c] = << >>
    /\ Synced(c) /\ client[c] = "Handshake" =>
          /\ toServer[c] = << >>
          /\ toClient[c] # << >> /\ IsServerHello(toClient[c][1])
    /\ \A i \in 1 .. Len(toClient[c]) :
          link[c] = "up" /\ IsServerHello(toClient[c][i]) =>
             i = 1 /\ client[c] = "Handshake"

\* The slots of a connected client are those of its entries.
Live(c) == Joined(c) =>
    \A k \in 1 .. Len(storage[c].idmap) :
        LET n == storage[c].idmap[k] IN
        n # NoName => Exists(c, n) /\ E(c, n).id = k - 1

\* The other clients have written nothing and have nothing to say.
Listens(c) ==
    /\ \A n \in Names : ~E(c, n).localWrite
    /\ Range(toServer[c]) \subseteq {ClientHello, ClientHelloDone}

WriterOwns(w) ==
    /\ ops <= MaxOps
    /\ \A n \in Names : /\ E(w, n).seq <= ops
                        /\ Exists(w, n) => E(w, n).localWrite

\* What is on the way from the writer.
FromWriter(w) == \A m \in Range(toServer[w]) :
    \/ m \in {ClientHello, ClientHelloDone}
    \/ GoodRequest(w, m) \/ GoodAssign(w, m) \/ GoodUpdate(w, m)
    \/ m.type = "FlagsUpdate"

\* What is on the way to it: the answers to its requests, also those of a
\* server that is gone.
Answer(w, m) ==
    /\ m.type = "EntryAssign" /\ m.id # NoId
    /\ Wrote(w, m.name, m.seq, m.value)
    /\ link[w] = "up" =>
          Denotes(m.id, m.name) /\ m.seq <= E(Server, m.name).seq

ToWriter(w) == \A m \in Range(toClient[w]) :
    (IsServerHello(m) /\ m.assigns = {}) \/ Answer(w, m)

\* The server has what the writer had, and nothing before the writer joins.
ServerFollows(w) ==
    /\ \A n \in Names : Exists(Server, n) =>
          Wrote(w, n, E(Server, n).seq, E(Server, n).value)
    /\ Len(storage[Server].idmap) <= NoId
    /\ \A k \in 1 .. Len(storage[Server].idmap) :
          storage[Server].idmap[k] # NoName
    /\ ~Joined(w) => storage[Server].idmap = << >>

\* The last value of every entry of the writer is on the server or on its way:
\* in a request, waiting for the id that is on its way back, or in a message
\* with the id.
OnItsWay(w, n) ==
    IF E(w, n).id = NoId
    THEN IF Exists(Server, n)
         THEN \E m \in Range(toClient[w]) : m.type = "EntryAssign" /\ m.name = n
         ELSE \E m \in Range(toServer[w]) : GoodRequest(w, m) /\ m.name = n
    ELSE \/ E(Server, n).seq >= E(w, n).seq
         \/ \E m \in Range(toServer[w]) :
               /\ m.type \in {"EntryAssign", "EntryUpdate"}
               /\ m.id = E(w, n).id /\ m.seq >= E(w, n).seq

ReachesServer(w) == Joined(w) =>
    \A n \in Names : Exists(w, n) => OnItsWay(w, n)

\* A message that gives a client the name, and one that carries a value that is
\* as late.
Tells(m, n) ==
    \/ IsServerHello(m) /\ \E x \in m.assigns : x.name = n
    \/ m.type = "EntryAssign" /\ m.name = n

Carries(m, n, seq) ==
    \/ IsServerHello(m) /\ \E x \in m.assigns : x.name = n /\ x.seq >= seq
    \/ m.type = "EntryAssign" /\ m.name = n /\ m.seq >= seq
    \/ m.type = "EntryUpdate" /\ Denotes(m.id, n) /\ m.seq >= seq

HasNow(c, n) == client[c] = "Active" /\ Exists(c, n)

ToReader(w, c) == Synced(c) => \A m \in Range(toClient[c]) :
    \/ GoodHello(w, m) \/ GoodAssign(w, m) \/ GoodUpdate(w, m)
    \/ m.type = "FlagsUpdate"

ReaderFollows(w, c) == Joined(c) => \A n \in Names : Exists(c, n) =>
    /\ E(c, n).id # NoId
    /\ Wrote(w, n, E(c, n).seq, E(c, n).value)

\* The server's value of every entry is at the client or on its way there.
ReachesReader(c) == Synced(c) => \A n \in Names : Exists(Server, n) =>
    \/ HasNow(c, n) /\ E(c, n).seq >= E(Server, n).seq
    \/ \E m \in Range(toClient[c]) : Carries(m, n, E(Server, n).seq)

\* No update comes before its entry.
AssignedFirst(c) == Synced(c) => \A n \in Names, i \in 1 .. Len(toClient[c]) :
    toClient[c][i].type = "EntryUpdate" /\ Denotes(toClient[c][i].id, n) =>
        \/ HasNow(c, n)
        \/ \E j \in 1 .. (i - 1) : Tells(toClient[c][j], n)

Reader(w, c) ==
    /\ Listens(c) /\ ToReader(w, c) /\ ReaderFollows(w, c)
    /\ ReachesReader(c) /\ AssignedFirst(c)

Writer(w) ==
    WriterOwns(w) /\ FromWriter(w) /\ ToWriter(w) /\ ReachesServer(w)

WriterInv(w) ==
    /\ \A c \in Clients : Greets(c) /\ Live(c)
    /\ \A c \in Clients \ {w} : Reader(w, c)
    /\ Writer(w)
    /\ ServerFollows(w)

-----------------------------------------------------------------------------
(* What it says of ids *)

\* An id of the server belongs to one name.
LEMMA DenotesOne ==
    ASSUME IdInv, NEW id, NEW n \in Names, NEW x \in Names,
           Denotes(id, n), Denotes(id, x)
    PROVE  n = x
  BY DEF IdInv, EveryIdResolves, IdsResolve, Denotes, E, Nodes

\* The same after a step.
LEMMA DenotesOnePrime ==
    ASSUME IdInv', NEW id, NEW n \in Names, NEW x \in Names,
           Denotes(id, n)', Denotes(id, x)'
    PROVE  n = x
  BY DEF IdInv, EveryIdResolves, IdsResolve, Denotes, E, Nodes

\* The server's map and entries lead to each other.
LEMMA ServerIds ==
    ASSUME IInv, NEW w, ServerFollows(w)
    PROVE  LET S == storage[Server] IN
           /\ S \in Store /\ S.server
           /\ \A n \in Names : Exists(Server, n) <=> E(Server, n).id # NoId
           /\ \A id \in Nat : Known(S, id) =>
                 NameOf(S, id) \in Names /\ Denotes(id, NameOf(S, id))
           /\ \A id \in Nat, n \in Names : Denotes(id, n) =>
                 Known(S, id) /\ NameOf(S, id) = n
<1> DEFINE S == storage[Server]
<1>1. S \in Store /\ S.server /\ NoId \in Nat
  BY StorageAssumption DEF IInv, TypeOK, Nodes, StorageAssumption
<1>2. IdsConsistent(S) /\ Len(S.idmap) <= NoId
  BY DEF IInv, ServerIdsConsistent, ServerFollows
<1>3. IdsMatchEntries(S)
  BY <1>2 DEF IdsConsistent
<1>4. \A n \in Names : Exists(Server, n) <=> E(Server, n).id # NoId
  BY <1>3 DEF IdsMatchEntries, Exists, E
<1>5. ASSUME NEW id \in Nat, Known(S, id)
      PROVE  NameOf(S, id) \in Names /\ Denotes(id, NameOf(S, id))
  <2>1. NameOf(S, id) \in Names
    BY <1>1, <1>5, KnownName
  <2>2. S.entries[NameOf(S, id)].id = id /\ Has(S, NameOf(S, id))
    BY <1>1, <1>2, <1>5, KnownHas
  <2>3. id # NoId
    BY <1>1, <1>2, <1>5, StoreLen DEF Known
  <2>4. QED
    BY <2>1, <2>2, <2>3 DEF Denotes, Exists, E
<1>6. ASSUME NEW id \in Nat, NEW n \in Names, Denotes(id, n)
      PROVE  Known(S, id) /\ NameOf(S, id) = n
  BY <1>3, <1>6 DEF IdsMatchEntries, Denotes, Exists, E
<1>7. QED
  BY <1>1, <1>4, <1>5, <1>6

\* What a connected client knows by an id is what the server means by it.
LEMMA ClientIds ==
    ASSUME IInv, IdInv, NEW w, ServerFollows(w), NEW c \in Clients, Joined(c)
    PROVE  LET s == storage[c] IN
           /\ s \in Store /\ ~s.server
           /\ \A id \in Nat : Known(s, id) =>
                 NameOf(s, id) \in Names /\ Denotes(id, NameOf(s, id))
           /\ \A n \in Names : E(c, n).id # NoId =>
                 Denotes(E(c, n).id, n) /\ Known(s, E(c, n).id)
<1> DEFINE s == storage[c]
           S == storage[Server]
<1>1. s \in Store /\ ~s.server /\ S \in Store
  BY NTSyncAssumption DEF NTSyncAssumption, IInv, TypeOK, Nodes
<1>2. SlotsAgree(s.idmap, S.idmap)
  BY IdsAgreeIs DEF IdInv, Joined
<1>3. ASSUME NEW id \in Nat, Known(s, id)
      PROVE  NameOf(s, id) \in Names /\ Denotes(id, NameOf(s, id))
  <2>1. NameOf(s, id) \in Names /\ id + 1 \in 1 .. Len(s.idmap)
    BY <1>1, <1>3, KnownName
  <2>2. id + 1 <= Len(S.idmap) /\ S.idmap[id + 1] \in {s.idmap[id + 1], NoName}
    BY <1>2, <1>3, <2>1 DEF SlotsAgree, Known
  <2>3. id + 1 \in 1 .. Len(S.idmap) /\ id < Len(S.idmap)
    BY <1>1, <2>1, <2>2, StoreLen
  <2>4. S.idmap[id + 1] # NoName /\ S.idmap[id + 1] = s.idmap[id + 1]
    BY <2>2, <2>3 DEF ServerFollows
  <2>5. Known(S, id) /\ NameOf(S, id) = NameOf(s, id)
    BY <2>3, <2>4 DEF Known, NameOf
  <2>6. QED
    BY <2>1, <2>5, ServerIds
<1>4. ASSUME NEW n \in Names, E(c, n).id # NoId
      PROVE  Denotes(E(c, n).id, n) /\ Known(s, E(c, n).id)
  <2>1. Known(s, E(c, n).id) /\ NameOf(s, E(c, n).id) = n
    BY <1>4 DEF IdInv, EveryIdResolves, IdsResolve, E, Nodes
  <2>2. E(c, n).id \in Nat
    BY <1>1, StoreFields DEF E
  <2>3. QED
    BY <1>3, <2>1, <2>2
<1>5. QED
  BY <1>1, <1>3, <1>4

\* As long as a name is new to the server there is an id left.
LEMMA IdsLeft ==
    ASSUME IInv, NEW w, ServerFollows(w), SoleWriter(w),
           NEW n \in Names, ~Exists(Server, n)
    PROVE  Len(storage[Server].idmap) < NoId
<1> DEFINE S == storage[Server]
           len == Len(S.idmap)
           N == Names \ {n}
<1>1. S \in Store /\ S.idmap \in Slots /\ len \in Nat /\ NoId \in Nat
  BY StorageAssumption, StoreLen DEF IInv, TypeOK, Nodes, StorageAssumption
<1>2. IdsConsistent(S) /\ len <= NoId
  BY DEF IInv, ServerIdsConsistent, ServerFollows
<1>3. IdsMatchEntries(S) /\ SlotsMatchEntries(S)
  BY <1>2 DEF IdsConsistent
<1>4. ASSUME NEW k \in 1 .. len
      PROVE  S.idmap[k] \in N /\ S.entries[S.idmap[k]].id = k - 1
  <2>1. S.idmap[k] \in Names
    BY <1>1 DEF ServerFollows, Slots
  <2>2. S.entries[S.idmap[k]].id = k - 1
    BY <1>3, <1>4 DEF SlotsMatchEntries, ServerFollows
  <2>3. k - 1 # NoId
    BY <1>1, <1>2
  <2>4. Has(S, S.idmap[k])
    BY <1>3, <2>1, <2>2, <2>3 DEF IdsMatchEntries
  <2>5. QED
    BY <2>1, <2>2, <2>4 DEF Exists
<1>5. S.idmap \in [1 .. len -> N]
  BY <1>1, <1>4 DEF Slots
<1>6. \A j, k \in 1 .. len : S.idmap[j] = S.idmap[k] => j = k
  <2>1. TAKE j, k \in 1 .. len
  <2>2. HAVE S.idmap[j] = S.idmap[k]
  <2>3. j - 1 = k - 1 /\ j \in Nat /\ k \in Nat
    BY <1>4, <2>2
  <2>4. QED
    BY <2>3
<1>7. S.idmap \in Injection(1 .. len, N)
  BY <1>5, <1>6 DEF Injection, IsInjective
<1>8. IsFiniteSet(Names) /\ IsFiniteSet(N) /\ Cardinality(N) = Cardinality(Names) - 1
      /\ Cardinality(Names) \in Nat
  BY FS_RemoveElement, FS_CardinalityType, NTSyncAssumption DEF NTSyncAssumption
<1>9. Cardinality(1 .. len) = len
  BY <1>1, FS_Interval
<1>10. len <= Cardinality(N)
  <2> HIDE DEF S, len, N
  <2>1. QED
    BY <1>7, <1>8, <1>9, FS_Injection
<1>11. QED
  BY <1>1, <1>8, <1>10 DEF SoleWriter

-----------------------------------------------------------------------------
(* One writer: what stays true *)

\* The writer's entries stay, and change only together with their numbers.
WriterGrows(w) == \A n \in Names : Exists(w, n) =>
    /\ Exists(w, n)'
    /\ \/ E(w, n)'.seq > E(w, n).seq
       \/ E(w, n)'.seq = E(w, n).seq /\ E(w, n)'.value = E(w, n).value

\* The server's entries stay, with their ids, and their numbers only grow.
ServerGrows == \A n \in Names : Exists(Server, n) =>
    /\ Exists(Server, n)'
    /\ E(Server, n)'.id = E(Server, n).id
    /\ E(Server, n)'.seq >= E(Server, n).seq

\* The kinds of messages.
LEMMA MsgKinds ==
    /\ \A m \in ClientMsg \cup ServerMsg :
          /\ m.type = "EntryAssign" => m \in AssignMsg
          /\ m.type = "EntryUpdate" => m \in UpdateMsg
          /\ m.type = "FlagsUpdate" => m \in FlagsMsg
          /\ IsServerHello(m) => m.assigns \in Snapshots /\ m.assigns \subseteq AssignMsg
    /\ \A m \in ClientMsg : ~IsServerHello(m)
<1>1. \A m \in EntryMsg :
          /\ m.type = "EntryAssign" => m \in AssignMsg
          /\ m.type = "EntryUpdate" => m \in UpdateMsg
          /\ m.type = "FlagsUpdate" => m \in FlagsMsg
          /\ ~IsServerHello(m)
  BY MsgFields DEF EntryMsg, IsServerHello
<1>2. \A m \in ServerHelloMsg : m.type = "ServerHello" /\ m.assigns \in Snapshots
  BY DEF ServerHelloMsg
<1>3. ClientHello.type = "ClientHello" /\ ClientHelloDone.type = "ClientHelloDone"
  BY DEF ClientHello, ClientHelloDone
<1>4. QED
  BY <1>1, <1>2, <1>3 DEF ClientMsg, ServerMsg, Snapshots, IsServerHello

\* The number of an entry is a number.
LEMMA EntrySeqs ==
    ASSUME TypeOK, NEW p \in Nodes, NEW n \in Names
    PROVE  /\ storage[p] \in Store /\ E(p, n) \in Entry
           /\ E(p, n).seq \in Nat /\ E(p, n).seq \in SeqNums
           /\ E(p, n).id \in Nat
           /\ E(p, n).value \in Values \cup {NoValue}
           /\ Exists(p, n) <=> E(p, n).value # NoValue
<1>1. storage[p] \in Store
  BY DEF TypeOK
<1>2. storage[p].entries[n] \in Entry
  BY <1>1, StoreFields
<1>3. QED
  BY <1>1, <1>2, StoreFields DEF E, Exists, Has, SeqNums

\* What the writer once had it still had.
LEMMA WroteStays ==
    ASSUME TypeOK, TypeOK', NEW w \in Clients, WriterGrows(w), NEW n \in Names,
           NEW seq \in Nat, NEW v, Wrote(w, n, seq, v)
    PROVE  Wrote(w, n, seq, v)'
<1> DEFINE e == E(w, n)
           f == E(w, n)'
<1>1. w \in Nodes
  BY DEF Nodes
<1>2. e.seq \in Nat /\ f.seq \in Nat
  <2>1. e.seq \in Nat
    BY <1>1, EntrySeqs
  <2>2. storage'[w] \in Store
    BY <1>1 DEF TypeOK
  <2>3. f.seq \in Nat
    BY <2>2, StoreFields DEF E, SeqNums
  <2>4. QED
    BY <2>1, <2>3
<1>3. Exists(w, n) /\ seq <= e.seq /\ (seq = e.seq => v = e.value)
  BY DEF Wrote
<1>4. Exists(w, n)' /\ (f.seq > e.seq \/ (f.seq = e.seq /\ f.value = e.value))
  BY <1>3 DEF WriterGrows
<1>5. seq <= f.seq /\ (seq = f.seq => v = f.value)
  <2> HIDE DEF e, f
  <2>1. QED
    BY <1>2, <1>3, <1>4
<1>6. QED
  BY <1>4, <1>5 DEF Wrote

\* An id keeps its meaning.
LEMMA DenotesStays ==
    ASSUME ServerGrows, NEW id, NEW n \in Names, Denotes(id, n)
    PROVE  Denotes(id, n)'
  BY DEF Denotes, ServerGrows

\* A message stays good.
LEMMA GoodStays ==
    ASSUME TypeOK, TypeOK', NEW w \in Clients, WriterGrows(w),
           NEW m \in ClientMsg \cup ServerMsg
    PROVE  /\ GoodRequest(w, m) => GoodRequest(w, m)'
           /\ ServerGrows /\ GoodAssign(w, m) => GoodAssign(w, m)'
           /\ ServerGrows /\ GoodUpdate(w, m) => GoodUpdate(w, m)'
           /\ ServerGrows /\ GoodHello(w, m) => GoodHello(w, m)'
<1>1. \A x \in AssignMsg : x.name \in Names /\ x.seq \in Nat
  BY MsgFields DEF SeqNums
<1>2. ASSUME NEW x \in AssignMsg, GoodRequest(w, x)
      PROVE  GoodRequest(w, x)'
  BY <1>1, <1>2, WroteStays DEF GoodRequest
<1>3. ASSUME ServerGrows, NEW x \in AssignMsg, GoodAssign(w, x)
      PROVE  GoodAssign(w, x)'
  BY <1>1, <1>3, WroteStays, DenotesStays DEF GoodAssign
<1>4. ASSUME ServerGrows, GoodUpdate(w, m)
      PROVE  GoodUpdate(w, m)'
  <2>1. m \in UpdateMsg
    BY <1>4, MsgKinds DEF GoodUpdate
  <2>2. m.seq \in Nat
    BY <2>1, MsgFields DEF SeqNums
  <2>3. PICK n \in Names : Denotes(m.id, n) /\ Wrote(w, n, m.seq, m.value)
    BY <1>4 DEF GoodUpdate
  <2>4. Denotes(m.id, n)' /\ Wrote(w, n, m.seq, m.value)'
    BY <1>4, <2>2, <2>3, WroteStays, DenotesStays
  <2>5. QED
    BY <1>4, <2>4 DEF GoodUpdate
<1>5. ASSUME ServerGrows, GoodHello(w, m)
      PROVE  GoodHello(w, m)'
  <2>1. m.assigns \subseteq AssignMsg
    BY <1>5, MsgKinds DEF GoodHello
  <2>2. \A x \in m.assigns : GoodAssign(w, x)'
    BY <1>3, <1>5, <2>1 DEF GoodHello
  <2>3. QED
    BY <1>5, <2>2 DEF GoodHello
<1>6. m.type = "EntryAssign" => m \in AssignMsg
  BY MsgKinds
<1>7. (GoodRequest(w, m) => m.type = "EntryAssign")
      /\ (GoodAssign(w, m) => m.type = "EntryAssign")
  BY DEF GoodRequest, GoodAssign
<1>8. QED
  BY <1>2, <1>3, <1>4, <1>5, <1>6, <1>7

\* What the server may queue for its clients in a step.
Passable(w, out) == \A m \in Range(out) :
    \/ GoodAssign(w, m) \/ GoodUpdate(w, m) \/ m.type = "FlagsUpdate"

\* A message of a sequence has a place in it.
LEMMA InRange ==
    ASSUME NEW T, NEW q \in Seq(T)
    PROVE  /\ \A i \in 1 .. Len(q) : q[i] \in Range(q) /\ q[i] \in T
           /\ \A m \in Range(q) : \E i \in 1 .. Len(q) : q[i] = m
  BY DEF Range

\* A client that only listens, when others act: it gets what the server queues,
\* every value that changes on the server among it.
LEMMA ReaderKept ==
    ASSUME IInv, TypeOK', IdInv', NEW w \in Clients, WriterGrows(w), ServerGrows,
           NEW d \in Clients, Reader(w, d), NEW out \in Seq(ServerMsg),
           storage'[d] = storage[d], client'[d] = client[d],
           link'[d] = link[d], Synced(d)' => Synced(d),
           Range(toServer'[d]) \subseteq Range(toServer[d]),
           Synced(d) => toClient'[d] = toClient[d] \o out,
           Passable(w, out)',
           \A n \in Names : Exists(Server, n)' =>
              \/ Exists(Server, n) /\ E(Server, n)'.seq = E(Server, n).seq
              \/ \E m \in Range(out) : Carries(m, n, E(Server, n).seq)',
           \A m \in Range(out), n \in Names :
              m.type = "EntryUpdate" /\ Denotes(m.id, n)' => Exists(Server, n)
    PROVE  Reader(w, d)'
<1> DEFINE q == toClient[d]
           r == toClient'[d]
<1>0. TypeOK /\ d \in Nodes /\ q \in Seq(ServerMsg)
  BY DEF IInv, TypeOK, Nodes
<1>1. Listens(d)'
  BY DEF Reader, Listens, E
<1>2. Range(q) \subseteq ServerMsg /\ Range(out) \subseteq ServerMsg
      /\ Range(q \o out) = Range(q) \cup Range(out)
  BY <1>0, Messages
<1>3. ToReader(w, d)'
  <2> SUFFICES ASSUME Synced(d)', NEW m \in Range(r)
               PROVE  (GoodHello(w, m) \/ GoodAssign(w, m) \/ GoodUpdate(w, m)
                       \/ m.type = "FlagsUpdate")'
    BY DEF ToReader
  <2>1. Synced(d) /\ r = q \o out
    OBVIOUS
  <2>2. CASE m \in Range(q)
    <3>1. m \in ClientMsg \cup ServerMsg
      BY <1>2, <2>2
    <3>2. GoodHello(w, m) \/ GoodAssign(w, m) \/ GoodUpdate(w, m)
          \/ m.type = "FlagsUpdate"
      BY <2>1, <2>2 DEF Reader, ToReader
    <3>3. QED
      BY <1>0, <3>1, <3>2, GoodStays
  <2>3. CASE m \in Range(out)
    BY <2>3 DEF Passable
  <2>4. QED
    BY <1>2, <2>1, <2>2, <2>3
<1>4. ReaderFollows(w, d)'
  <2> SUFFICES ASSUME Joined(d)', NEW n \in Names, Exists(d, n)'
               PROVE  (E(d, n).id # NoId
                       /\ Wrote(w, n, E(d, n).seq, E(d, n).value))'
    BY DEF ReaderFollows
  <2>1. Joined(d) /\ Exists(d, n) /\ E(d, n)' = E(d, n)
    BY DEF Joined, Exists, E
  <2>2. E(d, n).id # NoId /\ Wrote(w, n, E(d, n).seq, E(d, n).value)
    BY <2>1 DEF Reader, ReaderFollows
  <2>3. E(d, n).seq \in Nat
    BY <1>0, EntrySeqs
  <2>4. \A seq \in Nat : \A v : Wrote(w, n, seq, v) => Wrote(w, n, seq, v)'
    BY <1>0, WroteStays
  <2> DEFINE a == E(d, n).seq
             b == E(d, n).value
  <2>5. Wrote(w, n, a, b) /\ a \in Nat
    BY <2>2, <2>3
  <2>6. /\ Exists(w, n)' /\ a <= E(w, n)'.seq
        /\ a = E(w, n)'.seq => b = E(w, n)'.value
    <3> HIDE DEF a, b
    <3>1. PICK x, y : x = a /\ y = b
      OBVIOUS
    <3>2. Wrote(w, n, x, y)'
      BY <2>4, <2>5, <3>1
    <3>3. QED
      BY <3>1, <3>2 DEF Wrote
  <2>7. QED
    BY <2>1, <2>2, <2>6 DEF Wrote
<1>5. \A n \in Names : HasNow(d, n) => HasNow(d, n)' /\ E(d, n)' = E(d, n)
  BY DEF HasNow, Exists, E
<1>6. \A m, n : Tells(m, n)' = Tells(m, n)
  BY DEF Tells
<1>7. ReachesReader(d)'
  <2> SUFFICES ASSUME Synced(d)', NEW n \in Names, Exists(Server, n)'
               PROVE  (\/ HasNow(d, n) /\ E(d, n).seq >= E(Server, n).seq
                       \/ \E m \in Range(toClient[d]) :
                             Carries(m, n, E(Server, n).seq))'
    BY DEF ReachesReader
  <2>1. Synced(d) /\ r = q \o out
    OBVIOUS
  <2>2. CASE Exists(Server, n) /\ E(Server, n)'.seq = E(Server, n).seq
    <3>1. CASE HasNow(d, n) /\ E(d, n).seq >= E(Server, n).seq
      BY <1>5, <2>2, <3>1
    <3>2. CASE \E m \in Range(q) : Carries(m, n, E(Server, n).seq)
      <4>1. PICK m \in Range(q) : Carries(m, n, E(Server, n).seq)
        BY <3>2
      <4>2. Carries(m, n, E(Server, n).seq)'
        BY <2>2, <4>1, DenotesStays DEF Carries
      <4>3. QED
        BY <1>2, <2>1, <4>2
    <3>3. QED
      BY <2>1, <2>2, <3>1, <3>2 DEF Reader, ReachesReader
  <2>3. CASE \E m \in Range(out) : Carries(m, n, E(Server, n).seq)'
    BY <1>2, <2>1, <2>3
  <2>4. QED
    BY <2>2, <2>3
<1>8. AssignedFirst(d)'
  <2> SUFFICES ASSUME Synced(d)', NEW n \in Names, NEW i \in 1 .. Len(r),
                      r[i].type = "EntryUpdate", Denotes(toClient[d][i].id, n)'
               PROVE  HasNow(d, n)' \/ \E j \in 1 .. (i - 1) : Tells(r[j], n)
    BY <1>6 DEF AssignedFirst
  <2>1. Synced(d) /\ r = q \o out
    OBVIOUS
  <2>2. /\ Len(q) \in Nat /\ Len(out) \in Nat /\ Len(r) = Len(q) + Len(out)
        /\ \A k \in 1 .. Len(q) : r[k] = q[k]
        /\ \A k \in 1 .. Len(r) : k > Len(q) => r[k] = out[k - Len(q)]
    BY <1>0, <2>1
  <2>3. CASE i <= Len(q)
    <3>1. i \in 1 .. Len(q) /\ r[i] = q[i] /\ q[i] \in Range(q)
      BY <1>0, <2>2, <2>3, InRange
    <3>2. GoodUpdate(w, q[i])
      BY <2>1, <3>1 DEF Reader, ToReader, GoodHello, GoodAssign, IsServerHello
    <3>3. PICK x \in Names : Denotes(q[i].id, x)
      BY <3>2 DEF GoodUpdate
    <3>4. x = n
      <4>1. PICK id : id = q[i].id
        OBVIOUS
      <4>2. Denotes(id, x)'
        BY <3>3, <4>1, DenotesStays
      <4>3. Denotes(id, n)'
        BY <3>1, <4>1 DEF Denotes
      <4>4. QED
        BY <4>2, <4>3, DenotesOnePrime
    <3>5. HasNow(d, n) \/ \E j \in 1 .. (i - 1) : Tells(q[j], n)
      BY <2>1, <3>1, <3>3, <3>4 DEF Reader, AssignedFirst
    <3>6. \A j \in 1 .. (i - 1) : r[j] = q[j]
      BY <2>2, <3>1
    <3>7. QED
      BY <1>5, <3>5, <3>6
  <2>4. CASE i > Len(q)
    <3>1. i - Len(q) \in 1 .. Len(out) /\ r[i] = out[i - Len(q)]
      BY <2>2, <2>4
    <3>2. r[i] \in Range(out)
      BY <3>1, InRange
    <3>3. Exists(Server, n)
      <4>1. PICK m \in Range(out) : m = r[i]
        BY <3>2
      <4>2. m.type = "EntryUpdate" /\ Denotes(m.id, n)'
        BY <4>1 DEF Denotes
      <4>3. QED
        BY <4>2
    <3>4. HasNow(d, n) \/ \E m \in Range(q) : Carries(m, n, E(Server, n).seq)
      BY <2>1, <3>3 DEF Reader, ReachesReader
    <3>5. CASE HasNow(d, n)
      BY <1>5, <3>5
    <3>6. CASE \E m \in Range(q) : Carries(m, n, E(Server, n).seq)
      <4>1. PICK k \in 1 .. Len(q) : Carries(q[k], n, E(Server, n).seq)
        BY <1>0, <3>6, InRange
      <4>2. CASE Tells(q[k], n)
        BY <2>2, <2>4, <4>1, <4>2
      <4>3. CASE q[k].type = "EntryUpdate" /\ Denotes(q[k].id, n)
        <5>1. HasNow(d, n) \/ \E j \in 1 .. (k - 1) : Tells(q[j], n)
          BY <2>1, <4>1, <4>3 DEF Reader, AssignedFirst
        <5>2. ASSUME NEW j \in 1 .. (k - 1), Tells(q[j], n)
              PROVE  j \in 1 .. (i - 1) /\ Tells(r[j], n)
          <6>1. j \in 1 .. Len(q) /\ j \in 1 .. (i - 1)
            BY <2>2, <2>4, <4>1
          <6>2. r[j] = q[j]
            BY <2>2, <6>1
          <6>3. QED
            BY <5>2, <6>1, <6>2
        <5>3. QED
          BY <1>5, <5>1, <5>2
      <4>4. QED
        BY <4>1, <4>2, <4>3 DEF Carries, Tells
    <3>7. QED
      BY <3>4, <3>5, <3>6
  <2>5. QED
    BY <2>2, <2>3, <2>4
<1>9. QED
  BY <1>1, <1>3, <1>4, <1>7, <1>8 DEF Reader

-----------------------------------------------------------------------------
(* One writer: the steps of one connection *)

\* Where nothing changes nothing is lost.
LEMMA ReaderSame ==
    ASSUME IInv, TypeOK', IdInv', NEW w \in Clients, WriterGrows(w),
           NEW d \in Clients, Reader(w, d), storage'[Server] = storage[Server],
           storage'[d] = storage[d], client'[d] = client[d],
           session'[d] = session[d], link'[d] = link[d],
           toServer'[d] = toServer[d], toClient'[d] = toClient[d]
    PROVE  Reader(w, d)'
<1>1. << >> \in Seq(ServerMsg) /\ toClient[d] \in Seq(ServerMsg)
  BY DEF IInv, TypeOK
<1>2. Range(<< >>) = {}
  BY DEF Range
<1>3. toClient'[d] = toClient[d] \o << >>
  BY <1>1
<1>4. \A n \in Names : E(Server, n)' = E(Server, n)
                       /\ (Exists(Server, n)' <=> Exists(Server, n))
  BY DEF E, Exists
<1>5. ServerGrows
  <2>1. \A n \in Names : E(Server, n).seq \in Nat
    BY EntrySeqs DEF IInv, Nodes
  <2>2. QED
    BY <1>4, <2>1 DEF ServerGrows
<1>6. Synced(d)' <=> Synced(d)
  BY DEF Synced
<1>7. Passable(w, << >>)'
  BY <1>2 DEF Passable
<1>8. QED
  BY <1>1, <1>2, <1>3, <1>4, <1>5, <1>6, <1>7, ReaderKept

\* The same of the writer, when others act.
LEMMA WriterSame ==
    ASSUME NEW w \in Clients, Writer(w),
           storage'[Server] = storage[Server], storage'[w] = storage[w],
           client'[w] = client[w], link'[w] = link[w], ops' = ops,
           toServer'[w] = toServer[w], toClient'[w] = toClient[w]
    PROVE  Writer(w)'
<1>1. \A n \in Names : /\ E(Server, n)' = E(Server, n)
                       /\ Exists(Server, n)' <=> Exists(Server, n)
                       /\ E(w, n)' = E(w, n)
                       /\ Exists(w, n)' <=> Exists(w, n)
  BY DEF E, Exists
<1>2. Joined(w)' <=> Joined(w)
  BY DEF Joined
<1>3. \A m : /\ GoodRequest(w, m)' <=> GoodRequest(w, m)
             /\ GoodAssign(w, m)' <=> GoodAssign(w, m)
             /\ GoodUpdate(w, m)' <=> GoodUpdate(w, m)
             /\ Answer(w, m)' <=> Answer(w, m)
  BY DEF GoodRequest, GoodAssign, GoodUpdate, Answer, Denotes, Wrote, E, Exists
<1>4. WriterOwns(w)'
  BY <1>1 DEF Writer, WriterOwns
<1>5. FromWriter(w)'
  BY <1>3 DEF Writer, FromWriter
<1>6. ToWriter(w)'
  BY <1>3 DEF Writer, ToWriter
<1>7. ReachesServer(w)'
  <2>1. \A n \in Names : OnItsWay(w, n) => OnItsWay(w, n)'
    BY <1>1, <1>3 DEF OnItsWay
  <2>2. QED
    BY <1>1, <1>2, <2>1 DEF Writer, ReachesServer
<1>8. QED
  BY <1>4, <1>5, <1>6, <1>7 DEF Writer

\* As long as the server's entries stay as they are.
LEMMA ServerFollowsOn ==
    ASSUME IInv, TypeOK', NEW w \in Clients, ServerFollows(w), WriterGrows(w),
           storage'[Server] = storage[Server],
           Joined(w) => Joined(w)' \/ storage[Server].idmap = << >>
    PROVE  ServerFollows(w)'
<1>1. TypeOK /\ Server \in Nodes
  BY DEF IInv, Nodes
<1>2. ASSUME NEW n \in Names, Exists(Server, n)'
      PROVE  Wrote(w, n, E(Server, n).seq, E(Server, n).value)'
  <2>1. Exists(Server, n) /\ E(Server, n)' = E(Server, n)
    BY <1>2 DEF Exists, E
  <2>2. PICK x, y : x = E(Server, n).seq /\ y = E(Server, n).value
    OBVIOUS
  <2>3. x \in Nat /\ Wrote(w, n, x, y)
    BY <1>1, <2>1, <2>2, EntrySeqs DEF ServerFollows
  <2>4. Wrote(w, n, x, y)'
    BY <1>1, <2>3, WroteStays
  <2>5. QED
    BY <2>1, <2>2, <2>4 DEF Wrote
<1>3. QED
  BY <1>2 DEF ServerFollows

\* A step of one connection that leaves the server's store alone.
LEMMA ConnectionStep ==
    ASSUME IInv, TypeOK', IdInv', NEW w \in Clients, WriterInv(w),
           NEW c \in Clients, WriterGrows(w),
           storage'[Server] = storage[Server],
           \A d \in Clients \ {c} :
              /\ storage'[d] = storage[d] /\ client'[d] = client[d]
              /\ session'[d] = session[d] /\ link'[d] = link[d]
              /\ toServer'[d] = toServer[d] /\ toClient'[d] = toClient[d]
              /\ old'[d] = old[d],
           Greets(c)', Live(c)',
           c # w => Reader(w, c)' /\ ops' = ops,
           c = w => /\ Writer(w)'
                    /\ Joined(w) => Joined(w)' \/ storage[Server].idmap = << >>
    PROVE  WriterInv(w)'
<1>1. ASSUME NEW d \in Clients PROVE Greets(d)' /\ Live(d)'
  <2>1. CASE d = c
    BY <2>1
  <2>2. CASE d # c
    <3>1. Greets(d)'
      BY <2>2 DEF WriterInv, Greets, Synced
    <3>2. Live(d)'
      BY <2>2 DEF WriterInv, Live, Joined, Exists, E
    <3>3. QED
      BY <3>1, <3>2
  <2>3. QED
    BY <2>1, <2>2
<1>2. ASSUME NEW d \in Clients \ {w} PROVE Reader(w, d)'
  <2>1. CASE d = c
    BY <2>1
  <2>2. CASE d # c
    <3>1. Reader(w, d)
      BY DEF WriterInv
    <3>2. QED
      BY <2>2, <3>1, ReaderSame
  <2>3. QED
    BY <2>1, <2>2
<1>3. Writer(w)'
  <2>1. CASE c = w
    BY <2>1
  <2>2. CASE c # w
    <3>1. Writer(w)
      BY DEF WriterInv
    <3>2. QED
      BY <2>2, <3>1, WriterSame
  <2>3. QED
    BY <2>1, <2>2
<1>4. Joined(w) => Joined(w)' \/ storage[Server].idmap = << >>
  BY DEF Joined
<1>5. ServerFollows(w)'
  BY <1>4, ServerFollowsOn DEF WriterInv
<1>6. QED
  BY <1>1, <1>2, <1>3, <1>5 DEF WriterInv

\* Nothing grows when nothing changes.
LEMMA SameWriterGrows ==
    ASSUME TypeOK, NEW w \in Clients, storage'[w] = storage[w]
    PROVE  WriterGrows(w)
<1>1. \A n \in Names : E(w, n)' = E(w, n) /\ (Exists(w, n)' <=> Exists(w, n))
  BY DEF E, Exists
<1>2. QED
  BY <1>1 DEF WriterGrows

\* The steps that this setting rules out.
LEMMA RuledOut ==
    ASSUME IInv, NEW w, SoleWriter(w), WriterInv(w), NEW c \in Clients
    PROVE  /\ ~ServerReceiveOld(c) /\ ~Break(c)
           /\ ~ServerNotices(c) /\ ~ServerNoticesOld(c)
           /\ \A p \in Nodes \ {w} : ~LocalOp(p)
<1>1. Greets(c)
  BY DEF WriterInv
<1>2. ~ServerReceiveOld(c) /\ ~ServerNoticesOld(c) /\ ~ServerNotices(c)
  <2>1. old[c] = NoOld /\ (link[c] = "down" => session[c] = "None")
    BY <1>1 DEF Greets
  <2>2. ~Readable(old[c].session, old[c].msgs)
    BY <2>1 DEF Readable, NoOld
  <2>3. QED
    BY <2>1, <2>2 DEF ServerReceiveOld, ServerNoticesOld, ServerNotices
<1>3. ~Break(c)
  BY DEF Break, SoleWriter, IInv, TypeOK
<1>4. ASSUME NEW p \in Nodes \ {w} PROVE ~LocalOp(p)
  <2>1. Ops[p] = {}
    BY DEF SoleWriter
  <2>2. LocalResults(p) = {}
    BY <2>1 DEF LocalResults, UserOperations
  <2>3. QED
    BY <2>2 DEF LocalOp
<1>5. QED
  BY <1>2, <1>3, <1>4

\* A client that connects.
LEMMA ConnectFollows ==
    ASSUME IInv, IInv', IdInv, IdInv', NEW w, SoleWriter(w), WriterInv(w),
           NEW c \in Clients, Connect(c)
    PROVE  WriterInv(w)'
<1>1. w \in Clients /\ TypeOK /\ TypeOK'
  BY DEF SoleWriter, IInv
<1>2. /\ storage' = storage /\ ops' = ops
      /\ client[c] = "Dead"
      /\ client' = [client EXCEPT ![c] = "Handshake"]
      /\ link' = [link EXCEPT ![c] = "up"]
      /\ toServer' = [toServer EXCEPT ![c] = << ClientHello >>]
      /\ toClient' = [toClient EXCEPT ![c] = << >>]
      /\ session' = [session EXCEPT ![c] = "Handshake"]
  BY DEF Connect, Accept
<1>3. Greets(c)
  BY DEF WriterInv
<1>4. link[c] = "down" /\ session[c] = "None"
  BY <1>1, <1>2, <1>3 DEF Greets, TypeOK
<1>5. \A d \in Clients \ {c} : old'[d] = old[d]
  BY <1>1 DEF Connect, Accept, TypeOK
<1>6. old'[c] = NoOld
  BY <1>1, <1>4 DEF Connect, Accept, TypeOK
<1>7. /\ client'[c] = "Handshake" /\ link'[c] = "up" /\ session'[c] = "Handshake"
      /\ toServer'[c] = << ClientHello >> /\ toClient'[c] = << >>
  BY <1>1, <1>2 DEF TypeOK
<1>8. ~Synced(c)' /\ ~Joined(c)' /\ ~Joined(c)
  BY <1>4, <1>7 DEF Synced, Joined
<1>9. Greets(c)'
  <2>1. Len(<< >>) = 0 /\ 1 .. 0 = {}
    OBVIOUS
  <2>2. QED
    BY <1>6, <1>7, <1>8, <2>1 DEF Greets
<1>10. Live(c)'
  BY <1>8 DEF Live
<1>11. ASSUME c # w PROVE Reader(w, c)'
  <2>1. Reader(w, c)
    BY <1>11 DEF WriterInv
  <2>2. Range(<< ClientHello >>) = {ClientHello}
    BY DEF Range
  <2>3. Listens(c)'
    BY <1>2, <1>7, <2>1, <2>2 DEF Reader, Listens, E
  <2>4. QED
    BY <1>8, <2>3 DEF Reader, ToReader, ReaderFollows, ReachesReader, AssignedFirst
<1>12. ASSUME c = w PROVE Writer(w)'
  <2>1. Range(<< ClientHello >>) = {ClientHello} /\ Range(<< >>) = {}
    BY DEF Range
  <2>2. FromWriter(w)' /\ ToWriter(w)'
    BY <1>7, <1>12, <2>1 DEF FromWriter, ToWriter
  <2>3. WriterOwns(w)'
    BY <1>2 DEF WriterInv, Writer, WriterOwns, E, Exists
  <2>4. ReachesServer(w)'
    BY <1>8, <1>12 DEF ReachesServer
  <2>5. QED
    BY <2>2, <2>3, <2>4 DEF Writer
<1>13. WriterGrows(w)
  BY <1>1, <1>2, SameWriterGrows
<1>14. QED
  BY <1>1, <1>2, <1>5, <1>8, <1>9, <1>10, <1>11, <1>12, <1>13, ConnectionStep
     DEF TypeOK

\* A client that notices the end of its connection.
LEMMA ClientNoticesFollows ==
    ASSUME IInv, IInv', IdInv, IdInv', NEW w, SoleWriter(w), WriterInv(w),
           NEW c \in Clients, ClientNotices(c)
    PROVE  WriterInv(w)'
<1>1. w \in Clients /\ TypeOK /\ TypeOK'
  BY DEF SoleWriter, IInv
<1>2. /\ storage' = storage /\ ops' = ops /\ session' = session /\ link' = link
      /\ toServer' = toServer /\ old' = old /\ link[c] = "down"
      /\ client' = [client EXCEPT ![c] = "Dead"]
      /\ toClient' = [toClient EXCEPT ![c] = << >>]
  BY DEF ClientNotices
<1>3. Greets(c)
  BY DEF WriterInv
<1>4. ~Synced(c)' /\ ~Joined(c)' /\ ~Joined(c) /\ toClient'[c] = << >>
  BY <1>1, <1>2 DEF Synced, Joined, TypeOK
<1>5. Greets(c)'
  BY <1>2, <1>3, <1>4 DEF Greets
<1>6. Live(c)'
  BY <1>4 DEF Live
<1>7. ASSUME c # w PROVE Reader(w, c)'
  <2>1. Listens(c)'
    BY <1>2, <1>7 DEF WriterInv, Reader, Listens, E
  <2>2. QED
    BY <1>4, <2>1 DEF Reader, ToReader, ReaderFollows, ReachesReader, AssignedFirst
<1>8. ASSUME c = w PROVE Writer(w)'
  <2>1. Range(<< >>) = {}
    BY DEF Range
  <2>2. ToWriter(w)'
    BY <1>4, <1>8, <2>1 DEF ToWriter
  <2>3. \A m : /\ GoodRequest(w, m)' <=> GoodRequest(w, m)
               /\ GoodAssign(w, m)' <=> GoodAssign(w, m)
               /\ GoodUpdate(w, m)' <=> GoodUpdate(w, m)
    BY <1>2 DEF GoodRequest, GoodAssign, GoodUpdate, Denotes, Wrote, E, Exists
  <2>4. FromWriter(w)'
    BY <1>2, <2>3 DEF WriterInv, Writer, FromWriter
  <2>5. WriterOwns(w)'
    BY <1>2 DEF WriterInv, Writer, WriterOwns, E, Exists
  <2>6. ReachesServer(w)'
    BY <1>4, <1>8 DEF ReachesServer
  <2>7. QED
    BY <2>2, <2>4, <2>5, <2>6 DEF Writer
<1>9. WriterGrows(w)
  BY <1>1, <1>2, SameWriterGrows
<1>10. QED
  BY <1>1, <1>2, <1>4, <1>5, <1>6, <1>7, <1>8, <1>9, ConnectionStep DEF TypeOK

\* Before the writer joins there is nothing on the server.
LEMMA NothingBefore ==
    ASSUME IInv, NEW w, ServerFollows(w), ~Joined(w)
    PROVE  \A n \in Names : ~Exists(Server, n)
<1>1. storage[Server].idmap = << >>
  BY DEF ServerFollows
<1>2. ASSUME NEW n \in Names, Exists(Server, n) PROVE FALSE
  <2>1. Denotes(E(Server, n).id, n)
    BY <1>2, ServerIds DEF Denotes
  <2>2. E(Server, n).id \in Nat
    BY EntrySeqs DEF IInv, Nodes
  <2>3. Known(storage[Server], E(Server, n).id)
    BY <2>1, <2>2, ServerIds
  <2>4. QED
    BY <1>1, <2>2, <2>3 DEF Known
<1>3. QED
  BY <1>2

\* The server's snapshot: good assignments, one for every entry it has.
LEMMA SnapshotGood ==
    ASSUME IInv, NEW w, ServerFollows(w)
    PROVE  LET msgs == GetInitialAssignments(storage[Server]) IN
           /\ \A x \in msgs : GoodAssign(w, x) /\ Exists(Server, x.name)
           /\ \A n \in Names : Exists(Server, n) =>
                 \E x \in msgs : x.name = n /\ x.seq = E(Server, n).seq
<1> DEFINE S == storage[Server]
           msgs == GetInitialAssignments(S)
           M(n) == EntryAssign(n, S.entries[n].id, S.entries[n].seq,
                               S.entries[n].value, S.entries[n].flags)
<1>1. msgs = {M(n) : n \in {x \in Names : Has(S, x)}}
  BY DEF GetInitialAssignments
<1>2. \A n : /\ M(n).type = "EntryAssign" /\ M(n).name = n
             /\ M(n).id = E(Server, n).id /\ M(n).seq = E(Server, n).seq
             /\ M(n).value = E(Server, n).value
  BY DEF EntryAssign, E
<1>3. ASSUME NEW n \in Names, Has(S, n) PROVE GoodAssign(w, M(n)) /\ Exists(Server, n)
  <2>1. Exists(Server, n)
    BY <1>3 DEF Exists
  <2>2. Denotes(E(Server, n).id, n)
    BY <2>1, ServerIds DEF Denotes
  <2>3. Wrote(w, n, E(Server, n).seq, E(Server, n).value)
    BY <2>1 DEF ServerFollows
  <2> HIDE DEF M
  <2>4. QED
    BY <1>2, <2>1, <2>2, <2>3 DEF GoodAssign
<1> HIDE DEF M
<1>4. \A x \in msgs : GoodAssign(w, x) /\ Exists(Server, x.name)
  BY <1>1, <1>2, <1>3
<1>5. \A n \in Names : Exists(Server, n) =>
         \E x \in msgs : x.name = n /\ x.seq = E(Server, n).seq
  BY <1>1, <1>2 DEF Exists
<1>6. QED
  BY <1>4, <1>5

\* The server's half of the handshake: what it has is on its way to the client.
LEMMA SendSnapshotFollows ==
    ASSUME IInv, IInv', IdInv, IdInv', NEW w, SoleWriter(w), WriterInv(w),
           NEW c \in Clients, SendSnapshot(c)
    PROVE  WriterInv(w)'
<1> DEFINE msgs == GetInitialAssignments(storage[Server])
           h == ServerHello(msgs)
<1>1. w \in Clients /\ TypeOK /\ TypeOK' /\ c \in Nodes
  BY DEF SoleWriter, IInv, Nodes
<1>2. /\ storage' = storage /\ ops' = ops /\ client' = client /\ link' = link
      /\ old' = old /\ session[c] = "Handshake" /\ toServer[c] # << >>
      /\ session' = [session EXCEPT ![c] = "Synchronized"]
      /\ toServer' = [toServer EXCEPT ![c] = Tail(@)]
      /\ toClient' = IF link[c] = "up"
                     THEN [toClient EXCEPT ![c] = Append(@, h)] ELSE toClient
  BY DEF SendSnapshot
<1>3. Greets(c) /\ ServerFollows(w)
  BY DEF WriterInv
<1>4. /\ link[c] = "up" /\ client[c] = "Handshake"
      /\ toServer[c] = << ClientHello >> /\ toClient[c] = << >>
  BY <1>1, <1>2, <1>3 DEF Greets, TypeOK
<1>5. /\ session'[c] = "Synchronized" /\ toServer'[c] = << >>
      /\ toClient'[c] = << h >> /\ toClient'[c][1] = h /\ Len(toClient'[c]) = 1
      /\ Range(toClient'[c]) = {h}
  <2>1. toServer'[c] = Tail(toServer[c]) /\ toClient'[c] = Append(toClient[c], h)
    BY <1>1, <1>2, <1>4 DEF TypeOK
  <2>2. Tail(<< ClientHello >>) = << >> /\ Append(<< >>, h) = << h >>
    OBVIOUS
  <2>3. Len(<< h >>) = 1 /\ << h >>[1] = h /\ << h >> # << >>
    OBVIOUS
  <2>4. Range(<< h >>) = {h}
    BY DEF Range
  <2>5. session'[c] = "Synchronized"
    BY <1>1, <1>2 DEF TypeOK
  <2>6. QED
    BY <1>4, <2>1, <2>2, <2>3, <2>4, <2>5
<1>6. IsServerHello(h) /\ h.type = "ServerHello" /\ h.assigns = msgs
  BY DEF ServerHello, IsServerHello
<1> HIDE DEF h
<1>7. ~Joined(c)' /\ ~Joined(c)
  BY <1>2, <1>4 DEF Joined
<1>8. Greets(c)'
  <2>1. toClient'[c] # << >>
    BY <1>5
  <2>2. \A i \in 1 .. Len(toClient'[c]) : i = 1
    BY <1>5
  <2>3. QED
    BY <1>2, <1>3, <1>4, <1>5, <1>6, <2>1, <2>2 DEF Greets
<1>9. Live(c)'
  BY <1>7 DEF Live
<1>10. \A n \in Names : /\ E(Server, n)' = E(Server, n)
                        /\ Exists(Server, n)' <=> Exists(Server, n)
  BY <1>2 DEF E, Exists
<1>11. ASSUME c # w PROVE Reader(w, c)'
  <2>1. Reader(w, c)
    BY <1>11 DEF WriterInv
  <2>2. Range(toServer'[c]) = {}
    BY <1>5 DEF Range
  <2>3. Listens(c)'
    BY <1>2, <2>1, <2>2 DEF Reader, Listens, E
  <2>4. ReaderFollows(w, c)'
    BY <1>7 DEF ReaderFollows
  <2>5. ToReader(w, c)'
    <3>1. \A x \in msgs : GoodAssign(w, x)'
      <4>1. \A x \in msgs : GoodAssign(w, x)
        BY <1>3, SnapshotGood
      <4>2. \A x : GoodAssign(w, x) => GoodAssign(w, x)'
        BY <1>2 DEF GoodAssign, Wrote, Denotes, E, Exists
      <4>3. QED
        BY <4>1, <4>2
    <3>2. ASSUME NEW m \in Range(toClient'[c]) PROVE GoodHello(w, m)'
      <4>1. m = h
        BY <1>5
      <4>2. \A x \in m.assigns : GoodAssign(w, x)'
        BY <1>6, <3>1, <4>1
      <4>3. QED
        BY <1>6, <4>1, <4>2 DEF GoodHello
    <3>3. QED
      BY <3>2 DEF ToReader
  <2>6. ReachesReader(c)'
    <3>1. ASSUME NEW n \in Names, Exists(Server, n)'
          PROVE  Carries(h, n, E(Server, n).seq)'
      <4>1. PICK x \in msgs : x.name = n /\ x.seq = E(Server, n).seq
        BY <1>3, <1>10, <3>1, SnapshotGood
      <4>2. E(Server, n).seq \in Nat
        BY <1>1, EntrySeqs DEF Nodes
      <4>3. x.seq >= E(Server, n)'.seq
        BY <1>10, <4>1, <4>2
      <4>4. IsServerHello(h)' /\ h'.assigns = msgs
        BY <1>2, <1>6 DEF h, ServerHello, IsServerHello
      <4>5. QED
        BY <4>1, <4>3, <4>4 DEF Carries
    <3>2. h' = h
      BY <1>2 DEF h
    <3>3. QED
      BY <1>5, <3>1, <3>2 DEF ReachesReader
  <2>7. AssignedFirst(c)'
    <3>1. \A i \in 1 .. Len(toClient'[c]) : toClient'[c][i].type = "ServerHello"
      BY <1>5, <1>6
    <3>2. QED
      BY <3>1 DEF AssignedFirst
  <2>8. QED
    BY <2>3, <2>4, <2>5, <2>6, <2>7 DEF Reader
<1>12. ASSUME c = w PROVE Writer(w)'
  <2>1. Range(toServer'[w]) = {}
    BY <1>5, <1>12 DEF Range
  <2>2. msgs = {}
    BY <1>3, <1>7, <1>12, NothingBefore DEF GetInitialAssignments, Exists
  <2>3. ToWriter(w)' /\ FromWriter(w)'
    BY <1>5, <1>6, <1>12, <2>1, <2>2 DEF ToWriter, FromWriter
  <2>4. WriterOwns(w)'
    BY <1>2 DEF WriterInv, Writer, WriterOwns, E, Exists
  <2>5. ReachesServer(w)'
    BY <1>7, <1>12 DEF ReachesServer
  <2>6. QED
    BY <2>3, <2>4, <2>5 DEF Writer
<1>13. WriterGrows(w)
  BY <1>1, <1>2, SameWriterGrows
<1>14. QED
  <2>1. \A d \in Clients \ {c} :
           /\ session'[d] = session[d] /\ toServer'[d] = toServer[d]
           /\ toClient'[d] = toClient[d]
    BY <1>1, <1>2 DEF TypeOK
  <2>2. QED
    BY <1>1, <1>2, <1>7, <1>8, <1>9, <1>11, <1>12, <1>13, <2>1, ConnectionStep

\* The server restarts: it has nothing, and nobody is connected.
LEMMA ServerRestartFollows ==
    ASSUME IInv, IInv', IdInv, IdInv', NEW w, SoleWriter(w), WriterInv(w),
           ServerRestart
    PROVE  WriterInv(w)'
<1>1. w \in Clients /\ w \in Nodes /\ Server \in Nodes /\ w # Server
      /\ \A c \in Clients : c # Server
      /\ TypeOK /\ TypeOK' /\ NoId \in Nat
  BY NTSyncAssumption, StorageAssumption
     DEF NTSyncAssumption, StorageAssumption, SoleWriter, IInv, Nodes
<1>2. /\ storage' = [storage EXCEPT ![Server] = NewStore(TRUE)]
      /\ client' = client /\ ops' = ops
      /\ \A c \in Clients :
            /\ session'[c] = "None" /\ link'[c] = "down" /\ toServer'[c] = << >>
            /\ toClient'[c] = Posted(c) /\ old'[c] = NoOld
  BY DEF ServerRestart
<1>3. /\ \A c \in Clients : storage'[c] = storage[c]
      /\ storage'[Server] = NewStore(TRUE)
  BY <1>1, <1>2 DEF TypeOK, Nodes
<1>4. Range(<< >>) = {} /\ Len(<< >>) = 0 /\ 1 .. 0 = {}
  BY DEF Range
<1>5. \A c \in Clients : ~Synced(c)' /\ ~Joined(c)'
  BY <1>2 DEF Synced, Joined
<1>6. \A c \in Clients : Greets(c)' /\ Live(c)'
  BY <1>2, <1>5 DEF Greets, Live
<1>7. ASSUME NEW c \in Clients \ {w} PROVE Reader(w, c)'
  <2>1. Listens(c)'
    BY <1>2, <1>3, <1>4 DEF WriterInv, Reader, Listens, E
  <2>2. QED
    BY <1>5, <2>1 DEF Reader, ToReader, ReaderFollows, ReachesReader, AssignedFirst
<1>8. Writer(w)'
  <2>1. FromWriter(w)'
    BY <1>1, <1>2, <1>4 DEF FromWriter
  <2>2. WriterOwns(w)'
    BY <1>1, <1>2, <1>3 DEF WriterInv, Writer, WriterOwns, E, Exists
  <2>3. ReachesServer(w)'
    BY <1>1, <1>5 DEF ReachesServer
  <2>4. ToWriter(w)'
    <3>1. ASSUME NEW m \in Range(toClient'[w])
          PROVE  (IsServerHello(m) /\ m.assigns = {}) \/ Answer(w, m)'
      <4>1. m \in Range(toClient[w])
        <5>1. Posted(w) \in Seq(ServerMsg) /\ toClient[w] \in Seq(ServerMsg)
              /\ toClient'[w] = Posted(w)
          BY <1>1, <1>2, PostedType DEF TypeOK
        <5>2. Among(Posted(w), toClient[w])
          BY <1>1, PostedAmong
        <5>3. PICK i \in 1 .. Len(Posted(w)) : Posted(w)[i] = m
          BY <5>1, InRange
        <5>4. QED
          BY <5>1, <5>2, <5>3, InRange DEF Among
      <4>2. (IsServerHello(m) /\ m.assigns = {}) \/ Answer(w, m)
        BY <4>1 DEF WriterInv, Writer, ToWriter
      <4>3. Answer(w, m) => Answer(w, m)'
        BY <1>1, <1>2, <1>3 DEF Answer, Wrote, E, Exists
      <4>4. QED
        BY <4>2, <4>3
    <3>2. QED
      BY <3>1 DEF ToWriter, IsServerHello
  <2>5. QED
    BY <2>1, <2>2, <2>3, <2>4 DEF Writer
<1>9. ServerFollows(w)'
  <2>1. storage'[Server].idmap = << >> /\ \A n \in Names : ~Exists(Server, n)'
    BY <1>3 DEF NewStore, NewEntry, Exists, Has
  <2>2. QED
    BY <1>1, <1>4, <2>1 DEF ServerFollows
<1>10. QED
  BY <1>6, <1>7, <1>8, <1>9 DEF WriterInv

-----------------------------------------------------------------------------
(* One writer: its operations *)

\* What an operation of the writer can do: nothing to the values, or a new value
\* under the next number.
LEMMA WriterOperation ==
    ASSUME TypeOK, NEW w, SoleWriter(w), WriterOwns(w), ops < MaxOps,
           NEW r \in LocalResults(w)
    PROVE  LET s == storage[w] IN
           \/ /\ SameContent(s, r.store)
              /\ \A m \in Range(r.out) : m.type = "FlagsUpdate"
           \/ \E n \in Names, v \in Values :
                 LET e == s.entries[n]
                     f == r.store.entries[n]
                 IN  /\ OnlyAt(s, r.store, n) /\ r.store.idmap = s.idmap
                     /\ f.value = v /\ f.id = e.id /\ f.seq = e.seq + 1
                     /\ f.localWrite
                     /\ \/ r.out = << EntryAssign(n, e.id, e.seq + 1, v, e.flags) >>
                        \/ /\ e.id # NoId
                           /\ r.out = << EntryUpdate(e.id, e.seq + 1, v) >>
                        \/ e.id = NoId /\ Has(s, n) /\ r.out = << >>
<1> DEFINE s == storage[w]
<1>1. w \in Clients /\ w \in Nodes /\ s \in Store /\ ~s.server
  BY NTSyncAssumption DEF NTSyncAssumption, SoleWriter, TypeOK, Nodes
<1>2. Ops[w] \subseteq {"write", "flags"}
  BY DEF SoleWriter
<1>3. \A n \in Names : s.entries[n].seq < Half
  <2>1. \A n \in Names : s.entries[n].seq \in Nat /\ s.entries[n].seq <= ops
    BY <1>1, EntrySeqs DEF WriterOwns, E
  <2>2. ops < MaxOps /\ MaxOps < Half /\ ops \in Nat /\ MaxOps \in Nat
    BY NTSyncAssumption DEF NTSyncAssumption, SoleWriter, TypeOK
  <2>3. Half \in Nat
    BY SeqSpaceFacts
  <2>4. QED
    BY <2>1, <2>2, <2>3
<1>4. \/ \E n \in Names, v \in Values :
            r \in {SetDefaultEntryValue(s, n, v), SetEntryValue(s, n, v),
                   SetEntryTypeValue(s, n, v)}
      \/ \E n \in Names, f \in BOOLEAN : r = SetEntryFlags(s, n, f)
  <2>1. "delete" \notin Ops[w] /\ "clear" \notin Ops[w]
    BY <1>2
  <2>2. r \in UserOperations(s, Ops[w])
    BY DEF LocalResults
  <2>3. QED
    BY <2>1, <2>2 DEF UserOperations
<1>5. CASE \E n \in Names, v \in Values :
            r \in {SetDefaultEntryValue(s, n, v), SetEntryValue(s, n, v),
                   SetEntryTypeValue(s, n, v)}
  <2>1. PICK n \in Names, v \in Values :
            r \in {SetDefaultEntryValue(s, n, v), SetEntryValue(s, n, v),
                   SetEntryTypeValue(s, n, v)}
    BY <1>5
  <2>2. Range(<< >>) = {}
    BY DEF Range
  <2> HIDE DEF s
  <2>3. QED
    BY <1>1, <1>3, <2>1, <2>2, WriteEffect DEF s
<1>6. CASE \E n \in Names, f \in BOOLEAN : r = SetEntryFlags(s, n, f)
  <2>1. PICK n \in Names, f \in BOOLEAN : r = SetEntryFlagsImpl(s, n, f, TRUE)
    BY <1>6 DEF SetEntryFlags
  <2>2. QED
    BY <1>1, <2>1, FlagsEffect
<1>7. QED
  BY <1>4, <1>5, <1>6

\* The writer writes, or sets flags.
LEMMA LocalOpFollows ==
    ASSUME IInv, IInv', IdInv, IdInv', NEW w, SoleWriter(w), WriterInv(w),
           LocalOp(w)
    PROVE  WriterInv(w)'
<1> DEFINE s == storage[w]
<1>1. /\ w \in Clients /\ w \in Nodes /\ w # Server /\ TypeOK /\ TypeOK'
      /\ s \in Store /\ Server \in Nodes
  BY NTSyncAssumption DEF NTSyncAssumption, SoleWriter, IInv, TypeOK, Nodes
<1>2. Greets(w) /\ Live(w) /\ Writer(w) /\ ServerFollows(w)
      /\ WriterOwns(w) /\ FromWriter(w) /\ ToWriter(w) /\ ReachesServer(w)
  BY <1>1 DEF WriterInv, Writer
<1>3. PICK r \in LocalResults(w) :
         /\ storage' = [storage EXCEPT ![w] = r.store]
         /\ IF client[w] = "Active" THEN SendToServer(w, r.out)
                                    ELSE UNCHANGED toServer
         /\ UNCHANGED toClient
  BY <1>1 DEF LocalOp
<1>4. /\ ops < MaxOps /\ ops' = ops + 1 /\ ops \in Nat /\ MaxOps \in Nat
      /\ UNCHANGED << client, session, link, old, toClient >>
  BY <1>1, <1>3, NTSyncAssumption DEF LocalOp, TypeOK, NTSyncAssumption
<1>5. /\ storage'[w] = r.store
      /\ \A p \in Nodes \ {w} : storage'[p] = storage[p]
  BY <1>1, <1>3 DEF TypeOK
<1>6. r.out \in Seq(EntryMsg) /\ r.store \in Store
  BY <1>1, LocalResultsFacts DEF GoodResult
<1>7. r.out \in Seq(ClientMsg) /\ toServer[w] \in Seq(ClientMsg)
  BY <1>1, <1>6, SeqOfEntryMsg DEF TypeOK
<1>8. /\ \A d \in Clients \ {w} : toServer'[d] = toServer[d]
      /\ Joined(w) => toServer'[w] = toServer[w] \o r.out
      /\ ~Joined(w) => toServer'[w] = toServer[w]
  BY <1>1, <1>3 DEF SendToServer, Joined, TypeOK
<1>9. /\ Range(toServer[w]) \subseteq Range(toServer'[w])
      /\ Range(toServer'[w]) \subseteq Range(toServer[w]) \cup Range(r.out)
      /\ Joined(w) => Range(r.out) \subseteq Range(toServer'[w])
      /\ ~Joined(w) => Range(toServer'[w]) = Range(toServer[w])
      /\ Range(r.out) \subseteq EntryMsg
  <2>1. Range(toServer[w] \o r.out) = Range(toServer[w]) \cup Range(r.out)
    BY <1>7, Messages
  <2>2. Range(r.out) \subseteq EntryMsg
    BY <1>6, Messages
  <2>3. QED
    BY <1>8, <2>1, <2>2
<1> DEFINE Quiet == /\ SameContent(s, r.store)
                    /\ \A m \in Range(r.out) : m.type = "FlagsUpdate"
           Writes(n, v) ==
               LET e == s.entries[n]
                   f == r.store.entries[n]
               IN  /\ OnlyAt(s, r.store, n) /\ r.store.idmap = s.idmap
                   /\ f.value = v /\ f.id = e.id /\ f.seq = e.seq + 1
                   /\ f.localWrite
                   /\ \/ r.out = << EntryAssign(n, e.id, e.seq + 1, v, e.flags) >>
                      \/ /\ e.id # NoId
                         /\ r.out = << EntryUpdate(e.id, e.seq + 1, v) >>
                      \/ e.id = NoId /\ Has(s, n) /\ r.out = << >>
<1>10. Quiet \/ \E n \in Names, v \in Values : Writes(n, v)
  BY <1>1, <1>2, <1>4, WriterOperation
<1>11. \A x \in Names : /\ E(w, x) = s.entries[x] /\ E(w, x)' = r.store.entries[x]
                        /\ Exists(w, x) <=> Has(s, x)
                        /\ Exists(w, x)' <=> Has(r.store, x)
                        /\ E(Server, x)' = E(Server, x)
                        /\ Exists(Server, x)' <=> Exists(Server, x)
                        /\ E(w, x).seq \in Nat
  BY <1>1, <1>5, EntrySeqs DEF E, Exists
<1>12. ServerGrows
  <2>1. \A n \in Names : E(Server, n).seq \in Nat
    BY <1>1, EntrySeqs
  <2>2. QED
    BY <1>11, <2>1 DEF ServerGrows
\* the effect of the operation, name by name
<1>13. ASSUME NEW x \in Names
       PROVE  /\ E(w, x)'.id = E(w, x).id
              /\ Exists(w, x) => Exists(w, x)'
              /\ E(w, x)'.seq \in {E(w, x).seq, E(w, x).seq + 1}
              /\ E(w, x)'.seq = E(w, x).seq =>
                    /\ E(w, x)'.value = E(w, x).value
                    /\ Exists(w, x)' <=> Exists(w, x)
              /\ E(w, x).localWrite => E(w, x)'.localWrite
              /\ E(w, x)'.seq # E(w, x).seq =>
                    /\ E(w, x)'.localWrite /\ Exists(w, x)'
                    /\ Writes(x, E(w, x)'.value)
  <2>1. CASE Quiet
    BY <1>11, <2>1 DEF SameContent, Alike, Has
  <2>2. CASE \E n \in Names, v \in Values : Writes(n, v)
    <3>1. PICK n \in Names, v \in Values : Writes(n, v)
      BY <2>2
    <3>2. CASE x # n
      <4>1. E(w, x)' = E(w, x)
        BY <1>11, <3>1, <3>2 DEF OnlyAt
      <4>2. QED
        BY <1>11, <4>1 DEF Has
    <3>3. CASE x = n
      <4>1. E(w, x)'.value = v /\ v # NoValue
        BY <1>11, <3>1, <3>3, StorageAssumption DEF StorageAssumption
      <4>2. Writes(x, E(w, x)'.value)
        BY <3>1, <3>3, <4>1
      <4>3. E(w, x)'.id = E(w, x).id /\ E(w, x)'.seq = E(w, x).seq + 1
            /\ E(w, x)'.localWrite
        BY <1>11, <3>1, <3>3
      <4>4. Exists(w, x)'
        BY <1>11, <4>1 DEF Has
      <4>5. E(w, x)'.seq # E(w, x).seq
        BY <1>11, <4>3
      <4> HIDE DEF Writes
      <4>6. QED
        BY <4>2, <4>3, <4>4, <4>5
    <3>4. QED
      BY <3>2, <3>3
  <2>3. QED
    BY <1>10, <2>1, <2>2
<1>14. r.store.idmap = s.idmap
  BY <1>10 DEF SameContent
<1>15. WriterGrows(w)
  <2> HIDE DEF Writes
  <2>1. \A x \in Names : /\ Exists(w, x) => Exists(w, x)'
                         /\ \/ E(w, x)'.seq > E(w, x).seq
                            \/ /\ E(w, x)'.seq = E(w, x).seq
                               /\ E(w, x)'.value = E(w, x).value
    BY <1>11, <1>13
  <2>2. QED
    BY <2>1 DEF WriterGrows
<1>16. Joined(w)' <=> Joined(w)
  BY <1>4 DEF Joined
<1>17. Greets(w)'
  <2>1. CASE Joined(w)
    BY <1>2, <1>4, <2>1 DEF Greets, Synced, Joined
  <2>2. CASE ~Joined(w)
    BY <1>2, <1>4, <1>8, <2>2 DEF Greets, Synced
  <2>3. QED
    BY <2>1, <2>2
<1>18. Live(w)'
  <2> HIDE DEF Writes
  <2>1. ASSUME Joined(w), NEW k \in 1 .. Len(s.idmap), NEW n \in Names,
               n = s.idmap[k]
        PROVE  Exists(w, n)' /\ E(w, n)'.id = k - 1
    <3>1. n # NoName
      BY StorageAssumption DEF StorageAssumption
    <3>2. Exists(w, n) /\ E(w, n).id = k - 1
      BY <1>2, <2>1, <3>1 DEF Live
    <3>3. QED
      BY <1>13, <3>2
  <2>2. \A k \in 1 .. Len(s.idmap) : s.idmap[k] # NoName => s.idmap[k] \in Names
    BY <1>1, StoreLen DEF Slots
  <2>3. storage'[w].idmap = s.idmap
    BY <1>5, <1>14
  <2>4. QED
    BY <1>16, <2>1, <2>2, <2>3 DEF Live, Exists, E
<1>19. \A m \in Range(toServer'[w]) : m \in Range(toServer[w]) \/ m \in Range(r.out)
  BY <1>9
\* what it sends
<1>20. ASSUME Joined(w), NEW m \in Range(r.out)
       PROVE  (GoodRequest(w, m) \/ GoodAssign(w, m) \/ GoodUpdate(w, m)
               \/ m.type = "FlagsUpdate")'
  <2>1. CASE Quiet
    BY <1>20, <2>1
  <2>2. CASE \E n \in Names, v \in Values : Writes(n, v)
    <3>1. PICK n \in Names, v \in Values : Writes(n, v)
      BY <2>2
    <3> DEFINE e == E(w, n)
               q == e.seq + 1
    <3>2. E(w, n)'.seq = q /\ E(w, n)'.value = v /\ v # NoValue /\ q \in Nat
      BY <1>11, <3>1, StorageAssumption DEF StorageAssumption
    <3>3. Exists(w, n)'
      BY <1>11, <3>2 DEF Has
    <3>4. PICK x, y : x = q /\ y = v
      OBVIOUS
    <3>5. Wrote(w, n, x, y)'
      BY <3>2, <3>3, <3>4 DEF Wrote
    <3>6. e.id # NoId => Denotes(e.id, n)'
      <4>1. e.id # NoId => Denotes(e.id, n)
        BY <1>1, <1>2, <1>20, ClientIds
      <4>2. PICK id : id = e.id
        OBVIOUS
      <4>3. id # NoId => Denotes(id, n)'
        BY <1>12, <4>1, <4>2, DenotesStays
      <4>4. e' = r.store.entries[n] /\ e'.id = e.id
        BY <1>11, <3>1
      <4>5. QED
        BY <4>2, <4>3, <4>4 DEF Denotes
    <3>7. CASE r.out = << EntryAssign(n, e.id, e.seq + 1, v, e.flags) >>
      <4>1. Range(r.out) = {EntryAssign(n, e.id, e.seq + 1, v, e.flags)}
        BY <3>7 DEF Range
      <4>2. /\ m.type = "EntryAssign" /\ m.name = n /\ m.id = e.id
            /\ m.seq = x /\ m.value = y
        BY <1>20, <3>4, <4>1 DEF EntryAssign
      <4>3. CASE e.id = NoId
        BY <3>5, <4>2, <4>3 DEF GoodRequest
      <4>4. CASE e.id # NoId
        <5>1. PICK id : id = e.id
          OBVIOUS
        <5>2. Denotes(id, n)'
          <6>1. id # NoId => Denotes(id, n)
            BY <1>1, <1>2, <1>20, <5>1, ClientIds
          <6>2. QED
            BY <1>12, <4>4, <5>1, <6>1, DenotesStays
        <5>3. m.id = id
          BY <4>2, <5>1
        <5>4. QED
          BY <3>5, <4>2, <5>2, <5>3 DEF GoodAssign
      <4>5. QED
        BY <4>3, <4>4
    <3>8. CASE e.id # NoId /\ r.out = << EntryUpdate(e.id, e.seq + 1, v) >>
      <4>1. Range(r.out) = {EntryUpdate(e.id, e.seq + 1, v)}
        BY <3>8 DEF Range
      <4>2. m.type = "EntryUpdate" /\ m.id = e.id /\ m.seq = x /\ m.value = y
        BY <1>20, <3>4, <4>1 DEF EntryUpdate
      <4>3. PICK id : id = e.id
        OBVIOUS
      <4>4. Denotes(id, n)'
        <5>1. Denotes(id, n)
          BY <1>1, <1>2, <1>20, <3>8, <4>3, ClientIds
        <5>2. QED
          BY <1>12, <5>1, DenotesStays
      <4>5. m.id = id
        BY <4>2, <4>3
      <4>6. QED
        BY <3>5, <4>2, <4>4, <4>5 DEF GoodUpdate
    <3>9. CASE r.out = << >>
      BY <1>20, <3>9 DEF Range
    <3>10. QED
      BY <1>11, <3>1, <3>7, <3>8, <3>9
  <2>3. QED
    BY <1>10, <2>1, <2>2
<1>21. FromWriter(w)'
  <2> SUFFICES ASSUME NEW m \in Range(toServer'[w])
               PROVE  (\/ m \in {ClientHello, ClientHelloDone}
                       \/ GoodRequest(w, m) \/ GoodAssign(w, m) \/ GoodUpdate(w, m)
                       \/ m.type = "FlagsUpdate")'
    BY DEF FromWriter
  <2>1. CASE m \in Range(toServer[w])
    <3>1. m \in ClientMsg
      BY <1>7, <2>1, Messages
    <3>2. \/ m \in {ClientHello, ClientHelloDone}
          \/ GoodRequest(w, m) \/ GoodAssign(w, m) \/ GoodUpdate(w, m)
          \/ m.type = "FlagsUpdate"
      BY <1>2, <2>1 DEF FromWriter
    <3>3. QED
      BY <1>1, <1>12, <1>15, <3>1, <3>2, GoodStays
  <2>2. CASE m \notin Range(toServer[w])
    <3>1. Joined(w) /\ m \in Range(r.out)
      BY <1>9, <1>19, <2>2
    <3>2. QED
      BY <1>20, <3>1
  <2>3. QED
    BY <2>1, <2>2
<1>22. ToWriter(w)'
  <2>1. ASSUME NEW m \in Range(toClient[w]), Answer(w, m) PROVE Answer(w, m)'
    <3>1. m \in ServerMsg
      BY <1>1, Messages DEF TypeOK
    <3>2. m \in AssignMsg
      BY <2>1, <3>1, MsgKinds DEF Answer
    <3>3. m.name \in Names /\ m.seq \in Nat
      BY <3>2, MsgFields DEF SeqNums
    <3>4. Wrote(w, m.name, m.seq, m.value)'
      BY <1>1, <1>15, <2>1, <3>3, WroteStays DEF Answer
    <3>5. Denotes(m.id, m.name) => Denotes(m.id, m.name)'
      BY <1>12, <3>3, DenotesStays
    <3>6. QED
      BY <1>4, <1>11, <2>1, <3>3, <3>4, <3>5 DEF Answer
  <2>2. QED
    BY <1>2, <1>4, <2>1 DEF ToWriter
<1>23. WriterOwns(w)'
  <2> HIDE DEF Writes
  <2>1. ASSUME NEW x \in Names
        PROVE  E(w, x)'.seq <= ops' /\ (Exists(w, x)' => E(w, x)'.localWrite)
    <3>1. E(w, x).seq <= ops /\ (Exists(w, x) => E(w, x).localWrite)
      BY <1>2 DEF WriterOwns
    <3>2. QED
      BY <1>4, <1>11, <1>13, <3>1
  <2>2. QED
    BY <1>4, <2>1 DEF WriterOwns
<1>24. ReachesServer(w)'
  <2> SUFFICES ASSUME Joined(w), NEW x \in Names, Exists(w, x)'
               PROVE  OnItsWay(w, x)'
    BY <1>16 DEF ReachesServer
  <2>1. /\ \A m : m \in Range(toServer[w]) => m \in Range(toServer'[w])
        /\ toClient'[w] = toClient[w]
    BY <1>4, <1>9
  <2>2. \A m \in Range(toServer[w]) : GoodRequest(w, m) => GoodRequest(w, m)'
    <3>1. \A m \in Range(toServer[w]) : m \in ClientMsg
      BY <1>7, Messages
    <3>2. QED
      BY <1>1, <1>15, <3>1, GoodStays
  <2>3. CASE E(w, x)'.seq = E(w, x).seq
    <3>1. /\ E(w, x)'.seq = E(w, x).seq /\ E(w, x)'.id = E(w, x).id
          /\ Exists(w, x)
      BY <1>13, <2>3
    <3>2. OnItsWay(w, x)
      BY <1>2, <3>1 DEF ReachesServer
    <3>3. CASE E(w, x).id = NoId
      BY <1>11, <2>1, <2>2, <3>1, <3>2, <3>3 DEF OnItsWay
    <3>4. CASE E(w, x).id # NoId
      BY <1>11, <2>1, <3>1, <3>2, <3>4 DEF OnItsWay
    <3>5. QED
      BY <3>3, <3>4
  <2>4. CASE E(w, x)'.seq # E(w, x).seq
    <3> DEFINE e == s.entries[x]
               v == E(w, x)'.value
    <3>1. Writes(x, v)
      BY <1>13, <2>4
    <3>2. E(w, x)'.id = e.id /\ E(w, x)'.seq = e.seq + 1 /\ e.seq + 1 \in Nat
      BY <1>11, <3>1
    <3>3. \A m : m \in Range(r.out) => m \in Range(toServer'[w])
      BY <1>9
    <3>4. CASE e.id = NoId /\ Exists(Server, x)
      <4>1. Exists(w, x)
        BY <1>2, <3>4 DEF ServerFollows, Wrote
      <4>2. OnItsWay(w, x)
        BY <1>2, <4>1 DEF ReachesServer
      <4>3. \E m \in Range(toClient[w]) : m.type = "EntryAssign" /\ m.name = x
        BY <1>11, <3>4, <4>2 DEF OnItsWay
      <4>4. QED
        BY <1>11, <2>1, <3>2, <3>4, <4>3 DEF OnItsWay
    <3>5. CASE e.id = NoId /\ ~Exists(Server, x)
      <4>1. \E m \in Range(toServer'[w]) : GoodRequest(w, m)' /\ m.name = x
        <5>1. CASE r.out = << EntryAssign(x, e.id, e.seq + 1, v, e.flags) >>
          <6>1. PICK m : m = EntryAssign(x, e.id, e.seq + 1, v, e.flags)
            OBVIOUS
          <6>2. m \in Range(r.out)
            BY <5>1, <6>1 DEF Range
          <6>3. m.type = "EntryAssign" /\ m.name = x /\ m.id = NoId
            BY <3>5, <6>1 DEF EntryAssign
          <6>4. (GoodRequest(w, m) \/ GoodAssign(w, m) \/ GoodUpdate(w, m)
                 \/ m.type = "FlagsUpdate")'
            BY <1>20, <6>2
          <6>5. GoodRequest(w, m)'
            BY <6>3, <6>4 DEF GoodAssign, GoodUpdate, Denotes
          <6>6. QED
            BY <3>3, <6>2, <6>3, <6>5
        <5>2. CASE e.id = NoId /\ Has(s, x) /\ r.out = << >>
          <6>1. Exists(w, x) /\ OnItsWay(w, x)
            BY <1>2, <1>11, <5>2 DEF ReachesServer
          <6>2. PICK m \in Range(toServer[w]) : GoodRequest(w, m) /\ m.name = x
            BY <1>11, <3>5, <6>1 DEF OnItsWay
          <6>3. QED
            BY <2>1, <2>2, <6>2
        <5>3. QED
          BY <3>1, <3>5, <5>1, <5>2
      <4>2. QED
        BY <1>11, <3>2, <3>5, <4>1 DEF OnItsWay
    <3>6. CASE e.id # NoId
      <4>1. \E m \in Range(r.out) : /\ m.type \in {"EntryAssign", "EntryUpdate"}
                                    /\ m.id = e.id /\ m.seq = e.seq + 1
        <5>1. CASE r.out = << EntryAssign(x, e.id, e.seq + 1, v, e.flags) >>
          <6>1. EntryAssign(x, e.id, e.seq + 1, v, e.flags) \in Range(r.out)
            BY <5>1 DEF Range
          <6>2. QED
            BY <6>1 DEF EntryAssign
        <5>2. CASE r.out = << EntryUpdate(e.id, e.seq + 1, v) >>
          <6>1. EntryUpdate(e.id, e.seq + 1, v) \in Range(r.out)
            BY <5>2 DEF Range
          <6>2. QED
            BY <6>1 DEF EntryUpdate
        <5>3. QED
          BY <3>1, <3>6, <5>1, <5>2
      <4>2. PICK m \in Range(r.out) : /\ m.type \in {"EntryAssign", "EntryUpdate"}
                                      /\ m.id = e.id /\ m.seq = e.seq + 1
        BY <4>1
      <4>3. m \in Range(toServer'[w]) /\ m.seq >= E(w, x)'.seq
            /\ m.id = E(w, x)'.id
        BY <3>2, <3>3, <4>2
      <4>4. QED
        BY <3>2, <3>6, <4>2, <4>3 DEF OnItsWay
    <3>7. QED
      BY <3>4, <3>5, <3>6
  <2>5. QED
    BY <2>3, <2>4
<1>25. Writer(w)'
  BY <1>21, <1>22, <1>23, <1>24 DEF Writer
<1>26. QED
  <2>1. \A d \in Clients \ {w} : storage'[d] = storage[d]
    BY <1>5 DEF Nodes
  <2>2. storage'[Server] = storage[Server]
    BY <1>1, <1>5
  <2>3. UNCHANGED << client, session, link, old, toClient >>
    BY <1>4
  <2>4. \A d \in Clients \ {w} :
              /\ storage'[d] = storage[d] /\ client'[d] = client[d]
              /\ session'[d] = session[d] /\ link'[d] = link[d]
              /\ toServer'[d] = toServer[d] /\ toClient'[d] = toClient[d]
              /\ old'[d] = old[d]
    BY <1>8, <2>1, <2>3
  <2>5. QED
    BY <1>1, <1>15, <1>16, <1>17, <1>18, <1>25, <2>2, <2>4, ConnectionStep

-----------------------------------------------------------------------------
(* One writer: the client's half of the handshake *)

\* A sequence of all members of a set holds just those.
LEMMA SetToSeqsRange ==
    ASSUME NEW S, IsFiniteSet(S), NEW q \in SetToSeqs(S)
    PROVE  Range(q) = S
<1> DEFINE k == Cardinality(S)
<1>1. k \in Nat /\ Cardinality(1 .. k) = k
  BY FS_CardinalityType, FS_Interval
<1>2. q \in [1 .. k -> S] /\ \A i, j \in 1 .. k : i # j => q[i] # q[j]
  BY DEF SetToSeqs
<1>3. q \in Injection(1 .. k, S)
  BY <1>2 DEF Injection, IsInjective
<1>4. q \in Surjection(1 .. k, S)
  <2> HIDE DEF k
  <2>1. k = Cardinality(S)
    BY DEF k
  <2>2. QED
    BY <1>1, <1>3, <2>1, FS_Injection
<1>5. QED
  BY <1>2, <1>4 DEF Surjection, Range

\* A snapshot does not make a listening client a writer.
LEMMA SnapshotListens ==
    ASSUME NEW s \in Store, NEW msgs \in Snapshots,
           \A n \in Names : ~s.entries[n].localWrite
    PROVE  /\ \A n \in Names :
                 ~ApplyInitialAssignments(s, msgs).entries[n].localWrite
           /\ InitialRequests(s, msgs) = {} /\ InitialUpdates(s, msgs) = {}
<1> DEFINE t == ApplyInitialAssignments(s, msgs)
<1>1. ASSUME NEW n \in Names
      PROVE  t.entries[n] = IF n \in Assigned(msgs)
                 THEN EntryAfterHandshake(s.entries[n], AssignmentOf(msgs, n))
                 ELSE EntryUnknownToServer(s.entries[n])
  BY DEF ApplyInitialAssignments, Store
<1> HIDE DEF t
<1>2. ASSUME NEW n \in Names
      PROVE  /\ ~KeepsOwn(s.entries[n])
             /\ \A m : ~EntryAfterHandshake(s.entries[n], m).localWrite
             /\ ~EntryUnknownToServer(s.entries[n]).localWrite
  <2>1. ~KeepsOwn(s.entries[n]) /\ s.entries[n] \in Entry
    BY StoreFields DEF KeepsOwn
  <2>2. QED
    BY <2>1 DEF EntryAfterHandshake, EntryUnknownToServer, Entry
<1>3. \A n \in Names : ~t.entries[n].localWrite
  BY <1>1, <1>2
<1>4. InitialRequests(s, msgs) = {}
  BY DEF InitialRequests
<1>5. InitialUpdates(s, msgs) = {}
  <2>1. \A n \in Assigned(msgs) : n \in Names
    BY AssignmentOfType DEF Snapshots
  <2>2. QED
    BY <1>2, <2>1 DEF InitialUpdates
<1>6. QED
  BY <1>3, <1>4, <1>5 DEF t

\* What is left of a queue when its first message was read.
LEMMA TailFacts ==
    ASSUME NEW T, NEW q \in Seq(T), q # << >>
    PROVE  /\ Tail(q) \in Seq(T) /\ Len(q) \in Nat /\ Len(q) >= 1
           /\ Len(Tail(q)) = Len(q) - 1
           /\ \A i \in 1 .. Len(Tail(q)) : Tail(q)[i] = q[i + 1]
           /\ Head(q) = q[1]
  OBVIOUS

\* The state after a client has applied a snapshot.
LEMMA ApplySnapshotState ==
    ASSUME IInv, IdInv, NEW w, WriterInv(w), NEW c \in Clients, ApplySnapshot(c)
    PROVE  LET s    == storage[c]
               msgs == Head(toClient[c]).assigns
               t    == ApplyInitialAssignments(s, msgs)
           IN  /\ storage'[c] = t /\ client'[c] = "Active"
               /\ storage'[Server] = storage[Server]
               /\ toClient'[c] = Tail(toClient[c])
               /\ toClient[c] \in Seq(ServerMsg) /\ toClient[c] # << >>
               /\ UNCHANGED << session, link, old, ops >>
               /\ \A d \in Clients \ {c} :
                     /\ storage'[d] = storage[d] /\ client'[d] = client[d]
                     /\ toServer'[d] = toServer[d] /\ toClient'[d] = toClient[d]
               /\ IsServerHello(Head(toClient[c]))
               /\ msgs \in Snapshots /\ IsSnapshot(msgs)
               /\ client[c] = "Handshake" /\ c # Server
               /\ link[c] = "down" => toServer'[c] = toServer[c]
               /\ link[c] = "up" =>
                     /\ Synced(c) /\ Synced(c)'
                     /\ Range(toServer'[c]) =
                           {ClientHelloDone} \cup InitialRequests(s, msgs)
                                             \cup InitialUpdates(s, msgs)
               /\ Greets(c)'
<1> DEFINE s    == storage[c]
           msgs == Head(toClient[c]).assigns
           t    == ApplyInitialAssignments(s, msgs)
<1>1. TypeOK /\ s \in Store /\ c \in Nodes /\ c # Server /\ IsFiniteSet(Names)
  BY NTSyncAssumption DEF NTSyncAssumption, IInv, TypeOK, Nodes
<1>2. /\ toClient[c] \in Seq(ServerMsg) /\ toClient[c] # << >>
      /\ IsServerHello(Head(toClient[c])) /\ client[c] = "Handshake"
  BY <1>1 DEF ApplySnapshot, TypeOK
<1>3. 1 \in 1 .. Len(toClient[c]) /\ Head(toClient[c]) = toClient[c][1]
  BY <1>2, AmongFacts
<1>4. msgs \in Snapshots /\ IsSnapshot(msgs)
  BY <1>2, <1>3, MsgTypes DEF IdInv, SnapshotsAreSound
<1>5. /\ storage' = [storage EXCEPT ![c] = t]
      /\ toClient' = [toClient EXCEPT ![c] = Tail(@)]
      /\ client' = [client EXCEPT ![c] = "Active"]
      /\ UNCHANGED << session, link, old, ops >>
  BY DEF ApplySnapshot
<1>6. PICK reqs \in SetToSeqs(InitialRequests(s, msgs)),
           upds \in SetToSeqs(InitialUpdates(s, msgs)) :
        SendToServer(c, reqs \o << ClientHelloDone >> \o upds)
  BY DEF ApplySnapshot
<1>7. /\ \A d \in Clients \ {c} : toServer'[d] = toServer[d]
      /\ link[c] = "down" => toServer'[c] = toServer[c]
      /\ link[c] = "up" =>
            toServer'[c] = toServer[c] \o (reqs \o << ClientHelloDone >> \o upds)
  BY <1>1, <1>6 DEF SendToServer, TypeOK
<1>8. /\ storage'[c] = t /\ client'[c] = "Active"
      /\ storage'[Server] = storage[Server]
      /\ toClient'[c] = Tail(toClient[c])
      /\ \A d \in Clients \ {c} :
            /\ storage'[d] = storage[d] /\ client'[d] = client[d]
            /\ toClient'[d] = toClient[d]
  BY <1>1, <1>5 DEF TypeOK, Nodes
<1> HIDE DEF s, msgs, t
<1>9. Greets(c)
  BY DEF WriterInv
<1>10. ASSUME link[c] = "up"
       PROVE  /\ Synced(c) /\ Synced(c)'
              /\ Range(toServer'[c]) =
                    {ClientHelloDone} \cup InitialRequests(s, msgs)
                                      \cup InitialUpdates(s, msgs)
  <2>1. session[c] \in {"Synchronized", "Active"} /\ toServer[c] = << >>
    <3>1. session[c] \in SessionStates /\ session[c] # "None" /\ session[c] # "Handshake"
      BY <1>1, <1>2, <1>9, <1>10 DEF Greets, TypeOK
    <3>2. session[c] \in {"Synchronized", "Active"}
      BY <3>1 DEF SessionStates
    <3>3. QED
      BY <1>2, <1>9, <1>10, <3>2 DEF Greets, Synced
  <2>2. Synced(c) /\ Synced(c)'
    BY <1>5, <1>10, <2>1 DEF Synced
  <2>3. /\ InitialRequests(s, msgs) \subseteq EntryMsg
        /\ IsFiniteSet(InitialRequests(s, msgs))
    BY <1>1, <1>4, InitialRequestsType DEF s
  <2>4. /\ InitialUpdates(s, msgs) \subseteq EntryMsg
        /\ IsFiniteSet(InitialUpdates(s, msgs))
    BY <1>1, <1>4, InitialUpdatesType DEF s
  <2>5. reqs \in Seq(ClientMsg) /\ upds \in Seq(ClientMsg)
    BY <1>6, <2>3, <2>4, SetToSeqsType
  <2>6. Range(reqs) = InitialRequests(s, msgs) /\ Range(upds) = InitialUpdates(s, msgs)
    BY <1>6, <2>3, <2>4, SetToSeqsRange
  <2> DEFINE done == << ClientHelloDone >>
  <2>7. done \in Seq(ClientMsg) /\ Range(done) = {ClientHelloDone}
    BY MsgTypes DEF Range
  <2> HIDE DEF done
  <2>8. reqs \o done \in Seq(ClientMsg)
        /\ Range(reqs \o done) = Range(reqs) \cup {ClientHelloDone}
    BY <2>5, <2>7, Messages
  <2>9. (reqs \o done) \o upds \in Seq(ClientMsg)
        /\ Range((reqs \o done) \o upds)
              = Range(reqs) \cup {ClientHelloDone} \cup Range(upds)
    <3>1. PICK first \in Seq(ClientMsg) :
             first = reqs \o done /\ Range(first) = Range(reqs) \cup {ClientHelloDone}
      BY <2>8
    <3>2. first \o upds \in Seq(ClientMsg)
          /\ Range(first \o upds) = Range(first) \cup Range(upds)
      <4>1. Range(first \o upds) = Range(first) \cup Range(upds)
        BY <2>5, Messages
      <4>2. QED
        BY <2>5, <4>1
    <3>3. QED
      BY <3>1, <3>2
  <2>10. toServer'[c] = (reqs \o done) \o upds
    <3>1. toServer'[c] = << >> \o ((reqs \o done) \o upds)
      BY <1>7, <1>10, <2>1 DEF done
    <3>2. QED
      BY <2>9, <3>1
  <2>11. QED
    BY <2>2, <2>6, <2>9, <2>10
<1>11. Greets(c)'
  <2>1. ASSUME link[c] = "up", NEW i \in 1 .. Len(toClient'[c])
        PROVE  ~IsServerHello(toClient'[c][i])
    <3>1. i + 1 \in 1 .. Len(toClient[c]) /\ i + 1 # 1
          /\ toClient'[c][i] = toClient[c][i + 1]
      BY <1>2, <1>8, TailFacts
    <3>2. ~IsServerHello(toClient[c][i + 1])
      BY <1>9, <2>1, <3>1 DEF Greets
    <3>3. QED
      BY <3>1, <3>2
  <2>2. CASE link[c] = "up"
    <3>1. \A i \in 1 .. Len(toClient'[c]) : ~IsServerHello(toClient[c][i])'
      BY <2>1, <2>2 DEF IsServerHello
    <3>2. QED
      BY <1>5, <1>8, <1>9, <1>10, <2>2, <3>1 DEF Greets, Synced
  <2>3. CASE link[c] = "down"
    BY <1>5, <1>7, <1>9, <2>3 DEF Greets, Synced
  <2>4. QED
    BY <1>1, <2>2, <2>3 DEF TypeOK
<1>12. QED
  BY <1>1, <1>2, <1>4, <1>5, <1>7, <1>8, <1>10, <1>11 DEF s, msgs, t

\* A listening client takes the snapshot as it is.
LEMMA ReaderAppliesFollows ==
    ASSUME IInv, IInv', IdInv, IdInv', NEW w, SoleWriter(w), WriterInv(w),
           NEW c \in Clients \ {w}, ApplySnapshot(c)
    PROVE  WriterInv(w)'
<1> DEFINE s    == storage[c]
           msgs == Head(toClient[c]).assigns
           t    == ApplyInitialAssignments(s, msgs)
           q    == toClient[c]
<1>1. w \in Clients /\ TypeOK /\ TypeOK' /\ s \in Store
  BY DEF SoleWriter, IInv, TypeOK, Nodes
<1>2. /\ storage'[c] = t /\ client'[c] = "Active"
      /\ storage'[Server] = storage[Server]
      /\ toClient'[c] = Tail(q) /\ q \in Seq(ServerMsg) /\ q # << >>
      /\ UNCHANGED << session, link, old, ops >>
      /\ \A d \in Clients \ {c} :
            /\ storage'[d] = storage[d] /\ client'[d] = client[d]
            /\ toServer'[d] = toServer[d] /\ toClient'[d] = toClient[d]
      /\ IsServerHello(Head(q)) /\ msgs \in Snapshots /\ IsSnapshot(msgs)
      /\ client[c] = "Handshake"
      /\ link[c] = "down" => toServer'[c] = toServer[c]
      /\ link[c] = "up" =>
            /\ Synced(c) /\ Synced(c)'
            /\ Range(toServer'[c]) =
                  {ClientHelloDone} \cup InitialRequests(s, msgs)
                                    \cup InitialUpdates(s, msgs)
      /\ Greets(c)'
  BY ApplySnapshotState
<1>3. Reader(w, c) /\ Greets(c) /\ ServerFollows(w)
  BY DEF WriterInv
<1>4. \A n \in Names : ~s.entries[n].localWrite
  BY <1>3 DEF Reader, Listens, E
<1> HIDE DEF s, msgs, t
<1>5. /\ \A n \in Names : ~t.entries[n].localWrite
      /\ InitialRequests(s, msgs) = {} /\ InitialUpdates(s, msgs) = {}
  BY <1>1, <1>2, <1>4, SnapshotListens DEF t
<1>6. /\ Tail(q) \in Seq(ServerMsg) /\ Range(q) \subseteq ServerMsg
      /\ Range(q) = {Head(q)} \cup Range(Tail(q)) /\ Head(q) \in Range(q)
      /\ Len(q) \in Nat /\ Len(q) >= 1 /\ Len(Tail(q)) = Len(q) - 1
      /\ \A i \in 1 .. Len(Tail(q)) : Tail(q)[i] = q[i + 1]
      /\ Head(q) = q[1]
  BY <1>2, Messages, TailFacts
<1>7. \A n \in Names : /\ E(c, n)' = t.entries[n]
                       /\ Exists(c, n)' <=> Has(t, n)
                       /\ E(Server, n)' = E(Server, n)
                       /\ Exists(Server, n)' <=> Exists(Server, n)
                       /\ E(w, n)' = E(w, n)
                       /\ Exists(w, n)' <=> Exists(w, n)
  BY <1>1, <1>2 DEF E, Exists
<1>8. Listens(c)'
  <2>1. Range(toServer'[c]) \subseteq {ClientHello, ClientHelloDone}
    <3>1. CASE link[c] = "up"
      BY <1>2, <1>5, <3>1
    <3>2. CASE link[c] = "down"
      BY <1>2, <1>3, <3>2 DEF Reader, Listens
    <3>3. QED
      BY <1>1, <3>1, <3>2 DEF TypeOK
  <2>2. QED
    BY <1>5, <1>7, <2>1 DEF Listens
<1>9. CASE link[c] = "down"
  <2>1. ~Synced(c)' /\ ~Joined(c)'
    BY <1>2, <1>9 DEF Synced, Joined
  <2>2. Reader(w, c)' /\ Live(c)'
    BY <1>8, <2>1
       DEF Reader, ToReader, ReaderFollows, ReachesReader, AssignedFirst, Live
  <2>3. WriterGrows(w)
    BY <1>1, <1>2, SameWriterGrows
  <2>4. QED
    BY <1>1, <1>2, <2>2, <2>3, ConnectionStep
<1>10. CASE link[c] = "up"
  <2>1. Synced(c) /\ Synced(c)'
    BY <1>2, <1>10
  <2>2. GoodHello(w, Head(q))
    <3>1. \/ GoodHello(w, Head(q)) \/ GoodAssign(w, Head(q))
          \/ GoodUpdate(w, Head(q)) \/ Head(q).type = "FlagsUpdate"
      BY <1>3, <1>6, <2>1 DEF Reader, ToReader
    <3>2. QED
      BY <1>2, <3>1 DEF GoodAssign, GoodUpdate, IsServerHello
  <2>3. \A m \in msgs : GoodAssign(w, m)
    BY <2>2 DEF GoodHello, msgs
  <2>4. \A m \in msgs : m.id # NoId
    BY <2>3 DEF GoodAssign, Denotes
  <2>5. /\ \A m \in msgs : Alike(m, t.entries[m.name])
        /\ \A n \in Names : (\E m \in msgs : m.name = n)
                            \/ (~Has(t, n) /\ t.entries[n].id = NoId)
    BY <1>1, <1>2, <1>4, <2>4, ReaderSnapshotEffect DEF t
  <2>6. \A m \in msgs : /\ m.name \in Names /\ m.seq \in Nat /\ m.id \in Nat
                        /\ m.value # NoValue
    BY <1>2, MsgFields DEF Snapshots, SeqNums
  \* what the client has now came in the snapshot
  <2>7. ASSUME NEW m \in msgs
        PROVE  /\ Has(t, m.name)
               /\ t.entries[m.name].id = m.id /\ t.entries[m.name].seq = m.seq
               /\ t.entries[m.name].value = m.value
    BY <2>5, <2>6 DEF Alike, Has
  <2>8. \A n \in Names : Has(t, n) => \E m \in msgs : m.name = n
    BY <2>5
  <2>9. Live(c)'
    <3>1. \A k \in 1 .. Len(t.idmap) : t.idmap[k] # NoName =>
             \E m \in msgs : m.id = k - 1 /\ m.id # NoId /\ m.name = t.idmap[k]
      BY <1>1, <1>2, ApplyInitialAssignmentsResolves DEF t
    <3>2. ASSUME NEW k \in 1 .. Len(t.idmap), NEW n, n = t.idmap[k], n # NoName
          PROVE  Exists(c, n)' /\ E(c, n)'.id = k - 1
      <4>1. PICK m \in msgs : m.id = k - 1 /\ m.name = n
        BY <3>1, <3>2
      <4>2. QED
        BY <1>7, <2>6, <2>7, <4>1
    <3>3. storage'[c].idmap = t.idmap
      BY <1>2
    <3>4. QED
      BY <3>2, <3>3 DEF Live, Exists, E
  <2>10. ServerGrows /\ WriterGrows(w)
    <3>1. \A n \in Names : E(Server, n).seq \in Nat
      BY <1>1, EntrySeqs DEF Nodes
    <3>2. QED
      BY <1>1, <1>2, <1>7, <3>1, SameWriterGrows DEF ServerGrows
  <2>11. ToReader(w, c)'
    <3>1. ASSUME NEW m \in Range(toClient'[c])
          PROVE  (\/ GoodHello(w, m) \/ GoodAssign(w, m) \/ GoodUpdate(w, m)
                  \/ m.type = "FlagsUpdate")'
      <4>1. m \in Range(q) /\ m \in ClientMsg \cup ServerMsg
        BY <1>2, <1>6
      <4>2. \/ GoodHello(w, m) \/ GoodAssign(w, m) \/ GoodUpdate(w, m)
            \/ m.type = "FlagsUpdate"
        BY <1>3, <2>1, <4>1 DEF Reader, ToReader
      <4>3. QED
        BY <1>1, <2>10, <4>1, <4>2, GoodStays
    <3>2. QED
      BY <3>1 DEF ToReader
  <2>12. ReaderFollows(w, c)'
    <3>1. ASSUME NEW n \in Names, Exists(c, n)'
          PROVE  (E(c, n).id # NoId /\ Wrote(w, n, E(c, n).seq, E(c, n).value))'
      <4>1. PICK m \in msgs : m.name = n
        BY <1>7, <2>8, <3>1
      <4>2. E(c, n)'.id = m.id /\ E(c, n)'.seq = m.seq /\ E(c, n)'.value = m.value
        BY <1>7, <2>7, <4>1
      <4>3. m.id # NoId /\ Wrote(w, n, m.seq, m.value)
        BY <2>3, <2>4, <4>1 DEF GoodAssign
      <4>4. QED
        BY <1>7, <4>2, <4>3 DEF Wrote
    <3>2. QED
      BY <3>1 DEF ReaderFollows
  <2>13. \A n \in Names : ~HasNow(c, n)
    BY <1>2 DEF HasNow
  <2>14. \A n \in Names : (\E x \in msgs : x.name = n) => HasNow(c, n)'
    BY <1>2, <1>7, <2>7 DEF HasNow
  <2>15. ReachesReader(c)'
    <3> SUFFICES ASSUME NEW n \in Names, Exists(Server, n)'
                 PROVE  (\/ HasNow(c, n) /\ E(c, n).seq >= E(Server, n).seq
                         \/ \E m \in Range(toClient[c]) :
                               Carries(m, n, E(Server, n).seq))'
      BY DEF ReachesReader
    <3>1. PICK m \in Range(q) : Carries(m, n, E(Server, n).seq)
      BY <1>3, <1>7, <2>1, <2>13 DEF Reader, ReachesReader
    <3>2. CASE m \in Range(Tail(q))
      <4>1. Carries(m, n, E(Server, n).seq)'
        BY <1>7, <2>10, <3>1, DenotesStays DEF Carries
      <4>2. QED
        BY <1>2, <3>2, <4>1
    <3>3. CASE m = Head(q)
      <4>1. PICK x \in msgs : x.name = n /\ x.seq >= E(Server, n).seq
        BY <1>2, <3>1, <3>3 DEF Carries, IsServerHello, msgs
      <4>2. E(c, n)'.seq = x.seq
        BY <1>7, <2>7, <4>1
      <4>3. QED
        BY <1>7, <2>14, <4>1, <4>2
    <3>4. QED
      BY <1>6, <3>2, <3>3
  <2>16. AssignedFirst(c)'
    <3> SUFFICES ASSUME NEW n \in Names, NEW i \in 1 .. Len(Tail(q)),
                        Tail(q)[i].type = "EntryUpdate",
                        Denotes(toClient[c][i].id, n)'
                 PROVE  \/ HasNow(c, n)'
                        \/ \E j \in 1 .. (i - 1) : Tells(toClient[c][j], n)'
      BY <1>2 DEF AssignedFirst
    <3>1. Denotes(q[i + 1].id, n)
      BY <1>2, <1>6, <1>7 DEF Denotes
    <3>2. \A j \in 1 .. (i - 1) : Tells(Tail(q)[j], n) => Tells(toClient[c][j], n)'
      BY <1>2 DEF Tells, IsServerHello
    <3>3. i + 1 \in 1 .. Len(q) /\ q[i + 1].type = "EntryUpdate"
      BY <1>6
    <3>4. PICK j \in 1 .. i : Tells(q[j], n)
      BY <1>3, <2>1, <2>13, <3>1, <3>3 DEF Reader, AssignedFirst
    <3>5. CASE j = 1
      <4>1. \E x \in msgs : x.name = n
        BY <1>2, <1>6, <3>4, <3>5 DEF Tells, IsServerHello, msgs
      <4>2. QED
        BY <2>14, <4>1
    <3>6. CASE j # 1
      <4>1. j - 1 \in 1 .. (i - 1) /\ j - 1 \in 1 .. Len(Tail(q)) /\ (j - 1) + 1 = j
        BY <1>6, <3>6
      <4>2. Tail(q)[j - 1] = q[j]
        BY <1>6, <4>1
      <4>3. QED
        BY <3>2, <3>4, <4>1, <4>2
    <3>7. QED
      BY <3>5, <3>6
  <2>17. Reader(w, c)'
    BY <1>8, <2>11, <2>12, <2>15, <2>16 DEF Reader
  <2>18. QED
    BY <1>1, <1>2, <2>9, <2>10, <2>17, ConnectionStep
<1>11. QED
  BY <1>1, <1>9, <1>10 DEF TypeOK

\* The writer gets an empty snapshot and asks for an id for all it has.
LEMMA WriterAppliesFollows ==
    ASSUME IInv, IInv', IdInv, IdInv', NEW w, SoleWriter(w), WriterInv(w),
           ApplySnapshot(w)
    PROVE  WriterInv(w)'
<1> DEFINE s == storage[w]
           msgs == Head(toClient[w]).assigns
           t == ApplyInitialAssignments(s, {})
           q == toClient[w]
<1>1. w \in Clients /\ TypeOK /\ TypeOK' /\ s \in Store /\ w \in Nodes
  BY DEF SoleWriter, IInv, TypeOK, Nodes
<1>2. /\ storage'[w] = ApplyInitialAssignments(s, msgs) /\ client'[w] = "Active"
      /\ storage'[Server] = storage[Server]
      /\ toClient'[w] = Tail(q) /\ q \in Seq(ServerMsg) /\ q # << >>
      /\ UNCHANGED << session, link, old, ops >>
      /\ \A d \in Clients \ {w} :
            /\ storage'[d] = storage[d] /\ client'[d] = client[d]
            /\ toServer'[d] = toServer[d] /\ toClient'[d] = toClient[d]
      /\ IsServerHello(Head(q)) /\ client[w] = "Handshake"
      /\ link[w] = "down" => toServer'[w] = toServer[w]
      /\ link[w] = "up" =>
            Range(toServer'[w]) =
                  {ClientHelloDone} \cup InitialRequests(s, msgs)
                                    \cup InitialUpdates(s, msgs)
      /\ Greets(w)'
  BY <1>1, ApplySnapshotState
<1>3. Writer(w) /\ ServerFollows(w)
      /\ WriterOwns(w) /\ FromWriter(w) /\ ToWriter(w)
  BY DEF WriterInv, Writer
<1>4. /\ Range(q) \subseteq ServerMsg
      /\ Range(q) = {Head(q)} \cup Range(Tail(q)) /\ Head(q) \in Range(q)
  BY <1>2, Messages
<1>5. msgs = {}
  <2>1. (IsServerHello(Head(q)) /\ msgs = {}) \/ Answer(w, Head(q))
    BY <1>3, <1>4 DEF ToWriter
  <2>2. QED
    BY <1>2, <2>1 DEF Answer, IsServerHello
<1>6. \A n \in Names : Has(s, n) => s.entries[n].localWrite
  BY <1>3 DEF WriterOwns, E, Exists
<1>7. /\ \A n \in Names :
            LET e == s.entries[n]
                f == t.entries[n]
            IN  /\ f.value = e.value /\ f.seq = e.seq /\ f.id = NoId
                /\ f.localWrite = e.localWrite
      /\ InitialUpdates(s, {}) = {}
      /\ InitialRequests(s, {}) =
            {EntryAssign(n, NoId, s.entries[n].seq, s.entries[n].value,
                         s.entries[n].flags) : n \in {x \in Names : Has(s, x)}}
      /\ \A k \in 1 .. Len(t.idmap) : t.idmap[k] = NoName
  BY <1>1, <1>6, EmptySnapshotEffect
<1>8. storage'[w] = t
  BY <1>2, <1>5
<1> HIDE DEF t, msgs
<1>9. \A n \in Names : /\ E(w, n)'.value = E(w, n).value
                       /\ E(w, n)'.seq = E(w, n).seq
                       /\ E(w, n)'.id = NoId
                       /\ E(w, n)'.localWrite = E(w, n).localWrite
                       /\ Exists(w, n)' <=> Exists(w, n)
                       /\ Exists(Server, n)' <=> Exists(Server, n)
                       /\ E(Server, n)' = E(Server, n)
  BY <1>2, <1>7, <1>8 DEF E, Exists, Has
<1>10. WriterGrows(w) /\ ServerGrows
  <2>1. \A n \in Names : E(Server, n).seq \in Nat
    BY <1>1, EntrySeqs DEF Nodes
  <2>2. QED
    BY <1>9, <2>1 DEF WriterGrows, ServerGrows
<1>11. Live(w)'
  BY <1>7, <1>8 DEF Live
<1>12. ~Joined(w)
  BY <1>2 DEF Joined
<1>13. WriterOwns(w)'
  BY <1>2, <1>3, <1>9 DEF WriterOwns
<1>14. ToWriter(w)'
  <2>1. ASSUME NEW m \in Range(Tail(q))
        PROVE  (IsServerHello(m) /\ m.assigns = {}) \/ Answer(w, m)'
    <3>1. m \in Range(q) /\ m \in ServerMsg
      BY <1>4
    <3>2. (IsServerHello(m) /\ m.assigns = {}) \/ Answer(w, m)
      BY <1>3, <3>1 DEF ToWriter
    <3>3. ASSUME Answer(w, m) PROVE Answer(w, m)'
      <4>1. m \in AssignMsg
        BY <3>1, <3>3, MsgKinds DEF Answer
      <4>2. m.name \in Names /\ m.seq \in Nat
        BY <4>1, MsgFields DEF SeqNums
      <4>3. Wrote(w, m.name, m.seq, m.value)'
        BY <1>1, <1>10, <3>3, <4>2, WroteStays DEF Answer
      <4>4. Denotes(m.id, m.name) => Denotes(m.id, m.name)'
        BY <1>10, <4>2, DenotesStays
      <4>5. QED
        BY <1>2, <1>9, <3>3, <4>2, <4>3, <4>4 DEF Answer
    <3>4. QED
      BY <3>2, <3>3
  <2>2. QED
    BY <1>2, <2>1 DEF ToWriter, IsServerHello
\* the requests
<1>15. ASSUME NEW n \in Names, Exists(w, n)
       PROVE  LET m == EntryAssign(n, NoId, s.entries[n].seq, s.entries[n].value,
                                   s.entries[n].flags)
              IN  m \in InitialRequests(s, {}) /\ GoodRequest(w, m) /\ m.name = n
  <2>1. E(w, n).seq \in Nat
    BY <1>1, EntrySeqs
  <2> DEFINE m == EntryAssign(n, NoId, s.entries[n].seq, s.entries[n].value,
                              s.entries[n].flags)
  <2>2. /\ m.type = "EntryAssign" /\ m.id = NoId /\ m.name = n
        /\ m.seq = E(w, n).seq /\ m.value = E(w, n).value
    BY DEF EntryAssign, E
  <2>3. m \in InitialRequests(s, {})
    BY <1>7, <1>15 DEF Exists
  <2> HIDE DEF m
  <2>4. GoodRequest(w, m)
    BY <1>15, <2>1, <2>2 DEF GoodRequest, Wrote
  <2>5. QED
    BY <2>2, <2>3, <2>4 DEF m
<1>16. \A m \in InitialRequests(s, {}) : GoodRequest(w, m) /\ m \in ClientMsg
  <2>1. \A m \in InitialRequests(s, {}) : GoodRequest(w, m)
    BY <1>7, <1>15 DEF Exists
  <2>2. InitialRequests(s, {}) \subseteq EntryMsg
    <3>1. {} \in Snapshots /\ IsSnapshot({}) /\ IsFiniteSet(Names)
      BY FS_EmptySet, NTSyncAssumption DEF Snapshots, IsSnapshot, NTSyncAssumption
    <3>2. QED
      BY <1>1, <3>1, InitialRequestsType
  <2>3. QED
    BY <2>1, <2>2, MsgTypes
<1>17. FromWriter(w)'
  <2> SUFFICES ASSUME NEW m \in Range(toServer'[w])
               PROVE  (\/ m \in {ClientHello, ClientHelloDone}
                       \/ GoodRequest(w, m) \/ GoodAssign(w, m) \/ GoodUpdate(w, m)
                       \/ m.type = "FlagsUpdate")'
    BY DEF FromWriter
  <2>1. CASE link[w] = "up"
    <3>1. m = ClientHelloDone \/ m \in InitialRequests(s, {})
      BY <1>2, <1>5, <1>7, <2>1
    <3>2. m \in InitialRequests(s, {}) => GoodRequest(w, m)'
      BY <1>1, <1>10, <1>16, GoodStays
    <3>3. QED
      BY <3>1, <3>2
  <2>2. CASE link[w] = "down"
    <3>1. m \in Range(toServer[w]) /\ toServer[w] \in Seq(ClientMsg)
      BY <1>1, <1>2, <2>2 DEF TypeOK
    <3>2. m \in ClientMsg
      BY <3>1, Messages
    <3>3. \/ m \in {ClientHello, ClientHelloDone}
          \/ GoodRequest(w, m) \/ GoodAssign(w, m) \/ GoodUpdate(w, m)
          \/ m.type = "FlagsUpdate"
      BY <1>3, <3>1 DEF FromWriter
    <3>4. QED
      BY <1>1, <1>10, <3>2, <3>3, GoodStays
  <2>3. QED
    BY <1>1, <2>1, <2>2 DEF TypeOK
<1>18. ReachesServer(w)'
  <2> SUFFICES ASSUME Joined(w)', NEW n \in Names, Exists(w, n)'
               PROVE  OnItsWay(w, n)'
    BY DEF ReachesServer
  <2>1. link[w] = "up"
    BY <1>2 DEF Joined
  <2>2. ~Exists(Server, n)
    BY <1>3, <1>12, NothingBefore
  <2>3. PICK m \in InitialRequests(s, {}) : GoodRequest(w, m) /\ m.name = n
    BY <1>9, <1>15
  <2>4. m \in Range(toServer'[w])
    BY <1>2, <1>5, <2>1, <2>3
  <2>5. GoodRequest(w, m)'
    BY <1>1, <1>10, <1>16, <2>3, GoodStays
  <2>6. QED
    BY <1>9, <2>2, <2>3, <2>4, <2>5 DEF OnItsWay
<1>19. Writer(w)'
  BY <1>13, <1>14, <1>17, <1>18 DEF Writer
<1>20. QED
  BY <1>1, <1>2, <1>10, <1>11, <1>12, <1>19, ConnectionStep

-----------------------------------------------------------------------------
(* One writer: what the clients read *)

\* No message makes a listening client a writer.
LEMMA IncomingListens ==
    ASSUME NEW s \in Store, ~s.server, NEW m \in ServerMsg,
           \A n \in Names : ~s.entries[n].localWrite
    PROVE  \A n \in Names : ~ProcessIncoming(s, m).store.entries[n].localWrite
<1> DEFINE r == ProcessIncoming(s, m)
           Quiet(t) == \A n \in Names : ~t.entries[n].localWrite
<1>1. \A n \in Names, e \in Entry : ~e.localWrite => Quiet(Put(s, n, e))
  BY PutFacts
<1>2. \A n \in Names, e \in Entry, idmap \in Slots :
         ~e.localWrite => Quiet(PutIds(s, n, e, idmap))
  BY PutIdsFacts
<1>3. Quiet(Ignored(s).store)
  BY DEF Ignored, Result
<1>4. CASE m \in AssignMsg
  <2> DEFINE n == m.name
             e == s.entries[n]
  <2>1. /\ n \in Names /\ e \in Entry /\ ~e.localWrite /\ s.idmap \in Slots
        /\ m.type = "EntryAssign" /\ m.id \in Nat /\ m.seq \in SeqNums
        /\ m.value \in Values /\ m.flags \in BOOLEAN
    BY <1>4, MsgFields, StoreFields
  <2>2. CASE m.id = NoId
    <3>1. r = Ignored(s)
      BY <2>1, <2>2 DEF ProcessIncoming, ProcessEntryAssign
    <3>2. QED
      BY <1>3, <3>1
  <2>3. CASE m.id # NoId /\ Known(s, m.id)
    <3>1. r = ProcessAssignment(s, m)
      BY <2>1, <2>3 DEF ProcessIncoming, ProcessEntryAssign
    <3> DEFINE a == NameOf(s, m.id)
               b == [s.entries[a] EXCEPT !.value = m.value, !.flags = m.flags,
                                         !.seq = m.seq]
    <3>2. a \in Names /\ s.entries[a] \in Entry /\ ~s.entries[a].localWrite
      BY <2>1, <2>3, KnownName, StoreFields
    <3>3. b \in Entry /\ ~b.localWrite
      BY <2>1, <3>2 DEF Entry
    <3>4. r.store = s \/ r.store = Put(s, a, b)
      BY <3>1 DEF ProcessAssignment, Ignored, Result
    <3> HIDE DEF b, r
    <3>5. QED
      BY <1>1, <3>2, <3>3, <3>4 DEF r
  <2>4. CASE m.id # NoId /\ ~Known(s, m.id)
    <3>1. r = ProcessNewAssignment(s, m)
      BY <2>1, <2>4 DEF ProcessIncoming, ProcessEntryAssign
    <3> DEFINE own == [e EXCEPT !.id = m.id]
               taken == [own EXCEPT !.value = m.value, !.seq = m.seq]
               all == [taken EXCEPT !.flags = m.flags]
               idmap == WithSlot(s.idmap, m.id, n)
    <3>2. /\ own \in Entry /\ ~own.localWrite
          /\ taken \in Entry /\ ~taken.localWrite
          /\ all \in Entry /\ ~all.localWrite
      BY <2>1 DEF Entry
    <3>3. idmap \in Slots
      BY <2>1, WithSlotType
    <3>4. \E x \in {own, taken, all} : r.store = PutIds(s, n, x, idmap)
      <4>1. CASE e.value = NoValue
        BY <3>1, <4>1 DEF ProcessNewAssignment, Result
      <4>2. CASE e.value # NoValue /\ IsSeqNewerThan(e.seq, m.seq)
        BY <3>1, <4>2 DEF ProcessNewAssignment, Result
      <4>3. CASE e.value # NoValue /\ ~IsSeqNewerThan(e.seq, m.seq)
        BY <3>1, <4>3 DEF ProcessNewAssignment, Result
      <4>4. QED
        BY <4>1, <4>2, <4>3
    <3> HIDE DEF own, taken, all, idmap, r
    <3>5. QED
      BY <1>2, <2>1, <3>2, <3>3, <3>4 DEF r
  <2>5. QED
    BY <2>2, <2>3, <2>4
<1>5. CASE m \in UpdateMsg
  <2>1. m.type = "EntryUpdate" /\ m.id \in Nat /\ m.value \in Values
        /\ m.seq \in SeqNums
    BY <1>5, MsgFields
  <2>2. r = ProcessEntryUpdate(s, m)
    BY <2>1 DEF ProcessIncoming
  <2> DEFINE a == NameOf(s, m.id)
             b == [s.entries[a] EXCEPT !.value = m.value, !.seq = m.seq]
  <2>3. r.store = s \/ (Known(s, m.id) /\ r.store = Put(s, a, b))
    BY <2>2 DEF ProcessEntryUpdate, Ignored, Result
  <2>4. ASSUME Known(s, m.id) PROVE a \in Names /\ b \in Entry /\ ~b.localWrite
    <3>1. a \in Names /\ s.entries[a] \in Entry /\ ~s.entries[a].localWrite
      BY <2>1, <2>4, KnownName, StoreFields
    <3>2. QED
      BY <2>1, <3>1 DEF Entry
  <2> HIDE DEF b, r
  <2>5. QED
    BY <1>1, <2>3, <2>4 DEF r
<1>6. CASE m \in FlagsMsg
  BY <1>6, FlagsMessageEffect
<1>7. CASE m \in DeleteMsg
  <2>1. m.type = "EntryDelete" /\ m.id \in Nat
    BY <1>7, MsgFields
  <2>2. r = ProcessEntryDelete(s, m)
    BY <2>1 DEF ProcessIncoming
  <2> DEFINE a == NameOf(s, m.id)
             b == [NewEntry EXCEPT !.seq = s.entries[a].seq]
             idmap == WithoutSlot(s.idmap, s.entries[a].id)
  <2>3. r.store = s \/ (Known(s, m.id) /\ r.store = PutIds(s, a, b, idmap))
    BY <2>2 DEF ProcessEntryDelete, DeleteEntryImpl, PassOn, Ignored, Result
  <2>4. ASSUME Known(s, m.id)
        PROVE  a \in Names /\ b \in Entry /\ ~b.localWrite /\ idmap \in Slots
    <3>1. a \in Names /\ s.entries[a] \in Entry /\ s.idmap \in Slots
      BY <2>1, <2>4, KnownName, StoreFields
    <3>2. b \in Entry /\ ~b.localWrite
      BY <3>1, StorageAssumption DEF Entry, NewEntry, StorageAssumption
    <3>3. idmap \in Slots
      BY <3>1 DEF WithoutSlot, Slots
    <3>4. QED
      BY <3>1, <3>2, <3>3
  <2> HIDE DEF b, r, idmap
  <2>5. QED
    BY <1>2, <2>3, <2>4 DEF r
<1>8. CASE m \in ClearMsg
  <2>1. m.type = "ClearEntries"
    BY <1>8, MsgFields
  <2>2. r.store = DeleteEntries(s, Deletable(s))
    BY <2>1 DEF ProcessIncoming, ProcessClearEntries, PassOn, Result
  <2>3. ASSUME NEW n \in Names
        PROVE  r.store.entries[n].localWrite \in {FALSE, s.entries[n].localWrite}
    <3>1. s.entries[n] \in Entry
      BY StoreFields
    <3>2. r.store.entries[n] = IF n \in Deletable(s)
             THEN [s.entries[n] EXCEPT !.value = NoValue, !.id = NoId,
                                       !.localWrite = FALSE]
             ELSE s.entries[n]
      BY <2>2 DEF DeleteEntries, Store
    <3> HIDE DEF r
    <3>3. QED
      BY <3>1, <3>2 DEF Entry
  <2>4. QED
    BY <2>3
<1>9. CASE m \in ServerHelloMsg
  <2>1. m.type = "ServerHello"
    BY <1>9 DEF ServerHelloMsg
  <2>2. r = Ignored(s)
    BY <2>1 DEF ProcessIncoming
  <2>3. QED
    BY <1>3, <2>2
<1>10. QED
  BY <1>4, <1>5, <1>6, <1>7, <1>8, <1>9 DEF ServerMsg, EntryMsg

\* The numbers of the writer are below half the circle, and so are those of
\* all that it wrote.
LEMMA SmallWrites ==
    ASSUME TypeOK, NEW w, SoleWriter(w), WriterOwns(w)
    PROVE  \A n \in Names, seq \in Nat : \A v : Wrote(w, n, seq, v) => seq < Half
<1>1. ops \in Nat /\ MaxOps \in Nat /\ Half \in Nat /\ w \in Nodes
      /\ ops <= MaxOps /\ MaxOps < Half
  BY NTSyncAssumption, SeqSpaceFacts
     DEF NTSyncAssumption, TypeOK, SoleWriter, WriterOwns, Nodes
<1>2. \A n \in Names : E(w, n).seq \in Nat /\ E(w, n).seq <= ops
  BY <1>1, EntrySeqs DEF WriterOwns
<1>3. QED
  BY <1>1, <1>2 DEF Wrote

\* What a message does to a connected client that only listens.
LEMMA ReaderHears ==
    ASSUME IInv, IdInv, NEW w, SoleWriter(w), WriterOwns(w), ServerFollows(w),
           NEW c \in Clients, Joined(c), Synced(c), Reader(w, c), Live(c),
           NEW m \in ServerMsg, toClient[c] # << >>, m = Head(toClient[c]),
           ~IsServerHello(m)
    PROVE  LET s == storage[c]
               r == ProcessIncoming(s, m)
               t == r.store
           IN  /\ r.out = << >>
               /\ \A x \in Names : Has(s, x) =>
                     Has(t, x) /\ t.entries[x].seq >= s.entries[x].seq
               /\ \A x \in Names : Has(t, x) =>
                     /\ t.entries[x].id # NoId
                     /\ Wrote(w, x, t.entries[x].seq, t.entries[x].value)
               /\ \A x \in Names, k \in Nat : Carries(m, x, k) =>
                     Has(t, x) /\ t.entries[x].seq >= k
               /\ \A x \in Names : Tells(m, x) => Has(t, x)
               /\ \A k \in 1 .. Len(t.idmap) : t.idmap[k] # NoName =>
                     Has(t, t.idmap[k]) /\ t.entries[t.idmap[k]].id = k - 1
<1> DEFINE s == storage[c]
           r == ProcessIncoming(s, m)
           t == r.store
           q == toClient[c]
<1>1. /\ TypeOK /\ c \in Nodes /\ s \in Store /\ ~s.server /\ q \in Seq(ServerMsg)
      /\ t \in Store
  <2>1. TypeOK /\ c \in Nodes /\ s \in Store /\ ~s.server /\ q \in Seq(ServerMsg)
    BY NTSyncAssumption DEF NTSyncAssumption, IInv, TypeOK, Nodes
  <2>2. QED
    BY <2>1, ReceiveType DEF GoodResult
<1>2. /\ q[1] = m /\ m \in Range(q) /\ 1 \in 1 .. Len(q)
  BY <1>1, Messages, TailFacts
<1>3. GoodAssign(w, m) \/ GoodUpdate(w, m) \/ m.type = "FlagsUpdate"
  BY <1>2 DEF Reader, ToReader, GoodHello
<1>4. \A x \in Names : /\ s.entries[x].seq \in Nat
                       /\ Has(s, x) <=> Exists(c, x)
                       /\ s.entries[x] = E(c, x) /\ E(c, x).id \in Nat
  BY <1>1, EntrySeqs DEF E, Exists
<1>5. \A x \in Names : Has(s, x) =>
         /\ E(c, x).id # NoId /\ Denotes(E(c, x).id, x) /\ Known(s, E(c, x).id)
         /\ Wrote(w, x, E(c, x).seq, E(c, x).value) /\ E(c, x).seq < Half
  <2>1. \A x \in Names : Has(s, x) =>
           E(c, x).id # NoId /\ Wrote(w, x, E(c, x).seq, E(c, x).value)
    BY <1>4 DEF Reader, ReaderFollows
  <2>2. QED
    BY <1>1, <1>4, <2>1, SmallWrites, ClientIds
<1>6. \A k \in 1 .. Len(s.idmap) : s.idmap[k] # NoName =>
         Has(s, s.idmap[k]) /\ s.entries[s.idmap[k]].id = k - 1
  BY DEF Live, Exists, E
<1>7. \A id \in Nat : Known(s, id) =>
         NameOf(s, id) \in Names /\ Denotes(id, NameOf(s, id))
         /\ Has(s, NameOf(s, id))
  <2>1. ASSUME NEW id \in Nat, Known(s, id) PROVE Has(s, NameOf(s, id))
    <3>1. id + 1 \in 1 .. Len(s.idmap) /\ s.idmap[id + 1] # NoName
      BY <1>1, <2>1, KnownName DEF Known
    <3>2. QED
      BY <1>6, <3>1 DEF NameOf
  <2>2. QED
    BY <2>1, ClientIds
\* the state is as it was
<1> DEFINE Same == /\ t.idmap = s.idmap /\ r.out = << >>
                   /\ \A x \in Names : Alike(s.entries[x], t.entries[x])
\* or one name has the value that the message carries
           Taken(n) == /\ OnlyAt(s, t, n) /\ r.out = << >>
                       /\ t.entries[n].value = m.value
                       /\ t.entries[n].seq = m.seq
                       /\ t.entries[n].id = m.id
                       /\ Wrote(w, n, m.seq, m.value) /\ m.value # NoValue
                       /\ m.seq \in Nat /\ Denotes(m.id, n)
                       /\ Has(s, n) => m.seq >= s.entries[n].seq
\* in any case
           Heard ==
               /\ \A x \in Names : Has(s, x) =>
                     Has(t, x) /\ t.entries[x].seq >= s.entries[x].seq
               /\ \A x \in Names : Has(t, x) =>
                     /\ t.entries[x].id # NoId
                     /\ Wrote(w, x, t.entries[x].seq, t.entries[x].value)
               /\ \A x \in Names, k \in Nat : Carries(m, x, k) =>
                     Has(t, x) /\ t.entries[x].seq >= k
               /\ \A x \in Names : Tells(m, x) => Has(t, x)
               /\ \A k \in 1 .. Len(t.idmap) : t.idmap[k] # NoName =>
                     Has(t, t.idmap[k]) /\ t.entries[t.idmap[k]].id = k - 1
<1>8. ASSUME Same, \A x \in Names, k \in Nat : Carries(m, x, k) =>
                      Has(s, x) /\ s.entries[x].seq >= k,
             \A x \in Names : Tells(m, x) => Has(s, x)
      PROVE  Heard
  <2>1. \A x \in Names : /\ Has(t, x) <=> Has(s, x)
                         /\ t.entries[x].seq = s.entries[x].seq
                         /\ t.entries[x].id = s.entries[x].id
                         /\ t.entries[x].value = s.entries[x].value
    BY <1>8 DEF Alike, Has
  <2>2. \A k \in 1 .. Len(s.idmap) : s.idmap[k] # NoName => s.idmap[k] \in Names
    BY <1>1, StoreLen DEF Slots
  <2>3. t.idmap = s.idmap
    BY <1>8
  <2> HIDE DEF s, t
  <2>4. QED
    BY <1>4, <1>5, <1>6, <1>8, <2>1, <2>2, <2>3
<1>9. ASSUME NEW n \in Names, Taken(n),
             \A x \in Names, k \in Nat : Carries(m, x, k) => x = n /\ m.seq >= k,
             \A x \in Names : Tells(m, x) => x = n,
             \A k \in 1 .. Len(t.idmap) : t.idmap[k] # NoName =>
                \/ t.idmap[k] = n /\ k = m.id + 1
                \/ /\ t.idmap[k] # n /\ k \in 1 .. Len(s.idmap)
                   /\ s.idmap[k] = t.idmap[k]
      PROVE  Heard
  <2>1. Has(t, n) /\ m.id # NoId
    BY <1>9 DEF Has, Denotes
  <2>2. \A x \in Names : x # n => /\ t.entries[x] = s.entries[x]
                                  /\ Has(t, x) <=> Has(s, x)
    BY <1>9 DEF OnlyAt, Has
  <2>3. m.id \in Nat
    <3>1. E(Server, n).id \in Nat
      BY <1>1, EntrySeqs DEF Nodes
    <3>2. QED
      BY <1>9, <3>1 DEF Denotes
  <2>4. \A k \in 1 .. Len(t.idmap) : t.idmap[k] # NoName => t.idmap[k] \in Names
    BY <1>1, StoreLen DEF Slots
  <2>5. /\ t.entries[n].value = m.value /\ t.entries[n].seq = m.seq
        /\ t.entries[n].id = m.id /\ Wrote(w, n, m.seq, m.value)
        /\ m.seq \in Nat /\ (Has(s, n) => m.seq >= s.entries[n].seq)
    BY <1>9
  <2> HIDE DEF s, t, Taken
  <2>6. \A x \in Names : Has(s, x) =>
                   Has(t, x) /\ t.entries[x].seq >= s.entries[x].seq
    BY <1>4, <2>1, <2>2, <2>5
  <2>7. \A x \in Names : Has(t, x) =>
                   /\ t.entries[x].id # NoId
                   /\ Wrote(w, x, t.entries[x].seq, t.entries[x].value)
    BY <1>4, <1>5, <2>1, <2>2, <2>5
  <2>8. /\ \A x \in Names, k \in Nat : Carries(m, x, k) =>
                   Has(t, x) /\ t.entries[x].seq >= k
        /\ \A x \in Names : Tells(m, x) => Has(t, x)
    BY <1>9, <2>1, <2>5
  <2>9. \A k \in 1 .. Len(t.idmap) : t.idmap[k] # NoName =>
                   Has(t, t.idmap[k]) /\ t.entries[t.idmap[k]].id = k - 1
    <3>1. TAKE k \in 1 .. Len(t.idmap)
    <3>2. HAVE t.idmap[k] # NoName
    <3>3. CASE t.idmap[k] = n /\ k = m.id + 1
      BY <2>1, <2>3, <2>5, <3>3
    <3>4. CASE /\ t.idmap[k] # n /\ k \in 1 .. Len(s.idmap)
               /\ s.idmap[k] = t.idmap[k]
      BY <1>6, <2>2, <2>4, <3>2, <3>4
    <3>5. QED
      BY <1>9, <3>2, <3>3, <3>4
  <2>10. QED
    BY <2>6, <2>7, <2>8, <2>9
<1>10. ASSUME GoodAssign(w, m) PROVE Heard /\ r.out = << >>
  <2> DEFINE n == m.name
  <2>1. /\ m \in AssignMsg /\ m.type = "EntryAssign" /\ Denotes(m.id, n)
        /\ Wrote(w, n, m.seq, m.value)
    BY <1>10, MsgKinds DEF GoodAssign
  <2>2. /\ n \in Names /\ m.seq \in Nat /\ m.id \in Nat /\ m.id # NoId
        /\ m.value # NoValue
    BY <2>1, MsgFields DEF SeqNums, Denotes
  <2>3. m.seq < Half
    BY <1>1, <2>1, <2>2, SmallWrites
  <2>4. /\ \A x \in Names, k \in Nat : Carries(m, x, k) => x = n /\ m.seq >= k
        /\ \A x \in Names : Tells(m, x) => x = n
    BY <2>1 DEF Carries, Tells, IsServerHello
  <2>5. CASE Known(s, m.id)
    <3>1. NameOf(s, m.id) = n /\ Has(s, n)
      BY <1>7, <2>1, <2>2, <2>5, DenotesOne
    <3>2. s.entries[n].seq < Half /\ s.entries[n].id = m.id
      <4>1. Denotes(E(c, n).id, n)
        BY <1>5, <2>2, <3>1
      <4>2. QED
        BY <1>4, <1>5, <2>1, <2>2, <3>1, <4>1 DEF Denotes
    <3>3. IF s.entries[n].seq > m.seq
          THEN r = Ignored(s)
          ELSE TakenAt(s, t, n, m) /\ r.out = << >>
      <4>1. /\ m \in AssignMsg /\ m.id # NoId /\ Known(s, m.id)
            /\ NameOf(s, m.id) = m.name /\ m.seq < Half
            /\ s.entries[m.name].seq < Half /\ s \in Store /\ ~s.server
        BY <1>1, <2>1, <2>2, <2>3, <2>5, <3>1, <3>2
      <4>2. PICK u : u = s
        OBVIOUS
      <4>3. LET p == ProcessIncoming(u, m) IN
            IF u.entries[m.name].seq > m.seq
            THEN p = Ignored(u)
            ELSE /\ TakenAt(u, p.store, m.name, m) /\ ~p.toSender
                 /\ p.out = IF u.server THEN << m >> ELSE << >>
        BY <4>1, <4>2, AssignmentEffect
      <4>4. QED
        BY <4>1, <4>2, <4>3
    <3>4. CASE s.entries[n].seq > m.seq
      <4>1. Same
        <5>1. r = Ignored(s)
          BY <3>3, <3>4
        <5>2. t = s /\ r.out = << >>
          BY <5>1 DEF Ignored, Result
        <5>3. QED
          BY <5>2 DEF Alike
      <4>2. \A x \in Names, k \in Nat : Carries(m, x, k) =>
                      Has(s, x) /\ s.entries[x].seq >= k
        BY <1>4, <2>2, <2>4, <3>1, <3>4
      <4>3. \A x \in Names : Tells(m, x) => Has(s, x)
        BY <2>4, <3>1
      <4>4. QED
        <5>1. r.out = << >>
          BY <4>1
        <5> HIDE DEF Same, Heard
        <5>2. Heard
          BY <1>8, <4>1, <4>2, <4>3
        <5>3. QED
          BY <5>1, <5>2
    <3>5. CASE ~(s.entries[n].seq > m.seq)
      <4>1. TakenAt(s, t, n, m) /\ r.out = << >>
        BY <3>3, <3>5
      <4>2. Taken(n)
        <5>1. OnlyAt(s, t, n) /\ t.entries[n].value = m.value
              /\ t.entries[n].seq = m.seq /\ t.entries[n].id = s.entries[n].id
          BY <4>1 DEF TakenAt
        <5>2. m.seq >= s.entries[n].seq
          BY <1>4, <2>2, <3>5
        <5>3. QED
          BY <2>1, <2>2, <3>2, <4>1, <5>1, <5>2
      <4>3. t.idmap = s.idmap
        BY <4>1 DEF TakenAt
      <4>4. \A k \in 1 .. Len(t.idmap) : t.idmap[k] # NoName =>
                \/ t.idmap[k] = n /\ k = m.id + 1
                \/ /\ t.idmap[k] # n /\ k \in 1 .. Len(s.idmap)
                   /\ s.idmap[k] = t.idmap[k]
        <5>1. TAKE k \in 1 .. Len(t.idmap)
        <5>2. HAVE t.idmap[k] # NoName
        <5>3. k \in 1 .. Len(s.idmap) /\ s.idmap[k] = t.idmap[k] /\ k \in Nat
          BY <4>3
        <5>4. t.idmap[k] = n => m.id = k - 1
          BY <1>6, <3>2, <5>2, <5>3
        <5>5. QED
          BY <2>2, <5>3, <5>4
      <4> HIDE DEF s, t, r, n, Heard
      <4>5. QED
        BY <1>9, <2>2, <2>4, <4>2, <4>4 DEF Taken
    <3>6. QED
      BY <3>4, <3>5
  <2>6. CASE ~Known(s, m.id)
    <3>1. ~Has(s, n)
      <4>1. SUFFICES ASSUME Has(s, n) PROVE FALSE
        OBVIOUS
      <4>2. Denotes(E(c, n).id, n) /\ Known(s, E(c, n).id)
        BY <1>5, <2>2, <4>1
      <4>3. E(c, n).id = m.id
        BY <2>1, <4>2 DEF Denotes
      <4>4. QED
        BY <2>6, <4>2, <4>3
    <3>2. /\ OnlyAt(s, t, n) /\ t.idmap = WithSlot(s.idmap, m.id, n)
          /\ t.entries[n].id = m.id /\ t.entries[n].value = m.value
          /\ t.entries[n].seq = m.seq /\ r.out = << >>
      BY <1>1, <2>1, <2>2, <2>6, <3>1, NewAssignmentEffect
    <3>3. Taken(n)
      BY <2>1, <2>2, <3>1, <3>2
    <3>4. \A k \in 1 .. Len(t.idmap) : t.idmap[k] # NoName =>
                \/ t.idmap[k] = n /\ k = m.id + 1
                \/ /\ t.idmap[k] # n /\ k \in 1 .. Len(s.idmap)
                   /\ s.idmap[k] = t.idmap[k]
      <4>1. TAKE k \in 1 .. Len(t.idmap)
      <4>2. HAVE t.idmap[k] # NoName
      <4>3. s.idmap \in Slots /\ Len(s.idmap) \in Nat
        BY <1>1, StoreLen
      <4>4. t.idmap[k] = IF k = m.id + 1 THEN n
                         ELSE IF k <= Len(s.idmap) THEN s.idmap[k] ELSE NoName
        BY <2>2, <3>2, <4>3, WithSlotSlots
      <4>5. CASE k = m.id + 1
        BY <4>4, <4>5
      <4>6. CASE k # m.id + 1
        <5>1. k \in 1 .. Len(s.idmap) /\ s.idmap[k] = t.idmap[k]
          BY <4>2, <4>3, <4>4, <4>6
        <5>2. t.idmap[k] # n
          BY <1>6, <3>1, <4>2, <5>1
        <5>3. QED
          BY <5>1, <5>2
      <4>7. QED
        BY <4>5, <4>6
    <3> HIDE DEF s, t, r, n, Heard
    <3>5. QED
      BY <1>9, <2>2, <2>4, <3>3, <3>4 DEF Taken
  <2>7. QED
    BY <2>5, <2>6
<1>11. ASSUME GoodUpdate(w, m) PROVE Heard /\ r.out = << >>
  <2>1. PICK n \in Names : Denotes(m.id, n) /\ Wrote(w, n, m.seq, m.value)
    BY <1>11 DEF GoodUpdate
  <2>2. m \in UpdateMsg /\ m.type = "EntryUpdate"
    BY <1>11, MsgKinds DEF GoodUpdate
  <2>3. m.seq \in Nat /\ m.id \in Nat /\ m.id # NoId /\ m.value # NoValue
    BY <2>1, <2>2, MsgFields DEF SeqNums, Denotes
  <2>4. m.seq < Half
    BY <1>1, <2>1, <2>3, SmallWrites
  <2>5. Has(s, n)
    <3>1. HasNow(c, n) \/ \E j \in 1 .. 0 : Tells(q[j], n)
      BY <1>2, <2>1, <2>2 DEF Reader, AssignedFirst
    <3>2. QED
      BY <1>4, <3>1 DEF HasNow
  <2>6. s.entries[n].id = m.id /\ Known(s, m.id) /\ s.entries[n].seq < Half
    <3>1. Denotes(E(c, n).id, n) /\ Known(s, E(c, n).id) /\ E(c, n).seq < Half
      BY <1>5, <2>5
    <3>2. QED
      BY <1>4, <2>1, <3>1 DEF Denotes
  <2>7. NameOf(s, m.id) = n
    BY <1>7, <2>1, <2>3, <2>6, DenotesOne
  <2>8. IF s.entries[n].seq >= m.seq
        THEN r = Ignored(s)
        ELSE TakenAt(s, t, n, m) /\ r.out = << >>
    BY <1>1, <2>2, <2>4, <2>6, <2>7, UpdateEffect
  <2>9. /\ \A x \in Names, k \in Nat : Carries(m, x, k) => x = n /\ m.seq >= k
        /\ \A x \in Names : ~Tells(m, x)
    BY <2>1, <2>2, DenotesOne DEF Carries, Tells, IsServerHello
  <2>10. CASE s.entries[n].seq >= m.seq
    <3>1. Same
      BY <2>8, <2>10 DEF Ignored, Result, Alike
    <3>2. \A x \in Names, k \in Nat : Carries(m, x, k) =>
                    Has(s, x) /\ s.entries[x].seq >= k
      BY <1>4, <2>3, <2>5, <2>9, <2>10
    <3>3. QED
      BY <1>8, <2>9, <3>1, <3>2
  <2>11. CASE ~(s.entries[n].seq >= m.seq)
    <3>1. TakenAt(s, t, n, m) /\ r.out = << >>
      BY <2>8, <2>11
    <3>2. Taken(n)
      BY <1>4, <2>1, <2>3, <2>6, <2>11, <3>1 DEF TakenAt
    <3>3. t.idmap = s.idmap
      BY <3>1 DEF TakenAt
    <3>4. \A k \in 1 .. Len(t.idmap) : t.idmap[k] # NoName =>
                \/ t.idmap[k] = n /\ k = m.id + 1
                \/ /\ t.idmap[k] # n /\ k \in 1 .. Len(s.idmap)
                   /\ s.idmap[k] = t.idmap[k]
      <4>1. TAKE k \in 1 .. Len(t.idmap)
      <4>2. HAVE t.idmap[k] # NoName
      <4>3. k \in 1 .. Len(s.idmap) /\ s.idmap[k] = t.idmap[k] /\ k \in Nat
        BY <3>3
      <4>4. t.idmap[k] = n => m.id = k - 1
        BY <1>6, <2>6, <4>2, <4>3
      <4>5. QED
        BY <2>3, <4>3, <4>4
    <3> HIDE DEF s, t, r, Heard
    <3>5. QED
      BY <1>9, <2>9, <3>2, <3>4 DEF Taken
  <2>12. QED
    BY <2>10, <2>11
<1>12. ASSUME m.type = "FlagsUpdate" PROVE Heard /\ r.out = << >>
  <2>1. m \in FlagsMsg
    BY <1>12, MsgKinds
  <2>2. SameContent(s, t) /\ r.out = << >>
    BY <1>1, <2>1, FlagsMessageEffect
  <2>3. Same
    BY <2>2 DEF SameContent
  <2>4. /\ \A x \in Names, k \in Nat : ~Carries(m, x, k)
        /\ \A x \in Names : ~Tells(m, x)
    BY <1>12 DEF Carries, Tells, IsServerHello
  <2>5. QED
    BY <1>8, <2>3, <2>4
<1>13. Heard /\ r.out = << >>
  BY <1>3, <1>10, <1>11, <1>12
<1>14. QED
  BY <1>13

\* The state after a client has read a message.
LEMMA ClientReceiveState ==
    ASSUME IInv, NEW w, WriterInv(w), NEW c \in Clients, ClientReceive(c)
    PROVE  LET s == storage[c]
               q == toClient[c]
               r == ProcessIncoming(s, Head(q))
           IN  /\ storage'[c] = r.store /\ storage'[Server] = storage[Server]
               /\ toClient'[c] = Tail(q) /\ q \in Seq(ServerMsg) /\ q # << >>
               /\ Head(q) \in ServerMsg /\ s \in Store /\ ~s.server
               /\ Range(q) = {Head(q)} \cup Range(Tail(q))
               /\ Range(q) \subseteq ServerMsg /\ Tail(q) \in Seq(ServerMsg)
               /\ UNCHANGED << client, session, link, old, ops >>
               /\ \A d \in Clients \ {c} :
                     /\ storage'[d] = storage[d]
                     /\ toServer'[d] = toServer[d] /\ toClient'[d] = toClient[d]
               /\ client[c] = "Active"
               /\ r.out \in Seq(ClientMsg) /\ toServer[c] \in Seq(ClientMsg)
               /\ link[c] = "down" => toServer'[c] = toServer[c]
               /\ link[c] = "up" => /\ Synced(c) /\ Joined(c)
                                    /\ toServer'[c] = toServer[c] \o r.out
                                    /\ ~IsServerHello(Head(q))
               /\ Greets(c)'
<1> DEFINE s == storage[c]
           q == toClient[c]
           r == ProcessIncoming(s, Head(q))
<1>1. TypeOK /\ s \in Store /\ ~s.server /\ c \in Nodes /\ c # Server
  BY NTSyncAssumption DEF NTSyncAssumption, IInv, TypeOK, Nodes
<1>2. q \in Seq(ServerMsg) /\ q # << >> /\ client[c] = "Active"
  BY <1>1 DEF ClientReceive, TypeOK
<1>3. Range(q) = {Head(q)} \cup Range(Tail(q)) /\ Head(q) \in Range(q)
      /\ Range(q) \subseteq ServerMsg /\ Tail(q) \in Seq(ServerMsg)
  BY <1>2, Messages
<1>4. /\ storage' = [storage EXCEPT ![c] = r.store]
      /\ toClient' = [toClient EXCEPT ![c] = Tail(@)]
      /\ SendToServer(c, r.out)
      /\ UNCHANGED << client, session, link, old, ops >>
      /\ session[c] = "Active" \/ link[c] = "down"
  BY DEF ClientReceive
<1> HIDE DEF s, r
<1>5. r.out \in Seq(EntryMsg)
  BY <1>1, <1>3, ReceiveType DEF GoodResult, r
<1>6. r.out \in Seq(ClientMsg) /\ toServer[c] \in Seq(ClientMsg)
  BY <1>1, <1>5, SeqOfEntryMsg DEF TypeOK
<1>7. /\ storage'[c] = r.store /\ storage'[Server] = storage[Server]
      /\ toClient'[c] = Tail(q)
      /\ \A d \in Clients \ {c} :
            /\ storage'[d] = storage[d]
            /\ toServer'[d] = toServer[d] /\ toClient'[d] = toClient[d]
  BY <1>1, <1>4 DEF TypeOK, Nodes, SendToServer
<1>8. /\ link[c] = "down" => toServer'[c] = toServer[c]
      /\ link[c] = "up" => toServer'[c] = toServer[c] \o r.out
  BY <1>1, <1>4 DEF TypeOK, SendToServer
<1>9. Greets(c)
  BY DEF WriterInv
<1>10. \A i \in 1 .. Len(q) : link[c] = "up" => ~IsServerHello(q[i])
  BY <1>2, <1>9 DEF Greets
<1>11. Head(q) = q[1] /\ 1 \in 1 .. Len(q) /\ Len(q) \in Nat
       /\ Len(Tail(q)) = Len(q) - 1
       /\ \A i \in 1 .. Len(Tail(q)) : Tail(q)[i] = q[i + 1]
  BY <1>2, TailFacts
<1>12. link[c] = "up" => /\ Synced(c) /\ Joined(c) /\ ~IsServerHello(Head(q))
  BY <1>2, <1>4, <1>10, <1>11 DEF Synced, Joined
<1>13. Greets(c)'
  <2>1. \A i \in 1 .. Len(Tail(q)) : link[c] = "up" => ~IsServerHello(Tail(q)[i])
    BY <1>10, <1>11
  <2>2. CASE link[c] = "up"
    <3>1. \A i \in 1 .. Len(toClient'[c]) : ~IsServerHello(toClient[c][i])'
      BY <1>7, <2>1, <2>2 DEF IsServerHello
    <3>2. session[c] = "Active"
      BY <1>4, <2>2
    <3>3. QED
      BY <1>2, <1>4, <1>9, <2>2, <3>1, <3>2 DEF Greets, Synced
  <2>3. CASE link[c] = "down"
    BY <1>4, <1>8, <1>9, <2>3 DEF Greets, Synced
  <2>4. QED
    BY <1>1, <2>2, <2>3 DEF TypeOK
<1>14. QED
  BY <1>1, <1>2, <1>3, <1>4, <1>6, <1>7, <1>8, <1>12, <1>13 DEF s, r

\* A listening client reads a message.
LEMMA ReaderReceivesFollows ==
    ASSUME IInv, IInv', IdInv, IdInv', NEW w, SoleWriter(w), WriterInv(w),
           NEW c \in Clients \ {w}, ClientReceive(c)
    PROVE  WriterInv(w)'
<1> DEFINE s == storage[c]
           q == toClient[c]
           m == Head(q)
           r == ProcessIncoming(s, m)
           t == r.store
<1>1. w \in Clients /\ TypeOK /\ TypeOK'
  BY DEF SoleWriter, IInv
<1>2. /\ storage'[c] = t /\ storage'[Server] = storage[Server]
      /\ toClient'[c] = Tail(q) /\ q \in Seq(ServerMsg) /\ q # << >>
      /\ m \in ServerMsg /\ s \in Store /\ ~s.server
      /\ Range(q) = {m} \cup Range(Tail(q))
      /\ Range(q) \subseteq ServerMsg /\ Tail(q) \in Seq(ServerMsg)
      /\ UNCHANGED << client, session, link, old, ops >>
      /\ \A d \in Clients \ {c} :
            /\ storage'[d] = storage[d]
            /\ toServer'[d] = toServer[d] /\ toClient'[d] = toClient[d]
      /\ client[c] = "Active" /\ toServer[c] \in Seq(ClientMsg)
      /\ link[c] = "down" => toServer'[c] = toServer[c]
      /\ link[c] = "up" => /\ Synced(c) /\ Joined(c)
                           /\ toServer'[c] = toServer[c] \o r.out
                           /\ ~IsServerHello(m)
      /\ Greets(c)'
  BY ClientReceiveState
<1>3. Reader(w, c) /\ ServerFollows(w) /\ Live(c) /\ Writer(w) /\ WriterOwns(w)
  BY <1>1 DEF WriterInv, Writer
<1>4. \A n \in Names : ~t.entries[n].localWrite
  BY <1>2, <1>3, IncomingListens DEF Reader, Listens, E
<1> HIDE DEF s, m, r, t
<1>5. \A n \in Names : /\ E(c, n)' = t.entries[n] /\ E(c, n) = s.entries[n]
                       /\ Exists(c, n)' <=> Has(t, n)
                       /\ Exists(c, n) <=> Has(s, n)
                       /\ E(Server, n)' = E(Server, n)
                       /\ Exists(Server, n)' <=> Exists(Server, n)
                       /\ E(w, n)' = E(w, n)
                       /\ Exists(w, n)' <=> Exists(w, n)
  BY <1>1, <1>2 DEF E, Exists, s
<1>6. WriterGrows(w) /\ ServerGrows
  <2>1. \A n \in Names : E(Server, n).seq \in Nat
    BY <1>1, EntrySeqs DEF Nodes
  <2>2. QED
    BY <1>1, <1>2, <1>5, <2>1, SameWriterGrows DEF ServerGrows
<1>7. CASE link[c] = "down"
  <2>1. ~Synced(c)' /\ ~Joined(c)'
    BY <1>2, <1>7 DEF Synced, Joined
  <2>2. Listens(c)'
    BY <1>2, <1>3, <1>4, <1>5, <1>7 DEF Reader, Listens
  <2>3. Reader(w, c)' /\ Live(c)'
    BY <2>1, <2>2
       DEF Reader, ToReader, ReaderFollows, ReachesReader, AssignedFirst, Live
  <2>4. QED
    BY <1>1, <1>2, <1>6, <2>3, ConnectionStep
<1>8. CASE link[c] = "up"
  <2>1. Synced(c) /\ Joined(c) /\ ~IsServerHello(m)
    BY <1>2, <1>8
  <2>2. /\ r.out = << >>
        /\ \A x \in Names : Has(s, x) =>
              Has(t, x) /\ t.entries[x].seq >= s.entries[x].seq
        /\ \A x \in Names : Has(t, x) =>
              /\ t.entries[x].id # NoId
              /\ Wrote(w, x, t.entries[x].seq, t.entries[x].value)
        /\ \A x \in Names, k \in Nat : Carries(m, x, k) =>
              Has(t, x) /\ t.entries[x].seq >= k
        /\ \A x \in Names : Tells(m, x) => Has(t, x)
        /\ \A k \in 1 .. Len(t.idmap) : t.idmap[k] # NoName =>
              Has(t, t.idmap[k]) /\ t.entries[t.idmap[k]].id = k - 1
    <3>1. m = Head(toClient[c])
      BY DEF m
    <3>2. QED
      BY <1>2, <1>3, <2>1, <3>1, ReaderHears DEF s, r, t
  <2>3. toServer'[c] = toServer[c]
    BY <1>2, <1>8, <2>2
  <2>4. Synced(c)' /\ Joined(c)'
    BY <1>2, <2>1 DEF Synced, Joined
  <2>5. Listens(c)'
    BY <1>3, <1>4, <1>5, <2>3 DEF Reader, Listens
  <2>6. Live(c)'
    BY <1>2, <2>2 DEF Live, Exists, E
  <2>7. ToReader(w, c)'
    <3>1. ASSUME NEW x \in Range(toClient'[c])
          PROVE  (\/ GoodHello(w, x) \/ GoodAssign(w, x) \/ GoodUpdate(w, x)
                  \/ x.type = "FlagsUpdate")'
      <4>1. x \in Range(q) /\ x \in ClientMsg \cup ServerMsg
        BY <1>2
      <4>2. \/ GoodHello(w, x) \/ GoodAssign(w, x) \/ GoodUpdate(w, x)
            \/ x.type = "FlagsUpdate"
        BY <1>3, <2>1, <4>1 DEF Reader, ToReader
      <4>3. QED
        BY <1>1, <1>6, <4>1, <4>2, GoodStays
    <3>2. QED
      BY <3>1 DEF ToReader
  <2>8. ReaderFollows(w, c)'
    <3>1. ASSUME NEW n \in Names, Exists(c, n)'
          PROVE  (E(c, n).id # NoId /\ Wrote(w, n, E(c, n).seq, E(c, n).value))'
      <4>1. t.entries[n].id # NoId
            /\ Wrote(w, n, t.entries[n].seq, t.entries[n].value)
        BY <1>5, <2>2, <3>1
      <4>2. QED
        BY <1>5, <4>1 DEF Wrote
    <3>2. QED
      BY <3>1 DEF ReaderFollows
  <2>9. \A n \in Names : HasNow(c, n) => HasNow(c, n)' /\ E(c, n)'.seq >= E(c, n).seq
    BY <1>2, <1>5, <2>2 DEF HasNow
  <2>10. \A n \in Names : Has(t, n) => HasNow(c, n)'
    BY <1>2, <1>5 DEF HasNow
  <2>11. ReachesReader(c)'
    <3> SUFFICES ASSUME NEW n \in Names, Exists(Server, n)'
                 PROVE  (\/ HasNow(c, n) /\ E(c, n).seq >= E(Server, n).seq
                         \/ \E x \in Range(toClient[c]) :
                               Carries(x, n, E(Server, n).seq))'
      BY DEF ReachesReader
    <3> DEFINE k == E(Server, n).seq
    <3>1. /\ k \in Nat /\ E(c, n).seq \in Nat /\ E(c, n)'.seq \in Nat
      <4>1. k \in Nat /\ E(c, n).seq \in Nat
        BY <1>1, EntrySeqs DEF Nodes
      <4>2. storage'[c] \in Store
        BY <1>1 DEF TypeOK, Nodes
      <4>3. E(c, n)'.seq \in Nat
        BY <4>2, StoreFields DEF E, SeqNums
      <4>4. QED
        BY <4>1, <4>3
    <3>2. CASE HasNow(c, n) /\ E(c, n).seq >= k
      BY <1>5, <2>9, <3>1, <3>2
    <3>3. CASE \E x \in Range(q) : Carries(x, n, k)
      <4>1. PICK x \in Range(q) : Carries(x, n, k)
        BY <3>3
      <4>2. CASE x = m
        BY <1>5, <2>2, <2>10, <3>1, <4>1, <4>2
      <4>3. CASE x \in Range(Tail(q))
        <5>1. Carries(x, n, E(Server, n).seq)'
          BY <1>5, <1>6, <4>1, DenotesStays DEF Carries
        <5>2. QED
          BY <1>2, <4>3, <5>1
      <4>4. QED
        BY <1>2, <4>1, <4>2, <4>3
    <3>4. QED
      BY <1>3, <1>5, <2>1, <3>2, <3>3 DEF Reader, ReachesReader
  <2>12. AssignedFirst(c)'
    <3> SUFFICES ASSUME NEW n \in Names, NEW i \in 1 .. Len(Tail(q)),
                        Tail(q)[i].type = "EntryUpdate",
                        Denotes(toClient[c][i].id, n)'
                 PROVE  \/ HasNow(c, n)'
                        \/ \E j \in 1 .. (i - 1) : Tells(toClient[c][j], n)'
      BY <1>2 DEF AssignedFirst
    <3>1. Len(q) \in Nat /\ Len(Tail(q)) = Len(q) - 1 /\ m = q[1]
          /\ \A j \in 1 .. Len(Tail(q)) : Tail(q)[j] = q[j + 1]
      BY <1>2, TailFacts DEF m
    <3>2. Denotes(q[i + 1].id, n)
      BY <1>2, <1>5, <3>1 DEF Denotes
    <3>3. \A j \in 1 .. (i - 1) : Tells(Tail(q)[j], n) => Tells(toClient[c][j], n)'
      BY <1>2 DEF Tells, IsServerHello
    <3>4. i + 1 \in 1 .. Len(q) /\ q[i + 1].type = "EntryUpdate"
      BY <3>1
    <3>5. HasNow(c, n) \/ \E j \in 1 .. i : Tells(q[j], n)
      BY <1>3, <2>1, <3>2, <3>4 DEF Reader, AssignedFirst
    <3>6. CASE HasNow(c, n)
      BY <2>9, <3>6
    <3>7. ASSUME NEW j \in 1 .. i, Tells(q[j], n)
          PROVE  \/ HasNow(c, n)'
                 \/ \E k \in 1 .. (i - 1) : Tells(toClient[c][k], n)'
      <4>1. CASE j = 1
        BY <2>2, <2>10, <3>1, <3>7, <4>1
      <4>2. CASE j # 1
        <5>1. j - 1 \in 1 .. (i - 1) /\ j - 1 \in 1 .. Len(Tail(q)) /\ (j - 1) + 1 = j
          BY <3>1, <4>2
        <5>2. Tail(q)[j - 1] = q[j]
          BY <3>1, <5>1
        <5>3. QED
          BY <3>3, <3>7, <5>1, <5>2
      <4>3. QED
        BY <4>1, <4>2
    <3>8. QED
      BY <3>5, <3>6, <3>7
  <2>13. Reader(w, c)'
    BY <2>5, <2>7, <2>8, <2>11, <2>12 DEF Reader
  <2>14. QED
    BY <1>1, <1>2, <1>6, <2>6, <2>13, ConnectionStep
<1>9. QED
  BY <1>1, <1>7, <1>8 DEF TypeOK

\* What an answer does to the writer: at most it learns an id, and sends what
\* it wrote in the meantime.
LEMMA WriterHears ==
    ASSUME TypeOK, NEW w, SoleWriter(w), WriterOwns(w), NEW m \in AssignMsg,
           m.id # NoId, Wrote(w, m.name, m.seq, m.value)
    PROVE  LET s == storage[w]
               r == ProcessIncoming(s, m)
               t == r.store
               n == m.name
               e == s.entries[n]
           IN  /\ \A x \in Names :
                     /\ t.entries[x].value = s.entries[x].value
                     /\ t.entries[x].seq = s.entries[x].seq
                     /\ t.entries[x].localWrite = s.entries[x].localWrite
                     /\ x # n => t.entries[x].id = s.entries[x].id
               /\ \/ /\ Known(s, m.id) /\ t.idmap = s.idmap /\ r.out = << >>
                     /\ t.entries[n].id = e.id
                  \/ /\ ~Known(s, m.id) /\ t.entries[n].id = m.id
                     /\ t.idmap = WithSlot(s.idmap, m.id, n)
                     /\ e.seq > m.seq =>
                           EntryUpdate(m.id, e.seq, e.value) \in Range(r.out)
                     /\ \A x \in Range(r.out) :
                           \/ x.type = "FlagsUpdate"
                           \/ x = EntryUpdate(m.id, e.seq, e.value)
<1> DEFINE s == storage[w]
           r == ProcessIncoming(s, m)
           t == r.store
           n == m.name
           e == s.entries[n]
<1>1. /\ w \in Clients /\ w \in Nodes /\ s \in Store /\ ~s.server
      /\ n \in Names /\ m.seq \in Nat /\ m.id \in Nat
  BY NTSyncAssumption, MsgFields
     DEF NTSyncAssumption, SoleWriter, TypeOK, Nodes, SeqNums
<1>2. /\ Has(s, n) /\ e.seq \in Nat /\ m.seq <= e.seq
      /\ m.seq = e.seq => m.value = e.value
  BY <1>1, EntrySeqs DEF Wrote, Exists, E
<1>3. e.seq < Half /\ m.seq < Half
  <2>1. Wrote(w, n, E(w, n).seq, E(w, n).value)
    BY <1>1, <1>2, EntrySeqs DEF Wrote
  <2>2. QED
    BY <1>1, <1>2, <2>1, SmallWrites DEF E
<1>4. CASE Known(s, m.id) /\ NameOf(s, m.id) = n
  <2>1. IF e.seq > m.seq
        THEN r = Ignored(s)
        ELSE TakenAt(s, t, n, m) /\ r.out = << >>
    BY <1>1, <1>3, <1>4, AssignmentEffect
  <2>2. CASE e.seq > m.seq
    <3>1. t = s /\ r.out = << >>
      BY <2>1, <2>2 DEF Ignored, Result
    <3> HIDE DEF t
    <3>2. QED
      BY <1>4, <3>1 DEF t
  <2>3. CASE ~(e.seq > m.seq)
    <3>1. TakenAt(s, t, n, m) /\ r.out = << >> /\ m.seq = e.seq /\ m.value = e.value
      BY <1>1, <1>2, <2>1, <2>3
    <3>2. QED
      BY <1>4, <3>1 DEF TakenAt, OnlyAt
  <2>4. QED
    BY <2>2, <2>3
<1>5. CASE Known(s, m.id) /\ NameOf(s, m.id) # n
  <2>1. r = Ignored(s)
    BY <1>1, <1>5, StrayAssignmentEffect
  <2>2. t = s /\ r.out = << >>
    BY <2>1 DEF Ignored, Result
  <2> HIDE DEF t
  <2>3. QED
    BY <1>5, <2>2 DEF t
<1>6. CASE ~Known(s, m.id)
  <2> DEFINE f == t.entries[n]
  <2>1. /\ OnlyAt(s, t, n) /\ t.idmap = WithSlot(s.idmap, m.id, n)
        /\ f.id = m.id /\ f.localWrite = e.localWrite
        /\ e.seq > m.seq =>
              /\ f.value = e.value /\ f.seq = e.seq
              /\ EntryUpdate(m.id, e.seq, e.value) \in Range(r.out)
              /\ \A x \in Range(r.out) :
                    \/ x.type = "FlagsUpdate"
                    \/ x = EntryUpdate(m.id, e.seq, e.value)
        /\ e.seq <= m.seq =>
              /\ f.value = m.value /\ f.seq = m.seq
              /\ \A x \in Range(r.out) : x.type = "FlagsUpdate"
    BY <1>1, <1>2, <1>3, <1>6, NewAssignmentEffect
  <2>2. f.value = e.value /\ f.seq = e.seq
    BY <1>1, <1>2, <2>1
  <2>3. \A x \in Range(r.out) : \/ x.type = "FlagsUpdate"
                                \/ x = EntryUpdate(m.id, e.seq, e.value)
    BY <1>1, <1>2, <2>1
  <2>4. \A x \in Names : x # n => t.entries[x] = s.entries[x]
    BY <2>1 DEF OnlyAt
  <2>5. QED
    BY <1>6, <2>1, <2>2, <2>3, <2>4
<1>7. QED
  BY <1>4, <1>5, <1>6

\* The writer reads a message.
LEMMA WriterReceivesFollows ==
    ASSUME IInv, IInv', IdInv, IdInv', NEW w, SoleWriter(w), WriterInv(w),
           ClientReceive(w)
    PROVE  WriterInv(w)'
<1> DEFINE s == storage[w]
           q == toClient[w]
           m == Head(q)
           r == ProcessIncoming(s, m)
           t == r.store
           update == EntryUpdate(m.id, s.entries[m.name].seq, s.entries[m.name].value)
<1>1. w \in Clients /\ w \in Nodes /\ TypeOK /\ TypeOK'
  BY DEF SoleWriter, IInv, Nodes
<1>2. /\ storage'[w] = t /\ storage'[Server] = storage[Server]
      /\ toClient'[w] = Tail(q) /\ q \in Seq(ServerMsg) /\ q # << >>
      /\ m \in ServerMsg /\ s \in Store /\ ~s.server
      /\ Range(q) = {m} \cup Range(Tail(q))
      /\ Range(q) \subseteq ServerMsg /\ Tail(q) \in Seq(ServerMsg)
      /\ UNCHANGED << client, session, link, old, ops >>
      /\ \A d \in Clients \ {w} :
            /\ storage'[d] = storage[d]
            /\ toServer'[d] = toServer[d] /\ toClient'[d] = toClient[d]
      /\ client[w] = "Active"
      /\ r.out \in Seq(ClientMsg) /\ toServer[w] \in Seq(ClientMsg)
      /\ link[w] = "down" => toServer'[w] = toServer[w]
      /\ link[w] = "up" => /\ Synced(w) /\ Joined(w)
                           /\ toServer'[w] = toServer[w] \o r.out
                           /\ ~IsServerHello(m)
      /\ Greets(w)'
  BY <1>1, ClientReceiveState
<1>3. /\ Writer(w) /\ WriterOwns(w) /\ FromWriter(w) /\ ToWriter(w)
      /\ ReachesServer(w) /\ ServerFollows(w) /\ Live(w)
  BY <1>1 DEF WriterInv, Writer
<1>4. (IsServerHello(m) /\ m.assigns = {}) \/ Answer(w, m)
  BY <1>2, <1>3 DEF ToWriter
<1>5. ASSUME Answer(w, m)
      PROVE  /\ m \in AssignMsg /\ m.name \in Names /\ m.id \in Nat /\ m.seq \in Nat
             /\ m.id # NoId /\ Wrote(w, m.name, m.seq, m.value)
  <2>1. m \in AssignMsg
    BY <1>2, <1>5, MsgKinds DEF Answer
  <2>2. QED
    BY <1>5, <2>1, MsgFields DEF Answer, SeqNums
<1> DEFINE Keeps == \A x \in Names :
               /\ t.entries[x].value = s.entries[x].value
               /\ t.entries[x].seq = s.entries[x].seq
               /\ t.entries[x].localWrite = s.entries[x].localWrite
           Quiet == /\ t.idmap = s.idmap /\ r.out = << >>
                    /\ \A x \in Names : t.entries[x].id = s.entries[x].id
           Learns == /\ Answer(w, m) /\ ~Known(s, m.id)
                     /\ t.entries[m.name].id = m.id
                     /\ \A x \in Names \ {m.name} :
                           t.entries[x].id = s.entries[x].id
                     /\ t.idmap = WithSlot(s.idmap, m.id, m.name)
                     /\ s.entries[m.name].seq > m.seq => update \in Range(r.out)
                     /\ \A x \in Range(r.out) : x.type = "FlagsUpdate" \/ x = update
\* the message does nothing, or the writer learns an id
<1>6. Keeps /\ ((Quiet /\ (Answer(w, m) => Known(s, m.id))) \/ Learns)
  <2>1. CASE IsServerHello(m)
    <3>1. r = Ignored(s)
      BY <2>1 DEF ProcessIncoming, IsServerHello
    <3>2. t = s /\ r.out = << >>
      BY <3>1 DEF Ignored, Result
    <3>3. ~Answer(w, m)
      BY <2>1 DEF Answer, IsServerHello
    <3> HIDE DEF t, r
    <3>4. QED
      BY <3>2, <3>3
  <2>2. CASE Answer(w, m)
    <3>1. /\ Keeps
          /\ \A x \in Names : x # m.name => t.entries[x].id = s.entries[x].id
          /\ \/ /\ Known(s, m.id) /\ t.idmap = s.idmap /\ r.out = << >>
                /\ t.entries[m.name].id = s.entries[m.name].id
             \/ /\ ~Known(s, m.id) /\ t.entries[m.name].id = m.id
                /\ t.idmap = WithSlot(s.idmap, m.id, m.name)
                /\ s.entries[m.name].seq > m.seq => update \in Range(r.out)
                /\ \A x \in Range(r.out) : x.type = "FlagsUpdate" \/ x = update
      <4> HIDE DEF m
      <4>1. m \in AssignMsg /\ m.id # NoId /\ Wrote(w, m.name, m.seq, m.value)
        BY <1>5, <2>2
      <4>2. QED
        BY <1>1, <1>3, <4>1, WriterHears
    <3> HIDE DEF t, r, update, s, m
    <3>2. QED
      BY <2>2, <3>1
  <2>3. QED
    BY <1>4, <2>1, <2>2
<1> HIDE DEF s, m, r, t, update
<1>7. \A x \in Names : /\ E(w, x)' = t.entries[x] /\ E(w, x) = s.entries[x]
                       /\ Exists(w, x)' <=> Exists(w, x)
                       /\ E(w, x)'.seq = E(w, x).seq
                       /\ E(w, x)'.value = E(w, x).value
                       /\ E(w, x)'.localWrite = E(w, x).localWrite
                       /\ E(Server, x)' = E(Server, x)
                       /\ Exists(Server, x)' <=> Exists(Server, x)
                       /\ E(Server, x).seq \in Nat /\ E(w, x).seq \in Nat
                       /\ E(w, x).id \in Nat
  <2>1. \A x \in Names : E(w, x)' = t.entries[x] /\ E(w, x) = s.entries[x]
                         /\ E(Server, x)' = E(Server, x)
                         /\ (Exists(Server, x)' <=> Exists(Server, x))
                         /\ (Exists(w, x)' <=> t.entries[x].value # NoValue)
                         /\ (Exists(w, x) <=> s.entries[x].value # NoValue)
    BY <1>2 DEF E, Exists, Has, s
  <2>2. \A x \in Names : E(Server, x).seq \in Nat /\ E(w, x).seq \in Nat
                         /\ E(w, x).id \in Nat
    BY <1>1, EntrySeqs DEF Nodes
  <2>3. QED
    BY <1>6, <2>1, <2>2
<1>8. WriterGrows(w) /\ ServerGrows
  BY <1>7 DEF WriterGrows, ServerGrows
<1>9. Joined(w)' <=> Joined(w)
  BY <1>2 DEF Joined
<1>10. Joined(w) <=> link[w] = "up"
  BY <1>1, <1>2 DEF Joined, TypeOK
\* of what it learns on a working connection
<1>11. ASSUME Joined(w), Learns
       PROVE  /\ Denotes(m.id, m.name) /\ E(w, m.name).id = NoId
              /\ Exists(w, m.name)
              /\ m.seq <= E(Server, m.name).seq
  <2>1. Denotes(m.id, m.name) /\ m.seq <= E(Server, m.name).seq /\ Exists(w, m.name)
    BY <1>10, <1>11 DEF Answer, Wrote
  <2>2. E(w, m.name).id = NoId
    <3>1. SUFFICES ASSUME E(w, m.name).id # NoId PROVE FALSE
      OBVIOUS
    <3>2. m.name \in Names
      BY <1>5, <1>11
    <3>3. Denotes(E(w, m.name).id, m.name) /\ Known(s, E(w, m.name).id)
      BY <1>1, <1>3, <1>11, <3>1, <3>2, ClientIds DEF s
    <3>4. E(w, m.name).id = m.id
      BY <2>1, <3>3 DEF Denotes
    <3>5. QED
      BY <1>11, <3>3, <3>4
  <2>3. QED
    BY <2>1, <2>2
<1>12. Live(w)'
  <2> SUFFICES ASSUME Joined(w), NEW k \in 1 .. Len(t.idmap), NEW n \in Names,
                      n = t.idmap[k]
               PROVE  Exists(w, n)' /\ E(w, n)'.id = k - 1
    <3>1. \A k \in 1 .. Len(t.idmap) : t.idmap[k] # NoName => t.idmap[k] \in Names
      <4>1. t \in Store
        BY <1>1, <1>2 DEF TypeOK
      <4>2. QED
        BY <4>1, StoreLen DEF Slots
    <3>2. QED
      BY <1>2, <1>9, <3>1 DEF Live, Exists, E
  <2>1. n # NoName
    BY StorageAssumption DEF StorageAssumption
  <2>2. \A j \in 1 .. Len(s.idmap) : n = s.idmap[j] =>
           Exists(w, n) /\ E(w, n).id = j - 1 /\ E(w, n).id # NoId
    <3>1. TAKE j \in 1 .. Len(s.idmap)
    <3>2. HAVE n = s.idmap[j]
    <3>3. Exists(w, n) /\ E(w, n).id = j - 1
      BY <1>3, <2>1, <3>2 DEF Live, s
    <3>4. Len(s.idmap) \in Nat /\ j - 1 \in Nat /\ (j - 1) + 1 = j
      BY <1>2, StoreLen
    <3>5. Known(s, j - 1)
      BY <2>1, <3>2, <3>4 DEF Known
    <3>6. Denotes(j - 1, NameOf(s, j - 1))
      BY <1>1, <1>3, <3>4, <3>5, ClientIds DEF s
    <3>7. QED
      BY <3>3, <3>6 DEF Denotes
  <2>3. CASE Quiet
    BY <1>7, <2>2, <2>3
  <2>4. CASE Learns
    <3>1. s.idmap \in Slots /\ Len(s.idmap) \in Nat
      BY <1>2, StoreLen
    <3>2. t.idmap[k] = IF k = m.id + 1 THEN m.name
                       ELSE IF k <= Len(s.idmap) THEN s.idmap[k] ELSE NoName
      BY <1>5, <2>4, <3>1, WithSlotSlots
    <3>3. CASE k = m.id + 1
      <4>1. n = m.name /\ m.id \in Nat
        BY <1>5, <2>4, <3>2, <3>3
      <4>2. QED
        BY <1>7, <1>11, <2>4, <3>3, <4>1
    <3>4. CASE k # m.id + 1
      <4>1. k \in 1 .. Len(s.idmap) /\ n = s.idmap[k]
        BY <2>1, <3>1, <3>2, <3>4
      <4>2. Exists(w, n) /\ E(w, n).id = k - 1 /\ E(w, n).id # NoId
        BY <2>2, <4>1
      <4>3. n # m.name
        BY <1>11, <2>4, <4>2
      <4>4. QED
        BY <1>7, <2>4, <4>2, <4>3
    <3>5. QED
      BY <3>3, <3>4
  <2>5. QED
    BY <1>6, <2>3, <2>4
<1>13. WriterOwns(w)'
  BY <1>2, <1>3, <1>7 DEF WriterOwns
<1>14. ToWriter(w)'
  <2>1. ASSUME NEW x \in Range(Tail(q))
        PROVE  (IsServerHello(x) /\ x.assigns = {}) \/ Answer(w, x)'
    <3>1. x \in Range(q) /\ x \in ServerMsg
      BY <1>2
    <3>2. (IsServerHello(x) /\ x.assigns = {}) \/ Answer(w, x)
      BY <1>3, <3>1 DEF ToWriter
    <3>3. ASSUME Answer(w, x) PROVE Answer(w, x)'
      <4>1. x \in AssignMsg
        BY <3>1, <3>3, MsgKinds DEF Answer
      <4>2. x.name \in Names /\ x.seq \in Nat
        BY <4>1, MsgFields DEF SeqNums
      <4>3. Wrote(w, x.name, x.seq, x.value)'
        BY <1>1, <1>8, <3>3, <4>2, WroteStays DEF Answer
      <4>4. Denotes(x.id, x.name) => Denotes(x.id, x.name)'
        BY <1>8, <4>2, DenotesStays
      <4>5. QED
        BY <1>2, <1>7, <3>3, <4>2, <4>3, <4>4 DEF Answer
    <3>4. QED
      BY <3>2, <3>3
  <2>2. QED
    BY <1>2, <2>1 DEF ToWriter, IsServerHello
<1>15. /\ Range(toServer[w]) \subseteq Range(toServer'[w])
       /\ \A x \in Range(toServer'[w]) :
             x \in Range(toServer[w]) \/ (Joined(w) /\ x \in Range(r.out))
       /\ Joined(w) => Range(r.out) \subseteq Range(toServer'[w])
  <2>1. Range(toServer[w] \o r.out) = Range(toServer[w]) \cup Range(r.out)
    BY <1>2, Messages
  <2>2. CASE link[w] = "up"
    BY <1>2, <1>10, <2>1, <2>2
  <2>3. CASE link[w] = "down"
    BY <1>2, <1>10, <2>3
  <2>4. QED
    BY <1>1, <2>2, <2>3 DEF TypeOK
<1>16. update.type = "EntryUpdate" /\ update.id = m.id
       /\ update.seq = s.entries[m.name].seq /\ update.value = s.entries[m.name].value
  BY DEF update, EntryUpdate
<1>17. FromWriter(w)'
  <2> SUFFICES ASSUME NEW x \in Range(toServer'[w])
               PROVE  (\/ x \in {ClientHello, ClientHelloDone}
                       \/ GoodRequest(w, x) \/ GoodAssign(w, x) \/ GoodUpdate(w, x)
                       \/ x.type = "FlagsUpdate")'
    BY DEF FromWriter
  <2>1. CASE x \in Range(toServer[w])
    <3>1. x \in ClientMsg
      BY <1>2, <2>1, Messages
    <3>2. \/ x \in {ClientHello, ClientHelloDone}
          \/ GoodRequest(w, x) \/ GoodAssign(w, x) \/ GoodUpdate(w, x)
          \/ x.type = "FlagsUpdate"
      BY <1>3, <2>1 DEF FromWriter
    <3>3. QED
      BY <1>1, <1>8, <3>1, <3>2, GoodStays
  <2>2. CASE Joined(w) /\ x \in Range(r.out)
    <3>1. CASE Quiet
      BY <2>2, <3>1 DEF Range
    <3>2. CASE Learns
      <4>1. CASE x.type = "FlagsUpdate"
        BY <4>1
      <4>2. CASE x = update
        <5>1. PICK n \in Names : n = m.name
          BY <1>5, <3>2
        <5>2. Denotes(m.id, n) /\ Exists(w, n)
          BY <1>11, <2>2, <3>2, <5>1
        <5>3. x.type = "EntryUpdate" /\ x.id = m.id
              /\ x.seq = E(w, n).seq /\ x.value = E(w, n).value
          BY <1>7, <1>16, <4>2, <5>1
        <5>4. Denotes(x.id, n)'
          BY <1>7, <5>2, <5>3 DEF Denotes
        <5>5. Wrote(w, n, x.seq, x.value)'
          BY <1>7, <5>2, <5>3 DEF Wrote
        <5>6. QED
          BY <5>3, <5>4, <5>5 DEF GoodUpdate
      <4>3. QED
        BY <2>2, <3>2, <4>1, <4>2
    <3>3. QED
      BY <1>6, <3>1, <3>2
  <2>3. QED
    BY <1>15, <2>1, <2>2
<1>18. ReachesServer(w)'
  <2> SUFFICES ASSUME Joined(w), NEW x \in Names, Exists(w, x)'
               PROVE  OnItsWay(w, x)'
    BY <1>9 DEF ReachesServer
  <2>1. Exists(w, x) /\ OnItsWay(w, x)
    BY <1>3, <1>7 DEF ReachesServer
  <2>2. \A y \in Range(toServer[w]) : /\ y \in Range(toServer'[w])
                                      /\ GoodRequest(w, y) => GoodRequest(w, y)'
    <3>1. \A y \in Range(toServer[w]) : y \in ClientMsg
      BY <1>2, Messages
    <3>2. QED
      BY <1>1, <1>8, <1>15, <3>1, GoodStays
  \* an answer that it takes leaves the queue, and with it the wait for the id
  <2>3. ASSUME E(w, x)'.id = E(w, x).id, Learns => x # m.name
        PROVE  OnItsWay(w, x)'
    <3>1. CASE E(w, x).id # NoId
      BY <1>7, <2>1, <2>2, <2>3, <3>1 DEF OnItsWay
    <3>2. CASE E(w, x).id = NoId /\ ~Exists(Server, x)
      BY <1>7, <2>1, <2>2, <2>3, <3>2 DEF OnItsWay
    <3>3. CASE E(w, x).id = NoId /\ Exists(Server, x)
      <4>1. PICK y \in Range(q) : y.type = "EntryAssign" /\ y.name = x
        BY <2>1, <3>3 DEF OnItsWay
      <4>2. y # m
        <5>1. SUFFICES ASSUME y = m PROVE FALSE
          OBVIOUS
        <5>2. Answer(w, m)
          BY <1>4, <4>1, <5>1 DEF IsServerHello
        <5>3. Quiet /\ Known(s, m.id)
          BY <1>6, <2>3, <4>1, <5>1, <5>2
        <5>4. Denotes(m.id, x) /\ m.id \in Nat
          BY <1>5, <1>10, <4>1, <5>1, <5>2 DEF Answer
        <5>5. NameOf(s, m.id) = x
          BY <1>1, <1>3, <5>3, <5>4, ClientIds, DenotesOne DEF s
        <5>6. m.id + 1 \in 1 .. Len(s.idmap) /\ s.idmap[m.id + 1] = x
          BY <1>2, <5>3, <5>4, <5>5, KnownName DEF NameOf
        <5>7. x # NoName
          BY StorageAssumption DEF StorageAssumption
        <5>8. E(w, x).id = (m.id + 1) - 1
          BY <1>3, <5>6, <5>7 DEF Live, s
        <5>9. E(w, x).id = m.id
          BY <5>4, <5>8
        <5>10. QED
          BY <3>3, <5>4, <5>9 DEF Denotes
      <4>3. y \in Range(toClient'[w])
        BY <1>2, <4>1, <4>2
      <4>4. QED
        BY <1>7, <2>3, <3>3, <4>1, <4>3 DEF OnItsWay
    <3>4. QED
      BY <3>1, <3>2, <3>3
  <2>4. CASE Quiet /\ ~Learns
    BY <1>7, <2>3, <2>4
  <2>5. CASE Learns /\ x # m.name
    BY <1>7, <2>3, <2>5
  <2>6. CASE Learns /\ x = m.name
    <3>1. E(w, x)'.id = m.id /\ m.id # NoId /\ m.seq <= E(Server, x).seq
          /\ m.seq \in Nat
      BY <1>5, <1>7, <1>11, <2>6
    <3>2. CASE E(w, x).seq > m.seq
      <4>1. update \in Range(toServer'[w])
        BY <1>7, <1>15, <2>6, <3>2
      <4>2. update.seq >= E(w, x)'.seq
        BY <1>7, <1>16, <2>6
      <4>3. QED
        BY <1>16, <3>1, <4>1, <4>2 DEF OnItsWay
    <3>3. CASE ~(E(w, x).seq > m.seq)
      <4>1. E(Server, x)'.seq >= E(w, x)'.seq
        BY <1>7, <3>1, <3>3
      <4>2. QED
        BY <3>1, <4>1 DEF OnItsWay
    <3>4. QED
      BY <3>2, <3>3
  <2>7. QED
    BY <1>6, <2>4, <2>5, <2>6
<1>19. Writer(w)'
  BY <1>13, <1>14, <1>17, <1>18 DEF Writer
<1>20. QED
  BY <1>1, <1>2, <1>8, <1>9, <1>12, <1>19, ConnectionStep

-----------------------------------------------------------------------------
(* One writer: what the server does with its messages *)

\* A message for an entry of the server's store t that has this name.
IsAbout(t, y, x) == Has(t, x) /\ y.id # NoId /\ t.entries[x].id = y.id

\* The messages of the handshake leave the store alone.
LEMMA HelloIgnored ==
    ASSUME NEW s, NEW m \in {ClientHello, ClientHelloDone}
    PROVE  ProcessIncoming(s, m) = Ignored(s)
<1>1. m.type \in {"ClientHello", "ClientHelloDone"}
  BY DEF ClientHello, ClientHelloDone
<1>2. QED
  BY <1>1 DEF ProcessIncoming

\* The server takes what is new in a message of the writer and passes it on; a
\* new entry is announced to the writer, too.
LEMMA ServerHears ==
    ASSUME IInv, IdInv, NEW w, SoleWriter(w), WriterOwns(w), ServerFollows(w),
           NEW m \in ClientMsg,
           \/ m \in {ClientHello, ClientHelloDone}
           \/ GoodRequest(w, m) \/ GoodAssign(w, m) \/ GoodUpdate(w, m)
           \/ m.type = "FlagsUpdate"
    PROVE  LET s == storage[Server]
               r == ProcessIncoming(s, m)
               t == r.store
           IN  /\ \A x \in Names : Has(s, x) =>
                     /\ Has(t, x) /\ t.entries[x].id = s.entries[x].id
                     /\ t.entries[x].seq >= s.entries[x].seq
               /\ \A x \in Names : Has(t, x) =>
                     Wrote(w, x, t.entries[x].seq, t.entries[x].value)
               /\ \A x \in Names : Has(t, x) =>
                     \/ Has(s, x) /\ t.entries[x].seq = s.entries[x].seq
                     \/ \E y \in Range(r.out) :
                           /\ y.seq = t.entries[x].seq /\ IsAbout(t, y, x)
                           /\ \/ y.type = "EntryAssign" /\ y.name = x
                              \/ y.type = "EntryUpdate"
               /\ \A y \in Range(r.out) :
                     \/ y.type = "FlagsUpdate"
                     \/ \E x \in Names :
                           /\ IsAbout(t, y, x) /\ Wrote(w, x, y.seq, y.value)
                           /\ \/ y.type = "EntryAssign" /\ y.name = x
                              \/ y.type = "EntryUpdate" /\ Has(s, x)
               /\ r.toSender => \A y \in Range(r.out) :
                     y.type = "EntryAssign" /\ y.seq = t.entries[y.name].seq
               /\ \A x \in Names : Has(t, x) /\ ~Has(s, x) =>
                     /\ r.toSender
                     /\ \E y \in Range(r.out) : y.type = "EntryAssign" /\ y.name = x
               /\ Len(t.idmap) <= NoId
               /\ \A k \in 1 .. Len(t.idmap) : t.idmap[k] # NoName
               /\ GoodRequest(w, m) => Has(t, m.name)
               /\ m.type \in {"EntryAssign", "EntryUpdate"} =>
                     \A x \in Names : Denotes(m.id, x) => t.entries[x].seq >= m.seq
<1> DEFINE s == storage[Server]
           r == ProcessIncoming(s, m)
           t == r.store
<1>1. /\ TypeOK /\ Server \in Nodes /\ s \in Store /\ s.server
      /\ \A n \in Names : Exists(Server, n) <=> E(Server, n).id # NoId
      /\ \A id \in Nat : Known(s, id) =>
            NameOf(s, id) \in Names /\ Denotes(id, NameOf(s, id))
      /\ \A id \in Nat, n \in Names : Denotes(id, n) =>
            Known(s, id) /\ NameOf(s, id) = n
  BY ServerIds DEF IInv, Nodes
<1>2. \A x \in Names : /\ s.entries[x] = E(Server, x)
                       /\ Has(s, x) <=> Exists(Server, x)
                       /\ s.entries[x].seq \in Nat /\ s.entries[x].id \in Nat
  BY <1>1, EntrySeqs DEF E, Exists
<1>3. \A x \in Names : Has(s, x) =>
         /\ Wrote(w, x, s.entries[x].seq, s.entries[x].value)
         /\ s.entries[x].seq < Half
  <2>1. \A x \in Names : Has(s, x) =>
           Wrote(w, x, s.entries[x].seq, s.entries[x].value)
    BY <1>2 DEF ServerFollows
  <2>2. QED
    BY <1>1, <1>2, <2>1, SmallWrites
<1>4. /\ Len(s.idmap) <= NoId /\ s.idmap \in Slots /\ Len(s.idmap) \in Nat
      /\ \A k \in 1 .. Len(s.idmap) : s.idmap[k] # NoName
  BY <1>1, StoreLen DEF ServerFollows
<1> DEFINE Stays == \A x \in Names : Has(s, x) =>
                     /\ Has(t, x) /\ t.entries[x].id = s.entries[x].id
                     /\ t.entries[x].seq >= s.entries[x].seq
           Written == \A x \in Names : Has(t, x) =>
                     Wrote(w, x, t.entries[x].seq, t.entries[x].value)
           Learnt == \A x \in Names : Has(t, x) =>
                     \/ Has(s, x) /\ t.entries[x].seq = s.entries[x].seq
                     \/ \E y \in Range(r.out) :
                           /\ y.seq = t.entries[x].seq /\ IsAbout(t, y, x)
                           /\ \/ y.type = "EntryAssign" /\ y.name = x
                              \/ y.type = "EntryUpdate"
           Says == \A y \in Range(r.out) :
                     \/ y.type = "FlagsUpdate"
                     \/ \E x \in Names :
                           /\ IsAbout(t, y, x) /\ Wrote(w, x, y.seq, y.value)
                           /\ \/ y.type = "EntryAssign" /\ y.name = x
                              \/ y.type = "EntryUpdate" /\ Has(s, x)
           Answers == r.toSender => \A y \in Range(r.out) :
                     y.type = "EntryAssign" /\ y.seq = t.entries[y.name].seq
           Announced == \A x \in Names : Has(t, x) /\ ~Has(s, x) =>
                     /\ r.toSender
                     /\ \E y \in Range(r.out) : y.type = "EntryAssign" /\ y.name = x
           Room == /\ Len(t.idmap) <= NoId
                   /\ \A k \in 1 .. Len(t.idmap) : t.idmap[k] # NoName
           Granted == GoodRequest(w, m) => Has(t, m.name)
           Done == m.type \in {"EntryAssign", "EntryUpdate"} =>
                     \A x \in Names : Denotes(m.id, x) => t.entries[x].seq >= m.seq
           Heard == /\ Stays /\ Written /\ Learnt /\ Says /\ Answers /\ Announced
                    /\ Room /\ Granted /\ Done
\* nothing changes but flags
<1>5. ASSUME SameContent(s, t),
             \A y \in Range(r.out) : y.type = "FlagsUpdate",
             r.toSender => r.out = << >>,
             GoodRequest(w, m) => m.name \in Names /\ Has(s, m.name),
             m.type \in {"EntryAssign", "EntryUpdate"} =>
                \A x \in Names : Denotes(m.id, x) => s.entries[x].seq >= m.seq
      PROVE  Heard
  <2>1. \A x \in Names : /\ Has(t, x) <=> Has(s, x)
                         /\ t.entries[x].seq = s.entries[x].seq
                         /\ t.entries[x].id = s.entries[x].id
                         /\ t.entries[x].value = s.entries[x].value
    BY <1>5 DEF SameContent, Alike, Has
  <2>2. t.idmap = s.idmap
    BY <1>5 DEF SameContent
  <2> HIDE DEF s, t
  <2>3. Stays /\ Written /\ Learnt
    BY <1>2, <1>3, <2>1
  <2>4. Says /\ Answers
    <3>1. r.toSender => Range(r.out) = {}
      BY <1>5 DEF Range
    <3> HIDE DEF r
    <3>2. QED
      BY <1>5, <3>1
  <2>5. Announced /\ Room
    BY <1>4, <2>1, <2>2
  <2>6. Granted /\ Done
    BY <1>5, <2>1
  <2>7. QED
    BY <2>3, <2>4, <2>5, <2>6
\* the value of a known entry is taken and passed on
<1>6. ASSUME NEW n \in Names, TakenAt(s, t, n, m), ~r.toSender, r.out = << m >>,
             Has(s, n), s.entries[n].id = m.id, m.id # NoId, Denotes(m.id, n),
             m.seq \in Nat, m.seq >= s.entries[n].seq, m.value # NoValue,
             Wrote(w, n, m.seq, m.value),
             \/ m.type = "EntryAssign" /\ m.name = n
             \/ m.type = "EntryUpdate"
      PROVE  Heard
  <2>1. /\ t.idmap = s.idmap /\ t.entries[n].value = m.value
        /\ t.entries[n].seq = m.seq /\ t.entries[n].id = s.entries[n].id
        /\ \A x \in Names : x # n => t.entries[x] = s.entries[x]
    BY <1>6 DEF TakenAt, OnlyAt
  <2>2. Has(t, n) /\ \A x \in Names : x # n => (Has(t, x) <=> Has(s, x))
    BY <1>6, <2>1 DEF Has
  <2>3. Range(r.out) = {m}
    BY <1>6 DEF Range
  <2>4. IsAbout(t, m, n)
    BY <1>6, <2>1, <2>2 DEF IsAbout
  <2>5. \A x \in Names : Denotes(m.id, x) => x = n
    BY <1>6, DenotesOne
  <2>6. ~GoodRequest(w, m)
    BY <1>6 DEF GoodRequest
  <2> HIDE DEF s, t, r
  <2>7. Stays /\ Written
    BY <1>2, <1>3, <1>6, <2>1, <2>2
  <2>8. Learnt /\ Says
    BY <1>6, <2>1, <2>2, <2>3, <2>4
  <2>9. Answers /\ Announced /\ Room
    BY <1>4, <1>6, <2>1, <2>2
  <2>10. Granted /\ Done
    BY <1>6, <2>1, <2>5, <2>6
  <2>11. QED
    BY <2>7, <2>8, <2>9, <2>10
\* nothing is new
<1>7. ASSUME r = Ignored(s),
             GoodRequest(w, m) => m.name \in Names /\ Has(s, m.name),
             m.type \in {"EntryAssign", "EntryUpdate"} =>
                \A x \in Names : Denotes(m.id, x) => s.entries[x].seq >= m.seq
      PROVE  Heard
  <2>1. t = s /\ r.out = << >>
    BY <1>7 DEF Ignored, Result
  <2>2. SameContent(s, t) /\ \A y \in Range(r.out) : y.type = "FlagsUpdate"
    BY <2>1 DEF SameContent, Alike, Range
  <2> HIDE DEF s, t, r, Heard
  <2>3. QED
    BY <1>5, <1>7, <2>1, <2>2
<1>8. ASSUME m \in {ClientHello, ClientHelloDone} PROVE Heard
  <2>1. m.type \in {"ClientHello", "ClientHelloDone"}
    BY <1>8 DEF ClientHello, ClientHelloDone
  <2>2. r = Ignored(s)
    BY <1>8, HelloIgnored
  <2> HIDE DEF s, t, r, Heard
  <2>3. QED
    BY <1>7, <2>1, <2>2 DEF GoodRequest
<1>9. ASSUME m.type = "FlagsUpdate" PROVE Heard
  <2>1. m \in FlagsMsg
    BY <1>9, MsgKinds
  <2>2. SameContent(s, t)
        /\ r.out = IF r.toSender \/ ~s.server THEN << >> ELSE << m >>
    BY <1>1, <2>1, FlagsMessageEffect
  <2>3. \A y \in Range(r.out) : y = m
    BY <2>2 DEF Range
  <2> HIDE DEF s, t, r, Heard
  <2>4. QED
    BY <1>5, <1>9, <2>2, <2>3 DEF GoodRequest
<1>10. ASSUME GoodRequest(w, m) PROVE Heard
  <2> DEFINE n == m.name
  <2>1. m \in AssignMsg /\ m.id = NoId /\ Wrote(w, n, m.seq, m.value)
    BY <1>10, MsgKinds DEF GoodRequest
  <2>2. n \in Names /\ m.seq \in Nat /\ m.value # NoValue
    BY <2>1, MsgFields DEF SeqNums
  <2>3. \A x \in Names : ~Denotes(m.id, x)
    BY <2>1 DEF Denotes
  <2>4. CASE s.entries[n].id # NoId
    <3>1. r = Ignored(s)
      BY <1>1, <2>1, <2>4, KnownRequestEffect
    <3>2. Has(s, n)
      BY <1>1, <1>2, <2>2, <2>4
    <3> HIDE DEF s, t, r, Heard
    <3>3. QED
      BY <1>7, <2>2, <2>3, <3>1, <3>2
  <2>5. CASE s.entries[n].id = NoId
    <3>1. ~Has(s, n)
      BY <1>1, <1>2, <2>2, <2>5
    <3> DEFINE new == Len(s.idmap)
               told == EntryAssign(n, new, m.seq, m.value, m.flags)
    <3>2. new < NoId
      BY <1>2, <2>2, <3>1, IdsLeft
    <3>3. /\ OnlyAt(s, t, n) /\ t.idmap = Append(s.idmap, n)
          /\ t.entries[n].value = m.value /\ t.entries[n].seq = m.seq
          /\ t.entries[n].id = new /\ r.out = << told >> /\ r.toSender
      BY <1>1, <2>1, <2>5, <3>1, NewRequestEffect
    <3>4. Has(t, n) /\ \A x \in Names : x # n => /\ t.entries[x] = s.entries[x]
                                                 /\ Has(t, x) <=> Has(s, x)
      BY <2>2, <3>3 DEF Has, OnlyAt
    <3>5. Range(r.out) = {told}
      BY <3>3 DEF Range
    <3>6. /\ told.type = "EntryAssign" /\ told.name = n /\ told.id = new
          /\ told.seq = m.seq /\ told.value = m.value
      BY DEF EntryAssign
    <3>7. NoId \in Nat /\ new \in Nat /\ n # NoName
      BY <1>4, <2>2, StorageAssumption DEF StorageAssumption
    <3>8. IsAbout(t, told, n)
      BY <3>2, <3>3, <3>4, <3>6, <3>7 DEF IsAbout
    <3>9. /\ Len(t.idmap) = new + 1
          /\ \A k \in 1 .. new : t.idmap[k] = s.idmap[k]
          /\ t.idmap[new + 1] = n
      BY <1>4, <3>3 DEF Slots
    <3>10. Room
      <4>1. ASSUME NEW k \in 1 .. Len(t.idmap) PROVE t.idmap[k] # NoName
        <5>1. k \in 1 .. new \/ k = new + 1
          BY <3>7, <3>9
        <5>2. QED
          BY <1>4, <3>7, <3>9, <5>1
      <4>2. QED
        BY <3>2, <3>7, <3>9, <4>1
    <3> HIDE DEF s, t, r, told, new, Room
    <3>11. Stays /\ Written
      BY <1>2, <1>3, <2>1, <2>2, <3>1, <3>3, <3>4
    <3>12. Learnt /\ Says
      BY <2>1, <2>2, <3>3, <3>4, <3>5, <3>6, <3>8
    <3>13. Answers /\ Announced
      BY <2>2, <3>3, <3>4, <3>5, <3>6
    <3>14. Granted /\ Done
      BY <2>3, <3>4
    <3>15. QED
      BY <3>10, <3>11, <3>12, <3>13, <3>14
  <2>6. QED
    BY <2>4, <2>5
<1>11. ASSUME GoodAssign(w, m) PROVE Heard
  <2> DEFINE n == m.name
  <2>1. m \in AssignMsg /\ Denotes(m.id, n) /\ Wrote(w, n, m.seq, m.value)
        /\ m.type = "EntryAssign"
    BY <1>11, MsgKinds DEF GoodAssign
  <2>2. n \in Names /\ m.seq \in Nat /\ m.value # NoValue /\ m.id \in Nat
        /\ m.id # NoId
    BY <2>1, MsgFields DEF SeqNums, Denotes
  <2>3. m.seq < Half
    BY <1>1, <2>1, <2>2, SmallWrites
  <2>4. Known(s, m.id) /\ NameOf(s, m.id) = n
    BY <1>1, <2>1, <2>2
  <2>5. Has(s, n) /\ s.entries[n].id = m.id /\ s.entries[n].seq < Half
    BY <1>2, <1>3, <2>1, <2>2 DEF Denotes
  <2>6. \A x \in Names : Denotes(m.id, x) => x = n
    BY <2>1, <2>2, DenotesOne
  <2>7. IF s.entries[n].seq > m.seq
        THEN r = Ignored(s)
        ELSE TakenAt(s, t, n, m) /\ ~r.toSender /\ r.out = << m >>
    BY <1>1, <2>1, <2>2, <2>3, <2>4, <2>5, AssignmentEffect
  <2>8. CASE s.entries[n].seq > m.seq
    <3>1. \A x \in Names : Denotes(m.id, x) => s.entries[x].seq >= m.seq
      BY <1>2, <2>2, <2>6, <2>8
    <3> HIDE DEF s, t, r, Heard
    <3>2. QED
      BY <1>7, <2>2, <2>5, <2>7, <2>8, <3>1
  <2>9. CASE ~(s.entries[n].seq > m.seq)
    <3>1. TakenAt(s, t, n, m) /\ ~r.toSender /\ r.out = << m >>
      BY <2>7, <2>9
    <3>2. m.seq >= s.entries[n].seq
      BY <1>2, <2>2, <2>9
    <3> HIDE DEF s, t, r, Heard
    <3>3. QED
      BY <1>6, <2>1, <2>2, <2>5, <3>1, <3>2
  <2>10. QED
    BY <2>8, <2>9
<1>12. ASSUME GoodUpdate(w, m) PROVE Heard
  <2>1. PICK n \in Names : Denotes(m.id, n) /\ Wrote(w, n, m.seq, m.value)
    BY <1>12 DEF GoodUpdate
  <2>2. m \in UpdateMsg /\ m.type = "EntryUpdate"
    BY <1>12, MsgKinds DEF GoodUpdate
  <2>3. m.seq \in Nat /\ m.value # NoValue /\ m.id \in Nat /\ m.id # NoId
    BY <2>1, <2>2, MsgFields DEF SeqNums, Denotes
  <2>4. m.seq < Half
    BY <1>1, <2>1, <2>3, SmallWrites
  <2>5. Known(s, m.id) /\ NameOf(s, m.id) = n
    BY <1>1, <2>1, <2>3
  <2>6. Has(s, n) /\ s.entries[n].id = m.id /\ s.entries[n].seq < Half
    BY <1>2, <1>3, <2>1 DEF Denotes
  <2>7. \A x \in Names : Denotes(m.id, x) => x = n
    BY <2>1, DenotesOne
  <2>8. ~GoodRequest(w, m)
    BY <2>2 DEF GoodRequest
  <2>9. IF s.entries[n].seq >= m.seq
        THEN r = Ignored(s)
        ELSE TakenAt(s, t, n, m) /\ ~r.toSender /\ r.out = << m >>
    BY <1>1, <2>2, <2>4, <2>5, <2>6, UpdateEffect
  <2>10. CASE s.entries[n].seq >= m.seq
    <3>1. \A x \in Names : Denotes(m.id, x) => s.entries[x].seq >= m.seq
      BY <2>7, <2>10
    <3> HIDE DEF s, t, r, Heard
    <3>2. QED
      BY <1>7, <2>8, <2>9, <2>10, <3>1
  <2>11. CASE ~(s.entries[n].seq >= m.seq)
    <3>1. TakenAt(s, t, n, m) /\ ~r.toSender /\ r.out = << m >>
      BY <2>9, <2>11
    <3>2. m.seq >= s.entries[n].seq
      BY <1>2, <2>3, <2>11
    <3> HIDE DEF s, t, r, Heard
    <3>3. QED
      BY <1>6, <2>1, <2>2, <2>3, <2>6, <3>1, <3>2
  <2>12. QED
    BY <2>10, <2>11
<1>13. Heard
  BY <1>8, <1>9, <1>10, <1>11, <1>12
<1>14. QED
  BY <1>13

-----------------------------------------------------------------------------
(* One writer: the server receives *)

\* Nothing but the store of the server and the channels to the synchronized
\* clients changes, by what the message is answered with.
LEMMA HandlesState ==
    ASSUME TypeOK, NEW m \in ClientMsg, NEW from \in Clients,
           ServerHandles(m, from)
    PROVE  LET s == storage[Server]
               r == ProcessIncoming(s, m)
           IN  /\ storage'[Server] = r.store
               /\ \A d \in Clients : storage'[d] = storage[d]
               /\ r.out \in Seq(ServerMsg)
               /\ \A d \in Clients :
                     toClient'[d] = IF Synced(d) /\ (r.toSender \/ d # from)
                                    THEN toClient[d] \o r.out ELSE toClient[d]
<1> DEFINE s == storage[Server]
           r == ProcessIncoming(s, m)
<1>1. s \in Store /\ Server \in Nodes /\ Clients \subseteq Nodes /\ Server \notin Clients
  BY NTSyncAssumption DEF NTSyncAssumption, TypeOK, Nodes
<1>2. r.out \in Seq(ServerMsg)
  BY <1>1, ReceiveType, SeqOfEntryMsg DEF GoodResult
<1>3. \A d \in Clients : toClient[d] \in Seq(ServerMsg)
  BY DEF TypeOK
<1>4. CASE m = ClientHelloDone
  <2>1. r.store = s /\ r.out = << >>
    BY <1>4, HelloIgnored DEF Ignored, Result
  <2>2. storage' = storage /\ toClient' = toClient
    BY <1>4 DEF ServerHandles
  <2>3. \A d \in Clients : toClient[d] \o r.out = toClient[d]
    BY <1>3, <2>1
  <2>4. QED
    BY <1>2, <2>1, <2>2, <2>3
<1>5. CASE m # ClientHelloDone
  <2>1. /\ storage' = [storage EXCEPT ![Server] = r.store]
        /\ Broadcast(r.out, IF r.toSender THEN Server ELSE from)
    BY <1>5 DEF ServerHandles
  <2>2. storage'[Server] = r.store /\ \A d \in Clients : storage'[d] = storage[d]
    BY <1>1, <2>1 DEF TypeOK
  <2> HIDE DEF r
  <2>3. \A d \in Clients :
           toClient'[d] = IF Synced(d) /\ (r.toSender \/ d # from)
                          THEN toClient[d] \o r.out ELSE toClient[d]
    BY <1>1, <2>1 DEF Broadcast, Synced
  <2>4. QED
    BY <1>2, <2>2, <2>3 DEF r
<1>6. QED
  BY <1>4, <1>5

\* The state after the server has processed a message of a client, who has
\* joined by then.
LEMMA ServerReceiveState ==
    ASSUME IInv, NEW w, WriterInv(w), NEW c \in Clients, ServerReceive(c)
    PROVE  LET s == storage[Server]
               q == toServer[c]
               m == Head(q)
               r == ProcessIncoming(s, m)
           IN  /\ storage'[Server] = r.store
               /\ \A d \in Clients : storage'[d] = storage[d]
               /\ r.out \in Seq(ServerMsg)
               /\ \A d \in Clients :
                     toClient'[d] = IF Synced(d) /\ (r.toSender \/ d # c)
                                    THEN toClient[d] \o r.out ELSE toClient[d]
               /\ UNCHANGED << client, link, old, ops >>
               /\ \A d \in Clients : Synced(d)' <=> Synced(d)
               /\ \A d \in Clients \ {c} :
                     toServer'[d] = toServer[d] /\ session'[d] = session[d]
               /\ Synced(c) /\ Joined(c) /\ Synced(c)' /\ Joined(c)'
               /\ toServer'[c] = Tail(q) /\ m \in ClientMsg /\ m \in Range(q)
               /\ q \in Seq(ClientMsg)
               /\ Range(q) = {m} \cup Range(Tail(q))
               /\ Range(q) \subseteq ClientMsg
<1> DEFINE s == storage[Server]
           q == toServer[c]
           m == Head(q)
           r == ProcessIncoming(s, m)
<1>1. TypeOK /\ q \in Seq(ClientMsg) /\ Greets(c)
  BY DEF IInv, TypeOK, WriterInv
<1>2. q # << >> /\ session[c] \in {"Active", "Synchronized"}
  BY DEF ServerReceive, Readable
<1>3. /\ Range(q) = {m} \cup Range(Tail(q)) /\ m \in Range(q)
      /\ Range(q) \subseteq ClientMsg /\ m \in ClientMsg
  BY <1>1, <1>2, Messages
<1>4. link[c] = "up"
  <2>1. link[c] \in {"up", "down"}
    BY <1>1 DEF TypeOK
  <2>2. QED
    BY <1>1, <1>2, <2>1 DEF Greets
<1>5. Synced(c)
  BY <1>2, <1>4 DEF Synced
<1>6. Joined(c)
  <2>1. client[c] \in {"Dead", "Handshake", "Active"}
    BY <1>1 DEF TypeOK
  <2>2. QED
    BY <1>1, <1>2, <1>4, <1>5, <2>1 DEF Greets, Joined
<1>7. /\ toServer'[c] = Tail(q)
      /\ session'[c] \in {"Active", "Synchronized"}
      /\ \A d \in Clients \ {c} :
            toServer'[d] = toServer[d] /\ session'[d] = session[d]
      /\ UNCHANGED << client, link, old, ops >>
      /\ ServerHandles(m, c)
  BY <1>1, <1>2 DEF ServerReceive, StateAfter, TypeOK
<1>8. Synced(c)' /\ Joined(c)'
  BY <1>4, <1>6, <1>7 DEF Synced, Joined
<1>9. \A d \in Clients : Synced(d)' <=> Synced(d)
  <2>1. \A d \in Clients \ {c} : Synced(d)' <=> Synced(d)
    BY <1>7 DEF Synced
  <2>2. QED
    BY <1>5, <1>8, <2>1
<1> HIDE DEF s, r, m
<1>10. /\ storage'[Server] = r.store
       /\ \A d \in Clients : storage'[d] = storage[d]
       /\ r.out \in Seq(ServerMsg)
       /\ \A d \in Clients :
             toClient'[d] = IF Synced(d) /\ (r.toSender \/ d # c)
                            THEN toClient[d] \o r.out ELSE toClient[d]
  BY <1>1, <1>3, <1>7, HandlesState DEF s, r
<1>11. QED
  BY <1>1, <1>3, <1>5, <1>6, <1>7, <1>8, <1>9, <1>10 DEF s, r, m

\* What the server queues for those it has synchronized disturbs no handshake.
LEMMA GreetsOn ==
    ASSUME TypeOK, NEW d \in Clients, Greets(d), NEW out \in Seq(ServerMsg),
           \A m \in Range(out) : ~IsServerHello(m),
           client'[d] = client[d], link'[d] = link[d], old'[d] = old[d],
           Synced(d)' <=> Synced(d), session'[d] = session[d] \/ Synced(d),
           \/ toServer'[d] = toServer[d]
           \/ Joined(d),
           \/ toClient'[d] = toClient[d]
           \/ Synced(d) /\ toClient'[d] = toClient[d] \o out
    PROVE  Greets(d)'
<1> DEFINE q == toClient[d]
           r == toClient'[d]
<1>1. q \in Seq(ServerMsg)
  BY DEF TypeOK
<1>2. /\ q # << >> => r # << >> /\ r[1] = q[1]
      /\ r = q \/ Synced(d)
      /\ \A i \in 1 .. Len(r) : \/ i \in 1 .. Len(q) /\ r[i] = q[i]
                                \/ ~IsServerHello(r[i])
  <2>1. CASE r = q
    BY <2>1
  <2>2. CASE Synced(d) /\ r = q \o out
    <3>1. /\ Len(q) \in Nat /\ Len(out) \in Nat /\ Len(r) = Len(q) + Len(out)
          /\ \A k \in 1 .. Len(q) : r[k] = q[k]
          /\ \A k \in 1 .. Len(r) : k > Len(q) => r[k] = out[k - Len(q)]
      BY <1>1, <2>2
    <3>2. ASSUME NEW i \in 1 .. Len(r)
          PROVE  (i \in 1 .. Len(q) /\ r[i] = q[i]) \/ ~IsServerHello(r[i])
      <4>1. CASE i <= Len(q)
        BY <3>1, <4>1
      <4>2. CASE i > Len(q)
        <5>1. i - Len(q) \in 1 .. Len(out) /\ r[i] = out[i - Len(q)]
          BY <3>1, <4>2
        <5>2. QED
          BY <5>1, InRange
      <4>3. QED
        BY <3>1, <4>1, <4>2
    <3>3. q # << >> => Len(q) >= 1
      BY <1>1, <3>1
    <3>4. ASSUME q # << >> PROVE r # << >> /\ r[1] = q[1]
      <4>1. 1 \in 1 .. Len(q) /\ Len(r) >= 1
        BY <3>1, <3>3, <3>4
      <4>2. r # << >>
        BY <4>1
      <4>3. QED
        BY <3>1, <4>1, <4>2
    <3>5. QED
      BY <2>2, <3>2, <3>4
  <2>3. QED
    BY <2>1, <2>2
<1>3. \A i \in 1 .. Len(q) :
         link[d] = "up" /\ IsServerHello(q[i]) => i = 1 /\ client[d] = "Handshake"
  BY DEF Greets
<1>4. \A i \in 1 .. Len(r) :
         link[d] = "up" /\ IsServerHello(r[i]) => i = 1 /\ client[d] = "Handshake"
  BY <1>2, <1>3
<1>5. \A i \in 1 .. Len(toClient'[d]) :
         (link[d] = "up" /\ IsServerHello(toClient[d][i]) =>
            i = 1 /\ client[d] = "Handshake")'
  BY <1>4 DEF IsServerHello
<1>6. old'[d] = NoOld
  BY DEF Greets
<1>7. link'[d] = "down" => session'[d] = "None" /\ toServer'[d] = << >>
  BY DEF Greets, Synced, Joined
<1>8. link'[d] = "up" => session'[d] # "None" /\ client'[d] # "Dead"
  BY DEF Greets, Synced
<1>9. link'[d] = "up" /\ session'[d] = "Handshake" =>
          /\ client'[d] = "Handshake"
          /\ toServer'[d] = << ClientHello >> /\ toClient'[d] = << >>
  BY <1>2 DEF Greets, Synced, Joined
<1>10. Synced(d)' /\ client'[d] = "Handshake" =>
          /\ toServer'[d] = << >>
          /\ r # << >> /\ IsServerHello(r[1])
  BY <1>2 DEF Greets, Joined
<1>11. Synced(d)' /\ client'[d] = "Handshake" =>
          toServer'[d] = << >> /\ toClient'[d] # << >> /\ IsServerHello(toClient[d][1])'
  BY <1>10 DEF IsServerHello
<1>12. QED
  BY <1>5, <1>6, <1>7, <1>8, <1>9, <1>11 DEF Greets

\* What the server hears from the others is that they are there.
LEMMA ReaderHeardFollows ==
    ASSUME IInv, IInv', IdInv, IdInv', NEW w, SoleWriter(w), WriterInv(w),
           NEW c \in Clients \ {w}, ServerReceive(c)
    PROVE  WriterInv(w)'
<1> DEFINE m == Head(toServer[c])
           r == ProcessIncoming(storage[Server], m)
<1>1. w \in Clients /\ TypeOK /\ TypeOK' /\ c # w
  BY DEF SoleWriter, IInv
<1>2. Reader(w, c) /\ Greets(c) /\ Live(c)
  BY <1>1 DEF WriterInv
<1>3. /\ storage'[Server] = r.store
      /\ \A d \in Clients : storage'[d] = storage[d]
      /\ \A d \in Clients :
            toClient'[d] = IF Synced(d) /\ (r.toSender \/ d # c)
                           THEN toClient[d] \o r.out ELSE toClient[d]
      /\ UNCHANGED << client, link, old, ops >>
      /\ \A d \in Clients : Synced(d)' <=> Synced(d)
      /\ \A d \in Clients \ {c} :
            toServer'[d] = toServer[d] /\ session'[d] = session[d]
      /\ Synced(c) /\ Joined(c) /\ Synced(c)' /\ Joined(c)'
      /\ m \in Range(toServer[c])
      /\ Range(toServer[c]) = {m} \cup Range(toServer'[c])
  BY ServerReceiveState
<1>4. m \in {ClientHello, ClientHelloDone}
  BY <1>2, <1>3 DEF Reader, Listens
<1>5. r.store = storage[Server] /\ r.out = << >>
  BY <1>4, HelloIgnored DEF Ignored, Result
<1>6. << >> \in Seq(ServerMsg) /\ Range(<< >>) = {}
      /\ \A d \in Clients : toClient[d] \in Seq(ServerMsg)
                            /\ toClient[d] \o << >> = toClient[d]
  BY <1>1 DEF TypeOK, Range
<1>7. storage'[Server] = storage[Server]
      /\ \A d \in Clients : toClient'[d] = toClient[d]
  BY <1>3, <1>5, <1>6
<1> HIDE DEF m, r
<1>8. WriterGrows(w)
  BY <1>1, <1>3, SameWriterGrows
<1>9. ServerGrows /\ \A n \in Names : /\ E(Server, n)' = E(Server, n)
                                      /\ Exists(Server, n)' <=> Exists(Server, n)
  <2>1. \A n \in Names : E(Server, n).seq \in Nat
    BY <1>1, EntrySeqs DEF Nodes
  <2>2. QED
    BY <1>7, <2>1 DEF ServerGrows, E, Exists
<1>10. Greets(c)'
  BY <1>1, <1>2, <1>3, <1>6, <1>7, GreetsOn
<1>11. Live(c)'
  BY <1>2, <1>3 DEF Live, Exists, E
<1>12. Reader(w, c)'
  <2>1. Passable(w, << >>)'
    BY <1>6 DEF Passable
  <2>2. toClient'[c] = toClient[c] \o << >>
    BY <1>6, <1>7
  <2>3. storage'[c] = storage[c] /\ client'[c] = client[c] /\ link'[c] = link[c]
        /\ Range(toServer'[c]) \subseteq Range(toServer[c])
    BY <1>3
  <2>4. QED
    BY <1>1, <1>2, <1>3, <1>6, <1>8, <1>9, <2>1, <2>2, <2>3, ReaderKept
<1>13. \A d \in Clients \ {c} :
              /\ storage'[d] = storage[d] /\ client'[d] = client[d]
              /\ session'[d] = session[d] /\ link'[d] = link[d]
              /\ toServer'[d] = toServer[d] /\ toClient'[d] = toClient[d]
              /\ old'[d] = old[d]
  BY <1>3, <1>7
<1>14. QED
  BY <1>1, <1>3, <1>7, <1>8, <1>10, <1>11, <1>12, <1>13, ConnectionStep

\* What the server hears from the writer it takes, keeps and passes on.
LEMMA WriterHeardFollows ==
    ASSUME IInv, IInv', IdInv, IdInv', NEW w, SoleWriter(w), WriterInv(w),
           ServerReceive(w)
    PROVE  WriterInv(w)'
<1> DEFINE s == storage[Server]
           m == Head(toServer[w])
           r == ProcessIncoming(s, m)
           q == toClient[w]
<1>0. PICK out, t : out = r.out /\ t = r.store
  OBVIOUS
<1>1. w \in Clients /\ w \in Nodes /\ Server \in Nodes /\ TypeOK /\ TypeOK'
  BY DEF SoleWriter, IInv, Nodes
<1>2. /\ Writer(w) /\ WriterOwns(w) /\ FromWriter(w) /\ ToWriter(w)
      /\ ReachesServer(w) /\ ServerFollows(w)
      /\ \A d \in Clients : Greets(d) /\ Live(d)
      /\ \A d \in Clients \ {w} : Reader(w, d)
  BY <1>1 DEF WriterInv, Writer
<1>3. /\ storage'[Server] = t
      /\ \A d \in Clients : storage'[d] = storage[d]
      /\ out \in Seq(ServerMsg)
      /\ \A d \in Clients :
            toClient'[d] = IF Synced(d) /\ (r.toSender \/ d # w)
                           THEN toClient[d] \o out ELSE toClient[d]
      /\ UNCHANGED << client, link, old, ops >>
      /\ \A d \in Clients : Synced(d)' <=> Synced(d)
      /\ \A d \in Clients \ {w} :
            toServer'[d] = toServer[d] /\ session'[d] = session[d]
      /\ Synced(w) /\ Joined(w) /\ Synced(w)' /\ Joined(w)'
      /\ m \in ClientMsg /\ m \in Range(toServer[w])
      /\ Range(toServer[w]) = {m} \cup Range(toServer'[w])
      /\ Range(toServer[w]) \subseteq ClientMsg
  BY <1>0, <1>1, ServerReceiveState
<1>4. \/ m \in {ClientHello, ClientHelloDone}
      \/ GoodRequest(w, m) \/ GoodAssign(w, m) \/ GoodUpdate(w, m)
      \/ m.type = "FlagsUpdate"
  BY <1>2, <1>3 DEF FromWriter
<1>5. /\ \A x \in Names : Has(s, x) =>
            /\ Has(t, x) /\ t.entries[x].id = s.entries[x].id
            /\ t.entries[x].seq >= s.entries[x].seq
      /\ \A x \in Names : Has(t, x) =>
            Wrote(w, x, t.entries[x].seq, t.entries[x].value)
      /\ \A x \in Names : Has(t, x) =>
            \/ Has(s, x) /\ t.entries[x].seq = s.entries[x].seq
            \/ \E y \in Range(out) :
                  /\ y.seq = t.entries[x].seq /\ IsAbout(t, y, x)
                  /\ \/ y.type = "EntryAssign" /\ y.name = x
                     \/ y.type = "EntryUpdate"
      /\ \A y \in Range(out) :
            \/ y.type = "FlagsUpdate"
            \/ \E x \in Names :
                  /\ IsAbout(t, y, x) /\ Wrote(w, x, y.seq, y.value)
                  /\ \/ y.type = "EntryAssign" /\ y.name = x
                     \/ y.type = "EntryUpdate" /\ Has(s, x)
      /\ r.toSender => \A y \in Range(out) :
            y.type = "EntryAssign" /\ y.seq = t.entries[y.name].seq
      /\ \A x \in Names : Has(t, x) /\ ~Has(s, x) =>
            /\ r.toSender
            /\ \E y \in Range(out) : y.type = "EntryAssign" /\ y.name = x
      /\ Len(t.idmap) <= NoId
      /\ \A k \in 1 .. Len(t.idmap) : t.idmap[k] # NoName
      /\ GoodRequest(w, m) => Has(t, m.name)
      /\ m.type \in {"EntryAssign", "EntryUpdate"} =>
            \A x \in Names : Denotes(m.id, x) => t.entries[x].seq >= m.seq
  <2> HIDE DEF m
  <2>1. QED
    BY <1>0, <1>2, <1>3, <1>4, ServerHears, SMTT(20)
<1> HIDE DEF s, m, r
\* what that means after the step
<1>6. /\ \A x \in Names : /\ E(Server, x) = s.entries[x]
                          /\ E(Server, x)' = t.entries[x]
                          /\ Exists(Server, x) <=> Has(s, x)
                          /\ Exists(Server, x)' <=> Has(t, x)
                          /\ E(Server, x).seq \in Nat /\ E(Server, x)'.seq \in Nat
      /\ \A d \in Clients, x \in Names :
            E(d, x)' = E(d, x) /\ (Exists(d, x)' <=> Exists(d, x))
  <2>1. \A x \in Names : E(Server, x).seq \in Nat /\ E(Server, x)'.seq \in Nat
    <3>1. storage'[Server] \in Store
      BY <1>1 DEF TypeOK
    <3>2. QED
      BY <1>1, <3>1, EntrySeqs, StoreFields DEF E, SeqNums
  <2>2. QED
    BY <1>3, <2>1 DEF E, Exists, s
<1>7. ServerGrows /\ WriterGrows(w)
  BY <1>1, <1>3, <1>5, <1>6, SameWriterGrows DEF ServerGrows
<1>8. \A x \in Names : \A seq, v : Wrote(w, x, seq, v) => Wrote(w, x, seq, v)'
  BY <1>1, <1>6 DEF Wrote
<1>9. \A x \in Names : \A id, y :
         y.id = id => (IsAbout(t, y, x) <=> Denotes(id, x)')
  BY <1>6 DEF IsAbout, Denotes
<1>10. Passable(w, out)'
  <2>1. ASSUME NEW y \in Range(out), y.type # "FlagsUpdate"
        PROVE  GoodAssign(w, y)' \/ GoodUpdate(w, y)'
    <3>1. PICK x \in Names :
             /\ IsAbout(t, y, x) /\ Wrote(w, x, y.seq, y.value)
             /\ \/ y.type = "EntryAssign" /\ y.name = x
                \/ y.type = "EntryUpdate" /\ Has(s, x)
      BY <1>5, <2>1
    <3>2. PICK id, seq, v : id = y.id /\ seq = y.seq /\ v = y.value
      OBVIOUS
    <3>3. Denotes(id, x)' /\ Wrote(w, x, seq, v)'
      BY <1>8, <1>9, <3>1, <3>2
    <3>4. QED
      BY <3>1, <3>2, <3>3 DEF GoodAssign, GoodUpdate
  <2>2. QED
    BY <2>1 DEF Passable
<1>11. \A y \in Range(out) : ~IsServerHello(y)
  BY <1>5 DEF IsServerHello
<1>12. \A n \in Names : Exists(Server, n)' =>
          \/ Exists(Server, n) /\ E(Server, n)'.seq = E(Server, n).seq
          \/ \E y \in Range(out) : Carries(y, n, E(Server, n).seq)'
  <2> SUFFICES ASSUME NEW n \in Names, Exists(Server, n)',
                      ~(Exists(Server, n) /\ E(Server, n)'.seq = E(Server, n).seq)
               PROVE  \E y \in Range(out) : Carries(y, n, E(Server, n).seq)'
    OBVIOUS
  <2>1. PICK y \in Range(out) :
           /\ y.seq = t.entries[n].seq /\ IsAbout(t, y, n)
           /\ \/ y.type = "EntryAssign" /\ y.name = n
              \/ y.type = "EntryUpdate"
    BY <1>5, <1>6
  <2>2. PICK id : id = y.id
    OBVIOUS
  <2>3. y.seq >= E(Server, n)'.seq /\ Denotes(id, n)'
    BY <1>6, <1>9, <2>1, <2>2
  <2>4. QED
    BY <2>1, <2>2, <2>3 DEF Carries
<1>13. \A y \in Range(out), n \in Names :
          y.type = "EntryUpdate" /\ Denotes(y.id, n)' => Exists(Server, n)
  <2> SUFFICES ASSUME NEW y \in Range(out), NEW n \in Names,
                      y.type = "EntryUpdate", Denotes(y.id, n)'
               PROVE  Exists(Server, n)
    OBVIOUS
  <2>1. PICK x \in Names : IsAbout(t, y, x) /\ Has(s, x)
    BY <1>5
  <2>2. PICK id : id = y.id
    OBVIOUS
  <2>3. Denotes(id, x)' /\ Denotes(id, n)'
    BY <1>9, <2>1, <2>2 DEF Denotes
  <2>4. x = n
    BY <2>3, DenotesOnePrime
  <2>5. QED
    BY <1>6, <2>1, <2>4
<1>14. ASSUME NEW d \in Clients \ {w} PROVE Reader(w, d)'
  <2>1. Synced(d) => toClient'[d] = toClient[d] \o out
    BY <1>3
  <2>2. storage'[d] = storage[d] /\ client'[d] = client[d] /\ link'[d] = link[d]
        /\ Range(toServer'[d]) \subseteq Range(toServer[d])
    BY <1>3
  <2>3. Reader(w, d) /\ (Synced(d)' => Synced(d))
    BY <1>2, <1>3
  <2>4. QED
    BY <1>1, <1>3, <1>7, <1>10, <1>12, <1>13, <2>1, <2>2, <2>3, ReaderKept
<1>15. ASSUME NEW d \in Clients PROVE Greets(d)' /\ Live(d)'
  <2>1. \/ toClient'[d] = toClient[d]
        \/ Synced(d) /\ toClient'[d] = toClient[d] \o out
    BY <1>3
  <2>2. /\ client'[d] = client[d] /\ link'[d] = link[d] /\ old'[d] = old[d]
        /\ Synced(d)' <=> Synced(d)
        /\ session'[d] = session[d] \/ Synced(d)
        /\ toServer'[d] = toServer[d] \/ Joined(d)
    BY <1>3
  <2>3. Greets(d)'
    BY <1>1, <1>2, <1>3, <1>11, <2>1, <2>2, GreetsOn
  <2>4. Live(d)'
    BY <1>2, <1>3, <2>2 DEF Live, Exists, E, Joined
  <2>5. QED
    BY <2>3, <2>4
<1>16. WriterOwns(w)'
  BY <1>1, <1>2, <1>3, <1>6 DEF WriterOwns
<1>17. \A y \in Range(toServer'[w]) : y \in Range(toServer[w]) /\ y \in ClientMsg
  BY <1>3
<1>18. FromWriter(w)'
  <2> SUFFICES ASSUME NEW y \in Range(toServer'[w])
               PROVE  (\/ y \in {ClientHello, ClientHelloDone}
                       \/ GoodRequest(w, y) \/ GoodAssign(w, y) \/ GoodUpdate(w, y)
                       \/ y.type = "FlagsUpdate")'
    BY DEF FromWriter
  <2>1. \/ y \in {ClientHello, ClientHelloDone}
        \/ GoodRequest(w, y) \/ GoodAssign(w, y) \/ GoodUpdate(w, y)
        \/ y.type = "FlagsUpdate"
    BY <1>2, <1>17 DEF FromWriter
  <2>2. QED
    BY <1>1, <1>7, <1>17, <2>1, GoodStays
<1>19. /\ \A y \in Range(q) : y \in Range(toClient'[w]) /\ y \in ServerMsg
       /\ \A y \in Range(toClient'[w]) :
             y \in Range(q) \/ (r.toSender /\ y \in Range(out))
       /\ r.toSender => \A y \in Range(out) : y \in Range(toClient'[w])
  <2>1. q \in Seq(ServerMsg)
    BY <1>1 DEF TypeOK
  <2>2. Range(q \o out) = Range(q) \cup Range(out) /\ Range(q) \subseteq ServerMsg
    BY <1>3, <2>1, Messages
  <2>3. QED
    BY <1>1, <1>3, <2>2
<1>20. ToWriter(w)'
  <2>1. ASSUME NEW y \in Range(q), Answer(w, y) PROVE Answer(w, y)'
    <3>1. y \in AssignMsg
      BY <1>19, <2>1, MsgKinds DEF Answer
    <3>2. y.name \in Names /\ y.seq \in Nat
      BY <3>1, MsgFields DEF SeqNums
    <3>3. Wrote(w, y.name, y.seq, y.value)'
      BY <1>8, <2>1, <3>2 DEF Answer
    <3>4. link[w] = "up" /\ Denotes(y.id, y.name) /\ y.seq <= E(Server, y.name).seq
      BY <1>3, <2>1 DEF Answer, Joined
    <3>5. Denotes(y.id, y.name)'
      BY <1>7, <3>2, <3>4, DenotesStays
    <3>6. E(Server, y.name)'.seq >= E(Server, y.name).seq
      BY <1>7, <3>2, <3>4 DEF ServerGrows, Denotes
    <3>7. y.seq <= E(Server, y.name)'.seq
      BY <1>6, <3>2, <3>4, <3>6
    <3>8. QED
      BY <2>1, <3>3, <3>5, <3>7 DEF Answer
  <2>2. ASSUME NEW y \in Range(out), r.toSender PROVE Answer(w, y)'
    <3>1. y.type = "EntryAssign" /\ y.seq = t.entries[y.name].seq
      BY <1>5, <2>2
    <3>2. y.name \in Names /\ IsAbout(t, y, y.name) /\ Wrote(w, y.name, y.seq, y.value)
      BY <1>5, <2>2, <3>1
    <3>3. PICK id, x, seq, v : id = y.id /\ x = y.name /\ seq = y.seq /\ v = y.value
      OBVIOUS
    <3>4. Denotes(id, x)' /\ Wrote(w, x, seq, v)'
      BY <1>8, <1>9, <3>2, <3>3
    <3>5. y.seq <= E(Server, x)'.seq /\ y.id # NoId
      BY <1>6, <3>1, <3>2, <3>3 DEF IsAbout
    <3>6. QED
      BY <3>1, <3>3, <3>4, <3>5 DEF Answer
  <2>3. QED
    BY <1>2, <1>19, <2>1, <2>2 DEF ToWriter, IsServerHello
<1>21. ReachesServer(w)'
  <2> SUFFICES ASSUME NEW x \in Names, Exists(w, x)'
               PROVE  OnItsWay(w, x)'
    BY DEF ReachesServer
  <2>1. Exists(w, x) /\ OnItsWay(w, x) /\ E(w, x)' = E(w, x)
    BY <1>1, <1>2, <1>3, <1>6 DEF ReachesServer
  <2>2. CASE E(w, x).id = NoId /\ Exists(Server, x)
    <3>1. PICK y \in Range(q) : y.type = "EntryAssign" /\ y.name = x
      BY <2>1, <2>2 DEF OnItsWay
    <3>2. Exists(Server, x)' /\ y \in Range(toClient'[w])
      BY <1>5, <1>6, <1>19, <2>2
    <3>3. QED
      BY <2>1, <2>2, <3>1, <3>2 DEF OnItsWay
  <2>3. CASE E(w, x).id = NoId /\ ~Exists(Server, x) /\ Exists(Server, x)'
    <3>1. r.toSender
          /\ \E y \in Range(out) : y.type = "EntryAssign" /\ y.name = x
      BY <1>5, <1>6, <2>3
    <3>2. \E y \in Range(toClient'[w]) : y.type = "EntryAssign" /\ y.name = x
      BY <1>19, <3>1
    <3>3. QED
      BY <2>1, <2>3, <3>2 DEF OnItsWay
  <2>4. CASE E(w, x).id = NoId /\ ~Exists(Server, x) /\ ~Exists(Server, x)'
    <3>1. PICK y \in Range(toServer[w]) : GoodRequest(w, y) /\ y.name = x
      BY <2>1, <2>4 DEF OnItsWay
    <3>2. y # m
      BY <1>5, <1>6, <2>4, <3>1
    <3>3. y \in Range(toServer'[w]) /\ y \in ClientMsg
      BY <1>3, <3>1, <3>2
    <3>4. GoodRequest(w, y)'
      BY <1>1, <1>7, <3>1, <3>3, GoodStays
    <3>5. QED
      BY <2>1, <2>4, <3>1, <3>3, <3>4 DEF OnItsWay
  <2>5. CASE E(w, x).id # NoId
    <3>1. Denotes(E(w, x).id, x)
      BY <1>1, <1>2, <1>3, <2>5, ClientIds
    <3>2. E(Server, x)'.seq >= E(Server, x).seq /\ E(w, x).seq \in Nat
      BY <1>1, <1>5, <1>6, <3>1, EntrySeqs DEF Denotes
    <3>3. CASE E(Server, x).seq >= E(w, x).seq
      <4>1. E(Server, x)'.seq >= E(w, x)'.seq
        BY <1>6, <2>1, <3>2, <3>3
      <4>2. QED
        BY <2>1, <2>5, <4>1 DEF OnItsWay
    <3>4. CASE \E y \in Range(toServer[w]) :
                  /\ y.type \in {"EntryAssign", "EntryUpdate"}
                  /\ y.id = E(w, x).id /\ y.seq >= E(w, x).seq
      <4>1. PICK y \in Range(toServer[w]) :
                  /\ y.type \in {"EntryAssign", "EntryUpdate"}
                  /\ y.id = E(w, x).id /\ y.seq >= E(w, x).seq
        BY <3>4
      <4>2. CASE y = m
        <5>1. E(Server, x)'.seq >= m.seq
          BY <1>5, <1>6, <3>1, <4>1, <4>2
        <5>2. m.seq \in Nat
          BY <1>3, <4>1, <4>2, MsgKinds, MsgFields DEF SeqNums
        <5>3. E(Server, x)'.seq >= E(w, x)'.seq
          BY <1>6, <2>1, <3>2, <4>1, <4>2, <5>1, <5>2
        <5>4. QED
          BY <2>1, <2>5, <5>3 DEF OnItsWay
      <4>3. CASE y # m
        <5>1. y \in Range(toServer'[w])
          BY <1>3, <4>1, <4>3
        <5>2. QED
          BY <2>1, <2>5, <4>1, <5>1 DEF OnItsWay
      <4>4. QED
        BY <4>2, <4>3
    <3>5. QED
      BY <2>1, <2>5, <3>3, <3>4 DEF OnItsWay
  <2>6. QED
    BY <2>2, <2>3, <2>4, <2>5
<1>22. ServerFollows(w)'
  <2>1. \A n \in Names : (Exists(Server, n) =>
            Wrote(w, n, E(Server, n).seq, E(Server, n).value))'
    <3> SUFFICES ASSUME NEW n \in Names, Exists(Server, n)'
                 PROVE  Wrote(w, n, E(Server, n).seq, E(Server, n).value)'
      OBVIOUS
    <3>1. Wrote(w, n, t.entries[n].seq, t.entries[n].value)
      BY <1>5, <1>6
    <3>2. QED
      BY <1>1, <1>6, <3>1 DEF Wrote
  <2>2. QED
    BY <1>3, <1>5, <2>1 DEF ServerFollows
<1>23. QED
  BY <1>14, <1>15, <1>16, <1>18, <1>20, <1>21, <1>22 DEF WriterInv, Writer

-----------------------------------------------------------------------------
(* One writer: the theorems *)

\* At first nobody has said anything.
LEMMA WriterInvInit ==
    ASSUME NEW w, SoleWriter(w), Init
    PROVE  WriterInv(w)
<1>1. w \in Clients /\ MaxOps \in Nat /\ Clients \subseteq Nodes /\ Server \in Nodes
  BY NTSyncAssumption DEF NTSyncAssumption, SoleWriter, Nodes
<1>2. /\ \A p \in Nodes : storage[p].idmap = << >>
      /\ \A p \in Nodes, n \in Names : E(p, n) = NewEntry /\ ~Exists(p, n)
  BY DEF Init, NewStore, NewEntry, E, Exists, Has
<1>3. NewEntry.seq = 0 /\ ~NewEntry.localWrite
  BY DEF NewEntry
<1>4. \A d \in Clients : /\ link[d] = "down" /\ client[d] = "Dead"
                         /\ session[d] = "None" /\ old[d] = NoOld
                         /\ toServer[d] = << >> /\ toClient[d] = << >>
                         /\ ~Synced(d) /\ ~Joined(d)
                         /\ Range(toServer[d]) = {} /\ Range(toClient[d]) = {}
  BY DEF Init, Synced, Joined, Range
<1>5. \A d \in Clients : Greets(d) /\ Live(d)
  BY <1>4 DEF Greets, Live
<1>6. \A d \in Clients : Reader(w, d)
  BY <1>1, <1>2, <1>3, <1>4 DEF Reader, Listens, ToReader, ReaderFollows,
     ReachesReader, AssignedFirst
<1>7. Writer(w)
  <2>1. ops = 0
    BY DEF Init
  <2>2. WriterOwns(w)
    BY <1>1, <1>2, <1>3, <2>1 DEF WriterOwns
  <2>3. QED
    BY <1>1, <1>4, <2>2 DEF Writer, FromWriter, ToWriter, ReachesServer
<1>8. ServerFollows(w)
  BY <1>1, <1>2, StorageAssumption DEF ServerFollows, StorageAssumption
<1>9. QED
  BY <1>5, <1>6, <1>7, <1>8 DEF WriterInv

\* Every step keeps it.
LEMMA WriterInvStep ==
    ASSUME IInv, IdInv, NEW w, SoleWriter(w), WriterInv(w), [Next]_vars
    PROVE  WriterInv(w)'
<1>1. IInv' /\ IdInv'
  BY NextSafe, NextKeepsIds DEF SafeStep, IInv
<1>2. w \in Clients /\ w \in Nodes /\ TypeOK /\ TypeOK'
  BY <1>1 DEF SoleWriter, IInv, Nodes
<1>3. ASSUME NEW p \in Nodes, LocalOp(p) PROVE WriterInv(w)'
  <2>1. p = w
    BY <1>2, <1>3, RuledOut
  <2>2. QED
    BY <1>1, <1>3, <2>1, LocalOpFollows
<1>4. ASSUME NEW c \in Clients, ProtocolStep(c) PROVE WriterInv(w)'
  <2>1. ~ServerReceiveOld(c) /\ ~ServerNotices(c) /\ ~ServerNoticesOld(c)
    BY RuledOut
  <2>2. CASE Connect(c)
    BY <1>1, <2>2, ConnectFollows
  <2>3. CASE SendSnapshot(c)
    BY <1>1, <2>3, SendSnapshotFollows
  <2>4. CASE ApplySnapshot(c)
    BY <1>1, <2>4, ReaderAppliesFollows, WriterAppliesFollows
  <2>5. CASE ServerReceive(c)
    BY <1>1, <2>5, ReaderHeardFollows, WriterHeardFollows
  <2>6. CASE ClientReceive(c)
    BY <1>1, <2>6, ReaderReceivesFollows, WriterReceivesFollows
  <2>7. CASE ClientNotices(c)
    BY <1>1, <2>7, ClientNoticesFollows
  <2>8. QED
    BY <1>4, <2>1, <2>2, <2>3, <2>4, <2>5, <2>6, <2>7 DEF ProtocolStep
<1>5. ASSUME NEW c \in Clients, Break(c) PROVE WriterInv(w)'
  BY <1>5, RuledOut
<1>6. CASE ServerRestart
  BY <1>1, <1>6, ServerRestartFollows
<1>7. CASE UNCHANGED vars
  <2>1. UNCHANGED << storage, client, session, link, toServer, toClient, old, ops >>
    BY <1>7 DEF vars
  <2>2. Writer(w) /\ Greets(w) /\ Live(w)
    BY <1>2 DEF WriterInv
  <2>3. Writer(w)'
    BY <1>2, <2>1, <2>2, WriterSame
  <2>4. Greets(w)' /\ Live(w)'
    BY <2>1, <2>2 DEF Greets, Live, Synced, Joined, Exists, E, IsServerHello
  <2>5. WriterGrows(w)
    BY <1>2, <2>1, SameWriterGrows
  <2>6. Joined(w) => Joined(w)'
    BY <2>1 DEF Joined
  <2>7. QED
    BY <1>1, <1>2, <2>1, <2>3, <2>4, <2>5, <2>6, ConnectionStep
<1>8. QED
  BY <1>3, <1>4, <1>5, <1>6, <1>7 DEF Next

\* Where one client alone writes, its last value of every entry is on the
\* server or on its way there, and the server's value is at every client or on
\* its way there.
THEOREM WriterInvariance ==
    ASSUME NEW w, SoleWriter(w)
    PROVE  Spec => []WriterInv(w)
<1>1. Init => WriterInv(w)
  BY WriterInvInit
<1>2. IInv /\ IdInv /\ WriterInv(w) /\ [Next]_vars => WriterInv(w)'
  BY WriterInvStep
<1>3. QED
  BY <1>1, <1>2, Invariance, IdInvariance, PTL DEF Spec

\* When nothing is on its way, the values are there.
LEMMA AgreeWhenQuiet ==
    ASSUME IInv, IdInv, NEW w, SoleWriter(w), WriterInv(w)
    PROVE  AllAgree
<1> SUFFICES ASSUME Quiescent, NEW c \in Clients, NEW n \in Names
             PROVE  E(c, n).value = E(Server, n).value
  BY DEF AllAgree
<1>1. w \in Clients /\ TypeOK /\ w \in Nodes /\ c \in Nodes /\ Server \in Nodes
  BY DEF SoleWriter, IInv, Nodes
<1>2. \A d \in Clients : /\ Synced(d) /\ Joined(d)
                         /\ Range(toServer[d]) = {} /\ Range(toClient[d]) = {}
  BY DEF Quiescent, Synced, Joined, Range
<1>3. ReachesServer(w) /\ ServerFollows(w)
  BY <1>1 DEF WriterInv, Writer
<1>4. c # w => ReaderFollows(w, c) /\ ReachesReader(c)
  BY DEF WriterInv, Reader
<1>5. /\ E(w, n).seq \in Nat /\ E(c, n).seq \in Nat /\ E(Server, n).seq \in Nat
      /\ \A p \in {w, c, Server} : Exists(p, n) <=> E(p, n).value # NoValue
  BY <1>1, EntrySeqs
<1>6. \A d \in Clients : E(d, n).id # NoId => Exists(Server, n)
  <2>1. \A d \in Clients : E(d, n).id # NoId => Denotes(E(d, n).id, n)
    BY <1>2, <1>3, ClientIds
  <2>2. QED
    BY <2>1 DEF Denotes
<1>7. Exists(w, n) => /\ Exists(Server, n) /\ E(Server, n).seq >= E(w, n).seq
  <2>1. SUFFICES ASSUME Exists(w, n)
                 PROVE  Exists(Server, n) /\ E(Server, n).seq >= E(w, n).seq
    OBVIOUS
  <2>2. OnItsWay(w, n)
    BY <1>1, <1>2, <1>3, <2>1 DEF ReachesServer
  <2>3. E(w, n).id # NoId /\ E(Server, n).seq >= E(w, n).seq
    BY <1>1, <1>2, <2>2 DEF OnItsWay
  <2>4. QED
    BY <1>1, <1>6, <2>3
<1>8. CASE Exists(Server, n)
  <2>1. Exists(w, n) /\ E(Server, n).seq = E(w, n).seq
        /\ E(Server, n).value = E(w, n).value
    BY <1>3, <1>5, <1>7, <1>8 DEF ServerFollows, Wrote
  <2>2. CASE c = w
    BY <2>1, <2>2
  <2>3. CASE c # w
    <3>1. Exists(c, n) /\ E(c, n).seq >= E(Server, n).seq
      BY <1>2, <1>4, <1>8, <2>3 DEF ReachesReader, HasNow
    <3>2. Wrote(w, n, E(c, n).seq, E(c, n).value)
      BY <1>2, <1>4, <2>3, <3>1 DEF ReaderFollows
    <3>3. QED
      BY <1>5, <2>1, <3>1, <3>2 DEF Wrote
  <2>4. QED
    BY <2>2, <2>3
<1>9. CASE ~Exists(Server, n)
  <2>1. ~Exists(c, n)
    BY <1>2, <1>4, <1>6, <1>7, <1>9 DEF ReaderFollows
  <2>2. QED
    BY <1>5, <1>9, <2>1
<1>10. QED
  BY <1>8, <1>9

\* What one client alone writes reaches everyone: whenever nothing is on its way
\* any more, every client has the values of the server.
THEOREM SoleWriterReachesAll ==
    ASSUME NEW w, SoleWriter(w)
    PROVE  Spec => []AllAgree
<1>1. IInv /\ IdInv /\ WriterInv(w) => AllAgree
  BY AgreeWhenQuiet
<1>2. Spec => []WriterInv(w)
  BY WriterInvariance
<1>3. QED
  BY <1>1, <1>2, Invariance, IdInvariance, PTL

\* Nothing that the writer hears changes a value of it.
LEMMA NothingOverwrites ==
    ASSUME IInv, IdInv, NEW w, SoleWriter(w), WriterInv(w), [Next]_vars,
           ops' = ops, NEW n \in Names
    PROVE  E(w, n)'.value = E(w, n).value
<1> DEFINE s == storage[w]
           m == Head(toClient[w])
<1>1. /\ w \in Clients /\ w \in Nodes /\ w # Server /\ TypeOK
      /\ WriterOwns(w) /\ ToWriter(w) /\ ops \in Nat /\ s \in Store
  BY NTSyncAssumption DEF NTSyncAssumption, SoleWriter, IInv, TypeOK, Nodes,
     WriterInv, Writer
<1>2. \A t \in {storage'[w]} : t.entries[n].value = s.entries[n].value =>
         E(w, n)'.value = E(w, n).value
  BY DEF E
<1>3. CASE storage'[w] = storage[w]
  BY <1>3 DEF E
<1>4. CASE ApplySnapshot(w)
  <2>1. /\ storage'[w] = ApplyInitialAssignments(s, m.assigns)
        /\ IsServerHello(m) /\ toClient[w] \in Seq(ServerMsg) /\ toClient[w] # << >>
    BY <1>1, <1>4, ApplySnapshotState
  <2>2. m \in Range(toClient[w])
    BY <2>1, Messages
  <2>3. m.assigns = {}
    BY <1>1, <2>1, <2>2 DEF ToWriter, Answer, IsServerHello
  <2>4. \A x \in Names : Has(s, x) => s.entries[x].localWrite
    BY <1>1 DEF WriterOwns, E, Exists
  <2>5. ApplyInitialAssignments(s, {}).entries[n].value = s.entries[n].value
    BY <1>1, <2>4, EmptySnapshotEffect
  <2>6. storage'[w].entries[n].value = s.entries[n].value
    BY <2>1, <2>3, <2>5
  <2>7. QED
    BY <1>2, <2>6
<1>5. CASE ClientReceive(w)
  <2>1. /\ storage'[w] = ProcessIncoming(s, m).store
        /\ m \in ServerMsg /\ toClient[w] \in Seq(ServerMsg) /\ toClient[w] # << >>
    BY <1>1, <1>5, ClientReceiveState
  <2>2. IsServerHello(m) \/ Answer(w, m)
    BY <1>1, <2>1, Messages DEF ToWriter
  <2>3. CASE IsServerHello(m)
    <3>1. ProcessIncoming(s, m).store = s
      BY <2>3 DEF ProcessIncoming, IsServerHello, Ignored, Result
    <3>2. QED
      BY <1>3, <2>1, <3>1
  <2>4. CASE Answer(w, m)
    <3>1. m \in AssignMsg /\ m.id # NoId /\ Wrote(w, m.name, m.seq, m.value)
      BY <2>1, <2>4, MsgKinds DEF Answer
    <3>2. storage'[w].entries[n].value = s.entries[n].value
      BY <1>1, <2>1, <3>1, WriterHears
    <3>3. QED
      BY <1>2, <3>2
  <2>5. QED
    BY <2>2, <2>3, <2>4
<1>6. ASSUME NEW c \in Clients, c # w \/ (~ApplySnapshot(c) /\ ~ClientReceive(c)),
             ProtocolStep(c)
      PROVE  storage'[w] = storage[w]
  <2>1. c \in Nodes /\ ~ServerReceiveOld(c)
    BY RuledOut DEF Nodes
  <2>2. CASE ServerReceive(c)
    BY <1>1, <2>2, ServerReceiveState
  <2>3. CASE ApplySnapshot(c)
    BY <1>1, <1>6, <2>1, <2>3 DEF ApplySnapshot, TypeOK
  <2>4. CASE ClientReceive(c)
    BY <1>1, <1>6, <2>1, <2>4 DEF ClientReceive, TypeOK
  <2>5. CASE UNCHANGED storage
    BY <2>5
  <2>6. QED
    BY <1>6, <2>1, <2>2, <2>3, <2>4, <2>5
       DEF ProtocolStep, Connect, SendSnapshot, ClientNotices, ServerNotices,
           ServerNoticesOld
<1>7. ASSUME NEW p \in Nodes, LocalOp(p) PROVE FALSE
  BY <1>1, <1>7 DEF LocalOp
<1>8. ASSUME NEW c \in Clients, Break(c) PROVE FALSE
  BY <1>8, RuledOut
<1>9. CASE ServerRestart
  <2>1. storage'[w] = storage[w]
    BY <1>1, <1>9 DEF ServerRestart, TypeOK
  <2>2. QED
    BY <1>3, <2>1
<1>10. CASE UNCHANGED vars
  BY <1>3, <1>10 DEF vars
<1>11. QED
  BY <1>3, <1>4, <1>5, <1>6, <1>7, <1>8, <1>9, <1>10 DEF Next

\* Neither the answer to its request for an id nor the snapshot of a restarted
\* server changes a value of the only writer: its values change by its own
\* operations alone.
THEOREM SoleWriterKeeps ==
    ASSUME NEW w, SoleWriter(w)
    PROVE  Spec => SoleWriterKeepsItsValues
<1> DEFINE A == \A c \in Clients :
                   Ops[c] # {} /\ ops' = ops =>
                      \A n \in Names : E(c, n)'.value = E(c, n).value
<1>1. IInv /\ IdInv /\ WriterInv(w) /\ [Next]_vars => [A]_vars
  <2> SUFFICES ASSUME IInv, IdInv, WriterInv(w), [Next]_vars PROVE A
    OBVIOUS
  <2>1. \A c \in Clients : Ops[c] # {} => c = w
    BY DEF SoleWriter, Nodes
  <2>2. QED
    BY <2>1, NothingOverwrites
<1>2. Spec => []WriterInv(w)
  BY WriterInvariance
<1>3. QED
  BY <1>1, <1>2, Invariance, IdInvariance, PTL DEF Spec, SoleWriterKeepsItsValues

-----------------------------------------------------------------------------
(* One writer: the flags *)

\* The message sets the flags of the entry with the id; it carries a sequence
\* number for it; it gives the id to whoever does not know it.
SetsFlagsTo(m, id, f) ==
    \/ IsServerHello(m) /\ \E x \in m.assigns : x.id = id /\ x.flags = f
    \/ m.type \in {"EntryAssign", "FlagsUpdate"} /\ m.id = id /\ m.flags = f
Dated(m, id, k) ==
    \/ IsServerHello(m) /\ \E x \in m.assigns : x.id = id /\ x.seq = k
    \/ m.type \in {"EntryAssign", "EntryUpdate"} /\ m.id = id /\ m.seq = k
Gives(m, id) ==
    \/ IsServerHello(m) /\ \E x \in m.assigns : x.id = id
    \/ m.type = "EntryAssign" /\ m.id = id

SetsFlags(m, id) == \E f \in BOOLEAN : SetsFlagsTo(m, id, f)

\* Whoever has one of the flags `from` has the flags `to` once it has heard
\* the messages: the last that sets them says so.
FlagsArrive(q, id, from, to) ==
    \/ to \in from /\ \A i \in 1 .. Len(q) : ~SetsFlags(q[i], id)
    \/ \E i \in 1 .. Len(q) :
          /\ SetsFlagsTo(q[i], id, to)
          /\ \A j \in (i + 1) .. Len(q) : ~SetsFlags(q[j], id)

\* Sequence numbers come in order, from `lo` to `hi`.
InOrder(q, id, lo, hi) ==
    /\ lo <= hi
    /\ \A i \in 1 .. Len(q), x \in SeqNums : Dated(q[i], id, x) =>
          /\ lo <= x /\ x <= hi
          /\ \A j \in (i + 1) .. Len(q), y \in SeqNums :
                Dated(q[j], id, y) => x <= y

\* No flags come before the id.
GivenFirst(q, id) ==
    \A i \in 1 .. Len(q) : q[i].type = "FlagsUpdate" /\ q[i].id = id =>
        \E j \in 1 .. (i - 1) : Gives(q[j], id)

\* The messages are about other entries.
Untouched(q, id) == \A m \in Range(q) :
    m.type \in {"EntryAssign", "EntryUpdate", "FlagsUpdate"} => m.id # id

\* Flags are sent under ids of this server.
FlagsDenote(q) == \A m \in Range(q) :
    m.type = "FlagsUpdate" => \E n \in Names : Denotes(m.id, n)

IsAnswer(m, n) == m.type = "EntryAssign" /\ m.name = n

\* While the writer waits for the id, the answer on its way has the flags of
\* the server; afterwards the server gets those of the writer.
FlagsWait(w, n) ==
    /\ Exists(Server, n) => Untouched(toServer[w], E(Server, n).id)
    /\ \A i \in 1 .. Len(toClient[w]) : IsAnswer(toClient[w][i], n) =>
          /\ toClient[w][i].flags = E(Server, n).flags
          /\ \A j \in 1 .. Len(toClient[w]) : IsAnswer(toClient[w][j], n) => i = j

FlagsGo(w, n) ==
    LET e == E(w, n)
        f == E(Server, n)
    IN  /\ FlagsArrive(toServer[w], e.id, {f.flags}, e.flags)
        /\ InOrder(toServer[w], e.id, f.seq, e.seq)
        /\ \A m \in Range(toClient[w]) : ~IsAnswer(m, n)

WriterFlags(w) == Joined(w) =>
    /\ FlagsDenote(toServer[w])
    /\ \A n \in Names : Exists(w, n) =>
          IF E(w, n).id = NoId THEN FlagsWait(w, n) ELSE FlagsGo(w, n)

\* The server's flags of every entry are at the client or on their way there.
FlagsReach(c, n) ==
    LET e == E(c, n)
        f == E(Server, n)
        q == toClient[c]
    IN  IF HasNow(c, n)
        THEN FlagsArrive(q, f.id, {e.flags}, f.flags)
             /\ InOrder(q, f.id, e.seq, f.seq)
        ELSE FlagsArrive(q, f.id, {}, f.flags)
             /\ InOrder(q, f.id, 0, f.seq) /\ GivenFirst(q, f.id)

ReaderFlags(c) == Synced(c) =>
    /\ FlagsDenote(toClient[c])
    /\ \A n \in Names : Exists(Server, n) => FlagsReach(c, n)

FlagsInv(w) ==
    /\ WriterFlags(w)
    /\ \A c \in Clients \ {w} : ReaderFlags(c)

-----------------------------------------------------------------------------
(* One writer: flags in a queue *)

\* What is left of the queue leads from the flags that its first message set.
LEMMA FlagsTail ==
    ASSUME NEW T, NEW q \in Seq(T), q # << >>, NEW id, NEW from, NEW to \in BOOLEAN,
           FlagsArrive(q, id, from, to), NEW set,
           \A f \in BOOLEAN : SetsFlagsTo(Head(q), id, f) => f \in set,
           ~SetsFlags(Head(q), id) => from \subseteq set
    PROVE  FlagsArrive(Tail(q), id, set, to)
<1>1. /\ Len(q) \in Nat /\ Len(q) >= 1 /\ Len(Tail(q)) = Len(q) - 1
      /\ \A i \in 1 .. Len(Tail(q)) : Tail(q)[i] = q[i + 1]
      /\ Head(q) = q[1]
  BY TailFacts
<1>2. CASE to \in from /\ \A i \in 1 .. Len(q) : ~SetsFlags(q[i], id)
  <2>1. to \in set
    BY <1>1, <1>2
  <2>2. \A i \in 1 .. Len(Tail(q)) : ~SetsFlags(Tail(q)[i], id)
    BY <1>1, <1>2
  <2>3. QED
    BY <2>1, <2>2 DEF FlagsArrive
<1>3. CASE \E i \in 1 .. Len(q) :
              /\ SetsFlagsTo(q[i], id, to)
              /\ \A j \in (i + 1) .. Len(q) : ~SetsFlags(q[j], id)
  <2>1. PICK i \in 1 .. Len(q) :
              /\ SetsFlagsTo(q[i], id, to)
              /\ \A j \in (i + 1) .. Len(q) : ~SetsFlags(q[j], id)
    BY <1>3
  <2>2. CASE i = 1
    <3>1. to \in set
      BY <1>1, <2>1, <2>2
    <3>2. \A j \in 1 .. Len(Tail(q)) : ~SetsFlags(Tail(q)[j], id)
      BY <1>1, <2>1, <2>2
    <3>3. QED
      BY <3>1, <3>2 DEF FlagsArrive
  <2>3. CASE i > 1
    <3>1. i - 1 \in 1 .. Len(Tail(q)) /\ Tail(q)[i - 1] = q[i]
      BY <1>1, <2>3
    <3>2. \A j \in ((i - 1) + 1) .. Len(Tail(q)) : ~SetsFlags(Tail(q)[j], id)
      BY <1>1, <2>1, <2>3
    <3>3. QED
      BY <2>1, <3>1, <3>2 DEF FlagsArrive
  <2>4. QED
    BY <2>1, <2>2, <2>3
<1>4. QED
  BY <1>2, <1>3 DEF FlagsArrive

\* And so for the numbers.
LEMMA OrderTail ==
    ASSUME NEW T, NEW q \in Seq(T), q # << >>, NEW id,
           NEW lo \in Nat, NEW hi \in Nat, InOrder(q, id, lo, hi)
    PROVE  /\ InOrder(Tail(q), id, lo, hi)
           /\ \A x \in SeqNums : Dated(Head(q), id, x) =>
                 lo <= x /\ x <= hi /\ InOrder(Tail(q), id, x, hi)
<1>1. /\ Len(q) \in Nat /\ Len(q) >= 1 /\ Len(Tail(q)) = Len(q) - 1
      /\ \A i \in 1 .. Len(Tail(q)) : Tail(q)[i] = q[i + 1]
      /\ Head(q) = q[1]
  BY TailFacts
<1>2. /\ lo <= hi
      /\ \A i \in 1 .. Len(q), x \in SeqNums : Dated(q[i], id, x) =>
            /\ lo <= x /\ x <= hi
            /\ \A j \in (i + 1) .. Len(q), y \in SeqNums :
                  Dated(q[j], id, y) => x <= y
  BY DEF InOrder
<1>3. ASSUME NEW i \in 1 .. Len(Tail(q)), NEW x \in SeqNums,
             Dated(Tail(q)[i], id, x)
      PROVE  /\ lo <= x /\ x <= hi
             /\ \A j \in (i + 1) .. Len(Tail(q)), y \in SeqNums :
                   Dated(Tail(q)[j], id, y) => x <= y
  <2>1. i + 1 \in 1 .. Len(q) /\ Dated(q[i + 1], id, x)
    BY <1>1, <1>3
  <2>2. ASSUME NEW j \in (i + 1) .. Len(Tail(q)), NEW y \in SeqNums,
               Dated(Tail(q)[j], id, y)
        PROVE  x <= y
    <3>1. j + 1 \in ((i + 1) + 1) .. Len(q) /\ Dated(q[j + 1], id, y)
      BY <1>1, <2>2
    <3>2. QED
      BY <1>2, <2>1, <3>1
  <2>3. QED
    BY <1>2, <2>1, <2>2
<1>4. InOrder(Tail(q), id, lo, hi)
  BY <1>2, <1>3 DEF InOrder
<1>5. ASSUME NEW x \in SeqNums, Dated(Head(q), id, x)
      PROVE  lo <= x /\ x <= hi /\ InOrder(Tail(q), id, x, hi)
  <2>1. 1 \in 1 .. Len(q) /\ Dated(q[1], id, x)
    BY <1>1, <1>5
  <2>2. /\ lo <= x /\ x <= hi
        /\ \A j \in 2 .. Len(q), y \in SeqNums : Dated(q[j], id, y) => x <= y
    BY <1>2, <2>1
  <2>3. ASSUME NEW i \in 1 .. Len(Tail(q)), NEW y \in SeqNums,
               Dated(Tail(q)[i], id, y)
        PROVE  x <= y
    <3>1. i + 1 \in 2 .. Len(q) /\ Dated(q[i + 1], id, y)
      BY <1>1, <2>3
    <3>2. QED
      BY <2>2, <3>1
  <2>4. QED
    BY <1>3, <2>2, <2>3 DEF InOrder
<1>6. QED
  BY <1>4, <1>5

\* A place in a queue with one more message.
LEMMA OneMore ==
    ASSUME NEW T, NEW q \in Seq(T), NEW m \in T
    PROVE  LET r == q \o << m >> IN
           /\ r \in Seq(T) /\ Len(q) \in Nat /\ Len(r) = Len(q) + 1
           /\ \A i \in 1 .. Len(q) : r[i] = q[i]
           /\ r[Len(r)] = m
  OBVIOUS

\* A message that is queued sets the flags, or leaves them.
LEMMA FlagsAppend ==
    ASSUME NEW T, NEW q \in Seq(T), NEW m \in T, NEW id, NEW from,
           NEW f \in BOOLEAN, NEW g \in BOOLEAN, FlagsArrive(q, id, from, f),
           SetsFlagsTo(m, id, g) \/ (g = f /\ ~SetsFlags(m, id))
    PROVE  FlagsArrive(q \o << m >>, id, from, g)
<1> DEFINE r == q \o << m >>
<1>1. /\ Len(q) \in Nat /\ Len(r) = Len(q) + 1
      /\ \A i \in 1 .. Len(q) : r[i] = q[i]
      /\ r[Len(r)] = m
  BY OneMore
<1> HIDE DEF r
<1>2. CASE SetsFlagsTo(m, id, g)
  <2>1. Len(r) \in 1 .. Len(r) /\ SetsFlagsTo(r[Len(r)], id, g)
        /\ \A j \in (Len(r) + 1) .. Len(r) : ~SetsFlags(r[j], id)
    BY <1>1, <1>2
  <2>2. FlagsArrive(r, id, from, g)
    BY <2>1 DEF FlagsArrive
  <2>3. QED
    BY <2>2 DEF r
<1>3. CASE g = f /\ ~SetsFlags(m, id)
  <2>1. CASE f \in from /\ \A i \in 1 .. Len(q) : ~SetsFlags(q[i], id)
    <3>1. \A i \in 1 .. Len(r) : ~SetsFlags(r[i], id)
      BY <1>1, <1>3, <2>1
    <3>2. FlagsArrive(r, id, from, g)
      BY <1>3, <2>1, <3>1 DEF FlagsArrive
    <3>3. QED
      BY <3>2 DEF r
  <2>2. CASE \E i \in 1 .. Len(q) :
                /\ SetsFlagsTo(q[i], id, f)
                /\ \A j \in (i + 1) .. Len(q) : ~SetsFlags(q[j], id)
    <3>1. PICK i \in 1 .. Len(q) :
                /\ SetsFlagsTo(q[i], id, f)
                /\ \A j \in (i + 1) .. Len(q) : ~SetsFlags(q[j], id)
      BY <2>2
    <3>2. i \in 1 .. Len(r) /\ SetsFlagsTo(r[i], id, g)
      BY <1>1, <1>3, <3>1
    <3>3. \A j \in (i + 1) .. Len(r) : ~SetsFlags(r[j], id)
      BY <1>1, <1>3, <3>1
    <3>4. FlagsArrive(r, id, from, g)
      BY <3>2, <3>3 DEF FlagsArrive
    <3>5. QED
      BY <3>4 DEF r
  <2>3. QED
    BY <2>1, <2>2 DEF FlagsArrive
<1>4. QED
  BY <1>2, <1>3

\* A message that is queued has no older number than those before.
LEMMA OrderAppend ==
    ASSUME NEW T, NEW q \in Seq(T), NEW m \in T, NEW id,
           NEW lo \in Nat, NEW k \in Nat, NEW l \in Nat, k <= l,
           InOrder(q, id, lo, k), \A x \in SeqNums : Dated(m, id, x) => x = l
    PROVE  InOrder(q \o << m >>, id, lo, l)
<1> DEFINE r == q \o << m >>
<1>1. /\ Len(q) \in Nat /\ Len(r) = Len(q) + 1
      /\ \A i \in 1 .. Len(q) : r[i] = q[i]
      /\ r[Len(r)] = m
  BY OneMore
<1>2. /\ lo <= k
      /\ \A i \in 1 .. Len(q), x \in SeqNums : Dated(q[i], id, x) =>
            /\ lo <= x /\ x <= k
            /\ \A j \in (i + 1) .. Len(q), y \in SeqNums :
                  Dated(q[j], id, y) => x <= y
  BY DEF InOrder
<1>3. SeqNums \subseteq Nat
  BY DEF SeqNums
<1> HIDE DEF r
<1>4. \A i \in 1 .. Len(r), x \in SeqNums : Dated(r[i], id, x) =>
         lo <= x /\ x <= l /\ (i <= Len(q) => x <= k)
  <2>1. SUFFICES ASSUME NEW i \in 1 .. Len(r), NEW x \in SeqNums, Dated(r[i], id, x)
                 PROVE  lo <= x /\ x <= l /\ (i <= Len(q) => x <= k)
    OBVIOUS
  <2>2. CASE i <= Len(q)
    <3>1. i \in 1 .. Len(q) /\ Dated(q[i], id, x)
      BY <1>1, <2>1, <2>2
    <3>2. lo <= x /\ x <= k
      BY <1>2, <3>1
    <3>3. QED
      BY <1>3, <3>2
  <2>3. CASE i = Len(r)
    <3>1. x = l
      BY <1>1, <2>1, <2>3
    <3>2. QED
      BY <1>1, <1>2, <2>3, <3>1
  <2>4. QED
    BY <1>1, <2>2, <2>3
<1>5. ASSUME NEW i \in 1 .. Len(r), NEW x \in SeqNums, Dated(r[i], id, x),
             NEW j \in (i + 1) .. Len(r), NEW y \in SeqNums, Dated(r[j], id, y)
      PROVE  x <= y
  <2>1. i \in 1 .. Len(q) /\ Dated(q[i], id, x) /\ x <= k
    BY <1>1, <1>4, <1>5
  <2>2. CASE j <= Len(q)
    <3>1. j \in (i + 1) .. Len(q) /\ Dated(q[j], id, y)
      BY <1>1, <1>5, <2>1, <2>2
    <3>2. QED
      BY <1>2, <2>1, <3>1
  <2>3. CASE j = Len(r)
    <3>1. y = l
      BY <1>1, <1>5, <2>3
    <3>2. QED
      BY <1>3, <2>1, <3>1
  <2>4. QED
    BY <1>1, <2>1, <2>2, <2>3
<1>6. InOrder(r, id, lo, l)
  <2>1. lo <= l
    BY <1>2
  <2>2. QED
    BY <1>4, <1>5, <2>1 DEF InOrder
<1>7. QED
  BY <1>6 DEF r

\* The one who hears the next message is on the way to where the queue leads.
LEMMA LeadsHeard ==
    ASSUME NEW T, NEW q \in Seq(T), q # << >>, NEW id, NEW e \in Entry,
           NEW x \in Entry, NEW to \in BOOLEAN, NEW hi \in Nat,
           FlagsArrive(q, id, {e.flags}, to), InOrder(q, id, e.seq, hi),
           ~IsServerHello(Head(q)), Leads(Head(q), id, e, x)
    PROVE  /\ FlagsArrive(Tail(q), id, {x.flags}, to)
           /\ InOrder(Tail(q), id, x.seq, hi)
<1> DEFINE m == Head(q)
<1>1. /\ e.flags \in BOOLEAN /\ e.seq \in Nat /\ e.seq \in SeqNums
      /\ x.flags \in BOOLEAN /\ x.seq \in Nat /\ x.seq \in SeqNums
  BY DEF Entry, SeqNums
<1> HIDE DEF m
<1>2. /\ \A f \in BOOLEAN : SetsFlagsTo(m, id, f) => f = x.flags
      /\ ~SetsFlags(m, id) => x.flags = e.flags
  BY <1>1 DEF SetsFlagsTo, SetsFlags, Leads, m
<1>3. FlagsArrive(Tail(q), id, {x.flags}, to)
  BY <1>2, FlagsTail DEF m
<1>4. Dated(m, id, x.seq) \/ x.seq = e.seq
  BY DEF Dated, Leads, m
<1>5. InOrder(Tail(q), id, x.seq, hi)
  BY <1>1, <1>4, OrderTail DEF m
<1>6. QED
  BY <1>3, <1>5

\* What the one who sends does to its own entry it also tells.
LEMMA LeadsSent ==
    ASSUME NEW T, NEW q \in Seq(T), NEW m \in T, NEW id, NEW from,
           NEW lo \in Nat, NEW e \in Entry, NEW x \in Entry,
           FlagsArrive(q, id, from, e.flags), InOrder(q, id, lo, e.seq),
           ~IsServerHello(m), Leads(m, id, e, x), e.seq <= x.seq
    PROVE  /\ FlagsArrive(q \o << m >>, id, from, x.flags)
           /\ InOrder(q \o << m >>, id, lo, x.seq)
<1>1. /\ e.flags \in BOOLEAN /\ e.seq \in Nat
      /\ x.flags \in BOOLEAN /\ x.seq \in Nat
  BY DEF Entry, SeqNums
<1>2. SetsFlagsTo(m, id, x.flags) \/ (x.flags = e.flags /\ ~SetsFlags(m, id))
  BY <1>1 DEF SetsFlagsTo, SetsFlags, Leads
<1>3. \A y \in SeqNums : Dated(m, id, y) => y = x.seq
  BY DEF Dated, Leads
<1>4. QED
  BY <1>1, <1>2, <1>3, FlagsAppend, OrderAppend

-----------------------------------------------------------------------------
(* One writer: more about queues *)

\* No message of the queue is about the entry with the id.
Silent(q, id) == \A i \in 1 .. Len(q) :
    /\ ~(q[i].type \in {"EntryAssign", "EntryUpdate", "FlagsUpdate"} /\ q[i].id = id)
    /\ IsServerHello(q[i]) => \A x \in q[i].assigns : x.id # id

\* Such a queue leads nowhere.
LEMMA SilentArrives ==
    ASSUME NEW q, NEW id, Silent(q, id), NEW f,
           NEW lo \in Nat, NEW hi \in Nat, lo <= hi
    PROVE  FlagsArrive(q, id, {f}, f) /\ InOrder(q, id, lo, hi)
<1>1. \A i \in 1 .. Len(q) : ~SetsFlags(q[i], id)
  BY DEF Silent, SetsFlags, SetsFlagsTo
<1>2. \A i \in 1 .. Len(q), x \in SeqNums : ~Dated(q[i], id, x)
  BY DEF Silent, Dated
<1>3. QED
  BY <1>1, <1>2 DEF FlagsArrive, InOrder

\* An assignment under an id of which nobody has spoken.
LEMMA FreshArrives ==
    ASSUME NEW T, NEW q \in Seq(T), NEW m \in T, m.type = "EntryAssign",
           m.flags \in BOOLEAN, m.seq \in SeqNums, Silent(q, m.id)
    PROVE  LET r == q \o << m >> IN
           /\ FlagsArrive(r, m.id, {}, m.flags)
           /\ InOrder(r, m.id, 0, m.seq)
           /\ GivenFirst(r, m.id)
<1> DEFINE r == q \o << m >>
           id == m.id
<1>1. /\ Len(q) \in Nat /\ Len(r) = Len(q) + 1
      /\ \A i \in 1 .. Len(q) : r[i] = q[i]
      /\ r[Len(r)] = m
  BY OneMore
<1>2. m.seq \in Nat /\ ~IsServerHello(m)
  BY DEF SeqNums, IsServerHello
<1> HIDE DEF r
<1>3. FlagsArrive(r, id, {}, m.flags)
  <2>1. Len(r) \in 1 .. Len(r) /\ SetsFlagsTo(r[Len(r)], id, m.flags)
        /\ \A j \in (Len(r) + 1) .. Len(r) : ~SetsFlags(r[j], id)
    BY <1>1 DEF SetsFlagsTo
  <2>2. QED
    BY <2>1 DEF FlagsArrive
<1>4. InOrder(q, id, 0, 0)
  BY DEF Silent, InOrder, Dated
<1>5. InOrder(r, id, 0, m.seq)
  <2>1. \A x \in SeqNums : Dated(m, id, x) => x = m.seq
    BY <1>2 DEF Dated
  <2>2. 0 <= m.seq
    BY <1>2
  <2>3. QED
    BY <1>2, <1>4, <2>1, <2>2, OrderAppend DEF r
<1>6. GivenFirst(r, id)
  <2>1. \A i \in 1 .. Len(r) : ~(r[i].type = "FlagsUpdate" /\ r[i].id = id)
    <3>1. \A i \in 1 .. Len(r) : i \in 1 .. Len(q) \/ i = Len(r)
      BY <1>1
    <3>2. QED
      BY <1>1, <3>1 DEF Silent
  <2>2. QED
    BY <2>1 DEF GivenFirst
<1>7. QED
  BY <1>3, <1>5, <1>6 DEF r

\* Flags that were sent to someone who does not know the entry come after the
\* id, so what follows does, too.
LEMMA GivenAppend ==
    ASSUME NEW T, NEW q \in Seq(T), NEW m \in T, NEW id, NEW f \in BOOLEAN,
           FlagsArrive(q, id, {}, f), GivenFirst(q, id)
    PROVE  GivenFirst(q \o << m >>, id)
<1> DEFINE r == q \o << m >>
<1>1. /\ Len(q) \in Nat /\ Len(r) = Len(q) + 1
      /\ \A i \in 1 .. Len(q) : r[i] = q[i]
      /\ r[Len(r)] = m
  BY OneMore
<1> HIDE DEF r
<1>2. \E j \in 1 .. Len(q) : Gives(q[j], id)
  <2>1. PICK i \in 1 .. Len(q) : SetsFlagsTo(q[i], id, f)
    BY DEF FlagsArrive
  <2>2. Gives(q[i], id) \/ (q[i].type = "FlagsUpdate" /\ q[i].id = id)
    BY <2>1 DEF SetsFlagsTo, Gives
  <2>3. 1 .. (i - 1) \subseteq 1 .. Len(q)
    BY <1>1
  <2>4. QED
    BY <2>2, <2>3 DEF GivenFirst
<1>3. ASSUME NEW i \in 1 .. Len(r), r[i].type = "FlagsUpdate", r[i].id = id
      PROVE  \E j \in 1 .. (i - 1) : Gives(r[j], id)
  <2>1. CASE i \in 1 .. Len(q)
    <3>1. PICK j \in 1 .. (i - 1) : Gives(q[j], id)
      BY <1>1, <1>3, <2>1 DEF GivenFirst
    <3>2. j \in 1 .. Len(q)
      BY <1>1, <2>1
    <3>3. QED
      BY <1>1, <3>1, <3>2
  <2>2. CASE i = Len(r)
    <3>1. PICK j \in 1 .. Len(q) : Gives(q[j], id)
      BY <1>2
    <3>2. j \in 1 .. (i - 1) /\ r[j] = q[j]
      BY <1>1, <2>2
    <3>3. QED
      BY <3>1, <3>2
  <2>3. QED
    BY <1>1, <2>1, <2>2
<1>4. QED
  BY <1>3 DEF GivenFirst, r

\* The rest of a queue whose first message does not give the id.
LEMMA GivenTail ==
    ASSUME NEW T, NEW q \in Seq(T), q # << >>, NEW id, GivenFirst(q, id),
           ~Gives(Head(q), id)
    PROVE  /\ GivenFirst(Tail(q), id)
           /\ ~(Head(q).type = "FlagsUpdate" /\ Head(q).id = id)
<1>1. /\ Len(q) \in Nat /\ Len(q) >= 1 /\ Len(Tail(q)) = Len(q) - 1
      /\ \A i \in 1 .. Len(Tail(q)) : Tail(q)[i] = q[i + 1]
      /\ Head(q) = q[1]
  BY TailFacts
<1>2. ~(q[1].type = "FlagsUpdate" /\ q[1].id = id)
  <2>1. 1 .. (1 - 1) = {} /\ 1 \in 1 .. Len(q)
    BY <1>1
  <2>2. QED
    BY <2>1 DEF GivenFirst
<1>3. ASSUME NEW i \in 1 .. Len(Tail(q)), Tail(q)[i].type = "FlagsUpdate",
             Tail(q)[i].id = id
      PROVE  \E j \in 1 .. (i - 1) : Gives(Tail(q)[j], id)
  <2>1. i + 1 \in 1 .. Len(q) /\ q[i + 1] = Tail(q)[i]
    BY <1>1
  <2>2. PICK j \in 1 .. i : Gives(q[j], id)
    BY <1>3, <2>1 DEF GivenFirst
  <2>3. j # 1
    BY <1>1, <2>2
  <2>4. j - 1 \in 1 .. (i - 1) /\ Tail(q)[j - 1] = q[j]
    BY <1>1, <2>2, <2>3
  <2>5. QED
    BY <2>2, <2>4
<1>4. QED
  BY <1>1, <1>2, <1>3 DEF GivenFirst

-----------------------------------------------------------------------------
(* One writer: the flags in the steps of one connection *)

\* Where nothing changes the flags stay on their way.
LEMMA WriterFlagsSame ==
    ASSUME NEW w, WriterFlags(w),
           storage'[Server] = storage[Server], storage'[w] = storage[w],
           client'[w] = client[w], link'[w] = link[w],
           toServer'[w] = toServer[w], toClient'[w] = toClient[w]
    PROVE  WriterFlags(w)'
<1>1. \A n \in Names : /\ E(Server, n)' = E(Server, n)
                       /\ Exists(Server, n)' <=> Exists(Server, n)
                       /\ E(w, n)' = E(w, n)
                       /\ Exists(w, n)' <=> Exists(w, n)
  BY DEF E, Exists
<1>2. Joined(w)' => Joined(w)
  BY DEF Joined
<1>3. FlagsDenote(toServer[w]) => FlagsDenote(toServer[w])'
  BY DEF FlagsDenote, Denotes, E, Exists
<1>4. ASSUME NEW n \in Names
      PROVE  /\ FlagsWait(w, n) => FlagsWait(w, n)'
             /\ FlagsGo(w, n) => FlagsGo(w, n)'
  BY <1>1 DEF FlagsWait, FlagsGo
<1>5. QED
  BY <1>1, <1>2, <1>3, <1>4 DEF WriterFlags

\* The same for the other clients.
LEMMA ReaderFlagsSame ==
    ASSUME NEW c, ReaderFlags(c),
           storage'[Server] = storage[Server], storage'[c] = storage[c],
           client'[c] = client[c], session'[c] = session[c],
           link'[c] = link[c], toClient'[c] = toClient[c]
    PROVE  ReaderFlags(c)'
<1>1. \A n \in Names : /\ E(Server, n)' = E(Server, n)
                       /\ Exists(Server, n)' <=> Exists(Server, n)
                       /\ E(c, n)' = E(c, n)
                       /\ HasNow(c, n)' <=> HasNow(c, n)
  BY DEF E, Exists, HasNow
<1>2. Synced(c)' => Synced(c)
  BY DEF Synced
<1>3. FlagsDenote(toClient[c]) => FlagsDenote(toClient[c])'
  BY DEF FlagsDenote, Denotes, E, Exists
<1>4. ASSUME NEW n \in Names, FlagsReach(c, n)
      PROVE  FlagsReach(c, n)'
  BY <1>1, <1>4 DEF FlagsReach
<1>5. QED
  BY <1>1, <1>2, <1>3, <1>4 DEF ReaderFlags

\* A step of one connection that leaves the server's store alone.
LEMMA FlagsConnection ==
    ASSUME NEW w \in Clients, FlagsInv(w), NEW c \in Clients,
           storage'[Server] = storage[Server],
           \A d \in Clients \ {c} :
              /\ storage'[d] = storage[d] /\ client'[d] = client[d]
              /\ session'[d] = session[d] /\ link'[d] = link[d]
              /\ toServer'[d] = toServer[d] /\ toClient'[d] = toClient[d],
           c # w => ReaderFlags(c)',
           c = w => WriterFlags(w)'
    PROVE  FlagsInv(w)'
<1>1. WriterFlags(w)'
  <2>1. CASE c = w
    BY <2>1
  <2>2. CASE c # w
    BY <2>2, WriterFlagsSame DEF FlagsInv
  <2>3. QED
    BY <2>1, <2>2
<1>2. ASSUME NEW d \in Clients \ {w} PROVE ReaderFlags(d)'
  <2>1. CASE d = c
    BY <2>1
  <2>2. CASE d # c
    BY <2>2, ReaderFlagsSame DEF FlagsInv
  <2>3. QED
    BY <2>1, <2>2
<1>3. QED
  BY <1>1, <1>2 DEF FlagsInv

\* A client that connects.
LEMMA ConnectFlags ==
    ASSUME IInv, NEW w, SoleWriter(w), FlagsInv(w), NEW c \in Clients, Connect(c)
    PROVE  FlagsInv(w)'
<1>1. w \in Clients /\ TypeOK
  BY DEF SoleWriter, IInv
<1>2. /\ storage' = storage
      /\ client' = [client EXCEPT ![c] = "Handshake"]
      /\ link' = [link EXCEPT ![c] = "up"]
      /\ toServer' = [toServer EXCEPT ![c] = << ClientHello >>]
      /\ toClient' = [toClient EXCEPT ![c] = << >>]
      /\ session' = [session EXCEPT ![c] = "Handshake"]
  BY DEF Connect, Accept
<1>3. client'[c] = "Handshake" /\ session'[c] = "Handshake"
  BY <1>1, <1>2 DEF TypeOK
<1>4. ~Synced(c)' /\ ~Joined(c)'
  BY <1>3 DEF Synced, Joined
<1>5. WriterFlags(w)' \/ c # w
  BY <1>4 DEF WriterFlags
<1>6. ReaderFlags(c)'
  BY <1>4 DEF ReaderFlags
<1>7. QED
  BY <1>1, <1>2, <1>5, <1>6, FlagsConnection DEF TypeOK

\* A client that notices the end of its connection.
LEMMA ClientNoticesFlags ==
    ASSUME IInv, NEW w, SoleWriter(w), FlagsInv(w), NEW c \in Clients,
           ClientNotices(c)
    PROVE  FlagsInv(w)'
<1>1. w \in Clients /\ TypeOK
  BY DEF SoleWriter, IInv
<1>2. /\ storage' = storage /\ session' = session /\ link' = link
      /\ toServer' = toServer /\ link[c] = "down"
      /\ client' = [client EXCEPT ![c] = "Dead"]
      /\ toClient' = [toClient EXCEPT ![c] = << >>]
  BY DEF ClientNotices
<1>3. ~Synced(c)' /\ ~Joined(c)'
  BY <1>2 DEF Synced, Joined
<1>4. WriterFlags(w)' \/ c # w
  BY <1>3 DEF WriterFlags
<1>5. ReaderFlags(c)'
  BY <1>3 DEF ReaderFlags
<1>6. QED
  BY <1>1, <1>2, <1>4, <1>5, FlagsConnection DEF TypeOK

\* The server restarts: nobody is connected.
LEMMA ServerRestartFlags ==
    ASSUME NEW w, SoleWriter(w), ServerRestart
    PROVE  FlagsInv(w)'
<1>1. w \in Clients /\ \A c \in Clients : link'[c] = "down"
  BY DEF SoleWriter, ServerRestart
<1>2. \A c \in Clients : ~Synced(c)' /\ ~Joined(c)'
  BY <1>1 DEF Synced, Joined
<1>3. QED
  BY <1>1, <1>2 DEF FlagsInv, WriterFlags, ReaderFlags

\* The snapshot alone sets the flags, carries the number and gives the id of
\* every entry the server has.
LEMMA SnapshotFlags ==
    ASSUME IInv, IdInv, NEW w, ServerFollows(w), NEW n \in Names, Exists(Server, n)
    PROVE  LET h == ServerHello(GetInitialAssignments(storage[Server]))
               f == E(Server, n)
           IN  /\ SetsFlagsTo(h, f.id, f.flags) /\ Gives(h, f.id)
               /\ \A k : Dated(h, f.id, k) => k = f.seq
<1> DEFINE S == storage[Server]
           msgs == GetInitialAssignments(S)
           h == ServerHello(msgs)
           M(x) == EntryAssign(x, S.entries[x].id, S.entries[x].seq,
                               S.entries[x].value, S.entries[x].flags)
           f == E(Server, n)
<1>1. msgs = {M(x) : x \in {y \in Names : Has(S, y)}}
  BY DEF GetInitialAssignments
<1>2. \A x : /\ M(x).id = E(Server, x).id /\ M(x).seq = E(Server, x).seq
             /\ M(x).flags = E(Server, x).flags
  BY DEF EntryAssign, E
<1> HIDE DEF M
<1>3. M(n) \in msgs
  BY <1>1 DEF Exists
<1>4. ASSUME NEW x \in msgs, x.id = f.id
      PROVE  x = M(n)
  <2>1. PICK y \in Names : Has(S, y) /\ x = M(y)
    BY <1>1
  <2>2. E(Server, y).id = f.id
    BY <1>2, <1>4, <2>1
  <2>3. Denotes(f.id, n) /\ Denotes(f.id, y)
    BY <2>1, <2>2, ServerIds DEF Denotes, Exists
  <2>4. QED
    BY <2>1, <2>3, DenotesOne
<1>5. h.type = "ServerHello" /\ h.assigns = msgs /\ IsServerHello(h)
  BY DEF ServerHello, IsServerHello
<1> HIDE DEF h, msgs
<1>6. SetsFlagsTo(h, f.id, f.flags) /\ Gives(h, f.id)
  BY <1>2, <1>3, <1>5 DEF SetsFlagsTo, Gives
<1>7. \A k : Dated(h, f.id, k) => k = f.seq
  BY <1>2, <1>4, <1>5 DEF Dated
<1>8. QED
  BY <1>6, <1>7 DEF h, msgs

\* The server's half of the handshake.
LEMMA SendSnapshotFlags ==
    ASSUME IInv, IdInv, NEW w, SoleWriter(w), WriterInv(w), FlagsInv(w),
           NEW c \in Clients, SendSnapshot(c)
    PROVE  FlagsInv(w)'
<1> DEFINE h == ServerHello(GetInitialAssignments(storage[Server]))
<1>1. w \in Clients /\ TypeOK
  BY DEF SoleWriter, IInv
<1>2. /\ storage' = storage /\ client' = client /\ link' = link
      /\ session[c] = "Handshake"
      /\ session' = [session EXCEPT ![c] = "Synchronized"]
      /\ toServer' = [toServer EXCEPT ![c] = Tail(@)]
      /\ toClient' = IF link[c] = "up"
                     THEN [toClient EXCEPT ![c] = Append(@, h)] ELSE toClient
  BY DEF SendSnapshot
<1>3. Greets(c) /\ ServerFollows(w)
  BY DEF WriterInv
<1>4. link[c] = "up" /\ client[c] = "Handshake" /\ toClient[c] = << >>
  BY <1>1, <1>2, <1>3 DEF Greets, TypeOK
<1>5. toClient'[c] = << h >> /\ toClient'[c][1] = h /\ Len(toClient'[c]) = 1
      /\ Range(toClient'[c]) = {h}
  <2>1. toClient'[c] = Append(toClient[c], h)
    BY <1>1, <1>2, <1>4 DEF TypeOK
  <2>2. Append(<< >>, h) = << h >> /\ Len(<< h >>) = 1 /\ << h >>[1] = h
    OBVIOUS
  <2>3. Range(<< h >>) = {h}
    BY DEF Range
  <2>4. QED
    BY <1>4, <2>1, <2>2, <2>3
<1>6. h.type = "ServerHello"
  BY DEF ServerHello
<1>7. ~Joined(c)'
  BY <1>2, <1>4 DEF Joined
<1>8. WriterFlags(w)' \/ c # w
  BY <1>7 DEF WriterFlags
<1>9. ReaderFlags(c)'
  <2>1. FlagsDenote(toClient[c])'
    BY <1>5, <1>6 DEF FlagsDenote
  <2>2. ASSUME NEW n \in Names, Exists(Server, n)'
        PROVE  FlagsReach(c, n)'
    <3> DEFINE f == E(Server, n)
    <3>1. Exists(Server, n) /\ f' = f
      BY <1>2, <2>2 DEF Exists, E
    <3>2. /\ SetsFlagsTo(h, f.id, f.flags) /\ Gives(h, f.id)
          /\ \A k : Dated(h, f.id, k) => k = f.seq
      BY <1>3, <3>1, SnapshotFlags
    <3>3. ~HasNow(c, n)'
      BY <1>2, <1>4 DEF HasNow
    <3>4. f.seq \in Nat
      BY <1>1, EntrySeqs DEF Nodes
    <3> HIDE DEF h, f
    <3>5. FlagsArrive(toClient'[c], f.id, {}, f.flags)
      BY <1>5, <3>2 DEF FlagsArrive
    <3>6. InOrder(toClient'[c], f.id, 0, f.seq)
      BY <1>5, <3>2, <3>4 DEF InOrder
    <3>7. GivenFirst(toClient'[c], f.id)
      BY <1>5, <1>6 DEF GivenFirst
    <3>8. QED
      BY <3>1, <3>3, <3>5, <3>6, <3>7 DEF FlagsReach, f
  <2>3. QED
    BY <2>1, <2>2 DEF ReaderFlags
<1>10. QED
  <2>1. \A d \in Clients \ {c} :
           /\ session'[d] = session[d] /\ toServer'[d] = toServer[d]
           /\ toClient'[d] = toClient[d]
    BY <1>1, <1>2 DEF TypeOK
  <2>2. QED
    BY <1>1, <1>2, <1>8, <1>9, <2>1, FlagsConnection

-----------------------------------------------------------------------------
(* One writer: the flags of a snapshot *)

\* A client that wrote nothing takes the flags, too.
LEMMA ReaderSnapshotFlags ==
    ASSUME NEW s \in Store, NEW msgs \in Snapshots, IsSnapshot(msgs),
           \A n \in Names : ~s.entries[n].localWrite,
           \A m \in msgs : m.id # NoId
    PROVE  \A m \in msgs :
              ApplyInitialAssignments(s, msgs).entries[m.name].flags = m.flags
<1> DEFINE t == ApplyInitialAssignments(s, msgs)
<1>1. ASSUME NEW n \in Names, n \in Assigned(msgs)
      PROVE  t.entries[n] = EntryAfterHandshake(s.entries[n], AssignmentOf(msgs, n))
  BY <1>1 DEF ApplyInitialAssignments, Store
<1> HIDE DEF t
<1>2. ASSUME NEW m \in msgs
      PROVE  m.name \in Names /\ m.name \in Assigned(msgs)
             /\ AssignmentOf(msgs, m.name) = m
  <2>1. m.name \in Assigned(msgs) /\ m.name \in Names
    BY MsgFields DEF Assigned, Snapshots
  <2>2. /\ AssignmentOf(msgs, m.name) \in msgs
        /\ AssignmentOf(msgs, m.name).name = m.name
    BY <2>1, AssignmentOfType DEF Snapshots
  <2>3. QED
    BY <2>1, <2>2 DEF IsSnapshot
<1>3. ASSUME NEW n \in Names, NEW m
      PROVE  EntryAfterHandshake(s.entries[n], m).flags = m.flags
  <2>1. ~KeepsOwn(s.entries[n]) /\ s.entries[n] \in Entry
    BY StoreFields DEF KeepsOwn
  <2>2. QED
    BY <2>1 DEF EntryAfterHandshake, Entry
<1>4. QED
  BY <1>1, <1>2, <1>3 DEF t

\* What is left of a queue speaks of ids of the server as the queue did.
LEMMA DenoteTail ==
    ASSUME NEW q, NEW r, Range(r) \subseteq Range(q), FlagsDenote(q),
           storage'[Server] = storage[Server]
    PROVE  \A m \in Range(r) :
              m.type = "FlagsUpdate" => \E n \in Names : Denotes(m.id, n)'
  BY DEF FlagsDenote, Denotes, E, Exists

\* A listening client applies the snapshot: an entry of the server that is not
\* in it comes later.
LEMMA ReaderAppliesFlags ==
    ASSUME IInv, IdInv, NEW w, SoleWriter(w), WriterInv(w), FlagsInv(w),
           NEW c \in Clients \ {w}, ApplySnapshot(c)
    PROVE  FlagsInv(w)'
<1> DEFINE s    == storage[c]
           msgs == Head(toClient[c]).assigns
           t    == ApplyInitialAssignments(s, msgs)
           q    == toClient[c]
<1>1. w \in Clients /\ TypeOK /\ s \in Store
  BY DEF SoleWriter, IInv, TypeOK, Nodes
<1>2. /\ storage'[c] = t /\ client'[c] = "Active"
      /\ storage'[Server] = storage[Server]
      /\ toClient'[c] = Tail(q) /\ q \in Seq(ServerMsg) /\ q # << >>
      /\ UNCHANGED << session, link >>
      /\ \A d \in Clients \ {c} :
            /\ storage'[d] = storage[d] /\ client'[d] = client[d]
            /\ toServer'[d] = toServer[d] /\ toClient'[d] = toClient[d]
      /\ IsServerHello(Head(q)) /\ msgs \in Snapshots /\ IsSnapshot(msgs)
      /\ client[c] = "Handshake"
      /\ link[c] = "up" => Synced(c)
  BY ApplySnapshotState
<1>3. Reader(w, c) /\ ServerFollows(w) /\ ReaderFlags(c)
  BY DEF WriterInv, FlagsInv
<1>4. \A n \in Names : ~s.entries[n].localWrite
  BY <1>3 DEF Reader, Listens, E
<1> HIDE DEF s, msgs, t
<1>5. /\ Range(Tail(q)) \subseteq Range(q) /\ Head(q) \in Range(q)
  BY <1>2, Messages
<1>6. \A n \in Names : /\ E(c, n)' = t.entries[n]
                       /\ Exists(c, n)' <=> Has(t, n)
                       /\ E(Server, n)' = E(Server, n)
                       /\ Exists(Server, n)' <=> Exists(Server, n)
  BY <1>2 DEF E, Exists
<1>7. ASSUME Synced(c)' PROVE Synced(c) /\ GoodHello(w, Head(q))
  <2>1. Synced(c)
    BY <1>2, <1>7 DEF Synced
  <2>2. \/ GoodHello(w, Head(q)) \/ GoodAssign(w, Head(q))
        \/ GoodUpdate(w, Head(q)) \/ Head(q).type = "FlagsUpdate"
    BY <1>3, <1>5, <2>1 DEF Reader, ToReader
  <2>3. QED
    BY <1>2, <2>1, <2>2 DEF GoodAssign, GoodUpdate, IsServerHello
<1>8. ASSUME Synced(c)', NEW n \in Names, Exists(Server, n)'
      PROVE  FlagsReach(c, n)'
  <2> DEFINE f == E(Server, n)
             id == f.id
  <2>1. \A m \in msgs : GoodAssign(w, m) /\ m.id # NoId
    BY <1>7, <1>8 DEF GoodHello, GoodAssign, Denotes, msgs
  <2>2. /\ \A m \in msgs : Alike(m, t.entries[m.name])
        /\ \A x \in Names : (\E m \in msgs : m.name = x)
                            \/ (~Has(t, x) /\ t.entries[x].id = NoId)
    BY <1>1, <1>2, <1>4, <2>1, ReaderSnapshotEffect DEF t
  <2>3. \A m \in msgs : t.entries[m.name].flags = m.flags
    BY <1>1, <1>2, <1>4, <2>1, ReaderSnapshotFlags DEF t
  <2>4. \A m \in msgs : /\ m.name \in Names /\ m.seq \in SeqNums /\ m.seq \in Nat
                        /\ m.value # NoValue /\ m.flags \in BOOLEAN
    BY <1>2, MsgFields DEF Snapshots, SeqNums
  <2>5. Exists(Server, n) /\ f' = f
    BY <1>6, <1>8
  <2>6. f.flags \in BOOLEAN /\ f.seq \in Nat /\ f.id # NoId
    <3>1. f \in Entry /\ f.seq \in Nat
      BY <1>1, EntrySeqs DEF Nodes
    <3>2. QED
      BY <1>3, <2>5, <3>1, ServerIds DEF Entry
  <2>7. ~HasNow(c, n)
    BY <1>2 DEF HasNow
  <2>8. /\ FlagsArrive(q, id, {}, f.flags) /\ InOrder(q, id, 0, f.seq)
        /\ GivenFirst(q, id)
    BY <1>3, <1>7, <1>8, <2>5, <2>7 DEF ReaderFlags, FlagsReach
  \* the only assignment under the id is the one of the name
  <2>9. \A m \in msgs : m.name = n => m.id = id
    BY <2>1 DEF GoodAssign, Denotes
  <2>10. \A m \in msgs : m.id = id => m.name = n
    <3>1. TAKE m \in msgs
    <3>2. HAVE m.id = id
    <3>3. Denotes(id, m.name) /\ Denotes(id, n)
      BY <2>1, <2>5, <2>6, <3>2 DEF GoodAssign, Denotes
    <3>4. QED
      BY <2>4, <3>3, DenotesOne
  <2>11. Head(q).type = "ServerHello" /\ Head(q).assigns = msgs
    BY <1>2 DEF IsServerHello, msgs
  <2> HIDE DEF f
  <2>12. CASE \E m \in msgs : m.name = n
    <3>1. PICK m \in msgs : m.name = n
      BY <2>12
    <3>2. m.id = id /\ \A x \in msgs : x.id = id => x = m
      BY <1>2, <2>9, <2>10, <3>1 DEF IsSnapshot
    <3>3. HasNow(c, n)' /\ E(c, n)'.flags = m.flags /\ E(c, n)'.seq = m.seq
      <4>1. Alike(m, t.entries[n]) /\ m.value # NoValue
        BY <2>2, <2>4, <3>1
      <4>2. QED
        BY <1>2, <1>6, <2>3, <3>1, <4>1 DEF Alike, HasNow, Has
    <3>4. Dated(Head(q), id, m.seq)
      BY <2>11, <3>2 DEF Dated, IsServerHello
    <3>5. InOrder(Tail(q), id, m.seq, f.seq)
      BY <1>2, <2>4, <2>6, <2>8, <3>4, OrderTail
    <3>6. \A g \in BOOLEAN : SetsFlagsTo(Head(q), id, g) => g \in {m.flags}
      BY <2>11, <3>2 DEF SetsFlagsTo, IsServerHello
    <3>7. FlagsArrive(Tail(q), id, {m.flags}, f.flags)
      BY <1>2, <2>6, <2>8, <3>6, FlagsTail
    <3>8. QED
      BY <1>2, <2>5, <3>3, <3>5, <3>7 DEF FlagsReach, f
  <2>13. CASE ~\E m \in msgs : m.name = n
    <3>1. ~HasNow(c, n)'
      BY <1>6, <2>2, <2>13 DEF HasNow
    <3>2. \A m \in msgs : m.id # id
      BY <2>10, <2>13
    <3>3. /\ ~Gives(Head(q), id)
          /\ \A g \in BOOLEAN : ~SetsFlagsTo(Head(q), id, g)
      BY <2>11, <3>2 DEF Gives, SetsFlagsTo, IsServerHello
    <3>4. FlagsArrive(Tail(q), id, {}, f.flags)
      BY <1>2, <2>6, <2>8, <3>3, FlagsTail
    <3>5. InOrder(Tail(q), id, 0, f.seq)
      BY <1>2, <2>6, <2>8, OrderTail
    <3>6. GivenFirst(Tail(q), id)
      BY <1>2, <2>8, <3>3, GivenTail
    <3>7. QED
      BY <1>2, <2>5, <3>1, <3>4, <3>5, <3>6 DEF FlagsReach, f
  <2>14. QED
    BY <2>12, <2>13
<1>9. ReaderFlags(c)'
  <2>1. ASSUME Synced(c)' PROVE FlagsDenote(toClient[c])'
    <3>1. FlagsDenote(q)
      BY <1>3, <1>7, <2>1 DEF ReaderFlags
    <3>2. QED
      BY <1>2, <1>5, <3>1, DenoteTail DEF FlagsDenote
  <2>2. QED
    BY <1>8, <2>1 DEF ReaderFlags
<1>10. QED
  BY <1>1, <1>2, <1>9, FlagsConnection

\* The writer applies an empty snapshot: all its entries wait for an id.
LEMMA WriterAppliesFlags ==
    ASSUME IInv, IdInv, NEW w, SoleWriter(w), WriterInv(w), FlagsInv(w),
           ApplySnapshot(w)
    PROVE  FlagsInv(w)'
<1> DEFINE s == storage[w]
           msgs == Head(toClient[w]).assigns
           t == ApplyInitialAssignments(s, {})
           q == toClient[w]
<1>1. w \in Clients /\ TypeOK /\ s \in Store /\ w \in Nodes
  BY DEF SoleWriter, IInv, TypeOK, Nodes
<1>2. /\ storage'[w] = ApplyInitialAssignments(s, msgs) /\ client'[w] = "Active"
      /\ storage'[Server] = storage[Server]
      /\ toClient'[w] = Tail(q) /\ q \in Seq(ServerMsg) /\ q # << >>
      /\ UNCHANGED << session, link >>
      /\ \A d \in Clients \ {w} :
            /\ storage'[d] = storage[d] /\ client'[d] = client[d]
            /\ toServer'[d] = toServer[d] /\ toClient'[d] = toClient[d]
      /\ IsServerHello(Head(q)) /\ client[w] = "Handshake"
      /\ link[w] = "up" =>
            Range(toServer'[w]) =
                  {ClientHelloDone} \cup InitialRequests(s, msgs)
                                    \cup InitialUpdates(s, msgs)
  BY <1>1, ApplySnapshotState
<1>3. WriterOwns(w) /\ ToWriter(w) /\ ServerFollows(w)
  BY DEF WriterInv, Writer
<1>4. Range(q) = {Head(q)} \cup Range(Tail(q)) /\ Head(q) \in Range(q)
      /\ Tail(q) \in Seq(ServerMsg)
  BY <1>2, Messages
<1>5. msgs = {}
  <2>1. (IsServerHello(Head(q)) /\ msgs = {}) \/ Answer(w, Head(q))
    BY <1>3, <1>4 DEF ToWriter
  <2>2. QED
    BY <1>2, <2>1 DEF Answer, IsServerHello
<1>6. \A n \in Names : Has(s, n) => s.entries[n].localWrite
  BY <1>3 DEF WriterOwns, E, Exists
<1>7. /\ \A n \in Names : t.entries[n].id = NoId
      /\ InitialUpdates(s, {}) = {}
      /\ \A m \in InitialRequests(s, {}) : m.type = "EntryAssign"
  <2>1. /\ \A n \in Names : t.entries[n].id = NoId
        /\ InitialUpdates(s, {}) = {}
    BY <1>1, <1>6, EmptySnapshotEffect
  <2>2. \A m \in InitialRequests(s, {}) : m.type = "EntryAssign"
    BY DEF InitialRequests, EntryAssign
  <2>3. QED
    BY <2>1, <2>2
<1>8. storage'[w] = t
  BY <1>2, <1>5
<1> HIDE DEF t, msgs
<1>9. \A n \in Names : E(w, n)'.id = NoId /\ (Exists(Server, n)' <=> Exists(Server, n))
  BY <1>2, <1>7, <1>8 DEF E, Exists
<1>10. \A n \in Names : ~Exists(Server, n)
  <2>1. ~Joined(w)
    BY <1>2 DEF Joined
  <2>2. QED
    BY <1>3, <2>1, NothingBefore
<1>11. ASSUME link[w] = "up", NEW n \in Names PROVE FlagsWait(w, n)'
  <2>1. \A m \in Range(Tail(q)) : ~IsAnswer(m, n)
    <3>1. TAKE m \in Range(Tail(q))
    <3>2. IsServerHello(m) \/ Answer(w, m)
      BY <1>3, <1>4 DEF ToWriter
    <3>3. QED
      BY <1>10, <1>11, <3>2 DEF IsAnswer, Answer, IsServerHello, Denotes
  <2>2. \A i \in 1 .. Len(toClient'[w]) : ~IsAnswer(toClient'[w][i], n)
    BY <1>2, <1>4, <2>1, InRange
  <2>3. \A m : IsAnswer(m, n)' <=> IsAnswer(m, n)
    BY DEF IsAnswer
  <2>4. QED
    BY <1>9, <1>10, <2>2 DEF FlagsWait, IsAnswer
<1>12. ASSUME link[w] = "up" PROVE FlagsDenote(toServer[w])'
  <2>1. \A m \in Range(toServer'[w]) : m.type # "FlagsUpdate"
    BY <1>2, <1>5, <1>7, <1>12 DEF ClientHelloDone
  <2>2. QED
    BY <2>1 DEF FlagsDenote
<1>13. WriterFlags(w)'
  <2>1. Joined(w)' => link[w] = "up"
    BY <1>2 DEF Joined
  <2>2. QED
    BY <1>9, <1>11, <1>12, <2>1 DEF WriterFlags
<1>14. QED
  BY <1>1, <1>2, <1>13, FlagsConnection

-----------------------------------------------------------------------------
(* One writer: the flags that the clients read *)

\* The server's store is fit for the lemmas about messages.
LEMMA ServerReady ==
    ASSUME IInv, NEW w, SoleWriter(w), WriterOwns(w), ServerFollows(w)
    PROVE  LET s == storage[Server] IN
           /\ s \in Store /\ s.server /\ Ready(s)
           /\ \A n \in Names : Exists(Server, n) =>
                 /\ E(Server, n).id # NoId /\ Known(s, E(Server, n).id)
                 /\ NameOf(s, E(Server, n).id) = n
<1> DEFINE s == storage[Server]
<1>1. /\ TypeOK /\ Server \in Nodes /\ s \in Store /\ s.server
      /\ \A n \in Names : Exists(Server, n) <=> E(Server, n).id # NoId
      /\ \A id \in Nat : Known(s, id) =>
            NameOf(s, id) \in Names /\ Denotes(id, NameOf(s, id))
      /\ \A id \in Nat, n \in Names : Denotes(id, n) =>
            Known(s, id) /\ NameOf(s, id) = n
  BY ServerIds DEF IInv, Nodes
<1>2. \A n \in Names : /\ Has(s, n) <=> Exists(Server, n)
                       /\ s.entries[n] = E(Server, n)
                       /\ E(Server, n).id \in Nat /\ E(Server, n).seq \in Nat
  BY <1>1, EntrySeqs DEF E, Exists
<1>3. \A n \in Names : Has(s, n) => s.entries[n].seq < Half
  <2>1. \A n \in Names : Exists(Server, n) =>
           Wrote(w, n, E(Server, n).seq, E(Server, n).value)
    BY DEF ServerFollows
  <2>2. QED
    BY <1>1, <1>2, <2>1, SmallWrites
<1>4. \A id \in Nat : Known(s, id) =>
         Has(s, NameOf(s, id)) /\ s.entries[NameOf(s, id)].id = id
  BY <1>1, <1>2 DEF Denotes
<1>5. \A n \in Names : Exists(Server, n) =>
         /\ E(Server, n).id # NoId /\ Known(s, E(Server, n).id)
         /\ NameOf(s, E(Server, n).id) = n
  BY <1>1, <1>2 DEF Denotes
<1>6. Ready(s)
  BY <1>1, <1>2, <1>3, <1>4 DEF Ready
<1>7. QED
  BY <1>1, <1>5, <1>6

\* And so is that of a connected client.
LEMMA ClientReady ==
    ASSUME IInv, IdInv, NEW w, ServerFollows(w), NEW c \in Clients, Joined(c),
           Live(c), \A n \in Names : Exists(c, n) => E(c, n).seq < Half
    PROVE  LET s == storage[c] IN
           /\ s \in Store /\ ~s.server /\ Ready(s)
           /\ \A n \in Names : E(c, n).id # NoId =>
                 /\ Denotes(E(c, n).id, n) /\ Known(s, E(c, n).id)
                 /\ NameOf(s, E(c, n).id) = n
           /\ \A id \in Nat : Known(s, id) => Denotes(id, NameOf(s, id))
<1> DEFINE s == storage[c]
<1>1. /\ s \in Store /\ ~s.server
      /\ \A id \in Nat : Known(s, id) =>
            NameOf(s, id) \in Names /\ Denotes(id, NameOf(s, id))
      /\ \A n \in Names : E(c, n).id # NoId =>
            Denotes(E(c, n).id, n) /\ Known(s, E(c, n).id)
  BY ClientIds
<1>2. \A n \in Names : /\ Has(s, n) <=> Exists(c, n)
                       /\ s.entries[n] = E(c, n) /\ E(c, n).id \in Nat
  BY <1>1, StoreFields DEF E, Exists
<1>3. ASSUME NEW id \in Nat, Known(s, id)
      PROVE  Has(s, NameOf(s, id)) /\ s.entries[NameOf(s, id)].id = id
  <2>1. id + 1 \in 1 .. Len(s.idmap) /\ s.idmap[id + 1] # NoName
    BY <1>1, <1>3, KnownName DEF Known
  <2>2. Exists(c, NameOf(s, id)) /\ E(c, NameOf(s, id)).id = (id + 1) - 1
    BY <2>1 DEF Live, NameOf
  <2>3. QED
    BY <2>2 DEF Exists, E
<1>4. \A n \in Names : E(c, n).id # NoId => NameOf(s, E(c, n).id) = n
  BY DEF IdInv, EveryIdResolves, IdsResolve, E, Nodes
<1>5. Ready(s)
  BY <1>1, <1>2, <1>3 DEF Ready
<1>6. QED
  BY <1>1, <1>4, <1>5

\* A message that goes around.
LEMMA GoodMessage ==
    ASSUME IInv, IdInv, NEW w, SoleWriter(w), WriterOwns(w),
           NEW m \in ClientMsg \cup ServerMsg,
           \/ GoodRequest(w, m) \/ GoodAssign(w, m) \/ GoodUpdate(w, m)
           \/ m.type = "FlagsUpdate"
    PROVE  /\ m \in AssignMsg \cup UpdateMsg \cup FlagsMsg
           /\ m.type \in {"EntryAssign", "EntryUpdate", "FlagsUpdate"}
           /\ m.id \in Nat
           /\ m.type \in {"EntryAssign", "EntryUpdate"} =>
                 m.seq \in SeqNums /\ m.seq \in Nat /\ m.seq < Half
           /\ m.type = "EntryAssign" /\ m.id # NoId =>
                 \A n \in Names : Exists(Server, n) =>
                    (m.name = n <=> m.id = E(Server, n).id)
<1>1. TypeOK
  BY DEF IInv
<1>2. /\ m.type = "EntryAssign" => m \in AssignMsg
      /\ m.type = "EntryUpdate" => m \in UpdateMsg
      /\ m.type = "FlagsUpdate" => m \in FlagsMsg
      /\ m.type \in {"EntryAssign", "EntryUpdate", "FlagsUpdate"}
  BY MsgKinds DEF GoodRequest, GoodAssign, GoodUpdate
<1>3. /\ m.id \in Nat
      /\ m.type \in {"EntryAssign", "EntryUpdate"} =>
            m.seq \in SeqNums /\ m.seq \in Nat
      /\ m.type = "EntryAssign" => m.name \in Names
  BY <1>2, MsgFields DEF SeqNums
<1>4. m.type \in {"EntryAssign", "EntryUpdate"} => m.seq < Half
  BY <1>1, <1>3, SmallWrites DEF GoodRequest, GoodAssign, GoodUpdate
<1>5. ASSUME m.type = "EntryAssign", m.id # NoId, NEW n \in Names, Exists(Server, n)
      PROVE  m.name = n <=> m.id = E(Server, n).id
  <2>1. Denotes(m.id, m.name)
    BY <1>5 DEF GoodRequest, GoodAssign, GoodUpdate
  <2>2. m.id = E(Server, n).id => Denotes(m.id, n)
    BY <1>5 DEF Denotes
  <2>3. QED
    BY <1>3, <1>5, <2>1, <2>2, DenotesOne DEF Denotes
<1>6. QED
  BY <1>2, <1>3, <1>4, <1>5

\* A number at the head of the queue is not older than what the reader has.
LEMMA HeadInOrder ==
    ASSUME NEW T, NEW q \in Seq(T), q # << >>, NEW id, NEW lo \in Nat,
           NEW hi \in Nat, InOrder(q, id, lo, hi),
           Head(q).type \in {"EntryAssign", "EntryUpdate"}, Head(q).id = id,
           Head(q).seq \in SeqNums
    PROVE  lo <= Head(q).seq /\ InOrder(Tail(q), id, Head(q).seq, hi)
<1>1. Dated(Head(q), id, Head(q).seq)
  BY DEF Dated
<1>2. QED
  BY <1>1, OrderTail

\* A listening client reads a message about an entry it has.
LEMMA ReaderHearsFlags ==
    ASSUME IInv, IdInv, NEW w, SoleWriter(w), WriterInv(w), FlagsInv(w),
           NEW c \in Clients \ {w}, Joined(c), Synced(c),
           NEW m \in ServerMsg, toClient[c] # << >>, m = Head(toClient[c]),
           ~IsServerHello(m), NEW n \in Names, Exists(Server, n), Exists(c, n)
    PROVE  LET f == E(Server, n)
               x == ProcessIncoming(storage[c], m).store.entries[n]
           IN  /\ FlagsArrive(Tail(toClient[c]), f.id, {x.flags}, f.flags)
               /\ InOrder(Tail(toClient[c]), f.id, x.seq, f.seq)
<1> DEFINE s == storage[c]
           q == toClient[c]
           e == E(c, n)
           f == E(Server, n)
           x == ProcessIncoming(s, m).store.entries[n]
<1>1. TypeOK /\ c \in Nodes /\ q \in Seq(ServerMsg) /\ w \in Clients
  BY DEF IInv, TypeOK, Nodes, SoleWriter
<1>2. Reader(w, c) /\ ServerFollows(w) /\ Live(c) /\ WriterOwns(w) /\ ReaderFlags(c)
  BY <1>1 DEF WriterInv, Writer, FlagsInv
<1>3. /\ GoodAssign(w, m) \/ GoodUpdate(w, m) \/ m.type = "FlagsUpdate"
  <2>1. m \in Range(q)
    BY <1>1, Messages
  <2>2. QED
    BY <1>2, <2>1 DEF Reader, ToReader, GoodHello
<1>4. \A y \in Names : Exists(c, y) => E(c, y).id # NoId /\ E(c, y).seq < Half
  <2>1. \A y \in Names : Exists(c, y) =>
           E(c, y).id # NoId /\ Wrote(w, y, E(c, y).seq, E(c, y).value)
    BY <1>2 DEF Reader, ReaderFollows
  <2>2. \A y \in Names : E(c, y).seq \in Nat
    BY <1>1, EntrySeqs
  <2>3. QED
    BY <1>1, <1>2, <2>1, <2>2, SmallWrites
<1>5. /\ s \in Store /\ Ready(s)
      /\ Denotes(e.id, n) /\ Known(s, e.id) /\ NameOf(s, e.id) = n
  BY <1>2, <1>4, ClientReady
<1>6. /\ Has(s, n) /\ s.entries[n] = e /\ e.id # NoId /\ e.id = f.id
      /\ e \in Entry /\ f \in Entry /\ f.seq \in Nat /\ f.flags \in BOOLEAN
      /\ e.seq \in Nat
  <2>1. e \in Entry /\ f \in Entry /\ f.seq \in Nat /\ e.seq \in Nat
    BY <1>1, EntrySeqs DEF Nodes
  <2>2. QED
    BY <1>4, <1>5, <2>1 DEF Denotes, E, Exists, Entry
<1>7. FlagsArrive(q, f.id, {e.flags}, f.flags) /\ InOrder(q, f.id, e.seq, f.seq)
  BY <1>2 DEF ReaderFlags, FlagsReach, HasNow, Joined
<1>8. /\ m \in AssignMsg \cup UpdateMsg \cup FlagsMsg
      /\ m.type \in {"EntryAssign", "EntryUpdate"} =>
            m.seq \in SeqNums /\ m.seq \in Nat /\ m.seq < Half
      /\ m.type = "EntryAssign" /\ m.id # NoId => (m.name = n <=> m.id = f.id)
  BY <1>2, <1>3, GoodMessage
<1>9. m.type \in {"EntryAssign", "EntryUpdate"} /\ m.id = f.id => e.seq <= m.seq
  BY <1>1, <1>6, <1>7, <1>8, HeadInOrder
<1> HIDE DEF s, e, f, x, q
<1>10. x \in Entry /\ Leads(m, e.id, e, x)
  BY <1>5, <1>6, <1>8, <1>9, HearsFlags DEF x
<1>11. FlagsArrive(Tail(q), f.id, {x.flags}, f.flags) /\ InOrder(Tail(q), f.id, x.seq, f.seq)
  BY <1>1, <1>6, <1>7, <1>10, LeadsHeard DEF q
<1>12. QED
  BY <1>11 DEF x, f, q, s

\* And about one it does not have: it gets the entry with the flags of the
\* assignment, or nothing.
LEMMA ReaderLearnsFlags ==
    ASSUME IInv, IdInv, NEW w, SoleWriter(w), WriterInv(w), FlagsInv(w),
           NEW c \in Clients \ {w}, Joined(c), Synced(c),
           NEW m \in ServerMsg, toClient[c] # << >>, m = Head(toClient[c]),
           ~IsServerHello(m), NEW n \in Names, Exists(Server, n), ~Exists(c, n)
    PROVE  LET f == E(Server, n)
               t == ProcessIncoming(storage[c], m).store
               x == t.entries[n]
               q == Tail(toClient[c])
           IN  IF Has(t, n)
               THEN FlagsArrive(q, f.id, {x.flags}, f.flags)
                    /\ InOrder(q, f.id, x.seq, f.seq)
               ELSE FlagsArrive(q, f.id, {}, f.flags)
                    /\ InOrder(q, f.id, 0, f.seq) /\ GivenFirst(q, f.id)
<1> DEFINE s == storage[c]
           q == toClient[c]
           f == E(Server, n)
           t == ProcessIncoming(s, m).store
           x == t.entries[n]
<1>1. TypeOK /\ c \in Nodes /\ q \in Seq(ServerMsg) /\ w \in Clients
  BY DEF IInv, TypeOK, Nodes, SoleWriter
<1>2. Reader(w, c) /\ ServerFollows(w) /\ Live(c) /\ WriterOwns(w) /\ ReaderFlags(c)
  BY <1>1 DEF WriterInv, Writer, FlagsInv
<1>3. q[1] = m /\ m \in Range(q) /\ 1 \in 1 .. Len(q)
  BY <1>1, Messages, TailFacts
<1>4. GoodAssign(w, m) \/ GoodUpdate(w, m) \/ m.type = "FlagsUpdate"
  BY <1>2, <1>3 DEF Reader, ToReader, GoodHello
<1>5. \A y \in Names : Exists(c, y) => E(c, y).seq < Half
  <2>1. \A y \in Names : Exists(c, y) => Wrote(w, y, E(c, y).seq, E(c, y).value)
    BY <1>2 DEF Reader, ReaderFollows
  <2>2. \A y \in Names : E(c, y).seq \in Nat
    BY <1>1, EntrySeqs
  <2>3. QED
    BY <1>1, <1>2, <2>1, <2>2, SmallWrites
<1>6. /\ s \in Store /\ ~s.server /\ Ready(s)
      /\ \A id \in Nat : Known(s, id) => Denotes(id, NameOf(s, id))
      /\ ~Has(s, n)
  BY <1>2, <1>5, ClientReady DEF Exists
<1>7. f.seq \in Nat /\ f.flags \in BOOLEAN /\ f.id # NoId /\ Denotes(f.id, n)
  <2>1. f \in Entry /\ f.seq \in Nat
    BY <1>1, EntrySeqs DEF Nodes
  <2>2. f.id # NoId
    BY <1>2, ServerIds
  <2>3. QED
    BY <2>1, <2>2 DEF Entry, Denotes
<1>8. /\ FlagsArrive(q, f.id, {}, f.flags) /\ InOrder(q, f.id, 0, f.seq)
      /\ GivenFirst(q, f.id)
  BY <1>2 DEF ReaderFlags, FlagsReach, HasNow
<1>9. /\ m \in AssignMsg \cup UpdateMsg \cup FlagsMsg
      /\ m.type \in {"EntryAssign", "EntryUpdate", "FlagsUpdate"} /\ m.id \in Nat
      /\ m.type \in {"EntryAssign", "EntryUpdate"} =>
            m.seq \in SeqNums /\ m.seq \in Nat /\ m.seq < Half
      /\ m.type = "EntryAssign" /\ m.id # NoId => (m.name = n <=> m.id = f.id)
      /\ m.type = "EntryAssign" => m.id # NoId
      /\ m.type = "EntryAssign" => m \in AssignMsg
      /\ m.type = "EntryUpdate" => m \in UpdateMsg
      /\ m.type = "FlagsUpdate" => m \in FlagsMsg
  <2>1. m.type = "EntryAssign" => m.id # NoId
    BY <1>4 DEF GoodAssign, GoodUpdate, Denotes
  <2>2. QED
    BY <1>2, <1>4, <2>1, GoodMessage, MsgKinds
<1>10. \A id \in Nat : Known(s, id) /\ NameOf(s, id) = n => FALSE
  BY <1>6 DEF Ready
<1>11. ~Known(s, f.id)
  <2>1. f.id \in Nat
    BY <1>1, EntrySeqs DEF Nodes
  <2>2. Known(s, f.id) => NameOf(s, f.id) \in Names
    BY <1>6, <2>1, KnownName
  <2>3. QED
    BY <1>6, <1>7, <1>10, <2>1, <2>2, DenotesOne
<1>12. CASE m.type = "EntryAssign" /\ m.id = f.id
  <2>1. m.name = n /\ m \in AssignMsg /\ m.id # NoId /\ ~Known(s, m.id)
    BY <1>9, <1>11, <1>12
  <2>2. m.value # NoValue /\ m.flags \in BOOLEAN
    BY <2>1, MsgFields
  <2> HIDE DEF s
  <2>3. x.flags = m.flags
    BY <1>6, <2>1, NewAssignmentFlags
  <2>4. x.value = m.value /\ x.seq = m.seq
    BY <1>6, <2>1, NewAssignmentEffect
  <2>5. Has(t, n)
    BY <2>2, <2>4 DEF Has
  <2>6. InOrder(Tail(q), f.id, m.seq, f.seq)
    BY <1>1, <1>7, <1>8, <1>9, <1>12, HeadInOrder
  <2>7. \A g \in BOOLEAN : SetsFlagsTo(Head(q), f.id, g) => g \in {m.flags}
    BY <1>12 DEF SetsFlagsTo, IsServerHello
  <2>8. FlagsArrive(Tail(q), f.id, {m.flags}, f.flags)
    BY <1>1, <1>7, <1>8, <2>7, FlagsTail
  <2> HIDE DEF x, t, f
  <2>9. FlagsArrive(Tail(q), f.id, {x.flags}, f.flags)
        /\ InOrder(Tail(q), f.id, x.seq, f.seq)
    BY <2>3, <2>4, <2>6, <2>8
  <2>10. QED
    BY <2>5, <2>9 DEF x, t, f, s
<1>13. CASE ~(m.type = "EntryAssign" /\ m.id = f.id)
  <2>1. ~Gives(Head(q), f.id)
    BY <1>13 DEF Gives
  <2>2. GivenFirst(Tail(q), f.id) /\ ~(m.type = "FlagsUpdate" /\ m.id = f.id)
    BY <1>1, <1>8, <2>1, GivenTail
  <2>3. m.type = "EntryUpdate" => m.id # f.id
    <3>1. SUFFICES ASSUME m.type = "EntryUpdate", m.id = f.id PROVE FALSE
      OBVIOUS
    <3>2. q[1].type = "EntryUpdate" /\ Denotes(q[1].id, n)
      BY <1>3, <1>7, <3>1
    <3>3. ~HasNow(c, n) /\ 1 .. (1 - 1) = {}
      BY DEF HasNow
    <3>4. QED
      BY <1>2, <1>3, <3>2, <3>3 DEF Reader, AssignedFirst
  <2>4. m.id # f.id
    BY <1>9, <1>13, <2>2, <2>3
  <2>5. \A g \in BOOLEAN : ~SetsFlagsTo(Head(q), f.id, g)
    BY <2>4 DEF SetsFlagsTo
  <2>6. FlagsArrive(Tail(q), f.id, {}, f.flags)
    BY <1>1, <1>7, <1>8, <2>5, FlagsTail
  <2>7. InOrder(Tail(q), f.id, 0, f.seq)
    BY <1>1, <1>7, <1>8, OrderTail
  <2> HIDE DEF s
  <2>8. ~Has(t, n)
    <3>1. CASE m.type = "FlagsUpdate"
      <4>1. t.entries[n].value = s.entries[n].value
        <5>1. m \in FlagsMsg
          BY <1>9, <3>1
        <5>2. SameContent(s, t)
          BY <1>6, <5>1, FlagsMessageEffect
        <5> HIDE DEF t
        <5>3. QED
          BY <5>2 DEF SameContent, Alike
      <4>2. QED
        BY <1>6, <4>1 DEF Has
    <3>2. CASE m.type \in {"EntryAssign", "EntryUpdate"}
      <4>1. m \in AssignMsg \cup UpdateMsg /\ m.seq < Half
        BY <1>9, <3>2
      <4>2. m.type = "EntryAssign" => m.name # n
        BY <1>9, <1>13
      <4>3. Known(s, m.id) => NameOf(s, m.id) # n
        BY <1>9, <1>10
      <4>4. t.entries[n] = s.entries[n]
        BY <1>6, <4>1, <4>2, <4>3, OthersKept
      <4>5. QED
        BY <1>6, <4>4 DEF Has
    <3>3. QED
      BY <1>9, <3>1, <3>2
  <2> HIDE DEF t, f
  <2>9. QED
    BY <2>2, <2>6, <2>7, <2>8 DEF t, f, s
<1>14. QED
  BY <1>12, <1>13

\* A listening client reads a message.
LEMMA ReaderReceivesFlags ==
    ASSUME IInv, IdInv, NEW w, SoleWriter(w), WriterInv(w), FlagsInv(w),
           NEW c \in Clients \ {w}, ClientReceive(c)
    PROVE  FlagsInv(w)'
<1> DEFINE s == storage[c]
           q == toClient[c]
           m == Head(q)
           t == ProcessIncoming(s, m).store
<1>1. w \in Clients /\ TypeOK
  BY DEF SoleWriter, IInv
<1>2. /\ storage'[c] = t /\ storage'[Server] = storage[Server]
      /\ toClient'[c] = Tail(q) /\ q \in Seq(ServerMsg) /\ q # << >>
      /\ m \in ServerMsg /\ Range(q) = {m} \cup Range(Tail(q))
      /\ UNCHANGED << client, session, link >>
      /\ \A d \in Clients \ {c} :
            /\ storage'[d] = storage[d]
            /\ toServer'[d] = toServer[d] /\ toClient'[d] = toClient[d]
      /\ client[c] = "Active"
      /\ link[c] = "up" => Synced(c) /\ Joined(c) /\ ~IsServerHello(m)
  BY ClientReceiveState
<1>3. Reader(w, c) /\ ServerFollows(w) /\ Live(c) /\ WriterOwns(w) /\ ReaderFlags(c)
  BY <1>1 DEF WriterInv, Writer, FlagsInv
<1>4. \A n \in Names : /\ E(c, n)' = t.entries[n]
                       /\ Exists(c, n)' <=> Has(t, n)
                       /\ E(Server, n)' = E(Server, n)
                       /\ Exists(Server, n)' <=> Exists(Server, n)
  BY <1>2 DEF E, Exists
<1>5. ASSUME Synced(c)', NEW n \in Names, Exists(Server, n)'
      PROVE  FlagsReach(c, n)'
  <2>1. Synced(c) /\ Joined(c) /\ ~IsServerHello(m) /\ Exists(Server, n)
    BY <1>2, <1>4, <1>5 DEF Synced
  <2>2. PICK f : f = E(Server, n)
    OBVIOUS
  <2>3. IF Has(t, n)
        THEN FlagsArrive(Tail(q), f.id, {t.entries[n].flags}, f.flags)
             /\ InOrder(Tail(q), f.id, t.entries[n].seq, f.seq)
        ELSE FlagsArrive(Tail(q), f.id, {}, f.flags)
             /\ InOrder(Tail(q), f.id, 0, f.seq) /\ GivenFirst(Tail(q), f.id)
    <3>1. CASE Exists(c, n)
      <4>1. /\ FlagsArrive(Tail(q), f.id, {t.entries[n].flags}, f.flags)
            /\ InOrder(Tail(q), f.id, t.entries[n].seq, f.seq)
        BY <1>2, <2>1, <2>2, <3>1, ReaderHearsFlags
      <4>2. Has(t, n)
        <5>1. \A x \in Names : Has(s, x) => Has(t, x)
          BY <1>2, <1>3, <2>1, ReaderHears
        <5>2. QED
          BY <3>1, <5>1 DEF Exists
      <4>3. QED
        BY <4>1, <4>2
    <3>2. CASE ~Exists(c, n)
      BY <1>2, <2>1, <2>2, <3>2, ReaderLearnsFlags
    <3>3. QED
      BY <3>1, <3>2
  <2> HIDE DEF t, q
  <2>4. HasNow(c, n)' <=> Has(t, n)
    BY <1>2, <1>4 DEF HasNow
  <2>5. E(Server, n)' = f
    BY <1>4, <2>2
  <2>6. QED
    BY <1>2, <1>4, <2>3, <2>4, <2>5 DEF FlagsReach
<1>6. ReaderFlags(c)'
  <2>1. ASSUME Synced(c)' PROVE FlagsDenote(toClient[c])'
    <3>1. FlagsDenote(q) /\ Range(Tail(q)) \subseteq Range(q)
      BY <1>2, <1>3, <2>1 DEF ReaderFlags, Synced
    <3>2. QED
      BY <1>2, <3>1, DenoteTail DEF FlagsDenote
  <2>2. QED
    BY <1>5, <2>1 DEF ReaderFlags
<1>7. QED
  BY <1>1, <1>2, <1>6, FlagsConnection

-----------------------------------------------------------------------------
(* One writer: the flags that the writer reads *)

\* Messages about other entries change nothing.
LEMMA SilentAppend ==
    ASSUME NEW T, NEW q \in Seq(T), NEW out \in Seq(T), NEW id, NEW from, NEW to,
           NEW lo, NEW hi, FlagsArrive(q, id, from, to), InOrder(q, id, lo, hi),
           Silent(out, id)
    PROVE  FlagsArrive(q \o out, id, from, to) /\ InOrder(q \o out, id, lo, hi)
<1> DEFINE r == q \o out
<1>1. /\ Len(q) \in Nat /\ Len(out) \in Nat /\ Len(r) = Len(q) + Len(out)
      /\ \A i \in 1 .. Len(q) : r[i] = q[i]
      /\ \A i \in 1 .. Len(r) : i > Len(q) =>
            r[i] = out[i - Len(q)] /\ i - Len(q) \in 1 .. Len(out)
  OBVIOUS
<1> HIDE DEF r
<1>2. \A i \in 1 .. Len(out) : ~SetsFlags(out[i], id)
  BY DEF Silent, SetsFlags, SetsFlagsTo
<1>3. \A i \in 1 .. Len(out), x \in SeqNums : ~Dated(out[i], id, x)
  BY DEF Silent, Dated
<1>4. FlagsArrive(r, id, from, to)
  <2>1. CASE to \in from /\ \A i \in 1 .. Len(q) : ~SetsFlags(q[i], id)
    <3>1. \A i \in 1 .. Len(r) : ~SetsFlags(r[i], id)
      BY <1>1, <1>2, <2>1
    <3>2. QED
      BY <2>1, <3>1 DEF FlagsArrive
  <2>2. CASE \E i \in 1 .. Len(q) :
                /\ SetsFlagsTo(q[i], id, to)
                /\ \A j \in (i + 1) .. Len(q) : ~SetsFlags(q[j], id)
    <3>1. PICK i \in 1 .. Len(q) :
                /\ SetsFlagsTo(q[i], id, to)
                /\ \A j \in (i + 1) .. Len(q) : ~SetsFlags(q[j], id)
      BY <2>2
    <3>2. i \in 1 .. Len(r) /\ SetsFlagsTo(r[i], id, to)
      BY <1>1, <3>1
    <3>3. \A j \in (i + 1) .. Len(r) : ~SetsFlags(r[j], id)
      BY <1>1, <1>2, <3>1
    <3>4. QED
      BY <3>2, <3>3 DEF FlagsArrive
  <2>3. QED
    BY <2>1, <2>2 DEF FlagsArrive
<1>5. InOrder(r, id, lo, hi)
  <2>1. /\ lo <= hi
        /\ \A i \in 1 .. Len(q), x \in SeqNums : Dated(q[i], id, x) =>
              /\ lo <= x /\ x <= hi
              /\ \A j \in (i + 1) .. Len(q), y \in SeqNums :
                    Dated(q[j], id, y) => x <= y
    BY DEF InOrder
  <2>2. \A i \in 1 .. Len(r), x \in SeqNums : Dated(r[i], id, x) =>
           i \in 1 .. Len(q) /\ r[i] = q[i]
    BY <1>1, <1>3
  <2>3. ASSUME NEW i \in 1 .. Len(r), NEW x \in SeqNums, Dated(r[i], id, x)
        PROVE  /\ lo <= x /\ x <= hi
               /\ \A j \in (i + 1) .. Len(r), y \in SeqNums :
                     Dated(r[j], id, y) => x <= y
    <3>1. i \in 1 .. Len(q) /\ Dated(q[i], id, x)
      BY <2>2, <2>3
    <3>2. ASSUME NEW j \in (i + 1) .. Len(r), NEW y \in SeqNums, Dated(r[j], id, y)
          PROVE  x <= y
      <4>1. j \in 1 .. Len(r)
        BY <1>1, <3>1
      <4>2. j \in 1 .. Len(q) /\ Dated(q[j], id, y)
        BY <2>2, <3>2, <4>1
      <4>3. j \in (i + 1) .. Len(q)
        BY <1>1, <3>1, <4>2
      <4>4. QED
        BY <2>1, <3>1, <4>2, <4>3
    <3>3. QED
      BY <2>1, <3>1, <3>2
  <2>4. QED
    BY <2>1, <2>3 DEF InOrder
<1>6. QED
  BY <1>4, <1>5 DEF r

\* What a client sends that has learned an id: its flags if they differ, and
\* then, perhaps, its value.
Reflags(out, id, f, g, k, v) ==
    LET reflag == IF f # g THEN << FlagsUpdate(id, g) >> ELSE << >>
    IN  out \in {reflag, Append(reflag, EntryUpdate(id, k, v))}

\* Only updates of one entry.
OnlyUpdates(out, id) == \A i \in 1 .. Len(out) :
    out[i].type \in {"FlagsUpdate", "EntryUpdate"} /\ out[i].id = id

\* It does so behind messages that do not touch the entry; the server's number
\* is `lo`, its own `hi`.
ReflagsBehind(q, out, id, f, g, lo, hi, v) ==
    /\ q \in Seq(ClientMsg) /\ f \in BOOLEAN /\ g \in BOOLEAN
    /\ lo \in Nat /\ hi \in Nat /\ lo <= hi /\ Silent(q, id)
    /\ FlagsUpdate(id, g) \in ClientMsg /\ EntryUpdate(id, hi, v) \in ClientMsg
    /\ Reflags(out, id, f, g, hi, v)

\* The server then gets its flags, and no later number than its own.
LEMMA ReflagAppend ==
    ASSUME NEW q, NEW out, NEW id, NEW f, NEW g, NEW lo, NEW hi, NEW v,
           ReflagsBehind(q, out, id, f, g, lo, hi, v)
    PROVE  /\ FlagsArrive(q \o out, id, {f}, g) /\ InOrder(q \o out, id, lo, hi)
           /\ out \in Seq(ClientMsg)
           /\ OnlyUpdates(out, id)
<1> DEFINE F == FlagsUpdate(id, g)
           U == EntryUpdate(id, hi, v)
           reflag == IF f # g THEN << F >> ELSE << >>
           p == q \o reflag
<1>0. out = reflag \/ out = Append(reflag, U)
  BY DEF ReflagsBehind, Reflags
<1> PICK T : T = ClientMsg
  OBVIOUS
<1> SUFFICES ASSUME q \in Seq(T), f \in BOOLEAN, g \in BOOLEAN, lo \in Nat,
                    hi \in Nat, lo <= hi, Silent(q, id), F \in T, U \in T
             PROVE  /\ FlagsArrive(q \o out, id, {f}, g)
                    /\ InOrder(q \o out, id, lo, hi)
                    /\ out \in Seq(T)
                    /\ \A i \in 1 .. Len(out) :
                          out[i].type \in {"FlagsUpdate", "EntryUpdate"} /\ out[i].id = id
  BY DEF ReflagsBehind, OnlyUpdates
<1>1. FlagsArrive(q, id, {f}, f) /\ InOrder(q, id, lo, hi)
  BY SilentArrives
<1>2. /\ F.type = "FlagsUpdate" /\ F.id = id /\ F.flags = g
      /\ U.type = "EntryUpdate" /\ U.id = id /\ U.seq = hi
  BY DEF FlagsUpdate, EntryUpdate
<1> HIDE DEF F, U
<1>3. reflag = IF f # g THEN << F >> ELSE << >>
  OBVIOUS
<1> HIDE DEF reflag
<1>4. F \in T /\ U \in T
  OBVIOUS
<1>5. SetsFlagsTo(F, id, g) /\ \A x \in SeqNums : ~Dated(F, id, x)
  BY <1>2 DEF SetsFlagsTo, Dated, IsServerHello
<1>6. ~SetsFlags(U, id) /\ \A x \in SeqNums : Dated(U, id, x) => x = hi
  BY <1>2 DEF SetsFlags, SetsFlagsTo, Dated, IsServerHello
<1>7. p \in Seq(T) /\ FlagsArrive(p, id, {f}, g) /\ InOrder(p, id, lo, hi)
  <2>1. CASE f # g
    <3>1. reflag = << F >>
      BY <1>3, <2>1
    <3>2. q \o << F >> \in Seq(T)
      BY <1>4
    <3>3. FlagsArrive(q \o << F >>, id, {f}, g)
      BY <1>1, <1>4, <1>5, FlagsAppend
    <3>4. InOrder(q \o << F >>, id, lo, hi)
      BY <1>1, <1>4, <1>5, OrderAppend
    <3>5. QED
      BY <3>1, <3>2, <3>3, <3>4
  <2>2. CASE f = g
    <3>1. reflag = << >> /\ p = q
      BY <1>3, <2>2
    <3> HIDE DEF p
    <3>2. QED
      BY <1>1, <2>2, <3>1
  <2>3. QED
    BY <2>1, <2>2
<1>8. CASE out = reflag
  <2>1. FlagsArrive(q \o out, id, {f}, g) /\ InOrder(q \o out, id, lo, hi)
    BY <1>7, <1>8
  <2>2. out = << F >> \/ out = << >>
    BY <1>3, <1>8
  <2>3. << F >> \in Seq(T) /\ << >> \in Seq(T) /\ Len(<< F >>) = 1
        /\ << F >>[1] = F /\ Len(<< >>) = 0 /\ 1 .. 0 = {}
    BY <1>4
  <2> HIDE DEF p
  <2>4. out \in Seq(T) /\ \A i \in 1 .. Len(out) : out[i] = F
    <3>1. CASE out = << F >>
      BY <2>3, <3>1
    <3>2. CASE out = << >>
      BY <2>3, <3>2
    <3>3. QED
      BY <2>2, <3>1, <3>2
  <2>5. QED
    BY <1>2, <2>1, <2>4 DEF F, U
<1>9. CASE out = Append(reflag, U)
  <2>1. reflag \in Seq(T)
    BY <1>3, <1>4
  <2>2. q \o out = p \o << U >>
    BY <1>4, <1>9, <2>1
  <2> HIDE DEF p
  <2>3. FlagsArrive(p \o << U >>, id, {f}, g)
    BY <1>4, <1>6, <1>7, FlagsAppend
  <2>4. InOrder(p \o << U >>, id, lo, hi)
    BY <1>4, <1>6, <1>7, OrderAppend
  <2>5. out \in Seq(T) /\ \A i \in 1 .. Len(out) : out[i] \in {F, U}
    <3>1. reflag = << F >> \/ reflag = << >>
      BY <1>3
    <3>2. \A i \in 1 .. Len(reflag) : reflag[i] = F
      BY <3>1
    <3>3. Len(out) = Len(reflag) + 1 /\ Len(reflag) \in Nat
          /\ \A i \in 1 .. Len(reflag) : out[i] = reflag[i]
      BY <1>4, <1>9, <2>1
    <3>4. out[Len(out)] = U /\ out \in Seq(T)
      BY <1>4, <1>9, <2>1
    <3>5. QED
      BY <3>2, <3>3, <3>4
  <2>6. QED
    BY <1>2, <2>2, <2>3, <2>4, <2>5 DEF F, U
<1>10. QED
  BY <1>0, <1>8, <1>9 DEF U

\* The writer learns an id: it keeps its flags, and says so to the server if
\* those of the answer, which are the server's, differ.
LEMMA LearnsIdFlags ==
    ASSUME IInv, IdInv, NEW w, SoleWriter(w), WriterInv(w), FlagsInv(w),
           Joined(w), toClient[w] # << >>, NEW m, m = Head(toClient[w]),
           Answer(w, m)
    PROVE  LET r == ProcessIncoming(storage[w], m)
               t == r.store
               n == m.name
               e == E(w, n)
               f == E(Server, n)
           IN  /\ n \in Names /\ e.id = NoId /\ Denotes(m.id, n)
               /\ \A x \in Names \ {n} : t.entries[x] = E(w, x)
               /\ t.entries[n].id = m.id /\ t.entries[n].flags = e.flags
               /\ t.entries[n].seq = e.seq
               /\ \A x \in Names : Has(t, x) <=> Exists(w, x)
               /\ FlagsArrive(toServer[w] \o r.out, m.id, {f.flags}, e.flags)
               /\ InOrder(toServer[w] \o r.out, m.id, f.seq, e.seq)
               /\ r.out \in Seq(ClientMsg)
               /\ OnlyUpdates(r.out, m.id)
               /\ \A y \in Range(Tail(toClient[w])) : ~IsAnswer(y, n)
<1> DEFINE s == storage[w]
           q == toClient[w]
           r == ProcessIncoming(s, m)
           t == r.store
<1> PICK n : n = m.name
  OBVIOUS
<1> PICK e : e = E(w, n)
  OBVIOUS
<1> PICK f : f = E(Server, n)
  OBVIOUS
<1>1. /\ w \in Clients /\ w \in Nodes /\ Server \in Nodes /\ TypeOK
      /\ q \in Seq(ServerMsg) /\ toServer[w] \in Seq(ClientMsg) /\ link[w] = "up"
  BY DEF SoleWriter, IInv, TypeOK, Nodes, Joined
<1>2. /\ WriterOwns(w) /\ ServerFollows(w) /\ Live(w) /\ WriterFlags(w)
  BY <1>1 DEF WriterInv, Writer, FlagsInv
<1>3. m \in Range(q) /\ m \in ServerMsg /\ Range(q) = {m} \cup Range(Tail(q))
      /\ Tail(q) \in Seq(ServerMsg)
  BY <1>1, Messages
<1>4. m \in AssignMsg
  BY <1>3, MsgKinds DEF Answer
<1>5. /\ n \in Names /\ m.id \in Nat /\ m.seq \in SeqNums /\ m.seq \in Nat
      /\ m.flags \in BOOLEAN /\ m.value \in Values /\ m.id # NoId
      /\ m.type = "EntryAssign"
  BY <1>4, MsgFields DEF SeqNums, Answer
<1>6. /\ Wrote(w, n, m.seq, m.value) /\ Exists(w, n) /\ Denotes(m.id, n)
      /\ Exists(Server, n) /\ f.id = m.id
  BY <1>1 DEF Answer, Wrote, Denotes
<1>7. /\ e \in Entry /\ f \in Entry /\ e.seq \in Nat /\ e.seq \in SeqNums
      /\ f.seq \in Nat
      /\ e.flags \in BOOLEAN /\ f.flags \in BOOLEAN
      /\ e.value \in Values \cup {NoValue} /\ e.value # NoValue
  BY <1>1, <1>5, <1>6, EntrySeqs DEF Entry
<1>8. \A x \in Names : E(w, x).seq < Half
  <2>1. MaxOps < Half /\ ops <= MaxOps /\ ops \in Nat /\ MaxOps \in Nat
    BY <1>1, <1>2, NTSyncAssumption DEF SoleWriter, WriterOwns, NTSyncAssumption, TypeOK
  <2>2. \A x \in Names : E(w, x).seq <= ops /\ E(w, x).seq \in Nat
    BY <1>1, <1>2, EntrySeqs DEF WriterOwns
  <2>3. Half \in Nat
    BY SeqSpaceFacts
  <2>4. QED
    BY <2>1, <2>2, <2>3
<1>9. m.seq < Half
  BY <1>5, <1>6, <1>7, <1>8, SeqSpaceFacts DEF Wrote
<1>10. e.id = NoId
  <2>1. SUFFICES ASSUME e.id # NoId PROVE FALSE
    OBVIOUS
  <2>2. \A y \in Range(q) : ~IsAnswer(y, n)
    BY <1>2, <1>5, <1>6, <2>1 DEF WriterFlags, FlagsGo
  <2>3. QED
    BY <1>3, <1>5, <2>2 DEF IsAnswer
<1>11. s \in Store /\ ~s.server /\ ~Known(s, m.id)
  <2>1. /\ s \in Store /\ ~s.server /\ Ready(s)
        /\ \A id \in Nat : Known(s, id) => Denotes(id, NameOf(s, id))
    BY <1>1, <1>2, <1>8, ClientReady
  <2>2. ASSUME Known(s, m.id) PROVE FALSE
    <3>1. Denotes(m.id, NameOf(s, m.id)) /\ NameOf(s, m.id) \in Names
      BY <1>1, <1>2, <1>5, <2>2, ClientIds
    <3>2. NameOf(s, m.id) = n
      BY <1>5, <1>6, <3>1, DenotesOne
    <3>3. s.entries[n].id = m.id
      BY <1>5, <2>1, <2>2, <3>2 DEF Ready
    <3>4. QED
      BY <1>5, <1>10, <3>3 DEF E
  <2>3. QED
    BY <2>1, <2>2
<1>12. f.flags = m.flags /\ Untouched(toServer[w], m.id)
       /\ \A y \in Range(Tail(q)) : ~IsAnswer(y, n)
  <2>1. FlagsWait(w, n)
    BY <1>2, <1>5, <1>6, <1>10 DEF WriterFlags
  <2>2. Len(q) \in Nat /\ Len(q) >= 1 /\ q[1] = m /\ 1 \in 1 .. Len(q)
        /\ Len(Tail(q)) = Len(q) - 1
        /\ \A i \in 1 .. Len(Tail(q)) : Tail(q)[i] = q[i + 1]
    BY <1>1
  <2>3. IsAnswer(q[1], n)
    BY <1>5, <2>2 DEF IsAnswer
  <2>4. m.flags = f.flags /\ \A j \in 1 .. Len(q) : IsAnswer(q[j], n) => 1 = j
    BY <2>1, <2>2, <2>3 DEF FlagsWait
  <2>5. \A i \in 1 .. Len(Tail(q)) : ~IsAnswer(Tail(q)[i], n)
    <3>1. TAKE i \in 1 .. Len(Tail(q))
    <3>2. i + 1 \in 1 .. Len(q) /\ i + 1 # 1 /\ Tail(q)[i] = q[i + 1]
      BY <2>2
    <3>3. QED
      BY <2>4, <3>2
  <2>6. \A y \in Range(Tail(q)) : ~IsAnswer(y, n)
    BY <1>3, <2>5, InRange
  <2>7. QED
    BY <1>6, <2>1, <2>4, <2>6 DEF FlagsWait
<1>13. /\ \A x \in Names \ {n} : t.entries[x] = E(w, x)
       /\ t.entries[n].id = m.id
  BY <1>4, <1>5, <1>8, <1>9, <1>11, NewAssignmentEffect DEF OnlyAt, E
<1>14. \A x \in Names : t.entries[x].value = E(w, x).value
                        /\ t.entries[x].seq = E(w, x).seq
  <2>1. Wrote(w, m.name, m.seq, m.value)
    BY <1>5, <1>6
  <2>2. \A x \in Names : /\ t.entries[x].value = storage[w].entries[x].value
                         /\ t.entries[x].seq = storage[w].entries[x].seq
    BY <1>1, <1>2, <1>4, <1>5, <2>1, WriterHears
  <2>3. QED
    BY <2>2 DEF E
<1>15. t.entries[n].flags = e.flags /\ Reflags(r.out, m.id, f.flags, e.flags, e.seq, e.value)
  <2>1. /\ t.entries[m.name].flags =
              IF Has(s, m.name) THEN s.entries[m.name].flags ELSE m.flags
        /\ Has(s, m.name) =>
              Reflags(r.out, m.id, m.flags, s.entries[m.name].flags,
                      s.entries[m.name].seq, s.entries[m.name].value)
    BY <1>4, <1>5, <1>11, NewAssignmentFlags DEF Reflags
  <2>2. Has(s, m.name) /\ e = s.entries[m.name]
    BY <1>6 DEF E, Exists
  <2> HIDE DEF r, t, s
  <2>3. QED
    BY <1>12, <2>1, <2>2
<1>16. \A x \in Names : Has(t, x) <=> Exists(w, x)
  BY <1>14 DEF Has, Exists, E
<1>17. Silent(toServer[w], m.id)
  <2>1. \A i \in 1 .. Len(toServer[w]) :
           toServer[w][i] \in Range(toServer[w]) /\ ~IsServerHello(toServer[w][i])
    BY <1>1, InRange, MsgKinds
  <2>2. QED
    BY <1>12, <2>1 DEF Silent, Untouched
<1>18. f.seq <= e.seq
  BY <1>2, <1>5, <1>6 DEF ServerFollows, Wrote
<1>19. FlagsUpdate(m.id, e.flags) \in ClientMsg
       /\ EntryUpdate(m.id, e.seq, e.value) \in ClientMsg
  <2>1. FlagsUpdate(m.id, e.flags) \in FlagsMsg
    BY <1>5, <1>7 DEF FlagsUpdate, FlagsMsg
  <2>2. EntryUpdate(m.id, e.seq, e.value) \in UpdateMsg
    BY <1>5, <1>7 DEF EntryUpdate, UpdateMsg
  <2>3. QED
    BY <2>1, <2>2 DEF ClientMsg, EntryMsg
<1> PICK out : out = r.out
  OBVIOUS
<1>20. /\ FlagsArrive(toServer[w] \o out, m.id, {f.flags}, e.flags)
       /\ InOrder(toServer[w] \o out, m.id, f.seq, e.seq)
       /\ out \in Seq(ClientMsg)
       /\ OnlyUpdates(out, m.id)
  <2>1. Reflags(out, m.id, f.flags, e.flags, e.seq, e.value)
    BY <1>15
  <2> HIDE DEF r, t, q, s
  <2>2. ReflagsBehind(toServer[w], out, m.id, f.flags, e.flags, f.seq, e.seq, e.value)
    BY <1>1, <1>7, <1>17, <1>18, <1>19, <2>1 DEF ReflagsBehind
  <2>3. FlagsArrive(toServer[w] \o out, m.id, {f.flags}, e.flags)
    BY <2>2, ReflagAppend
  <2>4. InOrder(toServer[w] \o out, m.id, f.seq, e.seq)
    BY <2>2, ReflagAppend
  <2>5. out \in Seq(ClientMsg)
    BY <2>2, ReflagAppend
  <2>6. OnlyUpdates(out, m.id)
    BY <2>2, ReflagAppend
  <2>7. QED
    BY <2>3, <2>4, <2>5, <2>6
<1>21. QED
  BY <1>5, <1>6, <1>10, <1>12, <1>13, <1>14, <1>15, <1>16, <1>20

\* Updates of one entry are nothing to another.
LEMMA OnlyUpdatesElse ==
    ASSUME NEW out \in Seq(ClientMsg), NEW q \in Seq(ClientMsg), NEW id, NEW x,
           OnlyUpdates(out, id), id # x
    PROVE  Silent(out, x) /\ (Untouched(q, x) => Untouched(q \o out, x))
<1>1. \A i \in 1 .. Len(out) : out[i] \in Range(out) /\ out[i] \in ClientMsg
  BY InRange
<1>2. Silent(out, x)
  BY <1>1, MsgKinds DEF Silent, OnlyUpdates
<1>3. \A m \in Range(out) : m.id # x
  BY InRange DEF OnlyUpdates
<1>4. Range(q \o out) = Range(q) \cup Range(out)
  BY Messages
<1>5. QED
  BY <1>2, <1>3, <1>4 DEF Untouched

\* An answer less: the writer waits for the others as before.
LEMMA WaitOn ==
    ASSUME NEW w, NEW n \in Names, FlagsWait(w, n),
           toClient[w] \in Seq(ServerMsg), toClient[w] # << >>,
           toClient'[w] = Tail(toClient[w]),
           E(Server, n)' = E(Server, n), Exists(Server, n)' <=> Exists(Server, n),
           Exists(Server, n) => Untouched(toServer'[w], E(Server, n).id)
    PROVE  FlagsWait(w, n)'
<1> DEFINE q == toClient[w]
<1>1. /\ Len(q) \in Nat /\ Len(q) >= 1 /\ Len(Tail(q)) = Len(q) - 1
      /\ \A i \in 1 .. Len(Tail(q)) : i + 1 \in 1 .. Len(q) /\ Tail(q)[i] = q[i + 1]
  OBVIOUS
<1> HIDE DEF q
<1>2. \A i \in 1 .. Len(q) : IsAnswer(q[i], n) =>
          /\ q[i].flags = E(Server, n).flags
          /\ \A j \in 1 .. Len(q) : IsAnswer(q[j], n) => i = j
  BY DEF FlagsWait, q
<1>3. \A i \in 1 .. Len(Tail(q)) : IsAnswer(Tail(q)[i], n) =>
          /\ Tail(q)[i].flags = E(Server, n).flags
          /\ \A j \in 1 .. Len(Tail(q)) : IsAnswer(Tail(q)[j], n) => i = j
  <2>1. TAKE i \in 1 .. Len(Tail(q))
  <2>2. HAVE IsAnswer(Tail(q)[i], n)
  <2>3. Tail(q)[i].flags = E(Server, n).flags
    BY <1>1, <1>2, <2>2
  <2>4. ASSUME NEW j \in 1 .. Len(Tail(q)), IsAnswer(Tail(q)[j], n) PROVE i = j
    <3>1. i + 1 = j + 1
      BY <1>1, <1>2, <2>2, <2>4
    <3>2. QED
      BY <1>1, <3>1
  <2>5. QED
    BY <2>3, <2>4
<1>4. toClient'[w] = Tail(q)
  BY DEF q
<1>5. QED
  BY <1>3, <1>4 DEF FlagsWait, Untouched, IsAnswer

\* The writer gets an answer.
LEMMA WriterReceivesFlags ==
    ASSUME IInv, IdInv, NEW w, SoleWriter(w), WriterInv(w), FlagsInv(w),
           ClientReceive(w)
    PROVE  FlagsInv(w)'
<1> DEFINE s == storage[w]
           q == toClient[w]
           m == Head(q)
           r == ProcessIncoming(s, m)
           t == r.store
<1>1. w \in Clients /\ w \in Nodes /\ TypeOK
  BY DEF SoleWriter, IInv, Nodes
<1>2. /\ storage'[w] = t /\ storage'[Server] = storage[Server]
      /\ toClient'[w] = Tail(q) /\ q \in Seq(ServerMsg) /\ q # << >>
      /\ m \in Range(q) /\ Range(q) = {m} \cup Range(Tail(q))
      /\ UNCHANGED << client, session, link >>
      /\ \A d \in Clients \ {w} :
            /\ storage'[d] = storage[d] /\ client'[d] = client[d]
            /\ session'[d] = session[d] /\ link'[d] = link[d]
            /\ toServer'[d] = toServer[d] /\ toClient'[d] = toClient[d]
      /\ toServer[w] \in Seq(ClientMsg)
      /\ link[w] = "up" => /\ Joined(w)
                           /\ toServer'[w] = toServer[w] \o r.out
                           /\ ~IsServerHello(m)
  BY <1>1, ClientReceiveState
<1>3. /\ WriterOwns(w) /\ ToWriter(w) /\ ServerFollows(w) /\ Live(w) /\ WriterFlags(w)
  BY <1>1 DEF WriterInv, Writer, FlagsInv
<1>4. ASSUME Joined(w)' PROVE Joined(w) /\ link[w] = "up" /\ Answer(w, m)
  <2>1. link[w] = "up"
    BY <1>2, <1>4 DEF Joined
  <2>2. QED
    BY <1>2, <1>3, <2>1 DEF ToWriter
<1> PICK n : n = m.name
  OBVIOUS
<1>5. ASSUME Joined(w)'
      PROVE  /\ n \in Names /\ E(w, n).id = NoId /\ Denotes(m.id, n)
             /\ \A x \in Names \ {n} : t.entries[x] = E(w, x)
             /\ t.entries[n].id = m.id /\ t.entries[n].flags = E(w, n).flags
             /\ t.entries[n].seq = E(w, n).seq
             /\ \A x \in Names : Has(t, x) <=> Exists(w, x)
             /\ FlagsArrive(toServer[w] \o r.out, m.id, {E(Server, n).flags}, E(w, n).flags)
             /\ InOrder(toServer[w] \o r.out, m.id, E(Server, n).seq, E(w, n).seq)
             /\ r.out \in Seq(ClientMsg)
             /\ OnlyUpdates(r.out, m.id)
             /\ \A y \in Range(Tail(q)) : ~IsAnswer(y, n)
  <2>1. Joined(w) /\ q # << >> /\ Answer(w, m)
    BY <1>2, <1>4, <1>5
  <2>2. /\ m.name \in Names /\ E(w, m.name).id = NoId /\ Denotes(m.id, m.name)
        /\ \A x \in Names \ {m.name} : t.entries[x] = E(w, x)
        /\ t.entries[m.name].id = m.id /\ t.entries[m.name].flags = E(w, m.name).flags
        /\ t.entries[m.name].seq = E(w, m.name).seq
        /\ \A x \in Names : Has(t, x) <=> Exists(w, x)
        /\ FlagsArrive(toServer[w] \o r.out, m.id, {E(Server, m.name).flags},
                       E(w, m.name).flags)
        /\ InOrder(toServer[w] \o r.out, m.id, E(Server, m.name).seq, E(w, m.name).seq)
        /\ r.out \in Seq(ClientMsg)
        /\ OnlyUpdates(r.out, m.id)
        /\ \A y \in Range(Tail(q)) : ~IsAnswer(y, m.name)
    BY <2>1, LearnsIdFlags
  <2> HIDE DEF m, t, r, q
  <2>3. QED
    BY <2>2
<1> PICK out : out = r.out
  OBVIOUS
<1> PICK id : id = m.id
  OBVIOUS
<1>6. storage'[w].entries = t.entries /\ \A x \in Names : Has(storage'[w], x) <=> Has(t, x)
  BY <1>2
<1> HIDE DEF t, r, m, s
<1>7. /\ \A x \in Names : /\ E(Server, x)' = E(Server, x)
                          /\ Exists(Server, x)' <=> Exists(Server, x)
                          /\ E(w, x)' = t.entries[x]
                          /\ Exists(w, x)' <=> Has(t, x)
  BY <1>2, <1>6 DEF E, Exists
<1>8. ASSUME Joined(w)', NEW x \in Names, Exists(w, x)'
      PROVE  IF E(w, x)'.id = NoId THEN FlagsWait(w, x)' ELSE FlagsGo(w, x)'
  <2>1. /\ link[w] = "up" /\ Joined(w) /\ toServer'[w] = toServer[w] \o out
        /\ out \in Seq(ClientMsg) /\ OnlyUpdates(out, id)
    BY <1>2, <1>4, <1>5, <1>8
  <2>2. \A y : IsAnswer(y, x)' <=> IsAnswer(y, x)
    BY DEF IsAnswer
  <2>3. CASE x = n
    <3>1. E(w, x)'.id = id /\ E(w, x)'.flags = E(w, n).flags /\ E(w, x)'.seq = E(w, n).seq
          /\ id # NoId
      BY <1>5, <1>7, <1>8, <2>3 DEF Denotes
    <3>2. FlagsArrive(toServer'[w], id, {E(Server, x)'.flags}, E(w, x)'.flags)
      BY <1>5, <1>7, <1>8, <2>1, <2>3, <3>1
    <3>3. InOrder(toServer'[w], id, E(Server, x)'.seq, E(w, x)'.seq)
      BY <1>5, <1>7, <1>8, <2>1, <2>3, <3>1
    <3>4. \A y \in Range(toClient'[w]) : ~IsAnswer(y, x)
      BY <1>2, <1>5, <1>8, <2>3
    <3>5. QED
      BY <2>2, <3>1, <3>2, <3>3, <3>4 DEF FlagsGo
  <2>4. CASE x # n
    <3>1. E(w, x)' = E(w, x) /\ Exists(w, x)
      BY <1>5, <1>7, <1>8, <2>4
    <3>2. CASE E(w, x).id = NoId
      <4>1. FlagsWait(w, x)
        BY <1>3, <2>1, <3>1, <3>2 DEF WriterFlags
      <4>2. ASSUME Exists(Server, x) PROVE Untouched(toServer'[w], E(Server, x).id)
        <5>1. Denotes(E(Server, x).id, x)
          BY <1>3, <4>2, ServerIds DEF Denotes
        <5>2. E(Server, x).id # id
          BY <1>5, <1>8, <2>4, <5>1, DenotesOne
        <5>3. Untouched(toServer[w], E(Server, x).id)
          BY <4>1, <4>2 DEF FlagsWait
        <5>4. QED
          BY <1>2, <2>1, <5>2, <5>3, OnlyUpdatesElse
      <4>3. FlagsWait(w, x)'
        BY <1>2, <1>7, <4>1, <4>2, WaitOn
      <4>4. QED
        BY <3>1, <3>2, <4>3
    <3>3. CASE E(w, x).id # NoId
      <4>1. FlagsGo(w, x)
        BY <1>3, <2>1, <3>1, <3>3 DEF WriterFlags
      <4>2. E(w, x).id # id
        <5>1. Denotes(E(w, x).id, x)
          BY <1>1, <1>3, <2>1, <3>3, ClientIds
        <5>2. QED
          BY <1>5, <1>8, <2>4, <5>1, DenotesOne
      <4>3. Silent(out, E(w, x).id)
        BY <1>2, <2>1, <4>2, OnlyUpdatesElse
      <4>4. /\ FlagsArrive(toServer[w], E(w, x).id, {E(Server, x).flags}, E(w, x).flags)
            /\ InOrder(toServer[w], E(w, x).id, E(Server, x).seq, E(w, x).seq)
            /\ \A y \in Range(q) : ~IsAnswer(y, x)
        BY <4>1 DEF FlagsGo
      <4>5. FlagsArrive(toServer'[w], E(w, x).id, {E(Server, x).flags}, E(w, x).flags)
        BY <1>2, <2>1, <4>3, <4>4, SilentAppend
      <4>6. InOrder(toServer'[w], E(w, x).id, E(Server, x).seq, E(w, x).seq)
        BY <1>2, <2>1, <4>3, <4>4, SilentAppend
      <4>7. \A y \in Range(toClient'[w]) : ~IsAnswer(y, x)
        BY <1>2, <4>4
      <4>8. FlagsGo(w, x)'
        BY <1>7, <2>2, <3>1, <4>5, <4>6, <4>7 DEF FlagsGo
      <4>9. QED
        BY <3>1, <3>3, <4>8
    <3>4. QED
      BY <3>2, <3>3
  <2>5. QED
    BY <2>3, <2>4
<1>9. ASSUME Joined(w)' PROVE FlagsDenote(toServer[w])'
  <2>1. /\ Joined(w) /\ toServer'[w] = toServer[w] \o out
        /\ out \in Seq(ClientMsg) /\ OnlyUpdates(out, id) /\ Denotes(id, n) /\ n \in Names
    BY <1>2, <1>4, <1>5, <1>9
  <2>2. Range(toServer'[w]) = Range(toServer[w]) \cup Range(out)
    BY <1>2, <2>1, Messages
  <2>3. \A y \in Range(out) : y.id = id
    BY <2>1, InRange DEF OnlyUpdates
  <2>4. \A y : \A x \in Names : Denotes(y, x) => Denotes(y, x)'
    BY <1>7 DEF Denotes
  <2>5. FlagsDenote(toServer[w])
    BY <1>3, <2>1 DEF WriterFlags
  <2>6. \A y \in Range(toServer'[w]) : y.type = "FlagsUpdate" =>
           \E x \in Names : Denotes(y.id, x)
    BY <2>1, <2>2, <2>3, <2>5 DEF FlagsDenote
  <2>7. QED
    BY <2>4, <2>6 DEF FlagsDenote
<1>10. WriterFlags(w)'
  BY <1>8, <1>9 DEF WriterFlags
<1>11. QED
  BY <1>1, <1>2, <1>10, FlagsConnection

-----------------------------------------------------------------------------
(* One writer: the flags that it sets *)

\* An operation changes one entry; with an id, a message leads the server along.
OperatesOn(s, r, n) ==
    LET e == s.entries[n]
        f == r.store.entries[n]
    IN  /\ OnlyAt(s, r.store, n)
        /\ f \in Entry /\ f.id = e.id /\ e.seq <= f.seq
        /\ \/ /\ r.out = << >>
              /\ e.id # NoId => f.flags = e.flags /\ f.seq = e.seq
           \/ \E y : /\ r.out = << y >> /\ y.id = e.id /\ Leads(y, e.id, e, f)
                     /\ y.type \in {"EntryAssign", "EntryUpdate", "FlagsUpdate"}
                     /\ y.type = "FlagsUpdate" => e.id # NoId

\* It sets flags.
LEMMA FlagsOperation ==
    ASSUME NEW s \in Store, NEW n \in Names, NEW flags \in BOOLEAN
    PROVE  OperatesOn(s, SetEntryFlags(s, n, flags), n)
<1> DEFINE e == s.entries[n]
           new == [e EXCEPT !.flags = flags]
           y == FlagsUpdate(e.id, flags)
<1> PICK r : r = SetEntryFlags(s, n, flags)
  OBVIOUS
<1>1. /\ e \in Entry /\ new \in Entry /\ new.id = e.id /\ new.seq = e.seq
      /\ new.flags = flags /\ e.seq \in Nat
  BY StoreFields DEF Entry, SeqNums
<1>2. y.type = "FlagsUpdate" /\ y.id = e.id /\ y.flags = flags
  BY DEF FlagsUpdate
<1>3. \/ r = Ignored(s)
      \/ /\ r.store = Put(s, n, new)
         /\ r.out = IF e.id # NoId THEN << y >> ELSE << >>
  BY DEF SetEntryFlags, SetEntryFlagsImpl, Result
<1> HIDE DEF new, y
<1>4. CASE r = Ignored(s)
  <2>1. r.store = s /\ r.out = << >>
    BY <1>4 DEF Ignored, Result
  <2>2. QED
    BY <1>1, <2>1 DEF OperatesOn, OnlyAt
<1>5. CASE /\ r.store = Put(s, n, new)
           /\ r.out = IF e.id # NoId THEN << y >> ELSE << >>
  <2>1. r.store.entries[n] = new /\ OnlyAt(s, r.store, n)
    BY <1>1, <1>5, PutFacts DEF OnlyAt
  <2>2. Leads(y, e.id, e, new)
    BY <1>1, <1>2 DEF Leads
  <2>3. OperatesOn(s, r, n)
    BY <1>1, <1>2, <1>5, <2>1, <2>2 DEF OperatesOn
  <2>4. QED
    BY <2>3
<1>6. QED
  BY <1>3, <1>4, <1>5

\* It writes a value.
LEMMA WriteOperation ==
    ASSUME NEW s \in Store, ~s.server, NEW n \in Names, NEW v \in Values,
           s.entries[n].seq < Half,
           NEW r \in {SetDefaultEntryValue(s, n, v), SetEntryValue(s, n, v),
                      SetEntryTypeValue(s, n, v)}
    PROVE  OperatesOn(s, r, n)
<1> DEFINE e == s.entries[n]
           changed == e.value # v
           seq == IF changed THEN e.seq + 1 ELSE e.seq
           new == [value |-> v, flags |-> e.flags, id |-> e.id, seq |-> seq,
                   localWrite |-> TRUE]
           i == SetEntryValueImpl(s, n, v, TRUE)
           a == EntryAssign(n, e.id, seq, v, e.flags)
           u == EntryUpdate(e.id, seq, v)
<1>1. e \in Entry /\ e.seq \in Nat /\ e.id \in Nat /\ e.flags \in BOOLEAN
  BY StoreFields DEF SeqNums, Entry
<1>2. IncrementSeqnum(e.seq) = e.seq + 1 /\ e.seq + 1 \in SeqNums
        /\ e.seq \in SeqNums
  BY <1>1, SmallSeqs, IncrementSeqnumType, StoreFields
<1>3. new \in Entry /\ new.id = e.id /\ new.flags = e.flags /\ new.seq = seq
  BY <1>1, <1>2, StoreFields DEF Entry
<1>4. /\ i.store = PutIds(s, n, new, s.idmap)
      /\ ~changed => i.out = << >>
      /\ changed => i.out \in {<< a >>, << u >>} \/ (i.out = << >> /\ e.id = NoId)
  BY <1>1, <1>2 DEF SetEntryValueImpl, Result
<1>5. /\ a.type = "EntryAssign" /\ a.id = e.id /\ a.flags = e.flags /\ a.seq = seq
      /\ u.type = "EntryUpdate" /\ u.id = e.id /\ u.seq = seq
  BY DEF EntryAssign, EntryUpdate
<1>6. r = i \/ r = Ignored(s)
  BY DEF SetDefaultEntryValue, SetEntryValue, SetEntryTypeValue
<1>7. e.seq <= seq /\ (~changed => seq = e.seq)
  BY <1>1
<1> HIDE DEF new, i, a, u, seq
<1>8. CASE r = Ignored(s)
  <2>1. r.store = s /\ r.out = << >>
    BY <1>8 DEF Ignored, Result
  <2>2. QED
    BY <1>1, <2>1 DEF OperatesOn, OnlyAt
<1>9. CASE r = i
  <2>1. i.store.entries[n] = new /\ OnlyAt(s, i.store, n)
    BY <1>3, <1>4, PutIdsFacts, StoreFields DEF OnlyAt
  <2>2. Leads(a, e.id, e, new) /\ Leads(u, e.id, e, new)
    BY <1>3, <1>5 DEF Leads
  <2>3. CASE i.out = << >> /\ (e.id = NoId \/ ~changed)
    BY <1>3, <1>7, <1>9, <2>1, <2>3 DEF OperatesOn
  <2>4. CASE i.out = << a >>
    BY <1>3, <1>5, <1>7, <1>9, <2>1, <2>2, <2>4 DEF OperatesOn
  <2>5. CASE i.out = << u >>
    BY <1>3, <1>5, <1>7, <1>9, <2>1, <2>2, <2>5 DEF OperatesOn
  <2>6. QED
    BY <1>4, <2>3, <2>4, <2>5
<1>10. QED
  BY <1>6, <1>8, <1>9

\* An operation of the writer.
LEMMA WriterOperates ==
    ASSUME TypeOK, NEW w, SoleWriter(w), WriterOwns(w), ops < MaxOps,
           NEW r \in LocalResults(w)
    PROVE  \E n \in Names : OperatesOn(storage[w], r, n)
<1> DEFINE s == storage[w]
<1>1. w \in Clients /\ w \in Nodes /\ s \in Store /\ ~s.server
  BY NTSyncAssumption DEF NTSyncAssumption, SoleWriter, TypeOK, Nodes
<1>2. Ops[w] \subseteq {"write", "flags"}
  BY DEF SoleWriter
<1>3. \A n \in Names : s.entries[n].seq < Half
  <2>1. \A n \in Names : s.entries[n].seq \in Nat /\ s.entries[n].seq <= ops
    BY <1>1, EntrySeqs DEF WriterOwns, E
  <2>2. ops < MaxOps /\ MaxOps < Half /\ ops \in Nat /\ MaxOps \in Nat
    BY NTSyncAssumption DEF NTSyncAssumption, SoleWriter, TypeOK
  <2>3. Half \in Nat
    BY SeqSpaceFacts
  <2>4. QED
    BY <2>1, <2>2, <2>3
<1>4. \/ \E n \in Names, v \in Values :
            r \in {SetDefaultEntryValue(s, n, v), SetEntryValue(s, n, v),
                   SetEntryTypeValue(s, n, v)}
      \/ \E n \in Names, f \in BOOLEAN : r = SetEntryFlags(s, n, f)
  <2>1. "delete" \notin Ops[w] /\ "clear" \notin Ops[w]
    BY <1>2
  <2>2. r \in UserOperations(s, Ops[w])
    BY DEF LocalResults
  <2>3. QED
    BY <2>1, <2>2 DEF UserOperations
<1>5. ASSUME NEW n \in Names, NEW v \in Values,
             r \in {SetDefaultEntryValue(s, n, v), SetEntryValue(s, n, v),
                    SetEntryTypeValue(s, n, v)}
      PROVE  OperatesOn(s, r, n)
  <2> HIDE DEF s
  <2>1. QED
    BY <1>1, <1>3, <1>5, WriteOperation
<1>6. ASSUME NEW n \in Names, NEW f \in BOOLEAN, r = SetEntryFlags(s, n, f)
      PROVE  OperatesOn(s, r, n)
  BY <1>1, <1>6, FlagsOperation
<1>7. QED
  BY <1>4, <1>5, <1>6

\* The writer writes, or sets flags.
LEMMA LocalOpFlags ==
    ASSUME IInv, IdInv, NEW w, SoleWriter(w), WriterInv(w), FlagsInv(w), LocalOp(w)
    PROVE  FlagsInv(w)'
<1> DEFINE s == storage[w]
<1>1. /\ w \in Clients /\ w \in Nodes /\ w # Server /\ TypeOK
      /\ s \in Store /\ Server \in Nodes /\ toServer[w] \in Seq(ClientMsg)
      /\ toClient[w] \in Seq(ServerMsg)
  BY NTSyncAssumption DEF NTSyncAssumption, SoleWriter, IInv, TypeOK, Nodes
<1>2. /\ ServerFollows(w) /\ WriterOwns(w) /\ ToWriter(w) /\ WriterFlags(w)
  BY <1>1 DEF WriterInv, Writer, FlagsInv
<1>3. PICK r \in LocalResults(w) :
         /\ storage' = [storage EXCEPT ![w] = r.store]
         /\ IF client[w] = "Active" THEN SendToServer(w, r.out)
                                    ELSE UNCHANGED toServer
         /\ UNCHANGED toClient
  BY <1>1 DEF LocalOp
<1>4. ops < MaxOps /\ UNCHANGED << client, session, link, toClient >>
  BY <1>1, <1>3 DEF LocalOp
<1>5. /\ storage'[w] = r.store
      /\ \A p \in Nodes \ {w} : storage'[p] = storage[p]
  BY <1>1, <1>3 DEF TypeOK
<1>6. r.out \in Seq(ClientMsg)
  BY <1>1, LocalResultsFacts, SeqOfEntryMsg DEF GoodResult
<1>7. /\ \A d \in Clients \ {w} : toServer'[d] = toServer[d]
      /\ Joined(w) => toServer'[w] = toServer[w] \o r.out
  BY <1>1, <1>3 DEF SendToServer, Joined, TypeOK
<1>8. PICK n \in Names : OperatesOn(s, r, n)
  BY <1>1, <1>2, <1>4, WriterOperates
<1> PICK out : out = r.out
  OBVIOUS
<1>9. PICK e, f : e = E(w, n) /\ f = E(w, n)'
  OBVIOUS
<1>10. \A x \in Names : /\ E(w, x) = s.entries[x] /\ E(w, x)' = r.store.entries[x]
                        /\ E(Server, x)' = E(Server, x)
                        /\ Exists(Server, x)' <=> Exists(Server, x)
                        /\ E(w, x) \in Entry /\ E(Server, x) \in Entry
                        /\ E(Server, x).seq \in Nat /\ E(w, x).seq \in Nat
                        /\ E(Server, x).flags \in BOOLEAN
  BY <1>1, <1>5, EntrySeqs DEF E, Exists, Entry
<1>11. /\ \A x \in Names \ {n} : E(w, x)' = E(w, x) /\ (Exists(w, x)' <=> Exists(w, x))
       /\ e \in Entry /\ f \in Entry /\ f.id = e.id /\ e.seq <= f.seq
       /\ \/ out = << >> /\ (e.id # NoId => f.flags = e.flags /\ f.seq = e.seq)
          \/ \E y : /\ out = << y >> /\ y.id = e.id /\ Leads(y, e.id, e, f)
                    /\ y.type \in {"EntryAssign", "EntryUpdate", "FlagsUpdate"}
                    /\ y.type = "FlagsUpdate" => e.id # NoId
  <2>1. \A x \in Names \ {n} : E(w, x)' = E(w, x)
    BY <1>8, <1>10 DEF OperatesOn, OnlyAt
  <2>2. \A x \in Names : /\ Exists(w, x) <=> E(w, x).value # NoValue
                         /\ Exists(w, x)' <=> E(w, x)'.value # NoValue
    BY DEF Exists, E, Has
  <2>3. e = s.entries[n] /\ f = r.store.entries[n] /\ e \in Entry
    BY <1>9, <1>10
  <2>4. QED
    BY <1>8, <2>1, <2>2, <2>3 DEF OperatesOn
\* what it sends is about the entry, under its id if it has one
<1>12. \A i \in 1 .. Len(out) :
          /\ out[i].id = e.id /\ ~IsServerHello(out[i]) /\ out[i] \in ClientMsg
          /\ out[i].type = "FlagsUpdate" => e.id # NoId
  <2>1. CASE out = << >>
    BY <2>1
  <2>2. CASE \E y : /\ out = << y >> /\ y.id = e.id
                    /\ y.type = "FlagsUpdate" => e.id # NoId
    BY <1>6, <2>2, MsgKinds
  <2>3. QED
    BY <1>11, <2>1, <2>2
<1>13. \A y \in Range(out) : y.id = e.id /\ (y.type = "FlagsUpdate" => e.id # NoId)
  BY <1>6, <1>12, InRange
<1>14. Range(toServer[w] \o out) = Range(toServer[w]) \cup Range(out)
  BY <1>1, <1>6, Messages
<1>15. \A id, x : x \in Names => (Denotes(id, x) <=> Denotes(id, x)')
  BY <1>10 DEF Denotes
<1>16. \A y, x : IsAnswer(y, x)' <=> IsAnswer(y, x)
  BY DEF IsAnswer
<1>17. ASSUME Joined(w)
       PROVE  /\ WriterFlags(w)!2 /\ toServer'[w] = toServer[w] \o out
              /\ \A x \in Names : E(w, x).id # NoId => Denotes(E(w, x).id, x)
              /\ \A x \in Names : Exists(Server, x) => Denotes(E(Server, x).id, x)
  <2>1. \A x \in Names : E(w, x).id # NoId => Denotes(E(w, x).id, x)
    BY <1>1, <1>2, <1>17, ClientIds
  <2>2. \A x \in Names : Exists(Server, x) => Denotes(E(Server, x).id, x)
    BY <1>1, <1>2, ServerIds DEF Denotes, IInv
  <2>3. QED
    BY <1>2, <1>7, <1>17, <2>1, <2>2 DEF WriterFlags
<1>18. ASSUME Joined(w) PROVE FlagsDenote(toServer[w])'
  <2>1. FlagsDenote(toServer[w]) /\ (e.id # NoId => Denotes(e.id, n))
    BY <1>9, <1>17, <1>18
  <2>2. \A y \in Range(toServer'[w]) : y.type = "FlagsUpdate" =>
           \E x \in Names : Denotes(y.id, x)
    BY <1>13, <1>14, <1>17, <1>18, <2>1 DEF FlagsDenote
  <2>3. QED
    BY <1>15, <2>2 DEF FlagsDenote
\* an entry that waits for its id
<1>19. ASSUME Joined(w), NEW x \in Names, FlagsWait(w, x), x = n => e.id = NoId
       PROVE  FlagsWait(w, x)'
  <2>1. ASSUME Exists(Server, x) PROVE Untouched(toServer'[w], E(Server, x).id)
    <3>1. Denotes(E(Server, x).id, x) /\ (e.id # NoId => Denotes(e.id, n))
      BY <1>9, <1>17, <1>19, <2>1
    <3>2. e.id # E(Server, x).id
      BY <1>19, <3>1, DenotesOne DEF Denotes
    <3>3. Untouched(toServer[w], E(Server, x).id)
      BY <1>19, <2>1 DEF FlagsWait
    <3>4. QED
      BY <1>13, <1>14, <1>17, <1>19, <3>2, <3>3 DEF Untouched
  <2>2. \A i \in 1 .. Len(toClient[w]) : IsAnswer(toClient[w][i], x) =>
          /\ toClient[w][i].flags = E(Server, x).flags
          /\ \A j \in 1 .. Len(toClient[w]) : IsAnswer(toClient[w][j], x) => i = j
    BY <1>19 DEF FlagsWait
  <2>3. toClient'[w] = toClient[w]
    BY <1>4
  <2>4. QED
    BY <1>10, <1>16, <2>1, <2>2, <2>3 DEF FlagsWait, Untouched
<1>20. ASSUME Joined(w), NEW x \in Names, Exists(w, x)'
       PROVE  IF E(w, x)'.id = NoId THEN FlagsWait(w, x)' ELSE FlagsGo(w, x)'
  <2>1. CASE x # n
    <3>1. E(w, x)' = E(w, x) /\ Exists(w, x)
      BY <1>11, <1>20, <2>1
    <3>2. CASE E(w, x).id = NoId
      BY <1>17, <1>19, <1>20, <2>1, <3>1, <3>2
    <3>3. CASE E(w, x).id # NoId
      <4>1. FlagsGo(w, x)
        BY <1>17, <1>20, <3>1, <3>3
      <4>2. e.id # E(w, x).id
        <5>1. Denotes(E(w, x).id, x) /\ (e.id # NoId => Denotes(e.id, n))
          BY <1>9, <1>17, <1>20, <3>3
        <5>2. QED
          BY <2>1, <3>3, <5>1, DenotesOne
      <4>3. Silent(out, E(w, x).id)
        BY <1>12, <4>2 DEF Silent
      <4>4. /\ FlagsArrive(toServer[w], E(w, x).id, {E(Server, x).flags}, E(w, x).flags)
            /\ InOrder(toServer[w], E(w, x).id, E(Server, x).seq, E(w, x).seq)
            /\ \A y \in Range(toClient[w]) : ~IsAnswer(y, x)
        BY <4>1 DEF FlagsGo
      <4>5. FlagsArrive(toServer'[w], E(w, x).id, {E(Server, x).flags}, E(w, x).flags)
        BY <1>1, <1>6, <1>17, <1>20, <4>3, <4>4, SilentAppend
      <4>6. InOrder(toServer'[w], E(w, x).id, E(Server, x).seq, E(w, x).seq)
        BY <1>1, <1>6, <1>17, <1>20, <4>3, <4>4, SilentAppend
      <4>7. FlagsGo(w, x)'
        BY <1>4, <1>10, <1>16, <3>1, <4>4, <4>5, <4>6 DEF FlagsGo
      <4>8. QED
        BY <3>1, <3>3, <4>7
    <3>4. QED
      BY <3>2, <3>3
  <2>2. CASE x = n /\ e.id = NoId
    <3>1. CASE Exists(w, x)
      BY <1>9, <1>11, <1>17, <1>19, <1>20, <2>2, <3>1
    <3>2. CASE ~Exists(w, x)
      <4>1. ~Exists(Server, x)
        BY <1>2, <3>2 DEF ServerFollows, Wrote
      <4>2. \A y \in Range(toClient[w]) : ~IsAnswer(y, x)
        <5>1. TAKE y \in Range(toClient[w])
        <5>2. IsServerHello(y) \/ Answer(w, y)
          BY <1>2 DEF ToWriter
        <5>3. link[w] = "up"
          BY <1>20 DEF Joined
        <5>4. QED
          BY <4>1, <5>2, <5>3 DEF IsAnswer, Answer, IsServerHello, Denotes
      <4>3. \A i \in 1 .. Len(toClient[w]) : ~IsAnswer(toClient[w][i], x)
        BY <1>1, <4>2, InRange
      <4>4. FlagsWait(w, x)
        BY <4>1, <4>3 DEF FlagsWait
      <4>5. QED
        BY <1>9, <1>11, <1>19, <1>20, <2>2, <4>4
    <3>3. QED
      BY <3>1, <3>2
  <2>3. CASE x = n /\ e.id # NoId
    <3>1. Denotes(e.id, n) /\ Exists(w, n)
      BY <1>2, <1>9, <1>17, <1>20, <2>3 DEF Denotes, ServerFollows, Wrote
    <3>2. FlagsGo(w, n)
      BY <1>9, <1>17, <1>20, <2>3, <3>1
    <3>3. PICK g : g = E(Server, n)
      OBVIOUS
    <3>4. /\ FlagsArrive(toServer[w], e.id, {g.flags}, e.flags)
          /\ InOrder(toServer[w], e.id, g.seq, e.seq)
          /\ \A y \in Range(toClient[w]) : ~IsAnswer(y, n)
      BY <1>9, <3>2, <3>3 DEF FlagsGo
    <3>5. /\ FlagsArrive(toServer'[w], e.id, {g.flags}, f.flags)
          /\ InOrder(toServer'[w], e.id, g.seq, f.seq)
      <4>1. CASE out = << >> /\ f.flags = e.flags /\ f.seq = e.seq
        <5>1. toServer'[w] = toServer[w]
          BY <1>1, <1>17, <1>20, <4>1
        <5>2. QED
          BY <3>4, <4>1, <5>1
      <4>2. CASE \E y : /\ out = << y >> /\ y.id = e.id /\ Leads(y, e.id, e, f)
                        /\ y.type \in {"EntryAssign", "EntryUpdate", "FlagsUpdate"}
        <5>1. PICK y : out = << y >> /\ Leads(y, e.id, e, f)
          BY <4>2
        <5>2. y \in ClientMsg /\ ~IsServerHello(y)
          BY <1>12, <5>1
        <5>3. toServer'[w] = toServer[w] \o << y >>
          BY <1>17, <1>20, <5>1
        <5>4. g.seq \in Nat
          BY <1>10, <3>3
        <5>5. e \in Entry /\ f \in Entry /\ e.seq <= f.seq
          BY <1>11
        <5>6. FlagsArrive(toServer[w] \o << y >>, e.id, {g.flags}, f.flags)
          BY <1>1, <3>4, <5>1, <5>2, <5>4, <5>5, LeadsSent
        <5>7. InOrder(toServer[w] \o << y >>, e.id, g.seq, f.seq)
          BY <1>1, <3>4, <5>1, <5>2, <5>4, <5>5, LeadsSent
        <5>8. QED
          BY <5>3, <5>6, <5>7
      <4>3. QED
        BY <1>11, <2>3, <4>1, <4>2
    <3>6. E(Server, n)' = g /\ E(w, n)' = f /\ f.id = e.id
      BY <1>9, <1>10, <1>11, <3>3
    <3>7. FlagsGo(w, n)'
      BY <1>4, <1>16, <3>4, <3>5, <3>6 DEF FlagsGo
    <3>8. QED
      BY <2>3, <3>6, <3>7
  <2>4. QED
    BY <2>1, <2>2, <2>3
<1>21. WriterFlags(w)'
  <2>1. Joined(w)' <=> Joined(w)
    BY <1>4 DEF Joined
  <2>2. QED
    BY <1>18, <1>20, <2>1 DEF WriterFlags
<1>22. QED
  <2>1. storage'[Server] = storage[Server]
        /\ \A d \in Clients \ {w} : storage'[d] = storage[d]
    BY <1>1, <1>5 DEF Nodes
  <2>2. QED
    BY <1>1, <1>4, <1>7, <1>21, <2>1, FlagsConnection

-----------------------------------------------------------------------------
(* One writer: the flags that the server hears and passes on *)

\* Everybody is told of the entry.
Announces(r, x) ==
    LET f == r.store.entries[x] IN
    /\ r.toSender /\ f.id # NoId
    /\ \E y : /\ r.out = << y >> /\ y.type = "EntryAssign" /\ y.name = x
              /\ y.id = f.id /\ y.flags = f.flags /\ y.seq = f.seq

\* An entry of the server goes along with the message, and the others hear of
\* it.
GoesAlong(m, r, x) ==
    LET e == E(Server, x)
        f == r.store.entries[x]
    IN  /\ Has(r.store, x) /\ f \in Entry /\ f.id = e.id /\ e.seq <= f.seq
        /\ Leads(m, e.id, e, f)
        /\ \/ r.out = << >> /\ f.flags = e.flags /\ f.seq = e.seq
           \/ \E y : r.out = << y >> /\ Leads(y, e.id, e, f)

\* The writer's messages for an entry of the server are not older than it.
LEMMA WriterHeadIsNew ==
    ASSUME IInv, IdInv, NEW w, SoleWriter(w), WriterInv(w), FlagsInv(w), Joined(w),
           toServer[w] # << >>, NEW m, m = Head(toServer[w]),
           m.type \in {"EntryAssign", "EntryUpdate"}, m.seq \in SeqNums,
           NEW x \in Names, Exists(Server, x), m.id = E(Server, x).id
    PROVE  E(Server, x).seq <= m.seq
<1>1. /\ w \in Clients /\ w \in Nodes /\ Server \in Nodes /\ TypeOK
      /\ toServer[w] \in Seq(ClientMsg)
  BY DEF SoleWriter, IInv, TypeOK, Nodes
<1>2. ServerFollows(w) /\ WriterFlags(w)
  BY <1>1 DEF WriterInv, FlagsInv
<1>3. Exists(w, x)
  BY <1>2 DEF ServerFollows, Wrote
<1>4. m \in Range(toServer[w])
  BY <1>1, Messages
<1>5. CASE E(w, x).id = NoId
  <2>1. Untouched(toServer[w], E(Server, x).id)
    BY <1>2, <1>3, <1>5 DEF WriterFlags, FlagsWait
  <2>2. QED
    BY <1>4, <2>1 DEF Untouched
<1>6. CASE E(w, x).id # NoId
  <2>1. E(w, x).id = E(Server, x).id
    BY <1>1, <1>2, <1>6, ClientIds DEF Denotes
  <2>2. InOrder(toServer[w], m.id, E(Server, x).seq, E(w, x).seq)
    BY <1>2, <1>3, <1>6, <2>1 DEF WriterFlags, FlagsGo
  <2>3. E(Server, x).seq \in Nat /\ E(w, x).seq \in Nat
    BY <1>1, EntrySeqs
  <2>4. QED
    BY <1>1, <2>2, <2>3, HeadInOrder
<1>7. QED
  BY <1>5, <1>6

\* What the server does with a message of the writer.
LEMMA ServerMoves ==
    ASSUME IInv, IdInv, NEW w, SoleWriter(w), WriterInv(w), FlagsInv(w), Joined(w),
           toServer[w] # << >>, NEW m, m = Head(toServer[w])
    PROVE  LET r == ProcessIncoming(storage[Server], m)
           IN  /\ \A x \in Names : Exists(Server, x) => GoesAlong(m, r, x)
               /\ \A x \in Names : ~Exists(Server, x) /\ Has(r.store, x) => Announces(r, x)
               /\ r.toSender => \/ r.out = << >>
                                \/ \E x \in Names : /\ ~Exists(Server, x) /\ Has(r.store, x)
                                                    /\ Announces(r, x)
               /\ \A y \in Range(r.out) :
                     /\ ~IsServerHello(y)
                     /\ y.type = "FlagsUpdate" => \E x \in Names : Denotes(y.id, x)
<1> DEFINE s == storage[Server]
<1> PICK r : r = ProcessIncoming(s, m)
  OBVIOUS
<1> DEFINE Done == /\ \A x \in Names : Exists(Server, x) => GoesAlong(m, r, x)
                   /\ \A x \in Names : ~Exists(Server, x) /\ Has(r.store, x) => Announces(r, x)
                   /\ r.toSender => \/ r.out = << >>
                                    \/ \E x \in Names :
                                          /\ ~Exists(Server, x) /\ Has(r.store, x)
                                          /\ Announces(r, x)
                   /\ \A y \in Range(r.out) :
                         /\ ~IsServerHello(y)
                         /\ y.type = "FlagsUpdate" => \E x \in Names : Denotes(y.id, x)
<1>1. /\ w \in Clients /\ w \in Nodes /\ Server \in Nodes /\ TypeOK
      /\ toServer[w] \in Seq(ClientMsg)
  BY DEF SoleWriter, IInv, TypeOK, Nodes
<1>2. /\ ServerFollows(w) /\ WriterFlags(w) /\ WriterOwns(w) /\ FromWriter(w)
  BY <1>1 DEF WriterInv, FlagsInv, Writer
<1>3. m \in Range(toServer[w]) /\ m \in ClientMsg
  BY <1>1, Messages
<1>4. /\ s \in Store /\ s.server /\ Ready(s)
      /\ \A x \in Names : Exists(Server, x) =>
            /\ E(Server, x).id # NoId /\ Known(s, E(Server, x).id)
            /\ NameOf(s, E(Server, x).id) = x
  BY <1>2, ServerReady
<1>5. /\ \A x \in Names : Exists(Server, x) <=> Has(s, x)
      /\ \A x \in Names : E(Server, x) = s.entries[x] /\ E(Server, x) \in Entry
                          /\ E(Server, x).seq \in Nat
  BY <1>1, EntrySeqs DEF Exists, E
<1>6. \A y \in ClientMsg : ~IsServerHello(y)
  BY MsgKinds
<1>7. CASE m \in {ClientHello, ClientHelloDone}
  <2>1. r = Ignored(s) /\ m.type \in {"ClientHello", "ClientHelloDone"}
    BY <1>7, HelloIgnored DEF ClientHello, ClientHelloDone
  <2>2. r.store = s /\ r.out = << >>
    BY <2>1 DEF Ignored, Result
  <2>3. ASSUME NEW x \in Names, Exists(Server, x) PROVE GoesAlong(m, r, x)
    <3>1. r.store.entries[x] = E(Server, x) /\ Has(r.store, x)
      BY <1>5, <2>2, <2>3
    <3>2. Leads(m, E(Server, x).id, E(Server, x), E(Server, x))
      BY <2>1 DEF Leads
    <3>3. E(Server, x) \in Entry /\ E(Server, x).seq <= E(Server, x).seq
      BY <1>5
    <3>4. QED
      BY <2>2, <3>1, <3>2, <3>3 DEF GoesAlong
  <2>4. Range(r.out) = {}
    BY <2>2 DEF Range
  <2> HIDE DEF s
  <2>5. Done
    BY <1>5, <2>2, <2>3, <2>4
  <2>6. QED
    BY <2>5 DEF s
<1>8. CASE m \notin {ClientHello, ClientHelloDone}
  <2>1. /\ m \in AssignMsg \cup UpdateMsg \cup FlagsMsg
        /\ m.type \in {"EntryAssign", "EntryUpdate", "FlagsUpdate"}
        /\ m.id \in Nat
        /\ m.type \in {"EntryAssign", "EntryUpdate"} =>
              m.seq \in SeqNums /\ m.seq \in Nat /\ m.seq < Half
        /\ m.type = "EntryAssign" /\ m.id # NoId =>
              \A n \in Names : Exists(Server, n) =>
                 (m.name = n <=> m.id = E(Server, n).id)
    BY <1>2, <1>3, <1>8, GoodMessage DEF FromWriter
  <2>2. \A x \in Names : Exists(Server, x) =>
           (m.type \in {"EntryAssign", "EntryUpdate"} /\ m.id = E(Server, x).id
               => E(Server, x).seq <= m.seq)
    BY <2>1, WriterHeadIsNew
  <2>3. \A x \in Names : Has(s, x) =>
           /\ Has(r.store, x) /\ r.store.entries[x].id = s.entries[x].id
           /\ r.store.entries[x].seq >= s.entries[x].seq
    <3>1. \/ m \in {ClientHello, ClientHelloDone}
          \/ GoodRequest(w, m) \/ GoodAssign(w, m) \/ GoodUpdate(w, m)
          \/ m.type = "FlagsUpdate"
      BY <1>2, <1>3 DEF FromWriter
    <3>2. QED
      BY <1>2, <1>3, <3>1, ServerHears
  <2>4. ASSUME NEW x \in Names, Exists(Server, x) PROVE GoesAlong(m, r, x)
    <3>1. /\ Has(s, x) /\ s.entries[x].id # NoId /\ Known(s, s.entries[x].id)
          /\ NameOf(s, s.entries[x].id) = x
          /\ m.type \in {"EntryAssign", "EntryUpdate"} => m.seq < Half
          /\ m.type \in {"EntryAssign", "EntryUpdate"} /\ m.id = s.entries[x].id
                => s.entries[x].seq <= m.seq
          /\ m.type = "EntryAssign" /\ m.id # NoId
                => (m.name = x <=> m.id = s.entries[x].id)
      BY <1>4, <1>5, <2>1, <2>2, <2>4
    <3>2. /\ r.store.entries[x] \in Entry
          /\ Leads(m, s.entries[x].id, s.entries[x], r.store.entries[x])
      BY <1>4, <2>1, <3>1, HearsFlags
    <3>3. \/ /\ r.out = << >> /\ r.store.entries[x].flags = s.entries[x].flags
             /\ r.store.entries[x].seq = s.entries[x].seq
          \/ \E y : r.out = << y >>
                    /\ Leads(y, s.entries[x].id, s.entries[x], r.store.entries[x])
      BY <1>4, <2>1, <3>1, ServerPassesOn
    <3>4. r.store.entries[x].seq \in Nat
      BY <3>2 DEF Entry, SeqNums
    <3> HIDE DEF s
    <3>5. QED
      BY <1>5, <2>3, <2>4, <3>2, <3>3, <3>4 DEF GoesAlong
  <2>5. \/ r = Ignored(s)
        \/ r.out = << m >> /\ ~r.toSender /\ (m.type = "EntryAssign" => m.id # NoId)
        \/ m \in AssignMsg /\ m.id = NoId
           /\ s.entries[m.name].id = NoId /\ ~Has(s, m.name)
    BY <1>4, <2>1, ServerAnswers
  <2>6. ASSUME m \in AssignMsg, m.id = NoId, s.entries[m.name].id = NoId,
               ~Has(s, m.name)
        PROVE  /\ m.name \in Names /\ OnlyAt(s, r.store, m.name)
               /\ Has(r.store, m.name) /\ Announces(r, m.name)
    <3> DEFINE f == r.store.entries[m.name]
               a == EntryAssign(m.name, Len(s.idmap), m.seq, m.value, m.flags)
    <3>1. /\ m.name \in Names /\ m.value # NoValue
      BY <2>6, MsgFields
    <3>2. /\ OnlyAt(s, r.store, m.name)
          /\ f.value = m.value /\ f.seq = m.seq /\ f.id = Len(s.idmap)
          /\ r.out = << a >> /\ r.toSender
      BY <1>4, <2>6, NewRequestEffect
    <3>3. f.flags = m.flags
      BY <1>4, <2>6, NewRequestFlags
    <3>4. Len(s.idmap) < NoId /\ NoId \in Nat
      BY <1>2, <1>5, <2>6, <3>1, IdsLeft, StorageAssumption DEF StorageAssumption
    <3>5. a.type = "EntryAssign" /\ a.name = m.name /\ a.id = Len(s.idmap)
          /\ a.seq = m.seq /\ a.flags = m.flags
      BY DEF EntryAssign
    <3>6. Len(s.idmap) # NoId
      BY <1>4, <3>4, StoreLen
    <3> HIDE DEF a, s
    <3>7. Announces(r, m.name)
      BY <3>2, <3>3, <3>5, <3>6 DEF Announces
    <3>8. QED
      BY <3>1, <3>2, <3>7 DEF Has
  <2>7. CASE r = Ignored(s)
    <3>1. r.store = s /\ r.out = << >> /\ Range(<< >>) = {}
      BY <2>7 DEF Ignored, Result, Range
    <3> HIDE DEF s
    <3>2. Done
      BY <1>5, <2>4, <3>1
    <3>3. QED
      BY <3>2 DEF s
  <2>8. CASE r.out = << m >> /\ ~r.toSender /\ (m.type = "EntryAssign" => m.id # NoId)
    <3>1. Range(r.out) = {m}
      BY <2>8 DEF Range
    <3>2. m.type = "FlagsUpdate" => \E x \in Names : Denotes(m.id, x)
      BY <1>2, <1>3 DEF WriterFlags, FlagsDenote
    <3>3. \A x \in Names : Has(r.store, x) => Has(s, x)
      <4>1. /\ m \in ClientMsg
            /\ \/ m \in {ClientHello, ClientHelloDone}
               \/ GoodRequest(w, m) \/ GoodAssign(w, m) \/ GoodUpdate(w, m)
               \/ m.type = "FlagsUpdate"
        BY <1>2, <1>3 DEF FromWriter
      <4>2. \A x \in Names : Has(r.store, x) /\ ~Has(s, x) => r.toSender
        BY <1>2, <4>1, ServerHears
      <4>3. QED
        BY <2>8, <4>2
    <3> HIDE DEF s
    <3>4. Done
      BY <1>3, <1>5, <1>6, <2>4, <2>8, <3>1, <3>2, <3>3
    <3>5. QED
      BY <3>4 DEF s
  <2>9. CASE m \in AssignMsg /\ m.id = NoId
             /\ s.entries[m.name].id = NoId /\ ~Has(s, m.name)
    <3>1. /\ m.name \in Names /\ OnlyAt(s, r.store, m.name)
          /\ Has(r.store, m.name) /\ Announces(r, m.name) /\ ~Exists(Server, m.name)
      BY <1>5, <2>6, <2>9
    <3>2. ASSUME NEW x \in Names, ~Exists(Server, x), Has(r.store, x)
          PROVE  Announces(r, x)
      <4>1. CASE x = m.name
        BY <3>1, <4>1
      <4>2. CASE x # m.name
        <5>1. r.store.entries[x] = s.entries[x] /\ ~Has(s, x)
          BY <1>5, <3>1, <3>2, <4>2 DEF OnlyAt
        <5>2. QED
          BY <3>2, <5>1 DEF Has
      <4>3. QED
        BY <4>1, <4>2
    <3>3. PICK y : r.out = << y >> /\ y.type = "EntryAssign"
      BY <3>1 DEF Announces
    <3>4. Range(r.out) = {y} /\ ~IsServerHello(y) /\ y.type # "FlagsUpdate"
      BY <3>3 DEF Range, IsServerHello
    <3> HIDE DEF s
    <3>5. Done
      BY <2>4, <3>1, <3>2, <3>4
    <3>6. QED
      BY <3>5 DEF s
  <2>10. QED
    BY <2>5, <2>7, <2>8, <2>9
<1>9. QED
  BY <1>7, <1>8

\* The id of a new entry is nobody else's.
LEMMA FreshId ==
    ASSUME IdInv', ServerGrows, NEW x \in Names, ~Exists(Server, x), Exists(Server, x)',
           E(Server, x)'.id # NoId, NEW id, NEW z \in Names, Denotes(id, z)
    PROVE  id # E(Server, x)'.id
<1>1. Denotes(id, z)' /\ Exists(Server, z)
  BY DenotesStays DEF Denotes
<1>2. SUFFICES ASSUME id = E(Server, x)'.id PROVE FALSE
  OBVIOUS
<1>3. Denotes(id, x)'
  BY <1>2 DEF Denotes
<1>4. x = z
  BY <1>1, <1>3, DenotesOnePrime
<1>5. QED
  BY <1>1, <1>4

\* A listening client is told of what the server has heard.
LEMMA ReaderToldFlags ==
    ASSUME IInv, IdInv, IdInv', NEW w, SoleWriter(w), WriterInv(w), FlagsInv(w),
           ServerGrows, NEW d \in Clients \ {w}, NEW m, NEW r,
           r.out \in Seq(ServerMsg), storage'[Server] = r.store,
           storage'[d] = storage[d], client'[d] = client[d], link'[d] = link[d],
           Synced(d)' => Synced(d),
           Synced(d) => toClient'[d] = toClient[d] \o r.out,
           \A x \in Names : Exists(Server, x) => GoesAlong(m, r, x),
           \A x \in Names : ~Exists(Server, x) /\ Has(r.store, x) => Announces(r, x),
           \A y \in Range(r.out) :
              /\ ~IsServerHello(y)
              /\ y.type = "FlagsUpdate" => \E x \in Names : Denotes(y.id, x)
    PROVE  ReaderFlags(d)'
<1> DEFINE q == toClient[d]
<1>1. /\ w \in Clients /\ d \in Nodes /\ Server \in Nodes /\ TypeOK
      /\ q \in Seq(ServerMsg)
  BY DEF SoleWriter, IInv, TypeOK, Nodes
<1>2. /\ ServerFollows(w) /\ ReaderFlags(d) /\ Reader(w, d)
  BY <1>1 DEF WriterInv, FlagsInv
<1> PICK out : out = r.out
  OBVIOUS
<1>3. \A x \in Names : /\ E(Server, x)' = r.store.entries[x]
                       /\ Exists(Server, x)' <=> Has(r.store, x)
                       /\ E(d, x)' = E(d, x) /\ (HasNow(d, x)' <=> HasNow(d, x))
                       /\ E(d, x).seq \in Nat
                       /\ E(Server, x) \in Entry /\ E(Server, x).flags \in BOOLEAN
  BY <1>1, EntrySeqs DEF E, Exists, HasNow, Entry
<1>4. \A i \in 1 .. Len(out) : out[i] \in Range(out) /\ out[i] \in ServerMsg
  BY InRange
<1>5. ASSUME Synced(d)' PROVE FlagsDenote(toClient[d])'
  <2>1. Range(toClient'[d]) = Range(q) \cup Range(out)
    <3>1. toClient'[d] = q \o out /\ out \in Seq(ServerMsg)
      BY <1>5
    <3>2. Range(q \o out) = Range(q) \cup Range(out)
      BY <1>1, <3>1, Messages
    <3>3. QED
      BY <3>1, <3>2
  <2>2. \A y \in Range(toClient'[d]) : y.type = "FlagsUpdate" =>
           \E x \in Names : Denotes(y.id, x)
    BY <1>2, <1>5, <2>1 DEF ReaderFlags, FlagsDenote
  <2>3. \A id : \A x \in Names : Denotes(id, x) => Denotes(id, x)'
    BY DenotesStays
  <2>4. QED
    BY <2>2, <2>3 DEF FlagsDenote
\* an entry that the server had
<1>6. ASSUME Synced(d)', NEW x \in Names, Exists(Server, x) PROVE FlagsReach(d, x)'
  <2>1. PICK e, f, id : e = E(Server, x) /\ f = E(Server, x)' /\ id = e.id
    OBVIOUS
  <2>2. PICK g : g = E(d, x)
    OBVIOUS
  <2>3. PICK from, lo : /\ from = (IF HasNow(d, x) THEN {g.flags} ELSE {})
                        /\ lo = (IF HasNow(d, x) THEN g.seq ELSE 0)
    OBVIOUS
  <2>4. /\ f \in Entry /\ f.id = id /\ e.seq <= f.seq /\ e \in Entry /\ lo \in Nat
        /\ e.flags \in BOOLEAN /\ f.flags \in BOOLEAN
        /\ \/ out = << >> /\ f.flags = e.flags /\ f.seq = e.seq
           \/ \E y : out = << y >> /\ Leads(y, id, e, f)
    <3>1. lo \in Nat
      BY <1>3, <2>2, <2>3
    <3>2. QED
      BY <1>3, <1>6, <2>1, <3>1 DEF GoesAlong, Entry
  <2>5. /\ FlagsArrive(q, id, from, e.flags) /\ InOrder(q, id, lo, e.seq)
        /\ ~HasNow(d, x) => GivenFirst(q, id)
    <3>1. FlagsReach(d, x)
      BY <1>2, <1>6 DEF ReaderFlags
    <3>2. QED
      BY <2>1, <2>2, <2>3, <3>1 DEF FlagsReach
  <2>6. /\ FlagsArrive(toClient'[d], id, from, f.flags)
        /\ InOrder(toClient'[d], id, lo, f.seq)
        /\ ~HasNow(d, x) => GivenFirst(toClient'[d], id)
    <3>1. CASE out = << >> /\ f.flags = e.flags /\ f.seq = e.seq
      <4>1. toClient'[d] = q
        BY <1>1, <1>6, <3>1
      <4>2. QED
        BY <2>5, <3>1, <4>1
    <3>2. CASE \E y : out = << y >> /\ Leads(y, id, e, f)
      <4>1. PICK y : out = << y >> /\ Leads(y, id, e, f)
        BY <3>2
      <4>2. y \in ServerMsg /\ ~IsServerHello(y)
        BY <1>4, <4>1
      <4>3. toClient'[d] = q \o << y >>
        BY <1>6, <4>1
      <4>4. FlagsArrive(q \o << y >>, id, from, f.flags)
        BY <1>1, <2>4, <2>5, <4>1, <4>2, LeadsSent
      <4>5. InOrder(q \o << y >>, id, lo, f.seq)
        BY <1>1, <2>4, <2>5, <4>1, <4>2, LeadsSent
      <4>6. ~HasNow(d, x) => GivenFirst(q \o << y >>, id)
        <5>1. ~HasNow(d, x) => from = {}
          BY <2>3
        <5>2. QED
          BY <1>1, <2>4, <2>5, <4>2, <5>1, GivenAppend
      <4>7. QED
        BY <4>3, <4>4, <4>5, <4>6
    <3>3. QED
      BY <2>4, <3>1, <3>2
  <2>7. E(Server, x)' = f /\ E(d, x)' = g /\ (HasNow(d, x)' <=> HasNow(d, x))
    BY <1>3, <2>1, <2>2
  <2>8. QED
    BY <2>3, <2>4, <2>6, <2>7 DEF FlagsReach
\* an entry that is new to the server
<1>7. ASSUME Synced(d)', NEW x \in Names, ~Exists(Server, x), Exists(Server, x)'
      PROVE  FlagsReach(d, x)'
  <2>1. PICK f : f = E(Server, x)'
    OBVIOUS
  <2>2. f = r.store.entries[x] /\ Announces(r, x)
    BY <1>3, <1>7, <2>1
  <2>3. PICK y : out = << y >> /\ y.type = "EntryAssign"
                 /\ y.id = f.id /\ y.flags = f.flags /\ y.seq = f.seq
    BY <2>2 DEF Announces
  <2>4. f.id # NoId
    BY <2>2 DEF Announces
  <2>5. y \in ServerMsg
    BY <1>4, <2>3
  <2>6. y.flags \in BOOLEAN /\ y.seq \in SeqNums
    BY <2>3, <2>5, MsgKinds, MsgFields
  <2>7. \A id : \A z \in Names : Denotes(id, z) => id # f.id
    BY <1>7, <2>1, <2>4, FreshId
  <2>8. Silent(q, f.id)
    <3>1. ASSUME NEW i \in 1 .. Len(q)
          PROVE  /\ q[i].type \in {"EntryAssign", "EntryUpdate", "FlagsUpdate"}
                       => q[i].id # f.id
                 /\ IsServerHello(q[i]) => \A k \in q[i].assigns : k.id # f.id
      <4>1. q[i] \in Range(q) /\ q[i] \in ServerMsg
        BY <1>1, InRange
      <4>2. Synced(d) /\ FlagsDenote(q)
        BY <1>2, <1>7 DEF ReaderFlags
      <4>3. \/ GoodHello(w, q[i]) \/ GoodAssign(w, q[i]) \/ GoodUpdate(w, q[i])
            \/ q[i].type = "FlagsUpdate"
        BY <1>2, <4>1, <4>2 DEF Reader, ToReader
      <4>4. CASE GoodHello(w, q[i])
        <5>1. \A k \in q[i].assigns : k \in AssignMsg /\ Denotes(k.id, k.name)
          BY <4>1, <4>4, MsgKinds DEF GoodHello, GoodAssign
        <5>2. \A k \in q[i].assigns : k.id # f.id
          BY <2>7, <5>1, MsgFields
        <5>3. QED
          BY <4>4, <5>2 DEF GoodHello, IsServerHello
      <4>5. CASE GoodAssign(w, q[i])
        <5>1. q[i] \in AssignMsg
          BY <4>1, <4>5, MsgKinds DEF GoodAssign
        <5>2. q[i].id # f.id
          BY <2>7, <4>5, <5>1, MsgFields DEF GoodAssign
        <5>3. QED
          BY <4>5, <5>2 DEF GoodAssign, IsServerHello
      <4>6. CASE GoodUpdate(w, q[i])
        BY <2>7, <4>6 DEF GoodUpdate, IsServerHello
      <4>7. CASE q[i].type = "FlagsUpdate"
        BY <2>7, <4>1, <4>2, <4>7 DEF FlagsDenote, IsServerHello
      <4>8. QED
        BY <4>3, <4>4, <4>5, <4>6, <4>7
    <3>2. QED
      BY <3>1 DEF Silent
  <2>9. toClient'[d] = q \o << y >>
    BY <1>7, <2>3
  <2>10. /\ FlagsArrive(q \o << y >>, y.id, {}, y.flags)
         /\ InOrder(q \o << y >>, y.id, 0, y.seq)
         /\ GivenFirst(q \o << y >>, y.id)
    BY <1>1, <2>3, <2>5, <2>6, <2>8, FreshArrives
  <2>11. ~HasNow(d, x)
    <3>1. SUFFICES ASSUME HasNow(d, x) PROVE FALSE
      OBVIOUS
    <3>2. Joined(d) /\ Exists(d, x)
      BY <1>7, <3>1 DEF HasNow, Joined, Synced
    <3>3. E(d, x).id # NoId
      BY <1>2, <3>2 DEF Reader, ReaderFollows
    <3>4. Denotes(E(d, x).id, x)
      BY <1>2, <3>2, <3>3, ClientIds
    <3>5. QED
      BY <1>7, <3>4 DEF Denotes
  <2>12. /\ FlagsArrive(toClient'[d], f.id, {}, f.flags)
         /\ InOrder(toClient'[d], f.id, 0, f.seq) /\ GivenFirst(toClient'[d], f.id)
    BY <2>3, <2>9, <2>10
  <2>13. E(Server, x)' = f /\ ~HasNow(d, x)'
    BY <1>3, <2>1, <2>11
  <2>14. QED
    BY <2>12, <2>13 DEF FlagsReach
<1>8. QED
  BY <1>5, <1>6, <1>7 DEF ReaderFlags

\* Of the answers for a name there is at most one, with these flags.
OneAnswer(q, n, f) == \A i \in 1 .. Len(q) : IsAnswer(q[i], n) =>
    q[i].flags = f /\ \A j \in 1 .. Len(q) : IsAnswer(q[j], n) => i = j

\* A message is queued that answers for another name, or is the first answer.
LEMMA OneAnswerMore ==
    ASSUME NEW T, NEW q \in Seq(T), NEW y \in T, NEW n, NEW f, OneAnswer(q, n, f),
           IsAnswer(y, n) => y.flags = f /\ \A i \in 1 .. Len(q) : ~IsAnswer(q[i], n)
    PROVE  OneAnswer(q \o << y >>, n, f)
<1> DEFINE u == q \o << y >>
<1>1. /\ Len(q) \in Nat /\ Len(u) = Len(q) + 1
      /\ \A i \in 1 .. Len(q) : u[i] = q[i]
      /\ u[Len(u)] = y
  BY OneMore
<1> HIDE DEF u
<1>2. \A i \in 1 .. Len(u) : i \in 1 .. Len(q) \/ i = Len(u)
  BY <1>1
<1>3. CASE IsAnswer(y, n)
  <2>1. \A i \in 1 .. Len(u) : IsAnswer(u[i], n) => i = Len(u)
    BY <1>1, <1>2, <1>3
  <2>2. OneAnswer(u, n, f)
    BY <1>1, <1>3, <2>1 DEF OneAnswer
  <2>3. QED
    BY <2>2 DEF u
<1>4. CASE ~IsAnswer(y, n)
  <2>1. \A i \in 1 .. Len(u) : IsAnswer(u[i], n) => i \in 1 .. Len(q) /\ u[i] = q[i]
    BY <1>1, <1>2, <1>4
  <2>2. OneAnswer(u, n, f)
    BY <2>1 DEF OneAnswer
  <2>3. QED
    BY <2>2 DEF u
<1>5. QED
  BY <1>3, <1>4

\* The writer after the server has heard it.
LEMMA WriterHeardFlags ==
    ASSUME IInv, IdInv, IdInv', NEW w, SoleWriter(w), WriterInv(w), FlagsInv(w),
           ServerGrows, Joined(w), toServer[w] # << >>, NEW m, m = Head(toServer[w]),
           NEW r, r.out \in Seq(ServerMsg), storage'[Server] = r.store,
           storage'[w] = storage[w], client'[w] = client[w], link'[w] = link[w],
           toServer'[w] = Tail(toServer[w]),
           toClient'[w] = IF r.toSender THEN toClient[w] \o r.out ELSE toClient[w],
           \A x \in Names : Exists(Server, x) => GoesAlong(m, r, x),
           \A x \in Names : ~Exists(Server, x) /\ Has(r.store, x) => Announces(r, x),
           r.toSender => \/ r.out = << >>
                         \/ \E x \in Names : /\ ~Exists(Server, x) /\ Has(r.store, x)
                                             /\ Announces(r, x)
    PROVE  WriterFlags(w)'
<1> DEFINE q == toClient[w]
           p == toServer[w]
<1>1. /\ w \in Clients /\ w \in Nodes /\ Server \in Nodes /\ TypeOK
      /\ q \in Seq(ServerMsg) /\ p \in Seq(ClientMsg) /\ link[w] = "up"
  BY DEF SoleWriter, IInv, TypeOK, Nodes, Joined
<1>2. /\ ServerFollows(w) /\ WriterFlags(w) /\ FromWriter(w) /\ ToWriter(w)
  BY <1>1 DEF WriterInv, FlagsInv, Writer
<1>3. m \in Range(p) /\ m \in ClientMsg /\ Range(Tail(p)) \subseteq Range(p)
      /\ Range(p) \subseteq ClientMsg /\ ~IsServerHello(m)
  BY <1>1, Messages, MsgKinds
<1>4. \A x \in Names : /\ E(Server, x)' = r.store.entries[x]
                       /\ Exists(Server, x)' <=> Has(r.store, x)
                       /\ E(w, x)' = E(w, x) /\ (Exists(w, x)' <=> Exists(w, x))
                       /\ E(Server, x) \in Entry /\ E(w, x) \in Entry
                       /\ E(w, x).flags \in BOOLEAN /\ E(w, x).seq \in Nat
  BY <1>1, EntrySeqs DEF E, Exists, Entry
<1>5. \A y, x : IsAnswer(y, x)' <=> IsAnswer(y, x)
  BY DEF IsAnswer
<1>6. FlagsDenote(p) /\ \A x \in Names : Exists(w, x) =>
         IF E(w, x).id = NoId THEN FlagsWait(w, x) ELSE FlagsGo(w, x)
  BY <1>2 DEF WriterFlags
<1>7. FlagsDenote(toServer[w])'
  <2>1. \A y \in Range(Tail(p)) : y.type = "FlagsUpdate" =>
           \E x \in Names : Denotes(y.id, x)'
    BY <1>3, <1>6, DenotesStays DEF FlagsDenote
  <2>2. QED
    BY <2>1 DEF FlagsDenote
\* no answer for a name that the server does not have
<1>8. ASSUME NEW x \in Names, ~Exists(Server, x), NEW y \in Range(q)
      PROVE  ~IsAnswer(y, x)
  <2>1. IsServerHello(y) \/ Answer(w, y)
    BY <1>2 DEF ToWriter
  <2>2. QED
    BY <1>1, <1>8, <2>1 DEF IsAnswer, Answer, IsServerHello, Denotes
\* what the server adds
<1>9. \/ toClient'[w] = q
      \/ \E y, z : /\ z \in Names /\ ~Exists(Server, z) /\ Has(r.store, z)
                   /\ toClient'[w] = q \o << y >> /\ y \in ServerMsg
                   /\ \A x : IsAnswer(y, x) => x = z
                   /\ y.flags = r.store.entries[z].flags
  <2>1. CASE ~r.toSender
    BY <2>1
  <2>2. CASE r.toSender /\ r.out = << >>
    BY <1>1, <2>2
  <2>3. CASE r.toSender /\ \E x \in Names : /\ ~Exists(Server, x) /\ Has(r.store, x)
                                            /\ Announces(r, x)
    <3>1. PICK z \in Names : ~Exists(Server, z) /\ Has(r.store, z) /\ Announces(r, z)
      BY <2>3
    <3>2. PICK y : /\ r.out = << y >> /\ y.type = "EntryAssign" /\ y.name = z
                   /\ y.flags = r.store.entries[z].flags
      BY <3>1 DEF Announces
    <3>3. r.out[1] \in ServerMsg
      BY <3>2
    <3>4. y \in ServerMsg
      BY <3>2, <3>3
    <3>5. toClient'[w] = q \o << y >>
      BY <2>3, <3>2
    <3>6. \A x : IsAnswer(y, x) => x = z
      BY <3>2 DEF IsAnswer
    <3>7. QED
      BY <3>1, <3>2, <3>4, <3>5, <3>6
  <2>4. QED
    BY <2>1, <2>2, <2>3
<1>10. \A x \in Names : Exists(Server, x) =>
          \A y \in Range(toClient'[w]) : IsAnswer(y, x) => y \in Range(q)
  <2>1. CASE toClient'[w] = q
    BY <2>1
  <2>2. CASE \E y, z : /\ z \in Names /\ ~Exists(Server, z)
                       /\ toClient'[w] = q \o << y >> /\ y \in ServerMsg
                       /\ \A x : IsAnswer(y, x) => x = z
    <3>1. PICK y, z : /\ z \in Names /\ ~Exists(Server, z)
                      /\ toClient'[w] = q \o << y >> /\ y \in ServerMsg
                      /\ \A x : IsAnswer(y, x) => x = z
      BY <2>2
    <3>2. Range(toClient'[w]) = Range(q) \cup {y}
      <4>1. PICK out : out = << y >>
        OBVIOUS
      <4>2. out \in Seq(ServerMsg) /\ Range(out) = {y}
        BY <3>1, <4>1 DEF Range
      <4>3. Range(q \o out) = Range(q) \cup Range(out)
        BY <1>1, <4>2, Messages
      <4>4. QED
        BY <3>1, <4>1, <4>2, <4>3
    <3>3. QED
      BY <3>1, <3>2
  <2>3. QED
    BY <1>9, <2>1, <2>2
\* an entry that waits for its id
<1>11. ASSUME NEW x \in Names, Exists(w, x), E(w, x).id = NoId
       PROVE  FlagsWait(w, x)'
  <2>1. FlagsWait(w, x)
    BY <1>6, <1>11
  <2>2. ASSUME Exists(Server, x)' PROVE Untouched(Tail(p), E(Server, x)'.id)
    <3>1. CASE Exists(Server, x)
      <4>1. Untouched(p, E(Server, x).id) /\ E(Server, x)'.id = E(Server, x).id
        BY <1>4, <2>1, <3>1 DEF FlagsWait, GoesAlong
      <4>2. QED
        BY <1>3, <4>1 DEF Untouched
    <3>2. CASE ~Exists(Server, x)
      <4>1. PICK id : id = E(Server, x)'.id
        OBVIOUS
      <4>2. id # NoId
        BY <1>4, <2>2, <3>2, <4>1 DEF Announces
      <4>3. \A k : \A z \in Names : Denotes(k, z) => k # id
        BY <2>2, <3>2, <4>1, <4>2, FreshId
      <4>4. ASSUME NEW y \in Range(Tail(p)),
                   y.type \in {"EntryAssign", "EntryUpdate", "FlagsUpdate"}
            PROVE  y.id # id
        <5>1. y \in Range(p) /\ y \in ClientMsg
          BY <1>3
        <5>2. \/ y \in {ClientHello, ClientHelloDone}
              \/ GoodRequest(w, y) \/ GoodAssign(w, y) \/ GoodUpdate(w, y)
              \/ y.type = "FlagsUpdate"
          BY <1>2, <5>1 DEF FromWriter
        <5>3. CASE y \in {ClientHello, ClientHelloDone}
          BY <4>4, <5>3 DEF ClientHello, ClientHelloDone
        <5>4. CASE GoodRequest(w, y)
          BY <4>2, <5>4 DEF GoodRequest
        <5>5. CASE GoodAssign(w, y)
          <6>1. y \in AssignMsg
            BY <5>1, <5>5, MsgKinds DEF GoodAssign
          <6>2. QED
            BY <4>3, <5>5, <6>1, MsgFields DEF GoodAssign
        <5>6. CASE GoodUpdate(w, y)
          BY <4>3, <5>6 DEF GoodUpdate
        <5>7. CASE y.type = "FlagsUpdate"
          BY <1>6, <4>3, <5>1, <5>7 DEF FlagsDenote
        <5>8. QED
          BY <5>2, <5>3, <5>4, <5>5, <5>6, <5>7
      <4>5. QED
        BY <4>1, <4>4 DEF Untouched
    <3>3. QED
      BY <3>1, <3>2
  <2>3. \A i \in 1 .. Len(q) : IsAnswer(q[i], x) =>
           /\ q[i].flags = E(Server, x).flags
           /\ \A j \in 1 .. Len(q) : IsAnswer(q[j], x) => i = j
    BY <2>1 DEF FlagsWait
  <2>4. Exists(Server, x) => E(Server, x)'.flags = E(Server, x).flags
    <3>1. ASSUME Exists(Server, x)
          PROVE  E(Server, x)'.flags = E(Server, x).flags
      <4>1. Leads(m, E(Server, x).id, E(Server, x), E(Server, x)')
        BY <1>4, <3>1 DEF GoesAlong
      <4>2. m.type \in {"EntryAssign", "EntryUpdate", "FlagsUpdate"}
               => m.id # E(Server, x).id
        BY <1>3, <2>1, <3>1 DEF FlagsWait, Untouched
      <4>3. QED
        BY <4>1, <4>2 DEF Leads
    <3>2. QED
      BY <3>1
  <2>5. ~Exists(Server, x) => \A i \in 1 .. Len(q) : ~IsAnswer(q[i], x)
    BY <1>1, <1>8, InRange
  <2>6. \A i \in 1 .. Len(toClient'[w]) : IsAnswer(toClient'[w][i], x) =>
           /\ toClient'[w][i].flags = E(Server, x)'.flags
           /\ \A j \in 1 .. Len(toClient'[w]) : IsAnswer(toClient'[w][j], x) => i = j
    <3>1. CASE toClient'[w] = q
      BY <2>3, <2>4, <2>5, <3>1
    <3>2. CASE \E y, z : /\ z \in Names /\ ~Exists(Server, z) /\ Has(r.store, z)
                         /\ toClient'[w] = q \o << y >> /\ y \in ServerMsg
                         /\ \A k : IsAnswer(y, k) => k = z
                         /\ y.flags = r.store.entries[z].flags
      <4>1. PICK y, z : /\ z \in Names /\ ~Exists(Server, z) /\ Has(r.store, z)
                        /\ toClient'[w] = q \o << y >> /\ y \in ServerMsg
                        /\ \A k : IsAnswer(y, k) => k = z
                        /\ y.flags = r.store.entries[z].flags
        BY <3>2
      <4>2. IsAnswer(y, x) => /\ y.flags = E(Server, x)'.flags
                              /\ \A i \in 1 .. Len(q) : ~IsAnswer(q[i], x)
        BY <1>4, <2>5, <4>1
      <4>3. OneAnswer(q, x, E(Server, x)'.flags)
        BY <2>3, <2>4, <2>5 DEF OneAnswer
      <4>4. OneAnswer(q \o << y >>, x, E(Server, x)'.flags)
        BY <1>1, <4>1, <4>2, <4>3, OneAnswerMore
      <4>5. QED
        BY <4>1, <4>4 DEF OneAnswer
    <3>3. QED
      BY <1>9, <3>1, <3>2
  <2>7. Exists(Server, x)' => Untouched(toServer'[w], E(Server, x)'.id)
    BY <2>2
  <2>8. QED
    BY <1>5, <2>6, <2>7 DEF FlagsWait, Untouched
\* an entry with an id
<1>12. ASSUME NEW x \in Names, Exists(w, x), E(w, x).id # NoId
       PROVE  FlagsGo(w, x)'
  <2>1. PICK id : id = E(w, x).id
    OBVIOUS
  <2>2. Denotes(id, x) /\ Exists(Server, x) /\ E(Server, x).id = id
    BY <1>1, <1>2, <1>12, <2>1, ClientIds DEF Denotes
  <2>3. PICK e, f, g : e = E(Server, x) /\ f = E(Server, x)' /\ g = E(w, x)
    OBVIOUS
  <2>4. /\ FlagsArrive(p, id, {e.flags}, g.flags) /\ InOrder(p, id, e.seq, g.seq)
        /\ \A y \in Range(q) : ~IsAnswer(y, x)
    BY <1>6, <1>12, <2>1, <2>3 DEF FlagsGo
  <2>5. /\ f \in Entry /\ e \in Entry /\ Leads(m, id, e, f)
        /\ g.flags \in BOOLEAN /\ g.seq \in Nat
    BY <1>4, <2>2, <2>3 DEF GoesAlong
  <2>6. FlagsArrive(Tail(p), id, {f.flags}, g.flags)
    BY <1>1, <1>3, <2>4, <2>5, LeadsHeard
  <2>7. InOrder(Tail(p), id, f.seq, g.seq)
    BY <1>1, <1>3, <2>4, <2>5, LeadsHeard
  <2>8. \A y \in Range(toClient'[w]) : ~IsAnswer(y, x)
    BY <1>10, <2>2, <2>4
  <2>9. E(Server, x)' = f /\ E(w, x)' = g /\ g.id = id
    BY <1>4, <2>1, <2>3
  <2>10. QED
    BY <1>5, <2>6, <2>7, <2>8, <2>9 DEF FlagsGo
<1>13. QED
  <2>1. \A x \in Names : Exists(w, x)' =>
           IF E(w, x)'.id = NoId THEN FlagsWait(w, x)' ELSE FlagsGo(w, x)'
    BY <1>4, <1>11, <1>12
  <2>2. QED
    BY <1>7, <2>1 DEF WriterFlags

\* What the server hears of the flags from the writer, it takes and passes on.
LEMMA ServerHearsFlags ==
    ASSUME IInv, IdInv, IdInv', NEW w, SoleWriter(w), WriterInv(w), FlagsInv(w),
           ServerReceive(w)
    PROVE  FlagsInv(w)'
<1> PICK m : m = Head(toServer[w])
  OBVIOUS
<1> PICK r : r = ProcessIncoming(storage[Server], m)
  OBVIOUS
<1>1. w \in Clients /\ TypeOK /\ Server \in Nodes
  BY DEF SoleWriter, IInv, Nodes
<1>2. /\ storage'[Server] = r.store
      /\ \A d \in Clients : storage'[d] = storage[d]
      /\ r.out \in Seq(ServerMsg)
      /\ \A d \in Clients :
            toClient'[d] = IF Synced(d) /\ (r.toSender \/ d # w)
                           THEN toClient[d] \o r.out ELSE toClient[d]
      /\ UNCHANGED << client, link, old, ops >>
      /\ \A d \in Clients : Synced(d)' <=> Synced(d)
      /\ Synced(w) /\ Joined(w) /\ toServer'[w] = Tail(toServer[w])
  BY <1>1, ServerReceiveState
<1>3. toServer[w] # << >>
  BY DEF ServerReceive, Readable
<1>4. /\ \A x \in Names : Exists(Server, x) => GoesAlong(m, r, x)
      /\ \A x \in Names : ~Exists(Server, x) /\ Has(r.store, x) => Announces(r, x)
      /\ r.toSender => \/ r.out = << >>
                       \/ \E x \in Names : /\ ~Exists(Server, x) /\ Has(r.store, x)
                                           /\ Announces(r, x)
      /\ \A y \in Range(r.out) :
            /\ ~IsServerHello(y)
            /\ y.type = "FlagsUpdate" => \E x \in Names : Denotes(y.id, x)
  BY <1>2, <1>3, ServerMoves
<1>5. \A x \in Names : /\ E(Server, x)' = r.store.entries[x]
                       /\ Exists(Server, x)' <=> Has(r.store, x)
  BY <1>2 DEF E, Exists
<1>6. ServerGrows
  BY <1>4, <1>5 DEF GoesAlong, ServerGrows
<1>7. WriterFlags(w)'
  <2>1. /\ storage'[Server] = r.store /\ storage'[w] = storage[w]
        /\ client'[w] = client[w] /\ link'[w] = link[w]
        /\ toServer'[w] = Tail(toServer[w])
        /\ toClient'[w] = IF r.toSender THEN toClient[w] \o r.out ELSE toClient[w]
    BY <1>1, <1>2
  <2>2. QED
    BY <1>2, <1>3, <1>4, <1>6, <2>1, WriterHeardFlags
<1>8. ASSUME NEW d \in Clients \ {w} PROVE ReaderFlags(d)'
  <2>1. /\ storage'[d] = storage[d] /\ client'[d] = client[d] /\ link'[d] = link[d]
        /\ Synced(d)' => Synced(d)
        /\ Synced(d) => toClient'[d] = toClient[d] \o r.out
    BY <1>2
  <2>2. QED
    BY <1>2, <1>4, <1>6, <2>1, ReaderToldFlags
<1>9. QED
  BY <1>7, <1>8 DEF FlagsInv

\* What it hears from the others changes nothing.
LEMMA ReaderHeardFlags ==
    ASSUME IInv, NEW w, SoleWriter(w), WriterInv(w), FlagsInv(w),
           NEW c \in Clients \ {w}, ServerReceive(c)
    PROVE  FlagsInv(w)'
<1> PICK m : m = Head(toServer[c])
  OBVIOUS
<1> PICK r : r = ProcessIncoming(storage[Server], m)
  OBVIOUS
<1>1. w \in Clients /\ TypeOK /\ c # w
  BY DEF SoleWriter, IInv
<1>2. /\ storage'[Server] = r.store
      /\ \A d \in Clients : storage'[d] = storage[d]
      /\ \A d \in Clients :
            toClient'[d] = IF Synced(d) /\ (r.toSender \/ d # c)
                           THEN toClient[d] \o r.out ELSE toClient[d]
      /\ UNCHANGED << client, link, old, ops >>
      /\ \A d \in Clients : Synced(d)' <=> Synced(d)
      /\ \A d \in Clients \ {c} :
            toServer'[d] = toServer[d] /\ session'[d] = session[d]
      /\ m \in Range(toServer[c]) /\ Joined(c)
  BY ServerReceiveState
<1>3. m \in {ClientHello, ClientHelloDone}
  <2>1. Reader(w, c)
    BY DEF WriterInv
  <2>2. QED
    BY <1>2, <2>1 DEF Reader, Listens
<1>4. r.store = storage[Server] /\ r.out = << >>
  BY <1>3, HelloIgnored DEF Ignored, Result
<1>5. storage'[Server] = storage[Server]
      /\ \A d \in Clients : toClient'[d] = toClient[d]
  <2>1. \A d \in Clients : toClient[d] \o << >> = toClient[d]
    BY <1>1 DEF TypeOK
  <2>2. QED
    BY <1>2, <1>4, <2>1
<1>6. ReaderFlags(c)'
  <2>1. \A n \in Names : /\ E(Server, n)' = E(Server, n)
                         /\ Exists(Server, n)' <=> Exists(Server, n)
                         /\ E(c, n)' = E(c, n) /\ (HasNow(c, n)' <=> HasNow(c, n))
    BY <1>2, <1>5 DEF E, Exists, HasNow
  <2>2. FlagsDenote(toClient[c]) => FlagsDenote(toClient[c])'
    BY <1>5, <2>1 DEF FlagsDenote, Denotes
  <2>3. ASSUME NEW n \in Names, FlagsReach(c, n) PROVE FlagsReach(c, n)'
    BY <1>5, <2>1, <2>3 DEF FlagsReach
  <2>4. ReaderFlags(c)
    BY DEF FlagsInv
  <2>5. QED
    BY <1>2, <2>1, <2>2, <2>3, <2>4 DEF ReaderFlags
<1>7. \A d \in Clients \ {c} :
         /\ storage'[d] = storage[d] /\ client'[d] = client[d]
         /\ session'[d] = session[d] /\ link'[d] = link[d]
         /\ toServer'[d] = toServer[d] /\ toClient'[d] = toClient[d]
  BY <1>2, <1>5
<1>8. QED
  BY <1>1, <1>5, <1>6, <1>7, FlagsConnection

-----------------------------------------------------------------------------
(* One writer: the theorems about the flags *)

\* At first nobody has said anything of flags either.
LEMMA FlagsInvInit ==
    ASSUME NEW w, SoleWriter(w), Init
    PROVE  FlagsInv(w)
<1>1. w \in Clients /\ \A d \in Clients : ~Synced(d) /\ ~Joined(d)
  BY DEF SoleWriter, Init, Synced, Joined
<1>2. QED
  BY <1>1 DEF FlagsInv, WriterFlags, ReaderFlags

\* Every step keeps them on their way.
LEMMA FlagsInvStep ==
    ASSUME IInv, IdInv, NEW w, SoleWriter(w), WriterInv(w), FlagsInv(w), [Next]_vars
    PROVE  FlagsInv(w)'
<1>1. IInv' /\ IdInv'
  BY NextSafe, NextKeepsIds DEF SafeStep, IInv
<1>2. w \in Clients
  BY DEF SoleWriter
<1>3. ASSUME NEW p \in Nodes, LocalOp(p) PROVE FlagsInv(w)'
  <2>1. p = w
    BY <1>2, <1>3, RuledOut
  <2>2. QED
    BY <1>3, <2>1, LocalOpFlags
<1>4. ASSUME NEW c \in Clients, ProtocolStep(c) PROVE FlagsInv(w)'
  <2>1. ~ServerReceiveOld(c) /\ ~ServerNotices(c) /\ ~ServerNoticesOld(c)
    BY RuledOut
  <2>2. CASE Connect(c)
    BY <2>2, ConnectFlags
  <2>3. CASE SendSnapshot(c)
    BY <1>1, <2>3, SendSnapshotFlags
  <2>4. CASE ApplySnapshot(c)
    BY <1>1, <2>4, ReaderAppliesFlags, WriterAppliesFlags
  <2>5. CASE ServerReceive(c)
    BY <1>1, <2>5, ReaderHeardFlags, ServerHearsFlags
  <2>6. CASE ClientReceive(c)
    BY <1>1, <2>6, ReaderReceivesFlags, WriterReceivesFlags
  <2>7. CASE ClientNotices(c)
    BY <2>7, ClientNoticesFlags
  <2>8. QED
    BY <1>4, <2>1, <2>2, <2>3, <2>4, <2>5, <2>6, <2>7 DEF ProtocolStep
<1>5. ASSUME NEW c \in Clients, Break(c) PROVE FlagsInv(w)'
  BY <1>5, RuledOut
<1>6. CASE ServerRestart
  BY <1>6, ServerRestartFlags
<1>7. CASE UNCHANGED vars
  <2>1. UNCHANGED << storage, client, session, link, toServer, toClient >>
    BY <1>7 DEF vars
  <2>2. WriterFlags(w)'
    BY <2>1, WriterFlagsSame DEF FlagsInv
  <2>3. \A d \in Clients \ {w} : ReaderFlags(d)'
    BY <2>1, ReaderFlagsSame DEF FlagsInv
  <2>4. QED
    BY <2>2, <2>3 DEF FlagsInv
<1>8. QED
  BY <1>3, <1>4, <1>5, <1>6, <1>7 DEF Next

\* Where one client alone writes, its flags of every entry are on the server
\* or on their way there, in order, and the server's flags are at every client
\* or on their way there.
THEOREM FlagsInvariance ==
    ASSUME NEW w, SoleWriter(w)
    PROVE  Spec => []FlagsInv(w)
<1>1. Init => FlagsInv(w)
  BY FlagsInvInit
<1>2. IInv /\ IdInv /\ WriterInv(w) /\ FlagsInv(w) /\ [Next]_vars => FlagsInv(w)'
  BY FlagsInvStep
<1>3. Spec => []WriterInv(w)
  BY WriterInvariance
<1>4. QED
  BY <1>1, <1>2, <1>3, Invariance, IdInvariance, PTL DEF Spec

\* When nothing is on its way, the flags are there.
LEMMA FlagsAgreeWhenQuiet ==
    ASSUME IInv, IdInv, NEW w, SoleWriter(w), WriterInv(w), FlagsInv(w)
    PROVE  FlagsAgree
<1> SUFFICES ASSUME Quiescent, NEW c \in Clients, NEW n \in Names, Exists(c, n)
             PROVE  E(c, n).flags = E(Server, n).flags
  BY DEF FlagsAgree
<1>1. w \in Clients /\ TypeOK /\ w \in Nodes /\ c \in Nodes
  BY DEF SoleWriter, IInv, Nodes
<1>2. \A d \in Clients : /\ Synced(d) /\ Joined(d)
                         /\ toServer[d] = << >> /\ toClient[d] = << >>
                         /\ Range(toServer[d]) = {} /\ Range(toClient[d]) = {}
                         /\ client[d] = "Active"
  BY DEF Quiescent, Synced, Joined, Range
<1>3. Len(<< >>) = 0
  OBVIOUS
<1>4. ReachesServer(w) /\ ServerFollows(w)
  BY <1>1 DEF WriterInv, Writer
<1>5. \A id, from, to : FlagsArrive(<< >>, id, from, to) => to \in from
  BY <1>3 DEF FlagsArrive
<1>6. CASE c = w
  <2>1. OnItsWay(w, n)
    BY <1>2, <1>4, <1>6 DEF ReachesServer
  <2>2. E(w, n).id # NoId
    BY <1>1, <1>2, <2>1 DEF OnItsWay
  <2>3. FlagsGo(w, n)
    BY <1>1, <1>2, <1>6, <2>2 DEF FlagsInv, WriterFlags
  <2>4. QED
    BY <1>1, <1>2, <1>5, <1>6, <2>3 DEF FlagsGo
<1>7. CASE c # w
  <2>1. E(c, n).id # NoId
    BY <1>2, <1>7 DEF WriterInv, Reader, ReaderFollows
  <2>2. Exists(Server, n)
    BY <1>2, <1>4, <2>1, ClientIds DEF Denotes
  <2>3. FlagsReach(c, n)
    BY <1>2, <1>7, <2>2 DEF FlagsInv, ReaderFlags
  <2>4. HasNow(c, n)
    BY <1>2 DEF HasNow
  <2>5. QED
    BY <1>2, <1>5, <2>3, <2>4 DEF FlagsReach
<1>8. QED
  BY <1>6, <1>7

\* The flags that one client alone sets reach everyone: whenever nothing is on
\* its way any more, every client has the flags of the server.
THEOREM SoleWriterFlagsReachAll ==
    ASSUME NEW w, SoleWriter(w)
    PROVE  Spec => []FlagsAgree
<1>1. IInv /\ IdInv /\ WriterInv(w) /\ FlagsInv(w) => FlagsAgree
  BY FlagsAgreeWhenQuiet
<1>2. Spec => []WriterInv(w)
  BY WriterInvariance
<1>3. Spec => []FlagsInv(w)
  BY FlagsInvariance
<1>4. QED
  BY <1>1, <1>2, <1>3, Invariance, IdInvariance, PTL

=============================================================================
