------------------------------ MODULE WireSync ------------------------------
(***************************************************************************)
(* A server and a client that may speak either revision of the protocol:   *)
(* the stores of Storage.tla, the two handshakes of dispatcher.py with the *)
(* choice of the revision, the queues of NetworkConnection, and between    *)
(* them streams of fields that Wire.tla encodes and decodes.               *)
(*                                                                         *)
(* NTSync.tla has many clients, flags and restarts, and lets messages pass *)
(* as they are; here there is one client and one connection at a time, and *)
(* the subject is what the wire makes of the messages.  Flags are never    *)
(* set: a store treats the flags of a revision 2 message in its own way.   *)
(***************************************************************************)
EXTENDS Wire

CONSTANTS
    OpKindsUsed,    \* the kinds of local operation
    MaxOps,         \* bound: local operations in a behaviour
    MaxBreaks       \* bound: connections that break

Ends == {"client", "server"}

Peer(e) == IF e = "client" THEN "server" ELSE "client"

\* Values are what Wire.tla encodes, and what is cut on the way is a value.
ASSUME WireSyncAssumption ==
    /\ OpKindsUsed \subseteq {"write", "delete", "clear"}
    /\ MaxOps \in Nat /\ MaxBreaks \in Nat
    /\ IsFiniteSet(Names)
    /\ \A v \in Values : /\ IsWireValue(v) /\ TypeOf[v] = v.type
                         /\ \A rev \in Revs : Heard(rev, v) \in Values

VARIABLES
    default,    \* m_default_proto of each end
    nextRev,    \* the client's m_reconnect_proto_rev
    rev,        \* m_proto_rev of each end's connection
    phase,      \* how far each end's handshake is
    open,       \* whether the TCP connection stands
    store,      \* the store of each end
    incoming,   \* initial assignments an end has read and not applied yet
    hasty,      \* the batch each end's handshake has queued
    pending,    \* what storage has queued, until the connection is Active
    stream,     \* the fields an end has written and its peer not read
    sent, got,  \* history: what an end wrote and what its peer made of it
    garbled,    \* ends that could not read what was written to them
    writers,    \* history: the ends whose user changed the entries
    types,      \* history: the types of the values they wrote
    deleted,    \* history: an entry was deleted
    ops, breaks

connection == << rev, phase, open, incoming, hasty, pending, stream, sent, got,
                 garbled >>
user  == << writers, types, deleted, ops >>
vars  == << default, nextRev, connection, store, user, breaks >>

Phases == {"off", "hello", "assigns", "active", "rejecting", "dead"}

Nothing == [e \in Ends |-> << >>]

Init ==
    /\ default \in [Ends -> Revs]
    /\ nextRev = default["client"]
    /\ rev = [e \in Ends |-> 3]
    /\ phase = [e \in Ends |-> "off"]
    /\ open = FALSE
    /\ store = [e \in Ends |-> NewStore(e = "server")]
    /\ incoming = Nothing /\ hasty = Nothing /\ pending = Nothing
    /\ stream = Nothing /\ sent = Nothing /\ got = Nothing
    /\ garbled = {}
    /\ writers = {} /\ types = {} /\ deleted = FALSE
    /\ ops = 0 /\ breaks = 0

-----------------------------------------------------------------------------
(* Local operations *)

\* Mutant: a connection whose handshake is running gets nothing.
QueueToActive(e, out) ==
    pending' = [pending EXCEPT ![e] = IF phase[e] = "active" THEN @ \o out ELSE @]

\* Dispatcher._queueOutgoing: to a connection that has synchronized.
QueueOutgoing(e, out) ==
    pending' = [pending EXCEPT ![e] =
                  IF phase[e] = "active" \/ (e = "server" /\ phase[e] = "assigns")
                  THEN @ \o out ELSE @]

Entries(s) == {n \in Names : Has(s, n)}

LocalOp(e) ==
    /\ ops < MaxOps /\ ops' = ops + 1
    /\ \E r \in UserOperations(store[e], OpKindsUsed) :
        /\ r.store # store[e]
        /\ store' = [store EXCEPT ![e] = r.store]
        /\ QueueOutgoing(e, r.out)
        /\ types' = types \cup {r.store.entries[n].value.type : n \in Entries(r.store)}
        /\ deleted' = (deleted \/ ~(Entries(store[e]) \subseteq Entries(r.store)))
    /\ writers' = writers \cup {e}
    /\ UNCHANGED << default, nextRev, rev, phase, open, incoming, hasty, stream,
                    sent, got, garbled, breaks >>

-----------------------------------------------------------------------------
(* Opening a connection *)

\* Mutant: the client always starts with its default.
FirstRevIsDefault(e) == IF e = "client" THEN default[e] ELSE 3

\* The revision a new connection starts with: the server's is set by the hello.
FirstRev(e) == IF e = "client" THEN nextRev ELSE 3

\* The client thread connects; the next time it starts with its default again.
Connect ==
    /\ \A e \in Ends : phase[e] \in {"off", "dead"}
    /\ rev' = [e \in Ends |-> FirstRev(e)]
    /\ nextRev' = default["client"]
    /\ phase' = [e \in Ends |-> "hello"]
    /\ open' = TRUE
    /\ hasty' = [Nothing EXCEPT !["client"] = << ClientHello(FirstRev("client")) >>]
    /\ incoming' = Nothing /\ pending' = Nothing /\ stream' = Nothing
    /\ sent' = Nothing /\ got' = Nothing /\ garbled' = {}
    /\ UNCHANGED << default, store, user, breaks >>

\* An end gives the connection up: it closes the stream, and what it had not
\* read or written is lost.
Dead(e) ==
    /\ phase' = [phase EXCEPT ![e] = "dead"]
    /\ open' = FALSE
    /\ hasty' = [hasty EXCEPT ![e] = << >>]
    /\ pending' = [pending EXCEPT ![e] = << >>]
    /\ incoming' = [incoming EXCEPT ![e] = << >>]
    /\ stream' = [stream EXCEPT ![Peer(e)] = << >>]

-----------------------------------------------------------------------------
(* The write thread *)

Alive(e) == phase[e] \notin {"off", "dead"}

\* What it takes next: the batch of the handshake, and what postOutgoing posts
\* once the connection is Active.
Batch(e) == IF hasty[e] # << >> THEN hasty[e]
            ELSE IF phase[e] = "active" THEN pending[e] ELSE << >>

Taken(e) ==
    IF hasty[e] # << >>
    THEN hasty' = [hasty EXCEPT ![e] = << >>] /\ UNCHANGED pending
    ELSE pending' = [pending EXCEPT ![e] = << >>] /\ UNCHANGED hasty

\* A batch is encoded and then sent as a whole.
Write(e) ==
    /\ Alive(e) /\ open /\ Batch(e) # << >>
    /\ LET batch == Batch(e) IN
        /\ \A i \in DOMAIN batch : Encodable(rev[e], batch[i])
        /\ stream' = [stream EXCEPT ![e] = @ \o
              FlattenSeq([i \in DOMAIN batch |-> Encode(rev[e], batch[i])])]
        /\ sent' = [sent EXCEPT ![e] = @ \o
              FlattenSeq([i \in DOMAIN batch |-> HeardFrom(rev[e], batch[i])])]
    /\ Taken(e)
    /\ UNCHANGED << default, nextRev, rev, phase, open, store, incoming, got,
                    garbled, user, breaks >>

\* One message cannot be encoded: the thread ends, and none of the batch is sent.
WriteFails(e) ==
    /\ Alive(e) /\ open /\ Batch(e) # << >>
    /\ \E i \in DOMAIN Batch(e) : ~Encodable(rev[e], Batch(e)[i])
    /\ Dead(e)
    /\ UNCHANGED << default, nextRev, rev, store, sent, got, garbled, user, breaks >>

-----------------------------------------------------------------------------
(* The read thread *)

Reads(e) == phase[e] \in {"hello", "assigns", "active"}

\* What there is to read at e, and what its codec makes of it.
Arrived(e) == stream[Peer(e)]
Readable(e) == IF Reads(e) THEN Decode(rev[e], store[e], Arrived(e)) ELSE {}

\* What a handshake can do something with (keep-alives are left out).
Expected(e, m) ==
    CASE phase[e] = "active" -> TRUE
      [] e = "server" /\ phase[e] = "hello"   -> m.type = "ClientHello"
      [] e = "server" /\ phase[e] = "assigns" ->
            m.type \in {"EntryAssign", "ClientHelloDone"}
      [] e = "client" /\ phase[e] = "hello"   ->
            m.type \in {"ProtoUnsup"} \cup
               (IF rev[e] >= 3 THEN {"ServerHello"}
                               ELSE {"EntryAssign", "ServerHelloDone"})
      [] OTHER -> m.type \in {"EntryAssign", "ServerHelloDone"}

\* An end reads a message.
Reading(e, r) ==
    /\ Expected(e, r.val)
    /\ stream' = [stream EXCEPT ![Peer(e)] = r.rest]
    /\ got' = [got EXCEPT ![Peer(e)] = Append(@, r.val)]
    /\ UNCHANGED << default, open, sent, garbled, user, breaks >>

\* It cannot: "terminate connection on bad message".
Misread(e) ==
    /\ Reads(e) /\ Arrived(e) # << >>
    /\ \A r \in Readable(e) : ~Expected(e, r.val)
    /\ garbled' = garbled \cup {e}
    /\ Dead(e)
    /\ UNCHANGED << default, nextRev, rev, store, sent, got, user, breaks >>

Enters(e, p) == phase' = [phase EXCEPT ![e] = p]

\* Mutant: the server stays at the revision it started with.
KeepProtoRev(v) == UNCHANGED rev

\* conn.set_proto_rev in _serverHandshake.
SetProtoRev(v) == rev' = [rev EXCEPT !["server"] = v]

\* _serverHandshake: a client that asks for too much is told so ...
ServerRejects ==
    \E r \in Readable("server") :
        /\ phase["server"] = "hello"
        /\ Reading("server", r) /\ r.val.rev > default["server"]
        /\ Enters("server", "rejecting")
        /\ hasty' = [hasty EXCEPT !["server"] = << ProtoUnsup(default["server"]) >>]
        /\ UNCHANGED << nextRev, rev, store, incoming, pending >>

\* ... and the connection ends once that is written.
ServerHangsUp ==
    /\ phase["server"] = "rejecting" /\ hasty["server"] = << >>
    /\ Dead("server")
    /\ UNCHANGED << default, nextRev, rev, store, sent, got, garbled, user, breaks >>

\* ... any other gets the server's hello and its entries.  In revision 2 that
\* is the end of the handshake.
ServerWelcomes ==
    \E r \in Readable("server") :
        /\ phase["server"] = "hello"
        /\ Reading("server", r) /\ r.val.rev <= default["server"]
        /\ SetProtoRev(r.val.rev)
        /\ Enters("server", IF r.val.rev >= 3 THEN "assigns" ELSE "active")
        /\ \E assigns \in SetToSeqs(GetInitialAssignments(store["server"])) :
              hasty' = [hasty EXCEPT !["server"] =
                          (IF r.val.rev >= 3 THEN << ServerHello >> ELSE << >>) \o
                          assigns \o << ServerHelloDone >>]
        /\ UNCHANGED << nextRev, store, incoming, pending >>

\* The assignments an end reads are kept until the last one has arrived.
Collect(e) ==
    \E r \in Readable(e) :
        /\ phase[e] \in {"hello", "assigns"}
        /\ Reading(e, r) /\ r.val.type = "EntryAssign"
        /\ Enters(e, "assigns")
        /\ incoming' = [incoming EXCEPT ![e] = Append(@, r.val)]
        /\ UNCHANGED << nextRev, rev, store, hasty, pending >>

\* The server's hello: the assignments follow.
ClientGreeted ==
    \E r \in Readable("client") :
        /\ phase["client"] = "hello"
        /\ Reading("client", r) /\ r.val.type = "ServerHello"
        /\ Enters("client", "assigns")
        /\ UNCHANGED << nextRev, rev, store, incoming, hasty, pending >>

\* "connected to NT2 server, reconnecting..."; from any other the client
\* learns nothing.
ClientFallsBack ==
    \E r \in Readable("client") :
        /\ phase["client"] = "hello"
        /\ r.val.type = "ProtoUnsup"
        /\ nextRev' = IF r.val.rev = 2 THEN 2 ELSE nextRev
        /\ got' = [got EXCEPT !["server"] = Append(@, r.val)]
        /\ Dead("client")
        /\ UNCHANGED << default, rev, store, sent, garbled, user, breaks >>

\* The client has all the server's entries: applyInitialAssignments.
ClientApplies ==
    \E r \in Readable("client") :
        /\ phase["client"] \in {"hello", "assigns"}
        /\ Reading("client", r) /\ r.val.type = "ServerHelloDone"
        /\ LET s    == store["client"]
               msgs == Range(incoming["client"])
           IN  /\ store' = [store EXCEPT !["client"] =
                              ApplyInitialAssignments(s, msgs)]
               /\ \E reqs \in SetToSeqs(InitialRequests(s, msgs)) :
                    hasty' = [hasty EXCEPT !["client"] = @ \o reqs \o
                       (IF rev["client"] >= 3 THEN << ClientHelloDone >> ELSE << >>)]
               /\ \E upds \in SetToSeqs(InitialUpdates(s, msgs)) :
                    pending' = [pending EXCEPT !["client"] = @ \o upds]
        /\ incoming' = [incoming EXCEPT !["client"] = << >>]
        /\ Enters("client", "active")
        /\ UNCHANGED << nextRev, rev >>

\* The results of processing messages one after the other.
ProcessAll(s, msgs) ==
    LET after[i \in 0 .. Len(msgs)] ==
          IF i = 0 THEN [store |-> s, out |-> << >>]
          ELSE LET q == ProcessIncoming(after[i - 1].store, msgs[i])
               IN  [store |-> q.store,
                    out |-> after[i - 1].out \o (IF q.toSender THEN q.out
                                                ELSE << >>)]
    IN  after[Len(msgs)]

\* CLIENT_HELLO_DONE: the server processes what it has collected.
ServerApplies ==
    \E r \in Readable("server") :
        /\ phase["server"] = "assigns"
        /\ Reading("server", r) /\ r.val.type = "ClientHelloDone"
        /\ LET q == ProcessAll(store["server"], incoming["server"])
           IN  /\ store' = [store EXCEPT !["server"] = q.store]
               /\ QueueOutgoing("server", q.out)
        /\ incoming' = [incoming EXCEPT !["server"] = << >>]
        /\ Enters("server", "active")
        /\ UNCHANGED << nextRev, rev, hasty >>

\* processIncoming.
Receive(e) ==
    \E r \in Readable(e) :
        /\ phase[e] = "active"
        /\ Reading(e, r)
        /\ LET q == ProcessIncoming(store[e], r.val)
           IN  /\ store' = [store EXCEPT ![e] = q.store]
               /\ QueueOutgoing(e, IF e = "client" \/ q.toSender THEN q.out
                                   ELSE << >>)
        /\ UNCHANGED << nextRev, rev, phase, incoming, hasty >>

\* The peer has closed the connection and everything it wrote has been read.
HearsEnd(e) ==
    /\ Alive(e) /\ ~open /\ Arrived(e) = << >>
    /\ Dead(e)
    /\ UNCHANGED << default, nextRev, rev, store, sent, got, garbled, user, breaks >>

\* The network, or a read or write thread that stops for another reason; what
\* is on the way is lost.
Break ==
    /\ breaks < MaxBreaks /\ breaks' = breaks + 1
    /\ open /\ open' = FALSE
    /\ stream' = Nothing
    /\ UNCHANGED << default, nextRev, rev, phase, store, incoming, hasty, pending,
                    sent, got, garbled, user >>

-----------------------------------------------------------------------------
ReadStep(e) ==
    \/ Collect(e) \/ Receive(e) \/ Misread(e) \/ HearsEnd(e)
    \/ e = "server" /\ (ServerWelcomes \/ ServerRejects \/ ServerApplies)
    \/ e = "client" /\ (ClientGreeted \/ ClientFallsBack \/ ClientApplies)

WriteStep(e) == Write(e) \/ WriteFails(e) \/ (e = "server" /\ ServerHangsUp)

Next ==
    \/ Connect \/ Break
    \/ \E e \in Ends : LocalOp(e) \/ ReadStep(e) \/ WriteStep(e)

Spec == Init /\ [][Next]_vars

\* The threads of both ends keep running, and the client's keeps connecting.
FairSpec ==
    /\ Spec /\ WF_vars(Connect)
    /\ \A e \in Ends : WF_vars(ReadStep(e)) /\ WF_vars(WriteStep(e))

-----------------------------------------------------------------------------
(* Properties *)

\* The types of the state, and the revision an end starts with.
TypeOK ==
    /\ default \in [Ends -> Revs] /\ nextRev \in Revs /\ rev \in [Ends -> Revs]
    /\ phase \in [Ends -> Phases] /\ open \in BOOLEAN
    /\ store \in [Ends -> Store]
    /\ \A e \in Ends : store[e].server <=> e = "server"
    /\ \A e \in Ends : /\ Range(incoming[e]) \subseteq AssignMsg
                       /\ Range(pending[e]) \subseteq EntryMsg
    /\ garbled \subseteq Ends /\ writers \subseteq Ends
    /\ types \subseteq CommonTypes \cup NewTypes /\ deleted \in BOOLEAN

Greeted(e) == phase[e] \in {"assigns", "active"}

\* When both ends have left the hello behind they speak the same revision, one
\* that both support, and their codecs were set to it before a message was
\* written that depends on it (set_proto_rev in the two handshakes).
RevsAgree ==
    Greeted("client") /\ Greeted("server") =>
        /\ rev["client"] = rev["server"]
        /\ \A e \in Ends : rev["client"] <= default[e]

\* An update of revision 2 does not say its type; its reader takes the type of
\* its own entry.  The two can differ when the client has written values of two
\* types (a server's change of type always goes before its updates), and the
\* entry can be missing when one was deleted.
TypesMayDiffer == deleted \/ ("client" \in writers /\ Cardinality(types) > 1)

\* In revision 3 every message is read as it was written, and it is one that the
\* reader's handshake expects (_serverHandshake, _clientHandshake, Message.read).
ReadInRevision3 == \A e \in garbled : rev[e] = 2

\* In revision 2 too, except where types may differ: an update never reaches an
\* end that has not heard of the entry (get_entry_type in Message.read).
MisreadOnlyByType == garbled # {} => TypesMayDiffer

\* Each direction of a connection is a channel on which what the revision can
\* say arrives, whatever the lengths of strings and arrays (write_value and
\* read_value, write_string and read_string, leb128.py).
ToServer == INSTANCE Channel WITH sent <- sent["client"], got <- got["client"]
ToClient == INSTANCE Channel WITH sent <- sent["server"], got <- got["server"]

ToServerInOrder == ToServer!Spec
ToClientInOrder == ToClient!Spec

Connected == \A e \in Ends : phase[e] = "active" /\ open

\* Revision 2 is not up to what was done: it has no type for a value, or the
\* types may differ.
BeyondRev2 ==
    /\ \E e \in Ends : default[e] = 2
    /\ TypesMayDiffer \/ types \cap NewTypes # {}

\* Whatever the two defaults, the ends agree on a revision and stay connected
\* (ProtoUnsup and m_reconnect_proto_rev), unless revision 2 is not up to it.
StayConnected == <>[](Connected \/ BeyondRev2)

\* What one end alone has written reaches the other, as far as the format
\* carries it: the two copies of an entry are the same once cut to what the
\* revision can say.
AgreeAsHeard ==
    (/\ Connected /\ Cardinality(writers) < 2 /\ ~deleted
     /\ \A e \in Ends : Batch(e) = << >> /\ stream[e] = << >>)
    => \A n \in Names :
         LET v == store["client"].entries[n].value
             w == store["server"].entries[n].value
         IN  /\ v = NoValue <=> w = NoValue
             /\ v # NoValue => Heard(rev["client"], v) = Heard(rev["client"], w)

=============================================================================
