----------------------------- MODULE Connections -----------------------------
(***************************************************************************)
(* The life of connections in one process: the dispatcher that starts and  *)
(* stops, its client, server and dispatch threads, the read and the write  *)
(* thread of every connection, and the listeners that are told when a      *)
(* connection begins and ends.  What travels over a connection is left     *)
(* out; the other end and the network may do anything at any time.         *)
(*                                                                         *)
(* A lock that is held for one step is a conjunct of that step.  Only the  *)
(* client thread keeps m_user_mutex for several (it joins threads under    *)
(* it), and only set_state keeps a connection's m_state_mutex: between     *)
(* the notification and the assignment of the state.  Statements of one    *)
(* thread between which no other thread can act differently are one step.  *)
(***************************************************************************)
EXTENDS Naturals, Sequences, FiniteSets, SequencesExt

CONSTANTS
    Listeners,
    Plans,      \* bound: the sequences of starts that are tried
    MaxConns    \* bound on the connections, which are numbered from 1

Kinds == {"client", "server"}
Starts == UNION {DOMAIN plan : plan \in Plans}
Conns == 1 .. MaxConns

\* A plan says of each start what kind it is.
ASSUME ConnectionsAssumption == Plans \subseteq Seq(Kinds) /\ MaxConns \in Nat

Free == 0           \* nobody holds m_user_mutex
Stopper == 0        \* the thread that calls Dispatcher.stop

VARIABLES
    active,      \* m_active
    mode,        \* m_networkMode, without its STARTING and FAILURE bits
    connector,   \* m_client_connector is set
    acceptor,    \* m_server_acceptor: "none", "new", "listening", "shut"
    mutex,       \* the client thread that holds m_user_mutex, or Free
    list,        \* m_connections
    uids,        \* m_connections_uid
    doReconnect, \* m_do_reconnect
    waiters,     \* the client threads that wait on m_reconnect_cv
    starts,      \* how many times the dispatcher was started
    role,        \* by start: what kind of start it was
    main,        \* by start: where its client or server thread is
    pump,        \* by start: whether its dispatch thread runs
    conn,        \* the connections
    user,        \* where the thread that calls start and stop is
    stops,       \* by thread: where it is in NetworkConnection.stop
    listeners,   \* the listeners of the ConnectionNotifier
    up,          \* by listener: the connections it was told are up, and not down
    raced,       \* by listener: connections changing when it was added
    gaveUp,      \* stop went on although the client thread was running
    broke        \* the server thread ended because accept failed

network   == << mode, connector, acceptor >>
lists     == << list, uids >>
threads   == << doReconnect, waiters, main, pump >>
calls     == << starts, role, user >>
notifier  == << listeners, up, raced >>
history   == << gaveUp, broke >>

vars == << active, network, mutex, lists, threads, calls, stops, conn, notifier,
           history >>

-----------------------------------------------------------------------------
NoConn == [state |-> "none", changing |-> "no", running |-> FALSE,
           stream |-> "none", woken |-> FALSE, reader |-> "none",
           writer |-> "none", of |-> "none"]

\* NetworkConnection.__init__ and start, by the thread of start s.  Only the
\* client's end says hello.
NewConn(s) ==
    [state |-> "init", changing |-> "no", running |-> TRUE, stream |-> "open",
     woken |-> FALSE, writer |-> "get", of |-> role[s],
     reader |-> IF role[s] = "client" THEN "hello" ELSE "shake"]

NotStopping == [at |-> "next", todo |-> << >>]

Init ==
    /\ active = FALSE /\ mode = "none" /\ connector = FALSE /\ acceptor = "none"
    /\ mutex = Free /\ list = << >> /\ uids = 0
    /\ doReconnect = TRUE /\ waiters = << >>
    /\ starts = 0 /\ role = [s \in Starts |-> "none"]
    /\ main = [s \in Starts |-> "none"] /\ pump = [s \in Starts |-> "none"]
    /\ conn = [k \in Conns |-> NoConn]
    /\ user = "idle" /\ stops = [t \in {Stopper} \cup Starts |-> NotStopping]
    /\ listeners = {} /\ up = [l \in Listeners |-> {}]
    /\ raced = [l \in Listeners |-> {}]
    /\ gaveUp = FALSE /\ broke = FALSE

Created(k) == conn[k].state # "none"
Dead(k) == conn[k].state = "dead"

-----------------------------------------------------------------------------
(* set_state: nothing after kDead; a change to kActive or kDead is first     *)
(* notified and then assigned.  (kInit and kHandshake are one state here.)   *)

\* ConnectionNotifier.notifyConnection.  One thread hands the notifications out
\* in the order in which they were sent.
Tells(k, connected) ==
    [l \in Listeners |-> IF connected /\ l \in listeners THEN up[l] \cup {k}
                         ELSE up[l] \ {k}]

MayChange(k) == conn[k].changing = "no"

\* The first half of set_state(to); c is the connection as the caller leaves it.
BeginState(k, c, to) ==
    /\ MayChange(k)
    /\ conn' = [conn EXCEPT ![k] = IF Dead(k) THEN c ELSE [c EXCEPT !.changing = to]]
    /\ up' = IF Dead(k) THEN up ELSE Tells(k, to = "active")
    /\ UNCHANGED << listeners, raced >>

EndState(k, c) ==
    /\ conn' = [conn EXCEPT ![k] =
                  IF MayChange(k) THEN c
                  ELSE [c EXCEPT !.state = conn[k].changing, !.changing = "no"]]
    /\ UNCHANGED notifier

\* Mutant: the thread that was woken still counts as waiting.
NotifyWithoutRemoving ==
    /\ UNCHANGED waiters
    /\ main' = IF waiters = << >> THEN main
               ELSE [main EXCEPT ![Head(waiters)] = "woken"]

\* m_reconnect_cv.notify(): the thread that waits longest.
Notify ==
    /\ waiters' = IF waiters = << >> THEN << >> ELSE Tail(waiters)
    /\ main' = IF waiters = << >> THEN main
               ELSE [main EXCEPT ![Head(waiters)] = "woken"]

Reconnect == doReconnect' = TRUE /\ Notify

-----------------------------------------------------------------------------
(* The read thread of connection k *)

ReaderAt(k, pc) == conn[k].reader = pc
At(c, pc) == [c EXCEPT !.reader = pc]

\* The client asks for m_identity under m_user_mutex and sends the first batch.
ReaderHello(k) ==
    /\ ReaderAt(k, "hello") /\ mutex = Free
    /\ conn' = [conn EXCEPT ![k] = At(@, "shake")]
    /\ UNCHANGED << notifier, threads >>

\* The handshake succeeds; the server's takes m_user_mutex for m_identity and to
\* queue what the client assigned.
ReaderActivates(k) ==
    /\ ReaderAt(k, "shake") /\ conn[k].stream = "open"
    /\ conn[k].of = "client" \/ mutex = Free
    /\ BeginState(k, At(conn[k], "activating"), "active")
    /\ UNCHANGED threads

\* A client is told that the server speaks the older protocol.
ReaderHearsUnsupported(k) ==
    /\ ReaderAt(k, "shake") /\ conn[k].stream = "open"
    /\ conn[k].of = "client"
    /\ conn' = [conn EXCEPT ![k] = At(@, "fallback")]
    /\ UNCHANGED << notifier, threads >>

\* _clientReconnect(0x0200), and the end of the handshake.
ReaderFallsBack(k) ==
    /\ ReaderAt(k, "fallback")
    /\ BeginState(k, At(conn[k], "dying"), "dead")
    /\ \/ mode = "server" /\ UNCHANGED threads
       \/ mode # "server" /\ mutex = Free /\ Reconnect /\ UNCHANGED pump

ReaderActive(k) ==
    /\ ReaderAt(k, "activating")
    /\ EndState(k, At(conn[k], "loop"))
    /\ UNCHANGED threads

ReaderLeavesLoop(k) ==
    /\ ReaderAt(k, "loop") /\ ~conn[k].running
    /\ BeginState(k, At(conn[k], "dying"), "dead")
    /\ UNCHANGED threads

\* A message for the other connections, too; one that the storage does not pass
\* on changes nothing here.
ReaderReads(k) ==
    /\ ReaderAt(k, "loop") /\ conn[k].running /\ conn[k].stream = "open"
    /\ conn' = [conn EXCEPT ![k] = At(@, "process")]
    /\ UNCHANGED << notifier, threads >>

\* processIncoming ends in Dispatcher._queueOutgoing.
ReaderProcesses(k) ==
    /\ ReaderAt(k, "process") /\ mutex = Free
    /\ conn' = [conn EXCEPT ![k] = At(@, "loop")]
    /\ UNCHANGED << notifier, threads >>

\* The end of the stream or a message that cannot be decoded, and the stream is
\* closed; or a message that the handshake or the storage cannot deal with.
ReaderFails(k) ==
    /\ ReaderAt(k, "shake") \/ (ReaderAt(k, "loop") /\ conn[k].running)
    /\ \E stream \in {"closed", conn[k].stream} :
          BeginState(k, [At(conn[k], "dying") EXCEPT !.stream = stream], "dead")
    /\ UNCHANGED threads

ReaderDead(k) ==
    /\ ReaderAt(k, "dying")
    /\ EndState(k, At(conn[k], "exit"))
    /\ UNCHANGED threads

\* An empty batch in the queue, unless nobody is left to read it.
Unread(k) == conn[k].writer # "done"

\* Mutant: the write thread is not woken.
ReaderExitsSilently(k) ==
    /\ ReaderAt(k, "exit")
    /\ conn' = [conn EXCEPT ![k] = [At(@, "done") EXCEPT !.running = FALSE]]
    /\ UNCHANGED << notifier, threads >>

ReaderExits(k) ==
    /\ ReaderAt(k, "exit")
    /\ conn' = [conn EXCEPT ![k] = [At(@, "done") EXCEPT
                  !.running = FALSE, !.woken = Unread(k)]]
    /\ UNCHANGED << notifier, threads >>

\* What the read thread does without the other end.
ReaderRuns(k) ==
    /\ \/ ReaderHello(k) \/ ReaderFallsBack(k) \/ ReaderActive(k)
       \/ ReaderLeavesLoop(k) \/ ReaderProcesses(k)
       \/ (conn[k].stream = "closed" /\ ReaderFails(k))
       \/ ReaderDead(k) \/ ReaderExits(k)
    /\ UNCHANGED << active, network, mutex, lists, calls, stops, history >>

ReaderHears(k) ==
    /\ \/ ReaderActivates(k) \/ ReaderHearsUnsupported(k) \/ ReaderReads(k)
       \/ (conn[k].stream = "open" /\ ReaderFails(k))
    /\ UNCHANGED << active, network, mutex, lists, calls, stops, history >>

-----------------------------------------------------------------------------
(* The write thread of connection k *)

WriterAt(k, pc) == conn[k].writer = pc
Now(c, pc) == [c EXCEPT !.writer = pc]

\* The empty batch that was put into the queue for it to find m_active false.
\* It is put only after m_active was set to false.
WriterWakes(k) ==
    /\ WriterAt(k, "get") /\ conn[k].woken
    /\ BeginState(k, [Now(conn[k], "dying") EXCEPT !.woken = FALSE], "dead")

\* A batch of the handshake or of the dispatch thread is encoded and sent.
WriterSends(k) ==
    /\ WriterAt(k, "get") /\ ~ReaderAt(k, "hello")
    /\ conn' = [conn EXCEPT ![k] = Now(@, "sending")]
    /\ UNCHANGED notifier

\* send returns, and the loop ends if m_active is false by now.
WriterSent(k) ==
    /\ WriterAt(k, "sending") /\ conn[k].stream = "open"
    /\ \/ /\ conn[k].running
          /\ conn' = [conn EXCEPT ![k] = Now(@, "get")]
          /\ UNCHANGED notifier
       \/ /\ ~conn[k].running
          /\ BeginState(k, Now(conn[k], "dying"), "dead")

\* The batch is not sent: the stream is closed or cut, or a message cannot be
\* encoded.
WriterFails(k) ==
    /\ WriterAt(k, "sending")
    /\ BeginState(k, Now(conn[k], "dying"), "dead")

WriterDead(k) ==
    /\ WriterAt(k, "dying")
    /\ EndState(k, Now(conn[k], "exit"))

WriterExits(k) ==
    /\ WriterAt(k, "exit")
    /\ conn' = [conn EXCEPT ![k] = [Now(@, "done") EXCEPT
                  !.running = FALSE, !.stream = "closed", !.woken = FALSE]]
    /\ UNCHANGED notifier

\* What the write thread does without the other end: a send is cut short when
\* the stream is closed here, and waits otherwise, as the sockets have no timeout,
\* for a peer that reads.
WriterRuns(k) ==
    /\ \/ WriterWakes(k) \/ WriterDead(k) \/ WriterExits(k)
       \/ (conn[k].stream = "closed" /\ WriterFails(k))
    /\ UNCHANGED << active, network, mutex, lists, threads, calls, stops, history >>

WriterTries(k) ==
    /\ \/ WriterSends(k) \/ WriterSent(k)
       \/ (conn[k].stream = "open" /\ WriterFails(k))
    /\ UNCHANGED << active, network, mutex, lists, threads, calls, stops, history >>

-----------------------------------------------------------------------------
(* NetworkConnection.stop, called by thread t for the connections in todo *)

StopAt(t, pc) == stops[t].at = pc /\ stops[t].todo # << >>
Target(t) == Head(stops[t].todo)
GoOn(t, pc) == stops' = [stops EXCEPT ![t].at = pc]
NextTarget(t) == stops' = [stops EXCEPT ![t] = [at |-> "next", todo |-> Tail(@.todo)]]

\* Nothing to do for a connection that has ended by itself.
StopSkips(t) ==
    /\ StopAt(t, "next") /\ ~conn[Target(t)].running
    /\ NextTarget(t)
    /\ UNCHANGED << conn, notifier >>

StopKills(t) ==
    /\ StopAt(t, "next") /\ conn[Target(t)].running
    /\ BeginState(Target(t), conn[Target(t)], "dead")
    /\ GoOn(t, "close")

StopCloses(t) ==
    /\ StopAt(t, "close")
    /\ EndState(Target(t), [conn[Target(t)] EXCEPT !.running = FALSE,
                               !.stream = "closed", !.woken = Unread(Target(t))])
    /\ GoOn(t, "join")

\* Mutant: the join has no timeout.
NeverStuck(k) == FALSE

\* The read thread waits for m_user_mutex, so it will not end in time: for
\* m_identity, to reconnect, or to queue what a message or the handshake changed.
ReaderStuck(k) ==
    mutex # Free /\ conn[k].reader \in {"hello", "shake", "fallback", "process"}

StopJoins(t) ==
    /\ StopAt(t, "join") /\ WriterAt(Target(t), "done")
    /\ ReaderAt(Target(t), "done") \/ ReaderStuck(Target(t))
    /\ NextTarget(t)
    /\ UNCHANGED << conn, notifier >>

StopsConnections(t) ==
    /\ \/ StopSkips(t) \/ StopKills(t) \/ StopCloses(t) \/ StopJoins(t)
    /\ UNCHANGED << active, network, mutex, lists, threads, calls, history >>

-----------------------------------------------------------------------------
(* _clientThreadMain of start s *)

MainAt(s, kind, pc) == role[s] = kind /\ main[s] = pc

\* Bound: no more connections, those under way included.
RoomForOne ==
    uids + Cardinality({s \in Starts : main[s] \in {"replacing", "add"}}) < MaxConns

ClientEnds(s) ==
    /\ MainAt(s, "client", "check") /\ ~active
    /\ main' = [main EXCEPT ![s] = "done"] /\ mode' = "none"
    /\ UNCHANGED << mutex, lists, stops, conn, doReconnect, waiters >>

\* The server to connect to, if there is one.
ClientPicks(s) ==
    /\ MainAt(s, "client", "check") /\ active /\ mutex = Free
    /\ main' = [main EXCEPT ![s] = IF connector THEN "connecting" ELSE "check"]
    /\ mode' = IF connector THEN mode ELSE "client"
    /\ UNCHANGED << mutex, lists, stops, conn, doReconnect, waiters >>

ClientFailsToConnect(s) ==
    /\ MainAt(s, "client", "connecting")
    /\ main' = [main EXCEPT ![s] = "check"] /\ mode' = "client"
    /\ UNCHANGED << mutex, lists, stops, conn, doReconnect, waiters >>

\* Mutant: the connections there are stay.
StopsNothing == << >>

ToStop == list

\* Connected; under m_user_mutex, first the current connections are stopped.
ClientConnects(s) ==
    /\ MainAt(s, "client", "connecting") /\ mutex = Free /\ RoomForOne
    /\ main' = [main EXCEPT ![s] = "replacing"] /\ mode' = "client"
    /\ mutex' = s
    /\ stops' = [stops EXCEPT ![s] = [at |-> "next", todo |-> ToStop]]
    /\ UNCHANGED << lists, conn, doReconnect, waiters >>

\* Then the new one starts, and the thread waits until it is told to reconnect.
ClientStartsConnection(s) ==
    /\ MainAt(s, "client", "replacing") /\ stops[s].todo = << >>
    /\ uids' = uids + 1 /\ list' = << uids' >>
    /\ conn' = [conn EXCEPT ![uids'] = NewConn(s)]
    /\ doReconnect' = FALSE
    /\ mutex' = Free
    /\ main' = [main EXCEPT ![s] = IF active THEN "waiting" ELSE "check"]
    /\ waiters' = IF active THEN Append(waiters, s) ELSE waiters
    /\ UNCHANGED << mode, stops >>

\* wait_for looks at its condition again.
ClientWakes(s) ==
    /\ MainAt(s, "client", "woken") /\ mutex = Free
    /\ LET goOn == ~active \/ doReconnect IN
       /\ main' = [main EXCEPT ![s] = IF goOn THEN "check" ELSE "waiting"]
       /\ waiters' = IF goOn THEN waiters ELSE Append(waiters, s)
    /\ UNCHANGED << mode, mutex, lists, stops, conn, doReconnect >>

\* What the client thread does whether or not a server answers.
ClientRuns(s) ==
    /\ \/ ClientEnds(s) \/ ClientPicks(s) \/ ClientFailsToConnect(s)
       \/ ClientStartsConnection(s) \/ ClientWakes(s)
    /\ UNCHANGED << active, connector, acceptor, pump, calls, notifier, history >>

Client(s) ==
    \/ ClientRuns(s)
    \/ /\ ClientConnects(s)
       /\ UNCHANGED << active, connector, acceptor, pump, calls, notifier, history >>

-----------------------------------------------------------------------------
(* _serverThreadMain of start s *)

ServerEnds(s) == main' = [main EXCEPT ![s] = "done"] /\ mode' = "none"

ServerListens(s) ==
    /\ MainAt(s, "server", "start")
    /\ acceptor' = "listening"
    /\ IF active THEN main' = [main EXCEPT ![s] = "accept"] /\ mode' = "server"
                 ELSE ServerEnds(s)
    /\ UNCHANGED << active, lists, conn, broke >>

ServerCannotListen(s) ==
    /\ MainAt(s, "server", "start")
    /\ main' = [main EXCEPT ![s] = "done"] /\ mode' = "server"
    /\ active' = FALSE
    /\ UNCHANGED << acceptor, lists, conn, broke >>

\* accept returns nothing after the shutdown, and after any error.
ServerStopsAccepting(s) ==
    /\ MainAt(s, "server", "accept") /\ acceptor = "shut"
    /\ active' = FALSE
    /\ ServerEnds(s)
    /\ UNCHANGED << acceptor, lists, conn, broke >>

AcceptFails(s) ==
    /\ MainAt(s, "server", "accept") /\ acceptor = "listening"
    /\ active' = FALSE /\ broke' = TRUE
    /\ ServerEnds(s)
    /\ UNCHANGED << acceptor, lists, conn >>

ServerAccepts(s) ==
    /\ MainAt(s, "server", "accept") /\ acceptor = "listening" /\ RoomForOne
    /\ IF active THEN main' = [main EXCEPT ![s] = "add"] /\ UNCHANGED mode
                 ELSE ServerEnds(s)
    /\ UNCHANGED << active, acceptor, lists, conn, broke >>

\* Mutant: a connection whose handshake runs counts as dead.
ReusableUnlessActive(k) == conn[k].state # "active"

Reusable(k) == Dead(k)

\* The first slot of a dead connection, or a new one.
ServerAdds(s) ==
    /\ MainAt(s, "server", "add") /\ mutex = Free
    /\ uids' = uids + 1
    /\ list' = IF \E i \in DOMAIN list : Reusable(list[i])
               THEN [list EXCEPT ![SelectInSeq(list, Reusable)] = uids']
               ELSE Append(list, uids')
    /\ conn' = [conn EXCEPT ![uids'] = NewConn(s)]
    /\ IF active THEN main' = [main EXCEPT ![s] = "accept"] /\ UNCHANGED mode
                 ELSE ServerEnds(s)
    /\ UNCHANGED << active, acceptor, broke >>

\* What the server thread does without a client.
ServerRuns(s) ==
    /\ \/ ServerListens(s) \/ ServerCannotListen(s) \/ ServerStopsAccepting(s)
       \/ ServerAdds(s)
    /\ UNCHANGED << mutex, connector, doReconnect, waiters, pump, calls, stops,
                    notifier, gaveUp >>

ServerHears(s) ==
    /\ AcceptFails(s) \/ ServerAccepts(s)
    /\ UNCHANGED << mutex, connector, doReconnect, waiters, pump, calls, stops,
                    notifier, gaveUp >>

-----------------------------------------------------------------------------
(* _dispatchThreadMain of start s *)

\* Mutant: the client thread is not notified.
ReconnectSilently == doReconnect' = TRUE /\ UNCHANGED << waiters, main >>

TellClient == Reconnect

PumpRound(s) ==
    /\ pump[s] = "runs" /\ active /\ mutex = Free
    /\ IF role[s] = "client" /\ ~doReconnect /\ \E k \in Range(list) : Dead(k)
       THEN TellClient ELSE UNCHANGED << doReconnect, waiters, main >>
    /\ UNCHANGED pump

PumpEnds(s) ==
    /\ pump[s] = "runs" /\ ~active
    /\ pump' = [pump EXCEPT ![s] = "done"]
    /\ UNCHANGED << doReconnect, waiters, main >>

Pump(s) ==
    /\ PumpRound(s) \/ PumpEnds(s)
    /\ UNCHANGED << active, network, mutex, lists, calls, stops, conn, notifier,
                    history >>

-----------------------------------------------------------------------------
(* startClient, startServer and stop, called one after the other *)

\* Bound: listeners are tried with a single start.
RestartOrListener == starts' <= 1 \/ listeners' = {}

Start(kind) ==
    /\ user = "idle" /\ mutex = Free /\ ~active
    /\ starts' = starts + 1 /\ starts' \in Starts
    /\ role' = [role EXCEPT ![starts'] = kind]
    /\ \E plan \in Plans : /\ starts' \in DOMAIN plan
                           /\ \A s \in 1 .. starts' : plan[s] = role'[s]
    /\ active' = TRUE /\ mode' = kind
    /\ pump' = [pump EXCEPT ![starts'] = "runs"]
    /\ acceptor' = IF kind = "server" THEN "new" ELSE acceptor
    /\ main' = [main EXCEPT ![starts'] = IF kind = "server" THEN "start" ELSE "check"]
    /\ UNCHANGED << mutex, connector, lists, doReconnect, waiters, user, stops, conn,
                    notifier, history >>
    /\ RestartOrListener

\* setServer
SetServer ==
    /\ user = "idle" /\ mutex = Free /\ ~connector
    /\ connector' = TRUE
    /\ UNCHANGED << active, mode, acceptor, mutex, lists, threads, calls, stops, conn,
                    notifier, history >>

Then(pc) == user' = pc
SameStops == UNCHANGED << lists, stops, conn >>

\* Nothing to stop if m_active is already false.
StopCalled ==
    /\ user = "idle" /\ starts > 0 /\ mutex = Free /\ active
    /\ active' = FALSE /\ Then("connector")
    /\ SameStops /\ UNCHANGED << network, threads, gaveUp >>

\* The client thread must not connect again.
StopForgetsServers ==
    /\ user = "connector" /\ mutex = Free /\ Then("acceptor")
    /\ connector' = FALSE
    /\ IF mode = "server" THEN UNCHANGED threads ELSE Reconnect /\ UNCHANGED pump
    /\ SameStops /\ UNCHANGED << active, mode, acceptor, gaveUp >>

StopShutsAcceptor ==
    /\ user = "acceptor" /\ Then("join")
    /\ acceptor' = IF acceptor = "listening" THEN "shut" ELSE acceptor
    /\ SameStops /\ UNCHANGED << active, mode, connector, threads, gaveUp >>

\* Connecting takes up to two seconds, stopping connections one each, and a
\* client thread that was not notified waits for ever.
Slow(s) ==
    \/ main[s] \in {"connecting", "waiting"}
    \/ mutex # Free

\* Mutant: the client or server thread is not waited for.
JoinsNothing(s) == TRUE

Joined(s) == main[s] = "done"

\* A join ends when the thread has ended or, after a second, because the thread
\* waits for something that takes longer.
StopJoinsThreads ==
    /\ user = "join" /\ Then("take")
    /\ pump[starts] = "done" \/ mutex # Free
    /\ Joined(starts) \/ Slow(starts)
    /\ gaveUp' = (gaveUp \/ ~Joined(starts))
    /\ SameStops /\ UNCHANGED << active, network, threads >>

StopTakesConnections ==
    /\ user = "take" /\ mutex = Free /\ Then("close")
    /\ stops' = [stops EXCEPT ![Stopper] = [at |-> "next", todo |-> list]]
    /\ list' = << >>
    /\ UNCHANGED << active, network, threads, conn, uids, gaveUp >>

\* After the connections, the acceptor is closed.
StopReturns ==
    /\ user = "close" /\ stops[Stopper].todo = << >> /\ Then("idle")
    /\ acceptor' = IF acceptor = "listening" THEN "shut" ELSE acceptor
    /\ SameStops /\ UNCHANGED << active, mode, connector, threads, gaveUp >>

Stop ==
    /\ \/ StopForgetsServers \/ StopShutsAcceptor
       \/ StopJoinsThreads \/ StopTakesConnections \/ StopReturns
    /\ UNCHANGED << mutex, starts, role, notifier, broke >>

CallStop == StopCalled /\ UNCHANGED << mutex, starts, role, notifier, broke >>

-----------------------------------------------------------------------------
(* The listeners *)

\* Mutant: is_connected holds from the start of a connection on.
ConnectedIfRunning(k) == conn[k].running

IsConnected(k) == conn[k].state = "active"

\* addListener with immediate_notify
AddListener(l) ==
    /\ l \notin listeners /\ mutex = Free
    /\ listeners' = listeners \cup {l}
    /\ up' = [up EXCEPT ![l] = {k \in Range(list) : IsConnected(k)}]
    /\ raced' = [raced EXCEPT ![l] = {k \in Conns : ~MayChange(k)}]
    /\ UNCHANGED << active, network, mutex, lists, threads, calls, stops, conn,
                    history >>
    /\ RestartOrListener

-----------------------------------------------------------------------------
Next ==
    \/ \E k \in Conns : ReaderRuns(k) \/ ReaderHears(k)
                        \/ WriterRuns(k) \/ WriterTries(k)
    \/ \E t \in {Stopper} \cup Starts : StopsConnections(t)
    \/ \E s \in Starts : Client(s) \/ ServerRuns(s) \/ ServerHears(s) \/ Pump(s)
    \/ \E kind \in Kinds : Start(kind)
    \/ SetServer \/ CallStop \/ Stop
    \/ \E l \in Listeners : AddListener(l)

Spec == Init /\ [][Next]_vars

-----------------------------------------------------------------------------
(* Every thread that can run does.  Nothing is assumed of the other end, of  *)
(* the network and of the program that uses the library: a read need never   *)
(* return, and neither need a send to a peer that does not read, as long as  *)
(* the stream is open.                                                       *)

Fairness ==
    /\ \A k \in Conns : WF_vars(ReaderRuns(k)) /\ WF_vars(WriterRuns(k))
    /\ \A t \in {Stopper} \cup Starts : WF_vars(StopsConnections(t))
    /\ \A s \in Starts : WF_vars(ClientRuns(s)) /\ WF_vars(ServerRuns(s))
    /\ \A s \in Starts : WF_vars(Pump(s))
    /\ WF_vars(Stop)

FairSpec == Spec /\ Fairness

-----------------------------------------------------------------------------
Changes == {"no", "active", "dead"}
Connection ==
    [state : {"none", "init", "active", "dead"}, changing : Changes,
     running : BOOLEAN, stream : {"none", "open", "closed"},
     woken : BOOLEAN,
     reader : {"none", "hello", "shake", "fallback", "activating", "loop",
               "process", "dying", "exit", "done"},
     writer : {"none", "get", "sending", "dying", "exit", "done"},
     of : {"none"} \cup Kinds]

\* Every variable has its type, a connection is listed once, and the threads
\* hold the mutex and wait where the code lets them.
TypeOK ==
    /\ active \in BOOLEAN /\ connector \in BOOLEAN
    /\ mode \in {"none", "client", "server"}
    /\ acceptor \in {"none", "new", "listening", "shut"}
    /\ mutex \in {Free} \cup {s \in Starts : main[s] = "replacing"}
    /\ list \in Seq(1 .. uids) /\ IsInjective(list) /\ uids \in 0 .. MaxConns
    /\ doReconnect \in BOOLEAN /\ IsInjective(waiters)
    /\ Range(waiters) = {s \in Starts : main[s] = "waiting"}
    /\ starts \in {0} \cup Starts
    /\ role \in [Starts -> {"none"} \cup Kinds]
    /\ conn \in [Conns -> Connection]
    /\ stops \in [{Stopper} \cup Starts ->
                    [at : {"next", "close", "join"}, todo : Seq(Conns)]]
    /\ listeners \subseteq Listeners
    /\ up \in [Listeners -> SUBSET Conns]

BeingStopped(k) == \E t \in {Stopper} \cup Starts : k \in Range(stops[t].todo)

\* A connection that is not dead is in m_connections, or is about to be stopped:
\* it is never forgotten with its socket and its two threads (the server reuses
\* slots of the list, the client replaces it, stop takes it away).
LiveIsListed ==
    \A k \in Conns :
        Created(k) /\ ~Dead(k) => k \in Range(list) \/ BeingStopped(k)

\* When stop returns, every connection is dead, none is listed, and the threads
\* of the start have ended -- unless the join of the client thread timed out, or
\* the server thread had ended by itself before stop was called.
StopLeavesNothing ==
    user = "idle" /\ ~active /\ starts > 0 /\ ~gaveUp /\ ~broke =>
        /\ main[starts] = "done" /\ list = << >>
        /\ \A k \in Conns : Created(k) => Dead(k)

\* The last a listener is told of a connection is that it is up when it is, and
\* only then -- except for a connection that was changing its state while the
\* listener was added.
ListenersKnow ==
    \A l \in listeners : \A k \in Conns \ raced[l] :
        MayChange(k) =>
            /\ k \in up[l] => conn[k].state = "active"
            /\ conn[k].state = "active" /\ k \in Range(list) => k \in up[l]

Ended(k) ==
    ReaderAt(k, "done") /\ WriterAt(k, "done") /\ conn[k].stream = "closed"

\* The write thread is in send, on a stream that nobody is left to close.
Blocked(k) ==
    ReaderAt(k, "done") /\ WriterAt(k, "sending") /\ conn[k].stream = "open"

\* The threads of a connection end together: after one has found the connection
\* dead, or stop has, both threads end and the stream is closed.  Only one thing
\* can keep them: the read thread has ended without closing the stream, while the
\* write thread was sending to a peer that does not read.
ThreadsEndTogether == \A k \in Conns : Dead(k) ~> Ended(k) \/ Blocked(k)

\* What the read thread's last statement is for ("also kill write thread"): when
\* the read thread has ended, the write thread ends, too.
WriterEndsWithReader ==
    \A k \in Conns : ReaderAt(k, "done") ~> WriterAt(k, "done")

AllWait ==
    /\ active /\ role[starts] = "client"
    /\ \A s \in Starts : role[s] = "client" => main[s] \in {"waiting", "done"}

\* A client whose connection died does not wait for ever: some client thread
\* goes on to connect again.
Reconnects == (AllWait /\ \E k \in Range(list) : Dead(k)) ~> ~AllWait

\* stop returns, whatever the threads are doing.
StopTerminates == user # "idle" ~> user = "idle"
=============================================================================
