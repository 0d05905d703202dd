------------------------- MODULE Connections_proofs -------------------------
(***************************************************************************)
(* For any number of connections and listeners, and any sequence of starts *)
(* and stops: no connection is forgotten while it lives, listeners know    *)
(* which connections are up, every variable has its type, and stop leaves  *)
(* nothing running.                                                        *)
(***************************************************************************)
EXTENDS Connections, FiniteSetTheorems, WellFoundedInduction, TLAPS

-----------------------------------------------------------------------------
(* The inductive invariant *)

Stoppers == {Stopper} \cup Starts

MainPC == {"none", "start", "check", "connecting", "replacing", "waiting",
           "woken", "accept", "add", "done"}

Types ==
    /\ uids \in Nat /\ list \in Seq(Nat)
    /\ main \in [Starts -> MainPC]
    /\ conn \in [Conns -> Connection]
    /\ stops \in [Stoppers -> [at : {"next", "close", "join"}, todo : Seq(Nat)]]
    /\ listeners \subseteq Listeners
    /\ up \in [Listeners -> SUBSET Nat]
    /\ raced \in [Listeners -> SUBSET Nat]

\* A connection that is dead, or of which somebody has told that it is.
Dying(c) == c.state = "dead" \/ c.changing = "dead"

\* A thread that ends a connection has begun to declare it dead, and one that
\* has ended it, or found it not running, has seen it declared.
Orderly(c) ==
    /\ c.state = "none" => /\ c.reader = "none" /\ c.writer = "none"
                           /\ c.changing = "no" /\ ~c.running
    /\ c.state = "dead" => c.changing = "no"
    /\ c.reader = "dying" \/ c.writer = "dying" => Dying(c)
    /\ c.reader = "activating" => c.state = "dead" \/ c.changing = "active"
    /\ c.reader = "exit" \/ c.writer = "exit" \/ ~c.running
          => c.state \in {"none", "dead"}

Live(k) == Created(k) /\ ~Dead(k)

ConnsInv ==
    \A k \in Conns : Orderly(conn[k]) /\ (Created(k) => k <= uids)

\* NetworkConnection.stop has declared its target dead before it closes it, and
\* only two threads call it: the client thread, under m_user_mutex, and the one
\* that stops the dispatcher.
StopsInv ==
    \A t \in Stoppers :
        stops[t].todo # << >> =>
            /\ IF t = Stopper THEN user = "close" ELSE mutex = t
            /\ \A i \in DOMAIN stops[t].todo : stops[t].todo[i] <= uids
            /\ Target(t) \in Conns =>
                  /\ stops[t].at = "close" => Dying(conn[Target(t)])
                  /\ stops[t].at = "join" => Dead(Target(t))

ListInv ==
    /\ \A i \in DOMAIN list : list[i] <= uids
    /\ \A s \in Starts : main[s] = "replacing" => mutex = s

\* While the client thread replaces the connections, those that live are
\* being stopped.
HeldInv == mutex # Free => \A k \in Conns : Live(k) => BeingStopped(k)

IInv == Types /\ ConnsInv /\ StopsInv /\ ListInv /\ HeldInv /\ LiveIsListed

\* What a listener is told and what the connection will be when the change
\* that has been told is made.
ToBeActive(c) ==
    IF c.changing = "no" THEN c.state = "active" ELSE c.changing = "active"

TellsInv ==
    \A l \in listeners : \A k \in Conns \ raced[l] :
        /\ k \in up[l] => ToBeActive(conn[k])
        /\ ToBeActive(conn[k]) /\ k \in Range(list) => k \in up[l]

-----------------------------------------------------------------------------
(* Steps of one connection *)

\* What a step may make of a connection c.
Follows(c, d) ==
    /\ d \in Connection /\ Orderly(d)
    /\ c.state # "none" /\ d.state # "none"
    /\ Dying(c) => Dying(d)
    /\ c.state = "dead" => d.state = "dead"

\* The listeners are told of connection k exactly if it begins to change.
Told(k, d) ==
    \/ up' = up /\ (ToBeActive(d) <=> ToBeActive(conn[k]))
    \/ up' = Tells(k, TRUE) /\ ToBeActive(d)
    \/ up' = Tells(k, FALSE) /\ ~ToBeActive(d)

ConnStep ==
    /\ UNCHANGED << listeners, raced >>
    /\ up' \in [Listeners -> SUBSET Nat]
    /\ \/ /\ conn' = conn
          /\ \A l \in Listeners : \A k \in Conns : k \in up'[l] <=> k \in up[l]
       \/ \E k \in Conns : \E d \in Connection :
             conn' = [conn EXCEPT ![k] = d] /\ Follows(conn[k], d) /\ Told(k, d)

\* A step of another thread leaves a client thread where it is, or wakes it.
MainStep ==
    /\ main' \in [Starts -> MainPC]
    /\ \A s \in Starts : main'[s] = "replacing" => main[s] = "replacing"

LEMMA ConnectionsFacts ==
    /\ Starts \subseteq Nat \ {0} /\ Stopper \notin Starts
    /\ Conns \subseteq Nat /\ Free = 0 /\ Stopper = 0
<1>1. \A plan \in Plans : DOMAIN plan \subseteq Nat \ {0}
  BY ConnectionsAssumption
<1>2. QED
  BY <1>1, ConnectionsAssumption DEF Starts, Stopper, Conns, Free

\* A step keeps every connection in order, and brings none to life.
LEMMA ConnStepKeeps ==
    ASSUME Types, ConnsInv, ConnStep, uids' = uids
    PROVE  /\ conn' \in [Conns -> Connection] /\ ConnsInv'
           /\ \A k \in Conns : /\ Live(k)' => Live(k)
                               /\ Dead(k) => Dead(k)'
                               /\ Dying(conn[k]) => Dying(conn'[k])
<1>1. CASE conn' = conn
  BY <1>1 DEF Types, ConnsInv, Orderly, Created, Live, Dead, Dying
<1>2. ASSUME NEW k \in Conns, NEW d \in Connection,
             conn' = [conn EXCEPT ![k] = d], Follows(conn[k], d)
      PROVE  /\ conn' \in [Conns -> Connection] /\ ConnsInv'
             /\ \A j \in Conns : /\ Live(j)' => Live(j)
                                 /\ Dead(j) => Dead(j)'
                                 /\ Dying(conn[j]) => Dying(conn'[j])
  <2>1. conn' \in [Conns -> Connection] /\ conn'[k] = d
        /\ \A j \in Conns \ {k} : conn'[j] = conn[j]
    BY <1>2 DEF Types
  <2>2. ConnsInv'
    <3> SUFFICES ASSUME NEW j \in Conns
                 PROVE  Orderly(conn'[j]) /\ (conn'[j].state # "none" => j <= uids)
      BY DEF ConnsInv, Created
    <3>1. CASE j = k
      BY <1>2, <2>1, <3>1 DEF ConnsInv, Created, Follows
    <3>2. CASE j # k
      BY <1>2, <2>1, <3>2 DEF ConnsInv, Created
    <3>3. QED
      BY <3>1, <3>2
  <2>3. QED
    BY <1>2, <2>1, <2>2 DEF Live, Created, Dead, Follows
<1>3. QED
  BY <1>1, <1>2 DEF ConnStep

\* The listeners' picture follows.
LEMMA ConnStepTells ==
    ASSUME Types, TellsInv, ConnStep, list' = list
    PROVE  TellsInv'
<1> SUFFICES ASSUME NEW l \in listeners, NEW j \in Conns \ raced[l]
             PROVE  /\ j \in up'[l] => ToBeActive(conn'[j])
                    /\ ToBeActive(conn'[j]) /\ j \in Range(list) => j \in up'[l]
  BY DEF ConnStep, TellsInv
<1>1. /\ l \in Listeners /\ j \in Conns
      /\ j \in up[l] => ToBeActive(conn[j])
      /\ ToBeActive(conn[j]) /\ j \in Range(list) => j \in up[l]
  BY DEF TellsInv, Types
<1>2. CASE conn' = conn /\ \A m \in Listeners : \A k \in Conns :
                              k \in up'[m] <=> k \in up[m]
  BY <1>1, <1>2
<1>3. ASSUME NEW k \in Conns, NEW d \in Connection,
             conn' = [conn EXCEPT ![k] = d], Told(k, d)
      PROVE  /\ j \in up'[l] => ToBeActive(conn'[j])
             /\ ToBeActive(conn'[j]) /\ j \in Range(list) => j \in up'[l]
  <2>1. conn'[k] = d /\ \A i \in Conns \ {k} : conn'[i] = conn[i]
    BY <1>3 DEF Types
  <2>2. CASE up' = up /\ (ToBeActive(d) <=> ToBeActive(conn[k]))
    BY <1>1, <2>1, <2>2
  <2>3. CASE up' = Tells(k, TRUE) /\ ToBeActive(d)
    BY <1>1, <2>1, <2>3 DEF Tells
  <2>4. CASE up' = Tells(k, FALSE) /\ ~ToBeActive(d)
    BY <1>1, <2>1, <2>4 DEF Tells
  <2>5. QED
    BY <1>3, <2>2, <2>3, <2>4 DEF Told
<1>4. QED
  BY <1>2, <1>3 DEF ConnStep

\* What no step of a single connection disturbs.
LEMMA ConnStepSafe ==
    ASSUME IInv, TellsInv, ConnStep, MainStep,
           UNCHANGED << uids, list, stops, mutex >>,
           user' = user \/ stops[Stopper].todo = << >>
    PROVE  IInv' /\ TellsInv'
<1>1. Types /\ ConnsInv /\ StopsInv /\ ListInv /\ HeldInv /\ LiveIsListed
  BY DEF IInv
<1>2. /\ conn' \in [Conns -> Connection] /\ ConnsInv'
      /\ \A k \in Conns : /\ Live(k)' => Live(k)
                          /\ Dead(k) => Dead(k)'
                          /\ Dying(conn[k]) => Dying(conn'[k])
  BY <1>1, ConnStepKeeps
<1>3. Types'
  BY <1>1, <1>2 DEF Types, MainStep, ConnStep
<1>4. StopsInv'
  BY <1>1, <1>2 DEF StopsInv, Target
<1>5. ListInv'
  BY <1>1 DEF ListInv, MainStep
<1>6. HeldInv' /\ LiveIsListed'
  BY <1>1, <1>2 DEF HeldInv, LiveIsListed, BeingStopped, Live
<1>7. TellsInv'
  BY <1>1, ConnStepTells
<1>8. QED
  BY <1>2, <1>3, <1>4, <1>5, <1>6, <1>7 DEF IInv

-----------------------------------------------------------------------------
(* set_state *)

\* The first half.
LEMMA BeginStateSteps ==
    ASSUME Types, ConnsInv, NEW k \in Conns, NEW c \in Connection,
           NEW to \in {"active", "dead"}, BeginState(k, c, to),
           c.state = conn[k].state, c.changing = conn[k].changing,
           conn[k].state # "none",
           c.reader = "dying" \/ c.writer = "dying" => Dying(conn[k]) \/ to = "dead",
           c.reader = "activating" => Dead(k) \/ to = "active",
           c.reader = "exit" \/ c.writer = "exit" \/ ~c.running => Dead(k)
    PROVE  ConnStep
<1> DEFINE d == IF Dead(k) THEN c ELSE [c EXCEPT !.changing = to]
<1>1. /\ conn' = [conn EXCEPT ![k] = d] /\ UNCHANGED << listeners, raced >>
      /\ conn[k].changing = "no"
  BY DEF BeginState, MayChange
<1>2. /\ d \in Connection /\ d.state = conn[k].state
      /\ d.changing = IF Dead(k) THEN "no" ELSE to
      /\ d.reader = c.reader /\ d.writer = c.writer /\ d.running = c.running
  BY <1>1 DEF Connection, Changes
<1>3. Follows(conn[k], d)
  BY <1>1, <1>2 DEF Follows, Orderly, Dying, Dead
<1>4. Told(k, d)
  <2>1. CASE Dead(k)
    BY <1>1, <1>2, <2>1 DEF BeginState, Told, ToBeActive
  <2>2. CASE ~Dead(k) /\ to = "active"
    BY <1>2, <2>2 DEF BeginState, Told, ToBeActive
  <2>3. CASE ~Dead(k) /\ to = "dead"
    BY <1>2, <2>3 DEF BeginState, Told, ToBeActive
  <2>4. QED
    BY <2>1, <2>2, <2>3
<1>5. up' \in [Listeners -> SUBSET Nat]
  BY ConnectionsFacts DEF BeginState, Tells, Types
<1>6. QED
  BY <1>1, <1>2, <1>3, <1>4, <1>5 DEF ConnStep

\* The second half.
LEMMA EndStateSteps ==
    ASSUME Types, ConnsInv, NEW k \in Conns, NEW c \in Connection,
           EndState(k, c),
           c.state = conn[k].state, c.changing = conn[k].changing,
           conn[k].state # "none",
           c.reader = "dying" \/ c.writer = "dying" => Dying(conn[k]),
           c.reader = "activating" => Dead(k),
           c.reader = "exit" \/ c.writer = "exit" \/ ~c.running => Dying(conn[k])
    PROVE  /\ ConnStep
           /\ Dying(conn[k]) => conn'[k].state = "dead"
<1> DEFINE d == IF MayChange(k) THEN c
                ELSE [c EXCEPT !.state = conn[k].changing, !.changing = "no"]
<1>1. conn' = [conn EXCEPT ![k] = d] /\ UNCHANGED notifier
  BY DEF EndState
<1>2. /\ d \in Connection
      /\ d.state = IF MayChange(k) THEN conn[k].state ELSE conn[k].changing
      /\ d.changing = "no"
      /\ d.reader = c.reader /\ d.writer = c.writer /\ d.running = c.running
  <2>1. CASE MayChange(k)
    BY <2>1 DEF MayChange
  <2>2. CASE ~MayChange(k)
    <3>1. conn[k] \in Connection
      BY DEF Types
    <3>2. conn[k].changing \in {"active", "dead"}
      BY <2>2, <3>1 DEF MayChange, Connection, Changes
    <3>3. d = [c EXCEPT !.state = conn[k].changing, !.changing = "no"]
      BY <2>2
    <3>4. QED
      BY <2>2, <3>2, <3>3 DEF Connection, Changes
  <2>3. QED
    BY <2>1, <2>2
<1>3. conn[k].changing \in Changes /\ Orderly(conn[k])
  BY DEF Types, Connection, ConnsInv
<1>4. Follows(conn[k], d)
  BY <1>2, <1>3 DEF Follows, Orderly, Dying, Dead, MayChange, Changes
<1>5. up' = up /\ (ToBeActive(d) <=> ToBeActive(conn[k]))
  BY <1>1, <1>2, <1>3 DEF ToBeActive, MayChange, Changes, notifier
<1>6. Dying(conn[k]) => d.state = "dead"
  BY <1>2, <1>3 DEF Dying, MayChange, Orderly
<1>7. conn'[k] = d
  BY <1>1 DEF Types
<1> HIDE DEF d
<1>8. ConnStep
  BY <1>1, <1>2, <1>4, <1>5 DEF ConnStep, Told, Types, notifier
<1>9. QED
  BY <1>6, <1>7, <1>8

\* A step that leaves the state alone.
LEMMA OtherSteps ==
    ASSUME Types, ConnsInv, NEW k \in Conns, NEW d \in Connection,
           conn' = [conn EXCEPT ![k] = d], UNCHANGED notifier,
           d.state = conn[k].state, d.changing = conn[k].changing,
           conn[k].state # "none",
           d.reader = "dying" \/ d.writer = "dying" => Dying(conn[k]),
           d.reader = "activating" => Dead(k) \/ conn[k].changing = "active",
           d.reader = "exit" \/ d.writer = "exit" \/ ~d.running => Dead(k)
    PROVE  ConnStep
<1>1. conn[k] \in Connection /\ Orderly(conn[k])
  BY DEF Types, ConnsInv
<1>2. Follows(conn[k], d)
  BY <1>1 DEF Follows, Orderly, Dying, Dead
<1>3. up' = up /\ (ToBeActive(d) <=> ToBeActive(conn[k]))
  BY DEF ToBeActive, notifier
<1>4. QED
  BY <1>2, <1>3 DEF ConnStep, Told, Types, notifier

-----------------------------------------------------------------------------
(* The read and the write thread *)

\* What the thread that runs knows of its connection.
LEMMA Running ==
    ASSUME Types, ConnsInv, NEW k \in Conns,
           conn[k].reader # "none" \/ conn[k].writer # "none" \/ conn[k].running
    PROVE  /\ conn[k] \in Connection /\ Orderly(conn[k])
           /\ conn[k].state # "none"
BY DEF Types, ConnsInv, Orderly

\* Waking the client thread does not put it where it replaces connections.
LEMMA ReconnectWakes ==
    ASSUME Types, Reconnect \/ UNCHANGED main
    PROVE  MainStep
<1>1. CASE Reconnect
  BY <1>1 DEF Types, Reconnect, Notify, MainStep, MainPC
<1>2. CASE UNCHANGED main
  BY <1>2 DEF Types, MainStep
<1>3. QED
  BY <1>1, <1>2

LEMMA ReaderSteps ==
    ASSUME Types, ConnsInv, NEW k \in Conns, ReaderRuns(k) \/ ReaderHears(k)
    PROVE  ConnStep /\ MainStep
<1>1. conn[k].reader # "none"
  BY DEF ReaderRuns, ReaderHears, ReaderHello, ReaderFallsBack, ReaderActive,
         ReaderLeavesLoop, ReaderProcesses, ReaderFails, ReaderDead, ReaderExits,
         ReaderActivates, ReaderHearsUnsupported, ReaderReads, ReaderAt
<1>2. conn[k] \in Connection /\ Orderly(conn[k]) /\ conn[k].state # "none"
  BY <1>1, Running
<1>3. CASE ReaderHello(k)
  <2>1. At(conn[k], "shake") \in Connection
    BY <1>2 DEF At, Connection
  <2>2. ConnStep
    BY <1>2, <1>3, <2>1, OtherSteps
       DEF ReaderHello, ReaderAt, At, Orderly, Dying, Dead, Connection
  <2>3. QED
    BY <1>3, <2>2, ReconnectWakes DEF ReaderHello, threads
<1>4. CASE ReaderActivates(k)
  <2>1. At(conn[k], "activating") \in Connection
    BY <1>2 DEF At, Connection
  <2>2. ConnStep
    BY <1>2, <1>4, <2>1, BeginStateSteps
       DEF ReaderActivates, ReaderAt, At, Orderly, Dying, Dead, Connection
  <2>3. QED
    BY <1>4, <2>2, ReconnectWakes DEF ReaderActivates, threads
<1>5. CASE ReaderHearsUnsupported(k)
  <2>1. At(conn[k], "fallback") \in Connection
    BY <1>2 DEF At, Connection
  <2>2. ConnStep
    BY <1>2, <1>5, <2>1, OtherSteps
       DEF ReaderHearsUnsupported, ReaderAt, At, Orderly, Dying, Dead, Connection
  <2>3. QED
    BY <1>5, <2>2, ReconnectWakes DEF ReaderHearsUnsupported, threads
<1>6. CASE ReaderFallsBack(k)
  <2>1. At(conn[k], "dying") \in Connection
    BY <1>2 DEF At, Connection
  <2>2. ConnStep
    BY <1>2, <1>6, <2>1, BeginStateSteps
       DEF ReaderFallsBack, ReaderAt, At, Orderly, Dying, Dead, Connection
  <2>3. QED
    BY <1>6, <2>2, ReconnectWakes DEF ReaderFallsBack, threads
<1>7. CASE ReaderActive(k)
  <2>1. At(conn[k], "loop") \in Connection
    BY <1>2 DEF At, Connection
  <2>2. ConnStep
    BY <1>2, <1>7, <2>1, EndStateSteps
       DEF ReaderActive, ReaderAt, At, Orderly, Dying, Dead, Connection
  <2>3. QED
    BY <1>7, <2>2, ReconnectWakes DEF ReaderActive, threads
<1>8. CASE ReaderLeavesLoop(k)
  <2>1. At(conn[k], "dying") \in Connection
    BY <1>2 DEF At, Connection
  <2>2. ConnStep
    BY <1>2, <1>8, <2>1, BeginStateSteps
       DEF ReaderLeavesLoop, ReaderAt, At, Orderly, Dying, Dead, Connection
  <2>3. QED
    BY <1>8, <2>2, ReconnectWakes DEF ReaderLeavesLoop, threads
<1>9. CASE ReaderReads(k)
  <2>1. At(conn[k], "process") \in Connection
    BY <1>2 DEF At, Connection
  <2>2. ConnStep
    BY <1>2, <1>9, <2>1, OtherSteps
       DEF ReaderReads, ReaderAt, At, Orderly, Dying, Dead, Connection
  <2>3. QED
    BY <1>9, <2>2, ReconnectWakes DEF ReaderReads, threads
<1>10. CASE ReaderProcesses(k)
  <2>1. At(conn[k], "loop") \in Connection
    BY <1>2 DEF At, Connection
  <2>2. ConnStep
    BY <1>2, <1>10, <2>1, OtherSteps
       DEF ReaderProcesses, ReaderAt, At, Orderly, Dying, Dead, Connection
  <2>3. QED
    BY <1>10, <2>2, ReconnectWakes DEF ReaderProcesses, threads
<1>11. CASE ReaderFails(k)
  <2>1. PICK stream \in {"closed", conn[k].stream} :
           BeginState(k, [At(conn[k], "dying") EXCEPT !.stream = stream], "dead")
    BY <1>11 DEF ReaderFails
  <2> DEFINE c == [At(conn[k], "dying") EXCEPT !.stream = stream]
  <2>2. /\ c \in Connection /\ c.state = conn[k].state
        /\ c.changing = conn[k].changing /\ c.reader = "dying"
        /\ c.writer = conn[k].writer /\ c.running = conn[k].running
    BY <1>2 DEF At, Connection
  <2>3. BeginState(k, c, "dead")
    BY <2>1
  <2> HIDE DEF c
  <2>4. ConnStep
    BY <1>2, <2>2, <2>3, BeginStateSteps DEF Orderly, Dying, Dead
  <2>5. QED
    BY <1>11, <2>4, ReconnectWakes DEF ReaderFails, threads
<1>12. CASE ReaderDead(k)
  <2>1. At(conn[k], "exit") \in Connection
    BY <1>2 DEF At, Connection
  <2>2. ConnStep
    BY <1>2, <1>12, <2>1, EndStateSteps
       DEF ReaderDead, ReaderAt, At, Orderly, Dying, Dead, Connection
  <2>3. QED
    BY <1>12, <2>2, ReconnectWakes DEF ReaderDead, threads
<1>13. CASE ReaderExits(k)
  <2> DEFINE c == [At(conn[k], "done") EXCEPT !.running = FALSE, !.woken = Unread(k)]
  <2>1. /\ c \in Connection /\ c.state = conn[k].state
        /\ c.changing = conn[k].changing /\ c.reader = "done"
        /\ c.writer = conn[k].writer /\ c.running = FALSE
    BY <1>2 DEF At, Connection, Unread
  <2>2. conn' = [conn EXCEPT ![k] = c] /\ UNCHANGED notifier
    BY <1>13 DEF ReaderExits
  <2>3. Dead(k)
    BY <1>2, <1>13 DEF ReaderExits, ReaderAt, Orderly, Dead
  <2> HIDE DEF c
  <2>4. ConnStep
    BY <1>2, <2>1, <2>2, <2>3, OtherSteps DEF Orderly, Dying, Dead
  <2>5. QED
    BY <1>13, <2>4, ReconnectWakes DEF ReaderExits, threads
<1>14. QED
  BY <1>3, <1>4, <1>5, <1>6, <1>7, <1>8, <1>9, <1>10, <1>11, <1>12, <1>13
     DEF ReaderRuns, ReaderHears

LEMMA WriterSteps ==
    ASSUME Types, ConnsInv, NEW k \in Conns, WriterRuns(k) \/ WriterTries(k)
    PROVE  ConnStep /\ MainStep
<1>1. conn[k].writer # "none" /\ MainStep
  BY ReconnectWakes
     DEF WriterRuns, WriterTries, WriterWakes, WriterSends, WriterSent, WriterFails,
         WriterDead, WriterExits, WriterAt, threads
<1>2. conn[k] \in Connection /\ Orderly(conn[k]) /\ conn[k].state # "none"
  BY <1>1, Running
<1>3. CASE WriterWakes(k)
  <2> DEFINE c == [Now(conn[k], "dying") EXCEPT !.woken = FALSE]
  <2>1. /\ c \in Connection /\ c.state = conn[k].state
        /\ c.changing = conn[k].changing /\ c.writer = "dying"
        /\ c.reader = conn[k].reader /\ c.running = conn[k].running
    BY <1>2 DEF Now, Connection
  <2>2. BeginState(k, c, "dead")
    BY <1>3 DEF WriterWakes
  <2>3. conn[k].changing = "no"
    BY <2>2 DEF BeginState, MayChange
  <2> HIDE DEF c
  <2>4. QED
    BY <1>1, <1>2, <2>1, <2>2, <2>3, BeginStateSteps DEF Orderly, Dying, Dead
<1>4. CASE WriterFails(k)
  <2> DEFINE c == Now(conn[k], "dying")
  <2>1. /\ c \in Connection /\ c.state = conn[k].state
        /\ c.changing = conn[k].changing /\ c.writer = "dying"
        /\ c.reader = conn[k].reader /\ c.running = conn[k].running
    BY <1>2 DEF Now, Connection
  <2>2. BeginState(k, c, "dead")
    BY <1>4 DEF WriterFails
  <2>3. conn[k].changing = "no"
    BY <2>2 DEF BeginState, MayChange
  <2> HIDE DEF c
  <2>4. QED
    BY <1>1, <1>2, <2>1, <2>2, <2>3, BeginStateSteps DEF Orderly, Dying, Dead
<1>5. CASE WriterDead(k)
  <2> DEFINE c == Now(conn[k], "exit")
  <2>1. /\ c \in Connection /\ c.state = conn[k].state
        /\ c.changing = conn[k].changing /\ c.writer = "exit"
        /\ c.reader = conn[k].reader /\ c.running = conn[k].running
    BY <1>2 DEF Now, Connection
  <2>2. EndState(k, c) /\ conn[k].writer = "dying"
    BY <1>5 DEF WriterDead, WriterAt
  <2> HIDE DEF c
  <2>3. QED
    BY <1>1, <1>2, <2>1, <2>2, EndStateSteps DEF Orderly, Dying, Dead
<1>6. CASE WriterExits(k)
  <2> DEFINE c == [Now(conn[k], "done") EXCEPT
                     !.running = FALSE, !.stream = "closed", !.woken = FALSE]
  <2>1. /\ c \in Connection /\ c.state = conn[k].state
        /\ c.changing = conn[k].changing /\ c.writer = "done"
        /\ c.reader = conn[k].reader /\ c.running = FALSE
    BY <1>2 DEF Now, Connection
  <2>2. conn' = [conn EXCEPT ![k] = c] /\ UNCHANGED notifier
    BY <1>6 DEF WriterExits
  <2>3. Dead(k)
    BY <1>2, <1>6 DEF WriterExits, WriterAt, Orderly, Dead
  <2> HIDE DEF c
  <2>4. QED
    BY <1>1, <1>2, <2>1, <2>2, <2>3, OtherSteps DEF Orderly, Dying, Dead
<1>7. CASE WriterSends(k) \/ (WriterSent(k) /\ conn[k].running)
  <2> DEFINE pc == IF WriterAt(k, "get") THEN "sending" ELSE "get"
             c == Now(conn[k], pc)
  <2>1. /\ c \in Connection /\ c.state = conn[k].state
        /\ c.changing = conn[k].changing /\ c.writer \in {"get", "sending"}
        /\ c.reader = conn[k].reader /\ c.running = conn[k].running
    BY <1>2 DEF Now, Connection
  <2>2. conn' = [conn EXCEPT ![k] = c] /\ UNCHANGED notifier
    BY <1>7 DEF WriterSends, WriterSent, WriterAt
  <2> HIDE DEF c
  <2>3. QED
    BY <1>1, <1>2, <2>1, <2>2, OtherSteps DEF Orderly, Dying, Dead
<1>8. CASE WriterSent(k) /\ ~conn[k].running
  <2> DEFINE c == Now(conn[k], "dying")
  <2>1. /\ c \in Connection /\ c.state = conn[k].state
        /\ c.changing = conn[k].changing /\ c.writer = "dying"
        /\ c.reader = conn[k].reader /\ c.running = conn[k].running
    BY <1>2 DEF Now, Connection
  <2>2. BeginState(k, c, "dead")
    BY <1>8 DEF WriterSent
  <2>3. conn[k].changing = "no"
    BY <2>2 DEF BeginState, MayChange
  <2> HIDE DEF c
  <2>4. QED
    BY <1>1, <1>2, <2>1, <2>2, <2>3, BeginStateSteps DEF Orderly, Dying, Dead
<1>9. QED
  BY <1>3, <1>4, <1>5, <1>6, <1>7, <1>8 DEF WriterRuns, WriterTries

\* The threads of connections do nothing else.
LEMMA ThreadsKeep ==
    ASSUME IInv, TellsInv, NEW k \in Conns,
           ReaderRuns(k) \/ ReaderHears(k) \/ WriterRuns(k) \/ WriterTries(k)
    PROVE  IInv' /\ TellsInv'
<1>1. Types /\ ConnsInv
  BY DEF IInv
<1>2. ConnStep /\ MainStep
  BY <1>1, ReaderSteps, WriterSteps
<1>3. UNCHANGED << uids, list, stops, mutex, user >>
  BY DEF ReaderRuns, ReaderHears, WriterRuns, WriterTries, lists, calls
<1>4. QED
  BY <1>2, <1>3, ConnStepSafe

-----------------------------------------------------------------------------
(* NetworkConnection.stop *)

\* The tail of a sequence is the sequence without its head.
LEMMA TailShifts ==
    ASSUME NEW q \in Seq(Nat), q # << >>
    PROVE  /\ \A i \in DOMAIN Tail(q) : i + 1 \in DOMAIN q /\ Tail(q)[i] = q[i + 1]
           /\ \A i \in DOMAIN q \ {1} :
                 i - 1 \in DOMAIN Tail(q) /\ Tail(q)[i - 1] = q[i]
<1>1. Len(q) \in Nat /\ DOMAIN q = 1 .. Len(q) /\ Len(q) # 0
  OBVIOUS
<1>2. /\ DOMAIN Tail(q) = 1 .. Len(q) - 1
      /\ \A i \in 1 .. Len(q) - 1 : Tail(q)[i] = q[i + 1]
  BY <1>1
<1>3. QED
  BY <1>1, <1>2

Stopping == [at : {"next", "close", "join"}, todo : Seq(Nat)]

\* Thread t goes on with its target, or drops it when it does not live.
LEMMA StopStepSafe ==
    ASSUME IInv, TellsInv, NEW t \in Stoppers, NEW r \in Stopping, ConnStep,
           UNCHANGED << main, uids, list, mutex, user >>,
           stops' = [stops EXCEPT ![t] = r], stops[t].todo # << >>,
           \/ /\ r.todo = stops[t].todo
              /\ Target(t) \in Conns =>
                    /\ r.at = "close" => Dying(conn'[Target(t)])
                    /\ r.at = "join" => conn'[Target(t)].state = "dead"
           \/ /\ r.todo = Tail(stops[t].todo) /\ r.at = "next"
              /\ Target(t) \in Conns => ~Live(Target(t))
    PROVE  IInv' /\ TellsInv'
<1> DEFINE todo == stops[t].todo
<1>1. Types /\ ConnsInv /\ StopsInv /\ ListInv /\ HeldInv /\ LiveIsListed
  BY DEF IInv
<1>2. /\ conn' \in [Conns -> Connection] /\ ConnsInv'
      /\ \A k \in Conns : /\ Live(k)' => Live(k)
                          /\ Dead(k) => Dead(k)'
                          /\ Dying(conn[k]) => Dying(conn'[k])
  BY <1>1, ConnStepKeeps
<1>3. /\ stops' \in [Stoppers -> Stopping] /\ stops'[t] = r
      /\ \A u \in Stoppers \ {t} : stops'[u] = stops[u]
  BY <1>1 DEF Types, Stopping
<1>4. Types'
  BY <1>1, <1>2, <1>3 DEF Types, ConnStep, Stopping
<1>5. todo \in Seq(Nat) /\ \A i \in DOMAIN todo : todo[i] <= uids
  BY <1>1 DEF Types, Stopping, StopsInv
<1>6. /\ \A i \in DOMAIN Tail(todo) :
            i + 1 \in DOMAIN todo /\ Tail(todo)[i] = todo[i + 1]
      /\ \A i \in DOMAIN todo \ {1} :
            i - 1 \in DOMAIN Tail(todo) /\ Tail(todo)[i - 1] = todo[i]
  BY <1>5, TailShifts
<1>7. \A i \in DOMAIN r.todo : r.todo[i] <= uids
  <2>1. CASE r.todo = todo
    BY <1>5, <2>1
  <2>2. CASE r.todo = Tail(todo)
    BY <1>5, <1>6, <2>2
  <2>3. QED
    BY <2>1, <2>2
<1>8. StopsInv'
  <2> SUFFICES ASSUME NEW u \in Stoppers, stops'[u].todo # << >>
               PROVE  /\ IF u = Stopper THEN user' = "close" ELSE mutex' = u
                      /\ \A i \in DOMAIN stops'[u].todo : stops'[u].todo[i] <= uids'
                      /\ Head(stops'[u].todo) \in Conns =>
                            /\ stops'[u].at = "close" => Dying(conn'[Head(stops'[u].todo)])
                            /\ stops'[u].at = "join" => conn'[Head(stops'[u].todo)].state = "dead"
    BY DEF StopsInv, Target, Dead
  <2>1. CASE u = t
    BY <1>1, <1>3, <1>7, <2>1 DEF StopsInv, Target
  <2>2. CASE u # t
    BY <1>1, <1>2, <1>3, <2>2 DEF StopsInv, Target, Dead
  <2>3. QED
    BY <2>1, <2>2
<1>9. ListInv'
  BY <1>1 DEF ListInv
<1>10. \A k \in Conns : Live(k)' /\ BeingStopped(k) => BeingStopped(k)'
  <2> SUFFICES ASSUME NEW k \in Conns, Live(k)', NEW u \in Stoppers,
                      NEW i \in DOMAIN stops[u].todo, stops[u].todo[i] = k
               PROVE  \E v \in Stoppers : k \in Range(stops'[v].todo)
    BY DEF BeingStopped, Stoppers, Range
  <2>1. CASE u # t
    BY <1>3, <2>1 DEF Range
  <2>2. CASE u = t /\ r.todo = stops[t].todo
    BY <1>3, <2>2 DEF Range
  <2>3. CASE u = t /\ r.todo = Tail(stops[t].todo)
                   /\ (Target(t) \in Conns => ~Live(Target(t)))
    <3>1. i # 1
      BY <1>2, <2>3 DEF Target
    <3>2. i - 1 \in DOMAIN r.todo /\ r.todo[i - 1] = k
      BY <1>6, <2>3, <3>1
    <3>3. QED
      BY <1>3, <3>2 DEF Range
  <2>4. QED
    BY <2>1, <2>2, <2>3
<1>11. HeldInv' /\ LiveIsListed'
  BY <1>1, <1>2, <1>10 DEF HeldInv, LiveIsListed, Live
<1>12. TellsInv'
  BY <1>1, ConnStepTells
<1>13. QED
  BY <1>2, <1>4, <1>8, <1>9, <1>11, <1>12 DEF IInv

\* What is not a connection cannot be changed.
LEMMA NoConnStep ==
    ASSUME Types, NEW k \in Nat, k \notin Conns, NEW c,
           \/ BeginState(k, c, "dead") \/ EndState(k, c)
    PROVE  ConnStep
<1>1. conn' = conn
  BY DEF Types, BeginState, EndState
<1>2. UNCHANGED << listeners, raced >>
  BY DEF BeginState, EndState, notifier
<1>3. up' = up \/ up' = Tells(k, FALSE)
  BY DEF BeginState, EndState, notifier
<1>4. \A l \in Listeners : up'[l] \subseteq Nat /\ up'[l] \subseteq up[l]
                           /\ up[l] \ {k} \subseteq up'[l]
  BY <1>3 DEF Tells, Types
<1>5. up' \in [Listeners -> SUBSET Nat]
  BY <1>3, <1>4 DEF Tells, Types
<1>6. QED
  BY <1>1, <1>2, <1>4, <1>5 DEF ConnStep

LEMMA StopsConnectionsKeep ==
    ASSUME IInv, TellsInv, NEW t \in Stoppers, StopsConnections(t)
    PROVE  IInv' /\ TellsInv'
<1> DEFINE T == Target(t)
<1>1. /\ Types /\ ConnsInv /\ StopsInv
      /\ UNCHANGED << main, uids, list, mutex, user >>
  BY DEF IInv, StopsConnections, lists, threads, calls
<1>2. stops[t].todo # << >> /\ stops[t] \in Stopping
  BY <1>1 DEF StopsConnections, StopSkips, StopKills, StopCloses, StopJoins, StopAt,
              Types, Stopping
<1>3. T \in Nat /\ Tail(stops[t].todo) \in Seq(Nat)
  BY <1>2 DEF Stopping, Target
<1>4. T \in Conns => conn[T] \in Connection /\ Orderly(conn[T])
  BY <1>1 DEF Types, ConnsInv
<1>5. ASSUME UNCHANGED << conn, notifier >>
      PROVE  ConnStep
  BY <1>1, <1>5 DEF ConnStep, Types, notifier
<1>6. CASE StopSkips(t)
  <2> DEFINE r == [at |-> "next", todo |-> Tail(stops[t].todo)]
  <2>1. stops' = [stops EXCEPT ![t] = r] /\ UNCHANGED << conn, notifier >>
        /\ ~conn[T].running
    BY <1>6 DEF StopSkips, NextTarget
  <2>2. T \in Conns => ~Live(T)
    BY <1>4, <2>1 DEF Orderly, Live, Created, Dead
  <2>3. r \in Stopping /\ r.todo = Tail(stops[t].todo) /\ r.at = "next"
    BY <1>3 DEF Stopping
  <2> HIDE DEF r
  <2>4. QED
    BY <1>1, <1>2, <1>5, <2>1, <2>2, <2>3, StopStepSafe
<1>7. CASE StopKills(t)
  <2> DEFINE r == [stops[t] EXCEPT !.at = "close"]
  <2>1. /\ stops' = [stops EXCEPT ![t] = r] /\ BeginState(T, conn[T], "dead")
        /\ conn[T].running
    BY <1>7 DEF StopKills, GoOn
  <2>2. r \in Stopping /\ r.todo = stops[t].todo /\ r.at = "close"
    BY <1>2 DEF Stopping
  <2>3. T \in Conns => conn[T].state # "none" /\ conn[T].changing = "no"
    BY <1>4, <2>1 DEF Orderly, BeginState, MayChange
  <2>4. ConnStep
    <3>1. CASE T \in Conns
      BY <1>1, <1>4, <2>1, <2>3, <3>1, BeginStateSteps DEF Orderly, Dying, Dead
    <3>2. CASE T \notin Conns
      BY <1>1, <1>3, <2>1, <3>2, NoConnStep
    <3>3. QED
      BY <3>1, <3>2
  <2>5. T \in Conns => Dying(conn'[T])
    BY <1>1, <1>4, <2>1 DEF BeginState, Types, Dying, Dead, Connection
  <2> HIDE DEF r
  <2>6. QED
    BY <1>1, <1>2, <2>1, <2>2, <2>4, <2>5, StopStepSafe
<1>8. CASE StopCloses(t)
  <2> DEFINE r == [stops[t] EXCEPT !.at = "join"]
             c == [conn[T] EXCEPT !.running = FALSE, !.stream = "closed",
                                  !.woken = Unread(T)]
  <2>1. stops' = [stops EXCEPT ![t] = r] /\ EndState(T, c)
        /\ stops[t].at = "close"
    BY <1>8 DEF StopCloses, GoOn, StopAt
  <2>2. r \in Stopping /\ r.todo = stops[t].todo /\ r.at = "join"
    BY <1>2 DEF Stopping
  <2>3. T \in Conns =>
          /\ c \in Connection /\ c.state = conn[T].state
          /\ c.changing = conn[T].changing /\ c.writer = conn[T].writer
          /\ c.reader = conn[T].reader /\ c.running = FALSE
    BY <1>4 DEF Connection, Unread
  <2>4. T \in Conns => Dying(conn[T])
    BY <1>1, <1>2, <2>1 DEF StopsInv
  <2> HIDE DEF c
  <2>5. ConnStep /\ (T \in Conns => conn'[T].state = "dead")
    <3>1. CASE T \in Conns
      BY <1>1, <1>4, <2>1, <2>3, <2>4, <3>1, EndStateSteps DEF Orderly, Dying, Dead
    <3>2. CASE T \notin Conns
      BY <1>1, <1>3, <2>1, <3>2, NoConnStep
    <3>3. QED
      BY <3>1, <3>2
  <2> HIDE DEF r
  <2>6. QED
    BY <1>1, <1>2, <2>1, <2>2, <2>5, StopStepSafe
<1>9. CASE StopJoins(t)
  <2> DEFINE r == [at |-> "next", todo |-> Tail(stops[t].todo)]
  <2>1. stops' = [stops EXCEPT ![t] = r] /\ UNCHANGED << conn, notifier >>
        /\ stops[t].at = "join"
    BY <1>9 DEF StopJoins, NextTarget, StopAt
  <2>2. T \in Conns => ~Live(T)
    BY <1>1, <1>2, <2>1 DEF StopsInv, Live
  <2>3. r \in Stopping /\ r.todo = Tail(stops[t].todo) /\ r.at = "next"
    BY <1>3 DEF Stopping
  <2> HIDE DEF r
  <2>4. QED
    BY <1>1, <1>2, <1>5, <2>1, <2>2, <2>3, StopStepSafe
<1>10. QED
  BY <1>6, <1>7, <1>8, <1>9 DEF StopsConnections

-----------------------------------------------------------------------------
(* The threads of the dispatcher *)

\* Nothing happens to the connections and to who is told.
LEMMA NoConnChanges ==
    ASSUME Types, UNCHANGED << conn, notifier >>
    PROVE  ConnStep
BY DEF ConnStep, Types, notifier

\* A new connection takes the next number, which nobody knows yet.
LEMMA NewConnKeeps ==
    ASSUME Types, ConnsInv, TellsInv, ListInv, NEW s \in Starts, role[s] \in Kinds,
           uids' = uids + 1, conn' = [conn EXCEPT ![uids + 1] = NewConn(s)],
           UNCHANGED notifier, list' \in Seq(Nat),
           \A k \in Range(list') : k = uids + 1 \/ k \in Range(list)
    PROVE  /\ conn' \in [Conns -> Connection] /\ ConnsInv' /\ TellsInv'
           /\ \A i \in DOMAIN list' : list'[i] <= uids'
           /\ \A k \in Conns : k # uids + 1 => conn'[k] = conn[k]
<1> DEFINE n == uids + 1
<1>1. /\ NewConn(s) \in Connection /\ Orderly(NewConn(s))
      /\ NewConn(s).state = "init" /\ NewConn(s).changing = "no"
  BY DEF NewConn, Connection, Orderly, Changes, Kinds, Dying
<1>2. /\ conn' \in [Conns -> Connection]
      /\ \A k \in Conns : k # n => conn'[k] = conn[k]
      /\ n \in Conns => conn'[n] = NewConn(s)
  BY <1>1 DEF Types
<1>3. uids \in Nat /\ \A k \in Conns : k = n => conn[k].state = "none"
  BY DEF Types, ConnsInv, Created
<1>4. ConnsInv'
  <2> SUFFICES ASSUME NEW k \in Conns
               PROVE  Orderly(conn'[k]) /\ (conn'[k].state # "none" => k <= uids')
    BY DEF ConnsInv, Created
  <2>1. CASE k = n
    BY <1>1, <1>2, <1>3, <2>1
  <2>2. CASE k # n
    BY <1>2, <1>3, <2>2, ConnectionsFacts DEF ConnsInv, Created
  <2>3. QED
    BY <2>1, <2>2
<1>5. TellsInv'
  <2> SUFFICES ASSUME NEW l \in listeners, NEW k \in Conns \ raced[l]
               PROVE  /\ k \in up[l] => ToBeActive(conn'[k])
                      /\ ToBeActive(conn'[k]) /\ k \in Range(list') => k \in up[l]
    BY DEF TellsInv, notifier
  <2>1. /\ k \in up[l] => ToBeActive(conn[k])
        /\ ToBeActive(conn[k]) /\ k \in Range(list) => k \in up[l]
    BY DEF TellsInv
  <2>2. CASE k = n
    <3>1. ~ToBeActive(conn[k])
      BY <1>3, <2>2 DEF ToBeActive, ConnsInv, Orderly
    <3>2. ~ToBeActive(conn'[k])
      BY <1>1, <1>2, <2>2 DEF ToBeActive
    <3>3. QED
      BY <2>1, <3>1, <3>2
  <2>3. CASE k # n
    BY <1>2, <2>1, <2>3
  <2>4. QED
    BY <2>2, <2>3
<1>6. \A i \in DOMAIN list' : list'[i] <= uids'
  <2> SUFFICES ASSUME NEW i \in DOMAIN list'
               PROVE  list'[i] <= uids + 1
    OBVIOUS
  <2>1. list'[i] = uids + 1 \/ list'[i] \in Range(list)
    BY DEF Range
  <2>2. CASE list'[i] \in Range(list)
    <3>1. PICK j \in DOMAIN list : list[j] = list'[i]
      BY <2>2 DEF Range
    <3>2. list[j] \in Nat /\ list[j] <= uids
      BY DEF Types, ListInv
    <3>3. QED
      BY <1>3, <3>1, <3>2
  <2>3. QED
    BY <1>3, <2>1, <2>2
<1>7. QED
  BY <1>2, <1>4, <1>5, <1>6

\* The stopped connections are none of the new.
LEMMA NewConnStops ==
    ASSUME Types, StopsInv, uids' = uids + 1, UNCHANGED << stops, user >>,
           \A t \in Starts : stops[t].todo # << >> => mutex' = t,
           \A k \in Conns : k # uids + 1 => conn'[k] = conn[k]
    PROVE  StopsInv'
<1> SUFFICES ASSUME NEW t \in Stoppers, stops[t].todo # << >>
             PROVE  /\ IF t = Stopper THEN user = "close" ELSE mutex' = t
                    /\ \A i \in DOMAIN stops[t].todo : stops[t].todo[i] <= uids + 1
                    /\ Target(t) \in Conns =>
                          /\ stops[t].at = "close" => Dying(conn'[Target(t)])
                          /\ stops[t].at = "join" => conn'[Target(t)].state = "dead"
  BY DEF StopsInv, Target, Dead
<1>1. stops[t].todo \in Seq(Nat) /\ uids \in Nat
  BY DEF Types
<1>2. \A i \in DOMAIN stops[t].todo : stops[t].todo[i] \in Nat /\ stops[t].todo[i] <= uids
  BY <1>1 DEF StopsInv
<1>3. Target(t) <= uids
  BY <1>1, <1>2 DEF Target
<1>4. Target(t) \in Conns => conn'[Target(t)] = conn[Target(t)]
  BY <1>1, <1>3, ConnectionsFacts
<1>5. QED
  BY <1>1, <1>2, <1>4 DEF StopsInv, Stoppers, Dead

LEMMA ClientKeeps ==
    ASSUME IInv, TellsInv, NEW s \in Starts, Client(s)
    PROVE  IInv' /\ TellsInv'
<1> USE ConnectionsFacts
<1>1. Types /\ ConnsInv /\ StopsInv /\ ListInv /\ HeldInv /\ LiveIsListed
  BY DEF IInv
<1>2. UNCHANGED << notifier, user >>
  BY DEF Client, ClientRuns, calls
<1>3. CASE ClientEnds(s) \/ ClientPicks(s) \/ ClientFailsToConnect(s) \/ ClientWakes(s)
  <2>1. MainStep /\ UNCHANGED << uids, list, stops, mutex, conn >>
    BY <1>1, <1>3 DEF ClientEnds, ClientPicks, ClientFailsToConnect, ClientWakes,
                      MainStep, MainPC, Types, lists
  <2>2. QED
    BY <1>1, <1>2, <2>1, NoConnChanges, ConnStepSafe
<1>4. CASE ClientConnects(s)
  <2>1. /\ mutex = Free /\ mutex' = s /\ UNCHANGED << list, uids, conn >>
        /\ main' = [main EXCEPT ![s] = "replacing"]
        /\ stops' = [stops EXCEPT ![s] = [at |-> "next", todo |-> list]]
    BY <1>4 DEF ClientConnects, ToStop, lists
  <2>2. /\ stops' \in [Stoppers -> Stopping]
        /\ stops'[s].todo = list /\ stops'[s].at = "next"
        /\ \A t \in Stoppers \ {s} : stops'[t] = stops[t]
    BY <1>1, <2>1 DEF Types, Stopping, Stoppers
  <2>3. Types'
    BY <1>1, <1>2, <2>1, <2>2 DEF Types, Stopping, MainPC, notifier
  <2>4. \A t \in Starts : stops[t].todo = << >>
    BY <1>1, <2>1 DEF StopsInv, Stoppers
  <2>5. StopsInv'
    <3> SUFFICES ASSUME NEW t \in Stoppers, stops'[t].todo # << >>
                 PROVE  /\ IF t = Stopper THEN user = "close" ELSE s = t
                        /\ \A i \in DOMAIN stops'[t].todo : stops'[t].todo[i] <= uids
                        /\ Head(stops'[t].todo) \in Conns =>
                              /\ stops'[t].at = "close" => Dying(conn[Head(stops'[t].todo)])
                              /\ stops'[t].at = "join" => Dead(Head(stops'[t].todo))
      BY <1>2, <2>1 DEF StopsInv, Target, Dead
    <3>1. CASE t = s
      BY <1>1, <2>2, <3>1 DEF ListInv
    <3>2. CASE t # s
      BY <1>1, <2>2, <2>4, <3>2 DEF StopsInv, Stoppers, Target
    <3>3. QED
      BY <3>1, <3>2
  <2>6. ListInv'
    BY <1>1, <2>1 DEF ListInv, Types
  <2>7. \A k \in Conns : Live(k) => BeingStopped(k)'
    <3> SUFFICES ASSUME NEW k \in Conns, Live(k)
                 PROVE  \E t \in Stoppers : k \in Range(stops'[t].todo)
      BY DEF BeingStopped, Stoppers
    <3>1. CASE k \in Range(list)
      BY <2>2, <3>1 DEF Stoppers
    <3>2. ASSUME NEW t \in Stoppers, k \in Range(stops[t].todo)
          PROVE  t # s
      BY <2>4, <3>2 DEF Range
    <3>3. CASE BeingStopped(k)
      BY <2>2, <3>2, <3>3 DEF BeingStopped, Stoppers
    <3>4. QED
      BY <1>1, <3>1, <3>3 DEF LiveIsListed, Live
  <2>8. HeldInv' /\ LiveIsListed' /\ ConnsInv'
    BY <1>1, <2>1, <2>7 DEF HeldInv, LiveIsListed, Live, Created, Dead, ConnsInv
  <2>9. TellsInv'
    BY <1>1, <1>2, <2>1, NoConnChanges, ConnStepTells
  <2>10. QED
    BY <2>3, <2>5, <2>6, <2>8, <2>9 DEF IInv
<1>5. CASE ClientStartsConnection(s)
  <2>1. /\ role[s] = "client" /\ main[s] = "replacing" /\ stops[s].todo = << >>
        /\ uids' = uids + 1 /\ list' = << uids + 1 >> /\ mutex' = Free
        /\ conn' = [conn EXCEPT ![uids + 1] = NewConn(s)]
        /\ main' \in [Starts -> MainPC] /\ main'[s] # "replacing"
        /\ \A t \in Starts \ {s} : main'[t] = main[t]
        /\ UNCHANGED stops
    BY <1>1, <1>5 DEF ClientStartsConnection, MainAt, Types, MainPC
  <2>2. mutex = s /\ uids \in Nat
    BY <1>1, <2>1 DEF ListInv, Types
  <2>3. list' \in Seq(Nat) /\ Range(list') = {uids + 1}
    BY <2>1, <2>2 DEF Range
  <2>4. /\ conn' \in [Conns -> Connection] /\ ConnsInv' /\ TellsInv'
        /\ \A i \in DOMAIN list' : list'[i] <= uids'
        /\ \A k \in Conns : k # uids + 1 => conn'[k] = conn[k]
    BY <1>1, <1>2, <2>1, <2>3, NewConnKeeps DEF Kinds
  <2>5. Types'
    BY <1>1, <1>2, <2>1, <2>2, <2>3, <2>4 DEF Types, notifier
  <2>6. \A t \in Starts : stops[t].todo = << >>
    BY <1>1, <2>1, <2>2 DEF StopsInv, Stoppers
  <2>7. StopsInv'
    BY <1>1, <1>2, <2>1, <2>4, <2>6, NewConnStops
  <2>8. ListInv'
    BY <1>1, <2>1, <2>2, <2>4 DEF ListInv
  <2>9. HeldInv'
    BY <2>1 DEF HeldInv
  <2>10. LiveIsListed'
    <3> SUFFICES ASSUME NEW k \in Conns, Live(k)'
                 PROVE  k \in Range(list') \/ BeingStopped(k)'
      BY DEF LiveIsListed, Live
    <3>1. CASE k = uids + 1
      BY <2>3, <3>1
    <3>2. CASE k # uids + 1
      <4>1. Live(k)
        BY <2>4, <3>2 DEF Live, Created, Dead
      <4>2. BeingStopped(k)
        BY <1>1, <2>2, <4>1 DEF HeldInv
      <4>3. QED
        BY <2>1, <4>2 DEF BeingStopped
    <3>3. QED
      BY <3>1, <3>2
  <2>11. QED
    BY <2>4, <2>5, <2>7, <2>8, <2>9, <2>10 DEF IInv
<1>6. QED
  BY <1>3, <1>4, <1>5 DEF Client, ClientRuns

\* The first slot of a dead connection is the slot of a dead connection.
LEMMA SelectedIsReusable ==
    ASSUME list \in Seq(Nat), \E i \in DOMAIN list : Reusable(list[i])
    PROVE  /\ SelectInSeq(list, Reusable) \in DOMAIN list
           /\ Reusable(list[SelectInSeq(list, Reusable)])
<1> DEFINE I == {i \in 1 .. Len(list) : Reusable(list[i])}
<1>1. I # {} /\ I \subseteq Nat
  OBVIOUS
<1>2. IsWellFoundedOn({p \in Nat \X Nat : p[1] < p[2]}, Nat)
  BY NatLessThanWellFounded DEF OpToRel
<1>3. PICK i \in I : \A j \in I : i <= j
  <2> DEFINE R == {p \in Nat \X Nat : p[1] < p[2]}
  <2>1. \E i \in I : \A j \in I : ~(<< j, i >> \in R)
    <3> HIDE DEF R
    <3>1. QED
      BY <1>1, <1>2, WFMin DEF R
  <2>2. \A i, j \in I : ~(<< j, i >> \in R) => i <= j
    BY <1>1
  <2>3. QED
    BY <2>1, <2>2
<1>4. Min(I) \in I
  BY <1>3 DEF Min
<1>5. QED
  BY <1>1, <1>4 DEF SelectInSeq

LEMMA ServerKeeps ==
    ASSUME IInv, TellsInv, NEW s \in Starts, ServerRuns(s) \/ ServerHears(s)
    PROVE  IInv' /\ TellsInv'
<1> USE ConnectionsFacts
<1>1. Types /\ ConnsInv /\ StopsInv /\ ListInv /\ HeldInv /\ LiveIsListed
  BY DEF IInv
<1>2. UNCHANGED << mutex, notifier, user, stops >>
  BY DEF ServerRuns, ServerHears, calls
<1>3. CASE \/ ServerListens(s) \/ ServerCannotListen(s) \/ ServerStopsAccepting(s)
           \/ AcceptFails(s) \/ ServerAccepts(s)
  <2>1. MainStep /\ UNCHANGED << uids, list, conn >>
    BY <1>1, <1>3 DEF ServerListens, ServerCannotListen, ServerStopsAccepting,
                      AcceptFails, ServerAccepts, ServerEnds,
                      MainStep, MainPC, Types, lists
  <2>2. QED
    BY <1>1, <1>2, <2>1, NoConnChanges, ConnStepSafe
<1>4. CASE ServerAdds(s)
  <2> DEFINE i == SelectInSeq(list, Reusable)
             reuse == \E j \in DOMAIN list : Reusable(list[j])
  <2>1. /\ role[s] = "server" /\ mutex = Free
        /\ uids' = uids + 1
        /\ list' = IF reuse THEN [list EXCEPT ![i] = uids + 1]
                   ELSE Append(list, uids + 1)
        /\ conn' = [conn EXCEPT ![uids + 1] = NewConn(s)]
        /\ main' \in [Starts -> MainPC]
        /\ \A t \in Starts : main'[t] = "replacing" => main[t] = "replacing"
    BY <1>1, <1>4 DEF ServerAdds, MainAt, ServerEnds, Types, MainPC
  <2>2. uids \in Nat /\ list \in Seq(Nat)
    BY <1>1 DEF Types
  <2>3. reuse => i \in DOMAIN list /\ Reusable(list[i])
    BY <2>2, SelectedIsReusable
  <2> HIDE DEF i, reuse
  <2>4. /\ list' \in Seq(Nat)
        /\ \A k \in Range(list') : k = uids + 1 \/ k \in Range(list)
        /\ uids + 1 \in Range(list')
        /\ \A k \in Range(list) : k \in Range(list') \/ Reusable(k)
    <3>1. CASE reuse
      <4>1. /\ list' \in Seq(Nat) /\ DOMAIN list' = DOMAIN list
            /\ list'[i] = uids + 1
            /\ \A j \in DOMAIN list \ {i} : list'[j] = list[j]
        BY <2>1, <2>2, <2>3, <3>1
      <4>2. QED
        BY <2>3, <3>1, <4>1 DEF Range
    <3>2. CASE ~reuse
      <4>1. /\ list' \in Seq(Nat) /\ DOMAIN list' = DOMAIN list \cup {Len(list) + 1}
            /\ list'[Len(list) + 1] = uids + 1
            /\ \A j \in DOMAIN list : list'[j] = list[j]
        BY <2>1, <2>2, <3>2
      <4>2. QED
        BY <4>1 DEF Range
    <3>3. QED
      BY <3>1, <3>2
  <2>5. /\ conn' \in [Conns -> Connection] /\ ConnsInv' /\ TellsInv'
        /\ \A j \in DOMAIN list' : list'[j] <= uids'
        /\ \A k \in Conns : k # uids + 1 => conn'[k] = conn[k]
    BY <1>1, <1>2, <2>1, <2>4, NewConnKeeps DEF Kinds
  <2>6. Types'
    BY <1>1, <1>2, <2>1, <2>2, <2>4, <2>5 DEF Types, notifier
  <2>7. \A t \in Starts : stops[t].todo # << >> => mutex' = t
    BY <1>1, <1>2 DEF StopsInv, Stoppers
  <2>8. StopsInv'
    BY <1>1, <1>2, <2>1, <2>5, <2>7, NewConnStops
  <2>9. ListInv'
    BY <1>1, <1>2, <2>1, <2>5 DEF ListInv
  <2>10. HeldInv'
    BY <1>2, <2>1 DEF HeldInv
  <2>11. LiveIsListed'
    <3> SUFFICES ASSUME NEW k \in Conns, Live(k)'
                 PROVE  k \in Range(list') \/ BeingStopped(k)'
      BY DEF LiveIsListed, Live
    <3>1. CASE k = uids + 1
      BY <2>4, <3>1
    <3>2. CASE k # uids + 1
      <4>1. Live(k)
        BY <2>5, <3>2 DEF Live, Created, Dead
      <4>2. CASE BeingStopped(k)
        BY <1>2, <4>2 DEF BeingStopped
      <4>3. CASE k \in Range(list)
        BY <2>4, <4>1, <4>3 DEF Live, Reusable
      <4>4. QED
        BY <1>1, <4>1, <4>2, <4>3 DEF LiveIsListed, Live
    <3>3. QED
      BY <3>1, <3>2
  <2>12. QED
    BY <2>5, <2>6, <2>8, <2>9, <2>10, <2>11 DEF IInv
<1>5. QED
  BY <1>3, <1>4 DEF ServerRuns, ServerHears

LEMMA PumpKeeps ==
    ASSUME IInv, TellsInv, NEW s \in Starts, Pump(s)
    PROVE  IInv' /\ TellsInv'
<1>1. Types /\ UNCHANGED << conn, notifier >>
  BY DEF IInv, Pump
<1>2. Reconnect \/ UNCHANGED main
  BY DEF Pump, PumpRound, PumpEnds, TellClient
<1>3. UNCHANGED << uids, list, stops, mutex, user >>
  BY DEF Pump, lists, calls
<1>4. QED
  BY <1>1, <1>2, <1>3, ReconnectWakes, NoConnChanges, ConnStepSafe

-----------------------------------------------------------------------------
(* The user and the listeners *)

LEMMA StartKeeps ==
    ASSUME IInv, TellsInv, NEW kind \in Kinds, Start(kind)
    PROVE  IInv' /\ TellsInv'
<1>1. Types /\ UNCHANGED << conn, notifier >>
  BY DEF IInv, Start
<1>2. UNCHANGED << uids, list, stops, mutex, user >>
  BY DEF Start, lists
<1>3. MainStep
  BY <1>1 DEF Start, MainStep, Types, MainPC
<1>4. QED
  BY <1>1, <1>2, <1>3, NoConnChanges, ConnStepSafe

LEMMA StopKeeps ==
    ASSUME IInv, TellsInv, SetServer \/ CallStop \/ Stop
    PROVE  IInv' /\ TellsInv'
<1> USE ConnectionsFacts
<1>1. Types /\ ConnsInv /\ StopsInv /\ ListInv /\ HeldInv /\ LiveIsListed
  BY DEF IInv
<1>2. UNCHANGED << conn, notifier, uids, mutex >>
  BY DEF SetServer, CallStop, StopCalled, Stop, StopForgetsServers,
         StopShutsAcceptor, StopJoinsThreads, StopTakesConnections, StopReturns,
         SameStops, lists
<1>3. user # "close" => stops[Stopper].todo = << >>
  BY <1>1 DEF StopsInv, Stoppers
<1>4. CASE SetServer \/ CallStop \/ StopForgetsServers \/ StopShutsAcceptor
           \/ StopJoinsThreads \/ StopReturns
  <2>1. UNCHANGED << list, stops >>
    BY <1>4 DEF SetServer, CallStop, StopCalled, StopForgetsServers, StopShutsAcceptor,
                StopJoinsThreads, StopReturns, SameStops, lists, calls
  <2>2. user' = user \/ stops[Stopper].todo = << >>
    BY <1>3, <1>4 DEF SetServer, CallStop, StopCalled, StopForgetsServers,
                StopShutsAcceptor, StopJoinsThreads, StopReturns, calls
  <2>3. Reconnect \/ UNCHANGED main
    BY <1>4 DEF SetServer, CallStop, StopCalled, StopForgetsServers, StopShutsAcceptor,
                StopJoinsThreads, StopReturns, threads
  <2>4. QED
    BY <1>1, <1>2, <2>1, <2>2, <2>3, ReconnectWakes, NoConnChanges, ConnStepSafe
<1>5. CASE StopTakesConnections
  <2>1. /\ mutex = Free /\ user = "take" /\ user' = "close" /\ list' = << >>
        /\ stops' = [stops EXCEPT ![Stopper] = [at |-> "next", todo |-> list]]
        /\ UNCHANGED main
    BY <1>5 DEF StopTakesConnections, Then, threads
  <2>2. /\ stops' \in [Stoppers -> Stopping]
        /\ stops'[Stopper].todo = list /\ stops'[Stopper].at = "next"
        /\ \A t \in Starts : stops'[t] = stops[t]
    BY <1>1, <2>1 DEF Types, Stopping, Stoppers
  <2>3. Types'
    BY <1>1, <1>2, <2>1, <2>2 DEF Types, Stopping, notifier
  <2>4. StopsInv'
    <3> SUFFICES ASSUME NEW t \in Stoppers, stops'[t].todo # << >>
                 PROVE  /\ IF t = Stopper THEN user' = "close" ELSE mutex = t
                        /\ \A i \in DOMAIN stops'[t].todo : stops'[t].todo[i] <= uids
                        /\ Head(stops'[t].todo) \in Conns =>
                              /\ stops'[t].at = "close" => Dying(conn[Head(stops'[t].todo)])
                              /\ stops'[t].at = "join" => Dead(Head(stops'[t].todo))
      BY <1>2 DEF StopsInv, Target, Dead
    <3>1. CASE t = Stopper
      BY <1>1, <2>1, <2>2, <3>1 DEF ListInv
    <3>2. CASE t \in Starts
      BY <1>1, <2>2, <3>2 DEF StopsInv, Stoppers, Target
    <3>3. QED
      BY <3>1, <3>2 DEF Stoppers
  <2>5. ListInv'
    BY <1>1, <1>2, <2>1 DEF ListInv
  <2>6. HeldInv' /\ ConnsInv'
    BY <1>1, <1>2, <2>1 DEF HeldInv, ConnsInv, Created
  <2>7. LiveIsListed'
    <3> SUFFICES ASSUME NEW k \in Conns, Live(k)
                 PROVE  \E t \in Stoppers : k \in Range(stops'[t].todo)
      BY <1>2 DEF LiveIsListed, Live, Created, Dead, BeingStopped, Stoppers
    <3>1. CASE k \in Range(list)
      BY <2>2, <3>1 DEF Stoppers
    <3>2. k \notin Range(stops[Stopper].todo)
      BY <1>3, <2>1 DEF Range
    <3>3. CASE BeingStopped(k)
      BY <2>2, <3>2, <3>3 DEF BeingStopped, Stoppers
    <3>4. QED
      BY <1>1, <3>1, <3>3 DEF LiveIsListed, Live
  <2>8. TellsInv'
    BY <1>2, <2>1 DEF TellsInv, notifier, Range
  <2>9. QED
    BY <2>3, <2>4, <2>5, <2>6, <2>7, <2>8 DEF IInv
<1>6. QED
  BY <1>4, <1>5 DEF Stop

\* A new listener is told of the connections that are up, and is excused from
\* those that are changing.
LEMMA AddListenerKeeps ==
    ASSUME IInv, TellsInv, NEW l \in Listeners, AddListener(l)
    PROVE  IInv' /\ TellsInv'
<1>1. Types /\ ConnsInv /\ StopsInv /\ ListInv /\ HeldInv /\ LiveIsListed
  BY DEF IInv
<1>2. /\ listeners' = listeners \cup {l}
      /\ up' = [up EXCEPT ![l] = {k \in Range(list) : IsConnected(k)}]
      /\ raced' = [raced EXCEPT ![l] = {k \in Conns : ~MayChange(k)}]
      /\ UNCHANGED << uids, list, stops, mutex, user, main, conn >>
  BY DEF AddListener, lists, threads, calls
<1>3. Range(list) \subseteq Nat
  BY <1>1 DEF Types, Range
<1>4. Types'
  BY <1>1, <1>2, <1>3, ConnectionsFacts DEF Types
<1>5. TellsInv'
  <2> SUFFICES ASSUME NEW m \in listeners', NEW k \in Conns \ raced'[m]
               PROVE  /\ k \in up'[m] => ToBeActive(conn[k])
                      /\ ToBeActive(conn[k]) /\ k \in Range(list) => k \in up'[m]
    BY <1>2 DEF TellsInv
  <2>1. CASE m = l
    <3>1. conn[k].changing = "no"
      BY <1>1, <1>2, <2>1 DEF Types, MayChange
    <3>2. k \in up'[m] <=> k \in Range(list) /\ conn[k].state = "active"
      BY <1>1, <1>2, <2>1 DEF Types, IsConnected
    <3>3. QED
      BY <3>1, <3>2 DEF ToBeActive
  <2>2. CASE m # l
    BY <1>1, <1>2, <2>2 DEF TellsInv, Types
  <2>3. QED
    BY <2>1, <2>2
<1>6. ConnsInv' /\ StopsInv' /\ ListInv' /\ HeldInv' /\ LiveIsListed'
  BY <1>1, <1>2 DEF ConnsInv, StopsInv, ListInv, HeldInv, LiveIsListed, BeingStopped,
                    Live, Created, Dead, Target
<1>7. QED
  BY <1>4, <1>5, <1>6 DEF IInv

-----------------------------------------------------------------------------
(* Every behaviour *)

LEMMA InitSafe == Init => IInv /\ TellsInv
<1> SUFFICES ASSUME Init PROVE IInv /\ TellsInv
  OBVIOUS
<1>1. Types
  BY DEF Init, Types, MainPC, NoConn, Connection, Changes, NotStopping, Stoppers
<1>2. ConnsInv /\ LiveIsListed
  BY DEF Init, ConnsInv, LiveIsListed, Created, Dead, NoConn, Orderly, Dying
<1>3. StopsInv /\ ListInv /\ HeldInv
  BY DEF Init, StopsInv, ListInv, HeldInv, NotStopping, Stoppers
<1>4. TellsInv
  BY DEF Init, TellsInv
<1>5. QED
  BY <1>1, <1>2, <1>3, <1>4 DEF IInv

LEMMA NextSafe == IInv /\ TellsInv /\ [Next]_vars => (IInv /\ TellsInv)'
<1> SUFFICES ASSUME IInv, TellsInv, [Next]_vars PROVE (IInv /\ TellsInv)'
  OBVIOUS
<1>1. CASE UNCHANGED vars
  <2>1. UNCHANGED << uids, list, stops, mutex, user, main, conn, notifier >>
    BY <1>1 DEF vars, lists, threads, calls
  <2>2. Types /\ MainStep
    BY <2>1 DEF IInv, MainStep, Types
  <2>3. QED
    BY <2>1, <2>2, NoConnChanges, ConnStepSafe
<1>2. ASSUME NEW k \in Conns,
             ReaderRuns(k) \/ ReaderHears(k) \/ WriterRuns(k) \/ WriterTries(k)
      PROVE  (IInv /\ TellsInv)'
  BY <1>2, ThreadsKeep
<1>3. ASSUME NEW t \in {Stopper} \cup Starts, StopsConnections(t)
      PROVE  (IInv /\ TellsInv)'
  BY <1>3, StopsConnectionsKeep DEF Stoppers
<1>4. ASSUME NEW s \in Starts, Client(s) \/ ServerRuns(s) \/ ServerHears(s) \/ Pump(s)
      PROVE  (IInv /\ TellsInv)'
  BY <1>4, ClientKeeps, ServerKeeps, PumpKeeps
<1>5. ASSUME NEW kind \in Kinds, Start(kind)
      PROVE  (IInv /\ TellsInv)'
  BY <1>5, StartKeeps
<1>6. CASE SetServer \/ CallStop \/ Stop
  BY <1>6, StopKeeps
<1>7. ASSUME NEW l \in Listeners, AddListener(l)
      PROVE  (IInv /\ TellsInv)'
  BY <1>7, AddListenerKeeps
<1>8. QED
  BY <1>1, <1>2, <1>3, <1>4, <1>5, <1>6, <1>7 DEF Next

\* A connection that lives is in m_connections or about to be stopped, whatever
\* the server puts into its slots, the client replaces and stop takes away.
THEOREM NoneIsForgotten == Spec => []LiveIsListed
<1>1. IInv => LiveIsListed
  BY DEF IInv
<1>2. QED
  BY <1>1, InitSafe, NextSafe, PTL DEF Spec

\* What the notifier has told a listener last is what the connection is, unless
\* the connection changes, or changed while the listener was added.
THEOREM ListenersAlwaysKnow == Spec => []ListenersKnow
<1>1. TellsInv => ListenersKnow
  BY DEF TellsInv, ListenersKnow, ToBeActive, MayChange
<1>2. QED
  BY <1>1, InitSafe, NextSafe, PTL DEF Spec

-----------------------------------------------------------------------------
(* Types, what is under way, and when everything is quiet *)

Flags ==
    /\ active \in BOOLEAN /\ connector \in BOOLEAN
    /\ mode \in {"none", "client", "server"}
    /\ acceptor \in {"none", "new", "listening", "shut"}
    /\ doReconnect \in BOOLEAN
    /\ starts \in {0} \cup Starts
    /\ role \in [Starts -> {"none"} \cup Kinds]

\* Threads wait once, replace connections under m_user_mutex, and exist only
\* after their start.
WaitsInv ==
    /\ waiters \in Seq(Starts) /\ IsInjective(waiters)
    /\ Range(waiters) = {s \in Starts : main[s] = "waiting"}
    /\ mutex \in {Free} \cup {s \in Starts : main[s] = "replacing"}
    /\ \A s \in Starts : main[s] # "none" => s <= starts

\* The threads that have left room for one more connection.
Underway == {s \in Starts : main[s] \in {"replacing", "add"}}

NumbersInv ==
    /\ list \in Seq(1 .. uids) /\ IsInjective(list)
    /\ uids + Cardinality(Underway) <= MaxConns

TargetsInv ==
    /\ stops \in [Stoppers -> [at : {"next", "close", "join"}, todo : Seq(Conns)]]
    /\ up \in [Listeners -> SUBSET Conns]

Quiet == list = << >> /\ \A k \in Conns : ~Live(k)

\* Unless a join timed out or the server thread broke, a start finds nothing of
\* the starts before it, and stop, once it has joined the thread of the start,
\* has only the connections of the list to end.
QuietInv ==
    /\ user # "idle" => ~active /\ starts # 0
    /\ starts = 0 => Quiet
    /\ ~gaveUp /\ ~broke /\ starts # 0 =>
        /\ \A s \in Starts : s < starts => main[s] = "done"
        /\ user \in {"take", "close"} => main[starts] = "done"
        /\ user = "close" => list = << >>
        /\ user = "idle" /\ ~active => main[starts] = "done" /\ Quiet
        /\ main[starts] = "start" => Quiet
        /\ user = "idle" /\ main[starts] \in {"accept", "add"} => acceptor # "shut"

TInv == Flags /\ WaitsInv /\ NumbersInv /\ TargetsInv /\ QuietInv

LEMMA UnderwayFinite ==
    ASSUME Flags, WaitsInv
    PROVE  IsFiniteSet(Underway) /\ Cardinality(Underway) \in Nat
<1>1. starts \in Nat
  BY ConnectionsFacts DEF Flags
<1>2. Underway \in SUBSET (1 .. starts)
  <2> SUFFICES ASSUME NEW s \in Starts, main[s] # "none"
               PROVE  s \in 1 .. starts
    BY DEF Underway
  <2>1. s <= starts
    BY DEF WaitsInv
  <2>2. s \in Nat \ {0}
    BY ConnectionsFacts
  <2>3. QED
    BY <1>1, <2>1, <2>2
<1>3. IsFiniteSet(1 .. starts)
  BY <1>1, FS_Interval
<1>4. QED
  BY <1>2, <1>3, FS_Subset, FS_CardinalityType

\* The invariant says more than the module's own.
LEMMA TInvImpliesTypeOK == IInv /\ TInv => TypeOK
<1> SUFFICES ASSUME IInv, TInv PROVE TypeOK
  OBVIOUS
<1>1. Types /\ Flags /\ WaitsInv /\ NumbersInv /\ TargetsInv
  BY DEF IInv, TInv
<1>2. uids \in 0 .. MaxConns
  BY <1>1, UnderwayFinite, ConnectionsAssumption DEF NumbersInv, Types
<1>3. QED
  BY <1>1, <1>2 DEF TypeOK, Types, Flags, WaitsInv, NumbersInv, TargetsInv, Stoppers

-----------------------------------------------------------------------------
(* Steps of the threads of starts *)

SameThreads == UNCHANGED << main, waiters >>

\* The thread of start s goes on, and queues itself if it begins to wait.
Moves(s, pc) ==
    /\ main' = [main EXCEPT ![s] = pc] /\ main[s] # "waiting"
    /\ waiters' = IF pc = "waiting" THEN Append(waiters, s) ELSE waiters

\* The thread that is woken is the first, and waits.
LEMMA NotifyWakes ==
    ASSUME Types, WaitsInv, Notify
    PROVE  /\ waiters' \in Seq(Starts) /\ IsInjective(waiters')
           /\ Range(waiters') = {s \in Starts : main'[s] = "waiting"}
           /\ \A s \in Starts : \/ main'[s] = main[s]
                                \/ main[s] = "waiting" /\ main'[s] = "woken"
<1>1. /\ waiters \in Seq(Starts) /\ main \in [Starts -> MainPC]
      /\ \A i, j \in 1 .. Len(waiters) : waiters[i] = waiters[j] => i = j
      /\ \A s \in Starts : main[s] = "waiting" <=> \E i \in 1 .. Len(waiters) : waiters[i] = s
  BY DEF Types, WaitsInv, IsInjective, Range
<1>2. CASE waiters = << >>
  BY <1>1, <1>2 DEF Notify, WaitsInv
<1>3. CASE waiters # << >>
  <2>1. /\ Len(waiters) \in Nat \ {0} /\ Tail(waiters) \in Seq(Starts)
        /\ Len(Tail(waiters)) = Len(waiters) - 1
        /\ \A i \in 1 .. Len(waiters) - 1 : Tail(waiters)[i] = waiters[i + 1]
    BY <1>1, <1>3
  <2>2. Head(waiters) = waiters[1] /\ waiters[1] \in Starts
    BY <1>1, <1>3
  <2>3. /\ waiters' = Tail(waiters)
        /\ main' = [main EXCEPT ![waiters[1]] = "woken"]
    BY <1>3, <2>2 DEF Notify
  <2>4. main[waiters[1]] = "waiting"
    BY <1>1, <2>1, <2>2
  <2>5. \A s \in Starts : main'[s] = IF s = waiters[1] THEN "woken" ELSE main[s]
    BY <1>1, <2>3
  <2>6. IsInjective(waiters')
    BY <1>1, <2>1, <2>3 DEF IsInjective
  <2>7. ASSUME NEW s \in Starts
        PROVE  main'[s] = "waiting" <=> \E i \in 1 .. Len(waiters) - 1 : waiters[i + 1] = s
    <3>1. CASE s = waiters[1]
      BY <1>1, <2>1, <2>5, <3>1
    <3>2. CASE s # waiters[1]
      <4>1. main'[s] = "waiting" <=> \E j \in 1 .. Len(waiters) : waiters[j] = s
        BY <1>1, <2>5, <3>2
      <4>2. ASSUME NEW j \in 1 .. Len(waiters), waiters[j] = s
            PROVE  j - 1 \in 1 .. Len(waiters) - 1 /\ waiters[(j - 1) + 1] = s
        BY <2>1, <3>2, <4>2
      <4>3. \A i \in 1 .. Len(waiters) - 1 : i + 1 \in 1 .. Len(waiters)
        BY <2>1
      <4>4. QED
        BY <4>1, <4>2, <4>3
    <3>3. QED
      BY <3>1, <3>2
  <2>8. Range(waiters') = {s \in Starts : main'[s] = "waiting"}
    <3>1. Range(waiters') = {waiters[i + 1] : i \in 1 .. Len(waiters) - 1}
      <4>1. DOMAIN Tail(waiters) = 1 .. Len(waiters) - 1
        BY <1>1, <1>3
      <4>2. QED
        BY <2>1, <2>3, <4>1 DEF Range
    <3>2. \A i \in 1 .. Len(waiters) - 1 : waiters[i + 1] \in Starts
      BY <1>1, <2>1
    <3>3. QED
      BY <2>7, <3>1, <3>2
  <2>9. QED
    BY <2>1, <2>3, <2>4, <2>5, <2>6, <2>8
<1>4. QED
  BY <1>2, <1>3

\* A thread that begins to wait is new in the queue.
LEMMA MovesQueue ==
    ASSUME Types, WaitsInv, NEW s \in Starts, NEW pc \in MainPC, Moves(s, pc)
    PROVE  /\ waiters' \in Seq(Starts) /\ IsInjective(waiters')
           /\ Range(waiters') = {r \in Starts : main'[r] = "waiting"}
           /\ main'[s] = pc /\ \A r \in Starts \ {s} : main'[r] = main[r]
<1>1. /\ waiters \in Seq(Starts) /\ main \in [Starts -> MainPC]
      /\ \A i, j \in 1 .. Len(waiters) : waiters[i] = waiters[j] => i = j
      /\ Range(waiters) = {r \in Starts : main[r] = "waiting"}
      /\ Range(waiters) = {waiters[i] : i \in 1 .. Len(waiters)}
      /\ Len(waiters) \in Nat
  BY DEF Types, WaitsInv, IsInjective, Range
<1>2. main'[s] = pc /\ \A r \in Starts \ {s} : main'[r] = main[r]
  BY <1>1 DEF Moves
<1>3. CASE pc = "waiting"
  <2>1. waiters' = Append(waiters, s)
    BY <1>3 DEF Moves
  <2>2. /\ waiters' \in Seq(Starts) /\ Len(waiters') = Len(waiters) + 1
        /\ \A i \in 1 .. Len(waiters) : waiters'[i] = waiters[i]
        /\ waiters'[Len(waiters) + 1] = s
    BY <1>1, <2>1
  <2>3. \A i \in 1 .. Len(waiters) : waiters[i] # s
    BY <1>1 DEF Moves
  <2>4. \A i, j \in 1 .. Len(waiters) + 1 : waiters'[i] = waiters'[j] => i = j
    <3> SUFFICES ASSUME NEW i \in 1 .. Len(waiters) + 1,
                        NEW j \in 1 .. Len(waiters) + 1, waiters'[i] = waiters'[j]
                 PROVE  i = j
      OBVIOUS
    <3>1. CASE i \in 1 .. Len(waiters) /\ j \in 1 .. Len(waiters)
      BY <1>1, <2>2, <3>1
    <3>2. CASE i = Len(waiters) + 1 /\ j \in 1 .. Len(waiters)
      BY <2>2, <2>3, <3>2
    <3>3. CASE j = Len(waiters) + 1 /\ i \in 1 .. Len(waiters)
      BY <2>2, <2>3, <3>3
    <3>4. CASE i = Len(waiters) + 1 /\ j = Len(waiters) + 1
      BY <3>4
    <3>5. QED
      BY <1>1, <3>1, <3>2, <3>3, <3>4
  <2>5. DOMAIN waiters' = 1 .. Len(waiters) + 1
    BY <2>2
  <2>6. IsInjective(waiters')
    BY <2>4, <2>5 DEF IsInjective
  <2>7. Range(waiters') = {waiters[i] : i \in 1 .. Len(waiters)} \cup {s}
    BY <1>1, <2>2, <2>5 DEF Range
  <2>8. QED
    BY <1>1, <1>2, <1>3, <2>2, <2>6, <2>7
<1>4. CASE pc # "waiting"
  BY <1>1, <1>2, <1>4 DEF Moves, WaitsInv
<1>5. QED
  BY <1>3, <1>4

\* A step of no thread, but perhaps one that wakes a thread.
LEMMA SameOrNotify ==
    ASSUME Types, WaitsInv, SameThreads \/ Notify,
           UNCHANGED << mutex, starts >>
    PROVE  /\ WaitsInv' /\ Underway' = Underway
           /\ \A s \in Starts : \/ main'[s] = main[s]
                                \/ main[s] = "waiting" /\ main'[s] = "woken"
<1>1. CASE SameThreads
  BY <1>1 DEF SameThreads, WaitsInv, Underway
<1>2. CASE Notify
  <2>1. /\ waiters' \in Seq(Starts) /\ IsInjective(waiters')
        /\ Range(waiters') = {s \in Starts : main'[s] = "waiting"}
        /\ \A s \in Starts : \/ main'[s] = main[s]
                             \/ main[s] = "waiting" /\ main'[s] = "woken"
    BY <1>2, NotifyWakes
  <2>2. \A s \in Starts : (main[s] = "replacing" <=> main'[s] = "replacing")
                          /\ (main[s] = "add" <=> main'[s] = "add")
                          /\ (main'[s] # "none" => main[s] # "none")
    BY <2>1
  <2>3. Underway' = Underway
    BY <2>2 DEF Underway
  <2>4. WaitsInv'
    BY <2>1, <2>2 DEF WaitsInv
  <2>5. QED
    BY <2>1, <2>3, <2>4
<1>3. QED
  BY <1>1, <1>2

\* A step of the thread of start s, or its start.
LEMMA MovesKeeps ==
    ASSUME Types, Flags, WaitsInv, NEW s \in Starts, NEW pc \in MainPC, Moves(s, pc),
           starts' \in Nat, starts' >= starts, s <= starts',
           \/ mutex' = mutex /\ (main[s] = "replacing" => mutex # s)
           \/ mutex' = Free
           \/ mutex' = s /\ pc = "replacing"
    PROVE  /\ WaitsInv'
           /\ main'[s] = pc /\ \A r \in Starts \ {s} : main'[r] = main[r]
           /\ Underway' = IF pc \in {"replacing", "add"} THEN Underway \cup {s}
                          ELSE Underway \ {s}
<1>1. /\ waiters' \in Seq(Starts) /\ IsInjective(waiters')
      /\ Range(waiters') = {r \in Starts : main'[r] = "waiting"}
      /\ main'[s] = pc /\ \A r \in Starts \ {s} : main'[r] = main[r]
  BY MovesQueue
<1>2. mutex' \in {Free} \cup {r \in Starts : main'[r] = "replacing"}
  BY <1>1 DEF WaitsInv
<1>3. ASSUME NEW r \in Starts, main'[r] # "none" PROVE r <= starts'
  <2>1. CASE r = s
    BY <2>1
  <2>2. CASE r # s
    <3>1. r <= starts
      BY <1>1, <1>3, <2>2 DEF WaitsInv
    <3>2. r \in Nat /\ starts \in Nat
      BY ConnectionsFacts DEF Flags
    <3>3. QED
      BY <3>1, <3>2
  <2>3. QED
    BY <2>1, <2>2
<1>4. Underway' = IF pc \in {"replacing", "add"} THEN Underway \cup {s}
                  ELSE Underway \ {s}
  BY <1>1 DEF Underway
<1>5. QED
  BY <1>1, <1>2, <1>3, <1>4 DEF WaitsInv

\* Room is taken when a connection comes under way, and kept until it is there.
LEMMA RoomKept ==
    ASSUME Types, Flags, WaitsInv, NumbersInv, NEW s \in Starts,
           \/ Underway' = Underway /\ uids' = uids
           \/ Underway' = Underway \ {s} /\ uids' = uids
           \/ Underway' = Underway \cup {s} /\ uids' = uids /\ RoomForOne
           \/ /\ Underway' = Underway \ {s} /\ s \in Underway
              /\ uids' = uids + 1
    PROVE  uids' + Cardinality(Underway') <= MaxConns
<1>1. IsFiniteSet(Underway) /\ Cardinality(Underway) \in Nat
  BY UnderwayFinite
<1>2. /\ Cardinality(Underway \ {s}) =
           IF s \in Underway THEN Cardinality(Underway) - 1 ELSE Cardinality(Underway)
      /\ Cardinality(Underway \cup {s}) =
           IF s \in Underway THEN Cardinality(Underway) ELSE Cardinality(Underway) + 1
  BY <1>1, FS_AddElement, FS_RemoveElement
<1>3. uids \in Nat /\ MaxConns \in Nat /\ uids + Cardinality(Underway) <= MaxConns
  BY ConnectionsAssumption DEF Types, NumbersInv
<1>4. RoomForOne => uids + Cardinality(Underway) < MaxConns
  BY DEF RoomForOne, Underway
<1>5. CASE Underway' = Underway /\ uids' = uids
  BY <1>3, <1>5
<1>6. CASE Underway' = Underway \ {s} /\ uids' = uids
  <2>1. Cardinality(Underway \ {s}) <= Cardinality(Underway)
    BY <1>1, <1>2
  <2>2. Cardinality(Underway \ {s}) \in Nat
    BY <1>1, FS_RemoveElement, FS_CardinalityType
  <2>3. QED
    BY <1>1, <1>3, <1>6, <2>1, <2>2
<1>7. CASE Underway' = Underway \cup {s} /\ uids' = uids /\ RoomForOne
  <2>1. \/ Cardinality(Underway \cup {s}) = Cardinality(Underway)
        \/ Cardinality(Underway \cup {s}) = Cardinality(Underway) + 1
    BY <1>2
  <2>2. QED
    BY <1>1, <1>3, <1>4, <1>7, <2>1
<1>8. CASE Underway' = Underway \ {s} /\ s \in Underway /\ uids' = uids + 1
  <2>1. Cardinality(Underway \ {s}) = Cardinality(Underway) - 1
    BY <1>2, <1>8
  <2>2. QED
    BY <1>1, <1>3, <1>8, <2>1
<1>9. QED
  BY <1>5, <1>6, <1>7, <1>8

\* Steps that start and end no thread and list no connection.
LEMMA FrameKeeps ==
    ASSUME IInv, TInv, SameThreads \/ Notify,
           connector' \in BOOLEAN, doReconnect' \in BOOLEAN, TargetsInv',
           UNCHANGED << active, mode, acceptor, mutex, list, uids, calls, history >>,
           \A k \in Conns : Live(k)' => Live(k)
    PROVE  TInv'
<1>1. /\ Types /\ Flags /\ WaitsInv /\ NumbersInv /\ TargetsInv /\ QuietInv
      /\ UNCHANGED << starts, role, user, gaveUp, broke >>
  BY DEF IInv, TInv, calls, history
<1>2. /\ WaitsInv' /\ Underway' = Underway
      /\ \A s \in Starts : \/ main'[s] = main[s]
                           \/ main[s] = "waiting" /\ main'[s] = "woken"
  BY <1>1, SameOrNotify
<1>3. Flags' /\ NumbersInv'
  BY <1>1, <1>2 DEF Flags, NumbersInv
<1>4. Quiet => Quiet'
  BY DEF Quiet
<1>5. QuietInv'
  BY <1>1, <1>2, <1>4 DEF QuietInv, Flags
<1>6. QED
  BY <1>2, <1>3, <1>5 DEF TInv

\* A thread that has not ended is that of the last start, and stop has not seen
\* it end -- unless a join timed out or a server thread broke.
LEMMA OnlyLastRuns ==
    ASSUME IInv, TInv, NEW s \in Starts, main[s] \notin {"none", "done"}
    PROVE  /\ s <= starts /\ starts # 0 /\ starts \in Starts /\ starts \in Nat
           /\ ~gaveUp /\ ~broke =>
                 /\ s = starts /\ user \notin {"take", "close"}
                 /\ user = "idle" => active
                 /\ main[s] = "start" => Quiet
                 /\ user = "idle" /\ main[s] \in {"accept", "add"}
                       => acceptor # "shut"
<1>1. /\ Flags /\ WaitsInv /\ QuietInv /\ s \in Nat \ {0} /\ starts \in Nat
  BY ConnectionsFacts DEF TInv, Flags
<1>2. s <= starts /\ starts # 0 /\ starts \in Starts
  BY <1>1 DEF WaitsInv, Flags
<1>3. ASSUME ~gaveUp, ~broke
      PROVE  s = starts
  BY <1>1, <1>2, <1>3 DEF QuietInv
<1>4. QED
  BY <1>1, <1>2, <1>3 DEF QuietInv

LEMMA QuietMoves ==
    ASSUME IInv, TInv, NEW s \in Starts, main[s] \notin {"none", "done"},
           NEW pc \in MainPC \ {"start"},
           main'[s] = pc, \A r \in Starts \ {s} : main'[r] = main[r],
           UNCHANGED << user, starts, gaveUp >>,
           broke => broke', active' => active,
           ~gaveUp /\ ~broke' /\ user = "idle" =>
              /\ active /\ ~active' => pc = "done" /\ Quiet'
              /\ pc \in {"accept", "add"} => acceptor' # "shut"
    PROVE  QuietInv'
<1>1. /\ s <= starts /\ starts # 0 /\ starts \in Starts /\ starts \in Nat
      /\ ~gaveUp /\ ~broke => /\ s = starts /\ user \notin {"take", "close"}
                              /\ user = "idle" => active
  BY OnlyLastRuns
<1>2. user # "idle" => ~active'
  BY DEF QuietInv, TInv
<1>3. ASSUME ~gaveUp', ~broke'
      PROVE  /\ \A r \in Starts : r < starts => main'[r] = "done"
             /\ user \notin {"take", "close"}
             /\ user = "idle" /\ ~active' => main'[starts] = "done" /\ Quiet'
             /\ main'[starts] # "start"
             /\ user = "idle" /\ main'[starts] \in {"accept", "add"}
                   => acceptor' # "shut"
  <2>1. s = starts /\ user \notin {"take", "close"} /\ (user = "idle" => active)
    BY <1>1, <1>3
  <2>2. \A r \in Starts : r < starts => main'[r] = "done"
    BY <1>1, <1>3, <2>1 DEF QuietInv, TInv
  <2>3. main'[starts] = pc
    BY <2>1
  <2>4. user = "idle" /\ ~active' => main'[starts] = "done" /\ Quiet'
    <3>1. SUFFICES ASSUME user = "idle", ~active' PROVE pc = "done" /\ Quiet'
      BY <2>3
    <3>2. active
      BY <2>1, <3>1
    <3>3. QED
      BY <1>3, <3>1, <3>2
  <2>5. user = "idle" /\ main'[starts] \in {"accept", "add"} => acceptor' # "shut"
    BY <1>3, <2>3
  <2>6. QED
    BY <2>1, <2>2, <2>3, <2>4, <2>5
<1>4. QED
  BY <1>1, <1>2, <1>3 DEF QuietInv

-----------------------------------------------------------------------------
(* Each thread *)

\* Listeners are told of connections only.
LEMMA BeginTargets ==
    ASSUME TargetsInv, NEW k \in Conns, NEW c, NEW to, BeginState(k, c, to)
    PROVE  up' \in [Listeners -> SUBSET Conns]
BY DEF TargetsInv, BeginState, Tells

LEMMA ConnectionThreadsKeep ==
    ASSUME IInv, TInv, NEW k \in Conns,
           ReaderRuns(k) \/ ReaderHears(k) \/ WriterRuns(k) \/ WriterTries(k)
    PROVE  TInv'
<1>1. Types /\ ConnsInv /\ Flags /\ TargetsInv
  BY DEF IInv, TInv
<1>2. UNCHANGED << active, network, mutex, lists, calls, stops, history >>
  BY DEF ReaderRuns, ReaderHears, WriterRuns, WriterTries
<1>3. up' \in [Listeners -> SUBSET Conns]
  <2>1. CASE UNCHANGED notifier
    BY <1>1, <2>1 DEF TargetsInv, notifier
  <2>2. CASE ReaderActivates(k)
    BY <1>1, <2>2, BeginTargets DEF ReaderActivates
  <2>3. CASE ReaderFallsBack(k)
    BY <1>1, <2>3, BeginTargets DEF ReaderFallsBack
  <2>4. CASE ReaderLeavesLoop(k)
    BY <1>1, <2>4, BeginTargets DEF ReaderLeavesLoop
  <2>5. CASE ReaderFails(k)
    BY <1>1, <2>5, BeginTargets DEF ReaderFails
  <2>6. CASE WriterWakes(k)
    BY <1>1, <2>6, BeginTargets DEF WriterWakes
  <2>7. CASE WriterFails(k)
    BY <1>1, <2>7, BeginTargets DEF WriterFails
  <2>8. CASE WriterSent(k)
    BY <1>1, <2>1, <2>8, BeginTargets DEF WriterSent
  <2>9. QED
    BY <2>1, <2>2, <2>3, <2>4, <2>5, <2>6, <2>7, <2>8
       DEF ReaderRuns, ReaderHears, WriterRuns, WriterTries, ReaderHello,
           ReaderActive, ReaderProcesses, ReaderDead, ReaderExits,
           ReaderHearsUnsupported, ReaderReads, WriterSends, WriterDead,
           WriterExits, EndState
<1>4. (SameThreads /\ UNCHANGED doReconnect) \/ Reconnect
  BY DEF ReaderRuns, ReaderHears, WriterRuns, WriterTries, ReaderHello,
         ReaderFallsBack, ReaderActive, ReaderLeavesLoop, ReaderProcesses, ReaderFails,
         ReaderDead, ReaderExits, ReaderActivates, ReaderHearsUnsupported, ReaderReads,
         threads, SameThreads
<1>5. doReconnect' \in BOOLEAN /\ (SameThreads \/ Notify)
  BY <1>1, <1>4 DEF Flags, Reconnect
<1>6. \A j \in Conns : Live(j)' => Live(j)
  <2>1. ConnStep
    BY <1>1, ReaderSteps, WriterSteps
  <2>2. QED
    BY <1>1, <1>2, <2>1, ConnStepKeeps DEF lists
<1>7. TargetsInv' /\ connector' \in BOOLEAN
  BY <1>1, <1>2, <1>3 DEF TargetsInv, Flags, network
<1>8. QED
  BY <1>2, <1>5, <1>6, <1>7, FrameKeeps DEF network, lists

LEMMA StoppingThreadsKeep ==
    ASSUME IInv, TInv, NEW t \in Stoppers, StopsConnections(t)
    PROVE  TInv'
<1>1. Types /\ ConnsInv /\ Flags /\ TargetsInv
  BY DEF IInv, TInv
<1>2. /\ UNCHANGED << active, network, mutex, lists, threads, calls, history >>
      /\ stops[t].todo # << >>
  BY DEF StopsConnections, StopSkips, StopKills, StopCloses, StopJoins, StopAt
<1>3. stops[t].todo \in Seq(Conns) /\ Target(t) \in Conns
  BY <1>1, <1>2 DEF TargetsInv, Target
<1> PICK T \in Conns : T = Target(t)
  BY <1>3
<1>4. conn[T] \in Connection /\ Orderly(conn[T])
  BY <1>1, <1>3 DEF Types, ConnsInv
<1>5. up' \in [Listeners -> SUBSET Conns]
  <2>1. CASE UNCHANGED notifier
    BY <1>1, <2>1 DEF TargetsInv, notifier
  <2>2. CASE StopKills(t)
    BY <1>1, <1>3, <2>2, BeginTargets DEF StopKills
  <2>3. QED
    BY <2>1, <2>2 DEF StopsConnections, StopSkips, StopCloses, StopJoins, EndState
<1>6. stops' \in [Stoppers -> [at : {"next", "close", "join"}, todo : Seq(Conns)]]
  <2>1. CASE NextTarget(t)
    <3>1. Tail(stops[t].todo) \in Seq(Conns)
      BY <1>2, <1>3
    <3>2. QED
      BY <1>1, <2>1, <3>1 DEF TargetsInv, NextTarget
  <2>2. CASE GoOn(t, "close") \/ GoOn(t, "join")
    BY <1>1, <2>2 DEF TargetsInv, GoOn
  <2>3. QED
    BY <2>1, <2>2 DEF StopsConnections, StopSkips, StopKills, StopCloses, StopJoins
<1>7. \A k \in Conns : Live(k)' => Live(k)
  <2>1. CASE UNCHANGED conn
    BY <2>1 DEF Live, Created, Dead
  <2>2. CASE StopKills(t)
    <3>1. \A k \in Conns : conn'[k].state = conn[k].state
      BY <1>1, <1>3, <1>4, <2>2 DEF StopKills, BeginState, Types, Connection
    <3>2. QED
      BY <3>1 DEF Live, Created, Dead
  <2>3. CASE StopCloses(t)
    <3>1. \A k \in Conns : k # T => conn'[k] = conn[k]
      BY <1>1, <2>3 DEF StopCloses, EndState, Types
    <3>2. conn'[T].state = IF MayChange(T) THEN conn[T].state ELSE conn[T].changing
      BY <1>1, <1>3, <1>4, <2>3 DEF StopCloses, EndState, Types, Connection
    <3>3. Live(T)' => Live(T)
      BY <1>4, <3>2 DEF Orderly, Live, Created, Dead, MayChange
    <3>4. QED
      BY <3>1, <3>3 DEF Live, Created, Dead
  <2>4. QED
    BY <2>1, <2>2, <2>3 DEF StopsConnections, StopSkips, StopJoins
<1>8. QED
  BY <1>1, <1>2, <1>5, <1>6, <1>7, FrameKeeps
     DEF network, lists, threads, SameThreads, TargetsInv, Flags

\* A new number, put in a free place or in the place of another.
LEMMA NewIsInjective ==
    ASSUME NEW q, NEW r, NEW n, NEW i, i \in DOMAIN r, r[i] = n,
           \A j \in DOMAIN r \ {i} : j \in DOMAIN q /\ r[j] = q[j] /\ q[j] # n,
           IsInjective(q)
    PROVE  IsInjective(r)
BY DEF IsInjective

LEMMA SeqWidens ==
    ASSUME NEW S, NEW T, S \subseteq T, NEW q \in Seq(S)
    PROVE  q \in Seq(T)
<1>1. Len(q) \in Nat /\ q \in [1 .. Len(q) -> S]
  OBVIOUS
<1>2. q \in [1 .. Len(q) -> T]
  BY <1>1
<1>3. QED
  BY <1>1, <1>2

LEMMA ClientThreadsKeep ==
    ASSUME IInv, TInv, NEW s \in Starts, Client(s)
    PROVE  TInv'
<1>1. /\ Types /\ Flags /\ WaitsInv /\ NumbersInv /\ TargetsInv
      /\ UNCHANGED << active, connector, acceptor, starts, role, user, up, gaveUp, broke >>
  BY DEF IInv, TInv, Client, ClientRuns, calls, notifier, history
<1>2. main[s] \notin {"none", "done", "waiting"}
  BY DEF Client, ClientRuns, ClientEnds, ClientPicks, ClientFailsToConnect,
         ClientConnects, ClientStartsConnection, ClientWakes, MainAt
<1>3. s <= starts /\ starts \in Nat
  BY <1>2, OnlyLastRuns
<1>4. Flags'
  BY <1>1 DEF Flags, Client, ClientRuns, ClientEnds, ClientPicks,
         ClientFailsToConnect, ClientConnects, ClientStartsConnection, ClientWakes
<1>5. ASSUME NEW pc \in MainPC \ {"start", "accept", "add"},
             main'[s] = pc, \A r \in Starts \ {s} : main'[r] = main[r]
      PROVE  QuietInv'
  BY <1>1, <1>2, <1>5, QuietMoves
<1>6. CASE ClientEnds(s) \/ ClientPicks(s) \/ ClientFailsToConnect(s) \/ ClientWakes(s)
  <2>1. UNCHANGED << mutex, list, uids, stops >>
    BY <1>6 DEF ClientEnds, ClientPicks, ClientFailsToConnect, ClientWakes, lists
  <2>2. main[s] \notin {"replacing", "add"}
    BY <1>6 DEF ClientEnds, ClientPicks, ClientFailsToConnect, ClientWakes, MainAt
  <2>3. PICK pc \in {"done", "connecting", "check", "waiting"} : Moves(s, pc)
    <3>1. CASE ClientEnds(s)
      BY <1>2, <3>1 DEF ClientEnds, Moves
    <3>2. CASE ClientPicks(s)
      BY <1>2, <3>2 DEF ClientPicks, Moves
    <3>3. CASE ClientFailsToConnect(s)
      BY <1>2, <3>3 DEF ClientFailsToConnect, Moves
    <3>4. CASE ClientWakes(s)
      <4>1. CASE ~active \/ doReconnect
        BY <1>2, <3>4, <4>1 DEF ClientWakes, Moves
      <4>2. CASE ~(~active \/ doReconnect)
        BY <1>2, <3>4, <4>2 DEF ClientWakes, Moves
      <4>3. QED
        BY <4>1, <4>2
    <3>5. QED
      BY <1>6, <3>1, <3>2, <3>3, <3>4
  <2>4. /\ WaitsInv' /\ main'[s] = pc /\ \A r \in Starts \ {s} : main'[r] = main[r]
        /\ Underway' = Underway \ {s}
    BY <1>1, <1>3, <2>1, <2>2, <2>3, MovesKeeps DEF MainPC
  <2>5. NumbersInv'
    BY <1>1, <2>1, <2>4, RoomKept DEF NumbersInv
  <2>6. QuietInv'
    BY <1>5, <2>4 DEF MainPC
  <2>7. TargetsInv'
    BY <1>1, <2>1 DEF TargetsInv
  <2>8. QED
    BY <1>4, <2>4, <2>5, <2>6, <2>7 DEF TInv
<1>7. CASE ClientConnects(s)
  <2>1. /\ UNCHANGED << list, uids >> /\ mutex' = s /\ RoomForOne
        /\ Moves(s, "replacing")
        /\ stops' = [stops EXCEPT ![s] = [at |-> "next", todo |-> list]]
    BY <1>2, <1>7 DEF ClientConnects, ToStop, lists, Moves
  <2>2. /\ WaitsInv' /\ main'[s] = "replacing"
        /\ \A r \in Starts \ {s} : main'[r] = main[r]
        /\ Underway' = Underway \cup {s}
    BY <1>1, <1>3, <2>1, MovesKeeps DEF MainPC
  <2>3. NumbersInv'
    BY <1>1, <2>1, <2>2, RoomKept DEF NumbersInv
  <2>4. QuietInv'
    BY <1>5, <2>2 DEF MainPC
  <2>5. list \in Seq(Conns)
    <3>1. uids \in Nat /\ uids <= MaxConns
      BY <1>1, UnderwayFinite, ConnectionsAssumption DEF Types, NumbersInv
    <3>2. 1 .. uids \subseteq Conns
      BY <3>1, ConnectionsAssumption DEF Conns
    <3>3. QED
      BY <1>1, <3>2, SeqWidens DEF NumbersInv
  <2>6. TargetsInv'
    BY <1>1, <2>1, <2>5 DEF TargetsInv
  <2>7. QED
    BY <1>4, <2>2, <2>3, <2>4, <2>6 DEF TInv
<1>8. CASE ClientStartsConnection(s)
  <2> DEFINE pc == IF active THEN "waiting" ELSE "check"
  <2>1. /\ uids' = uids + 1 /\ list' = << uids + 1 >> /\ mutex' = Free
        /\ Moves(s, pc) /\ main[s] = "replacing" /\ UNCHANGED stops
    BY <1>2, <1>8 DEF ClientStartsConnection, MainAt, Moves
  <2>2. pc \in {"waiting", "check"}
    OBVIOUS
  <2> HIDE DEF pc
  <2>3. /\ WaitsInv' /\ main'[s] = pc /\ \A r \in Starts \ {s} : main'[r] = main[r]
        /\ Underway' = Underway \ {s}
    BY <1>1, <1>3, <2>1, <2>2, MovesKeeps DEF MainPC
  <2>4. uids' + Cardinality(Underway') <= MaxConns
    BY <1>1, <2>1, <2>3, RoomKept DEF Underway
  <2>5. uids \in Nat /\ list' \in Seq(1 .. uids') /\ IsInjective(list')
    BY <1>1, <2>1 DEF Types, IsInjective
  <2>6. QuietInv'
    BY <1>5, <2>2, <2>3 DEF MainPC
  <2>7. TargetsInv'
    BY <1>1, <2>1 DEF TargetsInv
  <2>8. QED
    BY <1>4, <2>3, <2>4, <2>5, <2>6, <2>7 DEF TInv, NumbersInv
<1>9. QED
  BY <1>6, <1>7, <1>8 DEF Client, ClientRuns

LEMMA ServerThreadsKeep ==
    ASSUME IInv, TInv, NEW s \in Starts, ServerRuns(s) \/ ServerHears(s)
    PROVE  TInv'
<1>1. /\ Types /\ Flags /\ WaitsInv /\ NumbersInv /\ TargetsInv
      /\ UNCHANGED << connector, starts, role, user, up, gaveUp, mutex, stops, waiters,
                      doReconnect >>
  BY DEF IInv, TInv, ServerRuns, ServerHears, calls, notifier
<1>2. main[s] \in {"start", "accept", "add"}
  BY DEF ServerRuns, ServerHears, ServerListens, ServerCannotListen,
         ServerStopsAccepting, AcceptFails, ServerAccepts, ServerAdds, MainAt
<1>3. /\ s <= starts /\ starts \in Nat
      /\ ~gaveUp /\ ~broke =>
            /\ user = "idle" => active
            /\ main[s] = "start" => Quiet
            /\ user = "idle" /\ main[s] \in {"accept", "add"} => acceptor # "shut"
  BY <1>2, OnlyLastRuns
<1>4. Flags' /\ (active' => active) /\ (broke => broke')
  <2>1. CASE ServerListens(s)
    BY <1>1, <2>1 DEF Flags, ServerListens, ServerEnds
  <2>2. CASE ServerCannotListen(s)
    BY <1>1, <2>2 DEF Flags, ServerCannotListen
  <2>3. CASE ServerStopsAccepting(s)
    BY <1>1, <2>3 DEF Flags, ServerStopsAccepting, ServerEnds
  <2>4. CASE AcceptFails(s)
    BY <1>1, <2>4 DEF Flags, AcceptFails, ServerEnds
  <2>5. CASE ServerAccepts(s)
    BY <1>1, <2>5 DEF Flags, ServerAccepts, ServerEnds
  <2>6. CASE ServerAdds(s)
    BY <1>1, <2>6 DEF Flags, ServerAdds, ServerEnds
  <2>7. QED
    BY <2>1, <2>2, <2>3, <2>4, <2>5, <2>6 DEF ServerRuns, ServerHears
<1>5. TargetsInv'
  BY <1>1 DEF TargetsInv
<1>6. CASE \/ ServerListens(s) \/ ServerCannotListen(s) \/ ServerStopsAccepting(s)
           \/ AcceptFails(s)
  <2>1. UNCHANGED << list, uids, conn >>
    BY <1>6 DEF ServerListens, ServerCannotListen, ServerStopsAccepting, AcceptFails,
       lists
  <2>2. PICK pc \in {"accept", "done"} :
           /\ main' = [main EXCEPT ![s] = pc]
           /\ ~gaveUp /\ ~broke' /\ user = "idle" =>
                 /\ active /\ ~active' => pc = "done" /\ Quiet
                 /\ pc = "accept" => acceptor' # "shut"
    <3>1. CASE ServerListens(s)
      BY <3>1 DEF ServerListens, ServerEnds
    <3>2. CASE ServerCannotListen(s)
      BY <1>3, <3>2 DEF ServerCannotListen, MainAt
    <3>3. CASE ServerStopsAccepting(s)
      BY <1>3, <3>3 DEF ServerStopsAccepting, ServerEnds, MainAt
    <3>4. CASE AcceptFails(s)
      BY <3>4 DEF AcceptFails, ServerEnds
    <3>5. QED
      BY <1>6, <3>1, <3>2, <3>3, <3>4
  <2>3. Moves(s, pc)
    BY <1>1, <1>2, <2>2 DEF Moves
  <2>4. /\ WaitsInv' /\ main'[s] = pc /\ \A r \in Starts \ {s} : main'[r] = main[r]
        /\ Underway' = Underway \ {s}
    BY <1>1, <1>2, <1>3, <2>3, MovesKeeps DEF MainPC
  <2>5. NumbersInv'
    BY <1>1, <2>1, <2>4, RoomKept DEF NumbersInv
  <2>6. Quiet' <=> Quiet
    BY <2>1 DEF Quiet, Live, Created, Dead
  <2>7. QuietInv'
    BY <1>1, <1>2, <1>4, <2>2, <2>4, <2>6, QuietMoves DEF MainPC
  <2>8. QED
    BY <1>4, <1>5, <2>4, <2>5, <2>7 DEF TInv
<1>7. CASE ServerAccepts(s)
  <2> DEFINE pc == IF active THEN "add" ELSE "done"
  <2>1. /\ UNCHANGED << list, uids, active, acceptor, broke >> /\ RoomForOne
        /\ main[s] = "accept" /\ Moves(s, pc)
    BY <1>1, <1>2, <1>7 DEF ServerAccepts, MainAt, lists, Moves, ServerEnds
  <2>2. pc \in {"add", "done"}
    OBVIOUS
  <2> HIDE DEF pc
  <2>3. /\ WaitsInv' /\ main'[s] = pc /\ \A r \in Starts \ {s} : main'[r] = main[r]
        /\ Underway' \in {Underway \cup {s}, Underway \ {s}}
    BY <1>1, <1>3, <2>1, <2>2, MovesKeeps DEF MainPC
  <2>4. NumbersInv'
    BY <1>1, <2>1, <2>3, RoomKept DEF NumbersInv
  <2>5. QuietInv'
    BY <1>1, <1>3, <2>1, <2>2, <2>3, QuietMoves DEF MainPC
  <2>6. QED
    BY <1>4, <1>5, <2>3, <2>4, <2>5 DEF TInv
<1>8. CASE ServerAdds(s)
  <2> DEFINE pc == IF active THEN "accept" ELSE "done"
             i == SelectInSeq(list, Reusable)
             reuse == \E j \in DOMAIN list : Reusable(list[j])
  <2>1. /\ UNCHANGED << active, acceptor, broke >>
        /\ main[s] = "add" /\ Moves(s, pc) /\ uids' = uids + 1
        /\ list' = IF reuse THEN [list EXCEPT ![i] = uids + 1]
                   ELSE Append(list, uids + 1)
    BY <1>1, <1>2, <1>8 DEF ServerAdds, MainAt, Moves, ServerEnds
  <2>2. pc \in {"accept", "done"}
    OBVIOUS
  <2>3. list \in Seq(Nat) /\ (reuse => i \in DOMAIN list)
    BY <1>1, SelectedIsReusable DEF Types
  <2> HIDE DEF pc, i, reuse
  <2>4. /\ WaitsInv' /\ main'[s] = pc /\ \A r \in Starts \ {s} : main'[r] = main[r]
        /\ Underway' = Underway \ {s}
    BY <1>1, <1>3, <2>1, <2>2, MovesKeeps DEF MainPC
  <2>5. uids' + Cardinality(Underway') <= MaxConns
    BY <1>1, <2>1, <2>4, RoomKept DEF Underway
  <2>6. list' \in Seq(1 .. uids') /\ IsInjective(list')
    <3>1. /\ uids \in Nat /\ list \in Seq(1 .. uids)
          /\ \A j \in 1 .. Len(list) : list[j] \in 1 .. uids
          /\ \A j, k \in 1 .. Len(list) : list[j] = list[k] => j = k
      BY <1>1 DEF Types, NumbersInv, IsInjective
    <3>2. CASE reuse
      <4>1. /\ DOMAIN list' = 1 .. Len(list) /\ i \in 1 .. Len(list)
            /\ list'[i] = uids + 1
            /\ \A j \in 1 .. Len(list) : j # i => list'[j] = list[j]
            /\ list' \in Seq(1 .. uids + 1)
        BY <2>1, <2>3, <3>1, <3>2
      <4>2. \A j \in 1 .. Len(list) : list[j] # uids + 1
        BY <3>1
      <4>3. DOMAIN list = 1 .. Len(list) /\ IsInjective(list)
        BY <1>1, <3>1 DEF NumbersInv
      <4>4. IsInjective(list')
        BY <4>1, <4>2, <4>3, NewIsInjective
      <4>5. QED
        BY <2>1, <4>1, <4>4
    <3>3. CASE ~reuse
      <4>1. /\ DOMAIN list' = 1 .. Len(list) + 1
            /\ list'[Len(list) + 1] = uids + 1
            /\ \A j \in 1 .. Len(list) : list'[j] = list[j]
            /\ list' \in Seq(1 .. uids + 1) /\ Len(list) \in Nat
        BY <2>1, <3>1, <3>3
      <4>2. \A j \in 1 .. Len(list) : list[j] # uids + 1
        BY <3>1
      <4>3. DOMAIN list = 1 .. Len(list) /\ IsInjective(list)
        BY <1>1, <3>1 DEF NumbersInv
      <4>4. /\ Len(list) + 1 \in DOMAIN list'
            /\ \A j \in DOMAIN list' \ {Len(list) + 1} : j \in 1 .. Len(list)
        BY <4>1
      <4>5. IsInjective(list')
        BY <4>1, <4>2, <4>3, <4>4, NewIsInjective
      <4>6. QED
        BY <2>1, <4>1, <4>5
    <3>4. QED
      BY <3>2, <3>3
  <2>7. QuietInv'
    BY <1>1, <1>3, <2>1, <2>2, <2>4, QuietMoves DEF MainPC
  <2>8. QED
    BY <1>4, <1>5, <2>4, <2>5, <2>6, <2>7 DEF TInv, NumbersInv
<1>9. QED
  BY <1>6, <1>7, <1>8 DEF ServerRuns, ServerHears

LEMMA PumpThreadsKeep ==
    ASSUME IInv, TInv, NEW s \in Starts, Pump(s)
    PROVE  TInv'
<1>1. Flags /\ TargetsInv
  BY DEF TInv
<1>2. UNCHANGED << active, network, mutex, lists, calls, stops, conn, notifier, history >>
  BY DEF Pump
<1>3. (SameThreads /\ UNCHANGED doReconnect) \/ Reconnect
  BY DEF Pump, PumpRound, PumpEnds, TellClient, SameThreads
<1>4. doReconnect' \in BOOLEAN /\ (SameThreads \/ Notify)
  BY <1>1, <1>3 DEF Flags, Reconnect
<1>5. TargetsInv' /\ connector' \in BOOLEAN
  BY <1>1, <1>2 DEF TargetsInv, Flags, network, notifier
<1>6. \A k \in Conns : Live(k)' => Live(k)
  BY <1>2 DEF Live, Created, Dead
<1>7. QED
  BY <1>2, <1>4, <1>5, <1>6, FrameKeeps DEF network, lists

-----------------------------------------------------------------------------
(* The user and the listeners *)

LEMMA StartingKeeps ==
    ASSUME IInv, TInv, NEW kind \in Kinds, Start(kind)
    PROVE  TInv'
<1>1. /\ Types /\ Flags /\ WaitsInv /\ NumbersInv /\ TargetsInv /\ QuietInv
      /\ user = "idle" /\ ~active /\ starts' = starts + 1 /\ starts' \in Starts
      /\ active' = TRUE /\ mode' = kind
      /\ role' = [role EXCEPT ![starts'] = kind]
      /\ acceptor' \in {"new", acceptor}
      /\ UNCHANGED << mutex, connector, list, uids, doReconnect, waiters, user, stops,
                      conn, up, gaveUp, broke >>
  BY DEF IInv, TInv, Start, lists, notifier, history
<1>2. starts \in Nat
  BY <1>1, ConnectionsFacts DEF Flags
<1> PICK s \in Starts : s = starts + 1
  BY <1>1
<1>3. main[s] = "none"
  BY <1>1, <1>2 DEF WaitsInv, Types
<1>4. PICK pc \in {"start", "check"} : main' = [main EXCEPT ![s] = pc]
  BY <1>1 DEF Start
<1>5. Moves(s, pc)
  BY <1>1, <1>3, <1>4 DEF Moves
<1>6. /\ WaitsInv' /\ main'[s] = pc /\ \A r \in Starts \ {s} : main'[r] = main[r]
      /\ Underway' = Underway \ {s}
  BY <1>1, <1>2, <1>3, <1>5, MovesKeeps DEF MainPC
<1>7. NumbersInv'
  BY <1>1, <1>6, RoomKept DEF NumbersInv
<1>8. Flags'
  BY <1>1 DEF Flags, Kinds
<1>9. Quiet' <=> Quiet
  BY <1>1 DEF Quiet, Live, Created, Dead
<1>10. ASSUME ~gaveUp, ~broke
       PROVE  Quiet' /\ \A r \in Starts : r < s => main'[r] = "done"
  <2>1. CASE starts = 0
    <3>1. \A r \in Starts : ~(r < s)
      BY <2>1, ConnectionsFacts
    <3>2. QED
      BY <1>1, <1>9, <2>1, <3>1 DEF QuietInv
  <2>2. CASE starts # 0
    <3>1. /\ main[starts] = "done" /\ Quiet
          /\ \A r \in Starts : r < starts => main[r] = "done"
      BY <1>1, <1>10, <2>2 DEF QuietInv
    <3>2. \A r \in Starts : r < s => r # s /\ (r < starts \/ r = starts)
      BY <1>2, ConnectionsFacts
    <3>3. QED
      BY <1>6, <1>9, <3>1, <3>2
  <2>3. QED
    BY <2>1, <2>2
<1>11. QuietInv'
  <2>1. user' = "idle" /\ active' /\ starts' = s /\ s # 0
    BY <1>1, <1>2
  <2>2. main'[s] \notin {"accept", "add"}
    BY <1>6
  <2>3. QED
    BY <1>1, <1>10, <2>1, <2>2 DEF QuietInv
<1>12. TargetsInv'
  BY <1>1 DEF TargetsInv
<1>13. QED
  BY <1>6, <1>7, <1>8, <1>11, <1>12 DEF TInv

LEMMA StoppingKeeps ==
    ASSUME IInv, TInv, SetServer \/ CallStop \/ Stop
    PROVE  TInv'
<1>1. /\ Types /\ Flags /\ WaitsInv /\ NumbersInv /\ TargetsInv /\ QuietInv
      /\ UNCHANGED << conn, notifier, uids, mutex, starts, role, broke >>
  BY DEF IInv, TInv, SetServer, CallStop, StopCalled, Stop, StopForgetsServers,
         StopShutsAcceptor, StopJoinsThreads, StopTakesConnections, StopReturns,
         SameStops, lists, calls, history
<1>2. \A k \in Conns : Live(k)' <=> Live(k)
  BY <1>1 DEF Live, Created, Dead
<1>3. CASE SetServer
  <2>1. /\ connector' = TRUE /\ TargetsInv'
        /\ UNCHANGED << active, mode, acceptor, list, calls, history >>
        /\ UNCHANGED << main, waiters, doReconnect >>
    BY <1>1, <1>3 DEF SetServer, TargetsInv, lists, threads, notifier
  <2>2. QED
    BY <1>1, <1>2, <2>1, FrameKeeps DEF SameThreads, Flags
<1>4. ASSUME CallStop \/ Stop
      PROVE  /\ WaitsInv' /\ Underway' = Underway
             /\ \A s \in Starts : \/ main'[s] = main[s]
                                  \/ main[s] = "waiting" /\ main'[s] = "woken"
  <2>1. SameThreads \/ Notify
    BY <1>4 DEF CallStop, StopCalled, Stop, StopForgetsServers, StopShutsAcceptor,
       StopJoinsThreads, StopTakesConnections, StopReturns, Reconnect, threads,
       SameThreads
  <2>2. QED
    BY <1>1, <2>1, SameOrNotify
<1>5. CASE /\ CallStop \/ Stop
           /\ \/ CallStop \/ StopForgetsServers \/ StopShutsAcceptor
              \/ StopJoinsThreads \/ StopReturns
  <2>1. UNCHANGED << list, stops >>
    BY <1>5 DEF CallStop, StopCalled, StopForgetsServers, StopShutsAcceptor,
       StopJoinsThreads, StopReturns, SameStops, lists
  <2>2. NumbersInv' /\ TargetsInv' /\ (Quiet' <=> Quiet)
    BY <1>1, <1>2, <1>4, <1>5, <2>1 DEF NumbersInv, TargetsInv, Quiet, notifier
  <2>3. CASE CallStop
    <3>1. /\ starts > 0 /\ active' = FALSE /\ user' = "connector"
          /\ UNCHANGED << network, threads, gaveUp >>
      BY <2>3 DEF CallStop, StopCalled, Then
    <3>2. Flags'
      BY <1>1, <3>1 DEF Flags, network, threads
    <3>3. starts # 0
      BY <3>1
    <3>4. QuietInv'
      BY <1>1, <2>2, <3>1, <3>3 DEF QuietInv, threads
    <3>5. QED
      BY <1>4, <1>5, <2>2, <3>2, <3>4 DEF TInv
  <2>4. CASE StopForgetsServers
    <3>1. /\ user = "connector" /\ user' = "acceptor" /\ connector' = FALSE
          /\ UNCHANGED << active, mode, acceptor, gaveUp >>
          /\ doReconnect' \in {TRUE, doReconnect}
      BY <2>4 DEF StopForgetsServers, Then, Reconnect, threads
    <3>2. Flags'
      BY <1>1, <3>1 DEF Flags
    <3>3. QuietInv'
      BY <1>1, <1>4, <1>5, <2>2, <3>1 DEF QuietInv, Flags
    <3>4. QED
      BY <1>4, <1>5, <2>2, <3>2, <3>3 DEF TInv
  <2>5. CASE StopShutsAcceptor
    <3>1. /\ user = "acceptor" /\ user' = "join" /\ acceptor' \in {"shut", acceptor}
          /\ UNCHANGED << active, mode, connector, threads, gaveUp >>
      BY <2>5 DEF StopShutsAcceptor, Then
    <3>2. Flags'
      BY <1>1, <3>1 DEF Flags, threads
    <3>3. QuietInv'
      BY <1>1, <2>2, <3>1 DEF QuietInv, threads
    <3>4. QED
      BY <1>4, <1>5, <2>2, <3>2, <3>3 DEF TInv
  <2>6. CASE StopJoinsThreads
    <3>1. /\ user = "join" /\ user' = "take" /\ gaveUp' = (gaveUp \/ ~Joined(starts))
          /\ UNCHANGED << active, network, threads >>
      BY <2>6 DEF StopJoinsThreads, Then
    <3>2. Flags'
      BY <1>1, <3>1 DEF Flags, network, threads
    <3>3. ~gaveUp' => ~gaveUp /\ main[starts] = "done"
      BY <3>1 DEF Joined
    <3>4. QuietInv'
      BY <1>1, <2>2, <3>1, <3>3 DEF QuietInv, threads
    <3>5. QED
      BY <1>4, <1>5, <2>2, <3>2, <3>4 DEF TInv
  <2>7. CASE StopReturns
    <3>1. /\ user = "close" /\ user' = "idle" /\ acceptor' \in {"shut", acceptor}
          /\ stops[Stopper].todo = << >>
          /\ UNCHANGED << active, mode, connector, threads, gaveUp >>
      BY <2>7 DEF StopReturns, Then
    <3>2. Flags'
      BY <1>1, <3>1 DEF Flags, threads
    <3>3. ~active /\ starts # 0
      BY <1>1, <3>1 DEF QuietInv
    <3>4. ASSUME ~gaveUp, ~broke
          PROVE  /\ main[starts] = "done" /\ Quiet
                 /\ \A s \in Starts : s < starts => main[s] = "done"
      <4>1. /\ main[starts] = "done" /\ list = << >>
            /\ \A s \in Starts : s < starts => main[s] = "done"
        BY <1>1, <3>1, <3>3, <3>4 DEF QuietInv
      <4>2. \A s \in Starts : main[s] # "replacing"
        <5> SUFFICES ASSUME NEW s \in Starts, main[s] = "replacing" PROVE FALSE
          OBVIOUS
        <5>1. s <= starts /\ s \in Nat /\ starts \in Nat
          BY <1>1, ConnectionsFacts DEF WaitsInv, Flags
        <5>2. QED
          BY <4>1, <5>1
      <4>3. \A t \in Stoppers : stops[t].todo = << >>
        <5> SUFFICES ASSUME NEW t \in Starts, stops[t].todo # << >> PROVE FALSE
          BY <3>1 DEF Stoppers
        <5>1. mutex = t
          BY ConnectionsFacts DEF IInv, StopsInv, Stoppers
        <5>2. QED
          BY <1>1, <4>2, <5>1, ConnectionsFacts DEF WaitsInv
      <4>4. \A k \in Conns : ~BeingStopped(k) /\ k \notin Range(list)
        BY <4>1, <4>3 DEF BeingStopped, Stoppers, Range
      <4>5. \A k \in Conns : ~Live(k)
        BY <4>4 DEF IInv, LiveIsListed, Live
      <4>6. QED
        BY <4>1, <4>5 DEF Quiet
    <3>5. QuietInv'
      BY <1>1, <2>2, <3>1, <3>3, <3>4 DEF QuietInv, threads
    <3>6. QED
      BY <1>4, <1>5, <2>2, <3>2, <3>5 DEF TInv
  <2>8. QED
    BY <1>5, <2>3, <2>4, <2>5, <2>6, <2>7
<1>6. CASE Stop /\ StopTakesConnections
  <2>1. /\ user = "take" /\ user' = "close" /\ list' = << >>
        /\ stops' = [stops EXCEPT ![Stopper] = [at |-> "next", todo |-> list]]
        /\ UNCHANGED << active, network, threads, gaveUp >>
    BY <1>6 DEF StopTakesConnections, Then
  <2>2. Flags'
    BY <1>1, <2>1 DEF Flags, network, threads
  <2>3. list \in Seq(Conns)
    <3>1. uids \in Nat /\ uids <= MaxConns
      BY <1>1, UnderwayFinite, ConnectionsAssumption DEF Types, NumbersInv
    <3>2. 1 .. uids \subseteq Conns
      BY <3>1, ConnectionsAssumption DEF Conns
    <3>3. QED
      BY <1>1, <3>2, SeqWidens DEF NumbersInv
  <2>4. TargetsInv'
    BY <1>1, <2>1, <2>3 DEF TargetsInv, notifier
  <2>5. NumbersInv'
    BY <1>1, <1>4, <1>6, <2>1 DEF NumbersInv, IsInjective
  <2>6. Quiet => Quiet'
    BY <1>2, <2>1 DEF Quiet
  <2>7. QuietInv'
    BY <1>1, <2>1, <2>6 DEF QuietInv, threads
  <2>8. QED
    BY <1>4, <1>6, <2>2, <2>4, <2>5, <2>7 DEF TInv
<1>7. QED
  BY <1>3, <1>5, <1>6 DEF Stop

LEMMA AddingListenersKeeps ==
    ASSUME IInv, TInv, NEW l \in Listeners, AddListener(l)
    PROVE  TInv'
<1>1. /\ Types /\ Flags /\ NumbersInv /\ TargetsInv
      /\ UNCHANGED << active, network, mutex, lists, threads, calls, stops, conn, history >>
      /\ up' = [up EXCEPT ![l] = {k \in Range(list) : IsConnected(k)}]
  BY DEF IInv, TInv, AddListener
<1>2. uids \in Nat /\ uids <= MaxConns
  BY <1>1, UnderwayFinite, ConnectionsAssumption DEF TInv, Types, NumbersInv
<1>3. Range(list) \subseteq Conns
  BY <1>1, <1>2, ConnectionsAssumption DEF NumbersInv, Range, Conns
<1>4. TargetsInv'
  BY <1>1, <1>3 DEF TargetsInv
<1>5. \A k \in Conns : Live(k)' => Live(k)
  BY <1>1 DEF Live, Created, Dead
<1>6. QED
  BY <1>1, <1>4, <1>5, FrameKeeps DEF network, lists, threads, SameThreads, Flags

-----------------------------------------------------------------------------
(* Every behaviour, again *)

LEMMA InitTyped == Init => TInv
<1> SUFFICES ASSUME Init PROVE TInv
  OBVIOUS
<1>1. Flags
  BY DEF Init, Flags
<1>2. TargetsInv
  <2>1. NotStopping \in [at : {"next", "close", "join"}, todo : Seq(Conns)]
    BY DEF NotStopping
  <2>2. stops = [t \in Stoppers |-> NotStopping] /\ up = [l \in Listeners |-> {}]
    BY DEF Init, Stoppers
  <2>3. QED
    BY <2>1, <2>2 DEF TargetsInv
<1>3. WaitsInv
  BY DEF Init, WaitsInv, IsInjective, Range
<1>4. Underway = {}
  BY DEF Init, Underway
<1>5. NumbersInv
  BY <1>4, FS_EmptySet, ConnectionsAssumption DEF Init, NumbersInv, IsInjective
<1>6. QuietInv
  BY DEF Init, QuietInv, Quiet, Live, Created, NoConn
<1>7. QED
  BY <1>1, <1>2, <1>3, <1>5, <1>6 DEF TInv

LEMMA NextTyped == IInv /\ TInv /\ [Next]_vars => TInv'
<1> SUFFICES ASSUME IInv, TInv, [Next]_vars PROVE TInv'
  OBVIOUS
<1>1. CASE UNCHANGED vars
  <2>1. /\ UNCHANGED << active, connector, mode, acceptor, mutex, list, uids, calls,
                        history, main, waiters, doReconnect, conn, stops, up >>
    BY <1>1 DEF vars, network, lists, threads, notifier
  <2>2. TargetsInv' /\ connector' \in BOOLEAN /\ doReconnect' \in BOOLEAN
    BY <2>1 DEF TInv, TargetsInv, Flags
  <2>3. QED
    BY <2>1, <2>2, FrameKeeps DEF SameThreads, Live, Created, Dead
<1>2. ASSUME NEW k \in Conns,
             ReaderRuns(k) \/ ReaderHears(k) \/ WriterRuns(k) \/ WriterTries(k)
      PROVE  TInv'
  BY <1>2, ConnectionThreadsKeep
<1>3. ASSUME NEW t \in {Stopper} \cup Starts, StopsConnections(t)
      PROVE  TInv'
  BY <1>3, StoppingThreadsKeep DEF Stoppers
<1>4. ASSUME NEW s \in Starts, Client(s) \/ ServerRuns(s) \/ ServerHears(s) \/ Pump(s)
      PROVE  TInv'
  BY <1>4, ClientThreadsKeep, ServerThreadsKeep, PumpThreadsKeep
<1>5. ASSUME NEW kind \in Kinds, Start(kind)
      PROVE  TInv'
  BY <1>5, StartingKeeps
<1>6. CASE SetServer \/ CallStop \/ Stop
  BY <1>6, StoppingKeeps
<1>7. ASSUME NEW l \in Listeners, AddListener(l)
      PROVE  TInv'
  BY <1>7, AddingListenersKeeps
<1>8. QED
  BY <1>1, <1>2, <1>3, <1>4, <1>5, <1>6, <1>7 DEF Next

\* Every variable has its type: no more connections than there is room for are
\* ever made, none is listed twice, m_user_mutex is kept only by a thread that
\* replaces connections, and exactly the waiting threads are in the queue of
\* m_reconnect_cv.
THEOREM TypesAlwaysHold == Spec => []TypeOK
<1>1. IInv /\ TInv => TypeOK
  BY TInvImpliesTypeOK
<1>2. QED
  BY <1>1, InitSafe, NextSafe, InitTyped, NextTyped, PTL DEF Spec

\* When stop has returned, the thread of the start has ended, no connection is
\* listed and every connection is dead, unless the join of the client thread
\* timed out or the server thread had broken.
THEOREM StopAlwaysCleansUp == Spec => []StopLeavesNothing
<1>1. Init => IInv /\ TInv
  BY InitSafe, InitTyped
<1>2. IInv /\ TInv => StopLeavesNothing
  <2> SUFFICES ASSUME IInv, TInv, user = "idle", ~active, starts > 0, ~gaveUp, ~broke
               PROVE  /\ main[starts] = "done" /\ list = << >>
                      /\ \A k \in Conns : Created(k) => Dead(k)
    BY DEF StopLeavesNothing
  <2>1. starts # 0
    OBVIOUS
  <2>2. main[starts] = "done" /\ Quiet
    BY <2>1 DEF TInv, QuietInv
  <2>3. QED
    BY <2>2 DEF Quiet, Live
<1>3. QED
  BY <1>1, <1>2, InitSafe, NextSafe, NextTyped, PTL DEF Spec
=============================================================================
