------------------------- MODULE StorageLock_proofs -------------------------
(***************************************************************************)
(* What survives the race of __enter__ and __exit__, for any number of     *)
(* threads, calls and messages: a call that no other overlaps is queued    *)
(* exactly once, and the last call to take the mutex is never lost.        *)
(***************************************************************************)
EXTENDS StorageLock, FiniteSetTheorems, TLAPS

-----------------------------------------------------------------------------
(* The inductive invariant *)

Message == Calls \X Nat

TypeOK ==
    /\ mutex \in Threads \cup {NoThread}
    /\ pc \in [Threads -> {"idle", "locked", "released", "queueing"}]
    /\ call \in [Threads -> Nat]
    /\ enter_outgoing \in 0 .. MaxCalls
    /\ made = 1 .. enter_outgoing
    /\ overlapped \subseteq made
    /\ lists \in [Calls -> Seq(Message)]
    /\ iter \in [Threads -> [list: Nat, next: Nat \ {0}]]
    /\ queued \in Seq(Message)

Runs(t, k) == pc[t] # "idle" /\ call[t] = k

\* No two threads run the same call; a list holds the messages of its call in
\* order; the one that holds the mutex made the list in the attribute.
Shape ==
    /\ \A t \in Threads : pc[t] # "idle" => call[t] \in made
    /\ \A t, u \in Threads :
          pc[t] # "idle" /\ pc[u] # "idle" /\ call[t] = call[u] => t = u
    /\ \A t \in Threads :
          pc[t] = "locked" => mutex = t /\ call[t] = enter_outgoing
    /\ \A t \in Threads : pc[t] = "queueing" => iter[t].list \in made
    /\ \A k \in Calls : \A i \in DOMAIN lists[k] : lists[k][i] = << k, i >>
    /\ \A j \in DOMAIN queued : queued[j][1] \in made

\* A thread that runs a call that nothing overlapped runs alone.
Alone ==
    \A k \in made \ overlapped : \A t, u \in Threads :
        Runs(t, k) /\ pc[u] # "idle" => u = t

IsQueued(k, i) == \E j \in DOMAIN queued : queued[j] = << k, i >>

QueuedUpTo(k, n) == \A i \in Nat \ {0} : i < n => IsQueued(k, i)

AllQueued(k) == \A i \in DOMAIN lists[k] : IsQueued(k, i)

Unique(k) ==
    \A i, j \in DOMAIN queued :
        queued[i] = queued[j] /\ queued[i][1] = k => i = j

\* Before call k has read the attribute, the attribute still leads to its list
\* and nothing of it is queued.
Waiting(t, k) ==
    /\ enter_outgoing = k
    /\ \A j \in DOMAIN queued : queued[j][1] # k

\* While it queues, what it has passed is queued and nothing else of k.
Queueing(t, k) ==
    /\ iter[t].list = k
    /\ \A j \in DOMAIN queued : queued[j][1] = k => queued[j][2] < iter[t].next
    /\ QueuedUpTo(k, iter[t].next)

\* Afterwards all of it is queued, and no thread will look at its list again.
Over(k) ==
    /\ AllQueued(k)
    /\ \A u \in Threads : pc[u] # "idle" => enter_outgoing # k
    /\ \A u \in Threads : pc[u] = "queueing" => iter[u].list # k

NotRun(k) == \A t \in Threads : ~Runs(t, k)

OnceInv ==
    \A k \in made \ overlapped :
        /\ Unique(k)
        /\ \A t \in Threads : Runs(t, k) =>
              /\ pc[t] \in {"locked", "released"} => Waiting(t, k)
              /\ pc[t] = "queueing" => Queueing(t, k)
        /\ NotRun(k) => Over(k)

\* The list of the last call is found by its own thread, whoever else finds it.
LastInv ==
    LET k == enter_outgoing
    IN  k # NoCall =>
          /\ \A t \in Threads : pc[t] = "queueing" /\ call[t] = k =>
                iter[t].list = k /\ QueuedUpTo(k, iter[t].next)
          /\ NotRun(k) => AllQueued(k)

IInv == TypeOK /\ Shape /\ Alone /\ OnceInv /\ LastInv

-----------------------------------------------------------------------------
(* Lemmas *)

\* NoCall is no call.
LEMMA CallsFacts ==
    /\ NoCall = 0 /\ NoCall \notin Calls /\ Calls \subseteq Nat
    /\ MaxCalls \in Nat /\ NoThread \notin Threads
BY StorageLockAssumption DEF Calls, NoCall

LEMMA MadeAreCalls == TypeOK => made \subseteq Calls
BY CallsFacts DEF TypeOK, Calls

\* The next call to take the mutex.
LEMMA NextCallFacts ==
    ASSUME TypeOK, made # Calls
    PROVE  /\ NextCall = enter_outgoing + 1 /\ NextCall \in Calls
           /\ NextCall \notin made
           /\ made \cup {NextCall} = 1 .. NextCall
<1>1. enter_outgoing \in 0 .. MaxCalls /\ made = 1 .. enter_outgoing
  BY DEF TypeOK
<1>2. enter_outgoing # MaxCalls
  BY <1>1 DEF Calls
<1>3. Cardinality(made) = enter_outgoing
  BY <1>1, FS_Interval, StorageLockAssumption, Z3
<1>4. QED
  BY <1>1, <1>2, <1>3, StorageLockAssumption DEF NextCall, Calls

\* The initial state.
LEMMA InitIInv == Init => IInv
<1> SUFFICES ASSUME Init PROVE IInv
  OBVIOUS
<1> USE CallsFacts
<1>1. TypeOK
  BY DEF Init, TypeOK, Message
<1>2. made = {} /\ DOMAIN queued = {} /\ \A t \in Threads : pc[t] = "idle"
  BY DEF Init
<1>3. \A k \in Calls : DOMAIN lists[k] = {}
  BY DEF Init
<1>4. Shape
  BY <1>2, <1>3 DEF Shape
<1>5. Alone /\ OnceInv
  BY <1>2 DEF Alone, OnceInv
<1>6. LastInv
  BY DEF Init, LastInv
<1>7. QED
  BY <1>1, <1>4, <1>5, <1>6 DEF IInv

-----------------------------------------------------------------------------
(* The actions *)

\* __enter__: the new call has an empty list, and nothing of it is queued.
LEMMA EnterKeeps ==
    ASSUME IInv, NEW t \in Threads, Enter(t)
    PROVE  IInv'
<1> DEFINE n == NextCall
<1>1. TypeOK /\ Shape /\ Alone /\ OnceInv /\ LastInv
  BY DEF IInv
<1>2. /\ n = enter_outgoing + 1 /\ n \in Calls /\ n \notin made
      /\ made \cup {n} = 1 .. n
  BY <1>1, NextCallFacts DEF Enter
<1> HIDE DEF n
<1>3. /\ pc[t] = "idle" /\ mutex = NoThread /\ mutex' = t
      /\ pc' = [pc EXCEPT ![t] = "locked"] /\ call' = [call EXCEPT ![t] = n]
      /\ enter_outgoing' = n /\ made' = made \cup {n}
      /\ UNCHANGED << lists, iter, queued >>
  BY DEF Enter, Begin, n
<1>4. \A u \in Threads : pc[u] # "idle" =>
         call[u] \in overlapped' /\ n \in overlapped'
  BY DEF Enter, Begin, n
<1>5. overlapped \subseteq overlapped' /\ overlapped' \subseteq made'
  BY <1>1 DEF Enter, Begin, TypeOK, Shape
<1>6. \A k \in made' \ overlapped' : k \in made \ overlapped \/ k = n
  BY <1>3, <1>5
<1>7. TypeOK'
  BY <1>1, <1>2, <1>3, <1>5, CallsFacts DEF TypeOK, Calls
<1>8. Shape'
  <2>1. \A u \in Threads : pc[u] # "locked"
    BY <1>1, <1>3, CallsFacts DEF Shape
  <2>2. QED
    BY <1>1, <1>2, <1>3, <2>1 DEF Shape, TypeOK
<1>9. Alone'
  BY <1>1, <1>3, <1>4, <1>6 DEF Alone, Shape, Runs, TypeOK
<1>10. OnceInv'
  <2> SUFFICES ASSUME NEW k \in made' \ overlapped'
               PROVE  /\ Unique(k)'
                      /\ \A u \in Threads : Runs(u, k)' =>
                            /\ pc'[u] \in {"locked", "released"} => Waiting(u, k)'
                            /\ pc'[u] = "queueing" => Queueing(u, k)'
                      /\ NotRun(k)' => Over(k)'
    BY DEF OnceInv
  <2>1. CASE k = n
    <3>1. \A u \in Threads : pc[u] = "idle"
      BY <1>4, <2>1
    <3>2. \A j \in DOMAIN queued : queued[j][1] # k
      BY <1>1, <1>2, <2>1 DEF Shape
    <3>3. Runs(t, k)' /\ pc'[t] = "locked" /\ \A u \in Threads \ {t} : pc'[u] = "idle"
      BY <1>1, <1>3, <2>1, <3>1 DEF Runs, TypeOK
    <3>4. QED
      BY <1>3, <2>1, <3>2, <3>3 DEF Unique, Waiting, NotRun, Runs
  <2>2. CASE k # n
    <3>1. k \in made \ overlapped /\ NotRun(k)
      BY <1>4, <1>6, <2>2 DEF NotRun, Runs
    <3>2. NotRun(k)'
      BY <1>1, <1>3, <2>2, <3>1 DEF NotRun, Runs, TypeOK
    <3>3. Unique(k)' /\ Over(k)'
      BY <1>1, <1>3, <2>2, <3>1
         DEF OnceInv, Unique, Over, AllQueued, IsQueued, TypeOK
    <3>4. QED
      BY <3>2, <3>3 DEF NotRun
  <2>3. QED
    BY <2>1, <2>2
<1>11. LastInv'
  <2>1. \A u \in Threads : pc'[u] # "idle" /\ call'[u] = n <=> u = t
    BY <1>1, <1>2, <1>3 DEF Shape, TypeOK
  <2>2. pc'[t] = "locked"
    BY <1>1, <1>3 DEF TypeOK
  <2>3. QED
    BY <1>3, <2>1, <2>2 DEF LastInv, NotRun, Runs
<1>12. QED
  BY <1>7, <1>8, <1>9, <1>10, <1>11 DEF IInv

\* The body appends a message to its own list.
LEMMA AppendMessageKeeps ==
    ASSUME IInv, NEW t \in Threads, AppendMessage(t)
    PROVE  IInv'
<1> DEFINE c == call[t]
           m == << c, Len(lists[c]) + 1 >>
<1>1. TypeOK /\ Shape /\ Alone /\ OnceInv /\ LastInv
  BY DEF IInv
<1>2. /\ pc[t] = "locked" /\ lists' = [lists EXCEPT ![c] = Append(@, m)]
      /\ UNCHANGED << mutex, pc, call, made, enter_outgoing, iter, queued,
                      overlapped >>
  BY DEF AppendMessage
<1>3. c \in Calls /\ lists[c] \in Seq(Message) /\ m \in Message
  BY <1>1, <1>2 DEF TypeOK, Shape, Message, Calls
<1>4. TypeOK'
  <2>1. Append(lists[c], m) \in Seq(Message)
    BY <1>3
  <2> HIDE DEF m, c
  <2>2. QED
    BY <1>1, <1>2, <1>3, <2>1 DEF TypeOK
<1>5. \A k \in Calls : k # c => lists'[k] = lists[k]
  BY <1>1, <1>2 DEF TypeOK
<1>6. Shape'
  <2>1. lists'[c] = Append(lists[c], m)
    BY <1>1, <1>2, <1>3 DEF TypeOK
  <2>2. \A i \in DOMAIN lists'[c] : lists'[c][i] = << c, i >>
    BY <1>1, <1>3, <2>1 DEF Shape
  <2>3. QED
    BY <1>1, <1>2, <1>5, <2>2 DEF Shape
<1>7. Alone'
  BY <1>1, <1>2 DEF Alone, Runs
<1>8. Runs(t, c)
  BY <1>2 DEF Runs
<1>9. \A k \in Calls : NotRun(k) => k # c
  BY <1>8 DEF NotRun
<1> HIDE DEF c, m
<1>10. OnceInv'
  <2>1. \A k \in made : k \in Calls
    BY <1>1, MadeAreCalls
  <2>2. ASSUME NEW k \in made \ overlapped
        PROVE  /\ Unique(k)' <=> Unique(k)
               /\ \A u \in Threads : /\ Runs(u, k)' <=> Runs(u, k)
                                     /\ Waiting(u, k)' <=> Waiting(u, k)
                                     /\ Queueing(u, k)' <=> Queueing(u, k)
    BY <1>2 DEF Unique, Waiting, Queueing, QueuedUpTo, IsQueued, Runs
  <2>3. ASSUME NEW k \in made \ overlapped, NotRun(k)'
        PROVE  Over(k)'
    <3>1. NotRun(k) /\ k # c
      BY <1>2, <1>9, <2>1, <2>3 DEF NotRun, Runs
    <3>2. Over(k) /\ lists'[k] = lists[k]
      BY <1>1, <1>5, <2>1, <3>1 DEF OnceInv
    <3>3. QED
      BY <1>2, <3>2 DEF Over, AllQueued, IsQueued
  <2>4. QED
    BY <1>1, <1>2, <2>2, <2>3 DEF OnceInv
<1>11. LastInv'
  <2>1. enter_outgoing # NoCall => enter_outgoing \in Calls
    BY <1>1 DEF TypeOK, Calls, NoCall
  <2>2. QED
    BY <1>1, <1>2, <1>5, <1>9, <2>1
       DEF LastInv, QueuedUpTo, AllQueued, IsQueued, NotRun, Runs
<1>12. QED
  BY <1>4, <1>6, <1>7, <1>10, <1>11 DEF IInv

\* __exit__ releases the mutex.
LEMMA ReleaseKeeps ==
    ASSUME IInv, NEW t \in Threads, Release(t)
    PROVE  IInv'
<1>1. TypeOK /\ Shape /\ Alone /\ OnceInv /\ LastInv
  BY DEF IInv
<1>2. /\ pc[t] = "locked" /\ mutex = t /\ mutex' = NoThread
      /\ pc' = [pc EXCEPT ![t] = "released"]
      /\ UNCHANGED << call, made, lists, enter_outgoing, iter, queued, overlapped >>
  BY <1>1 DEF Release, Shape
<1>3. TypeOK'
  BY <1>1, <1>2 DEF TypeOK
<1>4. /\ pc'[t] = "released"
      /\ \A u \in Threads \ {t} : pc'[u] = pc[u] /\ pc[u] # "locked"
  BY <1>1, <1>2 DEF TypeOK, Shape
<1>5. \A u \in Threads : /\ pc'[u] # "idle" <=> pc[u] # "idle"
                         /\ pc'[u] = "queueing" <=> pc[u] = "queueing"
                         /\ pc'[u] = "locked" => FALSE
  BY <1>2, <1>4
<1>6. Shape'
  BY <1>1, <1>2, <1>5 DEF Shape
<1>7. Alone'
  BY <1>1, <1>2, <1>5 DEF Alone, Runs
<1>8. OnceInv'
  <2> SUFFICES ASSUME NEW k \in made \ overlapped
               PROVE  /\ Unique(k)'
                      /\ \A u \in Threads : Runs(u, k)' =>
                            /\ pc'[u] \in {"locked", "released"} => Waiting(u, k)'
                            /\ pc'[u] = "queueing" => Queueing(u, k)'
                      /\ NotRun(k)' => Over(k)'
    BY <1>2 DEF OnceInv
  <2>1. /\ Unique(k)' <=> Unique(k)
        /\ \A u \in Threads : /\ Runs(u, k)' <=> Runs(u, k)
                              /\ Waiting(u, k)' <=> Waiting(u, k)
                              /\ Queueing(u, k)' <=> Queueing(u, k)
    BY <1>2, <1>5 DEF Unique, Waiting, Queueing, QueuedUpTo, IsQueued, Runs
  <2>2. NotRun(k)' => NotRun(k)
    BY <2>1 DEF NotRun
  <2>3. Over(k) => Over(k)'
    BY <1>2, <1>5 DEF Over, AllQueued, IsQueued
  <2>4. \A u \in Threads : pc'[u] = "released" => pc[u] \in {"locked", "released"}
    BY <1>2, <1>4
  <2>5. QED
    BY <1>1, <1>5, <2>1, <2>2, <2>3, <2>4 DEF OnceInv
<1>9. LastInv'
  BY <1>1, <1>2, <1>5
     DEF LastInv, QueuedUpTo, AllQueued, IsQueued, NotRun, Runs
<1>10. QED
  BY <1>3, <1>6, <1>7, <1>8, <1>9 DEF IInv

\* A call other than the one that returns is not disturbed by its return.
LEMMA ReturnLeaves ==
    ASSUME IInv, NEW t \in Threads, pc' = [pc EXCEPT ![t] = "idle"],
           UNCHANGED << call, made, lists, enter_outgoing, iter, queued, overlapped >>
    PROVE  /\ Alone'
           /\ \A k \in made \ overlapped :
                 /\ Unique(k)'
                 /\ \A u \in Threads : Runs(u, k)' =>
                       /\ pc'[u] \in {"locked", "released"} => Waiting(u, k)'
                       /\ pc'[u] = "queueing" => Queueing(u, k)'
                 /\ k # call[t] /\ NotRun(k)' => Over(k)'
           /\ enter_outgoing # call[t] => LastInv'
<1>1. TypeOK /\ Alone /\ OnceInv /\ LastInv
  BY DEF IInv
<1>2. pc'[t] = "idle" /\ \A u \in Threads \ {t} : pc'[u] = pc[u]
  BY <1>1 DEF TypeOK
<1>3. \A u \in Threads : pc'[u] # "idle" => pc'[u] = pc[u]
  BY <1>2
<1>4. Alone'
  BY <1>1, <1>3 DEF Alone, Runs
<1>5. ASSUME NEW k \in made, k # call[t], NotRun(k)' PROVE NotRun(k)
  BY <1>2, <1>5 DEF NotRun, Runs
<1>6. ASSUME NEW k \in made \ overlapped
      PROVE  /\ Unique(k)'
             /\ \A u \in Threads : Runs(u, k)' =>
                   /\ pc'[u] \in {"locked", "released"} => Waiting(u, k)'
                   /\ pc'[u] = "queueing" => Queueing(u, k)'
             /\ k # call[t] /\ NotRun(k)' => Over(k)'
  <2>1. /\ Unique(k)' <=> Unique(k)
        /\ \A u \in Threads : /\ Runs(u, k)' => Runs(u, k)
                              /\ Waiting(u, k)' <=> Waiting(u, k)
                              /\ Queueing(u, k)' <=> Queueing(u, k)
    BY <1>3 DEF Unique, Waiting, Queueing, QueuedUpTo, IsQueued, Runs
  <2>2. Over(k) => Over(k)'
    BY <1>3 DEF Over, AllQueued, IsQueued
  <2>3. QED
    BY <1>1, <1>3, <1>5, <2>1, <2>2 DEF OnceInv
<1>7. ASSUME enter_outgoing # call[t] PROVE LastInv'
  <2>1. enter_outgoing # NoCall => enter_outgoing \in made
    BY <1>1, CallsFacts DEF TypeOK
  <2>2. ASSUME enter_outgoing # NoCall, NotRun(enter_outgoing)'
        PROVE  NotRun(enter_outgoing)
    BY <1>2, <1>7, <2>2 DEF NotRun, Runs
  <2>3. QED
    BY <1>1, <1>3, <2>2 DEF LastInv, QueuedUpTo, AllQueued, IsQueued
<1>8. QED
  BY <1>4, <1>6, <1>7

\* A call that returns with everything queued, or without messages.
LEMMA ReturnKeeps ==
    ASSUME IInv, NEW t \in Threads, pc[t] # "idle",
           pc' = [pc EXCEPT ![t] = "idle"],
           UNCHANGED << call, made, lists, enter_outgoing, iter, queued, overlapped >>,
           mutex' \in Threads \cup {NoThread},
           \A u \in Threads \ {t} : pc[u] = "locked" => mutex' = u,
           call[t] \in made \ overlapped \/ call[t] = enter_outgoing
                => AllQueued(call[t])
    PROVE  IInv'
<1>1. TypeOK /\ Shape /\ Alone /\ OnceInv /\ LastInv
  BY DEF IInv
<1>2. pc'[t] = "idle" /\ \A u \in Threads \ {t} : pc'[u] = pc[u]
  BY <1>1 DEF TypeOK
<1>3. TypeOK'
  BY <1>1 DEF TypeOK
<1>4. Shape'
  BY <1>1, <1>2 DEF Shape
<1>5. ASSUME call[t] \in made \ overlapped PROVE Over(call[t])'
  <2>1. \A u \in Threads : pc'[u] = "idle"
    BY <1>1, <1>2, <1>5 DEF Alone, Runs
  <2>2. AllQueued(call[t])'
    BY <1>5 DEF AllQueued, IsQueued
  <2>3. QED
    BY <2>1, <2>2 DEF Over
<1>6. OnceInv'
  BY <1>5, ReturnLeaves DEF OnceInv
<1>7. LastInv'
  <2>1. CASE enter_outgoing # call[t]
    BY <2>1, ReturnLeaves
  <2>2. CASE enter_outgoing = call[t]
    <3>1. AllQueued(call[t])'
      BY <2>2 DEF AllQueued, IsQueued
    <3>2. \A u \in Threads : pc'[u] # "idle" => call[u] # call[t]
      BY <1>1, <1>2 DEF Shape
    <3>3. QED
      BY <2>2, <3>1, <3>2 DEF LastInv
  <2>3. QED
    BY <2>1, <2>2
<1>8. QED
  BY <1>3, <1>4, <1>6, <1>7, ReturnLeaves DEF IInv

\* A body that raises has no messages.
LEMMA RaiseKeeps ==
    ASSUME IInv, NEW t \in Threads, Raise(t)
    PROVE  IInv'
<1>1. Shape
  BY DEF IInv
<1>2. /\ pc[t] = "locked" /\ lists[call[t]] = << >> /\ mutex' = NoThread
      /\ pc' = [pc EXCEPT ![t] = "idle"]
      /\ UNCHANGED << call, made, lists, enter_outgoing, iter, queued, overlapped >>
  BY DEF Raise
<1>3. \A u \in Threads \ {t} : pc[u] # "locked"
  BY <1>1, <1>2 DEF Shape
<1>4. AllQueued(call[t])
  BY <1>2 DEF AllQueued
<1>5. QED
  BY <1>2, <1>3, <1>4, ReturnKeeps

\* The iteration has come to the end of the list.
LEMMA ReturnsKeeps ==
    ASSUME IInv, NEW t \in Threads, Return(t)
    PROVE  IInv'
<1>1. TypeOK /\ Shape /\ OnceInv /\ LastInv
  BY DEF IInv
<1>2. /\ pc[t] = "queueing" /\ iter[t].next > Len(lists[iter[t].list])
      /\ pc' = [pc EXCEPT ![t] = "idle"]
      /\ UNCHANGED << mutex, call, made, lists, enter_outgoing, iter, queued,
                      overlapped >>
  BY DEF Return
<1>3. ASSUME iter[t].list = call[t], QueuedUpTo(call[t], iter[t].next)
      PROVE  AllQueued(call[t])
  <2>1. lists[call[t]] \in Seq(Message) /\ iter[t].next \in Nat
    BY <1>1, <1>2, MadeAreCalls DEF Shape, TypeOK
  <2>2. QED
    BY <1>2, <1>3, <2>1 DEF QueuedUpTo, AllQueued
<1>4. ASSUME call[t] \in made \ overlapped \/ call[t] = enter_outgoing
      PROVE  AllQueued(call[t])
  <2>1. call[t] # NoCall
    BY <1>1, <1>2, MadeAreCalls, CallsFacts DEF Shape
  <2>2. QED
    BY <1>1, <1>2, <1>3, <1>4, <2>1 DEF OnceInv, LastInv, Runs, Queueing
<1>5. /\ mutex' \in Threads \cup {NoThread}
      /\ \A u \in Threads \ {t} : pc[u] = "locked" => mutex' = u
  BY <1>1, <1>2 DEF TypeOK, Shape
<1>6. QED
  BY <1>2, <1>4, <1>5, ReturnKeeps

\* __exit__ reads the attribute: the last call finds its own list, and no call
\* finds that of one that is over.
LEMMA ReadAttributeKeeps ==
    ASSUME IInv, NEW t \in Threads, ReadAttribute(t)
    PROVE  IInv'
<1>1. TypeOK /\ Shape /\ Alone /\ OnceInv /\ LastInv
  BY DEF IInv
<1>2. /\ pc[t] = "released"
      /\ iter' = [iter EXCEPT ![t] = [list |-> enter_outgoing, next |-> 1]]
      /\ pc' = [pc EXCEPT ![t] = "queueing"]
      /\ UNCHANGED << mutex, call, made, lists, enter_outgoing, queued, overlapped >>
  BY DEF ReadAttribute
<1>3. /\ pc'[t] = "queueing" /\ iter'[t].list = enter_outgoing /\ iter'[t].next = 1
      /\ \A u \in Threads \ {t} : pc'[u] = pc[u] /\ iter'[u] = iter[u]
  BY <1>1, <1>2 DEF TypeOK
<1>4. \A u \in Threads : pc'[u] # "idle" <=> pc[u] # "idle"
  BY <1>2, <1>3
<1>5. enter_outgoing \in made
  <2>1. call[t] \in 1 .. enter_outgoing /\ enter_outgoing \in Nat
    BY <1>1, <1>2, CallsFacts DEF TypeOK, Shape
  <2>2. QED
    BY <1>1, <2>1 DEF TypeOK
<1>6. TypeOK'
  BY <1>1, <1>2, CallsFacts DEF TypeOK
<1>7. Shape'
  BY <1>1, <1>2, <1>3, <1>5 DEF Shape
<1>8. Alone'
  BY <1>1, <1>2, <1>4 DEF Alone, Runs
<1>9. OnceInv'
  <2> SUFFICES ASSUME NEW k \in made \ overlapped
               PROVE  /\ Unique(k)'
                      /\ \A u \in Threads : Runs(u, k)' =>
                            /\ pc'[u] \in {"locked", "released"} => Waiting(u, k)'
                            /\ pc'[u] = "queueing" => Queueing(u, k)'
                      /\ NotRun(k)' => Over(k)'
    BY <1>2 DEF OnceInv
  <2>1. Unique(k)'
    BY <1>1, <1>2 DEF OnceInv, Unique
  <2>2. \A u \in Threads : Runs(u, k)' <=> Runs(u, k)
    BY <1>2, <1>4 DEF Runs
  <2>3. CASE Runs(t, k)
    <3>1. Waiting(t, k)
      BY <1>1, <1>2, <2>3 DEF OnceInv
    <3>2. Queueing(t, k)'
      <4>1. k \in Nat /\ iter'[t].list = k
        BY <1>1, <1>3, <3>1 DEF TypeOK, Waiting
      <4>2. \A j \in DOMAIN queued' : queued'[j][1] # k
        BY <1>2, <3>1 DEF Waiting
      <4>3. \A i \in Nat \ {0} : ~(i < iter'[t].next)
        BY <1>3
      <4>4. QED
        BY <4>1, <4>2, <4>3 DEF Queueing, QueuedUpTo
    <3>3. \A u \in Threads : Runs(u, k) => u = t
      BY <1>1, <1>2, <2>3 DEF Alone, Runs
    <3>4. QED
      BY <1>3, <2>1, <2>2, <2>3, <3>2, <3>3 DEF NotRun
  <2>4. CASE ~Runs(t, k)
    <3>1. NotRun(k)
      BY <1>1, <1>2, <2>4 DEF Alone, NotRun, Runs
    <3>2. Over(k) /\ enter_outgoing # k
      BY <1>1, <1>2, <3>1 DEF OnceInv, Over
    <3>3. Over(k)'
      BY <1>2, <1>3, <1>4, <3>2 DEF Over, AllQueued, IsQueued
    <3>4. QED
      BY <2>1, <2>2, <3>1, <3>3 DEF NotRun
  <2>5. QED
    BY <2>3, <2>4
<1>10. LastInv'
  <2>1. NotRun(enter_outgoing)' => NotRun(enter_outgoing)
    BY <1>2, <1>4 DEF NotRun, Runs
  <2>2. \A u \in Threads \ {t} : pc'[u] = "queueing" => pc[u] = "queueing"
    BY <1>3
  <2>3. QED
    BY <1>1, <1>2, <1>3, <2>1, <2>2 DEF LastInv, QueuedUpTo, AllQueued, IsQueued
<1>11. QED
  BY <1>6, <1>7, <1>8, <1>9, <1>10 DEF IInv

\* What was queued stays queued.
LEMMA QueuedStays ==
    ASSUME queued \in Seq(Message), NEW m, queued' = Append(queued, m)
    PROVE  /\ \A k, i : IsQueued(k, i) => IsQueued(k, i)'
           /\ \A k, i : m = << k, i >> => IsQueued(k, i)'
           /\ DOMAIN queued' = DOMAIN queued \cup {Len(queued) + 1}
           /\ \A j \in DOMAIN queued : queued'[j] = queued[j]
           /\ Len(queued) + 1 \notin DOMAIN queued
           /\ queued'[Len(queued) + 1] = m
<1>1. /\ DOMAIN queued' = DOMAIN queued \cup {Len(queued) + 1}
      /\ \A j \in DOMAIN queued : queued'[j] = queued[j]
      /\ Len(queued) + 1 \notin DOMAIN queued
      /\ queued'[Len(queued) + 1] = m
  OBVIOUS
<1>2. QED
  BY <1>1 DEF IsQueued

\* One message of the list that was found is queued.
LEMMA QueueOneKeeps ==
    ASSUME IInv, NEW t \in Threads, QueueOne(t)
    PROVE  IInv'
<1> PICK l, x : l = iter[t].list /\ x = iter[t].next
  OBVIOUS
<1>1. TypeOK /\ Shape /\ Alone /\ OnceInv /\ LastInv
  BY DEF IInv
<1>2. /\ pc[t] = "queueing" /\ x <= Len(lists[l])
      /\ queued' = Append(queued, lists[l][x])
      /\ iter' = [iter EXCEPT ![t].next = x + 1]
      /\ UNCHANGED << mutex, pc, call, made, lists, enter_outgoing, overlapped >>
  BY <1>1 DEF QueueOne, TypeOK
<1>3. l \in made /\ l \in Calls /\ x \in Nat \ {0} /\ lists[l] \in Seq(Message)
  BY <1>1, <1>2, MadeAreCalls DEF Shape, TypeOK
<1>4. lists[l][x] \in Message /\ lists[l][x] = << l, x >>
  <2>1. x \in DOMAIN lists[l]
    BY <1>2, <1>3
  <2>2. QED
    BY <1>1, <1>3, <2>1 DEF Shape
<1>5. /\ iter'[t].list = l /\ iter'[t].next = x + 1
      /\ iter' \in [Threads -> [list : Nat, next : Nat \ {0}]]
      /\ \A u \in Threads \ {t} : iter'[u] = iter[u]
  BY <1>1, <1>2, <1>3 DEF TypeOK
<1>6. /\ \A k, i : IsQueued(k, i) => IsQueued(k, i)'
      /\ IsQueued(l, x)'
      /\ DOMAIN queued' = DOMAIN queued \cup {Len(queued) + 1}
      /\ \A j \in DOMAIN queued : queued'[j] = queued[j]
      /\ Len(queued) + 1 \notin DOMAIN queued
      /\ queued'[Len(queued) + 1] = << l, x >>
  BY <1>1, <1>2, <1>4, QueuedStays DEF TypeOK
<1>7. TypeOK'
  BY <1>1, <1>2, <1>4, <1>5 DEF TypeOK
<1>8. Shape'
  <2>1. \A u \in Threads : pc'[u] = "queueing" => iter'[u].list \in made'
    BY <1>1, <1>2, <1>3, <1>5 DEF Shape
  <2>2. \A j \in DOMAIN queued' : queued'[j][1] \in made'
    BY <1>1, <1>2, <1>3, <1>6 DEF Shape
  <2>3. QED
    BY <1>1, <1>2, <2>1, <2>2 DEF Shape
<1>9. Alone'
  BY <1>1, <1>2 DEF Alone, Runs
<1>10. QueuedUpTo(l, x) => \A i \in Nat \ {0} : i < x + 1 => IsQueued(l, i)'
  <2> SUFFICES ASSUME QueuedUpTo(l, x), NEW i \in Nat \ {0}, i < x + 1
               PROVE  IsQueued(l, i)'
    OBVIOUS
  <2>1. i < x \/ i = x
    BY <1>3
  <2>2. QED
    BY <1>6, <2>1 DEF QueuedUpTo
<1>11. OnceInv'
  <2> SUFFICES ASSUME NEW k \in made \ overlapped
               PROVE  /\ Unique(k)'
                      /\ \A u \in Threads : Runs(u, k)' =>
                            /\ pc'[u] \in {"locked", "released"} => Waiting(u, k)'
                            /\ pc'[u] = "queueing" => Queueing(u, k)'
                      /\ NotRun(k)' => Over(k)'
    BY <1>2 DEF OnceInv
  <2>1. \A u \in Threads : Runs(u, k)' <=> Runs(u, k)
    BY <1>2 DEF Runs
  <2>2. Unique(k)
    BY <1>1 DEF OnceInv
  <2>3. CASE Runs(t, k)
    <3>1. /\ l = k
          /\ \A j \in DOMAIN queued : queued[j][1] = k => queued[j][2] < x
          /\ QueuedUpTo(k, x)
      BY <1>1, <1>2, <2>3 DEF OnceInv, Queueing
    <3>2. \A j \in DOMAIN queued : queued[j] # << l, x >>
      BY <1>3, <3>1
    <3>3. Unique(k)'
      BY <1>6, <2>2, <3>2 DEF Unique
    <3>4. \A j \in DOMAIN queued' : queued'[j][1] = k => queued'[j][2] < x + 1
      <4>1. ASSUME NEW j \in DOMAIN queued, queued[j][1] = k
            PROVE  queued[j][2] < x + 1
        <5>1. queued[j][2] \in Nat /\ queued[j][2] < x
          BY <1>1, <3>1, <4>1 DEF TypeOK, Message
        <5>2. QED
          BY <1>3, <5>1
      <4>2. QED
        BY <1>3, <1>6, <4>1
    <3>5. Queueing(t, k)'
      BY <1>5, <1>10, <3>1, <3>4 DEF Queueing, QueuedUpTo
    <3>6. \A u \in Threads : Runs(u, k) => u = t
      BY <1>1, <1>2, <2>3 DEF Alone, Runs
    <3>7. QED
      BY <1>2, <2>1, <2>3, <3>3, <3>5, <3>6 DEF NotRun
  <2>4. CASE ~Runs(t, k)
    <3>1. NotRun(k)
      BY <1>1, <1>2, <2>4 DEF Alone, NotRun, Runs
    <3>2. Over(k) /\ l # k
      BY <1>1, <1>2, <3>1 DEF OnceInv, Over
    <3>3. Unique(k)'
      BY <1>6, <2>2, <3>2 DEF Unique
    <3>4. Over(k)'
      <4>1. AllQueued(k)'
        BY <1>2, <1>6, <3>2 DEF Over, AllQueued
      <4>2. \A u \in Threads : pc'[u] = "queueing" => iter'[u].list # k
        BY <1>2, <1>5, <3>2 DEF Over
      <4>3. QED
        BY <1>2, <3>2, <4>1, <4>2 DEF Over
    <3>5. QED
      BY <2>1, <3>1, <3>3, <3>4 DEF NotRun
  <2>5. QED
    BY <2>3, <2>4
<1>12. LastInv'
  <2>1. ASSUME NEW u \in Threads, enter_outgoing # NoCall,
               pc[u] = "queueing", call[u] = enter_outgoing
        PROVE  /\ iter'[u].list = enter_outgoing
               /\ \A i \in Nat \ {0} :
                     i < iter'[u].next => IsQueued(enter_outgoing, i)'
    <3>1. iter[u].list = enter_outgoing /\ QueuedUpTo(enter_outgoing, iter[u].next)
      BY <1>1, <2>1 DEF LastInv
    <3>2. CASE u = t
      BY <1>2, <1>5, <1>10, <3>1, <3>2
    <3>3. CASE u # t
      <4>1. \A i \in Nat \ {0} : i < iter'[u].next => IsQueued(enter_outgoing, i)
        BY <1>5, <3>1, <3>3 DEF QueuedUpTo
      <4>2. \A i : IsQueued(enter_outgoing, i) => IsQueued(enter_outgoing, i)'
        BY <1>2, <1>6 DEF IsQueued
      <4>3. iter'[u].list = enter_outgoing
        BY <1>5, <3>1, <3>3
      <4>4. QED
        BY <4>1, <4>2, <4>3
    <3>4. QED
      BY <3>2, <3>3
  <2>2. NotRun(enter_outgoing)' => NotRun(enter_outgoing)
    BY <1>2 DEF NotRun, Runs
  <2>3. AllQueued(enter_outgoing) => AllQueued(enter_outgoing)'
    BY <1>2, <1>6 DEF AllQueued, IsQueued
  <2>4. QED
    BY <1>1, <1>2, <2>1, <2>2, <2>3 DEF LastInv, QueuedUpTo
<1>13. QED
  BY <1>7, <1>8, <1>9, <1>11, <1>12 DEF IInv

-----------------------------------------------------------------------------
(* The theorems *)

LEMMA NextKeeps ==
    ASSUME IInv, [Next]_vars
    PROVE  IInv'
<1>1. ASSUME NEW t \in Threads,
             \/ Enter(t) \/ AppendMessage(t) \/ Release(t) \/ Raise(t)
             \/ ReadAttribute(t) \/ QueueOne(t) \/ Return(t)
      PROVE  IInv'
  BY <1>1, EnterKeeps, AppendMessageKeeps, ReleaseKeeps, RaiseKeeps,
     ReadAttributeKeeps, QueueOneKeeps, ReturnsKeeps
<1>2. CASE UNCHANGED vars
  <2>1. UNCHANGED << mutex, pc, call, made, lists, enter_outgoing, iter, queued,
                     overlapped >>
    BY <1>2 DEF vars
  <2>2. TypeOK' /\ Shape' /\ Alone'
    BY <2>1 DEF IInv, TypeOK, Shape, Alone, Runs
  <2>3. OnceInv'
    BY <2>1 DEF IInv, OnceInv, Unique, Waiting, Queueing, QueuedUpTo, Over,
                AllQueued, IsQueued, NotRun, Runs
  <2>4. LastInv'
    BY <2>1 DEF IInv, LastInv, QueuedUpTo, AllQueued, IsQueued, NotRun, Runs
  <2>5. QED
    BY <2>2, <2>3, <2>4 DEF IInv
<1>3. QED
  BY <1>1, <1>2 DEF Next

\* The invariant is inductive.
THEOREM LockInvariance == Spec => []IInv
<1>1. Init => IInv
  BY InitIInv
<1>2. IInv /\ [Next]_vars => IInv'
  BY NextKeeps
<1>3. QED
  BY <1>1, <1>2, PTL DEF Spec

\* Of a message that is queued at all, there is a number of times.
LEMMA TimesQueuedFacts ==
    ASSUME TypeOK, NEW m
    PROVE  /\ (\E j \in DOMAIN queued : queued[j] = m) => TimesQueued(m) >= 1
           /\ \A j \in DOMAIN queued :
                 queued[j] = m /\ (\A i \in DOMAIN queued : queued[i] = m => i = j)
                    => TimesQueued(m) = 1
<1> DEFINE S == {j \in DOMAIN queued : queued[j] = m}
<1>1. IsFiniteSet(S)
  <2>1. DOMAIN queued = 1 .. Len(queued) /\ Len(queued) \in Nat
    BY DEF TypeOK
  <2>2. IsFiniteSet(1 .. Len(queued))
    BY <2>1, FS_Interval
  <2>3. QED
    BY <2>1, <2>2, FS_Subset, Zenon
<1>2. Cardinality(S) \in Nat /\ (Cardinality(S) = 0 <=> S = {})
  BY <1>1, FS_CardinalityType, FS_EmptySet
<1>3. ASSUME NEW j \in DOMAIN queued, queued[j] = m,
             \A i \in DOMAIN queued : queued[i] = m => i = j
      PROVE  Cardinality(S) = 1
  <2>1. S = {j}
    BY <1>3
  <2>2. QED
    BY <2>1, FS_Singleton
<1>4. QED
  BY <1>2, <1>3 DEF TimesQueued

\* A call that no other call overlapped has each of its messages queued exactly
\* once, whatever races came before and after it.
THEOREM OnceUnlessOverlapped == Spec => []QueuedOnceUnlessOverlapped
<1>1. IInv => QueuedOnceUnlessOverlapped
  <2> SUFFICES ASSUME IInv, AllReturned, NEW k \in made \ overlapped,
                      NEW i \in DOMAIN lists[k]
               PROVE  TimesQueued(lists[k][i]) = 1
    BY DEF QueuedOnceUnlessOverlapped
  <2>1. NotRun(k)
    BY DEF AllReturned, NotRun, Runs
  <2>2. Unique(k) /\ IsQueued(k, i)
    BY <2>1 DEF IInv, OnceInv, Over, AllQueued
  <2>3. lists[k][i] = << k, i >>
    BY MadeAreCalls DEF IInv, Shape
  <2>4. PICK j \in DOMAIN queued : queued[j] = << k, i >>
    BY <2>2 DEF IsQueued
  <2>5. \A x \in DOMAIN queued : queued[x] = << k, i >> => x = j
    BY <2>2, <2>4 DEF Unique
  <2>6. QED
    BY <2>3, <2>4, <2>5, TimesQueuedFacts DEF IInv
<1>2. QED
  BY <1>1, LockInvariance, PTL

\* The last call to take the mutex has all of its messages queued.
THEOREM LastIsQueued == Spec => []LastCallIsQueued
<1>1. IInv => LastCallIsQueued
  <2> SUFFICES ASSUME IInv, AllReturned, NEW k \in made, \A j \in made : j <= k,
                      NEW i \in DOMAIN lists[k]
               PROVE  TimesQueued(lists[k][i]) >= 1
    BY DEF LastCallIsQueued
  <2>1. k = enter_outgoing /\ k # NoCall
    <3>1. made = 1 .. enter_outgoing /\ enter_outgoing \in Nat
      BY CallsFacts DEF IInv, TypeOK
    <3>2. k \in Nat /\ 1 <= k /\ k <= enter_outgoing /\ enter_outgoing \in made
      BY <3>1
    <3>3. enter_outgoing <= k
      BY <3>2
    <3>4. QED
      BY <3>1, <3>2, <3>3, CallsFacts
  <2>2. NotRun(enter_outgoing)
    BY DEF AllReturned, NotRun, Runs
  <2>3. IsQueued(k, i)
    BY <2>1, <2>2 DEF IInv, LastInv, AllQueued
  <2>4. lists[k][i] = << k, i >>
    BY MadeAreCalls DEF IInv, Shape
  <2>5. QED
    BY <2>3, <2>4, TimesQueuedFacts DEF IInv, IsQueued
<1>2. QED
  BY <1>1, LockInvariance, PTL
=============================================================================
