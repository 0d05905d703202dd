--------------------------- MODULE Notifier_proofs ---------------------------
(***************************************************************************)
(* For any entries, listeners and pollers: what listeners that ask for     *)
(* every value know in the end, what they know when the notifier has been  *)
(* stopped, and that no poll sleeps over notifications.                    *)
(***************************************************************************)
EXTENDS Notifier, FiniteSetTheorems, WellFoundedInduction, TLAPS

-----------------------------------------------------------------------------
(* Types *)

\* What a notification is about.
Kinds == {{"new"}, {"update"}, {"update", "flags"}, {"flags"}, {"delete"}}

NoteType ==
    {note \in [name : Names, value : Values, flags : SUBSET NotifyFlags] :
        note.flags \ {"immediate", "local"} \in Kinds}

Item == [only : Uids \cup {Everybody}, note : NoteType]
Due == [uid : Uids, poller : Pollers \cup {NoPoller}, note : NoteType]

Types ==
    /\ value \in [Names -> Values \cup {NoValue}]
    /\ persistent \in [Names -> BOOLEAN]
    /\ IsFiniteSet({n \in Names : value[n] # NoValue})
    /\ nextUid \in 0 .. MaxListeners
    /\ DOMAIN listeners \subseteq 0 .. (nextUid - 1)
    /\ \A u \in DOMAIN listeners : listeners[u] \in Specs
    /\ localNotifiers \in BOOLEAN
    /\ poller \in [Pollers -> {"new", "open", "removed"}]
    /\ queue \in Seq(Item \cup {StopItem})
    /\ todo \subseteq Due
    /\ thread \in {"running", "ended"}
    /\ pollQueue \in [Pollers -> Seq(Due)]
    /\ sleeper \in [Pollers -> {"none", "asleep", "woken"}]
    /\ view \in [Uids -> [Names -> Values \cup {NoValue}]]
    /\ hidden \subseteq Names

-----------------------------------------------------------------------------
(* The inductive invariant *)

\* A listener's poller is there, and so is what the listener needs to hear of
\* local changes.
ListenersInv ==
    \A u \in DOMAIN listeners :
        /\ listeners[u].poller \in Open \cup {NoPoller}
        /\ "local" \in listeners[u].flags => localNotifiers

\* Nothing is under way for a listener that is yet to come, and what is under
\* way for one that is there goes the way of this listener.
WaysInv ==
    /\ \A i \in DOMAIN queue :
          queue[i] # StopItem /\ queue[i].only # Everybody => queue[i].only < nextUid
    /\ \A d \in todo :
          /\ d.uid < nextUid
          /\ d.uid \in DOMAIN listeners => d.poller = listeners[d.uid].poller
          /\ \A e \in todo : e.uid = d.uid => e = d
    /\ \A p \in Pollers : \A i \in DOMAIN pollQueue[p] :
          /\ pollQueue[p][i].uid < nextUid
          /\ pollQueue[p][i].uid \in DOMAIN listeners
                => listeners[pollQueue[p][i].uid].poller = p
    /\ \A u \in Uids : u >= nextUid => \A n \in Names : view[u][n] = NoValue

\* Item x of the queue is for everybody, and about name n.
About(x, n) == x # StopItem /\ x.only = Everybody /\ x.note.name = n

\* If an entry is gone, the last notification for everybody says so, or the name
\* is hidden.
GoneInv ==
    \A n \in Names \ hidden : value[n] = NoValue =>
        \A i \in DOMAIN queue :
            /\ About(queue[i], n)
            /\ \A j \in DOMAIN queue : j > i => ~About(queue[j], n)
            => "delete" \in queue[i].note.flags

\* Item x of the queue will be told to listener u, which is l, and is about
\* name n.
For(x, l, u, n) ==
    /\ x # StopItem /\ x.only \in {Everybody, u} /\ x.note.name = n
    /\ Matches(l, x.note)

Has(d, u, n) == d.uid = u /\ d.note.name = n

\* What listener u has heard of name n last, when it has heard what is to be done
\* (due) and what is to be polled (polls), is v; seen is what it has heard yet.
Taken(due, polls, seen, u, n, v) ==
    \/ \E d \in due : Has(d, u, n) /\ Says(d.note) = v
    \/ /\ \A d \in due : ~Has(d, u, n)
       /\ \/ \E i \in DOMAIN polls :
                /\ Has(polls[i], u, n) /\ Says(polls[i].note) = v
                /\ \A j \in DOMAIN polls : j > i => ~Has(polls[j], u, n)
          \/ (\A i \in DOMAIN polls : ~Has(polls[i], u, n)) /\ seen = v

\* The last item for the listener, before place b of queue q, says v.
LastSays(q, l, u, n, b, v) ==
    \E i \in DOMAIN q :
        /\ i < b /\ For(q[i], l, u, n) /\ Says(q[i].note) = v
        /\ \A j \in DOMAIN q : i < j /\ j < b => ~For(q[j], l, u, n)

NoneSays(q, l, u, n, b) == \A j \in DOMAIN q : j < b => ~For(q[j], l, u, n)

Settled(q, due, polls, seen, l, u, n, b, v) ==
    \/ LastSays(q, l, u, n, b, v)
    \/ NoneSays(q, l, u, n, b) /\ Taken(due, polls, seen, u, n, v)

\* Where what has been taken from the queue for listener l waits to be polled.
Polls(l, pq) == IF l.poller \in Pollers THEN pq[l.poller] ELSE << >>

\* Listener u is going to hear that name n is v, when it hears all that is under
\* way and in the queue before place b.
WillHear(u, n, b, v) ==
    Settled(queue, todo, Polls(listeners[u], pollQueue), view[u][n], listeners[u],
            u, n, b, v)

\* In the end, a listener that asks for every value will know the values there are.
FollowInv ==
    \A u \in Followers : \A n \in listeners[u].names \ hidden :
        WillHear(u, n, Len(queue) + 1, value[n])

\* Where the queue ends for the thread.
EndsAt(b) ==
    IF thread = "running" THEN b \in DOMAIN queue /\ queue[b] = StopItem ELSE b = 1

\* One item ends the thread, and before it a listener hears of the values there
\* were when stop was called.
StopInv ==
    /\ thread = "ended" => atStop # << >> /\ todo = {}
    /\ atStop = << >> \/ thread = "ended" => \A i \in DOMAIN queue : queue[i] # StopItem
    /\ \A i, j \in DOMAIN queue : queue[i] = StopItem /\ queue[j] = StopItem => i = j
    /\ atStop # << >> =>
          /\ atStop.uids \subseteq 0 .. (nextUid - 1)
          /\ \E b \in Nat :
                /\ EndsAt(b)
                /\ \A u \in Followers \cap atStop.uids :
                      \A n \in listeners[u].names \ hidden :
                          WillHear(u, n, b, atStop.value[n])

IInv == Types /\ ListenersInv /\ WaysInv /\ GoneInv /\ FollowInv /\ StopInv

-----------------------------------------------------------------------------
(* Facts about the operators *)

LEMMA UidFacts ==
    /\ Uids \subseteq Nat /\ MaxListeners \in Nat /\ Everybody \notin Uids
    /\ NoValue \notin Values /\ NoPoller \notin Pollers
    /\ \A i \in Nat : i < MaxListeners => i \in Uids
BY NotifierAssumption DEF Uids

LEMMA SpecFacts ==
    ASSUME NEW l \in Specs
    PROVE  /\ l.names \subseteq Names /\ l.flags \subseteq NotifyFlags
           /\ l.poller \in Pollers \cup {NoPoller}
BY NotifierAssumption

\* The item that ends the thread is no notification.
LEMMA ItemsAreNotStop ==
    \A x \in Item : x # StopItem /\ x.note \in NoteType /\ x.only \in Uids \cup {Everybody}
<1> SUFFICES ASSUME NEW x \in Item PROVE x # StopItem
  BY DEF Item
<1>1. "note" \in DOMAIN x
  BY DEF Item
<1>2. "note" \notin DOMAIN StopItem
  BY DEF StopItem
<1>3. QED
  BY <1>1, <1>2

LEMMA NoteFacts ==
    ASSUME NEW note \in NoteType
    PROVE  /\ note.name \in Names /\ note.value \in Values
           /\ Says(note) = NoValue <=> "delete" \in note.flags
           /\ Says(note) \in Values \cup {NoValue}
BY NotifierAssumption DEF NoteType, Says

\* A listener that asks for every value is told of everything but of flags alone.
LEMMA FollowersMatch ==
    ASSUME NEW l \in Specs, Follows(l), NEW note \in NoteType, note.name \in l.names
    PROVE  Matches(l, note) \/ note.flags \ {"immediate", "local"} = {"flags"}
<1> DEFINE f == note.flags \ {"immediate", "local"}
<1>1. f \in Kinds
  BY DEF NoteType
<1>2. {"immediate", "local", "new", "delete", "update"} \subseteq l.flags
  BY DEF Follows
<1>3. CASE f = {"new"}
  BY <1>2, <1>3 DEF Matches
<1>4. CASE f = {"update"}
  BY <1>2, <1>4 DEF Matches
<1>5. CASE f = {"update", "flags"}
  BY <1>2, <1>5 DEF Matches
<1>6. CASE f = {"delete"}
  BY <1>2, <1>6 DEF Matches
<1>7. QED
  BY <1>1, <1>3, <1>4, <1>5, <1>6 DEF Kinds

\* Sets of natural numbers have a least element, and bounded ones a greatest.
LEMMA LeastOf ==
    ASSUME NEW S \in SUBSET Nat, S # {}
    PROVE  \E x \in S : \A y \in S : x <= y
<1> DEFINE R == {p \in Nat \X Nat : p[1] < p[2]}
<1>1. IsWellFoundedOn(R, Nat)
  BY NatLessThanWellFounded DEF OpToRel
<1>2. \E x \in S : \A y \in S : ~(<< y, x >> \in R)
  <2> HIDE DEF R
  <2>1. QED
    BY <1>1, WFMin
<1>3. \A x, y \in S : ~(<< y, x >> \in R) => x <= y
  OBVIOUS
<1> HIDE DEF R
<1>4. QED
  BY <1>2, <1>3

LEMMA GreatestOf ==
    ASSUME NEW k \in Nat, NEW S \in SUBSET (1 .. k), S # {}
    PROVE  /\ Max(S) \in S /\ \A x \in S : x <= Max(S)
<1> DEFINE T == {k - x : x \in S}
<1>1. T \in SUBSET Nat /\ T # {}
  <2>1. \A x \in S : k - x \in Nat
    OBVIOUS
  <2>2. QED
    BY <2>1
<1>2. PICK z \in T : \A y \in T : z <= y
  <2> HIDE DEF T
  <2>1. QED
    BY <1>1, LeastOf
<1>3. PICK x \in S : z = k - x
  BY <1>2
<1>4. ASSUME NEW y \in S PROVE y <= x
  <2>1. z <= k - y
    BY <1>2
  <2>2. x \in 1 .. k /\ y \in 1 .. k
    OBVIOUS
  <2>3. QED
    BY <1>3, <2>1, <2>2
<1>5. \E m \in S : \A y \in S : y <= m
  BY <1>3, <1>4
<1>6. \E m \in S : \A y \in S : m >= y
  BY <1>5
<1>7. /\ Max(S) \in S /\ \A y \in S : Max(S) >= y
  BY <1>6 DEF Max
<1>8. QED
  BY <1>7

\* SetToSeq lists the elements of a finite set, each once.
LEMMA SetToSeqLists ==
    ASSUME NEW S, IsFiniteSet(S)
    PROVE  /\ SetToSeq(S) \in Seq(S)
           /\ \A x \in S : \E i \in DOMAIN SetToSeq(S) : SetToSeq(S)[i] = x
           /\ \A i, j \in DOMAIN SetToSeq(S) :
                 SetToSeq(S)[i] = SetToSeq(S)[j] => i = j
<1> DEFINE k == Cardinality(S)
           f == SetToSeq(S)
<1>1. k \in Nat /\ ExistsBijection(1 .. k, S)
  BY FS_CardinalityType
<1>2. PICK g \in [1 .. k -> S] : IsInjective(g)
  <2>1. PICK g : g \in Bijection(1 .. k, S)
    BY <1>1 DEF ExistsBijection
  <2>2. g \in [1 .. k -> S] /\ IsInjective(g)
    BY <2>1 DEF Bijection, Injection
  <2>3. QED
    BY <2>2
<1>3. f \in [1 .. k -> S] /\ IsInjective(f)
  BY <1>2 DEF SetToSeq
<1> HIDE DEF f
<1>4. f \in Injection(1 .. k, S)
  BY <1>3 DEF Injection
<1>5. Cardinality(1 .. k) = k
  BY <1>1, FS_Interval
<1>6. f \in Surjection(1 .. k, S)
  BY <1>4, <1>5, FS_Injection
<1>7. \A x \in S : \E i \in 1 .. k : f[i] = x
  BY <1>6 DEF Surjection
<1>8. f \in Seq(S) /\ DOMAIN f = 1 .. k
  BY <1>1, <1>3
<1>9. QED
  BY <1>3, <1>7, <1>8 DEF f, IsInjective

\* The first of what is to be done is one of it.
LEMMA FirstTodoFacts ==
    ASSUME todo \subseteq Due, todo # {}
    PROVE  FirstTodo \in todo
<1> DEFINE S == {d.uid : d \in todo}
<1>1. S \in SUBSET Nat /\ S # {}
  BY UidFacts DEF Due
<1>2. PICK x \in S : \A y \in S : x <= y
  <2> HIDE DEF S
  <2>1. QED
    BY <1>1, LeastOf
<1>3. \E d \in todo : \A e \in todo : d.uid <= e.uid
  BY <1>2
<1>4. QED
  BY <1>3 DEF FirstTodo

-----------------------------------------------------------------------------
(* What a listener will hear *)

\* More at the end of the queue changes nothing of what is before.
LEMMA QueueGrows ==
    ASSUME NEW q \in Seq(Item \cup {StopItem}), NEW r \in Seq(Item \cup {StopItem}),
           NEW due, NEW polls, NEW seen, NEW l, NEW u, NEW n, NEW v,
           NEW b \in Nat, b <= Len(q) + 1,
           Settled(q, due, polls, seen, l, u, n, b, v)
    PROVE  Settled(q \o r, due, polls, seen, l, u, n, b, v)
<1>1. /\ DOMAIN q \subseteq DOMAIN (q \o r)
      /\ \A j \in DOMAIN (q \o r) : j < b => j \in DOMAIN q /\ (q \o r)[j] = q[j]
  OBVIOUS
<1>2. CASE LastSays(q, l, u, n, b, v)
  <2>1. LastSays(q \o r, l, u, n, b, v)
    BY <1>1, <1>2 DEF LastSays
  <2>2. QED
    BY <2>1 DEF Settled
<1>3. CASE NoneSays(q, l, u, n, b) /\ Taken(due, polls, seen, u, n, v)
  <2>1. NoneSays(q \o r, l, u, n, b)
    BY <1>1, <1>3 DEF NoneSays
  <2>2. QED
    BY <1>3, <2>1 DEF Settled
<1>4. QED
  BY <1>2, <1>3 DEF Settled

\* Nor do items that are not for the listener.
LEMMA SettledFurther ==
    ASSUME NEW q \in Seq(Item \cup {StopItem}),
           NEW due, NEW polls, NEW seen, NEW l, NEW u, NEW n, NEW v,
           NEW b \in Nat, NEW c \in Nat, b <= c,
           \A j \in DOMAIN q : b <= j /\ j < c => ~For(q[j], l, u, n),
           Settled(q, due, polls, seen, l, u, n, b, v)
    PROVE  Settled(q, due, polls, seen, l, u, n, c, v)
<1>1. \A j \in DOMAIN q : j \in Nat
  OBVIOUS
<1>2. CASE LastSays(q, l, u, n, b, v)
  <2>1. LastSays(q, l, u, n, c, v)
    <3>1. PICK i \in DOMAIN q :
             /\ i < b /\ For(q[i], l, u, n) /\ Says(q[i].note) = v
             /\ \A j \in DOMAIN q : i < j /\ j < b => ~For(q[j], l, u, n)
      BY <1>2 DEF LastSays
    <3>2. i < c
      BY <3>1, <1>1
    <3>3. ASSUME NEW j \in DOMAIN q, i < j, j < c PROVE ~For(q[j], l, u, n)
      <4>1. j < b \/ b <= j
        BY <1>1
      <4>2. QED
        BY <3>1, <3>3, <4>1
    <3>4. QED
      BY <3>1, <3>2, <3>3 DEF LastSays
  <2>2. QED
    BY <2>1 DEF Settled
<1>3. CASE NoneSays(q, l, u, n, b) /\ Taken(due, polls, seen, u, n, v)
  <2>1. ASSUME NEW j \in DOMAIN q, j < c PROVE ~For(q[j], l, u, n)
    <3>1. j < b \/ b <= j
      BY <1>1
    <3>2. QED
      BY <1>3, <2>1, <3>1 DEF NoneSays
  <2>2. NoneSays(q, l, u, n, c)
    BY <2>1 DEF NoneSays
  <2>3. QED
    BY <1>3, <2>2 DEF Settled
<1>4. QED
  BY <1>2, <1>3 DEF Settled

\* The head of the queue is taken by the listener it is for.
LEMMA HeadTaken ==
    ASSUME NEW q \in Seq(Item \cup {StopItem}), q # << >>,
           NEW due, NEW polls, NEW seen, NEW l, NEW u, NEW n, NEW v,
           NEW b \in Nat, b > 1,
           Settled(q, {}, polls, seen, l, u, n, b, v),
           For(q[1], l, u, n) =>
              \E d \in due : Has(d, u, n) /\ d.note = q[1].note,
           \A d \in due : Has(d, u, n) => For(q[1], l, u, n) /\ d.note = q[1].note
    PROVE  Settled(Tail(q), due, polls, seen, l, u, n, b - 1, v)
<1> DEFINE t == Tail(q)
<1>1. /\ \A j \in DOMAIN t : j \in Nat /\ j >= 1 /\ j + 1 \in DOMAIN q /\ t[j] = q[j + 1]
      /\ \A j \in DOMAIN q : j = 1 \/ (j - 1 \in DOMAIN t /\ t[j - 1] = q[j])
      /\ \A j \in DOMAIN q : j \in Nat /\ j >= 1
      /\ 1 \in DOMAIN q
  OBVIOUS
<1> HIDE DEF t
<1>2. CASE LastSays(q, l, u, n, b, v)
  <2>1. PICK i \in DOMAIN q :
           /\ i < b /\ For(q[i], l, u, n) /\ Says(q[i].note) = v
           /\ \A j \in DOMAIN q : i < j /\ j < b => ~For(q[j], l, u, n)
    BY <1>2 DEF LastSays
  <2>2. CASE i = 1
    <3>1. ASSUME NEW j \in DOMAIN t, j < b - 1 PROVE ~For(t[j], l, u, n)
      <4>0. j \in Nat /\ j + 1 \in DOMAIN q /\ t[j] = q[j + 1] /\ j >= 1
        BY <1>1
      <4>1. i < j + 1 /\ j + 1 < b
        BY <2>2, <3>1, <4>0
      <4>2. QED
        BY <2>1, <4>0, <4>1
    <3>2. NoneSays(t, l, u, n, b - 1)
      BY <3>1 DEF NoneSays
    <3>3. Taken(due, polls, seen, u, n, v)
      BY <2>1, <2>2 DEF Taken
    <3>4. QED
      BY <3>2, <3>3 DEF Settled, t
  <2>3. CASE i # 1
    <3>1. i - 1 \in DOMAIN t /\ t[i - 1] = q[i] /\ i - 1 < b - 1
      BY <1>1, <2>1, <2>3
    <3>2. ASSUME NEW j \in DOMAIN t, i - 1 < j, j < b - 1
          PROVE  ~For(t[j], l, u, n)
      <4>1. j + 1 \in DOMAIN q /\ i < j + 1 /\ j + 1 < b /\ t[j] = q[j + 1]
        BY <1>1, <3>2
      <4>2. QED
        BY <2>1, <4>1
    <3>3. LastSays(t, l, u, n, b - 1, v)
      BY <2>1, <3>1, <3>2 DEF LastSays
    <3>4. QED
      BY <3>3 DEF Settled, t
  <2>4. QED
    BY <2>2, <2>3
<1>3. CASE NoneSays(q, l, u, n, b) /\ Taken({}, polls, seen, u, n, v)
  <2>1. ~For(q[1], l, u, n)
    BY <1>1, <1>3 DEF NoneSays
  <2>2. Taken(due, polls, seen, u, n, v)
    BY <1>3, <2>1 DEF Taken
  <2>3. ASSUME NEW j \in DOMAIN t, j < b - 1 PROVE ~For(t[j], l, u, n)
    <3>1. j + 1 \in DOMAIN q /\ j + 1 < b /\ t[j] = q[j + 1]
      BY <1>1, <2>3
    <3>2. QED
      BY <1>3, <3>1 DEF NoneSays
  <2>4. NoneSays(t, l, u, n, b - 1)
    BY <2>3 DEF NoneSays
  <2>5. QED
    BY <2>2, <2>4 DEF Settled, t
<1>4. QED
  BY <1>2, <1>3 DEF Settled

\* What is heard of what has been taken decides.
LEMMA SettledAs ==
    ASSUME NEW q, NEW due, NEW polls, NEW seen, NEW due2, NEW polls2, NEW seen2,
           NEW l, NEW u, NEW n, NEW b, NEW v,
           Taken(due, polls, seen, u, n, v) => Taken(due2, polls2, seen2, u, n, v),
           Settled(q, due, polls, seen, l, u, n, b, v)
    PROVE  Settled(q, due2, polls2, seen2, l, u, n, b, v)
BY DEF Settled

\* One of what is to be done goes to the poller of the listener it is for...
LEMMA TakenToPoller ==
    ASSUME NEW due \in SUBSET Due, NEW d \in due, NEW polls \in Seq(Due),
           NEW seen, NEW u, NEW n, NEW v,
           \A e \in due : e.uid = d.uid => e = d,
           Taken(due, polls, seen, u, n, v)
    PROVE  Taken(due \ {d}, Append(polls, d), seen, u, n, v)
<1> DEFINE a == Append(polls, d)  k == Len(polls)
<1>1. /\ k \in Nat /\ k + 1 \in DOMAIN a /\ a[k + 1] = d
      /\ \A i \in DOMAIN a : i = k + 1 \/ (i \in DOMAIN polls /\ a[i] = polls[i])
      /\ \A i \in DOMAIN polls : i \in DOMAIN a /\ a[i] = polls[i] /\ i < k + 1
      /\ \A i \in DOMAIN a : i <= k + 1
  OBVIOUS
<1> HIDE DEF a, k
<1>2. CASE \E e \in due : Has(e, u, n) /\ Says(e.note) = v
  <2>1. PICK e \in due : Has(e, u, n) /\ Says(e.note) = v
    BY <1>2
  <2>2. CASE e = d
    <3>1. \A g \in due \ {d} : ~Has(g, u, n)
      BY <2>1, <2>2 DEF Has
    <3>2. \A j \in DOMAIN a : ~(j > k + 1)
      <4>1. \A j \in DOMAIN a : j \in Nat
        BY DEF a
      <4>2. QED
        BY <1>1, <4>1
    <3>3. QED
      BY <1>1, <2>1, <2>2, <3>1, <3>2 DEF Taken, a
  <2>3. CASE e # d
    BY <2>1, <2>3 DEF Taken
  <2>4. QED
    BY <2>2, <2>3
<1>3. CASE \A e \in due : ~Has(e, u, n)
  <2>1. ~Has(d, u, n)
    BY <1>3
  <2>2. CASE \E i \in DOMAIN polls :
                /\ Has(polls[i], u, n) /\ Says(polls[i].note) = v
                /\ \A j \in DOMAIN polls : j > i => ~Has(polls[j], u, n)
    <3>1. \E i \in DOMAIN a :
                /\ Has(a[i], u, n) /\ Says(a[i].note) = v
                /\ \A j \in DOMAIN a : j > i => ~Has(a[j], u, n)
      BY <1>1, <2>1, <2>2
    <3>2. QED
      BY <1>3, <3>1 DEF Taken, a
  <2>3. CASE (\A i \in DOMAIN polls : ~Has(polls[i], u, n)) /\ seen = v
    <3>1. \A i \in DOMAIN a : ~Has(a[i], u, n)
      BY <1>1, <2>1, <2>3
    <3>2. QED
      BY <1>3, <2>3, <3>1 DEF Taken, a
  <2>4. QED
    BY <1>3, <2>2, <2>3 DEF Taken
<1>4. QED
  BY <1>2, <1>3 DEF Taken

\* ... or the listener, which has no poller, is told.
LEMMA TakenByCallback ==
    ASSUME NEW due \in SUBSET Due, NEW d \in due, NEW seen, NEW seen2,
           NEW u, NEW n, NEW v,
           \A e \in due : e.uid = d.uid => e = d,
           seen2 = IF Has(d, u, n) THEN Says(d.note) ELSE seen,
           Taken(due, << >>, seen, u, n, v)
    PROVE  Taken(due \ {d}, << >>, seen2, u, n, v)
<1>1. CASE \E e \in due : Has(e, u, n) /\ Says(e.note) = v
  <2>1. PICK e \in due : Has(e, u, n) /\ Says(e.note) = v
    BY <1>1
  <2>2. CASE e = d
    <3>1. \A g \in due \ {d} : ~Has(g, u, n)
      BY <2>1, <2>2 DEF Has
    <3>2. QED
      BY <2>1, <2>2, <3>1 DEF Taken
  <2>3. CASE e # d
    BY <2>1, <2>3 DEF Taken
  <2>4. QED
    BY <2>2, <2>3
<1>2. CASE \A e \in due : ~Has(e, u, n)
  BY <1>2 DEF Taken
<1>3. QED
  BY <1>1, <1>2 DEF Taken

\* What is delivered elsewhere is not for the listener.
LEMMA TakenElsewhere ==
    ASSUME NEW due \in SUBSET Due, NEW d \in due, NEW polls, NEW seen,
           NEW u, NEW n, NEW v, ~Has(d, u, n),
           Taken(due, polls, seen, u, n, v)
    PROVE  Taken(due \ {d}, polls, seen, u, n, v)
BY DEF Taken

\* What is polled is heard.
LEMMA TakenByPoll ==
    ASSUME NEW due, NEW polls \in Seq(Due), NEW seen, NEW u, NEW n, NEW v,
           NEW told \in SUBSET DOMAIN polls,
           \A i \in DOMAIN polls : i \in told <=> Has(polls[i], u, n),
           NEW seen2,
           seen2 = IF told = {} THEN seen ELSE Says(polls[Max(told)].note),
           Taken(due, polls, seen, u, n, v)
    PROVE  Taken(due, << >>, seen2, u, n, v)
<1>1. CASE \E d \in due : Has(d, u, n) /\ Says(d.note) = v
  BY <1>1 DEF Taken
<1>2. CASE \A d \in due : ~Has(d, u, n)
  <2>1. CASE \E i \in DOMAIN polls :
                /\ Has(polls[i], u, n) /\ Says(polls[i].note) = v
                /\ \A j \in DOMAIN polls : j > i => ~Has(polls[j], u, n)
    <3>1. PICK i \in DOMAIN polls :
                /\ Has(polls[i], u, n) /\ Says(polls[i].note) = v
                /\ \A j \in DOMAIN polls : j > i => ~Has(polls[j], u, n)
      BY <2>1
    <3>2. told \in SUBSET (1 .. Len(polls)) /\ Len(polls) \in Nat /\ i \in told
      BY <3>1
    <3>3. Max(told) \in told /\ \A x \in told : x <= Max(told)
      BY <3>2, GreatestOf
    <3>4. Max(told) = i
      <4>1. i <= Max(told) /\ i \in Nat /\ Max(told) \in Nat
        BY <3>2, <3>3
      <4>2. Max(told) \in DOMAIN polls /\ Has(polls[Max(told)], u, n)
        BY <3>3
      <4>3. ~(Max(told) > i)
        BY <3>1, <4>2
      <4>4. QED
        BY <4>1, <4>3
    <3>5. QED
      BY <1>2, <3>1, <3>2, <3>4 DEF Taken
  <2>2. CASE (\A i \in DOMAIN polls : ~Has(polls[i], u, n)) /\ seen = v
    BY <1>2, <2>2 DEF Taken
  <2>3. QED
    BY <1>1, <1>2, <2>1, <2>2 DEF Taken
<1>3. QED
  BY <1>1, <1>2 DEF Taken

\* What is expected under way is what is heard in the end.
LEMMA HearFacts ==
    ASSUME Types, NEW u \in Followers
    PROVE  /\ u \in DOMAIN listeners /\ listeners[u] \in Specs
           /\ Follows(listeners[u])
           /\ u \in Nat /\ u < nextUid /\ u \in Uids /\ u # Everybody
           /\ listeners[u].names \subseteq Names
           /\ Len(queue) + 1 \in Nat
<1>1. u \in DOMAIN listeners /\ Follows(listeners[u])
  BY DEF Followers
<1>2. u \in 0 .. (nextUid - 1) /\ nextUid \in 0 .. MaxListeners
  BY <1>1 DEF Types
<1>3. u \in Nat /\ u < nextUid /\ u \in Uids
  BY <1>2, UidFacts
<1>4. listeners[u] \in Specs /\ queue \in Seq(Item \cup {StopItem})
  BY <1>1 DEF Types
<1>5. Len(queue) \in Nat
  BY <1>4
<1>6. QED
  BY <1>1, <1>3, <1>4, <1>5, SpecFacts, UidFacts

\* A step that leaves the queue alone.
LEMMA SameQueue ==
    ASSUME Types, FollowInv, StopInv,
           UNCHANGED << value, queue, thread, nextUid, hidden, atStop >>,
           thread = "ended" => todo' = {},
           DOMAIN listeners' \subseteq DOMAIN listeners,
           \A u \in DOMAIN listeners' : listeners'[u] = listeners[u],
           ASSUME NEW u \in Followers, listeners'[u] = listeners[u],
                  NEW n \in listeners[u].names, NEW b \in Nat, NEW v,
                  WillHear(u, n, b, v)
           PROVE  WillHear(u, n, b, v)'
    PROVE  FollowInv' /\ StopInv'
<1>1. ASSUME NEW u \in Followers'
      PROVE  u \in Followers /\ listeners'[u] = listeners[u]
  BY <1>1 DEF Followers
<1>2. FollowInv'
  <2> SUFFICES ASSUME NEW u \in Followers', NEW n \in (listeners[u].names \ hidden)'
      PROVE  WillHear(u, n, Len(queue) + 1, value[n])'
    BY DEF FollowInv
  <2>1. /\ u \in Followers /\ listeners'[u] = listeners[u]
        /\ n \in listeners[u].names \ hidden
    BY <1>1
  <2>2. PICK b \in Nat : b = Len(queue) + 1
    BY <2>1, HearFacts
  <2>3. PICK v : v = value[n]
    OBVIOUS
  <2>4. WillHear(u, n, b, v)
    BY <2>1, <2>2, <2>3 DEF FollowInv
  <2>5. WillHear(u, n, b, v)'
    BY <2>1, <2>4
  <2>6. QED
    BY <2>2, <2>3, <2>5 DEF WillHear
<1>3. StopInv'
  <2>1. CASE atStop = << >>
    BY <2>1 DEF StopInv
  <2>2. CASE atStop # << >>
    <3>1. PICK b \in Nat :
             /\ EndsAt(b)
             /\ \A u \in Followers \cap atStop.uids :
                   \A n \in listeners[u].names \ hidden :
                       WillHear(u, n, b, atStop.value[n])
      BY <2>2 DEF StopInv
    <3>2. EndsAt(b)'
      BY <3>1 DEF EndsAt
    <3>3. ASSUME NEW u \in (Followers \cap atStop.uids)',
                 NEW n \in (listeners[u].names \ hidden)'
          PROVE  WillHear(u, n, b, atStop.value[n])'
      <4>1. /\ u \in Followers /\ listeners'[u] = listeners[u] /\ u \in atStop.uids
            /\ n \in listeners[u].names \ hidden
        BY <1>1, <3>3
      <4>2. PICK v : v = atStop.value[n]
        OBVIOUS
      <4>3. WillHear(u, n, b, v)
        BY <3>1, <4>1, <4>2
      <4>4. WillHear(u, n, b, v)'
        BY <4>1, <4>3
      <4>5. QED
        BY <4>2, <4>4 DEF WillHear
    <3>4. QED
      BY <2>2, <3>2, <3>3 DEF StopInv
  <2>3. QED
    BY <2>1, <2>2
<1>4. QED
  BY <1>2, <1>3

\* A step that adds items to the queue.
LEMMA Appended ==
    ASSUME Types, NEW r \in Seq(Item \cup {StopItem}), queue' = queue \o r,
           UNCHANGED << todo, pollQueue, view >>,
           NEW u, listeners'[u] = listeners[u], NEW n, NEW v, NEW b \in Nat
    PROVE  /\ b <= Len(queue) + 1 /\ WillHear(u, n, b, v) => WillHear(u, n, b, v)'
           /\ b = Len(queue) + 1 /\ WillHear(u, n, b, v)
              /\ (\A i \in DOMAIN r : ~For(r[i], listeners[u], u, n))
              => WillHear(u, n, Len(queue) + 1, v)'
<1> DEFINE pq == Polls(listeners[u], pollQueue)
           q == queue \o r
<1>1. queue \in Seq(Item \cup {StopItem}) /\ Len(queue) \in Nat
  BY DEF Types
<1>2. /\ q \in Seq(Item \cup {StopItem}) /\ Len(q) = Len(queue) + Len(r)
      /\ Len(r) \in Nat
      /\ \A j \in DOMAIN q : j >= Len(queue) + 1 /\ j < Len(q) + 1
            => j - Len(queue) \in DOMAIN r /\ q[j] = r[j - Len(queue)]
  BY <1>1
<1>3. ASSUME b <= Len(queue) + 1, WillHear(u, n, b, v)
      PROVE  Settled(q, todo, pq, view[u][n], listeners[u], u, n, b, v)
  BY <1>1, <1>3, QueueGrows DEF WillHear
<1>4. Polls(listeners[u], pollQueue)' = pq
  BY DEF Polls
<1>5. ASSUME b <= Len(queue) + 1, WillHear(u, n, b, v) PROVE WillHear(u, n, b, v)'
  BY <1>3, <1>4, <1>5 DEF WillHear
<1>6. ASSUME b = Len(queue) + 1, WillHear(u, n, b, v),
             \A i \in DOMAIN r : ~For(r[i], listeners[u], u, n)
      PROVE  WillHear(u, n, Len(queue) + 1, v)'
  <2>1. Settled(q, todo, pq, view[u][n], listeners[u], u, n, b, v)
    BY <1>1, <1>3, <1>6
  <2>2. /\ Len(q) + 1 \in Nat /\ b <= Len(q) + 1
        /\ \A j \in DOMAIN q : b <= j /\ j < Len(q) + 1
              => ~For(q[j], listeners[u], u, n)
    BY <1>1, <1>2, <1>6
  <2> HIDE DEF q, pq
  <2>3. Settled(q, todo, pq, view[u][n], listeners[u], u, n, Len(q) + 1, v)
    BY <1>2, <2>1, <2>2, SettledFurther
  <2>4. QED
    BY <1>4, <2>3 DEF WillHear, q
<1>7. QED
  BY <1>5, <1>6

\* What was said before stop was called is not changed by what follows it.
LEMMA StopKept ==
    ASSUME Types, StopInv, NEW r \in Seq(Item), queue' = queue \o r,
           UNCHANGED << todo, thread, pollQueue, view, atStop >>,
           hidden \subseteq hidden', nextUid \in Nat, nextUid' \in Nat,
           nextUid <= nextUid',
           \A u \in DOMAIN listeners' : u < nextUid =>
               u \in DOMAIN listeners /\ listeners'[u] = listeners[u],
           DOMAIN listeners' \subseteq Nat, DOMAIN listeners \subseteq Nat
    PROVE  StopInv'
<1>1. queue \in Seq(Item \cup {StopItem}) /\ Len(queue) \in Nat
  BY DEF Types
<1>2. /\ r \in Seq(Item \cup {StopItem})
      /\ \A i \in DOMAIN r : r[i] # StopItem
  BY ItemsAreNotStop
<1>3. /\ DOMAIN queue \subseteq DOMAIN queue'
      /\ \A i \in DOMAIN queue : queue'[i] = queue[i] /\ i <= Len(queue) /\ i \in Nat
      /\ \A i \in DOMAIN queue' : i \in DOMAIN queue \/ queue'[i] # StopItem
  BY <1>1, <1>2
<1>4. CASE atStop = << >>
  BY <1>3, <1>4 DEF StopInv
<1>5. CASE atStop # << >>
  <2>1. PICK b \in Nat :
           /\ EndsAt(b)
           /\ \A u \in Followers \cap atStop.uids :
                 \A n \in listeners[u].names \ hidden :
                     WillHear(u, n, b, atStop.value[n])
    BY <1>5 DEF StopInv
  <2>2. EndsAt(b)' /\ b <= Len(queue) + 1
    BY <1>1, <1>3, <2>1 DEF EndsAt
  <2>3. ASSUME NEW u \in (Followers \cap atStop.uids)',
               NEW n \in (listeners[u].names \ hidden)'
        PROVE  WillHear(u, n, b, atStop.value[n])'
    <3>1. u \in atStop.uids /\ u \in DOMAIN listeners' /\ Follows(listeners'[u])
      BY <2>3 DEF Followers
    <3>2. u < nextUid
      BY <1>5, <3>1 DEF StopInv
    <3>3. u \in DOMAIN listeners /\ listeners'[u] = listeners[u]
      BY <3>1, <3>2
    <3>4. u \in Followers /\ n \in listeners[u].names \ hidden
      BY <3>1, <3>3 DEF Followers
    <3>5. PICK v : v = atStop.value[n]
      OBVIOUS
    <3>6. WillHear(u, n, b, v)
      BY <2>1, <3>1, <3>4, <3>5
    <3>7. WillHear(u, n, b, v)'
      BY <1>2, <2>2, <3>3, <3>6, Appended
    <3>8. QED
      BY <3>5, <3>7 DEF WillHear
  <2>4. atStop'.uids \subseteq 0 .. (nextUid' - 1)
    <3>1. atStop.uids \subseteq 0 .. (nextUid - 1)
      BY <1>5 DEF StopInv
    <3>2. QED
      BY <3>1
  <2>5. thread = "ended" => \A i \in DOMAIN queue' : queue'[i] # StopItem
    BY <1>3 DEF StopInv
  <2>6. QED
    BY <1>3, <1>5, <2>2, <2>3, <2>4, <2>5 DEF StopInv
<1>6. QED
  BY <1>4, <1>5

-----------------------------------------------------------------------------
(* A change of the storage *)

\* What the notifications of a change say: of each entry that changes, its value.
Truthful(notes) ==
    /\ notes \in Seq(NoteType)
    /\ \A i, j \in DOMAIN notes : notes[i].name = notes[j].name => i = j
    /\ \A i \in DOMAIN notes :
          /\ Says(notes[i]) = value'[notes[i].name]
          /\ notes[i].flags \ {"immediate", "local"} = {"flags"}
                => value'[notes[i].name] = value[notes[i].name]
    /\ \A n \in Names : (\A i \in DOMAIN notes : notes[i].name # n)
                           => value'[n] = value[n]

\* A change of the storage that its notifications tell of keeps the invariant.
LEMMA ChangeKeeps ==
    ASSUME IInv, NEW notes, Truthful(notes), Changed(notes),
           value' \in [Names -> Values \cup {NoValue}],
           persistent' \in [Names -> BOOLEAN],
           IsFiniteSet({n \in Names : value'[n] # NoValue})
    PROVE  IInv'
<1> DEFINE r == [i \in DOMAIN notes |-> [only |-> Everybody, note |-> notes[i]]]
           all == \A i \in DOMAIN notes : Queued(notes[i])
           k == Len(queue)
<1>1. /\ notes \in Seq(NoteType)
      /\ queue \in Seq(Item \cup {StopItem}) /\ k \in Nat
      /\ UNCHANGED << managerVars, threadVars, atStop >>
  BY DEF IInv, Types, Truthful, Changed
<1>2. /\ r \in Seq(Item) /\ r \in Seq(Item \cup {StopItem})
      /\ DOMAIN r = DOMAIN notes
      /\ \A i \in DOMAIN r : /\ r[i] = [only |-> Everybody, note |-> notes[i]]
                             /\ r[i].only = Everybody /\ r[i].note = notes[i]
                             /\ r[i] # StopItem
  <2>1. \A i \in DOMAIN notes : notes[i] \in NoteType
    BY <1>1
  <2>2. \A i \in DOMAIN notes : [only |-> Everybody, note |-> notes[i]] \in Item
    BY <2>1 DEF Item
  <2>3. r \in Seq(Item) /\ DOMAIN r = DOMAIN notes
    BY <1>1, <2>2
  <2>4. QED
    BY <2>2, <2>3, ItemsAreNotStop
<1>3. CASE all
  <2>1. queue' = queue \o r /\ hidden' = hidden
    BY <1>3 DEF Changed, Send
  <2> HIDE DEF r, all
  <2>2. Types'
    BY <1>1, <1>2, <2>1 DEF IInv, Types, managerVars, threadVars
  <2>3. ListenersInv'
    BY <1>1 DEF IInv, ListenersInv, managerVars, Open
  <2>4. /\ DOMAIN queue' = 1 .. (k + Len(r)) /\ Len(r) \in Nat
        /\ DOMAIN r = 1 .. Len(r) /\ DOMAIN queue = 1 .. k
        /\ \A i \in DOMAIN queue : i \in DOMAIN queue' /\ queue'[i] = queue[i]
        /\ \A i \in DOMAIN r : k + i \in DOMAIN queue' /\ queue'[k + i] = r[i]
        /\ \A i \in DOMAIN queue' :
              \/ i \in DOMAIN queue /\ i <= k
              \/ i > k /\ i - k \in DOMAIN r /\ queue'[i] = r[i - k]
    BY <1>1, <1>2, <2>1
  <2>5. WaysInv'
    <3>1. \A i \in DOMAIN queue' :
             queue'[i] # StopItem /\ queue'[i].only # Everybody
                => queue'[i].only < nextUid
      BY <1>2, <2>4 DEF IInv, WaysInv
    <3>2. QED
      BY <1>1, <3>1 DEF IInv, WaysInv, managerVars, threadVars
  <2>6. GoneInv'
    <3> SUFFICES ASSUME NEW n \in Names, n \notin hidden, value'[n] = NoValue,
                        NEW i \in DOMAIN queue', About(queue'[i], n),
                        \A j \in DOMAIN queue' : j > i => ~About(queue'[j], n)
                 PROVE  "delete" \in queue'[i].note.flags
      BY <2>1 DEF GoneInv
    <3>1. CASE i > k
      <4>1. i - k \in DOMAIN r /\ queue'[i] = r[i - k] /\ notes[i - k].name = n
        BY <1>2, <2>4, <3>1 DEF About
      <4>2. Says(notes[i - k]) = NoValue /\ notes[i - k] \in NoteType
        BY <1>1, <1>2, <4>1 DEF Truthful
      <4>3. QED
        BY <1>2, <4>1, <4>2, NoteFacts
    <3>2. CASE ~(i > k)
      <4>1. i \in DOMAIN queue /\ queue'[i] = queue[i]
        BY <2>4, <3>2
      <4>2. ASSUME NEW j \in DOMAIN r PROVE notes[j].name # n
        <5>1. k + j \in DOMAIN queue' /\ queue'[k + j] = r[j] /\ k + j > i
          BY <1>1, <2>4, <3>2
        <5>2. ~About(r[j], n)
          BY <5>1
        <5>3. QED
          BY <1>2, <5>2 DEF About
      <4>3. value[n] = NoValue
        BY <1>2, <4>2 DEF Truthful
      <4>4. \A j \in DOMAIN queue : j > i => ~About(queue[j], n)
        BY <2>4
      <4>5. QED
        BY <4>1, <4>3, <4>4 DEF IInv, GoneInv
    <3>3. QED
      BY <3>1, <3>2
  <2>7. FollowInv'
    <3> SUFFICES ASSUME NEW u \in Followers', NEW n \in (listeners[u].names \ hidden)'
                 PROVE  WillHear(u, n, Len(queue) + 1, value[n])'
      BY DEF FollowInv
    <3>1. u \in Followers /\ listeners' = listeners /\ n \in listeners[u].names \ hidden
      BY <1>1, <2>1 DEF Followers, managerVars
    <3>2. PICK b \in Nat : b = k + 1
      BY <1>1
    <3>3. PICK v : v = value[n]
      OBVIOUS
    <3>4. WillHear(u, n, b, v)
      BY <3>1, <3>2, <3>3 DEF IInv, FollowInv
    <3>5. UNCHANGED << todo, pollQueue, view >>
      BY <1>1 DEF threadVars
    <3>6. n \in Names /\ u # Everybody /\ listeners[u] \in Specs /\ Follows(listeners[u])
      BY <3>1, HearFacts DEF IInv
    <3>7. CASE \E i \in DOMAIN r : For(r[i], listeners[u], u, n)
      <4>1. PICK i \in DOMAIN r : For(r[i], listeners[u], u, n)
        BY <3>7
      <4>2. Says(r[i].note) = value'[n] /\ notes[i].name = n
        BY <1>2, <4>1 DEF For, Truthful
      <4>3. ASSUME NEW j \in DOMAIN queue', k + i < j
            PROVE  ~For(queue'[j], listeners[u], u, n)
        <5>1. j > k /\ j - k \in DOMAIN r /\ queue'[j] = r[j - k] /\ j - k # i
          BY <1>1, <2>4, <4>3
        <5>2. notes[j - k].name # n
          BY <1>2, <4>2, <5>1 DEF Truthful
        <5>3. QED
          BY <1>2, <5>1, <5>2 DEF For
      <4>4. k + i \in DOMAIN queue' /\ queue'[k + i] = r[i] /\ k + i < Len(queue') + 1
        BY <1>1, <1>2, <2>1, <2>4
      <4>5. LastSays(queue', listeners[u], u, n, Len(queue') + 1, value'[n])
        BY <4>1, <4>2, <4>3, <4>4 DEF LastSays
      <4>6. QED
        BY <3>1, <4>5 DEF WillHear, Settled
    <3>8. CASE \A i \in DOMAIN r : ~For(r[i], listeners[u], u, n)
      <4>1. WillHear(u, n, Len(queue) + 1, v)'
        BY <1>1, <1>2, <2>1, <3>1, <3>2, <3>4, <3>5, <3>8, Appended DEF IInv
      <4>2. value'[n] = value[n]
        <5>1. ASSUME NEW i \in DOMAIN notes, notes[i].name = n
              PROVE  value'[n] = value[n]
          <6>1. ~Matches(listeners[u], notes[i]) /\ notes[i] \in NoteType
            BY <1>1, <1>2, <3>8, <5>1 DEF For
          <6>2. notes[i].flags \ {"immediate", "local"} = {"flags"}
            BY <3>1, <3>6, <5>1, <6>1, FollowersMatch
          <6>3. QED
            BY <5>1, <6>2 DEF Truthful
        <5>2. QED
          BY <3>6, <5>1 DEF Truthful
      <4>3. v = value'[n]
        BY <3>3, <4>2
      <4>4. QED
        BY <4>1, <4>3 DEF WillHear
    <3>9. QED
      BY <3>7, <3>8
  <2>8. StopInv'
    <3>1. /\ UNCHANGED << todo, thread, pollQueue, view, atStop, listeners, nextUid >>
          /\ nextUid \in Nat /\ nextUid <= nextUid /\ DOMAIN listeners \subseteq Nat
      BY <1>1, UidFacts DEF IInv, Types, managerVars, threadVars
    <3>2. QED
      BY <1>2, <2>1, <3>1, StopKept DEF IInv
  <2>9. QED
    BY <2>2, <2>3, <2>5, <2>6, <2>7, <2>8 DEF IInv
<1>4. CASE ~all
  <2>1. /\ queue' = queue
        /\ hidden' = hidden \cup {n \in {notes[i].name : i \in
              {j \in DOMAIN notes : "delete" \in notes[j].flags}} : Waiting(n)}
    BY <1>4 DEF Changed, Send
  <2>2. hidden' \subseteq Names /\ hidden \subseteq hidden'
    BY <1>1, <2>1, NoteFacts DEF IInv, Types
  <2>3. \A u \in Followers : FALSE
    <3> SUFFICES ASSUME NEW u \in Followers PROVE FALSE
      OBVIOUS
    <3>1. u \in DOMAIN listeners /\ "local" \in listeners[u].flags
      BY DEF Followers, Follows
    <3>2. localNotifiers
      BY <3>1 DEF IInv, ListenersInv
    <3>3. all
      BY <3>1, <3>2 DEF Queued
    <3>4. QED
      BY <1>4, <3>3
  <2> HIDE DEF r, all
  <2>4. Types'
    BY <1>1, <2>1, <2>2 DEF IInv, Types, managerVars, threadVars
  <2>5. ListenersInv'
    BY <1>1 DEF IInv, ListenersInv, managerVars, Open
  <2>6. WaysInv'
    BY <1>1, <2>1 DEF IInv, WaysInv, managerVars, threadVars
  <2>7. GoneInv'
    <3> SUFFICES ASSUME NEW n \in Names, n \notin hidden', value'[n] = NoValue,
                        NEW i \in DOMAIN queue, About(queue[i], n),
                        \A j \in DOMAIN queue : j > i => ~About(queue[j], n)
                 PROVE  "delete" \in queue[i].note.flags
      BY <2>1 DEF GoneInv
    <3>1. Waiting(n)
      BY DEF About, Waiting
    <3>2. ASSUME NEW j \in DOMAIN notes PROVE notes[j].name # n
      <4>1. SUFFICES ASSUME notes[j].name = n PROVE FALSE
        OBVIOUS
      <4>2. Says(notes[j]) = NoValue /\ notes[j] \in NoteType
        BY <1>1, <4>1 DEF Truthful
      <4>3. "delete" \in notes[j].flags
        BY <4>2, NoteFacts
      <4>4. n \in hidden'
        BY <2>1, <3>1, <4>1, <4>3
      <4>5. QED
        BY <4>4
    <3>3. value[n] = NoValue
      BY <3>2 DEF Truthful
    <3>4. QED
      BY <2>2, <3>3 DEF IInv, GoneInv
  <2>8. FollowInv'
    BY <1>1, <2>3 DEF FollowInv, Followers, managerVars
  <2>9. StopInv'
    <3>1. << >> \in Seq(Item) /\ queue' = queue \o << >>
      BY <1>1, <2>1
    <3>2. /\ UNCHANGED << todo, thread, pollQueue, view, atStop, listeners, nextUid >>
          /\ nextUid \in Nat /\ nextUid <= nextUid /\ DOMAIN listeners \subseteq Nat
      BY <1>1, UidFacts DEF IInv, Types, managerVars, threadVars
    <3>3. QED
      BY <2>2, <3>1, <3>2, StopKept DEF IInv
  <2>10. QED
    BY <2>4, <2>5, <2>6, <2>7, <2>8, <2>9 DEF IInv
<1>5. QED
  BY <1>3, <1>4

\* A change of one entry, with its notification, keeps the invariant.
LEMMA OneNoteKeeps ==
    ASSUME IInv, NEW n \in Names, NEW w \in Values \cup {NoValue},
           SetValue(n, w), persistent' \in [Names -> BOOLEAN],
           NEW v \in Values, NEW flags \in SUBSET NotifyFlags,
           flags \ {"immediate", "local"} \in Kinds,
           w = IF "delete" \in flags THEN NoValue ELSE v,
           flags \ {"immediate", "local"} = {"flags"} => w = value[n],
           Changed(<< Note(n, v, flags) >>)
    PROVE  IInv'
<1> DEFINE note == Note(n, v, flags)
<1>1. /\ note \in NoteType /\ note.name = n /\ note.flags = flags
      /\ Says(note) = w
  BY DEF NoteType, Note, Says
<1>2. value \in [Names -> Values \cup {NoValue}]
  BY DEF IInv, Types
<1>3. /\ value' \in [Names -> Values \cup {NoValue}] /\ value'[n] = w
      /\ \A m \in Names : m # n => value'[m] = value[m]
  BY <1>2 DEF SetValue
<1>4. IsFiniteSet({m \in Names : value'[m] # NoValue})
  <2>1. IsFiniteSet({m \in Names : value[m] # NoValue})
    BY DEF IInv, Types
  <2>2. {m \in Names : value'[m] # NoValue} \subseteq
            {m \in Names : value[m] # NoValue} \cup {n}
    BY <1>3
  <2>3. IsFiniteSet({m \in Names : value[m] # NoValue} \cup {n})
    BY <2>1, FS_AddElement
  <2>4. QED
    BY <2>2, <2>3, FS_Subset
<1> HIDE DEF note
<1>5. Truthful(<< note >>)
  <2>1. << note >> \in Seq(NoteType)
    BY <1>1
  <2>2. DOMAIN << note >> = {1} /\ << note >>[1] = note
    OBVIOUS
  <2>3. QED
    BY <1>1, <1>3, <2>1, <2>2 DEF Truthful
<1>6. Changed(<< note >>)
  BY DEF note
<1>7. QED
  BY <1>3, <1>4, <1>5, <1>6, ChangeKeeps

LEMMA WriteKeeps ==
    ASSUME IInv, NEW n \in Names, NEW v \in Values, Write(n, v)
    PROVE  IInv'
<1> DEFINE flags == {"local", IF value[n] = NoValue THEN "new" ELSE "update"}
<1>1. value \in [Names -> Values \cup {NoValue}] /\ persistent' \in [Names -> BOOLEAN]
  BY DEF IInv, Types, Write
<1>2. /\ flags \in SUBSET NotifyFlags /\ flags \ {"immediate", "local"} \in Kinds
      /\ "delete" \notin flags /\ flags \ {"immediate", "local"} # {"flags"}
  <2>1. CASE value[n] = NoValue
    <3>1. flags = {"local", "new"} /\ flags \ {"immediate", "local"} = {"new"}
      BY <2>1
    <3>2. QED
      BY <3>1 DEF NotifyFlags, Kinds
  <2>2. CASE value[n] # NoValue
    <3>1. flags = {"local", "update"} /\ flags \ {"immediate", "local"} = {"update"}
      BY <2>2
    <3>2. QED
      BY <3>1 DEF NotifyFlags, Kinds
  <2>3. QED
    BY <2>1, <2>2
<1>3. SetValue(n, v) /\ Changed(<< Note(n, v, flags) >>)
  BY DEF Write
<1> HIDE DEF flags
<1>4. QED
  BY <1>1, <1>2, <1>3, OneNoteKeeps

LEMMA ReceiveKeeps ==
    ASSUME IInv, NEW n \in Names, NEW v \in Values, NEW flag \in BOOLEAN,
           Receive(n, v, flag)
    PROVE  IInv'
<1> DEFINE flags == IF value[n] = NoValue THEN {"new"}
                    ELSE IF persistent[n] # flag THEN {"update", "flags"}
                    ELSE {"update"}
<1>1. persistent' \in [Names -> BOOLEAN]
  BY DEF IInv, Types, Receive
<1>2. /\ flags \in SUBSET NotifyFlags /\ flags \ {"immediate", "local"} \in Kinds
      /\ "delete" \notin flags /\ flags \ {"immediate", "local"} # {"flags"}
  <2>1. CASE value[n] = NoValue
    <3>1. flags = {"new"} /\ flags \ {"immediate", "local"} = {"new"}
      BY <2>1
    <3>2. QED
      BY <3>1 DEF NotifyFlags, Kinds
  <2>2. CASE value[n] # NoValue /\ persistent[n] # flag
    <3>1. flags = {"update", "flags"}
          /\ flags \ {"immediate", "local"} = {"update", "flags"}
      BY <2>2
    <3>2. QED
      BY <3>1 DEF NotifyFlags, Kinds
  <2>3. CASE value[n] # NoValue /\ persistent[n] = flag
    <3>1. flags = {"update"} /\ flags \ {"immediate", "local"} = {"update"}
      BY <2>3
    <3>2. QED
      BY <3>1 DEF NotifyFlags, Kinds
  <2>4. QED
    BY <2>1, <2>2, <2>3
<1>3. SetValue(n, v) /\ Changed(<< Note(n, v, flags) >>)
  BY DEF Receive
<1> HIDE DEF flags
<1>4. QED
  BY <1>1, <1>2, <1>3, OneNoteKeeps

LEMMA SetFlagsKeeps ==
    ASSUME IInv, NEW n \in Names, NEW local \in BOOLEAN, SetFlags(n, local)
    PROVE  IInv'
<1> DEFINE flags == {"flags"} \cup LocalFlag(local)
<1>1. /\ value \in [Names -> Values \cup {NoValue}]
      /\ persistent' \in [Names -> BOOLEAN]
      /\ value[n] \in Values
  BY DEF IInv, Types, SetFlags
<1>2. /\ flags \in SUBSET NotifyFlags
      /\ flags \ {"immediate", "local"} = {"flags"} /\ {"flags"} \in Kinds
      /\ "delete" \notin flags
  BY DEF NotifyFlags, Kinds, LocalFlag
<1>3. SetValue(n, value[n]) /\ Changed(<< Note(n, value[n], flags) >>)
  BY <1>1 DEF SetFlags, SetValue
<1> HIDE DEF flags
<1>4. PICK v \in Values : v = value[n]
  BY <1>1
<1>5. QED
  BY <1>1, <1>2, <1>3, <1>4, OneNoteKeeps

LEMMA DeleteKeeps ==
    ASSUME IInv, NEW n \in Names, NEW local \in BOOLEAN, Delete(n, local)
    PROVE  IInv'
<1> DEFINE flags == {"delete"} \cup LocalFlag(local)
<1>1. /\ value \in [Names -> Values \cup {NoValue}]
      /\ persistent' \in [Names -> BOOLEAN]
      /\ value[n] \in Values
  BY DEF IInv, Types, Delete
<1>2. /\ flags \in SUBSET NotifyFlags
      /\ flags \ {"immediate", "local"} = {"delete"} /\ {"delete"} \in Kinds
      /\ "delete" \in flags /\ {"delete"} # {"flags"}
  BY DEF NotifyFlags, Kinds, LocalFlag
<1>3. SetValue(n, NoValue) /\ Changed(<< Note(n, value[n], flags) >>)
  BY DEF Delete
<1> HIDE DEF flags
<1>4. PICK v \in Values : v = value[n]
  BY <1>1
<1>5. QED
  BY <1>1, <1>2, <1>3, <1>4, OneNoteKeeps

LEMMA LoadKeeps ==
    ASSUME IInv, NEW n \in Names, NEW v \in Values, Load(n, v)
    PROVE  IInv'
<1> DEFINE newFlag == IF persistent[n] THEN {} ELSE {"flags"}
           flags == IF value[n] = NoValue THEN {"new"}
                    ELSE IF v # value[n] THEN {"update"} \cup newFlag
                    ELSE newFlag
           sent == flags \cup {"local"}
<1>1. persistent' \in [Names -> BOOLEAN]
  BY DEF IInv, Types, Load
<1>2. SetValue(n, v) /\ Changed(<< Note(n, v, sent) >>) /\ flags # {}
  BY DEF Load
<1>3. /\ sent \in SUBSET NotifyFlags /\ sent \ {"immediate", "local"} \in Kinds
      /\ "delete" \notin sent
      /\ sent \ {"immediate", "local"} = {"flags"} => v = value[n]
  <2>1. CASE value[n] = NoValue
    <3>1. sent = {"new", "local"} /\ sent \ {"immediate", "local"} = {"new"}
      BY <2>1
    <3> HIDE DEF sent
    <3>2. QED
      BY <3>1 DEF NotifyFlags, Kinds
  <2>2. CASE value[n] # NoValue /\ v # value[n] /\ persistent[n]
    <3>1. sent = {"update", "local"} /\ sent \ {"immediate", "local"} = {"update"}
      BY <2>2
    <3> HIDE DEF sent
    <3>2. QED
      BY <3>1 DEF NotifyFlags, Kinds
  <2>3. CASE value[n] # NoValue /\ v # value[n] /\ ~persistent[n]
    <3>1. sent = {"update", "flags", "local"}
          /\ sent \ {"immediate", "local"} = {"update", "flags"}
      BY <2>3
    <3> HIDE DEF sent
    <3>2. QED
      BY <3>1 DEF NotifyFlags, Kinds
  <2>4. CASE value[n] # NoValue /\ v = value[n]
    <3>1. sent = {"flags", "local"} /\ sent \ {"immediate", "local"} = {"flags"}
      BY <1>2, <2>4
    <3> HIDE DEF sent
    <3>2. QED
      BY <2>4, <3>1 DEF NotifyFlags, Kinds
  <2>5. QED
    BY <2>1, <2>2, <2>3, <2>4
<1> HIDE DEF flags, sent
<1>4. QED
  BY <1>1, <1>2, <1>3, OneNoteKeeps

LEMMA DeleteAllKeeps ==
    ASSUME IInv, NEW local \in BOOLEAN, DeleteAll(local)
    PROVE  IInv'
<1> DEFINE doomed == {n \in Names : value[n] # NoValue /\ ~persistent[n]}
           order == SetToSeq(doomed)
           flags == {"delete"} \cup LocalFlag(local)
           notes == [i \in DOMAIN order |-> Note(order[i], value[order[i]], flags)]
<1>1. /\ value \in [Names -> Values \cup {NoValue}]
      /\ persistent' \in [Names -> BOOLEAN]
      /\ IsFiniteSet({n \in Names : value[n] # NoValue})
  BY DEF IInv, Types, DeleteAll
<1>2. /\ flags \in SUBSET NotifyFlags
      /\ flags \ {"immediate", "local"} = {"delete"} /\ {"delete"} \in Kinds
      /\ "delete" \in flags /\ {"delete"} # {"flags"}
  BY DEF NotifyFlags, Kinds, LocalFlag
<1>3. IsFiniteSet(doomed)
  <2>1. doomed \subseteq {n \in Names : value[n] # NoValue}
    OBVIOUS
  <2>2. QED
    BY <1>1, <2>1, FS_Subset
<1>4. /\ value' = [n \in Names |-> IF n \in doomed THEN NoValue ELSE value[n]]
      /\ Changed(notes)
  BY DEF DeleteAll
<1>5. doomed \subseteq Names /\ \A n \in doomed : value[n] \in Values
  BY <1>1
<1> HIDE DEF doomed, flags
<1>6. /\ order \in Seq(doomed)
      /\ \A x \in doomed : \E i \in DOMAIN order : order[i] = x
      /\ \A i, j \in DOMAIN order : order[i] = order[j] => i = j
  BY <1>3, SetToSeqLists
<1> HIDE DEF order
<1>7. /\ DOMAIN notes = DOMAIN order
      /\ \A i \in DOMAIN notes :
            /\ order[i] \in doomed
            /\ notes[i] \in NoteType /\ notes[i].name = order[i]
            /\ notes[i].flags = flags /\ Says(notes[i]) = NoValue
  <2>1. \A i \in DOMAIN order : order[i] \in doomed
    BY <1>6
  <2>2. ASSUME NEW m \in doomed
        PROVE  /\ Note(m, value[m], flags) \in NoteType
               /\ Note(m, value[m], flags).name = m
               /\ Note(m, value[m], flags).flags = flags
               /\ Says(Note(m, value[m], flags)) = NoValue
    BY <1>2, <1>5 DEF NoteType, Note, Says
  <2>3. QED
    BY <2>1, <2>2
<1>8. notes \in Seq(NoteType)
  <2>1. DOMAIN order = 1 .. Len(order) /\ Len(order) \in Nat
    BY <1>6
  <2>2. \A i \in 1 .. Len(order) : notes[i] \in NoteType
    BY <1>7, <2>1
  <2>3. notes = [i \in 1 .. Len(order) |-> notes[i]]
    BY <2>1
  <2> HIDE DEF notes
  <2>4. notes \in [1 .. Len(order) -> NoteType]
    BY <2>2, <2>3
  <2>5. QED
    BY <2>1, <2>4
<1> HIDE DEF notes
<1>9. \A n \in Names : value'[n] = IF n \in doomed THEN NoValue ELSE value[n]
  BY <1>4
<1>10. Truthful(notes)
  <2>1. \A i, j \in DOMAIN notes : notes[i].name = notes[j].name => i = j
    BY <1>6, <1>7
  <2>2. ASSUME NEW i \in DOMAIN notes
        PROVE  /\ Says(notes[i]) = value'[notes[i].name]
               /\ notes[i].flags \ {"immediate", "local"} # {"flags"}
    BY <1>2, <1>5, <1>7, <1>9
  <2>3. ASSUME NEW n \in Names, \A i \in DOMAIN notes : notes[i].name # n
        PROVE  value'[n] = value[n]
    BY <1>6, <1>7, <1>9, <2>3
  <2>4. QED
    BY <1>8, <2>1, <2>2, <2>3 DEF Truthful
<1>11. value' \in [Names -> Values \cup {NoValue}]
  BY <1>1, <1>4
<1>12. IsFiniteSet({n \in Names : value'[n] # NoValue})
  <2>1. {n \in Names : value'[n] # NoValue} \subseteq {n \in Names : value[n] # NoValue}
    BY <1>9
  <2>2. QED
    BY <1>1, <2>1, FS_Subset
<1>13. QED
  BY <1>1, <1>4, <1>10, <1>11, <1>12, ChangeKeeps

LEMMA StorageKeeps ==
    ASSUME IInv, Storage
    PROVE  IInv'
BY WriteKeeps, LoadKeeps, ReceiveKeeps, DeleteAllKeeps, SetFlagsKeeps, DeleteKeeps
   DEF Storage

-----------------------------------------------------------------------------
(* Listeners and pollers *)

\* A step that touches nothing of what is under way.
LEMMA SilentKeeps ==
    ASSUME IInv,
           UNCHANGED << value, persistent, nextUid, localNotifiers, queue, todo,
                        thread, pollQueue, view, hidden, atStop >>,
           DOMAIN listeners' \subseteq DOMAIN listeners,
           \A u \in DOMAIN listeners' : listeners'[u] = listeners[u],
           poller' \in [Pollers -> {"new", "open", "removed"}],
           sleeper' \in [Pollers -> {"none", "asleep", "woken"}],
           \A u \in DOMAIN listeners' : listeners[u].poller \in Open' \cup {NoPoller}
    PROVE  IInv'
<1>1. Types'
  BY DEF IInv, Types
<1>2. ListenersInv'
  BY DEF IInv, ListenersInv
<1>3. WaysInv'
  BY DEF IInv, WaysInv
<1>4. GoneInv'
  BY DEF IInv, GoneInv
<1>5. thread = "ended" => todo' = {}
  BY DEF IInv, StopInv
<1>6. ASSUME NEW u \in Followers, listeners'[u] = listeners[u],
             NEW n \in listeners[u].names, NEW b \in Nat, NEW v, WillHear(u, n, b, v)
      PROVE  WillHear(u, n, b, v)'
  <2>1. Polls(listeners[u], pollQueue)' = Polls(listeners[u], pollQueue)
    BY <1>6 DEF Polls
  <2>2. QED
    BY <1>6, <2>1 DEF WillHear
<1>7. FollowInv' /\ StopInv'
  BY <1>5, <1>6, SameQueue DEF IInv
<1>8. QED
  BY <1>1, <1>2, <1>3, <1>4, <1>7 DEF IInv

LEMMA RemoveListenerKeeps ==
    ASSUME IInv, NEW uid \in Uids, RemoveListener(uid)
    PROVE  IInv'
<1>1. /\ DOMAIN listeners' \subseteq DOMAIN listeners
      /\ \A u \in DOMAIN listeners' : listeners'[u] = listeners[u]
  BY DEF RemoveListener, Without
<1>2. \A u \in DOMAIN listeners' : listeners[u].poller \in Open' \cup {NoPoller}
  BY <1>1 DEF IInv, ListenersInv, RemoveListener, Open
<1>3. UNCHANGED << value, persistent, nextUid, localNotifiers, queue, todo, thread,
                   pollQueue, view, hidden, atStop, poller, sleeper >>
  BY DEF RemoveListener, entryVars, threadVars
<1>4. QED
  BY <1>1, <1>2, <1>3, SilentKeeps DEF IInv, Types

LEMMA WakeType ==
    ASSUME Types, NEW ps, Wake(ps)
    PROVE  sleeper' \in [Pollers -> {"none", "asleep", "woken"}]
BY DEF Types, Wake

LEMMA PollerKeeps ==
    ASSUME IInv, NEW p \in Pollers,
           CreatePoller(p) \/ RemovePoller(p) \/ PollWaits(p) \/ PollTimesOut(p)
    PROVE  IInv'
<1>1. CASE CreatePoller(p)
  <2>1. /\ UNCHANGED << value, persistent, nextUid, localNotifiers, queue, todo,
                        thread, pollQueue, view, hidden, atStop, sleeper, listeners >>
        /\ poller' = [poller EXCEPT ![p] = "open"]
    BY <1>1 DEF CreatePoller, entryVars, threadVars
  <2>2. poller' \in [Pollers -> {"new", "open", "removed"}] /\ Open \subseteq Open'
    BY <2>1 DEF IInv, Types, Open
  <2>3. \A u \in DOMAIN listeners' : listeners[u].poller \in Open' \cup {NoPoller}
    BY <2>1, <2>2 DEF IInv, ListenersInv
  <2>4. sleeper' \in [Pollers -> {"none", "asleep", "woken"}]
    BY <2>1 DEF IInv, Types
  <2>5. QED
    BY <2>1, <2>2, <2>3, <2>4, SilentKeeps
<1>2. CASE RemovePoller(p)
  <2>1. /\ UNCHANGED << value, persistent, nextUid, localNotifiers, queue, todo,
                        thread, pollQueue, view, hidden, atStop >>
        /\ poller' = [poller EXCEPT ![p] = "removed"] /\ Wake({p})
        /\ listeners' = Without({u \in DOMAIN listeners : listeners[u].poller = p})
    BY <1>2 DEF RemovePoller, entryVars
  <2>2. /\ DOMAIN listeners' \subseteq DOMAIN listeners
        /\ \A u \in DOMAIN listeners' : /\ listeners'[u] = listeners[u]
                                        /\ listeners[u].poller # p
    BY <2>1 DEF Without
  <2>3. poller' \in [Pollers -> {"new", "open", "removed"}] /\ Open \ {p} \subseteq Open'
    BY <2>1 DEF IInv, Types, Open
  <2>4. \A u \in DOMAIN listeners' : listeners[u].poller \in Open' \cup {NoPoller}
    BY <2>2, <2>3 DEF IInv, ListenersInv
  <2>5. sleeper' \in [Pollers -> {"none", "asleep", "woken"}]
    BY <2>1, WakeType DEF IInv
  <2>6. QED
    BY <2>1, <2>2, <2>3, <2>4, <2>5, SilentKeeps
<1>3. CASE PollWaits(p) \/ PollTimesOut(p)
  <2>1. /\ UNCHANGED << value, persistent, nextUid, localNotifiers, queue, todo,
                        thread, pollQueue, view, hidden, atStop, poller, listeners >>
        /\ \E s \in {"none", "asleep"} : sleeper' = [sleeper EXCEPT ![p] = s]
    BY <1>3 DEF PollWaits, PollTimesOut, entryVars, managerVars
  <2>2. sleeper' \in [Pollers -> {"none", "asleep", "woken"}]
    BY <2>1 DEF IInv, Types
  <2>3. \A u \in DOMAIN listeners' : listeners[u].poller \in Open' \cup {NoPoller}
    BY <2>1 DEF IInv, ListenersInv, Open
  <2>4. poller' \in [Pollers -> {"new", "open", "removed"}]
    BY <2>1 DEF IInv, Types
  <2>5. QED
    BY <2>1, <2>2, <2>3, <2>4, SilentKeeps
<1>4. QED
  BY <1>1, <1>2, <1>3

\* What a poll takes is what its listeners hear.
LEMMA PollKeeps ==
    ASSUME IInv, NEW p \in Pollers, Poll(p)
    PROVE  IInv'
<1> DEFINE told(u, n) == {i \in DOMAIN pollQueue[p] : Has(pollQueue[p][i], u, n)}
<1>1. /\ UNCHANGED << value, persistent, nextUid, localNotifiers, queue, todo,
                      thread, hidden, atStop, poller, listeners >>
      /\ sleeper' = [sleeper EXCEPT ![p] = "none"]
      /\ pollQueue' = [pollQueue EXCEPT ![p] = << >>]
  BY DEF Poll, entryVars, managerVars
<1>2. \A u \in Uids : \A n \in Names :
         view'[u][n] = IF told(u, n) = {} THEN view[u][n]
                       ELSE Says(pollQueue[p][Max(told(u, n))].note)
  BY DEF Poll, Has
<1>3. /\ pollQueue \in [Pollers -> Seq(Due)] /\ pollQueue[p] \in Seq(Due)
      /\ view \in [Uids -> [Names -> Values \cup {NoValue}]]
      /\ pollQueue' \in [Pollers -> Seq(Due)] /\ pollQueue'[p] = << >>
      /\ \A o \in Pollers \ {p} : pollQueue'[o] = pollQueue[o]
  BY <1>1 DEF IInv, Types
<1>4. ASSUME NEW u \in Uids, NEW n \in Names, told(u, n) # {}
      PROVE  /\ Max(told(u, n)) \in DOMAIN pollQueue[p]
             /\ Has(pollQueue[p][Max(told(u, n))], u, n)
  <2>1. told(u, n) \in SUBSET (1 .. Len(pollQueue[p])) /\ Len(pollQueue[p]) \in Nat
    BY <1>3
  <2>2. Max(told(u, n)) \in told(u, n)
    <3> HIDE DEF told
    <3>1. QED
      BY <1>4, <2>1, GreatestOf
  <2>3. QED
    BY <2>2
<1>5. view' \in [Uids -> [Names -> Values \cup {NoValue}]]
  <2>1. view' = [u \in Uids |-> [n \in Names |-> view'[u][n]]]
    BY DEF Poll
  <2>2. ASSUME NEW u \in Uids, NEW n \in Names
        PROVE  view'[u][n] \in Values \cup {NoValue}
    <3>1. CASE told(u, n) = {}
      BY <1>2, <1>3, <3>1
    <3>2. CASE told(u, n) # {}
      <4>1. PICK m \in DOMAIN pollQueue[p] : m = Max(told(u, n))
        <5>1. Max(told(u, n)) \in DOMAIN pollQueue[p]
          BY <1>4, <3>2
        <5> HIDE DEF told
        <5>2. QED
          BY <5>1
      <4>2. pollQueue[p][m] \in Due
        BY <1>3
      <4>3. Says(pollQueue[p][m].note) \in Values \cup {NoValue}
        BY <4>2, NoteFacts DEF Due
      <4>4. view'[u][n] = Says(pollQueue[p][m].note)
        <5>1. view'[u][n] = IF told(u, n) = {} THEN view[u][n]
                            ELSE Says(pollQueue[p][Max(told(u, n))].note)
          BY <1>2
        <5> HIDE DEF told
        <5>2. QED
          BY <3>2, <4>1, <5>1
      <4>5. QED
        BY <4>3, <4>4
    <3>3. QED
      BY <3>1, <3>2
  <2>3. QED
    BY <2>1, <2>2
<1>6. Types'
  BY <1>1, <1>3, <1>5 DEF IInv, Types
<1>7. ListenersInv'
  BY <1>1 DEF IInv, ListenersInv, Open
<1>8. WaysInv'
  <2>1. ASSUME NEW o \in Pollers, NEW i \in DOMAIN pollQueue'[o]
        PROVE  /\ pollQueue'[o][i].uid < nextUid
               /\ pollQueue'[o][i].uid \in DOMAIN listeners
                     => listeners[pollQueue'[o][i].uid].poller = o
    <3>1. o # p /\ pollQueue'[o] = pollQueue[o]
      BY <1>3, <2>1
    <3>2. QED
      BY <2>1, <3>1 DEF IInv, WaysInv
  <2>2. ASSUME NEW u \in Uids, u >= nextUid, NEW n \in Names
        PROVE  view'[u][n] = NoValue
    <3>1. u \in Nat /\ nextUid \in Nat
      BY UidFacts DEF IInv, Types
    <3>2. \A i \in DOMAIN pollQueue[p] : ~Has(pollQueue[p][i], u, n)
      <4>1. \A i \in DOMAIN pollQueue[p] : pollQueue[p][i].uid < nextUid
        BY DEF IInv, WaysInv
      <4>2. QED
        BY <2>2, <3>1, <4>1 DEF Has
    <3>3. view[u][n] = NoValue
      BY <2>2 DEF IInv, WaysInv
    <3>4. QED
      BY <1>2, <3>2, <3>3
  <2>3. QED
    BY <1>1, <2>1, <2>2 DEF IInv, WaysInv
<1>9. GoneInv'
  BY <1>1 DEF IInv, GoneInv
<1>10. thread = "ended" => todo' = {}
  BY <1>1 DEF IInv, StopInv
<1>11. ASSUME NEW u \in Followers, listeners'[u] = listeners[u],
              NEW n \in listeners[u].names, NEW b \in Nat, NEW v, WillHear(u, n, b, v)
       PROVE  WillHear(u, n, b, v)'
  <2>1. u \in Uids /\ n \in Names /\ u \in DOMAIN listeners
    BY HearFacts DEF IInv
  <2>2. CASE listeners[u].poller = p
    <3>1. /\ Polls(listeners[u], pollQueue) = pollQueue[p]
          /\ Polls(listeners[u], pollQueue)' = << >>
      BY <1>1, <1>3, <2>2 DEF Polls
    <3>2. PICK s : s = told(u, n)
      OBVIOUS
    <3>3. PICK seen, heard : seen = view[u][n] /\ heard = view'[u][n]
      OBVIOUS
    <3>4. heard = IF s = {} THEN seen ELSE Says(pollQueue[p][Max(s)].note)
      BY <1>2, <2>1, <3>2, <3>3
    <3>5. Taken(todo, pollQueue[p], seen, u, n, v) => Taken(todo, << >>, heard, u, n, v)
      <4>1. PICK polls \in Seq(Due) : polls = pollQueue[p]
        BY <1>3
      <4>2. s \in SUBSET DOMAIN polls /\ \A i \in DOMAIN polls : i \in s <=> Has(polls[i], u, n)
        BY <3>2, <4>1
      <4>3. heard = IF s = {} THEN seen ELSE Says(polls[Max(s)].note)
        BY <3>4, <4>1
      <4>4. ASSUME Taken(todo, polls, seen, u, n, v)
            PROVE  Taken(todo, << >>, heard, u, n, v)
        BY ONLY <4>1, <4>2, <4>3, <4>4, TakenByPoll
      <4>5. QED
        BY <4>1, <4>4
    <3>6. Settled(queue, todo, pollQueue[p], seen, listeners[u], u, n, b, v)
      BY <1>11, <3>1, <3>3 DEF WillHear
    <3>7. Settled(queue, todo, << >>, heard, listeners[u], u, n, b, v)
      BY <3>5, <3>6, SettledAs
    <3>8. QED
      BY <1>1, <3>1, <3>3, <3>7 DEF WillHear
  <2>3. CASE listeners[u].poller # p
    <3>1. Polls(listeners[u], pollQueue)' = Polls(listeners[u], pollQueue)
      BY <1>1, <1>3, <2>3 DEF Polls
    <3>2. told(u, n) = {}
      BY <2>1, <2>3 DEF IInv, WaysInv, Has
    <3>3. view'[u][n] = view[u][n]
      BY <1>2, <2>1, <3>2
    <3>4. QED
      BY <1>1, <1>11, <3>1, <3>3 DEF WillHear
  <2>4. QED
    BY <2>2, <2>3
<1>12. FollowInv' /\ StopInv'
  BY <1>1, <1>10, <1>11, SameQueue DEF IInv
<1>13. QED
  BY <1>6, <1>7, <1>8, <1>9, <1>12 DEF IInv

\* A new listener is sent the values there are, each once.
LEMMA ImmediateFacts ==
    ASSUME Types, NEW spec \in Specs, nextUid \in Uids
    PROVE  /\ Immediate(nextUid, spec) \in Seq(Item)
           /\ \A i \in DOMAIN Immediate(nextUid, spec) :
                 LET x == Immediate(nextUid, spec)[i]
                 IN  /\ x.only = nextUid /\ x.note \in NoteType
                     /\ x.note.flags \ {"immediate", "local"} = {"new"}
                     /\ Says(x.note) = value[x.note.name]
           /\ {"immediate", "new"} \subseteq spec.flags =>
                 /\ \A n \in spec.names : value[n] # NoValue =>
                       \E i \in DOMAIN Immediate(nextUid, spec) :
                           Immediate(nextUid, spec)[i].note.name = n
                 /\ \A i, j \in DOMAIN Immediate(nextUid, spec) :
                       Immediate(nextUid, spec)[i].note.name
                          = Immediate(nextUid, spec)[j].note.name => i = j
<1> DEFINE there == {n \in spec.names : value[n] # NoValue}
           now == SetToSeq(there)
           flags == {"immediate", "new"}
           r == [i \in DOMAIN now |->
                    [only |-> nextUid, note |-> Note(now[i], value[now[i]], flags)]]
<1>1. /\ value \in [Names -> Values \cup {NoValue}] /\ spec.names \subseteq Names
      /\ IsFiniteSet({n \in Names : value[n] # NoValue})
  BY SpecFacts DEF Types
<1>2. /\ IsFiniteSet(there) /\ there \subseteq Names
      /\ \A n \in there : value[n] \in Values
  <2>1. there \subseteq {n \in Names : value[n] # NoValue}
    BY <1>1
  <2>2. QED
    BY <1>1, <2>1, FS_Subset
<1>3. \A n \in spec.names : value[n] # NoValue => n \in there
  OBVIOUS
<1>4. Immediate(nextUid, spec) = IF flags \subseteq spec.flags THEN r ELSE << >>
  BY DEF Immediate
<1>5. /\ flags \in SUBSET NotifyFlags /\ flags \ {"immediate", "local"} = {"new"}
      /\ "delete" \notin flags
  BY DEF NotifyFlags
<1> HIDE DEF there, flags
<1>6. /\ now \in Seq(there)
      /\ \A x \in there : \E i \in DOMAIN now : now[i] = x
      /\ \A i, j \in DOMAIN now : now[i] = now[j] => i = j
  BY <1>2, SetToSeqLists
<1>7. \A i \in DOMAIN now : now[i] \in there
  BY <1>6
<1> HIDE DEF now
<1>8. ASSUME NEW n \in there
      PROVE  LET note == Note(n, value[n], flags)
             IN  /\ note \in NoteType /\ note.name = n /\ note.flags = flags
                 /\ Says(note) = value[n]
                 /\ [only |-> nextUid, note |-> note] \in Item
  <2> DEFINE note == Note(n, value[n], flags)
  <2>1. note \in NoteType /\ note.name = n /\ note.flags = flags
        /\ Says(note) = value[n]
    BY <1>2, <1>5 DEF Note, NoteType, Kinds, Says
  <2> HIDE DEF note
  <2>2. [only |-> nextUid, note |-> note] \in Item
    BY <2>1 DEF Item
  <2>3. QED
    BY <2>1, <2>2 DEF note
<1>9. /\ DOMAIN r = DOMAIN now
      /\ \A i \in DOMAIN r :
            /\ r[i] \in Item /\ r[i].only = nextUid /\ r[i].note \in NoteType
            /\ r[i].note.name = now[i] /\ r[i].note.flags = flags
            /\ Says(r[i].note) = value[now[i]]
  BY <1>7, <1>8
<1>10. r \in Seq(Item)
  <2>1. DOMAIN now = 1 .. Len(now) /\ Len(now) \in Nat
    BY <1>6
  <2>2. r = [i \in 1 .. Len(now) |-> r[i]] /\ \A i \in 1 .. Len(now) : r[i] \in Item
    BY <1>9, <2>1
  <2> HIDE DEF r
  <2>3. r \in [1 .. Len(now) -> Item]
    BY <2>2
  <2>4. QED
    BY <2>1, <2>3
<1> HIDE DEF r
<1>11. CASE flags \subseteq spec.flags
  <2>1. Immediate(nextUid, spec) = r
    BY <1>4, <1>11
  <2>2. \A n \in spec.names : value[n] # NoValue =>
           \E i \in DOMAIN r : r[i].note.name = n
    BY <1>3, <1>6, <1>9
  <2>3. \A i, j \in DOMAIN r : r[i].note.name = r[j].note.name => i = j
    BY <1>6, <1>9
  <2>4. QED
    BY <1>5, <1>9, <1>10, <2>1, <2>2, <2>3
<1>12. CASE ~(flags \subseteq spec.flags)
  <2>1. Immediate(nextUid, spec) = << >>
    BY <1>4, <1>12
  <2>2. QED
    BY <1>12, <2>1 DEF flags
<1>13. QED
  BY <1>11, <1>12

\* A new listener that asks for every value is sent what there is; that an entry
\* is gone it has heard, or will hear last.
LEMMA AddListenerKeeps ==
    ASSUME IInv, NEW spec \in Specs, AddListener(spec)
    PROVE  IInv'
<1> DEFINE r == Immediate(nextUid, spec)
           k == Len(queue)
<1>1. /\ UNCHANGED << value, persistent, poller, todo, thread, pollQueue, sleeper,
                      view, hidden, atStop >>
      /\ queue' = queue \o r
      /\ nextUid \in Uids /\ nextUid' = nextUid + 1
      /\ spec.poller \in Open \cup {NoPoller}
      /\ DOMAIN listeners' = DOMAIN listeners \cup {nextUid}
      /\ \A u \in DOMAIN listeners : u # nextUid => listeners'[u] = listeners[u]
      /\ listeners'[nextUid] = spec
      /\ localNotifiers' = (localNotifiers \/ "local" \in spec.flags)
  BY DEF AddListener, Register, entryVars, threadVars
<1>2. /\ queue \in Seq(Item \cup {StopItem}) /\ k \in Nat
      /\ nextUid \in Nat /\ nextUid + 1 \in 0 .. MaxListeners
      /\ DOMAIN listeners \subseteq 0 .. (nextUid - 1)
      /\ nextUid # Everybody
  BY <1>1, UidFacts DEF IInv, Types, Uids
<1>3. /\ r \in Seq(Item) /\ r \in Seq(Item \cup {StopItem})
      /\ \A i \in DOMAIN r :
            /\ r[i].only = nextUid /\ r[i].note \in NoteType
            /\ r[i].note.flags \ {"immediate", "local"} = {"new"}
            /\ Says(r[i].note) = value[r[i].note.name]
            /\ r[i] # StopItem
  BY <1>1, ImmediateFacts, ItemsAreNotStop DEF IInv
<1>4. Follows(spec) =>
         /\ \A n \in spec.names : value[n] # NoValue =>
               \E i \in DOMAIN r : r[i].note.name = n
         /\ \A i, j \in DOMAIN r : r[i].note.name = r[j].note.name => i = j
  BY <1>1, ImmediateFacts DEF IInv, Follows
<1> HIDE DEF r
<1>5. /\ DOMAIN queue' = 1 .. (k + Len(r)) /\ Len(r) \in Nat /\ Len(queue') = k + Len(r)
      /\ DOMAIN r = 1 .. Len(r) /\ DOMAIN queue = 1 .. k
      /\ \A i \in DOMAIN queue : i \in DOMAIN queue' /\ queue'[i] = queue[i]
      /\ \A i \in DOMAIN r : k + i \in DOMAIN queue' /\ queue'[k + i] = r[i]
      /\ \A i \in DOMAIN queue' :
            \/ i \in DOMAIN queue /\ i <= k
            \/ i > k /\ i - k \in DOMAIN r /\ queue'[i] = r[i - k]
  BY <1>1, <1>2, <1>3
<1>6. Types'
  <2>1. queue' \in Seq(Item \cup {StopItem})
    BY <1>1, <1>2, <1>3
  <2>2. DOMAIN listeners' \subseteq 0 .. (nextUid' - 1)
    BY <1>1, <1>2
  <2>3. \A u \in DOMAIN listeners' : listeners'[u] \in Specs
    BY <1>1 DEF IInv, Types
  <2>4. nextUid' \in 0 .. MaxListeners
    BY <1>1, <1>2
  <2>5. localNotifiers' \in BOOLEAN
    BY <1>1 DEF IInv, Types
  <2>6. QED
    BY <1>1, <2>1, <2>2, <2>3, <2>4, <2>5 DEF IInv, Types
<1>7. ListenersInv'
  BY <1>1, <1>2 DEF IInv, ListenersInv, Open
<1>8. WaysInv'
  <2>1. \A i \in DOMAIN queue' : queue'[i] # StopItem /\ queue'[i].only # Everybody
           => queue'[i].only < nextUid'
    <3>1. ASSUME NEW i \in DOMAIN queue', queue'[i] # StopItem,
                 queue'[i].only # Everybody
          PROVE  queue'[i].only < nextUid'
      <4>1. CASE i \in DOMAIN queue
        <5>1. queue'[i] = queue[i] /\ queue[i] \in Item
          BY <1>2, <1>5, <3>1, <4>1
        <5>2. queue[i].only \in Nat /\ queue[i].only < nextUid
          BY <3>1, <5>1, ItemsAreNotStop, UidFacts, <4>1 DEF IInv, WaysInv
        <5>3. QED
          BY <1>1, <1>2, <5>1, <5>2
      <4>2. CASE i \notin DOMAIN queue
        <5>1. queue'[i].only = nextUid
          BY <1>3, <1>5, <4>2
        <5>2. QED
          BY <1>1, <1>2, <5>1
      <4>3. QED
        BY <4>1, <4>2
    <3>2. QED
      BY <3>1
  <2>2. ASSUME NEW d \in Due, d.uid < nextUid
        PROVE  /\ d.uid < nextUid'
               /\ d.uid \in DOMAIN listeners' =>
                     d.uid \in DOMAIN listeners /\ listeners'[d.uid] = listeners[d.uid]
    <3>1. d.uid \in Nat
      BY UidFacts DEF Due
    <3>2. QED
      BY <1>1, <1>2, <2>2, <3>1
  <2>3. \A d \in todo' :
          /\ d.uid < nextUid'
          /\ d.uid \in DOMAIN listeners' => d.poller = listeners'[d.uid].poller
          /\ \A e \in todo' : e.uid = d.uid => e = d
    BY <1>1, <2>2 DEF IInv, Types, WaysInv
  <2>4. ASSUME NEW p \in Pollers, NEW i \in DOMAIN pollQueue'[p]
        PROVE  /\ pollQueue'[p][i].uid < nextUid'
               /\ pollQueue'[p][i].uid \in DOMAIN listeners'
                     => listeners'[pollQueue'[p][i].uid].poller = p
    <3>1. pollQueue[p] \in Seq(Due) /\ pollQueue'[p] = pollQueue[p]
      BY <1>1 DEF IInv, Types
    <3>2. pollQueue[p][i] \in Due
      BY <2>4, <3>1
    <3>3. QED
      BY <2>2, <2>4, <3>1, <3>2 DEF IInv, WaysInv
  <2>5. \A u \in Uids : u >= nextUid' => \A n \in Names : view'[u][n] = NoValue
    <3>1. \A u \in Uids : u >= nextUid' => u >= nextUid
      BY <1>1, <1>2, UidFacts
    <3>2. QED
      BY <1>1, <3>1 DEF IInv, WaysInv
  <2>6. QED
    BY <2>1, <2>3, <2>4, <2>5 DEF WaysInv
<1>9. GoneInv'
  <2>1. \A n, i : i \in DOMAIN queue' /\ About(queue'[i], n)
           => i \in DOMAIN queue /\ queue'[i] = queue[i]
    BY <1>2, <1>3, <1>5 DEF About
  <2> SUFFICES ASSUME NEW n \in Names, n \notin hidden, value[n] = NoValue,
                      NEW i \in DOMAIN queue', About(queue'[i], n),
                      \A j \in DOMAIN queue' : j > i => ~About(queue'[j], n)
               PROVE  "delete" \in queue'[i].note.flags
    BY <1>1 DEF GoneInv
  <2>2. i \in DOMAIN queue /\ queue'[i] = queue[i]
    BY <2>1
  <2>3. \A j \in DOMAIN queue : j > i => ~About(queue[j], n)
    BY <1>5
  <2>4. QED
    BY <2>2, <2>3 DEF IInv, GoneInv
<1>10. FollowInv'
  <2> SUFFICES ASSUME NEW u \in Followers', NEW n \in (listeners[u].names \ hidden)'
               PROVE  WillHear(u, n, Len(queue) + 1, value[n])'
    BY DEF FollowInv
  <2>1. CASE u \in DOMAIN listeners
    <3>1. u # nextUid /\ u \in Nat
      BY <1>2, <2>1
    <3>2. u \in Followers /\ listeners'[u] = listeners[u]
          /\ n \in listeners[u].names \ hidden
      BY <1>1, <2>1, <3>1 DEF Followers
    <3>3. PICK b \in Nat : b = k + 1
      BY <1>2
    <3>4. PICK v : v = value[n]
      OBVIOUS
    <3>5. WillHear(u, n, b, v)
      BY <3>2, <3>3, <3>4 DEF IInv, FollowInv
    <3>6. u # Everybody
      BY <3>2, HearFacts DEF IInv
    <3>7. \A i \in DOMAIN r : ~For(r[i], listeners[u], u, n)
      BY <1>2, <1>3, <3>1, <3>6 DEF For
    <3>8. WillHear(u, n, Len(queue) + 1, v)'
      BY <1>1, <1>3, <3>2, <3>3, <3>5, <3>7, Appended DEF IInv
    <3>9. QED
      BY <1>1, <3>4, <3>8 DEF WillHear
  <2>2. CASE u \notin DOMAIN listeners
    <3>1. u = nextUid /\ listeners'[u] = spec /\ Follows(spec)
          /\ n \in spec.names /\ n \in Names /\ n \notin hidden
      BY <1>1, <2>2, SpecFacts DEF Followers
    <3>2. CASE value[n] # NoValue
      <4>1. PICK i \in DOMAIN r : r[i].note.name = n
        BY <1>4, <3>1, <3>2
      <4>2. For(r[i], spec, u, n) /\ Says(r[i].note) = value[n]
        <5>1. r[i].note \in NoteType
              /\ r[i].note.flags \ {"immediate", "local"} # {"flags"}
          BY <1>3
        <5>2. Matches(spec, r[i].note)
          BY <3>1, <4>1, <5>1, FollowersMatch
        <5>3. QED
          BY <1>3, <3>1, <4>1, <5>2 DEF For
      <4>3. ASSUME NEW j \in DOMAIN queue', k + i < j
            PROVE  ~For(queue'[j], spec, u, n)
        <5>1. j - k \in DOMAIN r /\ queue'[j] = r[j - k] /\ j - k # i
          BY <1>2, <1>5, <4>3
        <5>2. r[j - k].note.name # n
          BY <1>4, <3>1, <4>1, <5>1
        <5>3. QED
          BY <5>1, <5>2 DEF For
      <4>4. k + i \in DOMAIN queue' /\ queue'[k + i] = r[i] /\ k + i < Len(queue') + 1
        BY <1>2, <1>5
      <4>5. LastSays(queue', spec, u, n, Len(queue') + 1, value[n])
        BY <4>2, <4>3, <4>4 DEF LastSays
      <4>6. QED
        BY <1>1, <3>1, <4>5 DEF WillHear, Settled
    <3>3. CASE value[n] = NoValue
      <4> DEFINE S == {i \in DOMAIN queue : About(queue[i], n)}
      <4>1. ASSUME NEW j \in DOMAIN queue', For(queue'[j], spec, u, n)
            PROVE  j \in S /\ queue'[j] = queue[j]
        <5>1. CASE j \in DOMAIN queue
          <6>1. queue'[j] = queue[j] /\ queue[j] \in Item \cup {StopItem}
            BY <1>2, <1>5, <5>1
          <6>2. queue[j].only # nextUid
            <7>1. queue[j] # StopItem
              BY <4>1, <6>1 DEF For
            <7>2. SUFFICES ASSUME queue[j].only = nextUid PROVE FALSE
              OBVIOUS
            <7>3. nextUid < nextUid
              BY <1>2, <5>1, <7>1, <7>2 DEF IInv, WaysInv
            <7>4. QED
              BY <1>2, <7>3
          <6>3. QED
            BY <3>1, <4>1, <5>1, <6>1, <6>2 DEF For, About
        <5>2. CASE j \notin DOMAIN queue
          <6>1. j - k \in DOMAIN r /\ queue'[j] = r[j - k]
            BY <1>5, <5>2
          <6>2. Says(r[j - k].note) = NoValue /\ r[j - k].note.name = n
            BY <1>3, <3>3, <4>1, <6>1 DEF For
          <6>3. r[j - k].note \in NoteType
                /\ r[j - k].note.flags \ {"immediate", "local"} = {"new"}
            BY <1>3, <6>1
          <6>4. "delete" \in r[j - k].note.flags
            BY <6>2, <6>3, NoteFacts
          <6>5. QED
            BY <6>3, <6>4
        <5>3. QED
          BY <5>1, <5>2
      <4>2. CASE S = {}
        <5>1. NoneSays(queue', spec, u, n, Len(queue') + 1)
          BY <4>1, <4>2 DEF NoneSays
        <5>2. ASSUME NEW d \in todo PROVE ~Has(d, u, n)
          BY <1>2, <3>1 DEF IInv, WaysInv, Has
        <5>3. \A i \in DOMAIN Polls(spec, pollQueue) :
                 ~Has(Polls(spec, pollQueue)[i], u, n)
          BY <1>2, <3>1 DEF IInv, WaysInv, Has, Polls
        <5>4. view[u][n] = NoValue
          BY <1>1, <1>2, <3>1 DEF IInv, WaysInv
        <5>5. Taken(todo, Polls(spec, pollQueue), view[u][n], u, n, value[n])
          BY <3>3, <5>2, <5>3, <5>4 DEF Taken
        <5>6. Polls(listeners[u], pollQueue)' = Polls(spec, pollQueue)
          BY <1>1, <3>1 DEF Polls
        <5>7. QED
          BY <1>1, <3>1, <5>1, <5>5, <5>6 DEF WillHear, Settled
      <4>3. CASE S # {}
        <5>1. S \in SUBSET (1 .. k)
          BY <1>5
        <5>2. Max(S) \in S /\ \A x \in S : x <= Max(S)
          <6> HIDE DEF S
          <6>1. QED
            BY <1>2, <4>3, <5>1, GreatestOf
        <5>3. PICK m \in S : \A x \in S : x <= m
          <6> HIDE DEF S
          <6>1. QED
            BY <5>2
        <5>4. m \in DOMAIN queue /\ About(queue[m], n)
          OBVIOUS
        <5>5. \A j \in DOMAIN queue : j > m => ~About(queue[j], n)
          BY <1>5, <5>1, <5>3
        <5>6. "delete" \in queue[m].note.flags
          BY <3>1, <3>3, <5>4, <5>5 DEF IInv, GoneInv
        <5>7. queue[m] \in Item /\ queue[m].note \in NoteType
          BY <1>2, <5>4, ItemsAreNotStop DEF About
        <5>8. Says(queue[m].note) = NoValue
          BY <5>6, <5>7, NoteFacts
        <5>9. Matches(spec, queue[m].note)
          <6>1. queue[m].note.flags \ {"immediate", "local"} # {"flags"}
            BY <5>6
          <6>2. QED
            BY <3>1, <5>4, <5>7, <6>1, FollowersMatch DEF About
        <5>10. For(queue'[m], spec, u, n) /\ m \in DOMAIN queue' /\ queue'[m] = queue[m]
          BY <1>5, <5>4, <5>9 DEF For, About
        <5>11. \A j \in DOMAIN queue' : m < j => ~For(queue'[j], spec, u, n)
          BY <1>5, <4>1, <5>1, <5>3
        <5>12. m < Len(queue') + 1
          BY <1>2, <1>5, <5>4
        <5>13. LastSays(queue', spec, u, n, Len(queue') + 1, value[n])
          BY <3>3, <5>8, <5>10, <5>11, <5>12 DEF LastSays
        <5>14. QED
          BY <1>1, <3>1, <5>13 DEF WillHear, Settled
      <4>4. QED
        BY <4>2, <4>3
    <3>4. QED
      BY <3>2, <3>3
  <2>3. QED
    BY <2>1, <2>2
<1>11. StopInv'
  <2>1. /\ nextUid' \in Nat /\ nextUid <= nextUid'
        /\ \A u \in DOMAIN listeners' : u < nextUid =>
               u \in DOMAIN listeners /\ listeners'[u] = listeners[u]
        /\ DOMAIN listeners' \subseteq Nat /\ DOMAIN listeners \subseteq Nat
    BY <1>1, <1>2
  <2>2. QED
    BY <1>1, <1>2, <1>3, <2>1, StopKept DEF IInv
<1>12. QED
  BY <1>6, <1>7, <1>8, <1>9, <1>10, <1>11 DEF IInv

-----------------------------------------------------------------------------
(* The thread, and the end *)

\* A step that takes the head of the queue.
LEMMA HeadGone ==
    ASSUME Types, WaysInv, GoneInv, FollowInv,
           queue # << >>, queue' = Tail(queue), todo = {},
           UNCHANGED << value, listeners, nextUid, pollQueue, view, hidden >>,
           ASSUME NEW u \in Followers, NEW n \in listeners[u].names,
                  NEW b \in Nat, b > 1, NEW v, WillHear(u, n, b, v)
           PROVE  WillHear(u, n, b - 1, v)'
    PROVE  /\ \A i \in DOMAIN queue' :
                 queue'[i] # StopItem /\ queue'[i].only # Everybody
                    => queue'[i].only < nextUid'
           /\ GoneInv' /\ FollowInv'
<1>1. queue \in Seq(Item \cup {StopItem})
  BY DEF Types
<1>2. /\ \A j \in DOMAIN queue' : j \in Nat /\ j + 1 \in DOMAIN queue
                                  /\ queue'[j] = queue[j + 1]
      /\ \A j \in DOMAIN queue : j = 1 \/ (j - 1 \in DOMAIN queue'
                                           /\ queue'[j - 1] = queue[j])
      /\ \A j \in DOMAIN queue : j \in Nat
      /\ Len(queue) \in Nat /\ Len(queue) > 0 /\ Len(queue') = Len(queue) - 1
  BY <1>1
<1>3. \A i \in DOMAIN queue' : queue'[i] # StopItem /\ queue'[i].only # Everybody
         => queue'[i].only < nextUid'
  BY <1>2 DEF WaysInv
<1>4. GoneInv'
  <2> SUFFICES ASSUME NEW n \in Names, n \notin hidden, value[n] = NoValue,
                      NEW i \in DOMAIN queue', About(queue'[i], n),
                      \A j \in DOMAIN queue' : j > i => ~About(queue'[j], n)
               PROVE  "delete" \in queue'[i].note.flags
    BY DEF GoneInv
  <2>1. i \in Nat /\ i + 1 \in DOMAIN queue /\ queue'[i] = queue[i + 1]
    BY <1>2
  <2>2. ASSUME NEW j \in DOMAIN queue, j > i + 1 PROVE ~About(queue[j], n)
    <3>1. j - 1 \in DOMAIN queue' /\ queue'[j - 1] = queue[j] /\ j - 1 > i
      BY <1>2, <2>1, <2>2
    <3>2. QED
      BY <3>1
  <2>3. QED
    BY <2>1, <2>2 DEF GoneInv
<1>5. FollowInv'
  <2> SUFFICES ASSUME NEW u \in Followers', NEW n \in (listeners[u].names \ hidden)'
               PROVE  WillHear(u, n, Len(queue) + 1, value[n])'
    BY DEF FollowInv
  <2>1. u \in Followers /\ n \in listeners[u].names \ hidden
    BY DEF Followers
  <2>2. PICK b \in Nat : b = Len(queue) + 1
    BY <1>2
  <2>3. PICK v : v = value[n]
    OBVIOUS
  <2>4. WillHear(u, n, b, v)
    BY <2>1, <2>2, <2>3 DEF FollowInv
  <2>5. WillHear(u, n, b - 1, v)'
    BY <1>2, <2>1, <2>2, <2>4
  <2>6. b - 1 = Len(queue') + 1
    BY <1>2, <2>2
  <2>7. QED
    BY <2>3, <2>5, <2>6 DEF WillHear
<1>6. QED
  BY <1>3, <1>4, <1>5

\* The thread takes a notification for the listeners there are.
LEMMA TakeKeeps ==
    ASSUME IInv, Take
    PROVE  IInv'
<1> DEFINE item == Head(queue)
           uids == {u \in DOMAIN listeners : /\ item.only \in {Everybody, u}
                                             /\ Matches(listeners[u], item.note)}
<1>1. /\ thread = "running" /\ todo = {} /\ queue # << >> /\ item # StopItem
      /\ queue' = Tail(queue)
      /\ todo' = {[uid |-> u, poller |-> listeners[u].poller,
                   note |-> item.note] : u \in uids}
      /\ UNCHANGED << value, persistent, listeners, nextUid, localNotifiers, poller,
                      thread, pollQueue, sleeper, view, hidden, atStop >>
  BY DEF Take, entryVars, managerVars
<1>2. /\ queue \in Seq(Item \cup {StopItem}) /\ item = queue[1]
      /\ 1 \in DOMAIN queue /\ queue' \in Seq(Item \cup {StopItem})
  BY <1>1 DEF IInv, Types
<1>3. item \in Item /\ item.note \in NoteType
  BY <1>1, <1>2, ItemsAreNotStop
<1> HIDE DEF item
<1>4. \A d \in todo' : /\ d.uid \in uids /\ d.poller = listeners[d.uid].poller
                       /\ d.note = item.note
                       /\ \A e \in todo' : e.uid = d.uid => e = d
  BY <1>1
<1>5. ASSUME NEW u \in uids PROVE \E d \in todo' : d.uid = u /\ d.note = item.note
  <2>1. [uid |-> u, poller |-> listeners[u].poller, note |-> item.note] \in todo'
    <3> HIDE DEF uids
    <3>1. QED
      BY <1>1
  <2>2. QED
    BY <2>1
<1>6. \A u \in uids : u \in DOMAIN listeners /\ u \in Uids /\ u < nextUid
                      /\ listeners[u].poller \in Pollers \cup {NoPoller}
  <2>1. DOMAIN listeners \subseteq 0 .. (nextUid - 1) /\ nextUid \in 0 .. MaxListeners
    BY DEF IInv, Types
  <2>2. \A u \in DOMAIN listeners : u \in Uids /\ u < nextUid
    BY <2>1, UidFacts
  <2>3. \A u \in DOMAIN listeners : listeners[u] \in Specs
    BY DEF IInv, Types
  <2>4. QED
    BY <2>2, <2>3, SpecFacts
<1>7. todo' \subseteq Due
  BY <1>1, <1>3, <1>6 DEF Due
<1>8. Types'
  BY <1>1, <1>2, <1>7 DEF IInv, Types
<1>9. ListenersInv'
  BY <1>1 DEF IInv, ListenersInv, Open
<1>10. ASSUME NEW u \in Followers, NEW n \in listeners[u].names,
              NEW b \in Nat, b > 1, NEW v, WillHear(u, n, b, v)
       PROVE  WillHear(u, n, b - 1, v)'
  <2>1. PICK due : due = todo'
    OBVIOUS
  <2>2. u \in DOMAIN listeners
    BY HearFacts DEF IInv
  <2>3. For(queue[1], listeners[u], u, n) <=> u \in uids /\ item.note.name = n
    BY <1>1, <1>2, <2>2 DEF For
  <2> HIDE DEF uids
  <2>4. For(queue[1], listeners[u], u, n) =>
           \E d \in due : Has(d, u, n) /\ d.note = queue[1].note
    BY <1>2, <1>5, <2>1, <2>3 DEF Has
  <2>5. \A d \in due : Has(d, u, n) =>
           For(queue[1], listeners[u], u, n) /\ d.note = queue[1].note
    BY <1>2, <1>4, <2>1, <2>3 DEF Has
  <2>6. PICK l, polls, seen : /\ l = listeners[u] /\ seen = view[u][n]
                              /\ polls = Polls(listeners[u], pollQueue)
    OBVIOUS
  <2>7. Settled(queue, {}, polls, seen, l, u, n, b, v)
    BY <1>1, <1>10, <2>6 DEF WillHear
  <2>8. Settled(Tail(queue), due, polls, seen, l, u, n, b - 1, v)
    BY <1>1, <1>2, <1>10, <2>4, <2>5, <2>6, <2>7, HeadTaken
  <2>9. polls = Polls(listeners[u], pollQueue)'
    BY <1>1, <2>6 DEF Polls
  <2>10. QED
    BY <1>1, <2>1, <2>6, <2>8, <2>9 DEF WillHear
<1>11. /\ \A i \in DOMAIN queue' : queue'[i] # StopItem /\ queue'[i].only # Everybody
             => queue'[i].only < nextUid'
       /\ GoneInv' /\ FollowInv'
  BY <1>1, <1>10, HeadGone DEF IInv
<1>12. WaysInv'
  BY <1>1, <1>4, <1>6, <1>11 DEF IInv, WaysInv
<1>13. StopInv'
  <2>1. /\ \A j \in DOMAIN queue' : j \in Nat /\ j + 1 \in DOMAIN queue
                                    /\ queue'[j] = queue[j + 1]
        /\ \A j \in DOMAIN queue : j = 1 \/ (j - 1 \in DOMAIN queue'
                                             /\ queue'[j - 1] = queue[j])
        /\ \A j \in DOMAIN queue : j \in Nat /\ j >= 1
    BY <1>1, <1>2
  <2>2. CASE atStop = << >>
    <3>1. \A i \in DOMAIN queue : queue[i] # StopItem
      BY <2>2 DEF IInv, StopInv
    <3>2. QED
      BY <1>1, <2>1, <2>2, <3>1 DEF StopInv
  <2>3. CASE atStop # << >>
    <3>1. PICK b \in Nat :
             /\ EndsAt(b)
             /\ \A u \in Followers \cap atStop.uids :
                   \A n \in listeners[u].names \ hidden :
                       WillHear(u, n, b, atStop.value[n])
      BY <2>3 DEF IInv, StopInv
    <3>2. b \in DOMAIN queue /\ queue[b] = StopItem /\ b # 1
      BY <1>1, <1>2, <3>1 DEF EndsAt
    <3>3. b > 1 /\ b - 1 \in Nat /\ EndsAt(b - 1)'
      BY <1>1, <2>1, <3>1, <3>2 DEF EndsAt
    <3>4. ASSUME NEW u \in (Followers \cap atStop.uids)',
                 NEW n \in (listeners[u].names \ hidden)'
          PROVE  WillHear(u, n, b - 1, atStop.value[n])'
      <4>1. u \in Followers \cap atStop.uids /\ n \in listeners[u].names \ hidden
        BY <1>1 DEF Followers
      <4>2. PICK v : v = atStop.value[n]
        OBVIOUS
      <4>3. WillHear(u, n, b, v)
        BY <3>1, <4>1, <4>2
      <4>4. WillHear(u, n, b - 1, v)'
        BY <1>10, <3>3, <4>1, <4>3
      <4>5. QED
        BY <1>1, <4>2, <4>4 DEF WillHear
    <3>5. \A i, j \in DOMAIN queue' :
             queue'[i] = StopItem /\ queue'[j] = StopItem => i = j
      <4>1. ASSUME NEW i \in DOMAIN queue', NEW j \in DOMAIN queue',
                   queue'[i] = StopItem, queue'[j] = StopItem
            PROVE  i = j
        <5>1. i + 1 = j + 1
          BY <2>1, <4>1 DEF IInv, StopInv
        <5>2. QED
          BY <2>1, <5>1
      <4>2. QED
        BY <4>1
    <3>6. atStop'.uids \subseteq 0 .. (nextUid' - 1)
      BY <1>1, <2>3 DEF IInv, StopInv
    <3>7. QED
      BY <1>1, <2>3, <3>3, <3>4, <3>5, <3>6 DEF StopInv
  <2>4. QED
    BY <2>2, <2>3
<1>14. QED
  BY <1>8, <1>9, <1>11, <1>12, <1>13 DEF IInv

\* The thread takes the item that ends it: what follows in the queue is not told.
LEMMA EndKeeps ==
    ASSUME IInv, End
    PROVE  IInv'
<1>1. /\ thread = "running" /\ thread' = "ended" /\ todo = {}
      /\ queue # << >> /\ Head(queue) = StopItem
      /\ queue' = Tail(queue)
      /\ UNCHANGED << value, persistent, listeners, nextUid, localNotifiers, poller,
                      todo, pollQueue, view, hidden, atStop >>
      /\ Wake(Open)
  BY DEF End, entryVars, managerVars
<1>2. /\ queue \in Seq(Item \cup {StopItem}) /\ queue[1] = StopItem
      /\ 1 \in DOMAIN queue /\ queue' \in Seq(Item \cup {StopItem})
  BY <1>1 DEF IInv, Types
<1>3. sleeper' \in [Pollers -> {"none", "asleep", "woken"}]
  BY <1>1, WakeType DEF IInv
<1>4. Types'
  BY <1>1, <1>2, <1>3 DEF IInv, Types
<1>5. ListenersInv'
  BY <1>1 DEF IInv, ListenersInv, Open
<1>6. ASSUME NEW u \in Followers, NEW n \in listeners[u].names,
             NEW b \in Nat, b > 1, NEW v, WillHear(u, n, b, v)
      PROVE  WillHear(u, n, b - 1, v)'
  <2>1. ~For(queue[1], listeners[u], u, n)
    BY <1>2 DEF For
  <2>2. PICK l, polls, seen : /\ l = listeners[u] /\ seen = view[u][n]
                              /\ polls = Polls(listeners[u], pollQueue)
    OBVIOUS
  <2>3. Settled(queue, {}, polls, seen, l, u, n, b, v)
    BY <1>1, <1>6, <2>2 DEF WillHear
  <2>4. Settled(Tail(queue), {}, polls, seen, l, u, n, b - 1, v)
    BY <1>1, <1>2, <1>6, <2>1, <2>2, <2>3, HeadTaken
  <2>5. polls = Polls(listeners[u], pollQueue)'
    BY <1>1, <2>2 DEF Polls
  <2>6. QED
    BY <1>1, <2>2, <2>4, <2>5 DEF WillHear
<1>7. /\ \A i \in DOMAIN queue' : queue'[i] # StopItem /\ queue'[i].only # Everybody
            => queue'[i].only < nextUid'
      /\ GoneInv' /\ FollowInv'
  BY <1>1, <1>6, HeadGone DEF IInv
<1>8. WaysInv'
  BY <1>1, <1>7 DEF IInv, WaysInv
<1>9. StopInv'
  <2>1. atStop # << >>
    BY <1>2 DEF IInv, StopInv
  <2>2. ASSUME NEW j \in DOMAIN queue' PROVE queue'[j] # StopItem
    <3>1. j \in Nat /\ j >= 1 /\ j + 1 \in DOMAIN queue /\ queue'[j] = queue[j + 1]
      BY <1>1, <1>2
    <3>2. j + 1 # 1
      BY <3>1
    <3>3. QED
      BY <1>2, <3>1, <3>2 DEF IInv, StopInv
  <2>3. PICK b \in Nat :
           /\ EndsAt(b)
           /\ \A u \in Followers \cap atStop.uids :
                 \A n \in listeners[u].names \ hidden :
                     WillHear(u, n, b, atStop.value[n])
    BY <2>1 DEF IInv, StopInv
  <2>4. b = 1
    BY <1>1, <1>2, <2>3 DEF EndsAt, IInv, StopInv
  <2>5. EndsAt(1)'
    BY <1>1 DEF EndsAt
  <2>6. ASSUME NEW u \in (Followers \cap atStop.uids)',
               NEW n \in (listeners[u].names \ hidden)'
        PROVE  WillHear(u, n, 1, atStop.value[n])'
    <3>1. u \in Followers \cap atStop.uids /\ n \in listeners[u].names \ hidden
      BY <1>1 DEF Followers
    <3>2. WillHear(u, n, 1, atStop.value[n])
      BY <2>3, <2>4, <3>1
    <3>3. \A i \in DOMAIN queue : ~(i < 1)
      BY <1>2
    <3>4. Taken(todo, Polls(listeners[u], pollQueue), view[u][n], u, n, atStop.value[n])
      BY <3>2, <3>3 DEF WillHear, Settled, LastSays
    <3>5. \A i \in DOMAIN queue' : ~(i < 1)
      BY <1>1, <1>2
    <3>6. NoneSays(queue', listeners[u], u, n, 1)
      BY <3>5 DEF NoneSays
    <3>7. Polls(listeners[u], pollQueue)' = Polls(listeners[u], pollQueue)
      BY <1>1 DEF Polls
    <3>8. QED
      BY <1>1, <3>4, <3>6, <3>7 DEF WillHear, Settled
  <2>7. atStop'.uids \subseteq 0 .. (nextUid' - 1)
    BY <1>1, <2>1 DEF IInv, StopInv
  <2>8. QED
    BY <1>1, <2>1, <2>2, <2>5, <2>6, <2>7 DEF StopInv
<1>10. QED
  BY <1>4, <1>5, <1>7, <1>8, <1>9 DEF IInv

\* One of what is to be done is done: the listener hears of it, or its poller gets it.
LEMMA DeliverKeeps ==
    ASSUME IInv, Deliver
    PROVE  IInv'
<1> DEFINE d == FirstTodo
<1>1. /\ todo # {} /\ todo' = todo \ {d} /\ d \in todo /\ d \in Due
      /\ thread = "running"
      /\ IF d.poller = NoPoller
         THEN Tells(d) /\ UNCHANGED << pollQueue, sleeper >>
         ELSE SendPoller(d.poller, d) /\ UNCHANGED view
      /\ UNCHANGED << value, persistent, listeners, nextUid, localNotifiers, poller,
                      queue, thread, hidden, atStop >>
  BY FirstTodoFacts DEF Deliver, entryVars, managerVars, IInv, Types
<1> HIDE DEF d
<1>2. /\ pollQueue \in [Pollers -> Seq(Due)]
      /\ view \in [Uids -> [Names -> Values \cup {NoValue}]]
      /\ sleeper \in [Pollers -> {"none", "asleep", "woken"}]
      /\ todo \in SUBSET Due
      /\ d.uid \in Uids /\ d.note \in NoteType /\ d.note.name \in Names
      /\ d.poller \in Pollers \cup {NoPoller}
      /\ Says(d.note) \in Values \cup {NoValue}
      /\ nextUid \in Nat /\ d.uid \in Nat /\ d.uid < nextUid
  <2>1. /\ pollQueue \in [Pollers -> Seq(Due)]
        /\ view \in [Uids -> [Names -> Values \cup {NoValue}]]
        /\ sleeper \in [Pollers -> {"none", "asleep", "woken"}]
        /\ todo \in SUBSET Due /\ nextUid \in Nat
    BY UidFacts DEF IInv, Types
  <2>2. /\ d.uid \in Uids /\ d.note \in NoteType /\ d.poller \in Pollers \cup {NoPoller}
    BY <1>1 DEF Due
  <2>3. d.note.name \in Names /\ Says(d.note) \in Values \cup {NoValue} /\ d.uid \in Nat
    BY <2>2, NoteFacts, UidFacts
  <2>4. d.uid < nextUid
    BY <1>1 DEF IInv, WaysInv
  <2>5. QED
    BY <2>1, <2>2, <2>3, <2>4
<1>3. \A e \in todo : e.uid = d.uid => e = d
  BY <1>1 DEF IInv, WaysInv
<1>4. d.uid \in DOMAIN listeners => d.poller = listeners[d.uid].poller
                                    /\ d.poller \in Open \cup {NoPoller}
  BY <1>1 DEF IInv, WaysInv, ListenersInv
<1>5. CASE d.poller = NoPoller
  <2>1. /\ UNCHANGED << pollQueue, sleeper >>
        /\ view' = [view EXCEPT ![d.uid][d.note.name] = Says(d.note)]
    BY <1>1, <1>5 DEF Tells
  <2>2. /\ view' \in [Uids -> [Names -> Values \cup {NoValue}]]
        /\ \A u \in Uids, n \in Names :
              view'[u][n] = IF u = d.uid /\ n = d.note.name THEN Says(d.note)
                            ELSE view[u][n]
    <3>1. [view[d.uid] EXCEPT ![d.note.name] = Says(d.note)]
             \in [Names -> Values \cup {NoValue}]
      BY <1>2
    <3>2. view' = [view EXCEPT ![d.uid] =
                      [view[d.uid] EXCEPT ![d.note.name] = Says(d.note)]]
      BY <2>1
    <3>3. QED
      BY <1>2, <3>1, <3>2
  <2>3. Types'
    BY <1>1, <2>1, <2>2 DEF IInv, Types
  <2>4. ListenersInv'
    BY <1>1 DEF IInv, ListenersInv, Open
  <2>5. WaysInv'
    <3>1. \A u \in Uids : u >= nextUid => \A n \in Names : view'[u][n] = NoValue
      BY <1>2, <2>2 DEF IInv, WaysInv
    <3>2. QED
      BY <1>1, <2>1, <3>1 DEF IInv, WaysInv
  <2>6. GoneInv'
    BY <1>1 DEF IInv, GoneInv
  <2>7. ASSUME NEW u \in Followers, listeners'[u] = listeners[u],
               NEW n \in listeners[u].names, NEW b \in Nat, NEW v, WillHear(u, n, b, v)
        PROVE  WillHear(u, n, b, v)'
    <3>1. u \in Uids /\ n \in Names /\ u \in DOMAIN listeners
      BY HearFacts DEF IInv
    <3>2. PICK polls, seen, heard :
             /\ polls = Polls(listeners[u], pollQueue)
             /\ seen = view[u][n] /\ heard = view'[u][n]
      OBVIOUS
    <3>3. polls = Polls(listeners[u], pollQueue)'
      BY <1>1, <2>1, <3>2 DEF Polls
    <3>4. heard = IF Has(d, u, n) THEN Says(d.note) ELSE seen
      BY <2>2, <3>1, <3>2 DEF Has
    <3>5. Taken(todo, polls, seen, u, n, v) => Taken(todo', polls, heard, u, n, v)
      <4>1. CASE Has(d, u, n)
        <5>1. polls = << >>
          BY <1>4, <1>5, <3>1, <3>2, <4>1, UidFacts DEF Has, Polls
        <5>2. Taken(todo, << >>, seen, u, n, v) => Taken(todo \ {d}, << >>, heard, u, n, v)
          BY <1>1, <1>2, <1>3, <3>4, TakenByCallback
        <5>3. QED
          BY <1>1, <5>1, <5>2
      <4>2. CASE ~Has(d, u, n)
        <5>1. Taken(todo, polls, seen, u, n, v) => Taken(todo \ {d}, polls, seen, u, n, v)
          BY <1>1, <1>2, <4>2, TakenElsewhere
        <5>2. QED
          BY <1>1, <3>4, <4>2, <5>1
      <4>3. QED
        BY <4>1, <4>2
    <3>6. Settled(queue, todo, polls, seen, listeners[u], u, n, b, v)
      BY <2>7, <3>2 DEF WillHear
    <3>7. PICK due : due = todo'
      OBVIOUS
    <3>8. Settled(queue, due, polls, heard, listeners[u], u, n, b, v)
      BY <3>5, <3>6, <3>7, SettledAs
    <3>9. QED
      BY <1>1, <3>2, <3>3, <3>7, <3>8 DEF WillHear
  <2>8. thread = "ended" => todo' = {}
    BY <1>1
  <2>9. FollowInv' /\ StopInv'
    BY <1>1, <2>7, <2>8, SameQueue DEF IInv
  <2>10. QED
    BY <2>3, <2>4, <2>5, <2>6, <2>9 DEF IInv
<1>6. CASE d.poller \in Open
  <2>1. /\ view' = view /\ d.poller \in Pollers /\ d.poller # NoPoller
        /\ pollQueue' = [pollQueue EXCEPT ![d.poller] = Append(@, d)]
        /\ Wake({d.poller})
    BY <1>1, <1>6, UidFacts DEF SendPoller, Open
  <2>2. /\ pollQueue[d.poller] \in Seq(Due)
        /\ Append(pollQueue[d.poller], d) \in Seq(Due)
        /\ pollQueue' \in [Pollers -> Seq(Due)]
        /\ pollQueue'[d.poller] = Append(pollQueue[d.poller], d)
        /\ \A o \in Pollers \ {d.poller} : pollQueue'[o] = pollQueue[o]
    BY <1>1, <1>2, <2>1
  <2>3. sleeper' \in [Pollers -> {"none", "asleep", "woken"}]
    BY <2>1, WakeType DEF IInv
  <2>4. Types'
    BY <1>1, <2>1, <2>2, <2>3 DEF IInv, Types
  <2>5. ListenersInv'
    BY <1>1 DEF IInv, ListenersInv, Open
  <2>6. WaysInv'
    <3>1. ASSUME NEW o \in Pollers, NEW i \in DOMAIN pollQueue'[o]
          PROVE  /\ pollQueue'[o][i].uid < nextUid
                 /\ pollQueue'[o][i].uid \in DOMAIN listeners
                       => listeners[pollQueue'[o][i].uid].poller = o
      <4>1. CASE i \in DOMAIN pollQueue[o] /\ pollQueue'[o][i] = pollQueue[o][i]
        BY <4>1 DEF IInv, WaysInv
      <4>2. CASE o = d.poller /\ pollQueue'[o][i] = d
        BY <1>2, <1>4, <4>2
      <4>3. QED
        <5>1. CASE o = d.poller
          BY <2>2, <3>1, <4>1, <4>2, <5>1
        <5>2. CASE o # d.poller
          BY <2>2, <3>1, <4>1, <5>2
        <5>3. QED
          BY <5>1, <5>2
    <3>2. QED
      BY <1>1, <2>1, <3>1 DEF IInv, WaysInv
  <2>7. GoneInv'
    BY <1>1 DEF IInv, GoneInv
  <2>8. ASSUME NEW u \in Followers, listeners'[u] = listeners[u],
               NEW n \in listeners[u].names, NEW b \in Nat, NEW v, WillHear(u, n, b, v)
        PROVE  WillHear(u, n, b, v)'
    <3>1. u \in Uids /\ n \in Names /\ u \in DOMAIN listeners
      BY HearFacts DEF IInv
    <3>2. PICK polls, next, seen :
             /\ polls = Polls(listeners[u], pollQueue)
             /\ next = Polls(listeners[u], pollQueue)'
             /\ seen = view[u][n]
      OBVIOUS
    <3>3. Taken(todo, polls, seen, u, n, v) => Taken(todo', next, seen, u, n, v)
      <4>1. CASE listeners[u].poller = d.poller
        <5>1. polls = pollQueue[d.poller] /\ next = Append(polls, d)
          BY <1>1, <2>1, <2>2, <3>2, <4>1 DEF Polls
        <5>2. polls \in Seq(Due)
          BY <2>2, <5>1
        <5>3. Taken(todo, polls, seen, u, n, v)
                 => Taken(todo \ {d}, Append(polls, d), seen, u, n, v)
          BY <1>1, <1>2, <1>3, <5>2, TakenToPoller
        <5>4. QED
          BY <1>1, <5>1, <5>3
      <4>2. CASE listeners[u].poller # d.poller
        <5>1. next = polls
          BY <1>1, <2>2, <3>2, <4>2 DEF Polls
        <5>2. ~Has(d, u, n)
          BY <1>4, <3>1, <4>2 DEF Has
        <5>3. Taken(todo, polls, seen, u, n, v) => Taken(todo \ {d}, polls, seen, u, n, v)
          BY <1>1, <1>2, <5>2, TakenElsewhere
        <5>4. QED
          BY <1>1, <5>1, <5>3
      <4>3. QED
        BY <4>1, <4>2
    <3>4. Settled(queue, todo, polls, seen, listeners[u], u, n, b, v)
      BY <2>8, <3>2 DEF WillHear
    <3>5. PICK due : due = todo'
      OBVIOUS
    <3>6. Settled(queue, due, next, seen, listeners[u], u, n, b, v)
      BY <3>3, <3>4, <3>5, SettledAs
    <3>7. QED
      BY <1>1, <2>1, <3>2, <3>5, <3>6 DEF WillHear
  <2>9. thread = "ended" => todo' = {}
    BY <1>1
  <2>10. FollowInv' /\ StopInv'
    BY <1>1, <2>8, <2>9, SameQueue DEF IInv
  <2>11. QED
    BY <2>4, <2>5, <2>6, <2>7, <2>10 DEF IInv
<1>7. CASE d.poller \notin Open \cup {NoPoller}
  <2>1. UNCHANGED << view, pollQueue, sleeper >>
    BY <1>1, <1>7 DEF SendPoller
  <2>2. Types'
    BY <1>1, <2>1 DEF IInv, Types
  <2>3. ListenersInv'
    BY <1>1 DEF IInv, ListenersInv, Open
  <2>4. WaysInv'
    BY <1>1, <2>1 DEF IInv, WaysInv
  <2>5. GoneInv'
    BY <1>1 DEF IInv, GoneInv
  <2>6. ASSUME NEW u \in Followers, listeners'[u] = listeners[u],
               NEW n \in listeners[u].names, NEW b \in Nat, NEW v, WillHear(u, n, b, v)
        PROVE  WillHear(u, n, b, v)'
    <3>1. ~Has(d, u, n)
      BY <1>4, <1>7, HearFacts DEF Has, IInv
    <3>2. PICK polls, seen :
             polls = Polls(listeners[u], pollQueue) /\ seen = view[u][n]
      OBVIOUS
    <3>3. polls = Polls(listeners[u], pollQueue)'
      BY <1>1, <2>1, <3>2 DEF Polls
    <3>4. Taken(todo, polls, seen, u, n, v) => Taken(todo \ {d}, polls, seen, u, n, v)
      BY <1>1, <1>2, <3>1, TakenElsewhere
    <3>5. Settled(queue, todo, polls, seen, listeners[u], u, n, b, v)
      BY <2>6, <3>2 DEF WillHear
    <3>6. PICK due : due = todo'
      OBVIOUS
    <3>7. Settled(queue, due, polls, seen, listeners[u], u, n, b, v)
      BY <1>1, <3>4, <3>5, <3>6, SettledAs
    <3>8. QED
      BY <1>1, <2>1, <3>2, <3>3, <3>6, <3>7 DEF WillHear
  <2>7. thread = "ended" => todo' = {}
    BY <1>1
  <2>8. FollowInv' /\ StopInv'
    BY <1>1, <2>6, <2>7, SameQueue DEF IInv
  <2>9. QED
    BY <2>2, <2>3, <2>4, <2>5, <2>8 DEF IInv
<1>8. QED
  BY <1>5, <1>6, <1>7

\* What is queued when stop is called is what a listener hears before the end.
LEMMA StopKeeps ==
    ASSUME IInv, Stop
    PROVE  IInv'
<1>1. /\ atStop = << >>
      /\ atStop' = [value |-> value, uids |-> DOMAIN listeners]
      /\ queue' = queue \o << StopItem >>
      /\ UNCHANGED << value, persistent, listeners, nextUid, localNotifiers, poller,
                      todo, thread, pollQueue, sleeper, view, hidden >>
  <2>1. queue \in Seq(Item \cup {StopItem})
    BY DEF IInv, Types
  <2>2. Append(queue, StopItem) = queue \o << StopItem >>
    BY <2>1
  <2>3. QED
    BY <2>2 DEF Stop, entryVars, managerVars, threadVars
<1>2. /\ queue \in Seq(Item \cup {StopItem}) /\ Len(queue) \in Nat
      /\ << StopItem >> \in Seq(Item \cup {StopItem})
      /\ DOMAIN queue' = 1 .. (Len(queue) + 1)
      /\ queue'[Len(queue) + 1] = StopItem
      /\ DOMAIN queue = 1 .. Len(queue)
      /\ \A i \in DOMAIN queue : i \in DOMAIN queue' /\ queue'[i] = queue[i]
      /\ \A i \in DOMAIN queue' : i \in DOMAIN queue \/ i = Len(queue) + 1
  BY <1>1 DEF IInv, Types
<1>3. atStop' # << >>
  <2>1. "uids" \in DOMAIN atStop'
    BY <1>1
  <2>2. "uids" \notin DOMAIN << >>
    OBVIOUS
  <2>3. QED
    BY <2>1, <2>2
<1>4. thread = "running"
  BY <1>1 DEF IInv, StopInv, Types
<1>5. Types'
  <2>1. queue' \in Seq(Item \cup {StopItem})
    BY <1>1, <1>2
  <2>2. QED
    BY <1>1, <2>1 DEF IInv, Types
<1>6. ListenersInv'
  BY <1>1 DEF IInv, ListenersInv, Open
<1>7. WaysInv'
  <2>1. \A i \in DOMAIN queue' : queue'[i] # StopItem /\ queue'[i].only # Everybody
           => queue'[i].only < nextUid
    BY <1>2 DEF IInv, WaysInv
  <2>2. QED
    BY <1>1, <2>1 DEF IInv, WaysInv
<1>8. GoneInv'
  <2> SUFFICES ASSUME NEW n \in Names, n \notin hidden, value[n] = NoValue,
                      NEW i \in DOMAIN queue', About(queue'[i], n),
                      \A j \in DOMAIN queue' : j > i => ~About(queue'[j], n)
               PROVE  "delete" \in queue'[i].note.flags
    BY <1>1 DEF GoneInv
  <2>1. i \in DOMAIN queue /\ queue'[i] = queue[i]
    BY <1>2 DEF About
  <2>2. \A j \in DOMAIN queue : j > i => ~About(queue[j], n)
    BY <1>2
  <2>3. QED
    BY <2>1, <2>2 DEF IInv, GoneInv
<1>9. ASSUME NEW u \in Followers, NEW n \in listeners[u].names \ hidden, NEW v,
             v = value[n]
      PROVE  /\ WillHear(u, n, Len(queue) + 1, v)'
             /\ \E b \in Nat : b = Len(queue) + 1 /\ WillHear(u, n, b, v)'
  <2>1. PICK b \in Nat : b = Len(queue) + 1
    BY <1>2
  <2>2. WillHear(u, n, b, v)
    BY <1>9, <2>1 DEF IInv, FollowInv
  <2>3. PICK r \in Seq(Item \cup {StopItem}) :
           queue' = queue \o r /\ \A i \in DOMAIN r : r[i] = StopItem
    <3> DEFINE s == << StopItem >>
    <3>1. \A i \in DOMAIN s : s[i] = StopItem
      OBVIOUS
    <3>2. s \in Seq(Item \cup {StopItem}) /\ queue' = queue \o s
      BY <1>1, <1>2
    <3> HIDE DEF s
    <3>3. QED
      BY <3>1, <3>2
  <2>4. \A i \in DOMAIN r : ~For(r[i], listeners[u], u, n)
    BY <2>3 DEF For
  <2>5. b <= Len(queue) + 1 /\ UNCHANGED << todo, pollQueue, view >>
        /\ listeners'[u] = listeners[u] /\ Types
    BY <1>1, <2>1 DEF IInv
  <2>6. WillHear(u, n, b, v)' /\ WillHear(u, n, Len(queue) + 1, v)'
    BY <2>1, <2>2, <2>3, <2>4, <2>5, Appended
  <2>7. QED
    BY <2>1, <2>6
<1>10. FollowInv'
  <2> SUFFICES ASSUME NEW u \in Followers', NEW n \in (listeners[u].names \ hidden)'
               PROVE  WillHear(u, n, Len(queue) + 1, value[n])'
    BY DEF FollowInv
  <2>1. u \in Followers /\ n \in listeners[u].names \ hidden
    BY <1>1 DEF Followers
  <2>2. PICK v : v = value[n]
    OBVIOUS
  <2>3. WillHear(u, n, Len(queue) + 1, v)'
    BY <1>9, <2>1, <2>2
  <2>4. QED
    BY <1>1, <2>2, <2>3 DEF WillHear
<1>11. StopInv'
  <2>1. PICK b \in Nat : b = Len(queue) + 1
    BY <1>2
  <2>2. EndsAt(b)'
    BY <1>1, <1>2, <1>4, <2>1 DEF EndsAt
  <2>3. ASSUME NEW u \in (Followers \cap atStop.uids)',
               NEW n \in (listeners[u].names \ hidden)'
        PROVE  WillHear(u, n, b, atStop.value[n])'
    <3>1. u \in Followers /\ n \in listeners[u].names \ hidden
      BY <1>1 DEF Followers
    <3>2. PICK v : v = value[n]
      OBVIOUS
    <3>3. WillHear(u, n, b, v)'
      BY <1>9, <2>1, <3>1, <3>2
    <3>4. atStop'.value[n] = v
      BY <1>1, <3>2
    <3>5. QED
      BY <3>3, <3>4 DEF WillHear
  <2>4. \A i, j \in DOMAIN queue' : queue'[i] = StopItem /\ queue'[j] = StopItem => i = j
    <3>1. \A i \in DOMAIN queue : queue[i] # StopItem
      BY <1>1 DEF IInv, StopInv
    <3>2. QED
      BY <1>2, <3>1
  <2>5. atStop'.uids \subseteq 0 .. (nextUid' - 1)
    BY <1>1 DEF IInv, Types
  <2>6. QED
    BY <1>1, <1>3, <1>4, <2>2, <2>3, <2>4, <2>5 DEF StopInv
<1>12. QED
  BY <1>5, <1>6, <1>7, <1>8, <1>10, <1>11 DEF IInv

-----------------------------------------------------------------------------
(* The theorems *)

LEMMA InitHolds == Init => IInv
<1> SUFFICES ASSUME Init PROVE IInv
  OBVIOUS
<1>1. /\ value = [n \in Names |-> NoValue] /\ persistent = [n \in Names |-> FALSE]
      /\ listeners = << >> /\ nextUid = 0 /\ localNotifiers = FALSE
      /\ poller = [p \in Pollers |-> "new"] /\ pollQueue = [p \in Pollers |-> << >>]
      /\ sleeper = [p \in Pollers |-> "none"]
      /\ queue = << >> /\ todo = {} /\ thread = "running"
      /\ view = [u \in Uids |-> [n \in Names |-> NoValue]]
      /\ hidden = {} /\ atStop = << >>
  BY DEF Init
<1>2. DOMAIN listeners = {} /\ DOMAIN queue = {}
  BY <1>1
<1>3. Types
  <2>1. {n \in Names : value[n] # NoValue} = {}
    BY <1>1
  <2>2. IsFiniteSet({n \in Names : value[n] # NoValue})
    BY <2>1, FS_EmptySet
  <2>3. nextUid \in 0 .. MaxListeners
    BY <1>1, UidFacts
  <2>4. pollQueue \in [Pollers -> Seq(Due)] /\ queue \in Seq(Item \cup {StopItem})
    BY <1>1
  <2>5. QED
    BY <1>1, <1>2, <2>2, <2>3, <2>4 DEF Types
<1>4. ListenersInv /\ GoneInv /\ FollowInv /\ StopInv
  BY <1>1, <1>2 DEF ListenersInv, GoneInv, FollowInv, StopInv, Followers
<1>5. WaysInv
  BY <1>1, <1>2 DEF WaysInv
<1>6. QED
  BY <1>3, <1>4, <1>5 DEF IInv

LEMMA StepHolds == IInv /\ [Next]_vars => IInv'
<1> SUFFICES ASSUME IInv, [Next]_vars PROVE IInv'
  OBVIOUS
<1>1. CASE Storage
  BY <1>1, StorageKeeps
<1>2. CASE \E spec \in Specs : AddListener(spec)
  BY <1>2, AddListenerKeeps
<1>3. CASE \E uid \in Uids : RemoveListener(uid)
  BY <1>3, RemoveListenerKeeps
<1>4. CASE \E p \in Pollers : CreatePoller(p) \/ RemovePoller(p)
                              \/ Poll(p) \/ PollWaits(p) \/ PollTimesOut(p)
  BY <1>4, PollerKeeps, PollKeeps
<1>5. CASE ThreadStep
  BY <1>5, TakeKeeps, DeliverKeeps, EndKeeps DEF ThreadStep
<1>6. CASE Stop
  BY <1>6, StopKeeps
<1>7. CASE UNCHANGED vars
  <2>1. /\ UNCHANGED << value, persistent, nextUid, localNotifiers, queue, todo,
                        thread, pollQueue, view, hidden, atStop >>
        /\ UNCHANGED << listeners, poller, sleeper >>
    BY <1>7 DEF vars, entryVars, managerVars, threadVars
  <2>2. \A u \in DOMAIN listeners' : listeners[u].poller \in Open' \cup {NoPoller}
    BY <2>1 DEF IInv, ListenersInv, Open
  <2>3. poller' \in [Pollers -> {"new", "open", "removed"}]
        /\ sleeper' \in [Pollers -> {"none", "asleep", "woken"}]
    BY <2>1 DEF IInv, Types
  <2>4. QED
    BY <2>1, <2>2, <2>3, SilentKeeps
<1>8. QED
  BY <1>1, <1>2, <1>3, <1>4, <1>5, <1>6, <1>7 DEF Next

\* When all is taken and polled, what a listener will hear is what it knows.
LEMMA HeardAll ==
    ASSUME IInv, NEW u \in Followers, todo = {}, Polled, NEW n, NEW v, NEW b,
           \A i \in DOMAIN queue : ~(i < b), WillHear(u, n, b, v)
    PROVE  view[u][n] = v
<1>1. u \in DOMAIN listeners
  BY DEF Followers
<1>2. Polls(listeners[u], pollQueue) = << >>
  <2>1. listeners[u].poller \in Open \cup {NoPoller}
    BY <1>1 DEF IInv, ListenersInv
  <2>2. QED
    BY <2>1, UidFacts DEF Polls, Polled
<1>3. Taken(todo, << >>, view[u][n], u, n, v)
  BY <1>2 DEF WillHear, Settled, LastSays
<1>4. QED
  BY <1>3 DEF Taken

\* When the queues are empty, a listener that asks for every value knows the value
\* of every entry that is not hidden, for any entries, listeners and pollers
\* (addListener, notifyEntry, main, poll).
THEOREM FollowersAlwaysKnow == Spec => []FollowersKnow
<1>1. IInv => FollowersKnow
  <2> SUFFICES ASSUME IInv, thread = "running", queue = << >>, todo = {}, Polled,
                      NEW u \in Followers, NEW n \in listeners[u].names \ hidden
               PROVE  view[u][n] = value[n]
    BY DEF FollowersKnow, Knows
  <2>1. WillHear(u, n, Len(queue) + 1, value[n])
    BY DEF IInv, FollowInv
  <2>2. \A i \in DOMAIN queue : ~(i < Len(queue) + 1)
    OBVIOUS
  <2>3. QED
    BY <2>1, <2>2, HeardAll
<1>2. QED
  BY InitHolds, StepHolds, <1>1, PTL DEF Spec

\* When stop has ended the thread and the pollers have been polled, a listener knows
\* the values there were when stop was called (stop, main).
THEOREM StopLosesNothing == Spec => []NothingLostByStop
<1>1. IInv => NothingLostByStop
  <2> SUFFICES ASSUME IInv, thread = "ended", Polled,
                      NEW u \in Followers \cap atStop.uids,
                      NEW n \in listeners[u].names \ hidden
               PROVE  view[u][n] = atStop.value[n]
    BY DEF NothingLostByStop, Knows
  <2>1. todo = {} /\ atStop # << >>
    BY DEF IInv, StopInv
  <2>2. PICK b \in Nat :
           /\ EndsAt(b)
           /\ \A w \in Followers \cap atStop.uids :
                 \A m \in listeners[w].names \ hidden :
                     WillHear(w, m, b, atStop.value[m])
    BY <2>1 DEF IInv, StopInv
  <2>3. b = 1 /\ \A i \in DOMAIN queue : ~(i < 1)
    BY <2>2 DEF EndsAt, IInv, Types
  <2>4. WillHear(u, n, b, atStop.value[n])
    BY <2>2
  <2>5. QED
    BY <2>1, <2>3, <2>4, HeardAll
<1>2. QED
  BY InitHolds, StepHolds, <1>1, PTL DEF Spec

\* No call of poll sleeps while there are notifications for it: the wait begins
\* with an empty queue, and whoever adds one wakes it (poll, sendPoller).
THEOREM NobodyEverSleepsOverNotes == Spec => []NobodySleepsOverNotes
<1>1. IInv /\ NobodySleepsOverNotes /\ [Next]_vars => NobodySleepsOverNotes'
  <2> SUFFICES ASSUME IInv, NobodySleepsOverNotes, [Next]_vars,
                      NEW p \in Pollers, sleeper'[p] = "asleep"
               PROVE  pollQueue'[p] = << >>
    BY DEF NobodySleepsOverNotes
  <2>1. /\ pollQueue \in [Pollers -> Seq(Due)]
        /\ sleeper \in [Pollers -> {"none", "asleep", "woken"}]
        /\ sleeper[p] = "asleep" => pollQueue[p] = << >>
    BY DEF IInv, Types, NobodySleepsOverNotes
  <2>2. CASE UNCHANGED << pollQueue, sleeper >>
    BY <2>1, <2>2
  <2>3. CASE \E q \in Pollers : RemovePoller(q)
    BY <2>1, <2>3 DEF RemovePoller, Wake
  <2>4. CASE \E q \in Pollers : Poll(q)
    <3>1. PICK q \in Pollers : Poll(q)
      BY <2>4
    <3>2. /\ sleeper' = [sleeper EXCEPT ![q] = "none"]
          /\ pollQueue' = [pollQueue EXCEPT ![q] = << >>]
      BY <3>1 DEF Poll
    <3>3. QED
      BY <2>1, <3>2
  <2>5. CASE \E q \in Pollers : PollWaits(q) \/ PollTimesOut(q)
    BY <2>1, <2>5 DEF PollWaits, PollTimesOut
  <2>6. CASE Deliver
    <3>1. CASE UNCHANGED << pollQueue, sleeper >>
      BY <2>2, <3>1
    <3>2. CASE /\ FirstTodo.poller \in Open
               /\ pollQueue' = [pollQueue EXCEPT ![FirstTodo.poller] =
                                   Append(@, FirstTodo)]
               /\ Wake({FirstTodo.poller})
      <4>1. p # FirstTodo.poller
        BY <2>1, <3>2 DEF Wake
      <4>2. sleeper[p] = "asleep"
        BY <2>1, <3>2, <4>1 DEF Wake
      <4>3. QED
        BY <2>1, <3>2, <4>1, <4>2
    <3>3. QED
      BY <2>6, <3>1, <3>2 DEF Deliver, SendPoller
  <2>7. CASE End
    BY <2>1, <2>7 DEF End, Wake
  <2>8. QED
    BY <2>2, <2>3, <2>4, <2>5, <2>6, <2>7
       DEF Next, Storage, Write, Load, Receive, DeleteAll, SetFlags, Delete, Changed,
           AddListener, RemoveListener, CreatePoller, ThreadStep, Take, Stop,
           threadVars, vars
<1>2. Init => NobodySleepsOverNotes
  BY DEF Init, NobodySleepsOverNotes
<1>3. QED
  BY InitHolds, StepHolds, <1>1, <1>2, PTL DEF Spec
=============================================================================
