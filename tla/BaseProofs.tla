------------------------------ MODULE BaseProofs ------------------------------
(***************************************************************************)
(* Theorems about the two parts that the rest of the library stands on.    *)
(*                                                                         *)
(* Os, for any number of objects, timers, sockets, threads, descriptors    *)
(* and bytes: types, and the invariants of the event loop, of timers and   *)
(* of sockets.  They are the parts of one inductive invariant, OsInv, or   *)
(* follow from it; each part has its lemmas, and a step for every action   *)
(* that disturbs it.                                                       *)
(*                                                                         *)
(* ThreadSafeQueue, for any number of threads, addresses and items: its    *)
(* list is well formed, its memory has one owner, no wake-up is lost, and  *)
(* it implements FifoQueue.                                                *)
(***************************************************************************)
EXTENDS Os, ThreadSafeQueue, SequenceTheorems, FiniteSetTheorems, FunctionTheorems,
        WellFoundedInduction, TLAPS

------------------------------------------------------------------------------
(* What the inductive invariant of Os is made of. *)

(* The objects that have been made, and what the loop keeps of them. *)
Known == {o \in Object : life[o] # "new"}
CallbackOf(P) == [of : P, empty : BOOLEAN]
ListOf(P) == Seq([fd : Fd, callbacks : Seq(CallbackOf(P))])

Members(q) == {q[i] : i \in DOMAIN q}
Once(q) == \A i, j \in DOMAIN q : q[i] = q[j] => i = j

(* An object has a descriptor when it has been made, and from then on only it
   is in the queues and the lists of the loop. *)
ObjectsRight ==
  /\ \A o \in Object : fd[o] = EventFd <=> life[o] = "new"
  /\ \A o \in Object : life[o] \in {"new", "opening"} => todo[o] # <<>>
  /\ \A e \in Event : adds[e] \in Seq(Known) /\ removes[e] \in Seq(Known)
  /\ listeners \in [Event -> ListOf(Known)]
  /\ calls \in Seq([event : Event, callback : CallbackOf(Known)])
  /\ lpc = "call" => calls # <<>>

(* The thread of the loop is inside a handler only during a callback of it. *)
PlacesRight ==
  /\ tpc # "enter" => \E t \in Timer : InCallback(t, "READ")
  /\ spc # "enter" => \E o \in Socket \cup Server, e \in Event : InCallback(o, e)
  /\ speaking # NoCall => tpc = "tell"

(* A listener is on one of the two lists, once, and not there after it has been
   removed.  All this is lost when it is added a second time. *)
ListedRight(t) ==
  /\ Members(rawList[t]) \cap Shared = {}
  /\ t \notin doubled =>
       /\ Once(rawList[t]) /\ Once(weakList[t])
       /\ removed[t] \cap (Members(rawList[t]) \cup Members(weakList[t])) = {}

(* A callback under the lock tells those that are on the lists. *)
TellingRight(t) ==
  Locked(t) =>
    /\ Members(told) \subseteq Members(rawList[t]) \cup Members(weakList[t])
    /\ speaking # NoCall => speaking \in Members(rawList[t]) \cup Members(weakList[t])

ListenersRight ==
  /\ \A t \in Timer : ListedRight(t) /\ TellingRight(t)
  /\ speaking \notin dead

(* Past its read, a callback has read an expiry, or its timer is closed. *)
ExpiryRight ==
  /\ tpc = "reading" => source \in Timer
  /\ tpc \in {"test", "rearm", "lock", "tell"} =>
       genuine \/ life[Head(calls).callback.of] = "closed"

(* A callback that has passed its test of execute_ is the first since the timer
   was stopped; where execute_ is set, none is. *)
LateRight ==
  \A t \in Timer :
    /\ late[t] <= 1
    /\ exec[t] => late[t] = 0
    /\ tpc \in {"rearm", "lock"} /\ InCallback(t, "READ") => late[t] = 0

(* Of a timer that one thread at a time controls, execute_ is false while the
   rest of a stop or of a destructor is left to be done. *)
Controlled(t) ==
  t \notin raced =>
    /\ \A j, k \in Controller : Uses(j, t) /\ Uses(k, t) => j = k
    /\ \A k \in Controller :
         Uses(k, t) /\ call[k][1] \in {"disarm", "disarmLast", "release"} => ~exec[t]

ControlRight ==
  /\ tpc = "reading" => /\ source \in Timer \cap Known
                        /\ fd[source] = fd[Head(calls).callback.of]
  /\ \A t \in Timer :
       /\ exec[t] => life[t] \notin {"new", "opening"}
       /\ Controlled(t)

(* A list holds the objects of S: an entry for each, with its one callback. *)
Entry(o) == [fd |-> fd[o], callbacks |-> <<Bound(o)>>]
Holds(ls, S) ==
  /\ \A i, j \in DOMAIN ls : ls[i].fd = ls[j].fd => i = j
  /\ Members(ls) = {Entry(o) : o \in S}

(* The lists of the loop hold objects that have been registered, and where the
   eventfd has been read those that are. *)
ListsRight ==
  NoReuse =>
    \A e \in Event : \E S \in SUBSET Members(adds[e]) :
      /\ Holds(listeners[e], S)
      /\ lpc \in Running /\ eventfd = "clear" => S = {o \in Object : Registered(o, e)}

(* A handler goes on while there is a request for it. *)
QueuesRight ==
  /\ \A s \in Socket : /\ Reads(s) => reads[s] # <<>>
                       /\ Writes(s) => sends[s] # <<>>
  /\ \A v \in Server : Accepts(v) => accepts[v] # <<>>

(* The requests for data that wait are those after the ones that have been
   answered. *)
Requested(s) ==
  /\ asked[s] = Len(answers[s]) + Len(reads[s])
  /\ \A i \in DOMAIN reads[s] : reads[s][i] = Len(answers[s]) + i
  /\ \A i \in DOMAIN answers[s] : answers[s][i][1] = i

ReadsRight == \A s \in Socket : Requested(s)

(* Bytes are pairs of a chunk and an offset. *)
InOrder(q) ==
  \A i, j \in DOMAIN q : i < j =>
    \/ q[i][1] < q[j][1]
    \/ q[i][1] = q[j][1] /\ q[i][2] < q[j][2]

NoGaps(q) ==
  \A i \in DOMAIN q : q[i][2] > 1 => i > 1 /\ q[i - 1] = [q[i] EXCEPT ![2] = @ - 1]

(* None is of a chunk after the first n, but for size bytes of the next. *)
EndsAt(q, n, size) ==
  /\ \A i \in DOMAIN q : q[i][1] <= n \/ (q[i][1] = n + 1 /\ q[i][2] <= size)
  /\ size # 0 => q # <<>> /\ Last(q) = <<n + 1, size>>

(* What has been sent of the first chunk in the queue: the one size there is
   belongs to the socket whose handler sends. *)
SizeOf(s) == IF Writes(s) THEN sentSize ELSE 0

Offered(s) ==
  /\ offered[s] = Len(done[s]) + Len(sends[s])
  /\ \A i \in DOMAIN sends[s] : sends[s][i].id = Len(done[s]) + i
  /\ \A i \in DOMAIN done[s] : done[s][i][1] = i

Sending(s) ==
  /\ InOrder(sentBytes[s]) /\ NoGaps(sentBytes[s])
  /\ EndsAt(sentBytes[s], Len(done[s]), SizeOf(s))
  /\ Writes(s) => sentSize <= Head(sends[s]).size

SendsRight ==
  /\ sentSize # 0 => \E s \in Socket : Writes(s)
  /\ \A s \in Socket : Offered(s) /\ Sending(s)

------------------------------------------------------------------------------
(* Numbers and lists. *)

(* What holds of 0, and of the next with each, holds of all up to n: the numbers
   of which it does not hold have a least one. *)
LEMMA UpTo ==
  ASSUME NEW n \in Nat, NEW T, 0 \in T, \A i \in 0..(n - 1) : i \in T => i + 1 \in T
  PROVE  0..n \subseteq T
PROOF
  <1> DEFINE Rest == (0..n) \ T
             below(i) == {k \in Rest : k < i}
             S == {below(i) : i \in Rest}
             R == StrictSubsetOrdering(0..n)
  <1> SUFFICES ASSUME Rest # {}
               PROVE  FALSE
    OBVIOUS
  <1>1. IsFiniteSet(0..n)
    BY FS_Interval
  <1>2. IsWellFoundedOn(R, SUBSET (0..n))
    BY <1>1, FS_StrictSubsetOrderingWellFounded, FS_FiniteSubsetsOfFinite
  <1>3. S \subseteq SUBSET (0..n) /\ S # {}
    OBVIOUS
  <1> HIDE DEF S, R
  <1>4. PICK x \in S : \A y \in S : ~(<<y, x>> \in R)
    BY <1>2, <1>3, WFMin
  <1>5. PICK i \in Rest : x = below(i)
    BY <1>4 DEF S
  <1>6. i \in 1..n /\ i - 1 \notin T
    <2>1. i \in 0..n /\ i \notin T /\ i # 0
      OBVIOUS
    <2>2. i - 1 \in 0..(n - 1) /\ (i - 1) + 1 = i
      BY <2>1
    <2> QED
      BY <2>1, <2>2
  <1>7. i - 1 \in Rest /\ i - 1 < i
    BY <1>6
  <1>8. below(i - 1) \subseteq below(i) /\ i - 1 \in below(i) /\ i - 1 \notin below(i - 1)
    <2>1. \A k \in Rest : k \in Int
      OBVIOUS
    <2> QED
      BY <1>6, <1>7, <2>1
  <1>9. below(i - 1) \in S /\ below(i - 1) \in SUBSET (0..n) /\ below(i) \in SUBSET (0..n)
    BY <1>7 DEF S
  <1> HIDE DEF below
  <1>10. <<below(i - 1), below(i)>> \in R
    BY <1>8, <1>9 DEF R, StrictSubsetOrdering
  <1> QED
    BY <1>4, <1>5, <1>9, <1>10

(* What a list holds after an element is added ... *)
LEMMA MembersAppend ==
  ASSUME NEW S, NEW q \in Seq(S), NEW x \in S
  PROVE  /\ Append(q, x) \in Seq(S)
         /\ Members(Append(q, x)) = Members(q) \cup {x}
         /\ Once(q) /\ x \notin Members(q) => Once(Append(q, x))
PROOF
  <1> DEFINE r == Append(q, x)
  <1>1. /\ r \in Seq(S) /\ Len(r) = Len(q) + 1 /\ Len(q) \in Nat
        /\ DOMAIN r = 1..(Len(q) + 1) /\ DOMAIN q = 1..Len(q)
        /\ r[Len(q) + 1] = x
        /\ \A i \in 1..Len(q) : r[i] = q[i]
    BY LenProperties, AppendProperties
  <1> HIDE DEF r
  <1>2. \A i \in DOMAIN r : i \in DOMAIN q \/ i = Len(q) + 1
    BY <1>1
  <1>3. Members(r) \subseteq Members(q) \cup {x}
    BY <1>1, <1>2 DEF Members
  <1>4. Members(q) \subseteq Members(r)
    <2>1. \A i \in DOMAIN q : i \in DOMAIN r /\ r[i] = q[i]
      BY <1>1
    <2> QED
      BY <2>1 DEF Members
  <1>5. x \in Members(r)
    <2>1. Len(q) + 1 \in DOMAIN r
      BY <1>1
    <2> QED
      BY <1>1, <2>1 DEF Members
  <1>6. ASSUME Once(q), x \notin Members(q)
        PROVE  Once(r)
    <2>1. \A i \in DOMAIN q : q[i] # x
      BY <1>6 DEF Members
    <2> QED
      BY <1>1, <1>2, <1>6, <2>1 DEF Once
  <1> QED
    BY <1>1, <1>3, <1>4, <1>5, <1>6 DEF r

(* ... after the first is taken ... *)
LEMMA MembersTail ==
  ASSUME NEW S, NEW q \in Seq(S), q # <<>>
  PROVE  /\ Tail(q) \in Seq(S) /\ Head(q) \in S
         /\ Members(Tail(q)) \subseteq Members(q) /\ Head(q) \in Members(q)
PROOF
  <1>1. /\ Tail(q) \in Seq(S) /\ Head(q) \in S
        /\ Len(Tail(q)) = Len(q) - 1 /\ Len(q) \in Nat
        /\ \A i \in 1..Len(Tail(q)) : Tail(q)[i] = q[i + 1]
        /\ DOMAIN q = 1..Len(q) /\ DOMAIN Tail(q) = 1..Len(Tail(q))
    BY HeadTailProperties, LenProperties
  <1>2. \A i \in DOMAIN Tail(q) : i + 1 \in DOMAIN q /\ Tail(q)[i] = q[i + 1]
    BY <1>1
  <1>3. 1 \in DOMAIN q /\ Head(q) = q[1]
    BY <1>1, EmptySeq
  <1> QED
    BY <1>1, <1>2, <1>3 DEF Members

(* ... and when it follows another. *)
LEMMA MembersConcat ==
  ASSUME NEW S, NEW q \in Seq(S), NEW r \in Seq(S)
  PROVE  /\ q \o r \in Seq(S)
         /\ Members(q \o r) = Members(q) \cup Members(r)
PROOF
  <1> DEFINE all == q \o r
  <1>1. /\ all \in Seq(S) /\ Len(q) \in Nat /\ Len(r) \in Nat
        /\ DOMAIN all = 1..(Len(q) + Len(r))
        /\ DOMAIN q = 1..Len(q) /\ DOMAIN r = 1..Len(r)
        /\ \A i \in 1..(Len(q) + Len(r)) :
             all[i] = IF i <= Len(q) THEN q[i] ELSE r[i - Len(q)]
    BY ConcatProperties, LenProperties
  <1> HIDE DEF all
  <1>2. ASSUME NEW i \in DOMAIN all
        PROVE  all[i] \in Members(q) \cup Members(r)
    <2>1. CASE i <= Len(q)
      BY <1>1, <2>1 DEF Members
    <2>2. CASE i > Len(q)
      <3>1. i - Len(q) \in DOMAIN r /\ all[i] = r[i - Len(q)]
        BY <1>1, <2>2
      <3> QED
        BY <3>1 DEF Members
    <2> QED
      BY <1>1, <2>1, <2>2
  <1>3. \A i \in DOMAIN q : i \in DOMAIN all /\ all[i] = q[i]
    BY <1>1
  <1>4. \A i \in DOMAIN r : i + Len(q) \in DOMAIN all /\ all[i + Len(q)] = r[i]
    BY <1>1
  <1>5. Members(all) \subseteq Members(q) \cup Members(r)
    BY <1>2 DEF Members
  <1>6. Members(q) \subseteq Members(all)
    BY <1>3 DEF Members
  <1>7. Members(r) \subseteq Members(all)
    BY <1>4 DEF Members
  <1> QED
    BY <1>1, <1>5, <1>6, <1>7 DEF all

(* The elements at some places of a list, in its order: rank is a bijection from
   the places to those of the result. *)
LEMMA ChosenMembers ==
  ASSUME NEW S, NEW q \in Seq(S), NEW places \in SUBSET DOMAIN q
  PROVE  /\ Chosen(q, places) \in Seq(S)
         /\ Members(Chosen(q, places)) = {q[i] : i \in places}
         /\ IsFiniteSet(places) /\ Len(Chosen(q, places)) = Cardinality(places)
         /\ Cardinality(places) \in Nat
         /\ Once(q) => Once(Chosen(q, places))
PROOF
  <1> DEFINE n == Cardinality(places)
             upto(i) == {j \in places : j <= i}
             rank == [i \in places |-> Cardinality(upto(i))]
             at(k) == CHOOSE i \in places : rank[i] = k
             r == Chosen(q, places)
  <1>1. /\ DOMAIN q = 1..Len(q) /\ Len(q) \in Nat
        /\ \A i \in DOMAIN q : q[i] \in S
    BY LenProperties, ElementOfSeq
  <1>2. IsFiniteSet(places) /\ n \in Nat /\ places \subseteq Nat
    <2>1. IsFiniteSet(1..Len(q)) /\ places \subseteq 1..Len(q)
      BY <1>1, FS_Interval
    <2>2. IsFiniteSet(places)
      BY <2>1, FS_Subset
    <2> QED
      BY <2>1, <2>2, FS_CardinalityType
  <1>3. r = [k \in 1..n |-> q[at(k)]]
    BY DEF Chosen
  <1> HIDE DEF r
  <1>4. ASSUME NEW i \in places
        PROVE  /\ IsFiniteSet(upto(i)) /\ rank[i] \in 1..n
               /\ rank[i] = Cardinality(upto(i))
    <2>1. upto(i) \in SUBSET places /\ i \in upto(i)
      BY <1>2
    <2>2. IsFiniteSet(upto(i)) /\ Cardinality(upto(i)) <= n
      BY <1>2, <2>1, FS_Subset
    <2>3. Cardinality(upto(i)) \in Nat
      BY <2>2, FS_CardinalityType
    <2>4. Cardinality(upto(i)) # 0
      BY <2>1, <2>2, FS_EmptySet
    <2> QED
      BY <1>2, <2>2, <2>3, <2>4
  <1>5. ASSUME NEW i \in places, NEW j \in places, i < j
        PROVE  rank[i] # rank[j]
    <2>1. i \in Nat /\ j \in Nat /\ \A k \in places : k \in Nat
      BY <1>2
    <2>2. \A k \in places : k <= i => k <= j
      BY <1>5, <2>1
    <2>3. j \in upto(j) /\ j \notin upto(i)
      BY <1>5, <2>1
    <2>4. upto(i) \in SUBSET upto(j)
      BY <2>2
    <2> HIDE DEF upto
    <2>5. Cardinality(upto(i)) # Cardinality(upto(j))
      BY <1>4, <2>3, <2>4, FS_Subset
    <2> QED
      BY <1>4, <2>5
  <1>6. \A i, j \in places : rank[i] = rank[j] => i = j
    <2> HIDE DEF rank
    <2> QED
      BY <1>2, <1>5
  <1>7. rank \in Injection(places, 1..n)
    <2>1. rank \in [places -> 1..n]
      BY <1>4
    <2> HIDE DEF rank
    <2>2. DOMAIN rank = places
      BY <2>1
    <2> QED
      BY <1>6, <2>1, <2>2 DEF Injection, IsInjective
  <1> HIDE DEF rank
  <1>8. rank \in Surjection(places, 1..n)
    <2>1. IsFiniteSet(1..n) /\ Cardinality(1..n) = n
      BY <1>2, FS_Interval
    <2> QED
      BY <1>7, <2>1, FS_Injection
  <1> HIDE DEF n
  <1>9. \A k \in 1..n : at(k) \in places /\ rank[at(k)] = k
    BY <1>8 DEF Surjection
  <1>10. \A i \in places : rank[i] \in 1..n /\ at(rank[i]) = i
    BY <1>4, <1>6, <1>9
  <1> HIDE DEF at
  <1>11. DOMAIN r = 1..n /\ r \in [1..n -> S]
    <2>1. \A k \in 1..n : q[at(k)] \in S
      BY <1>1, <1>9
    <2> QED
      BY <1>3, <2>1
  <1>12. r \in Seq(S) /\ Len(r) = n
    BY <1>2, <1>11, SeqDef, LenProperties
  <1>13. Members(r) = {q[i] : i \in places}
    BY <1>3, <1>9, <1>10, <1>11 DEF Members
  <1>14. ASSUME Once(q)
         PROVE  Once(r)
    <2> SUFFICES ASSUME NEW k \in 1..n, NEW h \in 1..n, r[k] = r[h]
                 PROVE  k = h
      BY <1>11 DEF Once
    <2>1. q[at(k)] = q[at(h)] /\ at(k) \in DOMAIN q /\ at(h) \in DOMAIN q
      BY <1>3, <1>9
    <2>2. at(k) = at(h)
      BY <1>14, <2>1 DEF Once
    <2> QED
      BY <1>9, <2>2
  <1> QED
    BY <1>2, <1>12, <1>13, <1>14 DEF r, n

(* What makes the next list of the last one and an object. *)
StepsOf(L, O) == [L \X O -> L]

(* A list that is made step by step exists: what a recursive function of the
   model is chosen to be. *)
LEMMA StepByStep ==
  ASSUME NEW L, NEW O, NEW step \in StepsOf(L, O), NEW first \in L, NEW os \in Seq(O)
  PROVE  \E after \in [0..Len(os) -> L] :
           /\ after[0] = first
           /\ \A n \in 1..Len(os) : after[n] = step[<<after[n - 1], os[n]>>]
PROOF
  <1> DEFINE Right(a, k) == /\ a[0] = first
                            /\ \A n \in 1..k : a[n] = step[<<a[n - 1], os[n]>>]
             T == {k \in 0..Len(os) : \E a \in [0..k -> L] : Right(a, k)}
  <1>1. Len(os) \in Nat /\ \A n \in 1..Len(os) : os[n] \in O
    BY LenProperties, ElementOfSeq
  <1>2. 0 \in T
    <2>1. [n \in 0..0 |-> first] \in [0..0 -> L] /\ Right([n \in 0..0 |-> first], 0)
      OBVIOUS
    <2>2. 0 \in 0..Len(os)
      BY <1>1
    <2> QED
      BY <2>1, <2>2
  <1>3. ASSUME NEW k \in 0..(Len(os) - 1), k \in T
        PROVE  k + 1 \in T
    <2>1. PICK a \in [0..k -> L] : Right(a, k)
      BY <1>3
    <2> DEFINE x == step[<<a[k], os[k + 1]>>]
               b == [n \in 0..(k + 1) |-> IF n = k + 1 THEN x ELSE a[n]]
    <2>2. k \in 0..k /\ k + 1 \in 1..Len(os) /\ k + 1 \in 0..Len(os)
      BY <1>1
    <2>3. x \in L
      BY <1>1, <2>2 DEF StepsOf
    <2> HIDE DEF x
    <2>4. b \in [0..(k + 1) -> L]
      BY <2>3
    <2>5. \A n \in 0..k : b[n] = a[n]
      BY <2>2
    <2>6. b[k + 1] = x
      BY <2>2
    <2> HIDE DEF b
    <2>7. Right(b, k + 1)
      <3>1. b[0] = first
        BY <2>1, <2>2, <2>5
      <3>2. ASSUME NEW n \in 1..(k + 1)
            PROVE  b[n] = step[<<b[n - 1], os[n]>>]
        <4>1. n - 1 \in 0..k /\ b[n - 1] = a[n - 1]
          BY <2>2, <2>5
        <4>2. CASE n = k + 1
          <5>1. n - 1 = k
            BY <2>2, <4>2
          <5> QED
            BY <2>6, <4>1, <4>2, <5>1 DEF x
        <4>3. CASE n # k + 1
          <5>1. n \in 1..k /\ n \in 0..k
            BY <2>2, <4>3
          <5> QED
            BY <2>1, <2>5, <4>1, <5>1
        <4> QED
          BY <4>2, <4>3
      <3> QED
        BY <3>1, <3>2
    <2> QED
      BY <2>2, <2>4, <2>7
  <1>4. Len(os) \in T
    <2> HIDE DEF T
    <2>1. 0..Len(os) \subseteq T
      BY <1>1, <1>2, <1>3, UpTo
    <2> QED
      BY <1>1, <2>1
  <1> QED
    BY <1>4

(* The first place of a list with some property. *)
LEMMA Least ==
  ASSUME NEW n \in Nat, NEW I \in SUBSET (1..n), I # {}
  PROVE  Min(I) \in I
PROOF
  <1> DEFINE T == {k \in 0..n : \A j \in I : k < j}
  <1>1. \E i \in I : \A j \in I : i <= j
    <2> SUFFICES ASSUME \A i \in I : \E j \in I : j < i
                 PROVE  FALSE
      <3>1. \A i, j \in I : i \in Int /\ j \in Int
        OBVIOUS
      <3> QED
        BY <3>1
    <2>1. 0 \in T
      OBVIOUS
    <2>2. \A k \in 0..(n - 1) : k \in T => k + 1 \in T
      <3> SUFFICES ASSUME NEW k \in 0..(n - 1), k \in T, NEW j \in I, ~(k + 1 < j)
                   PROVE  FALSE
        OBVIOUS
      <3>1. j = k + 1
        OBVIOUS
      <3>2. PICK h \in I : h < j
        OBVIOUS
      <3>3. k < h /\ h \in Int
        OBVIOUS
      <3> QED
        BY <3>1, <3>2, <3>3
    <2> HIDE DEF T
    <2>3. 0..n \subseteq T
      BY <2>1, <2>2, UpTo
    <2>4. n \in T
      BY <2>3
    <2>5. PICK j \in I : TRUE
      OBVIOUS
    <2>6. n < j /\ j <= n
      BY <2>4 DEF T
    <2> QED
      BY <2>6
  <1> QED
    BY <1>1 DEF Min

(* FindOSObject gives the place of the entry for the descriptor of o, or 0. *)
LEMMA Found ==
  ASSUME NEW S, NEW ls \in Seq(S), NEW o
  PROVE  /\ FindOSObject(ls, o) = 0 => \A i \in DOMAIN ls : ls[i].fd # fd[o]
         /\ FindOSObject(ls, o) # 0 => /\ FindOSObject(ls, o) \in DOMAIN ls
                                       /\ ls[FindOSObject(ls, o)].fd = fd[o]
PROOF
  <1> DEFINE I == {i \in 1..Len(ls) : ls[i].fd = fd[o]}
  <1>1. Len(ls) \in Nat /\ DOMAIN ls = 1..Len(ls)
    BY LenProperties
  <1>2. FindOSObject(ls, o) = IF I # {} THEN Min(I) ELSE 0
    BY DEF FindOSObject, SelectInSeq
  <1>3. I # {} => Min(I) \in I
    BY <1>1, Least
  <1> HIDE DEF FindOSObject
  <1> QED
    BY <1>1, <1>2, <1>3

(* A list with one element. *)
LEMMA Single ==
  ASSUME NEW S, NEW q \in Seq(S), NEW x, Len(q) = 1, Members(q) = {x}
  PROVE  q = <<x>>
PROOF
  <1>1. q \in [1..1 -> S] /\ DOMAIN q = 1..1
    BY LenProperties
  <1>2. q[1] = x /\ x \in S
    BY <1>1 DEF Members
  <1>3. <<x>> \in Seq(S) /\ Len(<<x>>) = 1 /\ <<x>>[1] = x
    BY <1>2
  <1> QED
    BY <1>2, <1>3, SeqEqual

(* A list from which the element at a place is taken. *)
LEMMA RemovedAt ==
  ASSUME NEW S, NEW q \in Seq(S), NEW i \in DOMAIN q
  PROVE  /\ RemoveAt(q, i) \in Seq(S)
         /\ DOMAIN RemoveAt(q, i) = 1..(Len(q) - 1)
         /\ \A j \in DOMAIN RemoveAt(q, i) :
              RemoveAt(q, i)[j] = IF j < i THEN q[j] ELSE q[j + 1]
PROOF
  <1> DEFINE a == SubSeq(q, 1, i - 1)
             b == SubSeq(q, i + 1, Len(q))
  <1>1. Len(q) \in Nat /\ i \in 1..Len(q) /\ \A j \in 1..Len(q) : q[j] \in S
    BY LenProperties, ElementOfSeq
  <1>2. /\ a \in Seq(S) /\ Len(a) = i - 1
        /\ \A j \in 1..(i - 1) : a[j] = q[j]
    <2>1. \A j \in 1..(i - 1) : q[j] \in S /\ 1 + j - 1 = j
      BY <1>1
    <2>2. (i - 1) - 1 + 1 = i - 1 /\ i - 1 \in Int
      BY <1>1
    <2> HIDE DEF a
    <2>3. /\ a \in Seq(S) /\ Len(a) = IF 1 <= i - 1 THEN (i - 1) - 1 + 1 ELSE 0
          /\ \A j \in 1..((i - 1) - 1 + 1) : a[j] = q[1 + j - 1]
      BY <2>1, <2>2, SubSeqProperties DEF a
    <2> QED
      BY <1>1, <2>1, <2>2, <2>3
  <1>3. /\ b \in Seq(S) /\ Len(b) = Len(q) - i
        /\ \A j \in 1..(Len(q) - i) : b[j] = q[i + j]
    <2>1. \A j \in (i + 1)..Len(q) : q[j] \in S
      BY <1>1
    <2>2. Len(q) - (i + 1) + 1 = Len(q) - i /\ i + 1 \in Int /\ Len(q) \in Int
      BY <1>1
    <2>3. \A j \in 1..(Len(q) - i) : (i + 1) + j - 1 = i + j
      BY <1>1
    <2> HIDE DEF b
    <2>4. /\ b \in Seq(S) /\ Len(b) = IF i + 1 <= Len(q) THEN Len(q) - (i + 1) + 1 ELSE 0
          /\ \A j \in 1..(Len(q) - (i + 1) + 1) : b[j] = q[(i + 1) + j - 1]
      BY <2>1, <2>2, SubSeqProperties DEF b
    <2> QED
      BY <1>1, <2>2, <2>3, <2>4
  <1> HIDE DEF a, b
  <1>4. /\ a \o b \in Seq(S) /\ Len(a \o b) = Len(q) - 1
        /\ \A j \in 1..(Len(q) - 1) :
             (a \o b)[j] = IF j <= i - 1 THEN a[j] ELSE b[j - (i - 1)]
    <2>1. Len(a) + Len(b) = Len(q) - 1 /\ Len(a) = i - 1
      BY <1>1, <1>2, <1>3
    <2>2. /\ a \o b \in Seq(S) /\ Len(a \o b) = Len(a) + Len(b)
          /\ \A j \in 1..(Len(a) + Len(b)) :
               (a \o b)[j] = IF j <= Len(a) THEN a[j] ELSE b[j - Len(a)]
      BY <1>2, <1>3, ConcatProperties
    <2> QED
      BY <2>1, <2>2
  <1>5. ASSUME NEW j \in 1..(Len(q) - 1)
        PROVE  (a \o b)[j] = IF j < i THEN q[j] ELSE q[j + 1]
    <2>1. CASE j < i
      BY <1>1, <1>2, <1>4, <2>1
    <2>2. CASE ~(j < i)
      <3>1. j - (i - 1) \in 1..(Len(q) - i) /\ i + (j - (i - 1)) = j + 1
        BY <1>1, <2>2
      <3>2. (a \o b)[j] = b[j - (i - 1)]
        BY <1>1, <1>4, <2>2
      <3>3. b[j - (i - 1)] = q[i + (j - (i - 1))]
        BY <1>3, <3>1
      <3> QED
        BY <2>2, <3>1, <3>2, <3>3
    <2> QED
      BY <2>1, <2>2
  <1>6. RemoveAt(q, i) = a \o b
    BY DEF RemoveAt, a, b
  <1>7. DOMAIN (a \o b) = 1..(Len(q) - 1)
    BY <1>4, LenProperties
  <1> QED
    BY <1>4, <1>5, <1>6, <1>7

(* Its members are those at the other places. *)
LEMMA RemovedMembers ==
  ASSUME NEW S, NEW q \in Seq(S), NEW i \in DOMAIN q
  PROVE  Members(RemoveAt(q, i)) = {q[j] : j \in DOMAIN q \ {i}}
PROOF
  <1> DEFINE r == RemoveAt(q, i)
  <1>1. /\ DOMAIN q = 1..Len(q) /\ Len(q) \in Nat
        /\ DOMAIN r = 1..(Len(q) - 1)
        /\ \A j \in DOMAIN r : r[j] = IF j < i THEN q[j] ELSE q[j + 1]
    BY LenProperties, RemovedAt
  <1> HIDE DEF r
  <1>2. ASSUME NEW j \in DOMAIN r
        PROVE  r[j] \in {q[h] : h \in DOMAIN q \ {i}}
    <2>1. CASE j < i
      BY <1>1, <2>1
    <2>2. CASE ~(j < i)
      <3>1. j + 1 \in DOMAIN q \ {i}
        BY <1>1, <2>2
      <3> QED
        BY <1>1, <2>2, <3>1
    <2> QED
      BY <2>1, <2>2
  <1>3. ASSUME NEW h \in DOMAIN q \ {i}
        PROVE  q[h] \in {r[j] : j \in DOMAIN r}
    <2>1. CASE h < i
      BY <1>1, <2>1
    <2>2. CASE ~(h < i)
      <3>1. h - 1 \in DOMAIN r /\ ~(h - 1 < i) /\ (h - 1) + 1 = h
        BY <1>1, <2>2
      <3> QED
        BY <1>1, <3>1
    <2> QED
      BY <2>1, <2>2
  <1>4. Members(r) = {r[j] : j \in DOMAIN r}
    BY DEF Members
  <1> QED
    BY <1>2, <1>3, <1>4 DEF r

------------------------------------------------------------------------------
(* The lists of the loop. *)

(* Unique keeps the first of two callbacks of one object ... *)
LEMMA UniqueTwo ==
  ASSUME NEW o \in Object
  PROVE  Unique(Append(<<Bound(o)>>, Bound(o))) = <<Bound(o)>>
PROOF
  <1> DEFINE c == Bound(o)
             cs == Append(<<c>>, c)
             places == {i \in DOMAIN cs : i = 1 \/ cs[i - 1].of # cs[i].of}
  <1>1. c \in Callback
    BY DEF Bound, Callback
  <1> HIDE DEF c
  <1>2. cs \in Seq(Callback) /\ DOMAIN cs = 1..2 /\ cs[1] = c /\ cs[2] = c
    BY <1>1
  <1> HIDE DEF cs
  <1>3. places = {1}
    <2>1. 2 \notin places
      <3>1. 2 - 1 = 1 /\ 2 # 1
        OBVIOUS
      <3> QED
        BY <1>2, <3>1
    <2> QED
      BY <1>2, <2>1
  <1>4. Unique(cs) = Chosen(cs, places)
    BY DEF Unique
  <1> HIDE DEF places
  <1>5. /\ Unique(cs) \in Seq(Callback)
        /\ Members(Unique(cs)) = {cs[1]}
        /\ Len(Unique(cs)) = Cardinality({1})
    BY <1>2, <1>3, <1>4, ChosenMembers
  <1>6. Cardinality({1}) = 1
    BY FS_Singleton
  <1>7. Unique(cs) = <<c>>
    BY <1>2, <1>5, <1>6, Single
  <1> QED
    BY <1>7 DEF c, cs

(* ... and RemoveOne leaves nothing of the only one. *)
LEMMA RemoveOnly ==
  ASSUME NEW o \in Object
  PROVE  RemoveOne(<<Bound(o)>>, o) = <<>>
PROOF
  <1> DEFINE cs == <<Bound(o)>>
             places == {i \in DOMAIN cs : cs[i].of # o}
             kept == Chosen(cs, places)
             left == SubSeq(cs, Len(kept) + 2, Len(cs))
  <1>1. cs \in Seq(Callback) /\ Len(cs) = 1 /\ DOMAIN cs = 1..1 /\ cs[1].of = o
    BY DEF Bound, Callback
  <1> HIDE DEF cs
  <1>2. places = {}
    BY <1>1
  <1> HIDE DEF places
  <1>3. kept \in Seq(Callback) /\ Len(kept) = Cardinality({})
    BY <1>1, <1>2, ChosenMembers
  <1>4. Len(kept) = 0
    BY <1>3, FS_EmptySet
  <1> HIDE DEF kept
  <1>5. kept = <<>>
    BY <1>3, <1>4, EmptySeq
  <1>6. left = <<>>
    BY <1>1, <1>4, SubSeqEmpty
  <1>7. RemoveOne(cs, o) = kept \o [i \in DOMAIN left |->
                              [left[i] EXCEPT !.empty = @ \/ left[i].of # o]]
    BY DEF RemoveOne, left, kept, places
  <1> HIDE DEF left
  <1>8. [i \in DOMAIN left |-> [left[i] EXCEPT !.empty = @ \/ left[i].of # o]] = <<>>
    BY <1>6
  <1> QED
    BY <1>5, <1>7, <1>8 DEF cs

(* The lists hold callbacks of the objects in P, before and after one more is
   added or removed. *)
LEMMA AddFdType ==
  ASSUME NEW P \in SUBSET Object, NEW ls \in ListOf(P), NEW o \in P, fd[o] \in Fd
  PROVE  AddFdTo(ls, o) \in ListOf(P)
PROOF
  <1> DEFINE X == [fd : Fd, callbacks : Seq(CallbackOf(P))]
             i == FindOSObject(ls, o)
             new == [fd |-> fd[o], callbacks |-> <<Bound(o)>>]
             cs == Append(ls[i].callbacks, Bound(o))
  <1>1. Bound(o) \in CallbackOf(P)
    BY DEF Bound, CallbackOf
  <1>2. new \in X
    BY <1>1
  <1>3. ls \in Seq(X)
    BY DEF ListOf
  <1> HIDE DEF new
  <1>4. i # 0 => i \in DOMAIN ls /\ DOMAIN ls = 1..Len(ls) /\ Len(ls) \in Nat
    BY <1>3, Found, LenProperties
  <1> HIDE DEF i
  <1>5. CASE i = 0
    <2>1. Append(ls, new) \in Seq(X)
      BY <1>2, <1>3, AppendProperties
    <2> QED
      BY <1>5, <2>1 DEF AddFdTo, ListOf, new, i
  <1>6. CASE i # 0
    <2>1. ls[i] \in X
      BY <1>3, <1>4, <1>6, ElementOfSeq
    <2>2. cs \in Seq(CallbackOf(P))
      BY <1>1, <2>1, AppendProperties
    <2> HIDE DEF cs
    <2>3. Unique(cs) \in Seq(CallbackOf(P))
      <3> DEFINE places == {j \in DOMAIN cs : j = 1 \/ cs[j - 1].of # cs[j].of}
      <3>1. places \in SUBSET DOMAIN cs
        OBVIOUS
      <3>2. Unique(cs) = Chosen(cs, places)
        BY DEF Unique
      <3> HIDE DEF places
      <3> QED
        BY <2>2, <3>1, <3>2, ChosenMembers
    <2>4. [ls[i] EXCEPT !.callbacks = Unique(cs)] \in X
      BY <2>1, <2>3
    <2>5. [ls EXCEPT ![i] = [ls[i] EXCEPT !.callbacks = Unique(cs)]] \in Seq(X)
      BY <1>3, <1>4, <1>6, <2>4, ExceptSeq
    <2>6. [ls EXCEPT ![i].callbacks = Unique(Append(@, Bound(o)))]
            = [ls EXCEPT ![i] = [ls[i] EXCEPT !.callbacks = Unique(cs)]]
      BY <1>4, <1>6 DEF cs
    <2> QED
      BY <1>6, <2>5, <2>6 DEF AddFdTo, ListOf, i
  <1> QED
    BY <1>5, <1>6

(* Of the callbacks of a descriptor one is removed. *)
LEMMA RemoveOneType ==
  ASSUME NEW P \in SUBSET Object, NEW cs \in Seq(CallbackOf(P)), NEW o \in P
  PROVE  RemoveOne(cs, o) \in Seq(CallbackOf(P))
PROOF
  <1> DEFINE C == CallbackOf(P)
             places == {i \in DOMAIN cs : cs[i].of # o}
             kept == Chosen(cs, places)
             left == SubSeq(cs, Len(kept) + 2, Len(cs))
             emptied == [i \in DOMAIN left |->
                           [left[i] EXCEPT !.empty = @ \/ left[i].of # o]]
  <1>1. RemoveOne(cs, o) = kept \o emptied
    BY DEF RemoveOne
  <1>2. kept \in Seq(C) /\ Len(kept) \in Nat
    <2>1. places \in SUBSET DOMAIN cs
      OBVIOUS
    <2> HIDE DEF places
    <2> QED
      BY <2>1, ChosenMembers
  <1> HIDE DEF kept
  <1>3. left \in Seq(C)
    <2>1. \A i \in (Len(kept) + 2)..Len(cs) : cs[i] \in C
      BY <1>2, LenProperties, ElementOfSeq
    <2>2. Len(kept) + 2 \in Int /\ Len(cs) \in Int
      BY <1>2, LenProperties
    <2> QED
      BY <2>1, <2>2, SubSeqProperties
  <1> HIDE DEF left
  <1>4. emptied \in Seq(C)
    <2>1. DOMAIN left = 1..Len(left) /\ Len(left) \in Nat
      BY <1>3, LenProperties
    <2>2. ASSUME NEW i \in 1..Len(left)
          PROVE  [left[i] EXCEPT !.empty = @ \/ left[i].of # o] \in C
      <3>1. left[i] \in C
        BY <1>3, ElementOfSeq
      <3> QED
        BY <3>1 DEF CallbackOf
    <2>3. emptied \in [1..Len(left) -> C]
      BY <2>1, <2>2
    <2> QED
      BY <2>1, <2>3, SeqDef
  <1> HIDE DEF emptied
  <1> QED
    BY <1>1, <1>2, <1>4, ConcatProperties

(* A list without an object is a list. *)
LEMMA RemoveFdType ==
  ASSUME NEW P \in SUBSET Object, NEW ls \in ListOf(P), NEW o \in P
  PROVE  RemoveFdFrom(ls, o) \in ListOf(P)
PROOF
  <1> DEFINE X == [fd : Fd, callbacks : Seq(CallbackOf(P))]
             i == FindOSObject(ls, o)
             rest == RemoveOne(ls[i].callbacks, o)
  <1>1. ls \in Seq(X)
    BY DEF ListOf
  <1>2. i # 0 => i \in DOMAIN ls /\ DOMAIN ls = 1..Len(ls) /\ Len(ls) \in Nat
    BY <1>1, Found, LenProperties
  <1>3. RemoveFdFrom(ls, o) =
          IF i = 0 THEN ls
          ELSE IF rest = <<>> THEN RemoveAt(ls, i)
          ELSE [ls EXCEPT ![i].callbacks = rest]
    BY DEF RemoveFdFrom
  <1> HIDE DEF i
  <1>4. CASE i = 0
    BY <1>3, <1>4
  <1>5. ASSUME i # 0
        PROVE  rest \in Seq(CallbackOf(P)) /\ ls[i] \in X
    <2>1. ls[i] \in X
      BY <1>1, <1>2, <1>5, ElementOfSeq
    <2> QED
      BY <2>1, RemoveOneType
  <1> HIDE DEF rest
  <1>6. CASE i # 0 /\ rest = <<>>
    <2>1. RemoveAt(ls, i) \in Seq(X)
      BY <1>1, <1>2, <1>6, RemovedAt
    <2> QED
      BY <1>3, <1>6, <2>1 DEF ListOf
  <1>7. CASE i # 0 /\ rest # <<>>
    <2>1. [ls[i] EXCEPT !.callbacks = rest] \in X
      BY <1>5, <1>7
    <2>2. [ls EXCEPT ![i] = [ls[i] EXCEPT !.callbacks = rest]] \in Seq(X)
      BY <1>1, <1>2, <1>7, <2>1, ExceptSeq
    <2>3. [ls EXCEPT ![i].callbacks = rest]
            = [ls EXCEPT ![i] = [ls[i] EXCEPT !.callbacks = rest]]
      OBVIOUS
    <2> QED
      BY <1>3, <1>7, <2>2, <2>3 DEF ListOf
  <1> QED
    BY <1>4, <1>6, <1>7

(* The lists that AddAll goes through: they exist, so the function it chooses is
   the one its definition says. *)
LEMMA AddAllSteps ==
  ASSUME NEW P \in SUBSET Object, \A o \in P : fd[o] \in Fd,
         NEW ls \in ListOf(P), NEW os \in Seq(P)
  PROVE  \E after :
           /\ AddAll(ls, os) = after[Len(os)]
           /\ after[0] = ls
           /\ \A n \in 1..Len(os) : after[n] = AddFdTo(after[n - 1], os[n])
PROOF
  <1> DEFINE L == ListOf(P)
             step == [p \in L \X P |-> AddFdTo(p[1], p[2])]
             Entries(a) == [n \in 0..Len(os) |->
                           IF n = 0 THEN ls ELSE AddFdTo(a[n - 1], os[n])]
             after == CHOOSE a : a = Entries(a)
  <1>1. Len(os) \in Nat /\ \A n \in 1..Len(os) : os[n] \in P
    BY LenProperties, ElementOfSeq
  <1>2. step \in StepsOf(L, P)
    BY AddFdType DEF StepsOf
  <1>3. \A l \in L, o \in P : step[<<l, o>>] = AddFdTo(l, o)
    OBVIOUS
  <1> HIDE DEF step
  <1>4. PICK a \in [0..Len(os) -> L] :
          /\ a[0] = ls
          /\ \A n \in 1..Len(os) : a[n] = step[<<a[n - 1], os[n]>>]
    <2> HIDE DEF L
    <2>1. ls \in L
      BY DEF L
    <2>2. \E a \in [0..Len(os) -> L] :
            /\ a[0] = ls
            /\ \A n \in 1..Len(os) : a[n] = step[<<a[n - 1], os[n]>>]
      BY <1>2, <2>1, StepByStep
    <2> QED
      BY <2>2
  <1>5. \A n \in 0..Len(os) : a[n] = IF n = 0 THEN ls ELSE AddFdTo(a[n - 1], os[n])
    <2> SUFFICES ASSUME NEW n \in 0..Len(os), n # 0
                 PROVE  a[n] = AddFdTo(a[n - 1], os[n])
      BY <1>4
    <2>1. n \in 1..Len(os) /\ n - 1 \in 0..Len(os)
      BY <1>1
    <2>2. a[n - 1] \in L /\ os[n] \in P
      BY <1>1, <1>4, <2>1
    <2> HIDE DEF L
    <2> QED
      BY <1>3, <1>4, <2>1, <2>2
  <1>6. a = Entries(a)
    BY <1>4, <1>5
  <1>7. after = Entries(after)
    <2> HIDE DEF Entries
    <2> QED
      BY <1>6
  <1>8. AddAll(ls, os) = after[Len(os)]
    BY DEF AddAll
  <1> HIDE DEF after
  <1>9. \A n \in 0..Len(os) :
          after[n] = IF n = 0 THEN ls ELSE AddFdTo(after[n - 1], os[n])
    BY <1>7
  <1>10. after[0] = ls
    BY <1>1, <1>9
  <1>11. ASSUME NEW n \in 1..Len(os)
         PROVE  after[n] = AddFdTo(after[n - 1], os[n])
    BY <1>1, <1>9
  <1> QED
    BY <1>8, <1>10, <1>11

(* The same of RemoveAll. *)
LEMMA RemoveAllSteps ==
  ASSUME NEW P \in SUBSET Object, NEW ls \in ListOf(P), NEW os \in Seq(P)
  PROVE  \E after :
           /\ RemoveAll(ls, os) = after[Len(os)]
           /\ after[0] = ls
           /\ \A n \in 1..Len(os) : after[n] = RemoveFdFrom(after[n - 1], os[n])
PROOF
  <1> DEFINE L == ListOf(P)
             step == [p \in L \X P |-> RemoveFdFrom(p[1], p[2])]
             Entries(a) == [n \in 0..Len(os) |->
                           IF n = 0 THEN ls ELSE RemoveFdFrom(a[n - 1], os[n])]
             after == CHOOSE a : a = Entries(a)
  <1>1. Len(os) \in Nat /\ \A n \in 1..Len(os) : os[n] \in P
    BY LenProperties, ElementOfSeq
  <1>2. step \in StepsOf(L, P)
    BY RemoveFdType DEF StepsOf
  <1>3. \A l \in L, o \in P : step[<<l, o>>] = RemoveFdFrom(l, o)
    OBVIOUS
  <1> HIDE DEF step
  <1>4. PICK a \in [0..Len(os) -> L] :
          /\ a[0] = ls
          /\ \A n \in 1..Len(os) : a[n] = step[<<a[n - 1], os[n]>>]
    <2> HIDE DEF L
    <2>1. ls \in L
      BY DEF L
    <2>2. \E a \in [0..Len(os) -> L] :
            /\ a[0] = ls
            /\ \A n \in 1..Len(os) : a[n] = step[<<a[n - 1], os[n]>>]
      BY <1>2, <2>1, StepByStep
    <2> QED
      BY <2>2
  <1>5. \A n \in 0..Len(os) : a[n] = IF n = 0 THEN ls ELSE RemoveFdFrom(a[n - 1], os[n])
    <2> SUFFICES ASSUME NEW n \in 0..Len(os), n # 0
                 PROVE  a[n] = RemoveFdFrom(a[n - 1], os[n])
      BY <1>4
    <2>1. n \in 1..Len(os) /\ n - 1 \in 0..Len(os)
      BY <1>1
    <2>2. a[n - 1] \in L /\ os[n] \in P
      BY <1>1, <1>4, <2>1
    <2> HIDE DEF L
    <2> QED
      BY <1>3, <1>4, <2>1, <2>2
  <1>6. a = Entries(a)
    BY <1>4, <1>5
  <1>7. after = Entries(after)
    <2> HIDE DEF Entries
    <2> QED
      BY <1>6
  <1>8. RemoveAll(ls, os) = after[Len(os)]
    BY DEF RemoveAll
  <1> HIDE DEF after
  <1>9. \A n \in 0..Len(os) :
          after[n] = IF n = 0 THEN ls ELSE RemoveFdFrom(after[n - 1], os[n])
    BY <1>7
  <1>10. after[0] = ls
    BY <1>1, <1>9
  <1>11. ASSUME NEW n \in 1..Len(os)
         PROVE  after[n] = RemoveFdFrom(after[n - 1], os[n])
    BY <1>1, <1>9
  <1> QED
    BY <1>8, <1>10, <1>11

(* So the updated lists hold callbacks of the same objects. *)
LEMMA AddAllType ==
  ASSUME NEW P \in SUBSET Object, \A o \in P : fd[o] \in Fd,
         NEW ls \in ListOf(P), NEW os \in Seq(P)
  PROVE  AddAll(ls, os) \in ListOf(P)
PROOF
  <1> DEFINE n == Len(os)
             L == ListOf(P)
  <1>1. n \in Nat /\ \A i \in 1..n : os[i] \in P
    BY LenProperties, ElementOfSeq
  <1>2. PICK after :
          /\ AddAll(ls, os) = after[n]
          /\ after[0] = ls
          /\ \A i \in 1..n : after[i] = AddFdTo(after[i - 1], os[i])
    BY AddAllSteps
  <1> HIDE DEF n
  <1> DEFINE T == {i \in 0..n : after[i] \in L}
  <1>3. 0 \in T
    BY <1>1, <1>2
  <1>4. ASSUME NEW i \in 0..(n - 1), i \in T
        PROVE  i + 1 \in T
    <2>1. i + 1 \in 1..n /\ i + 1 \in 0..n /\ (i + 1) - 1 = i
      BY <1>1
    <2>2. after[i + 1] = AddFdTo(after[i], os[i + 1])
      BY <1>2, <2>1
    <2>3. after[i] \in ListOf(P) /\ os[i + 1] \in P
      BY <1>1, <1>4, <2>1
    <2> QED
      BY <2>1, <2>2, <2>3, AddFdType
  <1> HIDE DEF T
  <1>5. n \in T
    <2>1. 0..n \subseteq T
      BY <1>1, <1>3, <1>4, UpTo
    <2> QED
      BY <1>1, <2>1
  <1> QED
    BY <1>2, <1>5 DEF T

(* So is one without several. *)
LEMMA RemoveAllType ==
  ASSUME NEW P \in SUBSET Object, NEW ls \in ListOf(P), NEW os \in Seq(P)
  PROVE  RemoveAll(ls, os) \in ListOf(P)
PROOF
  <1> DEFINE n == Len(os)
             L == ListOf(P)
  <1>1. n \in Nat /\ \A i \in 1..n : os[i] \in P
    BY LenProperties, ElementOfSeq
  <1>2. PICK after :
          /\ RemoveAll(ls, os) = after[n]
          /\ after[0] = ls
          /\ \A i \in 1..n : after[i] = RemoveFdFrom(after[i - 1], os[i])
    BY RemoveAllSteps
  <1> HIDE DEF n
  <1> DEFINE T == {i \in 0..n : after[i] \in L}
  <1>3. 0 \in T
    BY <1>1, <1>2
  <1>4. ASSUME NEW i \in 0..(n - 1), i \in T
        PROVE  i + 1 \in T
    <2>1. i + 1 \in 1..n /\ i + 1 \in 0..n /\ (i + 1) - 1 = i
      BY <1>1
    <2>2. after[i + 1] = RemoveFdFrom(after[i], os[i + 1])
      BY <1>2, <2>1
    <2>3. after[i] \in ListOf(P) /\ os[i + 1] \in P
      BY <1>1, <1>4, <2>1
    <2> QED
      BY <2>1, <2>2, <2>3, RemoveFdType
  <1> HIDE DEF T
  <1>5. n \in T
    <2>1. 0..n \subseteq T
      BY <1>1, <1>3, <1>4, UpTo
    <2> QED
      BY <1>1, <2>1
  <1> QED
    BY <1>2, <1>5 DEF T

(* One more object is listed, or none if it is listed already; no number is
   given to two of the objects P. *)
LEMMA AddFdHolds ==
  ASSUME NEW P \in SUBSET Object, \A o, p \in P : fd[o] = fd[p] => o = p,
         NEW ls \in ListOf(P), NEW S \in SUBSET P, Holds(ls, S),
         NEW o \in P, fd[o] \in Fd
  PROVE  Holds(AddFdTo(ls, o), S \cup {o})
PROOF
  <1> DEFINE X == [fd : Fd, callbacks : Seq(CallbackOf(P))]
             i == FindOSObject(ls, o)
  <1>1. ls \in Seq(X) /\ DOMAIN ls = 1..Len(ls) /\ Len(ls) \in Nat
    BY LenProperties DEF ListOf
  <1>a. \A p : Entry(p).fd = fd[p] /\ Entry(p).callbacks = <<Bound(p)>>
    BY DEF Entry
  <1>b. Bound(o) \in CallbackOf(P)
    BY DEF Bound, CallbackOf
  <1>2. /\ i = 0 => \A j \in DOMAIN ls : ls[j].fd # fd[o]
        /\ i # 0 => i \in DOMAIN ls /\ ls[i].fd = fd[o]
    BY <1>1, Found
  <1>3. AddFdTo(ls, o) = IF i = 0 THEN Append(ls, Entry(o))
                         ELSE [ls EXCEPT ![i].callbacks = Unique(Append(@, Bound(o)))]
    BY DEF AddFdTo, Entry
  <1> HIDE DEF i
  <1>4. Entry(o) \in X /\ Entry(o).fd = fd[o] /\ Entry(o).callbacks = <<Bound(o)>>
    BY <1>a, <1>b DEF Entry
  <1> HIDE DEF X
  <1>5. CASE i = 0
    <2> DEFINE new == Append(ls, Entry(o))
    <2>1. /\ DOMAIN new = 1..(Len(ls) + 1) /\ new[Len(ls) + 1] = Entry(o)
          /\ \A j \in 1..Len(ls) : new[j] = ls[j]
      <3>1. /\ new \in Seq(X) /\ Len(new) = Len(ls) + 1 /\ new[Len(ls) + 1] = Entry(o)
            /\ \A j \in 1..Len(ls) : new[j] = ls[j]
        BY <1>1, <1>4, AppendProperties
      <3> HIDE DEF new
      <3> QED
        BY <3>1, LenProperties
    <2>2. Members(new) = Members(ls) \cup {Entry(o)}
      BY <1>1, <1>4, MembersAppend
    <2> HIDE DEF new
    <2>3. Members(new) = {Entry(p) : p \in S \cup {o}}
      BY <2>2 DEF Holds
    <2>4. ASSUME NEW j \in DOMAIN new, NEW k \in DOMAIN new, new[j].fd = new[k].fd
          PROVE  j = k
      <3>1. CASE j \in DOMAIN ls /\ k \in DOMAIN ls
        BY <1>1, <2>1, <2>4, <3>1 DEF Holds
      <3>2. CASE j \notin DOMAIN ls /\ k \notin DOMAIN ls
        BY <1>1, <2>1, <3>2
      <3>3. CASE j \in DOMAIN ls /\ k \notin DOMAIN ls
        <4>1. k = Len(ls) + 1 /\ new[j] = ls[j]
          BY <1>1, <2>1, <3>3
        <4> QED
          BY <1>2, <1>4, <1>5, <2>1, <2>4, <3>3, <4>1
      <3>4. CASE j \notin DOMAIN ls /\ k \in DOMAIN ls
        <4>1. j = Len(ls) + 1 /\ new[k] = ls[k]
          BY <1>1, <2>1, <3>4
        <4> QED
          BY <1>2, <1>4, <1>5, <2>1, <2>4, <3>4, <4>1
      <3> QED
        BY <3>1, <3>2, <3>3, <3>4
    <2> QED
      BY <1>3, <1>5, <2>3, <2>4 DEF Holds, new
  <1>6. CASE i # 0
    <2>1. PICK p \in S : ls[i] = Entry(p)
      BY <1>2, <1>6 DEF Holds, Members
    <2>2. p = o
      BY <1>2, <1>6, <2>1 DEF Entry
    <2>3. ls[i].callbacks = <<Bound(o)>>
      BY <1>4, <2>1, <2>2
    <2>4. Unique(Append(ls[i].callbacks, Bound(o))) = <<Bound(o)>>
      BY <2>3, UniqueTwo
    <2>5. [ls EXCEPT ![i].callbacks = Unique(Append(@, Bound(o)))] = ls
      <3>1. [ls EXCEPT ![i].callbacks = Unique(Append(@, Bound(o)))]
              = [ls EXCEPT ![i] = [ls[i] EXCEPT !.callbacks = <<Bound(o)>>]]
        BY <2>4
      <3>2. [ls[i] EXCEPT !.callbacks = <<Bound(o)>>] = ls[i]
        BY <2>1, <2>2 DEF Entry
      <3>3. [ls EXCEPT ![i] = ls[i]] = ls
        BY <1>1
      <3> QED
        BY <3>1, <3>2, <3>3
    <2>6. S \cup {o} = S
      BY <2>2
    <2> QED
      BY <1>3, <1>6, <2>5, <2>6
  <1> QED
    BY <1>5, <1>6

(* One object fewer is listed, and its descriptor with it. *)
LEMMA RemoveFdHolds ==
  ASSUME NEW P \in SUBSET Object, \A o, p \in P : fd[o] = fd[p] => o = p,
         NEW ls \in ListOf(P), NEW S \in SUBSET P, Holds(ls, S),
         NEW o \in P
  PROVE  Holds(RemoveFdFrom(ls, o), S \ {o})
PROOF
  <1> DEFINE X == [fd : Fd, callbacks : Seq(CallbackOf(P))]
             i == FindOSObject(ls, o)
             rest == RemoveOne(ls[i].callbacks, o)
  <1>1. ls \in Seq(X) /\ DOMAIN ls = 1..Len(ls) /\ Len(ls) \in Nat
    BY LenProperties DEF ListOf
  <1>a. \A p : Entry(p).fd = fd[p] /\ Entry(p).callbacks = <<Bound(p)>>
    BY DEF Entry
  <1>b. Bound(o) \in CallbackOf(P)
    BY DEF Bound, CallbackOf
  <1>2. /\ i = 0 => \A j \in DOMAIN ls : ls[j].fd # fd[o]
        /\ i # 0 => i \in DOMAIN ls /\ ls[i].fd = fd[o]
    BY <1>1, Found
  <1>3. RemoveFdFrom(ls, o) =
          IF i = 0 THEN ls
          ELSE IF rest = <<>> THEN RemoveAt(ls, i)
          ELSE [ls EXCEPT ![i].callbacks = rest]
    BY DEF RemoveFdFrom
  <1> HIDE DEF i
  <1>4. \A p : Entry(p).fd = fd[p] /\ Entry(p).callbacks = <<Bound(p)>>
    BY <1>a
  <1> HIDE DEF X
  <1>5. CASE i = 0
    <2>1. o \notin S
      <3> SUFFICES ASSUME o \in S
                   PROVE  FALSE
        OBVIOUS
      <3>1. Entry(o) \in Members(ls)
        BY DEF Holds
      <3> QED
        BY <1>2, <1>4, <1>5, <3>1 DEF Members
    <2> QED
      BY <1>3, <1>5, <2>1
  <1>6. CASE i # 0
    <2>1. PICK p \in S : ls[i] = Entry(p)
      BY <1>2, <1>6 DEF Holds, Members
    <2>2. p = o
      BY <1>2, <1>4, <1>6, <2>1
    <2>3. rest = <<>>
      BY <1>4, <2>1, <2>2, RemoveOnly
    <2> DEFINE new == RemoveAt(ls, i)
    <2>4. /\ DOMAIN new = 1..(Len(ls) - 1)
          /\ \A j \in DOMAIN new : new[j] = IF j < i THEN ls[j] ELSE ls[j + 1]
      BY <1>1, <1>2, <1>6, RemovedAt
    <2>5. Members(new) = {ls[j] : j \in DOMAIN ls \ {i}}
      BY <1>1, <1>2, <1>6, RemovedMembers
    <2> HIDE DEF new
    <2>6. ASSUME NEW j \in DOMAIN new, NEW k \in DOMAIN new, new[j].fd = new[k].fd
          PROVE  j = k
      <3> DEFINE at(h) == IF h < i THEN h ELSE h + 1
      <3>1. /\ at(j) \in DOMAIN ls /\ at(k) \in DOMAIN ls
            /\ new[j] = ls[at(j)] /\ new[k] = ls[at(k)]
        BY <1>1, <1>2, <1>6, <2>4
      <3>2. at(j) = at(k) => j = k
        BY <1>1, <1>2, <1>6, <2>4
      <3> HIDE DEF at
      <3> QED
        BY <2>6, <3>1, <3>2 DEF Holds
    <2>7. ASSUME NEW j \in DOMAIN ls \ {i}
          PROVE  ls[j] \in {Entry(q) : q \in S \ {o}}
      <3>1. PICK q \in S : ls[j] = Entry(q)
        BY DEF Holds, Members
      <3>2. ls[j].fd # ls[i].fd
        BY <1>2, <1>6 DEF Holds
      <3> QED
        BY <2>1, <2>2, <3>1, <3>2
    <2>8. ASSUME NEW q \in S \ {o}
          PROVE  Entry(q) \in {ls[j] : j \in DOMAIN ls \ {i}}
      <3>1. PICK j \in DOMAIN ls : ls[j] = Entry(q)
        BY DEF Holds, Members
      <3>2. j # i
        <4>1. fd[q] # fd[o]
          OBVIOUS
        <4> QED
          BY <1>2, <1>4, <1>6, <3>1, <4>1
      <3> QED
        BY <3>1, <3>2
    <2>9. Members(new) = {Entry(q) : q \in S \ {o}}
      BY <2>5, <2>7, <2>8
    <2> QED
      BY <1>3, <1>6, <2>3, <2>6, <2>9 DEF Holds, new
  <1> QED
    BY <1>5, <1>6

(* All of them together: after the additions the objects added are listed as
   well ... *)
LEMMA AddAllHolds ==
  ASSUME NEW P \in SUBSET Object, \A o, p \in P : fd[o] = fd[p] => o = p,
         \A o \in P : fd[o] \in Fd,
         NEW ls \in ListOf(P), NEW S \in SUBSET P, Holds(ls, S), NEW os \in Seq(P)
  PROVE  Holds(AddAll(ls, os), S \cup Members(os))
PROOF
  <1> DEFINE n == Len(os)
             Added(i) == S \cup {os[j] : j \in 1..i}
  <1>1. n \in Nat /\ DOMAIN os = 1..n /\ \A i \in 1..n : os[i] \in P
    BY LenProperties, ElementOfSeq
  <1>2. PICK after :
          /\ AddAll(ls, os) = after[n]
          /\ after[0] = ls
          /\ \A i \in 1..n : after[i] = AddFdTo(after[i - 1], os[i])
    BY AddAllSteps
  <1> HIDE DEF n
  <1> DEFINE T == {i \in 0..n : after[i] \in ListOf(P) /\ Holds(after[i], Added(i))}
  <1>3. 0 \in T
    <2>1. Added(0) = S /\ 0 \in 0..n
      BY <1>1
    <2> HIDE DEF Added
    <2> QED
      BY <1>2, <2>1
  <1>4. ASSUME NEW i \in 0..(n - 1), i \in T
        PROVE  i + 1 \in T
    <2>1. i + 1 \in 1..n /\ i + 1 \in 0..n /\ (i + 1) - 1 = i
      BY <1>1
    <2>2. after[i + 1] = AddFdTo(after[i], os[i + 1])
      BY <1>2, <2>1
    <2>3. after[i] \in ListOf(P) /\ Holds(after[i], Added(i)) /\ os[i + 1] \in P
      BY <1>1, <1>4, <2>1
    <2>4. Added(i) \in SUBSET P
      BY <1>1, <2>1
    <2>5. Added(i + 1) = Added(i) \cup {os[i + 1]}
      BY <1>1, <2>1
    <2> HIDE DEF Added
    <2>6. after[i + 1] \in ListOf(P)
      BY <2>2, <2>3, AddFdType
    <2>7. Holds(after[i + 1], Added(i) \cup {os[i + 1]})
      BY <2>2, <2>3, <2>4, AddFdHolds
    <2> QED
      BY <2>1, <2>5, <2>6, <2>7
  <1>5. n \in T
    <2> HIDE DEF T
    <2>1. 0..n \subseteq T
      BY <1>1, <1>3, <1>4, UpTo
    <2> QED
      BY <1>1, <2>1
  <1>6. Added(n) = S \cup Members(os)
    BY <1>1 DEF Members
  <1> HIDE DEF Added
  <1> QED
    BY <1>2, <1>5, <1>6

(* ... and after the removals the objects removed are not. *)
LEMMA RemoveAllHolds ==
  ASSUME NEW P \in SUBSET Object, \A o, p \in P : fd[o] = fd[p] => o = p,
         NEW ls \in ListOf(P), NEW S \in SUBSET P, Holds(ls, S), NEW os \in Seq(P)
  PROVE  Holds(RemoveAll(ls, os), S \ Members(os))
PROOF
  <1> DEFINE n == Len(os)
             Left(i) == S \ {os[j] : j \in 1..i}
  <1>1. n \in Nat /\ DOMAIN os = 1..n /\ \A i \in 1..n : os[i] \in P
    BY LenProperties, ElementOfSeq
  <1>2. PICK after :
          /\ RemoveAll(ls, os) = after[n]
          /\ after[0] = ls
          /\ \A i \in 1..n : after[i] = RemoveFdFrom(after[i - 1], os[i])
    BY RemoveAllSteps
  <1> HIDE DEF n
  <1> DEFINE T == {i \in 0..n : after[i] \in ListOf(P) /\ Holds(after[i], Left(i))}
  <1>3. 0 \in T
    <2>1. Left(0) = S /\ 0 \in 0..n
      BY <1>1
    <2> HIDE DEF Left
    <2> QED
      BY <1>2, <2>1
  <1>4. ASSUME NEW i \in 0..(n - 1), i \in T
        PROVE  i + 1 \in T
    <2>1. i + 1 \in 1..n /\ i + 1 \in 0..n /\ (i + 1) - 1 = i
      BY <1>1
    <2>2. after[i + 1] = RemoveFdFrom(after[i], os[i + 1])
      BY <1>2, <2>1
    <2>3. after[i] \in ListOf(P) /\ Holds(after[i], Left(i)) /\ os[i + 1] \in P
      BY <1>1, <1>4, <2>1
    <2>4. Left(i) \in SUBSET P
      OBVIOUS
    <2>5. Left(i + 1) = Left(i) \ {os[i + 1]}
      BY <1>1, <2>1
    <2> HIDE DEF Left
    <2>6. after[i + 1] \in ListOf(P)
      BY <2>2, <2>3, RemoveFdType
    <2>7. Holds(after[i + 1], Left(i) \ {os[i + 1]})
      BY <2>2, <2>3, <2>4, RemoveFdHolds
    <2> QED
      BY <2>1, <2>5, <2>6, <2>7
  <1>5. n \in T
    <2> HIDE DEF T
    <2>1. 0..n \subseteq T
      BY <1>1, <1>3, <1>4, UpTo
    <2> QED
      BY <1>1, <2>1
  <1>6. Left(n) = S \ Members(os)
    BY <1>1 DEF Members
  <1> HIDE DEF Left
  <1> QED
    BY <1>2, <1>5, <1>6

(* The lists that FlattenSeq goes through. *)
LEMMA FlattenSteps ==
  ASSUME NEW S, NEW seqs \in Seq(Seq(S))
  PROVE  \E after :
           /\ FlattenSeq(seqs) = after[Len(seqs)]
           /\ after[0] = <<>>
           /\ \A n \in 1..Len(seqs) : after[n] = after[n - 1] \o seqs[n]
           /\ \A n \in 0..Len(seqs) : after[n] \in Seq(S)
PROOF
  <1> DEFINE L == Seq(S)
             step == [p \in L \X L |-> p[1] \o p[2]]
             Entries(a) == [i \in 1..Len(seqs) |->
                           IF i = 1 THEN seqs[i] ELSE a[i - 1] \o seqs[i]]
             flatten == CHOOSE a : a = Entries(a)
  <1>1. Len(seqs) \in Nat /\ \A n \in 1..Len(seqs) : seqs[n] \in L
    BY LenProperties, ElementOfSeq
  <1>2. step \in StepsOf(L, L)
    BY ConcatProperties DEF StepsOf
  <1>3. \A l, m \in L : step[<<l, m>>] = l \o m
    OBVIOUS
  <1> HIDE DEF step
  <1>4. PICK a \in [0..Len(seqs) -> L] :
          /\ a[0] = <<>>
          /\ \A n \in 1..Len(seqs) : a[n] = step[<<a[n - 1], seqs[n]>>]
    <2>1. <<>> \in L
      OBVIOUS
    <2> HIDE DEF L
    <2>2. seqs \in Seq(L)
      BY DEF L
    <2> QED
      BY <1>2, <2>1, <2>2, StepByStep
  <1>5. \A n \in 1..Len(seqs) : a[n] = a[n - 1] \o seqs[n]
    <2> SUFFICES ASSUME NEW n \in 1..Len(seqs)
                 PROVE  a[n] = a[n - 1] \o seqs[n]
      OBVIOUS
    <2>1. n - 1 \in 0..Len(seqs)
      BY <1>1
    <2>2. a[n - 1] \in L /\ seqs[n] \in L
      BY <1>1, <1>4, <2>1
    <2> HIDE DEF L
    <2> QED
      BY <1>3, <1>4, <2>2
  <1>6. ASSUME Len(seqs) # 0
        PROVE  /\ flatten[1] = seqs[1]
               /\ \A n \in 2..Len(seqs) : flatten[n] = flatten[n - 1] \o seqs[n]
    <2> DEFINE b == [i \in 1..Len(seqs) |-> a[i]]
    <2>1. 1 \in 1..Len(seqs) /\ 1 - 1 = 0 /\ seqs[1] \in L
      BY <1>1, <1>6
    <2>2. <<>> \o seqs[1] = seqs[1]
      BY <2>1, ConcatEmptySeq
    <2>3. a[1] = seqs[1]
      BY <1>4, <1>5, <2>1, <2>2
    <2>4. ASSUME NEW i \in 1..Len(seqs)
          PROVE  b[i] = IF i = 1 THEN seqs[i] ELSE b[i - 1] \o seqs[i]
      <3>1. CASE i = 1
        BY <2>1, <2>3, <3>1
      <3>2. CASE i # 1
        <4>1. i - 1 \in 1..Len(seqs)
          BY <1>1, <3>2
        <4> QED
          BY <1>5, <3>2, <4>1
      <3> QED
        BY <3>1, <3>2
    <2>5. b = Entries(b)
      BY <2>4
    <2> HIDE DEF b
    <2>6. flatten = Entries(flatten)
      <3> HIDE DEF Entries
      <3> QED
        BY <2>5
    <2> HIDE DEF flatten
    <2>7. \A i \in 1..Len(seqs) :
            flatten[i] = IF i = 1 THEN seqs[i] ELSE flatten[i - 1] \o seqs[i]
      BY <2>6
    <2>8. \A n \in 2..Len(seqs) : n \in 1..Len(seqs) /\ n # 1
      BY <1>1
    <2> QED
      BY <2>1, <2>7, <2>8
  <1>7. ASSUME Len(seqs) # 0
        PROVE  \A n \in 1..Len(seqs) : flatten[n] = a[n]
    <2> HIDE DEF flatten, L
    <2> DEFINE T == {i \in 0..Len(seqs) : i # 0 => flatten[i] = a[i]}
    <2>1. 0 \in T
      BY <1>1
    <2>2. ASSUME NEW i \in 0..(Len(seqs) - 1), i \in T
          PROVE  i + 1 \in T
      <3>1. i + 1 \in 1..Len(seqs) /\ i + 1 \in 0..Len(seqs) /\ (i + 1) - 1 = i
        BY <1>1
      <3>2. a[i + 1] = a[i] \o seqs[i + 1]
        BY <1>5, <3>1
      <3>3. CASE i = 0
        <4>1. seqs[1] \in L /\ i + 1 = 1
          BY <1>1, <3>1, <3>3
        <4>2. <<>> \o seqs[1] = seqs[1]
          BY <4>1, ConcatEmptySeq DEF L
        <4> QED
          BY <1>4, <1>6, <1>7, <3>1, <3>2, <3>3, <4>1, <4>2
      <3>4. CASE i # 0
        <4>1. i + 1 \in 2..Len(seqs) /\ flatten[i] = a[i]
          BY <1>1, <2>2, <3>1, <3>4
        <4>2. flatten[i + 1] = flatten[i] \o seqs[i + 1]
          BY <1>6, <1>7, <3>1, <4>1
        <4> QED
          BY <3>1, <3>2, <4>1, <4>2
      <3> QED
        BY <3>3, <3>4
    <2> HIDE DEF T
    <2>3. 0..Len(seqs) \subseteq T
      BY <1>1, <2>1, <2>2, UpTo
    <2>4. ASSUME NEW k \in 1..Len(seqs)
          PROVE  flatten[k] = a[k]
      <3>1. k \in 0..Len(seqs) /\ k # 0
        BY <1>1
      <3>2. k \in T
        BY <2>3, <3>1
      <3> QED
        BY <3>1, <3>2 DEF T
    <2> QED
      BY <2>4
  <1>8. FlattenSeq(seqs) = IF Len(seqs) = 0 THEN seqs ELSE flatten[Len(seqs)]
    BY DEF FlattenSeq
  <1>9. FlattenSeq(seqs) = a[Len(seqs)]
    <2> HIDE DEF flatten, L
    <2>1. CASE Len(seqs) = 0
      <3>1. seqs = <<>>
        BY <2>1, EmptySeq
      <3> QED
        BY <1>4, <1>8, <2>1, <3>1
    <2>2. CASE Len(seqs) # 0
      <3>1. Len(seqs) \in 1..Len(seqs)
        BY <1>1, <2>2
      <3> QED
        BY <1>7, <1>8, <2>2, <3>1
    <2> QED
      BY <2>1, <2>2
  <1> QED
    BY <1>4, <1>5, <1>9

(* Sequences one after the other are a sequence. *)
LEMMA FlattenType ==
  ASSUME NEW S, NEW seqs \in Seq(Seq(S))
  PROVE  FlattenSeq(seqs) \in Seq(S)
PROOF
  <1>1. Len(seqs) \in Nat
    BY LenProperties
  <1>2. Len(seqs) \in 0..Len(seqs)
    BY <1>1
  <1>3. PICK after :
          /\ FlattenSeq(seqs) = after[Len(seqs)]
          /\ \A n \in 0..Len(seqs) : after[n] \in Seq(S)
    BY FlattenSteps
  <1> QED
    BY <1>2, <1>3

(* A list at the end of the others comes at the end. *)
LEMMA FlattenAppend ==
  ASSUME NEW S, NEW seqs \in Seq(Seq(S)), NEW q \in Seq(S)
  PROVE  FlattenSeq(Append(seqs, q)) = FlattenSeq(seqs) \o q
PROOF
  <1> DEFINE more == Append(seqs, q)
             n == Len(seqs)
             L == Seq(S)
  <1> HIDE DEF L
  <1>1. /\ more \in Seq(L) /\ Len(more) = n + 1 /\ n \in Nat
        /\ more[n + 1] = q
        /\ \A i \in 1..n : more[i] = seqs[i]
    <2>1. seqs \in Seq(L) /\ q \in L
      BY DEF L
    <2> QED
      BY <2>1, AppendProperties, LenProperties
  <1> HIDE DEF more
  <1>2. PICK a :
          /\ FlattenSeq(seqs) = a[Len(seqs)]
          /\ a[0] = <<>>
          /\ \A k \in 1..Len(seqs) : a[k] = a[k - 1] \o seqs[k]
    <2>1. \E after :
            /\ FlattenSeq(seqs) = after[Len(seqs)]
            /\ after[0] = <<>>
            /\ \A k \in 1..Len(seqs) : after[k] = after[k - 1] \o seqs[k]
            /\ \A k \in 0..Len(seqs) : after[k] \in Seq(S)
      BY FlattenSteps, Zenon
    <2> QED
      BY <2>1, Zenon
  <1>3. PICK b :
          /\ FlattenSeq(more) = b[Len(more)]
          /\ b[0] = <<>>
          /\ \A k \in 1..Len(more) : b[k] = b[k - 1] \o more[k]
    <2>1. more \in Seq(Seq(S))
      BY <1>1 DEF L
    <2>2. \E after :
            /\ FlattenSeq(more) = after[Len(more)]
            /\ after[0] = <<>>
            /\ \A k \in 1..Len(more) : after[k] = after[k - 1] \o more[k]
            /\ \A k \in 0..Len(more) : after[k] \in Seq(S)
      BY <2>1, FlattenSteps, Zenon
    <2> QED
      BY <2>2, Zenon
  <1> DEFINE T == {k \in 0..n : a[k] = b[k]}
  <1>4. 0 \in T
    BY <1>1, <1>2, <1>3
  <1>5. ASSUME NEW k \in 0..(n - 1), k \in T
        PROVE  k + 1 \in T
    <2>1. k + 1 \in 1..n /\ k + 1 \in 1..(n + 1) /\ k + 1 \in 0..n /\ (k + 1) - 1 = k
      BY <1>1
    <2>2. a[k + 1] = a[k] \o seqs[k + 1]
      BY <1>2, <2>1
    <2>3. b[k + 1] = b[k] \o more[k + 1]
      BY <1>1, <1>3, <2>1
    <2>4. more[k + 1] = seqs[k + 1]
      BY <1>1, <2>1
    <2> QED
      BY <1>5, <2>1, <2>2, <2>3, <2>4
  <1>6. a[n] = b[n]
    <2> HIDE DEF T
    <2>1. 0..n \subseteq T
      BY <1>1, <1>4, <1>5, UpTo
    <2>2. n \in 0..n
      BY <1>1
    <2> QED
      BY <2>1, <2>2 DEF T
  <1>7. b[n + 1] = b[n] \o q
    <2>1. n + 1 \in 1..(n + 1) /\ (n + 1) - 1 = n
      BY <1>1
    <2> QED
      BY <1>1, <1>3, <2>1
  <1> QED
    BY <1>1, <1>2, <1>3, <1>6, <1>7 DEF more

------------------------------------------------------------------------------
(* The loop and its objects: what they hold, and of which objects. *)

LoopInv == EventLoopTypeOK /\ ObjectsRight

(* A step of the system is one of these for the loop, or none. *)
LoopMoves ==
  \/ RunBegin \/ RunApply \/ RunEnd \/ EnterSelect \/ SelectReturn(Ready)
  \/ HandleEvents \/ CallEmpty \/ CallbackReturn \/ StopStore \/ StopWake
  \/ \E o \in Object : Open(o) \/ Register(o) \/ Release(o) \/ Unregister(o) \/ Close(o)
  \/ UNCHANGED eventLoopVars

(* A callback of a timer is left, or goes on. *)
LEMMA TimerCallbackMoves ==
  ASSUME TimerCallback
  PROVE  UNCHANGED eventLoopVars \/ CallbackReturn
PROOF
  <1>1. PICK t \in Timer :
          \/ ReadEnter(t) \/ ReadReturn(t) \/ TestExecute(t) \/ Rearm(t)
          \/ LockListeners(t) \/ Tell(t) \/ TellReturn(t) \/ Unlock(t)
    BY DEF TimerCallback
  <1> QED
    BY <1>1 DEF ReadEnter, ReadReturn, TestExecute, ExpiredReturn, Rearm,
                LockListeners, Tell, TellReturn, Unlock

(* So is one of a socket; that of a server may make an object. *)
LEMMA SocketCallbackMoves ==
  ASSUME SocketCallback
  PROVE  UNCHANGED eventLoopVars \/ CallbackReturn \/ \E o \in Object : Open(o)
PROOF
  <1>1. CASE \E s \in Socket :
          \/ ReadEnterSocket(s) \/ Receive(s) \/ ReceiveNothing(s) \/ ReceiveError(s)
          \/ WriteEnterSocket(s) \/ Transmit(s) \/ TransmitError(s)
    <2>1. PICK s \in Socket :
            \/ ReadEnterSocket(s) \/ Receive(s) \/ ReceiveNothing(s) \/ ReceiveError(s)
            \/ WriteEnterSocket(s) \/ Transmit(s) \/ TransmitError(s)
      BY <1>1
    <2>2. CASE ReadEnterSocket(s) \/ Receive(s) \/ ReceiveNothing(s) \/ ReceiveError(s)
      BY <2>2 DEF ReadEnterSocket, Receive, ReceiveNothing, ReceiveError, Answer, GoOn
    <2>3. CASE WriteEnterSocket(s) \/ Transmit(s) \/ TransmitError(s)
      BY <2>3 DEF WriteEnterSocket, Transmit, TransmitError, Acknowledge, GoOn
    <2> QED
      BY <2>1, <2>2, <2>3
  <1>2. CASE \E v \in Server :
          AcceptEnter(v) \/ Accept(v) \/ AcceptReturn(v) \/ AcceptNobody(v)
    <2>1. PICK v \in Server :
            AcceptEnter(v) \/ Accept(v) \/ AcceptReturn(v) \/ AcceptNobody(v)
      BY <1>2
    <2>2. CASE AcceptEnter(v) \/ AcceptReturn(v) \/ AcceptNobody(v)
      BY <2>2 DEF AcceptEnter, AcceptReturn, AcceptNobody, GoOn
    <2>3. CASE Accept(v)
      BY <2>3, SocketAssumption DEF Accept
    <2> QED
      BY <2>1, <2>2, <2>3
  <1> QED
    BY <1>1, <1>2 DEF SocketCallback

(* What threads and peers do is none of the loop's business but for the last
   pointers to timers. *)
LEMMA OtherMoves ==
  ASSUME Control \/ Setting \/ Request \/ Peer \/ (\E k \in Controller : Finish(k))
           \/ (\E t \in Timer : Expiry(t))
  PROVE  UNCHANGED eventLoopVars \/ \E o \in Object : Release(o)
PROOF
  <1>1. CASE Control
    <2>1. PICK k \in Controller, t \in Timer :
            Start(k, t) \/ Stop(k, t) \/ Destruct(k, t) \/ ReleaseTimer(k, t)
      BY <1>1 DEF Control
    <2> QED
      BY <2>1, TimerAssumption DEF Start, Stop, Destruct, ReleaseTimer
  <1>2. CASE Setting
    BY <1>2 DEF Setting, Construct, EnableContinuous, DisableContinuous, Set,
                SetCounter, SetNumberOfRepetition, SetInterval, AddListener,
                RemoveListener, DropListener
  <1>3. CASE Request
    BY <1>3 DEF Request, ReceiveAsync, SendAsync, AcceptAsync
  <1>4. CASE Peer
    BY <1>4 DEF Peer, PeerSend, PeerReads, PeerEnds, PeerConnects
  <1>5. CASE \E k \in Controller : Finish(k)
    <2>1. PICK k \in Controller, t \in Timer :
            Arm(k, t) \/ Disarm(k, t) \/ DestructStop(k, t) \/ ReleaseTimer(k, t)
      BY <1>5 DEF Finish
    <2> QED
      BY <2>1, TimerAssumption DEF Arm, Disarm, DestructStop, ReleaseTimer
  <1>6. CASE \E t \in Timer : Expiry(t)
    BY <1>6 DEF Expiry, Expire
  <1> QED
    BY <1>1, <1>2, <1>3, <1>4, <1>5, <1>6

(* What a step of the system is to the loop and its objects. *)
LEMMA StepMoves ==
  ASSUME OsNext
  PROVE  LoopMoves
PROOF
  <1>1. CASE LoopStep
    BY <1>1 DEF LoopStep, LoopMoves
  <1>2. CASE TimerCallback
    BY <1>2, TimerCallbackMoves DEF LoopMoves
  <1>3. CASE SocketCallback
    BY <1>3, SocketCallbackMoves DEF LoopMoves
  <1>4. CASE ObjectStep
    BY <1>4 DEF ObjectStep, RegisterStep, LoopMoves
  <1>5. CASE \/ Control \/ Setting \/ Request \/ Peer \/ (\E k \in Controller : Finish(k))
             \/ (\E t \in Timer : Expiry(t))
    BY <1>5, OtherMoves DEF LoopMoves
  <1>6. CASE StopFinish \/ RunBegin \/ StopStore
    BY <1>6 DEF StopFinish, LoopMoves
  <1> QED
    BY <1>1, <1>2, <1>3, <1>4, <1>5, <1>6 DEF OsNext

(* What is held of some objects is held of more. *)
LEMMA ListsGrow ==
  ASSUME NEW P, NEW Q, P \subseteq Q
  PROVE  /\ Seq(P) \subseteq Seq(Q)
         /\ ListOf(P) \subseteq ListOf(Q)
         /\ Seq([event : Event, callback : CallbackOf(P)])
              \subseteq Seq([event : Event, callback : CallbackOf(Q)])
PROOF
  <1>1. Seq(P) \subseteq Seq(Q)
    BY SeqMonotonic
  <1>2. CallbackOf(P) \subseteq CallbackOf(Q)
    BY DEF CallbackOf
  <1>3. Seq(CallbackOf(P)) \subseteq Seq(CallbackOf(Q))
    BY <1>2, SeqMonotonic
  <1>4. ListOf(P) \subseteq ListOf(Q)
    <2> DEFINE X(R) == [fd : Fd, callbacks : Seq(CallbackOf(R))]
    <2>1. X(P) \subseteq X(Q)
      BY <1>3
    <2> HIDE DEF X
    <2>2. Seq(X(P)) \subseteq Seq(X(Q))
      BY <2>1, SeqMonotonic
    <2> QED
      BY <2>2 DEF ListOf, X
  <1>5. Seq([event : Event, callback : CallbackOf(P)])
          \subseteq Seq([event : Event, callback : CallbackOf(Q)])
    <2> DEFINE X(R) == [event : Event, callback : CallbackOf(R)]
    <2>1. X(P) \subseteq X(Q)
      BY <1>2
    <2> HIDE DEF X
    <2>2. Seq(X(P)) \subseteq Seq(X(Q))
      BY <2>1, SeqMonotonic
    <2> QED
      BY <2>2 DEF X
  <1> QED
    BY <1>1, <1>4, <1>5

(* The callbacks that a round calls are those of the lists. *)
LEMMA CalledType ==
  ASSUME NEW P \in SUBSET Object, NEW ls \in [Event -> ListOf(P)]
  PROVE  Called(ls) \in Seq([event : Event, callback : CallbackOf(P)])
PROOF
  <1> DEFINE X == [event : Event, callback : CallbackOf(P)]
             L == [fd : Fd, callbacks : Seq(CallbackOf(P))]
             Calls(e, i) == [k \in DOMAIN ls[e][i].callbacks |->
                               [event |-> e, callback |-> ls[e][i].callbacks[k]]]
             Rows(e) == [i \in DOMAIN ls[e] |->
                           IF ls[e][i].fd \in bits[e] THEN Calls(e, i) ELSE <<>>]
  <1>1. ASSUME NEW e \in Event
        PROVE  FlattenSeq(Rows(e)) \in Seq(X)
    <2>1. ls[e] \in Seq(L)
      BY DEF ListOf
    <2>2. ASSUME NEW i \in DOMAIN ls[e]
          PROVE  Calls(e, i) \in Seq(X)
      <3>1. ls[e][i] \in L
        BY <2>1, LenProperties, ElementOfSeq
      <3> DEFINE cs == ls[e][i].callbacks
      <3>2. cs \in Seq(CallbackOf(P))
        BY <3>1
      <3>3. DOMAIN cs = 1..Len(cs) /\ Len(cs) \in Nat
            /\ \A k \in 1..Len(cs) : cs[k] \in CallbackOf(P)
        BY <3>2, LenProperties, ElementOfSeq
      <3> HIDE DEF cs
      <3>4. [k \in DOMAIN cs |-> [event |-> e, callback |-> cs[k]]] \in [1..Len(cs) -> X]
        BY <3>3
      <3> HIDE DEF X
      <3>5. [k \in DOMAIN cs |-> [event |-> e, callback |-> cs[k]]] \in Seq(X)
        BY <3>3, <3>4, SeqDef
      <3> QED
        BY <3>5 DEF cs
    <2> HIDE DEF Calls, X
    <2>3. \A i \in DOMAIN ls[e] :
            (IF ls[e][i].fd \in bits[e] THEN Calls(e, i) ELSE <<>>) \in Seq(X)
      BY <2>2, EmptySeq
    <2> DEFINE Y == Seq(X)
    <2>4. DOMAIN ls[e] = 1..Len(ls[e]) /\ Len(ls[e]) \in Nat
      BY <2>1, LenProperties
    <2>5. Rows(e) \in [1..Len(ls[e]) -> Y]
      BY <2>3, <2>4
    <2> HIDE DEF Rows, Y
    <2>6. Rows(e) \in Seq(Y)
      BY <2>4, <2>5, SeqDef
    <2> QED
      BY <2>6, FlattenType DEF Y
  <1>2. Called(ls) = FlattenSeq(Rows("READ")) \o FlattenSeq(Rows("WRITE"))
    BY DEF Called
  <1> HIDE DEF Rows, X
  <1>3. FlattenSeq(Rows("READ")) \in Seq(X) /\ FlattenSeq(Rows("WRITE")) \in Seq(X)
    BY <1>1 DEF Event
  <1>4. Called(ls) \in Seq(X)
    BY <1>2, <1>3, ConcatProperties
  <1> QED
    BY <1>4 DEF X

(* The lists that the loop goes by are of objects that have been made. *)
LEMMA UpdatedType ==
  ASSUME LoopInv
  PROVE  Updated \in [Event -> ListOf(Known)]
PROOF
  <1>1. Known \in SUBSET Object /\ \A o \in Known : fd[o] \in Fd
    BY DEF Known, LoopInv, EventLoopTypeOK, ObjectsRight
  <1>2. ASSUME NEW e \in Event
        PROVE  RemoveAll(AddAll(listeners[e], adds[e]), removes[e]) \in ListOf(Known)
    <2>1. /\ listeners[e] \in ListOf(Known) /\ adds[e] \in Seq(Known)
          /\ removes[e] \in Seq(Known)
      BY DEF LoopInv, ObjectsRight
    <2>2. AddAll(listeners[e], adds[e]) \in ListOf(Known)
      BY <1>1, <2>1, AddAllType
    <2> QED
      BY <1>1, <2>1, <2>2, RemoveAllType
  <1> QED
    BY <1>2 DEF Updated

(* Initially nothing is registered. *)
LEMMA LoopInvInit ==
  ASSUME EventLoopInit
  PROVE  LoopInv
PROOF
  <1>1. /\ EventsOf \in [Object -> Seq(Event)] /\ \A o \in Object : EventsOf[o] # <<>>
        /\ EventFd \notin Fd /\ StackBits \subseteq SUBSET (Fd \cup {EventFd})
        /\ 0 \in 0..MaxRuns
    BY EventLoopAssumption
  <1>2. \A S : <<>> \in Seq(S)
    BY EmptySeq
  <1>3. EventLoopTypeOK
    <2>1. bits \in [Event -> SUBSET (Fd \cup {EventFd})]
      BY <1>1 DEF EventLoopInit
    <2> HIDE DEF Event
    <2> QED
      BY <1>1, <1>2, <2>1 DEF EventLoopInit, EventLoopTypeOK
  <1>4. <<>> \in ListOf(Known)
    BY <1>2 DEF ListOf
  <1>5. ObjectsRight
    <2>1. /\ \A o \in Object : fd[o] = EventFd <=> life[o] = "new"
          /\ \A o \in Object : life[o] \in {"new", "opening"} => todo[o] # <<>>
          /\ lpc = "call" => calls # <<>>
      BY <1>1 DEF EventLoopInit
    <2>2. \A e \in Event : adds[e] = <<>> /\ removes[e] = <<>>
      BY DEF EventLoopInit
    <2>3. listeners \in [Event -> ListOf(Known)]
      BY <1>4 DEF EventLoopInit
    <2>4. calls = <<>>
      BY DEF EventLoopInit
    <2> HIDE DEF EventLoopInit
    <2> QED
      BY <1>2, <2>1, <2>2, <2>3, <2>4 DEF ObjectsRight
  <1> QED
    BY <1>3, <1>5 DEF LoopInv

(* Steps that leave the objects and the lists alone. *)
LEMMA LoopInvKept ==
  ASSUME LoopInv, UNCHANGED <<listeners, calls, registry, objectVars>>,
         EventLoopTypeOK', lpc' = "call" => lpc = "call"
  PROVE  LoopInv'
PROOF
  BY DEF LoopInv, ObjectsRight, Known, registry, objectVars

(* What select() is given are descriptors. *)
LEMMA ListedFds ==
  ASSUME LoopInv, NEW e \in Event
  PROVE  Listed(e) \subseteq Fd
PROOF
  <1> DEFINE X == [fd : Fd, callbacks : Seq(CallbackOf(Known))]
  <1>1. listeners[e] \in Seq(X)
    BY DEF LoopInv, ObjectsRight, ListOf
  <1> HIDE DEF X
  <1>2. \A i \in DOMAIN listeners[e] : listeners[e][i] \in X
    BY <1>1, LenProperties, ElementOfSeq
  <1> QED
    BY <1>2 DEF Listed, X

(* The steps of run() that touch no list. *)
LEMMA LoopInvRun ==
  ASSUME LoopInv,
         \/ RunBegin \/ RunEnd \/ EnterSelect \/ SelectReturn(Ready) \/ CallEmpty
         \/ StopStore \/ StopWake
  PROVE  LoopInv'
PROOF
  <1> USE DEF EventLoopTypeOK, LoopInv, Running, registry, objectVars
  <1>1. CASE RunBegin
    <2>1. EventLoopTypeOK'
      <3>1. runs' \in 0..MaxRuns
        BY <1>1, EventLoopAssumption DEF RunBegin
      <3> QED
        BY <1>1, <3>1 DEF RunBegin
    <2> QED
      BY <1>1, <2>1, LoopInvKept DEF RunBegin
  <1>2. CASE RunEnd
    <2>1. EventLoopTypeOK'
      BY <1>2 DEF RunEnd
    <2> QED
      BY <1>2, <2>1, LoopInvKept DEF RunEnd
  <1>3. CASE EnterSelect
    <2>1. \A e \in Event : Watched(e) \subseteq Fd \cup {EventFd}
      BY ListedFds DEF Watched
    <2>2. bits' \in [Event -> SUBSET (Fd \cup {EventFd})]
      BY <1>3, <2>1 DEF EnterSelect
    <2>3. EventLoopTypeOK'
      BY <1>3, <2>2 DEF EnterSelect
    <2> QED
      BY <1>3, <2>3, LoopInvKept DEF EnterSelect
  <1>4. CASE SelectReturn(Ready)
    <2>1. bits' \in [Event -> SUBSET (Fd \cup {EventFd})]
      BY <1>4 DEF SelectReturn
    <2>2. EventLoopTypeOK'
      BY <1>4, <2>1 DEF SelectReturn
    <2> QED
      BY <1>4, <2>2, LoopInvKept DEF SelectReturn
  <1>5. CASE CallEmpty
    <2>1. EventLoopTypeOK'
      BY <1>5 DEF CallEmpty
    <2> QED
      BY <1>5, <2>1, LoopInvKept DEF CallEmpty
  <1>6. CASE StopStore
    <2>1. EventLoopTypeOK'
      BY <1>6 DEF StopStore, roundVars
    <2> QED
      BY <1>6, <2>1, LoopInvKept DEF StopStore, roundVars
  <1>7. CASE StopWake
    <2>1. EventLoopTypeOK'
      BY <1>7 DEF StopWake, EventFdWrite, roundVars
    <2> QED
      BY <1>7, <2>1, LoopInvKept DEF StopWake, roundVars
  <1> QED
    BY <1>1, <1>2, <1>3, <1>4, <1>5, <1>6, <1>7

(* Steps of a round that change its lists. *)
LEMMA LoopInvRound ==
  ASSUME LoopInv, RunApply \/ HandleEvents \/ CallbackReturn
  PROVE  LoopInv'
PROOF
  <1> DEFINE C == [event : Event, callback : CallbackOf(Known)]
  <1>1. UNCHANGED <<registry, objectVars>>
    BY DEF RunApply, HandleEvents, CallbackReturn
  <1>2. /\ listeners' \in [Event -> ListOf(Known)]
        /\ calls' \in Seq(C)
        /\ lpc' = "call" => calls' # <<>>
    <2>1. CASE RunApply
      BY <2>1, UpdatedType DEF RunApply, LoopInv, ObjectsRight
    <2>2. CASE HandleEvents
      <3>1. listeners' \in [Event -> ListOf(Known)]
        BY <2>2, UpdatedType DEF HandleEvents, LoopInv, ObjectsRight
      <3>2. Known \in SUBSET Object
        BY DEF Known
      <3>3. Called(listeners') \in Seq(C)
        BY <3>1, <3>2, CalledType
      <3> QED
        BY <2>2, <3>1, <3>3 DEF HandleEvents
    <2>3. CASE CallbackReturn
      <3>1. listeners' \in [Event -> ListOf(Known)] /\ calls \in Seq(C) /\ calls # <<>>
        BY <2>3 DEF CallbackReturn, LoopInv, ObjectsRight
      <3> HIDE DEF C
      <3>2. Tail(calls) \in Seq(C)
        BY <3>1, HeadTailProperties
      <3> QED
        BY <2>3, <3>1, <3>2 DEF CallbackReturn
    <2> QED
      BY <2>1, <2>2, <2>3
  <1>3. Known' = Known
    BY <1>1 DEF Known, objectVars
  <1>4. ObjectsRight'
    BY <1>1, <1>2, <1>3 DEF ObjectsRight, LoopInv, registry, objectVars
  <1>5. /\ listeners' \in [Event -> Seq([fd : Fd, callbacks : Seq(Callback)])]
        /\ calls' \in Seq([event : Event, callback : Callback])
    <2>1. Known \subseteq Object
      BY DEF Known
    <2>2. CallbackOf(Object) = Callback
      BY DEF CallbackOf, Callback
    <2>3. ListOf(Known) \subseteq ListOf(Object) /\ Seq(C) \subseteq Seq([event : Event, callback : CallbackOf(Object)])
      BY <2>1, ListsGrow
    <2>4. ListOf(Object) = Seq([fd : Fd, callbacks : Seq(Callback)])
      BY <2>2 DEF ListOf
    <2>5. listeners' \in [Event -> ListOf(Object)]
      BY <1>2, <2>3
    <2> QED
      BY <1>2, <2>2, <2>3, <2>4, <2>5
  <1>6. EventLoopTypeOK'
    <2>1. /\ execute' \in BOOLEAN /\ eventfd' \in {"none", "clear", "raised"}
          /\ lpc' \in Running \cup {"idle", "begin", "ended", "dead"}
          /\ UNCHANGED <<bits, runs, stopping>>
      BY DEF RunApply, HandleEvents, CallbackReturn, LoopInv, EventLoopTypeOK, Running
    <2> QED
      BY <1>1, <1>5, <2>1 DEF LoopInv, EventLoopTypeOK, registry, objectVars
  <1> QED
    BY <1>4, <1>6 DEF LoopInv

(* The steps of factories and deleters. *)
LEMMA LoopInvObject ==
  ASSUME LoopInv, NEW o \in Object,
         Open(o) \/ Register(o) \/ Release(o) \/ Unregister(o) \/ Close(o)
  PROVE  LoopInv'
PROOF
  <1>1. UNCHANGED roundVars
    BY DEF Open, Register, Release, Unregister, Close, loopVars
  <1>2. Known \subseteq Known' /\ o \in Known'
    BY DEF Open, Register, Release, Unregister, Close, Known, LoopInv, EventLoopTypeOK
  <1>3. life[o] \in {"new", "opening"} => todo[o] # <<>>
    BY DEF LoopInv, ObjectsRight
  <1>4. /\ life' \in [Object -> {"new", "opening", "alive", "closing", "closed"}]
        /\ todo' \in [Object -> Seq(Event)]
        /\ fd' \in [Object -> Fd \cup {EventFd}]
        /\ \A p \in Object : fd'[p] = EventFd <=> life'[p] = "new"
        /\ \A p \in Object : life'[p] \in {"new", "opening"} => todo'[p] # <<>>
    <2> USE EventLoopAssumption DEF LoopInv, EventLoopTypeOK, ObjectsRight
    <2>1. CASE Open(o)
      <3>1. PICK n \in Fd : fd' = [fd EXCEPT ![o] = n]
        BY <2>1 DEF Open
      <3>2. n # EventFd
        OBVIOUS
      <3>3. life' = [life EXCEPT ![o] = "opening"] /\ todo' = todo /\ life[o] = "new"
        BY <2>1 DEF Open
      <3> QED
        BY <1>3, <3>1, <3>2, <3>3
    <2>2. CASE Register(o)
      <3>1. todo[o] \in Seq(Event) /\ todo[o] # <<>>
        BY <2>2, <1>3 DEF Register
      <3>2. Tail(todo[o]) \in Seq(Event)
        BY <3>1, HeadTailProperties
      <3> QED
        BY <2>2, <3>2 DEF Register
    <2>3. CASE Release(o)
      BY <2>3 DEF Release
    <2>4. CASE Unregister(o)
      <3>1. todo[o] \in Seq(Event) /\ todo[o] # <<>>
        BY <2>4 DEF Unregister
      <3>2. Tail(todo[o]) \in Seq(Event)
        BY <3>1, HeadTailProperties
      <3> QED
        BY <2>4, <3>2 DEF Unregister
    <2>5. CASE Close(o)
      BY <2>5 DEF Close
    <2> QED
      BY <2>1, <2>2, <2>3, <2>4, <2>5
  <1>5. ASSUME NEW e \in Event
        PROVE  /\ adds'[e] \in Seq(Known') /\ adds'[e] \in Seq(Object)
               /\ removes'[e] \in Seq(Known') /\ removes'[e] \in Seq(Object)
    <2>1. /\ adds[e] \in Seq(Known') /\ removes[e] \in Seq(Known')
      BY <1>2, ListsGrow DEF LoopInv, ObjectsRight
    <2>2. Append(adds[e], o) \in Seq(Known') /\ Append(removes[e], o) \in Seq(Known')
      BY <1>2, <2>1, AppendProperties
    <2>3. adds'[e] \in {adds[e], Append(adds[e], o)}
      BY DEF Open, Register, Release, Unregister, Close, registry, LoopInv, EventLoopTypeOK
    <2>4. removes'[e] \in {removes[e], Append(removes[e], o)}
      BY DEF Open, Register, Release, Unregister, Close, registry, LoopInv, EventLoopTypeOK
    <2>5. Seq(Known') \subseteq Seq(Object)
      BY ListsGrow DEF Known
    <2> QED
      BY <2>1, <2>2, <2>3, <2>4, <2>5
  <1>6. ObjectsRight'
    <2>1. listeners' \in [Event -> ListOf(Known')]
      <3>1. ListOf(Known) \subseteq ListOf(Known')
        BY <1>2, ListsGrow
      <3> QED
        BY <1>1, <3>1 DEF LoopInv, ObjectsRight, roundVars
    <2>2. calls' \in Seq([event : Event, callback : CallbackOf(Known')])
      <3>1. Seq([event : Event, callback : CallbackOf(Known)])
              \subseteq Seq([event : Event, callback : CallbackOf(Known')])
        BY <1>2, ListsGrow
      <3> QED
        BY <1>1, <3>1 DEF LoopInv, ObjectsRight, roundVars
    <2>3. lpc' = "call" => calls' # <<>>
      BY <1>1 DEF LoopInv, ObjectsRight, roundVars
    <2>4. CallbackOf(Known)' = CallbackOf(Known')
      BY DEF CallbackOf
    <2> QED
      BY <1>4, <1>5, <2>1, <2>2, <2>3, <2>4 DEF ObjectsRight, ListOf
  <1>7. EventLoopTypeOK'
    <2>1. adds' \in [Event -> Seq(Object)] /\ removes' \in [Event -> Seq(Object)]
      <3>1. DOMAIN adds' = Event /\ DOMAIN removes' = Event
            /\ adds' = [e \in Event |-> adds'[e]] /\ removes' = [e \in Event |-> removes'[e]]
        BY DEF Open, Register, Release, Unregister, Close, registry, LoopInv, EventLoopTypeOK
      <3> QED
        BY <1>5, <3>1
    <2>2. /\ execute' \in BOOLEAN /\ eventfd' \in {"none", "clear", "raised"}
          /\ UNCHANGED <<runs, stopping>>
      BY DEF Open, Register, Release, Unregister, Close, loopVars, EventFdWrite,
             LoopInv, EventLoopTypeOK
    <2> QED
      BY <1>1, <1>4, <2>1, <2>2 DEF LoopInv, EventLoopTypeOK, roundVars
  <1> QED
    BY <1>6, <1>7 DEF LoopInv

(* Every step keeps the loop and its objects right. *)
LEMMA LoopInvStep ==
  ASSUME LoopInv, OsNext
  PROVE  LoopInv'
PROOF
  <1>1. LoopMoves
    BY StepMoves
  <1>2. CASE UNCHANGED eventLoopVars
    BY <1>2 DEF eventLoopVars, loopVars, roundVars, registry, objectVars, LoopInv,
                EventLoopTypeOK, ObjectsRight, Known
  <1>3. CASE \E o \in Object : Open(o) \/ Register(o) \/ Release(o) \/ Unregister(o) \/ Close(o)
    BY <1>3, LoopInvObject
  <1>4. CASE \/ RunBegin \/ RunEnd \/ EnterSelect \/ SelectReturn(Ready) \/ CallEmpty
             \/ StopStore \/ StopWake
    BY <1>4, LoopInvRun
  <1>5. CASE RunApply \/ HandleEvents \/ CallbackReturn
    BY <1>5, LoopInvRound
  <1> QED
    BY <1>1, <1>2, <1>3, <1>4, <1>5 DEF LoopMoves

------------------------------------------------------------------------------
(* The types of the timers. *)

(* Erased takes the listener from a list that holds it once; of other lists it
   leaves some elements. *)
LEMMA ErasedMembers ==
  ASSUME NEW S, NEW q \in Seq(S), NEW l
  PROVE  /\ Erased(q, l) \in Seq(S)
         /\ Once(q) /\ l \in Members(q) =>
              Once(Erased(q, l)) /\ Members(Erased(q, l)) = Members(q) \ {l}
PROOF
  <1> DEFINE places == {i \in DOMAIN q : q[i] # l}
             kept == Chosen(q, places)
             left == SubSeq(q, Len(kept) + 2, Len(q))
  <1>1. Erased(q, l) = kept \o left
    BY DEF Erased
  <1>2. /\ DOMAIN q = 1..Len(q) /\ Len(q) \in Nat
        /\ \A i \in 1..Len(q) : q[i] \in S
    BY LenProperties, ElementOfSeq
  <1>3. /\ kept \in Seq(S) /\ Members(kept) = {q[i] : i \in places}
        /\ Len(kept) = Cardinality(places) /\ Cardinality(places) \in Nat
        /\ Once(q) => Once(kept)
    <2>1. places \in SUBSET DOMAIN q
      OBVIOUS
    <2> HIDE DEF places
    <2> QED
      BY <2>1, ChosenMembers
  <1> HIDE DEF kept
  <1>4. left \in Seq(S)
    <2>1. \A i \in (Len(kept) + 2)..Len(q) : q[i] \in S
      BY <1>2, <1>3
    <2>2. Len(kept) + 2 \in Int /\ Len(q) \in Int
      BY <1>2, <1>3
    <2> QED
      BY <2>1, <2>2, SubSeqProperties
  <1>5. kept \o left \in Seq(S)
    BY <1>3, <1>4, ConcatProperties
  <1>6. ASSUME Once(q), l \in Members(q)
        PROVE  kept \o left = kept /\ Members(kept) = Members(q) \ {l}
    <2>1. PICK i \in DOMAIN q : q[i] = l
      BY <1>6 DEF Members
    <2>2. places = (1..Len(q)) \ {i}
      BY <1>2, <1>6, <2>1 DEF Once
    <2> DEFINE n == Len(q)
    <2>a. n \in Nat /\ i \in 1..n /\ places = (1..n) \ {i}
      BY <1>2, <2>1, <2>2
    <2> HIDE DEF n, places
    <2>3. IsFiniteSet(1..n) /\ Cardinality(1..n) = n
      BY <2>a, FS_Interval
    <2>b. Cardinality((1..n) \ {i}) = n - 1
      BY <2>a, <2>3, FS_RemoveElement
    <2>4. Cardinality(places) = Len(q) - 1
      BY <2>a, <2>b DEF n
    <2>5. Len(kept) + 2 \in Int /\ Len(q) \in Int /\ Len(q) < Len(kept) + 2
      BY <1>2, <1>3, <2>4
    <2>6. left = <<>>
      BY <2>5, SubSeqEmpty
    <2>7. Members(q) \ {l} = {q[j] : j \in places}
      BY DEF Members, places
    <2> HIDE DEF left
    <2> QED
      BY <1>3, <2>6, <2>7, ConcatEmptySeq
  <1> QED
    BY <1>1, <1>3, <1>5, <1>6

(* Nothing comes into it. *)
LEMMA ErasedSubset ==
  ASSUME NEW S, NEW q \in Seq(S), NEW l
  PROVE  Members(Erased(q, l)) \subseteq Members(q)
PROOF
  <1> DEFINE places == {i \in DOMAIN q : q[i] # l}
             kept == Chosen(q, places)
             left == SubSeq(q, Len(kept) + 2, Len(q))
             M == Members(q)
  <1>1. Erased(q, l) = kept \o left
    BY DEF Erased
  <1>2. /\ DOMAIN q = 1..Len(q) /\ Len(q) \in Nat
        /\ \A i \in 1..Len(q) : q[i] \in M
    BY LenProperties DEF Members
  <1>3. q \in Seq(M)
    <2>1. q \in [1..Len(q) -> M]
      BY <1>2, LenProperties
    <2> QED
      BY <1>2, <2>1, SeqDef
  <1>4. Erased(q, l) \in Seq(M)
    BY <1>3, ErasedMembers
  <1> HIDE DEF M
  <1>5. \A i \in DOMAIN Erased(q, l) : Erased(q, l)[i] \in M
    BY <1>4, LenProperties, ElementOfSeq
  <1>6. \A x \in Members(Erased(q, l)) : x \in M
    BY <1>5 DEF Members
  <1> QED
    BY <1>6 DEF M

(* The callbacks of timers keep their types. *)
LEMMA TimerTypesCallback ==
  ASSUME TimerTypeOK, TimerCallback
  PROVE  TimerTypeOK'
PROOF
  <1> USE DEF TimerTypeOK
  <1>1. PICK t \in Timer :
          \/ ReadEnter(t) \/ ReadReturn(t) \/ TestExecute(t) \/ Rearm(t)
          \/ LockListeners(t) \/ Tell(t) \/ TellReturn(t) \/ Unlock(t)
    BY DEF TimerCallback
  <1> USE DEF settingVars, listVars, expiryVars, controlVars
  <1>2. CASE ReadEnter(t)
    <2>1. source' \in Timer \cup {NoCall} /\ tpc' \in {"test", "reading"} /\ genuine' \in BOOLEAN
      BY <1>2 DEF ReadEnter, Read, Behind
    <2>2. kernel' = kernel
      BY <1>2 DEF ReadEnter, Read
    <2> QED
      BY <1>2, <2>1, <2>2 DEF ReadEnter
  <1>3. CASE ReadReturn(t)
    <2>1. source' \in Timer \cup {NoCall} /\ tpc' = "test" /\ genuine' \in BOOLEAN
      BY <1>3 DEF ReadReturn, Read
    <2>2. kernel' \in [Timer -> {"idle", "armed", "expired"}]
      BY <1>3 DEF ReadReturn, Read
    <2> QED
      BY <1>3, <2>1, <2>2 DEF ReadReturn
  <1>4. CASE TestExecute(t)
    BY <1>4 DEF TestExecute, ExpiredReturn
  <1>5. CASE Rearm(t)
    <2>1. kernel' \in [Timer -> {"idle", "armed", "expired"}]
      BY <1>5 DEF Rearm, Settime
    <2> QED
      BY <1>5, <2>1 DEF Rearm
  <1>6. CASE LockListeners(t)
    <2>1. told' \in Seq(Listener \cup IccTimer)
      <3>1. rawList[t] \in Seq(Listener \cup IccTimer) /\ weakList[t] \in Seq(Shared)
        OBVIOUS
      <3>2. weakList[t] \in Seq(Listener \cup IccTimer)
        BY <3>1, TimerAssumption, SeqMonotonic
      <3> QED
        BY <1>6, <3>1, <3>2, ConcatProperties DEF LockListeners
    <2>2. late' \in [Timer -> Nat]
      BY <1>6 DEF LockListeners
    <2> QED
      BY <1>6, <2>1, <2>2 DEF LockListeners
  <1>7. CASE Tell(t)
    <2>1. told' \in Seq(Listener \cup IccTimer) /\ speaking' \in Listener \cup IccTimer \cup {NoCall}
      <3>1. Tail(told) \in Seq(Listener \cup IccTimer) /\ Head(told) \in Listener \cup IccTimer
        BY <1>7, HeadTailProperties DEF Tell
      <3> QED
        BY <1>7, <3>1 DEF Tell
    <2> QED
      BY <1>7, <2>1 DEF Tell
  <1>8. CASE TellReturn(t)
    BY <1>8 DEF TellReturn
  <1>9. CASE Unlock(t)
    <2>1. weakList' \in [Timer -> Seq(Shared)]
      <3> DEFINE q == weakList[t]
                 places == {i \in DOMAIN q : q[i] \notin dead}
      <3>1. q \in Seq(Shared) /\ places \in SUBSET DOMAIN q /\ Unexpired(q) = Chosen(q, places)
        BY DEF Unexpired
      <3> HIDE DEF q, places
      <3>2. Unexpired(q) \in Seq(Shared)
        BY <3>1, ChosenMembers
      <3> QED
        BY <1>9, <3>2 DEF Unlock, q
    <2> QED
      BY <1>9, <2>1 DEF Unlock, ExpiredReturn
  <1> QED
    BY <1>1, <1>2, <1>3, <1>4, <1>5, <1>6, <1>7, <1>8, <1>9

(* So do the threads that start and stop them. *)
LEMMA TimerTypesControl ==
  ASSUME TimerTypeOK, Control \/ \E k \in Controller : Finish(k)
  PROVE  TimerTypeOK'
PROOF
  <1> USE DEF TimerTypeOK
  <1> USE DEF Pending, settingVars, listVars, expiryVars, controlVars
  <1>1. PICK k \in Controller, t \in Timer :
          \/ Start(k, t) \/ Stop(k, t) \/ Destruct(k, t) \/ ReleaseTimer(k, t)
          \/ Arm(k, t) \/ Disarm(k, t) \/ DestructStop(k, t)
    BY DEF Control, Finish
  <1>2. CASE Start(k, t)
    <2>1. starts' \in 0..MaxStarts
      BY <1>2, TimerAssumption DEF Start
    <2> QED
      BY <1>2, <2>1 DEF Start, BeginCall
  <1>3. CASE Stop(k, t)
    BY <1>3 DEF Stop, BeginCall
  <1>4. CASE Destruct(k, t)
    <2>1. rawList' \in [Timer -> Seq(Listener \cup IccTimer)]
      <3>1. Erased(rawList[t], t) \in Seq(Listener \cup IccTimer)
        BY ErasedMembers
      <3> QED
        BY <1>4, <3>1 DEF Destruct, Erase1
    <2>2. removed' \in [Timer -> SUBSET (Listener \cup IccTimer)]
      BY <1>4 DEF Destruct
    <2>3. raced' \subseteq Timer
      BY <1>4 DEF Destruct, BeginCall
    <2>4. call' = [call EXCEPT ![k] = <<"stop", t>>]
      BY <1>4 DEF Destruct, BeginCall
    <2> QED
      BY <1>4, <2>1, <2>2, <2>3, <2>4 DEF Destruct
  <1>5. CASE ReleaseTimer(k, t)
    BY <1>5 DEF ReleaseTimer
  <1>6. CASE Arm(k, t)
    <2>1. kernel' \in [Timer -> {"idle", "armed", "expired"}]
      BY <1>6 DEF Arm, Settime
    <2> QED
      BY <1>6, <2>1 DEF Arm
  <1>7. CASE Disarm(k, t)
    <2>1. kernel' \in [Timer -> {"idle", "armed", "expired"}]
      BY <1>7 DEF Disarm, Settime
    <2> QED
      BY <1>7, <2>1 DEF Disarm
  <1>8. CASE DestructStop(k, t)
    BY <1>8 DEF DestructStop
  <1> QED
    BY <1>1, <1>2, <1>3, <1>4, <1>5, <1>6, <1>7, <1>8

(* So do those that set them. *)
LEMMA TimerTypesSetting ==
  ASSUME TimerTypeOK, Setting
  PROVE  TimerTypeOK'
PROOF
  <1> USE DEF TimerTypeOK
  <1> USE DEF settingVars, listVars, expiryVars, controlVars
  <1>1. CASE \E l \in Shared : DropListener(l)
    BY <1>1 DEF DropListener
  <1>2. CASE \E t \in Timer : Construct(t)
    <2>1. PICK t \in Timer : Construct(t)
      BY <1>2
    <2>2. Append(rawList[t], t) \in Seq(Listener \cup IccTimer)
      BY <2>1, AppendProperties DEF Construct
    <2>3. rawList' \in [Timer -> Seq(Listener \cup IccTimer)]
      BY <2>1, <2>2 DEF Construct, Append1
    <2> QED
      BY <2>1, <2>3 DEF Construct
  <1>3. CASE \E t \in Timer :
               \/ EnableContinuous(t) \/ DisableContinuous(t)
               \/ \E n \in {-1, 1} : SetNumberOfRepetition(t, n)
               \/ \E ns \in {0, 1} : SetInterval(t, ns)
    <2>1. PICK t \in Timer :
            /\ Set(t)
            /\ \/ \E n \in {Infinite, OneTime, 1} :
                    counter' = [counter EXCEPT ![t] = n] /\ duration' = duration
               \/ \E ns \in {0, 1} :
                    duration' = [duration EXCEPT ![t] = ns] /\ counter' = counter
      BY <1>3 DEF EnableContinuous, DisableContinuous, SetNumberOfRepetition,
                  SetCounter, SetInterval, Infinite, OneTime
    <2>2. changes' \in 0..MaxChanges
      BY <2>1, TimerAssumption DEF Set, Change
    <2>3. switched' \subseteq Timer
      BY <2>1 DEF Set
    <2>4. counter' \in [Timer -> {Infinite, OneTime, 1}] /\ duration' \in [Timer -> {0, 1}]
      <3> DEFINE Counts == {Infinite, OneTime, 1}
      <3>1. counter \in [Timer -> Counts] /\ duration \in [Timer -> {0, 1}]
        OBVIOUS
      <3>2. PICK n \in Counts, ns \in {0, 1} :
              /\ counter' \in {counter, [counter EXCEPT ![t] = n]}
              /\ duration' \in {duration, [duration EXCEPT ![t] = ns]}
        BY <2>1
      <3> HIDE DEF Counts
      <3>3. counter' \in [Timer -> Counts]
        BY <3>1, <3>2
      <3>4. duration' \in [Timer -> {0, 1}]
        BY <3>1, <3>2
      <3> QED
        BY <3>3, <3>4 DEF Counts
    <2> QED
      BY <2>1, <2>2, <2>3, <2>4 DEF Set
  <1>4. CASE \E t \in Timer, l \in Listener : AddListener(t, l)
    <2>1. PICK t \in Timer, l \in Listener : AddListener(t, l)
      BY <1>4
    <2>2. changes' \in 0..MaxChanges
      BY <2>1, TimerAssumption DEF AddListener, Change
    <2>3. /\ Append(rawList[t], l) \in Seq(Listener \cup IccTimer)
          /\ l \in Shared => Append(weakList[t], l) \in Seq(Shared)
      BY AppendProperties
    <2>4. /\ rawList' \in [Timer -> Seq(Listener \cup IccTimer)]
          /\ weakList' \in [Timer -> Seq(Shared)]
      BY <2>1, <2>3 DEF AddListener, Append1
    <2>5. doubled' \subseteq Timer
      BY <2>1 DEF AddListener
    <2>6. removed' \in [Timer -> SUBSET (Listener \cup IccTimer)]
      BY <2>1 DEF AddListener
    <2> QED
      BY <2>1, <2>2, <2>4, <2>5, <2>6 DEF AddListener
  <1>5. CASE \E t \in Timer, l \in Listener : RemoveListener(t, l)
    <2>1. PICK t \in Timer, l \in Listener : RemoveListener(t, l)
      BY <1>5
    <2>2. changes' \in 0..MaxChanges
      BY <2>1, TimerAssumption DEF RemoveListener, Change
    <2>3. /\ Erased(rawList[t], l) \in Seq(Listener \cup IccTimer)
          /\ Erased(weakList[t], l) \in Seq(Shared)
      BY ErasedMembers
    <2>4. /\ rawList' \in [Timer -> Seq(Listener \cup IccTimer)]
          /\ weakList' \in [Timer -> Seq(Shared)]
      BY <2>1, <2>3 DEF RemoveListener, Erase1
    <2>5. removed' \in [Timer -> SUBSET (Listener \cup IccTimer)]
      BY <2>1 DEF RemoveListener
    <2> QED
      BY <2>1, <2>2, <2>4, <2>5 DEF RemoveListener
  <1> QED
    BY <1>1, <1>2, <1>3, <1>4, <1>5 DEF Setting

(* Initially the types of the timers are right. *)
LEMMA TimerTypesInit ==
  ASSUME TimerInit
  PROVE  TimerTypeOK
PROOF
  <1>1. \A S : <<>> \in Seq(S)
    BY EmptySeq
  <1>2. 0 \in 0..MaxStarts /\ 0 \in 0..MaxChanges
    BY TimerAssumption
  <1> QED
    BY <1>1, <1>2 DEF TimerInit, TimerTypeOK

(* Steps that are none of a timer leave all timers alone. *)
LEMMA NoTimerStep ==
  ASSUME OsNext
  PROVE  \/ TimerCallback \/ Control \/ Setting \/ \E k \in Controller : Finish(k)
         \/ \E t \in Timer : Expiry(t)
         \/ UNCHANGED timerVars
PROOF
  BY DEF OsNext, LoopStep, SocketCallback, ObjectStep, RegisterStep, Request, Peer,
         StopFinish

(* ... and steps that are none of a socket all sockets. *)
LEMMA NoSocketStep ==
  ASSUME OsNext
  PROVE  SocketCallback \/ Request \/ Peer \/ UNCHANGED socketVars
PROOF
  BY DEF OsNext, LoopStep, TimerCallback, ObjectStep, RegisterStep, Control, Setting,
         StopFinish, Finish, Expiry

(* Every step keeps them. *)
LEMMA TimerTypesStep ==
  ASSUME TimerTypeOK, OsNext
  PROVE  TimerTypeOK'
PROOF
  <1>1. CASE TimerCallback
    BY <1>1, TimerTypesCallback
  <1>2. CASE Control \/ \E k \in Controller : Finish(k)
    BY <1>2, TimerTypesControl
  <1>3. CASE Setting
    BY <1>3, TimerTypesSetting
  <1>4. CASE \E t \in Timer : Expiry(t)
    BY <1>4 DEF Expiry, Expire, TimerTypeOK, settingVars, listVars, expiryVars, controlVars
  <1>5. CASE UNCHANGED timerVars
    BY <1>5 DEF timerVars, TimerTypeOK, settingVars, listVars, expiryVars, controlVars
  <1> QED
    BY <1>1, <1>2, <1>3, <1>4, <1>5, NoTimerStep

------------------------------------------------------------------------------
(* Whose handler the loop's thread is in. *)

(* A callback that is not empty stays the one at the head of the round until it
   returns. *)
LEMMA CallbackStays ==
  ASSUME OsNext, lpc = "call", ~Head(calls).callback.empty,
         ~TimerCallback, ~SocketCallback
  PROVE  UNCHANGED <<lpc, calls>>
PROOF
  <1>1. CASE LoopStep
    BY <1>1 DEF LoopStep, RunApply, RunEnd, EnterSelect, SelectReturn, HandleEvents, CallEmpty
  <1>2. CASE UNCHANGED eventLoopVars
    BY <1>2 DEF eventLoopVars, loopVars, roundVars
  <1>3. CASE \E o \in Object : Open(o) \/ Register(o) \/ Release(o) \/ Unregister(o) \/ Close(o)
    BY <1>3 DEF Open, Register, Release, Unregister, Close, loopVars, roundVars
  <1>4. CASE ObjectStep
    BY <1>3, <1>4 DEF ObjectStep, RegisterStep
  <1>5. CASE \/ Control \/ Setting \/ Request \/ Peer \/ (\E k \in Controller : Finish(k))
             \/ (\E t \in Timer : Expiry(t))
    BY <1>2, <1>3, <1>5, OtherMoves
  <1>6. CASE StopFinish \/ RunBegin \/ StopStore
    BY <1>6 DEF StopFinish, StopWake, RunBegin, StopStore, roundVars
  <1> QED
    BY <1>1, <1>4, <1>5, <1>6 DEF OsNext

(* A callback is that of one object. *)
LEMMA OneCallback ==
  ASSUME NEW o, NEW e, NEW p, NEW f, InCallback(o, e), InCallback(p, f)
  PROVE  /\ o = p /\ e = f /\ lpc = "call"
         /\ Head(calls).callback.of = o /\ ~Head(calls).callback.empty
PROOF
  BY DEF InCallback, Bound

(* A step of the callback of a timer is one of a timer. *)
LEMMA CallbackOfTimer ==
  ASSUME TimerCallback
  PROVE  \E t \in Timer :
           /\ InCallback(t, "READ")
           /\ \/ ReadEnter(t) \/ ReadReturn(t) \/ TestExecute(t) \/ Rearm(t)
              \/ LockListeners(t) \/ Tell(t) \/ TellReturn(t) \/ Unlock(t)
PROOF
  BY DEF TimerCallback, ReadEnter, ReadReturn, TestExecute, Rearm, LockListeners, Tell,
         TellReturn, Unlock, Locked

(* A step of a handler is one of a socket or of a server. *)
LEMMA CallbackOfSocket ==
  ASSUME SocketCallback
  PROVE  \E o \in Socket \cup Server, e \in Event : InCallback(o, e)
PROOF
  BY DEF SocketCallback, ReadEnterSocket, Receive, ReceiveNothing, ReceiveError, Reads,
         WriteEnterSocket, Transmit, TransmitError, Writes, AcceptEnter, Accept,
         AcceptReturn, AcceptNobody, Accepts, Event

(* So a handler of a timer is left alone by all but its own steps ... *)
LEMMA TimerHandlerStays ==
  ASSUME PlacesRight, OsNext, tpc # "enter", ~TimerCallback
  PROVE  ~SocketCallback /\ UNCHANGED <<lpc, calls>>
PROOF
  <1>1. PICK t \in Timer : InCallback(t, "READ")
    BY DEF PlacesRight
  <1>2. ~SocketCallback
    BY <1>1, CallbackOfSocket, OneCallback, OsAssumption
  <1>3. lpc = "call" /\ ~Head(calls).callback.empty
    BY <1>1, OneCallback
  <1> QED
    BY <1>2, <1>3, CallbackStays

(* ... and one of a socket too. *)
LEMMA SocketHandlerStays ==
  ASSUME PlacesRight, OsNext, spc # "enter", ~SocketCallback
  PROVE  ~TimerCallback /\ UNCHANGED <<lpc, calls>>
PROOF
  <1>1. PICK o \in Socket \cup Server, e \in Event : InCallback(o, e)
    BY DEF PlacesRight
  <1>2. ~TimerCallback
    BY <1>1, CallbackOfTimer, OneCallback, OsAssumption
  <1>3. lpc = "call" /\ ~Head(calls).callback.empty
    BY <1>1, OneCallback
  <1> QED
    BY <1>2, <1>3, CallbackStays

(* Every step keeps the places where the handlers are. *)
LEMMA PlacesRightStep ==
  ASSUME PlacesRight, OsNext
  PROVE  PlacesRight'
PROOF
  <1>1. CASE TimerCallback
    <2>1. PICK t \in Timer :
            /\ InCallback(t, "READ")
            /\ \/ ReadEnter(t) \/ ReadReturn(t) \/ TestExecute(t) \/ Rearm(t)
               \/ LockListeners(t) \/ Tell(t) \/ TellReturn(t) \/ Unlock(t)
      BY <1>1, CallbackOfTimer
    <2>2. spc = "enter" /\ spc' = spc
      <3>1. UNCHANGED spc
        BY <1>1 DEF TimerCallback, socketVars, handlerVars
      <3>2. spc = "enter"
        BY <2>1, OneCallback, OsAssumption DEF PlacesRight
      <3> QED
        BY <3>1, <3>2
    <2>3. tpc' # "enter" => UNCHANGED <<lpc, calls>>
      BY <2>1 DEF ReadEnter, ReadReturn, TestExecute, Rearm, LockListeners, Tell,
                  TellReturn, Unlock, ExpiredReturn, eventLoopVars, loopVars, roundVars
    <2>4. speaking' # NoCall => tpc' = "tell"
      BY <2>1 DEF ReadEnter, ReadReturn, TestExecute, Rearm, LockListeners, Tell,
                  TellReturn, Unlock, ExpiredReturn, Locked, PlacesRight
    <2> QED
      BY <2>1, <2>2, <2>3, <2>4 DEF PlacesRight, InCallback
  <1>2. CASE SocketCallback
    <2>1. PICK o \in Socket \cup Server, e \in Event : InCallback(o, e)
      BY <1>2, CallbackOfSocket
    <2>2. tpc = "enter"
      BY <2>1, OneCallback, OsAssumption DEF PlacesRight
    <2>3. UNCHANGED <<tpc, speaking>>
      BY <1>2 DEF SocketCallback, timerVars, expiryVars
    <2>4. spc' # "enter" => UNCHANGED <<lpc, calls>>
      <3>1. CASE \E s \in Socket :
              \/ ReadEnterSocket(s) \/ Receive(s) \/ ReceiveNothing(s) \/ ReceiveError(s)
              \/ WriteEnterSocket(s) \/ Transmit(s) \/ TransmitError(s)
        <4>1. PICK s \in Socket :
                \/ ReadEnterSocket(s) \/ Receive(s) \/ ReceiveNothing(s) \/ ReceiveError(s)
                \/ WriteEnterSocket(s) \/ Transmit(s) \/ TransmitError(s)
          BY <3>1
        <4>2. CASE ReadEnterSocket(s) \/ Receive(s) \/ ReceiveNothing(s) \/ ReceiveError(s)
          BY <4>2 DEF ReadEnterSocket, Receive, ReceiveNothing, ReceiveError, Answer,
                      GoOn, eventLoopVars, loopVars, roundVars
        <4>3. CASE WriteEnterSocket(s) \/ Transmit(s) \/ TransmitError(s)
          BY <4>3 DEF WriteEnterSocket, Transmit, TransmitError, Acknowledge, GoOn,
                      eventLoopVars, loopVars, roundVars
        <4> QED
          BY <4>1, <4>2, <4>3
      <3>2. CASE \E v \in Server :
              AcceptEnter(v) \/ Accept(v) \/ AcceptReturn(v) \/ AcceptNobody(v)
        BY <3>2 DEF AcceptEnter, Accept, AcceptReturn, AcceptNobody, GoOn, Open,
                    eventLoopVars, loopVars, roundVars
      <3> QED
        BY <1>2, <3>1, <3>2 DEF SocketCallback
    <2> QED
      BY <2>1, <2>2, <2>3, <2>4 DEF PlacesRight, InCallback
  <1>3. CASE ~TimerCallback /\ ~SocketCallback
    <2>1. UNCHANGED <<tpc, speaking, spc>>
      <3>1. UNCHANGED <<tpc, speaking>>
        <4>1. CASE UNCHANGED timerVars
          BY <4>1 DEF timerVars, expiryVars
        <4>2. CASE Control \/ \E k \in Controller : Finish(k)
          BY <4>2 DEF Control, Finish, Start, Stop, Destruct, ReleaseTimer, Arm, Disarm,
                      DestructStop, expiryVars
        <4>3. CASE Setting \/ \E t \in Timer : Expiry(t)
          BY <4>3 DEF Setting, Construct, EnableContinuous, DisableContinuous, Set,
                SetCounter, SetNumberOfRepetition, SetInterval, AddListener,
                RemoveListener, DropListener, Expiry, Expire, expiryVars
        <4> QED
          BY <1>3, <4>1, <4>2, <4>3, NoTimerStep
      <3>2. UNCHANGED spc
        BY <1>3, NoSocketStep DEF socketVars, handlerVars, Request, ReceiveAsync, SendAsync,
              AcceptAsync, Peer, PeerSend, PeerReads, PeerEnds, PeerConnects
      <3> QED
        BY <3>1, <3>2
    <2>2. tpc # "enter" \/ spc # "enter" => UNCHANGED <<lpc, calls>>
      BY <1>3, TimerHandlerStays, SocketHandlerStays
    <2> QED
      BY <2>1, <2>2 DEF PlacesRight, InCallback
  <1> QED
    BY <1>1, <1>2, <1>3

------------------------------------------------------------------------------
(* The types of the sockets, and the queues their handlers work on: a handler
   goes on only while there is a request in its queue. *)

(* Initially the types of the sockets are right. *)
LEMMA SocketTypesInit ==
  ASSUME SocketInit
  PROVE  SocketTypeOK
PROOF
  <1>1. \A S : <<>> \in Seq(S)
    BY EmptySeq
  <1>2. 0 \in 0..MaxBytes /\ 0 \in 0..MaxRequests /\ Space \in 0..Space
    BY SocketAssumption
  <1> QED
    BY <1>1, <1>2 DEF SocketInit, SocketTypeOK

(* Clients and peers keep them. *)
LEMMA SocketTypesOther ==
  ASSUME SocketTypeOK, Request \/ Peer
  PROVE  SocketTypeOK'
PROOF
  <1> USE DEF peerVars, streamVars, requestVars, handlerVars, socketHistory
  <1>1. CASE \E s \in Socket : ReceiveAsync(s)
    <2>1. PICK s \in Socket : ReceiveAsync(s)
      BY <1>1
    <2>a. /\ asked \in [Socket \cup Server -> 0..MaxRequests] /\ asked[s] < MaxRequests
          /\ asked' = [asked EXCEPT ![s] = @ + 1]
      BY <2>1 DEF ReceiveAsync, SocketTypeOK
    <2>b. asked[s] + 1 \in 0..MaxRequests
      BY <2>a, SocketAssumption
    <2>2. asked' \in [Socket \cup Server -> 0..MaxRequests] /\ asked'[s] \in Nat
      BY <2>a, <2>b
    <2>3. Append(reads[s], asked'[s]) \in Seq(Nat)
      BY <2>2, AppendProperties DEF SocketTypeOK
    <2> QED
      BY <2>1, <2>2, <2>3 DEF SocketTypeOK, ReceiveAsync
  <1>2. CASE \E s \in Socket : SendAsync(s)
    <2>1. PICK s \in Socket : SendAsync(s)
      BY <1>2
    <2>a. /\ offered \in [Socket -> 0..MaxRequests] /\ offered[s] < MaxRequests
          /\ offered' = [offered EXCEPT ![s] = @ + 1]
      BY <2>1 DEF SendAsync, SocketTypeOK
    <2>b. offered[s] + 1 \in 0..MaxRequests
      BY <2>a, SocketAssumption
    <2>2. offered' \in [Socket -> 0..MaxRequests] /\ offered'[s] \in Nat
      BY <2>a, <2>b
    <2>3. PICK n \in ChunkSizes :
            sends' = [sends EXCEPT ![s] = Append(@, [id |-> offered'[s], size |-> n])]
      BY <2>1 DEF SendAsync
    <2> DEFINE X == [id : Nat, size : ChunkSizes]
    <2>4. [id |-> offered'[s], size |-> n] \in X /\ sends[s] \in Seq(X)
      BY <2>2 DEF SocketTypeOK
    <2> HIDE DEF X
    <2>5. Append(sends[s], [id |-> offered'[s], size |-> n]) \in Seq(X)
      BY <2>4, AppendProperties
    <2>6. sends \in [Socket -> Seq(X)]
      BY DEF X, SocketTypeOK
    <2>7. sends' \in [Socket -> Seq(X)]
      BY <2>3, <2>5, <2>6
    <2> QED
      BY <2>1, <2>2, <2>7 DEF SendAsync, X, SocketTypeOK
  <1>3. CASE \E v \in Server : AcceptAsync(v)
    <2>1. PICK v \in Server : AcceptAsync(v)
      BY <1>3
    <2>a. /\ asked \in [Socket \cup Server -> 0..MaxRequests] /\ asked[v] < MaxRequests
          /\ asked' = [asked EXCEPT ![v] = @ + 1]
      BY <2>1 DEF AcceptAsync, SocketTypeOK
    <2>b. asked[v] + 1 \in 0..MaxRequests
      BY <2>a, SocketAssumption
    <2>2. asked' \in [Socket \cup Server -> 0..MaxRequests] /\ asked'[v] \in Nat
      BY <2>a, <2>b
    <2>3. Append(accepts[v], asked'[v]) \in Seq(Nat)
      BY <2>2, AppendProperties DEF SocketTypeOK
    <2> QED
      BY <2>1, <2>2, <2>3 DEF SocketTypeOK, AcceptAsync
  <1>4. CASE \E s \in Socket : PeerSend(s)
    <2>1. PICK s \in Socket : PeerSend(s)
      BY <1>4
    <2>a. /\ peerSent \in [Socket -> 0..MaxBytes] /\ peerSent[s] < MaxBytes
          /\ peerSent' = [peerSent EXCEPT ![s] = @ + 1]
      BY <2>1 DEF PeerSend, SocketTypeOK
    <2>b. peerSent[s] + 1 \in 0..MaxBytes
      BY <2>a, SocketAssumption
    <2>2. peerSent' \in [Socket -> 0..MaxBytes] /\ peerSent'[s] \in Nat
      BY <2>a, <2>b
    <2>3. Append(incoming[s], peerSent'[s]) \in Seq(Nat)
      BY <2>2, AppendProperties DEF SocketTypeOK
    <2> QED
      BY <2>1, <2>2, <2>3 DEF SocketTypeOK, PeerSend
  <1>5. CASE \E s \in Socket : PeerReads(s)
    <2>1. PICK s \in Socket : PeerReads(s)
      BY <1>5
    <2>2. Space \in 0..Space
      BY SocketAssumption
    <2> QED
      BY <2>1, <2>2 DEF PeerReads, SocketTypeOK
  <1>6. CASE \E s \in Socket : PeerEnds(s)
    <2>1. PICK s \in Socket : PeerEnds(s)
      BY <1>6
    <2>2. <<>> \in Seq(Nat)
      BY EmptySeq
    <2>a. /\ incoming \in [Socket -> Seq(Nat)]
          /\ incoming' = incoming \/ incoming' = [incoming EXCEPT ![s] = <<>>]
      BY <2>1 DEF PeerEnds, SocketTypeOK
    <2>3. incoming' \in [Socket -> Seq(Nat)]
      BY <2>a, <2>2
    <2>4. state' \in [Socket -> {"fine", "pending", "reported"}]
      BY <2>1 DEF PeerEnds, SocketTypeOK
    <2>5. ended' \in [Socket -> BOOLEAN]
      BY <2>1 DEF PeerEnds, SocketTypeOK
    <2> QED
      BY <2>1, <2>3, <2>4, <2>5 DEF PeerEnds, SocketTypeOK
  <1>7. CASE \E v \in Server : PeerConnects(v)
    <2>1. PICK v \in Server : PeerConnects(v)
      BY <1>7
    <2>2. backlog \in [Server -> Nat] /\ backlog' = [backlog EXCEPT ![v] = @ + 1]
      BY <2>1 DEF PeerConnects, SocketTypeOK
    <2>3. backlog' \in [Server -> Nat]
      BY <2>2
    <2> QED
      BY <2>1, <2>3 DEF PeerConnects, SocketTypeOK
  <1> QED
    BY <1>1, <1>2, <1>3, <1>4, <1>5, <1>6, <1>7 DEF Request, Peer

(* What an answer and an acknowledgement do to the types. *)
LEMMA AnswerTypes ==
  ASSUME SocketTypeOK, NEW s \in Socket, reads[s] # <<>>,
         NEW result \in Seq(Nat) \cup {Exception}, Answer(s, result)
  PROVE  /\ answers' \in [Socket -> Seq(Nat \X (Seq(Nat) \cup {Exception}))]
         /\ reads' \in [Socket -> Seq(Nat)]
         /\ chunk' \in Seq(Nat)
         /\ spc' \in {"enter", "loop"}
PROOF
  <1> DEFINE X == Nat \X (Seq(Nat) \cup {Exception})
  <1>1. Head(reads[s]) \in Nat /\ Tail(reads[s]) \in Seq(Nat)
    BY HeadTailProperties DEF SocketTypeOK
  <1>2. <<Head(reads[s]), result>> \in X
    BY <1>1
  <1>3. answers \in [Socket -> Seq(X)] /\ reads \in [Socket -> Seq(Nat)]
    BY DEF SocketTypeOK
  <1> HIDE DEF X
  <1>4. Append(answers[s], <<Head(reads[s]), result>>) \in Seq(X)
    BY <1>2, <1>3, AppendProperties
  <1>5. answers' \in [Socket -> Seq(X)]
    BY <1>3, <1>4 DEF Answer
  <1>6. reads' \in [Socket -> Seq(Nat)]
    BY <1>1, <1>3 DEF Answer
  <1> QED
    BY <1>5, <1>6, EmptySeq DEF Answer, GoOn, X

(* An acknowledgement is of its type. *)
LEMMA AcknowledgeTypes ==
  ASSUME SocketTypeOK, NEW s \in Socket, sends[s] # <<>>,
         NEW result, result \in {"sent", "error"}, Acknowledge(s, result)
  PROVE  /\ done' \in [Socket -> Seq(Nat \X {"sent", "error"})]
         /\ sends' \in [Socket -> Seq([id : Nat, size : ChunkSizes])]
         /\ sentSize' \in Nat
         /\ spc' \in {"enter", "loop"}
PROOF
  <1> DEFINE X == Nat \X {"sent", "error"}
             Y == [id : Nat, size : ChunkSizes]
  <1>1. sends \in [Socket -> Seq(Y)] /\ done \in [Socket -> Seq(X)]
    BY DEF SocketTypeOK
  <1>2. Head(sends[s]) \in Y /\ Tail(sends[s]) \in Seq(Y)
    <2> HIDE DEF Y
    <2> QED
      BY <1>1, HeadTailProperties
  <1>3. <<Head(sends[s]).id, result>> \in X
    BY <1>2
  <1> HIDE DEF X, Y
  <1>4. Append(done[s], <<Head(sends[s]).id, result>>) \in Seq(X)
    BY <1>1, <1>3, AppendProperties
  <1>5. done' \in [Socket -> Seq(X)]
    BY <1>1, <1>4 DEF Acknowledge
  <1>6. sends' \in [Socket -> Seq(Y)]
    BY <1>1, <1>2 DEF Acknowledge
  <1> QED
    BY <1>5, <1>6 DEF Acknowledge, GoOn, X, Y

(* The handler that receives keeps the types. *)
LEMMA SocketTypesRead ==
  ASSUME SocketTypeOK, QueuesRight, NEW s \in Socket,
         ReadEnterSocket(s) \/ Receive(s) \/ ReceiveNothing(s) \/ ReceiveError(s)
  PROVE  SocketTypeOK'
PROOF
  <1> USE DEF peerVars, streamVars, requestVars, handlerVars, socketHistory
  <1>1. CASE ReadEnterSocket(s)
    BY <1>1 DEF ReadEnterSocket, SocketTypeOK
  <1>2. CASE Receive(s)
    <2>1. PICK n \in 1..Len(incoming[s]) :
            /\ chunk' = chunk \o SubSeq(incoming[s], 1, n)
            /\ incoming' = [incoming EXCEPT ![s] = SubSeq(@, n + 1, Len(@))]
      BY <1>2 DEF Receive
    <2>2. /\ incoming[s] \in Seq(Nat) /\ Len(incoming[s]) \in Nat
          /\ \A i \in 1..Len(incoming[s]) : incoming[s][i] \in Nat
      BY LenProperties, ElementOfSeq DEF SocketTypeOK
    <2>3. SubSeq(incoming[s], 1, n) \in Seq(Nat)
      <3>1. \A i \in 1..n : incoming[s][i] \in Nat
        BY <2>2
      <3> QED
        BY <2>2, <3>1, SubSeqProperties
    <2>4. SubSeq(incoming[s], n + 1, Len(incoming[s])) \in Seq(Nat)
      <3>1. \A i \in (n + 1)..Len(incoming[s]) : incoming[s][i] \in Nat
        BY <2>2
      <3>2. n + 1 \in Int /\ Len(incoming[s]) \in Int
        BY <2>2
      <3> QED
        BY <3>1, <3>2, SubSeqProperties
    <2>5. chunk' \in Seq(Nat)
      BY <2>1, <2>3, ConcatProperties DEF SocketTypeOK
    <2>6. incoming' \in [Socket -> Seq(Nat)]
      BY <2>1, <2>4 DEF SocketTypeOK
    <2> QED
      BY <1>2, <2>5, <2>6 DEF Receive, SocketTypeOK
  <1>3. CASE ReceiveNothing(s)
    <2>1. reads[s] # <<>> /\ chunk \in Seq(Nat) /\ Answer(s, chunk)
      BY <1>3 DEF ReceiveNothing, QueuesRight, SocketTypeOK
    <2>2. /\ answers' \in [Socket -> Seq(Nat \X (Seq(Nat) \cup {Exception}))]
          /\ reads' \in [Socket -> Seq(Nat)]
          /\ chunk' \in Seq(Nat)
          /\ spc' \in {"enter", "loop"}
      BY <2>1, AnswerTypes
    <2> QED
      BY <1>3, <2>2 DEF ReceiveNothing, SocketTypeOK
  <1>4. CASE ReceiveError(s)
    <2>1. reads[s] # <<>> /\ Answer(s, Exception)
      BY <1>4 DEF ReceiveError, QueuesRight
    <2>2. /\ answers' \in [Socket -> Seq(Nat \X (Seq(Nat) \cup {Exception}))]
          /\ reads' \in [Socket -> Seq(Nat)]
          /\ chunk' \in Seq(Nat)
          /\ spc' \in {"enter", "loop"}
      BY <2>1, AnswerTypes
    <2>3. state' \in [Socket -> {"fine", "pending", "reported"}]
      BY <1>4 DEF ReceiveError, SocketTypeOK
    <2> QED
      BY <1>4, <2>2, <2>3 DEF ReceiveError, SocketTypeOK
  <1> QED
    BY <1>1, <1>2, <1>3, <1>4

(* So does the one that sends. *)
LEMMA SocketTypesWrite ==
  ASSUME SocketTypeOK, QueuesRight, NEW s \in Socket,
         WriteEnterSocket(s) \/ Transmit(s) \/ TransmitError(s)
  PROVE  SocketTypeOK'
PROOF
  <1> USE DEF peerVars, streamVars, requestVars, handlerVars, socketHistory
  <1>1. CASE WriteEnterSocket(s)
    BY <1>1 DEF WriteEnterSocket, SocketTypeOK
  <1>2. CASE Transmit(s)
    <2> DEFINE first == Head(sends[s])
               rest == first.size - sentSize
               bytes(n) == [i \in 1..n |-> <<first.id, sentSize + i>>]
    <2>1. sends[s] # <<>>
      BY <1>2 DEF Transmit, QueuesRight
    <2>2. first.id \in Nat /\ first.size \in Nat
      <3> DEFINE Y == [id : Nat, size : ChunkSizes]
      <3>1. sends[s] \in Seq(Y)
        BY DEF SocketTypeOK
      <3> HIDE DEF Y
      <3>2. first \in Y
        BY <2>1, <3>1, HeadTailProperties
      <3> QED
        BY <3>2, SocketAssumption DEF Y
    <2>3. sentSize \in Nat
      BY DEF SocketTypeOK
    <2> HIDE DEF first
    <2>4. PICK n \in 0..rest :
            /\ n <= space[s] /\ (n = 0 => rest = 0)
            /\ space' = [space EXCEPT ![s] = @ - n]
            /\ sentBytes' = [sentBytes EXCEPT ![s] = @ \o bytes(n)]
            /\ IF n = rest
               THEN Acknowledge(s, "sent")
               ELSE /\ sentSize' = sentSize + n
                    /\ UNCHANGED <<eventLoopVars, sends, spc, done>>
      BY <1>2 DEF Transmit, first
    <2>5. n \in Nat
      BY <2>2, <2>3
    <2>6. space' \in [Socket -> 0..Space]
      <3>1. space \in [Socket -> 0..Space]
        BY DEF SocketTypeOK
      <3>2. space[s] - n \in 0..Space
        BY <2>4, <2>5, <3>1, SocketAssumption
      <3> QED
        BY <2>4, <3>1, <3>2
    <2>7. sentBytes' \in [Socket -> Seq(Nat \X Nat)]
      <3> DEFINE X == Nat \X Nat
      <3>1. bytes(n) \in [1..n -> X]
        BY <2>2, <2>3, <2>5
      <3>2. sentBytes \in [Socket -> Seq(X)]
        BY DEF SocketTypeOK
      <3> HIDE DEF X, bytes
      <3>3. bytes(n) \in Seq(X)
        BY <2>5, <3>1, SeqDef
      <3>4. sentBytes[s] \o bytes(n) \in Seq(X)
        BY <3>2, <3>3, ConcatProperties
      <3>5. sentBytes' \in [Socket -> Seq(X)]
        BY <2>4, <3>2, <3>4
      <3> QED
        BY <3>5 DEF X
    <2> HIDE DEF rest, bytes
    <2>8. /\ done' \in [Socket -> Seq(Nat \X {"sent", "error"})]
          /\ sends' \in [Socket -> Seq([id : Nat, size : ChunkSizes])]
          /\ sentSize' \in Nat
          /\ spc' \in {"enter", "loop"}
      <3>1. CASE n = rest
        <4>1. Acknowledge(s, "sent")
          BY <2>4, <3>1
        <4> QED
          BY <2>1, <4>1, AcknowledgeTypes
      <3>2. CASE n # rest
        <4>1. sentSize' = sentSize + n /\ sends' = sends /\ done' = done /\ spc' = spc
          BY <2>4, <3>2
        <4>2. sentSize' \in Nat
          BY <2>3, <2>5, <4>1
        <4> QED
          BY <4>1, <4>2 DEF SocketTypeOK
      <3> QED
        BY <3>1, <3>2
    <2> QED
      BY <1>2, <2>6, <2>7, <2>8 DEF Transmit, SocketTypeOK
  <1>3. CASE TransmitError(s)
    <2>1. sends[s] # <<>> /\ Acknowledge(s, "error")
      BY <1>3 DEF TransmitError, QueuesRight
    <2>2. /\ done' \in [Socket -> Seq(Nat \X {"sent", "error"})]
          /\ sends' \in [Socket -> Seq([id : Nat, size : ChunkSizes])]
          /\ sentSize' \in Nat
          /\ spc' \in {"enter", "loop"}
      BY <2>1, AcknowledgeTypes
    <2>3. state' \in [Socket -> {"fine", "pending", "reported"}]
      BY <1>3 DEF TransmitError, SocketTypeOK
    <2> QED
      BY <1>3, <2>2, <2>3 DEF TransmitError, SocketTypeOK
  <1> QED
    BY <1>1, <1>2, <1>3

(* So does the one of a server. *)
LEMMA SocketTypesAccept ==
  ASSUME SocketTypeOK, QueuesRight, NEW v \in Server,
         AcceptEnter(v) \/ Accept(v) \/ AcceptReturn(v) \/ AcceptNobody(v)
  PROVE  SocketTypeOK'
PROOF
  <1> USE DEF peerVars, streamVars, requestVars, handlerVars, socketHistory
  <1>1. CASE AcceptEnter(v)
    BY <1>1 DEF AcceptEnter, SocketTypeOK
  <1>2. CASE Accept(v)
    <2>1. backlog \in [Server -> Nat] /\ backlog' = [backlog EXCEPT ![v] = @ - 1] /\ backlog[v] > 0
      BY <1>2 DEF Accept, SocketTypeOK
    <2>2. backlog' \in [Server -> Nat]
      BY <2>1
    <2>3. accepting' \in Accepted \cup {NoSocket}
      BY <1>2 DEF Accept
    <2> QED
      BY <1>2, <2>2, <2>3 DEF Accept, SocketTypeOK
  <1>3. CASE AcceptReturn(v)
    <2>1. accepts[v] # <<>> /\ accepts[v] \in Seq(Nat) /\ accepting \in Accepted
      BY <1>3 DEF AcceptReturn, QueuesRight, SocketTypeOK
    <2>2. Head(accepts[v]) \in Nat /\ Tail(accepts[v]) \in Seq(Nat)
      BY <2>1, HeadTailProperties
    <2> DEFINE X == Nat \X Accepted
    <2>3. <<Head(accepts[v]), accepting>> \in X /\ clients \in [Server -> Seq(X)]
      BY <2>1, <2>2 DEF SocketTypeOK
    <2> HIDE DEF X
    <2>4. Append(clients[v], <<Head(accepts[v]), accepting>>) \in Seq(X)
      BY <2>3, AppendProperties
    <2>5. clients' \in [Server -> Seq(X)]
      BY <1>3, <2>3, <2>4 DEF AcceptReturn
    <2>6. accepts' \in [Server -> Seq(Nat)]
      BY <1>3, <2>2 DEF AcceptReturn, SocketTypeOK
    <2>7. accepting' \in Accepted \cup {NoSocket} /\ spc' \in {"enter", "loop"}
      BY <1>3 DEF AcceptReturn, GoOn
    <2> QED
      BY <1>3, <2>5, <2>6, <2>7 DEF AcceptReturn, SocketTypeOK, X
  <1>4. CASE AcceptNobody(v)
    BY <1>4 DEF AcceptNobody, GoOn, SocketTypeOK
  <1> QED
    BY <1>1, <1>2, <1>3, <1>4

(* Every step keeps the types of the sockets. *)
LEMMA SocketTypesStep ==
  ASSUME SocketTypeOK, QueuesRight, OsNext
  PROVE  SocketTypeOK'
PROOF
  <1>1. CASE SocketCallback
    BY <1>1, SocketTypesRead, SocketTypesWrite, SocketTypesAccept DEF SocketCallback
  <1>2. CASE Request \/ Peer
    BY <1>2, SocketTypesOther
  <1>3. CASE UNCHANGED socketVars
    BY <1>3 DEF socketVars, peerVars, streamVars, requestVars, handlerVars, socketHistory,
                SocketTypeOK
  <1> QED
    BY <1>1, <1>2, <1>3, NoSocketStep

(* The handlers of other sockets than the one the thread is in do not run, and
   where the thread is elsewhere none does. *)
LEMMA QueuesRightStep ==
  ASSUME SocketTypeOK, PlacesRight, QueuesRight, OsNext
  PROVE  QueuesRight'
PROOF
  <1>1. PlacesRight'
    BY PlacesRightStep
  <1>2. CASE SocketCallback
    <2>1. ASSUME spc' # "enter"
          PROVE  UNCHANGED <<lpc, calls>>
      <3>1. CASE \E s \in Socket :
              \/ ReadEnterSocket(s) \/ Receive(s) \/ ReceiveNothing(s) \/ ReceiveError(s)
              \/ WriteEnterSocket(s) \/ Transmit(s) \/ TransmitError(s)
        <4>1. PICK s \in Socket :
                \/ ReadEnterSocket(s) \/ Receive(s) \/ ReceiveNothing(s) \/ ReceiveError(s)
                \/ WriteEnterSocket(s) \/ Transmit(s) \/ TransmitError(s)
          BY <3>1
        <4>2. CASE ReadEnterSocket(s) \/ Receive(s) \/ ReceiveNothing(s) \/ ReceiveError(s)
          BY <2>1, <4>2 DEF ReadEnterSocket, Receive, ReceiveNothing, ReceiveError, Answer,
                      GoOn, eventLoopVars, loopVars, roundVars
        <4>3. CASE WriteEnterSocket(s) \/ Transmit(s) \/ TransmitError(s)
          BY <2>1, <4>3 DEF WriteEnterSocket, Transmit, TransmitError, Acknowledge, GoOn,
                      eventLoopVars, loopVars, roundVars
        <4> QED
          BY <4>1, <4>2, <4>3
      <3>2. CASE \E v \in Server :
              AcceptEnter(v) \/ Accept(v) \/ AcceptReturn(v) \/ AcceptNobody(v)
        BY <2>1, <3>2 DEF AcceptEnter, Accept, AcceptReturn, AcceptNobody, GoOn, Open,
                    eventLoopVars, loopVars, roundVars
      <3> QED
        BY <1>2, <3>1, <3>2 DEF SocketCallback
    <2>2. CASE \E s \in Socket :
            ReadEnterSocket(s) \/ Receive(s) \/ ReceiveNothing(s) \/ ReceiveError(s)
      <3>1. PICK s \in Socket :
              ReadEnterSocket(s) \/ Receive(s) \/ ReceiveNothing(s) \/ ReceiveError(s)
        BY <2>2
      <3>2. InCallback(s, "READ") /\ (spc' # "enter" => reads'[s] # <<>>)
        <4>1. CASE ReadEnterSocket(s)
          BY <4>1 DEF ReadEnterSocket, requestVars
        <4>2. CASE Receive(s)
          BY <4>2 DEF Receive, Reads, QueuesRight, requestVars
        <4>3. CASE ReceiveNothing(s) \/ ReceiveError(s)
          BY <4>3 DEF ReceiveNothing, ReceiveError, Reads, Answer, GoOn
        <4> QED
          BY <3>1, <4>1, <4>2, <4>3
      <3>3. ASSUME NEW o, NEW e, InCallback(o, e)', spc' # "enter"
            PROVE  o = s /\ e = "READ"
        <4>1. InCallback(o, e)
          BY <2>1, <3>3 DEF InCallback
        <4> QED
          BY <3>2, <4>1, OneCallback
      <3>4. s \notin Server
        BY OsAssumption
      <3> QED
        BY <3>2, <3>3, <3>4 DEF QueuesRight, Reads, Writes, Accepts
    <2>3. CASE \E s \in Socket : WriteEnterSocket(s) \/ Transmit(s) \/ TransmitError(s)
      <3>1. PICK s \in Socket : WriteEnterSocket(s) \/ Transmit(s) \/ TransmitError(s)
        BY <2>3
      <3>2. InCallback(s, "WRITE") /\ (spc' # "enter" => sends'[s] # <<>>)
        <4>1. CASE WriteEnterSocket(s)
          BY <4>1 DEF WriteEnterSocket, requestVars
        <4>2. CASE Transmit(s)
          <5>1. CASE Acknowledge(s, "sent")
            BY <4>2, <5>1 DEF Transmit, Writes, Acknowledge, GoOn
          <5>2. CASE sends' = sends
            BY <4>2, <5>2 DEF Transmit, Writes, QueuesRight
          <5> QED
            BY <4>2, <5>1, <5>2 DEF Transmit
        <4>3. CASE TransmitError(s)
          BY <4>3 DEF TransmitError, Writes, Acknowledge, GoOn
        <4> QED
          BY <3>1, <4>1, <4>2, <4>3
      <3>3. ASSUME NEW o, NEW e, InCallback(o, e)', spc' # "enter"
            PROVE  o = s /\ e = "WRITE"
        <4>1. InCallback(o, e)
          BY <2>1, <3>3 DEF InCallback
        <4> QED
          BY <3>2, <4>1, OneCallback
      <3> QED
        BY <3>2, <3>3 DEF QueuesRight, Reads, Writes, Accepts
    <2>4. CASE \E v \in Server :
            AcceptEnter(v) \/ Accept(v) \/ AcceptReturn(v) \/ AcceptNobody(v)
      <3>1. PICK v \in Server :
              AcceptEnter(v) \/ Accept(v) \/ AcceptReturn(v) \/ AcceptNobody(v)
        BY <2>4
      <3>2. InCallback(v, "READ") /\ (spc' # "enter" => accepts'[v] # <<>>)
        <4>1. CASE AcceptEnter(v)
          BY <4>1 DEF AcceptEnter, requestVars
        <4>2. CASE Accept(v)
          BY <4>2 DEF Accept, Accepts, QueuesRight, requestVars
        <4>3. CASE AcceptReturn(v) \/ AcceptNobody(v)
          BY <4>3 DEF AcceptReturn, AcceptNobody, Accepts, GoOn
        <4> QED
          BY <3>1, <4>1, <4>2, <4>3
      <3>3. ASSUME NEW o, NEW e, InCallback(o, e)', spc' # "enter"
            PROVE  o = v /\ e = "READ"
        <4>1. InCallback(o, e)
          BY <2>1, <3>3 DEF InCallback
        <4> QED
          BY <3>2, <4>1, OneCallback
      <3>4. v \notin Socket
        BY OsAssumption
      <3> QED
        BY <3>2, <3>3, <3>4 DEF QueuesRight, Reads, Writes, Accepts
    <2> QED
      BY <1>2, <2>2, <2>3, <2>4 DEF SocketCallback
  <1>3. CASE ~SocketCallback
    <2>1. UNCHANGED spc /\ (spc # "enter" => UNCHANGED <<lpc, calls>>)
      BY <1>3, NoSocketStep, SocketHandlerStays DEF socketVars, handlerVars, Request,
         ReceiveAsync, SendAsync, AcceptAsync, Peer, PeerSend, PeerReads, PeerEnds, PeerConnects
    <2>2. /\ \A s \in Socket : reads[s] # <<>> => reads'[s] # <<>>
          /\ \A s \in Socket : sends[s] # <<>> => sends'[s] # <<>>
          /\ \A v \in Server : accepts[v] # <<>> => accepts'[v] # <<>>
      <3>1. CASE UNCHANGED socketVars
        BY <3>1 DEF socketVars, requestVars
      <3>2. CASE Peer
        BY <3>2 DEF Peer, PeerSend, PeerReads, PeerEnds, PeerConnects, requestVars
      <3>3. CASE \E s \in Socket : ReceiveAsync(s)
        <4>1. PICK s \in Socket : ReceiveAsync(s)
          BY <3>3
        <4>2. /\ reads' = [reads EXCEPT ![s] = Append(@, asked'[s])]
              /\ asked' = [asked EXCEPT ![s] = @ + 1]
              /\ sends' = sends /\ accepts' = accepts
          BY <4>1 DEF ReceiveAsync
        <4>3. reads \in [Socket -> Seq(Nat)] /\ reads[s] \in Seq(Nat) /\ asked'[s] \in Nat
          BY <4>2 DEF SocketTypeOK
        <4>4. Append(reads[s], asked'[s]) # <<>>
          BY <4>3, AppendProperties
        <4> QED
          BY <4>2, <4>3, <4>4
      <3>4. CASE \E s \in Socket : SendAsync(s)
        <4>1. PICK s \in Socket, n \in ChunkSizes :
                /\ sends' = [sends EXCEPT ![s] = Append(@, [id |-> offered'[s], size |-> n])]
                /\ reads' = reads /\ accepts' = accepts
                /\ offered' = [offered EXCEPT ![s] = @ + 1]
          BY <3>4 DEF SendAsync
        <4> DEFINE X == [id : Nat, size : ChunkSizes]
        <4>a. offered'[s] \in Nat
          BY <4>1 DEF SocketTypeOK
        <4>b. [id |-> offered'[s], size |-> n] \in X
          BY <4>a
        <4>c. sends \in [Socket -> Seq(X)]
          BY DEF SocketTypeOK
        <4> HIDE DEF X
        <4>2. sends \in [Socket -> Seq(X)] /\ sends[s] \in Seq(X)
          BY <4>c
        <4>3. Append(sends[s], [id |-> offered'[s], size |-> n]) # <<>>
          BY <4>2, <4>b, AppendProperties
        <4> QED
          BY <4>1, <4>2, <4>3
      <3>5. CASE \E v \in Server : AcceptAsync(v)
        <4>1. PICK v \in Server : AcceptAsync(v)
          BY <3>5
        <4>2. /\ accepts' = [accepts EXCEPT ![v] = Append(@, asked'[v])]
              /\ asked' = [asked EXCEPT ![v] = @ + 1]
              /\ sends' = sends /\ reads' = reads
          BY <4>1 DEF AcceptAsync
        <4>3. accepts \in [Server -> Seq(Nat)] /\ accepts[v] \in Seq(Nat) /\ asked'[v] \in Nat
          BY <4>2 DEF SocketTypeOK
        <4>4. Append(accepts[v], asked'[v]) # <<>>
          BY <4>3, AppendProperties
        <4> QED
          BY <4>2, <4>3, <4>4
      <3> QED
        BY <1>3, <3>1, <3>2, <3>3, <3>4, <3>5, NoSocketStep DEF Request
    <2> QED
      BY <2>1, <2>2 DEF QueuesRight, Reads, Writes, Accepts, InCallback
  <1> QED
    BY <1>2, <1>3

------------------------------------------------------------------------------
(* The life of an object goes one way, and its descriptor keeps its number. *)
LEMMA LifeMoves ==
  ASSUME LoopInv, OsNext, NEW o \in Object
  PROVE  /\ fd[o] # EventFd => fd'[o] = fd[o]
         /\ life[o] = "closed" => life'[o] = "closed"
         /\ life[o] # "new" => life'[o] # "new"
         /\ life[o] \notin {"new", "opening"} => life'[o] \notin {"new", "opening"}
         /\ life'[o] = "alive" => life[o] \in {"opening", "alive"}
PROOF
  <1>1. LoopMoves
    BY StepMoves
  <1>2. CASE UNCHANGED objectVars
    BY <1>2 DEF objectVars
  <1>3. CASE \E p \in Object : Open(p) \/ Register(p) \/ Release(p) \/ Unregister(p) \/ Close(p)
    <2>1. PICK p \in Object : Open(p) \/ Register(p) \/ Release(p) \/ Unregister(p) \/ Close(p)
      BY <1>3
    <2>2. CASE Open(p)
      <3>1. PICK n \in Fd : fd' = [fd EXCEPT ![p] = n]
        BY <2>2 DEF Open
      <3>2. life' = [life EXCEPT ![p] = "opening"] /\ life[p] = "new" /\ fd[p] = EventFd
        BY <2>2 DEF Open, LoopInv, ObjectsRight
      <3> QED
        BY <3>1, <3>2 DEF LoopInv, EventLoopTypeOK
    <2>3. CASE Register(p)
      BY <2>3 DEF Register, LoopInv, EventLoopTypeOK
    <2>4. CASE Release(p)
      BY <2>4 DEF Release, LoopInv, EventLoopTypeOK
    <2>5. CASE Unregister(p)
      BY <2>5 DEF Unregister
    <2>6. CASE Close(p)
      BY <2>6 DEF Close, LoopInv, EventLoopTypeOK
    <2> QED
      BY <2>1, <2>2, <2>3, <2>4, <2>5, <2>6
  <1>4. CASE ~\E p \in Object : Open(p) \/ Register(p) \/ Release(p) \/ Unregister(p) \/ Close(p)
    <2>1. UNCHANGED objectVars
      BY <1>1, <1>4 DEF LoopMoves, RunBegin, RunApply, RunEnd, EnterSelect, SelectReturn,
         HandleEvents, CallEmpty, CallbackReturn, StopStore, StopWake, eventLoopVars
    <2> QED
      BY <1>2, <2>1
  <1> QED
    BY <1>3, <1>4

(* What is told apart by its number after a step was before it. *)
LEMMA NoReuseBefore ==
  ASSUME LoopInv, OsNext, NoReuse'
  PROVE  NoReuse
PROOF
  <1> SUFFICES ASSUME NEW o \in Object, NEW p \in Object, o # p, fd[o] = fd[p], fd[o] # EventFd
               PROVE  FALSE
    BY DEF NoReuse
  <1>1. fd'[o] = fd[o] /\ fd'[p] = fd[p]
    BY LifeMoves
  <1> QED
    BY <1>1 DEF NoReuse

(* The callback at the head of a round is that of an object which is known. *)
LEMMA HeadKnown ==
  ASSUME LoopInv, lpc = "call"
  PROVE  Head(calls).callback.of \in Known /\ fd[Head(calls).callback.of] # EventFd
PROOF
  <1> DEFINE C == [event : Event, callback : CallbackOf(Known)]
  <1>1. calls \in Seq(C) /\ calls # <<>>
    BY DEF LoopInv, ObjectsRight
  <1> HIDE DEF C
  <1>2. Head(calls) \in C
    BY <1>1, HeadTailProperties
  <1>3. Head(calls).callback.of \in Known
    BY <1>2 DEF C, CallbackOf
  <1> QED
    BY <1>3 DEF LoopInv, ObjectsRight, Known

------------------------------------------------------------------------------
(* The listeners. *)

(* A step that changes no listener and calls none. *)
LEMMA ListenersKept ==
  ASSUME ListenersRight, UNCHANGED <<rawList, weakList, doubled, removed, told, speaking>>,
         speaking \notin dead', \A t \in Timer : Locked(t)' => Locked(t)
  PROVE  ListenersRight'
PROOF
  BY DEF ListenersRight, ListedRight, TellingRight

(* A step that changes the lists of one timer while nobody calls its
   listeners. *)
LEMMA ListenersChanged ==
  ASSUME ListenersRight, TimerTypeOK, NEW t \in Timer, ~Locked(t), ListedRight(t)',
         rawList' = [rawList EXCEPT ![t] = rawList'[t]],
         weakList' = [weakList EXCEPT ![t] = weakList'[t]],
         removed' = [removed EXCEPT ![t] = removed'[t]],
         doubled' \cup {t} = doubled \cup {t},
         UNCHANGED <<eventLoopVars, tpc, told, speaking, dead>>
  PROVE  ListenersRight'
PROOF
  <1>1. \A u \in Timer : Locked(u)' <=> Locked(u)
    BY DEF Locked, InCallback, eventLoopVars, loopVars, roundVars
  <1>2. ASSUME NEW u \in Timer, u # t
        PROVE  ListedRight(u)' /\ TellingRight(u)'
    <2>1. /\ rawList'[u] = rawList[u] /\ weakList'[u] = weakList[u]
          /\ removed'[u] = removed[u] /\ (u \in doubled' <=> u \in doubled)
      BY <1>2 DEF TimerTypeOK
    <2>2. ListedRight(u) /\ TellingRight(u)
      BY DEF ListenersRight
    <2>3. ListedRight(u)'
      BY <2>1, <2>2 DEF ListedRight
    <2>4. TellingRight(u)'
      BY <1>1, <2>1, <2>2 DEF TellingRight
    <2> QED
      BY <2>3, <2>4
  <1>3. TellingRight(t)'
    BY <1>1 DEF TellingRight
  <1>4. (speaking \notin dead)'
    BY DEF ListenersRight
  <1> QED
    BY <1>2, <1>3, <1>4 DEF ListenersRight

(* The lists of a timer, by type. *)
LEMMA ListTypes ==
  ASSUME TimerTypeOK, NEW t \in Timer
  PROVE  /\ rawList[t] \in Seq(Listener \cup IccTimer)
         /\ weakList[t] \in Seq(Shared) /\ weakList[t] \in Seq(Listener \cup IccTimer)
         /\ Members(weakList[t]) \subseteq Shared
         /\ ToSet(rawList[t] \o weakList[t]) = Members(rawList[t]) \cup Members(weakList[t])
PROOF
  <1>1. rawList[t] \in Seq(Listener \cup IccTimer) /\ weakList[t] \in Seq(Shared)
    BY DEF TimerTypeOK
  <1>2. weakList[t] \in Seq(Listener \cup IccTimer)
    BY <1>1, SeqMonotonic, TimerAssumption
  <1>3. Members(weakList[t]) \subseteq Shared
    BY <1>1, LenProperties, ElementOfSeq DEF Members
  <1>4. Members(rawList[t] \o weakList[t]) = Members(rawList[t]) \cup Members(weakList[t])
    BY <1>1, <1>2, MembersConcat
  <1>5. ToSet(rawList[t] \o weakList[t]) = Members(rawList[t] \o weakList[t])
    BY DEF ToSet, Members
  <1> QED
    BY <1>1, <1>2, <1>3, <1>4, <1>5

(* A listener that is added is not removed any more. *)
LEMMA ListenersAdd ==
  ASSUME TimerTypeOK, ListenersRight, NEW t \in Timer, NEW l \in Listener, AddListener(t, l)
  PROVE  ListenersRight'
PROOF
  <1> DEFINE L == Listener \cup IccTimer
  <1>1. /\ rawList[t] \in Seq(L)
        /\ weakList[t] \in Seq(Shared)
        /\ Members(weakList[t]) \subseteq Shared
        /\ ToSet(rawList[t] \o weakList[t]) = Members(rawList[t]) \cup Members(weakList[t])
    BY ListTypes
  <1>2. /\ rawList'[t] = IF l \in Shared THEN rawList[t] ELSE Append(rawList[t], l)
        /\ weakList'[t] = IF l \in Shared THEN Append(weakList[t], l) ELSE weakList[t]
        /\ rawList' = [rawList EXCEPT ![t] = rawList'[t]]
        /\ weakList' = [weakList EXCEPT ![t] = weakList'[t]]
    BY DEF AddListener, Append1, TimerTypeOK
  <1>3. /\ removed'[t] = removed[t] \ {l} /\ removed' = [removed EXCEPT ![t] = removed'[t]]
    BY DEF AddListener, TimerTypeOK
  <1>4. /\ doubled' \cup {t} = doubled \cup {t}
        /\ t \notin doubled' => t \notin doubled /\ l \notin Members(rawList[t]) \cup Members(weakList[t])
    BY <1>1 DEF AddListener
  <1>5. ListedRight(t)
    BY DEF ListenersRight
  <1>6. CASE l \in Shared
    <2>1. /\ Members(weakList'[t]) = Members(weakList[t]) \cup {l}
          /\ Once(weakList[t]) /\ l \notin Members(weakList[t]) => Once(weakList'[t])
      BY <1>1, <1>2, <1>6, MembersAppend
    <2>2. rawList'[t] = rawList[t]
      BY <1>2, <1>6
    <2> QED
      BY <1>2, <1>3, <1>4, <1>5, <2>1, <2>2, ListenersChanged
         DEF ListedRight, AddListener, expiryVars
  <1>7. CASE l \notin Shared
    <2>1. /\ Members(rawList'[t]) = Members(rawList[t]) \cup {l}
          /\ Once(rawList[t]) /\ l \notin Members(rawList[t]) => Once(rawList'[t])
      BY <1>1, <1>2, <1>7, MembersAppend
    <2>2. weakList'[t] = weakList[t]
      BY <1>2, <1>7
    <2>3. ListedRight(t)'
      BY <1>3, <1>4, <1>5, <1>7, <2>1, <2>2 DEF ListedRight
    <2> QED
      BY <1>2, <1>3, <1>4, <2>3, ListenersChanged DEF AddListener, expiryVars
  <1> QED
    BY <1>6, <1>7

(* One that is removed is off both lists, unless it was added twice. *)
LEMMA ListenersRemove ==
  ASSUME TimerTypeOK, ListenersRight, NEW t \in Timer, NEW l \in Listener, RemoveListener(t, l)
  PROVE  ListenersRight'
PROOF
  <1> DEFINE L == Listener \cup IccTimer
  <1>1. /\ rawList[t] \in Seq(L)
        /\ weakList[t] \in Seq(Shared)
        /\ Members(weakList[t]) \subseteq Shared
        /\ ToSet(rawList[t] \o weakList[t]) = Members(rawList[t]) \cup Members(weakList[t])
    BY ListTypes
  <1>2. /\ rawList'[t] = IF l \in Shared THEN rawList[t] ELSE Erased(rawList[t], l)
        /\ weakList'[t] = IF l \in Shared THEN Erased(weakList[t], l) ELSE weakList[t]
        /\ rawList' = [rawList EXCEPT ![t] = rawList'[t]]
        /\ weakList' = [weakList EXCEPT ![t] = weakList'[t]]
    BY DEF RemoveListener, Erase1, TimerTypeOK
  <1>3. removed'[t] = removed[t] \cup {l} /\ removed' = [removed EXCEPT ![t] = removed'[t]]
    BY DEF RemoveListener, TimerTypeOK
  <1>4. doubled' = doubled
    BY DEF RemoveListener
  <1>5. ListedRight(t)
    BY DEF ListenersRight
  <1>6. l \in Members(rawList[t]) \cup Members(weakList[t])
    BY <1>1 DEF RemoveListener
  <1>7. ListedRight(t)'
    <2>1. CASE l \in Shared
      <3>1. rawList'[t] = rawList[t] /\ l \in Members(weakList[t]) /\ l \notin Members(rawList[t])
        BY <1>2, <1>5, <1>6, <2>1 DEF ListedRight
      <3>2. Once(weakList[t]) =>
              Once(weakList'[t]) /\ Members(weakList'[t]) = Members(weakList[t]) \ {l}
        BY <1>1, <1>2, <2>1, <3>1, ErasedMembers
      <3> QED
        BY <1>3, <1>4, <1>5, <3>1, <3>2 DEF ListedRight
    <2>2. CASE l \notin Shared
      <3>1. weakList'[t] = weakList[t] /\ l \in Members(rawList[t]) /\ l \notin Members(weakList[t])
        BY <1>1, <1>2, <1>6, <2>2
      <3>2. Once(rawList[t]) =>
              Once(rawList'[t]) /\ Members(rawList'[t]) = Members(rawList[t]) \ {l}
        BY <1>1, <1>2, <2>2, <3>1, ErasedMembers
      <3>3. Members(rawList'[t]) \subseteq Members(rawList[t])
        BY <1>1, <1>2, <2>2, ErasedSubset
      <3> QED
        BY <1>3, <1>4, <1>5, <3>1, <3>2, <3>3 DEF ListedRight
    <2> QED
      BY <2>1, <2>2
  <1> QED
    BY <1>2, <1>3, <1>4, <1>7, ListenersChanged DEF RemoveListener, expiryVars

(* An icc::Timer listens to the timer it makes. *)
LEMMA ListenersConstruct ==
  ASSUME TimerTypeOK, ListenersRight, NEW t \in Timer, Construct(t)
  PROVE  ListenersRight'
PROOF
  <1>1. weakList[t] \in Seq(Shared) /\ Members(weakList[t]) \subseteq Shared
    BY ListTypes
  <1>2. rawList'[t] = Append(<<>>, t) /\ rawList' = [rawList EXCEPT ![t] = rawList'[t]]
    BY DEF Construct, Append1, TimerTypeOK
  <1>3. /\ Members(<<>>) = {} /\ Once(<<>>) /\ <<>> \in Seq({t})
    BY EmptySeq DEF Members, Once
  <1>4. Members(rawList'[t]) = {t} /\ Once(rawList'[t])
    <2>1. t \in {t} /\ t \notin Members(<<>>)
      BY <1>3
    <2>2. Members(Append(<<>>, t)) = Members(<<>>) \cup {t} /\ Once(Append(<<>>, t))
      BY <1>3, <2>1, MembersAppend
    <2> QED
      BY <1>2, <1>3, <2>2
  <1>5. t \notin Shared
    BY TimerAssumption
  <1>6. ListedRight(t) /\ TellingRight(t) /\ removed[t] = {}
    BY DEF ListenersRight, Construct
  <1>7. /\ weakList' = weakList /\ removed' = removed /\ doubled' = doubled
        /\ UNCHANGED <<eventLoopVars, tpc, told, speaking, dead>>
    BY DEF Construct, expiryVars
  <1>8. ListedRight(t)'
    BY <1>4, <1>5, <1>6, <1>7 DEF ListedRight
  <1>9. Members(rawList[t]) = {}
    BY <1>3 DEF Construct
  <1>10. \A u \in Timer : Locked(u)' <=> Locked(u)
    BY <1>7 DEF Locked, InCallback, eventLoopVars, loopVars, roundVars
  <1>11. TellingRight(t)'
    BY <1>6, <1>7, <1>9, <1>10 DEF TellingRight
  <1>12. ASSUME NEW u \in Timer, u # t
         PROVE  ListedRight(u)' /\ TellingRight(u)'
    <2>1. rawList'[u] = rawList[u]
      BY <1>12, <1>2 DEF TimerTypeOK
    <2>2. ListedRight(u) /\ TellingRight(u)
      BY DEF ListenersRight
    <2> QED
      BY <1>7, <1>10, <2>1, <2>2 DEF ListedRight, TellingRight
  <1> QED
    BY <1>7, <1>8, <1>11, <1>12 DEF ListenersRight

(* Its destructor takes it off. *)
LEMMA ListenersDestruct ==
  ASSUME TimerTypeOK, ListenersRight, NEW t \in Timer, NEW k \in Controller, Destruct(k, t)
  PROVE  ListenersRight'
PROOF
  <1> DEFINE L == Listener \cup IccTimer
  <1>1. /\ rawList[t] \in Seq(L)
        /\ Members(weakList[t]) \subseteq Shared
    BY ListTypes
  <1>2. /\ rawList'[t] = Erased(rawList[t], t)
        /\ rawList' = [rawList EXCEPT ![t] = rawList'[t]]
        /\ weakList' = weakList /\ weakList' = [weakList EXCEPT ![t] = weakList'[t]]
    BY DEF Destruct, Erase1, TimerTypeOK
  <1>3. removed'[t] = removed[t] \cup {t} /\ removed' = [removed EXCEPT ![t] = removed'[t]]
    BY DEF Destruct, TimerTypeOK
  <1>4. doubled' = doubled /\ ~Locked(t) /\ t \in Members(rawList[t])
    BY DEF Destruct, InUse, ToSet, Members
  <1>5. ListedRight(t)
    BY DEF ListenersRight
  <1>6. t \notin Members(weakList[t])
    BY <1>1, TimerAssumption
  <1>7. Members(rawList'[t]) \subseteq Members(rawList[t])
    BY <1>1, <1>2, ErasedSubset
  <1>8. Once(rawList[t]) =>
          Once(rawList'[t]) /\ Members(rawList'[t]) = Members(rawList[t]) \ {t}
    BY <1>1, <1>2, <1>4, ErasedMembers
  <1>9. ListedRight(t)'
    BY <1>2, <1>3, <1>4, <1>5, <1>6, <1>7, <1>8 DEF ListedRight
  <1> QED
    BY <1>2, <1>3, <1>4, <1>9, ListenersChanged DEF Destruct, expiryVars

(* Expired weak pointers are taken off. *)
LEMMA ListenersUnlock ==
  ASSUME TimerTypeOK, ListenersRight, NEW t \in Timer, Unlock(t)
  PROVE  ListenersRight'
PROOF
  <1> DEFINE q == weakList[t]
             places == {i \in DOMAIN q : q[i] \notin dead}
  <1>1. q \in Seq(Shared) /\ places \in SUBSET DOMAIN q
    BY DEF TimerTypeOK
  <1>2. weakList'[t] = Chosen(q, places) /\ \A u \in Timer : u # t => weakList'[u] = weakList[u]
    BY DEF Unlock, Unexpired, TimerTypeOK
  <1>3. /\ Members(Chosen(q, places)) = {q[i] : i \in places}
        /\ Once(q) => Once(Chosen(q, places))
    <2> HIDE DEF q, places
    <2> QED
      BY <1>1, ChosenMembers
  <1>4. Members(weakList'[t]) \subseteq Members(weakList[t]) /\ (Once(weakList[t]) => Once(weakList'[t]))
    BY <1>2, <1>3 DEF Members
  <1>5. /\ UNCHANGED <<rawList, removed, doubled, dead, speaking>>
        /\ tpc' = "enter" /\ speaking = NoCall
    BY DEF Unlock, ExpiredReturn
  <1>6. ASSUME NEW u \in Timer
        PROVE  ListedRight(u)' /\ TellingRight(u)'
    <2>1. ListedRight(u)
      BY DEF ListenersRight
    <2>2. Members(weakList'[u]) \subseteq Members(weakList[u]) /\ (Once(weakList[u]) => Once(weakList'[u]))
      BY <1>2, <1>4
    <2>3. TellingRight(u)'
      BY <1>5 DEF TellingRight, Locked
    <2> QED
      BY <1>5, <2>1, <2>2, <2>3 DEF ListedRight
  <1> QED
    BY <1>5, <1>6 DEF ListenersRight

(* The callback of a timer tells only those that are on its lists. *)
LEMMA ListenersCallback ==
  ASSUME TimerTypeOK, PlacesRight, ListenersRight, TimerCallback
  PROVE  ListenersRight'
PROOF
  <1>1. PICK t \in Timer :
          /\ InCallback(t, "READ")
          /\ \/ ReadEnter(t) \/ ReadReturn(t) \/ TestExecute(t) \/ Rearm(t)
             \/ LockListeners(t) \/ Tell(t) \/ TellReturn(t) \/ Unlock(t)
    BY CallbackOfTimer
  <1>2. speaking \notin dead
    BY DEF ListenersRight
  <1>3. CASE ReadEnter(t) \/ ReadReturn(t) \/ TestExecute(t) \/ Rearm(t)
    <2>1. /\ UNCHANGED <<rawList, weakList, doubled, removed, told, speaking, dead>>
          /\ tpc' # "tell"
      BY <1>3 DEF ReadEnter, ReadReturn, Read, TestExecute, ExpiredReturn, Rearm, settingVars,
                  listVars
    <2> QED
      BY <1>2, <2>1, ListenersKept DEF Locked
  <1>4. CASE LockListeners(t)
    <2>1. /\ UNCHANGED <<rawList, weakList, doubled, removed, speaking, dead, lpc, calls>>
          /\ told' = rawList[t] \o weakList[t] /\ tpc = "lock"
      BY <1>4 DEF LockListeners, settingVars, listVars, eventLoopVars, loopVars, roundVars
    <2>2. speaking = NoCall
      BY <2>1 DEF PlacesRight
    <2>3. Members(told') = Members(rawList[t]) \cup Members(weakList[t])
      BY <2>1, ListTypes, MembersConcat
    <2>4. \A u \in Timer : Locked(u)' => u = t
      BY <1>1, <2>1, OneCallback DEF Locked, InCallback, Bound
    <2> QED
      BY <1>2, <2>1, <2>2, <2>3, <2>4 DEF ListenersRight, ListedRight, TellingRight
  <1>5. CASE Tell(t)
    <2>1. /\ UNCHANGED <<rawList, weakList, doubled, removed, dead, lpc, calls, tpc>>
          /\ told # <<>> /\ told' = Tail(told) /\ Locked(t)
          /\ speaking' = IF Head(told) \in dead THEN NoCall ELSE Head(told)
      BY <1>5 DEF Tell, settingVars, listVars, eventLoopVars, loopVars, roundVars
    <2>2. Members(Tail(told)) \subseteq Members(told) /\ Head(told) \in Members(told)
      BY <2>1, MembersTail DEF TimerTypeOK
    <2>3. \A u \in Timer : Locked(u)' <=> Locked(u)
      BY <2>1 DEF Locked, InCallback
    <2>4. speaking' \notin dead
      BY <2>1, TimerAssumption DEF TimerTypeOK
    <2>5. ASSUME NEW u \in Timer
          PROVE  ListedRight(u)' /\ TellingRight(u)'
      BY <2>1, <2>2, <2>3 DEF ListenersRight, ListedRight, TellingRight
    <2> QED
      BY <2>1, <2>4, <2>5 DEF ListenersRight
  <1>6. CASE TellReturn(t)
    <2>1. /\ UNCHANGED <<rawList, weakList, doubled, removed, dead, lpc, calls, tpc, told>>
          /\ speaking' = NoCall
      BY <1>6 DEF TellReturn, settingVars, listVars, eventLoopVars, loopVars, roundVars
    <2>2. \A u \in Timer : Locked(u)' <=> Locked(u)
      BY <2>1 DEF Locked, InCallback
    <2>3. NoCall \notin dead
      BY TimerAssumption DEF TimerTypeOK
    <2> QED
      BY <2>1, <2>2, <2>3 DEF ListenersRight, ListedRight, TellingRight
  <1> QED
    BY <1>1, <1>3, <1>4, <1>5, <1>6, ListenersUnlock

(* Every step keeps the listeners right. *)
LEMMA ListenersStep ==
  ASSUME TimerTypeOK, PlacesRight, ListenersRight, OsNext
  PROVE  ListenersRight'
PROOF
  <1> DEFINE Kept == /\ UNCHANGED <<rawList, weakList, doubled, removed, told, speaking, tpc>>
                     /\ speaking \notin dead'
  <1>1. speaking \notin dead
    BY DEF ListenersRight
  <1>2. ASSUME Kept, ~TimerCallback
        PROVE  ListenersRight'
    <2>1. tpc # "enter" => UNCHANGED <<lpc, calls>>
      BY <1>2, TimerHandlerStays
    <2>2. \A u \in Timer : Locked(u)' => Locked(u)
      BY <1>2, <2>1 DEF Locked, InCallback
    <2> QED
      BY <1>2, <2>2, ListenersKept
  <1>3. CASE TimerCallback
    BY <1>3, ListenersCallback
  <1>4. CASE ~TimerCallback /\ UNCHANGED timerVars
    BY <1>1, <1>2, <1>4 DEF timerVars, settingVars, listVars, expiryVars
  <1>5. CASE ~TimerCallback /\ \E t \in Timer : Expiry(t)
    BY <1>1, <1>2, <1>5 DEF Expiry, Expire, settingVars, listVars, expiryVars
  <1>6. CASE ~TimerCallback /\ (Control \/ \E k \in Controller : Finish(k))
    <2>1. PICK k \in Controller, t \in Timer :
            \/ Start(k, t) \/ Stop(k, t) \/ Destruct(k, t) \/ ReleaseTimer(k, t)
            \/ Arm(k, t) \/ Disarm(k, t) \/ DestructStop(k, t)
      BY <1>6 DEF Control, Finish
    <2>2. CASE Destruct(k, t)
      BY <2>2, ListenersDestruct
    <2>3. CASE ~Destruct(k, t)
      <3>1. Kept
        BY <1>1, <2>1, <2>3 DEF Start, Stop, ReleaseTimer, Arm, Disarm, DestructStop,
             settingVars, listVars, expiryVars
      <3> QED
        BY <1>2, <1>6, <3>1
    <2> QED
      BY <2>2, <2>3
  <1>7. CASE ~TimerCallback /\ Setting
    <2>1. CASE \E l \in Shared : DropListener(l)
      <3>1. Kept
        BY <1>1, <2>1 DEF DropListener, expiryVars
      <3> QED
        BY <1>2, <1>7, <3>1
    <2>2. CASE \E t \in Timer : \/ EnableContinuous(t) \/ DisableContinuous(t)
                               \/ \E n \in {-1, 1} : SetNumberOfRepetition(t, n)
                               \/ \E ns \in {0, 1} : SetInterval(t, ns)
      <3>1. \E t \in Timer : Set(t)
        BY <2>2 DEF EnableContinuous, DisableContinuous, SetNumberOfRepetition, SetInterval,
             SetCounter
      <3>2. Kept
        BY <1>1, <3>1 DEF Set, listVars, expiryVars
      <3> QED
        BY <1>2, <1>7, <3>2
    <2> QED
      BY <1>7, <2>1, <2>2, ListenersConstruct, ListenersAdd, ListenersRemove DEF Setting
  <1> QED
    BY <1>3, <1>4, <1>5, <1>6, <1>7, NoTimerStep

(* Initially there is no listener. *)
LEMMA ListenersInit ==
  ASSUME TimerInit
  PROVE  ListenersRight
PROOF
  <1>1. Members(<<>>) = {} /\ Once(<<>>)
    BY DEF Members, Once
  <1>2. \A t \in Timer : ListedRight(t) /\ TellingRight(t)
    BY <1>1 DEF TimerInit, ListedRight, TellingRight, Locked
  <1> QED
    BY <1>2 DEF TimerInit, ListenersRight

(* What ListenersRight says of those that are removed. *)
LEMMA ListenersSilent ==
  ASSUME ListenersRight
  PROVE  RemovedSilent
PROOF
  BY DEF ListenersRight, ListedRight, TellingRight, RemovedSilent

------------------------------------------------------------------------------
(* The expiries. *)

(* Only its own steps move the handler of a timer. *)
LEMMA ExpiryVarsKept ==
  ASSUME OsNext, ~TimerCallback
  PROVE  UNCHANGED expiryVars
PROOF
  <1>1. CASE UNCHANGED timerVars
    BY <1>1 DEF timerVars
  <1>2. CASE Control \/ \E k \in Controller : Finish(k)
    BY <1>2 DEF Control, Finish, Start, Stop, Destruct, ReleaseTimer, Arm, Disarm,
                DestructStop
  <1>3. CASE Setting \/ \E t \in Timer : Expiry(t)
    BY <1>3 DEF Setting, Construct, EnableContinuous, DisableContinuous, Set,
          SetCounter, SetNumberOfRepetition, SetInterval, AddListener,
          RemoveListener, DropListener, Expiry, Expire
  <1> QED
    BY <1>1, <1>2, <1>3, NoTimerStep

(* What is left of a timer when its descriptor has nobody behind it. *)
LEMMA NobodyBehind ==
  ASSUME LoopInv, NEW t \in Timer, t \in Known, Behind(t) = {}
  PROVE  life[t] = "closed"
PROOF
  <1>1. t \in Object
    BY TimerAssumption
  <1>2. life[t] \in {"new", "opening", "alive", "closing", "closed"}
    BY <1>1 DEF LoopInv, EventLoopTypeOK
  <1>3. t \notin Opened
    BY DEF Behind
  <1> QED
    BY <1>1, <1>2, <1>3 DEF Known, Opened

(* Every step keeps the expiries right. *)
LEMMA ExpiryStep ==
  ASSUME LoopInv, TimerTypeOK, PlacesRight, ExpiryRight, OsNext
  PROVE  ExpiryRight'
PROOF
  <1> DEFINE head == Head(calls).callback.of
  <1>1. CASE TimerCallback
    <2>1. PICK t \in Timer :
            /\ InCallback(t, "READ")
            /\ \/ ReadEnter(t) \/ ReadReturn(t) \/ TestExecute(t) \/ Rearm(t)
               \/ LockListeners(t) \/ Tell(t) \/ TellReturn(t) \/ Unlock(t)
      BY <1>1, CallbackOfTimer
    <2>2. head = t /\ lpc = "call"
      BY <2>1, OneCallback
    <2>3. CASE ReadEnter(t)
      <3>1. UNCHANGED <<calls, life>>
        BY <2>3 DEF ReadEnter, eventLoopVars, loopVars, roundVars, objectVars
      <3>2. CASE Behind(t) = {} /\ Read(NoCall)
        <4>1. life[t] = "closed"
          BY <2>2, <3>2, HeadKnown, NobodyBehind
        <4> QED
          BY <2>2, <3>1, <3>2, <4>1 DEF ExpiryRight, Read
      <3>3. CASE source' \in Behind(t) /\ tpc' = "reading"
        BY <3>3 DEF ExpiryRight, Behind
      <3> QED
        BY <2>3, <3>2, <3>3 DEF ReadEnter
    <2>4. CASE ReadReturn(t)
      <3>1. source # NoCall
        BY <2>4, TimerAssumption DEF ReadReturn, ExpiryRight
      <3> QED
        BY <2>4, <3>1 DEF ReadReturn, Read, ExpiryRight
    <2>5. CASE TestExecute(t)
      BY <2>5 DEF TestExecute, ExpiredReturn, ExpiryRight, eventLoopVars, loopVars, roundVars,
         objectVars
    <2>6. CASE Rearm(t) \/ LockListeners(t) \/ Tell(t) \/ TellReturn(t)
      BY <2>6 DEF Rearm, LockListeners, Tell, TellReturn, Locked, ExpiryRight, eventLoopVars,
         loopVars, roundVars, objectVars
    <2>7. CASE Unlock(t)
      BY <2>7 DEF Unlock, ExpiredReturn, ExpiryRight
    <2> QED
      BY <2>1, <2>3, <2>4, <2>5, <2>6, <2>7
  <1>2. CASE ~TimerCallback
    <2>1. UNCHANGED <<tpc, source, genuine>>
      BY <1>2, ExpiryVarsKept DEF expiryVars
    <2>2. CASE tpc = "enter"
      BY <2>1, <2>2 DEF ExpiryRight
    <2>3. CASE tpc # "enter"
      <3>1. UNCHANGED calls /\ lpc = "call"
        BY <1>2, <2>3, TimerHandlerStays DEF PlacesRight, InCallback
      <3>2. head \in Object
        BY <3>1, HeadKnown DEF Known
      <3>3. life[head] = "closed" => life'[head] = "closed"
        BY <3>2, LifeMoves
      <3> QED
        BY <2>1, <3>1, <3>3 DEF ExpiryRight
    <2> QED
      BY <2>2, <2>3
  <1> QED
    BY <1>1, <1>2

(* What ExpiryRight says of the listener that is called. *)
LEMMA ExpirySays ==
  ASSUME PlacesRight, ExpiryRight
  PROVE  OnlyExpiries
PROOF
  BY DEF PlacesRight, ExpiryRight, OnlyExpiries

(* Every step keeps what is left to be told after a stop. *)
LEMMA LateStep ==
  ASSUME TimerTypeOK, PlacesRight, LateRight, OsNext
  PROVE  LateRight'
PROOF
  <1> DEFINE Later(t) == /\ late[t] <= 1
                         /\ exec[t] => late[t] = 0
                         /\ tpc \in {"rearm", "lock"} /\ InCallback(t, "READ") => late[t] = 0
  <1>1. \A t \in Timer : Later(t)
    BY DEF LateRight
  <1>2. CASE TimerCallback
    <2>1. PICK t \in Timer :
            /\ InCallback(t, "READ")
            /\ \/ ReadEnter(t) \/ ReadReturn(t) \/ TestExecute(t) \/ Rearm(t)
               \/ LockListeners(t) \/ Tell(t) \/ TellReturn(t) \/ Unlock(t)
      BY <1>2, CallbackOfTimer
    <2>2. exec' = exec /\ tpc' \in {"rearm", "lock"} => UNCHANGED <<lpc, calls>>
      BY <2>1 DEF ReadEnter, ReadReturn, Read, TestExecute, ExpiredReturn, Rearm, LockListeners, Tell,
         TellReturn, Unlock, Locked, controlVars, eventLoopVars, loopVars, roundVars
    <2>3. CASE TestExecute(t)
      <3>1. exec' = exec /\ late' = late
        BY <2>3 DEF TestExecute, controlVars
      <3>2. tpc' \in {"rearm", "lock"} => exec[t]
        BY <2>3 DEF TestExecute, ExpiredReturn
      <3>3. \A u \in Timer : tpc' \in {"rearm", "lock"} /\ InCallback(u, "READ")' => u = t
        BY <2>1, <2>2, <3>1, OneCallback DEF InCallback, Bound
      <3> QED
        BY <1>1, <3>1, <3>2, <3>3 DEF LateRight
    <2>4. CASE LockListeners(t)
      <3>1. exec' = exec /\ tpc' = "tell" /\ tpc = "lock"
            /\ late' = [late EXCEPT ![t] = IF exec[t] THEN @ ELSE @ + 1]
        BY <2>4 DEF LockListeners, controlVars
      <3>2. late[t] = 0
        BY <1>1, <2>1, <3>1
      <3>3. \A u \in Timer : late'[u] <= 1 /\ (exec'[u] => late'[u] = 0)
        BY <1>1, <3>1, <3>2 DEF TimerTypeOK
      <3> QED
        BY <3>1, <3>3 DEF LateRight
    <2>5. CASE ~TestExecute(t) /\ ~LockListeners(t)
      <3>1. exec' = exec /\ late' = late
        BY <2>1, <2>5 DEF ReadEnter, ReadReturn, Rearm, Tell, TellReturn, Unlock, controlVars
      <3>2. tpc' \in {"rearm", "lock"} => tpc \in {"rearm", "lock"} /\ UNCHANGED <<lpc, calls>>
        BY <2>1, <2>2, <2>5, <3>1 DEF ReadEnter, ReadReturn, Read, Rearm, Tell, TellReturn, Unlock,
           ExpiredReturn, Locked
      <3> QED
        BY <1>1, <3>1, <3>2 DEF LateRight, InCallback
    <2> QED
      BY <2>3, <2>4, <2>5
  <1>3. CASE ~TimerCallback
    <2>1. tpc' = tpc
      BY <1>3, ExpiryVarsKept DEF expiryVars
    <2>2. \A u \in Timer : tpc' \in {"rearm", "lock"} /\ InCallback(u, "READ")' =>
             tpc \in {"rearm", "lock"} /\ InCallback(u, "READ")
      BY <1>3, <2>1, TimerHandlerStays DEF InCallback
    <2>3. \A u \in Timer : late'[u] \in {0, late[u]} /\ (exec'[u] => exec[u] \/ late'[u] = 0)
      <3>1. CASE UNCHANGED timerVars \/ Setting \/ \E t \in Timer : Expiry(t)
        <4>1. UNCHANGED <<exec, late>>
          BY <3>1 DEF timerVars, controlVars, Expiry, Expire, Setting, Construct,
             EnableContinuous, DisableContinuous, Set,
             SetCounter, SetNumberOfRepetition, SetInterval, AddListener,
             RemoveListener, DropListener
        <4> QED
          BY <4>1
      <3>2. CASE Control \/ \E k \in Controller : Finish(k)
        <4>1. PICK k \in Controller, t \in Timer :
                \/ Start(k, t) \/ Stop(k, t) \/ Destruct(k, t) \/ ReleaseTimer(k, t)
                \/ Arm(k, t) \/ Disarm(k, t) \/ DestructStop(k, t)
          BY <3>2 DEF Control, Finish
        <4>2. \/ late' = [late EXCEPT ![t] = 0] /\ exec' = [exec EXCEPT ![t] = TRUE]
              \/ late' = late /\ exec' \in {exec, [exec EXCEPT ![t] = FALSE]}
          BY <4>1 DEF Start, Stop, Destruct, ReleaseTimer, Arm, Disarm, DestructStop
        <4> QED
          BY <4>2 DEF TimerTypeOK
      <3> QED
        BY <1>3, <3>1, <3>2, NoTimerStep
    <2> QED
      BY <1>1, <2>2, <2>3 DEF LateRight
  <1> QED
    BY <1>2, <1>3

(* Initially nothing has expired. *)
LEMMA ExpiryInit ==
  ASSUME TimerInit
  PROVE  ExpiryRight /\ LateRight
PROOF
  BY DEF TimerInit, ExpiryRight, LateRight

------------------------------------------------------------------------------
(* The threads that control the timers. *)

(* A thread that begins a call of a timer. *)
LEMMA CallBegins ==
  ASSUME TimerTypeOK, ControlRight, NEW k \in Controller, NEW t \in Timer,
         NEW c \in {"arm", "disarm", "stop", "disarmLast", "release"},
         BeginCall(k, c, t), c # "arm" => ~exec'[t] \/ c = "stop",
         \A u \in Timer : u # t => exec'[u] = exec[u]
  PROVE  /\ Uses(k, t)'
         /\ \A u \in Timer : Controlled(u)'
         /\ \A u \in Timer, j \in Controller : u # t /\ Uses(j, u) => Uses(j, u)'
PROOF
  <1>1. /\ call[k] = NoCall
        /\ call'[k] = <<c, t>>
        /\ \A j \in Controller : j # k => call'[j] = call[j]
    BY DEF BeginCall, TimerTypeOK
  <1>2. <<c, t>> \in Pending
    BY DEF Pending
  <1>3. <<c, t>> # NoCall /\ <<c, t>>[1] = c /\ <<c, t>>[2] = t
    BY <1>2, TimerAssumption
  <1>4. Uses(k, t)'
    BY <1>1, <1>3 DEF Uses
  <1>5. ASSUME NEW u \in Timer
        PROVE  Controlled(u)'
    <2>1. Controlled(u)
      BY DEF ControlRight
    <2>2. CASE u = t
      <3>1. SUFFICES ASSUME u \notin raced'
                     PROVE  Controlled(u)'
        BY DEF Controlled
      <3>2. u \notin raced /\ \A j \in Controller : ~Uses(j, u)
        BY <2>2, <3>1 DEF BeginCall
      <3>3. \A j \in Controller : Uses(j, u)' => j = k
        BY <1>1, <3>2 DEF Uses
      <3> QED
        BY <1>1, <1>3, <2>2, <3>3 DEF Controlled
    <2>3. CASE u # t
      <3>1. u \in raced' <=> u \in raced
        BY <2>3 DEF BeginCall
      <3>2. \A j \in Controller : Uses(j, u)' <=> Uses(j, u)
        BY <1>1, <1>3, <2>3 DEF Uses
      <3>3. \A j \in Controller : Uses(j, u) => call'[j] = call[j]
        BY <1>1 DEF Uses
      <3> QED
        BY <2>1, <2>3, <3>1, <3>2, <3>3 DEF Controlled
    <2> QED
      BY <2>2, <2>3
  <1>6. \A u \in Timer, j \in Controller : u # t /\ Uses(j, u) => Uses(j, u)'
    BY <1>1, <1>3 DEF Uses
  <1> QED
    BY <1>4, <1>5, <1>6

(* A thread that goes on with a call, or finishes it. *)
LEMMA CallGoesOn ==
  ASSUME TimerTypeOK, ControlRight, NEW k \in Controller, NEW t \in Timer,
         NEW rest \in {NoCall, <<"disarmLast", t>>, <<"release", t>>},
         Uses(k, t) \/ (call[k] = NoCall /\ rest = NoCall),
         call' = [call EXCEPT ![k] = rest], raced' = raced,
         rest # NoCall => call[k][1] \in {"disarm", "disarmLast"} \/ ~exec'[t],
         \A u \in Timer : exec'[u] => exec[u], \A u \in Timer : u # t => exec'[u] = exec[u]
  PROVE  /\ \A u \in Timer : Controlled(u)'
         /\ \A u \in Timer, j \in Controller : u # t /\ Uses(j, u) => Uses(j, u)'
PROOF
  <1>1. /\ call'[k] = rest
        /\ \A j \in Controller : j # k => call'[j] = call[j]
    BY DEF TimerTypeOK
  <1>2. rest # NoCall => rest[2] = t /\ Uses(k, t)
    OBVIOUS
  <1>3. \A u \in Timer, j \in Controller : Uses(j, u)' => Uses(j, u)
    BY <1>1, <1>2 DEF Uses
  <1>4. \A u \in Timer, j \in Controller : u # t /\ Uses(j, u) => Uses(j, u)'
    BY <1>1 DEF Uses
  <1>5. ASSUME NEW u \in Timer
        PROVE  Controlled(u)'
    <2>1. SUFFICES ASSUME u \notin raced
                   PROVE  Controlled(u)'
      BY DEF Controlled
    <2>2. /\ \A i, j \in Controller : Uses(i, u) /\ Uses(j, u) => i = j
          /\ \A j \in Controller :
               Uses(j, u) /\ call[j][1] \in {"disarm", "disarmLast", "release"} => ~exec[u]
      BY <2>1 DEF ControlRight, Controlled
    <2>3. ASSUME NEW j \in Controller, Uses(j, u)',
                 call'[j][1] \in {"disarm", "disarmLast", "release"}
          PROVE  ~exec'[u]
      <3>1. CASE j # k
        BY <1>1, <1>3, <2>2, <2>3, <3>1
      <3>2. CASE j = k
        <4>1. rest # NoCall /\ u = t
          BY <1>1, <1>2, <2>3, <3>2 DEF Uses
        <4> QED
          BY <1>2, <2>2, <4>1
      <3> QED
        BY <3>1, <3>2
    <2> QED
      BY <1>3, <2>2, <2>3 DEF Controlled
  <1> QED
    BY <1>4, <1>5

(* What a step of a thread leaves alone: the timers it does not control. *)
LEMMA CallsRight ==
  ASSUME TimerTypeOK, ControlRight, NEW k \in Controller, NEW t \in Timer,
         \/ Start(k, t) \/ Stop(k, t) \/ Destruct(k, t) \/ ReleaseTimer(k, t)
         \/ Arm(k, t) \/ Disarm(k, t) \/ DestructStop(k, t)
  PROVE  /\ \A u \in Timer : Controlled(u)'
         /\ \A u \in Timer, j \in Controller : u # t /\ Uses(j, u) => Uses(j, u)'
         /\ \A u \in Timer : u # t => exec'[u] = exec[u]
         /\ exec'[t] => exec[t] \/ Start(k, t)
         /\ raced \subseteq raced'
PROOF
  <1> DEFINE Others == \A u \in Timer, j \in Controller : u # t /\ Uses(j, u) => Uses(j, u)'
             Right == \A u \in Timer : Controlled(u)'
  <1>1. /\ <<"arm", t>> # NoCall /\ <<"disarm", t>> # NoCall /\ <<"stop", t>> # NoCall
        /\ <<"disarmLast", t>> # NoCall /\ <<"release", t>> # NoCall
    <2>1. /\ <<"arm", t>> \in Pending /\ <<"disarm", t>> \in Pending
          /\ <<"stop", t>> \in Pending /\ <<"disarmLast", t>> \in Pending
          /\ <<"release", t>> \in Pending
      BY DEF Pending
    <2> QED
      BY <2>1, TimerAssumption
  <1>2. CASE Start(k, t)
    <2>1. BeginCall(k, "arm", t) /\ raced \subseteq raced'
      BY <1>2 DEF Start, BeginCall
    <2>2. exec' = [exec EXCEPT ![t] = TRUE]
      BY <1>2 DEF Start
    <2>3. \A u \in Timer : u # t => exec'[u] = exec[u]
      BY <2>2 DEF TimerTypeOK
    <2>4. Right /\ Others
      BY <2>1, <2>3, CallBegins
    <2> QED
      BY <1>2, <2>1, <2>3, <2>4
  <1>3. CASE Stop(k, t)
    <2>1. BeginCall(k, "disarm", t) /\ raced \subseteq raced'
      BY <1>3 DEF Stop, BeginCall
    <2>2. exec' = [exec EXCEPT ![t] = FALSE]
      BY <1>3 DEF Stop
    <2>3. ~exec'[t] /\ \A u \in Timer : u # t => exec'[u] = exec[u]
      BY <2>2 DEF TimerTypeOK
    <2>4. Right /\ Others
      BY <2>1, <2>3, CallBegins
    <2> QED
      BY <2>1, <2>3, <2>4
  <1>4. CASE Destruct(k, t)
    <2>1. BeginCall(k, "stop", t) /\ raced \subseteq raced' /\ exec' = exec
      BY <1>4 DEF Destruct, BeginCall
    <2>2. \A u \in Timer : u # t => exec'[u] = exec[u]
      BY <2>1
    <2>4. Right /\ Others
      BY <2>1, <2>2, CallBegins
    <2> QED
      BY <2>1, <2>4
  <1>5. CASE ReleaseTimer(k, t)
    <2>1. /\ call[k] = <<"release", t>> \/ call[k] = NoCall
          /\ call' = [call EXCEPT ![k] = NoCall] /\ exec' = exec /\ raced' = raced
      BY <1>5 DEF ReleaseTimer
    <2>2. Uses(k, t) \/ call[k] = NoCall
      BY <1>1, <2>1 DEF Uses
    <2>3. \A u \in Timer : (exec'[u] => exec[u]) /\ (u # t => exec'[u] = exec[u])
      BY <2>1
    <2>4. Right /\ Others
      BY <2>1, <2>2, <2>3, CallGoesOn
    <2> QED
      BY <2>1, <2>4
  <1>6. CASE Arm(k, t)
    <2>1. /\ call[k] = <<"arm", t>>
          /\ call' = [call EXCEPT ![k] = NoCall] /\ exec' = exec /\ raced' = raced
      BY <1>6 DEF Arm
    <2>2. Uses(k, t)
      BY <1>1, <2>1 DEF Uses
    <2>3. \A u \in Timer : (exec'[u] => exec[u]) /\ (u # t => exec'[u] = exec[u])
      BY <2>1
    <2>4. Right /\ Others
      BY <2>1, <2>2, <2>3, CallGoesOn
    <2> QED
      BY <2>1, <2>4
  <1>7. CASE Disarm(k, t)
    <2>1. /\ call[k] \in {<<"disarm", t>>, <<"disarmLast", t>>}
          /\ exec' = exec /\ raced' = raced
      BY <1>7 DEF Disarm
    <2>2. PICK rest \in {NoCall, <<"disarmLast", t>>, <<"release", t>>} :
            call' = [call EXCEPT ![k] = rest]
      BY <1>7 DEF Disarm
    <2>a. Uses(k, t) /\ call[k][1] \in {"disarm", "disarmLast"}
      BY <1>1, <2>1 DEF Uses
    <2>3. /\ Uses(k, t) \/ (call[k] = NoCall /\ rest = NoCall)
          /\ rest # NoCall => call[k][1] \in {"disarm", "disarmLast"} \/ ~exec'[t]
      BY <2>a
    <2>4. \A u \in Timer : (exec'[u] => exec[u]) /\ (u # t => exec'[u] = exec[u])
      BY <2>1
    <2>b. raced' = raced
      BY <2>1
    <2>5. Right /\ Others
      BY <2>b, <2>2, <2>3, <2>4, CallGoesOn
    <2> QED
      BY <2>1, <2>5
  <1>8. CASE DestructStop(k, t)
    <2>1. /\ call[k] = <<"stop", t>>
          /\ exec' = [exec EXCEPT ![t] = FALSE] /\ raced' = raced
      BY <1>8 DEF DestructStop
    <2>2. PICK rest \in {NoCall, <<"disarmLast", t>>, <<"release", t>>} :
            call' = [call EXCEPT ![k] = rest]
      BY <1>8 DEF DestructStop
    <2>3. Uses(k, t)
      BY <1>1, <2>1 DEF Uses
    <2>4. /\ ~exec'[t] /\ \A u \in Timer : u # t => exec'[u] = exec[u]
          /\ \A u \in Timer : exec'[u] => exec[u]
      BY <2>1 DEF TimerTypeOK
    <2>a. /\ Uses(k, t) \/ (call[k] = NoCall /\ rest = NoCall)
          /\ rest # NoCall => call[k][1] \in {"disarm", "disarmLast"} \/ ~exec'[t]
          /\ raced' = raced
      BY <2>1, <2>3, <2>4
    <2>5. Right /\ Others
      BY <2>a, <2>2, <2>4, CallGoesOn
    <2> QED
      BY <2>1, <2>4, <2>5
  <1> QED
    BY <1>2, <1>3, <1>4, <1>5, <1>6, <1>7, <1>8

(* A thread that begins a call is in it. *)
LEMMA CallBegun ==
  ASSUME TimerTypeOK, ControlRight, NEW k \in Controller, NEW t \in Timer,
         Start(k, t) \/ Destruct(k, t)
  PROVE  Uses(k, t)'
PROOF
  <1>1. PICK c \in {"arm", "stop"} : BeginCall(k, c, t)
    BY DEF Start, Destruct
  <1>2. call'[k] = <<c, t>> /\ <<c, t>> \in Pending
    BY <1>1 DEF BeginCall, Pending, TimerTypeOK
  <1> QED
    BY <1>2, TimerAssumption DEF Uses

(* Other steps change no call, and start or stop no timer. *)
LEMMA CallsKept ==
  ASSUME OsNext, ~Control, ~\E k \in Controller : Finish(k)
  PROVE  UNCHANGED controlVars
PROOF
  <1>1. CASE TimerCallback
    BY <1>1 DEF TimerCallback, ReadEnter, ReadReturn, TestExecute, Rearm, LockListeners, Tell,
                TellReturn, Unlock
  <1>2. CASE UNCHANGED timerVars \/ Setting \/ \E t \in Timer : Expiry(t)
    BY <1>2 DEF timerVars, Expiry, Expire, Setting, Construct,
       EnableContinuous, DisableContinuous, Set,
       SetCounter, SetNumberOfRepetition, SetInterval, AddListener,
       RemoveListener, DropListener
  <1> QED
    BY <1>1, <1>2, NoTimerStep

(* The descriptor a handler reads is that of its timer. *)
LEMMA SourceStays ==
  ASSUME LoopInv, PlacesRight, ControlRight, OsNext, tpc' = "reading"
  PROVE  source' \in (Timer \cap Known)' /\ fd'[source'] = fd'[Head(calls').callback.of]
PROOF
  <1>1. CASE TimerCallback
    <2>1. PICK t \in Timer :
            /\ InCallback(t, "READ")
            /\ \/ ReadEnter(t) \/ ReadReturn(t) \/ TestExecute(t) \/ Rearm(t)
               \/ LockListeners(t) \/ Tell(t) \/ TellReturn(t) \/ Unlock(t)
      BY <1>1, CallbackOfTimer
    <2>2. Head(calls).callback.of = t
      BY <2>1, OneCallback
    <2>3. ReadEnter(t) /\ source' \in Behind(t)
      BY <2>1 DEF ReadEnter, ReadReturn, Read, TestExecute, ExpiredReturn, Rearm, LockListeners,
         Tell, TellReturn, Unlock, Locked
    <2>4. UNCHANGED <<calls, life, fd>>
      BY <2>3 DEF ReadEnter, eventLoopVars, loopVars, roundVars, objectVars
    <2>5. source' \in Timer /\ life[source'] # "new" /\ fd[source'] = fd[t] /\ source' \in Object
      BY <2>3 DEF Behind, Opened
    <2> QED
      BY <2>2, <2>4, <2>5 DEF Known
  <1>2. CASE ~TimerCallback
    <2>1. tpc = "reading" /\ source' = source
      BY <1>2, ExpiryVarsKept DEF expiryVars
    <2>2. UNCHANGED calls /\ lpc = "call"
      BY <1>2, <2>1, TimerHandlerStays DEF PlacesRight, InCallback
    <2>3. /\ source \in Timer /\ source \in Object /\ life[source] # "new"
          /\ fd[source] = fd[Head(calls).callback.of]
      BY <2>1 DEF ControlRight, Known
    <2>4. /\ Head(calls).callback.of \in Object /\ fd[Head(calls).callback.of] # EventFd
      BY <2>2, HeadKnown DEF Known
    <2>5. fd'[source] = fd[source] /\ life'[source] # "new"
      BY <2>3, <2>4, LifeMoves
    <2>6. fd'[Head(calls).callback.of] = fd[Head(calls).callback.of]
      BY <2>4, LifeMoves
    <2> QED
      BY <2>1, <2>2, <2>3, <2>5, <2>6 DEF Known
  <1> QED
    BY <1>1, <1>2

(* Every step keeps the calls of the threads right. *)
LEMMA ControlStep ==
  ASSUME LoopInv, TimerTypeOK, PlacesRight, ControlRight, OsNext
  PROVE  ControlRight'
PROOF
  <1>1. ASSUME NEW u \in Timer
        PROVE  life[u] \notin {"new", "opening"} => life'[u] \notin {"new", "opening"}
    BY LifeMoves, TimerAssumption
  <1>2. ASSUME NEW u \in Timer, exec[u]
        PROVE  life'[u] \notin {"new", "opening"}
    BY <1>1, <1>2 DEF ControlRight
  <1>3. \A u \in Timer : Controlled(u)' /\ (exec'[u] => life'[u] \notin {"new", "opening"})
    <2>1. CASE Control \/ \E k \in Controller : Finish(k)
      <3>1. PICK k \in Controller, t \in Timer :
              \/ Start(k, t) \/ Stop(k, t) \/ Destruct(k, t) \/ ReleaseTimer(k, t)
              \/ Arm(k, t) \/ Disarm(k, t) \/ DestructStop(k, t)
        BY <2>1 DEF Control, Finish
      <3>2. /\ \A u \in Timer : Controlled(u)'
            /\ \A u \in Timer : u # t => exec'[u] = exec[u]
            /\ exec'[t] => exec[t] \/ Start(k, t)
        BY <3>1, CallsRight
      <3>3. Start(k, t) => life'[t] = "alive"
        BY DEF Start, InUse, eventLoopVars, objectVars
      <3> QED
        BY <1>2, <3>2, <3>3
    <2>2. CASE ~Control /\ ~\E k \in Controller : Finish(k)
      <3>1. UNCHANGED <<exec, call, raced>>
        BY <2>2, CallsKept DEF controlVars
      <3> QED
        BY <1>2, <3>1 DEF ControlRight, Controlled, Uses
    <2> QED
      BY <2>1, <2>2
  <1> QED
    BY <1>3, SourceStays DEF ControlRight

(* A number of a descriptor leads to one timer. *)
LEMMA BehindOnly ==
  ASSUME LoopInv, NoReuse, NEW t \in Timer, life[t] = "alive", NEW u \in Timer
  PROVE  t \in Behind(u) <=> u = t
PROOF
  <1>1. t \in Object /\ u \in Object /\ fd[t] # EventFd
    BY TimerAssumption DEF LoopInv, ObjectsRight
  <1>2. u # t => fd[u] # fd[t]
    BY <1>1 DEF NoReuse
  <1> QED
    BY <1>1, <1>2 DEF Behind, Opened

------------------------------------------------------------------------------
(* The continuous timers. *)

(* A timer that ContinuousKept is about, and what it says of it. *)
Driven(t) ==
  /\ exec[t] /\ counter[t] = Infinite /\ duration[t] > 0 /\ life[t] = "alive"
  /\ t \notin switched \cup raced
  /\ \A k \in Controller : ~Uses(k, t)
  /\ NoReuse

Going(t) ==
  kernel[t] # "idle" \/ (InCallback(t, "READ") /\ tpc \in {"test", "rearm"})

(* Steps of the handler. *)
LEMMA ContinuousCallback ==
  ASSUME LoopInv, TimerTypeOK, PlacesRight, ControlRight, TimerCallback,
         NEW u \in Timer, Driven(u) => Going(u), Driven(u)', NoReuse
  PROVE  Going(u)'
PROOF
  <1>1. PICK t \in Timer :
          /\ InCallback(t, "READ")
          /\ \/ ReadEnter(t) \/ ReadReturn(t) \/ TestExecute(t) \/ Rearm(t)
             \/ LockListeners(t) \/ Tell(t) \/ TellReturn(t) \/ Unlock(t)
    BY CallbackOfTimer
  <1>2. UNCHANGED <<exec, call, raced, counter, duration, switched, life, fd>>
    BY <1>1 DEF ReadEnter, ReadReturn, TestExecute, ExpiredReturn, Rearm, LockListeners, Tell,
       TellReturn, Unlock, CallbackReturn, controlVars, settingVars, eventLoopVars, objectVars
  <1>3. Driven(u)
    BY <1>2 DEF Driven, Uses
  <1>4. Going(u)
    BY <1>3
  <1>5. InCallback(u, "READ") => u = t
    BY <1>1, OneCallback
  <1>6. /\ life[u] = "alive" /\ exec[u] /\ counter[u] = Infinite /\ duration[u] # 0
        /\ kernel[u] \in {"idle", "armed", "expired"}
    BY <1>3 DEF Driven, TimerTypeOK
  <1>7. \A s \in Timer : u \in Behind(s) <=> s = u
    BY <1>3, <1>6, BehindOnly
  <1>8. CASE ReadEnter(t)
    <2>1. kernel' = kernel /\ tpc = "enter"
      BY <1>8 DEF ReadEnter, Read
    <2> QED
      BY <1>4, <2>1 DEF Going
  <1>9. CASE ReadReturn(t)
    <2>1. /\ tpc = "reading" /\ tpc' = "test" /\ UNCHANGED <<lpc, calls>>
          /\ kernel' = IF source = NoCall THEN kernel ELSE [kernel EXCEPT ![source] = "idle"]
      BY <1>9 DEF ReadReturn, Read, eventLoopVars, loopVars, roundVars
    <2>2. source \in Timer /\ fd[source] = fd[t]
      BY <1>1, <2>1, OneCallback DEF ControlRight
    <2>3. kernel[u] # "idle"
      BY <1>4, <2>1 DEF Going
    <2>4. CASE source = u
      <3>1. u \in Behind(t)
        BY <1>6, <2>2, <2>4, TimerAssumption DEF Behind, Opened
      <3> QED
        BY <1>1, <1>7, <2>1, <3>1 DEF Going, InCallback
    <2>5. CASE source # u
      BY <2>1, <2>3, <2>5 DEF Going, TimerTypeOK
    <2> QED
      BY <2>4, <2>5
  <1>10. CASE TestExecute(t)
    <2>1. kernel' = kernel /\ tpc = "test"
      BY <1>10 DEF TestExecute
    <2>2. t = u => tpc' = "rearm" /\ UNCHANGED <<lpc, calls>>
      BY <1>6, <1>10 DEF TestExecute, eventLoopVars, loopVars, roundVars
    <2> QED
      BY <1>1, <1>4, <1>5, <2>1, <2>2 DEF Going, InCallback
  <1>11. CASE Rearm(t)
    <2>1. CASE t = u
      <3>1. Settime(t, duration[t])
        BY <1>6, <1>11, <2>1 DEF Rearm
      <3>2. kernel'[u] = "armed"
        BY <1>6, <1>7, <2>1, <3>1 DEF Settime
      <3> QED
        BY <3>2 DEF Going
    <2>2. CASE t # u
      <3>1. kernel[u] # "idle"
        BY <1>4, <1>5, <2>2 DEF Going
      <3>2. kernel'[u] = kernel[u]
        BY <1>7, <1>11, <2>2 DEF Rearm, Settime
      <3> QED
        BY <3>1, <3>2 DEF Going
    <2> QED
      BY <2>1, <2>2
  <1>12. CASE LockListeners(t) \/ Tell(t) \/ TellReturn(t) \/ Unlock(t)
    <2>1. kernel' = kernel /\ tpc \in {"lock", "tell"}
      BY <1>12 DEF LockListeners, Tell, TellReturn, Unlock, Locked
    <2> QED
      BY <1>4, <2>1 DEF Going
  <1> QED
    BY <1>1, <1>8, <1>9, <1>10, <1>11, <1>12

(* Steps of the threads that control the timers. *)
LEMMA ContinuousControl ==
  ASSUME LoopInv, TimerTypeOK, PlacesRight, ControlRight, OsNext, ~TimerCallback,
         NEW k \in Controller, NEW t \in Timer,
         \/ Start(k, t) \/ Stop(k, t) \/ Destruct(k, t) \/ ReleaseTimer(k, t)
         \/ Arm(k, t) \/ Disarm(k, t) \/ DestructStop(k, t),
         NEW u \in Timer, Driven(u) => Going(u), Driven(u)', NoReuse
  PROVE  Going(u)'
PROOF
  <1>1. /\ \A j \in Controller : u # t /\ Uses(j, u) => Uses(j, u)'
        /\ u # t => exec'[u] = exec[u]
        /\ raced \subseteq raced'
    BY CallsRight
  <1>2. UNCHANGED <<counter, duration, switched, tpc, fd>>
    BY DEF Start, Stop, Destruct, ReleaseTimer, Release, Arm, Disarm, DestructStop,
       settingVars, expiryVars, eventLoopVars, objectVars
  <1>3. InCallback(u, "READ") /\ tpc \in {"test", "rearm"} => InCallback(u, "READ")'
    BY TimerHandlerStays DEF InCallback
  <1>4. life' = life \/ (ReleaseTimer(k, t) /\ life' = [life EXCEPT ![t] = "closing"])
    BY DEF Start, Stop, Destruct, ReleaseTimer, Release, Arm, Disarm, DestructStop,
       eventLoopVars, objectVars
  <1>5. t \in Object /\ u \in Object
    BY TimerAssumption
  <1>6. life[u] = "alive" /\ (u = t => ~ReleaseTimer(k, t))
    BY <1>4, <1>5 DEF Driven, ReleaseTimer, Release, LoopInv, EventLoopTypeOK
  <1>7. \A s \in Timer : u \in Behind(s) <=> s = u
    BY <1>6, BehindOnly
  <1>8. CASE u # t
    <2>1. Driven(u)
      BY <1>1, <1>2, <1>6, <1>8 DEF Driven
    <2>2. kernel'[u] = kernel[u]
      BY <1>7, <1>8 DEF Start, Stop, Destruct, ReleaseTimer, Arm, Disarm, DestructStop, Settime
    <2> QED
      BY <1>2, <1>3, <2>1, <2>2 DEF Going
  <1>9. CASE u = t
    <2>1. \A j \in Controller : ~Uses(j, u)'
      BY DEF Driven
    <2>2. ~Start(k, t) /\ ~Destruct(k, t)
      BY <1>9, <2>1, CallBegun
    <2>3. exec'[u] /\ duration[u] # 0 /\ u \notin raced
      BY <1>1, <1>2 DEF Driven, TimerTypeOK
    <2>4. ~Stop(k, t) /\ ~DestructStop(k, t)
      BY <1>9, <2>3 DEF Stop, DestructStop, TimerTypeOK
    <2>5. ~Disarm(k, t)
      <3>1. SUFFICES ASSUME Disarm(k, t)
                     PROVE  FALSE
        OBVIOUS
      <3>2. call[k] \in {<<"disarm", t>>, <<"disarmLast", t>>} /\ exec' = exec
        BY <3>1 DEF Disarm
      <3>3. call[k] \in Pending /\ call[k][2] = t /\ call[k][1] \in {"disarm", "disarmLast"}
        BY <3>2 DEF Pending
      <3>4. Uses(k, t)
        BY <3>3, TimerAssumption DEF Uses
      <3> QED
        BY <1>9, <2>3, <3>2, <3>3, <3>4 DEF ControlRight, Controlled
    <2>6. Arm(k, t)
      BY <1>6, <1>9, <2>2, <2>4, <2>5
    <2>7. kernel'[u] = "armed"
      BY <1>7, <1>9, <2>3, <2>6 DEF Arm, Settime
    <2> QED
      BY <2>7 DEF Going
  <1> QED
    BY <1>8, <1>9

(* Every step keeps a timer that is driven going. *)
LEMMA ContinuousStep ==
  ASSUME LoopInv, TimerTypeOK, PlacesRight, ControlRight, ContinuousKept, OsNext
  PROVE  ContinuousKept'
PROOF
  <1> SUFFICES ASSUME NEW u \in Timer, Driven(u)'
               PROVE  Going(u)'
    BY DEF ContinuousKept, Driven, Going
  <1>1. Driven(u) => Going(u)
    BY DEF ContinuousKept, Driven, Going
  <1>2. NoReuse
    BY NoReuseBefore DEF Driven
  <1>3. CASE TimerCallback
    BY <1>1, <1>2, <1>3, ContinuousCallback
  <1>4. CASE ~TimerCallback /\ (Control \/ \E k \in Controller : Finish(k))
    <2>1. PICK k \in Controller, t \in Timer :
            \/ Start(k, t) \/ Stop(k, t) \/ Destruct(k, t) \/ ReleaseTimer(k, t)
            \/ Arm(k, t) \/ Disarm(k, t) \/ DestructStop(k, t)
      BY <1>4 DEF Control, Finish
    <2> QED
      BY <1>1, <1>2, <1>4, <2>1, ContinuousControl
  <1>5. CASE ~TimerCallback /\ ~Control /\ ~\E k \in Controller : Finish(k)
    <2>1. UNCHANGED <<exec, call, raced, tpc>>
      BY <1>5, CallsKept, ExpiryVarsKept DEF controlVars, expiryVars
    <2>2. life[u] = "alive"
      <3>1. u \in Object /\ life'[u] = "alive" /\ exec[u]
        BY <2>1, TimerAssumption DEF Driven
      <3>2. life[u] \in {"opening", "alive"}
        BY <3>1, LifeMoves
      <3> QED
        BY <3>1, <3>2 DEF ControlRight
    <2>3. InCallback(u, "READ") /\ tpc \in {"test", "rearm"} => InCallback(u, "READ")'
      BY <1>5, TimerHandlerStays DEF InCallback
    <2>4. CASE UNCHANGED timerVars
      <3>1. UNCHANGED <<counter, duration, switched, kernel>>
        BY <2>4 DEF timerVars, settingVars
      <3>2. Driven(u)
        BY <1>2, <2>1, <2>2, <3>1 DEF Driven, Uses
      <3> QED
        BY <1>1, <2>1, <2>3, <3>1, <3>2 DEF Going
    <2>5. CASE \E t \in Timer : Expiry(t)
      <3>1. PICK t \in Timer : Expire(t)
        BY <2>5 DEF Expiry
      <3>2. UNCHANGED <<counter, duration, switched>> /\ kernel' = [kernel EXCEPT ![t] = "expired"]
        BY <3>1 DEF Expire, settingVars
      <3>3. Driven(u)
        BY <1>2, <2>1, <2>2, <3>2 DEF Driven, Uses
      <3>4. kernel'[u] \in {"expired", kernel[u]}
        BY <3>2 DEF TimerTypeOK
      <3> QED
        BY <1>1, <2>1, <2>3, <3>3, <3>4 DEF Going
    <2>6. CASE Setting
      <3>1. UNCHANGED kernel
        BY <2>6 DEF Setting, Construct, EnableContinuous, DisableContinuous, Set,
           SetCounter, SetNumberOfRepetition, SetInterval, AddListener,
           RemoveListener, DropListener
      <3>2. switched \subseteq switched' /\ counter'[u] = counter[u] /\ duration'[u] = duration[u]
        <4>1. CASE \E t \in Timer : \/ EnableContinuous(t) \/ DisableContinuous(t)
                                   \/ \E n \in {-1, 1} : SetNumberOfRepetition(t, n)
                                   \/ \E ns \in {0, 1} : SetInterval(t, ns)
          <5>1. PICK t \in Timer :
                  /\ Set(t)
                  /\ \A v \in Timer : v # t => counter'[v] = counter[v] /\ duration'[v] = duration[v]
            BY <4>1 DEF EnableContinuous, DisableContinuous, SetNumberOfRepetition, SetInterval,
               SetCounter, TimerTypeOK
          <5>2. switched' = IF exec[t] THEN switched \cup {t} ELSE switched
            BY <5>1 DEF Set
          <5>3. u # t
            BY <2>1, <5>2 DEF Driven
          <5> QED
            BY <5>1, <5>2, <5>3
        <4>2. CASE ~\E t \in Timer : \/ EnableContinuous(t) \/ DisableContinuous(t)
                                    \/ \E n \in {-1, 1} : SetNumberOfRepetition(t, n)
                                    \/ \E ns \in {0, 1} : SetInterval(t, ns)
          BY <2>6, <4>2 DEF Setting, Construct, AddListener, RemoveListener, DropListener
        <4> QED
          BY <4>1, <4>2
      <3>3. Driven(u)
        BY <1>2, <2>1, <2>2, <3>2 DEF Driven, Uses
      <3> QED
        BY <1>1, <2>1, <2>3, <3>1, <3>3 DEF Going
    <2> QED
      BY <1>5, <2>4, <2>5, <2>6, NoTimerStep
  <1> QED
    BY <1>3, <1>4, <1>5

(* Initially no thread controls a timer. *)
LEMMA ControlInit ==
  ASSUME TimerInit
  PROVE  ControlRight /\ ContinuousKept
PROOF
  BY DEF TimerInit, ControlRight, Controlled, Uses, ContinuousKept

------------------------------------------------------------------------------
(* The lists of the loop, while no number of a descriptor is given twice. *)

(* An update leaves the objects that are registered, whatever was listed of
   those that ever were. *)
LEMMA UpdatedHolds ==
  ASSUME LoopInv, NoReuse, NEW e \in Event, NEW S \in SUBSET Members(adds[e]),
         Holds(listeners[e], S)
  PROVE  \E R \in SUBSET Members(adds[e]) :
           R = {o \in Object : Registered(o, e)} /\ Holds(Updated[e], R)
PROOF
  <1> DEFINE R == {o \in Object : Registered(o, e)}
             added == AddAll(listeners[e], adds[e])
             A == Members(adds[e])
             X == Members(removes[e])
             K == Known
  <1>1. /\ K \in SUBSET Object
        /\ \A o \in K : fd[o] \in Fd
        /\ \A o, p \in K : fd[o] = fd[p] => o = p
    BY DEF Known, LoopInv, EventLoopTypeOK, ObjectsRight, NoReuse
  <1>2. /\ adds[e] \in Seq(K) /\ removes[e] \in Seq(K)
        /\ listeners[e] \in ListOf(K)
    BY DEF LoopInv, ObjectsRight
  <1>3. A \in SUBSET K
    BY <1>2, LenProperties, ElementOfSeq DEF Members
  <1>4. R = A \ X
    <2>1. \A o : Registered(o, e) <=> o \in A /\ o \notin X
      BY DEF Registered, ToSet, Members
    <2> QED
      BY <1>1, <1>3, <2>1
  <1> HIDE DEF K, A, X, R
  <1>5. added \in ListOf(K)
    BY <1>1, <1>2, AddAllType
  <1>6. S \in SUBSET K
    BY <1>3 DEF A
  <1>7. Holds(added, S \cup A)
    BY <1>1, <1>2, <1>6, AddAllHolds DEF A
  <1>8. S \cup A = A
    BY DEF A
  <1> HIDE DEF added
  <1>9. Holds(RemoveAll(added, removes[e]), A \ X)
    BY <1>1, <1>2, <1>3, <1>5, <1>7, <1>8, RemoveAllHolds DEF X
  <1>10. Updated[e] = RemoveAll(added, removes[e])
    BY DEF Updated, added
  <1> QED
    BY <1>4, <1>9, <1>10 DEF A, R

(* A step that lists nothing else, and after which the lists are current only if
   they were before and nothing was registered since. *)
LEMMA ListsKept ==
  ASSUME LoopInv, OsNext, NEW e \in Event, NEW S \in SUBSET Members(adds[e]),
         Holds(listeners[e], S),
         lpc \in Running /\ eventfd = "clear" => S = {o \in Object : Registered(o, e)},
         listeners' = listeners, Members(adds[e]) \subseteq Members(adds'[e]),
         lpc' \in Running /\ eventfd' = "clear" =>
           lpc \in Running /\ eventfd = "clear" /\ UNCHANGED registry
  PROVE  \E T \in SUBSET Members(adds'[e]) :
           /\ Holds(listeners[e], T)'
           /\ lpc' \in Running /\ eventfd' = "clear" =>
                T = {o \in Object : Registered(o, e)'}
PROOF
  <1>1. S \subseteq Known
    <2>1. adds[e] \in Seq(Known)
      BY DEF LoopInv, ObjectsRight
    <2> QED
      BY <2>1, LenProperties, ElementOfSeq DEF Members
  <1>2. \A o \in S : fd'[o] = fd[o]
    <2>1. \A o \in S : o \in Object /\ fd[o] # EventFd
      BY <1>1 DEF Known, LoopInv, ObjectsRight
    <2> QED
      BY <2>1, LifeMoves
  <1>3. {Entry(o) : o \in S}' = {Entry(o) : o \in S}
    BY <1>2 DEF Entry
  <1>4. Holds(listeners[e], S)'
    BY <1>3 DEF Holds
  <1>5. lpc' \in Running /\ eventfd' = "clear" => S = {o \in Object : Registered(o, e)'}
    BY DEF Registered, registry
  <1> QED
    BY <1>4, <1>5

(* Every step keeps the lists. *)
LEMMA ListsStep ==
  ASSUME LoopInv, ListsRight, OsNext
  PROVE  ListsRight'
PROOF
  <1> SUFFICES ASSUME NoReuse', NEW e \in Event
               PROVE  \E T \in SUBSET Members(adds'[e]) :
                         /\ Holds(listeners[e], T)'
                         /\ lpc' \in Running /\ eventfd' = "clear" =>
                              T = {o \in Object : Registered(o, e)'}
    BY DEF ListsRight
  <1>1. NoReuse
    BY NoReuseBefore
  <1>2. PICK S \in SUBSET Members(adds[e]) :
          /\ Holds(listeners[e], S)
          /\ lpc \in Running /\ eventfd = "clear" => S = {o \in Object : Registered(o, e)}
    BY <1>1 DEF ListsRight
  <1>3. LoopMoves
    BY StepMoves
  <1>4. CASE RunApply \/ (HandleEvents /\ listeners' = Updated)
    <2>1. PICK R \in SUBSET Members(adds[e]) :
            R = {o \in Object : Registered(o, e)} /\ Holds(Updated[e], R)
      BY <1>1, <1>2, UpdatedHolds
    <2>2. listeners' = Updated /\ UNCHANGED <<adds, removes, fd>>
      BY <1>4 DEF RunApply, HandleEvents, registry, objectVars
    <2>3. Holds(listeners[e], R)'
      BY <2>1, <2>2 DEF Holds, Entry
    <2>4. \A o : Registered(o, e)' <=> Registered(o, e)
      BY <2>2 DEF Registered
    <2> QED
      BY <2>1, <2>2, <2>3, <2>4
  <1>5. ASSUME listeners' = listeners, Members(adds[e]) \subseteq Members(adds'[e]),
               lpc' \in Running /\ eventfd' = "clear" =>
                 lpc \in Running /\ eventfd = "clear" /\ UNCHANGED registry
        PROVE  \E T \in SUBSET Members(adds'[e]) :
                 /\ Holds(listeners[e], T)'
                 /\ lpc' \in Running /\ eventfd' = "clear" =>
                      T = {o \in Object : Registered(o, e)'}
    BY <1>2, <1>5, ListsKept
  <1>6. CASE \/ RunBegin \/ RunEnd \/ EnterSelect \/ SelectReturn(Ready) \/ CallEmpty
             \/ CallbackReturn \/ StopStore \/ StopWake \/ UNCHANGED eventLoopVars
             \/ (HandleEvents /\ UNCHANGED <<listeners, eventfd>>)
    <2>1. listeners' = listeners /\ UNCHANGED registry
      BY <1>6 DEF RunBegin, RunEnd, EnterSelect, SelectReturn, CallEmpty, CallbackReturn,
         StopStore, StopWake, HandleEvents, eventLoopVars, loopVars, roundVars
    <2>2. adds' = adds
      BY <2>1 DEF registry
    <2>3. lpc' \in Running /\ eventfd' = "clear" => lpc \in Running /\ eventfd = "clear"
      <3>1. CASE HandleEvents /\ UNCHANGED <<listeners, eventfd>>
        BY <3>1 DEF HandleEvents, Running
      <3>2. CASE RunBegin \/ RunEnd \/ EnterSelect \/ CallEmpty
        BY <3>2 DEF RunBegin, RunEnd, EnterSelect, CallEmpty, Running
      <3>3. CASE SelectReturn(Ready) \/ CallbackReturn
        BY <3>3 DEF SelectReturn, CallbackReturn, Running
      <3>4. CASE StopStore \/ StopWake \/ UNCHANGED eventLoopVars
        BY <3>4 DEF StopStore, StopWake, EventFdWrite, eventLoopVars, loopVars, roundVars
      <3> QED
        BY <1>6, <3>1, <3>2, <3>3, <3>4
    <2> QED
      BY <1>5, <2>1, <2>2, <2>3
  <1>7. CASE \E o \in Object : Open(o) \/ Release(o) \/ Close(o)
    <2>1. UNCHANGED <<loopVars, registry>>
      BY <1>7 DEF Open, Release, Close
    <2> QED
      BY <1>5, <2>1 DEF loopVars, roundVars, registry
  <1>8. CASE \E o \in Object : Register(o) \/ Unregister(o)
    <2>1. PICK o \in Object : Register(o) \/ Unregister(o)
      BY <1>8
    <2>2. listeners' = listeners /\ eventfd' # "clear"
      BY <2>1 DEF Register, Unregister, roundVars, EventFdWrite
    <2>3. Members(adds[e]) \subseteq Members(adds'[e])
      <3>1. adds[e] \in Seq(Object) /\ adds \in [Event -> Seq(Object)]
        BY DEF LoopInv, EventLoopTypeOK
      <3>2. adds'[e] \in {adds[e], Append(adds[e], o)}
        BY <2>1, <3>1 DEF Register, Unregister
      <3>3. adds[e] \in Seq(Object) /\ o \in Object
        BY <3>1
      <3>4. Members(Append(adds[e], o)) = Members(adds[e]) \cup {o}
        BY <3>3, MembersAppend
      <3> QED
        BY <3>2, <3>4
    <2> QED
      BY <1>5, <2>2, <2>3
  <1>9. HandleEvents => listeners' = Updated \/ UNCHANGED <<listeners, eventfd>>
    BY DEF HandleEvents
  <1> QED
    BY <1>3, <1>4, <1>6, <1>7, <1>8, <1>9 DEF LoopMoves

(* Initially they are empty. *)
LEMMA ListsInit ==
  ASSUME EventLoopInit
  PROVE  ListsRight
PROOF
  <1> SUFFICES ASSUME NEW e \in Event
               PROVE  Holds(listeners[e], {})
    BY DEF ListsRight, EventLoopInit, Running
  <1>1. listeners[e] = <<>>
    BY DEF EventLoopInit
  <1>2. Members(<<>>) = {} /\ DOMAIN <<>> = {}
    BY DEF Members
  <1> QED
    BY <1>1, <1>2 DEF Holds

(* The entries of a list, told as ListsCurrent tells them. *)
LEMMA ListsSay ==
  ASSUME ListsRight
  PROVE  ListsCurrent
PROOF
  <1> SUFFICES ASSUME NoReuse, lpc \in Running, eventfd = "clear", NEW e \in Event
               PROVE  /\ \A i, j \in DOMAIN listeners[e] :
                           listeners[e][i].fd = listeners[e][j].fd => i = j
                      /\ {<<l.fd, l.callbacks>> : l \in ToSet(listeners[e])}
                           = {<<fd[o], <<Bound(o)>>>> : o \in {p \in Object : Registered(p, e)}}
    BY DEF ListsCurrent
  <1> DEFINE R == {p \in Object : Registered(p, e)}
  <1>1. Holds(listeners[e], R)
    BY DEF ListsRight
  <1>2. ToSet(listeners[e]) = {Entry(o) : o \in R}
    BY <1>1 DEF Holds, ToSet, Members
  <1>3. \A o : Entry(o).fd = fd[o] /\ Entry(o).callbacks = <<Bound(o)>>
    BY DEF Entry
  <1> HIDE DEF R
  <1>4. {<<l.fd, l.callbacks>> : l \in {Entry(o) : o \in R}} = {<<fd[o], <<Bound(o)>>>> : o \in R}
    BY <1>3
  <1> QED
    BY <1>1, <1>2, <1>4 DEF Holds, R

------------------------------------------------------------------------------
(* The requests for data. *)

(* Whether the handler of a socket runs is its own matter. *)
LEMMA HandlerKept ==
  ASSUME PlacesRight, OsNext, ~SocketCallback
  PROVE  /\ spc' = spc
         /\ \A s \in Socket : (Reads(s)' <=> Reads(s)) /\ (Writes(s)' <=> Writes(s))
PROOF
  <1>1. spc' = spc
    BY NoSocketStep DEF socketVars, handlerVars, Request, ReceiveAsync, SendAsync,
          AcceptAsync, Peer, PeerSend, PeerReads, PeerEnds, PeerConnects
  <1>2. spc # "enter" => UNCHANGED <<lpc, calls>>
    BY SocketHandlerStays
  <1> QED
    BY <1>1, <1>2 DEF Reads, Writes, InCallback

(* Numbers in a row: the first is taken, or one more comes. *)
LEMMA NumbersTail ==
  ASSUME NEW q \in Seq(Nat), NEW n \in Nat, q # <<>>, \A i \in DOMAIN q : q[i] = n + i
  PROVE  /\ Head(q) = n + 1 /\ Tail(q) \in Seq(Nat)
         /\ Len(Tail(q)) = Len(q) - 1 /\ Len(q) \in Nat
         /\ \A i \in DOMAIN Tail(q) : Tail(q)[i] = (n + 1) + i
PROOF
  <1>1. /\ Head(q) = q[1] /\ Tail(q) \in Seq(Nat)
        /\ Len(Tail(q)) = Len(q) - 1 /\ Len(q) \in Nat
        /\ \A i \in 1..Len(Tail(q)) : Tail(q)[i] = q[i + 1]
        /\ DOMAIN q = 1..Len(q) /\ DOMAIN Tail(q) = 1..Len(Tail(q))
    BY HeadTailProperties, LenProperties
  <1>2. Len(q) # 0
    BY EmptySeq
  <1>3. Head(q) = n + 1
    BY <1>1, <1>2
  <1>4. \A i \in DOMAIN Tail(q) : i + 1 \in DOMAIN q /\ Tail(q)[i] = q[i + 1] /\ i \in Nat
    BY <1>1
  <1>5. \A i \in DOMAIN Tail(q) : Tail(q)[i] = (n + 1) + i
    BY <1>4
  <1> QED
    BY <1>1, <1>3, <1>5

(* The number after n + l. *)
LEMMA NextSum ==
  ASSUME NEW n \in Nat, NEW l \in Nat
  PROVE  n + l + 1 = n + (l + 1)
PROOF
  OBVIOUS

(* One more number comes. *)
LEMMA NumbersAppend ==
  ASSUME NEW q \in Seq(Nat), NEW n \in Nat, \A i \in DOMAIN q : q[i] = n + i,
         NEW x \in Nat, x = n + Len(q) + 1
  PROVE  /\ Append(q, x) \in Seq(Nat) /\ Len(Append(q, x)) = Len(q) + 1
         /\ \A i \in DOMAIN Append(q, x) : Append(q, x)[i] = n + i
PROOF
  <1> DEFINE r == Append(q, x)
  <1>1. /\ r \in Seq(Nat) /\ Len(r) = Len(q) + 1 /\ Len(q) \in Nat
        /\ DOMAIN r = 1..(Len(q) + 1) /\ DOMAIN q = 1..Len(q)
        /\ r[Len(q) + 1] = x
        /\ \A i \in 1..Len(q) : r[i] = q[i]
    BY LenProperties, AppendProperties
  <1> HIDE DEF r
  <1>2. \A i \in 1..(Len(q) + 1) : i \in 1..Len(q) \/ i = Len(q) + 1
    BY <1>1
  <1>3. ASSUME NEW i \in DOMAIN r
        PROVE  r[i] = n + i
    <2>1. CASE i \in 1..Len(q)
      <3>1. i \in DOMAIN q /\ r[i] = q[i]
        BY <1>1, <2>1
      <3> QED
        BY <3>1, Zenon
    <2>2. CASE i = Len(q) + 1
      <3>1. r[i] = x
        BY <1>1, <2>2
      <3>2. n + Len(q) + 1 = n + (Len(q) + 1)
        BY <1>1, NextSum
      <3> QED
        BY <2>2, <3>1, <3>2, Zenon
    <2> QED
      BY <1>1, <1>2, <2>1, <2>2
  <1> QED
    BY <1>1, <1>3 DEF r

(* The types that matter here. *)
LEMMA ReadTypes ==
  ASSUME SocketTypeOK, NEW s \in Socket
  PROVE  /\ reads[s] \in Seq(Nat) /\ incoming[s] \in Seq(Nat)
         /\ answers[s] \in Seq(Nat \X (Seq(Nat) \cup {Exception}))
         /\ Len(answers[s]) \in Nat /\ Len(reads[s]) \in Nat
         /\ asked[s] \in Nat
         /\ peerSent[s] \in Nat
PROOF
  <1> DEFINE X == Nat \X (Seq(Nat) \cup {Exception})
  <1>1. /\ reads \in [Socket -> Seq(Nat)] /\ incoming \in [Socket -> Seq(Nat)]
        /\ answers \in [Socket -> Seq(X)]
        /\ asked \in [Socket \cup Server -> 0..MaxRequests]
        /\ peerSent \in [Socket -> 0..MaxBytes]
    BY DEF SocketTypeOK
  <1> HIDE DEF X
  <1>2. /\ reads[s] \in Seq(Nat) /\ answers[s] \in Seq(X) /\ incoming[s] \in Seq(Nat)
        /\ asked[s] \in 0..MaxRequests /\ peerSent[s] \in 0..MaxBytes
    BY <1>1
  <1>3. asked[s] \in Nat /\ peerSent[s] \in Nat
    BY <1>2, SocketAssumption
  <1> QED
    BY <1>2, <1>3, LenProperties DEF X

(* An answer, which the first promise gets. *)
LEMMA AnswerGiven ==
  ASSUME SocketTypeOK, ReadsRight, NEW s \in Socket, reads[s] # <<>>,
         NEW result \in Seq(Nat) \cup {Exception}, Answer(s, result), asked' = asked
  PROVE  /\ ReadsRight'
         /\ answers'[s] = Append(answers[s], <<Len(answers[s]) + 1, result>>)
         /\ \A r \in Socket : r # s => answers'[r] = answers[r]
PROOF
  <1> DEFINE n == Len(answers[s])
             X == Nat \X (Seq(Nat) \cup {Exception})
             a == <<n + 1, result>>
  <1>1. /\ reads[s] \in Seq(Nat) /\ answers[s] \in Seq(X) /\ n \in Nat /\ Len(reads[s]) \in Nat
    BY ReadTypes
  <1>2. /\ asked[s] = n + Len(reads[s])
        /\ \A i \in DOMAIN reads[s] : reads[s][i] = n + i
        /\ \A i \in DOMAIN answers[s] : answers[s][i][1] = i
    BY DEF ReadsRight, Requested
  <1>3. /\ Head(reads[s]) = n + 1
        /\ Len(Tail(reads[s])) = Len(reads[s]) - 1
        /\ \A i \in DOMAIN Tail(reads[s]) : Tail(reads[s])[i] = (n + 1) + i
    <2> HIDE DEF n
    <2> QED
      BY <1>1, <1>2, NumbersTail
  <1>4. a \in X
    BY <1>1
  <1>5. /\ answers' = [answers EXCEPT ![s] = Append(@, a)]
        /\ reads' = [reads EXCEPT ![s] = Tail(@)]
    BY <1>3 DEF Answer
  <1>6. /\ answers'[s] = Append(answers[s], a) /\ reads'[s] = Tail(reads[s])
        /\ \A r \in Socket : r # s => answers'[r] = answers[r] /\ reads'[r] = reads[r]
    BY <1>5 DEF SocketTypeOK
  <1>a. a[1] = n + 1
    OBVIOUS
  <1> HIDE DEF X, a
  <1>7. /\ Len(answers'[s]) = n + 1
        /\ DOMAIN answers'[s] = 1..(n + 1) /\ DOMAIN answers[s] = 1..n
        /\ answers'[s][n + 1] = a
        /\ \A i \in 1..n : answers'[s][i] = answers[s][i]
    BY <1>1, <1>4, <1>6, LenProperties, AppendProperties
  <1>8. \A i \in DOMAIN answers'[s] : answers'[s][i][1] = i
    <2>1. \A i \in 1..(n + 1) : i \in 1..n \/ i = n + 1
      BY <1>1
    <2> QED
      BY <1>2, <1>7, <1>a, <2>1
  <1>9. Requested(s)'
    <2>1. asked'[s] = Len(answers'[s]) + Len(reads'[s])
      <3> DEFINE p == Len(reads[s])
      <3>1. n \in Nat /\ p \in Nat
        BY <1>1
      <3>2. /\ asked'[s] = n + p /\ Len(answers'[s]) = n + 1
            /\ Len(reads'[s]) = p - 1
        BY <1>2, <1>3, <1>6, <1>7
      <3> HIDE DEF n, p
      <3> QED
        BY <3>1, <3>2
    <2>2. \A i \in DOMAIN reads'[s] : reads'[s][i] = Len(answers'[s]) + i
      BY <1>3, <1>6, <1>7
    <2> QED
      BY <1>8, <2>1, <2>2 DEF Requested
  <1>10. \A r \in Socket : r # s => Requested(r)'
    BY <1>6 DEF ReadsRight, Requested
  <1> QED
    BY <1>6, <1>9, <1>10 DEF ReadsRight, a

(* Every step keeps the requests and their answers in order. *)
LEMMA ReadsRightStep ==
  ASSUME SocketTypeOK, QueuesRight, ReadsRight, OsNext
  PROVE  ReadsRight'
PROOF
  <1>1. CASE UNCHANGED <<asked, answers, reads>>
    BY <1>1 DEF ReadsRight, Requested
  <1>2. CASE \E s \in Socket : ReceiveNothing(s) \/ ReceiveError(s)
    <2>1. PICK s \in Socket : ReceiveNothing(s) \/ ReceiveError(s)
      BY <1>2
    <2>2. PICK result \in Seq(Nat) \cup {Exception} : Answer(s, result)
      BY <2>1 DEF ReceiveNothing, ReceiveError, SocketTypeOK
    <2>3. asked' = asked /\ reads[s] # <<>>
      BY <2>1 DEF ReceiveNothing, ReceiveError, QueuesRight
    <2> QED
      BY <2>2, <2>3, AnswerGiven
  <1>3. CASE \E s \in Socket : ReceiveAsync(s)
    <2>1. PICK s \in Socket : ReceiveAsync(s)
      BY <1>3
    <2> DEFINE n == Len(answers[s])
    <2>2. /\ asked'[s] = asked[s] + 1 /\ reads'[s] = Append(reads[s], asked[s] + 1)
          /\ answers' = answers
          /\ \A r \in Socket : r # s => asked'[r] = asked[r] /\ reads'[r] = reads[r]
      BY <2>1 DEF ReceiveAsync, SocketTypeOK, socketHistory
    <2>3. /\ reads[s] \in Seq(Nat) /\ n \in Nat /\ Len(reads[s]) \in Nat /\ asked[s] + 1 \in Nat
      BY ReadTypes
    <2>4. /\ asked[s] = n + Len(reads[s])
          /\ \A i \in DOMAIN reads[s] : reads[s][i] = n + i
      BY DEF ReadsRight, Requested
    <2>5. asked[s] + 1 = n + Len(reads[s]) + 1
      BY <2>3, <2>4
    <2>6. /\ Len(reads'[s]) = Len(reads[s]) + 1
          /\ \A i \in DOMAIN reads'[s] : reads'[s][i] = n + i
      <3> DEFINE q == reads[s]
                 x == asked[s] + 1
      <3>1. q \in Seq(Nat) /\ x \in Nat /\ x = n + Len(q) + 1
        BY <2>3, <2>5
      <3>2. \A i \in DOMAIN q : q[i] = n + i
        BY <2>4
      <3>3. n \in Nat /\ reads'[s] = Append(q, x)
        BY <2>2, <2>3
      <3> HIDE DEF n, q, x
      <3>4. /\ Len(Append(q, x)) = Len(q) + 1
            /\ \A i \in DOMAIN Append(q, x) : Append(q, x)[i] = n + i
        BY <3>1, <3>2, <3>3, NumbersAppend
      <3> QED
        BY <3>3, <3>4 DEF q
    <2>7. Requested(s)'
      <3>1. asked'[s] = Len(answers'[s]) + Len(reads'[s])
        <4> DEFINE p == Len(reads[s])
        <4>1. n \in Nat /\ p \in Nat
          BY <2>3
        <4>2. /\ asked'[s] = n + p + 1 /\ Len(answers'[s]) = n
              /\ Len(reads'[s]) = p + 1
          BY <2>2, <2>5, <2>6
        <4> HIDE DEF n, p
        <4> QED
          BY <4>1, <4>2
      <3>2. \A i \in DOMAIN reads'[s] : reads'[s][i] = Len(answers'[s]) + i
        BY <2>2, <2>6
      <3>3. \A i \in DOMAIN answers'[s] : answers'[s][i][1] = i
        BY <2>2 DEF ReadsRight, Requested
      <3> QED
        BY <3>1, <3>2, <3>3 DEF Requested
    <2>8. ASSUME NEW r \in Socket, r # s PROVE Requested(r)'
      <3>1. asked'[r] = asked[r] /\ reads'[r] = reads[r] /\ answers' = answers
        BY <2>2, <2>8
      <3> QED
        BY <3>1 DEF ReadsRight, Requested
    <2> QED
      BY <2>7, <2>8 DEF ReadsRight
  <1>4. CASE \E v \in Server : AcceptAsync(v)
    <2>1. PICK v \in Server : AcceptAsync(v)
      BY <1>4
    <2>2. UNCHANGED <<answers, reads>> /\ \A s \in Socket : asked'[s] = asked[s]
      BY <2>1, OsAssumption DEF AcceptAsync, SocketTypeOK, socketHistory
    <2> QED
      BY <2>2 DEF ReadsRight, Requested
  <1>5. CASE UNCHANGED socketVars
    BY <1>1, <1>5 DEF socketVars, requestVars, socketHistory
  <1>6. CASE Peer
    BY <1>1, <1>6 DEF Peer, PeerSend, PeerReads, PeerEnds, PeerConnects, requestVars,
       socketHistory
  <1>7. CASE Request
    <2>1. CASE \E s \in Socket : SendAsync(s)
      BY <1>1, <2>1 DEF SendAsync, socketHistory
    <2> QED
      BY <1>3, <1>4, <1>7, <2>1 DEF Request
  <1>8. CASE SocketCallback
    <2>1. CASE \E s \in Socket : ReadEnterSocket(s) \/ Receive(s)
      BY <1>1, <2>1 DEF ReadEnterSocket, Receive, requestVars, socketHistory
    <2>2. CASE \E s \in Socket : WriteEnterSocket(s) \/ Transmit(s) \/ TransmitError(s)
      BY <1>1, <2>2 DEF WriteEnterSocket, Transmit, TransmitError, requestVars, socketHistory
    <2>3. CASE \E v \in Server : AcceptEnter(v) \/ Accept(v) \/ AcceptReturn(v) \/ AcceptNobody(v)
      BY <1>1, <2>3 DEF AcceptEnter, Accept, AcceptReturn, AcceptNobody, requestVars, socketHistory
    <2> QED
      BY <1>2, <1>8, <2>1, <2>2, <2>3 DEF SocketCallback
  <1> QED
    BY <1>5, <1>6, <1>7, <1>8, NoSocketStep

------------------------------------------------------------------------------
(* The stream of a socket: what was given to the promises, what the handler
   holds, what the system has. *)

Whole(s) ==
  (\A i \in DOMAIN answers[s] : answers[s][i][2] # Exception) /\ state[s] = "fine"

Pieces(s) == [i \in DOMAIN answers[s] |-> answers[s][i][2]]
Held(s) == IF Reads(s) THEN chunk ELSE <<>>

Streamed(s) ==
  Whole(s) => (FlattenSeq(Pieces(s)) \o Held(s)) \o incoming[s] = [i \in 1..peerSent[s] |-> i]

ChunkHeld == chunk # <<>> => \E s \in Socket : Reads(s)

(* The parts of StreamKept. *)
LEMMA StreamSays ==
  StreamKept <=>
    /\ \A s \in Socket : Streamed(s) /\ \A i \in DOMAIN answers[s] : answers[s][i][1] = i
    /\ ChunkHeld
PROOF
  BY DEF StreamKept, Streamed, ChunkHeld, Whole, Pieces, Held

(* Where no answer is an exception, the answers are bytes. *)
LEMMA PiecesType ==
  ASSUME SocketTypeOK, NEW s \in Socket, Whole(s)
  PROVE  Pieces(s) \in Seq(Seq(Nat)) /\ FlattenSeq(Pieces(s)) \in Seq(Nat)
PROOF
  <1> DEFINE L == Seq(Nat)
             X == Nat \X (L \cup {Exception})
  <1>1. answers[s] \in Seq(X)
    BY ReadTypes
  <1>2. \A x \in X : x[2] \in L \cup {Exception}
    OBVIOUS
  <1> HIDE DEF X
  <1>3. /\ DOMAIN answers[s] = 1..Len(answers[s]) /\ Len(answers[s]) \in Nat
        /\ \A i \in 1..Len(answers[s]) : answers[s][i] \in X
    BY <1>1, LenProperties, ElementOfSeq
  <1>4. \A i \in 1..Len(answers[s]) : answers[s][i][2] \in L
    BY <1>2, <1>3 DEF Whole
  <1> HIDE DEF L
  <1>5. Pieces(s) \in [1..Len(answers[s]) -> L]
    BY <1>3, <1>4 DEF Pieces
  <1>6. Pieces(s) \in Seq(L)
    BY <1>3, <1>5, SeqDef
  <1> QED
    BY <1>6, FlattenType DEF L

(* A step that leaves a stream alone. *)
LEMMA StreamedKept ==
  ASSUME NEW s \in Socket, Streamed(s), answers'[s] = answers[s], incoming'[s] = incoming[s],
         peerSent'[s] = peerSent[s], state'[s] = "fine" => state[s] = "fine",
         Held(s)' = Held(s)
  PROVE  Streamed(s)'
PROOF
  <1>1. Pieces(s)' = Pieces(s) /\ (Whole(s)' => Whole(s))
    BY DEF Pieces, Whole
  <1> QED
    BY <1>1 DEF Streamed

(* The chunk is empty unless a handler holds it. *)
LEMMA NothingHeld ==
  ASSUME ChunkHeld, NEW o, NEW e, InCallback(o, e), spc = "enter" \/ e # "READ" \/ o \notin Socket
  PROVE  chunk = <<>>
PROOF
  BY OneCallback DEF ChunkHeld, Reads

(* Only one handler holds it. *)
LEMMA HeldByOne ==
  ASSUME NEW s \in Socket, Reads(s)
  PROVE  \A r \in Socket : r # s => Held(r) = <<>>
PROOF
  BY OneCallback DEF Held, Reads

(* The peer sends one more byte. *)
LEMMA StreamedPeer ==
  ASSUME SocketTypeOK, NEW s \in Socket, Streamed(s), PeerSend(s), Held(s)' = Held(s)
  PROVE  Streamed(s)'
PROOF
  <1> DEFINE n == peerSent[s]
             F == FlattenSeq(Pieces(s))
             H == Held(s)
             q == incoming[s]
             Upto(m) == [i \in 1..m |-> i]
  <1>1. SUFFICES ASSUME Whole(s)'
                 PROVE  Streamed(s)'
    BY DEF Streamed
  <1>2. /\ UNCHANGED <<answers, state>>
        /\ peerSent'[s] = n + 1 /\ incoming'[s] = Append(q, n + 1)
    BY DEF PeerSend, SocketTypeOK, socketHistory
  <1>3. Whole(s) /\ Pieces(s)' = Pieces(s)
    BY <1>1, <1>2 DEF Whole, Pieces
  <1>4. F \in Seq(Nat) /\ H \in Seq(Nat) /\ q \in Seq(Nat) /\ n \in Nat
    BY <1>3, PiecesType, ReadTypes, EmptySeq DEF Held, SocketTypeOK
  <1>5. (F \o H) \o q = Upto(n)
    BY <1>3 DEF Streamed
  <1>6. F \o H \in Seq(Nat)
    BY <1>4, ConcatProperties
  <1> DEFINE G == F \o H
  <1> HIDE DEF G, q, n
  <1>7. G \o Append(q, n + 1) = Append(G \o q, n + 1)
    <2>1. G \in Seq(Nat) /\ q \in Seq(Nat) /\ <<n + 1>> \in Seq(Nat) /\ n + 1 \in Nat
      BY <1>4, <1>6, IsASeq DEF G
    <2>2. (G \o q) \o <<n + 1>> = G \o (q \o <<n + 1>>)
      <3> DEFINE Cat(x, y) == x \o y
                 one == <<n + 1>>
      <3>1. \A S : \A x, y, z \in Seq(S) : Cat(Cat(x, y), z) = Cat(x, Cat(y, z))
        BY ConcatAssociative, Zenon
      <3>2. one \in Seq(Nat)
        BY <2>1
      <3> HIDE DEF Cat, one
      <3>3. Cat(Cat(G, q), one) = Cat(G, Cat(q, one))
        BY <2>1, <3>1, <3>2
      <3> QED
        BY <3>3, Zenon DEF Cat, one
    <2>3. q \o <<n + 1>> = Append(q, n + 1)
      BY <2>1, AppendIsConcat
    <2>4. G \o q \in Seq(Nat)
      BY <2>1, ConcatProperties
    <2>5. (G \o q) \o <<n + 1>> = Append(G \o q, n + 1)
      BY <2>1, <2>4, AppendIsConcat
    <2> QED
      BY <2>2, <2>3, <2>5
  <1>8. Append(Upto(n), n + 1) = Upto(n + 1)
    BY <1>4
  <1>9. (F \o H) \o Append(q, n + 1) = Upto(n + 1)
    BY <1>5, <1>7, <1>8 DEF G
  <1> QED
    BY <1>2, <1>3, <1>9 DEF Streamed, q, n

(* The handler takes some bytes from the system. *)
LEMMA StreamedReceive ==
  ASSUME SocketTypeOK, NEW s \in Socket, Streamed(s), Receive(s)
  PROVE  Streamed(s)'
PROOF
  <1> DEFINE F == FlattenSeq(Pieces(s))
             q == incoming[s]
  <1>1. SUFFICES ASSUME Whole(s)'
                 PROVE  Streamed(s)'
    BY DEF Streamed
  <1>2. PICK n \in 1..Len(q) :
          chunk' = chunk \o SubSeq(q, 1, n) /\ incoming' = [incoming EXCEPT ![s] = SubSeq(q, n + 1, Len(q))]
    BY DEF Receive
  <1> DEFINE a == SubSeq(q, 1, n)
             b == SubSeq(q, n + 1, Len(q))
  <1>3. /\ UNCHANGED <<answers, state, peerSent, lpc, calls, spc>> /\ incoming'[s] = b
    BY <1>2 DEF Receive, SocketTypeOK, socketHistory, peerVars, eventLoopVars, loopVars, roundVars
  <1>4. /\ Whole(s) /\ Pieces(s)' = Pieces(s)
        /\ Reads(s) /\ Reads(s)'
    BY <1>1, <1>3 DEF Whole, Pieces, Receive, Reads, InCallback
  <1>5. F \in Seq(Nat) /\ chunk \in Seq(Nat) /\ q \in Seq(Nat) /\ Len(q) \in Nat
    BY <1>4, PiecesType, ReadTypes, LenProperties DEF SocketTypeOK
  <1>6. (F \o chunk) \o q = [i \in 1..peerSent[s] |-> i]
    BY <1>4 DEF Streamed, Held
  <1> HIDE DEF F, q
  <1>7. a \in Seq(Nat) /\ b \in Seq(Nat) /\ a \o b = q
    <2>1. \A i \in 1..Len(q) : q[i] \in Nat
      BY <1>5, ElementOfSeq
    <2>2. /\ 1 \in Int /\ n \in Int /\ n + 1 \in Int /\ Len(q) \in Int
          /\ \A i \in 1..n : q[i] \in Nat
          /\ \A i \in (n + 1)..Len(q) : q[i] \in Nat
      BY <1>5, <2>1
    <2>3. a \in Seq(Nat) /\ b \in Seq(Nat)
      BY <2>2, SubSeqProperties
    <2>4. 1 \in 1..(Len(q) + 1) /\ n \in (1 - 1)..Len(q) /\ Len(q) \in n..Len(q)
      BY <1>5
    <2>5. a \o b = SubSeq(q, 1, Len(q))
      BY <1>5, <2>4, ConcatAdjacentSubSeq
    <2> QED
      BY <1>5, <2>3, <2>5, SubSeqFull
  <1> HIDE DEF a, b
  <1>8. F \o chunk \in Seq(Nat)
    BY <1>5, ConcatProperties
  <1>9. (F \o (chunk \o a)) \o b = (F \o chunk) \o q
    <2> DEFINE Cat(x, y) == x \o y
    <2>1. \A S : \A x, y, z \in Seq(S) : Cat(Cat(x, y), z) = Cat(x, Cat(y, z))
      BY ConcatAssociative, Zenon
    <2>2. Cat(F, chunk) \in Seq(Nat)
      BY <1>8, Zenon
    <2>3. q = Cat(a, b)
      BY <1>7, Zenon
    <2> HIDE DEF Cat
    <2>4. Cat(Cat(F, Cat(chunk, a)), b) = Cat(Cat(F, chunk), q)
      BY <1>5, <1>7, <2>1, <2>2, <2>3
    <2> QED
      BY <2>4, Zenon DEF Cat
  <1>10. Held(s)' = chunk \o a
    BY <1>2, <1>4 DEF Held, a, q
  <1> QED
    BY <1>3, <1>4, <1>6, <1>9, <1>10 DEF Streamed, F

(* A promise is given what the handler holds, or an exception. *)
LEMMA StreamedAnswer ==
  ASSUME SocketTypeOK, ReadsRight, QueuesRight, NEW s \in Socket, Streamed(s),
         ReceiveNothing(s) \/ ReceiveError(s)
  PROVE  Streamed(s)'
PROOF
  <1>1. Reads(s) /\ reads[s] # <<>> /\ asked' = asked
    BY DEF ReceiveNothing, ReceiveError, QueuesRight
  <1>2. chunk' = <<>> /\ Held(s)' = <<>>
    BY DEF ReceiveNothing, ReceiveError, Answer, Held
  <1> DEFINE m == Len(answers[s])
  <1>3. PICK result \in Seq(Nat) \cup {Exception} :
          /\ Answer(s, result)
          /\ \/ ReceiveNothing(s) /\ result = chunk
             \/ ReceiveError(s) /\ result = Exception
    BY DEF ReceiveNothing, ReceiveError, SocketTypeOK
  <1>4. answers'[s] = Append(answers[s], <<m + 1, result>>)
    BY <1>1, <1>3, AnswerGiven
  <1>5. /\ DOMAIN answers'[s] = 1..(m + 1) /\ DOMAIN answers[s] = 1..m /\ m \in Nat
        /\ answers'[s][m + 1] = <<m + 1, result>>
        /\ \A i \in 1..m : answers'[s][i] = answers[s][i]
    <2> DEFINE X == Nat \X (Seq(Nat) \cup {Exception})
    <2>1. answers[s] \in Seq(X) /\ m \in Nat
      BY ReadTypes
    <2>2. <<m + 1, result>> \in X
      BY <2>1
    <2> HIDE DEF X
    <2> QED
      BY <1>4, <2>1, <2>2, AppendProperties, LenProperties
  <1>6. SUFFICES ASSUME Whole(s)'
                 PROVE  Streamed(s)'
    BY DEF Streamed
  <1>7. result # Exception
    <2>1. m + 1 \in DOMAIN answers'[s]
      BY <1>5
    <2> QED
      BY <1>5, <1>6, <2>1 DEF Whole
  <1>8. ReceiveNothing(s) /\ result = chunk
    BY <1>3, <1>7
  <1>9. /\ incoming[s] = <<>> /\ UNCHANGED <<incoming, state, peerSent>>
    BY <1>8 DEF ReceiveNothing, streamVars, peerVars
  <1>10. Whole(s)
    <2>1. \A i \in 1..m : i \in DOMAIN answers'[s]
      BY <1>5
    <2> QED
      BY <1>5, <1>6, <1>9, <2>1 DEF Whole
  <1>11. chunk \in Seq(Nat) /\ Pieces(s) \in Seq(Seq(Nat)) /\ FlattenSeq(Pieces(s)) \in Seq(Nat)
    BY <1>10, PiecesType DEF SocketTypeOK
  <1>12. Pieces(s)' = Append(Pieces(s), chunk)
    <2> DEFINE L == Seq(Nat)
               more == Append(Pieces(s), chunk)
    <2>1. Pieces(s) \in Seq(L) /\ chunk \in L
      BY <1>11
    <2>2. DOMAIN Pieces(s) = 1..m /\ Len(Pieces(s)) = m
      <3>1. DOMAIN Pieces(s) = 1..m
        BY <1>5 DEF Pieces
      <3> QED
        BY <1>5, <2>1, <3>1, LenProperties
    <2> HIDE DEF L
    <2>3. /\ Len(more) = m + 1 /\ more[m + 1] = chunk /\ more \in Seq(L)
          /\ \A i \in 1..m : more[i] = Pieces(s)[i]
      BY <2>1, <2>2, AppendProperties
    <2>4. DOMAIN more = 1..(m + 1) /\ more = [i \in 1..(m + 1) |-> more[i]]
      BY <2>3, LenProperties
    <2> HIDE DEF more, m
    <2>5. ASSUME NEW i \in 1..(m + 1)
          PROVE  more[i] = answers'[s][i][2]
      <3>1. CASE i \in 1..m
        BY <1>5, <2>2, <2>3, <3>1 DEF Pieces
      <3>2. CASE i = m + 1
        BY <1>5, <1>8, <2>3, <3>2
      <3> QED
        BY <1>5, <3>1, <3>2
    <2>6. Pieces(s)' = [i \in 1..(m + 1) |-> answers'[s][i][2]]
      BY <1>5 DEF Pieces
    <2>7. Pieces(s)' = more
      BY <2>4, <2>5, <2>6
    <2> QED
      BY <2>7 DEF more
  <1>13. FlattenSeq(Pieces(s)') = FlattenSeq(Pieces(s)) \o chunk
    BY <1>11, <1>12, FlattenAppend
  <1>14. (FlattenSeq(Pieces(s)) \o chunk) \o <<>> = [i \in 1..peerSent[s] |-> i]
    BY <1>1, <1>9, <1>10 DEF Streamed, Held
  <1>15. ((FlattenSeq(Pieces(s)) \o chunk) \o <<>>) \o <<>> = (FlattenSeq(Pieces(s)) \o chunk) \o <<>>
    <2>1. FlattenSeq(Pieces(s)) \o chunk \in Seq(Nat)
      BY <1>11, ConcatProperties
    <2> QED
      BY <2>1, ConcatEmptySeq
  <1> QED
    BY <1>2, <1>9, <1>13, <1>14, <1>15 DEF Streamed

(* The steps of the sockets. *)
LEMMA StreamCallback ==
  ASSUME SocketTypeOK, PlacesRight, QueuesRight, ReadsRight, SocketCallback,
         \A s \in Socket : Streamed(s), ChunkHeld
  PROVE  (\A s \in Socket : Streamed(s)') /\ ChunkHeld'
PROOF
  <1>1. CASE \E s \in Socket : Receive(s)
    <2>1. PICK s \in Socket : Receive(s)
      BY <1>1
    <2>2. /\ Reads(s) /\ Reads(s)'
          /\ UNCHANGED <<answers, state, peerSent>>
          /\ \A r \in Socket : r # s => incoming'[r] = incoming[r]
      BY <2>1 DEF Receive, Reads, InCallback, peerVars, socketHistory, eventLoopVars, loopVars,
         roundVars, SocketTypeOK
    <2>3. \A r \in Socket : r # s => Held(r)' = Held(r)
      <3>1. \A r \in Socket : r # s => ~Reads(r) /\ ~Reads(r)'
        <4>1. lpc' = lpc /\ calls' = calls
          BY <2>1 DEF Receive, eventLoopVars, loopVars, roundVars
        <4> QED
          BY <2>2, <4>1, OneCallback DEF Reads, InCallback
      <3> QED
        BY <3>1 DEF Held
    <2>4. \A r \in Socket : r # s => Streamed(r)'
      BY <2>2, <2>3, StreamedKept
    <2>5. Streamed(s)'
      BY <2>1, StreamedReceive
    <2> QED
      BY <2>2, <2>4, <2>5 DEF ChunkHeld
  <1>2. CASE \E s \in Socket : ReceiveNothing(s) \/ ReceiveError(s)
    <2>1. PICK s \in Socket : ReceiveNothing(s) \/ ReceiveError(s)
      BY <1>2
    <2>2. /\ Reads(s) /\ reads[s] # <<>> /\ chunk' = <<>>
          /\ UNCHANGED <<incoming, peerSent, asked>>
      BY <2>1 DEF ReceiveNothing, ReceiveError, Answer, QueuesRight, streamVars, peerVars
    <2>3. /\ \A r \in Socket : r # s => answers'[r] = answers[r]
          /\ \A r \in Socket : r # s => state'[r] = state[r]
      BY <2>1 DEF ReceiveNothing, ReceiveError, Answer, streamVars, SocketTypeOK
    <2>4. \A r \in Socket : r # s => Held(r)' = Held(r)
      <3>1. \A r \in Socket : r # s => Held(r) = <<>>
        BY <2>2, HeldByOne
      <3>2. \A r \in Socket : Held(r)' = <<>>
        BY <2>2 DEF Held
      <3> QED
        BY <3>1, <3>2
    <2>5. \A r \in Socket : r # s => Streamed(r)'
      BY <2>2, <2>3, <2>4, StreamedKept
    <2>6. Streamed(s)'
      BY <2>1, StreamedAnswer
    <2> QED
      BY <2>2, <2>5, <2>6 DEF ChunkHeld
  <1>3. ASSUME chunk = <<>>, chunk' = <<>>, UNCHANGED <<answers, incoming, peerSent>>,
               \A s \in Socket : state'[s] = "fine" => state[s] = "fine"
        PROVE  (\A s \in Socket : Streamed(s)') /\ ChunkHeld'
    <2>1. \A s \in Socket : Held(s)' = Held(s)
      BY <1>3 DEF Held
    <2>2. \A s \in Socket : Streamed(s)'
      BY <1>3, <2>1, StreamedKept
    <2> QED
      BY <1>3, <2>2 DEF ChunkHeld
  <1>4. CASE \E s \in Socket : ReadEnterSocket(s)
    <2>1. PICK s \in Socket : ReadEnterSocket(s)
      BY <1>4
    <2>2. chunk = <<>>
      BY <2>1, NothingHeld DEF ReadEnterSocket
    <2> QED
      BY <1>3, <2>1, <2>2 DEF ReadEnterSocket, peerVars, streamVars, socketHistory
  <1>5. CASE \E s \in Socket : WriteEnterSocket(s) \/ Transmit(s) \/ TransmitError(s)
    <2>1. PICK s \in Socket : WriteEnterSocket(s) \/ Transmit(s) \/ TransmitError(s)
      BY <1>5
    <2>2. InCallback(s, "WRITE")
      BY <2>1 DEF WriteEnterSocket, Transmit, TransmitError, Writes
    <2>3. chunk = <<>>
      BY <2>2, NothingHeld
    <2>4. \A r \in Socket : state'[r] = "fine" => state[r] = "fine"
      BY <2>1 DEF WriteEnterSocket, Transmit, TransmitError, SocketTypeOK, streamVars
    <2>5. chunk' = chunk /\ UNCHANGED <<answers, incoming, peerSent>>
      BY <2>1 DEF WriteEnterSocket, Transmit, TransmitError, peerVars, streamVars, socketHistory
    <2> QED
      BY <1>3, <2>3, <2>4, <2>5
  <1>6. CASE \E v \in Server : AcceptEnter(v) \/ Accept(v) \/ AcceptReturn(v) \/ AcceptNobody(v)
    <2>1. PICK v \in Server : AcceptEnter(v) \/ Accept(v) \/ AcceptReturn(v) \/ AcceptNobody(v)
      BY <1>6
    <2>2. InCallback(v, "READ")
      BY <2>1 DEF AcceptEnter, Accept, AcceptReturn, AcceptNobody, Accepts
    <2>3. chunk = <<>>
      BY <2>2, NothingHeld, OsAssumption
    <2>4. chunk' = chunk /\ UNCHANGED <<answers, incoming, peerSent, state>>
      BY <2>1 DEF AcceptEnter, Accept, AcceptReturn, AcceptNobody, peerVars, streamVars, socketHistory
    <2> QED
      BY <1>3, <2>3, <2>4
  <1> QED
    BY <1>1, <1>2, <1>4, <1>5, <1>6 DEF SocketCallback

(* Every step keeps the stream. *)
LEMMA StreamStep ==
  ASSUME SocketTypeOK, PlacesRight, QueuesRight, ReadsRight, StreamKept, OsNext
  PROVE  StreamKept'
PROOF
  <1>1. \A s \in Socket : Streamed(s)
    BY DEF StreamKept, Streamed, Whole, Pieces, Held
  <1>2. ChunkHeld
    BY DEF StreamKept, ChunkHeld
  <1>3. (\A s \in Socket : Streamed(s)') /\ ChunkHeld'
    <2>1. CASE SocketCallback
      BY <1>1, <1>2, <2>1, StreamCallback
    <2>2. CASE ~SocketCallback
      <3>1. \A s \in Socket : Reads(s)' <=> Reads(s)
        BY <2>2, HandlerKept
      <3>2. chunk' = chunk
        BY <2>2, NoSocketStep DEF socketVars, handlerVars, Request, ReceiveAsync, SendAsync,
              AcceptAsync, Peer, PeerSend, PeerReads, PeerEnds, PeerConnects
      <3>3. \A s \in Socket : Held(s)' = Held(s)
        BY <3>1, <3>2 DEF Held
      <3>4. ChunkHeld'
        BY <1>2, <3>1, <3>2 DEF ChunkHeld
      <3>5. ASSUME NEW s \in Socket
            PROVE  Streamed(s)'
        <4>1. CASE UNCHANGED socketVars \/ Request
          <5>1. UNCHANGED <<answers, incoming, peerSent, state>>
            BY <4>1 DEF socketVars, peerVars, streamVars, socketHistory, Request, ReceiveAsync,
               SendAsync, AcceptAsync
          <5> QED
            BY <1>1, <3>3, <5>1, StreamedKept
        <4>2. CASE Peer /\ ~PeerSend(s)
          <5>1. UNCHANGED answers /\ peerSent'[s] = peerSent[s]
            BY <4>2 DEF Peer, PeerSend, PeerReads, PeerEnds, PeerConnects, socketHistory, peerVars,
               SocketTypeOK
          <5>2. /\ state'[s] = "fine" => state[s] = "fine"
                /\ incoming'[s] = incoming[s] \/ state'[s] # "fine"
            BY <4>2 DEF Peer, PeerSend, PeerReads, PeerEnds, PeerConnects, streamVars, SocketTypeOK
          <5>3. CASE state'[s] # "fine"
            BY <5>3 DEF Streamed, Whole
          <5>4. CASE state'[s] = "fine"
            BY <1>1, <3>3, <5>1, <5>2, <5>4, StreamedKept
          <5> QED
            BY <5>3, <5>4
        <4>3. CASE PeerSend(s)
          BY <1>1, <3>3, <4>3, StreamedPeer
        <4> QED
          BY <2>2, <4>1, <4>2, <4>3, NoSocketStep
      <3> QED
        BY <3>4, <3>5
    <2> QED
      BY <2>1, <2>2
  <1>4. ReadsRight'
    BY ReadsRightStep
  <1>5. \A s \in Socket : \A i \in DOMAIN answers'[s] : answers'[s][i][1] = i
    BY <1>4 DEF ReadsRight, Requested
  <1> QED
    BY <1>3, <1>5 DEF StreamKept, Streamed, ChunkHeld, Whole, Pieces, Held

(* Initially nothing has been received. *)
LEMMA StreamInit ==
  ASSUME SocketInit
  PROVE  QueuesRight /\ ReadsRight /\ StreamKept
PROOF
  <1>1. /\ Len(<<>>) = 0 /\ DOMAIN <<>> = {}
    BY EmptySeq
  <1>2. QueuesRight
    BY DEF SocketInit, QueuesRight, Reads, Writes, Accepts
  <1>3. ReadsRight
    BY <1>1 DEF SocketInit, ReadsRight, Requested
  <1>4. ASSUME NEW s \in Socket
        PROVE  Streamed(s)
    <2>1. Pieces(s) = <<>>
      <3>1. answers[s] = <<>>
        BY DEF SocketInit
      <3>2. Pieces(s) = [i \in {} |-> answers[s][i][2]]
        BY <1>1, <3>1 DEF Pieces
      <3> QED
        BY <3>2
    <2>2. FlattenSeq(<<>>) = <<>>
      <3>1. <<>> \in Seq(Seq(Nat))
        BY EmptySeq
      <3>2. PICK after : FlattenSeq(<<>>) = after[Len(<<>>)] /\ after[0] = <<>>
        BY <3>1, FlattenSteps
      <3> QED
        BY <1>1, <3>2
    <2>3. Held(s) = <<>> /\ incoming[s] = <<>> /\ peerSent[s] = 0
      BY DEF SocketInit, Held, Reads
    <2>4. (<<>> \o <<>>) \o <<>> = <<>>
      <3>1. <<>> \in Seq(Nat)
        BY EmptySeq
      <3> QED
        BY <3>1, ConcatEmptySeq
    <2>5. [i \in 1..0 |-> i] = <<>>
      OBVIOUS
    <2> QED
      BY <2>1, <2>2, <2>3, <2>4, <2>5 DEF Streamed
  <1>5. ChunkHeld /\ \A s \in Socket : \A i \in DOMAIN answers[s] : answers[s][i][1] = i
    BY <1>1 DEF SocketInit, ChunkHeld
  <1> QED
    BY <1>2, <1>3, <1>4, <1>5, StreamSays

------------------------------------------------------------------------------
(* The chunks that are sent. *)

(* The byte before the second of a pair. *)
LEMMA ByteBefore ==
  ASSUME NEW a \in Nat, NEW b \in Nat
  PROVE  [<<a, b>> EXCEPT ![2] = @ - 1] = <<a, b - 1>>
PROOF
  OBVIOUS

(* More bytes of the chunk that is being sent keep the order, leave no gap and
   end where they should. *)
LEMMA BytesAppended ==
  ASSUME NEW q \in Seq(Nat \X Nat), NEW N \in Nat, NEW c \in Nat, NEW n \in Nat,
         InOrder(q), NoGaps(q), EndsAt(q, N, c)
  PROVE  LET r == q \o [i \in 1..n |-> <<N + 1, c + i>>]
         IN  InOrder(r) /\ NoGaps(r) /\ EndsAt(r, N, c + n)
PROOF
  <1> DEFINE new == [i \in 1..n |-> <<N + 1, c + i>>]
             X == Nat \X Nat
             r == q \o new
             m == Len(q)
  <1>1. new \in Seq(X) /\ Len(new) = n
    <2>1. \A i \in 1..n : <<N + 1, c + i>> \in X
      OBVIOUS
    <2> HIDE DEF X
    <2>2. new \in [1..n -> X]
      BY <2>1
    <2> HIDE DEF new
    <2>3. new \in Seq(X)
      BY <2>2, SeqDef
    <2>4. DOMAIN new = 1..n
      BY <2>2
    <2> QED
      BY <2>3, <2>4, LenProperties
  <1>2. q \in Seq(X) /\ m \in Nat /\ DOMAIN q = 1..m /\ \A i \in 1..m : q[i] \in X
    BY LenProperties, ElementOfSeq
  <1>3. \A i \in 1..n : new[i] = <<N + 1, c + i>>
    OBVIOUS
  <1> HIDE DEF X, new
  <1>4. /\ r \in Seq(X) /\ Len(r) = m + n
        /\ \A i \in 1..(m + n) : r[i] = IF i <= m THEN q[i] ELSE new[i - m]
    BY <1>1, <1>2, ConcatProperties
  <1>5. DOMAIN r = 1..(m + n)
    BY <1>4, LenProperties
  <1> HIDE DEF r, m
  <1>6. \A i \in 1..(m + n) :
          \/ i \in 1..m /\ r[i] = q[i]
          \/ i - m \in 1..n /\ ~(i \in 1..m) /\ r[i] = <<N + 1, c + (i - m)>>
    <2>1. SUFFICES ASSUME NEW i \in 1..(m + n), ~(i \in 1..m)
                   PROVE  i - m \in 1..n /\ r[i] = <<N + 1, c + (i - m)>>
      <3>1. \A i \in 1..m : i \in 1..(m + n) /\ i <= m
        BY <1>2
      <3> QED
        BY <1>4, <3>1
    <2>2. i - m \in 1..n /\ ~(i <= m)
      BY <1>2, <2>1
    <2>3. r[i] = new[i - m]
      BY <1>4, <2>2
    <2> QED
      BY <1>3, <2>2, <2>3
  <1>7. \A i \in 1..m : /\ q[i][1] \in Nat /\ q[i][2] \in Nat
                        /\ q[i] = <<q[i][1], q[i][2]>>
    BY <1>2 DEF X
  <1>8. /\ \A i \in 1..m : q[i][1] <= N \/ (q[i][1] = N + 1 /\ q[i][2] <= c)
        /\ c # 0 => q # <<>> /\ Last(q) = <<N + 1, c>>
    BY <1>2 DEF EndsAt
  <1>9. InOrder(r)
    <2>1. SUFFICES ASSUME NEW i \in 1..(m + n), NEW j \in 1..(m + n), i < j
                   PROVE  \/ r[i][1] < r[j][1]
                          \/ r[i][1] = r[j][1] /\ r[i][2] < r[j][2]
      BY <1>5 DEF InOrder
    <2>2. CASE j \in 1..m
      <3>1. i \in 1..m
        BY <1>2, <2>1, <2>2
      <3>2. r[i] = q[i] /\ r[j] = q[j]
        BY <1>6, <2>2, <3>1
      <3>3. i \in DOMAIN q /\ j \in DOMAIN q
        BY <1>2, <2>2, <3>1
      <3>4. \/ q[i][1] < q[j][1]
            \/ q[i][1] = q[j][1] /\ q[i][2] < q[j][2]
        BY <1>2, <2>1, <3>3, Zenon DEF InOrder
      <3> QED
        BY <3>2, <3>4, Zenon
    <2>3. CASE i \in 1..m /\ ~(j \in 1..m)
      <3>1. r[i] = q[i] /\ r[j] = <<N + 1, c + (j - m)>> /\ j - m \in 1..n
        BY <1>6, <2>3
      <3>2. r[j][1] = N + 1 /\ r[j][2] = c + (j - m)
        BY <3>1
      <3>3. q[i][1] <= N \/ (q[i][1] = N + 1 /\ q[i][2] <= c)
        BY <1>8, <2>3
      <3>4. q[i][1] \in Nat /\ q[i][2] \in Nat
        BY <1>7, <2>3
      <3> DEFINE a == q[i][1]
                 b == q[i][2]
                 d == j - m
      <3>5. /\ a \in Nat /\ b \in Nat /\ d \in 1..n
            /\ a <= N \/ (a = N + 1 /\ b <= c)
        BY <3>1, <3>3, <3>4
      <3> HIDE DEF a, b, d
      <3>6. a < N + 1 \/ (a = N + 1 /\ b < c + d)
        BY <3>5
      <3> QED
        BY <3>1, <3>2, <3>6 DEF a, b, d
    <2>4. CASE ~(i \in 1..m) /\ ~(j \in 1..m)
      <3>1. r[i] = <<N + 1, c + (i - m)>> /\ r[j] = <<N + 1, c + (j - m)>>
        BY <1>6, <2>4
      <3>2. c + (i - m) < c + (j - m)
        BY <1>2, <2>1
      <3> QED
        BY <3>1, <3>2
    <2> QED
      BY <1>2, <2>1, <2>2, <2>3, <2>4
  <1>10. NoGaps(r)
    <2>1. SUFFICES ASSUME NEW i \in 1..(m + n), r[i][2] > 1
                   PROVE  i > 1 /\ r[i - 1] = [r[i] EXCEPT ![2] = @ - 1]
      BY <1>5 DEF NoGaps
    <2>2. CASE i \in 1..m
      <3>1. r[i] = q[i]
        BY <1>6, <2>2
      <3>2. i > 1 /\ q[i - 1] = [q[i] EXCEPT ![2] = @ - 1]
        BY <1>2, <2>1, <2>2, <3>1 DEF NoGaps
      <3>3. i - 1 \in 1..m /\ i - 1 \in 1..(m + n)
        BY <1>2, <2>2, <3>2
      <3>4. r[i - 1] = q[i - 1]
        BY <1>6, <3>3
      <3> QED
        BY <3>1, <3>2, <3>4
    <2>3. CASE ~(i \in 1..m) /\ i = m + 1
      <3>1. r[i] = <<N + 1, c + 1>> /\ c > 0
        <4>1. r[i] = <<N + 1, c + (i - m)>> /\ i - m = 1
          BY <1>2, <1>6, <2>3
        <4> QED
          BY <2>1, <4>1
      <3>2. q # <<>> /\ Last(q) = <<N + 1, c>>
        BY <1>8, <3>1
      <3>3. m # 0 /\ m \in 1..m
        BY <1>2, <3>2, EmptySeq DEF m
      <3>4. q[m] = <<N + 1, c>>
        BY <3>2 DEF Last, m
      <3>5. i > 1 /\ i - 1 = m /\ m \in 1..(m + n)
        BY <1>2, <2>3, <3>3
      <3>6. r[i - 1] = <<N + 1, c>>
        BY <1>6, <3>3, <3>4, <3>5
      <3>7. [<<N + 1, c + 1>> EXCEPT ![2] = @ - 1] = <<N + 1, c>>
        BY ByteBefore
      <3> QED
        BY <3>1, <3>5, <3>6, <3>7
    <2>4. CASE ~(i \in 1..m) /\ i # m + 1
      <3>1. /\ i > 1 /\ i - 1 \in 1..(m + n) /\ ~(i - 1 \in 1..m)
        BY <1>2, <2>4
      <3>2. r[i] = <<N + 1, c + (i - m)>> /\ r[i - 1] = <<N + 1, c + ((i - 1) - m)>>
            /\ i - m \in 1..n
        BY <1>6, <2>4, <3>1
      <3>3. [<<N + 1, c + (i - m)>> EXCEPT ![2] = @ - 1] = <<N + 1, (c + (i - m)) - 1>>
        <4>1. N + 1 \in Nat /\ c + (i - m) \in Nat
          BY <3>2
        <4> QED
          BY <4>1, ByteBefore
      <3>4. (c + (i - m)) - 1 = c + ((i - 1) - m)
        BY <1>2
      <3> QED
        BY <3>1, <3>2, <3>3, <3>4
    <2> QED
      BY <2>2, <2>3, <2>4
  <1>11. EndsAt(r, N, c + n)
    <2>1. ASSUME NEW i \in 1..(m + n)
          PROVE  r[i][1] <= N \/ (r[i][1] = N + 1 /\ r[i][2] <= c + n)
      <3>1. CASE i \in 1..m /\ r[i] = q[i]
        BY <1>7, <1>8, <3>1
      <3>2. CASE i - m \in 1..n /\ r[i] = <<N + 1, c + (i - m)>>
        <4>1. c + (i - m) <= c + n
          BY <1>2, <3>2
        <4> QED
          BY <3>2, <4>1
      <3> QED
        BY <1>6, <3>1, <3>2
    <2>2. ASSUME c + n # 0
          PROVE  r # <<>> /\ Last(r) = <<N + 1, c + n>>
      <3>1. CASE n # 0
        <4>1. m + n \in 1..(m + n) /\ ~(m + n \in 1..m) /\ (m + n) - m = n /\ m + n # 0
          BY <1>2, <3>1
        <4>2. r[m + n] = <<N + 1, c + n>>
          BY <1>6, <4>1
        <4> QED
          BY <1>4, <4>1, <4>2, EmptySeq DEF Last
      <3>2. CASE n = 0
        <4>1. q # <<>> /\ Last(q) = <<N + 1, c>>
          BY <1>8, <2>2, <3>2
        <4>2. m # 0 /\ m + n = m /\ m \in 1..(m + n) /\ m \in 1..m
          BY <1>2, <3>2, <4>1, EmptySeq DEF m
        <4>3. r[m] = q[m]
          BY <1>6, <4>2
        <4>4. q[m] = <<N + 1, c>> /\ c + n = c
          BY <3>2, <4>1 DEF Last, m
        <4> QED
          BY <1>4, <4>2, <4>3, <4>4, EmptySeq DEF Last
      <3> QED
        BY <3>1, <3>2
    <2> QED
      BY <1>5, <2>1, <2>2 DEF EndsAt
  <1> QED
    BY <1>9, <1>10, <1>11 DEF r, new

(* The chunk that is being sent is over: the next one has not begun. *)
LEMMA ChunkOver ==
  ASSUME NEW q \in Seq(Nat \X Nat), NEW N \in Nat, NEW c \in Nat, EndsAt(q, N, c)
  PROVE  EndsAt(q, N + 1, 0)
PROOF
  <1>1. \A i \in DOMAIN q : q[i][1] \in Nat
    <2>1. \A i \in DOMAIN q : q[i] \in Nat \X Nat
      BY LenProperties, ElementOfSeq
    <2> QED
      BY <2>1
  <1>2. \A i \in DOMAIN q : q[i][1] <= N \/ q[i][1] = N + 1
    BY DEF EndsAt
  <1>3. ASSUME NEW i \in DOMAIN q
        PROVE  q[i][1] <= N + 1
    <2> DEFINE a == q[i][1]
    <2>1. a \in Nat /\ (a <= N \/ a = N + 1)
      BY <1>1, <1>2
    <2> HIDE DEF a
    <2>2. a <= N + 1
      BY <2>1
    <2> QED
      BY <2>2 DEF a
  <1> QED
    BY <1>3 DEF EndsAt

(* The types that matter here. *)
LEMMA SendTypes ==
  ASSUME SocketTypeOK, NEW s \in Socket
  PROVE  /\ sends[s] \in Seq([id : Nat, size : ChunkSizes])
         /\ done[s] \in Seq(Nat \X {"sent", "error"})
         /\ sentBytes[s] \in Seq(Nat \X Nat)
         /\ Len(done[s]) \in Nat /\ Len(sends[s]) \in Nat
         /\ offered[s] \in Nat /\ sentSize \in Nat
PROOF
  <1> DEFINE X == [id : Nat, size : ChunkSizes]
             Y == Nat \X {"sent", "error"}
             Z == Nat \X Nat
  <1>1. /\ sends \in [Socket -> Seq(X)] /\ done \in [Socket -> Seq(Y)]
        /\ sentBytes \in [Socket -> Seq(Z)]
        /\ offered \in [Socket -> 0..MaxRequests] /\ sentSize \in Nat
    BY DEF SocketTypeOK
  <1> HIDE DEF X, Y, Z
  <1>2. /\ sends[s] \in Seq(X) /\ done[s] \in Seq(Y) /\ sentBytes[s] \in Seq(Z)
        /\ offered[s] \in 0..MaxRequests
    BY <1>1
  <1>3. offered[s] \in Nat
    BY <1>2, SocketAssumption
  <1> QED
    BY <1>1, <1>2, <1>3, LenProperties DEF X, Y, Z

(* The chunk at the head of the queue is the one after those that are done. *)
LEMMA FirstChunk ==
  ASSUME SocketTypeOK, NEW s \in Socket, Offered(s), sends[s] # <<>>
  PROVE  Head(sends[s]).id = Len(done[s]) + 1 /\ Head(sends[s]).size \in Nat
PROOF
  <1> DEFINE X == [id : Nat, size : ChunkSizes]
             q == sends[s]
             n == Len(done[s])
  <1>1. q \in Seq(X) /\ q # <<>> /\ n \in Nat
    BY SendTypes
  <1>2. \A i \in DOMAIN q : q[i].id = n + i
    BY DEF Offered
  <1>3. \A x \in X : x.size \in Nat
    BY SocketAssumption
  <1> HIDE DEF X, q, n
  <1>4. Head(q) = q[1] /\ DOMAIN q = 1..Len(q) /\ Len(q) \in Nat /\ Len(q) # 0
        /\ Head(q) \in X
    BY <1>1, LenProperties, EmptySeq, HeadTailProperties
  <1>5. 1 \in DOMAIN q
    BY <1>4
  <1>6. Head(q).id = n + 1 /\ Head(q).size \in Nat
    BY <1>2, <1>3, <1>4, <1>5
  <1> QED
    BY <1>6 DEF q, n

(* The chunk at the head of the queue is done with. *)
LEMMA ChunkDone ==
  ASSUME SocketTypeOK, NEW s \in Socket, Offered(s), sends[s] # <<>>,
         NEW result \in {"sent", "error"}, Acknowledge(s, result), offered' = offered
  PROVE  /\ Offered(s)' /\ Len(done'[s]) = Len(done[s]) + 1
         /\ \A r \in Socket : r # s => done'[r] = done[r] /\ sends'[r] = sends[r]
PROOF
  <1> DEFINE n == Len(done[s])
             p == Len(sends[s])
             X == [id : Nat, size : ChunkSizes]
             Y == Nat \X {"sent", "error"}
             a == <<n + 1, result>>
  <1>1. /\ sends[s] \in Seq(X) /\ done[s] \in Seq(Y) /\ n \in Nat /\ p \in Nat
    BY SendTypes
  <1>2. /\ offered[s] = n + p
        /\ \A i \in DOMAIN sends[s] : sends[s][i].id = n + i
        /\ \A i \in DOMAIN done[s] : done[s][i][1] = i
    BY DEF Offered
  <1>3. Head(sends[s]).id = n + 1
    BY FirstChunk
  <1>4. a \in Y /\ a[1] = n + 1
    BY <1>1
  <1>5. /\ done' = [done EXCEPT ![s] = Append(@, a)]
        /\ sends' = [sends EXCEPT ![s] = Tail(@)]
    BY <1>3 DEF Acknowledge
  <1>6. /\ done'[s] = Append(done[s], a) /\ sends'[s] = Tail(sends[s])
        /\ \A r \in Socket : r # s => done'[r] = done[r] /\ sends'[r] = sends[r]
    BY <1>5 DEF SocketTypeOK
  <1> HIDE DEF X, Y, a, n, p
  <1>7. /\ Len(done'[s]) = n + 1
        /\ DOMAIN done'[s] = 1..(n + 1) /\ DOMAIN done[s] = 1..n
        /\ done'[s][n + 1] = a
        /\ \A i \in 1..n : done'[s][i] = done[s][i]
    BY <1>1, <1>4, <1>6, LenProperties, AppendProperties DEF n
  <1>8. \A i \in DOMAIN done'[s] : done'[s][i][1] = i
    <2>1. \A i \in 1..(n + 1) : i \in 1..n \/ i = n + 1
      BY <1>1
    <2> QED
      BY <1>2, <1>4, <1>7, <2>1
  <1>9. /\ Len(sends'[s]) = p - 1
        /\ \A i \in DOMAIN sends'[s] : i + 1 \in DOMAIN sends[s] /\ i \in Nat
                                       /\ sends'[s][i] = sends[s][i + 1]
    <2> DEFINE q == sends[s]
    <2>1. q \in Seq(X) /\ q # <<>>
      BY <1>1
    <2> HIDE DEF q
    <2>2. /\ Tail(q) \in Seq(X) /\ Len(Tail(q)) = Len(q) - 1 /\ Len(q) \in Nat
          /\ \A i \in 1..Len(Tail(q)) : Tail(q)[i] = q[i + 1]
          /\ DOMAIN q = 1..Len(q) /\ DOMAIN Tail(q) = 1..Len(Tail(q))
      BY <2>1, HeadTailProperties, LenProperties
    <2>3. \A i \in DOMAIN Tail(q) : i + 1 \in DOMAIN q /\ i \in Nat /\ Tail(q)[i] = q[i + 1]
      BY <2>2
    <2> QED
      BY <1>6, <2>2, <2>3 DEF q, p
  <1>10. \A i \in DOMAIN sends'[s] : sends'[s][i].id = Len(done'[s]) + i
    <2>1. ASSUME NEW i \in DOMAIN sends'[s]
          PROVE  sends'[s][i].id = (n + 1) + i
      <3>1. i + 1 \in DOMAIN sends[s] /\ i \in Nat /\ sends'[s][i] = sends[s][i + 1]
        BY <1>9
      <3>2. sends'[s][i].id = n + (i + 1)
        BY <1>2, <3>1
      <3> QED
        BY <1>1, <3>1, <3>2
    <2> QED
      BY <1>7, <2>1
  <1>11. offered'[s] = Len(done'[s]) + Len(sends'[s])
    BY <1>1, <1>2, <1>7, <1>9
  <1> QED
    BY <1>6, <1>7, <1>8, <1>10, <1>11 DEF Offered, n

(* A socket that no chunk of is offered, sent or done with. *)
LEMMA SendingKept ==
  ASSUME NEW s \in Socket, Offered(s), Sending(s), SizeOf(s)' = SizeOf(s),
         done'[s] = done[s], sends'[s] = sends[s], offered'[s] = offered[s],
         sentBytes'[s] = sentBytes[s],
         Writes(s)' => sentSize' <= Head(sends'[s]).size
  PROVE  Offered(s)' /\ Sending(s)'
PROOF
  <1>1. Offered(s)'
    BY DEF Offered
  <1>2. InOrder(sentBytes'[s]) /\ NoGaps(sentBytes'[s])
    BY DEF Sending
  <1>3. EndsAt(sentBytes'[s], Len(done'[s]), SizeOf(s)')
    BY DEF Sending
  <1> QED
    BY <1>1, <1>2, <1>3 DEF Sending

(* The size of the first chunk is a number. *)
LEMMA ChunkSize ==
  ASSUME NEW q \in Seq([id : Nat, size : ChunkSizes]), q # <<>>
  PROVE  Head(q).size \in Nat
PROOF
  <1> DEFINE X == [id : Nat, size : ChunkSizes]
  <1>1. q \in Seq(X) /\ \A x \in X : x.size \in Nat
    BY SocketAssumption
  <1> HIDE DEF X
  <1>2. Head(q) \in X
    BY <1>1, HeadTailProperties
  <1> QED
    BY <1>1, <1>2

(* Between two chunks no handler has sent too much. *)
LEMMA BetweenChunks ==
  ASSUME SocketTypeOK', QueuesRight', sentSize' = 0, NEW s \in Socket
  PROVE  SizeOf(s)' = 0 /\ (Writes(s)' => sentSize' <= Head(sends'[s]).size)
PROOF
  <1>1. SizeOf(s)' = 0
    BY DEF SizeOf
  <1>2. ASSUME Writes(s)'
        PROVE  Head(sends'[s]).size \in Nat
    <2> DEFINE X == [id : Nat, size : ChunkSizes]
    <2>1. sends' \in [Socket -> Seq(X)]
      BY DEF SocketTypeOK
    <2> HIDE DEF X
    <2>2. sends'[s] \in Seq(X) /\ sends'[s] # <<>>
      BY <1>2, <2>1 DEF QueuesRight
    <2> QED
      BY <2>2, ChunkSize DEF X
  <1> QED
    BY <1>1, <1>2

(* A chunk is being sent only by the handler that writes. *)
LEMMA NothingSent ==
  ASSUME SocketTypeOK, SendsRight, \/ \E o \in Socket \cup Server : InCallback(o, "READ")
                     \/ spc = "enter"
  PROVE  sentSize = 0 /\ \A s \in Socket : SizeOf(s) = 0
PROOF
  <1>1. \A s \in Socket : ~Writes(s)
    BY OneCallback DEF Writes
  <1>2. sentSize = 0
    BY <1>1 DEF SendsRight
  <1> QED
    BY <1>1, <1>2 DEF SizeOf

(* Some bytes of the chunk at the head of the queue are sent. *)
LEMMA SendingTransmit ==
  ASSUME SocketTypeOK, QueuesRight, SendsRight, SocketTypeOK', QueuesRight',
         NEW s \in Socket, Transmit(s)
  PROVE  /\ Offered(s)' /\ Sending(s)'
         /\ sentSize' = 0 \/ (Writes(s)' /\ UNCHANGED <<done, sends, lpc, calls, spc>>)
         /\ \A r \in Socket : r # s => done'[r] = done[r] /\ sends'[r] = sends[r]
         /\ \A r \in Socket : r # s => sentBytes'[r] = sentBytes[r]
PROOF
  <1> DEFINE first == Head(sends[s])
             rest == first.size - sentSize
             q == sentBytes[s]
             N == Len(done[s])
             c == sentSize
  <1>1. Writes(s) /\ sends[s] # <<>> /\ offered' = offered
    BY DEF Transmit, QueuesRight
  <1>2. Offered(s) /\ Sending(s) /\ SizeOf(s) = c
    BY <1>1 DEF SendsRight, SizeOf
  <1>3. first.id = N + 1 /\ first.size \in Nat
    BY <1>1, <1>2, FirstChunk
  <1>4. PICK n \in 0..rest :
          /\ sentBytes' = [sentBytes EXCEPT ![s] = @ \o [i \in 1..n |-> <<first.id, c + i>>]]
          /\ \/ n = rest /\ Acknowledge(s, "sent")
             \/ n # rest /\ sentSize' = c + n
                /\ UNCHANGED <<eventLoopVars, sends, spc, done>>
    BY DEF Transmit
  <1> DEFINE r == q \o [i \in 1..n |-> <<N + 1, c + i>>]
  <1>5. /\ q \in Seq(Nat \X Nat) /\ N \in Nat /\ c \in Nat
        /\ c <= first.size
    BY <1>1, <1>2, SendTypes DEF Sending
  <1>6. n \in Nat /\ c + n \in Nat /\ c + n <= first.size
    <2> DEFINE z == first.size
    <2>1. z \in Nat /\ c \in Nat /\ c <= z /\ n \in 0..(z - c)
      BY <1>3, <1>5
    <2> HIDE DEF z, c
    <2>2. n \in Nat /\ c + n \in Nat /\ c + n <= z
      BY <2>1
    <2> QED
      BY <2>2 DEF z
  <1>7. InOrder(r) /\ NoGaps(r) /\ EndsAt(r, N, c + n)
    <2>1. InOrder(q) /\ NoGaps(q) /\ EndsAt(q, N, c)
      BY <1>2 DEF Sending
    <2> HIDE DEF q, N, c
    <2> QED
      BY <1>5, <1>6, <2>1, BytesAppended
  <1>8. /\ sentBytes'[s] = r
        /\ \A u \in Socket : u # s => sentBytes'[u] = sentBytes[u]
    BY <1>3, <1>4 DEF SocketTypeOK
  <1> HIDE DEF r
  <1>9. CASE Acknowledge(s, "sent")
    <2>1. /\ Offered(s)' /\ Len(done'[s]) = N + 1
          /\ \A u \in Socket : u # s => done'[u] = done[u] /\ sends'[u] = sends[u]
      BY <1>1, <1>2, <1>9, ChunkDone
    <2>2. sentSize' = 0
      BY <1>9 DEF Acknowledge
    <2>3. SizeOf(s)' = 0 /\ (Writes(s)' => sentSize' <= Head(sends'[s]).size)
      BY <2>2, BetweenChunks
    <2>4. EndsAt(r, N + 1, 0)
      <3>1. r \in Seq(Nat \X Nat)
        <4>1. sentBytes' \in [Socket -> Seq(Nat \X Nat)]
          BY DEF SocketTypeOK
        <4> QED
          BY <1>8, <4>1
      <3> HIDE DEF N, c
      <3> QED
        BY <1>5, <1>6, <1>7, <3>1, ChunkOver
    <2>5. Sending(s)'
      BY <1>7, <1>8, <2>1, <2>3, <2>4 DEF Sending
    <2> QED
      BY <1>8, <2>1, <2>2, <2>5
  <1>10. CASE sentSize' = c + n /\ UNCHANGED <<eventLoopVars, sends, spc, done>>
    <2>1. UNCHANGED <<lpc, calls, spc, done, sends>> /\ Writes(s)'
      BY <1>1, <1>10 DEF eventLoopVars, loopVars, roundVars, Writes, InCallback
    <2>2. Offered(s)'
      BY <1>1, <1>2, <2>1 DEF Offered
    <2>3. SizeOf(s)' = c + n
      BY <1>10, <2>1 DEF SizeOf
    <2>4. sentSize' <= Head(sends'[s]).size
      BY <1>6, <1>10, <2>1
    <2>5. Sending(s)'
      BY <1>7, <1>8, <2>1, <2>3, <2>4 DEF Sending
    <2> QED
      BY <1>8, <2>1, <2>2, <2>5
  <1> QED
    BY <1>4, <1>9, <1>10

(* The chunk that is being sent is given up. *)
LEMMA SendingError ==
  ASSUME SocketTypeOK, QueuesRight, SendsRight, SocketTypeOK', QueuesRight',
         NEW s \in Socket, TransmitError(s)
  PROVE  /\ Offered(s)' /\ Sending(s)' /\ sentSize' = 0
         /\ \A r \in Socket : r # s => done'[r] = done[r] /\ sends'[r] = sends[r]
PROOF
  <1>1. /\ Writes(s) /\ sends[s] # <<>> /\ offered' = offered
        /\ sentBytes' = sentBytes /\ sentSize' = 0
        /\ Acknowledge(s, "error")
    BY DEF TransmitError, QueuesRight, Acknowledge
  <1>2. Offered(s) /\ Sending(s)
    BY DEF SendsRight
  <1>3. /\ Offered(s)' /\ Len(done'[s]) = Len(done[s]) + 1
        /\ \A r \in Socket : r # s => done'[r] = done[r] /\ sends'[r] = sends[r]
    BY <1>1, <1>2, ChunkDone
  <1>4. SizeOf(s)' = 0 /\ (Writes(s)' => sentSize' <= Head(sends'[s]).size)
    BY <1>1, BetweenChunks
  <1>5. EndsAt(sentBytes[s], Len(done[s]) + 1, 0)
    <2>1. /\ sentBytes[s] \in Seq(Nat \X Nat) /\ Len(done[s]) \in Nat /\ SizeOf(s) \in Nat
      BY SendTypes DEF SizeOf
    <2> QED
      BY <1>2, <2>1, ChunkOver DEF Sending
  <1>6. Sending(s)'
    BY <1>1, <1>2, <1>3, <1>4, <1>5 DEF Sending
  <1> QED
    BY <1>1, <1>3, <1>6

(* The steps of the sockets. *)
LEMMA SendsCallback ==
  ASSUME SocketTypeOK, PlacesRight, QueuesRight, SendsRight, SocketTypeOK', QueuesRight',
         SocketCallback
  PROVE  SendsRight'
PROOF
  <1>1. ASSUME sentSize = 0, sentSize' = 0, \A s \in Socket : SizeOf(s) = 0,
               UNCHANGED <<sends, done, sentBytes, offered>>
        PROVE  SendsRight'
    <2>1. ASSUME NEW s \in Socket
          PROVE  Offered(s)' /\ Sending(s)'
      <3>1. SizeOf(s)' = 0 /\ (Writes(s)' => sentSize' <= Head(sends'[s]).size)
        BY <1>1, BetweenChunks
      <3>2. Offered(s) /\ Sending(s) /\ SizeOf(s) = 0
        BY <1>1 DEF SendsRight
      <3> QED
        BY <1>1, <3>1, <3>2, SendingKept
    <2> QED
      BY <1>1, <2>1 DEF SendsRight
  <1>2. CASE \E s \in Socket :
          \/ ReadEnterSocket(s) \/ Receive(s) \/ ReceiveNothing(s) \/ ReceiveError(s)
          \/ WriteEnterSocket(s)
    <2>1. PICK s \in Socket :
            \/ ReadEnterSocket(s) \/ Receive(s) \/ ReceiveNothing(s) \/ ReceiveError(s)
            \/ WriteEnterSocket(s)
      BY <1>2
    <2>2. InCallback(s, "READ") \/ spc = "enter"
      BY <2>1 DEF ReadEnterSocket, Receive, ReceiveNothing, ReceiveError, WriteEnterSocket, Reads
    <2>3. sentSize = 0 /\ \A r \in Socket : SizeOf(r) = 0
      BY <2>2, NothingSent
    <2>4. UNCHANGED <<sentSize, sends, done, sentBytes, offered>>
      BY <2>1 DEF ReadEnterSocket, Receive, ReceiveNothing, ReceiveError, WriteEnterSocket,
         requestVars, socketHistory
    <2> QED
      BY <1>1, <2>3, <2>4
  <1>3. CASE \E v \in Server : AcceptEnter(v) \/ Accept(v) \/ AcceptReturn(v) \/ AcceptNobody(v)
    <2>1. PICK v \in Server : AcceptEnter(v) \/ Accept(v) \/ AcceptReturn(v) \/ AcceptNobody(v)
      BY <1>3
    <2>2. InCallback(v, "READ")
      BY <2>1 DEF AcceptEnter, Accept, AcceptReturn, AcceptNobody, Accepts
    <2>3. sentSize = 0 /\ \A r \in Socket : SizeOf(r) = 0
      BY <2>2, NothingSent
    <2>4. UNCHANGED <<sentSize, sends, done, sentBytes, offered>>
      BY <2>1 DEF AcceptEnter, Accept, AcceptReturn, AcceptNobody, requestVars, socketHistory
    <2> QED
      BY <1>1, <2>3, <2>4
  <1>4. ASSUME NEW s \in Socket, Writes(s), UNCHANGED offered,
               Offered(s)' /\ Sending(s)',
               sentSize' = 0 \/ (Writes(s)' /\ UNCHANGED <<done, sends, lpc, calls, spc>>),
               \A r \in Socket : r # s => done'[r] = done[r] /\ sends'[r] = sends[r],
               \A r \in Socket : r # s => sentBytes'[r] = sentBytes[r]
        PROVE  SendsRight'
    <2>1. ASSUME NEW r \in Socket, r # s
          PROVE  Offered(r)' /\ Sending(r)'
      <3>1. Offered(r) /\ Sending(r)
        BY DEF SendsRight
      <3>2. ~Writes(r) /\ SizeOf(r) = 0
        BY <1>4, <2>1, OneCallback DEF Writes, SizeOf
      <3>3. SizeOf(r)' = 0 /\ (Writes(r)' => sentSize' <= Head(sends'[r]).size)
        <4>1. CASE sentSize' = 0
          BY <4>1, BetweenChunks
        <4>2. CASE UNCHANGED <<lpc, calls, spc>>
          BY <3>2, <4>2 DEF Writes, SizeOf, InCallback
        <4> QED
          BY <1>4, <4>1, <4>2
      <3>4. /\ done'[r] = done[r] /\ sends'[r] = sends[r] /\ offered'[r] = offered[r]
            /\ sentBytes'[r] = sentBytes[r] /\ SizeOf(r)' = SizeOf(r)
        BY <1>4, <2>1, <3>2, <3>3
      <3> QED
        BY <3>1, <3>3, <3>4, SendingKept
    <2>2. sentSize' # 0 => \E r \in Socket : Writes(r)'
      BY <1>4
    <2> QED
      BY <1>4, <2>1, <2>2 DEF SendsRight
  <1>5. CASE \E s \in Socket : Transmit(s)
    <2>1. PICK s \in Socket : Transmit(s)
      BY <1>5
    <2>2. Writes(s) /\ offered' = offered
      BY <2>1 DEF Transmit
    <2> QED
      BY <1>4, <2>1, <2>2, SendingTransmit
  <1>6. CASE \E s \in Socket : TransmitError(s)
    <2>1. PICK s \in Socket : TransmitError(s)
      BY <1>6
    <2>2. Writes(s) /\ offered' = offered /\ sentBytes' = sentBytes
      BY <2>1 DEF TransmitError
    <2> QED
      BY <1>4, <2>1, <2>2, SendingError
  <1> QED
    BY <1>2, <1>3, <1>5, <1>6 DEF SocketCallback

(* One more chunk is offered. *)
LEMMA SendingAsync ==
  ASSUME SocketTypeOK, SendsRight, NEW s \in Socket, SendAsync(s)
  PROVE  /\ Offered(s)' /\ ~Writes(s)
         /\ UNCHANGED <<done, sentBytes, sentSize>>
         /\ \A r \in Socket : r # s => offered'[r] = offered[r] /\ sends'[r] = sends[r]
PROOF
  <1> DEFINE X == [id : Nat, size : ChunkSizes]
             n == Len(done[s])
             p == Len(sends[s])
  <1>1. PICK size \in ChunkSizes :
          sends' = [sends EXCEPT ![s] = Append(@, [id |-> offered'[s], size |-> size])]
    BY DEF SendAsync
  <1>2. /\ offered' = [offered EXCEPT ![s] = @ + 1] /\ ~Writes(s)
        /\ UNCHANGED <<done, sentBytes, sentSize>>
    BY DEF SendAsync, Handles, Writes, socketHistory, handlerVars
  <1>3. /\ sends[s] \in Seq(X) /\ n \in Nat /\ p \in Nat /\ offered[s] \in Nat
    BY SendTypes
  <1>4. /\ offered'[s] = offered[s] + 1
        /\ \A r \in Socket : r # s => offered'[r] = offered[r]
    BY <1>2 DEF SocketTypeOK
  <1>5. /\ offered[s] = n + p
        /\ \A i \in DOMAIN sends[s] : sends[s][i].id = n + i
        /\ \A i \in DOMAIN done[s] : done[s][i][1] = i
    BY DEF SendsRight, Offered
  <1> DEFINE a == [id |-> offered'[s], size |-> size]
  <1>6. a \in X /\ a.id = n + p + 1
    <2> DEFINE k == offered[s]
    <2>1. k \in Nat /\ k = n + p /\ n \in Nat /\ p \in Nat /\ offered'[s] = k + 1
      BY <1>3, <1>4, <1>5
    <2> HIDE DEF k, n, p
    <2>2. offered'[s] \in Nat /\ offered'[s] = n + p + 1
      BY <2>1
    <2> QED
      BY <2>2
  <1>7. /\ sends'[s] = Append(sends[s], a)
        /\ \A r \in Socket : r # s => sends'[r] = sends[r]
    BY <1>1 DEF SocketTypeOK
  <1> HIDE DEF X, a, n, p
  <1>8. /\ Len(sends'[s]) = p + 1
        /\ DOMAIN sends'[s] = 1..(p + 1) /\ DOMAIN sends[s] = 1..p
        /\ sends'[s][p + 1] = a
        /\ \A i \in 1..p : sends'[s][i] = sends[s][i]
    BY <1>3, <1>6, <1>7, LenProperties, AppendProperties DEF p
  <1>9. \A i \in DOMAIN sends'[s] : sends'[s][i].id = n + i
    <2>1. \A i \in 1..(p + 1) : i \in 1..p \/ i = p + 1
      BY <1>3
    <2>2. n + p + 1 = n + (p + 1)
      BY <1>3
    <2> QED
      BY <1>5, <1>6, <1>8, <2>1, <2>2
  <1>10. offered'[s] = n + Len(sends'[s])
    BY <1>3, <1>4, <1>5, <1>8
  <1> QED
    BY <1>2, <1>4, <1>5, <1>7, <1>9, <1>10 DEF Offered, n

(* Every step keeps the order of what is sent. *)
LEMMA SendsStep ==
  ASSUME SocketTypeOK, PlacesRight, QueuesRight, SendsRight, SocketTypeOK', QueuesRight',
         OsNext
  PROVE  SendsRight'
PROOF
  <1>1. CASE SocketCallback
    BY <1>1, SendsCallback
  <1>2. CASE ~SocketCallback
    <2>1. \A s \in Socket : Writes(s)' <=> Writes(s)
      BY <1>2, HandlerKept
    <2>2. UNCHANGED <<done, sentBytes, sentSize>>
      BY <1>2, NoSocketStep DEF socketVars, handlerVars, socketHistory, Request, ReceiveAsync,
         SendAsync, AcceptAsync, Peer, PeerSend, PeerReads, PeerEnds, PeerConnects
    <2>3. \A s \in Socket : SizeOf(s)' = SizeOf(s)
      BY <2>1, <2>2 DEF SizeOf
    <2>4. sentSize' # 0 => \E s \in Socket : Writes(s)'
      BY <2>1, <2>2 DEF SendsRight
    <2>5. ASSUME NEW s \in Socket, offered'[s] = offered[s], sends'[s] = sends[s]
          PROVE  Offered(s)' /\ Sending(s)'
      <3>1. Offered(s) /\ Sending(s)
        BY DEF SendsRight
      <3>2. Writes(s)' => sentSize' <= Head(sends'[s]).size
        BY <2>1, <2>2, <2>5, <3>1 DEF Sending
      <3> QED
        BY <2>2, <2>3, <2>5, <3>1, <3>2, SendingKept
    <2>6. CASE UNCHANGED <<offered, sends>>
      BY <2>4, <2>5, <2>6 DEF SendsRight
    <2>7. CASE \E s \in Socket : SendAsync(s)
      <3>1. PICK s \in Socket : SendAsync(s)
        BY <2>7
      <3>2. /\ Offered(s)' /\ ~Writes(s)
            /\ \A r \in Socket : r # s => offered'[r] = offered[r] /\ sends'[r] = sends[r]
        BY <3>1, SendingAsync
      <3>3. Sending(s)'
        BY <2>1, <2>2, <2>3, <3>2 DEF Sending, SendsRight
      <3> QED
        BY <2>4, <2>5, <3>2, <3>3 DEF SendsRight
    <2>8. UNCHANGED <<offered, sends>> \/ \E s \in Socket : SendAsync(s)
      BY <1>2, NoSocketStep DEF socketVars, requestVars, Request, ReceiveAsync, AcceptAsync, Peer,
         PeerSend, PeerReads, PeerEnds, PeerConnects
    <2> QED
      BY <2>6, <2>7, <2>8
  <1> QED
    BY <1>1, <1>2

(* Initially nothing is sent. *)
LEMMA SendsInit ==
  ASSUME SocketInit
  PROVE  SendsRight
PROOF
  <1>1. /\ Len(<<>>) = 0 /\ DOMAIN <<>> = {}
    BY EmptySeq
  <1>2. sentSize = 0
    BY DEF SocketInit
  <1>3. ASSUME NEW s \in Socket
        PROVE  Offered(s) /\ Sending(s)
    <2>1. /\ offered[s] = 0 /\ done[s] = <<>> /\ sends[s] = <<>> /\ sentBytes[s] = <<>>
          /\ SizeOf(s) = 0 /\ ~Writes(s)
      BY DEF SocketInit, SizeOf, Writes
    <2>2. Offered(s)
      BY <1>1, <2>1 DEF Offered
    <2>3. InOrder(<<>>) /\ NoGaps(<<>>) /\ EndsAt(<<>>, 0, 0)
      BY <1>1 DEF InOrder, NoGaps, EndsAt
    <2> QED
      BY <1>1, <2>1, <2>2, <2>3 DEF Sending
  <1> QED
    BY <1>2, <1>3 DEF SendsRight

(* What SendsRight says of the bytes. *)
LEMMA SendsSay ==
  ASSUME SendsRight
  PROVE  ChunksWhole
PROOF
  BY DEF SendsRight, Offered, Sending, InOrder, NoGaps, ChunksWhole

------------------------------------------------------------------------------
(* The inductive invariant of Os, and what follows from it. *)

OsInv ==
  /\ LoopInv /\ TimerTypeOK /\ SocketTypeOK
  /\ PlacesRight /\ QueuesRight
  /\ ListenersRight /\ ExpiryRight /\ LateRight
  /\ ControlRight /\ ContinuousKept
  /\ ListsRight
  /\ ReadsRight /\ StreamKept /\ SendsRight

(* Initially it holds. *)
LEMMA OsInvInit == OsInit => OsInv
PROOF
  <1> SUFFICES ASSUME OsInit PROVE OsInv
    OBVIOUS
  <1>1. LoopInv /\ ListsRight
    BY LoopInvInit, ListsInit DEF OsInit
  <1>2. TimerTypeOK /\ SocketTypeOK
    BY TimerTypesInit, SocketTypesInit DEF OsInit
  <1>3. PlacesRight
    BY DEF OsInit, TimerInit, SocketInit, PlacesRight
  <1>4. ListenersRight /\ ExpiryRight /\ LateRight /\ ControlRight /\ ContinuousKept
    BY ListenersInit, ExpiryInit, ControlInit DEF OsInit
  <1>5. QueuesRight /\ ReadsRight /\ StreamKept /\ SendsRight
    BY StreamInit, SendsInit DEF OsInit
  <1> QED
    BY <1>1, <1>2, <1>3, <1>4, <1>5 DEF OsInv

(* A step of the system keeps it. *)
LEMMA OsInvMoves == OsInv /\ OsNext => OsInv'
PROOF
  <1> SUFFICES ASSUME OsInv, OsNext PROVE OsInv'
    OBVIOUS
  <1>1. LoopInv' /\ ListsRight'
    BY LoopInvStep, ListsStep DEF OsInv
  <1>2. TimerTypeOK' /\ SocketTypeOK'
    BY TimerTypesStep, SocketTypesStep DEF OsInv
  <1>3. PlacesRight' /\ QueuesRight'
    BY PlacesRightStep, QueuesRightStep DEF OsInv
  <1>4. ListenersRight' /\ ExpiryRight' /\ LateRight'
    BY ListenersStep, ExpiryStep, LateStep DEF OsInv
  <1>5. ControlRight' /\ ContinuousKept'
    BY ControlStep, ContinuousStep DEF OsInv
  <1>6. ReadsRight' /\ StreamKept'
    BY ReadsRightStep, StreamStep DEF OsInv
  <1>7. SendsRight'
    BY <1>2, <1>3, SendsStep DEF OsInv
  <1> QED
    BY <1>1, <1>2, <1>3, <1>4, <1>5, <1>6, <1>7 DEF OsInv

(* So does a step of something else. *)
LEMMA OsInvStutters == OsInv /\ UNCHANGED osVars => OsInv'
PROOF
  <1> SUFFICES ASSUME OsInv, UNCHANGED osVars PROVE OsInv'
    OBVIOUS
  <1>1. /\ UNCHANGED eventLoopVars /\ UNCHANGED timerVars /\ UNCHANGED socketVars
        /\ UNCHANGED <<execute, eventfd, listeners, bits, lpc, calls, runs, stopping,
                       adds, removes, life, todo, fd>>
    BY DEF osVars, eventLoopVars, loopVars, roundVars, registry, objectVars
  <1>2. /\ UNCHANGED <<kernel, exec, counter, duration, rawList, weakList, dead, tpc, source,
                       told, speaking, call, starts, changes, genuine, late, switched,
                       doubled, removed, raced>>
    BY <1>1 DEF timerVars, settingVars, listVars, expiryVars, controlVars
  <1>3. UNCHANGED <<incoming, peerSent, ended, state, space, backlog, reads, sends, accepts,
                    asked, offered, spc, chunk, sentSize, accepting, clients, answers,
                    sentBytes, done>>
    BY <1>1 DEF socketVars, peerVars, streamVars, requestVars, handlerVars, socketHistory
  <1>4. LoopInv'
    <2>1. EventLoopTypeOK'
      BY <1>1 DEF OsInv, LoopInv, EventLoopTypeOK
    <2> QED
      BY <1>1, <2>1, LoopInvKept DEF OsInv, objectVars, registry
  <1>5. TimerTypeOK'
    BY <1>2 DEF OsInv, TimerTypeOK
  <1>6. SocketTypeOK'
    BY <1>3 DEF OsInv, SocketTypeOK
  <1>7. \A o, e : InCallback(o, e)' <=> InCallback(o, e)
    BY <1>1 DEF InCallback, Bound
  <1>8. PlacesRight' /\ QueuesRight'
    BY <1>2, <1>3, <1>7 DEF OsInv, PlacesRight, QueuesRight, Reads, Writes, Accepts
  <1>9. ListenersRight' /\ ExpiryRight' /\ LateRight'
    BY <1>1, <1>2, <1>7 DEF OsInv, ListenersRight, ListedRight, TellingRight, Locked, ExpiryRight,
       LateRight
  <1>10. ControlRight'
    BY <1>1, <1>2 DEF OsInv, ControlRight, Controlled, Uses, Known
  <1>11. ContinuousKept'
    BY <1>1, <1>2, <1>7 DEF OsInv, ContinuousKept, Uses, NoReuse
  <1>12. ListsRight'
    BY <1>1 DEF OsInv, ListsRight, Holds, Entry, Registered, NoReuse, Bound
  <1>13. ReadsRight' /\ StreamKept'
    BY <1>3, <1>7 DEF OsInv, ReadsRight, Requested, StreamKept, Reads
  <1>14. SendsRight'
    BY <1>3, <1>7 DEF OsInv, SendsRight, Offered, Sending, SizeOf, Writes
  <1> QED
    BY <1>4, <1>5, <1>6, <1>8, <1>9, <1>10, <1>11, <1>12, <1>13, <1>14 DEF OsInv

(* The invariant holds of every behaviour. *)
LEMMA OsSafe == OsSpec => []OsInv
PROOF
  BY OsInvInit, OsInvMoves, OsInvStutters, PTL DEF OsSpec

(* Variables and places are of their types: every callback that the loop calls
   is that of an object that has been made, and no timer, socket or thread is
   in a state the code has no name for. *)
THEOREM OsTypeCorrect == OsSpec => []OsTypeOK
PROOF
  <1>1. OsInv => OsTypeOK
    BY DEF OsInv, LoopInv, OsTypeOK
  <1> QED
    BY <1>1, OsSafe, PTL

(* handleLoopEvents: once the eventfd is read, the loop watches what is
   registered, each object once and by its own callback, whatever other threads
   have registered and taken off; unless a descriptor was given twice. *)
THEOREM ListsAreCurrent == OsSpec => []ListsCurrent
PROOF
  <1>1. OsInv => ListsCurrent
    BY ListsSay DEF OsInv
  <1> QED
    BY <1>1, OsSafe, PTL

(* onTimerExpired and start(): a continuous timer that is started is armed, or
   its callback is about to arm it, unless several threads have controlled it at
   once, or it was set while it was started. *)
THEOREM ContinuousGoesOn == OsSpec => []ContinuousKept
PROOF
  <1>1. OsInv => ContinuousKept
    BY DEF OsInv
  <1> QED
    BY <1>1, OsSafe, PTL

(* onTimerExpired: a listener is called when an expiry has been read, or its
   timer is closed. *)
THEOREM ExpiriesOnly == OsSpec => []OnlyExpiries
PROOF
  <1>1. OsInv => OnlyExpiries
    BY ExpirySays DEF OsInv
  <1> QED
    BY <1>1, OsSafe, PTL

(* stop(): a callback that has tested execute_ before it tells the listeners once
   more, and no later one does. *)
THEOREM LateAtMostOnce == OsSpec => []LateOnce
PROOF
  <1>1. OsInv => LateOnce
    BY DEF OsInv, LateRight, LateOnce
  <1> QED
    BY <1>1, OsSafe, PTL

(* removeListener(), a listener whose last pointer is gone, and the destructor of
   icc::Timer: who is off the lists is not called. *)
THEOREM RemovedAreSilent == OsSpec => []RemovedSilent
PROOF
  <1>1. OsInv => RemovedSilent
    BY ListenersSilent DEF OsInv
  <1> QED
    BY <1>1, OsSafe, PTL

(* onSocketDataAvailable: the promises get the bytes of the peer, in order,
   each once, though all sockets share one chunk. *)
THEOREM StreamsAreKept == OsSpec => []StreamKept
PROOF
  <1>1. OsInv => StreamKept
    BY DEF OsInv
  <1> QED
    BY <1>1, OsSafe, PTL

(* onSocketBufferAvailable: chunks are sent whole and in the order of the
   requests, though all sockets share the size that has been sent. *)
THEOREM ChunksAreWhole == OsSpec => []ChunksWhole
PROOF
  <1>1. OsInv => ChunksWhole
    BY SendsSay DEF OsInv
  <1> QED
    BY <1>1, OsSafe, PTL

------------------------------------------------------------------------------
(* ThreadSafeQueue. *)

(* Every allocated node carries an item. *)
Filled == \A n \in heap : item[n] \in Item

(* The inductive invariant.  ListShape needs Ownership, for a node that is
   linked or deleted must not be in the list already; Ownership needs
   ListShape, for the node that a pop unlinks must be the first of the
   list. *)
QueueInv == TypeOK /\ ListShape /\ Ownership /\ Filled /\ NoLostWakeup

USE NullAssumption, ItemAssumption

------------------------------------------------------------------------------
(* Initially everything is empty. *)
LEMMA QueueInit == Init => QueueInv
<1> SUFFICES ASSUME Init PROVE QueueInv
  OBVIOUS
<1>1. chain = <<>> /\ Len(chain) = 0 /\ 1..Len(chain) = {}
  BY DEF Init
<1>2. TypeOK
  <2>1. next \in [Node -> Node \cup {NULL}] /\ ptr \in [Thread -> Node \cup {NULL}]
    BY DEF Init
  <2>2. item \in [Node -> Item \cup {NoItem}] /\ got \in [Thread -> Item \cup {NoItem}]
    BY DEF Init
  <2>3. pc \in [Thread -> PC]
    BY DEF Init, PC
  <2>4. count \in Nat /\ heap \subseteq Node /\ interrupted \in BOOLEAN
    BY DEF Init
  <2>5. QED
    BY <1>1, <2>1, <2>2, <2>3, <2>4 DEF TypeOK, Init
<1>3. ListShape
  BY <1>1 DEF ListShape, Init
<1>4. Ownership
  BY <1>1 DEF Ownership, Holding, Linked, Init
<1>5. Filled /\ NoLostWakeup
  BY DEF Filled, NoLostWakeup, Init
<1>6. QED
  BY <1>2, <1>3, <1>4, <1>5 DEF QueueInv

------------------------------------------------------------------------------
(* Linking a node that its thread holds puts it at the end of the list. *)
LEMMA LinkShape ==
  ASSUME QueueInv, NEW n \in Node, n \notin Linked, LinkBack(n)
  PROVE  /\ ListShape'
         /\ Linked' = Linked \cup {n}
         /\ next' \in [Node -> Node \cup {NULL}]
         /\ chain' \in Seq(Node) /\ chain' # <<>>
         /\ front' \in Node /\ back' \in Node /\ count' \in Nat
<1> USE DEF QueueInv, TypeOK
<1> DEFINE k == Len(chain)
<1>1. /\ k \in Nat
      /\ chain' = Append(chain, n)
      /\ Len(chain') = k + 1
      /\ chain'[k + 1] = n
      /\ \A i \in 1..k : chain'[i] = chain[i] /\ chain[i] \in Node /\ chain[i] # n
      /\ chain' # <<>>
  BY DEF LinkBack, Linked
<1>2. chain' \in Seq(Node)
  BY <1>1
<1>3. Linked' = Linked \cup {n}
  BY <1>1 DEF Linked
<1>4. \A i, j \in 1..(k + 1) : chain'[i] = chain'[j] => i = j
  <2> SUFFICES ASSUME NEW i \in 1..(k + 1), NEW j \in 1..(k + 1),
                      chain'[i] = chain'[j]
               PROVE  i = j
    OBVIOUS
  <2>1. CASE i \in 1..k /\ j \in 1..k
    BY <1>1, <2>1 DEF ListShape
  <2>2. CASE i = k + 1 \/ j = k + 1
    BY <1>1, <2>2
  <2>3. QED
    BY <1>1, <2>1, <2>2
<1>5. CASE back = NULL
  <2>1. chain = <<>> /\ k = 0
    BY <1>5 DEF ListShape
  <2>2. /\ next' = [next EXCEPT ![n] = NULL]
        /\ front' = n /\ back' = n /\ count' = count + 1
    BY <1>5 DEF LinkBack
  <2>3. ListShape'
    BY <1>1, <1>4, <2>1, <2>2 DEF ListShape
  <2>4. QED
    BY <1>1, <1>2, <1>3, <2>2, <2>3
<1>6. CASE back # NULL
  <2>1. /\ k > 0 /\ chain # <<>>
        /\ back = chain[k] /\ back \in Node /\ back # n /\ next[back] = NULL
        /\ front = chain[1] /\ front \in Node
    BY <1>1, <1>6 DEF ListShape
  <2>2. /\ next' = [next EXCEPT ![n] = NULL, ![back] = n]
        /\ front' = front /\ back' = n /\ count' = count + 1
    BY <1>6, <2>1 DEF LinkBack
  <2>3. \A i \in 1..(k + 1) :
           next'[chain'[i]] = IF i = k + 1 THEN NULL ELSE chain'[i + 1]
    <3> SUFFICES ASSUME NEW i \in 1..(k + 1)
                 PROVE  next'[chain'[i]] = IF i = k + 1 THEN NULL ELSE chain'[i + 1]
      OBVIOUS
    <3>1. CASE i = k + 1
      BY <1>1, <2>1, <2>2, <3>1
    <3>2. CASE i = k
      BY <1>1, <2>1, <2>2, <3>2
    <3>3. CASE i \in 1..(k - 1)
      <4>1. /\ chain[i] # chain[k] /\ chain[i] # n /\ chain[i] \in Node
            /\ next[chain[i]] = chain[i + 1]
            /\ chain'[i] = chain[i] /\ chain'[i + 1] = chain[i + 1]
        BY <1>1, <2>1, <3>3 DEF ListShape
      <4>2. QED
        BY <2>1, <2>2, <3>3, <4>1
    <3>4. QED
      BY <1>1, <3>1, <3>2, <3>3
  <2>4. ListShape'
    BY <1>1, <1>4, <2>1, <2>2, <2>3 DEF ListShape
  <2>5. next' \in [Node -> Node \cup {NULL}]
    BY <2>2
  <2>6. front' \in Node /\ back' \in Node /\ count' \in Nat
    BY <2>1, <2>2
  <2>7. chain' # <<>>
    BY <1>1
  <2>8. QED
    BY <1>2, <1>3, <2>4, <2>5, <2>6, <2>7
<1>7. QED
  BY <1>5, <1>6

(* Unlinking takes the first node, and only it, out of the list. *)
LEMMA UnlinkShape ==
  ASSUME QueueInv, UnlinkFront
  PROVE  /\ ListShape'
         /\ chain # <<>> /\ front = Head(chain) /\ front \in Linked
         /\ Linked' = Linked \ {front}
         /\ chain' = Tail(chain) /\ chain' \in Seq(Node)
         /\ front' \in Node \cup {NULL} /\ back' \in Node \cup {NULL}
         /\ count' \in Nat
<1> USE DEF QueueInv, TypeOK
<1> DEFINE k == Len(chain)
<1>1. /\ chain # <<>> /\ k \in Nat /\ k > 0
      /\ front = chain[1] /\ back = chain[k] /\ front = Head(chain)
      /\ count = k
      /\ \A i \in 1..k : chain[i] \in Node
  BY DEF UnlinkFront, ListShape
<1>2. /\ chain' = Tail(chain) /\ chain' \in Seq(Node)
      /\ Len(chain') = k - 1
      /\ \A i \in 1..(k - 1) : chain'[i] = chain[i + 1]
      /\ count' = k - 1 /\ next' = next
  BY <1>1 DEF UnlinkFront
<1>3. front \in Linked
  BY <1>1 DEF Linked
<1>4. Linked' = Linked \ {front}
  <2>1. ASSUME NEW i \in 1..(k - 1)
        PROVE  chain'[i] \in Linked /\ chain'[i] # front
    <3>1. i + 1 \in 1..k /\ 1 \in 1..k /\ chain'[i] = chain[i + 1]
      BY <1>1, <1>2
    <3>2. QED
      BY <1>1, <3>1 DEF ListShape, Linked
  <2>2. ASSUME NEW i \in 1..k, chain[i] # front
        PROVE  \E j \in 1..(k - 1) : chain'[j] = chain[i]
    <3>1. i # 1 /\ i - 1 \in 1..(k - 1)
      BY <1>1, <2>2
    <3>2. chain'[i - 1] = chain[i]
      BY <1>2, <3>1
    <3>3. QED
      BY <3>1, <3>2
  <2>3. /\ Linked = {chain[i] : i \in 1..k}
        /\ Linked' = {chain'[i] : i \in 1..(k - 1)}
    BY <1>2 DEF Linked
  <2> HIDE DEF QueueInv, TypeOK, k
  <2>4. Linked' \subseteq Linked \ {front}
    BY <2>1, <2>3
  <2>5. Linked \ {front} \subseteq Linked'
    BY <2>2, <2>3
  <2>6. QED
    BY <2>4, <2>5
<1>5. \A i, j \in 1..(k - 1) : chain'[i] = chain'[j] => i = j
  <2> SUFFICES ASSUME NEW i \in 1..(k - 1), NEW j \in 1..(k - 1),
                      chain'[i] = chain'[j]
               PROVE  i = j
    OBVIOUS
  <2>1. i + 1 \in 1..k /\ j + 1 \in 1..k /\ chain[i + 1] = chain[j + 1]
    BY <1>1, <1>2
  <2>2. QED
    BY <2>1 DEF ListShape
<1>6. \A i \in 1..(k - 1) :
         next'[chain'[i]] = IF i = k - 1 THEN NULL ELSE chain'[i + 1]
  <2> SUFFICES ASSUME NEW i \in 1..(k - 1)
               PROVE  next'[chain'[i]] = IF i = k - 1 THEN NULL ELSE chain'[i + 1]
    OBVIOUS
  <2>1. i + 1 \in 1..k /\ chain'[i] = chain[i + 1]
    BY <1>1, <1>2
  <2>2. next[chain[i + 1]] = IF i + 1 = k THEN NULL ELSE chain[i + 2]
    BY <1>1, <2>1 DEF ListShape
  <2>3. i # k - 1 => chain'[i + 1] = chain[i + 2]
    BY <1>1, <1>2
  <2>4. QED
    BY <1>1, <1>2, <2>1, <2>2, <2>3
<1>7. (front = back) <=> k = 1
  BY <1>1 DEF ListShape
<1>8. CASE k = 1
  <2>1. front' = NULL /\ back' = NULL /\ chain' = <<>>
    BY <1>1, <1>2, <1>7, <1>8 DEF UnlinkFront
  <2>2. ListShape'
    BY <1>2, <1>5, <1>6, <1>8, <2>1 DEF ListShape
  <2>3. QED
    BY <1>1, <1>2, <1>3, <1>4, <1>8, <2>1, <2>2
<1>9. CASE k # 1
  <2>1. front' = next[front] /\ back' = back
    BY <1>7, <1>9 DEF UnlinkFront
  <2>2. next[front] = chain[2] /\ chain[2] \in Node /\ chain[k] \in Node
    BY <1>1, <1>9 DEF ListShape
  <2>3. chain' # <<>> /\ front' = chain'[1] /\ back' = chain'[k - 1]
    <3>1. 1 \in 1..(k - 1) /\ k - 1 \in 1..(k - 1) /\ (k - 1) + 1 = k
      BY <1>1, <1>9
    <3>2. chain'[1] = chain[2] /\ chain'[k - 1] = chain[k]
      BY <1>2, <3>1
    <3>3. chain' # <<>>
      <4>1. Len(chain') # 0
        BY <1>1, <1>2, <1>9
      <4>2. QED
        BY <4>1
    <3>4. QED
      BY <1>1, <2>1, <2>2, <3>2, <3>3
  <2>4. ListShape'
    BY <1>2, <1>5, <1>6, <2>3 DEF ListShape
  <2>5. QED
    BY <1>1, <1>2, <1>3, <1>4, <2>1, <2>2, <2>4
<1>10. QED
  BY <1>8, <1>9

------------------------------------------------------------------------------
(* Ownership says what a pointer may point to. *)
LEMMA Owned ==
  ASSUME QueueInv
  PROVE  /\ Linked \subseteq heap
         /\ \A t \in Thread : Holding(t) => ptr[t] \in heap /\ ptr[t] \in Node
         /\ \A n \in heap : n \in Linked \/ \E t \in Thread : Holding(t) /\ ptr[t] = n
BY DEF QueueInv, TypeOK, Ownership

(* A step that leaves the memory, the list and the interruption alone, puts
   nobody to sleep and lets nobody forget to notify, keeps the invariant. *)
LEMMA QueueFrame ==
  ASSUME QueueInv, TypeOK',
         UNCHANGED <<list, item, heap, ptr>>,
         \A t \in Thread : (pc'[t] \in {"link", "reclaim"}) = Holding(t),
         \A t \in Thread : pc'[t] = "sleep" =>
            /\ chain = <<>>
            /\ interrupted' => \E u \in Thread : pc'[u] = "notify"
  PROVE  QueueInv'
<1>1. ListShape' /\ Linked' = Linked
  BY DEF QueueInv, ListShape, Linked, list
<1>2. Ownership'
  BY <1>1 DEF QueueInv, Ownership, Holding
<1>3. Filled' /\ NoLostWakeup'
  BY DEF QueueInv, Filled, NoLostWakeup, list
<1>4. QED
  BY <1>1, <1>2, <1>3 DEF QueueInv

(* tryPush, before the lock. *)
LEMMA AllocateInv ==
  ASSUME QueueInv, NEW t \in Thread, NEW i \in Item, Allocate(t, i)
  PROVE  QueueInv'
<1> USE DEF QueueInv, TypeOK
<1>1. PICK n \in Node \ heap :
        /\ heap' = heap \cup {n}
        /\ item' = [item EXCEPT ![n] = i]
        /\ next' = [next EXCEPT ![n] = NULL]
        /\ ptr' = [ptr EXCEPT ![t] = n]
  BY DEF Allocate
<1>2. /\ pc[t] = "idle" /\ pc' = [pc EXCEPT ![t] = "link"]
      /\ UNCHANGED <<front, back, count, interrupted, got, destroyer, chain>>
  BY DEF Allocate, MayCall, Goto
<1>3. TypeOK'
  BY <1>1, <1>2 DEF PC
<1>4. Linked' = Linked /\ n \notin Linked
  BY <1>1, <1>2, Owned DEF Linked
<1>5. ListShape'
  <2>1. \A k \in 1..Len(chain) : chain[k] # n
    BY <1>4 DEF Linked
  <2>2. \A k \in 1..Len(chain) : next'[chain[k]] = next[chain[k]]
    BY <1>1, <2>1
  <2>3. QED
    BY <1>2, <2>2 DEF ListShape
<1>6. ptr[t] = NULL /\ \A u \in Thread : ptr[u] # n
  BY <1>1, <1>2, Owned DEF Ownership, Holding
<1>7. Ownership'
  BY <1>1, <1>2, <1>4, <1>6 DEF Ownership, Holding
<1>8. Filled'
  BY <1>1 DEF Filled
<1>9. NoLostWakeup'
  BY <1>2 DEF NoLostWakeup
<1>10. QED
  BY <1>3, <1>5, <1>7, <1>8, <1>9

(* tryPush, under the lock. *)
LEMMA LinkInv ==
  ASSUME QueueInv, NEW t \in Thread, Link(t)
  PROVE  /\ QueueInv'
         /\ ptr[t] \in heap
         /\ chain' = Append(chain, ptr[t])
<1> DEFINE n == ptr[t]
<1>1. n \in Node /\ n \in heap /\ n \notin Linked /\ LinkBack(n)
  BY Owned DEF Link, Holding, QueueInv, Ownership
<1> HIDE DEF n
<1>2. /\ ListShape' /\ Linked' = Linked \cup {n}
      /\ next' \in [Node -> Node \cup {NULL}]
      /\ chain' \in Seq(Node) /\ chain' # <<>>
      /\ front' \in Node /\ back' \in Node /\ count' \in Nat
  BY <1>1, LinkShape
<1>3. /\ pc[t] = "link" /\ ptr' = [ptr EXCEPT ![t] = NULL]
      /\ UNCHANGED <<item, heap, interrupted, got, destroyer>>
      /\ pc' = [u \in Thread |-> IF u = t THEN "idle"
                                ELSE IF pc[u] = "sleep" THEN "pop" ELSE pc[u]]
  BY DEF Link, NotifyAllGoto
<1>4. TypeOK'
  BY <1>2, <1>3 DEF QueueInv, TypeOK, PC
<1>5. \A u \in Thread : u # t => pc'[u] \in {"link", "reclaim"} <=> Holding(u)
  BY <1>3 DEF Holding
<1>6. Ownership'
  <2>1. \A u \in Thread : Holding(u)' <=> u # t /\ Holding(u)
    BY <1>3, <1>5 DEF Holding
  <2>2. \A u \in Thread : ptr'[u] = IF u = t THEN NULL ELSE ptr[u]
    BY <1>3 DEF QueueInv, TypeOK
  <2>3. \A u \in Thread : u # t => ptr[u] # n
    BY <1>1 DEF n, QueueInv, Ownership
  <2>4. NULL \notin Linked'
    BY <1>1, <1>2 DEF QueueInv, TypeOK, Linked
  <2>5. heap' = Linked' \cup {ptr'[u] : u \in {v \in Thread : Holding(v)'}}
    <3>1. heap = Linked \cup {ptr[u] : u \in {v \in Thread : Holding(v)}}
      BY DEF QueueInv, Ownership
    <3>2. Holding(t) /\ n = ptr[t]
      BY <1>3 DEF Holding, n
    <3>3. QED
      BY <1>2, <1>3, <2>1, <2>2, <3>1, <3>2
  <2>6. QED
    BY <1>2, <2>1, <2>2, <2>3, <2>4, <2>5 DEF QueueInv, Ownership
<1>7. Filled' /\ NoLostWakeup'
  BY <1>3 DEF QueueInv, Filled, NoLostWakeup
<1>8. QED
  BY <1>1, <1>2, <1>4, <1>6, <1>7 DEF QueueInv, n, LinkBack

(* A pop moves the first node from the list to the thread. *)
LEMMA PopFrontInv ==
  ASSUME QueueInv, NEW t \in Thread, pc[t] \in {"idle", "pop"}, PopFront(t),
         UNCHANGED <<item, heap, interrupted, destroyer>>
  PROVE  /\ QueueInv'
         /\ chain # <<>> /\ chain' = Tail(chain)
         /\ got' = [got EXCEPT ![t] = item[Head(chain)]]
<1>1. /\ ListShape'
      /\ chain # <<>> /\ front = Head(chain) /\ front \in Linked
      /\ Linked' = Linked \ {front}
      /\ chain' = Tail(chain) /\ chain' \in Seq(Node)
      /\ front' \in Node \cup {NULL} /\ back' \in Node \cup {NULL}
      /\ count' \in Nat
  BY UnlinkShape DEF PopFront
<1>2. /\ ptr' = [ptr EXCEPT ![t] = front]
      /\ got' = [got EXCEPT ![t] = item[front]]
      /\ pc' = [pc EXCEPT ![t] = "reclaim"]
      /\ next' = next
  BY DEF PopFront, Goto, UnlinkFront
<1>3. front \in heap /\ front \in Node /\ item[front] \in Item
  BY <1>1, Owned DEF QueueInv, Filled, TypeOK
<1>4. TypeOK'
  BY <1>1, <1>2, <1>3 DEF QueueInv, TypeOK, PC
<1>5. Ownership'
  <2>1. \A u \in Thread : Holding(u)' <=> u = t \/ Holding(u)
    BY <1>2 DEF Holding, QueueInv, TypeOK
  <2>2. \A u \in Thread : ptr'[u] = IF u = t THEN front ELSE ptr[u]
    BY <1>2 DEF QueueInv, TypeOK
  <2>3. \A u \in Thread : ptr[u] # front
    BY <1>1 DEF QueueInv, Ownership
  <2>4. ~Holding(t)
    BY DEF Holding
  <2>5. heap' = Linked' \cup {ptr'[u] : u \in {v \in Thread : Holding(v)'}}
    <3>1. heap = Linked \cup {ptr[u] : u \in {v \in Thread : Holding(v)}}
      BY DEF QueueInv, Ownership
    <3>2. QED
      BY <1>1, <2>1, <2>2, <2>4, <3>1
  <2>6. QED
    BY <1>1, <1>3, <2>1, <2>2, <2>3, <2>5 DEF QueueInv, Ownership
<1>6. Filled'
  BY DEF QueueInv, Filled
<1>7. NoLostWakeup'
  BY <1>1, <1>2 DEF QueueInv, NoLostWakeup
<1>8. QED
  BY <1>1, <1>2, <1>4, <1>5, <1>6, <1>7 DEF QueueInv

(* reclaimNode. *)
LEMMA ReclaimInv ==
  ASSUME QueueInv, NEW t \in Thread, Reclaim(t)
  PROVE  /\ QueueInv'
         /\ \A n \in Linked : item'[n] = item[n]
<1> DEFINE n == ptr[t]
<1>1. n \in Node /\ n \notin Linked /\ Holding(t)
  BY Owned DEF Reclaim, Holding, QueueInv, Ownership
<1>2. /\ pc[t] = "reclaim"
      /\ heap' = heap \ {n}
      /\ item' = [item EXCEPT ![n] = NoItem]
      /\ next' = [next EXCEPT ![n] = NULL]
      /\ ptr' = [ptr EXCEPT ![t] = NULL]
      /\ pc' = [pc EXCEPT ![t] = "idle"]
      /\ UNCHANGED <<front, back, count, interrupted, got, destroyer, chain>>
  BY DEF Reclaim, Goto
<1> HIDE DEF n
<1>3. TypeOK'
  BY <1>1, <1>2 DEF QueueInv, TypeOK, PC
<1>4. Linked' = Linked /\ \A m \in Linked : m \in Node /\ next'[m] = next[m]
                                                       /\ item'[m] = item[m]
  BY <1>1, <1>2 DEF Linked, QueueInv, TypeOK
<1>5. ListShape'
  <2>1. \A k \in 1..Len(chain) : next'[chain[k]] = next[chain[k]]
    BY <1>4 DEF Linked
  <2>2. QED
    BY <1>2, <2>1 DEF QueueInv, ListShape
<1>6. Ownership'
  <2>1. \A u \in Thread : Holding(u)' <=> u # t /\ Holding(u)
    BY <1>2 DEF Holding, QueueInv, TypeOK
  <2>2. \A u \in Thread : ptr'[u] = IF u = t THEN NULL ELSE ptr[u]
    BY <1>2 DEF QueueInv, TypeOK
  <2>3. \A u \in Thread : u # t => ptr[u] # n
    BY <1>1 DEF n, QueueInv, Ownership
  <2>4. NULL \notin Linked
    BY <1>4
  <2>5. heap' = Linked' \cup {ptr'[u] : u \in {v \in Thread : Holding(v)'}}
    <3>1. heap = Linked \cup {ptr[u] : u \in {v \in Thread : Holding(v)}}
      BY DEF QueueInv, Ownership
    <3>2. n = ptr[t]
      BY DEF n
    <3>3. QED
      BY <1>1, <1>2, <1>4, <2>1, <2>2, <2>3, <3>1, <3>2
  <2>6. QED
    BY <1>4, <2>1, <2>2, <2>3, <2>4, <2>5 DEF QueueInv, Ownership
<1>7. Filled'
  BY <1>2 DEF QueueInv, Filled, TypeOK
<1>8. NoLostWakeup'
  BY <1>2 DEF QueueInv, NoLostWakeup, TypeOK
<1>9. QED
  BY <1>3, <1>4, <1>5, <1>6, <1>7, <1>8 DEF QueueInv

(* The steps that change neither memory nor list. *)
QuietStep(t) ==
  \/ WaitPop(t) \/ WaitPopInterrupted(t) \/ WaitPopSleep(t) \/ SpuriousWakeup(t)
  \/ Interrupt(t) \/ InterruptNotify(t) \/ Reset(t) \/ Destroy(t)
  \/ (TryPop(t) \/ DestroyPop(t)) /\ ~PopFront(t)

(* A step that touches no node of the list keeps the invariant. *)
LEMMA QuietInv ==
  ASSUME QueueInv, NEW t \in Thread, QuietStep(t)
  PROVE  QueueInv'
<1> USE DEF QueueInv, TypeOK
<1>1. CASE WaitPop(t) \/ SpuriousWakeup(t) \/ Destroy(t)
  <2>1. TypeOK'
    BY <1>1 DEF WaitPop, SpuriousWakeup, Destroy, MayCall, Goto, PC, list
  <2>2. QED
    BY <1>1, <2>1, QueueFrame
       DEF WaitPop, SpuriousWakeup, Destroy, MayCall, Goto, Holding, NoLostWakeup
<1>2. CASE WaitPopInterrupted(t)
  <2>1. TypeOK'
    BY <1>2 DEF WaitPopInterrupted, PopNothing, Goto, PC, list
  <2>2. QED
    BY <1>2, <2>1, QueueFrame
       DEF WaitPopInterrupted, PopNothing, Goto, Holding, NoLostWakeup
<1>3. CASE WaitPopSleep(t)
  <2>1. TypeOK'
    BY <1>3 DEF WaitPopSleep, Goto, PC, list
  <2>2. chain = <<>>
    BY <1>3 DEF WaitPopSleep, ListShape
  <2>3. QED
    BY <1>3, <2>1, <2>2, QueueFrame DEF WaitPopSleep, Goto, Holding, NoLostWakeup
<1>4. CASE Interrupt(t)
  <2>1. TypeOK'
    BY <1>4 DEF Interrupt, MayCall, Goto, PC, list
  <2>2. pc'[t] = "notify"
    BY <1>4 DEF Interrupt, Goto
  <2>3. QED
    BY <1>4, <2>1, <2>2, QueueFrame
       DEF Interrupt, MayCall, Goto, Holding, NoLostWakeup
<1>5. CASE InterruptNotify(t)
  <2>1. TypeOK'
    BY <1>5 DEF InterruptNotify, NotifyAllGoto, PC, list
  <2>2. QED
    BY <1>5, <2>1, QueueFrame DEF InterruptNotify, NotifyAllGoto, Holding
<1>6. CASE Reset(t)
  <2>1. TypeOK'
    BY <1>6 DEF Reset, list
  <2>2. QED
    BY <1>6, <2>1, QueueFrame DEF Reset, Holding, NoLostWakeup
<1>7. CASE (TryPop(t) \/ DestroyPop(t)) /\ ~PopFront(t)
  <2>1. PICK l \in {"idle", "destroyed"} : PopNothing(t, l)
    BY <1>7 DEF TryPop, DestroyPop
  <2>2. pc[t] = "idle" /\ UNCHANGED <<item, heap, interrupted, destroyer>>
    BY <1>7 DEF TryPop, DestroyPop, MayCall
  <2>3. TypeOK'
    BY <2>1, <2>2 DEF PopNothing, Goto, PC, list
  <2>4. QED
    BY <2>1, <2>2, <2>3, QueueFrame DEF PopNothing, Goto, Holding, NoLostWakeup
<1>8. QED
  BY <1>1, <1>2, <1>3, <1>4, <1>5, <1>6, <1>7 DEF QuietStep

(* Every step keeps the invariant. *)
LEMMA QueueStep == QueueInv /\ [Next]_vars => QueueInv'
<1> SUFFICES ASSUME QueueInv, [Next]_vars PROVE QueueInv'
  OBVIOUS
<1>1. CASE UNCHANGED vars
  BY <1>1 DEF QueueInv, TypeOK, ListShape, Ownership, Filled, NoLostWakeup,
              Linked, Holding, vars
<1>2. ASSUME NEW t \in Thread, Call(t) \/ Step(t) \/ SpuriousWakeup(t)
      PROVE  QueueInv'
  <2>1. CASE \E i \in Item : Allocate(t, i)
    BY <2>1, AllocateInv
  <2>2. CASE Link(t) \/ Reclaim(t)
    BY <2>2, LinkInv, ReclaimInv
  <2>3. CASE (TryPop(t) \/ WaitPopItem(t) \/ DestroyPop(t)) /\ PopFront(t)
    BY <2>3, PopFrontInv DEF TryPop, WaitPopItem, DestroyPop, MayCall
  <2>4. CASE QuietStep(t)
    BY <2>4, QuietInv
  <2>5. QED
    BY <1>2, <2>1, <2>2, <2>3, <2>4 DEF Call, Step, QuietStep, WaitPopItem
<1>3. QED
  BY <1>1, <1>2 DEF Next

(* The invariant holds in every reachable state. *)
LEMMA QueueSafe == Safety => []QueueInv
BY QueueInit, QueueStep, PTL DEF Safety

(* Type correctness of the queue. *)
THEOREM QueueTypeCorrect == Safety => []TypeOK
BY QueueSafe, PTL DEF QueueInv

(* The pointers and the counter always describe one well-formed list. *)
THEOREM WellFormedList == Safety => []ListShape
BY QueueSafe, PTL DEF QueueInv

(* Every allocated node has exactly one owner: no leak, no double delete. *)
THEOREM SingleOwner == Safety => []Ownership
BY QueueSafe, PTL DEF QueueInv

(* A thread sleeps in waitPop only while there is nothing to wake it for. *)
THEOREM WakeupsKept == Safety => []NoLostWakeup
BY QueueSafe, PTL DEF QueueInv

------------------------------------------------------------------------------
(* Refinement: each step is a step of FifoQueue on Contents and Waiting, or
   changes neither. *)

(* Contents reads the linked nodes only. *)
LEMMA SameContents ==
  ASSUME QueueInv, UNCHANGED chain, \A n \in Linked : item'[n] = item[n]
  PROVE  Contents' = Contents
<1>1. \A i \in 1..Len(chain) : item'[chain[i]] = item[chain[i]]
  BY DEF Linked
<1>2. QED
  BY <1>1 DEF Contents

(* What is in the queue, item by item. *)
LEMMA ContentsTyped ==
  ASSUME QueueInv
  PROVE  /\ Contents \in Seq(Item) /\ Len(Contents) = Len(chain)
         /\ Len(chain) \in Nat
         /\ \A i \in 1..Len(chain) : Contents[i] = item[chain[i]]
<1>1. Len(chain) \in Nat
  BY DEF QueueInv, TypeOK
<1>2. \A i \in 1..Len(chain) : item[chain[i]] \in Item
  BY Owned DEF QueueInv, Filled, Linked
<1>3. QED
  BY <1>1, <1>2 DEF Contents

(* Linking a node appends its item. *)
LEMMA LinkImplements ==
  ASSUME QueueInv, NEW t \in Thread, Link(t)
  PROVE  Fifo!Put(item[ptr[t]]) /\ item[ptr[t]] \in Item
<1> DEFINE n == ptr[t]
<1>1. QueueInv' /\ n \in heap /\ chain' = Append(chain, n)
  BY LinkInv
<1>2. item[n] \in Item
  BY <1>1 DEF QueueInv, Filled
<1>3. UNCHANGED <<item, interrupted, got>>
  BY DEF Link
<1>4. Waiting' = Waiting
  BY DEF Waiting, Link, NotifyAllGoto, QueueInv, TypeOK
<1> HIDE DEF n
<1>5. Contents' = Append(Contents, item[n])
  <2> DEFINE k == Len(chain)
  <2>1. /\ k \in Nat /\ chain \in Seq(Node) /\ n \in Node
        /\ Len(chain') = k + 1 /\ chain'[k + 1] = n
        /\ \A i \in 1..k : chain'[i] = chain[i]
    BY <1>1 DEF QueueInv, TypeOK
  <2>2. /\ Contents \in Seq(Item) /\ Len(Contents) = k
        /\ \A i \in 1..k : Contents[i] = item[chain[i]]
    BY ContentsTyped
  <2>3. /\ Contents' \in Seq(Item) /\ Len(Contents') = k + 1
        /\ \A i \in 1..(k + 1) : Contents'[i] = item[chain'[i]]
    <3>1. \A i \in 1..k : item[chain[i]] \in Item
      BY Owned DEF QueueInv, Filled, Linked
    <3>2. \A i \in 1..(k + 1) : item[chain'[i]] \in Item
      BY <1>2, <2>1, <3>1
    <3>3. Contents' = [i \in 1..(k + 1) |-> item[chain'[i]]]
      BY <1>3, <2>1 DEF Contents
    <3>4. QED
      BY <2>1, <3>2, <3>3
  <2> HIDE DEF k
  <2> DEFINE c == Append(Contents, item[n])
  <2>4. /\ c \in Seq(Item) /\ Len(c) = k + 1
        /\ c[k + 1] = item[n]
        /\ \A i \in 1..k : c[i] = Contents[i]
    BY <1>2, <2>2
  <2> HIDE DEF c
  <2>5. \A i \in 1..(k + 1) : Contents'[i] = c[i]
    BY <2>1, <2>2, <2>3, <2>4
  <2>6. Contents' = c
    BY <2>3, <2>4, <2>5
  <2>7. QED
    BY <2>6 DEF c
<1>6. QED
  BY <1>2, <1>3, <1>4, <1>5 DEF Fifo!Put, n

(* A pop takes the head. *)
LEMMA PopImplements ==
  ASSUME QueueInv, NEW t \in Thread, pc[t] \in {"idle", "pop"}, PopFront(t),
         UNCHANGED <<item, heap, interrupted, destroyer>>
  PROVE  Fifo!TakeHead(t)
<1>1. /\ QueueInv'
      /\ chain # <<>> /\ chain' = Tail(chain)
      /\ got' = [got EXCEPT ![t] = item[Head(chain)]]
  BY PopFrontInv
<1> DEFINE k == Len(chain)
<1>2. /\ chain \in Seq(Node) /\ k \in Nat /\ k > 0 /\ Len(chain') = k - 1
      /\ Head(chain) = chain[1]
      /\ \A i \in 1..(k - 1) : chain'[i] = chain[i + 1]
  BY <1>1 DEF QueueInv, TypeOK
<1>3. /\ Contents \in Seq(Item) /\ Len(Contents) = k
      /\ \A i \in 1..k : Contents[i] = item[chain[i]]
  BY ContentsTyped
<1>4. /\ Contents' \in Seq(Item) /\ Len(Contents') = k - 1
      /\ \A i \in 1..(k - 1) : Contents'[i] = item[chain'[i]]
  BY <1>1, <1>2, ContentsTyped DEF Contents
<1> HIDE DEF k
<1>5. Contents # <<>> /\ Head(Contents) = item[Head(chain)]
  BY <1>2, <1>3
<1>6. Contents' = Tail(Contents)
  <2> DEFINE c == Tail(Contents)
  <2>1. /\ c \in Seq(Item) /\ Len(c) = k - 1
        /\ \A i \in 1..(k - 1) : c[i] = Contents[i + 1]
    BY <1>2, <1>3, <1>5
  <2> HIDE DEF c
  <2>2. \A i \in 1..(k - 1) : i + 1 \in 1..k /\ Contents'[i] = c[i]
    <3>1. SUFFICES ASSUME NEW i \in 1..(k - 1)
                   PROVE  i + 1 \in 1..k /\ Contents'[i] = c[i]
      OBVIOUS
    <3>2. i + 1 \in 1..k
      BY <1>2
    <3>3. Contents[i + 1] = item[chain[i + 1]]
      BY <1>3, <3>2
    <3>4. QED
      BY <1>2, <1>4, <2>1, <3>2, <3>3
  <2>3. Contents' = c
    BY <1>4, <2>1, <2>2
  <2>4. QED
    BY <2>3 DEF c
<1>7. QED
  BY <1>1, <1>5, <1>6 DEF Fifo!TakeHead

(* The other steps of a call, on an unchanged list. *)
LEMMA QuietImplements ==
  ASSUME QueueInv, NEW t \in Thread, QuietStep(t)
  PROVE  [Fifo!Next]_(Fifo!vars)
<1> USE DEF QueueInv, TypeOK
<1>1. UNCHANGED <<chain, item, front>>
  BY DEF QuietStep, WaitPop, WaitPopInterrupted, WaitPopSleep, SpuriousWakeup,
         Interrupt, InterruptNotify, Reset, Destroy, TryPop, DestroyPop,
         PopNothing, list
<1>2. Contents' = Contents
  BY <1>1, SameContents
<1>3. CASE WaitPop(t)
  <2>1. t \notin Waiting /\ Waiting' = Waiting \cup {t}
    BY <1>3 DEF WaitPop, MayCall, Goto, Waiting
  <2>2. Fifo!Ask(t)
    BY <1>2, <1>3, <2>1 DEF WaitPop, Fifo!Ask
  <2>3. QED
    BY <2>2 DEF Fifo!Next
<1>4. CASE WaitPopInterrupted(t)
  <2>1. t \in Waiting /\ Waiting' = Waiting \ {t}
    BY <1>4 DEF WaitPopInterrupted, PopNothing, Goto, Waiting
  <2>2. Fifo!GiveUp(t)
    BY <1>2, <1>4, <2>1 DEF WaitPopInterrupted, PopNothing, Fifo!GiveUp
  <2>3. QED
    BY <2>2 DEF Fifo!Next
<1>5. CASE WaitPopSleep(t) \/ SpuriousWakeup(t) \/ InterruptNotify(t) \/ Destroy(t)
  <2>1. Waiting' = Waiting
    BY <1>5 DEF WaitPopSleep, SpuriousWakeup, InterruptNotify, Destroy, Goto,
                NotifyAllGoto, Waiting
  <2>2. UNCHANGED <<interrupted, got>>
    BY <1>5 DEF WaitPopSleep, SpuriousWakeup, InterruptNotify, Destroy
  <2>3. QED
    BY <1>2, <2>1, <2>2 DEF Fifo!vars
<1>6. CASE Interrupt(t)
  <2>1. Waiting' = Waiting
    BY <1>6 DEF Interrupt, MayCall, Goto, Waiting
  <2>2. Fifo!Interrupt
    BY <1>2, <1>6, <2>1 DEF Interrupt, Fifo!Interrupt
  <2>3. QED
    BY <2>2 DEF Fifo!Next
<1>7. CASE Reset(t)
  <2>1. Waiting' = Waiting
    BY <1>7 DEF Reset, Waiting
  <2>2. Fifo!Reset
    BY <1>2, <1>7, <2>1 DEF Reset, Fifo!Reset
  <2>3. QED
    BY <2>2 DEF Fifo!Next
<1>8. CASE (TryPop(t) \/ DestroyPop(t)) /\ ~PopFront(t)
  <2>1. PICK l \in {"idle", "destroyed"} : PopNothing(t, l)
    BY <1>8 DEF TryPop, DestroyPop
  <2>2. pc[t] = "idle" /\ front = NULL /\ UNCHANGED interrupted
    BY <1>8 DEF TryPop, DestroyPop, MayCall
  <2>3. chain = <<>>
    BY <2>2 DEF ListShape
  <2>4. Len(Contents) = 0 /\ Contents \in Seq(Item)
    BY <2>3, ContentsTyped
  <2>5. Contents = <<>>
    BY <2>4
  <2>6. t \notin Waiting /\ Waiting' = Waiting
    BY <2>1, <2>2 DEF PopNothing, Goto, Waiting
  <2>7. Fifo!TryTake(t)
    BY <1>2, <2>1, <2>2, <2>5, <2>6 DEF PopNothing, Fifo!TryTake
  <2>8. QED
    BY <2>7 DEF Fifo!Next
<1>9. QED
  BY <1>3, <1>4, <1>5, <1>6, <1>7, <1>8 DEF QuietStep

(* Every step implements a step of the promise, or stutters. *)
LEMMA StepImplements ==
  ASSUME QueueInv, [Next]_vars
  PROVE  [Fifo!Next]_(Fifo!vars)
<1>1. CASE UNCHANGED vars
  BY <1>1 DEF vars, Fifo!vars, Contents, Waiting
<1>2. ASSUME NEW t \in Thread, Call(t) \/ Step(t) \/ SpuriousWakeup(t)
      PROVE  [Fifo!Next]_(Fifo!vars)
  <2>1. ASSUME NEW i \in Item, Allocate(t, i) PROVE [Fifo!Next]_(Fifo!vars)
    <3>1. \A n \in Linked : item'[n] = item[n]
      BY <2>1, Owned DEF Allocate, QueueInv, TypeOK
    <3>2. Contents' = Contents
      BY <2>1, <3>1, SameContents DEF Allocate
    <3>3. Waiting' = Waiting
      BY <2>1 DEF Allocate, MayCall, Goto, Waiting, QueueInv, TypeOK
    <3>4. QED
      BY <2>1, <3>2, <3>3 DEF Allocate, Fifo!vars
  <2>2. CASE Link(t)
    BY <2>2, LinkImplements DEF Fifo!Next
  <2>3. CASE Reclaim(t)
    <3>1. Contents' = Contents
      BY <2>3, ReclaimInv, SameContents DEF Reclaim
    <3>2. Waiting' = Waiting
      BY <2>3 DEF Reclaim, Goto, Waiting, QueueInv, TypeOK
    <3>3. QED
      BY <2>3, <3>1, <3>2 DEF Reclaim, Fifo!vars
  <2>4. CASE WaitPopItem(t)
    <3>1. Fifo!TakeHead(t)
      BY <2>4, PopImplements DEF WaitPopItem
    <3>2. t \in Waiting /\ Waiting' = Waiting \ {t}
      BY <2>4 DEF WaitPopItem, PopFront, Goto, Waiting, QueueInv, TypeOK
    <3>3. Fifo!Serve(t)
      BY <2>4, <3>1, <3>2 DEF WaitPopItem, Fifo!Serve
    <3>4. QED
      BY <3>3 DEF Fifo!Next
  <2>5. CASE (TryPop(t) \/ DestroyPop(t)) /\ PopFront(t)
    <3>1. pc[t] = "idle" /\ UNCHANGED <<item, heap, interrupted, destroyer>>
      BY <2>5 DEF TryPop, DestroyPop, MayCall
    <3>2. Fifo!TakeHead(t)
      BY <2>5, <3>1, PopImplements
    <3>3. t \notin Waiting /\ Waiting' = Waiting
      BY <2>5, <3>1 DEF PopFront, Goto, Waiting, QueueInv, TypeOK
    <3>4. Fifo!TryTake(t)
      BY <3>1, <3>2, <3>3 DEF Fifo!TryTake
    <3>5. QED
      BY <3>4 DEF Fifo!Next
  <2>6. CASE QuietStep(t)
    BY <2>6, QuietImplements
  <2>7. QED
    BY <1>2, <2>1, <2>2, <2>3, <2>4, <2>5, <2>6 DEF Call, Step, QuietStep
<1>3. QED
  BY <1>1, <1>2 DEF Next

(* The empty list is the empty queue. *)
LEMMA InitImplements == Init => Fifo!Init
<1> SUFFICES ASSUME Init PROVE Fifo!Init
  OBVIOUS
<1>1. QueueInv /\ chain = <<>>
  BY QueueInit DEF Init
<1>2. Contents = <<>>
  <2>1. Len(Contents) = 0 /\ Contents \in Seq(Item)
    BY <1>1, ContentsTyped
  <2>2. QED
    BY <2>1
<1>3. Waiting = {}
  BY DEF Waiting, Init
<1>4. QED
  BY <1>2, <1>3 DEF Fifo!Init, Init

(* The queue implements the FIFO that Context and ThreadPool are built on. *)
THEOREM Implements == Safety => ImplementsFifoSafety
<1>1. QueueInv /\ [Next]_vars => [Fifo!Next]_(Fifo!vars)
  BY StepImplements
<1>2. QED
  BY <1>1, InitImplements, QueueSafe, PTL
     DEF Safety, ImplementsFifoSafety, Fifo!Safety
=============================================================================
