----------------------------- MODULE EventProofs -----------------------------
(***************************************************************************)
(* Theorems about Event, for any number of listeners, methods, emitters,   *)
(* values, changes and emissions.                                          *)
(***************************************************************************)
EXTENDS Event, SequenceTheorems, FiniteSetTheorems, FunctionTheorems,
        WellFoundedInduction, TLAPS

Members(q) == {q[i] : i \in DOMAIN q}

(* What a listener has been told, is being told or will be. *)
Told(l) ==
  Members(log[l]) \cup Members(inbox[l]) \cup (IF running[l] = None THEN {} ELSE {running[l]})

Count(truth) == IF truth THEN 1 ELSE 0

(* A strong pointer is one of the program's, of an emission that has locked the
   listener, or of a lambda that calls it. *)
RefsRight ==
  \A l \in Listener :
    /\ refs[l] = Count(owned[l]) + Cardinality({e \in Emitter : locked[e] = l})
                   + Count(running[l] # None /\ l \notin Unchecked)
    /\ l \in Unchecked => owned[l]

(* The lists have their kind of listener, and what is in those of the event is
   connected. *)
ListsRight ==
  /\ \A x \in Members(unchecked) : x.who \in Unchecked
  /\ \A x \in Members(checked) \cup Members(copied) : x.who \notin Unchecked
  /\ \A x \in Members(unchecked) \cup Members(checked) : cut[<<x.who, x.method>>] = Never

(* An emitter is in the last emission it has begun, or in none; what it has
   locked it is about to reach. *)
EmittersRight ==
  /\ Len(emissions) <= MaxEmissions
  /\ \A e \in Emitter :
       /\ current[e] = 0 => todo[e] = <<>>
       /\ current[e] # 0 => current[e] <= Len(emissions) /\ emissions[current[e]].by = e
       /\ \A id \in 1..Len(emissions) :
            emissions[id].by = e /\ current[e] # 0 => id <= current[e]
       /\ locked[e] # NULL => /\ todo[e] # <<>> /\ Head(todo[e]).who = locked[e]
                              /\ locked[e] \notin Unchecked

(* Who is to be told, or has been, was connected when the emission began. *)
CutRight ==
  /\ \A e \in Emitter : current[e] # 0 /\ emissions[current[e]].of = "event" =>
       \A x \in Members(todo[e]) : current[e] <= cut[<<x.who, x.method>>]
  /\ \A l \in Listener : \A d \in Told(l) :
       /\ d.id \in 1..Len(emissions)
       /\ emissions[d.id].of = "event" => d.id <= cut[<<l, d.method>>]

(* Of one thread nothing earlier comes later. *)
Before(em, x, y) == em[x.id].by = em[y.id].by => x.id <= y.id

Sorted(em, q) == \A j \in DOMAIN q : \A i \in 1..j : Before(em, q[i], q[j])

OrderRight ==
  \A l \in Listener :
    /\ Sorted(emissions, log[l]) /\ Sorted(emissions, inbox[l])
    /\ \A x \in Members(log[l]), y \in Members(inbox[l]) : Before(emissions, x, y)
    /\ running[l] # None =>
         /\ \A x \in Members(log[l]) : Before(emissions, x, running[l])
         /\ \A y \in Members(inbox[l]) : Before(emissions, running[l], y)

(* Who lives has not died, and what an emission that is over has left does. *)
DeathRight ==
  /\ \A l \in Listener : Alive(l) => died[l] = Never
  /\ DeadForgotten

(* The last value that was set is the value. *)
FieldRight ==
  \A id \in Sets : (\A other \in Sets : other <= id) => emissions[id].value = field

EventInv ==
  /\ TypeOK /\ RefsRight /\ ListsRight /\ EmittersRight /\ CutRight /\ OrderRight
  /\ DeathRight /\ FieldRight /\ DeliveredAsDue
------------------------------------------------------------------------------
(* Sequences. *)

(* What a sequence holds has its type; the empty one holds nothing. *)
LEMMA MembersType ==
  ASSUME NEW S, NEW q \in Seq(S)
  PROVE  /\ Members(q) \subseteq S
         /\ q = <<>> <=> Members(q) = {}
         /\ DOMAIN q = 1..Len(q) /\ Len(q) \in Nat
PROOF
  <1>1. DOMAIN q = 1..Len(q) /\ Len(q) \in Nat /\ \A i \in DOMAIN q : q[i] \in S
    BY LenProperties, ElementOfSeq
  <1>2. q # <<>> => 1 \in DOMAIN q
    BY <1>1, EmptySeq
  <1>3. q = <<>> => DOMAIN q = {}
    BY <1>1, EmptySeq
  <1> QED
    BY <1>1, <1>2, <1>3 DEF Members

(* Appending adds one element, and keeps a sequence sorted if nothing in it is
   to come later. *)
LEMMA MembersAppend ==
  ASSUME NEW S, NEW q \in Seq(S), NEW a \in S
  PROVE  /\ Append(q, a) \in Seq(S)
         /\ Members(Append(q, a)) = Members(q) \cup {a}
         /\ \A em : Sorted(em, q) /\ (\A x \in Members(q) : Before(em, x, a)) /\ a.id \in Nat
                      => Sorted(em, Append(q, a))
PROOF
  <1> DEFINE r == Append(q, a)
  <1>1. /\ r \in Seq(S) /\ Len(r) = Len(q) + 1 /\ Len(q) \in Nat
        /\ DOMAIN r = 1..Len(r) /\ DOMAIN q = 1..Len(q)
        /\ \A i \in 1..Len(q) : r[i] = q[i]
        /\ r[Len(q) + 1] = a
    BY AppendProperties, LenProperties
  <1> HIDE DEF r
  <1>2. Members(r) = Members(q) \cup {a}
    <2>1. Members(r) \subseteq Members(q) \cup {a}
      BY <1>1 DEF Members
    <2>2. Members(q) \subseteq Members(r)
      BY <1>1 DEF Members
    <2>3. a \in Members(r)
      BY <1>1 DEF Members
    <2> QED
      BY <2>1, <2>2, <2>3
  <1>3. ASSUME NEW em, Sorted(em, q), \A x \in Members(q) : Before(em, x, a), a.id \in Nat
        PROVE  Sorted(em, r)
    <2> SUFFICES ASSUME NEW j \in DOMAIN r, NEW i \in 1..j
                 PROVE  Before(em, r[i], r[j])
      BY DEF Sorted
    <2>1. CASE j \in 1..Len(q)
      BY <1>1, <1>3, <2>1 DEF Sorted
    <2>2. CASE j = Len(q) + 1 /\ i \in 1..Len(q)
      BY <1>1, <1>3, <2>2 DEF Members
    <2>3. CASE j = Len(q) + 1 /\ i = j
      BY <1>1, <1>3, <2>3 DEF Before
    <2> QED
      BY <1>1, <2>1, <2>2, <2>3
  <1> QED
    BY <1>1, <1>2, <1>3 DEF r

(* Taking the first leaves nothing new, and what is left is sorted. *)
LEMMA MembersTail ==
  ASSUME NEW S, NEW q \in Seq(S), q # <<>>
  PROVE  /\ Tail(q) \in Seq(S) /\ Head(q) \in S
         /\ Members(q) = Members(Tail(q)) \cup {Head(q)}
         /\ \A em : Sorted(em, q) =>
              /\ Sorted(em, Tail(q))
              /\ \A x \in Members(Tail(q)) : Before(em, Head(q), x)
PROOF
  <1> DEFINE r == Tail(q)
  <1>1. /\ r \in Seq(S) /\ Head(q) \in S /\ Head(q) = q[1]
        /\ Len(r) = Len(q) - 1 /\ Len(q) \in Nat \ {0}
        /\ DOMAIN r = 1..Len(r) /\ DOMAIN q = 1..Len(q)
        /\ \A i \in 1..Len(r) : r[i] = q[i + 1]
    BY HeadTailProperties, LenProperties, EmptySeq
  <1> HIDE DEF r
  <1>2. Members(q) = Members(r) \cup {Head(q)}
    <2>1. ASSUME NEW i \in DOMAIN q
          PROVE  q[i] \in Members(r) \cup {Head(q)}
      <3>1. CASE i = 1
        BY <1>1, <3>1
      <3>2. CASE i # 1
        <4>1. i - 1 \in DOMAIN r /\ r[i - 1] = q[i]
          BY <1>1, <3>2
        <4> QED
          BY <4>1 DEF Members
      <3> QED
        BY <3>1, <3>2
    <2>2. Members(r) \subseteq Members(q)
      <3>1. \A i \in DOMAIN r : i + 1 \in DOMAIN q /\ r[i] = q[i + 1]
        BY <1>1
      <3> QED
        BY <3>1 DEF Members
    <2>3. Head(q) \in Members(q)
      BY <1>1 DEF Members
    <2> QED
      BY <2>1, <2>2, <2>3 DEF Members
  <1>3. ASSUME NEW em, Sorted(em, q)
        PROVE  Sorted(em, r) /\ \A x \in Members(r) : Before(em, Head(q), x)
    <2>1. ASSUME NEW j \in DOMAIN r, NEW i \in 1..j
          PROVE  Before(em, r[i], r[j])
      <3>1. /\ j + 1 \in DOMAIN q /\ i + 1 \in 1..(j + 1)
            /\ r[i] = q[i + 1] /\ r[j] = q[j + 1]
        BY <1>1
      <3> QED
        BY <1>3, <3>1 DEF Sorted
    <2>2. ASSUME NEW j \in DOMAIN r
          PROVE  Before(em, Head(q), r[j])
      <3>1. j + 1 \in DOMAIN q /\ 1 \in 1..(j + 1) /\ r[j] = q[j + 1]
        BY <1>1
      <3> QED
        BY <1>1, <1>3, <3>1 DEF Sorted
    <2> QED
      BY <2>1, <2>2 DEF Sorted, Members
  <1> QED
    BY <1>1, <1>2, <1>3 DEF r

(* One sequence after the other holds what either holds. *)
LEMMA MembersConcat ==
  ASSUME NEW S, NEW q \in Seq(S), NEW r \in Seq(S)
  PROVE  /\ q \o r \in Seq(S)
         /\ Members(q \o r) \subseteq Members(q) \cup Members(r)
PROOF
  <1> DEFINE all == q \o r
  <1>1. /\ all \in Seq(S) /\ Len(q) \in Nat /\ Len(r) \in Nat
        /\ DOMAIN all = 1..(Len(q) + Len(r))
        /\ DOMAIN q = 1..Len(q) /\ DOMAIN r = 1..Len(r)
        /\ \A i \in 1..(Len(q) + Len(r)) :
             all[i] = IF i <= Len(q) THEN q[i] ELSE r[i - Len(q)]
    BY ConcatProperties, LenProperties
  <1> HIDE DEF all
  <1>2. ASSUME NEW i \in DOMAIN all
        PROVE  all[i] \in Members(q) \cup Members(r)
    <2>1. CASE i <= Len(q)
      BY <1>1, <2>1 DEF Members
    <2>2. CASE i > Len(q)
      <3>1. i - Len(q) \in DOMAIN r /\ all[i] = r[i - Len(q)]
        BY <1>1, <2>2
      <3> QED
        BY <3>1 DEF Members
    <2> QED
      BY <1>1, <2>1, <2>2
  <1>3. Members(all) \subseteq Members(q) \cup Members(r)
    BY <1>2 DEF Members
  <1> QED
    BY <1>1, <1>3 DEF all

(* remove_if keeps elements of the list that are to be kept: rank is a bijection
   from their places to those of the result. *)
LEMMA OnlyMembers ==
  ASSUME NEW S, NEW q \in Seq(S), NEW kept
  PROVE  /\ Only(q, kept) \in Seq(S)
         /\ Members(Only(q, kept)) \subseteq Members(q) \cap kept
PROOF
  <1> DEFINE places == {i \in DOMAIN q : q[i] \in kept}
             n == Cardinality(places)
             upto(i) == {j \in places : j <= i}
             rank == [i \in places |-> Cardinality(upto(i))]
             r == Only(q, kept)
  <1>1. /\ DOMAIN q = 1..Len(q) /\ Len(q) \in Nat
        /\ \A i \in DOMAIN q : q[i] \in S
    BY LenProperties, ElementOfSeq
  <1>2. IsFiniteSet(places) /\ n \in Nat /\ places \subseteq Nat
    <2>1. IsFiniteSet(1..Len(q)) /\ places \subseteq 1..Len(q)
      BY <1>1, FS_Interval
    <2> HIDE DEF places
    <2>2. IsFiniteSet(places)
      BY <2>1, FS_Subset
    <2> QED
      BY <2>1, <2>2, FS_CardinalityType
  <1>3. r = [k \in 1..n |-> q[CHOOSE i \in places : rank[i] = k]]
    BY DEF Only, Chosen
  <1> HIDE DEF places, r
  <1>4. ASSUME NEW i \in places
        PROVE  /\ IsFiniteSet(upto(i)) /\ rank[i] \in 1..n
               /\ rank[i] = Cardinality(upto(i))
    <2>1. upto(i) \in SUBSET places /\ i \in upto(i)
      BY <1>2
    <2>2. IsFiniteSet(upto(i)) /\ Cardinality(upto(i)) <= n
      BY <1>2, <2>1, FS_Subset
    <2>3. Cardinality(upto(i)) \in Nat
      BY <2>2, FS_CardinalityType
    <2>4. Cardinality(upto(i)) # 0
      BY <2>1, <2>2, FS_EmptySet
    <2> QED
      BY <1>2, <2>2, <2>3, <2>4
  <1>5. ASSUME NEW i \in places, NEW j \in places, i < j
        PROVE  rank[i] # rank[j]
    <2>1. i \in Nat /\ j \in Nat /\ \A k \in places : k \in Nat
      BY <1>2
    <2>2. \A k \in places : k <= i => k <= j
      BY <1>5, <2>1
    <2>3. j \in upto(j) /\ j \notin upto(i)
      BY <1>5, <2>1
    <2>4. upto(i) \in SUBSET upto(j)
      BY <2>2
    <2> HIDE DEF upto
    <2>5. Cardinality(upto(i)) # Cardinality(upto(j))
      BY <1>4, <2>3, <2>4, FS_Subset
    <2> QED
      BY <1>4, <2>5
  <1>6. rank \in Injection(places, 1..n)
    <2>1. rank \in [places -> 1..n]
      BY <1>4
    <2> HIDE DEF rank
    <2>2. \A i, j \in places : rank[i] = rank[j] => i = j
      BY <1>2, <1>5
    <2>3. DOMAIN rank = places
      BY <2>1
    <2> QED
      BY <2>1, <2>2, <2>3 DEF Injection, IsInjective
  <1> HIDE DEF rank, n
  <1>7. rank \in Surjection(places, 1..n)
    <2>1. IsFiniteSet(1..n) /\ Cardinality(1..n) = n
      BY <1>2, FS_Interval
    <2>2. Cardinality(places) = n
      BY DEF n
    <2> QED
      BY <1>6, <2>1, <2>2, FS_Injection
  <1>8. \A k \in 1..n : \E i \in places : rank[i] = k
    BY <1>7 DEF Surjection
  <1>9. \A k \in 1..n : \E i \in places : r[k] = q[i]
    BY <1>3, <1>8
  <1>10. \A i \in places : q[i] \in S /\ q[i] \in Members(q) /\ q[i] \in kept
    BY <1>1 DEF places, Members
  <1>11. DOMAIN r = 1..n /\ r \in [1..n -> S]
    <2>1. r = [k \in 1..n |-> r[k]]
      BY <1>3
    <2> QED
      BY <1>9, <1>10, <2>1
  <1>12. r \in Seq(S)
    BY <1>2, <1>11, SeqDef
  <1>13. Members(r) \subseteq Members(q) \cap kept
    BY <1>9, <1>10, <1>11 DEF Members
  <1> QED
    BY <1>12, <1>13 DEF r

Places(q, d) == {i \in 1..Len(q) : q[i] = d}

(* How often something is in a sequence. *)
LEMMA PositionsType ==
  ASSUME NEW S, NEW q \in Seq(S), NEW d
  PROVE  /\ Positions(q, d) \in Nat
         /\ IsFiniteSet(Places(q, d)) /\ Positions(q, d) = Cardinality(Places(q, d))
         /\ Positions(q, d) = 0 <=> d \notin Members(q)
PROOF
  <1> DEFINE at == Places(q, d)
  <1>1. Len(q) \in Nat /\ DOMAIN q = 1..Len(q)
    BY LenProperties
  <1>2. IsFiniteSet(1..Len(q)) /\ at \in SUBSET (1..Len(q))
    BY <1>1, FS_Interval DEF Places
  <1>3. at = {} <=> d \notin Members(q)
    BY <1>1 DEF Members, Places
  <1> HIDE DEF at
  <1>4. IsFiniteSet(at)
    BY <1>2, FS_Subset
  <1>5. Cardinality(at) \in Nat /\ (Cardinality(at) = 0 <=> at = {})
    BY <1>4, FS_CardinalityType, FS_EmptySet
  <1>6. Positions(q, d) = Cardinality(at)
    BY DEF at, Positions, Places
  <1> QED
    BY <1>3, <1>4, <1>5, <1>6 DEF at

(* Appending counts once more what is appended. *)
LEMMA PositionsAppend ==
  ASSUME NEW S, NEW q \in Seq(S), NEW a \in S, NEW d
  PROVE  Positions(Append(q, a), d) = Positions(q, d) + Count(a = d)
PROOF
  <1> DEFINE r == Append(q, a)
             n == Len(q)
             at(s) == Places(s, d)
  <1>1. /\ r \in Seq(S) /\ Len(r) = n + 1 /\ n \in Nat
        /\ \A i \in 1..n : r[i] = q[i]
        /\ r[n + 1] = a
    BY AppendProperties, LenProperties
  <1>2. IsFiniteSet(at(q)) /\ Cardinality(at(q)) \in Nat
    BY PositionsType
  <1> HIDE DEF r, n
  <1>3. n + 1 \notin at(q)
    BY <1>1 DEF n, Places
  <1>4. CASE a = d
    <2>1. at(r) = at(q) \cup {n + 1}
      BY <1>1, <1>4 DEF n, Places
    <2> HIDE DEF at
    <2>2. Cardinality(at(r)) = Cardinality(at(q)) + 1
      BY <1>2, <1>3, <2>1, FS_AddElement
    <2> QED
      BY <1>1, <1>4, <2>2, PositionsType DEF at, Count, r
  <1>5. CASE a # d
    <2>1. at(r) = at(q)
      BY <1>1, <1>5 DEF n, Places
    <2>2. Positions(r, d) = Positions(q, d) /\ Positions(q, d) \in Nat
      BY <1>1, <2>1, PositionsType
    <2>3. Count(a = d) = 0
      BY <1>5 DEF Count
    <2> QED
      BY <2>2, <2>3 DEF r
  <1> QED
    BY <1>4, <1>5

(* Taking the first counts it once less. *)
LEMMA PositionsTail ==
  ASSUME NEW S, NEW q \in Seq(S), q # <<>>, NEW d
  PROVE  Positions(q, d) = Positions(Tail(q), d) + Count(Head(q) = d)
PROOF
  <1> DEFINE r == Tail(q)
             n == Len(q)
             at(s) == Places(s, d)
             f == [i \in at(q) \ {1} |-> i - 1]
  <1>1. /\ r \in Seq(S) /\ Head(q) = q[1]
        /\ Len(r) = n - 1 /\ n \in Nat \ {0}
        /\ \A i \in 1..Len(r) : r[i] = q[i + 1]
    BY HeadTailProperties, LenProperties, EmptySeq
  <1> HIDE DEF r, n
  <1>2. /\ IsFiniteSet(at(q)) /\ Cardinality(at(q)) \in Nat
        /\ IsFiniteSet(at(r)) /\ Cardinality(at(r)) \in Nat
    BY <1>1, PositionsType
  <1>3. ASSUME NEW i \in at(q) \ {1}
        PROVE  i - 1 \in at(r)
    <2>1. i \in 2..n /\ q[i] = d
      BY <1>1 DEF n, Places
    <2>2. i - 1 \in 1..Len(r) /\ r[i - 1] = q[(i - 1) + 1]
      BY <1>1, <2>1
    <2>3. (i - 1) + 1 = i
      BY <1>1, <2>1
    <2> QED
      BY <2>1, <2>2, <2>3 DEF Places
  <1>4. ASSUME NEW j \in at(r)
        PROVE  j + 1 \in at(q) \ {1} /\ (j + 1) - 1 = j
    BY <1>1 DEF n, Places
  <1>5. \A i \in at(q) : i \in Int
    BY <1>1 DEF n, Places
  <1> DEFINE A == at(q) \ {1}
             B == at(r)
  <1>6. f \in Bijection(A, B)
    <2>1. f \in [A -> B]
      BY <1>3
    <2>2. \A i, j \in A : f[i] = f[j] => i = j
      BY <1>5
    <2>3. \A j \in B : j + 1 \in A /\ f[j + 1] = j
      BY <1>4
    <2> HIDE DEF f, A, B
    <2>4. DOMAIN f = A
      BY <2>1
    <2> QED
      BY <2>1, <2>2, <2>3, <2>4 DEF Bijection, Injection, Surjection, IsInjective
  <1>7. 1 \in at(q) <=> Head(q) = d
    BY <1>1 DEF n, Places
  <1> HIDE DEF f, at
  <1>8. /\ IsFiniteSet(A)
        /\ Cardinality(A) = IF 1 \in at(q) THEN Cardinality(at(q)) - 1 ELSE Cardinality(at(q))
    BY <1>2, FS_RemoveElement
  <1>9. Cardinality(B) = Cardinality(A)
    <2> HIDE DEF A, B
    <2> QED
      BY <1>6, <1>8, FS_Bijection DEF ExistsBijection
  <1>10. Cardinality(at(q)) = Cardinality(at(r)) + Count(Head(q) = d)
    BY <1>2, <1>7, <1>8, <1>9 DEF Count
  <1> QED
    BY <1>1, <1>10, PositionsType DEF at, r
------------------------------------------------------------------------------
(* Steps.  Setting the value and emitting are the same but for the field; so
   are the two pushes but for the pointer. *)

(* A list has elements of its type; none of the emitter's is left out. *)
LEMMA TodoType ==
  ASSUME TypeOK, NEW e \in Emitter
  PROVE  /\ todo[e] \in Seq(Entry)
         /\ todo[e] # <<>> => /\ Head(todo[e]) \in Entry /\ Tail(todo[e]) \in Seq(Entry)
                              /\ Head(todo[e]).who \in Listener
                              /\ Head(todo[e]).method \in Method
                              /\ Head(todo[e]) \in Members(todo[e])
PROOF
  <1>1. todo[e] \in Seq(Entry)
    BY DEF TypeOK
  <1>2. ASSUME todo[e] # <<>>
        PROVE  /\ Tail(todo[e]) \in Seq(Entry) /\ Head(todo[e]) \in Entry
               /\ Members(todo[e]) = Members(Tail(todo[e])) \cup {Head(todo[e])}
    BY <1>1, <1>2, MembersTail
  <1>3. \A x \in Entry : x.who \in Listener /\ x.method \in Method
    BY DEF Entry
  <1> QED
    BY <1>1, <1>2, <1>3

BeginStep(e, v, of) ==
  /\ current[e] = 0
  /\ Len(emissions) < MaxEmissions
  /\ current' = [current EXCEPT ![e] = Len(emissions) + 1]
  /\ todo' \in [Emitter -> Seq(Entry)]
  /\ \A f \in Emitter : f # e => todo'[f] = todo[f]
  /\ todo'[e] = IF of = "event" THEN unchecked \o checked ELSE copied
  /\ emissions' \in Seq(Emission) /\ Len(emissions') = Len(emissions) + 1
  /\ \A id \in 1..Len(emissions) : emissions'[id] = emissions[id]
  /\ LET new == emissions'[Len(emissions) + 1] IN
       new.by = e /\ new.value = v /\ new.due = todo'[e] /\ new.of = of
  /\ field' = field \/ (e = Setter /\ of = "event" /\ v = field')
  /\ e = Setter => v = field'
  /\ UNCHANGED <<lists, life, locked, changes, open, inbox, running, log, cut>>

(* An emission has begun: its emitter, its value and its listeners are what
   they are from now on. *)
LEMMA Begins ==
  ASSUME TypeOK,
         \/ \E v \in Value : SetValue(v)
         \/ \E e \in Emitter, of \in {"event", "function"} : Emit(e, of)
  PROVE  \E e \in Emitter, v \in Value \cup {NULL}, of \in {"event", "function"} :
           BeginStep(e, v, of)
PROOF
  <1>1. ASSUME NEW e \in Emitter, NEW v \in Value \cup {NULL},
               NEW of \in {"event", "function"}, Begin(e, v, of),
               field' = field \/ (e = Setter /\ of = "event" /\ v = field'),
               e = Setter => v = field'
        PROVE  BeginStep(e, v, of)
    <2> DEFINE list == IF of = "event" THEN unchecked \o checked ELSE copied
               rec == [by |-> e, value |-> v, due |-> todo'[e], of |-> of]
    <2>1. /\ unchecked \in Seq(Entry) /\ checked \in Seq(Entry) /\ copied \in Seq(Entry)
          /\ todo \in [Emitter -> Seq(Entry)] /\ emissions \in Seq(Emission)
      BY DEF TypeOK
    <2>2. list \in Seq(Entry)
      BY <2>1, MembersConcat
    <2>3. todo' = [todo EXCEPT ![e] = list] /\ emissions' = Append(emissions, rec)
      BY <1>1 DEF Begin
    <2> HIDE DEF list
    <2>4. /\ todo' \in [Emitter -> Seq(Entry)] /\ todo'[e] = list
          /\ \A f \in Emitter : f # e => todo'[f] = todo[f]
      BY <2>1, <2>2, <2>3
    <2>5. rec \in Emission
      BY <1>1, <2>4 DEF Emission
    <2>6. rec.by = e /\ rec.value = v /\ rec.due = todo'[e] /\ rec.of = of
      OBVIOUS
    <2> HIDE DEF rec
    <2>7. /\ emissions' \in Seq(Emission) /\ Len(emissions') = Len(emissions) + 1
          /\ \A id \in 1..Len(emissions) : emissions'[id] = emissions[id]
          /\ emissions'[Len(emissions) + 1] = rec
      BY <2>1, <2>3, <2>5, AppendProperties
    <2> QED
      BY <1>1, <2>4, <2>6, <2>7 DEF Begin, BeginStep, list
  <1>2. ASSUME NEW v \in Value, SetValue(v)
        PROVE  BeginStep(Setter, v, "event")
    BY <1>1, <1>2, EventAssumption DEF SetValue
  <1>3. ASSUME NEW e \in Emitter, NEW of \in {"event", "function"}, Emit(e, of)
        PROVE  BeginStep(e, NULL, of)
    BY <1>1, <1>3 DEF Emit
  <1> QED
    BY <1>2, <1>3, EventAssumption

PushStep(e) ==
  /\ todo[e] # <<>>
  /\ current[e] \in 1..Len(emissions) /\ emissions[current[e]].by = e
  /\ todo' = [todo EXCEPT ![e] = Tail(@)]
  /\ inbox' \in [Listener -> Seq(Delivery)]
  /\ LET x == Head(todo[e])
         d == [id |-> current[e], method |-> x.method] IN
       /\ d \in Delivery
       /\ inbox'[x.who] = IF open[x.who] THEN Append(inbox[x.who], d) ELSE inbox[x.who]
       /\ \A l \in Listener : l # x.who => inbox'[l] = inbox[l]
  /\ UNCHANGED <<lists, owned, current, changes, field, open, running, emissions, log, cut>>

(* Who has listeners to reach is in an emission. *)
LEMMA EmissionsBounded ==
  ASSUME TypeOK, EmittersRight
  PROVE  /\ Len(emissions) \in Nat
         /\ \A e \in Emitter : todo[e] # <<>> =>
              /\ current[e] \in 1..Len(emissions) /\ current[e] \in Ids
              /\ emissions[current[e]].by = e
PROOF
  <1>1. Len(emissions) \in Nat
    BY LenProperties DEF TypeOK
  <1>2. ASSUME NEW e \in Emitter, todo[e] # <<>>
        PROVE  /\ current[e] \in 1..Len(emissions) /\ current[e] \in Ids
               /\ emissions[current[e]].by = e
    <2>1. current[e] # 0 /\ current[e] \in 0..MaxEmissions
      BY <1>2 DEF EmittersRight, TypeOK
    <2>2. current[e] <= Len(emissions) /\ emissions[current[e]].by = e
      BY <2>1 DEF EmittersRight
    <2> QED
      BY <1>1, <2>1, <2>2, EventAssumption DEF Ids
  <1> QED
    BY <1>1, <1>2

(* The listener an emitter has reached gets its lambda, if it has its channel. *)
LEMMA Pushes ==
  ASSUME TypeOK, EmittersRight, NEW e \in Emitter, PushUnchecked(e) \/ PushLocked(e)
  PROVE  PushStep(e)
PROOF
  <1> DEFINE x == Head(todo[e])
             d == [id |-> current[e], method |-> x.method]
  <1>1. todo[e] # <<>>
    BY DEF PushUnchecked, PushLocked, Pending, EmittersRight
  <1>2. x \in Entry /\ x.who \in Listener /\ x.method \in Method
    BY <1>1, TodoType
  <1>3. current[e] \in 1..Len(emissions) /\ current[e] \in Ids /\ emissions[current[e]].by = e
    BY <1>1, EmissionsBounded
  <1>4. d \in Delivery
    BY <1>2, <1>3 DEF Delivery
  <1>5. inbox' = IF open[x.who] THEN [inbox EXCEPT ![x.who] = Append(@, d)] ELSE inbox
    BY DEF PushUnchecked, PushLocked, Push, Pending
  <1>6. inbox \in [Listener -> Seq(Delivery)]
    BY DEF TypeOK
  <1>7. Append(inbox[x.who], d) \in Seq(Delivery)
    BY <1>2, <1>4, <1>6, AppendProperties
  <1>8. /\ todo' = [todo EXCEPT ![e] = Tail(@)]
        /\ UNCHANGED <<lists, owned, current, changes, field, open, running, emissions,
                       log, cut>>
    BY DEF PushUnchecked, PushLocked, Pending, life
  <1> HIDE DEF x, d
  <1>9. /\ inbox' \in [Listener -> Seq(Delivery)]
        /\ inbox'[x.who] = IF open[x.who] THEN Append(inbox[x.who], d) ELSE inbox[x.who]
        /\ \A l \in Listener : l # x.who => inbox'[l] = inbox[l]
    BY <1>2, <1>5, <1>6, <1>7
  <1> QED
    BY <1>1, <1>3, <1>4, <1>8, <1>9 DEF PushStep, x, d

------------------------------------------------------------------------------
(* Strong pointers. *)

Holders(l) == {e \in Emitter : locked[e] = l}

(* Some threads hold a listener, and not more than there are. *)
LEMMA HoldersType ==
  ASSUME NEW l
  PROVE  /\ IsFiniteSet(Holders(l)) /\ Cardinality(Holders(l)) \in 0..Cardinality(Emitter)
         /\ Cardinality(Holders(l)) = 0 <=> Holders(l) = {}
         /\ Cardinality(Emitter) \in Nat
PROOF
  <1>1. Holders(l) \in SUBSET Emitter /\ IsFiniteSet(Emitter)
    BY EventAssumption DEF Holders
  <1>2. /\ IsFiniteSet(Holders(l)) /\ Cardinality(Holders(l)) <= Cardinality(Emitter)
        /\ Cardinality(Emitter) \in Nat
    BY <1>1, FS_Subset, FS_CardinalityType
  <1> QED
    BY <1>2, FS_CardinalityType, FS_EmptySet

(* A listener lives that its program owns, that somebody has locked or that is
   being called. *)
LEMMA HeldLives ==
  ASSUME TypeOK, RefsRight, NEW l \in Listener
  PROVE  /\ refs[l] \in Nat
         /\ owned[l] => Alive(l)
         /\ l \in Unchecked => Alive(l)
         /\ \A e \in Emitter : locked[e] = l => Alive(l)
         /\ running[l] # None => Alive(l)
PROOF
  <1>1. /\ refs[l] = Count(owned[l]) + Cardinality(Holders(l))
                       + Count(running[l] # None /\ l \notin Unchecked)
        /\ l \in Unchecked => owned[l]
    BY DEF RefsRight, Holders
  <1>2. Cardinality(Holders(l)) \in Nat /\ (Cardinality(Holders(l)) = 0 <=> Holders(l) = {})
    BY HoldersType
  <1>3. \A e \in Emitter : locked[e] = l => Holders(l) # {}
    BY DEF Holders
  <1> HIDE DEF Holders
  <1>4. /\ Count(owned[l]) \in {0, 1} /\ (owned[l] => Count(owned[l]) = 1)
        /\ Count(running[l] # None /\ l \notin Unchecked) \in {0, 1}
        /\ running[l] # None /\ l \notin Unchecked =>
             Count(running[l] # None /\ l \notin Unchecked) = 1
    BY DEF Count
  <1>5. refs[l] \in Nat
    BY <1>1, <1>2, <1>4
  <1>6. owned[l] => refs[l] > 0
    BY <1>1, <1>2 DEF Count
  <1>7. Holders(l) # {} => refs[l] > 0
    BY <1>1, <1>2 DEF Count
  <1>8. running[l] # None => refs[l] > 0
    BY <1>1, <1>2, <1>6 DEF Count
  <1> QED
    BY <1>1, <1>3, <1>5, <1>6, <1>7, <1>8 DEF Alive

(* Pointers are counted: each that is taken or dropped is one of the three
   kinds. *)
LEMMA RefsStep ==
  TypeOK /\ RefsRight /\ EmittersRight /\ [Next]_vars => RefsRight'
PROOF
  <1> SUFFICES ASSUME TypeOK, RefsRight, EmittersRight, [Next]_vars
               PROVE  RefsRight'
    OBVIOUS
  <1> DEFINE own(l) == Count(owned[l])
             hold(l) == Cardinality(Holders(l))
             call(l) == Count(running[l] # None /\ l \notin Unchecked)
  <1>t. /\ refs \in [Listener -> Nat] /\ owned \in [Listener -> BOOLEAN]
        /\ locked \in [Emitter -> Listener \cup {NULL}]
        /\ running \in [Listener -> Delivery \cup {None}] /\ NULL \notin Listener
    BY HeldLives, EventAssumption DEF TypeOK
  <1>r. \A l \in Listener :
          /\ refs[l] = own(l) + hold(l) + call(l)
          /\ own(l) \in Nat /\ hold(l) \in Nat /\ call(l) \in Nat
    <2>1. \A l \in Listener : refs[l] = own(l) + hold(l) + call(l)
      BY DEF RefsRight, Holders
    <2>2. \A l \in Listener : own(l) \in Nat /\ hold(l) \in Nat /\ call(l) \in Nat
      BY HoldersType DEF Count
    <2> QED
      BY <2>1, <2>2
  <1>q. ASSUME NEW l \in Listener,
               refs'[l] = own(l)' + hold(l)' + call(l)', l \in Unchecked => owned'[l],
               \A k \in Listener : k # l =>
                 /\ refs'[k] = refs[k] /\ owned'[k] = owned[k]
                 /\ hold(k)' = hold(k) /\ running'[k] = running[k]
        PROVE  RefsRight'
    <2> SUFFICES ASSUME NEW k \in Listener
                 PROVE  /\ refs'[k] = own(k)' + hold(k)' + call(k)'
                        /\ k \in Unchecked => owned'[k]
      BY DEF RefsRight, Holders
    <2>1. CASE k = l
      BY <1>q, <2>1
    <2>2. CASE k # l
      <3>1. own(k)' = own(k) /\ call(k)' = call(k) /\ hold(k)' = hold(k)
        BY <1>q, <2>2
      <3>2. refs'[k] = refs[k] /\ (k \in Unchecked => owned'[k])
        BY <1>q, <2>2 DEF RefsRight
      <3> HIDE DEF own, hold, call
      <3> QED
        BY <1>r, <3>1, <3>2
    <2> QED
      BY <2>1, <2>2
  <1>h. ASSUME UNCHANGED locked
        PROVE  \A k : hold(k)' = hold(k)
    BY <1>h DEF Holders
  <1>0. ASSUME UNCHANGED <<refs, owned, locked, running>>
        PROVE  RefsRight'
    BY <1>0 DEF RefsRight
  <1>1. CASE UNCHANGED vars
    BY <1>0, <1>1 DEF vars, life, emitting
  <1>2. CASE \E l \in Listener, m \in Method : Connect(l, m) \/ Disconnect(l, m)
    BY <1>0, <1>2 DEF Connect, Disconnect, life, emitting
  <1>3. CASE DisconnectAll \/ MakeFunction
    BY <1>0, <1>3 DEF DisconnectAll, MakeFunction, life, emitting
  <1>4. CASE \E l \in Listener : Exit(l)
    BY <1>0, <1>4 DEF Exit, life, emitting
  <1>5. CASE \/ \E v \in Value : SetValue(v)
             \/ \E e \in Emitter, of \in {"event", "function"} : Emit(e, of)
    BY <1>0, <1>5, Begins DEF BeginStep, life
  <1>6. CASE \E e \in Emitter : PushUnchecked(e) \/ Finish(e)
    BY <1>0, <1>6 DEF PushUnchecked, Finish, life
  <1>7. ASSUME NEW l \in Listener, Release(l)
        PROVE  RefsRight'
    <2>1. /\ owned[l] /\ l \notin Unchecked /\ owned' = [owned EXCEPT ![l] = FALSE]
          /\ refs' = [refs EXCEPT ![l] = @ - 1] /\ UNCHANGED <<locked, running>>
      BY <1>7 DEF Release, Unlock, emitting
    <2>2. \A k : hold(k)' = hold(k)
      BY <1>h, <2>1
    <2>3. /\ owned'[l] = FALSE /\ owned[l] = TRUE /\ refs'[l] = refs[l] - 1
          /\ \A k \in Listener : k # l => owned'[k] = owned[k] /\ refs'[k] = refs[k]
      BY <1>t, <2>1
    <2>4. own(l) = 1 /\ own(l)' = 0 /\ call(l)' = call(l)
      BY <2>1, <2>3 DEF Count
    <2> HIDE DEF own, hold, call
    <2>5. refs'[l] = own(l)' + hold(l)' + call(l)'
      BY <1>r, <2>2, <2>3, <2>4
    <2> QED
      BY <1>q, <2>1, <2>2, <2>3, <2>5
  <1>8. ASSUME NEW e \in Emitter, TryLock(e)
        PROVE  RefsRight'
    <2>0. PICK l \in Listener : l = Head(todo[e]).who
      BY <1>8, TodoType DEF TryLock, Pending
    <2>1. locked[e] = NULL /\ l \notin Unchecked /\ UNCHANGED <<owned, running>>
      BY <1>8, <2>0 DEF TryLock, Pending
    <2>2. CASE UNCHANGED <<refs, locked>>
      BY <1>0, <2>1, <2>2
    <2>3. CASE refs' = [refs EXCEPT ![l] = @ + 1] /\ locked' = [locked EXCEPT ![e] = l]
      <3>1. /\ locked'[e] = l /\ locked[e] = NULL /\ l # NULL
            /\ \A f \in Emitter : f # e => locked'[f] = locked[f]
        BY <1>t, <2>1, <2>3
      <3>2. Holders(l)' = Holders(l) \cup {e} /\ e \notin Holders(l)
        BY <3>1 DEF Holders
      <3>3. \A k \in Listener : k # l => Holders(k)' = Holders(k)
        BY <1>t, <3>1 DEF Holders
      <3>4. hold(l)' = hold(l) + 1
        BY <3>2, HoldersType, FS_AddElement
      <3>5. \A k \in Listener : k # l => hold(k)' = hold(k)
        BY <3>3
      <3>6. /\ refs'[l] = refs[l] + 1
            /\ \A k \in Listener : k # l => refs'[k] = refs[k]
        BY <1>t, <2>1, <2>3
      <3>7. own(l)' = own(l) /\ call(l)' = call(l)
        BY <2>1
      <3> HIDE DEF own, hold, call
      <3>8. refs'[l] = own(l)' + hold(l)' + call(l)'
        BY <1>r, <3>4, <3>6, <3>7
      <3> QED
        BY <1>q, <2>1, <3>5, <3>6, <3>8
    <2> QED
      BY <1>8, <2>0, <2>2, <2>3 DEF TryLock, Lock, Pending
  <1>9. ASSUME NEW e \in Emitter, PushLocked(e)
        PROVE  RefsRight'
    <2>0. PICK l \in Listener : l = locked[e]
      BY <1>9, <1>t DEF PushLocked
    <2>1. /\ l \notin Unchecked /\ UNCHANGED <<owned, running>>
          /\ refs' = [refs EXCEPT ![l] = @ - 1] /\ locked' = [locked EXCEPT ![e] = NULL]
      BY <1>9, <2>0 DEF PushLocked, Unlock, EmittersRight
    <2>2. /\ locked'[e] = NULL /\ l # NULL
          /\ \A f \in Emitter : f # e => locked'[f] = locked[f]
      BY <1>t, <2>1
    <2>3. Holders(l)' = Holders(l) \ {e} /\ e \in Holders(l)
      BY <2>0, <2>2 DEF Holders
    <2>4. \A k \in Listener : k # l => Holders(k)' = Holders(k)
      BY <1>t, <2>0, <2>2 DEF Holders
    <2>5. hold(l)' = hold(l) - 1
      BY <2>3, HoldersType, FS_RemoveElement
    <2>6. \A k \in Listener : k # l => hold(k)' = hold(k)
      BY <2>4
    <2>7. /\ refs'[l] = refs[l] - 1
          /\ \A k \in Listener : k # l => refs'[k] = refs[k]
      BY <1>t, <2>1
    <2>8. own(l)' = own(l) /\ call(l)' = call(l)
      BY <2>1
    <2> HIDE DEF own, hold, call
    <2>9. refs'[l] = own(l)' + hold(l)' + call(l)'
      BY <1>r, <2>5, <2>7, <2>8
    <2> QED
      BY <1>q, <2>1, <2>6, <2>7, <2>9
  <1>10. ASSUME NEW l \in Listener, Run(l)
         PROVE  RefsRight'
    <2>1. /\ running[l] = None /\ UNCHANGED <<owned, locked>>
      BY <1>10 DEF Run, emitting
    <2>2. \A k : hold(k)' = hold(k)
      BY <1>h, <2>1
    <2>3. Head(inbox[l]) # None
      <3>1. Head(inbox[l]) \in Delivery
        BY <1>10, HeadTailProperties DEF Run, TypeOK
      <3> QED
        BY <3>1, EventAssumption DEF Delivery, Ids, None
    <2>4. CASE UNCHANGED <<running, refs>>
      BY <1>0, <2>1, <2>4
    <2>5. CASE l \in Unchecked /\ running' = [running EXCEPT ![l] = Head(inbox[l])]
               /\ UNCHANGED refs
      <3>1. \A k \in Listener : k # l => running'[k] = running[k]
        BY <1>t, <2>5
      <3>2. own(l)' = own(l) /\ call(l)' = call(l)
        BY <2>1, <2>5 DEF Count
      <3>3. l \in Unchecked => owned'[l]
        BY <2>1 DEF RefsRight
      <3> HIDE DEF own, hold, call
      <3>4. refs'[l] = own(l)' + hold(l)' + call(l)'
        BY <1>r, <2>2, <2>5, <3>2
      <3> QED
        BY <1>q, <2>1, <2>2, <2>5, <3>1, <3>3, <3>4
    <2>6. CASE l \notin Unchecked /\ running' = [running EXCEPT ![l] = Head(inbox[l])]
               /\ refs' = [refs EXCEPT ![l] = @ + 1]
      <3>1. /\ running'[l] # None /\ refs'[l] = refs[l] + 1
            /\ \A k \in Listener : k # l => running'[k] = running[k] /\ refs'[k] = refs[k]
        BY <1>t, <2>3, <2>6
      <3>2. own(l)' = own(l) /\ call(l)' = 1 /\ call(l) = 0
        BY <2>1, <2>6, <3>1 DEF Count
      <3> HIDE DEF own, hold, call
      <3>3. refs'[l] = own(l)' + hold(l)' + call(l)'
        BY <1>r, <2>2, <3>1, <3>2
      <3> QED
        BY <1>q, <2>1, <2>2, <2>6, <3>1, <3>3
    <2> QED
      BY <1>10, <2>4, <2>5, <2>6 DEF Run, Lock
  <1>11. ASSUME NEW l \in Listener, Return(l)
         PROVE  RefsRight'
    <2>1. /\ running[l] # None /\ running' = [running EXCEPT ![l] = None]
          /\ UNCHANGED <<owned, locked>>
      BY <1>11 DEF Return, emitting
    <2>2. \A k : hold(k)' = hold(k)
      BY <1>h, <2>1
    <2>3. running'[l] = None /\ \A k \in Listener : k # l => running'[k] = running[k]
      BY <1>t, <2>1
    <2>4. CASE l \in Unchecked /\ UNCHANGED refs
      <3>1. own(l)' = own(l) /\ call(l)' = call(l)
        BY <2>1, <2>4 DEF Count
      <3>2. l \in Unchecked => owned'[l]
        BY <2>1 DEF RefsRight
      <3> HIDE DEF own, hold, call
      <3>3. refs'[l] = own(l)' + hold(l)' + call(l)'
        BY <1>r, <2>2, <2>4, <3>1
      <3> QED
        BY <1>q, <2>1, <2>2, <2>3, <2>4, <3>2, <3>3
    <2>5. CASE l \notin Unchecked /\ refs' = [refs EXCEPT ![l] = @ - 1]
      <3>1. /\ refs'[l] = refs[l] - 1
            /\ \A k \in Listener : k # l => refs'[k] = refs[k]
        BY <1>t, <2>5
      <3>2. own(l)' = own(l) /\ call(l)' = 0 /\ call(l) = 1
        BY <2>1, <2>3, <2>5 DEF Count
      <3> HIDE DEF own, hold, call
      <3>3. refs'[l] = own(l)' + hold(l)' + call(l)'
        BY <1>r, <2>2, <3>1, <3>2
      <3> QED
        BY <1>q, <2>1, <2>2, <2>3, <2>5, <3>1, <3>3
    <2> QED
      BY <1>11, <2>4, <2>5 DEF Return, Unlock
  <1> QED
    BY <1>1, <1>2, <1>3, <1>4, <1>5, <1>6, <1>7, <1>8, <1>9, <1>10, <1>11, Zenon
    DEF Next, EmitterStep
------------------------------------------------------------------------------
(* Types. *)

(* Nobody comes back to life; who dies has his death after the emissions of
   now. *)
LEMMA LifeStep ==
  ASSUME TypeOK, RefsRight, EmittersRight, [Next]_vars
  PROVE  /\ refs' \in [Listener -> Int]
         /\ died' \in [Listener -> 0..Never]
         /\ \A l \in Listener :
              /\ Alive(l)' => Alive(l)
              /\ died'[l] = died[l] \/ (died'[l] = Len(emissions) /\ ~Alive(l)')
PROOF
  <1> DEFINE Goal ==
        /\ refs' \in [Listener -> Int]
        /\ died' \in [Listener -> 0..Never]
        /\ \A l \in Listener :
             /\ Alive(l)' => Alive(l)
             /\ died'[l] = died[l] \/ (died'[l] = Len(emissions) /\ ~Alive(l)')
  <1>1. /\ refs \in [Listener -> Nat] /\ died \in [Listener -> 0..Never]
        /\ Len(emissions) \in 0..Never
    <2>1. refs \in [Listener -> Nat]
      BY HeldLives DEF TypeOK
    <2>2. Len(emissions) \in Nat /\ Len(emissions) <= MaxEmissions
      BY EmissionsBounded DEF EmittersRight
    <2> QED
      BY <2>1, <2>2, EventAssumption DEF TypeOK, Never
  <1>2. ASSUME UNCHANGED <<refs, died>>
        PROVE  Goal
    BY <1>1, <1>2 DEF Alive
  <1>3. ASSUME NEW l \in Listener, Alive(l), Lock(l)
        PROVE  Goal
    <2>1. /\ refs'[l] = refs[l] + 1 /\ refs' \in [Listener -> Int] /\ died' = died
          /\ \A k \in Listener : k # l => refs'[k] = refs[k]
      BY <1>1, <1>3 DEF Lock
    <2> QED
      BY <1>1, <1>3, <2>1 DEF Alive
  <1>4. ASSUME NEW l \in Listener, Unlock(l)
        PROVE  Goal
    <2>1. /\ refs'[l] = refs[l] - 1 /\ refs' \in [Listener -> Int]
          /\ \A k \in Listener : k # l => refs'[k] = refs[k]
      BY <1>1, <1>4 DEF Unlock
    <2>2. CASE refs[l] = 1
      <3>1. /\ died' \in [Listener -> 0..Never] /\ died'[l] = Len(emissions)
            /\ \A k \in Listener : k # l => died'[k] = died[k]
        BY <1>1, <1>4, <2>2 DEF Unlock
      <3> QED
        BY <1>1, <2>1, <2>2, <3>1 DEF Alive
    <2>3. CASE refs[l] # 1
      BY <1>1, <1>4, <2>1, <2>3 DEF Alive, Unlock
    <2> QED
      BY <2>2, <2>3
  <1> HIDE DEF Goal
  <1>5. ASSUME UNCHANGED vars
        PROVE  Goal
    BY <1>2, <1>5 DEF vars, life
  <1>6. ASSUME \E l \in Listener, m \in Method : Connect(l, m) \/ Disconnect(l, m)
        PROVE  Goal
    BY <1>2, <1>6 DEF Connect, Disconnect, life
  <1>7. ASSUME DisconnectAll \/ MakeFunction
        PROVE  Goal
    BY <1>2, <1>7 DEF DisconnectAll, MakeFunction, life
  <1>8. ASSUME \E l \in Listener : Exit(l)
        PROVE  Goal
    BY <1>2, <1>8 DEF Exit, life
  <1>9. ASSUME \/ \E v \in Value : SetValue(v)
               \/ \E e \in Emitter, of \in {"event", "function"} : Emit(e, of)
        PROVE  Goal
    BY <1>2, <1>9, Begins DEF BeginStep, life
  <1>10. ASSUME \E e \in Emitter : PushUnchecked(e) \/ Finish(e)
         PROVE  Goal
    BY <1>2, <1>10 DEF PushUnchecked, Finish, life
  <1>11. ASSUME \E l \in Listener : Release(l)
         PROVE  Goal
    BY <1>4, <1>11 DEF Release
  <1>12. ASSUME NEW e \in Emitter, TryLock(e)
         PROVE  Goal
    BY <1>2, <1>3, <1>12, TodoType DEF TryLock, Pending
  <1>13. ASSUME NEW e \in Emitter, PushLocked(e)
         PROVE  Goal
    BY <1>4, <1>13 DEF PushLocked, TypeOK
  <1>14. ASSUME \E l \in Listener : Run(l)
         PROVE  Goal
    BY <1>2, <1>3, <1>14 DEF Run
  <1>15. ASSUME \E l \in Listener : Return(l)
         PROVE  Goal
    BY <1>2, <1>4, <1>15 DEF Return
  <1>16. Goal
    BY <1>5, <1>6, <1>7, <1>8, <1>9, <1>10, <1>11, <1>12, <1>13, <1>14, <1>15, Zenon
    DEF Next, EmitterStep
  <1> QED
    BY <1>16 DEF Goal

(* Pointers stay in their range: each emitter locks one listener. *)
LEMMA RefsType ==
  ASSUME TypeOK, RefsRight, EmittersRight, [Next]_vars
  PROVE  refs' \in [Listener -> 0..(Cardinality(Emitter) + 2)]
PROOF
  <1>1. refs' \in [Listener -> Int] /\ RefsRight'
    BY LifeStep, RefsStep
  <1> SUFFICES ASSUME NEW l \in Listener
               PROVE  refs'[l] \in 0..(Cardinality(Emitter) + 2)
    BY <1>1
  <1> DEFINE held == Cardinality({e \in Emitter : locked'[e] = l})
             own == Count(owned'[l])
             call == Count(running'[l] # None /\ l \notin Unchecked)
  <1>2. refs'[l] = own + held + call
    BY <1>1 DEF RefsRight
  <1>3. own \in {0, 1} /\ call \in {0, 1}
    BY DEF Count
  <1>4. held \in Nat /\ held <= Cardinality(Emitter) /\ Cardinality(Emitter) \in Nat
    <2>1. IsFiniteSet(Emitter) /\ {e \in Emitter : locked'[e] = l} \in SUBSET Emitter
      BY EventAssumption
    <2> QED
      BY <2>1, FS_Subset, FS_CardinalityType
  <1> HIDE DEF held, own, call
  <1> QED
    BY <1>2, <1>3, <1>4

(* The other types. *)
LEMMA TypeStep ==
  TypeOK /\ RefsRight /\ EmittersRight /\ [Next]_vars => TypeOK'
PROOF
  <1> SUFFICES ASSUME TypeOK, RefsRight, EmittersRight, [Next]_vars
               PROVE  TypeOK'
    OBVIOUS
  <1>t. /\ unchecked \in Seq(Entry) /\ checked \in Seq(Entry) /\ copied \in Seq(Entry)
        /\ field \in Value /\ owned \in [Listener -> BOOLEAN]
        /\ open \in [Listener -> BOOLEAN] /\ inbox \in [Listener -> Seq(Delivery)]
        /\ running \in [Listener -> Delivery \cup {None}]
        /\ current \in [Emitter -> 0..MaxEmissions] /\ todo \in [Emitter -> Seq(Entry)]
        /\ locked \in [Emitter -> Listener \cup {NULL}] /\ changes \in 0..MaxChanges
        /\ emissions \in Seq(Emission) /\ log \in [Listener -> Seq(Delivery)]
        /\ cut \in [Listener \X Method -> 0..Never]
    BY DEF TypeOK, Never
  <1>n. /\ Len(emissions) \in 0..Never /\ Never \in 0..Never /\ 0 \in 0..MaxEmissions
    BY <1>t, EmissionsBounded, EventAssumption DEF EmittersRight, Never
  <1>c. Change => changes' \in 0..MaxChanges
    BY <1>t, EventAssumption DEF Change
  <1>k. refs' \in [Listener -> 0..(Cardinality(Emitter) + 2)] /\ died' \in [Listener -> 0..Never]
    BY RefsType, LifeStep
  <1> DEFINE Lists == unchecked' \in Seq(Entry) /\ checked' \in Seq(Entry) /\ copied' \in Seq(Entry)
             Emissions == emissions' \in Seq(Emission) /\ field' \in Value
             Owned == /\ owned' \in [Listener -> BOOLEAN] /\ open' \in [Listener -> BOOLEAN]
                      /\ changes' \in 0..MaxChanges /\ cut' \in [Listener \X Method -> 0..Never]
             Emitters == /\ current' \in [Emitter -> 0..MaxEmissions]
                         /\ todo' \in [Emitter -> Seq(Entry)]
                         /\ locked' \in [Emitter -> Listener \cup {NULL}]
             Listeners == /\ inbox' \in [Listener -> Seq(Delivery)]
                          /\ running' \in [Listener -> Delivery \cup {None}]
                          /\ log' \in [Listener -> Seq(Delivery)]
  <1>0. Lists /\ Emissions /\ Owned /\ Emitters /\ Listeners => TypeOK'
    BY <1>k DEF TypeOK, Never
  <1>l. UNCHANGED lists => Lists
    BY <1>t DEF lists
  <1>e. UNCHANGED <<emissions, field>> => Emissions
    BY <1>t
  <1>o. UNCHANGED <<owned, open, changes, cut>> => Owned
    BY <1>t
  <1>m. UNCHANGED emitting => Emitters
    BY <1>t DEF emitting
  <1>i. UNCHANGED <<inbox, running, log>> => Listeners
    BY <1>t
  <1>1. CASE UNCHANGED vars
    BY <1>0, <1>l, <1>e, <1>o, <1>m, <1>i, <1>1 DEF vars, life
  <1>2. ASSUME NEW l \in Listener, NEW m \in Method, Connect(l, m)
        PROVE  TypeOK'
    <2>1. [who |-> l, method |-> m] \in Entry
      BY DEF Entry
    <2>2. Lists
      <3>1. \A q \in Seq(Entry) : Append(q, [who |-> l, method |-> m]) \in Seq(Entry)
        BY <2>1, AppendProperties
      <3> QED
        BY <1>2, <1>t, <3>1 DEF Connect
    <2>3. Owned
      BY <1>2, <1>t, <1>n, <1>c DEF Connect, life
    <2> HIDE DEF Lists, Emissions, Owned, Emitters, Listeners
    <2> QED
      BY <1>0, <1>e, <1>m, <1>i, <1>2, <2>2, <2>3 DEF Connect
  <1>3. ASSUME NEW l \in Listener, NEW m \in Method, Disconnect(l, m)
        PROVE  TypeOK'
    <2>1. Lists
      BY <1>3, <1>t, OnlyMembers DEF Disconnect, Remaining
    <2>2. Owned
      BY <1>3, <1>t, <1>n, <1>c DEF Disconnect, life
    <2> HIDE DEF Lists, Emissions, Owned, Emitters, Listeners
    <2> QED
      BY <1>0, <1>e, <1>m, <1>i, <1>3, <2>1, <2>2 DEF Disconnect
  <1>4. ASSUME DisconnectAll
        PROVE  TypeOK'
    <2>1. Lists
      BY <1>4, <1>t, EmptySeq DEF DisconnectAll
    <2>2. Owned
      BY <1>4, <1>t, <1>n, <1>c DEF DisconnectAll, life
    <2> HIDE DEF Lists, Emissions, Owned, Emitters, Listeners
    <2> QED
      BY <1>0, <1>e, <1>m, <1>i, <1>4, <2>1, <2>2 DEF DisconnectAll
  <1>5. ASSUME MakeFunction
        PROVE  TypeOK'
    <2>1. Lists
      BY <1>5, <1>t DEF MakeFunction
    <2>2. Owned
      BY <1>5, <1>t, <1>n, <1>c DEF MakeFunction, life
    <2> HIDE DEF Lists, Emissions, Owned, Emitters, Listeners
    <2> QED
      BY <1>0, <1>e, <1>m, <1>i, <1>5, <2>1, <2>2 DEF MakeFunction
  <1>6. ASSUME NEW l \in Listener, Release(l) \/ Exit(l)
        PROVE  TypeOK'
    <2>1. Owned
      <3>1. CASE Release(l)
        BY <3>1, <1>t, <1>c DEF Release
      <3>2. CASE Exit(l)
        BY <3>2, <1>t, <1>c DEF Exit, life
      <3> QED
        BY <1>6, <3>1, <3>2
    <2> HIDE DEF Lists, Emissions, Owned, Emitters, Listeners
    <2> QED
      BY <1>0, <1>l, <1>e, <1>m, <1>i, <1>6, <2>1 DEF Release, Exit
  <1>7. ASSUME \/ \E v \in Value : SetValue(v)
               \/ \E e \in Emitter, of \in {"event", "function"} : Emit(e, of)
        PROVE  TypeOK'
    <2>1. PICK e \in Emitter, v \in Value \cup {NULL}, of \in {"event", "function"} :
            BeginStep(e, v, of)
      BY <1>7, Begins
    <2>2. field' \in Value
      BY <1>7, <1>t DEF SetValue, Emit
    <2>3. Emitters
      <3>1. Len(emissions) + 1 \in 0..MaxEmissions
        BY <2>1, <1>n, EventAssumption DEF BeginStep
      <3> QED
        BY <2>1, <3>1, <1>t DEF BeginStep
    <2>4. Emissions
      BY <2>1, <2>2 DEF BeginStep
    <2> HIDE DEF Lists, Emissions, Owned, Emitters, Listeners
    <2> QED
      BY <1>0, <1>l, <1>o, <1>i, <2>1, <2>3, <2>4 DEF BeginStep, life
  <1>8. ASSUME NEW e \in Emitter, PushUnchecked(e) \/ PushLocked(e)
        PROVE  TypeOK'
    <2>1. PushStep(e)
      BY <1>8, Pushes
    <2>2. Tail(todo[e]) \in Seq(Entry)
      BY <2>1, TodoType DEF PushStep
    <2>3. Emitters
      <3>1. locked' \in [Emitter -> Listener \cup {NULL}]
        BY <1>8, <1>t DEF PushUnchecked, PushLocked
      <3> QED
        BY <1>t, <2>1, <2>2, <3>1 DEF PushStep
    <2>4. Listeners
      BY <1>t, <2>1 DEF PushStep
    <2> HIDE DEF Lists, Emissions, Owned, Emitters, Listeners
    <2> QED
      BY <1>0, <1>l, <1>e, <1>o, <2>1, <2>3, <2>4 DEF PushStep
  <1>9. ASSUME NEW e \in Emitter, TryLock(e)
        PROVE  TypeOK'
    <2>1. Tail(todo[e]) \in Seq(Entry) /\ Head(todo[e]).who \in Listener
      BY <1>9, TodoType DEF TryLock, Pending
    <2>2. Emitters
      BY <1>9, <1>t, <2>1 DEF TryLock, Pending
    <2> HIDE DEF Lists, Emissions, Owned, Emitters, Listeners
    <2> QED
      BY <1>0, <1>l, <1>e, <1>o, <1>i, <1>9, <2>2 DEF TryLock
  <1>10. ASSUME NEW e \in Emitter, Finish(e)
         PROVE  TypeOK'
    <2>1. Lists
      BY <1>10, <1>t, OnlyMembers DEF Finish, Unexpired
    <2>2. Emitters
      BY <1>10, <1>t, <1>n, EmptySeq DEF Finish
    <2> HIDE DEF Lists, Emissions, Owned, Emitters, Listeners
    <2> QED
      BY <1>0, <1>e, <1>o, <1>i, <1>10, <2>1, <2>2 DEF Finish, life
  <1>11. ASSUME NEW l \in Listener, Run(l)
         PROVE  TypeOK'
    <2>1. Tail(inbox[l]) \in Seq(Delivery) /\ Head(inbox[l]) \in Delivery
      BY <1>11, <1>t, HeadTailProperties DEF Run
    <2>2. Listeners
      BY <1>11, <1>t, <2>1 DEF Run
    <2> HIDE DEF Lists, Emissions, Owned, Emitters, Listeners
    <2> QED
      BY <1>0, <1>l, <1>e, <1>o, <1>m, <1>11, <2>2 DEF Run
  <1>12. ASSUME NEW l \in Listener, Return(l)
         PROVE  TypeOK'
    <2>1. running[l] \in Delivery
      BY <1>12, <1>t DEF Return
    <2>2. Append(log[l], running[l]) \in Seq(Delivery)
      BY <1>t, <2>1, AppendProperties
    <2>3. Listeners
      BY <1>12, <1>t, <2>2 DEF Return
    <2> HIDE DEF Lists, Emissions, Owned, Emitters, Listeners
    <2> QED
      BY <1>0, <1>l, <1>e, <1>o, <1>m, <1>12, <2>3 DEF Return
  <1> QED
    BY <1>1, <1>2, <1>3, <1>4, <1>5, <1>6, <1>7, <1>8, <1>9, <1>10, <1>11, <1>12, Zenon
    DEF Next, EmitterStep
------------------------------------------------------------------------------
(* The invariant, conjunct by conjunct. *)

(* The lists lose entries, or gain one that is connected. *)
LEMMA ListsStep ==
  TypeOK /\ ListsRight /\ EmittersRight /\ [Next]_vars => ListsRight'
PROOF
  <1> SUFFICES ASSUME TypeOK, ListsRight, EmittersRight, [Next]_vars
               PROVE  ListsRight'
    OBVIOUS
  <1>t. /\ unchecked \in Seq(Entry) /\ checked \in Seq(Entry) /\ copied \in Seq(Entry)
        /\ cut \in [Listener \X Method -> 0..Never]
    BY DEF TypeOK, Never
  <1>m. Members(unchecked) \cup Members(checked) \cup Members(copied) \subseteq Entry
    BY <1>t, MembersType
  <1>w. \A x \in Entry : /\ x = [who |-> x.who, method |-> x.method]
                          /\ <<x.who, x.method>> \in Listener \X Method
    BY DEF Entry
  <1>0. ASSUME UNCHANGED <<lists, cut>>
        PROVE  ListsRight'
    BY <1>0 DEF ListsRight, lists
  <1>1. CASE UNCHANGED vars
    BY <1>0, <1>1 DEF vars
  <1>2. ASSUME NEW l \in Listener, NEW m \in Method, Connect(l, m)
        PROVE  ListsRight'
    <2> DEFINE entry == [who |-> l, method |-> m]
    <2>1. entry \in Entry
      BY DEF Entry
    <2>2. \A q \in Seq(Entry) : Members(Append(q, entry)) = Members(q) \cup {entry}
      BY <2>1, MembersAppend
    <2>3. /\ Members(unchecked') \subseteq
               Members(unchecked) \cup (IF l \in Unchecked THEN {entry} ELSE {})
          /\ Members(checked') \subseteq
               Members(checked) \cup (IF l \in Unchecked THEN {} ELSE {entry})
          /\ copied' = copied
      BY <1>2, <1>t, <2>2 DEF Connect
    <2>4. \A x \in Entry : cut'[<<x.who, x.method>>] =
            IF <<x.who, x.method>> = <<l, m>> THEN Never ELSE cut[<<x.who, x.method>>]
      <3>1. cut' = [cut EXCEPT ![<<l, m>>] = Never]
        BY <1>2 DEF Connect
      <3>2. \A y \in Listener \X Method : cut'[y] = IF y = <<l, m>> THEN Never ELSE cut[y]
        BY <1>t, <3>1
      <3> QED
        BY <1>w, <3>2
    <2>5. entry.who = l /\ entry.method = m
      OBVIOUS
    <2> HIDE DEF entry
    <2>6. \A x \in Members(unchecked') \cup Members(checked') :
            x \in Entry /\ (x = entry \/ cut[<<x.who, x.method>>] = Never)
      BY <1>m, <2>1, <2>3 DEF ListsRight
    <2> QED
      BY <1>m, <2>1, <2>3, <2>4, <2>5, <2>6 DEF ListsRight
  <1>3. ASSUME NEW l \in Listener, NEW m \in Method, Disconnect(l, m)
        PROVE  ListsRight'
    <2> DEFINE entry == [who |-> l, method |-> m]
               keep == {x \in Entry : x # entry /\ Alive(x.who)}
    <2>1. \A q \in Seq(Entry) : Members(Remaining(q, l, m)) \subseteq Members(q) \ {entry}
      <3> SUFFICES ASSUME NEW q \in Seq(Entry)
                   PROVE  Members(Remaining(q, l, m)) \subseteq Members(q) \ {entry}
        OBVIOUS
      <3>1. Members(Only(q, keep)) \subseteq Members(q) \cap keep
        BY OnlyMembers
      <3> QED
        BY <3>1 DEF Remaining
    <2>2. /\ Members(unchecked') \subseteq Members(unchecked)
          /\ Members(checked') \subseteq Members(checked)
          /\ l \in Unchecked => entry \notin Members(unchecked')
          /\ l \notin Unchecked => entry \notin Members(checked')
          /\ copied' = copied
      BY <1>3, <1>t, <2>1 DEF Disconnect
    <2>3. \A x \in Entry : x # entry => cut'[<<x.who, x.method>>] = cut[<<x.who, x.method>>]
      <3>1. cut' = [cut EXCEPT ![<<l, m>>] = Len(emissions)]
        BY <1>3 DEF Disconnect
      <3>2. \A y \in Listener \X Method : y # <<l, m>> => cut'[y] = cut[y]
        BY <1>t, <3>1
      <3> QED
        BY <1>w, <3>2
    <2>5. entry.who = l
      OBVIOUS
    <2> HIDE DEF entry
    <2> QED
      BY <1>m, <2>2, <2>3, <2>5 DEF ListsRight
  <1>4. ASSUME DisconnectAll
        PROVE  ListsRight'
    <2>1. Members(unchecked') = {} /\ Members(checked') = {} /\ copied' = copied
      BY <1>4, MembersType, EmptySeq DEF DisconnectAll
    <2> QED
      BY <2>1 DEF ListsRight
  <1>5. CASE MakeFunction
    BY <1>5 DEF MakeFunction, ListsRight
  <1>6. CASE \E l \in Listener : Release(l) \/ Exit(l) \/ Run(l) \/ Return(l)
    BY <1>0, <1>6 DEF Release, Exit, Run, Return
  <1>7. CASE \/ \E v \in Value : SetValue(v)
             \/ \E e \in Emitter, of \in {"event", "function"} : Emit(e, of)
    BY <1>0, <1>7, Begins DEF BeginStep
  <1>8. CASE \E e \in Emitter : PushUnchecked(e) \/ TryLock(e) \/ PushLocked(e)
    BY <1>0, <1>8 DEF PushUnchecked, TryLock, PushLocked
  <1>9. ASSUME NEW e \in Emitter, Finish(e)
        PROVE  ListsRight'
    <2>1. \A q \in Seq(Entry) : Members(Unexpired(q)) \subseteq Members(q)
      BY OnlyMembers DEF Unexpired
    <2>2. /\ Members(checked') \subseteq Members(checked)
          /\ Members(copied') \subseteq Members(copied)
          /\ UNCHANGED <<unchecked, cut>>
      BY <1>9, <1>t, <2>1 DEF Finish
    <2> QED
      BY <2>2 DEF ListsRight
  <1> QED
    BY <1>1, <1>2, <1>3, <1>4, <1>5, <1>6, <1>7, <1>8, <1>9, Zenon DEF Next, EmitterStep

(* An emitter begins an emission after all others, goes through it and ends
   it. *)
LEMMA EmittersStep ==
  TypeOK /\ EmittersRight /\ [Next]_vars => EmittersRight'
PROOF
  <1> SUFFICES ASSUME TypeOK, EmittersRight, [Next]_vars
               PROVE  EmittersRight'
    OBVIOUS
  <1>t. /\ current \in [Emitter -> 0..MaxEmissions] /\ todo \in [Emitter -> Seq(Entry)]
        /\ locked \in [Emitter -> Listener \cup {NULL}]
        /\ Len(emissions) \in Nat /\ MaxEmissions \in Nat /\ NULL \notin Listener
    BY EmissionsBounded, EventAssumption DEF TypeOK
  <1>0. ASSUME UNCHANGED <<emitting, emissions>>
        PROVE  EmittersRight'
    BY <1>0 DEF EmittersRight, emitting
  <1>1. CASE UNCHANGED vars
    BY <1>0, <1>1 DEF vars
  <1>2. CASE \E l \in Listener, m \in Method : Connect(l, m) \/ Disconnect(l, m)
    BY <1>0, <1>2 DEF Connect, Disconnect
  <1>3. CASE DisconnectAll \/ MakeFunction
    BY <1>0, <1>3 DEF DisconnectAll, MakeFunction
  <1>4. CASE \E l \in Listener : Release(l) \/ Exit(l) \/ Run(l) \/ Return(l)
    BY <1>0, <1>4 DEF Release, Exit, Run, Return
  <1>5. ASSUME \/ \E v \in Value : SetValue(v)
               \/ \E e \in Emitter, of \in {"event", "function"} : Emit(e, of)
        PROVE  EmittersRight'
    <2>1. PICK e \in Emitter, v \in Value \cup {NULL}, of \in {"event", "function"} :
            BeginStep(e, v, of)
      BY <1>5, Begins
    <2>2. /\ current[e] = 0 /\ current'[e] = Len(emissions) + 1
          /\ \A f \in Emitter : f # e => current'[f] = current[f] /\ todo'[f] = todo[f]
          /\ locked' = locked
          /\ Len(emissions') = Len(emissions) + 1 /\ Len(emissions) < MaxEmissions
          /\ \A id \in 1..Len(emissions) : emissions'[id] = emissions[id]
          /\ emissions'[Len(emissions) + 1].by = e
      BY <1>t, <2>1 DEF BeginStep
    <2>3. todo[e] = <<>> /\ locked[e] = NULL
      BY <2>2 DEF EmittersRight
    <2>4. Len(emissions') <= MaxEmissions
      BY <1>t, <2>2
    <2> SUFFICES ASSUME NEW f \in Emitter
                 PROVE  /\ current'[f] = 0 => todo'[f] = <<>>
                        /\ current'[f] # 0 => /\ current'[f] <= Len(emissions')
                                              /\ emissions'[current'[f]].by = f
                        /\ \A id \in 1..Len(emissions') :
                             emissions'[id].by = f /\ current'[f] # 0 => id <= current'[f]
                        /\ locked'[f] # NULL => /\ todo'[f] # <<>>
                                                /\ Head(todo'[f]).who = locked'[f]
                                                /\ locked'[f] \notin Unchecked
      BY <2>4 DEF EmittersRight
    <2>5. CASE f = e
      <3>1. current'[f] = Len(emissions) + 1 /\ locked'[f] = NULL
        BY <2>2, <2>3, <2>5
      <3> QED
        BY <1>t, <2>2, <2>5, <3>1
    <2>6. CASE f # e
      <3>1. current'[f] = current[f] /\ todo'[f] = todo[f] /\ locked'[f] = locked[f]
        BY <2>2, <2>6
      <3>2. /\ current[f] = 0 => todo[f] = <<>>
            /\ locked[f] # NULL => /\ todo[f] # <<>> /\ Head(todo[f]).who = locked[f]
                                   /\ locked[f] \notin Unchecked
        BY DEF EmittersRight
      <3>3. ASSUME current[f] # 0
            PROVE  /\ current[f] <= Len(emissions')
                   /\ emissions'[current[f]].by = f
        <4>1. current[f] \in 1..Len(emissions) /\ emissions[current[f]].by = f
          BY <1>t, <3>3 DEF EmittersRight
        <4> QED
          BY <1>t, <2>2, <4>1
      <3>4. ASSUME NEW id \in 1..Len(emissions'), emissions'[id].by = f, current[f] # 0
            PROVE  id <= current[f]
        <4>1. id \in 1..Len(emissions)
          BY <1>t, <2>2, <2>6, <3>4
        <4> QED
          BY <2>2, <3>4, <4>1 DEF EmittersRight
      <3> QED
        BY <3>1, <3>2, <3>3, <3>4
    <2> QED
      BY <2>5, <2>6
  <1>r. ASSUME NEW e \in Emitter,
               \A f \in Emitter : f # e =>
                 current'[f] = current[f] /\ todo'[f] = todo[f] /\ locked'[f] = locked[f],
               emissions' = emissions,
               current'[e] = current[e] \/ (current'[e] = 0 /\ todo'[e] = <<>>),
               current'[e] = 0 => todo'[e] = <<>>,
               locked'[e] # NULL => /\ todo'[e] # <<>> /\ Head(todo'[e]).who = locked'[e]
                                    /\ locked'[e] \notin Unchecked
        PROVE  EmittersRight'
    <2> SUFFICES ASSUME NEW f \in Emitter
                 PROVE  /\ current'[f] = 0 => todo'[f] = <<>>
                        /\ current'[f] # 0 => /\ current'[f] <= Len(emissions')
                                              /\ emissions'[current'[f]].by = f
                        /\ \A id \in 1..Len(emissions') :
                             emissions'[id].by = f /\ current'[f] # 0 => id <= current'[f]
                        /\ locked'[f] # NULL => /\ todo'[f] # <<>>
                                                /\ Head(todo'[f]).who = locked'[f]
                                                /\ locked'[f] \notin Unchecked
      BY <1>r DEF EmittersRight
    <2>1. CASE f = e
      BY <1>r, <2>1 DEF EmittersRight
    <2>2. CASE f # e
      <3>1. current'[f] = current[f] /\ todo'[f] = todo[f] /\ locked'[f] = locked[f]
        BY <1>r, <2>2
      <3> QED
        BY <1>r, <3>1 DEF EmittersRight
    <2> QED
      BY <2>1, <2>2
  <1>6. ASSUME NEW e \in Emitter, PushUnchecked(e) \/ PushLocked(e)
        PROVE  EmittersRight'
    <2>1. /\ todo' = [todo EXCEPT ![e] = Tail(@)] /\ UNCHANGED <<current, emissions>>
          /\ todo[e] # <<>> /\ current[e] \in 1..Len(emissions)
      BY <1>6, Pushes DEF PushStep
    <2>2. locked'[e] = NULL /\ \A f \in Emitter : f # e => locked'[f] = locked[f]
      BY <1>6, <1>t DEF PushUnchecked, PushLocked, Pending, EmittersRight
    <2> QED
      BY <1>r, <1>t, <2>1, <2>2
  <1>7. ASSUME NEW e \in Emitter, TryLock(e)
        PROVE  EmittersRight'
    <2>1. todo[e] # <<>> /\ locked[e] = NULL /\ UNCHANGED <<current, emissions>>
          /\ Head(todo[e]).who \notin Unchecked /\ current[e] # 0
      BY <1>7 DEF TryLock, Pending, EmittersRight
    <2>2. CASE locked' = [locked EXCEPT ![e] = Head(todo[e]).who] /\ UNCHANGED todo
      BY <1>r, <1>t, <2>1, <2>2
    <2>3. CASE todo' = [todo EXCEPT ![e] = Tail(todo[e])] /\ UNCHANGED locked
      BY <1>r, <1>t, <2>1, <2>3
    <2> QED
      BY <1>7, <2>2, <2>3 DEF TryLock, Pending
  <1>8. ASSUME NEW e \in Emitter, Finish(e)
        PROVE  EmittersRight'
    <2>1. /\ current' = [current EXCEPT ![e] = 0] /\ todo' = [todo EXCEPT ![e] = <<>>]
          /\ UNCHANGED <<locked, emissions>> /\ locked[e] = NULL
      BY <1>8 DEF Finish
    <2> QED
      BY <1>r, <1>t, <2>1
  <1> QED
    BY <1>1, <1>2, <1>3, <1>4, <1>5, <1>6, <1>7, <1>8, Zenon DEF Next, EmitterStep
(* Emissions are kept, and cuts but for those that are made now. *)
Kept ==
  /\ Len(emissions') \in Nat /\ Len(emissions') >= Len(emissions)
  /\ \A id \in 1..Len(emissions) : emissions'[id] = emissions[id]
  /\ \A y \in Listener \X Method : cut'[y] = cut[y] \/ cut'[y] >= Len(emissions)

(* Every step keeps them. *)
LEMMA KeptStep ==
  TypeOK /\ EmittersRight /\ [Next]_vars => Kept
PROOF
  <1> SUFFICES ASSUME TypeOK, EmittersRight, [Next]_vars
               PROVE  Kept
    OBVIOUS
  <1>t. /\ Len(emissions) \in Nat /\ Len(emissions) <= MaxEmissions /\ MaxEmissions \in Nat
        /\ cut \in [Listener \X Method -> 0..Never]
    BY EmissionsBounded, EventAssumption DEF TypeOK, Never, EmittersRight
  <1>0. ASSUME UNCHANGED <<emissions, cut>>
        PROVE  Kept
    BY <1>t, <1>0 DEF Kept
  <1>1. ASSUME NEW y \in Listener \X Method, NEW n \in {Never, Len(emissions)},
               cut' = [cut EXCEPT ![y] = n], UNCHANGED emissions
        PROVE  Kept
    BY <1>t, <1>1 DEF Kept, Never
  <1>2. CASE UNCHANGED vars
    BY <1>0, <1>2 DEF vars
  <1>3. ASSUME NEW l \in Listener, NEW m \in Method, Connect(l, m) \/ Disconnect(l, m)
        PROVE  Kept
    BY <1>1, <1>3 DEF Connect, Disconnect
  <1>4. CASE DisconnectAll
    BY <1>t, <1>4 DEF DisconnectAll, Kept
  <1>5. CASE \E l \in Listener : Release(l) \/ Exit(l) \/ Run(l) \/ Return(l)
    BY <1>0, <1>5 DEF Release, Exit, Run, Return
  <1>6. CASE \/ \E v \in Value : SetValue(v)
             \/ \E e \in Emitter, of \in {"event", "function"} : Emit(e, of)
    BY <1>t, <1>6, Begins DEF BeginStep, Kept
  <1>7. CASE \E e \in Emitter : EmitterStep(e)
    BY <1>0, <1>7 DEF EmitterStep, PushUnchecked, TryLock, PushLocked, Finish
  <1>8. CASE MakeFunction
    BY <1>0, <1>8 DEF MakeFunction
  <1> QED
    BY <1>2, <1>3, <1>4, <1>5, <1>6, <1>7, <1>8, Zenon DEF Next

(* What a listener is told has a type, and nothing else than a push adds to
   it. *)
LEMMA ToldType ==
  ASSUME TypeOK, NEW l \in Listener
  PROVE  /\ Told(l) \subseteq Delivery
         /\ inbox[l] \in Seq(Delivery) /\ log[l] \in Seq(Delivery)
         /\ running[l] # None => running[l] \in Delivery
         /\ Members(inbox[l]) \subseteq Told(l) /\ Members(log[l]) \subseteq Told(l)
PROOF
  <1>1. /\ inbox[l] \in Seq(Delivery) /\ log[l] \in Seq(Delivery)
        /\ running[l] # None => running[l] \in Delivery
    BY DEF TypeOK
  <1>2. Members(inbox[l]) \subseteq Delivery /\ Members(log[l]) \subseteq Delivery
    BY <1>1, MembersType
  <1> QED
    BY <1>1, <1>2 DEF Told

(* The first lambda of a listener is taken, or dropped. *)
LEMMA RunTakes ==
  ASSUME TypeOK, NEW l \in Listener, Run(l)
  PROVE  /\ running[l] = None /\ inbox[l] # <<>>
         /\ Head(inbox[l]) \in Delivery /\ Head(inbox[l]) # None
         /\ Tail(inbox[l]) \in Seq(Delivery)
         /\ Members(inbox[l]) = Members(Tail(inbox[l])) \cup {Head(inbox[l])}
         /\ inbox'[l] = Tail(inbox[l])
         /\ \/ running'[l] = Head(inbox[l])
            \/ running'[l] = None /\ ~Alive(l)
         /\ \A k \in Listener : k # l => inbox'[k] = inbox[k] /\ running'[k] = running[k]
         /\ UNCHANGED <<lists, owned, emitting, changes, field, open, emissions, log, cut>>
PROOF
  <1>1. inbox \in [Listener -> Seq(Delivery)] /\ running \in [Listener -> Delivery \cup {None}]
    BY DEF TypeOK
  <1>2. running[l] = None /\ inbox[l] # <<>> /\ inbox' = [inbox EXCEPT ![l] = Tail(@)]
    BY DEF Run
  <1>3. /\ Head(inbox[l]) \in Delivery /\ Tail(inbox[l]) \in Seq(Delivery)
        /\ Members(inbox[l]) = Members(Tail(inbox[l])) \cup {Head(inbox[l])}
    BY <1>1, <1>2, MembersTail
  <1>4. Head(inbox[l]) # None
    BY <1>3, EventAssumption DEF Delivery, Ids, None
  <1>5. inbox'[l] = Tail(inbox[l]) /\ \A k \in Listener : k # l => inbox'[k] = inbox[k]
    BY <1>1, <1>2
  <1>6. \/ running' = [running EXCEPT ![l] = Head(inbox[l])]
        \/ UNCHANGED running /\ ~Alive(l)
    BY DEF Run
  <1>7. /\ \/ running'[l] = Head(inbox[l])
           \/ running'[l] = None /\ ~Alive(l)
        /\ \A k \in Listener : k # l => running'[k] = running[k]
    BY <1>1, <1>2, <1>6
  <1>8. UNCHANGED <<lists, owned, emitting, changes, field, open, emissions, log, cut>>
    BY DEF Run
  <1> QED
    BY <1>2, <1>3, <1>4, <1>5, <1>7, <1>8

(* The lambda that is being executed is over. *)
LEMMA ReturnLogs ==
  ASSUME TypeOK, NEW l \in Listener, Return(l)
  PROVE  /\ running[l] \in Delivery /\ running[l] # None /\ running'[l] = None
         /\ log'[l] = Append(log[l], running[l])
         /\ Members(log'[l]) = Members(log[l]) \cup {running[l]}
         /\ \A k \in Listener : k # l => log'[k] = log[k] /\ running'[k] = running[k]
         /\ UNCHANGED <<lists, owned, emitting, changes, field, open, inbox, emissions, cut>>
PROOF
  <1>1. log \in [Listener -> Seq(Delivery)] /\ running \in [Listener -> Delivery \cup {None}]
    BY DEF TypeOK
  <1>2. /\ running[l] # None /\ running' = [running EXCEPT ![l] = None]
        /\ log' = [log EXCEPT ![l] = Append(@, running[l])]
        /\ UNCHANGED <<lists, owned, emitting, changes, field, open, inbox, emissions, cut>>
    BY DEF Return
  <1>3. running[l] \in Delivery
    BY <1>1, <1>2
  <1>4. Members(Append(log[l], running[l])) = Members(log[l]) \cup {running[l]}
    BY <1>1, <1>3, MembersAppend
  <1>5. log'[l] = Append(log[l], running[l]) /\ running'[l] = None
    BY <1>1, <1>2
  <1>6. \A k \in Listener : k # l => log'[k] = log[k] /\ running'[k] = running[k]
    BY <1>1, <1>2
  <1> QED
    BY <1>2, <1>3, <1>4, <1>5, <1>6

(* Who connects is called, or is to be called, by no emission that began after
   he was disconnected. *)
LEMMA CutStep ==
  TypeOK /\ ListsRight /\ EmittersRight /\ CutRight /\ [Next]_vars => CutRight'
PROOF
  <1> SUFFICES ASSUME TypeOK, ListsRight, EmittersRight, CutRight, [Next]_vars
               PROVE  CutRight'
    OBVIOUS
  <1> DEFINE Reach(e) == current[e] # 0 /\ emissions[current[e]].of = "event" =>
                           \A x \in Members(todo[e]) : current[e] <= cut[<<x.who, x.method>>]
             Heard(l) == \A d \in Told(l) :
                           /\ d.id \in 1..Len(emissions)
                           /\ emissions[d.id].of = "event" => d.id <= cut[<<l, d.method>>]
  <1>q. (\A e \in Emitter : Reach(e)') /\ (\A l \in Listener : Heard(l)') => CutRight'
    BY DEF CutRight
  <1>k. Kept /\ Len(emissions) \in Nat
    BY KeptStep, EmissionsBounded
  <1>t. /\ current \in [Emitter -> 0..MaxEmissions] /\ todo \in [Emitter -> Seq(Entry)]
        /\ cut \in [Listener \X Method -> 0..Never] /\ cut' \in [Listener \X Method -> Int]
        /\ MaxEmissions \in Nat
    <2>1. cut' \in [Listener \X Method -> Int]
      <3>1. cut \in [Listener \X Method -> Int] /\ Never \in Int
        BY EventAssumption DEF TypeOK, Never
      <3>2. CASE UNCHANGED cut
        BY <3>1, <3>2
      <3>3. ASSUME NEW l \in Listener, NEW m \in Method, Connect(l, m) \/ Disconnect(l, m)
            PROVE  cut' \in [Listener \X Method -> Int]
        <4>1. PICK n \in Int : cut' = [cut EXCEPT ![<<l, m>>] = n]
          <5>1. CASE Connect(l, m)
            BY <3>1, <5>1 DEF Connect
          <5>2. CASE Disconnect(l, m)
            <6>1. cut' = [cut EXCEPT ![<<l, m>>] = Len(emissions)]
              BY <5>2 DEF Disconnect
            <6>2. Len(emissions) \in Int
              BY <1>k
            <6> QED
              BY <6>1, <6>2
          <5> QED
            BY <3>3, <5>1, <5>2
        <4> QED
          BY <3>1, <4>1
      <3>4. CASE DisconnectAll
        BY <1>k, <3>4 DEF DisconnectAll
      <3> QED
        BY <3>2, <3>3, <3>4, Begins
        DEF Next, vars, Release, Exit, Run, Return, MakeFunction, EmitterStep, PushUnchecked,
            TryLock, PushLocked, Finish, BeginStep
    <2> QED
      BY <2>1, EventAssumption DEF TypeOK, Never
  <1>y. ASSUME NEW y \in Listener \X Method, NEW id \in 1..Len(emissions), id <= cut[y]
        PROVE  id <= cut'[y]
    <2>1. cut'[y] = cut[y] \/ cut'[y] >= Len(emissions)
      BY <1>k DEF Kept
    <2> QED
      BY <1>k, <1>t, <1>y, <2>1
  <1>e. ASSUME NEW e \in Emitter, current'[e] = current[e],
               Members(todo'[e]) \subseteq Members(todo[e])
        PROVE  Reach(e)'
    <2> SUFFICES ASSUME current[e] # 0, emissions'[current[e]].of = "event",
                        NEW x \in Members(todo'[e])
                 PROVE  current[e] <= cut'[<<x.who, x.method>>]
      BY <1>e
    <2>1. current[e] \in 1..Len(emissions)
      BY <1>t, <1>k DEF EmittersRight
    <2>2. emissions[current[e]].of = "event"
      BY <2>1, <1>k DEF Kept
    <2>3. x \in Members(todo[e]) /\ x \in Entry
      BY <1>e, <1>t, MembersType
    <2>4. current[e] <= cut[<<x.who, x.method>>] /\ <<x.who, x.method>> \in Listener \X Method
      BY <2>2, <2>3 DEF CutRight, Entry
    <2> QED
      BY <1>y, <2>1, <2>4
  <1>l. ASSUME NEW l \in Listener, NEW d \in Told(l)
        PROVE  /\ d.id \in 1..Len(emissions')
               /\ emissions'[d.id].of = "event" => d.id <= cut'[<<l, d.method>>]
    <2>1. d \in Delivery /\ <<l, d.method>> \in Listener \X Method
      BY ToldType DEF Delivery
    <2>2. /\ d.id \in 1..Len(emissions)
          /\ emissions[d.id].of = "event" => d.id <= cut[<<l, d.method>>]
      BY DEF CutRight
    <2>3. d.id \in 1..Len(emissions') /\ emissions'[d.id] = emissions[d.id]
      BY <1>k, <2>2 DEF Kept
    <2>4. emissions'[d.id].of = "event" => d.id <= cut'[<<l, d.method>>]
      BY <1>y, <2>1, <2>2, <2>3
    <2> QED
      BY <2>3, <2>4
  <1>s. ASSUME NEW l \in Listener, Told(l)' \subseteq Told(l)
        PROVE  Heard(l)'
    BY <1>l, <1>s
  <1>0. ASSUME UNCHANGED <<current, todo, inbox, running, log>>
        PROVE  CutRight'
    <2>1. \A e \in Emitter : Reach(e)'
      BY <1>e, <1>0
    <2>2. \A l \in Listener : Told(l)' = Told(l)
      BY <1>0 DEF Told
    <2> HIDE DEF Reach, Heard
    <2> QED
      BY <1>q, <1>s, <2>1, <2>2
  <1>1. CASE UNCHANGED vars
    BY <1>0, <1>1 DEF vars, emitting
  <1>2. CASE \E l \in Listener, m \in Method : Connect(l, m) \/ Disconnect(l, m)
    BY <1>0, <1>2 DEF Connect, Disconnect, emitting
  <1>3. CASE DisconnectAll \/ MakeFunction
    BY <1>0, <1>3 DEF DisconnectAll, MakeFunction, emitting
  <1>4. CASE \E l \in Listener : Release(l) \/ Exit(l)
    BY <1>0, <1>4 DEF Release, Exit, emitting
  <1>5. ASSUME \/ \E v \in Value : SetValue(v)
               \/ \E e \in Emitter, of \in {"event", "function"} : Emit(e, of)
        PROVE  CutRight'
    <2>1. PICK e \in Emitter, v \in Value \cup {NULL}, of \in {"event", "function"} :
            BeginStep(e, v, of)
      BY <1>5, Begins
    <2>2. \A l \in Listener : Told(l)' = Told(l)
      BY <2>1 DEF BeginStep, Told
    <2>3. \A f \in Emitter : f # e => current'[f] = current[f] /\ todo'[f] = todo[f]
      BY <1>t, <2>1 DEF BeginStep
    <2>4. \A f \in Emitter : f # e => Reach(f)'
      BY <1>e, <2>3
    <2>5. Reach(e)'
      <3> SUFFICES ASSUME emissions'[current'[e]].of = "event", NEW x \in Members(todo'[e])
                   PROVE  current'[e] <= cut'[<<x.who, x.method>>]
        OBVIOUS
      <3>1. current'[e] = Len(emissions) + 1 /\ cut' = cut /\ of = "event"
            /\ todo'[e] = unchecked \o checked /\ Len(emissions) < MaxEmissions
        BY <1>t, <2>1 DEF BeginStep
      <3>2. unchecked \in Seq(Entry) /\ checked \in Seq(Entry)
        BY DEF TypeOK
      <3>3. x \in Members(unchecked) \cup Members(checked)
        BY <3>1, <3>2, MembersConcat
      <3>4. cut[<<x.who, x.method>>] = Never
        BY <3>3 DEF ListsRight
      <3> QED
        BY <1>t, <1>k, <3>1, <3>4 DEF Never
    <2> HIDE DEF Reach, Heard
    <2> QED
      BY <1>q, <1>s, <2>2, <2>4, <2>5
  <1>6. ASSUME NEW e \in Emitter, PushUnchecked(e) \/ PushLocked(e)
        PROVE  CutRight'
    <2>0. PushStep(e) /\ todo[e] # <<>>
      BY <1>6, Pushes DEF PushStep
    <2>1. PICK x \in Entry : x = Head(todo[e])
      BY <2>0, TodoType
    <2>2. PICK d : d = [id |-> current[e], method |-> x.method]
      OBVIOUS
    <2>3. /\ d \in Delivery /\ d.id = current[e] /\ d.method = x.method /\ x.who \in Listener
          /\ inbox'[x.who] = Append(inbox[x.who], d) \/ inbox'[x.who] = inbox[x.who]
          /\ \A l \in Listener : l # x.who => inbox'[l] = inbox[l]
          /\ current' = current /\ todo' = [todo EXCEPT ![e] = Tail(@)]
          /\ UNCHANGED <<running, log, emissions, cut>>
          /\ current[e] \in 1..Len(emissions)
      BY <2>0, <2>1, <2>2 DEF PushStep, Entry
    <2>4. Members(todo[e]) = Members(Tail(todo[e])) \cup {x}
      BY <1>t, <2>0, <2>1, MembersTail
    <2>5. \A f \in Emitter : Reach(f)'
      BY <1>e, <1>t, <2>3, <2>4
    <2>6. Members(inbox'[x.who]) \subseteq Members(inbox[x.who]) \cup {d}
      <3>1. inbox[x.who] \in Seq(Delivery)
        BY <2>3, ToldType
      <3>2. Members(Append(inbox[x.who], d)) = Members(inbox[x.who]) \cup {d}
        BY <2>3, <3>1, MembersAppend
      <3> QED
        BY <2>3, <3>2
    <2>7. \A l \in Listener : Told(l)' \subseteq Told(l) \cup (IF l = x.who THEN {d} ELSE {})
      BY <2>3, <2>6 DEF Told
    <2>8. /\ d.id \in 1..Len(emissions')
          /\ emissions'[d.id].of = "event" => d.id <= cut'[<<x.who, d.method>>]
      BY <2>3, <2>4 DEF CutRight
    <2>9. \A l \in Listener : Heard(l)'
      BY <1>l, <2>7, <2>8
    <2> HIDE DEF Reach, Heard
    <2> QED
      BY <1>q, <2>5, <2>9
  <1>7. ASSUME NEW e \in Emitter, TryLock(e) \/ Finish(e)
        PROVE  CutRight'
    <2>1. \A l \in Listener : Told(l)' = Told(l)
      BY <1>7 DEF TryLock, Finish, Told
    <2>2. \A f \in Emitter : f # e => current'[f] = current[f] /\ todo'[f] = todo[f]
      BY <1>7, <1>t DEF TryLock, Finish
    <2>3. \A f \in Emitter : f # e => Reach(f)'
      BY <1>e, <2>2
    <2>4. Reach(e)'
      <3>1. CASE TryLock(e)
        <4>1. Members(Tail(todo[e])) \subseteq Members(todo[e])
          BY <1>t, <3>1, MembersTail DEF TryLock, Pending
        <4>2. current' = current /\ (todo'[e] = Tail(todo[e]) \/ todo'[e] = todo[e])
          BY <1>t, <3>1 DEF TryLock, Pending
        <4> QED
          BY <1>e, <4>1, <4>2
      <3>2. CASE Finish(e)
        BY <1>t, <3>2 DEF Finish
      <3> QED
        BY <1>7, <3>1, <3>2
    <2> HIDE DEF Reach, Heard
    <2> QED
      BY <1>q, <1>s, <2>1, <2>3, <2>4
  <1>8. ASSUME NEW l \in Listener, Run(l) \/ Return(l)
        PROVE  CutRight'
    <2>1. \A e \in Emitter : Reach(e)'
      BY <1>e, <1>8 DEF Run, Return, emitting
    <2>2. \A k \in Listener : Told(k)' \subseteq Told(k)
      <3>1. CASE Run(l)
        BY <3>1, RunTakes DEF Told
      <3>2. CASE Return(l)
        BY <3>2, ReturnLogs DEF Told
      <3> QED
        BY <1>8, <3>1, <3>2
    <2> HIDE DEF Reach, Heard
    <2> QED
      BY <1>q, <1>s, <2>1, <2>2
  <1> QED
    BY <1>1, <1>2, <1>3, <1>4, <1>5, <1>6, <1>7, <1>8, Zenon DEF Next, EmitterStep
(* Lambdas are queued and executed in the order of the emissions. *)
LEMMA OrderStep ==
  TypeOK /\ EmittersRight /\ CutRight /\ OrderRight /\ [Next]_vars => OrderRight'
PROOF
  <1> SUFFICES ASSUME TypeOK, EmittersRight, CutRight, OrderRight, [Next]_vars
               PROVE  OrderRight'
    OBVIOUS
  <1> DEFINE InTurn(em, done, now, next) ==
        /\ Sorted(em, done) /\ Sorted(em, next)
        /\ \A x \in Members(done), y \in Members(next) : Before(em, x, y)
        /\ now # None => /\ \A x \in Members(done) : Before(em, x, now)
                         /\ \A y \in Members(next) : Before(em, now, y)
  <1>r. \A l \in Listener : InTurn(emissions, log[l], running[l], inbox[l])
    BY DEF OrderRight
  <1>q. (\A l \in Listener : InTurn(emissions', log'[l], running'[l], inbox'[l])) => OrderRight'
    BY DEF OrderRight
  <1>0. ASSUME UNCHANGED <<emissions, log, running, inbox>>
        PROVE  OrderRight'
    BY <1>r, <1>q, <1>0
  <1>1. CASE UNCHANGED vars
    BY <1>0, <1>1 DEF vars
  <1>2. CASE \E l \in Listener, m \in Method : Connect(l, m) \/ Disconnect(l, m)
    BY <1>0, <1>2 DEF Connect, Disconnect
  <1>3. CASE DisconnectAll \/ MakeFunction
    BY <1>0, <1>3 DEF DisconnectAll, MakeFunction
  <1>4. CASE \E l \in Listener : Release(l) \/ Exit(l)
    BY <1>0, <1>4 DEF Release, Exit
  <1>5. CASE \E e \in Emitter : TryLock(e) \/ Finish(e)
    BY <1>0, <1>5 DEF TryLock, Finish
  <1>6. ASSUME \/ \E v \in Value : SetValue(v)
               \/ \E e \in Emitter, of \in {"event", "function"} : Emit(e, of)
        PROVE  OrderRight'
    <2>1. PICK e \in Emitter, v \in Value \cup {NULL}, of \in {"event", "function"} :
            BeginStep(e, v, of)
      BY <1>6, Begins
    <2>2. UNCHANGED <<log, running, inbox>>
          /\ \A id \in 1..Len(emissions) : emissions'[id] = emissions[id]
      BY <2>1 DEF BeginStep
    <2> SUFFICES ASSUME NEW l \in Listener
                 PROVE  InTurn(emissions', log[l], running[l], inbox[l])
      BY <1>q, <2>2
    <2>3. /\ \A d \in Told(l) : d.id \in 1..Len(emissions)
          /\ Members(log[l]) \subseteq Told(l) /\ Members(inbox[l]) \subseteq Told(l)
          /\ running[l] # None => running[l] \in Told(l)
      BY DEF CutRight, Told
    <2>4. \A x, y \in Told(l) : Before(emissions, x, y) => Before(emissions', x, y)
      BY <2>2, <2>3 DEF Before
    <2>5. ASSUME NEW q \in Seq(Delivery), Members(q) \subseteq Told(l), Sorted(emissions, q)
          PROVE  Sorted(emissions', q)
      <3> SUFFICES ASSUME NEW j \in DOMAIN q, NEW i \in 1..j
                   PROVE  Before(emissions', q[i], q[j])
        BY DEF Sorted
      <3>1. i \in DOMAIN q
        BY LenProperties
      <3>2. q[i] \in Told(l) /\ q[j] \in Told(l)
        BY <2>5, <3>1 DEF Members
      <3>3. Before(emissions, q[i], q[j])
        BY <2>5 DEF Sorted
      <3> QED
        BY <2>4, <3>2, <3>3
    <2>6. log[l] \in Seq(Delivery) /\ inbox[l] \in Seq(Delivery)
      BY ToldType
    <2> QED
      BY <1>r, <2>3, <2>4, <2>5, <2>6
  <1>7. ASSUME NEW e \in Emitter, PushUnchecked(e) \/ PushLocked(e)
        PROVE  OrderRight'
    <2>0. PushStep(e) /\ todo[e] # <<>>
      BY <1>7, Pushes DEF PushStep
    <2>1. PICK x \in Entry : x = Head(todo[e])
      BY <2>0, TodoType
    <2>2. PICK d : d = [id |-> current[e], method |-> x.method]
      OBVIOUS
    <2>3. /\ d \in Delivery /\ d.id = current[e] /\ x.who \in Listener
          /\ inbox'[x.who] = Append(inbox[x.who], d) \/ inbox'[x.who] = inbox[x.who]
          /\ \A l \in Listener : l # x.who => inbox'[l] = inbox[l]
          /\ UNCHANGED <<running, log, emissions>>
          /\ current[e] \in 1..Len(emissions) /\ emissions[current[e]].by = e
      BY <2>0, <2>1, <2>2 DEF PushStep, Entry
    <2>4. ASSUME NEW l \in Listener, NEW y \in Told(l)
          PROVE  Before(emissions, y, d)
      <3>1. y.id \in 1..Len(emissions)
        BY DEF CutRight
      <3>2. emissions[y.id].by = e => y.id <= current[e]
        BY <2>3, <3>1 DEF EmittersRight
      <3> QED
        BY <2>3, <3>2 DEF Before
    <2> SUFFICES ASSUME NEW l \in Listener
                 PROVE  InTurn(emissions, log[l], running[l], inbox'[l])
      BY <1>q, <2>3
    <2>5. CASE inbox'[l] = inbox[l]
      BY <1>r, <2>5
    <2>6. CASE inbox'[l] = Append(inbox[l], d)
      <3>1. /\ inbox[l] \in Seq(Delivery) /\ Members(inbox[l]) \subseteq Told(l)
            /\ Members(log[l]) \subseteq Told(l)
            /\ running[l] # None => running[l] \in Told(l)
        BY ToldType DEF Told
      <3>2. d.id \in Nat
        BY <2>3 DEF Delivery, Ids
      <3>3. /\ Members(inbox'[l]) = Members(inbox[l]) \cup {d}
            /\ Sorted(emissions, inbox[l]) /\ (\A y \in Members(inbox[l]) : Before(emissions, y, d))
                 => Sorted(emissions, inbox'[l])
        BY <2>3, <2>6, <3>1, <3>2, MembersAppend
      <3> QED
        BY <1>r, <2>4, <3>1, <3>3
    <2> QED
      BY <2>3, <2>5, <2>6
  <1>8. ASSUME NEW l \in Listener, Run(l)
        PROVE  OrderRight'
    <2>0. UNCHANGED <<log, emissions>>
      BY <1>8, RunTakes
    <2> SUFFICES ASSUME NEW k \in Listener
                 PROVE  InTurn(emissions, log[k], running'[k], inbox'[k])
      BY <1>q, <2>0
    <2>1. CASE k # l
      BY <1>8, <1>r, <2>1, RunTakes
    <2>2. CASE k = l
      <3>1. /\ inbox[l] \in Seq(Delivery) /\ inbox[l] # <<>> /\ inbox'[l] = Tail(inbox[l])
            /\ running'[l] = Head(inbox[l]) \/ running'[l] = None
            /\ Members(inbox[l]) = Members(Tail(inbox[l])) \cup {Head(inbox[l])}
        BY <1>8, RunTakes, ToldType
      <3>2. Sorted(emissions, inbox[l]) =>
              /\ Sorted(emissions, Tail(inbox[l]))
              /\ \A x \in Members(Tail(inbox[l])) : Before(emissions, Head(inbox[l]), x)
        BY <3>1, MembersTail
      <3> QED
        BY <1>r, <2>2, <3>1, <3>2
    <2> QED
      BY <2>1, <2>2
  <1>9. ASSUME NEW l \in Listener, Return(l)
        PROVE  OrderRight'
    <2>0. UNCHANGED <<inbox, emissions>>
      BY <1>9, ReturnLogs
    <2> SUFFICES ASSUME NEW k \in Listener
                 PROVE  InTurn(emissions, log'[k], running'[k], inbox[k])
      BY <1>q, <2>0
    <2>1. CASE k # l
      BY <1>9, <1>r, <2>1, ReturnLogs
    <2>2. CASE k = l
      <3>1. /\ log[l] \in Seq(Delivery) /\ running[l] \in Delivery /\ running[l] # None
            /\ running'[l] = None /\ log'[l] = Append(log[l], running[l])
            /\ Members(log'[l]) = Members(log[l]) \cup {running[l]}
        BY <1>9, ReturnLogs, ToldType
      <3>2. running[l].id \in Nat
        BY <3>1 DEF Delivery, Ids
      <3>3. Sorted(emissions, log[l]) /\ (\A x \in Members(log[l]) : Before(emissions, x, running[l]))
              => Sorted(emissions, log'[l])
        BY <3>1, <3>2, MembersAppend
      <3> QED
        BY <1>r, <2>2, <3>1, <3>3
    <2> QED
      BY <2>1, <2>2
  <1> QED
    BY <1>1, <1>2, <1>3, <1>4, <1>5, <1>6, <1>7, <1>8, <1>9, Zenon DEF Next, EmitterStep

(* Who is alive when he is connected, or when an emission ends, has not died
   before any emission. *)
LEMMA DeathStep ==
  TypeOK /\ RefsRight /\ EmittersRight /\ DeathRight /\ [Next]_vars => DeathRight'
PROOF
  <1> SUFFICES ASSUME TypeOK, RefsRight, EmittersRight, DeathRight, [Next]_vars
               PROVE  DeathRight'
    OBVIOUS
  <1> DEFINE Forgotten(id) ==
        emissions[id].of = "event" /\ (\A e \in Emitter : current[e] # id)
          => \A x \in Members(checked) : died[x.who] >= id
  <1>t. /\ checked \in Seq(Entry) /\ current \in [Emitter -> 0..MaxEmissions]
        /\ Len(emissions) \in Nat /\ Len(emissions) <= MaxEmissions /\ MaxEmissions \in Nat
        /\ died \in [Listener -> 0..Never] /\ died' \in [Listener -> 0..Never]
        /\ Never = MaxEmissions + 1
    BY EmissionsBounded, LifeStep, EventAssumption DEF TypeOK, EmittersRight, Never
  <1>m. Members(checked) \subseteq Entry /\ \A x \in Entry : x.who \in Listener
    BY <1>t, MembersType DEF Entry
  <1>l. /\ \A l \in Listener : Alive(l) => died[l] = Never
        /\ \A l \in Listener : Alive(l)' => died'[l] = Never
    BY LifeStep DEF DeathRight
  <1>r. \A id \in 1..Len(emissions) : Forgotten(id)
    BY <1>t, LenProperties DEF DeathRight, DeadForgotten, Members
  <1>c. checked' \in Seq(Entry)
    BY TypeStep DEF TypeOK
  <1>q. (\A id \in 1..Len(emissions') : Forgotten(id)') => DeathRight'
    BY <1>l, <1>c, LenProperties DEF DeathRight, DeadForgotten, Members
  <1>k. Kept
    BY KeptStep
  <1>d. ASSUME NEW l \in Listener, NEW id \in 1..Len(emissions), died[l] >= id
        PROVE  died'[l] >= id
    <2>1. died'[l] = died[l] \/ died'[l] = Len(emissions)
      BY LifeStep
    <2> QED
      BY <1>t, <1>d, <2>1
  <1>f. ASSUME NEW id \in 1..Len(emissions),
               (\A e \in Emitter : current'[e] # id) => (\A e \in Emitter : current[e] # id),
               \A x \in Members(checked') :
                 x \in Members(checked) \/ (x \in Entry /\ Alive(x.who))
        PROVE  Forgotten(id)'
    <2> SUFFICES ASSUME emissions'[id].of = "event", \A e \in Emitter : current'[e] # id,
                        NEW x \in Members(checked')
                 PROVE  died'[x.who] >= id
      OBVIOUS
    <2>1. emissions[id].of = "event"
      BY <1>k DEF Kept
    <2>2. CASE x \in Members(checked)
      <3>1. died[x.who] >= id
        BY <1>f, <1>r, <2>1, <2>2
      <3> QED
        BY <1>d, <1>m, <2>2, <3>1
    <2>3. CASE x \in Entry /\ Alive(x.who)
      <3>1. x.who \in Listener
        BY <1>m, <2>3
      <3>2. died[x.who] = Never
        BY <1>l, <2>3, <3>1
      <3>3. died[x.who] >= id
        BY <1>t, <3>2
      <3> QED
        BY <1>d, <3>1, <3>3
    <2> QED
      BY <1>f, <2>2, <2>3
  <1>s. ASSUME current' = current, emissions' = emissions,
               \A x \in Members(checked') :
                 x \in Members(checked) \/ (x \in Entry /\ Alive(x.who))
        PROVE  DeathRight'
    <2>1. \A id \in 1..Len(emissions) : Forgotten(id)'
      BY <1>f, <1>s
    <2> HIDE DEF Forgotten
    <2> QED
      BY <1>q, <1>s, <2>1
  <1>0. ASSUME UNCHANGED <<current, emissions, checked>>
        PROVE  DeathRight'
    BY <1>s, <1>0
  <1>1. CASE UNCHANGED vars
    BY <1>0, <1>1 DEF vars, lists, emitting
  <1>2. ASSUME NEW l \in Listener, NEW m \in Method, Connect(l, m)
        PROVE  DeathRight'
    <2>1. [who |-> l, method |-> m] \in Entry /\ Alive([who |-> l, method |-> m].who)
      BY <1>2, HeldLives DEF Connect, Entry
    <2>2. Members(checked') \subseteq Members(checked) \cup {[who |-> l, method |-> m]}
      <3>1. Members(Append(checked, [who |-> l, method |-> m]))
              = Members(checked) \cup {[who |-> l, method |-> m]}
        BY <1>t, <2>1, MembersAppend
      <3> QED
        BY <1>2, <3>1 DEF Connect
    <2>3. current' = current /\ emissions' = emissions
      BY <1>2 DEF Connect, emitting
    <2> QED
      BY <1>s, <2>1, <2>2, <2>3
  <1>3. ASSUME NEW l \in Listener, NEW m \in Method, Disconnect(l, m)
        PROVE  DeathRight'
    <2>1. Members(Remaining(checked, l, m)) \subseteq Members(checked)
      BY <1>t, OnlyMembers DEF Remaining
    <2>2. Members(checked') \subseteq Members(checked)
      BY <1>3, <2>1 DEF Disconnect
    <2>3. current' = current /\ emissions' = emissions
      BY <1>3 DEF Disconnect, emitting
    <2> QED
      BY <1>s, <2>2, <2>3
  <1>4. ASSUME DisconnectAll
        PROVE  DeathRight'
    <2>1. Members(checked') = {}
      BY <1>4, MembersType, EmptySeq DEF DisconnectAll
    <2>2. current' = current /\ emissions' = emissions
      BY <1>4 DEF DisconnectAll, emitting
    <2> QED
      BY <1>s, <2>1, <2>2
  <1>5. CASE MakeFunction
    BY <1>0, <1>5 DEF MakeFunction, emitting
  <1>6. CASE \E l \in Listener : Release(l) \/ Exit(l) \/ Run(l) \/ Return(l)
    BY <1>0, <1>6 DEF Release, Exit, Run, Return, emitting, lists
  <1>7. CASE \E e \in Emitter : PushUnchecked(e) \/ TryLock(e) \/ PushLocked(e)
    BY <1>0, <1>7 DEF PushUnchecked, TryLock, PushLocked, lists
  <1>8. ASSUME \/ \E v \in Value : SetValue(v)
               \/ \E e \in Emitter, of \in {"event", "function"} : Emit(e, of)
        PROVE  DeathRight'
    <2>1. PICK e \in Emitter, v \in Value \cup {NULL}, of \in {"event", "function"} :
            BeginStep(e, v, of)
      BY <1>8, Begins
    <2>2. /\ current[e] = 0 /\ current'[e] = Len(emissions) + 1
          /\ \A f \in Emitter : f # e => current'[f] = current[f]
          /\ Len(emissions') = Len(emissions) + 1 /\ checked' = checked
      BY <1>t, <2>1 DEF BeginStep, lists
    <2> SUFFICES ASSUME NEW id \in 1..Len(emissions')
                 PROVE  Forgotten(id)'
      BY <1>q
    <2>3. CASE id = Len(emissions) + 1
      BY <2>2, <2>3
    <2>4. CASE id # Len(emissions) + 1
      <3>1. id \in 1..Len(emissions) /\ id # 0
        BY <1>t, <2>2, <2>4
      <3>2. (\A f \in Emitter : current'[f] # id) => (\A f \in Emitter : current[f] # id)
        BY <2>2, <3>1
      <3> HIDE DEF Forgotten
      <3> QED
        BY <1>f, <2>2, <3>1, <3>2
    <2> QED
      BY <2>3, <2>4
  <1>9. ASSUME NEW e \in Emitter, Finish(e)
        PROVE  DeathRight'
    <2>1. /\ emissions' = emissions /\ current[e] # 0
          /\ \A f \in Emitter : f # e => current'[f] = current[f]
      BY <1>9, <1>t DEF Finish
    <2>2. /\ emissions[current[e]].of = "event" =>
               \A x \in Members(checked') : x \in Entry /\ Alive(x.who)
          /\ emissions[current[e]].of # "event" => checked' = checked
      <3> DEFINE alive == {x \in Entry : Alive(x.who)}
      <3>1. Members(Only(checked, alive)) \subseteq Members(checked) \cap alive
        BY <1>t, OnlyMembers
      <3> QED
        BY <1>9, <3>1 DEF Finish, Unexpired
    <2> SUFFICES ASSUME NEW id \in 1..Len(emissions)
                 PROVE  Forgotten(id)'
      BY <1>q, <2>1
    <2>3. CASE id # current[e]
      <3>1. (\A f \in Emitter : current'[f] # id) => (\A f \in Emitter : current[f] # id)
        BY <2>1, <2>3
      <3> HIDE DEF Forgotten
      <3> QED
        BY <1>f, <2>2, <3>1
    <2>4. CASE id = current[e] /\ emissions[id].of = "event"
      <3> SUFFICES ASSUME NEW x \in Members(checked')
                   PROVE  died'[x.who] >= id
        OBVIOUS
      <3>1. x.who \in Listener /\ Alive(x.who)
        BY <1>m, <2>2, <2>4
      <3>2. died[x.who] >= id
        BY <1>l, <1>t, <3>1
      <3> QED
        BY <1>d, <3>1, <3>2
    <2>5. CASE emissions[id].of # "event"
      BY <2>1, <2>5
    <2> QED
      BY <2>3, <2>4, <2>5
  <1> QED
    BY <1>1, <1>2, <1>3, <1>4, <1>5, <1>6, <1>7, <1>8, <1>9, Zenon DEF Next, EmitterStep

(* Only the setter sets, and it emits what it sets. *)
LEMMA FieldStep ==
  TypeOK /\ EmittersRight /\ FieldRight /\ [Next]_vars => FieldRight'
PROOF
  <1> SUFFICES ASSUME TypeOK, EmittersRight, FieldRight, [Next]_vars
               PROVE  FieldRight'
    OBVIOUS
  <1>0. ASSUME UNCHANGED <<emissions, field>>
        PROVE  FieldRight'
    BY <1>0 DEF FieldRight, Sets
  <1>1. CASE UNCHANGED vars
    BY <1>0, <1>1 DEF vars
  <1>2. CASE \E l \in Listener, m \in Method : Connect(l, m) \/ Disconnect(l, m)
    BY <1>0, <1>2 DEF Connect, Disconnect
  <1>3. CASE DisconnectAll \/ MakeFunction
    BY <1>0, <1>3 DEF DisconnectAll, MakeFunction
  <1>4. CASE \E l \in Listener : Release(l) \/ Exit(l) \/ Run(l) \/ Return(l)
    BY <1>0, <1>4 DEF Release, Exit, Run, Return
  <1>5. CASE \E e \in Emitter : EmitterStep(e)
    BY <1>0, <1>5 DEF EmitterStep, PushUnchecked, TryLock, PushLocked, Finish
  <1>6. ASSUME \/ \E v \in Value : SetValue(v)
               \/ \E e \in Emitter, of \in {"event", "function"} : Emit(e, of)
        PROVE  FieldRight'
    <2>1. PICK e \in Emitter, v \in Value \cup {NULL}, of \in {"event", "function"} :
            BeginStep(e, v, of)
      BY <1>6, Begins
    <2>2. /\ Len(emissions) \in Nat /\ Len(emissions') = Len(emissions) + 1
          /\ \A id \in 1..Len(emissions) : emissions'[id] = emissions[id]
          /\ emissions'[Len(emissions) + 1].by = e
          /\ emissions'[Len(emissions) + 1].value = v
          /\ e # Setter => field' = field
          /\ e = Setter => v = field'
      BY <2>1, EmissionsBounded DEF BeginStep
    <2> SUFFICES ASSUME NEW id \in Sets', \A other \in Sets' : other <= id
                 PROVE  emissions'[id].value = field'
      BY DEF FieldRight
    <2>3. CASE e = Setter
      <3>1. Len(emissions) + 1 \in Sets' /\ id \in 1..(Len(emissions) + 1)
        BY <2>2, <2>3 DEF Sets
      <3>2. id = Len(emissions) + 1
        BY <2>2, <3>1
      <3> QED
        BY <2>2, <2>3, <3>2
    <2>4. CASE e # Setter
      <3>1. Sets' = Sets
        BY <2>2, <2>4 DEF Sets
      <3>2. emissions'[id] = emissions[id]
        BY <2>2, <3>1 DEF Sets
      <3> QED
        BY <2>2, <2>4, <3>1, <3>2 DEF FieldRight
    <2> QED
      BY <2>3, <2>4
  <1> QED
    BY <1>1, <1>2, <1>3, <1>4, <1>5, <1>6, Zenon DEF Next
------------------------------------------------------------------------------
(* Everybody is called as often as is due. *)

(* The call of a method by an emission, and the entry it comes from. *)
Call(id, m) == [id |-> id, method |-> m]
EntryOf(l, m) == [who |-> l, method |-> m]

(* How often it has been made, is queued and is being made, and how often the
   emission is still to queue it. *)
Called(id, l, m) == Positions(log[l], Call(id, m))
Queued(id, l, m) == Positions(inbox[l], Call(id, m))
Now(id, l, m) == Count(running[l] = Call(id, m))
Left(id, l, m) ==
  LET e == emissions[id].by IN
  IF current[e] = id THEN Positions(todo[e], EntryOf(l, m)) ELSE 0

Split ==
  \A id \in 1..Len(emissions), l \in Listener, m \in Method :
    /\ Handled(id, l, m) = Called(id, l, m) + Queued(id, l, m) + Now(id, l, m) + Left(id, l, m)
    /\ Called(id, l, m) \in Nat /\ Queued(id, l, m) \in Nat
    /\ Now(id, l, m) \in Nat /\ Left(id, l, m) \in Nat
    /\ Due(id, l, m) = Positions(emissions[id].due, EntryOf(l, m)) /\ Due(id, l, m) \in Nat
    /\ emissions[id].by \in Emitter

(* These are all calls, and each is one of them. *)
LEMMA HandledParts == TypeOK => Split
PROOF
  <1> SUFFICES ASSUME TypeOK, NEW id \in 1..Len(emissions), NEW l \in Listener, NEW m \in Method
               PROVE  /\ Handled(id, l, m) = Called(id, l, m) + Queued(id, l, m)
                                               + Now(id, l, m) + Left(id, l, m)
                      /\ Called(id, l, m) \in Nat /\ Queued(id, l, m) \in Nat
                      /\ Now(id, l, m) \in Nat /\ Left(id, l, m) \in Nat
                      /\ Due(id, l, m) = Positions(emissions[id].due, EntryOf(l, m))
                      /\ Due(id, l, m) \in Nat
                      /\ emissions[id].by \in Emitter
    BY DEF Split
  <1>1. log[l] \in Seq(Delivery) /\ inbox[l] \in Seq(Delivery)
    BY DEF TypeOK
  <1>2. emissions[id].by \in Emitter /\ emissions[id].due \in Seq(Entry)
    <2>1. emissions[id] \in Emission
      BY ElementOfSeq DEF TypeOK
    <2> QED
      BY <2>1 DEF Emission
  <1>3. todo[emissions[id].by] \in Seq(Entry)
    BY <1>2 DEF TypeOK
  <1>4. Called(id, l, m) \in Nat /\ Queued(id, l, m) \in Nat
    BY <1>1, PositionsType DEF Called, Queued
  <1>5. Positions(emissions[id].due, EntryOf(l, m)) \in Nat
    BY <1>2, PositionsType
  <1>6. Positions(todo[emissions[id].by], EntryOf(l, m)) \in Nat
    BY <1>3, PositionsType
  <1>7. Left(id, l, m) \in Nat
    BY <1>6 DEF Left
  <1>8. Now(id, l, m) \in Nat
    BY DEF Count, Now
  <1>9. Due(id, l, m) = Positions(emissions[id].due, EntryOf(l, m))
    BY DEF Due, EntryOf
  <1>10. Handled(id, l, m) = Called(id, l, m) + Queued(id, l, m) + Now(id, l, m) + Left(id, l, m)
    BY DEF Handled, Called, Queued, Now, Left, Count, Call, EntryOf, Pending
  <1> QED
    BY <1>2, <1>4, <1>5, <1>7, <1>8, <1>9, <1>10

(* An emission that goes on has one entry less left. *)
LEMMA LeftTail ==
  ASSUME TypeOK, NEW e \in Emitter, todo[e] # <<>>, todo' = [todo EXCEPT ![e] = Tail(@)],
         UNCHANGED <<current, emissions>>, emissions[current[e]].by = e,
         NEW id \in 1..Len(emissions), NEW l, NEW m
  PROVE  Left(id, l, m) =
           Left(id, l, m)' + Count(id = current[e] /\ Head(todo[e]) = EntryOf(l, m))
PROOF
  <1>1. /\ todo \in [Emitter -> Seq(Entry)] /\ todo[e] \in Seq(Entry)
        /\ Tail(todo[e]) \in Seq(Entry) /\ emissions[id].by \in Emitter
    BY HandledParts, TodoType DEF TypeOK, Split
  <1>2. PICK f \in Emitter : f = emissions[id].by
    BY <1>1
  <1>3. /\ Left(id, l, m) = IF current[f] = id THEN Positions(todo[f], EntryOf(l, m)) ELSE 0
        /\ Left(id, l, m)' = IF current[f] = id THEN Positions(todo'[f], EntryOf(l, m)) ELSE 0
    BY <1>2 DEF Left
  <1>4. Positions(todo[f], EntryOf(l, m)) \in Nat
    BY <1>1, <1>2, PositionsType
  <1>5. CASE f = e /\ current[e] = id
    <2>1. todo'[e] = Tail(todo[e])
      BY <1>1
    <2>2. /\ Positions(todo[e], EntryOf(l, m)) =
               Positions(Tail(todo[e]), EntryOf(l, m)) + Count(Head(todo[e]) = EntryOf(l, m))
          /\ Positions(Tail(todo[e]), EntryOf(l, m)) \in Nat
      <3>1. Positions(Tail(todo[e]), EntryOf(l, m)) \in Nat
        BY <1>1, PositionsType
      <3>2. Positions(todo[e], EntryOf(l, m)) =
              Positions(Tail(todo[e]), EntryOf(l, m)) + Count(Head(todo[e]) = EntryOf(l, m))
        BY <1>1, PositionsTail
      <3> QED
        BY <3>1, <3>2
    <2>3. Count(id = current[e] /\ Head(todo[e]) = EntryOf(l, m))
            = Count(Head(todo[e]) = EntryOf(l, m))
      BY <1>5 DEF Count
    <2> QED
      BY <1>3, <1>5, <2>1, <2>2, <2>3
  <1>6. CASE f # e
    <2>1. todo'[f] = todo[f]
      BY <1>1, <1>6
    <2>2. Count(id = current[e] /\ Head(todo[e]) = EntryOf(l, m)) = 0
      BY <1>2, <1>6 DEF Count
    <2> QED
      BY <1>3, <1>4, <2>1, <2>2
  <1>7. CASE f = e /\ current[e] # id
    <2>1. Count(id = current[e] /\ Head(todo[e]) = EntryOf(l, m)) = 0
      BY <1>7 DEF Count
    <2> QED
      BY <1>3, <1>7, <2>1
  <1> QED
    BY <1>5, <1>6, <1>7

(* Calls move from the copies of an emission to the listener, and there from
   one place to the next; only one who is gone, or has exited, misses some. *)
LEMMA CountStep ==
  TypeOK /\ RefsRight /\ EmittersRight /\ CutRight /\ DeliveredAsDue /\ [Next]_vars
    => DeliveredAsDue'
PROOF
  <1> SUFFICES ASSUME TypeOK, RefsRight, EmittersRight, CutRight, DeliveredAsDue, [Next]_vars
               PROVE  DeliveredAsDue'
    OBVIOUS
  <1> DEFINE AsDue(id, l, m) == /\ Handled(id, l, m) <= Due(id, l, m)
                                /\ Alive(l) /\ open[l] => Handled(id, l, m) = Due(id, l, m)
  <1>p. Split'
    <2>1. TypeOK' => Split'
      BY HandledParts, PTL
    <2> QED
      BY <2>1, TypeStep
  <1>l. \A l \in Listener : Alive(l)' => Alive(l)
    BY LifeStep
  <1>t. /\ current \in [Emitter -> 0..MaxEmissions] /\ todo \in [Emitter -> Seq(Entry)]
        /\ Len(emissions) \in Nat /\ open \in [Listener -> BOOLEAN]
    BY EmissionsBounded DEF TypeOK
  <1>k. /\ Len(emissions') \in Nat /\ Len(emissions') >= Len(emissions)
        /\ \A id \in 1..Len(emissions) : emissions'[id] = emissions[id]
    BY KeptStep DEF Kept
  <1>b. Split
    BY HandledParts
  <1>d. \A id \in 1..Len(emissions), l \in Listener, m \in Method :
          Due(id, l, m)' = Due(id, l, m)
    BY <1>k DEF Due
  <1>q. (\A id \in 1..Len(emissions'), l \in Listener, m \in Method : AsDue(id, l, m)')
          => DeliveredAsDue'
    BY DEF DeliveredAsDue
  <1>n. \A id \in 1..Len(emissions), l \in Listener, m \in Method :
          /\ Handled(id, l, m)' = Called(id, l, m)' + Queued(id, l, m)' + Now(id, l, m)'
                                    + Left(id, l, m)'
          /\ Called(id, l, m)' \in Nat /\ Queued(id, l, m)' \in Nat
          /\ Now(id, l, m)' \in Nat /\ Left(id, l, m)' \in Nat
    BY <1>k, <1>p DEF Split
  <1>g. ASSUME NEW id \in 1..Len(emissions), NEW l \in Listener, NEW m \in Method,
               open'[l] => open[l],
               \/ Handled(id, l, m)' = Handled(id, l, m)
               \/ Handled(id, l, m)' <= Handled(id, l, m) /\ ~(Alive(l)' /\ open'[l])
        PROVE  AsDue(id, l, m)'
    <2>1. AsDue(id, l, m) /\ Due(id, l, m)' = Due(id, l, m) /\ (Alive(l)' => Alive(l))
      BY <1>l, <1>d DEF DeliveredAsDue
    <2>2. Handled(id, l, m) \in Nat /\ Due(id, l, m) \in Nat /\ Handled(id, l, m)' \in Nat
      <3>1. /\ Handled(id, l, m) = Called(id, l, m) + Queued(id, l, m) + Now(id, l, m)
                                     + Left(id, l, m)
            /\ Called(id, l, m) \in Nat /\ Queued(id, l, m) \in Nat
            /\ Now(id, l, m) \in Nat /\ Left(id, l, m) \in Nat /\ Due(id, l, m) \in Nat
        BY <1>b DEF Split
      <3>2. /\ Handled(id, l, m)' = Called(id, l, m)' + Queued(id, l, m)' + Now(id, l, m)'
                                      + Left(id, l, m)'
            /\ Called(id, l, m)' \in Nat /\ Queued(id, l, m)' \in Nat
            /\ Now(id, l, m)' \in Nat /\ Left(id, l, m)' \in Nat
        BY <1>n
      <3>3. Handled(id, l, m) \in Nat
        BY <3>1
      <3>4. Handled(id, l, m)' \in Nat
        BY <3>2
      <3> QED
        BY <3>1, <3>3, <3>4
    <2> QED
      BY <1>g, <2>1, <2>2
  <1>s. ASSUME NEW id \in 1..Len(emissions), NEW l \in Listener, NEW m \in Method,
               Called(id, l, m)' = Called(id, l, m), Queued(id, l, m)' = Queued(id, l, m),
               Now(id, l, m)' = Now(id, l, m), Left(id, l, m)' = Left(id, l, m),
               open'[l] => open[l]
        PROVE  AsDue(id, l, m)'
    <2>1. Handled(id, l, m)' = Handled(id, l, m)
      BY <1>b, <1>n, <1>s DEF Split
    <2> QED
      BY <1>g, <1>s, <2>1
  <1> HIDE DEF AsDue
  <1>0. ASSUME UNCHANGED <<log, inbox, running, current, todo, emissions>>,
               \A l \in Listener : open'[l] => open[l]
        PROVE  DeliveredAsDue'
    <2> SUFFICES ASSUME NEW id \in 1..Len(emissions), NEW l \in Listener, NEW m \in Method
                 PROVE  AsDue(id, l, m)'
      BY <1>q, <1>0
    <2>1. /\ Called(id, l, m)' = Called(id, l, m) /\ Queued(id, l, m)' = Queued(id, l, m)
          /\ Now(id, l, m)' = Now(id, l, m) /\ Left(id, l, m)' = Left(id, l, m)
      BY <1>0 DEF Called, Queued, Now, Left
    <2> QED
      BY <1>0, <1>s, <2>1
  <1>1. CASE UNCHANGED vars
    BY <1>0, <1>1 DEF vars, emitting
  <1>2. CASE \E l \in Listener, m \in Method : Connect(l, m) \/ Disconnect(l, m)
    BY <1>0, <1>2 DEF Connect, Disconnect, emitting
  <1>3. CASE DisconnectAll \/ MakeFunction
    BY <1>0, <1>3 DEF DisconnectAll, MakeFunction, emitting
  <1>4. CASE \E l \in Listener : Release(l)
    BY <1>0, <1>4 DEF Release, emitting
  <1>5. ASSUME NEW l \in Listener, Exit(l)
        PROVE  DeliveredAsDue'
    <2>1. \A k \in Listener : open'[k] => open[k]
      BY <1>5, <1>t DEF Exit
    <2> QED
      BY <1>0, <1>5, <2>1 DEF Exit, emitting
  <1>6. ASSUME \/ \E v \in Value : SetValue(v)
               \/ \E e \in Emitter, of \in {"event", "function"} : Emit(e, of)
        PROVE  DeliveredAsDue'
    <2>1. PICK e \in Emitter, v \in Value \cup {NULL}, of \in {"event", "function"} :
            BeginStep(e, v, of)
      BY <1>6, Begins
    <2>2. /\ UNCHANGED <<log, inbox, running, open>>
          /\ current[e] = 0 /\ current'[e] = Len(emissions) + 1
          /\ \A f \in Emitter : f # e => current'[f] = current[f] /\ todo'[f] = todo[f]
          /\ Len(emissions') = Len(emissions) + 1
          /\ emissions'[Len(emissions) + 1].by = e
          /\ emissions'[Len(emissions) + 1].due = todo'[e]
      BY <1>t, <2>1 DEF BeginStep
    <2> SUFFICES ASSUME NEW id \in 1..Len(emissions'), NEW l \in Listener, NEW m \in Method
                 PROVE  AsDue(id, l, m)'
      BY <1>q
    <2>3. CASE id \in 1..Len(emissions)
      <3>1. PICK f \in Emitter : f = emissions[id].by /\ f = emissions'[id].by
        BY <1>b, <1>k, <2>3 DEF Split
      <3>2. /\ Left(id, l, m) = IF current[f] = id THEN Positions(todo[f], EntryOf(l, m)) ELSE 0
            /\ Left(id, l, m)' = IF current'[f] = id THEN Positions(todo'[f], EntryOf(l, m)) ELSE 0
        BY <3>1 DEF Left
      <3>3. Left(id, l, m)' = Left(id, l, m)
        <4>1. CASE f = e
          <5>1. current[f] # id /\ current'[f] # id
            BY <1>t, <2>2, <2>3, <4>1
          <5> QED
            BY <3>2, <5>1
        <4>2. CASE f # e
          BY <2>2, <3>2, <4>2
        <4> QED
          BY <4>1, <4>2
      <3>4. /\ Called(id, l, m)' = Called(id, l, m) /\ Queued(id, l, m)' = Queued(id, l, m)
            /\ Now(id, l, m)' = Now(id, l, m)
        BY <2>2 DEF Called, Queued, Now
      <3> QED
        BY <1>s, <2>2, <2>3, <3>3, <3>4
    <2>4. CASE id = Len(emissions) + 1
      <3>1. Call(id, m) \notin Told(l)
        <4>1. \A d \in Told(l) : d.id \in 1..Len(emissions)
          BY DEF CutRight
        <4>2. Call(id, m).id = id
          BY DEF Call
        <4> QED
          BY <1>t, <2>4, <4>1, <4>2
      <3>2. Called(id, l, m)' = 0 /\ Queued(id, l, m)' = 0
        <4>1. /\ log[l] \in Seq(Delivery) /\ inbox[l] \in Seq(Delivery)
              /\ Call(id, m) \notin Members(log[l]) /\ Call(id, m) \notin Members(inbox[l])
          BY <3>1, ToldType
        <4>2. Positions(log[l], Call(id, m)) = 0 /\ Positions(inbox[l], Call(id, m)) = 0
          BY <4>1, PositionsType
        <4> QED
          BY <2>2, <4>2 DEF Called, Queued
      <3>3. Now(id, l, m)' = 0
        <4>1. running[l] # Call(id, m)
          <5>1. CASE running[l] = None
            BY <1>t, <2>4, <5>1 DEF None, Call
          <5>2. CASE running[l] # None
            BY <3>1, <5>2 DEF Told
          <5> QED
            BY <5>1, <5>2
        <4> QED
          BY <2>2, <4>1 DEF Now, Count
      <3>4. Left(id, l, m)' = Due(id, l, m)'
        <4>1. emissions'[id].by = e /\ current'[e] = id /\ emissions'[id].due = todo'[e]
          BY <2>2, <2>4
        <4> QED
          BY <4>1 DEF Left, Due, EntryOf
      <3>5. /\ Handled(id, l, m)' = Called(id, l, m)' + Queued(id, l, m)' + Now(id, l, m)'
                                      + Left(id, l, m)'
            /\ Left(id, l, m)' \in Nat
        BY <1>p DEF Split
      <3> QED
        BY <3>2, <3>3, <3>4, <3>5 DEF AsDue
    <2>5. Len(emissions') = Len(emissions) + 1
      BY <2>2
    <2>6. id \in 1..Len(emissions) \/ id = Len(emissions) + 1
      BY <1>t, <2>5
    <2> QED
      BY <2>3, <2>4, <2>6
  <1>7. ASSUME NEW e \in Emitter, PushUnchecked(e) \/ PushLocked(e)
        PROVE  DeliveredAsDue'
    <2>0. PushStep(e) /\ todo[e] # <<>>
      BY <1>7, Pushes DEF PushStep
    <2>1. PICK x \in Entry : x = Head(todo[e])
      BY <2>0, TodoType
    <2>2. PICK d : d = [id |-> current[e], method |-> x.method]
      OBVIOUS
    <2>3. /\ d \in Delivery /\ d.id = current[e] /\ d.method = x.method
          /\ x.who \in Listener /\ x.method \in Method
          /\ inbox'[x.who] = IF open[x.who] THEN Append(inbox[x.who], d) ELSE inbox[x.who]
          /\ \A l \in Listener : l # x.who => inbox'[l] = inbox[l]
          /\ UNCHANGED <<running, log, emissions, open, current>>
          /\ todo' = [todo EXCEPT ![e] = Tail(@)]
          /\ current[e] \in 1..Len(emissions) /\ emissions[current[e]].by = e
      BY <2>0, <2>1, <2>2 DEF PushStep, Entry
    <2> SUFFICES ASSUME NEW id \in 1..Len(emissions), NEW l \in Listener, NEW m \in Method
                 PROVE  AsDue(id, l, m)'
      BY <1>q, <2>3
    <2>4. Called(id, l, m)' = Called(id, l, m) /\ Now(id, l, m)' = Now(id, l, m)
      BY <2>3 DEF Called, Now
    <2>5. Left(id, l, m) =
            Left(id, l, m)' + Count(id = current[e] /\ x = EntryOf(l, m))
      <3>1. Left(id, l, m) =
              Left(id, l, m)' + Count(id = current[e] /\ Head(todo[e]) = EntryOf(l, m))
        <4>1. /\ todo' = [todo EXCEPT ![e] = Tail(@)] /\ UNCHANGED <<current, emissions>>
              /\ emissions[current[e]].by = e
          BY <2>3
        <4> QED
          BY <2>0, <4>1, LeftTail
      <3> QED
        BY <2>1, <3>1
    <2>6. CASE id = current[e] /\ x = EntryOf(l, m)
      <3>1. l = x.who /\ d = Call(id, m)
        BY <2>2, <2>6 DEF EntryOf, Call
      <3>2. Left(id, l, m) = Left(id, l, m)' + 1
        BY <2>5, <2>6 DEF Count
      <3>3. CASE open[l]
        <4>1. inbox[l] \in Seq(Delivery) /\ inbox'[l] = Append(inbox[l], d)
          BY <2>3, <3>1, <3>3, ToldType
        <4>2. Positions(Append(inbox[l], d), d) = Positions(inbox[l], d) + 1
          BY <2>3, <4>1, PositionsAppend DEF Count
        <4>3. Queued(id, l, m)' = Queued(id, l, m) + 1
          BY <3>1, <4>1, <4>2 DEF Queued
        <4>4. Handled(id, l, m)' = Handled(id, l, m)
          BY <1>b, <1>n, <2>4, <3>2, <4>3 DEF Split
        <4> QED
          BY <1>g, <2>3, <4>4
      <3>4. CASE ~open[l]
        <4>1. Queued(id, l, m)' = Queued(id, l, m)
          BY <2>3, <3>1, <3>4 DEF Queued
        <4>2. Handled(id, l, m)' <= Handled(id, l, m)
          BY <1>b, <1>n, <2>4, <3>2, <4>1 DEF Split
        <4> QED
          BY <1>g, <2>3, <3>4, <4>2
      <3> QED
        BY <3>3, <3>4
    <2>7. CASE ~(id = current[e] /\ x = EntryOf(l, m))
      <3>1. Left(id, l, m)' = Left(id, l, m)
        BY <1>n, <2>5, <2>7 DEF Count
      <3>2. Queued(id, l, m)' = Queued(id, l, m)
        <4>1. CASE inbox'[l] = inbox[l]
          BY <4>1 DEF Queued
        <4>2. CASE inbox'[l] = Append(inbox[l], d) /\ l = x.who
          <5>1. d # Call(id, m)
            <6>1. d = Call(id, m) => id = current[e] /\ m = x.method
              BY <2>2 DEF Call
            <6>2. x = [who |-> x.who, method |-> x.method]
              BY DEF Entry
            <6> QED
              BY <2>7, <4>2, <6>1, <6>2 DEF EntryOf
          <5>2. inbox[l] \in Seq(Delivery) /\ Positions(inbox[l], Call(id, m)) \in Nat
            BY <1>b, ToldType DEF Split, Queued
          <5>3. Positions(Append(inbox[l], d), Call(id, m)) = Positions(inbox[l], Call(id, m))
            BY <2>3, <5>1, <5>2, PositionsAppend DEF Count
          <5> QED
            BY <4>2, <5>3 DEF Queued
        <4> QED
          BY <2>3, <4>1, <4>2
      <3> QED
        BY <1>s, <2>3, <2>4, <3>1, <3>2
    <2> QED
      BY <2>6, <2>7
  <1>8. ASSUME NEW e \in Emitter, TryLock(e)
        PROVE  DeliveredAsDue'
    <2>1. /\ todo[e] # <<>> /\ UNCHANGED <<current, emissions, log, inbox, running, open>>
          /\ UNCHANGED todo \/ (todo' = [todo EXCEPT ![e] = Tail(@)] /\ ~Alive(Head(todo[e]).who))
      BY <1>8 DEF TryLock, Pending
    <2>2. CASE UNCHANGED todo
      BY <1>0, <2>1, <2>2
    <2>3. CASE todo' = [todo EXCEPT ![e] = Tail(@)] /\ ~Alive(Head(todo[e]).who)
      <3> SUFFICES ASSUME NEW id \in 1..Len(emissions), NEW l \in Listener, NEW m \in Method
                   PROVE  AsDue(id, l, m)'
        BY <1>q, <2>1
      <3>1. /\ Called(id, l, m)' = Called(id, l, m) /\ Queued(id, l, m)' = Queued(id, l, m)
            /\ Now(id, l, m)' = Now(id, l, m)
        BY <2>1 DEF Called, Queued, Now
      <3>2. Left(id, l, m) =
              Left(id, l, m)' + Count(id = current[e] /\ Head(todo[e]) = EntryOf(l, m))
        <4>1. emissions[current[e]].by = e /\ UNCHANGED <<current, emissions>>
          BY <2>1, EmissionsBounded
        <4>2. todo[e] # <<>> /\ todo' = [todo EXCEPT ![e] = Tail(@)]
          BY <2>1, <2>3
        <4> QED
          BY <4>1, <4>2, LeftTail
      <3>3. CASE Head(todo[e]) = EntryOf(l, m)
        <4>1. ~Alive(l)
          BY <2>3, <3>3 DEF EntryOf
        <4>2. Left(id, l, m)' <= Left(id, l, m)
          BY <1>n, <3>2 DEF Count
        <4>3. Handled(id, l, m)' <= Handled(id, l, m)
          BY <1>b, <1>n, <3>1, <4>2 DEF Split
        <4> QED
          BY <1>g, <1>l, <2>1, <4>1, <4>3
      <3>4. CASE Head(todo[e]) # EntryOf(l, m)
        <4>1. Left(id, l, m)' = Left(id, l, m)
          BY <1>n, <3>2, <3>4 DEF Count
        <4> QED
          BY <1>s, <2>1, <3>1, <4>1
      <3> QED
        BY <3>3, <3>4
    <2> QED
      BY <2>1, <2>2, <2>3
  <1>9. ASSUME NEW e \in Emitter, Finish(e)
        PROVE  DeliveredAsDue'
    <2>1. /\ todo[e] = <<>> /\ UNCHANGED <<emissions, log, inbox, running, open>>
          /\ current'[e] = 0
          /\ \A f \in Emitter : f # e => current'[f] = current[f] /\ todo'[f] = todo[f]
      BY <1>9, <1>t DEF Finish, Pending
    <2> SUFFICES ASSUME NEW id \in 1..Len(emissions), NEW l \in Listener, NEW m \in Method
                 PROVE  AsDue(id, l, m)'
      BY <1>q, <2>1
    <2>2. /\ Called(id, l, m)' = Called(id, l, m) /\ Queued(id, l, m)' = Queued(id, l, m)
          /\ Now(id, l, m)' = Now(id, l, m)
      BY <2>1 DEF Called, Queued, Now
    <2>3. PICK f \in Emitter : f = emissions[id].by
      BY <1>b DEF Split
    <2>4. /\ Left(id, l, m) = IF current[f] = id THEN Positions(todo[f], EntryOf(l, m)) ELSE 0
          /\ Left(id, l, m)' = IF current'[f] = id THEN Positions(todo'[f], EntryOf(l, m)) ELSE 0
      BY <2>1, <2>3 DEF Left
    <2>5. Left(id, l, m)' = Left(id, l, m)
      <3>1. CASE f = e
        <4>1. Positions(<<>>, EntryOf(l, m)) = 0
          <5>1. <<>> \in Seq(Entry) /\ EntryOf(l, m) \notin Members(<<>>)
            BY EmptySeq, MembersType
          <5> QED
            BY <5>1, PositionsType
        <4>2. id # 0
          OBVIOUS
        <4> QED
          BY <2>1, <2>4, <3>1, <4>1, <4>2
      <3>2. CASE f # e
        BY <2>1, <2>4, <3>2
      <3> QED
        BY <3>1, <3>2
    <2> QED
      BY <1>s, <2>1, <2>2, <2>5
  <1>10. ASSUME NEW l \in Listener, Run(l)
         PROVE  DeliveredAsDue'
    <2>1. UNCHANGED <<emissions, log, current, todo, open>>
      BY <1>10, RunTakes DEF emitting
    <2> SUFFICES ASSUME NEW id \in 1..Len(emissions), NEW k \in Listener, NEW m \in Method
                 PROVE  AsDue(id, k, m)'
      BY <1>q, <2>1
    <2>2. Called(id, k, m)' = Called(id, k, m) /\ Left(id, k, m)' = Left(id, k, m)
      BY <2>1 DEF Called, Left
    <2>3. CASE k # l
      <3>1. inbox'[k] = inbox[k] /\ running'[k] = running[k]
        BY <1>10, <2>3, RunTakes
      <3>2. Queued(id, k, m)' = Queued(id, k, m) /\ Now(id, k, m)' = Now(id, k, m)
        BY <3>1 DEF Queued, Now
      <3> QED
        BY <1>s, <2>1, <2>2, <3>2
    <2>4. /\ Handled(id, k, m) = Called(id, k, m) + Queued(id, k, m) + Now(id, k, m)
                                   + Left(id, k, m)
          /\ Handled(id, k, m)' = Called(id, k, m)' + Queued(id, k, m)' + Now(id, k, m)'
                                    + Left(id, k, m)'
          /\ Called(id, k, m) \in Nat /\ Queued(id, k, m) \in Nat
          /\ Now(id, k, m) \in Nat /\ Left(id, k, m) \in Nat
          /\ Called(id, k, m)' \in Nat /\ Queued(id, k, m)' \in Nat
          /\ Now(id, k, m)' \in Nat /\ Left(id, k, m)' \in Nat
      BY <1>b, <1>n DEF Split
    <2>5. CASE k = l
      <3>1. /\ inbox[l] \in Seq(Delivery) /\ inbox[l] # <<>> /\ running[l] = None
            /\ inbox'[l] = Tail(inbox[l])
            /\ running'[l] = Head(inbox[l]) \/ (running'[l] = None /\ ~Alive(l))
        BY <1>10, RunTakes, ToldType
      <3>2. Positions(inbox[l], Call(id, m)) =
              Positions(Tail(inbox[l]), Call(id, m)) + Count(Head(inbox[l]) = Call(id, m))
        BY <3>1, PositionsTail
      <3>3. Queued(id, k, m) = Queued(id, k, m)' + Count(Head(inbox[l]) = Call(id, m))
        BY <2>5, <3>1, <3>2 DEF Queued
      <3>4. Count(None = Call(id, m)) = 0
        <4>1. None.id = 0 /\ Call(id, m).id = id
          BY DEF None, Call
        <4> QED
          BY <4>1 DEF Count
      <3>5. CASE running'[l] = Head(inbox[l])
        <4>1. Now(id, k, m) = 0 /\ Now(id, k, m)' = Count(Head(inbox[l]) = Call(id, m))
          BY <2>5, <3>1, <3>4, <3>5 DEF Now
        <4>2. Handled(id, k, m)' = Handled(id, k, m)
          BY <2>2, <2>4, <3>3, <4>1
        <4> QED
          BY <1>g, <2>1, <4>2
      <3>6. CASE running'[l] = None /\ ~Alive(l)
        <4>1. Now(id, k, m)' = Now(id, k, m)
          BY <2>5, <3>1, <3>6 DEF Now
        <4>2. Queued(id, k, m)' <= Queued(id, k, m)
          <5> DEFINE told == Count(Head(inbox[l]) = Call(id, m))
                     before == Queued(id, k, m)
                     after == Queued(id, k, m)'
          <5>1. told \in {0, 1}
            BY DEF Count
          <5>2. before = after + told /\ after \in Nat
            BY <2>4, <3>3
          <5> HIDE DEF told, before, after
          <5>3. after <= before
            BY <5>1, <5>2
          <5> QED
            BY <5>3 DEF before, after
        <4>3. Handled(id, k, m)' <= Handled(id, k, m)
          BY <2>2, <2>4, <4>1, <4>2
        <4> QED
          BY <1>g, <1>l, <2>1, <2>5, <3>6, <4>3
      <3> QED
        BY <3>1, <3>5, <3>6
    <2> QED
      BY <2>3, <2>5
  <1>11. ASSUME NEW l \in Listener, Return(l)
         PROVE  DeliveredAsDue'
    <2>1. UNCHANGED <<emissions, inbox, current, todo, open>>
      BY <1>11, ReturnLogs DEF emitting
    <2> SUFFICES ASSUME NEW id \in 1..Len(emissions), NEW k \in Listener, NEW m \in Method
                 PROVE  AsDue(id, k, m)'
      BY <1>q, <2>1
    <2>2. Queued(id, k, m)' = Queued(id, k, m) /\ Left(id, k, m)' = Left(id, k, m)
      BY <2>1 DEF Queued, Left
    <2>3. CASE k # l
      <3>1. log'[k] = log[k] /\ running'[k] = running[k]
        BY <1>11, <2>3, ReturnLogs
      <3>2. Called(id, k, m)' = Called(id, k, m) /\ Now(id, k, m)' = Now(id, k, m)
        BY <3>1 DEF Called, Now
      <3> QED
        BY <1>s, <2>1, <2>2, <3>2
    <2>4. /\ Handled(id, k, m) = Called(id, k, m) + Queued(id, k, m) + Now(id, k, m)
                                   + Left(id, k, m)
          /\ Handled(id, k, m)' = Called(id, k, m)' + Queued(id, k, m)' + Now(id, k, m)'
                                    + Left(id, k, m)'
          /\ Called(id, k, m) \in Nat /\ Queued(id, k, m) \in Nat
          /\ Now(id, k, m) \in Nat /\ Left(id, k, m) \in Nat
          /\ Called(id, k, m)' \in Nat /\ Queued(id, k, m)' \in Nat
          /\ Now(id, k, m)' \in Nat /\ Left(id, k, m)' \in Nat
      BY <1>b, <1>n DEF Split
    <2>5. CASE k = l
      <3>1. /\ log[l] \in Seq(Delivery) /\ running[l] \in Delivery
            /\ running'[l] = None /\ log'[l] = Append(log[l], running[l])
        BY <1>11, ReturnLogs, ToldType
      <3>2. Positions(Append(log[l], running[l]), Call(id, m)) =
              Positions(log[l], Call(id, m)) + Count(running[l] = Call(id, m))
        BY <3>1, PositionsAppend
      <3>3. Called(id, k, m)' = Called(id, k, m) + Now(id, k, m)
        BY <2>5, <3>1, <3>2 DEF Called, Now
      <3>4. Now(id, k, m)' = 0
        <4>1. None.id = 0 /\ Call(id, m).id = id
          BY DEF None, Call
        <4> QED
          BY <2>5, <3>1, <4>1 DEF Now, Count
      <3>5. Handled(id, k, m)' = Handled(id, k, m)
        BY <2>2, <2>4, <3>3, <3>4
      <3> QED
        BY <1>g, <2>1, <3>5
    <2> QED
      BY <2>3, <2>5
  <1> QED
    BY <1>1, <1>2, <1>3, <1>4, <1>5, <1>6, <1>7, <1>8, <1>9, <1>10, <1>11, Zenon
    DEF Next, EmitterStep
------------------------------------------------------------------------------
(* The invariant and what it says. *)

(* At first everything is empty. *)
LEMMA InitInv == Init => EventInv
PROOF
  <1> SUFFICES ASSUME Init
               PROVE  EventInv
    OBVIOUS
  <1>1. /\ \A S : <<>> \in Seq(S)
        /\ Members(<<>>) = {} /\ Len(<<>>) = 0 /\ DOMAIN <<>> = {}
    BY EmptySeq, MembersType DEF Members
  <1>2. Cardinality(Emitter) \in Nat /\ MaxEmissions \in Nat /\ MaxChanges \in Nat
    BY EventAssumption, FS_CardinalityType
  <1>3. TypeOK
    <2>1. refs \in [Listener -> 0..(Cardinality(Emitter) + 2)]
      BY <1>2 DEF Init
    <2>2. /\ died \in [Listener -> 0..(MaxEmissions + 1)]
          /\ cut \in [Listener \X Method -> 0..(MaxEmissions + 1)]
      BY <1>2 DEF Init, Never
    <2>3. current \in [Emitter -> 0..MaxEmissions] /\ changes \in 0..MaxChanges
      BY <1>2 DEF Init
    <2> QED
      BY <1>1, <2>1, <2>2, <2>3 DEF Init, TypeOK
  <1>4. RefsRight
    <2> SUFFICES ASSUME NEW l \in Listener
                 PROVE  /\ refs[l] = Count(owned[l]) + Cardinality({e \in Emitter : locked[e] = l})
                                       + Count(running[l] # None /\ l \notin Unchecked)
                        /\ l \in Unchecked => owned[l]
      BY DEF RefsRight
    <2>1. {e \in Emitter : locked[e] = l} = {}
      BY EventAssumption DEF Init
    <2>2. Cardinality({e \in Emitter : locked[e] = l}) = 0
      BY <2>1, FS_EmptySet
    <2>3. Count(owned[l]) = 1 /\ Count(running[l] # None /\ l \notin Unchecked) = 0
      BY DEF Init, Count
    <2>4. refs[l] = 1 /\ owned[l]
      BY DEF Init
    <2> QED
      BY <2>2, <2>3, <2>4
  <1>5. ListsRight
    BY <1>1 DEF Init, ListsRight
  <1>6. EmittersRight
    BY <1>1, <1>2 DEF Init, EmittersRight
  <1>7. \A l \in Listener : Told(l) = {}
    BY <1>1 DEF Init, Told
  <1>8. CutRight
    BY <1>7 DEF Init, CutRight
  <1>9. OrderRight
    BY <1>1 DEF Init, OrderRight, Sorted
  <1>10. DeathRight
    BY <1>1 DEF Init, DeathRight, DeadForgotten
  <1>11. FieldRight
    BY <1>1 DEF Init, FieldRight, Sets
  <1>12. DeliveredAsDue
    BY <1>1 DEF Init, DeliveredAsDue
  <1> QED
    BY <1>3, <1>4, <1>5, <1>6, <1>8, <1>9, <1>10, <1>11, <1>12 DEF EventInv

(* The invariant is inductive. *)
THEOREM Inductive == Spec => []EventInv
PROOF
  <1>1. EventInv /\ [Next]_vars => EventInv'
    BY TypeStep, RefsStep, ListsStep, EmittersStep, CutStep, OrderStep, DeathStep, FieldStep,
       CountStep
    DEF EventInv
  <1> QED
    BY InitInv, <1>1, PTL DEF Spec

(* Every variable has its type: the number of strong pointers to a listener is
   bounded by the threads that emit. *)
THEOREM TypeCorrect == Spec => []TypeOK
PROOF
  <1>1. EventInv => TypeOK
    BY DEF EventInv
  <1> QED
    BY Inductive, <1>1, PTL

(* However connecting, emitting, letting go and calling are interleaved, nobody
   is called who is gone, everybody else as often as is due and in order, and
   nobody who has been disconnected or is forgotten. *)
THEOREM Delivers == Spec => []Delivered
PROOF
  <1>1. EventInv => Delivered
    <2> SUFFICES ASSUME EventInv
                 PROVE  Delivered
      OBVIOUS
    <2>0. TypeOK /\ RefsRight /\ CutRight /\ OrderRight /\ DeathRight /\ DeliveredAsDue
      BY DEF EventInv
    <2>1. NoDeadCallback
      BY <2>0, HeldLives DEF NoDeadCallback
    <2>2. ASSUME NEW l \in Listener
          PROVE  /\ DOMAIN log[l] = 1..Len(log[l]) /\ Len(log[l]) \in Nat
                 /\ Sorted(emissions, log[l]) /\ Members(log[l]) \subseteq Told(l)
      <3>1. log[l] \in Seq(Delivery) /\ Members(log[l]) \subseteq Told(l)
        BY <2>0, ToldType
      <3> QED
        BY <2>0, <3>1, MembersType DEF OrderRight
    <2>3. InOrder
      BY <2>2 DEF InOrder, Sorted, Before
    <2>4. QuietAfterDisconnect
      <3> SUFFICES ASSUME NEW l \in Listener, NEW i \in 1..Len(log[l]),
                          emissions[log[l][i].id].of = "event"
                   PROVE  log[l][i].id <= cut[<<l, log[l][i].method>>]
        BY DEF QuietAfterDisconnect
      <3>1. log[l][i] \in Told(l)
        BY <2>2 DEF Members
      <3> QED
        BY <2>0, <3>1 DEF CutRight
    <2> QED
      BY <2>0, <2>1, <2>3, <2>4 DEF Delivered, DeathRight
  <1> QED
    BY Inductive, <1>1, PTL

(* Of some places in a sequence one is the last. *)
LEMMA LastPlace ==
  ASSUME NEW n \in Nat, NEW T, T \subseteq 1..n, T # {}
  PROVE  \E i \in T : \A k \in T : k <= i
PROOF
  <1> DEFINE after(i) == {k \in T : k > i}
             S == {after(i) : i \in T}
             R == StrictSubsetOrdering(1..n)
  <1>1. IsFiniteSet(1..n)
    BY FS_Interval
  <1>2. IsWellFoundedOn(R, SUBSET (1..n))
    BY <1>1, FS_StrictSubsetOrderingWellFounded, FS_FiniteSubsetsOfFinite
  <1>3. S \subseteq SUBSET (1..n) /\ S # {}
    OBVIOUS
  <1> HIDE DEF S, R
  <1>4. PICK x \in S : \A y \in S : ~(<<y, x>> \in R)
    BY <1>2, <1>3, WFMin
  <1>5. PICK i \in T : x = after(i)
    BY <1>4 DEF S
  <1>6. i \in Int /\ \A k \in T : k \in Int
    OBVIOUS
  <1>7. ASSUME NEW k \in T, k > i
        PROVE  FALSE
    <2>1. after(k) \subseteq after(i) /\ k \in after(i) /\ k \notin after(k)
      <3>1. \A h \in T : h > k => h > i
        BY <1>6, <1>7
      <3>2. ~(k > k)
        BY <1>6
      <3> QED
        BY <1>7, <3>1, <3>2
    <2>2. after(k) \in S /\ after(k) \in SUBSET (1..n) /\ after(i) \in SUBSET (1..n)
      BY DEF S
    <2> HIDE DEF after
    <2>3. <<after(k), after(i)>> \in R
      BY <2>1, <2>2 DEF R, StrictSubsetOrdering
    <2> QED
      BY <1>4, <1>5, <2>2, <2>3
  <1> QED
    BY <1>6, <1>7

(* A listener of the attribute that has executed what it was sent knows the
   value, when the setter is done. *)
THEOREM LastValueTold == Spec => []LastValue
PROOF
  <1>1. EventInv => LastValue
    <2> SUFFICES ASSUME EventInv, NEW id \in Sets, NEW l \in Listener,
                        current[Setter] = 0, Idle(l), \A other \in Sets : other <= id,
                        NEW m \in Method, Due(id, l, m) > 0
                 PROVE  LET told == {i \in 1..Len(log[l]) : log[l][i].id \in Sets} IN
                        \E i \in told : /\ \A k \in told : k <= i
                                        /\ emissions[log[l][i].id].value = field
      BY DEF LastValue
    <2> DEFINE told == {i \in 1..Len(log[l]) : log[l][i].id \in Sets}
    <2>1. TypeOK /\ OrderRight /\ CutRight /\ FieldRight /\ DeliveredAsDue
      BY DEF EventInv
    <2>2. id \in 1..Len(emissions) /\ emissions[id].by = Setter
      BY DEF Sets
    <2>3. /\ log[l] \in Seq(Delivery) /\ DOMAIN log[l] = 1..Len(log[l]) /\ Len(log[l]) \in Nat
          /\ Members(log[l]) \subseteq Told(l) /\ Sorted(emissions, log[l])
      BY <2>1, ToldType, MembersType DEF OrderRight
    <2>4. Call(id, m) \in Members(log[l])
      <3>1. Handled(id, l, m) = Due(id, l, m)
        BY <2>1, <2>2 DEF DeliveredAsDue, Idle
      <3>2. /\ Handled(id, l, m) = Called(id, l, m) + Queued(id, l, m) + Now(id, l, m)
                                     + Left(id, l, m)
            /\ Called(id, l, m) \in Nat /\ Due(id, l, m) \in Nat
        BY <2>1, <2>2, HandledParts DEF Split
      <3>3. Left(id, l, m) = 0
        BY <2>2 DEF Left
      <3>4. Now(id, l, m) = 0
        <4>1. None.id = 0 /\ Call(id, m).id = id /\ id # 0
          BY <2>2 DEF None, Call
        <4> QED
          BY <4>1 DEF Idle, Now, Count
      <3>5. Queued(id, l, m) = 0
        <4>1. <<>> \in Seq(Delivery) /\ Call(id, m) \notin Members(<<>>)
          BY EmptySeq, MembersType
        <4> QED
          BY <4>1, PositionsType DEF Idle, Queued
      <3>6. Called(id, l, m) # 0
        BY <3>1, <3>2, <3>3, <3>4, <3>5
      <3> QED
        BY <2>3, <3>6, PositionsType DEF Called
    <2>5. PICK j \in 1..Len(log[l]) : log[l][j] = Call(id, m)
      BY <2>3, <2>4 DEF Members
    <2>6. j \in told
      BY <2>5 DEF Call
    <2>7. PICK i \in told : \A k \in told : k <= i
      BY <2>3, <2>6, LastPlace
    <2>8. i \in 1..Len(log[l]) /\ log[l][i].id \in Sets /\ j \in 1..i
      BY <2>3, <2>5, <2>6, <2>7
    <2>9. log[l][j].id <= log[l][i].id
      <3>1. Before(emissions, log[l][j], log[l][i])
        BY <2>3, <2>8 DEF Sorted
      <3>2. emissions[log[l][j].id].by = emissions[log[l][i].id].by
        BY <2>6, <2>8 DEF Sets
      <3> QED
        BY <3>1, <3>2 DEF Before
    <2>10. log[l][i].id = id
      <3>1. log[l][j].id = id
        BY <2>5 DEF Call
      <3>2. log[l][i].id <= id
        BY <2>8
      <3>3. log[l][i].id \in Int /\ id \in Int
        BY <2>8 DEF Sets
      <3> QED
        BY <2>9, <3>1, <3>2, <3>3
    <2>11. emissions[id].value = field
      BY <2>1 DEF FieldRight
    <2> QED
      BY <2>7, <2>10, <2>11
  <1> QED
    BY Inductive, <1>1, PTL
==============================================================================
