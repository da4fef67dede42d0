--------------------------- MODULE ComponentProofs ---------------------------
(***************************************************************************)
(* Theorems about Component, for any number of components, clients and     *)
(* calls.                                                                  *)
(***************************************************************************)
EXTENDS Component, SequenceTheorems, TLAPS

------------------------------------------------------------------------------
(* The stack and the lists. *)

(* A call pushed on a stack is its first, and the others move by one. *)
LEMMA PushFront ==
  ASSUME NEW S, NEW s \in Seq(S), NEW e \in S
  PROVE  LET r == <<e>> \o s IN
         /\ r \in Seq(S)
         /\ Len(r) = Len(s) + 1
         /\ r[1] = e
         /\ \A i \in 1..Len(s) : r[i + 1] = s[i]
         /\ \A i \in 2..Len(r) : r[i] = s[i - 1]
  OBVIOUS

(* The first call of a stack is replaced. *)
LEMMA ReplaceFront ==
  ASSUME NEW S, NEW s \in Seq(S), s # <<>>, NEW e \in S
  PROVE  LET r == <<e>> \o Tail(s) IN
         /\ r \in Seq(S)
         /\ Len(r) = Len(s)
         /\ r[1] = e
         /\ \A i \in 2..Len(s) : r[i] = s[i]
<1>1. Tail(s) \in Seq(S) /\ Len(Tail(s)) = Len(s) - 1
  OBVIOUS
<1>2. \A i \in 2..Len(s) : Tail(s)[i - 1] = s[i]
  OBVIOUS
<1>3. QED
  BY <1>1, <1>2, PushFront

(* A list without its i-th element has the others, in order. *)
LEMMA WithoutOne ==
  ASSUME NEW S, NEW s \in Seq(S), NEW i \in 1..Len(s)
  PROVE  /\ Without(s, i) \in Seq(S)
         /\ Len(Without(s, i)) = Len(s) - 1
         /\ \A j \in 1..(i - 1) : Without(s, i)[j] = s[j]
         /\ \A j \in i..(Len(s) - 1) : Without(s, i)[j] = s[j + 1]
<1> DEFINE a == SubSeq(s, 1, i - 1)
           b == SubSeq(s, i + 1, Len(s))
<1>1. /\ a \in Seq(S) /\ Len(a) = i - 1
      /\ \A j \in 1..(i - 1) : a[j] = s[j]
  OBVIOUS
<1>2. /\ b \in Seq(S) /\ Len(b) = Len(s) - i
      /\ \A j \in 1..(Len(s) - i) : b[j] = s[j + i]
  OBVIOUS
<1>3. Without(s, i) = a \o b
  BY DEF Without
<1> HIDE DEF a, b
<1>4. /\ a \o b \in Seq(S) /\ Len(a \o b) = Len(s) - 1
      /\ \A j \in 1..(i - 1) : (a \o b)[j] = s[j]
  <2>1. a \o b \in Seq(S) /\ Len(a \o b) = Len(a) + Len(b)
    BY <1>1, <1>2, ConcatProperties
  <2>2. \A j \in 1..(i - 1) : (a \o b)[j] = a[j]
    BY <1>1, <1>2, ConcatProperties
  <2>3. Len(a \o b) = Len(s) - 1
    BY <1>1, <1>2, <2>1, Len(s) \in Nat
  <2>4. \A j \in 1..(i - 1) : (a \o b)[j] = s[j]
    BY <1>1, <2>2
  <2>5. QED
    BY <2>1, <2>3, <2>4
<1>5. ASSUME NEW j \in i..(Len(s) - 1) PROVE (a \o b)[j] = s[j + 1]
  <2>1. (a \o b)[j] = b[j - (i - 1)]
    BY <1>1, <1>2
  <2>2. j - (i - 1) \in 1..(Len(s) - i) /\ (j - (i - 1)) + i = j + 1
    OBVIOUS
  <2>3. QED
    BY <1>2, <2>1, <2>2
<1>6. QED
  BY <1>3, <1>4, <1>5

Distinct(s) == \A i, j \in 1..Len(s) : s[i] = s[j] => i = j

(* What addChild does to the lists. *)
LEMMA Added ==
  ASSUME children \in [Comp -> Seq(Child)], NEW p \in Comp, NEW c \in Child,
         AddChild(p, c)
  PROVE  /\ children' \in [Comp -> Seq(Child)]
         /\ \A q \in Comp : q # p => children'[q] = children[q]
         /\ Elements(children'[p]) = Elements(children[p]) \cup {c}
         /\ Distinct(children[p]) /\ c \notin Elements(children[p]) => Distinct(children'[p])
<1> DEFINE s == children[p]
<1>1. s \in Seq(Child) /\ children'[p] = Append(s, c)
  BY DEF AddChild
<1>2. /\ children' \in [Comp -> Seq(Child)]
      /\ \A q \in Comp : q # p => children'[q] = children[q]
  BY DEF AddChild
<1> HIDE DEF s
<1>3. /\ Len(Append(s, c)) = Len(s) + 1
      /\ \A i \in 1..Len(s) : Append(s, c)[i] = s[i]
      /\ Append(s, c)[Len(s) + 1] = c
  BY <1>1
<1>4. Elements(Append(s, c)) = Elements(s) \cup {c}
  BY <1>1, <1>3 DEF Elements
<1>5. Distinct(s) /\ c \notin Elements(s) => Distinct(Append(s, c))
  BY <1>1, <1>3 DEF Elements, Distinct
<1>6. QED
  BY <1>1, <1>2, <1>4, <1>5 DEF s

(* What removeChild does to the lists: of a child that is there one entry, and
   nothing else, is gone. *)
LEMMA Removed ==
  ASSUME children \in [Comp -> Seq(Child)], heard \in [Comp -> Nat],
         NEW p \in Comp, NEW c \in Comp, RemoveChild(p, c)
  PROVE  /\ children' \in [Comp -> Seq(Child)]
         /\ heard' \in [Comp -> Nat]
         /\ \A q \in Comp : q # p => children'[q] = children[q]
         /\ Elements(children'[p]) \subseteq Elements(children[p])
         /\ Elements(children[p]) \ {c} \subseteq Elements(children'[p])
         /\ Distinct(children[p])
              => Distinct(children'[p]) /\ c \notin Elements(children'[p])
         /\ \A d \in Comp : d # c => heard'[d] = heard[d]
         /\ c \in Elements(children[p]) => heard'[c] = heard[c] + 1
         /\ c \notin Elements(children[p]) => heard'[c] = heard[c]
<1>1. CASE c \notin Elements(children[p])
  BY <1>1 DEF RemoveChild
<1>2. CASE c \in Elements(children[p])
  <2> DEFINE s == children[p]
  <2>1. s \in Seq(Child)
    OBVIOUS
  <2>2. PICK i \in 1..Len(s) :
          /\ s[i] = c
          /\ children' = [children EXCEPT ![p] = Without(@, i)]
          /\ heard' = [heard EXCEPT ![c] = @ + 1]
    BY <1>2 DEF RemoveChild
  <2>3. children'[p] = Without(s, i)
    BY <2>2
  <2> HIDE DEF s
  <2>4. /\ Without(s, i) \in Seq(Child)
        /\ Len(Without(s, i)) = Len(s) - 1
        /\ \A j \in 1..(i - 1) : Without(s, i)[j] = s[j]
        /\ \A j \in i..(Len(s) - 1) : Without(s, i)[j] = s[j + 1]
    BY <2>1, WithoutOne
  <2> DEFINE w == Without(s, i)
  <2> HIDE DEF w
  <2>5. /\ Len(w) = Len(s) - 1 /\ Len(s) \in Nat /\ i \in 1..Len(s)
        /\ \A j \in 1..Len(w) : (j < i /\ w[j] = s[j]) \/ (j >= i /\ w[j] = s[j + 1])
    BY <2>1, <2>4 DEF w
  <2>6. ASSUME NEW d \in Elements(w) PROVE d \in Elements(s)
    <3>1. PICK j \in 1..Len(w) : w[j] = d
      BY DEF Elements
    <3>2. \E k \in 1..Len(s) : s[k] = d
      <4>1. j \in 1..Len(s) /\ j + 1 \in 1..Len(s)
        BY <2>5
      <4>2. w[j] = s[j] \/ w[j] = s[j + 1]
        BY <2>5
      <4>3. QED
        BY <3>1, <4>1, <4>2
    <3>3. QED
      BY <3>2 DEF Elements
  <2>7. ASSUME NEW d \in Elements(s), d # c PROVE d \in Elements(w)
    <3>1. PICK j \in 1..Len(s) : s[j] = d
      BY <2>7 DEF Elements
    <3>2. CASE j < i
      <4>1. j \in 1..Len(w) /\ w[j] = s[j]
        BY <3>1, <3>2, <2>5
      <4>2. QED
        BY <4>1, <3>1 DEF Elements
    <3>3. CASE j > i
      <4>1. j - 1 \in 1..Len(w) /\ w[j - 1] = s[j]
        BY <3>1, <3>3, <2>5
      <4>2. QED
        BY <4>1, <3>1 DEF Elements
    <3>4. QED
      BY <2>2, <2>7, <3>1, <3>2, <3>3
  <2>8. ASSUME Distinct(s) PROVE Distinct(w) /\ c \notin Elements(w)
    <3>1. Distinct(w)
      BY <2>5, <2>8 DEF Distinct
    <3>2. c \notin Elements(w)
      BY <2>2, <2>5, <2>8 DEF Distinct, Elements
    <3>3. QED
      BY <3>1, <3>2
  <2>9. children' \in [Comp -> Seq(Child)] /\ heard' \in [Comp -> Nat]
    BY <2>2, <2>3, <2>4 DEF s
  <2>10. QED
    BY <1>2, <2>2, <2>3, <2>6, <2>7, <2>8, <2>9 DEF s, w
<1>3. QED
  BY <1>1, <1>2

------------------------------------------------------------------------------
(* Type correctness. *)

(* The initial state has the types. *)
LEMMA TypeInit == Init => TypeOK
  BY ComponentAssumption DEF Init, TypeOK, None

(* The innermost call, and the stack without it. *)
LEMMA TopTyped ==
  ASSUME TypeOK, stack # <<>>
  PROVE  /\ Head(stack) = stack[1] /\ 1 \in 1..Len(stack)
         /\ Head(stack) \in Frame /\ Head(stack).of \in Comp
         /\ Head(stack).next \in Nat \ {0}
         /\ Tail(stack) \in Seq(Frame) /\ Len(Tail(stack)) = Len(stack) - 1
         /\ \A i \in 1..Len(Tail(stack)) : Tail(stack)[i] = stack[i + 1]
<1>1. stack \in Seq(Frame)
  BY DEF TypeOK
<1>2. Head(stack) = stack[1] /\ Head(stack) \in Frame /\ 1 \in 1..Len(stack)
  BY <1>1
<1>3. /\ Tail(stack) \in Seq(Frame) /\ Len(Tail(stack)) = Len(stack) - 1
      /\ \A i \in 1..Len(Tail(stack)) : Tail(stack)[i] = stack[i + 1]
  BY <1>1
<1>4. QED
  BY <1>2, <1>3 DEF Frame

(* A call put on the stack, or in the place of its first. *)
LEMMA EnterTyped ==
  ASSUME stack \in Seq(Frame), NEW at \in {"task", "stop", "walk"}, NEW c \in Comp
  PROVE  /\ Enter(at, c) \in Frame
         /\ <<Enter(at, c)>> \in Seq(Frame)
         /\ <<Enter(at, c)>> \o stack \in Seq(Frame)
         /\ stack # <<>> => <<Enter(at, c)>> \o Tail(stack) \in Seq(Frame)
<1>1. Enter(at, c) \in Frame
  BY DEF Enter, Frame
<1>2. QED
  BY <1>1, PushFront, ReplaceFront

(* The stack of a walk that goes on to the next child. *)
LEMMA WalkTyped ==
  ASSUME TypeOK, WalkChild
  PROVE  LET f == Head(stack)
             g == [f EXCEPT !.next = @ + 1]
             d == children[f.of][f.next]
             below == <<g>> \o Tail(stack) IN
         /\ f \in Frame /\ f = stack[1] /\ f.at = "walk"
         /\ f.next \in 1..Len(children[f.of])
         /\ d \in Child
         /\ g \in Frame /\ g.of = f.of /\ g.at = f.at /\ g.next = f.next + 1
         /\ below \in Seq(Frame) /\ Len(below) = Len(stack) /\ below[1] = g
         /\ \A i \in 2..Len(stack) : below[i] = stack[i]
         /\ stack' = IF channel[d] THEN <<Enter("stop", d)>> \o below ELSE below
<1> DEFINE f == Head(stack)
           g == [f EXCEPT !.next = @ + 1]
           d == children[f.of][f.next]
           below == <<g>> \o Tail(stack)
<1>1. stack \in Seq(Frame) /\ stack # <<>>
  BY DEF TypeOK, WalkChild, Executes
<1>2. f \in Frame /\ f = stack[1]
  BY <1>1
<1>3. f.at = "walk" /\ f.next <= Len(children[f.of])
  BY DEF WalkChild, Executes
<1>4. f.of \in Comp /\ f.next \in Nat \ {0}
  BY <1>2 DEF Frame
<1>5. children[f.of] \in Seq(Child) /\ f.next \in 1..Len(children[f.of])
  BY <1>3, <1>4 DEF TypeOK
<1>6. d \in Child
  BY <1>5
<1>7. g \in Frame /\ g.of = f.of /\ g.at = f.at /\ g.next = f.next + 1
  BY <1>2, <1>4 DEF Frame
<1>8. stack' = IF channel[d] THEN <<Enter("stop", d)>> \o below ELSE below
  BY DEF WalkChild
<1> HIDE DEF f, g, d
<1>9. /\ below \in Seq(Frame) /\ Len(below) = Len(stack) /\ below[1] = g
      /\ \A i \in 2..Len(stack) : below[i] = stack[i]
  BY <1>1, <1>7, ReplaceFront
<1>10. QED
  BY <1>2, <1>3, <1>5, <1>6, <1>7, <1>8, <1>9 DEF f, g, d

(* Every variable keeps its type. *)
LEMMA TypeStep == TypeOK /\ [Next]_vars => TypeOK'
<1> SUFFICES ASSUME TypeOK, [Next]_vars PROVE TypeOK'
  OBVIOUS
<1> USE ComponentAssumption
<1>1. ASSUME NEW k \in Client, NEW p \in Comp, NEW c \in Comp, Construct(k, p, c)
      PROVE  TypeOK'
  <2>1. Register(p, c) \in Registers /\ c \in Child
    BY <1>1 DEF Register, Registers, Construct, Create
  <2>2. QED
    BY <1>1, <2>1 DEF TypeOK, Construct, Create, MayCall
<1>2. ASSUME NEW k \in Client, NEW op \in {"exit", "task"}, NEW c \in Comp, Call(k, op, c)
      PROVE  TypeOK'
  <2>1. [op |-> op, to |-> c] \in Lambda
    BY DEF Lambda
  <2>2. QED
    BY <1>2, <2>1 DEF TypeOK, Call, MayCall, tree
<1>3. ASSUME NEW k \in Client, RegisterTest(k) PROVE TypeOK'
  <2>1. call[k] \in Registers
    <3>1. call[k] \in {None} \cup Lambda \cup Registers /\ call[k].op = "register"
      BY <1>3 DEF TypeOK, RegisterTest
    <3>2. QED
      BY <3>1 DEF None, Lambda
  <2>2. [op |-> "add", to |-> call[k].to, child |-> call[k].child] \in Lambda
    BY <2>1 DEF Registers, Lambda
  <2>3. PICK l \in {None} \cup Lambda : call' = [call EXCEPT ![k] = l]
    BY <1>3, <2>2 DEF RegisterTest
  <2>4. QED
    BY <1>3, <2>3 DEF TypeOK, RegisterTest, tree
<1>4. ASSUME NEW k \in Client, Use(k) PROVE TypeOK'
  <2>1. queue' \in Seq(Lambda)
    <3>1. call[k] \in Lambda /\ (queue' = Append(queue, call[k]) \/ queue' = queue)
      BY <1>4 DEF Use
    <3>2. queue \in Seq(Lambda)
      BY DEF TypeOK
    <3>3. QED
      BY <3>1, <3>2
  <2>2. call' \in [Client -> {None} \cup Lambda \cup Registers]
    BY <1>4 DEF TypeOK, Use
  <2>3. QED
    BY <1>4, <2>1, <2>2 DEF TypeOK, Use, tree
<1>5. CASE Take
  <2>1. queue' \in Seq(Lambda) /\ Head(queue) \in Lambda
    BY <1>5 DEF TypeOK, Take
  <2>2. CASE Head(queue).op = "add"
    <3>1. Head(queue).to \in Comp /\ Head(queue).child \in Child
      BY <2>1, <2>2 DEF Lambda
    <3>2. AddChild(Head(queue).to, Head(queue).child) /\ UNCHANGED stack
      BY <1>5, <2>2 DEF Take
    <3>3. children' \in [Comp -> Seq(Child)]
      BY <3>1, <3>2, Added DEF TypeOK
    <3>4. QED
      BY <1>5, <2>1, <3>2, <3>3 DEF TypeOK, Take
  <2>3. CASE Head(queue).op # "add"
    <3>1. Head(queue).to \in Comp
      BY <2>1, <2>3 DEF Lambda
    <3>2. PICK at \in {"task", "stop"} :
            stack' = <<Enter(at, Head(queue).to)>> /\ UNCHANGED children
      BY <1>5, <2>3 DEF Take
    <3>3. stack' \in Seq(Frame)
      <4>1. stack \in Seq(Frame)
        BY DEF TypeOK
      <4>2. QED
        BY <3>1, <3>2, <4>1, EnterTyped
    <3>4. QED
      BY <1>5, <2>1, <3>2, <3>3 DEF TypeOK, Take
  <2>4. QED
    BY <2>2, <2>3
<1>6. CASE Stop
  <2>1. Head(stack).of \in Comp /\ stack # <<>>
    BY <1>6, TopTyped DEF Stop, Executes
  <2>2. stack' \in Seq(Frame)
    BY <1>6, <2>1, EnterTyped DEF TypeOK, Stop
  <2>3. QED
    BY <1>6, <2>1, <2>2 DEF TypeOK, Stop
<1>7. CASE WalkChild
  <2> DEFINE f == Head(stack)
             below == <<[f EXCEPT !.next = @ + 1]>> \o Tail(stack)
             d == children[f.of][f.next]
  <2>1. /\ below \in Seq(Frame) /\ d \in Comp
        /\ stack' = IF channel[d] THEN <<Enter("stop", d)>> \o below ELSE below
    BY <1>7, WalkTyped DEF Child
  <2> HIDE DEF below, d
  <2>2. Enter("stop", d) \in Frame
    BY <2>1 DEF Enter, Frame
  <2>3. stack' \in Seq(Frame)
    BY <2>1, <2>2, PushFront
  <2>4. QED
    BY <1>7, <2>3 DEF TypeOK, WalkChild, tree
<1>8. CASE Leave
  <2>1. Head(stack).of \in Comp /\ stack' \in Seq(Frame)
    BY <1>8, TopTyped DEF Leave, Executes
  <2>2. children' \in [Comp -> Seq(Child)] /\ heard' \in [Comp -> Nat]
    BY <1>8, <2>1, Removed DEF TypeOK, Leave
  <2>3. QED
    BY <1>8, <2>1, <2>2 DEF TypeOK, Leave
<1>9. CASE TaskReturn
  BY <1>9 DEF TypeOK, TaskReturn, Executes, tree
<1>10. ASSUME NEW p \in Comp, NEW c \in Comp, TaskConstruct(p, c) PROVE TypeOK'
  <2>1. c \in Child /\ AddChild(p, c)
    BY <1>10 DEF TaskConstruct, Create
  <2>2. children' \in [Comp -> Seq(Child)]
    BY <2>1, Added DEF TypeOK
  <2>3. QED
    BY <1>10, <2>2 DEF TypeOK, TaskConstruct, Create
<1>11. ASSUME NEW c \in Comp, TaskExit(c) PROVE TypeOK'
  <2>1. stack' \in Seq(Frame)
    BY <1>11, EnterTyped DEF TypeOK, TaskExit
  <2>2. QED
    BY <1>11, <2>1 DEF TypeOK, TaskExit, tree
<1>12. CASE UNCHANGED vars
  BY <1>12 DEF TypeOK, vars, tree
<1>13. QED
  BY <1>1, <1>2, <1>3, <1>4, <1>5, <1>6, <1>7, <1>8, <1>9, <1>10, <1>11, <1>12
     DEF Next, ClientStep, ContextStep

(* The tree, the lambdas under way and the calls in progress have their types:
   what is queued or executed names a component, and what is in a list of
   children is never the root. *)
THEOREM TypeCorrect == Spec => []TypeOK
  BY TypeInit, TypeStep, PTL DEF Spec

------------------------------------------------------------------------------
(* The tree only grows, and a component that is closed stays closed. *)
Grown ==
  /\ made \subseteq made'
  /\ \A c \in made : parent'[c] = parent[c] /\ (channel'[c] => channel[c])

(* Every step is one that lets the tree grow. *)
LEMMA TreeGrows == TypeOK /\ [Next]_vars => Grown
<1> SUFFICES ASSUME TypeOK, [Next]_vars PROVE Grown
  OBVIOUS
<1>1. CASE UNCHANGED <<made, parent, channel>>
  BY <1>1 DEF Grown
<1>2. ASSUME NEW p \in Comp, NEW c \in Comp, Create(p, c) PROVE Grown
  BY <1>2 DEF TypeOK, Create, Grown
<1>3. CASE Stop
  <2>1. Head(stack).of \in Comp
    BY <1>3, TopTyped DEF Stop, Executes
  <2>2. QED
    BY <1>3, <2>1 DEF TypeOK, Stop, Grown
<1>4. QED
  BY <1>1, <1>2, <1>3
     DEF Next, ClientStep, ContextStep, Construct, Call, RegisterTest, Use, Take,
         WalkChild, Leave, TaskReturn, TaskConstruct, TaskExit, tree, vars

(* What is under way concerns components that have been constructed, and a
   registration goes to the parent. *)
Right(l) ==
  /\ l.to \in made
  /\ l.op \in {"register", "add"} => l.child \in made /\ parent[l.child] = l.to

RightTree ==
  /\ \A c \in Comp : channel[c] => c \in made
  /\ \A c \in made \ {Root} : parent[c] \in made

RightQueue == \A i \in 1..Len(queue) : Right(queue[i])

RightCalls == \A k \in Client : call[k] # None => Right(call[k])

(* A component that walks over its children has given up its channel. *)
RightStack ==
  \A i \in 1..Len(stack) :
    /\ stack[i].of \in made
    /\ stack[i].at = "walk" => ~channel[stack[i].of]

LinkInv == TypeOK /\ RightTree /\ RightQueue /\ RightCalls /\ RightStack

(* Initially the tree, the queue, the calls and the stack agree. *)
LEMMA LinkInit == Init => LinkInv
<1> SUFFICES ASSUME Init PROVE LinkInv
  OBVIOUS
<1>1. RightTree
  BY DEF Init, RightTree
<1>2. RightQueue /\ RightStack
  BY DEF Init, RightQueue, RightStack
<1>3. RightCalls
  BY DEF Init, RightCalls
<1>4. QED
  BY <1>1, <1>2, <1>3, TypeInit DEF LinkInv

(* What the growth of the tree leaves right. *)
LEMMA RightKept ==
  ASSUME LinkInv, Grown
  PROVE  /\ \A l \in Lambda \cup Registers : Right(l) => Right(l)'
         /\ \A i \in 1..Len(stack) :
              /\ stack[i].of \in made'
              /\ stack[i].at = "walk" => ~channel'[stack[i].of]
         /\ queue' = queue => RightQueue'
         /\ call' = call => RightCalls'
         /\ stack' = stack => RightStack'
<1>1. \A l \in Lambda \cup Registers : Right(l) => Right(l)'
  BY DEF Grown, Right
<1>2. \A i \in 1..Len(stack) : /\ stack[i].of \in made'
                               /\ stack[i].at = "walk" => ~channel'[stack[i].of]
  BY DEF LinkInv, RightStack, Grown
<1>3. queue' = queue => RightQueue'
  <2> SUFFICES ASSUME queue' = queue, NEW i \in 1..Len(queue) PROVE Right(queue[i])'
    BY DEF RightQueue
  <2>1. queue[i] \in Lambda /\ Right(queue[i])
    BY DEF LinkInv, TypeOK, RightQueue
  <2>2. QED
    BY <2>1 DEF Right, Grown
<1>4. call' = call => RightCalls'
  <2> SUFFICES ASSUME call' = call, NEW k \in Client, call[k] # None
               PROVE  Right(call[k])'
    BY DEF RightCalls
  <2>1. Right(call[k])
    BY DEF LinkInv, RightCalls
  <2>2. QED
    BY <2>1 DEF Right, Grown
<1>5. stack' = stack => RightStack'
  BY <1>2 DEF RightStack
<1>6. QED
  BY <1>1, <1>2, <1>3, <1>4, <1>5

(* A call that is put on the stack is right if its component is. *)
LEMMA RightEntered ==
  ASSUME LinkInv, Grown, NEW at \in {"task", "stop", "walk"}, NEW c \in made',
         c \in Comp, at = "walk" => ~channel'[c],
         \/ stack' = <<Enter(at, c)>>
         \/ stack' = <<Enter(at, c)>> \o stack
         \/ stack # <<>> /\ stack' = <<Enter(at, c)>> \o Tail(stack)
  PROVE  RightStack'
<1> DEFINE e == Enter(at, c)
<1>1. e \in Frame /\ e.of = c /\ e.at = at
  BY DEF Enter, Frame
<1>2. stack \in Seq(Frame)
  BY DEF LinkInv, TypeOK
<1>3. \A i \in 1..Len(stack) : /\ stack[i].of \in made'
                               /\ stack[i].at = "walk" => ~channel'[stack[i].of]
  BY RightKept
<1> SUFFICES ASSUME NEW i \in 1..Len(stack')
             PROVE  /\ stack'[i].of \in made'
                    /\ stack'[i].at = "walk" => ~channel'[stack'[i].of]
  BY DEF RightStack
<1>4. stack'[i] = e \/ \E j \in 1..Len(stack) : stack'[i] = stack[j]
  <2> HIDE DEF e
  <2>1. CASE stack' = <<e>>
    BY <2>1
  <2>2. CASE stack' = <<e>> \o stack
    BY <1>1, <1>2, <2>2, PushFront
  <2>3. CASE stack # <<>> /\ stack' = <<e>> \o Tail(stack)
    BY <1>1, <1>2, <2>3, ReplaceFront
  <2>4. QED
    BY <2>1, <2>2, <2>3 DEF e
<1>5. QED
  BY <1>1, <1>3, <1>4

(* Every step keeps their agreement. *)
LEMMA LinkStep == LinkInv /\ [Next]_vars => LinkInv'
<1> SUFFICES ASSUME LinkInv, [Next]_vars PROVE LinkInv'
  OBVIOUS
<1> USE ComponentAssumption
<1>1. TypeOK /\ TypeOK' /\ Grown
  BY TypeStep, TreeGrows DEF LinkInv
<1>2. /\ queue' = queue => RightQueue'
      /\ call' = call => RightCalls'
      /\ stack' = stack => RightStack'
  BY <1>1, RightKept
<1>3. ASSUME UNCHANGED <<made, parent, channel>> PROVE RightTree'
  BY <1>3 DEF LinkInv, RightTree
<1>4. ASSUME NEW p \in Comp, NEW c \in Comp, Create(p, c) PROVE RightTree'
  BY <1>1, <1>4 DEF LinkInv, RightTree, TypeOK, Create, Built
<1>5. ASSUME NEW k \in Client, NEW p \in Comp, NEW c \in Comp, Construct(k, p, c)
      PROVE  LinkInv'
  <2>1. Create(p, c) /\ p \in made /\ call' = [call EXCEPT ![k] = Register(p, c)]
    BY <1>5 DEF Construct, Create, Built
  <2>2. Right(Register(p, c))'
    BY <1>1, <2>1 DEF Right, Register, Create, Grown, TypeOK
  <2>3. RightCalls'
    <3> SUFFICES ASSUME NEW j \in Client, call'[j] # None PROVE Right(call[j])'
      BY DEF RightCalls
    <3>1. CASE j = k
      BY <1>1, <2>1, <2>2, <3>1 DEF TypeOK, Right
    <3>2. CASE j # k
      <4>1. call'[j] = call[j] /\ Right(call[j])
        BY <2>1, <3>2 DEF LinkInv, RightCalls, TypeOK
      <4>2. QED
        BY <1>1, <4>1 DEF Right, Grown
    <3>3. QED
      BY <3>1, <3>2
  <2>4. QED
    BY <1>1, <1>2, <1>4, <1>5, <2>1, <2>3 DEF LinkInv, Construct
<1>6. ASSUME NEW k \in Client, NEW l \in {None} \cup Lambda, call' = [call EXCEPT ![k] = l],
             l # None => Right(l)', UNCHANGED <<made, parent, channel, stack>>,
             RightQueue'
      PROVE  LinkInv'
  <2>1. RightCalls'
    <3> SUFFICES ASSUME NEW j \in Client, call'[j] # None PROVE Right(call[j])'
      BY DEF RightCalls
    <3>1. CASE j = k
      BY <1>1, <1>6, <3>1 DEF TypeOK, Right
    <3>2. CASE j # k
      <4>1. call'[j] = call[j] /\ Right(call[j])
        BY <1>6, <3>2 DEF LinkInv, RightCalls, TypeOK
      <4>2. QED
        BY <1>1, <4>1 DEF Right, Grown
    <3>3. QED
      BY <3>1, <3>2
  <2>2. QED
    BY <1>1, <1>2, <1>3, <1>6, <2>1 DEF LinkInv
<1>7. ASSUME NEW k \in Client, NEW op \in {"exit", "task"}, NEW c \in Comp, Call(k, op, c)
      PROVE  LinkInv'
  <2> DEFINE l == [op |-> op, to |-> c]
  <2>1. l \in Lambda /\ call' = [call EXCEPT ![k] = l]
    BY <1>7 DEF Call, Lambda
  <2>2. Right(l)'
    BY <1>1, <1>7 DEF Call, Built, Right, Grown
  <2>3. QED
    BY <1>2, <1>6, <1>7, <2>1, <2>2 DEF Call, tree
<1>8. ASSUME NEW k \in Client, RegisterTest(k) PROVE LinkInv'
  <2>1. call[k] \in Registers /\ call[k].op = "register" /\ call[k] # None
    <3>1. call[k] \in {None} \cup Lambda \cup Registers /\ call[k].op = "register"
      BY <1>1, <1>8 DEF TypeOK, RegisterTest
    <3>2. QED
      BY <3>1 DEF None, Lambda
  <2>2. PICK l \in Lambda : l = [op |-> "add", to |-> call[k].to, child |-> call[k].child]
    BY <2>1 DEF Registers, Lambda
  <2>3. Right(l)'
    <3>1. Right(call[k])
      BY <2>1 DEF LinkInv, RightCalls
    <3>2. l.to = call[k].to /\ l.child = call[k].child
      BY <2>2
    <3>3. QED
      BY <1>1, <2>1, <3>1, <3>2 DEF Right, Grown
  <2>4. PICK m \in {None, l} : call' = [call EXCEPT ![k] = m]
    BY <1>8, <2>2 DEF RegisterTest
  <2>5. UNCHANGED <<made, parent, channel, stack, queue>>
    BY <1>8 DEF RegisterTest, tree
  <2>6. m \in {None} \cup Lambda /\ (m # None => Right(m)')
    BY <2>3, <2>4
  <2>7. QED
    BY <1>2, <1>6, <2>4, <2>5, <2>6
<1>9. ASSUME NEW k \in Client, Use(k) PROVE LinkInv'
  <2>1. /\ call[k] \in Lambda
        /\ queue' = Append(queue, call[k]) \/ queue' = queue
        /\ call' = [call EXCEPT ![k] = None]
        /\ UNCHANGED <<made, parent, channel, stack>>
    BY <1>9 DEF Use, tree
  <2>2. Right(call[k])
    BY <2>1 DEF LinkInv, RightCalls, None, Lambda
  <2>3. RightQueue'
    <3> SUFFICES ASSUME NEW i \in 1..Len(queue') PROVE Right(queue[i])'
      BY DEF RightQueue
    <3>1. queue'[i] = call[k] \/ (i \in 1..Len(queue) /\ queue'[i] = queue[i])
      <4>1. queue \in Seq(Lambda)
        BY <1>1 DEF TypeOK
      <4>2. CASE queue' = Append(queue, call[k])
        BY <2>1, <4>1, <4>2
      <4>3. CASE queue' = queue
        BY <4>3
      <4>4. QED
        BY <2>1, <4>2, <4>3
    <3>2. Right(queue'[i])
      BY <2>2, <3>1 DEF LinkInv, RightQueue
    <3>3. QED
      BY <2>1, <3>2 DEF Right
  <2>4. QED
    BY <1>6, <2>1, <2>3
<1>10. CASE Take
  <2>1. queue \in Seq(Lambda) /\ queue # <<>> /\ queue' = Tail(queue)
    BY <1>1, <1>10 DEF TypeOK, Take
  <2>2. Head(queue) \in Lambda /\ Right(Head(queue)) /\ Head(queue).to \in made
    BY <2>1 DEF LinkInv, RightQueue, Right
  <2>3. RightQueue'
    <3> SUFFICES ASSUME NEW i \in 1..Len(queue') PROVE Right(queue[i])'
      BY DEF RightQueue
    <3>1. i + 1 \in 1..Len(queue) /\ queue'[i] = queue[i + 1]
      BY <2>1
    <3>2. Right(queue'[i])
      BY <3>1 DEF LinkInv, RightQueue
    <3>3. QED
      BY <1>10, <3>2 DEF Right, Take
  <2>4. RightStack'
    <3>1. CASE Head(queue).op = "add"
      BY <1>2, <1>10, <3>1 DEF Take
    <3>2. CASE Head(queue).op # "add"
      <4> DEFINE at == IF Head(queue).op = "exit" THEN "stop" ELSE "task"
      <4>1. stack' = <<Enter(at, Head(queue).to)>> /\ at \in {"task", "stop"}
        BY <1>10, <3>2 DEF Take
      <4>2. Head(queue).to \in made' /\ Head(queue).to \in Comp
        BY <1>1, <2>2 DEF Grown, TypeOK
      <4> HIDE DEF at
      <4>3. QED
        BY <1>1, <4>1, <4>2, RightEntered
    <3>3. QED
      BY <3>1, <3>2
  <2>5. QED
    BY <1>1, <1>2, <1>3, <1>10, <2>3, <2>4 DEF LinkInv, Take
<1>11. CASE Stop
  <2> DEFINE c == Head(stack).of
  <2>1. c \in Comp /\ c \in made /\ stack # <<>>
    BY <1>1, <1>11, TopTyped DEF Stop, Executes, LinkInv, RightStack
  <2>2. /\ channel' = [channel EXCEPT ![c] = FALSE]
        /\ stack' = <<Enter("walk", c)>> \o Tail(stack)
    BY <1>11 DEF Stop
  <2> HIDE DEF c
  <2>3. c \in made' /\ ~channel'[c]
    BY <1>1, <2>1, <2>2 DEF Grown, TypeOK
  <2>4. RightStack'
    BY <1>1, <2>1, <2>2, <2>3, RightEntered
  <2>5. RightTree'
    BY <1>1, <1>11, <2>1, <2>2 DEF LinkInv, RightTree, Stop, TypeOK
  <2>6. QED
    BY <1>1, <1>2, <1>11, <2>4, <2>5 DEF LinkInv, Stop
<1>12. CASE WalkChild
  <2> DEFINE f == Head(stack)
             g == [f EXCEPT !.next = @ + 1]
             below == <<g>> \o Tail(stack)
             d == children[f.of][f.next]
  <2>1. /\ f = stack[1] /\ g.of = f.of /\ d \in Comp /\ f.at = "walk"
        /\ g \in Frame /\ g.at = f.at
        /\ below \in Seq(Frame) /\ Len(below) = Len(stack) /\ below[1] = g
        /\ \A i \in 2..Len(stack) : below[i] = stack[i]
        /\ stack' = IF channel[d] THEN <<Enter("stop", d)>> \o below ELSE below
    BY <1>1, <1>12, WalkTyped DEF Child
  <2> HIDE DEF g, below, d, f
  <2>2. \A i \in 1..Len(below) : /\ below[i].of \in made
                                 /\ below[i].at = "walk" => ~channel[below[i].of]
    BY <2>1 DEF LinkInv, RightStack
  <2>3. \A i \in 1..Len(stack') : /\ stack'[i].of \in made
                                  /\ stack'[i].at = "walk" => ~channel[stack'[i].of]
    <3>1. CASE ~channel[d]
      BY <2>1, <2>2, <3>1
    <3>2. CASE channel[d]
      <4> DEFINE e == Enter("stop", d)
      <4>1. e \in Frame /\ e.of \in made /\ e.at = "stop"
        BY <2>1, <3>2 DEF LinkInv, RightTree, Enter, Frame
      <4>2. stack' = <<e>> \o below
        BY <2>1, <3>2
      <4> HIDE DEF e
      <4>3. stack'[1] = e /\ \A i \in 2..Len(stack') : stack'[i] = below[i - 1] /\ i - 1 \in 1..Len(below)
        BY <2>1, <4>1, <4>2, PushFront
      <4>4. QED
        BY <2>2, <4>1, <4>3, \A i \in 1..Len(stack') : i = 1 \/ i \in 2..Len(stack')
    <3>3. QED
      BY <3>1, <3>2
  <2>4. RightStack'
    BY <1>12, <2>3 DEF RightStack, WalkChild, tree
  <2>5. QED
    BY <1>1, <1>2, <1>3, <1>12, <2>4 DEF LinkInv, WalkChild, tree
<1>13. CASE Leave \/ TaskReturn
  <2>1. stack # <<>> /\ stack' = Tail(stack) /\ UNCHANGED <<made, parent, channel, queue, call>>
    BY <1>13 DEF Leave, TaskReturn, Executes, tree
  <2>2. RightStack'
    BY <1>1, <2>1, TopTyped DEF LinkInv, RightStack
  <2>3. QED
    BY <1>1, <1>2, <1>3, <2>1, <2>2 DEF LinkInv
<1>14. ASSUME NEW p \in Comp, NEW c \in Comp, TaskConstruct(p, c) PROVE LinkInv'
  BY <1>1, <1>2, <1>4, <1>14 DEF LinkInv, TaskConstruct
<1>15. ASSUME NEW c \in Comp, TaskExit(c) PROVE LinkInv'
  <2>1. c \in made' /\ stack' = <<Enter("stop", c)>> \o stack
    BY <1>1, <1>15 DEF TaskExit, Built, Grown
  <2>2. RightStack'
    BY <1>1, <2>1, RightEntered
  <2>3. QED
    BY <1>1, <1>2, <1>3, <1>15, <2>2 DEF LinkInv, TaskExit, tree
<1>16. CASE UNCHANGED vars
  BY <1>1, <1>2, <1>3, <1>16 DEF LinkInv, vars, tree
<1>17. QED
  BY <1>5, <1>7, <1>8, <1>9, <1>10, <1>11, <1>12, <1>13, <1>14, <1>15, <1>16
     DEF Next, ClientStep, ContextStep

(* They agree in every reachable state. *)
LEMMA Linked == Spec => []LinkInv
  BY LinkInit, LinkStep, PTL DEF Spec

------------------------------------------------------------------------------
(* The walk of exit() over the children. *)

(* Only open components get or lose children. *)
LEMMA ChildrenStep ==
  ASSUME LinkInv, [Next]_vars, NEW p \in Comp, children'[p] # children[p]
  PROVE  channel[p] \/ stack = <<>>
<1> USE ComponentAssumption
<1>1. TypeOK
  BY DEF LinkInv
<1>2. CASE Take
  BY <1>2 DEF Take
<1>3. CASE Leave
  <2> DEFINE c == Head(stack).of
  <2>1. c \in Comp
    BY <1>1, <1>3, TopTyped DEF Leave, Executes
  <2>2. PICK q \in Comp : channel[q] /\ RemoveChild(q, c)
    BY <1>1, <1>3, <2>1 DEF Leave, TypeOK
  <2> HIDE DEF c
  <2>3. QED
    BY <1>1, <2>1, <2>2, Removed DEF TypeOK
<1>4. ASSUME NEW q \in Comp, NEW c \in Comp, TaskConstruct(q, c) PROVE channel[p]
  <2>1. c \in Child /\ channel[q] /\ AddChild(q, c)
    BY <1>4 DEF TaskConstruct, Create
  <2>2. QED
    BY <1>1, <2>1, Added DEF TypeOK
<1>5. QED
  BY <1>2, <1>3, <1>4
     DEF Next, ClientStep, ContextStep, Construct, Call, RegisterTest, Use, Stop,
         WalkChild, TaskReturn, TaskExit, tree, vars

(* exit() of a component never changes the list that an exit() in progress
   walks over. *)
LEMMA WalkStep ==
  ASSUME LinkInv, [Next]_vars, NEW i \in 1..Len(stack), stack[i].at = "walk"
  PROVE  children'[stack[i].of] = children[stack[i].of]
<1>1. stack[i].of \in Comp /\ stack # <<>> /\ ~channel[stack[i].of]
  BY DEF LinkInv, TypeOK, RightStack
<1>2. QED
  BY <1>1, ChildrenStep

(* The iterator of exit() stays valid, whatever the children, the tasks and the
   other threads do. *)
THEOREM WalkUndisturbed == Spec => NoChangeUnderWalk
<1>1. LinkInv /\ [Next]_vars
        => [\A i \in 1..Len(stack) :
              stack[i].at = "walk" => children'[stack[i].of] = children[stack[i].of]]_vars
  BY WalkStep
<1>2. QED
  BY <1>1, Linked, PTL DEF Spec, NoChangeUnderWalk

(* The lists hold the children of their component. *)
Listed ==
  \A p \in Comp : \A c \in Elements(children[p]) : c \in made /\ parent[c] = p

(* Every step keeps the lists right. *)
LEMMA ListedStep == LinkInv /\ Listed /\ [Next]_vars => Listed'
<1> SUFFICES ASSUME LinkInv, Listed, [Next]_vars,
                    NEW p \in Comp, NEW c \in Elements(children'[p])
             PROVE  c \in made' /\ parent'[c] = p
  BY DEF Listed, Elements
<1> USE ComponentAssumption
<1>1. TypeOK /\ Grown
  BY TreeGrows DEF LinkInv
<1>2. CASE c \in Elements(children[p])
  BY <1>1, <1>2 DEF Listed, Grown
<1>3. CASE c \notin Elements(children[p])
  <2>1. CASE Take
    <3> DEFINE l == Head(queue)
    <3>1. l.op = "add" /\ AddChild(l.to, l.child)
      BY <1>3, <2>1 DEF Take
    <3>2. l \in Lambda /\ Right(l)
      BY <1>1, <2>1 DEF TypeOK, LinkInv, RightQueue, Take
    <3>3. l.to \in Comp /\ l.child \in Child
      BY <3>1, <3>2 DEF Lambda
    <3>4. PICK q \in Comp, d \in Child : AddChild(q, d) /\ q = l.to /\ d = l.child
      BY <3>1, <3>3
    <3>5. p = q /\ c = d
      BY <1>1, <1>3, <3>4, Added DEF TypeOK
    <3>6. QED
      BY <1>1, <3>1, <3>2, <3>4, <3>5 DEF Right, Grown
  <2>2. CASE Leave
    <3> DEFINE d == Head(stack).of
    <3>1. d \in Comp
      BY <1>1, <2>2, TopTyped DEF Leave, Executes
    <3>2. PICK q \in Comp : RemoveChild(q, d)
      BY <1>1, <1>3, <2>2, <3>1 DEF Leave, TypeOK
    <3> HIDE DEF d
    <3>3. QED
      BY <1>1, <1>3, <3>1, <3>2, Removed DEF TypeOK
  <2>3. ASSUME NEW q \in Comp, NEW d \in Comp, TaskConstruct(q, d)
        PROVE  c \in made' /\ parent'[c] = p
    <3>1. Create(q, d) /\ AddChild(q, d) /\ d \in Child
      BY <2>3 DEF TaskConstruct, Create
    <3>2. p = q /\ c = d
      BY <1>1, <1>3, <3>1, Added DEF TypeOK
    <3>3. QED
      BY <1>1, <3>1, <3>2 DEF Create, TypeOK
  <2>4. QED
    BY <1>3, <2>1, <2>2, <2>3
       DEF Next, ClientStep, ContextStep, Construct, Call, RegisterTest, Use, Stop,
           WalkChild, TaskReturn, TaskExit, tree, vars
<1>4. QED
  BY <1>2, <1>3

(* A child that the walk has passed is closed, unless its exit is the next call
   to be executed above the walk. *)
Attended(d, i) ==
  \/ ~channel[d]
  \/ \E m \in 1..(i - 1) : stack[m].at = "stop" /\ stack[m].of = d

Passed ==
  \A i \in 1..Len(stack) : stack[i].at = "walk" =>
    \A j \in 1..(stack[i].next - 1) :
      /\ j \in 1..Len(children[stack[i].of])
      /\ Attended(children[stack[i].of][j], i)

(* A walk in progress at n, formerly at i, is as far as it was if the exits above
   it are still there or have closed their component. *)
LEMMA PassedKept ==
  ASSUME LinkInv, Listed, Passed, [Next]_vars,
         NEW i \in 1..Len(stack), stack[i].at = "walk",
         NEW n \in 1..Len(stack'), stack'[n].of = stack[i].of,
         NEW j \in 1..(stack[i].next - 1),
         \A m \in 1..(i - 1) : stack[m].at = "stop" =>
           \/ ~channel'[stack[m].of]
           \/ \E k \in 1..(n - 1) : stack'[k].at = "stop" /\ stack'[k].of = stack[m].of
  PROVE  /\ j \in 1..Len(children'[stack'[n].of])
         /\ Attended(children[stack[n].of][j], n)'
<1> DEFINE p == stack[i].of
           d == children[p][j]
<1>1. TypeOK /\ Grown /\ children'[p] = children[p]
  BY TreeGrows, WalkStep DEF LinkInv
<1>2. p \in Comp /\ j \in 1..Len(children[p]) /\ Attended(d, i)
  <2>1. stack[i] \in Frame => p \in Comp
    BY DEF Frame
  <2>2. stack[i] \in Frame
    BY <1>1 DEF TypeOK
  <2>3. j \in 1..Len(children[p]) /\ Attended(d, i)
    BY DEF Passed
  <2>4. QED
    BY <2>1, <2>2, <2>3
<1>3. d \in made
  BY <1>2 DEF Listed, Elements
<1>4. \/ ~channel'[d]
      \/ \E k \in 1..(n - 1) : stack'[k].at = "stop" /\ stack'[k].of = d
  BY <1>1, <1>2, <1>3 DEF Attended, Grown
<1>5. QED
  BY <1>1, <1>2, <1>4 DEF Attended

(* Every step keeps what a walk has passed attended to. *)
LEMMA PassedStep == LinkInv /\ Listed /\ Passed /\ [Next]_vars => Passed'
<1> SUFFICES ASSUME LinkInv, Listed, Passed, [Next]_vars,
                    NEW n \in 1..Len(stack'), stack'[n].at = "walk",
                    NEW j \in 1..(stack'[n].next - 1)
             PROVE  /\ j \in 1..Len(children'[stack'[n].of])
                    /\ Attended(children[stack[n].of][j], n)'
  BY DEF Passed
<1>1. TypeOK /\ stack \in Seq(Frame)
  BY DEF LinkInv, TypeOK
<1>2. CASE stack' = stack
  BY <1>2, PassedKept
<1>3. CASE Take /\ stack' # stack
  <2>1. PICK at \in {"stop", "task"}, c \in {Head(queue).to} : stack' = <<Enter(at, c)>>
    BY <1>3 DEF Take
  <2>2. QED
    BY <2>1 DEF Enter
<1>4. CASE Stop
  <2> DEFINE c == Head(stack).of
             e == Enter("walk", c)
  <2>1. /\ c \in Comp /\ stack # <<>> /\ c = stack[1].of
        /\ channel' = [channel EXCEPT ![c] = FALSE] /\ stack' = <<e>> \o Tail(stack)
    BY <1>1, <1>4, TopTyped DEF Stop, Executes
  <2>2. e \in Frame /\ e.next = 1
    BY <2>1 DEF Enter, Frame
  <2> HIDE DEF c, e
  <2>3. Len(stack') = Len(stack) /\ stack'[1] = e /\ \A i \in 2..Len(stack) : stack'[i] = stack[i]
    BY <1>1, <2>1, <2>2, ReplaceFront
  <2>4. n \in 2..Len(stack)
    BY <1>1, <2>2, <2>3
  <2>5. ~channel'[c]
    BY <1>1, <2>1 DEF TypeOK
  <2>6. \A m \in 1..(n - 1) : stack[m].at = "stop" =>
           \/ ~channel'[stack[m].of]
           \/ \E k \in 1..(n - 1) : stack'[k].at = "stop" /\ stack'[k].of = stack[m].of
    <3> TAKE m \in 1..(n - 1)
    <3> HAVE stack[m].at = "stop"
    <3>1. CASE m = 1
      BY <2>1, <2>5, <3>1
    <3>2. CASE m # 1
      BY <2>3, <2>4, <3>2
    <3>3. QED
      BY <3>1, <3>2
  <2>7. n \in 1..Len(stack) /\ stack'[n] = stack[n]
    BY <2>3, <2>4
  <2>8. QED
    BY <2>6, <2>7, PassedKept
<1>5. CASE WalkChild
  <2> DEFINE f == Head(stack)
             g == [f EXCEPT !.next = @ + 1]
             below == <<g>> \o Tail(stack)
             d == children[f.of][f.next]
  <2>1. /\ f \in Frame /\ f = stack[1] /\ f.at = "walk"
        /\ f.next \in 1..Len(children[f.of])
        /\ d \in Child
        /\ g \in Frame /\ g.of = f.of /\ g.at = f.at /\ g.next = f.next + 1
        /\ below \in Seq(Frame) /\ Len(below) = Len(stack) /\ below[1] = g
        /\ \A i \in 2..Len(stack) : below[i] = stack[i]
        /\ stack' = IF channel[d] THEN <<Enter("stop", d)>> \o below ELSE below
    BY <1>1, <1>5, WalkTyped
  <2>2. UNCHANGED <<channel, children>> /\ stack # <<>> /\ 1 \in 1..Len(stack)
    <3> HIDE DEF f, g, below, d
    <3>1. stack \in Seq(Frame)
      BY <1>1
    <3>2. UNCHANGED <<channel, children>> /\ stack # <<>>
      BY <1>5 DEF WalkChild, Executes, tree
    <3> QED
      BY <3>1, <3>2, LenProperties, EmptySeq
  <2>3. d = children[f.of][f.next]
    OBVIOUS
  <2> HIDE DEF f, g, below, d
  <2>4. PICK x \in {0, 1} :
          /\ Len(stack') = Len(stack) + x
          /\ \A i \in 1..Len(stack) : stack'[i + x] = below[i]
          /\ x = 0 => ~channel[d]
          /\ x = 1 => stack'[1].at = "stop" /\ stack'[1].of = d
    <3>1. CASE ~channel[d]
      BY <1>1, <2>1, <3>1
    <3>2. CASE channel[d]
      <4> DEFINE e == Enter("stop", d)
      <4>1. e \in Frame /\ e.of = d /\ e.at = "stop"
        BY <2>1 DEF Enter, Frame, Child
      <4>2. stack' = <<e>> \o below
        BY <2>1, <3>2
      <4> HIDE DEF e
      <4>3. /\ Len(stack') = Len(below) + 1 /\ stack'[1] = e
            /\ \A i \in 1..Len(below) : stack'[i + 1] = below[i]
        BY <2>1, <4>1, <4>2, PushFront
      <4>4. QED
        BY <2>1, <4>1, <4>3
    <3>3. QED
      BY <3>1, <3>2
  <2>5. PICK i \in 1..Len(stack) : n = i + x /\ stack'[n] = below[i]
    <3>1. n = 1 /\ x = 1 => FALSE
      BY <2>4
    <3>2. n - x \in 1..Len(stack)
      BY <1>1, <2>4, <3>1
    <3>3. QED
      BY <2>4, <3>2
  <2>6. stack'[n].of = stack[i].of /\ stack[i].at = "walk"
    <3>1. CASE i = 1
      BY <2>1, <2>5, <3>1
    <3>2. CASE i # 1
      BY <2>1, <2>5, <3>2
    <3>3. QED
      BY <3>1, <3>2
  <2>7. CASE j \in 1..(stack[i].next - 1)
    <3>1. ASSUME NEW m \in 1..(i - 1), stack[m].at = "stop"
          PROVE  \E k \in 1..(n - 1) : stack'[k].at = "stop" /\ stack'[k].of = stack[m].of
      <4>1. m # 1 /\ m \in 1..Len(stack) /\ below[m] = stack[m]
        BY <2>1, <3>1
      <4>2. m + x \in 1..(n - 1) /\ stack'[m + x] = stack[m]
        BY <2>4, <2>5, <4>1
      <4>3. QED
        BY <3>1, <4>2
    <3>2. QED
      BY <2>6, <2>7, <3>1, PassedKept
  <2>8. CASE j \notin 1..(stack[i].next - 1)
    <3>1. i = 1 /\ j = f.next
      <4>1. i = 1
        <5>1. SUFFICES ASSUME i # 1 PROVE FALSE
          OBVIOUS
        <5>2. i \in 2..Len(stack)
          BY <2>5, <5>1
        <5>3. stack'[n] = stack[i]
          BY <2>1, <2>5, <5>2
        <5>4. QED
          BY <2>8, <5>3, Zenon
      <4>2. stack'[n].next = f.next + 1 /\ stack[i].next = f.next /\ f.next \in Nat
        BY <2>1, <2>5, <4>1
      <4>3. QED
        BY <2>8, <4>1, <4>2
    <3>2. children'[stack'[n].of] = children[f.of] /\ children'[stack'[n].of][j] = d
      BY <2>1, <2>2, <2>3, <2>6, <3>1
    <3>3. \/ ~channel'[d]
          \/ \E k \in 1..(n - 1) : stack'[k].at = "stop" /\ stack'[k].of = d
      BY <2>2, <2>4, <2>5, <3>1
    <3>4. QED
      BY <2>1, <3>1, <3>2, <3>3 DEF Attended
  <2>9. QED
    BY <2>7, <2>8
<1>6. CASE Leave \/ TaskReturn
  <2>1. stack # <<>> /\ stack' = Tail(stack) /\ Head(stack).at # "stop"
    BY <1>6 DEF Leave, TaskReturn, Executes
  <2>2. /\ stack[1].at # "stop" /\ Len(stack') = Len(stack) - 1
        /\ \A i \in 1..Len(stack') : stack'[i] = stack[i + 1]
    BY <1>1, <2>1, TopTyped
  <2>3. n + 1 \in 1..Len(stack) /\ stack'[n] = stack[n + 1]
    BY <1>1, <2>2
  <2>4. ASSUME NEW m \in 1..((n + 1) - 1), stack[m].at = "stop"
        PROVE  \E k \in 1..(n - 1) : stack'[k].at = "stop" /\ stack'[k].of = stack[m].of
    <3>1. m # 1
      BY <2>2, <2>4
    <3>2. m - 1 \in 1..(n - 1) /\ stack'[m - 1] = stack[m]
      BY <2>2, <2>3, <3>1
    <3>3. QED
      BY <2>4, <3>2
  <2>5. QED
    BY <2>3, <2>4, PassedKept
<1>7. ASSUME NEW c \in Comp, TaskExit(c)
      PROVE  /\ j \in 1..Len(children'[stack'[n].of])
             /\ Attended(children[stack[n].of][j], n)'
  <2> DEFINE e == Enter("stop", c)
  <2>1. stack' = <<e>> \o stack /\ e \in Frame /\ e.at = "stop"
    BY <1>7 DEF TaskExit, Enter, Frame
  <2> HIDE DEF e
  <2>2. /\ Len(stack') = Len(stack) + 1 /\ stack'[1] = e
        /\ \A i \in 1..Len(stack) : stack'[i + 1] = stack[i]
    BY <1>1, <2>1, PushFront
  <2>3. n # 1
    BY <2>1, <2>2
  <2>4. n - 1 \in 1..Len(stack) /\ stack'[n] = stack[n - 1]
    BY <1>1, <2>2, <2>3
  <2>5. ASSUME NEW m \in 1..((n - 1) - 1), stack[m].at = "stop"
        PROVE  \E k \in 1..(n - 1) : stack'[k].at = "stop" /\ stack'[k].of = stack[m].of
    <3>1. m + 1 \in 1..(n - 1) /\ stack'[m + 1] = stack[m]
      BY <2>2, <2>4
    <3>2. QED
      BY <2>5, <3>1
  <2>6. QED
    BY <2>4, <2>5, PassedKept
<1>8. QED
  BY <1>2, <1>3, <1>4, <1>5, <1>6, <1>7
     DEF Next, ClientStep, ContextStep, Construct, Call, RegisterTest, Use,
         TaskConstruct, tree, vars

(* The invariant of the walk holds in every reachable state. *)
LEMMA WalkInvariant == Spec => [](LinkInv /\ Listed /\ Passed)
<1>1. Init => Listed /\ Passed
  BY DEF Init, Listed, Passed, Elements
<1>2. LinkInv /\ Listed /\ Passed /\ [Next]_vars => (LinkInv /\ Listed /\ Passed)'
  BY LinkStep, ListedStep, PassedStep
<1>3. QED
  BY <1>1, <1>2, LinkInit, PTL DEF Spec

(* When exit() returns, every child that was registered has been closed: none is
   skipped, although each child calls back into the parent. *)
THEOREM ChildrenClosed == Spec => ExitClosesChildren
<1>1. LinkInv /\ Listed /\ Passed /\ [Next]_vars
        => [Executes("walk") /\ stack' = Tail(stack)
              => \A d \in Elements(children[Head(stack).of]) : ~channel[d]]_vars
  <2> SUFFICES ASSUME LinkInv, Listed, Passed, Executes("walk"), stack' = Tail(stack), Next,
                      NEW d \in Elements(children[Head(stack).of])
               PROVE  ~channel[d]
    OBVIOUS
  <2> DEFINE p == Head(stack).of
  <2>1. TypeOK /\ stack # <<>> /\ Head(stack).at = "walk"
    BY DEF LinkInv, Executes
  <2>2. /\ Head(stack) = stack[1] /\ 1 \in 1..Len(stack) /\ p \in Comp
        /\ Head(stack).next \in Nat /\ Len(stack') = Len(stack) - 1
    BY <2>1, TopTyped
  <2>3. ~WalkChild
    <3> SUFFICES ASSUME WalkChild PROVE FALSE
      OBVIOUS
    <3> DEFINE f == Head(stack)
               below == <<[f EXCEPT !.next = @ + 1]>> \o Tail(stack)
               c == children[f.of][f.next]
    <3>1. /\ below \in Seq(Frame) /\ Len(below) = Len(stack) /\ c \in Child
          /\ stack' = IF channel[c] THEN <<Enter("stop", c)>> \o below ELSE below
      BY <2>1, WalkTyped
    <3> HIDE DEF below, c
    <3>2. Enter("stop", c) \in Frame
      BY <3>1 DEF Enter, Frame, Child
    <3>3. Len(<<Enter("stop", c)>> \o below) = Len(stack) + 1
      BY <3>1, <3>2, PushFront
    <3>4. QED
      BY <2>2, <3>1, <3>3
  <2>4. Leave
    <3>1. stack' # stack
      <4>1. Len(stack) \in Nat
        BY <2>1 DEF TypeOK
      <4>2. QED
        BY <2>2, <4>1
    <3>2. ~Executes("task") /\ ~Executes("stop")
      BY <2>1 DEF Executes
    <3>3. QED
      BY <2>1, <2>3, <3>1, <3>2
         DEF Next, ClientStep, ContextStep, Construct, Call, RegisterTest, Use, Take,
             Stop, TaskReturn, TaskConstruct, TaskExit
  <2>5. PICK j \in 1..Len(children[p]) : d = children[p][j]
    BY DEF Elements
  <2>6. j \in 1..(stack[1].next - 1)
    BY <2>1, <2>2, <2>4, <2>5 DEF Leave, TypeOK
  <2>7. Attended(d, 1)
    BY <2>1, <2>2, <2>5, <2>6 DEF Passed
  <2>8. QED
    BY <2>7 DEF Attended
<1>2. QED
  BY <1>1, WalkInvariant, PTL DEF Spec, ExitClosesChildren

------------------------------------------------------------------------------
(* Registration and its end. *)

(* What a step does to the registration of c: it is made, or carried on, or
   refused by a parent that is closed. *)
LEMMA AddingStep ==
  ASSUME LinkInv, [Next]_vars, NEW c \in made \ {Root}, Adding(c)
  PROVE  \/ Adding(c)'
         \/ c \in Elements(children'[parent[c]])
         \/ ~channel[parent[c]]
<1> USE ComponentAssumption
<1>1. TypeOK /\ parent[c] \in Comp
  BY DEF LinkInv, RightTree, TypeOK
<1>2. CASE \E k \in Client : call[k].op \in {"register", "add"} /\ call[k].child = c
  <2>1. PICK k \in Client : call[k].op \in {"register", "add"} /\ call[k].child = c
    BY <1>2
  <2>2. /\ call[k] \in Lambda \cup Registers /\ Right(call[k])
        /\ call[k].to = parent[c] /\ call[k] # None
    <3>1. call[k] # None /\ call[k] \in {None} \cup Lambda \cup Registers
      BY <1>1, <2>1 DEF None, TypeOK
    <3>2. Right(call[k])
      BY <3>1 DEF LinkInv, RightCalls
    <3>3. QED
      BY <2>1, <3>1, <3>2 DEF Right
  <2>3. CASE call'[k] = call[k]
    BY <2>1, <2>3 DEF Adding
  <2>4. CASE call'[k] # call[k]
    <3>1. RegisterTest(k) \/ Use(k)
      BY <1>1, <2>2, <2>4
         DEF Next, ClientStep, ContextStep, Construct, MayCall, Call, RegisterTest,
             Use, Take, Stop, WalkChild, Leave, TaskReturn, TaskConstruct, TaskExit,
             vars, TypeOK
    <3>2. CASE RegisterTest(k) /\ channel[parent[c]]
      <4>1. call'[k] = [op |-> "add", to |-> parent[c], child |-> c]
        BY <1>1, <2>1, <2>2, <3>2 DEF RegisterTest, TypeOK
      <4>2. call'[k].op = "add" /\ call'[k].child = c
        BY <4>1
      <4>3. QED
        BY <4>2 DEF Adding
    <3>3. CASE Use(k) /\ channel[parent[c]]
      <4>1. call[k] \in Lambda /\ call[k].op = "add" /\ queue' = Append(queue, call[k])
        BY <2>1, <2>2, <3>3 DEF Use, Lambda
      <4>2. Len(queue') \in 1..Len(queue') /\ queue'[Len(queue')] = call[k]
        BY <1>1, <4>1 DEF TypeOK
      <4>3. QED
        BY <2>1, <4>1, <4>2 DEF Adding
    <3>4. QED
      BY <3>1, <3>2, <3>3
  <2>5. QED
    BY <2>3, <2>4
<1>3. CASE \E i \in 1..Len(queue) : queue[i].op = "add" /\ queue[i].child = c
  <2>1. PICK i \in 1..Len(queue) : queue[i].op = "add" /\ queue[i].child = c
    BY <1>3
  <2>2. queue \in Seq(Lambda) /\ queue[i] \in Lambda /\ queue[i].to = parent[c]
    BY <1>1, <2>1 DEF TypeOK, LinkInv, RightQueue, Right
  <2>3. CASE Take
    <3>1. queue' = Tail(queue)
      BY <2>3 DEF Take
    <3>2. CASE i = 1
      <4>1. Head(queue) = queue[1]
        BY <2>2
      <4>2. AddChild(parent[c], c)
        BY <2>1, <2>2, <2>3, <3>2, <4>1 DEF Take
      <4>3. c \in Child
        BY <1>1 DEF TypeOK, Child
      <4>4. Elements(children'[parent[c]]) = Elements(children[parent[c]]) \cup {c}
        BY <1>1, <4>2, <4>3, Added DEF TypeOK
      <4>5. QED
        BY <4>4
    <3>3. CASE i # 1
      <4>1. i - 1 \in 1..Len(queue') /\ queue'[i - 1] = queue[i]
        BY <2>2, <3>1, <3>3
      <4>2. QED
        BY <2>1, <4>1 DEF Adding
    <3>4. QED
      BY <3>2, <3>3
  <2>4. CASE ~Take
    <3>1. queue' = queue \/ \E l \in Lambda : queue' = Append(queue, l)
      BY <2>4
         DEF Next, ClientStep, ContextStep, Construct, Call, RegisterTest, Use, Stop,
             WalkChild, Leave, TaskReturn, TaskConstruct, TaskExit, vars
    <3>2. i \in 1..Len(queue') /\ queue'[i] = queue[i]
      BY <2>2, <3>1
    <3>3. QED
      BY <2>1, <3>2 DEF Adding
  <2>5. QED
    BY <2>3, <2>4
<1>4. QED
  BY <1>2, <1>3 DEF Adding

(* A component leaves a list only when it is closed. *)
LEMMA RemovedClosed ==
  ASSUME LinkInv, [Next]_vars, NEW p \in Comp, NEW c \in Elements(children[p])
  PROVE  c \in Elements(children'[p]) \/ (c \in Comp /\ ~channel[c])
<1>1. TypeOK
  BY DEF LinkInv
<1>2. CASE Leave
  <2> DEFINE d == Head(stack).of
  <2>1. d \in Comp /\ ~channel[d]
    BY <1>1, <1>2, TopTyped DEF Leave, Executes, LinkInv, RightStack
  <2>2. (\E q \in Comp : RemoveChild(q, d)) \/ UNCHANGED children
    BY <1>1, <1>2, <2>1 DEF Leave, TypeOK
  <2> HIDE DEF d
  <2>3. QED
    BY <1>1, <2>1, <2>2, Removed DEF TypeOK
<1>3. ASSUME NEW q \in Comp, NEW d \in Child, AddChild(q, d)
      PROVE  c \in Elements(children'[p])
  BY <1>1, <1>3, Added DEF TypeOK
<1>4. CASE Take
  <2>1. Head(queue) \in Lambda
    BY <1>1, <1>4 DEF Take, TypeOK
  <2>2. CASE Head(queue).op = "add"
    <3>1. PICK q \in Comp, d \in Child : AddChild(q, d)
      BY <1>4, <2>1, <2>2 DEF Take, Lambda
    <3>2. QED
      BY <1>3, <3>1
  <2>3. QED
    BY <1>4, <2>2 DEF Take
<1>5. QED
  BY <1>2, <1>3, <1>4
     DEF Next, ClientStep, ContextStep, Construct, Call, RegisterTest, Use, Stop,
         WalkChild, TaskReturn, TaskConstruct, Create, TaskExit, tree, vars

(* Open children of open parents are known to them, once they are registered:
   addChild of one and exit of another, from any threads, do not lose any. *)
THEOREM Remembered == Spec => []NoChildForgotten
<1>1. Init => NoChildForgotten
  BY DEF Init, NoChildForgotten
<1>2. LinkInv /\ NoChildForgotten /\ [Next]_vars => NoChildForgotten'
  <2> SUFFICES ASSUME LinkInv, NoChildForgotten, [Next]_vars, NEW c \in made' \ {Root},
                      channel'[c], channel'[parent'[c]], ~Adding(c)'
               PROVE  c \in Elements(children'[parent'[c]])
    BY DEF NoChildForgotten
  <2> USE ComponentAssumption
  <2>1. TypeOK /\ Grown /\ c \in Comp
    BY TreeGrows, TypeStep DEF LinkInv, TypeOK
  <2>2. CASE c \in made
    <3>1. parent'[c] = parent[c] /\ parent[c] \in made /\ channel[c] /\ channel[parent[c]]
      BY <2>1, <2>2 DEF Grown, LinkInv, RightTree
    <3>2. CASE Adding(c)
      BY <2>2, <3>1, <3>2, AddingStep
    <3>3. CASE ~Adding(c)
      <4>1. c \in Elements(children[parent[c]])
        BY <2>2, <3>1, <3>3 DEF NoChildForgotten
      <4>2. QED
        BY <2>1, <3>1, <4>1, RemovedClosed DEF TypeOK
    <3>4. QED
      BY <3>2, <3>3
  <2>3. CASE c \notin made
    <3>1. ASSUME NEW k \in Client, NEW p \in Comp, NEW d \in Comp, Construct(k, p, d)
          PROVE  FALSE
      <4>1. d = c /\ call'[k] = Register(p, d)
        BY <2>1, <2>3, <3>1 DEF Construct, Create, TypeOK
      <4>2. call'[k].op = "register" /\ call'[k].child = c
        BY <4>1 DEF Register
      <4>3. QED
        BY <4>2 DEF Adding
    <3>2. ASSUME NEW p \in Comp, NEW d \in Comp, TaskConstruct(p, d)
          PROVE  c \in Elements(children'[parent'[c]])
      <4>1. d = c /\ parent'[c] = p /\ c \in Child /\ AddChild(p, c)
        BY <2>1, <2>3, <3>2 DEF TaskConstruct, Create, TypeOK
      <4>2. Elements(children'[p]) = Elements(children[p]) \cup {c}
        BY <2>1, <4>1, Added DEF TypeOK
      <4>3. QED
        BY <4>1, <4>2
    <3>3. QED
      BY <2>3, <3>1, <3>2
         DEF Next, ClientStep, ContextStep, Call, RegisterTest, Use, Take, Stop,
             WalkChild, Leave, TaskReturn, TaskExit, tree, vars
  <2>4. QED
    BY <2>2, <2>3
<1>3. QED
  BY <1>1, <1>2, Linked, PTL DEF Spec

------------------------------------------------------------------------------
(* A component that waits for its registration is in no list, and nobody has
   heard of its exit; it waits once. *)
Fresh(c) == heard[c] = 0 /\ c \notin Elements(children[parent[c]])

Waits(k) == call[k].op \in {"register", "add"}

Queued(i) == queue[i].op = "add"

WaitingFresh ==
  /\ \A i \in 1..Len(queue) : Queued(i) => Fresh(queue[i].child)
  /\ \A k \in Client : Waits(k) => Fresh(call[k].child)

WaitsOnce ==
  /\ \A i, j \in 1..Len(queue) :
       Queued(i) /\ Queued(j) /\ queue[i].child = queue[j].child => i = j
  /\ \A i \in 1..Len(queue), k \in Client :
       Queued(i) /\ Waits(k) => queue[i].child # call[k].child
  /\ \A k, l \in Client :
       Waits(k) /\ Waits(l) /\ call[k].child = call[l].child => k = l

(* A component that is in a list is there once, and has not been heard of. *)
InListOnce ==
  \A p \in Comp : Distinct(children[p]) /\ \A c \in Elements(children[p]) : heard[c] = 0

UnmadeUnheard == \A c \in Comp \ made : heard[c] = 0

OnceInv == WaitingFresh /\ WaitsOnce /\ InListOnce /\ UnmadeUnheard /\ HeardOnce

(* The child of a registration under way. *)
LEMMA WaitingTyped ==
  ASSUME LinkInv
  PROVE  /\ \A k \in Client : Waits(k) =>
              /\ call[k].child \in Child /\ call[k].child \in made
              /\ call[k].to = parent[call[k].child] /\ call[k].to \in Comp
         /\ \A i \in 1..Len(queue) : Queued(i) =>
              /\ queue[i].child \in Child /\ queue[i].child \in made
              /\ queue[i].to = parent[queue[i].child] /\ queue[i].to \in Comp
<1>1. TypeOK
  BY DEF LinkInv
<1>2. ASSUME NEW k \in Client, Waits(k)
      PROVE  /\ call[k].child \in Child /\ call[k].child \in made
             /\ call[k].to = parent[call[k].child] /\ call[k].to \in Comp
  <2>1. call[k] # None /\ call[k] \in {None} \cup Lambda \cup Registers
    BY <1>1, <1>2 DEF None, TypeOK, Waits
  <2>2. Right(call[k])
    BY <2>1 DEF LinkInv, RightCalls
  <2>3. QED
    BY <1>2, <2>1, <2>2 DEF Right, Waits, Lambda, Registers
<1>3. ASSUME NEW i \in 1..Len(queue), Queued(i)
      PROVE  /\ queue[i].child \in Child /\ queue[i].child \in made
             /\ queue[i].to = parent[queue[i].child] /\ queue[i].to \in Comp
  <2>1. queue[i] \in Lambda /\ Right(queue[i])
    BY <1>1 DEF TypeOK, LinkInv, RightQueue
  <2>2. QED
    BY <1>3, <2>1 DEF Right, Queued, Lambda
<1>4. QED
  BY <1>2, <1>3

(* When the lists and what was heard do not change, only a new registration has
   to be looked at. *)
LEMMA FreshKept ==
  ASSUME LinkInv, Grown, UNCHANGED <<children, heard>>, NEW c \in made, Fresh(c)
  PROVE  Fresh(c)'
  BY DEF Fresh, Grown

(* Initially nothing has been heard and nothing waits. *)
LEMMA OnceInit == Init => OnceInv
<1> SUFFICES ASSUME Init PROVE OnceInv
  OBVIOUS
<1>1. WaitingFresh /\ WaitsOnce
  BY DEF Init, WaitingFresh, WaitsOnce, Waits, Queued, None
<1>2. InListOnce
  BY DEF Init, InListOnce, Distinct, Elements
<1>3. UnmadeUnheard /\ HeardOnce
  BY DEF Init, UnmadeUnheard, HeardOnce
<1>4. QED
  BY <1>1, <1>2, <1>3 DEF OnceInv

(* Every step keeps a registration single. *)
LEMMA OnceStep == LinkInv /\ Listed /\ OnceInv /\ [Next]_vars => OnceInv'
<1> SUFFICES ASSUME LinkInv, Listed, OnceInv, [Next]_vars PROVE OnceInv'
  OBVIOUS
<1> USE ComponentAssumption
<1>1. TypeOK /\ Grown /\ LinkInv'
  BY TreeGrows, LinkStep DEF LinkInv
<1>2. ASSUME UNCHANGED heard PROVE UnmadeUnheard' /\ HeardOnce'
  <2>1. UnmadeUnheard'
    BY <1>1, <1>2 DEF OnceInv, UnmadeUnheard, Grown
  <2>2. HeardOnce'
    <3> SUFFICES ASSUME NEW c \in Comp PROVE heard[c] <= 1 /\ (heard[c] = 1 => ~channel'[c])
      BY <1>2 DEF HeardOnce
    <3>1. heard[c] <= 1 /\ (heard[c] = 1 => ~channel[c])
      BY DEF OnceInv, HeardOnce
    <3>2. heard[c] = 1 => c \in made
      BY DEF OnceInv, UnmadeUnheard
    <3>3. QED
      BY <1>1, <3>1, <3>2 DEF Grown
  <2>3. QED
    BY <2>1, <2>2
<1>3. ASSUME UNCHANGED <<children, heard>> PROVE InListOnce'
  BY <1>3 DEF OnceInv, InListOnce
<1>4. ASSUME UNCHANGED <<children, heard>>, NEW k \in Client, NEW c, call'[k].child = c,
             \A j \in Client : j # k => call'[j] = call[j],
             Waits(k)' => Fresh(c)' /\ (\A i \in 1..Len(queue) : Queued(i) => queue[i].child # c)
                          /\ (\A j \in Client : j # k /\ Waits(j) => call[j].child # c),
             UNCHANGED queue
      PROVE  OnceInv'
  <2>1. WaitingFresh'
    <3>1. ASSUME NEW i \in 1..Len(queue), Queued(i) PROVE Fresh(queue[i].child)'
      <4>1. Fresh(queue[i].child) /\ queue[i].child \in made
        BY <3>1, WaitingTyped DEF OnceInv, WaitingFresh
      <4>2. QED
        BY <1>1, <1>4, <4>1 DEF Fresh, Grown
    <3>2. ASSUME NEW j \in Client, Waits(j)' PROVE Fresh(call[j].child)'
      <4>1. CASE j = k
        BY <1>4, <3>2, <4>1 DEF Fresh
      <4>2. CASE j # k
        <5>1. Fresh(call[j].child) /\ call[j].child \in made /\ call'[j] = call[j]
          BY <1>4, <3>2, <4>2, WaitingTyped DEF OnceInv, WaitingFresh, Waits
        <5>2. QED
          BY <1>1, <1>4, <5>1 DEF Fresh, Grown
      <4>3. QED
        BY <4>1, <4>2
    <3>3. QED
      BY <1>4, <3>1, <3>2 DEF WaitingFresh, Queued
  <2>2. WaitsOnce'
    BY <1>4 DEF OnceInv, WaitsOnce, Waits, Queued
  <2>3. QED
    BY <1>2, <1>3, <1>4, <2>1, <2>2 DEF OnceInv
<1>5. ASSUME UNCHANGED <<children, heard, queue, call>> PROVE OnceInv'
  <2>1. WaitingFresh'
    BY <1>1, <1>5, WaitingTyped, FreshKept
       DEF OnceInv, WaitingFresh, Waits, Queued
  <2>2. WaitsOnce'
    BY <1>5 DEF OnceInv, WaitsOnce, Waits, Queued
  <2>3. QED
    BY <1>2, <1>3, <1>5, <2>1, <2>2 DEF OnceInv
<1>6. ASSUME NEW k \in Client, NEW p \in Comp, NEW c \in Comp, Construct(k, p, c)
      PROVE  OnceInv'
  <2>1. /\ c \notin made /\ parent'[c] = p /\ UNCHANGED <<children, heard, queue>>
        /\ call'[k] = Register(p, c) /\ \A j \in Client : j # k => call'[j] = call[j]
    BY <1>1, <1>6 DEF Construct, Create, TypeOK
  <2>2. Fresh(c)'
    BY <2>1 DEF Fresh, OnceInv, UnmadeUnheard, Listed
  <2>3. call'[k].child = c
    BY <2>1 DEF Register
  <2>4. QED
    BY <1>4, <2>1, <2>2, <2>3, WaitingTyped
<1>7. ASSUME NEW k \in Client, NEW op \in {"exit", "task"}, NEW c \in Comp, Call(k, op, c)
      PROVE  OnceInv'
  <2>1. /\ call'[k].op \notin {"register", "add"} /\ UNCHANGED <<children, heard, queue>>
        /\ \A j \in Client : j # k => call'[j] = call[j]
    BY <1>1, <1>7 DEF Call, tree, TypeOK
  <2>2. PICK d : call'[k].child = d
    OBVIOUS
  <2>3. QED
    BY <1>4, <2>1, <2>2 DEF Waits
<1>8. ASSUME NEW k \in Client, RegisterTest(k) PROVE OnceInv'
  <2>1. PICK c : c = call[k].child
    OBVIOUS
  <2>2. Waits(k) /\ UNCHANGED <<tree, heard, queue>>
    BY <1>8 DEF RegisterTest, Waits
  <2>3. /\ c \in made /\ Fresh(c)
        /\ \A i \in 1..Len(queue) : Queued(i) => queue[i].child # c
        /\ \A j \in Client : j # k /\ Waits(j) => call[j].child # c
    BY <2>1, <2>2, WaitingTyped DEF OnceInv, WaitingFresh, WaitsOnce
  <2>4. Fresh(c)'
    BY <1>1, <2>2, <2>3, FreshKept DEF tree
  <2>5. \A j \in Client : j # k => call'[j] = call[j]
    BY <1>1, <1>8 DEF RegisterTest, TypeOK
  <2>6. PICK d : call'[k].child = d
    OBVIOUS
  <2>7. Waits(k)' => d = c
    <3>1. CASE channel[call[k].to]
      <4>1. call'[k] = [op |-> "add", to |-> call[k].to, child |-> call[k].child]
        BY <1>1, <1>8, <3>1 DEF RegisterTest, TypeOK
      <4>2. QED
        BY <2>1, <2>6, <4>1
    <3>2. CASE ~channel[call[k].to]
      <4>1. call'[k] = None
        BY <1>1, <1>8, <3>2 DEF RegisterTest, TypeOK
      <4>2. QED
        BY <4>1 DEF Waits, None
    <3>3. QED
      BY <3>1, <3>2
  <2>8. QED
    BY <1>4, <2>2, <2>3, <2>4, <2>5, <2>6, <2>7 DEF tree
<1>9. ASSUME NEW k \in Client, Use(k) PROVE OnceInv'
  <2>1. /\ call[k] \in Lambda /\ call'[k] = None /\ UNCHANGED <<tree, heard>>
        /\ \A j \in Client : j # k => call'[j] = call[j]
        /\ queue' = Append(queue, call[k]) \/ queue' = queue
    BY <1>1, <1>9 DEF Use, TypeOK
  <2>2. ~Waits(k)'
    BY <2>1 DEF Waits, None
  <2>3. CASE queue' = queue
    <3>1. PICK d : call'[k].child = d
      OBVIOUS
    <3>2. QED
      BY <1>4, <2>1, <2>2, <2>3, <3>1 DEF tree
  <2>4. CASE queue' = Append(queue, call[k])
    <3>1. /\ queue \in Seq(Lambda) /\ Len(queue') = Len(queue) + 1 /\ Len(queue) \in Nat
          /\ queue'[Len(queue) + 1] = call[k]
          /\ \A i \in 1..Len(queue) : queue'[i] = queue[i]
      BY <1>1, <2>1, <2>4 DEF TypeOK
    <3>2. \A i \in 1..Len(queue') : i = Len(queue) + 1 \/ i \in 1..Len(queue)
      BY <3>1
    <3>3. call[k].op = "add" => Waits(k)
      BY DEF Waits
    <3>4. WaitingFresh'
      <4>1. ASSUME NEW i \in 1..Len(queue'), Queued(i)' PROVE Fresh(queue[i].child)'
        <5>1. Fresh(queue'[i].child) /\ queue'[i].child \in made
          BY <3>1, <3>2, <3>3, <4>1, WaitingTyped DEF OnceInv, WaitingFresh, Queued
        <5>2. QED
          BY <1>1, <2>1, <5>1 DEF Fresh, Grown, tree
      <4>2. ASSUME NEW j \in Client, Waits(j)' PROVE Fresh(call[j].child)'
        <5>1. Fresh(call[j].child) /\ call[j].child \in made /\ call'[j] = call[j]
          BY <2>1, <2>2, <4>2, WaitingTyped DEF OnceInv, WaitingFresh, Waits
        <5>2. QED
          BY <1>1, <2>1, <5>1 DEF Fresh, Grown, tree
      <4>3. QED
        BY <4>1, <4>2 DEF WaitingFresh
    <3>5. WaitsOnce'
      BY <2>1, <2>2, <3>1, <3>2, <3>3 DEF OnceInv, WaitsOnce, Waits, Queued
    <3>6. QED
      BY <1>2, <1>3, <2>1, <3>4, <3>5 DEF OnceInv, tree
  <2>5. QED
    BY <2>1, <2>3, <2>4
<1>10. CASE Take
  <2>1. /\ queue \in Seq(Lambda) /\ queue # <<>> /\ queue' = Tail(queue) /\ Head(queue) = queue[1]
        /\ UNCHANGED <<made, parent, channel, call, heard>>
    BY <1>1, <1>10 DEF Take, TypeOK
  <2>2. /\ 1 \in 1..Len(queue)
        /\ \A i \in 1..Len(queue') : i + 1 \in 1..Len(queue) /\ queue'[i] = queue[i + 1] /\ i + 1 # 1
    BY <2>1
  <2>3. WaitsOnce'
    <3>1. \A i, j \in 1..Len(queue') : i + 1 = j + 1 => i = j
      BY <2>1
    <3>2. QED
      BY <2>1, <2>2, <3>1 DEF OnceInv, WaitsOnce, Waits, Queued
  <2>4. CASE Head(queue).op # "add"
    <3>1. UNCHANGED children
      BY <1>10, <2>4 DEF Take
    <3>2. WaitingFresh'
      BY <2>1, <2>2, <3>1 DEF OnceInv, WaitingFresh, Waits, Queued, Fresh
    <3>3. QED
      BY <1>2, <1>3, <2>1, <2>3, <3>1, <3>2 DEF OnceInv
  <2>5. CASE Head(queue).op = "add"
    <3>1. PICK c \in Child : c = queue[1].child
      BY <2>1, <2>2, <2>5, WaitingTyped DEF Queued
    <3>2. PICK p \in Comp : p = queue[1].to /\ p = parent[c]
      BY <2>1, <2>2, <2>5, <3>1, WaitingTyped DEF Queued
    <3>3. AddChild(p, c)
      BY <1>10, <2>1, <2>5, <3>1, <3>2 DEF Take
    <3>4. Fresh(c)
      BY <2>1, <2>2, <2>5, <3>1 DEF OnceInv, WaitingFresh, Queued
    <3>5. /\ \A q \in Comp : q # p => children'[q] = children[q]
          /\ Elements(children'[p]) = Elements(children[p]) \cup {c}
          /\ Distinct(children'[p])
      BY <1>1, <3>2, <3>3, <3>4, Added DEF TypeOK, Fresh, OnceInv, InListOnce
    <3>6. ASSUME NEW d, d # c, Fresh(d), parent[d] \in Comp PROVE Fresh(d)'
      BY <2>1, <3>5, <3>6 DEF Fresh
    <3>7. WaitingFresh'
      <4>1. ASSUME NEW i \in 1..Len(queue'), Queued(i)' PROVE Fresh(queue[i].child)'
        <5>1. /\ Fresh(queue'[i].child) /\ parent[queue'[i].child] \in Comp
              /\ queue'[i].child # c
          BY <2>1, <2>2, <2>5, <3>1, <4>1, WaitingTyped
             DEF OnceInv, WaitingFresh, WaitsOnce, Queued
        <5>2. QED
          BY <3>6, <5>1 DEF Fresh
      <4>2. ASSUME NEW j \in Client, Waits(j)' PROVE Fresh(call[j].child)'
        <5>1. /\ Fresh(call[j].child) /\ parent[call[j].child] \in Comp /\ call'[j] = call[j]
              /\ call[j].child # c
          BY <2>1, <2>2, <2>5, <3>1, <4>2, WaitingTyped
             DEF OnceInv, WaitingFresh, WaitsOnce, Queued, Waits
        <5>2. QED
          BY <3>6, <5>1 DEF Fresh
      <4>3. QED
        BY <4>1, <4>2 DEF WaitingFresh
    <3>8. InListOnce'
      BY <2>1, <3>4, <3>5 DEF OnceInv, InListOnce, Fresh
    <3>9. QED
      BY <1>2, <2>1, <2>3, <3>7, <3>8 DEF OnceInv
  <2>6. QED
    BY <2>4, <2>5
<1>11. CASE Leave
  <2>1. PICK c \in Comp : c = Head(stack).of /\ ~channel[c] /\ c \in made
    BY <1>1, <1>11, TopTyped DEF Leave, Executes, LinkInv, RightStack
  <2>2. UNCHANGED <<made, parent, channel, queue, call>>
    BY <1>11 DEF Leave
  <2>3. CASE UNCHANGED <<children, heard>>
    BY <1>5, <2>2, <2>3
  <2>4. ASSUME NEW p \in Comp, RemoveChild(p, c), c \in Elements(children[p]) PROVE OnceInv'
    <3>1. /\ \A q \in Comp : q # p => children'[q] = children[q]
          /\ Elements(children'[p]) \subseteq Elements(children[p])
          /\ Distinct(children'[p]) /\ c \notin Elements(children'[p])
          /\ \A d \in Comp : d # c => heard'[d] = heard[d]
          /\ heard'[c] = heard[c] + 1
      BY <1>1, <2>4, Removed DEF TypeOK, OnceInv, InListOnce
    <3>2. parent[c] = p /\ heard[c] = 0
      BY <2>4 DEF Listed, OnceInv, InListOnce
    <3>3. ASSUME NEW d \in Comp, Fresh(d), parent[d] \in Comp PROVE Fresh(d)'
      BY <2>2, <2>4, <3>1, <3>2, <3>3 DEF Fresh
    <3>4. WaitingFresh'
      <4>1. ASSUME NEW i \in 1..Len(queue), Queued(i) PROVE Fresh(queue[i].child)'
        <5>1. Fresh(queue[i].child) /\ parent[queue[i].child] \in Comp /\ queue[i].child \in Comp
          BY <4>1, WaitingTyped DEF OnceInv, WaitingFresh, Child
        <5>2. QED
          BY <2>2, <3>3, <5>1 DEF Fresh
      <4>2. ASSUME NEW j \in Client, Waits(j) PROVE Fresh(call[j].child)'
        <5>1. Fresh(call[j].child) /\ parent[call[j].child] \in Comp /\ call[j].child \in Comp
          BY <4>2, WaitingTyped DEF OnceInv, WaitingFresh, Child
        <5>2. QED
          BY <2>2, <3>3, <5>1 DEF Fresh
      <4>3. QED
        BY <2>2, <4>1, <4>2 DEF WaitingFresh, Queued, Waits
    <3>5. WaitsOnce'
      BY <2>2 DEF OnceInv, WaitsOnce, Waits, Queued
    <3>6. InListOnce'
      <4> SUFFICES ASSUME NEW q \in Comp
                   PROVE  /\ Distinct(children'[q])
                          /\ \A d \in Elements(children'[q]) : heard'[d] = 0
        BY DEF InListOnce, Distinct, Elements
      <4>1. Distinct(children'[q]) /\ Elements(children'[q]) \subseteq Elements(children[q])
        BY <3>1 DEF OnceInv, InListOnce
      <4>2. c \notin Elements(children'[q])
        BY <3>1, <3>2 DEF Listed
      <4>3. \A d \in Elements(children'[q]) : d \in Comp /\ d # c /\ heard[d] = 0
        BY <1>1, <4>1, <4>2 DEF OnceInv, InListOnce, Listed, TypeOK
      <4>4. QED
        BY <3>1, <4>1, <4>3
    <3>7. UnmadeUnheard' /\ HeardOnce'
      BY <2>1, <2>2, <3>1, <3>2 DEF OnceInv, UnmadeUnheard, HeardOnce
    <3>8. QED
      BY <3>4, <3>5, <3>6, <3>7 DEF OnceInv
  <2>5. QED
    BY <1>1, <1>11, <2>1, <2>3, <2>4 DEF Leave, RemoveChild, TypeOK
<1>12. ASSUME NEW p \in Comp, NEW c \in Comp, TaskConstruct(p, c) PROVE OnceInv'
  <2>1. /\ c \notin made /\ c \in Child /\ AddChild(p, c) /\ UNCHANGED <<heard, queue, call>>
    BY <1>12 DEF TaskConstruct, Create
  <2>2. c \notin Elements(children[p]) /\ heard[c] = 0
    BY <2>1 DEF Listed, OnceInv, UnmadeUnheard
  <2>3. /\ \A q \in Comp : q # p => children'[q] = children[q]
        /\ Elements(children'[p]) = Elements(children[p]) \cup {c}
        /\ Distinct(children'[p])
    BY <1>1, <2>1, <2>2, Added DEF TypeOK, OnceInv, InListOnce
  <2>4. ASSUME NEW d \in made, Fresh(d), parent[d] \in Comp PROVE Fresh(d)'
    BY <1>1, <2>1, <2>3, <2>4 DEF Fresh, Grown
  <2>5. WaitingFresh'
    <3>1. ASSUME NEW i \in 1..Len(queue), Queued(i) PROVE Fresh(queue[i].child)'
      <4>1. Fresh(queue[i].child) /\ parent[queue[i].child] \in Comp /\ queue[i].child \in made
        BY <3>1, WaitingTyped DEF OnceInv, WaitingFresh
      <4>2. QED
        BY <2>1, <2>4, <4>1 DEF Fresh
    <3>2. ASSUME NEW j \in Client, Waits(j) PROVE Fresh(call[j].child)'
      <4>1. Fresh(call[j].child) /\ parent[call[j].child] \in Comp /\ call[j].child \in made
        BY <3>2, WaitingTyped DEF OnceInv, WaitingFresh
      <4>2. QED
        BY <2>1, <2>4, <4>1 DEF Fresh
    <3>3. QED
      BY <2>1, <3>1, <3>2 DEF WaitingFresh, Queued, Waits
  <2>6. WaitsOnce'
    BY <2>1 DEF OnceInv, WaitsOnce, Waits, Queued
  <2>7. InListOnce'
    BY <2>1, <2>2, <2>3 DEF OnceInv, InListOnce
  <2>8. QED
    BY <1>2, <2>1, <2>5, <2>6, <2>7 DEF OnceInv
<1>13. QED
  BY <1>5, <1>6, <1>7, <1>8, <1>9, <1>10, <1>11, <1>12
     DEF Next, ClientStep, ContextStep, Stop, WalkChild, TaskReturn, TaskExit, tree, vars

(* A parent hears once of a child, after the child is closed, however many exits
   of it are called and wherever its registration is when it exits. *)
THEOREM HeardAtMostOnce == Spec => []HeardOnce
<1>1. LinkInv /\ Listed /\ OnceInv /\ [Next]_vars => OnceInv'
  BY OnceStep
<1>2. OnceInv => HeardOnce
  BY DEF OnceInv
<1>3. Spec => [](LinkInv /\ Listed /\ Passed)
  BY WalkInvariant
<1>4. Spec => []OnceInv
  BY <1>1, <1>3, OnceInit, PTL DEF Spec
<1>5. QED
  BY <1>2, <1>4, PTL
==============================================================================
