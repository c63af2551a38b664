--------------------------- MODULE ByteOffsetProofs ---------------------------
(****************************************************************************)
(* Proofs about ByteOffset, for composites of any size that hold each other *)
(* by value as deep as they like (LaidOut).                                 *)
(*                                                                          *)
(* The search visits also the members that do not cover the offset, with an *)
(* offset_base_ that is set on the way in and never on the way out.  It     *)
(* finds the pointer or array at the offset all the same: what it visits    *)
(* before lies in front, and what it visits afterwards lies behind,         *)
(* whichever base is added.                                                 *)
(****************************************************************************)
EXTENDS ByteOffset, SequenceTheorems, TLAPS

\* A composite is laid out one way or another.
EveryLayout ==
    \A g \in Graphs : \E extent \in [Node -> Nat], depth \in [Node -> Nat], apart \in SUBSET Node :
        LaidOut(g, extent, depth, apart)

TypeInv ==
    /\ graph \in Graphs
    /\ TypeOK
    /\ todo # <<>> => byte_index_ \in Offsets

(****************************************************************************)
(* Types.                                                                   *)
(****************************************************************************)

LEMMA GraphTypes ==
    ASSUME NEW g \in Graphs
    PROVE  /\ g.tag \in [Node -> Tag] /\ g.base \in [Node -> Node \cup {NoNode}]
           /\ g.elements \in [Node -> Seq(Node)] /\ g.root \in Node
           /\ g.offset \in [Node -> Nat] /\ g.size \in [Node -> Nat]
           /\ \A n \in Node : /\ DOMAIN g.elements[n] = 1..Len(g.elements[n])
                              /\ Len(g.elements[n]) \in Nat
                              /\ \A i \in DOMAIN g.elements[n] : g.elements[n][i] \in Node
<1>1. /\ g.tag \in [Node -> Tag] /\ g.base \in [Node -> Node \cup {NoNode}]
      /\ g.elements \in [Node -> Seq(Node)] /\ g.root \in Node
      /\ g.offset \in [Node -> Nat] /\ g.size \in [Node -> Nat]
  BY GraphsAssumption
<1>2. ASSUME NEW n \in Node
      PROVE  /\ DOMAIN g.elements[n] = 1..Len(g.elements[n])
             /\ Len(g.elements[n]) \in Nat
             /\ \A i \in DOMAIN g.elements[n] : g.elements[n][i] \in Node
  <2>1. g.elements[n] \in Seq(Node)
    BY <1>1
  <2> QED BY <2>1, LenProperties, ElementOfSeq
<1> QED BY <1>1, <1>2

LEMMA CallTypes ==
    /\ \A n \in Node : traverse(n) \in Calls /\ leave(n) \in Calls
    /\ \A n : traverse(n).call = "traverse" /\ traverse(n).node = n
    /\ \A n : leave(n).call = "leave" /\ leave(n).node = n
BY DEF traverse, leave, Calls

\* The calls that the visit of a node makes.
LEMMA NewCalls ==
    ASSUME TypeInv, todo # <<>>
    PROVE  /\ node \in Node /\ Head(todo) \in Calls /\ todo[1] = Head(todo)
           /\ traverse_base(node) \in Seq(Calls)
           /\ traverse_elements(node) \in Seq(Calls)
           /\ Len(traverse_elements(node)) = Len(graph.elements[node])
           /\ \A i \in 1..Len(graph.elements[node]) :
                 traverse_elements(node)[i] = traverse(graph.elements[node][i])
           /\ <<leave(node)>> \in Seq(Calls)
           /\ <<>> \in Seq(Calls)
<1>1. Head(todo) \in Calls /\ todo[1] = Head(todo)
  BY HeadTailProperties DEF TypeInv, TypeOK
<1>2. node \in Node
  BY <1>1 DEF node, Calls
<1>3. traverse_base(node) \in Seq(Calls)
  <2>1. graph.base[node] \in Node \cup {NoNode}
    BY <1>2, GraphTypes DEF TypeInv
  <2> QED BY <2>1, CallTypes DEF traverse_base
<1>4. /\ traverse_elements(node) \in Seq(Calls)
      /\ Len(traverse_elements(node)) = Len(graph.elements[node])
      /\ \A i \in 1..Len(graph.elements[node]) :
            traverse_elements(node)[i] = traverse(graph.elements[node][i])
  <2> DEFINE n == Len(graph.elements[node])
             e == traverse_elements(node)
  <2>1. /\ DOMAIN graph.elements[node] = 1..n /\ n \in Nat
        /\ \A i \in 1..n : graph.elements[node][i] \in Node
    BY <1>2, GraphTypes DEF TypeInv
  <2>2. e = [i \in 1..n |-> traverse(graph.elements[node][i])]
    BY <2>1 DEF traverse_elements
  <2>3. \A i \in 1..n : traverse(graph.elements[node][i]) \in Calls
    BY <2>1, CallTypes
  <2> QED BY <2>1, <2>2, <2>3
<1>5. <<leave(node)>> \in Seq(Calls)
  BY <1>2, CallTypes
<1> QED BY <1>1, <1>2, <1>3, <1>4, <1>5

LEMMA ContinueType ==
    ASSUME TypeInv, todo # <<>>, NEW calls \in Seq(Calls), Continue(calls)
    PROVE  todo' \in Seq(Calls)
<1>1. Tail(todo) \in Seq(Calls)
  BY HeadTailProperties DEF TypeInv, TypeOK
<1> QED BY <1>1, ConcatProperties DEF Continue

LEMMA TypeInit == Init => TypeInv
<1> SUFFICES ASSUME Init PROVE TypeInv
  OBVIOUS
<1>1. terminate \in BOOLEAN
  BY DEF Init, Idle
<1>2. todo = <<>> /\ todo \in Seq(Calls)
  BY EmptySeq DEF Init, Idle
<1>3. offset_base_ \in Nat
  BY DEF Init, Idle
<1> QED BY <1>1, <1>2, <1>3 DEF Init, Idle, TypeInv, TypeOK

LEMMA SkipType ==
    ASSUME TypeInv, todo # <<>>, Skip
    PROVE  todo' \in Seq(Calls) /\ visited_dinodes_' = visited_dinodes_
BY NewCalls, ContinueType DEF Skip

LEMMA DerivedType ==
    ASSUME TypeInv, todo # <<>>, traverseDerived
    PROVE  todo' \in Seq(Calls) /\ visited_dinodes_' = visited_dinodes_
BY NewCalls, ContinueType DEF traverseDerived

LEMMA TypeStep ==
    ASSUME TypeInv, [Next]_vars
    PROVE  TypeInv'
<1>1. ASSUME NEW offset \in Offsets, resolve_byte_offset(graph.root, offset)
      PROVE  TypeInv'
  <2>1. graph.root \in Node
    BY GraphTypes DEF TypeInv
  <2>2. todo' \in Seq(Calls)
    BY <1>1, <2>1, CallTypes DEF resolve_byte_offset, Start
  <2> QED BY <1>1, <2>2 DEF resolve_byte_offset, Start, TypeInv, TypeOK
<1>2. CASE visitLastMember
  BY <1>2, NewCalls, SkipType DEF visitLastMember, At, TypeInv, TypeOK, tag
<1>3. CASE visitMember
  <2>1. todo # <<>> /\ node \in Node /\ graph.offset[node] \in Nat
    BY <1>3, NewCalls, GraphTypes DEF visitMember, At, TypeInv
  <2> QED BY <1>3, <2>1, DerivedType DEF visitMember, TypeInv, TypeOK, tag
<1>4. CASE visitOther
  BY <1>4, DerivedType DEF visitOther, At, TypeInv, TypeOK, destructure
<1>5. CASE visitComposite
  <2>1. todo # <<>> /\ graph' = graph /\ UNCHANGED destructure
    BY <1>5 DEF visitComposite, At
  <2>2. todo' \in Seq(Calls) /\ visited_dinodes_' \subseteq Node
    <3>1. CASE traverseArray
      <4>1. traverse_elements(node) \o traverse_base(node) \in Seq(Calls)
        BY <2>1, NewCalls, ConcatProperties
      <4> QED BY <2>1, <3>1, <4>1, ContinueType DEF traverseArray, TypeInv, TypeOK
    <3>2. CASE traverseComposite
      <4>1. traverse_base(node) \o traverse_elements(node) \o <<leave(node)>> \in Seq(Calls)
        BY <2>1, NewCalls, ConcatProperties
      <4> QED BY <2>1, <3>2, <4>1, NewCalls, ContinueType DEF traverseComposite, TypeInv, TypeOK
    <3> QED BY <1>5, <3>1, <3>2 DEF visitComposite
  <2> QED BY <2>1, <2>2 DEF TypeInv, TypeOK, destructure
<1>6. CASE visitNothing
  BY <1>6, SkipType DEF visitNothing, At, TypeInv, TypeOK, destructure
<1>7. CASE leaveCompositeType
  <2>1. todo # <<>> /\ graph' = graph /\ UNCHANGED destructure
    BY <1>7 DEF leaveCompositeType, At
  <2>2. todo' \in Seq(Calls) /\ visited_dinodes_' \subseteq Node
    BY <1>7, <2>1, NewCalls, ContinueType DEF leaveCompositeType, leaveComposite, TypeInv, TypeOK
  <2> QED BY <2>1, <2>2 DEF TypeInv, TypeOK, destructure
<1>8. CASE UNCHANGED vars
  BY <1>8 DEF vars, destructure, TypeInv, TypeOK
<1> QED BY <1>1, <1>2, <1>3, <1>4, <1>5, <1>6, <1>7, <1>8 DEF Next, Traverse

LEMMA TypesHold == Spec => []TypeInv
<1>1. Init => TypeInv
  BY TypeInit
<1>2. TypeInv /\ [Next]_vars => TypeInv'
  BY TypeStep
<1> QED BY <1>1, <1>2, PTL DEF Spec

\* For every set of debug info graphs, laid out or not.
THEOREM TypeCorrect == Spec => []TypeOK
<1>1. TypeInv => TypeOK
  BY DEF TypeInv
<1> QED BY <1>1, TypesHold, PTL

(****************************************************************************)
(* The calls that wait, as a sequence.                                      *)
(****************************************************************************)

After(s, calls, t) == s = calls \o Tail(t)

Held(s, root, apart) ==
    {i \in DOMAIN s : s[i].call = "traverse" /\ s[i].node \notin apart \cup {root}}

Leaves(s) == {i \in DOMAIN s : s[i].call = "leave"}

Nested(s, root, depth, apart) ==
    \A i \in Leaves(s) \cup Held(s, root, apart), j \in Leaves(s) :
        i < j => depth[s[i].node] < depth[s[j].node]

Ordered(s, root, g, extent, apart) ==
    \A j \in Held(s, root, apart) :
        IF g.tag[s[j].node] \in {"member", "inheritance"}
        THEN \A i \in Held(s, root, apart) : i < j => extent[s[i].node] <= g.offset[s[j].node]
        ELSE \A i \in DOMAIN s : i < j => i \notin Held(s, root, apart) \cup Leaves(s)

LEMMA AsSequence ==
    ASSUME NEW extent, NEW depth, NEW apart
    PROVE  /\ toTraverse(apart) = Held(todo, graph.root, apart) /\ toLeave = Leaves(todo)
           /\ WaitsInOrder(extent, apart) <=> Ordered(todo, graph.root, graph, extent, apart)
           /\ OpenFromInside(depth, apart) <=>
                 /\ visited_dinodes_ = {todo[i].node : i \in Leaves(todo)}
                 /\ \A i \in Leaves(todo) : todo[i].node \notin apart
                 /\ Nested(todo, graph.root, depth, apart)
                 /\ \/ todo = <<>>
                    \/ todo = <<traverse(graph.root)>>
                    \/ todo[Len(todo)] = leave(graph.root)
<1>1. toTraverse(apart) = Held(todo, graph.root, apart)
  BY DEF toTraverse, Held
<1>2. toLeave = Leaves(todo)
  BY DEF toLeave, Leaves
<1> QED BY <1>1, <1>2 DEF WaitsInOrder, Ordered, OpenFromInside, Nested

\* Where a call that waits comes from.
LEMMA Origin ==
    ASSUME NEW t \in Seq(Calls), t # <<>>, NEW calls \in Seq(Calls), NEW s, After(s, calls, t)
    PROVE  LET shift == Len(calls) - 1
           IN  /\ Len(calls) \in Nat /\ Len(t) \in Nat \ {0} /\ Len(s) = Len(t) + shift
               /\ DOMAIN t = 1..Len(t) /\ DOMAIN calls = 1..Len(calls) /\ DOMAIN s = 1..Len(s)
               /\ \A i \in 1..Len(calls) : i \in DOMAIN s /\ s[i] = calls[i]
               /\ \A i \in 2..Len(t) : i + shift \in DOMAIN s /\ s[i + shift] = t[i]
               /\ \A j \in DOMAIN s :
                     j \in 1..Len(calls) \/ (j > Len(calls) /\ j - shift \in 2..Len(t))
<1> DEFINE rest == Tail(t)
<1>1. /\ rest \in Seq(Calls) /\ Len(rest) = Len(t) - 1
      /\ \A i \in 1..Len(rest) : rest[i] = t[i + 1]
  BY HeadTailProperties
<1>2. Len(calls) \in Nat /\ Len(t) \in Nat /\ Len(t) # 0 /\ Len(rest) \in Nat
  BY <1>1, LenProperties, EmptySeq
<1>3. /\ s \in Seq(Calls) /\ Len(s) = Len(calls) + Len(rest)
      /\ \A i \in 1..Len(calls) + Len(rest) :
            s[i] = IF i <= Len(calls) THEN calls[i] ELSE rest[i - Len(calls)]
  BY <1>1, ConcatProperties DEF After
<1>4. /\ DOMAIN s = 1..(Len(calls) + Len(t) - 1) /\ DOMAIN s = 1..Len(s)
      /\ DOMAIN t = 1..Len(t) /\ DOMAIN calls = 1..Len(calls)
  BY <1>1, <1>2, <1>3, LenProperties
<1>5. ASSUME NEW i \in 2..Len(t)
      PROVE  i + (Len(calls) - 1) \in DOMAIN s /\ s[i + (Len(calls) - 1)] = t[i]
  <2> DEFINE k == i + (Len(calls) - 1)
  <2>1. k \in 1..Len(calls) + Len(rest) /\ ~(k <= Len(calls)) /\ k - Len(calls) = i - 1
    BY <1>1, <1>2
  <2>2. i - 1 \in 1..Len(rest) /\ (i - 1) + 1 = i
    BY <1>1, <1>2
  <2>3. k \in DOMAIN s
    BY <1>1, <1>4, <2>1
  <2> HIDE DEF k
  <2>4. s[k] = rest[k - Len(calls)]
    BY <1>3, <2>1
  <2>5. s[k] = t[i]
    BY <1>1, <2>1, <2>2, <2>4
  <2> QED BY <2>3, <2>5 DEF k
<1>6. \A i \in 1..Len(calls) : i \in DOMAIN s /\ s[i] = calls[i]
  BY <1>1, <1>2, <1>3, <1>4
<1>7. \A j \in DOMAIN s : j \in 1..Len(calls) \/ (j > Len(calls) /\ j - (Len(calls) - 1) \in 2..Len(t))
  BY <1>2, <1>4
<1> QED BY <1>1, <1>2, <1>3, <1>4, <1>5, <1>6, <1>7

\* The calls held by value, and those of leave, after a step.
LEMMA OriginHeld ==
    ASSUME NEW t \in Seq(Calls), t # <<>>, NEW calls \in Seq(Calls), NEW s, After(s, calls, t),
           NEW root, NEW apart
    PROVE  /\ \A j \in Held(s, root, apart) :
                 \/ j \in Held(calls, root, apart) /\ j <= Len(calls) /\ s[j] = calls[j]
                 \/ /\ j > Len(calls) /\ j - (Len(calls) - 1) > 1
                    /\ j - (Len(calls) - 1) \in Held(t, root, apart)
                    /\ s[j] = t[j - (Len(calls) - 1)]
           /\ \A j \in Leaves(s) :
                 \/ j \in Leaves(calls) /\ j <= Len(calls) /\ s[j] = calls[j]
                 \/ /\ j > Len(calls) /\ j - (Len(calls) - 1) > 1
                    /\ j - (Len(calls) - 1) \in Leaves(t)
                    /\ s[j] = t[j - (Len(calls) - 1)]
           /\ \A i \in Held(calls, root, apart) : i \in Held(s, root, apart) /\ s[i] = calls[i]
           /\ \A i \in Leaves(calls) : i \in Leaves(s) /\ s[i] = calls[i]
           /\ \A i \in Held(t, root, apart) :
                 i # 1 => /\ i + (Len(calls) - 1) \in Held(s, root, apart)
                          /\ s[i + (Len(calls) - 1)] = t[i]
           /\ \A i \in Leaves(t) :
                 i # 1 => i + (Len(calls) - 1) \in Leaves(s) /\ s[i + (Len(calls) - 1)] = t[i]
<1> DEFINE shift == Len(calls) - 1
<1>1. /\ Len(calls) \in Nat /\ Len(t) \in Nat \ {0} /\ Len(s) = Len(t) + shift
      /\ DOMAIN t = 1..Len(t) /\ DOMAIN calls = 1..Len(calls) /\ DOMAIN s = 1..Len(s)
      /\ \A i \in 1..Len(calls) : i \in DOMAIN s /\ s[i] = calls[i]
      /\ \A i \in 2..Len(t) : i + shift \in DOMAIN s /\ s[i + shift] = t[i]
      /\ \A j \in DOMAIN s : j \in 1..Len(calls) \/ (j > Len(calls) /\ j - shift \in 2..Len(t))
  BY Origin
<1>2. ASSUME NEW j \in DOMAIN s
      PROVE  \/ j \in DOMAIN calls /\ j <= Len(calls) /\ s[j] = calls[j]
             \/ j > Len(calls) /\ j - shift > 1 /\ j - shift \in DOMAIN t /\ s[j] = t[j - shift]
  <2>1. CASE j \in 1..Len(calls)
    BY <1>1, <2>1
  <2>2. CASE j > Len(calls) /\ j - shift \in 2..Len(t)
    <3> DEFINE k == j - shift
    <3>1. k + shift = j /\ k \in DOMAIN t /\ k > 1
      BY <1>1, <2>2
    <3>2. s[k + shift] = t[k]
      BY <1>1, <2>2
    <3> QED BY <2>2, <3>1, <3>2
  <2> QED BY <1>1, <2>1, <2>2
<1>3. ASSUME NEW i \in DOMAIN t, i # 1 PROVE i + shift \in DOMAIN s /\ s[i + shift] = t[i]
  BY <1>1, <1>3
<1>4. ASSUME NEW i \in DOMAIN calls PROVE i \in DOMAIN s /\ s[i] = calls[i]
  BY <1>1, <1>4
<1> HIDE DEF shift
<1>5. \A j \in Held(s, root, apart) :
         \/ j \in Held(calls, root, apart) /\ j <= Len(calls) /\ s[j] = calls[j]
         \/ /\ j > Len(calls) /\ j - shift > 1
            /\ j - shift \in Held(t, root, apart) /\ s[j] = t[j - shift]
  BY <1>2 DEF Held
<1>6. \A j \in Leaves(s) :
         \/ j \in Leaves(calls) /\ j <= Len(calls) /\ s[j] = calls[j]
         \/ j > Len(calls) /\ j - shift > 1 /\ j - shift \in Leaves(t) /\ s[j] = t[j - shift]
  BY <1>2 DEF Leaves
<1>7. /\ \A i \in Held(calls, root, apart) : i \in Held(s, root, apart) /\ s[i] = calls[i]
      /\ \A i \in Leaves(calls) : i \in Leaves(s) /\ s[i] = calls[i]
  BY <1>4 DEF Held, Leaves
<1>8. /\ \A i \in Held(t, root, apart) :
            i # 1 => i + shift \in Held(s, root, apart) /\ s[i + shift] = t[i]
      /\ \A i \in Leaves(t) : i # 1 => i + shift \in Leaves(s) /\ s[i + shift] = t[i]
  BY <1>3 DEF Held, Leaves
<1> QED BY <1>5, <1>6, <1>7, <1>8 DEF shift

\* Calls that are of less depth and extent than the one they take the place of,
\* and in order themselves, keep what waits in order.
LEMMA Advance ==
    ASSUME NEW g \in Graphs, NEW extent \in [Node -> Nat], NEW depth \in [Node -> Nat],
           NEW apart \in SUBSET Node, NEW root,
           NEW t \in Seq(Calls), t # <<>>, NEW calls \in Seq(Calls), NEW s, After(s, calls, t),
           Nested(t, root, depth, apart), Ordered(t, root, g, extent, apart),
           Nested(calls, root, depth, apart), Ordered(calls, root, g, extent, apart),
           \/ Held(calls, root, apart) \cup Leaves(calls) = {}
           \/ Len(t) = 1
           \/ /\ 1 \in Held(t, root, apart)
              /\ \A i \in Held(calls, root, apart) \cup Leaves(calls) :
                    depth[calls[i].node] <= depth[t[1].node]
              /\ \A i \in Held(calls, root, apart) : extent[calls[i].node] <= extent[t[1].node]
    PROVE  Nested(s, root, depth, apart) /\ Ordered(s, root, g, extent, apart)
<1>1. /\ \A j \in Held(s, root, apart) :
            \/ j \in Held(calls, root, apart) /\ j <= Len(calls) /\ s[j] = calls[j]
            \/ /\ j > Len(calls) /\ j - (Len(calls) - 1) > 1
               /\ j - (Len(calls) - 1) \in Held(t, root, apart)
               /\ s[j] = t[j - (Len(calls) - 1)]
      /\ \A j \in Leaves(s) :
            \/ j \in Leaves(calls) /\ j <= Len(calls) /\ s[j] = calls[j]
            \/ /\ j > Len(calls) /\ j - (Len(calls) - 1) > 1
               /\ j - (Len(calls) - 1) \in Leaves(t)
               /\ s[j] = t[j - (Len(calls) - 1)]
  <2>1. \A r, a :
          /\ \A j \in Held(s, r, a) :
                \/ j \in Held(calls, r, a) /\ j <= Len(calls) /\ s[j] = calls[j]
                \/ /\ j > Len(calls) /\ j - (Len(calls) - 1) > 1
                   /\ j - (Len(calls) - 1) \in Held(t, r, a)
                   /\ s[j] = t[j - (Len(calls) - 1)]
          /\ \A j \in Leaves(s) :
                \/ j \in Leaves(calls) /\ j <= Len(calls) /\ s[j] = calls[j]
                \/ /\ j > Len(calls) /\ j - (Len(calls) - 1) > 1
                   /\ j - (Len(calls) - 1) \in Leaves(t)
                   /\ s[j] = t[j - (Len(calls) - 1)]
    BY OriginHeld
  <2> QED BY <2>1
<1> DEFINE shift == Len(calls) - 1
           heldT == Held(t, root, apart)
           heldC == Held(calls, root, apart)
           heldS == Held(s, root, apart)
<1>2. /\ Len(calls) \in Nat /\ Len(t) \in Nat \ {0}
      /\ DOMAIN t = 1..Len(t) /\ DOMAIN calls = 1..Len(calls) /\ DOMAIN s \subseteq Nat
      /\ \A i \in DOMAIN t : t[i].node \in Node
      /\ \A i \in DOMAIN calls : calls[i].node \in Node
  <2>1. /\ Len(calls) \in Nat /\ Len(t) \in Nat \ {0}
        /\ DOMAIN t = 1..Len(t) /\ DOMAIN calls = 1..Len(calls) /\ DOMAIN s = 1..Len(s)
    BY Origin
  <2>2. \A c \in Calls : c.node \in Node
    BY DEF Calls
  <2>3. /\ \A i \in DOMAIN t : t[i] \in Calls
        /\ \A i \in DOMAIN calls : calls[i] \in Calls
    BY <2>1, ElementOfSeq
  <2> QED BY <2>1, <2>2, <2>3
<1>3. heldT \subseteq DOMAIN t /\ heldC \subseteq DOMAIN calls /\ heldS \subseteq DOMAIN s
  BY DEF Held
<1>4. Leaves(t) \subseteq DOMAIN t /\ Leaves(calls) \subseteq DOMAIN calls /\ Leaves(s) \subseteq DOMAIN s
  BY DEF Leaves
\* Whether a call that waits is new or an old one.
<1>a. ASSUME NEW j \in heldS \cup Leaves(s)
      PROVE  /\ j \in Nat
             /\ \/ /\ j <= Len(calls) /\ j \in heldC \cup Leaves(calls) /\ s[j] = calls[j]
                   /\ j \in heldS => j \in heldC
                   /\ j \in Leaves(s) => j \in Leaves(calls)
                \/ /\ j > Len(calls) /\ ~(j <= Len(calls))
                   /\ j - shift > 1 /\ j - shift \in heldT \cup Leaves(t) /\ s[j] = t[j - shift]
                   /\ j \in heldS => j - shift \in heldT
                   /\ j \in Leaves(s) => j - shift \in Leaves(t)
  <2>1. Len(calls) \in Nat /\ j \in Nat
    BY <1>2, <1>3, <1>4
  <2>2. j \in heldS \/ j \in Leaves(s)
    OBVIOUS
  <2>3. /\ j \in heldS => \/ j \in heldC /\ j <= Len(calls) /\ s[j] = calls[j]
                          \/ j > Len(calls) /\ j - shift > 1 /\ j - shift \in heldT /\ s[j] = t[j - shift]
        /\ j \in Leaves(s) =>
              \/ j \in Leaves(calls) /\ j <= Len(calls) /\ s[j] = calls[j]
              \/ j > Len(calls) /\ j - shift > 1 /\ j - shift \in Leaves(t) /\ s[j] = t[j - shift]
    BY <1>1
  <2>4. j <= Len(calls) <=> ~(j > Len(calls))
    BY <2>1
  <2> HIDE DEF shift, heldT, heldC, heldS
  <2>5. CASE j <= Len(calls)
    BY <2>1, <2>2, <2>3, <2>4, <2>5, Zenon
  <2>6. CASE j > Len(calls)
    BY <2>1, <2>2, <2>3, <2>4, <2>6, Zenon
  <2> QED BY <2>4, <2>5, <2>6
<1>5. ASSUME NEW i \in heldC \cup Leaves(calls), NEW j \in Leaves(t), j > 1
      PROVE  depth[calls[i].node] < depth[t[j].node]
  <2>1. Len(t) # 1
    BY <1>2, <1>4, <1>5
  <2>2. 1 \in heldT /\ depth[calls[i].node] <= depth[t[1].node]
    BY <1>5, <2>1
  <2>3. depth[t[1].node] < depth[t[j].node]
    BY <1>5, <2>2 DEF Nested
  <2>4. {depth[calls[i].node], depth[t[1].node], depth[t[j].node]} \subseteq Nat
    BY <1>2, <1>3, <1>4, <2>2
  <2> QED BY <2>2, <2>3, <2>4
<1>6. ASSUME NEW i \in heldC \cup Leaves(calls), NEW j \in heldT, j > 1
      PROVE  /\ g.tag[t[j].node] \in {"member", "inheritance"}
             /\ i \in heldC => extent[calls[i].node] <= g.offset[t[j].node]
  <2>1. Len(t) # 1
    BY <1>2, <1>3, <1>6
  <2>2. 1 \in heldT /\ (i \in heldC => extent[calls[i].node] <= extent[t[1].node])
    BY <1>6, <2>1
  <2>3. g.tag[t[j].node] \in {"member", "inheritance"}
    BY <1>3, <1>6, <2>2 DEF Ordered
  <2>4. extent[t[1].node] <= g.offset[t[j].node]
    BY <1>6, <2>2, <2>3 DEF Ordered
  <2>5. {extent[calls[i].node], extent[t[1].node], g.offset[t[j].node]} \subseteq Nat
    BY <1>2, <1>3, <1>4, <2>2, GraphTypes
  <2> QED BY <2>2, <2>3, <2>4, <2>5
<1>b. shift \in Int /\ Len(calls) \in Nat
  BY <1>2
<1>7. Nested(s, root, depth, apart)
  <2> SUFFICES ASSUME NEW i \in heldS \cup Leaves(s), NEW j \in Leaves(s), i < j
               PROVE  depth[s[i].node] < depth[s[j].node]
    BY DEF Nested
  <2> HIDE DEF shift, heldT, heldC, heldS
  <2>1. i \in Nat /\ j \in Nat
    BY <1>a
  <2>2. CASE j <= Len(calls)
    <3>1. j \in Leaves(calls) /\ s[j] = calls[j]
      BY <1>a, <1>b, <2>1, <2>2
    <3>2. i \in heldC \cup Leaves(calls) /\ s[i] = calls[i]
      BY <1>a, <1>b, <2>1, <2>2
    <3> QED BY <3>1, <3>2 DEF Nested, heldC
  <2>3. CASE ~(j <= Len(calls)) /\ i <= Len(calls)
    <3>1. j - shift \in Leaves(t) /\ s[j] = t[j - shift] /\ j - shift > 1
      BY <1>a, <1>b, <2>1, <2>3
    <3>2. i \in heldC \cup Leaves(calls) /\ s[i] = calls[i]
      BY <1>a, <1>b, <2>1, <2>3
    <3> QED BY <3>1, <3>2, <1>5
  <2>4. CASE ~(j <= Len(calls)) /\ ~(i <= Len(calls))
    <3>1. j - shift \in Leaves(t) /\ s[j] = t[j - shift]
      BY <1>a, <1>b, <2>1, <2>4
    <3>2. i - shift \in heldT \cup Leaves(t) /\ s[i] = t[i - shift]
      BY <1>a, <1>b, <2>1, <2>4
    <3>3. i - shift < j - shift
      BY <1>b, <2>1
    <3> QED BY <3>1, <3>2, <3>3 DEF Nested, heldT
  <2> QED BY <2>2, <2>3, <2>4
<1>8. Ordered(s, root, g, extent, apart)
  <2> SUFFICES ASSUME NEW j \in heldS
               PROVE  IF g.tag[s[j].node] \in {"member", "inheritance"}
                      THEN \A i \in heldS : i < j => extent[s[i].node] <= g.offset[s[j].node]
                      ELSE \A i \in DOMAIN s : i < j => i \notin heldS \cup Leaves(s)
    BY DEF Ordered
  <2> HIDE DEF shift, heldT, heldC, heldS
  <2>1. j \in Nat
    BY <1>a
  <2>2. CASE j <= Len(calls)
    <3>1. j \in heldC /\ s[j] = calls[j]
      BY <1>a, <1>b, <2>1, <2>2
    <3>2. ASSUME NEW i \in heldS \cup Leaves(s), i < j
          PROVE  /\ i \in heldC \cup Leaves(calls) /\ s[i] = calls[i] /\ i \in DOMAIN calls
                 /\ i \in heldS => i \in heldC
      BY <1>a, <1>b, <1>3, <1>4, <2>1, <2>2, <3>2
    <3>4. CASE g.tag[s[j].node] \in {"member", "inheritance"}
      BY <3>1, <3>2, <3>4 DEF Ordered, heldC
    <3>5. CASE g.tag[s[j].node] \notin {"member", "inheritance"}
      <4>1. \A i \in DOMAIN calls : i < j => i \notin heldC \cup Leaves(calls)
        BY <3>1, <3>5 DEF Ordered, heldC
      <4> QED BY <3>2, <3>5, <4>1
    <3> QED BY <3>4, <3>5
  <2>3. CASE ~(j <= Len(calls))
    <3> DEFINE k == j - shift
    <3>1. k \in heldT /\ s[j] = t[k] /\ k > 1
      BY <1>a, <1>b, <2>1, <2>3
    <3>2. ASSUME NEW i \in heldS \cup Leaves(s), i < j
          PROVE  \/ i \in heldC \cup Leaves(calls) /\ s[i] = calls[i] /\ (i \in heldS => i \in heldC)
                 \/ /\ i - shift \in heldT \cup Leaves(t) /\ s[i] = t[i - shift] /\ i - shift < k
                    /\ i \in heldS => i - shift \in heldT
      <4>1. i \in Nat
        BY <1>a
      <4>2. i - shift < k
        BY <1>b, <2>1, <3>2, <4>1
      <4> HIDE DEF k
      <4> QED BY <1>a, <4>2
    <3> HIDE DEF k
    <3>3. CASE g.tag[s[j].node] \in {"member", "inheritance"}
      <4> SUFFICES ASSUME NEW i \in heldS, i < j PROVE extent[s[i].node] <= g.offset[s[j].node]
        BY <3>3
      <4>1. CASE i \in heldC /\ s[i] = calls[i]
        BY <1>6, <3>1, <4>1
      <4>2. CASE i - shift \in heldT /\ s[i] = t[i - shift] /\ i - shift < k
        BY <3>1, <3>3, <4>2 DEF Ordered, heldT
      <4> QED BY <3>2, <4>1, <4>2
    <3>4. CASE g.tag[s[j].node] \notin {"member", "inheritance"}
      <4> SUFFICES ASSUME NEW i \in heldS \cup Leaves(s), i < j PROVE FALSE
        BY <3>4
      <4>1. CASE i \in heldC \cup Leaves(calls)
        BY <1>6, <3>1, <3>4, <4>1
      <4>2. CASE i - shift \in heldT \cup Leaves(t) /\ i - shift < k
        <5>1. \A n \in DOMAIN t : n < k => n \notin heldT \cup Leaves(t)
          BY <3>1, <3>4 DEF Ordered, heldT
        <5> QED BY <1>3, <1>4, <4>2, <5>1
      <4> QED BY <3>2, <4>1, <4>2
    <3> QED BY <3>3, <3>4
  <2> QED BY <2>2, <2>3
<1> QED BY <1>7, <1>8

(****************************************************************************)
(* What a layout says of a node.                                            *)
(****************************************************************************)

Layout(g, extent, depth, apart) ==
    /\ extent \in [Node -> Nat] /\ depth \in [Node -> Nat] /\ apart \in SUBSET Node
    /\ LaidOut(g, extent, depth, apart)

LEMMA RootLayout ==
    ASSUME NEW g \in Graphs, NEW extent, NEW depth, NEW apart, Layout(g, extent, depth, apart)
    PROVE  g.root \in Node \ apart /\ g.tag[g.root] \in Structured
BY GraphTypes DEF Layout, LaidOut

LEMMA ApartLayout ==
    ASSUME NEW g \in Graphs, NEW extent, NEW depth, NEW apart, Layout(g, extent, depth, apart),
           NEW n \in apart
    PROVE  /\ n \in Node /\ g.tag[n] \notin Structured \cup {"member", "inheritance"}
           /\ g.base[n] \in apart \cup {g.root, NoNode}
           /\ \A i \in DOMAIN g.elements[n] : g.elements[n][i] \in apart
BY DEF Layout, LaidOut

LEMMA MemberLayout ==
    ASSUME NEW g \in Graphs, NEW extent, NEW depth, NEW apart, Layout(g, extent, depth, apart),
           NEW n \in Node \ apart
    PROVE  /\ g.tag[n] \in Structured \cup {"member", "inheritance", "array"}
           /\ g.tag[n] = "member" => extent[n] = g.offset[n] + g.size[n]
           /\ g.tag[n] \in {"member", "inheritance", "array"} =>
                 /\ g.base[n] \in Node
                 /\ g.base[n] \notin apart =>
                      /\ g.tag[g.base[n]] \in Structured \cup {"array"}
                      /\ depth[g.base[n]] < depth[n] /\ extent[g.base[n]] <= extent[n]
           /\ g.tag[n] = "array" => \A i \in DOMAIN g.elements[n] : g.elements[n][i] \in apart
<1>1. g.base[n] \in Node \cup {NoNode}
  BY GraphTypes
<1> QED BY <1>1 DEF Layout, LaidOut

LEMMA CompositeLayout ==
    ASSUME NEW g \in Graphs, NEW extent, NEW depth, NEW apart, Layout(g, extent, depth, apart),
           NEW n \in Node \ apart, g.tag[n] \in Structured
    PROVE  /\ g.base[n] \in apart \cup {NoNode}
           /\ \A i \in DOMAIN g.elements[n] :
                 LET m == g.elements[n][i]
                 IN  /\ m \in Node
                     /\ m \notin apart => /\ g.tag[m] \in {"member", "inheritance"}
                                          /\ depth[m] < depth[n] /\ extent[m] <= extent[n]
           /\ \A i, j \in DOMAIN g.elements[n] :
                 i < j /\ g.elements[n][i] \notin apart /\ g.elements[n][j] \notin apart =>
                     extent[g.elements[n][i]] <= g.offset[g.elements[n][j]]
<1>1. \A i \in DOMAIN g.elements[n] : g.elements[n][i] \in Node
  BY GraphTypes
<1>2. /\ g.base[n] \in apart \cup {NoNode}
      /\ \A m \in {g.elements[n][i] : i \in DOMAIN g.elements[n]} :
            /\ m \in apart \/ (depth[m] < depth[n] /\ extent[m] <= extent[n])
            /\ m \notin apart => g.tag[m] \in {"member", "inheritance"}
      /\ \A i, j \in DOMAIN g.elements[n] :
            i < j /\ {g.elements[n][i], g.elements[n][j]} \cap apart = {} =>
                extent[g.elements[n][i]] <= g.offset[g.elements[n][j]]
  BY DEF Layout, LaidOut
<1> QED BY <1>1, <1>2

(****************************************************************************)
(* The walk goes in order.                                                  *)
(****************************************************************************)

LEMMA AsSequenceNext ==
    ASSUME NEW CONSTANT extent, NEW CONSTANT depth, NEW CONSTANT apart
    PROVE  /\ toTraverse(apart)' = Held(todo', graph'.root, apart) /\ toLeave' = Leaves(todo')
           /\ WaitsInOrder(extent, apart)' <=> Ordered(todo', graph'.root, graph', extent, apart)
           /\ OpenFromInside(depth, apart)' <=>
                 /\ visited_dinodes_' = {todo'[i].node : i \in Leaves(todo')}
                 /\ \A i \in Leaves(todo') : todo'[i].node \notin apart
                 /\ Nested(todo', graph'.root, depth, apart)
                 /\ \/ todo' = <<>>
                    \/ todo' = <<traverse(graph'.root)>>
                    \/ todo'[Len(todo')] = leave(graph'.root)
<1>1. toTraverse(apart)' = Held(todo', graph'.root, apart)
  BY DEF toTraverse, Held
<1>2. toLeave' = Leaves(todo')
  BY DEF toLeave, Leaves
<1> QED BY <1>1, <1>2 DEF WaitsInOrder, Ordered, OpenFromInside, Nested

InOrder(extent, depth, apart) ==
    /\ TypeInv /\ Layout(graph, extent, depth, apart)
    /\ OpenFromInside(depth, apart) /\ WaitsInOrder(extent, apart)

\* The call that is made, and the last one.
LEMMA HeadCall ==
    ASSUME NEW CONSTANT extent, NEW CONSTANT depth, NEW CONSTANT apart,
           InOrder(extent, depth, apart), todo # <<>>
    PROVE  /\ todo \in Seq(Calls) /\ todo[1] = Head(todo) /\ Head(todo) \in Calls /\ node \in Node
           /\ Len(todo) \in Nat \ {0} /\ DOMAIN todo = 1..Len(todo)
           /\ At("traverse") \/ At("leave")
           /\ At("traverse") =>
                 /\ 1 \notin Leaves(todo) /\ todo[1] = traverse(node)
                 /\ node \notin apart \cup {graph.root} => 1 \in Held(todo, graph.root, apart)
           /\ At("leave") =>
                 1 \in Leaves(todo) /\ 1 \notin Held(todo, graph.root, apart) /\ todo[1] = leave(node)
           /\ \/ todo = <<traverse(graph.root)>>
              \/ todo[Len(todo)] = leave(graph.root) /\ Len(todo) \in Leaves(todo)
<1>1. /\ todo \in Seq(Calls) /\ todo[1] = Head(todo) /\ Head(todo) \in Calls /\ node \in Node
  BY NewCalls DEF InOrder, TypeInv, TypeOK
<1>2. Len(todo) \in Nat \ {0} /\ DOMAIN todo = 1..Len(todo)
  BY <1>1, LenProperties, EmptySeq
<1>3. Head(todo).call \in {"traverse", "leave"}
  BY <1>1 DEF Calls
<1>4. todo[1] = [call |-> todo[1].call, node |-> node]
  BY <1>1 DEF Calls, node
<1>5. \/ todo = <<traverse(graph.root)>>
      \/ todo[Len(todo)] = leave(graph.root) /\ Len(todo) \in Leaves(todo)
  BY <1>2, CallTypes DEF InOrder, OpenFromInside, Leaves
<1> QED BY <1>1, <1>2, <1>3, <1>4, <1>5 DEF At, Leaves, Held, node, traverse, leave

\* What is held by value is of less depth than the composite searched.
LEMMA HeadBelowRoot ==
    ASSUME NEW CONSTANT extent, NEW CONSTANT depth, NEW CONSTANT apart,
           InOrder(extent, depth, apart), todo # <<>>, At("traverse"),
           node \notin apart \cup {graph.root}
    PROVE  /\ 1 \in Held(todo, graph.root, apart) /\ depth[node] < depth[graph.root]
           /\ \A n \in visited_dinodes_ : depth[node] < depth[n]
           /\ todo # <<traverse(graph.root)>>
<1>1. 1 \in Held(todo, graph.root, apart) /\ 1 \notin Leaves(todo) /\ todo[1].node = node
  BY HeadCall DEF node
<1>2. todo # <<traverse(graph.root)>>
  BY <1>1, CallTypes DEF node
<1>3. Len(todo) \in Leaves(todo) /\ todo[Len(todo)] = leave(graph.root) /\ Len(todo) \in Nat \ {0}
      /\ DOMAIN todo = 1..Len(todo)
  BY <1>2, HeadCall
<1>4. /\ Nested(todo, graph.root, depth, apart)
      /\ visited_dinodes_ = {todo[i].node : i \in Leaves(todo)}
  BY AsSequence DEF InOrder
<1>5. ASSUME NEW j \in Leaves(todo) PROVE depth[node] < depth[todo[j].node]
  <2>1. j \in 1..Len(todo) /\ j # 1
    BY <1>1, <1>3, <1>5 DEF Leaves
  <2> QED BY <1>1, <1>3, <1>4, <2>1 DEF Nested
<1> QED BY <1>1, <1>2, <1>3, <1>4, <1>5, CallTypes

\* A step that opens and leaves no composite.
LEMMA MoveOn ==
    ASSUME NEW CONSTANT extent, NEW CONSTANT depth, NEW CONSTANT apart,
           InOrder(extent, depth, apart), todo # <<>>, At("traverse"),
           NEW calls \in Seq(Calls), Continue(calls), UNCHANGED <<graph, visited_dinodes_>>,
           Leaves(calls) = {},
           calls # <<>> => todo # <<traverse(graph.root)>>,
           Ordered(calls, graph.root, graph, extent, apart),
           \A i \in Held(calls, graph.root, apart) :
              /\ node \notin apart \cup {graph.root}
              /\ depth[calls[i].node] <= depth[node] /\ extent[calls[i].node] <= extent[node]
    PROVE  OpenFromInside(depth, apart)' /\ WaitsInOrder(extent, apart)'
<1> DEFINE r == graph.root
           shift == Len(calls) - 1
<1>1. After(todo', calls, todo)
  BY DEF Continue, After
<1>2. /\ todo \in Seq(Calls) /\ todo[1].node = node /\ 1 \notin Leaves(todo)
      /\ graph \in Graphs /\ extent \in [Node -> Nat] /\ depth \in [Node -> Nat] /\ apart \in SUBSET Node
      /\ Nested(todo, r, depth, apart) /\ Ordered(todo, r, graph, extent, apart)
      /\ visited_dinodes_ = {todo[i].node : i \in Leaves(todo)}
      /\ \A i \in Leaves(todo) : todo[i].node \notin apart
  BY HeadCall, AsSequence DEF InOrder, TypeInv, Layout, node
<1>3. Nested(calls, r, depth, apart)
  BY DEF Nested
<1>4. \/ Held(calls, r, apart) \cup Leaves(calls) = {}
      \/ /\ 1 \in Held(todo, r, apart)
         /\ \A i \in Held(calls, r, apart) \cup Leaves(calls) :
               depth[calls[i].node] <= depth[todo[1].node]
         /\ \A i \in Held(calls, r, apart) : extent[calls[i].node] <= extent[todo[1].node]
  <2>1. CASE Held(calls, r, apart) = {}
    BY <2>1
  <2>2. CASE Held(calls, r, apart) # {}
    <3>1. 1 \in Held(todo, r, apart)
      BY <2>2, HeadCall
    <3> QED BY <1>2, <3>1
  <2> QED BY <2>1, <2>2
<1>5. Nested(todo', r, depth, apart) /\ Ordered(todo', r, graph, extent, apart)
  <2> HIDE DEF r
  <2> QED BY <1>1, <1>2, <1>3, <1>4, Advance DEF r
<1>6. /\ \A j \in Leaves(todo') : j - shift \in Leaves(todo) /\ todo'[j] = todo[j - shift]
      /\ \A i \in Leaves(todo) : i + shift \in Leaves(todo') /\ todo'[i + shift] = todo[i]
  <2>0. todo \in Seq(Calls)
    BY <1>2
  <2>1. \A rr, a :
          /\ \A j \in Held(todo', rr, a) :
                \/ j \in Held(calls, rr, a) /\ j <= Len(calls) /\ todo'[j] = calls[j]
                \/ /\ j > Len(calls) /\ j - (Len(calls) - 1) > 1
                   /\ j - (Len(calls) - 1) \in Held(todo, rr, a)
                   /\ todo'[j] = todo[j - (Len(calls) - 1)]
          /\ \A j \in Leaves(todo') :
                \/ j \in Leaves(calls) /\ j <= Len(calls) /\ todo'[j] = calls[j]
                \/ /\ j > Len(calls) /\ j - (Len(calls) - 1) > 1
                   /\ j - (Len(calls) - 1) \in Leaves(todo)
                   /\ todo'[j] = todo[j - (Len(calls) - 1)]
          /\ \A i \in Leaves(todo) :
                i # 1 => i + (Len(calls) - 1) \in Leaves(todo') /\ todo'[i + (Len(calls) - 1)] = todo[i]
    BY <1>1, <2>0, OriginHeld
  <2>2. \A i \in Leaves(todo) : i # 1
    BY <1>2
  <2>3. \A j : j \notin Leaves(calls)
    OBVIOUS
  <2> HIDE DEF shift
  <2>4. \A j \in Leaves(todo') : j - (Len(calls) - 1) \in Leaves(todo) /\ todo'[j] = todo[j - (Len(calls) - 1)]
    BY <2>1, <2>3
  <2>5. \A i \in Leaves(todo) :
           i + (Len(calls) - 1) \in Leaves(todo') /\ todo'[i + (Len(calls) - 1)] = todo[i]
    BY <2>1, <2>2
  <2> QED BY <2>4, <2>5 DEF shift
<1> HIDE DEF shift
<1>7. visited_dinodes_' = {todo'[i].node : i \in Leaves(todo')}
  <2>1. {todo'[i].node : i \in Leaves(todo')} \subseteq {todo[i].node : i \in Leaves(todo)}
    <3> SUFFICES ASSUME NEW i \in Leaves(todo')
                 PROVE  todo'[i].node \in {todo[j].node : j \in Leaves(todo)}
      OBVIOUS
    <3>1. i - shift \in Leaves(todo) /\ todo'[i].node = todo[i - shift].node
      BY <1>6
    <3> QED BY <3>1
  <2>2. {todo[i].node : i \in Leaves(todo)} \subseteq {todo'[i].node : i \in Leaves(todo')}
    <3> SUFFICES ASSUME NEW i \in Leaves(todo)
                 PROVE  todo[i].node \in {todo'[j].node : j \in Leaves(todo')}
      OBVIOUS
    <3>1. i + shift \in Leaves(todo') /\ todo[i].node = todo'[i + shift].node
      BY <1>6
    <3> QED BY <3>1
  <2> QED BY <1>2, <2>1, <2>2
<1>8. \A i \in Leaves(todo') : todo'[i].node \notin apart
  BY <1>2, <1>6
<1>9. \/ todo' = <<>>
      \/ todo'[Len(todo')] = leave(r)
  <2>1. /\ Len(calls) \in Nat /\ Len(todo) \in Nat \ {0} /\ Len(todo') = Len(todo) + shift
        /\ shift = Len(calls) - 1
        /\ \A i \in 2..Len(todo) : i + shift \in DOMAIN todo' /\ todo'[i + shift] = todo[i]
    BY <1>1, <1>2, Origin DEF shift
  <2>2. CASE todo = <<traverse(graph.root)>>
    <3>1. calls = <<>> /\ Tail(todo) = <<>>
      BY <2>2
    <3> QED BY <3>1 DEF Continue
  <2>3. CASE todo # <<traverse(graph.root)>>
    <3>1. todo[Len(todo)] = leave(r) /\ Len(todo) \in Leaves(todo)
      BY <2>3, HeadCall
    <3>2. Len(todo) \in 2..Len(todo)
      BY <1>2, <2>1, <3>1
    <3> QED BY <2>1, <3>1, <3>2
  <2> QED BY <2>2, <2>3
<1> QED BY <1>5, <1>7, <1>8, <1>9, AsSequenceNext

\* The composites still to be left after a step.
LEMMA LeavesAfter ==
    ASSUME NEW t \in Seq(Calls), t # <<>>, NEW calls \in Seq(Calls), NEW s, After(s, calls, t)
    PROVE  /\ {s[i].node : i \in Leaves(s)}
                = {calls[i].node : i \in Leaves(calls)} \cup {t[i].node : i \in Leaves(t) \ {1}}
           /\ Len(t) # 1 => s[Len(s)] = t[Len(t)]
           /\ Len(t) = 1 => s = calls
<1>1. \A r, a :
        /\ \A j \in Leaves(s) :
              \/ j \in Leaves(calls) /\ j <= Len(calls) /\ s[j] = calls[j]
              \/ /\ j > Len(calls) /\ j - (Len(calls) - 1) > 1
                 /\ j - (Len(calls) - 1) \in Leaves(t)
                 /\ s[j] = t[j - (Len(calls) - 1)]
        /\ \A i \in Leaves(calls) : i \in Leaves(s) /\ s[i] = calls[i]
        /\ \A i \in Leaves(t) :
              i # 1 => i + (Len(calls) - 1) \in Leaves(s) /\ s[i + (Len(calls) - 1)] = t[i]
        /\ \A j \in Held(s, r, a) :
              \/ j \in Held(calls, r, a) /\ j <= Len(calls) /\ s[j] = calls[j]
              \/ /\ j > Len(calls) /\ j - (Len(calls) - 1) > 1
                 /\ j - (Len(calls) - 1) \in Held(t, r, a)
                 /\ s[j] = t[j - (Len(calls) - 1)]
  BY OriginHeld
<1>2. /\ Len(calls) \in Nat /\ Len(t) \in Nat \ {0} /\ Len(s) = Len(t) + (Len(calls) - 1)
      /\ \A i \in 2..Len(t) :
            i + (Len(calls) - 1) \in DOMAIN s /\ s[i + (Len(calls) - 1)] = t[i]
  BY Origin
<1> DEFINE new == {calls[i].node : i \in Leaves(calls)}
           old == {t[i].node : i \in Leaves(t) \ {1}}
<1>3. ASSUME NEW j \in Leaves(s) PROVE s[j].node \in new \cup old
  <2>1. CASE j \in Leaves(calls) /\ s[j] = calls[j]
    BY <2>1
  <2>2. CASE /\ j - (Len(calls) - 1) > 1 /\ j - (Len(calls) - 1) \in Leaves(t)
             /\ s[j] = t[j - (Len(calls) - 1)]
    <3> DEFINE k == j - (Len(calls) - 1)
    <3>1. k \in Leaves(t) /\ k > 1 /\ s[j] = t[k]
      BY <2>2
    <3> HIDE DEF k
    <3>2. k # 1
      BY <3>1
    <3> QED BY <3>1, <3>2
  <2> QED BY <1>1, <2>1, <2>2
<1>4. new \subseteq {s[i].node : i \in Leaves(s)}
  <2> SUFFICES ASSUME NEW i \in Leaves(calls) PROVE calls[i].node \in {s[j].node : j \in Leaves(s)}
    OBVIOUS
  <2>1. i \in Leaves(s) /\ s[i] = calls[i]
    BY <1>1
  <2> QED BY <2>1
<1>5. old \subseteq {s[i].node : i \in Leaves(s)}
  <2> SUFFICES ASSUME NEW i \in Leaves(t), i # 1 PROVE t[i].node \in {s[j].node : j \in Leaves(s)}
    OBVIOUS
  <2>1. i + (Len(calls) - 1) \in Leaves(s) /\ s[i + (Len(calls) - 1)] = t[i]
    BY <1>1
  <2> QED BY <2>1
<1>6. {s[i].node : i \in Leaves(s)} = new \cup old
  BY <1>3, <1>4, <1>5
<1>7. Len(t) # 1 => s[Len(s)] = t[Len(t)]
  <2> SUFFICES ASSUME Len(t) # 1 PROVE s[Len(s)] = t[Len(t)]
    OBVIOUS
  <2> DEFINE n == Len(t)
  <2>0. n \in Nat /\ n # 0 /\ n # 1
    BY <1>2
  <2>1. n \in 2..n
    <3> HIDE DEF n
    <3> QED BY <2>0
  <2>2. s[Len(t) + (Len(calls) - 1)] = t[Len(t)]
    BY <1>2, <2>1
  <2> QED BY <1>2, <2>2
<1>8. Len(t) = 1 => s = calls
  <2> SUFFICES ASSUME Len(t) = 1 PROVE s = calls
    OBVIOUS
  <2>1. Tail(t) \in Seq(Calls) /\ Len(Tail(t)) = 0
    BY HeadTailProperties
  <2>2. Tail(t) = <<>>
    BY <2>1, EmptySeq
  <2>3. calls \o <<>> = calls
    BY ConcatEmptySeq
  <2> QED BY <2>2, <2>3 DEF After
<1> QED BY <1>6, <1>7, <1>8

\* Nothing is out of order where no two calls are held by value.
LEMMA OneHeld ==
    ASSUME NEW calls \in Seq(Calls), NEW root, NEW g, NEW extent, NEW apart, Leaves(calls) = {},
           \A i, j \in Held(calls, root, apart) : i = j
    PROVE  Ordered(calls, root, g, extent, apart)
<1>1. Held(calls, root, apart) \subseteq Nat
  BY LenProperties DEF Held
<1>2. \A i, j \in Held(calls, root, apart) : ~(i < j)
  BY <1>1
<1> QED BY <1>2 DEF Ordered

\* A call that makes no other.
LEMMA SkipOrder ==
    ASSUME NEW CONSTANT extent, NEW CONSTANT depth, NEW CONSTANT apart,
           InOrder(extent, depth, apart), todo # <<>>, At("traverse"), Skip, UNCHANGED graph
    PROVE  OpenFromInside(depth, apart)' /\ WaitsInOrder(extent, apart)'
<1>1. <<>> \in Seq(Calls) /\ DOMAIN <<>> = {}
  BY EmptySeq
<1>2. Leaves(<<>>) = {} /\ Held(<<>>, graph.root, apart) = {}
  BY <1>1 DEF Leaves, Held
<1>3. Ordered(<<>>, graph.root, graph, extent, apart)
  BY <1>2 DEF Ordered
<1>4. Continue(<<>>) /\ UNCHANGED <<graph, visited_dinodes_>>
  BY DEF Skip
<1>5. (<<>> # <<>>) => todo # <<traverse(graph.root)>>
  OBVIOUS
<1> QED BY <1>1, <1>2, <1>3, <1>4, <1>5, MoveOn

LEMMA BaseCalls ==
    ASSUME TypeInv, NEW n \in Node
    PROVE  /\ traverse_base(n) \in Seq(Calls) /\ Leaves(traverse_base(n)) = {}
           /\ graph.base[n] = NoNode => traverse_base(n) = <<>>
           /\ graph.base[n] # NoNode =>
                 /\ graph.base[n] \in Node
                 /\ traverse_base(n) = <<traverse(graph.base[n])>>
           /\ \A i \in DOMAIN traverse_base(n) :
                 /\ i = 1 /\ graph.base[n] # NoNode /\ Len(traverse_base(n)) = 1
                 /\ traverse_base(n)[i] = traverse(graph.base[n])
           /\ Len(traverse_base(n)) \in {0, 1}
<1>1. graph.base[n] \in Node \cup {NoNode}
  BY GraphTypes DEF TypeInv
<1>2. CASE graph.base[n] = NoNode
  <2>1. traverse_base(n) = <<>>
    BY <1>2 DEF traverse_base
  <2> QED BY <1>2, <2>1, EmptySeq DEF Leaves
<1>3. CASE graph.base[n] # NoNode
  <2> DEFINE c == traverse(graph.base[n])
  <2>1. c \in Calls /\ c.call = "traverse" /\ traverse_base(n) = <<c>>
    BY <1>1, <1>3, CallTypes DEF traverse_base
  <2> HIDE DEF c
  <2>2. <<c>> \in Seq(Calls) /\ Len(<<c>>) = 1 /\ DOMAIN <<c>> = {1} /\ <<c>>[1] = c
    BY <2>1
  <2> QED BY <1>1, <1>3, <2>1, <2>2 DEF c, Leaves
<1> QED BY <1>2, <1>3

\* The type of a member, of a base class, or of what is apart.
LEMMA DerivedOrder ==
    ASSUME NEW CONSTANT extent, NEW CONSTANT depth, NEW CONSTANT apart,
           InOrder(extent, depth, apart), todo # <<>>, At("traverse"),
           tag \notin Structured \cup {"array"}, traverseDerived, UNCHANGED graph
    PROVE  OpenFromInside(depth, apart)' /\ WaitsInOrder(extent, apart)'
<1> DEFINE calls == traverse_base(node)
           r == graph.root
<1>1. /\ TypeInv /\ node \in Node /\ graph \in Graphs /\ Layout(graph, extent, depth, apart)
      /\ todo[1] = traverse(node)
  BY HeadCall DEF InOrder, TypeInv
<1>2. node # r
  BY <1>1, RootLayout DEF tag
<1>3. todo # <<traverse(r)>>
  BY <1>1, <1>2, CallTypes
<1>4. calls \in Seq(Calls) /\ Leaves(calls) = {}
  BY <1>1, BaseCalls
<1>5. ASSUME NEW i \in Held(calls, r, apart)
      PROVE  /\ i = 1 /\ node \notin apart \cup {r}
             /\ depth[calls[i].node] <= depth[node] /\ extent[calls[i].node] <= extent[node]
  <2>1. i = 1 /\ graph.base[node] # NoNode /\ calls[i].node = graph.base[node]
    BY <1>1, <1>5, BaseCalls, CallTypes DEF Held
  <2>2. graph.base[node] \notin apart \cup {r, NoNode}
    BY <1>5, <2>1 DEF Held
  <2>3. node \notin apart
    BY <1>1, <2>2, ApartLayout
  <2>4. graph.tag[node] \in {"member", "inheritance"}
    BY <1>1, <2>3, MemberLayout DEF tag
  <2>5. depth[graph.base[node]] < depth[node] /\ extent[graph.base[node]] <= extent[node]
    BY <1>1, <2>2, <2>3, <2>4, MemberLayout
  <2>6. depth[graph.base[node]] \in Nat /\ depth[node] \in Nat
    BY <1>1, <2>1, BaseCalls DEF Layout
  <2> QED BY <1>2, <2>1, <2>3, <2>5, <2>6
<1>6. Ordered(calls, r, graph, extent, apart)
  <2> HIDE DEF calls, r
  <2> QED BY <1>4, <1>5, OneHeld
<1>7. Continue(calls) /\ UNCHANGED <<graph, visited_dinodes_>>
  BY DEF traverseDerived
<1> HIDE DEF calls
<1> QED BY <1>3, <1>4, <1>5, <1>6, <1>7, MoveOn

LEMMA ArrayCalls ==
    ASSUME TypeInv, todo # <<>>
    PROVE  LET calls == traverse_elements(node) \o traverse_base(node)
               n == Len(graph.elements[node])
           IN  /\ calls \in Seq(Calls) /\ Leaves(calls) = {} /\ n \in Nat
               /\ DOMAIN calls \subseteq Nat
               /\ \A i \in DOMAIN calls :
                     \/ i <= n /\ i \in DOMAIN graph.elements[node]
                        /\ calls[i] = traverse(graph.elements[node][i])
                     \/ i = n + 1 /\ graph.base[node] # NoNode
                        /\ calls[i] = traverse(graph.base[node])
<1> DEFINE e == traverse_elements(node)
           b == traverse_base(node)
           n == Len(graph.elements[node])
           calls == e \o b
<1>1. /\ e \in Seq(Calls) /\ Len(e) = n /\ b \in Seq(Calls) /\ node \in Node
      /\ \A i \in 1..n : e[i] = traverse(graph.elements[node][i])
  BY NewCalls
<1>2. n \in Nat /\ DOMAIN graph.elements[node] = 1..n
  BY <1>1, GraphTypes DEF TypeInv
<1>3. /\ \A i \in DOMAIN b : i = 1 /\ graph.base[node] # NoNode /\ b[i] = traverse(graph.base[node])
      /\ Len(b) \in {0, 1} /\ DOMAIN b = 1..Len(b)
  BY <1>1, BaseCalls, LenProperties
<1> HIDE DEF e, b
<1>4. /\ calls \in Seq(Calls) /\ Len(calls) = n + Len(b)
      /\ \A i \in 1..n + Len(b) : calls[i] = IF i <= n THEN e[i] ELSE b[i - n]
  <2>1. /\ calls \in Seq(Calls) /\ Len(calls) = Len(e) + Len(b)
        /\ \A i \in 1..Len(e) + Len(b) : calls[i] = IF i <= Len(e) THEN e[i] ELSE b[i - Len(e)]
    BY <1>1, ConcatProperties
  <2>2. Len(e) = n
    BY <1>1
  <2> HIDE DEF calls, n
  <2> QED BY <2>1, <2>2
<1>5. DOMAIN calls = 1..n + Len(b)
  BY <1>4, LenProperties
<1> HIDE DEF calls, n
<1>6. ASSUME NEW i \in DOMAIN calls
      PROVE  \/ i <= n /\ i \in DOMAIN graph.elements[node]
                /\ calls[i] = traverse(graph.elements[node][i])
             \/ i = n + 1 /\ graph.base[node] # NoNode /\ calls[i] = traverse(graph.base[node])
  <2>1. CASE i <= n
    <3>1. i \in 1..n /\ i \in 1..n + Len(b)
      BY <1>2, <1>3, <1>5, <2>1
    <3> QED BY <1>1, <1>2, <1>4, <2>1, <3>1
  <2>2. CASE ~(i <= n)
    <3>1. i \in 1..n + Len(b) /\ i - n \in 1..Len(b)
      BY <1>2, <1>3, <1>5, <2>2
    <3>2. calls[i] = b[i - n]
      BY <1>4, <2>2, <3>1
    <3>3. i - n = 1 /\ graph.base[node] # NoNode /\ b[i - n] = traverse(graph.base[node])
      BY <1>3, <3>1
    <3>4. i = n + 1
      BY <1>2, <1>5, <3>1, <3>3
    <3> QED BY <3>2, <3>3, <3>4
  <2> QED BY <2>1, <2>2
<1>7. Leaves(calls) = {}
  BY <1>6, CallTypes DEF Leaves
<1>8. DOMAIN calls \subseteq Nat
  BY <1>5
<1>9. Len(graph.elements[node]) = n /\ traverse_elements(node) \o traverse_base(node) = calls
  BY DEF n, calls, e, b
<1> QED BY <1>2, <1>4, <1>6, <1>7, <1>8, <1>9

\* The type of the elements of an array.
LEMMA ArrayOrder ==
    ASSUME NEW CONSTANT extent, NEW CONSTANT depth, NEW CONSTANT apart,
           InOrder(extent, depth, apart), todo # <<>>, At("traverse"),
           tag = "array", traverseArray, UNCHANGED graph
    PROVE  OpenFromInside(depth, apart)' /\ WaitsInOrder(extent, apart)'
<1> DEFINE calls == traverse_elements(node) \o traverse_base(node)
           n == Len(graph.elements[node])
           r == graph.root
<1>1. /\ TypeInv /\ node \in Node /\ graph \in Graphs /\ Layout(graph, extent, depth, apart)
      /\ todo[1] = traverse(node)
  BY HeadCall DEF InOrder, TypeInv
<1>2. node # r
  BY <1>1, RootLayout DEF tag, Structured
<1>3. todo # <<traverse(r)>>
  BY <1>1, <1>2, CallTypes
<1>4. /\ calls \in Seq(Calls) /\ Leaves(calls) = {} /\ n \in Nat /\ DOMAIN calls \subseteq Nat
      /\ \A i \in DOMAIN calls :
            \/ i <= n /\ i \in DOMAIN graph.elements[node]
               /\ calls[i] = traverse(graph.elements[node][i])
            \/ i = n + 1 /\ graph.base[node] # NoNode /\ calls[i] = traverse(graph.base[node])
  BY <1>1, ArrayCalls
<1>5. \A i \in DOMAIN graph.elements[node] : graph.elements[node][i] \in apart
  BY <1>1, ApartLayout, MemberLayout DEF tag
<1> HIDE DEF calls, n
<1>6. ASSUME NEW i \in Held(calls, r, apart)
      PROVE  /\ i = n + 1 /\ node \notin apart \cup {r}
             /\ depth[calls[i].node] <= depth[node] /\ extent[calls[i].node] <= extent[node]
  <2>1. i = n + 1 /\ graph.base[node] # NoNode /\ calls[i].node = graph.base[node]
    BY <1>4, <1>5, <1>6, CallTypes DEF Held
  <2>2. graph.base[node] \notin apart \cup {r, NoNode}
    BY <1>6, <2>1 DEF Held
  <2>3. node \notin apart
    BY <1>1, <2>2, ApartLayout
  <2>4. depth[graph.base[node]] < depth[node] /\ extent[graph.base[node]] <= extent[node]
        /\ graph.base[node] \in Node
    BY <1>1, <2>2, <2>3, MemberLayout DEF tag
  <2>5. depth[graph.base[node]] \in Nat /\ depth[node] \in Nat
    BY <1>1, <2>4 DEF Layout
  <2> QED BY <1>2, <2>1, <2>3, <2>4, <2>5
<1>7. Ordered(calls, r, graph, extent, apart)
  <2> HIDE DEF r
  <2> QED BY <1>4, <1>6, OneHeld
<1>8. Continue(calls) /\ UNCHANGED <<graph, visited_dinodes_>>
  BY DEF traverseArray, calls
<1> QED BY <1>3, <1>4, <1>6, <1>7, <1>8, MoveOn

LEMMA CompositeCalls ==
    ASSUME TypeInv, todo # <<>>
    PROVE  LET calls == traverse_base(node) \o traverse_elements(node) \o <<leave(node)>>
               m == Len(traverse_base(node))
           IN  /\ calls \in Seq(Calls) /\ m \in Nat
               /\ Len(calls) \in Nat \ {0} /\ DOMAIN calls = 1..Len(calls)
               /\ \A i \in DOMAIN calls :
                     \/ /\ graph.base[node] # NoNode /\ calls[i] = traverse(graph.base[node])
                        /\ i < Len(calls)
                     \/ /\ i - m \in DOMAIN graph.elements[node] /\ i < Len(calls)
                        /\ calls[i] = traverse(graph.elements[node][i - m])
                     \/ i = Len(calls)
               /\ \A i \in DOMAIN graph.elements[node] :
                     i + m \in DOMAIN calls /\ calls[i + m] = traverse(graph.elements[node][i])
               /\ calls[Len(calls)] = leave(node)
               /\ Leaves(calls) = {Len(calls)}
<1> DEFINE e == traverse_elements(node)
           b == traverse_base(node)
           n == Len(graph.elements[node])
           m == Len(b)
           l == <<leave(node)>>
           part == b \o e
           calls == part \o l
<1>1. /\ e \in Seq(Calls) /\ Len(e) = n /\ b \in Seq(Calls) /\ node \in Node /\ l \in Seq(Calls)
      /\ \A i \in 1..n : e[i] = traverse(graph.elements[node][i])
      /\ Len(l) = 1 /\ l[1] = leave(node)
  BY NewCalls
<1>2. n \in Nat /\ DOMAIN graph.elements[node] = 1..n
  BY <1>1, GraphTypes DEF TypeInv
<1>3. /\ \A i \in 1..m : i = 1 /\ graph.base[node] # NoNode /\ b[i] = traverse(graph.base[node])
      /\ m \in Nat
  BY <1>1, BaseCalls, LenProperties
<1> HIDE DEF e, b, l, n, m
<1>4. part \in Seq(Calls) /\ Len(part) = m + n
      /\ \A i \in 1..m + n : part[i] = IF i <= m THEN b[i] ELSE e[i - m]
  <2>1. /\ part \in Seq(Calls) /\ Len(part) = Len(b) + Len(e)
        /\ \A i \in 1..Len(b) + Len(e) : part[i] = IF i <= Len(b) THEN b[i] ELSE e[i - Len(b)]
    BY <1>1, ConcatProperties
  <2>2. Len(e) = n /\ Len(b) = m
    BY <1>1 DEF m
  <2> HIDE DEF part
  <2> QED BY <2>1, <2>2
<1> HIDE DEF part
<1>5. /\ calls \in Seq(Calls) /\ Len(calls) = m + n + 1
      /\ \A i \in 1..m + n + 1 : calls[i] = IF i <= m + n THEN part[i] ELSE l[i - (m + n)]
  <2>1. /\ calls \in Seq(Calls) /\ Len(calls) = Len(part) + Len(l)
        /\ \A i \in 1..Len(part) + Len(l) :
              calls[i] = IF i <= Len(part) THEN part[i] ELSE l[i - Len(part)]
    BY <1>1, <1>4, ConcatProperties
  <2> HIDE DEF calls
  <2> QED BY <1>1, <1>4, <2>1
<1>6. DOMAIN calls = 1..m + n + 1
  BY <1>5, LenProperties
<1> HIDE DEF calls
<1>7. calls[m + n + 1] = leave(node)
  <2>1. m + n + 1 \in 1..m + n + 1 /\ ~(m + n + 1 <= m + n) /\ (m + n + 1) - (m + n) = 1
    BY <1>2, <1>3
  <2> QED BY <1>1, <1>5, <2>1
<1>8. ASSUME NEW i \in 1..n
      PROVE  i + m \in DOMAIN calls /\ calls[i + m] = traverse(graph.elements[node][i])
  <2>1. /\ i + m \in 1..m + n + 1 /\ i + m <= m + n /\ i + m \in 1..m + n
        /\ ~(i + m <= m) /\ (i + m) - m = i
    BY <1>2, <1>3
  <2>2. calls[i + m] = part[i + m] /\ part[i + m] = e[(i + m) - m]
    BY <1>4, <1>5, <2>1
  <2> QED BY <1>1, <1>6, <2>1, <2>2
<1>9. ASSUME NEW i \in DOMAIN calls
      PROVE  \/ graph.base[node] # NoNode /\ calls[i] = traverse(graph.base[node]) /\ i < m + n + 1
             \/ /\ i - m \in 1..n /\ i < m + n + 1
                /\ calls[i] = traverse(graph.elements[node][i - m])
             \/ i = m + n + 1
  <2>1. CASE i <= m
    <3>1. i \in 1..m /\ i <= m + n /\ i \in 1..m + n /\ i \in 1..m + n + 1 /\ i < m + n + 1
      BY <1>2, <1>3, <1>6, <2>1
    <3>2. calls[i] = part[i] /\ part[i] = b[i]
      BY <1>4, <1>5, <2>1, <3>1
    <3> QED BY <1>3, <3>1, <3>2
  <2>2. CASE ~(i <= m) /\ i <= m + n
    <3>1. i - m \in 1..n /\ (i - m) + m = i /\ i < m + n + 1
      BY <1>2, <1>3, <1>6, <2>2
    <3>2. calls[(i - m) + m] = traverse(graph.elements[node][i - m])
      BY <1>8, <3>1
    <3> QED BY <3>1, <3>2
  <2>3. CASE ~(i <= m + n)
    BY <1>2, <1>3, <1>6, <2>3
  <2> QED BY <2>1, <2>2, <2>3
<1>10. Leaves(calls) = {m + n + 1}
  <2>1. m + n + 1 \in DOMAIN calls
    BY <1>2, <1>3, <1>6
  <2>2. leave(node).call = "leave"
    BY CallTypes
  <2>3. m + n + 1 \in Leaves(calls)
    BY <1>7, <2>1, <2>2 DEF Leaves
  <2>4. \A i \in DOMAIN calls : calls[i].call = "leave" => i = m + n + 1
    BY <1>9, CallTypes
  <2> QED BY <2>3, <2>4 DEF Leaves
<1>11. Len(calls) = m + n + 1 /\ Len(calls) \in Nat \ {0} /\ DOMAIN calls = 1..Len(calls)
  BY <1>2, <1>3, <1>5, <1>6
<1>12. /\ calls = traverse_base(node) \o traverse_elements(node) \o <<leave(node)>>
       /\ m = Len(traverse_base(node)) /\ DOMAIN graph.elements[node] = 1..n
  BY <1>2 DEF calls, part, b, e, l, m
<1> QED BY <1>3, <1>5, <1>7, <1>8, <1>9, <1>10, <1>11, <1>12

\* A composite is opened: its members wait, in order, and then it is left.
LEMMA CompositeOrder ==
    ASSUME NEW CONSTANT extent, NEW CONSTANT depth, NEW CONSTANT apart,
           InOrder(extent, depth, apart), todo # <<>>, At("traverse"),
           tag \in Structured, traverseComposite, UNCHANGED graph
    PROVE  OpenFromInside(depth, apart)' /\ WaitsInOrder(extent, apart)'
<1> DEFINE calls == traverse_base(node) \o traverse_elements(node) \o <<leave(node)>>
           m == Len(traverse_base(node))
           r == graph.root
<1>1. /\ TypeInv /\ node \in Node /\ graph \in Graphs /\ Layout(graph, extent, depth, apart)
      /\ todo \in Seq(Calls) /\ todo[1] = traverse(node) /\ 1 \notin Leaves(todo)
      /\ Len(todo) \in Nat \ {0}
      /\ extent \in [Node -> Nat] /\ depth \in [Node -> Nat] /\ apart \in SUBSET Node
  BY HeadCall DEF InOrder, TypeInv, Layout
<1>2. /\ Nested(todo, r, depth, apart) /\ Ordered(todo, r, graph, extent, apart)
      /\ visited_dinodes_ = {todo[i].node : i \in Leaves(todo)}
      /\ \A i \in Leaves(todo) : todo[i].node \notin apart
  BY AsSequence DEF InOrder
<1>3. node \notin apart
  BY <1>1, ApartLayout DEF tag
<1>4. /\ graph.base[node] \in apart \cup {NoNode}
      /\ \A i \in DOMAIN graph.elements[node] :
            LET e == graph.elements[node][i]
            IN  /\ e \in Node
                /\ e \notin apart => /\ graph.tag[e] \in {"member", "inheritance"}
                                     /\ depth[e] < depth[node] /\ extent[e] <= extent[node]
      /\ \A i, j \in DOMAIN graph.elements[node] :
            i < j /\ graph.elements[node][i] \notin apart /\ graph.elements[node][j] \notin apart =>
                extent[graph.elements[node][i]] <= graph.offset[graph.elements[node][j]]
  BY <1>1, <1>3, CompositeLayout DEF tag
<1>5. /\ calls \in Seq(Calls) /\ m \in Nat
      /\ Len(calls) \in Nat \ {0} /\ DOMAIN calls = 1..Len(calls)
      /\ \A i \in DOMAIN calls :
            \/ /\ graph.base[node] # NoNode /\ calls[i] = traverse(graph.base[node])
               /\ i < Len(calls)
            \/ /\ i - m \in DOMAIN graph.elements[node] /\ i < Len(calls)
               /\ calls[i] = traverse(graph.elements[node][i - m])
            \/ i = Len(calls)
      /\ calls[Len(calls)] = leave(node)
      /\ Leaves(calls) = {Len(calls)}
  BY <1>1, CompositeCalls
<1>6. DOMAIN graph.elements[node] \subseteq Nat
  BY <1>1, GraphTypes
<1> HIDE DEF calls, m
<1>7. ASSUME NEW i \in Held(calls, r, apart)
      PROVE  /\ i < Len(calls) /\ i - m \in DOMAIN graph.elements[node]
             /\ calls[i].node = graph.elements[node][i - m]
             /\ calls[i].node \notin apart /\ calls[i].node \in Node
             /\ graph.tag[calls[i].node] \in {"member", "inheritance"}
             /\ depth[calls[i].node] < depth[node] /\ extent[calls[i].node] <= extent[node]
  <2>1. i \in DOMAIN calls /\ calls[i].call = "traverse" /\ calls[i].node \notin apart
    BY <1>7 DEF Held
  <2>2. i # Len(calls)
    BY <1>5, <2>1, CallTypes
  <2>3. ~(graph.base[node] # NoNode /\ calls[i] = traverse(graph.base[node]))
    BY <1>4, <2>1, CallTypes
  <2>4. /\ i < Len(calls) /\ i - m \in DOMAIN graph.elements[node]
        /\ calls[i].node = graph.elements[node][i - m]
    BY <1>5, <2>1, <2>2, <2>3, CallTypes
  <2> QED BY <1>4, <2>1, <2>4
<1>8. Nested(calls, r, depth, apart)
  <2> SUFFICES ASSUME NEW i \in Leaves(calls) \cup Held(calls, r, apart), NEW j \in Leaves(calls), i < j
               PROVE  depth[calls[i].node] < depth[calls[j].node]
    BY DEF Nested
  <2>1. j = Len(calls) /\ calls[j].node = node
    BY <1>5, CallTypes
  <2>2. i \in Held(calls, r, apart)
    BY <1>5, <2>1
  <2> QED BY <1>7, <2>1, <2>2
<1>9. Ordered(calls, r, graph, extent, apart)
  <2> SUFFICES ASSUME NEW i \in Held(calls, r, apart), NEW j \in Held(calls, r, apart), i < j
               PROVE  extent[calls[i].node] <= graph.offset[calls[j].node]
    BY <1>7 DEF Ordered
  <2>1. i - m < j - m
    BY <1>5 DEF Held
  <2> QED BY <1>4, <1>7, <2>1
<1>10. \/ node = r /\ Len(todo) = 1
       \/ /\ node # r /\ 1 \in Held(todo, r, apart) /\ Len(todo) # 1
          /\ todo[Len(todo)] = leave(r) /\ Len(todo) \in Leaves(todo)
  <2>1. CASE node = r
    <3>1. ~(todo[Len(todo)] = leave(r) /\ Len(todo) \in Leaves(todo))
      BY <1>2, <2>1, CallTypes DEF traverseComposite, recurring
    <3>2. todo = <<traverse(r)>>
      BY <3>1, HeadCall
    <3> QED BY <2>1, <3>2
  <2>2. CASE node # r
    <3>1. 1 \in Held(todo, r, apart)
      BY <1>3, <2>2, HeadCall
    <3>2. todo # <<traverse(r)>>
      BY <1>1, <2>2, CallTypes
    <3>3. todo[Len(todo)] = leave(r) /\ Len(todo) \in Leaves(todo)
      BY <3>2, HeadCall
    <3>4. Len(todo) # 1
      BY <1>1, <3>3
    <3> QED BY <2>2, <3>1, <3>3, <3>4
  <2> QED BY <2>1, <2>2
<1>11. After(todo', calls, todo)
  BY DEF traverseComposite, Continue, After, calls
<1>12. \/ Held(calls, r, apart) \cup Leaves(calls) = {}
       \/ Len(todo) = 1
       \/ /\ 1 \in Held(todo, r, apart)
          /\ \A i \in Held(calls, r, apart) \cup Leaves(calls) :
                depth[calls[i].node] <= depth[todo[1].node]
          /\ \A i \in Held(calls, r, apart) : extent[calls[i].node] <= extent[todo[1].node]
  <2>1. todo[1].node = node
    BY <1>1, CallTypes
  <2>2. depth[node] \in Nat /\ \A i \in Held(calls, r, apart) : depth[calls[i].node] \in Nat
    BY <1>1, <1>7
  <2>3. \A i \in Leaves(calls) : calls[i].node = node
    BY <1>5, CallTypes
  <2>4. \A i \in Held(calls, r, apart) \cup Leaves(calls) : depth[calls[i].node] <= depth[node]
    BY <1>7, <2>2, <2>3
  <2> QED BY <1>7, <1>10, <2>1, <2>4
<1>13. Nested(todo', r, depth, apart) /\ Ordered(todo', r, graph, extent, apart)
  <2> HIDE DEF r
  <2> QED BY <1>1, <1>2, <1>5, <1>8, <1>9, <1>11, <1>12, Advance
<1>14. /\ {todo'[i].node : i \in Leaves(todo')}
            = {calls[i].node : i \in Leaves(calls)} \cup {todo[i].node : i \in Leaves(todo) \ {1}}
       /\ Len(todo) # 1 => todo'[Len(todo')] = todo[Len(todo)]
       /\ Len(todo) = 1 => todo' = calls
  BY <1>1, <1>5, <1>11, LeavesAfter
<1>15. {calls[i].node : i \in Leaves(calls)} = {node} /\ Leaves(todo) \ {1} = Leaves(todo)
  BY <1>1, <1>5, CallTypes
<1>16. visited_dinodes_' = {todo'[i].node : i \in Leaves(todo')}
  BY <1>2, <1>14, <1>15 DEF traverseComposite
<1>17. \A i \in Leaves(todo') : todo'[i].node \notin apart
  <2>1. \A n \in visited_dinodes_' : n \notin apart
    BY <1>2, <1>3 DEF traverseComposite
  <2> QED BY <1>16, <2>1
<1>18. todo'[Len(todo')] = leave(r)
  BY <1>5, <1>10, <1>14
<1> QED BY <1>13, <1>16, <1>17, <1>18, AsSequenceNext

\* The composite left is the innermost.
LEMMA LeaveOrder ==
    ASSUME NEW CONSTANT extent, NEW CONSTANT depth, NEW CONSTANT apart,
           InOrder(extent, depth, apart), todo # <<>>, At("leave"),
           leaveComposite, UNCHANGED graph
    PROVE  OpenFromInside(depth, apart)' /\ WaitsInOrder(extent, apart)'
<1> DEFINE r == graph.root
<1>1. /\ TypeInv /\ graph \in Graphs /\ todo \in Seq(Calls) /\ todo[1] = leave(node)
      /\ 1 \in Leaves(todo) /\ Len(todo) \in Nat \ {0} /\ DOMAIN todo = 1..Len(todo)
      /\ \A n \in Node : depth[n] \in Nat
      /\ extent \in [Node -> Nat] /\ depth \in [Node -> Nat] /\ apart \in SUBSET Node
      /\ node \in Node
  BY HeadCall DEF InOrder, TypeInv, Layout
<1>2. /\ Nested(todo, r, depth, apart) /\ Ordered(todo, r, graph, extent, apart)
      /\ visited_dinodes_ = {todo[i].node : i \in Leaves(todo)}
      /\ \A i \in Leaves(todo) : todo[i].node \notin apart
  BY AsSequence DEF InOrder
<1>3. <<>> \in Seq(Calls) /\ Leaves(<<>>) = {} /\ Held(<<>>, r, apart) = {}
  BY EmptySeq DEF Leaves, Held
<1>4. Nested(<<>>, r, depth, apart) /\ Ordered(<<>>, r, graph, extent, apart)
  BY <1>3 DEF Nested, Ordered
<1>5. After(todo', <<>>, todo)
  BY DEF leaveComposite, Continue, After
<1>6. Nested(todo', r, depth, apart) /\ Ordered(todo', r, graph, extent, apart)
  <2> HIDE DEF r
  <2> QED BY <1>1, <1>2, <1>3, <1>4, <1>5, Advance
<1>7. /\ {todo'[i].node : i \in Leaves(todo')}
            = {<<>>[i].node : i \in Leaves(<<>>)} \cup {todo[i].node : i \in Leaves(todo) \ {1}}
      /\ Len(todo) # 1 => todo'[Len(todo')] = todo[Len(todo)]
      /\ Len(todo) = 1 => todo' = <<>>
  BY <1>1, <1>3, <1>5, LeavesAfter
<1>8. ASSUME NEW i \in Leaves(todo) \ {1} PROVE todo[i].node # node
  <2>1. i > 1 /\ todo[1].node = node
    BY <1>1, CallTypes DEF Leaves
  <2>2. depth[node] < depth[todo[i].node]
    BY <1>1, <1>2, <2>1 DEF Nested
  <2> QED BY <1>1, <2>2
<1>9. visited_dinodes_' = {todo'[i].node : i \in Leaves(todo')}
  <2>1. {todo'[i].node : i \in Leaves(todo')} = {todo[i].node : i \in Leaves(todo) \ {1}}
    BY <1>3, <1>7
  <2>2. todo[1].node = node
    BY <1>1, CallTypes
  <2>3. {todo[i].node : i \in Leaves(todo) \ {1}} = {todo[i].node : i \in Leaves(todo)} \ {node}
    BY <1>8, <2>2
  <2> QED BY <1>2, <2>1, <2>3 DEF leaveComposite
<1>10. \A i \in Leaves(todo') : todo'[i].node \notin apart
  <2>1. \A n \in visited_dinodes_' : n \notin apart
    BY <1>2 DEF leaveComposite
  <2> QED BY <1>9, <2>1
<1>11. \/ todo' = <<>>
       \/ todo'[Len(todo')] = leave(r)
  <2>1. todo # <<traverse(r)>>
    BY <1>1, CallTypes
  <2>2. todo[Len(todo)] = leave(r)
    BY <2>1, HeadCall
  <2> QED BY <1>7, <2>2
<1> QED BY <1>6, <1>9, <1>10, <1>11, AsSequenceNext

LEMMA OrderStep ==
    ASSUME NEW CONSTANT extent, NEW CONSTANT depth, NEW CONSTANT apart,
           InOrder(extent, depth, apart), [Next]_vars
    PROVE  InOrder(extent, depth, apart)'
<1>1. TypeInv'
  BY TypeStep DEF InOrder
<1>2. graph' = graph
  BY DEF Next, Traverse, resolve_byte_offset, visitLastMember, visitMember, visitOther,
         visitComposite, visitNothing, leaveCompositeType, vars
<1>3. Layout(graph, extent, depth, apart)'
  BY <1>2 DEF InOrder
<1>4. OpenFromInside(depth, apart)' /\ WaitsInOrder(extent, apart)'
  <2>1. ASSUME NEW offset \in Offsets, resolve_byte_offset(graph.root, offset)
        PROVE  OpenFromInside(depth, apart)' /\ WaitsInOrder(extent, apart)'
    <3>1. todo' = <<traverse(graph.root)>> /\ visited_dinodes_' = {}
      BY <2>1 DEF resolve_byte_offset, Start
    <3>2. /\ DOMAIN todo' = {1} /\ todo'[1].call = "traverse" /\ todo'[1].node = graph.root
      BY <3>1, CallTypes
    <3>3. Leaves(todo') = {} /\ Held(todo', graph.root, apart) = {}
      BY <3>2 DEF Leaves, Held
    <3>4. Nested(todo', graph.root, depth, apart) /\ Ordered(todo', graph.root, graph, extent, apart)
      BY <3>3 DEF Nested, Ordered
    <3> QED BY <1>2, <3>1, <3>3, <3>4, AsSequenceNext
  <2>2. CASE visitLastMember
    BY <1>2, <2>2, SkipOrder DEF visitLastMember, At
  <2>3. CASE visitMember
    BY <1>2, <2>3, DerivedOrder DEF visitMember, At, Structured
  <2>4. CASE visitOther
    BY <1>2, <2>4, DerivedOrder DEF visitOther, At, Structured
  <2>5. CASE visitComposite
    BY <1>2, <2>5, ArrayOrder, CompositeOrder DEF visitComposite, At
  <2>6. CASE visitNothing
    BY <1>2, <2>6, SkipOrder DEF visitNothing, At
  <2>7. CASE leaveCompositeType
    BY <1>2, <2>7, LeaveOrder DEF leaveCompositeType, At
  <2>8. CASE UNCHANGED vars
    <3>1. todo' = todo /\ visited_dinodes_' = visited_dinodes_
      BY <2>8 DEF vars
    <3> QED BY <1>2, <3>1, AsSequence, AsSequenceNext DEF InOrder
  <2> QED BY <2>1, <2>2, <2>3, <2>4, <2>5, <2>6, <2>7, <2>8 DEF Next, Traverse
<1> QED BY <1>1, <1>3, <1>4 DEF InOrder

LEMMA OrderInit ==
    ASSUME NEW CONSTANT extent, NEW CONSTANT depth, NEW CONSTANT apart,
           Layout(graph, extent, depth, apart), Init
    PROVE  InOrder(extent, depth, apart)
<1>1. todo = <<>> /\ visited_dinodes_ = {} /\ DOMAIN todo = {}
  BY DEF Init, Idle
<1>2. Leaves(todo) = {} /\ Held(todo, graph.root, apart) = {}
  BY <1>1 DEF Leaves, Held
<1>3. OpenFromInside(depth, apart) /\ WaitsInOrder(extent, apart)
  BY <1>1, <1>2, AsSequence DEF Nested, Ordered
<1> QED BY <1>3, TypeInit DEF InOrder

(****************************************************************************)
(* What waits once the pointer or array was found lies behind it.           *)
(****************************************************************************)

\* What waits after a step is new or waited before.
LEMMA NewOrOld ==
    ASSUME NEW t \in Seq(Calls), t # <<>>, NEW calls \in Seq(Calls), NEW s, After(s, calls, t),
           NEW root, NEW apart, NEW j \in Held(s, root, apart)
    PROVE  \/ j \in Held(calls, root, apart) /\ s[j] = calls[j]
           \/ \E i \in Held(t, root, apart) : i > 1 /\ s[j] = t[i]
<1>1. \A rr, a : \A k \in Held(s, rr, a) :
         \/ k \in Held(calls, rr, a) /\ k <= Len(calls) /\ s[k] = calls[k]
         \/ /\ k > Len(calls) /\ k - (Len(calls) - 1) > 1
            /\ k - (Len(calls) - 1) \in Held(t, rr, a)
            /\ s[k] = t[k - (Len(calls) - 1)]
  BY OriginHeld
<1> QED BY <1>1

\* Every step but the start of a search makes calls.
LEMMA StepContinues ==
    ASSUME TypeInv, Traverse
    PROVE  /\ todo # <<>> /\ graph' = graph /\ byte_index_' = byte_index_
           /\ \E calls \in Seq(Calls) : Continue(calls)
<1>1. todo # <<>> /\ graph' = graph /\ byte_index_' = byte_index_
  BY DEF Traverse, At, visitLastMember, visitMember, visitOther, visitComposite, visitNothing,
         leaveCompositeType, destructure
<1>2. \/ Continue(<<>>)
      \/ Continue(traverse_base(node))
      \/ Continue(traverse_elements(node) \o traverse_base(node))
      \/ Continue(traverse_base(node) \o traverse_elements(node) \o <<leave(node)>>)
  BY DEF Traverse, visitLastMember, visitMember, visitOther, visitComposite, visitNothing,
         leaveCompositeType, Skip, traverseDerived, traverseArray, traverseComposite, leaveComposite
<1>3. <<>> \in Seq(Calls) /\ traverse_base(node) \in Seq(Calls)
  BY <1>1, NewCalls
<1>4. traverse_elements(node) \o traverse_base(node) \in Seq(Calls)
  BY <1>1, ArrayCalls
<1>5. traverse_base(node) \o traverse_elements(node) \o <<leave(node)>> \in Seq(Calls)
  BY <1>1, CompositeCalls
<1> QED BY <1>1, <1>2, <1>3, <1>4, <1>5

\* A member is held by value.
LEMMA MemberHeld ==
    ASSUME NEW CONSTANT extent, NEW CONSTANT depth, NEW CONSTANT apart,
           InOrder(extent, depth, apart), At("traverse"), tag = "member"
    PROVE  /\ todo # <<>> /\ todo[1].node = node /\ node \in Node \ apart
           /\ 1 \in Held(todo, graph.root, apart)
           /\ extent[node] = graph.offset[node] + graph.size[node]
           /\ graph.base[node] \in Node
           /\ graph.base[node] \notin apart =>
                 graph.tag[graph.base[node]] \in Structured \cup {"array"}
<1>1. /\ todo # <<>> /\ node \in Node /\ graph \in Graphs /\ Layout(graph, extent, depth, apart)
      /\ todo[1] = traverse(node)
  BY HeadCall DEF InOrder, TypeInv, At
<1>2. node \notin apart \cup {graph.root}
  BY <1>1, RootLayout, ApartLayout DEF tag, Structured
<1>3. 1 \in Held(todo, graph.root, apart)
  BY <1>1, <1>2, HeadCall
<1>4. node \in Node \ apart
  BY <1>1, <1>2
<1>5. /\ graph.tag[node] = "member" => extent[node] = graph.offset[node] + graph.size[node]
      /\ graph.tag[node] \in {"member", "inheritance", "array"} =>
            /\ graph.base[node] \in Node
            /\ graph.base[node] \notin apart =>
                  graph.tag[graph.base[node]] \in Structured \cup {"array"}
  BY <1>1, <1>4, MemberLayout
<1> QED BY <1>1, <1>3, <1>4, <1>5, CallTypes DEF tag

\* A member that waits behind the pointer or array does not cover the offset.
LEMMA Behind ==
    ASSUME NEW CONSTANT extent, NEW CONSTANT depth, NEW CONSTANT apart,
           InOrder(extent, depth, apart), LieBehind(apart), terminate,
           At("traverse"), tag = "member"
    PROVE  ~covers(node)
<1>1. 1 \in toTraverse(apart) /\ todo[1].node = node /\ node \in Node
  <2>1. 1 \in Held(todo, graph.root, apart) /\ todo[1].node = node /\ node \in Node
    BY MemberHeld
  <2> QED BY <2>1 DEF Held, toTraverse
<1>2. byte_index_ < offset_base_ + graph.offset[node]
  BY <1>1 DEF LieBehind, tag
<1>3. todo # <<>> /\ graph \in Graphs /\ offset_base_ \in Nat
  BY DEF At, InOrder, TypeInv, TypeOK
<1>4. graph.offset[node] \in Nat /\ byte_index_ \in Nat
  BY <1>1, <1>3, GraphTypes, OffsetsAssumption DEF InOrder, TypeInv
<1> QED BY <1>2, <1>3, <1>4 DEF covers

LEMMA BehindStep ==
    ASSUME NEW CONSTANT extent, NEW CONSTANT depth, NEW CONSTANT apart,
           InOrder(extent, depth, apart), LieBehind(apart), [Next]_vars
    PROVE  LieBehind(apart)'
<1> DEFINE r == graph.root
           behind(s, base) ==
               \A i \in Held(s, r, apart) :
                   graph.tag[s[i].node] = "member" =>
                       byte_index_ < base + graph.offset[s[i].node]
<1>1. InOrder(extent, depth, apart)'
  BY OrderStep
<1>2. SUFFICES ASSUME terminate', graph' = graph, byte_index_' = byte_index_
               PROVE  behind(todo', offset_base_')
  <2>1. toTraverse(apart)' = Held(todo', graph'.root, apart)
    BY AsSequenceNext
  <2>2. CASE Traverse
    <3>1. graph' = graph /\ byte_index_' = byte_index_
      BY <2>2, StepContinues DEF InOrder
    <3> QED BY <1>2, <2>1, <3>1 DEF LieBehind
  <2>3. ASSUME NEW offset \in Offsets, resolve_byte_offset(graph.root, offset)
        PROVE  LieBehind(apart)'
    BY <2>3 DEF resolve_byte_offset, LieBehind
  <2>4. CASE UNCHANGED vars
    BY <1>2, <2>1, <2>4 DEF LieBehind, vars, destructure
  <2> QED BY <2>2, <2>3, <2>4 DEF Next
<1>3. terminate => behind(todo, offset_base_)
  BY AsSequence DEF LieBehind
<1>4. todo \in Seq(Calls) /\ graph \in Graphs
  BY DEF InOrder, TypeInv, TypeOK
\* The calls that are made hold no member.
<1>5. ASSUME todo # <<>>, NEW calls \in Seq(Calls), Continue(calls),
             \A i \in Held(calls, r, apart) : graph.tag[calls[i].node] # "member",
             terminate, offset_base_' = offset_base_
      PROVE  behind(todo', offset_base_')
  <2>1. After(todo', calls, todo)
    BY <1>5 DEF Continue, After
  <2>3. \A j \in Held(todo', r, apart) :
           \/ j \in Held(calls, r, apart) /\ todo'[j] = calls[j]
           \/ \E i \in Held(todo, r, apart) : i > 1 /\ todo'[j] = todo[i]
    <3> HIDE DEF r
    <3> QED BY <1>4, <1>5, <2>1, NewOrOld
  <2> QED BY <1>3, <1>5, <2>3
<1>6. Held(<<>>, r, apart) = {} /\ <<>> \in Seq(Calls)
  BY EmptySeq DEF Held
<1>7. CASE visitLastMember
  <2>1. /\ At("traverse") /\ tag = "member" /\ covers(node) /\ Continue(<<>>)
        /\ offset_base_' = offset_base_
    BY <1>7 DEF visitLastMember, Skip
  <2>2. /\ todo # <<>> /\ todo[1].node = node /\ node \in Node \ apart
        /\ 1 \in Held(todo, r, apart)
        /\ extent[node] = graph.offset[node] + graph.size[node]
    BY <2>1, MemberHeld
  <2>3. After(todo', <<>>, todo)
    BY <2>1 DEF Continue, After
  <2>4. \A j \in Held(todo', r, apart) : \E i \in Held(todo, r, apart) : i > 1 /\ todo'[j] = todo[i]
    <3> DEFINE none == <<>>
    <3>1. none \in Seq(Calls) /\ Held(none, r, apart) = {} /\ After(todo', none, todo)
      BY <1>6, <2>3
    <3> HIDE DEF none, r
    <3>2. \A j \in Held(todo', r, apart) :
             \/ j \in Held(none, r, apart) /\ todo'[j] = none[j]
             \/ \E i \in Held(todo, r, apart) : i > 1 /\ todo'[j] = todo[i]
      BY <1>4, <2>2, <3>1, NewOrOld
    <3> QED BY <3>1, <3>2
  <2>5. Ordered(todo, r, graph, extent, apart)
    BY AsSequence DEF InOrder
  <2>6. ASSUME NEW j \in Held(todo', r, apart), graph.tag[todo'[j].node] = "member"
        PROVE  byte_index_ < offset_base_ + graph.offset[todo'[j].node]
    <3>1. PICK i \in Held(todo, r, apart) : i > 1 /\ todo'[j] = todo[i]
      BY <2>4
    <3>2. extent[node] <= graph.offset[todo[i].node]
      BY <2>2, <2>5, <2>6, <3>1 DEF Ordered
    <3>3. i \in DOMAIN todo /\ todo[i] \in Calls
      BY <1>4, ElementOfSeq, LenProperties DEF Held
    <3>4. todo[i].node \in Node
      BY <3>3 DEF Calls
    <3>5. /\ graph.offset[todo[i].node] \in Nat /\ graph.offset[node] \in Nat
          /\ graph.size[node] \in Nat /\ offset_base_ \in Nat /\ byte_index_ \in Nat
      BY <1>4, <2>2, <3>4, GraphTypes, OffsetsAssumption DEF InOrder, TypeInv, TypeOK
    <3>6. byte_index_ < offset_base_ + graph.offset[node] + graph.size[node]
      BY <2>1 DEF covers
    <3>7. byte_index_ < offset_base_ + graph.offset[todo[i].node]
      BY <2>2, <3>2, <3>5, <3>6
    <3> QED BY <3>1, <3>7
  <2> QED BY <2>1, <2>6
<1>8. CASE visitMember
  BY <1>2, <1>8, Behind DEF visitMember
<1>9. CASE visitOther
  <2>1. /\ At("traverse") /\ tag \notin Structured \cup {"array"} /\ Continue(traverse_base(node))
        /\ offset_base_' = offset_base_ /\ terminate
    BY <1>2, <1>9 DEF visitOther, destructure, traverseDerived, Structured
  <2>2. /\ todo # <<>> /\ node \in Node /\ TypeInv /\ Layout(graph, extent, depth, apart)
    BY <2>1, HeadCall DEF At, InOrder
  <2>3. traverse_base(node) \in Seq(Calls)
    BY <2>2, BaseCalls
  <2>4. ASSUME NEW i \in Held(traverse_base(node), r, apart)
        PROVE  graph.tag[traverse_base(node)[i].node] # "member"
    <3>1. graph.base[node] # NoNode /\ traverse_base(node)[i].node = graph.base[node]
      BY <2>2, BaseCalls, CallTypes DEF Held
    <3>2. graph.base[node] \notin apart \cup {r, NoNode}
      BY <2>4, <3>1 DEF Held
    <3>3. node \notin apart
      BY <1>4, <2>2, <3>2, ApartLayout
    <3>4. graph.tag[node] \in {"member", "inheritance", "array"}
      BY <1>4, <2>1, <2>2, <3>3, MemberLayout DEF tag
    <3>5. graph.tag[graph.base[node]] \in Structured \cup {"array"}
      BY <1>4, <2>2, <3>2, <3>3, <3>4, MemberLayout
    <3> QED BY <3>1, <3>5 DEF Structured
  <2> QED BY <1>5, <2>1, <2>2, <2>3, <2>4
<1>10. CASE visitComposite
  BY <1>2, <1>10 DEF visitComposite, destructure
<1>11. CASE visitNothing
  <2>1. todo # <<>> /\ Continue(<<>>) /\ offset_base_' = offset_base_ /\ terminate
    BY <1>2, <1>11 DEF visitNothing, At, Skip, destructure
  <2> QED BY <1>5, <1>6, <2>1
<1>12. CASE leaveCompositeType
  <2>1. todo # <<>> /\ Continue(<<>>) /\ offset_base_' = offset_base_ /\ terminate
    BY <1>2, <1>12 DEF leaveCompositeType, At, leaveComposite, destructure
  <2> QED BY <1>5, <1>6, <2>1
<1>13. CASE UNCHANGED vars
  BY <1>2, <1>3, <1>13 DEF vars, destructure
<1>14. ASSUME NEW offset \in Offsets, resolve_byte_offset(graph.root, offset)
       PROVE  FALSE
  BY <1>2, <1>14 DEF resolve_byte_offset
<1> QED BY <1>7, <1>8, <1>9, <1>10, <1>11, <1>12, <1>13, <1>14 DEF Next, Traverse

(****************************************************************************)
(* The member found first is the one that is kept.                          *)
(****************************************************************************)

LaidOutInv(extent, depth, apart) == InOrder(extent, depth, apart) /\ LieBehind(apart)

\* The walk over a layout, for some extents, depths and set of what is apart.
SearchInv ==
    \E extent \in [Node -> Nat], depth \in [Node -> Nat], apart \in SUBSET Node :
        LaidOutInv(extent, depth, apart)

LEMMA SearchInit == EveryLayout /\ Init => SearchInv
<1> SUFFICES ASSUME EveryLayout, Init PROVE SearchInv
  OBVIOUS
<1>1. graph \in Graphs
  BY DEF Init
<1>2. PICK extent \in [Node -> Nat], depth \in [Node -> Nat], apart \in SUBSET Node :
         LaidOut(graph, extent, depth, apart)
  BY <1>1 DEF EveryLayout
<1>3. InOrder(extent, depth, apart)
  BY <1>2, OrderInit DEF Layout
<1>4. LieBehind(apart)
  BY DEF Init, Idle, LieBehind
<1> QED BY <1>2, <1>3, <1>4 DEF SearchInv, LaidOutInv

LEMMA SearchStep == SearchInv /\ [Next]_vars => SearchInv'
<1> SUFFICES ASSUME SearchInv, [Next]_vars PROVE SearchInv'
  OBVIOUS
<1>1. PICK extent \in [Node -> Nat], depth \in [Node -> Nat], apart \in SUBSET Node :
         LaidOutInv(extent, depth, apart)
  BY DEF SearchInv
<1>2. LaidOutInv(extent, depth, apart)'
  BY <1>1, OrderStep, BehindStep DEF LaidOutInv
<1> QED BY <1>1, <1>2 DEF SearchInv

LEMMA SearchInvariant == EveryLayout => (Spec => []SearchInv)
<1> SUFFICES ASSUME EveryLayout PROVE Spec => []SearchInv
  OBVIOUS
<1>1. Init => SearchInv
  BY SearchInit
<1> QED BY <1>1, SearchStep, PTL DEF Spec

LEMMA StaysStep ==
    ASSUME SearchInv, [Next]_vars
    PROVE  terminate /\ terminate' => outermost_candidate_' = outermost_candidate_
<1> SUFFICES ASSUME terminate, terminate' PROVE outermost_candidate_' = outermost_candidate_
  OBVIOUS
<1>1. PICK extent \in [Node -> Nat], depth \in [Node -> Nat], apart \in SUBSET Node :
         LaidOutInv(extent, depth, apart)
  BY DEF SearchInv
<1>2. ~(At("traverse") /\ tag = "member" /\ covers(node))
  BY <1>1, Behind DEF LaidOutInv
<1>3. ~visitLastMember /\ ~visitMember
  BY <1>2 DEF visitLastMember, visitMember
<1>4. ~(\E offset \in Offsets : resolve_byte_offset(graph.root, offset))
  BY DEF resolve_byte_offset
<1> QED BY <1>3, <1>4 DEF Next, Traverse, visitOther, visitComposite, visitNothing,
                          leaveCompositeType, vars, destructure

\* Once the pointer or array at the offset was found, no member visited later
\* takes its place, however the composite is laid out.
THEOREM LastMember == EveryLayout => (Spec => LastMemberStays)
<1> SUFFICES ASSUME EveryLayout PROVE Spec => LastMemberStays
  OBVIOUS
<1>1. SearchInv /\ [Next]_vars =>
         [terminate /\ terminate' => outermost_candidate_' = outermost_candidate_]_vars
  BY StaysStep
<1> QED BY <1>1, SearchInvariant, PTL DEF Spec, LastMemberStays

\* In a composite that is laid out member by member, however large and deep, the
\* search opens and leaves composites from the inside out and comes to members in
\* the order of their offsets.
THEOREM SearchOrder ==
    EveryLayout =>
        (Spec => [](\E extent \in [Node -> Nat], depth \in [Node -> Nat], apart \in SUBSET Node :
                        WalkInOrder(extent, depth, apart)))
<1> SUFFICES ASSUME EveryLayout
             PROVE  Spec => [](\E extent \in [Node -> Nat], depth \in [Node -> Nat], apart \in SUBSET Node :
                                  WalkInOrder(extent, depth, apart))
  OBVIOUS
<1>1. SearchInv => \E extent \in [Node -> Nat], depth \in [Node -> Nat], apart \in SUBSET Node :
                      WalkInOrder(extent, depth, apart)
  BY DEF SearchInv, LaidOutInv, InOrder, WalkInOrder, Layout
<1> QED BY <1>1, SearchInvariant, PTL

(****************************************************************************)
(* The search follows the way to the pointer or array at the offset.        *)
(****************************************************************************)

Waits(s, n) == \E j \in DOMAIN s : s[j] = traverse(n)

Found(w) == terminate /\ outermost_candidate_ = w[Len(w)].member

\* A member of the way waits, and its composite starts at the base.
Ahead(w) ==
    /\ ~terminate
    /\ \E k \in DOMAIN w : offset_base_ = w[k].at /\ Waits(todo, w[k].member)

\* The composite that holds a member of the way waits, and starts at the base.
Entering(w, apart) ==
    /\ ~terminate
    /\ \E k \in DOMAIN w, n \in Node \ apart :
          /\ offset_base_ = w[k].at /\ w[k].member \in elementsOf(n)
          /\ graph.tag[n] \in Structured /\ Waits(todo, n)
          /\ n = graph.root => todo = <<traverse(n)>>

WayInv(w, apart) ==
    byte_index_ # NoOffset /\ LeadsToPointer(w) => Found(w) \/ Ahead(w) \/ Entering(w, apart)

LEMMA StillWaits ==
    ASSUME todo \in Seq(Calls), todo # <<>>, NEW calls \in Seq(Calls), Continue(calls),
           NEW n, Waits(todo, n), todo[1] # traverse(n)
    PROVE  Waits(todo', n)
<1>1. After(todo', calls, todo)
  BY DEF Continue, After
<1>2. /\ DOMAIN todo = 1..Len(todo) /\ Len(todo) \in Nat
      /\ \A i \in 2..Len(todo) : i + (Len(calls) - 1) \in DOMAIN todo'
                                 /\ todo'[i + (Len(calls) - 1)] = todo[i]
  BY <1>1, Origin
<1>3. PICK j \in DOMAIN todo : todo[j] = traverse(n)
  BY DEF Waits
<1>4. j \in 2..Len(todo)
  BY <1>2, <1>3
<1> QED BY <1>2, <1>3, <1>4 DEF Waits

LEMMA NowWaits ==
    ASSUME todo \in Seq(Calls), todo # <<>>, NEW calls \in Seq(Calls), Continue(calls),
           NEW n, Waits(calls, n)
    PROVE  Waits(todo', n)
<1>1. After(todo', calls, todo)
  BY DEF Continue, After
<1>2. /\ DOMAIN calls = 1..Len(calls)
      /\ \A i \in 1..Len(calls) : i \in DOMAIN todo' /\ todo'[i] = calls[i]
  BY <1>1, Origin
<1> QED BY <1>2 DEF Waits

\* What a way says of each of its members.
LEMMA WayFacts ==
    ASSUME NEW CONSTANT extent, NEW CONSTANT depth, NEW CONSTANT apart,
           InOrder(extent, depth, apart),
           NEW w \in Ways, LeadsToPointer(w), NEW k \in DOMAIN w
    PROVE  LET m == w[k].member
           IN  /\ m \in Node \ apart /\ m # graph.root /\ w[k].at \in Nat
               /\ w[k].at + graph.offset[m] <= byte_index_
               /\ \/ /\ graph.tag[m] = "member"
                     /\ byte_index_ < w[k].at + graph.offset[m] + graph.size[m]
                  \/ graph.tag[m] = "inheritance" /\ graph.offset[m] = 0
               /\ graph.base[m] \in Node /\ graph.base[m] # NoNode
               /\ \/ /\ k = Len(w) /\ graph.tag[m] = "member" /\ endsSearch(graph.base[m])
                  \/ /\ k + 1 \in DOMAIN w /\ w[k + 1].at = w[k].at + graph.offset[m]
                     /\ w[k + 1].member \in elementsOf(graph.base[m])
                     /\ graph.base[m] \notin apart /\ graph.tag[graph.base[m]] \in Structured
<1>1. graph \in Graphs /\ Layout(graph, extent, depth, apart)
  BY DEF InOrder, TypeInv
<1>2. w \in Seq([member : Node, at : Nat]) /\ DOMAIN w = 1..Len(w) /\ Len(w) \in Nat
  BY WaysAssumption, LenProperties
<1>3. \A i \in DOMAIN w : w[i].member \in Node /\ w[i].at \in Nat
  <2>1. \A i \in DOMAIN w : w[i] \in [member : Node, at : Nat]
    BY <1>2, ElementOfSeq
  <2> QED BY <2>1
<1>4. \A i \in DOMAIN w : coversByte(w[i])
  BY DEF LeadsToPointer
<1>5. ASSUME NEW i \in DOMAIN w
      PROVE  w[i].member \in Node \ apart /\ graph.tag[w[i].member] \in {"member", "inheritance"}
  <2>1. graph.tag[w[i].member] \in {"member", "inheritance"}
    BY <1>4 DEF coversByte
  <2>2. w[i].member \notin apart
    BY <1>1, <2>1, ApartLayout
  <2> QED BY <1>3, <2>1, <2>2
<1> DEFINE m == w[k].member
<1>6. m \in Node \ apart /\ graph.tag[m] \in {"member", "inheritance"} /\ w[k].at \in Nat
  BY <1>3, <1>5
<1>7. m # graph.root
  BY <1>1, <1>6, RootLayout DEF Structured
<1>8. /\ w[k].at + graph.offset[m] <= byte_index_
      /\ \/ /\ graph.tag[m] = "member"
            /\ byte_index_ < w[k].at + graph.offset[m] + graph.size[m]
         \/ graph.tag[m] = "inheritance" /\ graph.offset[m] = 0
  BY <1>4 DEF coversByte
<1>9. /\ graph.base[m] \in Node /\ graph.base[m] # NoNode
      /\ graph.base[m] \notin apart => graph.tag[graph.base[m]] \in Structured \cup {"array"}
  BY <1>1, <1>6, MemberLayout, NoNodeAssumption
<1>10. CASE k = Len(w)
  <2>1. graph.tag[m] = "member" /\ endsSearch(graph.base[m])
    BY <1>10 DEF LeadsToPointer
  <2> QED BY <1>6, <1>7, <1>8, <1>9, <1>10, <2>1
<1>11. CASE k # Len(w)
  <2>1. k + 1 \in DOMAIN w /\ k + 1 \in 2..Len(w) /\ (k + 1) - 1 = k
    BY <1>2, <1>11
  <2>2. /\ w[k + 1].member \in elementsOf(graph.base[m])
        /\ w[k + 1].at = w[k].at + graph.offset[m]
    BY <2>1 DEF LeadsToPointer
  <2>3. w[k + 1].member \notin apart
    BY <1>5, <2>1
  <2>4. PICK i \in DOMAIN graph.elements[graph.base[m]] :
           graph.elements[graph.base[m]][i] = w[k + 1].member
    BY <2>2 DEF elementsOf
  <2>5. graph.base[m] \notin apart
    BY <1>1, <2>3, <2>4, ApartLayout
  <2>6. graph.tag[graph.base[m]] # "array"
    BY <1>1, <1>9, <2>3, <2>4, <2>5, MemberLayout
  <2> QED BY <1>6, <1>7, <1>8, <1>9, <2>1, <2>2, <2>5, <2>6
<1> QED BY <1>10, <1>11

\* Nothing but a member that covers the offset changes what was found.
LEMMA OnlyMembersFind ==
    ASSUME Traverse, ~(At("traverse") /\ tag = "member" /\ covers(node))
    PROVE  UNCHANGED <<offset_base_, outermost_candidate_, terminate>>
BY DEF Traverse, visitLastMember, visitMember, visitOther, visitComposite, visitNothing,
       leaveCompositeType, destructure

LEMMA FoundStays ==
    ASSUME SearchInv, Traverse, NEW w, Found(w)
    PROVE  Found(w)'
<1>1. terminate
  BY DEF Found
<1>2. PICK extent \in [Node -> Nat], depth \in [Node -> Nat], apart \in SUBSET Node :
         LaidOutInv(extent, depth, apart)
  BY DEF SearchInv
<1>3. ~(At("traverse") /\ tag = "member" /\ covers(node))
  BY <1>1, <1>2, Behind DEF LaidOutInv
<1> QED BY <1>3, OnlyMembersFind DEF Found

LEMMA AheadStep ==
    ASSUME NEW CONSTANT extent, NEW CONSTANT depth, NEW CONSTANT apart,
           InOrder(extent, depth, apart), Traverse,
           NEW w \in Ways, LeadsToPointer(w), byte_index_ # NoOffset, Ahead(w)
    PROVE  Found(w)' \/ Ahead(w)' \/ Entering(w, apart)'
<1>1. PICK k \in DOMAIN w : offset_base_ = w[k].at /\ Waits(todo, w[k].member)
  BY DEF Ahead
<1> DEFINE m == w[k].member
<1>2. /\ todo # <<>> /\ graph' = graph /\ byte_index_' = byte_index_ /\ ~terminate
      /\ graph \in Graphs /\ todo \in Seq(Calls) /\ Layout(graph, extent, depth, apart)
      /\ Len(todo) \in Nat \ {0} /\ DOMAIN todo = 1..Len(todo)
  BY StepContinues, HeadCall DEF InOrder, TypeInv, Ahead
<1>3. PICK calls \in Seq(Calls) : Continue(calls)
  BY StepContinues DEF InOrder
<1>4. /\ m \in Node \ apart /\ m # graph.root
      /\ offset_base_ + graph.offset[m] <= byte_index_
      /\ \/ /\ graph.tag[m] = "member"
            /\ byte_index_ < offset_base_ + graph.offset[m] + graph.size[m]
         \/ graph.tag[m] = "inheritance" /\ graph.offset[m] = 0
      /\ graph.base[m] \in Node /\ graph.base[m] # NoNode
      /\ \/ /\ k = Len(w) /\ graph.tag[m] = "member" /\ endsSearch(graph.base[m])
         \/ /\ k + 1 \in DOMAIN w /\ w[k + 1].at = offset_base_ + graph.offset[m]
            /\ w[k + 1].member \in elementsOf(graph.base[m])
            /\ graph.base[m] \notin apart /\ graph.tag[graph.base[m]] \in Structured
  BY <1>1, WayFacts
<1>5. CASE todo[1] = traverse(m)
  <2>1. At("traverse") /\ node = m /\ tag = graph.tag[m]
    BY <1>2, <1>5, CallTypes, HeadCall DEF At, node, tag
  <2>2. m \notin apart \cup {graph.root}
    BY <1>4
  <2>3. depth[m] < depth[graph.root]
    BY <1>2, <2>1, <2>2, HeadBelowRoot
  <2>4. CASE k = Len(w) /\ graph.tag[m] = "member" /\ endsSearch(graph.base[m])
    <3>1. covers(node)
      BY <1>4, <2>1, <2>4 DEF covers
    <3>2. visitLastMember
      BY <2>1, <2>4, <3>1, <1>2
         DEF Traverse, visitLastMember, visitMember, visitOther, visitComposite, visitNothing,
             leaveCompositeType, Structured, At
    <3> QED BY <2>1, <2>4, <3>2 DEF visitLastMember, Found
  <2>5. CASE /\ k + 1 \in DOMAIN w /\ w[k + 1].at = offset_base_ + graph.offset[m]
             /\ w[k + 1].member \in elementsOf(graph.base[m])
             /\ graph.base[m] \notin apart /\ graph.tag[graph.base[m]] \in Structured
    <3>1. ~endsSearch(graph.base[m])
      BY <2>5 DEF endsSearch, Structured
    <3>2. graph.base[m] # graph.root
      <4>1. depth[graph.base[m]] < depth[m]
        BY <1>2, <1>4, <2>5, MemberLayout
      <4>2. /\ depth[graph.base[m]] \in Nat /\ depth[m] \in Nat /\ depth[graph.root] \in Nat
        BY <1>2, <1>4, RootLayout DEF Layout
      <4> QED BY <2>3, <4>1, <4>2
    <3>3. traverseDerived /\ ~terminate' /\ offset_base_' = w[k + 1].at
      <4>1. CASE graph.tag[m] = "member"
        <5>1. covers(node)
          BY <1>4, <2>1, <4>1 DEF covers
        <5>2. visitMember
          BY <2>1, <3>1, <4>1, <5>1
             DEF Traverse, visitLastMember, visitMember, visitOther, visitComposite, visitNothing,
                 leaveCompositeType, Structured, At
        <5> QED BY <1>2, <2>1, <2>5, <5>2 DEF visitMember
      <4>2. CASE graph.tag[m] = "inheritance" /\ graph.offset[m] = 0
        <5>1. visitOther
          BY <2>1, <4>2
             DEF Traverse, visitLastMember, visitMember, visitOther, visitComposite, visitNothing,
                 leaveCompositeType, Structured, At
        <5>2. offset_base_ \in Nat
          BY DEF InOrder, TypeInv, TypeOK
        <5> QED BY <1>2, <2>5, <4>2, <5>1, <5>2 DEF visitOther, destructure
      <4> QED BY <1>4, <4>1, <4>2
    <3>4. Waits(todo', graph.base[m])
      <4>1. Continue(traverse_base(node))
        BY <3>3 DEF traverseDerived
      <4>2. traverse_base(node) = <<traverse(graph.base[m])>>
        BY <1>4, <2>1 DEF traverse_base
      <4>3. Waits(traverse_base(node), graph.base[m])
        BY <4>2 DEF Waits
      <4>4. traverse_base(node) \in Seq(Calls)
        BY <1>2, NewCalls DEF InOrder
      <4> QED BY <1>2, <4>1, <4>3, <4>4, NowWaits
    <3>5. \E l \in DOMAIN w, n \in Node \ apart :
             /\ offset_base_' = w[l].at /\ w[l].member \in elementsOf(n)
             /\ graph.tag[n] \in Structured /\ Waits(todo', n) /\ n # graph.root
      BY <1>4, <2>5, <3>2, <3>3, <3>4
    <3>6. Entering(w, apart)'
      BY <1>2, <3>3, <3>5 DEF Entering, elementsOf
    <3> QED BY <3>6
  <2> QED BY <1>4, <2>4, <2>5
<1>6. CASE todo[1] # traverse(m)
  <2>1. Waits(todo', m)
    BY <1>1, <1>2, <1>3, <1>6, StillWaits
  <2>2. ~(At("traverse") /\ tag = "member" /\ covers(node))
    <3> SUFFICES ASSUME At("traverse"), tag = "member" PROVE ~covers(node)
      OBVIOUS
    <3>1. /\ 1 \in Held(todo, graph.root, apart) /\ todo[1].node = node /\ node \in Node
          /\ extent[node] = graph.offset[node] + graph.size[node]
      BY MemberHeld
    <3>2. PICK j \in DOMAIN todo : todo[j] = traverse(m)
      BY <1>1 DEF Waits
    <3>3. j \in Held(todo, graph.root, apart) /\ todo[j].node = m /\ 1 < j
      BY <1>2, <1>4, <1>6, <3>2, CallTypes DEF Held
    <3>4. Ordered(todo, graph.root, graph, extent, apart)
      BY AsSequence DEF InOrder
    <3>5. extent[node] <= graph.offset[m]
      BY <1>4, <3>1, <3>3, <3>4 DEF Ordered
    <3>6. /\ graph.offset[node] \in Nat /\ graph.size[node] \in Nat /\ graph.offset[m] \in Nat
          /\ offset_base_ \in Nat /\ byte_index_ \in Nat
      BY <1>2, <1>4, <3>1, GraphTypes, OffsetsAssumption DEF InOrder, TypeInv, TypeOK
    <3>7. graph.offset[node] + graph.size[node] <= graph.offset[m]
      BY <3>1, <3>5
    <3>8. offset_base_ + graph.offset[m] <= byte_index_
      BY <1>4
    <3> HIDE DEF m
    <3>9. ~(byte_index_ < offset_base_ + graph.offset[node] + graph.size[node])
      BY <3>6, <3>7, <3>8
    <3> QED BY <3>9 DEF covers
  <2>3. offset_base_' = offset_base_ /\ ~terminate'
    BY <1>2, <2>2, OnlyMembersFind
  <2> QED BY <1>1, <2>1, <2>3 DEF Ahead
<1> QED BY <1>5, <1>6

LEMMA EnteringStep ==
    ASSUME NEW CONSTANT extent, NEW CONSTANT depth, NEW CONSTANT apart,
           InOrder(extent, depth, apart), Traverse,
           NEW w \in Ways, LeadsToPointer(w), byte_index_ # NoOffset, Entering(w, apart)
    PROVE  Ahead(w)' \/ Entering(w, apart)'
<1>1. PICK k \in DOMAIN w, n \in Node \ apart :
         /\ offset_base_ = w[k].at /\ w[k].member \in elementsOf(n)
         /\ graph.tag[n] \in Structured /\ Waits(todo, n)
         /\ n = graph.root => todo = <<traverse(n)>>
  BY DEF Entering
<1>2. /\ todo # <<>> /\ graph' = graph /\ byte_index_' = byte_index_ /\ ~terminate
      /\ graph \in Graphs /\ todo \in Seq(Calls) /\ Layout(graph, extent, depth, apart)
      /\ Len(todo) \in Nat \ {0} /\ DOMAIN todo = 1..Len(todo)
  BY StepContinues, HeadCall DEF InOrder, TypeInv, Entering
<1>3. PICK calls \in Seq(Calls) : Continue(calls)
  BY StepContinues DEF InOrder
<1>4. CASE todo[1] = traverse(n)
  <2>1. At("traverse") /\ node = n /\ tag = graph.tag[n]
    BY <1>2, <1>4, CallTypes, HeadCall DEF At, node, tag
  <2>2. ~recurring
    <3>1. CASE n = graph.root
      <4>1. todo = <<traverse(n)>>
        BY <1>1, <3>1
      <4>2. DOMAIN todo = {1} /\ todo[1].call = "traverse"
        BY <4>1, CallTypes
      <4>3. Leaves(todo) = {}
        BY <4>2 DEF Leaves
      <4>4. visited_dinodes_ = {}
        BY <4>3, AsSequence DEF InOrder
      <4> QED BY <4>4 DEF recurring
    <3>2. CASE n # graph.root
      <4>1. \A c \in visited_dinodes_ : depth[n] < depth[c]
        BY <1>2, <2>1, <3>2, HeadBelowRoot
      <4>2. depth[n] \in Nat
        BY <1>2 DEF Layout
      <4> QED BY <2>1, <4>1, <4>2 DEF recurring
    <3> QED BY <3>1, <3>2
  <2>3. visitComposite
    BY <1>1, <1>2, <2>1, <2>2
       DEF Traverse, visitLastMember, visitMember, visitOther, visitComposite, visitNothing,
           leaveCompositeType, Structured, At
  <2>4. traverseComposite /\ UNCHANGED <<offset_base_, terminate>>
    BY <1>1, <2>1, <2>3 DEF visitComposite, destructure, Structured
  <2> DEFINE opened == traverse_base(node) \o traverse_elements(node) \o <<leave(node)>>
             shift == Len(traverse_base(node))
  <2>5. /\ opened \in Seq(Calls)
        /\ \A i \in DOMAIN graph.elements[node] :
              i + shift \in DOMAIN opened /\ opened[i + shift] = traverse(graph.elements[node][i])
    BY <1>2, CompositeCalls DEF InOrder
  <2>6. Continue(opened)
    BY <2>4 DEF traverseComposite
  <2> HIDE DEF opened, shift
  <2>7. PICK i \in DOMAIN graph.elements[node] : graph.elements[node][i] = w[k].member
    BY <1>1, <2>1 DEF elementsOf
  <2>8. Waits(opened, w[k].member)
    BY <2>5, <2>7 DEF Waits
  <2>9. Waits(todo', w[k].member)
    BY <1>2, <2>5, <2>6, <2>8, NowWaits
  <2>10. Ahead(w)'
    BY <1>1, <1>2, <2>4, <2>9 DEF Ahead
  <2> QED BY <2>10
<1>5. CASE todo[1] # traverse(n)
  <2>1. Waits(todo', n)
    BY <1>1, <1>2, <1>3, <1>5, StillWaits
  <2>2. n # graph.root
    BY <1>1, <1>5
  <2>3. PICK j \in DOMAIN todo : todo[j] = traverse(n)
    BY <1>1 DEF Waits
  <2>4. j \in Held(todo, graph.root, apart) /\ todo[j].node = n /\ 1 < j /\ 1 \in DOMAIN todo
    BY <1>2, <1>5, <2>2, <2>3, CallTypes DEF Held
  <2>5. Ordered(todo, graph.root, graph, extent, apart)
    BY AsSequence DEF InOrder
  <2>6. 1 \notin Held(todo, graph.root, apart)
    BY <1>1, <2>4, <2>5 DEF Ordered, Structured
  <2>7. ~(At("traverse") /\ tag = "member")
    BY <2>6, MemberHeld
  <2>8. offset_base_' = offset_base_ /\ ~terminate'
    BY <1>2, <2>7, OnlyMembersFind
  <2>9. Entering(w, apart)'
    BY <1>1, <1>2, <2>1, <2>2, <2>8 DEF Entering, elementsOf
  <2> QED BY <2>9
<1> QED BY <1>4, <1>5

\* A search starts where every way does.
LEMMA StartStep ==
    ASSUME NEW CONSTANT extent, NEW CONSTANT depth, NEW CONSTANT apart,
           InOrder(extent, depth, apart),
           NEW offset \in Offsets, resolve_byte_offset(graph.root, offset),
           NEW w \in Ways, LeadsToPointer(w)'
    PROVE  Entering(w, apart)'
<1>1. /\ graph' = graph /\ offset_base_' = 0 /\ ~terminate' /\ todo' = <<traverse(graph.root)>>
  BY DEF resolve_byte_offset, Start
<1>2. graph.root \in Node \ apart /\ graph.tag[graph.root] \in Structured
  BY RootLayout DEF InOrder, TypeInv
<1>3. w \in Seq([member : Node, at : Nat]) /\ w # <<>>
  BY WaysAssumption DEF LeadsToPointer
<1>4. 1 \in DOMAIN w
  BY <1>3, EmptySeq, LenProperties
<1>5. w[1].at = 0 /\ w[1].member \in elementsOf(graph.root)'
  BY DEF LeadsToPointer
<1>6. Waits(todo', graph.root)
  <2>1. DOMAIN todo' = {1} /\ todo'[1] = traverse(graph.root)
    BY <1>1
  <2> QED BY <2>1 DEF Waits
<1> QED BY <1>1, <1>2, <1>4, <1>5, <1>6 DEF Entering, elementsOf

LEMMA WayStep ==
    ASSUME NEW CONSTANT extent \in [Node -> Nat], NEW CONSTANT depth \in [Node -> Nat],
           NEW CONSTANT apart \in SUBSET Node,
           LaidOutInv(extent, depth, apart), NEW w \in Ways, WayInv(w, apart), [Next]_vars
    PROVE  WayInv(w, apart)'
<1>1. InOrder(extent, depth, apart) /\ TypeInv /\ SearchInv
  BY DEF LaidOutInv, InOrder, SearchInv
<1>2. SUFFICES ASSUME byte_index_' # NoOffset, LeadsToPointer(w)'
               PROVE  Found(w)' \/ Ahead(w)' \/ Entering(w, apart)'
  BY DEF WayInv
<1>3. ASSUME NEW offset \in Offsets, resolve_byte_offset(graph.root, offset)
      PROVE  Entering(w, apart)'
  BY <1>1, <1>2, <1>3, StartStep
<1>4. CASE Traverse
  <2>1. graph' = graph /\ byte_index_' = byte_index_
    BY <1>1, <1>4, StepContinues
  <2>2. byte_index_ # NoOffset /\ LeadsToPointer(w)
    BY <1>2, <2>1 DEF LeadsToPointer, coversByte, elementsOf, endsSearch
  <2>3. CASE Found(w)
    BY <1>1, <1>4, <2>3, FoundStays
  <2>4. CASE Ahead(w)
    BY <1>1, <1>4, <2>2, <2>4, AheadStep
  <2>5. CASE Entering(w, apart)
    BY <1>1, <1>4, <2>2, <2>5, EnteringStep
  <2> QED BY <2>2, <2>3, <2>4, <2>5 DEF WayInv
<1>5. CASE UNCHANGED vars
  <2>1. byte_index_ # NoOffset /\ LeadsToPointer(w)
    BY <1>2, <1>5 DEF vars, destructure, LeadsToPointer, coversByte, elementsOf, endsSearch
  <2>2. Found(w) \/ Ahead(w) \/ Entering(w, apart)
    BY <2>1 DEF WayInv
  <2> QED BY <1>5, <2>2 DEF vars, destructure, Found, Ahead, Entering, elementsOf
<1> QED BY <1>3, <1>4, <1>5 DEF Next

\* The walk over a layout, along every way.
WaysInv ==
    \E extent \in [Node -> Nat], depth \in [Node -> Nat], apart \in SUBSET Node :
        LaidOutInv(extent, depth, apart) /\ \A w \in Ways : WayInv(w, apart)

LEMMA WaysInit == EveryLayout /\ Init => WaysInv
<1> SUFFICES ASSUME EveryLayout, Init PROVE WaysInv
  OBVIOUS
<1>1. PICK extent \in [Node -> Nat], depth \in [Node -> Nat], apart \in SUBSET Node :
         LaidOutInv(extent, depth, apart)
  BY SearchInit DEF SearchInv
<1>2. \A w \in Ways : WayInv(w, apart)
  BY DEF Init, Idle, WayInv
<1> QED BY <1>1, <1>2 DEF WaysInv

LEMMA WaysStep == WaysInv /\ [Next]_vars => WaysInv'
<1> SUFFICES ASSUME WaysInv, [Next]_vars PROVE WaysInv'
  OBVIOUS
<1>1. PICK extent \in [Node -> Nat], depth \in [Node -> Nat], apart \in SUBSET Node :
         LaidOutInv(extent, depth, apart) /\ \A w \in Ways : WayInv(w, apart)
  BY DEF WaysInv
<1>2. LaidOutInv(extent, depth, apart)'
  BY <1>1, OrderStep, BehindStep DEF LaidOutInv
<1>3. \A w \in Ways : WayInv(w, apart)'
  BY <1>1, WayStep
<1> QED BY <1>1, <1>2, <1>3 DEF WaysInv

\* A search that is over has reached the end of the way.
LEMMA FoundAtTheEnd == WaysInv => PointersAreFound
<1> SUFFICES ASSUME WaysInv, todo = <<>>, byte_index_ # NoOffset, NEW w \in Ways, LeadsToPointer(w)
             PROVE  outermost_candidate_ = w[Len(w)].member
  BY DEF PointersAreFound
<1>1. PICK apart \in SUBSET Node : WayInv(w, apart)
  BY DEF WaysInv
<1>2. \A n : ~Waits(todo, n)
  BY DEF Waits
<1>3. Found(w)
  BY <1>1, <1>2 DEF WayInv, Ahead, Entering
<1> QED BY <1>3 DEF Found

\* An offset in a pointer or an array finds it, whatever the composites that
\* hold each other by value around it, and whatever else is visited.
THEOREM PointersFound == EveryLayout => (Spec => []PointersAreFound)
<1> SUFFICES ASSUME EveryLayout PROVE Spec => []PointersAreFound
  OBVIOUS
<1>1. Init => WaysInv
  BY WaysInit
<1> QED BY <1>1, WaysStep, FoundAtTheEnd, PTL DEF Spec

==============================================================================
