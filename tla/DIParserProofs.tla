---------------------------- MODULE DIParserProofs ----------------------------
(****************************************************************************)
(* Proofs about DIParser, for every set of debug info graphs, cyclic ones   *)
(* and such that no compiler writes included.                               *)
(*                                                                          *)
(* Three parts of the program keep a stack of their own: the traversal (the *)
(* calls of leave still to make, and the set of composites to cut at), the  *)
(* event visitor and the type builder.  They are pushed and popped in       *)
(* different functions, and agree (StacksAgree) only because every visit    *)
(* function but those of composites leaves all of them alone.               *)
(****************************************************************************)
EXTENDS DIParser, Functions, SequenceTheorems, TLAPS

\* The types built so far are only looked at in their field type.
IsStack(s) == s \in Seq(Range(s)) /\ \A i \in DOMAIN s : "type" \in DOMAIN s[i]

typesOf(s) == [i \in DOMAIN s |-> s[i].type]

\* The part of TypeOK that no shape of the debug info can break.
Typed ==
    /\ graph \in Graphs
    /\ todo \in Seq(Calls)
    /\ visited_dinodes_ \subseteq Node
    /\ current_ \in MetaData
    /\ stack_ \in Seq(MetaData)
    /\ enum_data_ \in [is_enum : BOOLEAN, enum_base : Node \cup {NoNode}]
    /\ IsStack(composite_stack_)

(****************************************************************************)
(* The stack of the type builder.                                           *)
(****************************************************************************)

LEMMA StackFacts ==
    ASSUME NEW s, IsStack(s)
    PROVE  Len(s) \in Nat /\ DOMAIN s = 1..Len(s) /\ s \in [1..Len(s) -> Range(s)]
BY LenProperties DEF IsStack

LEMMA SameTypes ==
    ASSUME NEW s, IsStack(s), NEW t, DOMAIN t = DOMAIN s, t = [i \in DOMAIN s |-> t[i]],
           \A i \in DOMAIN s : "type" \in DOMAIN t[i] /\ t[i].type = s[i].type
    PROVE  IsStack(t) /\ typesOf(t) = typesOf(s)
<1>1. DOMAIN s = 1..Len(s) /\ Len(s) \in Nat
  BY StackFacts
<1>2. t \in [1..Len(s) -> Range(t)]
  BY <1>1 DEF Range
<1>3. t \in Seq(Range(t))
  BY <1>1, <1>2
<1> QED BY <1>3 DEF IsStack, typesOf

\* A type that is added to the innermost composite leaves its own type.
LEMMA EmplaceMember ==
    ASSUME NEW s, IsStack(s), NEW type, NEW meta
    PROVE  /\ IsStack(emplace_member(s, type, meta))
           /\ typesOf(emplace_member(s, type, meta)) = typesOf(s)
<1> DEFINE n == Len(s)
           c == with_member(s[n], type, meta)
           t == [s EXCEPT ![n] = c]
<1>1. n \in Nat /\ DOMAIN s = 1..n
  BY StackFacts
<1>2. ASSUME n \in DOMAIN s PROVE "type" \in DOMAIN c /\ c.type = s[n].type
  <2>1. "type" \in DOMAIN s[n]
    BY <1>2 DEF IsStack
  <2> QED BY <2>1 DEF with_member
<1>3. DOMAIN t = DOMAIN s /\ t = [i \in DOMAIN s |-> t[i]]
  BY <1>1, StackFacts
<1>4. \A i \in DOMAIN s : "type" \in DOMAIN t[i] /\ t[i].type = s[i].type
  BY <1>1, <1>2 DEF IsStack
<1>5. t = emplace_member(s, type, meta)
  BY DEF emplace_member
<1> QED BY <1>3, <1>4, <1>5, SameTypes

LEMMA MadeType ==
    ASSUME NEW meta
    PROVE  "type" \in DOMAIN make_qual_type(meta) /\ make_qual_type(meta).type = meta.type
BY DEF make_qual_type

LEMMA EmplaceFinalized ==
    ASSUME NEW s, IsStack(s), NEW composite, NEW meta, emplace_finalized(s, composite, meta)
    PROVE  IsStack(composite_stack_') /\ typesOf(composite_stack_') = typesOf(s)
<1>1. CASE meta.is_member
  BY <1>1, EmplaceMember DEF emplace_finalized
<1>2. CASE ~meta.is_member /\ meta.is_base_class
  <2> DEFINE n == Len(s)
             c == [s[n] EXCEPT !.bases = Append(@, [base |-> composite, offset |-> meta.member_offset])]
             t == [s EXCEPT ![n] = c]
  <2>1. composite_stack_' = t
    BY <1>2 DEF emplace_finalized
  <2>2. n \in Nat /\ DOMAIN s = 1..n
    BY StackFacts
  <2>3. DOMAIN t = DOMAIN s /\ t = [i \in DOMAIN s |-> t[i]]
    BY <2>2, StackFacts
  <2>4. \A i \in DOMAIN s : "type" \in DOMAIN t[i] /\ t[i].type = s[i].type
    BY <2>2 DEF IsStack
  <2> QED BY <2>1, <2>3, <2>4, SameTypes
<1>3. CASE ~meta.is_member /\ ~meta.is_base_class
  BY <1>3 DEF emplace_finalized
<1> QED BY <1>1, <1>2, <1>3

LEMMA EmplaceFundamental ==
    ASSUME IsStack(composite_stack_), NEW meta, emplace_fundamental(meta)
    PROVE  IsStack(composite_stack_') /\ typesOf(composite_stack_') = typesOf(composite_stack_)
BY EmplaceMember DEF emplace_fundamental

LEMMA MakeEnumMember ==
    ASSUME IsStack(composite_stack_), NEW meta, make_enum_member(meta)
    PROVE  IsStack(composite_stack_') /\ typesOf(composite_stack_') = typesOf(composite_stack_)
<1> DEFINE s == emplace_member(composite_stack_, make_qual_type(meta), meta)
           n == Len(composite_stack_)
           t == composite_stack_'
<1>1. IsStack(s) /\ typesOf(s) = typesOf(composite_stack_)
  BY EmplaceMember
<1>2. t = [s EXCEPT ![n].sizes = SubSeq(@, 1, 1), ![n].offsets = SubSeq(@, 1, 1)]
  BY DEF make_enum_member
<1> HIDE DEF s, n
<1>3. Len(s) \in Nat /\ DOMAIN s = 1..Len(s) /\ s \in [1..Len(s) -> Range(s)]
  BY <1>1, StackFacts
<1>4. DOMAIN t = DOMAIN s /\ t = [i \in DOMAIN s |-> t[i]]
  BY <1>2, <1>3
<1>5. \A i \in DOMAIN s : "type" \in DOMAIN t[i] /\ t[i].type = s[i].type
  BY <1>1, <1>2, <1>3 DEF IsStack
<1> HIDE DEF t
<1>6. IsStack(t) /\ typesOf(t) = typesOf(s)
  BY <1>1, <1>4, <1>5, SameTypes
<1> QED BY <1>1, <1>6 DEF t

LEMMA MakeComposite ==
    ASSUME IsStack(composite_stack_), NEW meta, make_composite(meta)
    PROVE  /\ IsStack(composite_stack_')
           /\ Len(composite_stack_') = Len(composite_stack_) + 1
           /\ \A i \in 1..Len(composite_stack_) : composite_stack_'[i].type = composite_stack_[i].type
           /\ composite_stack_'[Len(composite_stack_) + 1].type = meta.type
<1> DEFINE s == composite_stack_
           e == make_qual_type(meta)
           t == Append(s, e)
           S == Range(s) \cup {e}
<1>1. s \in Seq(S) /\ Len(s) \in Nat /\ DOMAIN s = 1..Len(s)
  BY StackFacts, SeqMonotonic DEF IsStack
<1>2. /\ t \in Seq(S) /\ Len(t) = Len(s) + 1 /\ t[Len(s) + 1] = e
      /\ \A i \in 1..Len(s) : t[i] = s[i]
  BY <1>1, AppendProperties
<1>3. t \in Seq(Range(t)) /\ DOMAIN t = 1..(Len(s) + 1)
  BY <1>2, SeqOfRange, LenProperties
<1>4. "type" \in DOMAIN e /\ e.type = meta.type
  BY MadeType
<1>5. \A i \in 1..(Len(s) + 1) : "type" \in DOMAIN t[i]
  <2> TAKE i \in 1..(Len(s) + 1)
  <2>1. CASE i = Len(s) + 1
    BY <2>1, <1>2, <1>4
  <2>2. CASE i \in 1..Len(s)
    BY <2>2, <1>1, <1>2 DEF IsStack
  <2> QED BY <1>1, <2>1, <2>2
<1> QED BY <1>2, <1>3, <1>4, <1>5 DEF make_composite, IsStack

(****************************************************************************)
(* The calls still to make.                                                 *)
(****************************************************************************)

\* What a call adds to the traversal, before what was still to do.
LEMMA ContinueFacts ==
    ASSUME todo \in Seq(Calls), todo # <<>>, NEW calls \in Seq(Calls), Continue(calls)
    PROVE  LET shift == Len(calls) - 1
           IN  /\ todo' \in Seq(Calls)
               /\ Len(calls) \in Nat /\ Len(todo) \in Nat
               /\ \A i \in 1..Len(calls) : i \in DOMAIN todo' /\ todo'[i] = calls[i]
               /\ \A i \in 2..Len(todo) : i + shift \in DOMAIN todo' /\ todo'[i + shift] = todo[i]
               /\ \A j \in DOMAIN todo' : j \in 1..Len(calls) \/ j - shift \in 2..Len(todo)
<1> DEFINE rest == Tail(todo)
<1>1. /\ rest \in Seq(Calls) /\ Len(rest) = Len(todo) - 1
      /\ \A i \in 1..Len(rest) : rest[i] = todo[i + 1]
  BY HeadTailProperties
<1>2. Len(calls) \in Nat /\ Len(todo) \in Nat /\ Len(rest) \in Nat
  BY <1>1, LenProperties
<1>3. /\ todo' \in Seq(Calls) /\ Len(todo') = Len(calls) + Len(rest)
      /\ \A i \in 1..Len(calls) + Len(rest) :
            todo'[i] = IF i <= Len(calls) THEN calls[i] ELSE rest[i - Len(calls)]
  BY <1>1, ConcatProperties DEF Continue
<1>4. DOMAIN todo' = 1..(Len(calls) + Len(todo) - 1)
  BY <1>1, <1>2, <1>3, LenProperties
<1>5. ASSUME NEW i \in 2..Len(todo)
      PROVE  i + (Len(calls) - 1) \in DOMAIN todo' /\ todo'[i + (Len(calls) - 1)] = todo[i]
  <2> DEFINE k == i + (Len(calls) - 1)
  <2>1. k \in 1..Len(calls) + Len(rest) /\ ~(k <= Len(calls)) /\ k - Len(calls) = i - 1
    BY <1>1, <1>2
  <2>2. i - 1 \in 1..Len(rest) /\ (i - 1) + 1 = i
    BY <1>1, <1>2
  <2>3. k \in DOMAIN todo'
    BY <1>1, <1>4, <2>1
  <2> HIDE DEF k
  <2>4. todo'[k] = rest[k - Len(calls)]
    BY <1>3, <2>1
  <2>5. todo'[k] = todo[i]
    BY <1>1, <2>1, <2>2, <2>4
  <2> QED BY <2>3, <2>5 DEF k
<1>6. \A i \in 1..Len(calls) : i \in DOMAIN todo' /\ todo'[i] = calls[i]
  BY <1>1, <1>2, <1>3, <1>4
<1>7. \A j \in DOMAIN todo' : j \in 1..Len(calls) \/ j - (Len(calls) - 1) \in 2..Len(todo)
  BY <1>2, <1>4
<1> QED BY <1>2, <1>3, <1>5, <1>6, <1>7

\* Where the calls of leave are after a step: those that were there, but for the
\* call that was made, move with the rest, and those of the new calls come first.
LEMMA LeaveFacts ==
    ASSUME todo \in Seq(Calls), todo # <<>>, NEW calls \in Seq(Calls), Continue(calls)
    PROVE  LET shift == Len(calls) - 1
           IN  /\ Len(calls) \in Nat
               /\ \A i \in toLeave : i \in Nat /\ i > 0
               /\ \A i \in toLeave : i # 1 =>
                     /\ i + shift \in toLeave' /\ todo'[i + shift] = todo[i]
                     /\ i + shift > Len(calls)
               /\ \A j \in toLeave' :
                     /\ j \in Nat
                     /\ \/ j \in 1..Len(calls) /\ todo'[j] = calls[j] /\ calls[j].call = "leave"
                        \/ /\ j > Len(calls) /\ j - shift > 1
                           /\ j - shift \in toLeave /\ todo'[j] = todo[j - shift]
               /\ \A i \in 1..Len(calls) :
                     calls[i].call = "leave" => i \in toLeave' /\ todo'[i] = calls[i]
<1> DEFINE shift == Len(calls) - 1
<1>1. /\ todo' \in Seq(Calls)
      /\ Len(calls) \in Nat /\ Len(todo) \in Nat
      /\ \A i \in 1..Len(calls) : i \in DOMAIN todo' /\ todo'[i] = calls[i]
      /\ \A i \in 2..Len(todo) : i + shift \in DOMAIN todo' /\ todo'[i + shift] = todo[i]
      /\ \A j \in DOMAIN todo' : j \in 1..Len(calls) \/ j - shift \in 2..Len(todo)
  BY ContinueFacts
<1>2. DOMAIN todo = 1..Len(todo) /\ DOMAIN todo' = 1..Len(todo') /\ Len(todo') \in Nat
  BY <1>1, LenProperties
<1>3. \A i \in toLeave : i \in 1..Len(todo) /\ todo[i].call = "leave"
  BY <1>2 DEF toLeave
<1>4. \A j \in toLeave' : j \in DOMAIN todo' /\ j \in Nat /\ todo'[j].call = "leave"
  BY <1>2 DEF toLeave
<1>5. ASSUME NEW i \in toLeave, i # 1
      PROVE  /\ i + shift \in toLeave' /\ todo'[i + shift] = todo[i]
             /\ i + shift > Len(calls)
  <2>1. i \in 2..Len(todo) /\ todo[i].call = "leave"
    BY <1>1, <1>3, <1>5
  <2>2. i + shift \in DOMAIN todo' /\ todo'[i + shift] = todo[i]
    BY <1>1, <2>1
  <2>3. i + shift > Len(calls)
    BY <1>1, <2>1
  <2> QED BY <2>1, <2>2, <2>3 DEF toLeave
<1>6. ASSUME NEW j \in toLeave', j \notin 1..Len(calls)
      PROVE  /\ j > Len(calls) /\ j - shift > 1
             /\ j - shift \in toLeave /\ todo'[j] = todo[j - shift]
  <2> DEFINE i == j - shift
  <2>1. i \in 2..Len(todo) /\ i + shift = j /\ j > Len(calls) /\ i > 1
    BY <1>1, <1>4, <1>6
  <2>2. todo'[i + shift] = todo[i]
    BY <1>1, <2>1
  <2>3. todo'[j] = todo[i] /\ todo[i].call = "leave"
    BY <1>4, <2>1, <2>2
  <2>4. i \in toLeave
    BY <1>2, <2>1, <2>3 DEF toLeave
  <2> QED BY <2>1, <2>3, <2>4
<1>7. \A j \in toLeave' : j \in 1..Len(calls) => todo'[j] = calls[j] /\ calls[j].call = "leave"
  BY <1>1, <1>4
<1>8. \A i \in 1..Len(calls) : calls[i].call = "leave" => i \in toLeave' /\ todo'[i] = calls[i]
  BY <1>1 DEF toLeave
<1> QED BY <1>1, <1>3, <1>4, <1>5, <1>6, <1>7, <1>8

Traversals == {traverse(n) : n \in Node}

LEMMA TraversalsFacts == Traversals \subseteq Calls /\ \A c \in Traversals : c.call = "traverse"
BY DEF Traversals, Calls, traverse

\* What the visit functions of a node hand on is in the graph.
LEMMA GraphFacts ==
    ASSUME Typed, At("traverse")
    PROVE  /\ node \in Node /\ tag \in Tag /\ todo[1] = Head(todo)
           /\ traverse_base(node) \in Seq(Traversals)
           /\ traverse_elements(node) \in Seq(Traversals)
           /\ traverse_elements(node) \o traverse_base(node) \in Seq(Traversals)
           /\ traverse_base(node) \o traverse_elements(node) \in Seq(Traversals)
<1>1. todo # <<>> /\ Head(todo) \in Calls /\ todo[1] = Head(todo)
  BY HeadTailProperties DEF Typed, At
<1>2. node \in Node
  BY <1>1 DEF node, Calls
<1>3. /\ graph.tag \in [Node -> Tag] /\ graph.base \in [Node -> Node \cup {NoNode}]
      /\ graph.elements \in [Node -> Seq(Node)]
  BY GraphsAssumption DEF Typed
<1>4. traverse_base(node) \in Seq(Traversals)
  <2>1. CASE graph.base[node] = NoNode
    BY <2>1, EmptySeq DEF traverse_base
  <2>2. CASE graph.base[node] # NoNode
    <3>1. traverse(graph.base[node]) \in Traversals
      BY <1>2, <1>3, <2>2 DEF Traversals
    <3> QED BY <2>2, <3>1 DEF traverse_base
  <2> QED BY <2>1, <2>2
<1>5. traverse_elements(node) \in Seq(Traversals)
  <2>1. graph.elements[node] \in Seq(Node)
    BY <1>2, <1>3
  <2>2. /\ DOMAIN graph.elements[node] = 1..Len(graph.elements[node])
        /\ Len(graph.elements[node]) \in Nat
        /\ \A i \in 1..Len(graph.elements[node]) : graph.elements[node][i] \in Node
    BY <2>1, LenProperties
  <2>3. \A i \in 1..Len(graph.elements[node]) : traverse(graph.elements[node][i]) \in Traversals
    BY <2>2 DEF Traversals
  <2> QED BY <2>2, <2>3 DEF traverse_elements
<1> QED BY <1>1, <1>2, <1>3, <1>4, <1>5, ConcatProperties DEF tag

(****************************************************************************)
(* How each kind of step keeps the stacks in agreement.                     *)
(****************************************************************************)

\* The parts of StacksAgree.
LEMMA AgreementParts ==
    ASSUME Typed, StacksAgree
    PROVE  /\ DOMAIN open = 1..Len(stack_) /\ Len(stack_) \in Nat /\ Len(composite_stack_) = Len(stack_)
           /\ \A i \in 1..Len(stack_) : open[i] = stack_[i].type /\ composite_stack_[i].type = open[i]
           /\ visited_dinodes_ = {open[i] : i \in DOMAIN open}
           /\ \A i, j \in DOMAIN open : open[i] = open[j] => i = j
           /\ visited_dinodes_ = {todo[i].node : i \in toLeave}
           /\ \A i, j \in toLeave : \A k, l \in DOMAIN open :
                 i < j /\ open[k] = todo[i].node /\ open[l] = todo[j].node => l < k
<1>1. /\ visited_dinodes_ = {open[i] : i \in DOMAIN open}
      /\ \A i, j \in DOMAIN open : open[i] = open[j] => i = j
      /\ visited_dinodes_ = {todo[i].node : i \in toLeave}
      /\ \A i, j \in toLeave : \A k, l \in DOMAIN open :
            i < j /\ open[k] = todo[i].node /\ open[l] = todo[j].node => l < k
      /\ open = [i \in DOMAIN composite_stack_ |-> composite_stack_[i].type]
  BY DEF StacksAgree
<1>2. /\ DOMAIN stack_ = 1..Len(stack_) /\ Len(stack_) \in Nat
      /\ DOMAIN composite_stack_ = 1..Len(composite_stack_) /\ Len(composite_stack_) \in Nat
  BY LenProperties, StackFacts DEF Typed
<1>3. DOMAIN open = 1..Len(stack_) /\ \A i \in 1..Len(stack_) : open[i] = stack_[i].type
  BY <1>2 DEF open
<1>4. DOMAIN open = 1..Len(composite_stack_)
      /\ \A i \in 1..Len(composite_stack_) : open[i] = composite_stack_[i].type
  BY <1>1, <1>2
<1>5. Len(composite_stack_) = Len(stack_)
  <2>1. 1..Len(composite_stack_) = 1..Len(stack_)
    BY <1>3, <1>4
  <2>2. \A m, n \in Nat : 1..m = 1..n => m = n
    <3> SUFFICES ASSUME NEW m \in Nat, NEW n \in Nat, 1..m = 1..n
                 PROVE  ~(m < n) /\ ~(n < m)
      OBVIOUS
    <3>1. m < n => n \in 1..n /\ n \notin 1..m
      OBVIOUS
    <3>2. n < m => m \in 1..m /\ m \notin 1..n
      OBVIOUS
    <3> QED BY <3>1, <3>2
  <2> QED BY <1>2, <2>1, <2>2
<1> QED BY <1>1, <1>2, <1>3, <1>4, <1>5

\* A visit function that hands on part of the graph, or nothing.
LEMMA WalkOn ==
    ASSUME Typed, StacksAgree, At("traverse"), NEW calls \in Seq(Traversals), Continue(calls),
           UNCHANGED <<visited_dinodes_, stack_>>,
           IsStack(composite_stack_'), typesOf(composite_stack_') = typesOf(composite_stack_)
    PROVE  todo' \in Seq(Calls) /\ StacksAgree'
<1> DEFINE shift == Len(calls) - 1
<1>1. calls \in Seq(Calls) /\ \A i \in 1..Len(calls) : calls[i].call = "traverse"
  BY TraversalsFacts, SeqMonotonic, ElementOfSeq
<1>2. todo \in Seq(Calls) /\ todo # <<>> /\ todo' \in Seq(Calls)
  BY <1>1, ContinueFacts DEF Typed, At
<1>3. /\ Len(calls) \in Nat /\ shift \in Int
      /\ \A i \in toLeave : i \in Nat
      /\ \A i \in toLeave : i # 1 => i + shift \in toLeave' /\ todo'[i + shift] = todo[i]
      /\ \A j \in toLeave' : j \in Nat /\ j - shift \in toLeave /\ todo'[j] = todo[j - shift]
  BY <1>1, <1>2, LeaveFacts
<1>4. 1 \notin toLeave
  BY GraphFacts DEF toLeave, At
<1> HIDE DEF shift
<1>5. open' = open /\ visited_dinodes_' = visited_dinodes_
  BY DEF open
<1>6. (open = [i \in DOMAIN composite_stack_ |-> composite_stack_[i].type])'
  BY <1>5 DEF StacksAgree, typesOf
<1>7. (visited_dinodes_ = {open[i] : i \in DOMAIN open})'
  BY <1>5, AgreementParts
<1>8. (\A i, j \in DOMAIN open : open[i] = open[j] => i = j)'
  BY <1>5, AgreementParts
<1>9. (visited_dinodes_ = {todo[i].node : i \in toLeave})'
  <2>1. {todo'[j].node : j \in toLeave'} \subseteq {todo[i].node : i \in toLeave}
    BY <1>3
  <2>2. ASSUME NEW i \in toLeave PROVE todo[i].node \in {todo'[j].node : j \in toLeave'}
    BY <1>3, <1>4
  <2>3. {todo'[j].node : j \in toLeave'} = {todo[i].node : i \in toLeave}
    BY <2>1, <2>2
  <2>4. visited_dinodes_ = {todo[i].node : i \in toLeave}
    BY AgreementParts
  <2> QED BY <1>5, <2>3, <2>4
<1>10. (\A i, j \in toLeave : \A k, l \in DOMAIN open :
           i < j /\ open[k] = todo[i].node /\ open[l] = todo[j].node => l < k)'
  <2> SUFFICES ASSUME NEW i \in toLeave', NEW j \in toLeave', NEW k \in DOMAIN open, NEW l \in DOMAIN open,
                      i < j, open[k] = todo'[i].node, open[l] = todo'[j].node
               PROVE  l < k
    BY <1>5
  <2>1. i - shift < j - shift
    BY <1>3
  <2>2. /\ i - shift \in toLeave /\ open[k] = todo[i - shift].node
        /\ j - shift \in toLeave /\ open[l] = todo[j - shift].node
    BY <1>3
  <2>3. \A m, o \in toLeave : \A p, q \in DOMAIN open :
           m < o /\ open[p] = todo[m].node /\ open[q] = todo[o].node => q < p
    BY AgreementParts
  <2> QED BY <2>1, <2>2, <2>3
<1> QED BY <1>2, <1>6, <1>7, <1>8, <1>9, <1>10 DEF StacksAgree

\* A composite is opened by everyone, and is to be left before the others.
LEMMA OpenComposite ==
    ASSUME Typed, StacksAgree, At("traverse"), traverseComposite, visitCompositeType
    PROVE  /\ todo' \in Seq(Calls) /\ StacksAgree'
           /\ stack_' \in Seq(MetaData) /\ IsStack(composite_stack_')
<1> DEFINE content == traverse_base(node) \o traverse_elements(node)
           calls == content \o <<leave(node)>>
           c == Len(calls)
           shift == c - 1
           n == Len(stack_)
           meta == typed(current_, node)
<1>1. node \in Node /\ content \in Seq(Traversals) /\ todo[1] = Head(todo)
  BY GraphFacts
<1>2. /\ calls \in Seq(Calls) /\ c \in Nat /\ c \in 1..c /\ calls[c] = leave(node)
      /\ \A i \in 1..(c - 1) : calls[i].call = "traverse"
  <2>1. content \in Seq(Calls) /\ \A i \in 1..Len(content) : content[i].call = "traverse"
    BY <1>1, TraversalsFacts, SeqMonotonic, ElementOfSeq
  <2>2. <<leave(node)>> \in Seq(Calls) /\ Len(<<leave(node)>>) = 1
    BY <1>1 DEF Calls, leave
  <2> HIDE DEF content
  <2>3. /\ calls \in Seq(Calls) /\ c = Len(content) + 1 /\ Len(content) \in Nat
        /\ \A i \in 1..(Len(content) + 1) :
              calls[i] = IF i <= Len(content) THEN content[i] ELSE <<leave(node)>>[i - Len(content)]
    BY <2>1, <2>2, ConcatProperties, LenProperties
  <2>4. calls[c] = leave(node)
    BY <2>3
  <2>5. \A i \in 1..(c - 1) : calls[i].call = "traverse"
    BY <2>1, <2>3
  <2> QED BY <2>3, <2>4, <2>5
<1> HIDE DEF content
<1>3. Continue(calls)
  BY DEF traverseComposite, content
<1> HIDE DEF calls
<1>4. todo \in Seq(Calls) /\ todo # <<>> /\ todo' \in Seq(Calls)
  BY <1>2, <1>3, ContinueFacts DEF Typed, At
<1>5. /\ shift \in Int
      /\ \A i \in toLeave : i \in Nat
      /\ \A i \in toLeave : i # 1 =>
            i + shift \in toLeave' /\ todo'[i + shift] = todo[i] /\ i + shift > c
      /\ \A j \in toLeave' : j # c =>
            j \in Nat /\ j > c /\ j - shift \in toLeave /\ todo'[j] = todo[j - shift]
      /\ c \in toLeave' /\ todo'[c] = leave(node)
  <2>1. /\ \A i \in toLeave : i \in Nat
        /\ \A i \in toLeave : i # 1 =>
              i + shift \in toLeave' /\ todo'[i + shift] = todo[i] /\ i + shift > c
        /\ \A j \in toLeave' :
              /\ j \in Nat
              /\ \/ j \in 1..c /\ calls[j].call = "leave"
                 \/ j > c /\ j - shift \in toLeave /\ todo'[j] = todo[j - shift]
        /\ \A i \in 1..c : calls[i].call = "leave" => i \in toLeave' /\ todo'[i] = calls[i]
    BY <1>2, <1>3, <1>4, LeaveFacts
  <2>2. calls[c].call = "leave"
    BY <1>2 DEF leave
  <2>3. \A j \in 1..c : j # c => calls[j].call # "leave"
    BY <1>2
  <2> QED BY <1>2, <2>1, <2>2, <2>3
<1>6. 1 \notin toLeave /\ leave(node).node = node
  BY <1>1 DEF toLeave, At, leave
<1> HIDE DEF shift, c
<1>7. meta \in MetaData /\ meta.type = node
  BY <1>1 DEF typed, Typed, MetaData
<1>8. /\ n \in Nat /\ stack_' \in Seq(MetaData) /\ Len(stack_') = n + 1
      /\ \A i \in 1..n : stack_'[i] = stack_[i]
      /\ stack_'[n + 1] = meta
      /\ DOMAIN stack_' = 1..(n + 1)
  BY <1>7, AppendProperties, LenProperties DEF visitCompositeType, Typed
<1>9. /\ DOMAIN open = 1..n /\ DOMAIN open' = 1..(n + 1)
      /\ \A i \in 1..n : open'[i] = open[i]
      /\ open'[n + 1] = node
  BY <1>7, <1>8, AgreementParts DEF open
<1>10. /\ IsStack(composite_stack_')
       /\ DOMAIN composite_stack_' = 1..(n + 1)
       /\ \A i \in 1..(n + 1) : composite_stack_'[i].type = open'[i]
  <2>1. /\ IsStack(composite_stack_') /\ Len(composite_stack_') = n + 1
        /\ \A i \in 1..n : composite_stack_'[i].type = composite_stack_[i].type
        /\ composite_stack_'[n + 1].type = meta.type
    BY AgreementParts, MakeComposite DEF Typed, visitCompositeType
  <2>2. DOMAIN composite_stack_' = 1..(n + 1)
    BY <2>1, StackFacts
  <2>3. \A i \in 1..n : composite_stack_[i].type = open'[i]
    BY <1>9, AgreementParts
  <2> QED BY <1>7, <1>8, <1>9, <2>1, <2>2, <2>3
<1>11. visited_dinodes_' = visited_dinodes_ \cup {node} /\ node \notin visited_dinodes_
  BY DEF traverseComposite, recurring
<1> HIDE DEF meta, n
<1>12. (open = [i \in DOMAIN composite_stack_ |-> composite_stack_[i].type])'
  BY <1>9, <1>10 DEF open
<1>13. (visited_dinodes_ = {open[i] : i \in DOMAIN open})'
  <2>1. visited_dinodes_ = {open[i] : i \in 1..n}
    BY <1>9, AgreementParts
  <2> QED BY <1>8, <1>9, <1>11, <2>1
<1>14. \A i \in 1..n : open[i] \in visited_dinodes_ /\ open[i] # node
  BY <1>9, <1>11, AgreementParts
<1>15. (\A i, j \in DOMAIN open : open[i] = open[j] => i = j)'
  <2> SUFFICES ASSUME NEW i \in 1..(n + 1), NEW j \in 1..(n + 1), open'[i] = open'[j]
               PROVE  i = j
    BY <1>9
  <2>1. CASE i \in 1..n /\ j \in 1..n
    BY <2>1, <1>9, AgreementParts
  <2>2. CASE i = n + 1 /\ j \in 1..n
    BY <2>2, <1>9, <1>14
  <2>3. CASE j = n + 1 /\ i \in 1..n
    BY <2>3, <1>9, <1>14
  <2> QED BY <1>8, <2>1, <2>2, <2>3
<1>16. (visited_dinodes_ = {todo[i].node : i \in toLeave})'
  <2>1. visited_dinodes_ = {todo[i].node : i \in toLeave}
    BY AgreementParts
  <2>2. ASSUME NEW j \in toLeave' PROVE todo'[j].node \in visited_dinodes_ \cup {node}
    BY <1>5, <1>6, <2>1
  <2>3. ASSUME NEW i \in toLeave PROVE todo[i].node \in {todo'[j].node : j \in toLeave'}
    BY <1>5, <1>6
  <2>4. node \in {todo'[j].node : j \in toLeave'}
    BY <1>5, <1>6
  <2> QED BY <1>11, <2>1, <2>2, <2>3, <2>4
<1>17. (\A i, j \in toLeave : \A k, l \in DOMAIN open :
           i < j /\ open[k] = todo[i].node /\ open[l] = todo[j].node => l < k)'
  <2> SUFFICES ASSUME NEW i \in toLeave', NEW j \in toLeave', NEW k \in 1..(n + 1), NEW l \in 1..(n + 1),
                      i < j, open'[k] = todo'[i].node, open'[l] = todo'[j].node
               PROVE  l < k
    BY <1>9
  <2>0. \A m \in toLeave : todo[m].node \in visited_dinodes_
    BY AgreementParts
  <2>1. j # c
    BY <1>2, <1>5
  <2>2. l \in 1..n /\ open[l] = todo[j - shift].node /\ j - shift \in toLeave
    BY <1>5, <1>8, <1>9, <1>11, <2>0, <2>1
  <2>3. CASE i = c
    <3>1. open'[k] = node
      BY <1>5, <1>6, <2>3
    <3>2. k = n + 1
      BY <1>8, <1>9, <1>14, <3>1
    <3> QED BY <1>8, <2>2, <3>2
  <2>4. CASE i # c
    <3>1. k \in 1..n /\ open[k] = todo[i - shift].node /\ i - shift \in toLeave
      BY <1>5, <1>8, <1>9, <1>11, <2>0, <2>4
    <3>2. i - shift < j - shift
      BY <1>5, <2>1, <2>4
    <3> QED BY <1>9, <2>2, <3>1, <3>2, AgreementParts
  <2> QED BY <2>3, <2>4
<1> QED BY <1>4, <1>8, <1>10, <1>12, <1>13, <1>15, <1>16, <1>17 DEF StacksAgree

LEMMA Front ==
    ASSUME NEW S, NEW s \in Seq(S), Len(s) > 0
    PROVE  LET t == SubSeq(s, 1, Len(s) - 1)
           IN  /\ t \in Seq(S) /\ DOMAIN t = 1..(Len(s) - 1)
               /\ \A i \in 1..(Len(s) - 1) : t[i] = s[i]
<1> DEFINE n == Len(s) - 1
           t == SubSeq(s, 1, n)
<1>1. n \in Nat /\ \A i \in 1..n : s[i] \in S
  BY LenProperties
<1>2. t \in Seq(S) /\ Len(t) = n /\ \A i \in 1..n : t[i] = s[i]
  <2> HIDE DEF n
  <2>1. /\ SubSeq(s, 1, n) \in Seq(S)
        /\ Len(SubSeq(s, 1, n)) = IF 1 <= n THEN n - 1 + 1 ELSE 0
        /\ \A i \in 1..(n - 1 + 1) : SubSeq(s, 1, n)[i] = s[1 + i - 1]
    BY <1>1, SubSeqProperties
  <2>2. n - 1 + 1 = n /\ (1 <= n \/ n = 0) /\ \A i \in 1..n : 1 + i - 1 = i
    BY <1>1
  <2> QED BY <2>1, <2>2
<1>3. DOMAIN t = 1..n
  BY <1>2, LenProperties
<1> QED BY <1>2, <1>3

LEMMA PopStack ==
    ASSUME NEW s, IsStack(s), Len(s) > 0
    PROVE  LET t == SubSeq(s, 1, Len(s) - 1)
           IN  /\ IsStack(t) /\ DOMAIN t = 1..(Len(s) - 1)
               /\ \A i \in 1..(Len(s) - 1) : t[i] = s[i]
<1> DEFINE t == SubSeq(s, 1, Len(s) - 1)
<1>1. /\ t \in Seq(Range(s)) /\ DOMAIN t = 1..(Len(s) - 1)
      /\ \A i \in 1..(Len(s) - 1) : t[i] = s[i]
  BY Front DEF IsStack
<1>2. t \in Seq(Range(t))
  BY <1>1, SeqOfRange
<1>3. \A i \in DOMAIN t : "type" \in DOMAIN t[i]
  BY <1>1, StackFacts DEF IsStack
<1> QED BY <1>1, <1>2, <1>3 DEF IsStack

\* The composite that is left is the one opened last, for everyone.
LEMMA CloseComposite ==
    ASSUME Typed, StacksAgree, leaveCompositeType
    PROVE  /\ todo' \in Seq(Calls) /\ StacksAgree'
           /\ stack_' \in Seq(MetaData) /\ IsStack(composite_stack_')
<1> DEFINE n == Len(stack_)
<1>1. /\ todo \in Seq(Calls) /\ todo # <<>> /\ <<>> \in Seq(Calls) /\ Len(<<>>) = 0
      /\ Continue(<<>>) /\ visited_dinodes_' = visited_dinodes_ \ {node}
  BY DEF leaveCompositeType, leaveComposite, At, Typed
<1>2. todo' \in Seq(Calls)
  BY <1>1, ContinueFacts
<1>3. /\ \A i \in toLeave : i \in Nat /\ i > 0
      /\ \A i \in toLeave : i # 1 => i - 1 \in toLeave' /\ todo'[i - 1] = todo[i]
      /\ \A j \in toLeave' : j \in Nat /\ j + 1 > 1 /\ j + 1 \in toLeave /\ todo'[j] = todo[j + 1]
  <2>1. /\ \A i \in toLeave : i \in Nat /\ i > 0
        /\ \A i \in toLeave : i # 1 =>
              i + (0 - 1) \in toLeave' /\ todo'[i + (0 - 1)] = todo[i]
        /\ \A j \in toLeave' :
              /\ j \in Nat
              /\ \/ j \in 1..0
                 \/ j - (0 - 1) > 1 /\ j - (0 - 1) \in toLeave /\ todo'[j] = todo[j - (0 - 1)]
    BY <1>1, LeaveFacts
  <2>2. \A i \in Nat : i + (0 - 1) = i - 1 /\ i - (0 - 1) = i + 1 /\ i \notin 1..0
    OBVIOUS
  <2> QED BY <2>1, <2>2
<1>4. 1 \in toLeave /\ todo[1].node = node
  <2>1. todo[1] = Head(todo) /\ 1 \in DOMAIN todo
    BY <1>1, LenProperties, EmptySeq
  <2> QED BY <2>1 DEF leaveCompositeType, At, toLeave, node
<1>5. n \in Nat /\ n > 0 /\ open[n] = node
  <2>1. node \in visited_dinodes_
    BY <1>4, AgreementParts
  <2>2. PICK k \in 1..n : open[k] = node
    BY <2>1, AgreementParts
  <2>3. n \in Nat /\ n > 0 /\ n \in 1..n
    BY <2>2, AgreementParts
  <2>4. open[n] \in visited_dinodes_
    BY <2>3, AgreementParts
  <2>5. PICK j \in toLeave : open[n] = todo[j].node
    BY <2>4, AgreementParts
  <2>6. ASSUME j # 1 PROVE FALSE
    <3>1. 1 < j
      BY <1>3, <2>6
    <3>2. n < k
      BY <1>4, <2>2, <2>3, <2>5, <3>1, AgreementParts
    <3> QED BY <2>2, <2>3, <3>2
  <2> QED BY <1>4, <2>3, <2>5, <2>6
<1>6. /\ stack_' \in Seq(MetaData) /\ DOMAIN stack_' = 1..(n - 1)
      /\ \A i \in 1..(n - 1) : stack_'[i] = stack_[i]
  BY <1>5, Front DEF leaveCompositeType, Typed
<1>7. /\ DOMAIN open = 1..n /\ DOMAIN open' = 1..(n - 1)
      /\ \A i \in 1..(n - 1) : open'[i] = open[i]
  BY <1>5, <1>6, AgreementParts DEF open
<1>8. /\ IsStack(composite_stack_') /\ DOMAIN composite_stack_' = 1..(n - 1)
      /\ \A i \in 1..(n - 1) : composite_stack_'[i].type = open'[i]
  <2> DEFINE around == SubSeq(composite_stack_, 1, n - 1)
  <2>1. Len(composite_stack_) = n
    BY AgreementParts
  <2>2. /\ IsStack(around) /\ DOMAIN around = 1..(n - 1)
        /\ \A i \in 1..(n - 1) : around[i] = composite_stack_[i]
    BY <1>5, <2>1, PopStack DEF Typed
  <2>3. IsStack(composite_stack_') /\ typesOf(composite_stack_') = typesOf(around)
    <3>1. emplace_finalized(around, composite_stack_[n], stack_[n])
      BY <2>1 DEF leaveCompositeType, finalize_composite
    <3> QED BY <2>2, <3>1, EmplaceFinalized
  <2>4. /\ DOMAIN composite_stack_' = 1..(n - 1)
        /\ \A i \in 1..(n - 1) : composite_stack_'[i].type = around[i].type
    BY <2>2, <2>3 DEF typesOf
  <2> QED BY <1>5, <1>7, <2>2, <2>3, <2>4, AgreementParts
<1> HIDE DEF n
<1>9. (open = [i \in DOMAIN composite_stack_ |-> composite_stack_[i].type])'
  BY <1>7, <1>8 DEF open
<1>10. \A i \in 1..(n - 1) : open[i] # node
  BY <1>5, <1>7, AgreementParts
<1>11. (visited_dinodes_ = {open[i] : i \in DOMAIN open})'
  <2>1. visited_dinodes_ = {open[i] : i \in 1..n}
    BY <1>7, AgreementParts
  <2>2. visited_dinodes_ \ {node} = {open[i] : i \in 1..(n - 1)}
    BY <1>5, <1>10, <2>1
  <2> QED BY <1>1, <1>7, <2>2
<1>12. (\A i, j \in DOMAIN open : open[i] = open[j] => i = j)'
  BY <1>5, <1>7, AgreementParts
<1>13. \A i \in toLeave : i # 1 => todo[i].node # node
  <2> SUFFICES ASSUME NEW i \in toLeave, i # 1, todo[i].node = node PROVE FALSE
    OBVIOUS
  <2>1. 1 < i
    BY <1>3
  <2>2. n < n
    BY <1>4, <1>5, <1>7, <2>1, AgreementParts
  <2> QED BY <1>5, <2>2
<1>14. (visited_dinodes_ = {todo[i].node : i \in toLeave})'
  <2>1. visited_dinodes_ = {todo[i].node : i \in toLeave}
    BY AgreementParts
  <2>2. ASSUME NEW j \in toLeave' PROVE todo'[j].node \in visited_dinodes_ \ {node}
    BY <1>3, <1>13, <2>1
  <2>3. ASSUME NEW i \in toLeave, todo[i].node # node
        PROVE  todo[i].node \in {todo'[j].node : j \in toLeave'}
    BY <1>3, <1>4, <2>3
  <2>4. {todo'[j].node : j \in toLeave'} = visited_dinodes_ \ {node}
    BY <2>1, <2>2, <2>3
  <2> QED BY <1>1, <2>4
<1>15. (\A i, j \in toLeave : \A k, l \in DOMAIN open :
           i < j /\ open[k] = todo[i].node /\ open[l] = todo[j].node => l < k)'
  <2> SUFFICES ASSUME NEW i \in toLeave', NEW j \in toLeave', NEW k \in 1..(n - 1), NEW l \in 1..(n - 1),
                      i < j, open'[k] = todo'[i].node, open'[l] = todo'[j].node
               PROVE  l < k
    BY <1>7
  <2>1. /\ i + 1 \in toLeave /\ j + 1 \in toLeave /\ i + 1 < j + 1
        /\ open[k] = todo[i + 1].node /\ open[l] = todo[j + 1].node
    BY <1>3, <1>7
  <2>2. k \in DOMAIN open /\ l \in DOMAIN open
    BY <1>5, <1>7
  <2> QED BY <2>1, <2>2, AgreementParts
<1> QED BY <1>2, <1>6, <1>8, <1>9, <1>11, <1>12, <1>14, <1>15 DEF StacksAgree

(****************************************************************************)
(* The invariant.                                                           *)
(****************************************************************************)

LEMMA VisitTypes ==
    ASSUME Typed, At("traverse")
    PROVE  /\ visitDerivedType(current_, node) \in MetaData
           /\ tag \in Array => visitArrayType(current_, node) \in MetaData
           /\ visitSubrange(current_, node) \in MetaData
           /\ visitEnumerator(current_, node) \in MetaData
           /\ NoMeta \in MetaData
<1>1. node \in Node /\ graph.tag[node] \in Tag /\ tag = graph.tag[node] /\ current_ \in MetaData
  BY GraphFacts DEF tag, Typed
<1>2. /\ current_.typedef_names \in Seq(Node) /\ current_.dwarf_tags \in Seq(Tag)
      /\ current_.arrays \in Seq(Seq(Node))
  BY <1>1 DEF MetaData
<1>3. visitDerivedType(current_, node) \in MetaData
  <2>1. Append(current_.typedef_names, node) \in Seq(Node)
    BY <1>1, <1>2
  <2>2. /\ "pointer" \in Tag /\ Append(current_.dwarf_tags, "pointer") \in Seq(Tag)
        /\ Append(current_.dwarf_tags, graph.tag[node]) \in Seq(Tag)
    BY <1>1, <1>2 DEF Tag, Derived
  <2> QED BY <1>1, <2>1, <2>2 DEF visitDerivedType, make_member, MetaData
<1>4. ASSUME tag \in Array PROVE visitArrayType(current_, node) \in MetaData
  <2> DEFINE tags == CASE graph.tag[node] = "associated" -> <<"array", "pointer">>
                       [] OTHER -> <<graph.tag[node]>>
  <2>1. tags \in Seq(Tag)
    <3>1. "pointer" \in Tag /\ "array" \in Tag
      BY DEF Tag, Derived, Array
    <3> QED BY <1>1, <3>1
  <2> HIDE DEF tags
  <2>2. current_.dwarf_tags \o tags \in Seq(Tag)
    BY <1>2, <2>1, ConcatProperties
  <2>3. Append(current_.arrays, <<>>) \in Seq(Seq(Node))
    BY <1>2
  <2>4. visitArrayType(current_, node) =
          [current_ EXCEPT !.dwarf_tags = @ \o tags, !.arrays = Append(@, <<>>)]
    BY DEF visitArrayType, tags
  <2> QED BY <1>1, <2>2, <2>3, <2>4 DEF MetaData
<1>5. visitSubrange(current_, node) \in MetaData
  <2> DEFINE a == current_.arrays
             b == [a EXCEPT ![Len(a)] = Append(@, node)]
  <2>1. b \in Seq(Seq(Node))
    <3>1. Len(a) \in Nat /\ DOMAIN a = 1..Len(a)
      BY <1>2, LenProperties
    <3>2. CASE Len(a) \in 1..Len(a)
      <4>1. a[Len(a)] \in Seq(Node)
        BY <1>2, <3>2, ElementOfSeq
      <4>2. Append(a[Len(a)], node) \in Seq(Node)
        BY <1>1, <4>1
      <4> QED BY <1>2, <3>2, <4>2, ExceptSeq
    <3>3. CASE Len(a) \notin 1..Len(a)
      <4>1. b = a
        BY <1>2, <3>1, <3>3
      <4> QED BY <1>2, <4>1
    <3> QED BY <3>2, <3>3
  <2> HIDE DEF b
  <2>2. visitSubrange(current_, node) \in {current_, [current_ EXCEPT !.arrays = b]}
    BY <1>1 DEF visitSubrange, b, MetaData
  <2> QED BY <1>1, <2>1, <2>2 DEF MetaData
<1>6. visitEnumerator(current_, node) \in MetaData
  BY <1>1 DEF visitEnumerator, MetaData, Typed
<1>7. NoMeta \in MetaData
  BY DEF NoMeta, MetaData
<1> QED BY <1>3, <1>4, <1>5, <1>6, <1>7

\* A visit function that leaves the stacks alone.
WalksOn ==
    /\ At("traverse")
    /\ \E calls \in Seq(Traversals) : Continue(calls)
    /\ UNCHANGED <<graph, visited_dinodes_, stack_>>
    /\ current_' \in MetaData
    /\ enum_data_' \in [is_enum : BOOLEAN, enum_base : Node \cup {NoNode}]
    /\ IsStack(composite_stack_') /\ typesOf(composite_stack_') = typesOf(composite_stack_)

LEMMA WalksOnStep ==
    ASSUME Typed, StacksAgree, WalksOn
    PROVE  Typed' /\ StacksAgree'
<1>1. PICK calls \in Seq(Traversals) : Continue(calls)
  BY DEF WalksOn
<1>2. todo' \in Seq(Calls) /\ StacksAgree'
  BY <1>1, WalkOn DEF WalksOn
<1> QED BY <1>2 DEF WalksOn, Typed

LEMMA TraverseWalksOn ==
    ASSUME Typed,
           \/ traverseBasicType \/ traverseLeaf \/ traverseDerivedType \/ traverseTypedPointer
           \/ traverseArrayType \/ traverseSubrange \/ traverseEnumerator
           \/ traverseRecurringCompositeType
    PROVE  WalksOn
<1>1. At("traverse")
  BY DEF traverseBasicType, traverseLeaf, traverseDerivedType, traverseTypedPointer,
     traverseArrayType, traverseSubrange, traverseEnumerator, traverseRecurringCompositeType
<1>2. /\ node \in Node /\ <<>> \in Seq(Traversals)
      /\ traverse_base(node) \in Seq(Traversals)
      /\ traverse_elements(node) \o traverse_base(node) \in Seq(Traversals)
  BY <1>1, GraphFacts
<1>3. /\ visitDerivedType(current_, node) \in MetaData
      /\ tag \in Array => visitArrayType(current_, node) \in MetaData
      /\ visitSubrange(current_, node) \in MetaData
      /\ visitEnumerator(current_, node) \in MetaData
      /\ NoMeta \in MetaData
  BY <1>1, VisitTypes
<1>4. /\ enum_data_ \in [is_enum : BOOLEAN, enum_base : Node \cup {NoNode}]
      /\ NoEnum \in [is_enum : BOOLEAN, enum_base : Node \cup {NoNode}]
      /\ [enum_data_ EXCEPT !.enum_base = node] \in [is_enum : BOOLEAN, enum_base : Node \cup {NoNode}]
      /\ IsStack(composite_stack_)
  BY <1>2 DEF Typed, NoEnum
<1>5. CASE traverseBasicType
  <2>1. IsStack(composite_stack_') /\ typesOf(composite_stack_') = typesOf(composite_stack_)
    BY <1>4, <1>5, EmplaceFundamental DEF traverseBasicType, builder
  <2> QED BY <1>1, <1>2, <1>3, <1>4, <1>5, <2>1 DEF traverseBasicType, Skip, WalksOn
<1>6. CASE traverseLeaf
  <2>1. IsStack(composite_stack_') /\ typesOf(composite_stack_') = typesOf(composite_stack_)
    BY <1>4, <1>6, EmplaceFundamental DEF traverseLeaf
  <2> QED BY <1>1, <1>2, <1>3, <1>4, <1>6, <2>1 DEF traverseLeaf, Skip, WalksOn
<1>7. CASE traverseDerivedType
  BY <1>1, <1>2, <1>3, <1>4, <1>7 DEF traverseDerivedType, traverseDerived, builder, WalksOn
<1>8. CASE traverseTypedPointer
  <2>1. IsStack(composite_stack_') /\ typesOf(composite_stack_') = typesOf(composite_stack_)
    BY <1>4, <1>8, EmplaceFundamental DEF traverseTypedPointer
  <2> QED BY <1>1, <1>2, <1>3, <1>4, <1>8, <2>1 DEF traverseTypedPointer, traverseDerived, WalksOn
<1>9. CASE traverseArrayType
  BY <1>1, <1>2, <1>3, <1>4, <1>9 DEF traverseArrayType, traverseArray, builder, WalksOn
<1>10. CASE traverseSubrange
  BY <1>1, <1>2, <1>3, <1>4, <1>10 DEF traverseSubrange, Skip, builder, WalksOn
<1>11. CASE traverseEnumerator
  <2>1. IsStack(composite_stack_') /\ typesOf(composite_stack_') = typesOf(composite_stack_)
    BY <1>4, <1>11, MakeEnumMember DEF traverseEnumerator
  <2> QED BY <1>1, <1>2, <1>3, <1>4, <1>11, <2>1 DEF traverseEnumerator, Skip, WalksOn
<1>12. CASE traverseRecurringCompositeType
  <2>1. IsStack(composite_stack_') /\ typesOf(composite_stack_') = typesOf(composite_stack_)
    BY <1>4, <1>12, EmplaceFinalized DEF traverseRecurringCompositeType, make_recurring
  <2> QED BY <1>1, <1>2, <1>3, <1>4, <1>12, <2>1 DEF traverseRecurringCompositeType, Skip, WalksOn
<1> QED BY <1>5, <1>6, <1>7, <1>8, <1>9, <1>10, <1>11, <1>12

\* Nothing is open when a traversal starts.
LEMMA EmptyStacks ==
    ASSUME NEW r \in Node
    PROVE  /\ <<>> \in Seq(Calls) /\ <<traverse(r)>> \in Seq(Calls)
           /\ <<>> \in Seq(MetaData) /\ IsStack(<<>>) /\ NoMeta \in MetaData
           /\ NoEnum \in [is_enum : BOOLEAN, enum_base : Node \cup {NoNode}]
           /\ \A i \in DOMAIN <<traverse(r)>> : <<traverse(r)>>[i].call # "leave"
<1>1. traverse(r) \in Calls /\ traverse(r).call # "leave"
  BY DEF Calls, traverse
<1>2. DOMAIN <<>> = {} /\ DOMAIN <<traverse(r)>> = {1}
  OBVIOUS
<1>3. IsStack(<<>>)
  BY <1>2 DEF IsStack
<1>4. NoMeta \in MetaData
  BY DEF NoMeta, MetaData
<1> QED BY <1>1, <1>2, <1>3, <1>4 DEF NoEnum

LEMMA InitAgrees == Init => Typed /\ StacksAgree
<1> SUFFICES ASSUME Init PROVE Typed /\ StacksAgree
  OBVIOUS
<1>1. graph.root \in Node /\ graph \in Graphs
  BY GraphsAssumption DEF Init
<1>2. Typed
  BY <1>1, EmptyStacks DEF Init, Typed
<1>3. toLeave = {} /\ open = <<>>
  BY DEF Init, toLeave, open
<1>4. StacksAgree
  BY <1>3 DEF Init, StacksAgree
<1> QED BY <1>2, <1>4

LEMMA AgreementStep ==
    ASSUME Typed, StacksAgree, [Next]_vars
    PROVE  Typed' /\ StacksAgree'
<1>1. CASE make_dimetadata(graph.root)
  <2>1. graph.root \in Node
    BY GraphsAssumption DEF Typed
  <2>2. Typed'
    BY <1>1, <2>1, EmptyStacks DEF make_dimetadata, Start, Typed
  <2>3. toLeave' = {} /\ open' = <<>>
    BY <1>1, <2>1, EmptyStacks DEF make_dimetadata, Start, toLeave, open
  <2>4. StacksAgree'
    BY <1>1, <2>3 DEF make_dimetadata, Start, StacksAgree
  <2> QED BY <2>2, <2>4
<1>2. CASE \/ traverseBasicType \/ traverseLeaf \/ traverseDerivedType \/ traverseTypedPointer
           \/ traverseArrayType \/ traverseSubrange \/ traverseEnumerator
           \/ traverseRecurringCompositeType
  BY <1>2, TraverseWalksOn, WalksOnStep
<1>3. CASE traverseCompositeType
  <2>1. /\ todo' \in Seq(Calls) /\ StacksAgree'
        /\ stack_' \in Seq(MetaData) /\ IsStack(composite_stack_')
    BY <1>3, OpenComposite DEF traverseCompositeType
  <2>2. At("traverse") /\ node \in Node /\ NoMeta \in MetaData
    BY <1>3, GraphFacts, VisitTypes DEF traverseCompositeType
  <2>3. /\ visited_dinodes_' = visited_dinodes_ \cup {node} /\ graph' = graph /\ current_' = NoMeta
        /\ enum_data_' = [enum_data_ EXCEPT !.is_enum = (tag = "enum")]
    BY <1>3 DEF traverseCompositeType, traverseComposite, visitCompositeType
  <2>4. enum_data_' \in [is_enum : BOOLEAN, enum_base : Node \cup {NoNode}]
    BY <2>3 DEF Typed
  <2> QED BY <2>1, <2>2, <2>3, <2>4 DEF Typed
<1>4. CASE leaveCompositeType
  <2>1. /\ todo' \in Seq(Calls) /\ StacksAgree'
        /\ stack_' \in Seq(MetaData) /\ IsStack(composite_stack_')
    BY <1>4, CloseComposite
  <2>2. /\ visited_dinodes_' = visited_dinodes_ \ {node} /\ UNCHANGED <<graph, current_>>
        /\ enum_data_' = NoEnum
    BY <1>4 DEF leaveCompositeType, leaveComposite
  <2> QED BY <2>1, <2>2 DEF Typed, NoEnum
<1>5. CASE UNCHANGED vars
  <2>1. UNCHANGED <<graph, todo, visited_dinodes_, current_, stack_, enum_data_, composite_stack_>>
    BY <1>5 DEF vars, visitor, builder
  <2>2. Typed'
    BY <2>1 DEF Typed
  <2>3. open' = open /\ toLeave' = toLeave
    BY <2>1 DEF open, toLeave
  <2>4. StacksAgree'
    BY <2>1, <2>3 DEF StacksAgree
  <2> QED BY <2>2, <2>4
<1> QED BY <1>1, <1>2, <1>3, <1>4, <1>5 DEF Next, Traverse

\* The traversal, the event visitor and the type builder are in the same
\* composites, whatever the debug info looks like.
THEOREM Stacks == Spec => []StacksAgree
<1>1. Init => Typed /\ StacksAgree
  BY InitAgrees
<1>2. Typed /\ StacksAgree /\ [Next]_vars => Typed' /\ StacksAgree'
  BY AgreementStep
<1> QED BY <1>1, <1>2, PTL DEF Spec

===============================================================================
