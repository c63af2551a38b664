------------------------ MODULE DIParserWellFormedProofs ------------------------
(****************************************************************************)
(* Proofs about DIParser for debug info as Clang writes it.                 *)
(*                                                                          *)
(* The assertions of the event visitor are about current_, which one visit  *)
(* function fills and another reads, with any number of nodes in between.   *)
(* They hold because at most one type is waiting to be traversed at a time, *)
(* and what is in current_ then was collected for that type (WalkInOrder).  *)
(****************************************************************************)
EXTENDS DIParserProofs

\* What Clang writes, for some choice of the types enums are based on.
WrittenByClang == \A g \in Graphs : \E integral \in SUBSET Node : WellFormed(g, integral)

(****************************************************************************)
(* Tags, and the calls that wait.                                           *)
(****************************************************************************)

LEMMA TagFacts ==
    /\ Tag = TypeTags \cup Elements \cup {"subrange"}
    /\ "subrange" \notin TypeTags /\ "subrange" \notin Elements
    /\ \A t \in Elements : t \notin TypeTags
    /\ "enumerator" \in Elements
    /\ Derived \subseteq Tag /\ "enumerator" \notin Derived
    /\ \A t \in Derived : t \in TypeTags \/ t \in Elements \ {"enumerator"}
    /\ Array \subseteq TypeTags /\ {"struct", "enum"} \subseteq TypeTags
    /\ {"basic", "string", "subroutine"} \subseteq TypeTags
    /\ "vtbl_ptr" \in TypeTags /\ "pointer" \in TypeTags
BY DEF TypeTags, Elements, Tag, Derived, Array

\* Where the calls of traverse are after a step.
LEMMA TraverseFacts ==
    ASSUME todo \in Seq(Calls), todo # <<>>, NEW calls \in Seq(Calls), Continue(calls),
           graph' = graph, NEW CONSTANT tags
    PROVE  LET shift == Len(calls) - 1
           IN  /\ Len(calls) \in Nat
               /\ \A i \in toTraverse(tags) : i \in Nat /\ i > 0
               /\ \A j \in toTraverse(tags)' :
                     /\ j \in Nat
                     /\ \/ /\ j \in 1..Len(calls) /\ todo'[j] = calls[j]
                           /\ calls[j].call = "traverse" /\ graph.tag[calls[j].node] \in tags
                        \/ /\ j > Len(calls) /\ j - shift > 1
                           /\ j - shift \in toTraverse(tags) /\ todo'[j] = todo[j - shift]
               /\ \A i \in 1..Len(calls) :
                     calls[i].call = "traverse" /\ graph.tag[calls[i].node] \in tags =>
                        i \in toTraverse(tags)' /\ todo'[i] = calls[i]
               /\ \A i \in toTraverse(tags) : i # 1 =>
                     i + shift \in toTraverse(tags)' /\ todo'[i + shift] = todo[i]
<1> DEFINE shift == Len(calls) - 1
<1>1. /\ todo' \in Seq(Calls)
      /\ Len(calls) \in Nat /\ Len(todo) \in Nat
      /\ \A i \in 1..Len(calls) : i \in DOMAIN todo' /\ todo'[i] = calls[i]
      /\ \A i \in 2..Len(todo) : i + shift \in DOMAIN todo' /\ todo'[i + shift] = todo[i]
      /\ \A j \in DOMAIN todo' : j \in 1..Len(calls) \/ j - shift \in 2..Len(todo)
  BY ContinueFacts
<1>2. DOMAIN todo = 1..Len(todo) /\ DOMAIN todo' = 1..Len(todo') /\ Len(todo') \in Nat
  BY <1>1, LenProperties
<1>3. toTraverse(tags) = {i \in DOMAIN todo : todo[i].call = "traverse" /\ graph.tag[todo[i].node] \in tags}
  BY DEF toTraverse
<1>4. toTraverse(tags)' = {i \in DOMAIN todo' : todo'[i].call = "traverse" /\ graph.tag[todo'[i].node] \in tags}
  BY DEF toTraverse
<1>5. ASSUME NEW j \in toTraverse(tags)', j \notin 1..Len(calls)
      PROVE  /\ j > Len(calls) /\ j - shift > 1
             /\ j - shift \in toTraverse(tags) /\ todo'[j] = todo[j - shift]
  <2> DEFINE i == j - shift
  <2>1. i \in 2..Len(todo) /\ i + shift = j /\ j > Len(calls) /\ i > 1
    BY <1>1, <1>2, <1>4, <1>5
  <2>2. todo'[j] = todo[i]
    BY <1>1, <2>1
  <2>3. i \in toTraverse(tags)
    BY <1>2, <1>3, <1>4, <2>1, <2>2
  <2> QED BY <2>1, <2>2, <2>3
<1>6. \A j \in toTraverse(tags)' : j \in Nat
  BY <1>2, <1>4
<1>7. \A j \in toTraverse(tags)' : j \in 1..Len(calls) =>
         /\ todo'[j] = calls[j]
         /\ calls[j].call = "traverse" /\ graph.tag[calls[j].node] \in tags
  BY <1>1, <1>4
<1>8. \A i \in 1..Len(calls) :
         calls[i].call = "traverse" /\ graph.tag[calls[i].node] \in tags =>
            i \in toTraverse(tags)' /\ todo'[i] = calls[i]
  BY <1>1, <1>4
<1>9. ASSUME NEW i \in toTraverse(tags), i # 1
      PROVE  i + shift \in toTraverse(tags)' /\ todo'[i + shift] = todo[i]
  <2>1. i \in 2..Len(todo)
    BY <1>1, <1>2, <1>3, <1>9
  <2>2. i + shift \in DOMAIN todo' /\ todo'[i + shift] = todo[i]
    BY <1>1, <2>1
  <2> QED BY <1>3, <1>4, <2>2
<1>10. \A i \in toTraverse(tags) : i \in Nat /\ i > 0
  BY <1>1, <1>2, <1>3
<1> QED BY <1>1, <1>5, <1>6, <1>7, <1>8, <1>9, <1>10

\* Behind anything but a subrange no type and no subrange is waiting.
LEMMA NoneBehind ==
    ASSUME Typed, TypeComesFirst, todo # <<>>, ~(At("traverse") /\ tag = "subrange")
    PROVE  \A i \in toTraverse(TypeTags \cup {"subrange"}) : i = 1
<1> SUFFICES ASSUME NEW i \in toTraverse(TypeTags \cup {"subrange"}), i # 1
             PROVE  FALSE
  OBVIOUS
<1>1. DOMAIN todo = 1..Len(todo) /\ Len(todo) \in Nat /\ todo[1] = Head(todo)
  BY LenProperties, HeadTailProperties DEF Typed
<1>2. i \in DOMAIN todo
  BY DEF toTraverse
<1>3. 1 < i /\ 1 \in DOMAIN todo
  BY <1>1, <1>2
<1>4. 1 \in toTraverse({"subrange"})
  BY <1>3 DEF TypeComesFirst
<1>5. At("traverse") /\ tag = "subrange"
  BY <1>1, <1>4 DEF toTraverse, At, tag, node
<1> QED BY <1>5

LEMMA TypesAreWaiting ==
    ASSUME NEW CONSTANT s, NEW CONSTANT t, s \subseteq t
    PROVE  toTraverse(s) \subseteq toTraverse(t) /\ toTraverse(s)' \subseteq toTraverse(t)'
BY DEF toTraverse

\* What is waiting after a step that is not that of a subrange is what it hands on.
LEMMA WaitingAfter ==
    ASSUME Typed, TypeComesFirst, todo # <<>>, ~(At("traverse") /\ tag = "subrange"),
           NEW calls \in Seq(Calls), Continue(calls), graph' = graph
    PROVE  \A i \in (toTraverse(TypeTags) \cup toTraverse({"subrange"}))' :
              i \in 1..Len(calls) /\ todo'[i] = calls[i]
<1> DEFINE T == TypeTags \cup {"subrange"}
<1>1. (toTraverse(TypeTags) \cup toTraverse({"subrange"}))' \subseteq toTraverse(T)'
  BY TypesAreWaiting
<1>2. \A i \in toTraverse(T) : i = 1
  BY NoneBehind
<1> HIDE DEF T
<1>3. \A j \in toTraverse(T)' :
         \/ j \in 1..Len(calls) /\ todo'[j] = calls[j]
         \/ j - (Len(calls) - 1) > 1 /\ j - (Len(calls) - 1) \in toTraverse(T)
  BY TraverseFacts DEF Typed
<1> QED BY <1>1, <1>2, <1>3

(****************************************************************************)
(* The order of what is waiting.                                            *)
(****************************************************************************)

\* A step keeps the order when what it hands on is in order.
LEMMA OrderKept ==
    ASSUME Typed, TypeComesFirst, todo # <<>>, NEW calls \in Seq(Calls), Continue(calls), graph' = graph,
           calls = <<>> \/ ~(At("traverse") /\ tag = "subrange"),
           \A i \in 1..Len(calls) :
              calls[i].call = "traverse" /\ graph.tag[calls[i].node] \in TypeTags \cup {"subrange"} =>
                 \A j \in 1..Len(calls) : j < i =>
                    calls[j].call = "traverse" /\ graph.tag[calls[j].node] = "subrange",
           \A i \in 1..Len(calls) :
              calls[i].call = "traverse" /\ graph.tag[calls[i].node] \in Elements =>
                 \E j \in 1..Len(calls) : i < j /\ calls[j].call = "leave",
           \A i, j \in 1..Len(calls) :
              calls[i].call = "traverse" /\ graph.tag[calls[i].node] = "enumerator" /\ calls[j].call = "leave" =>
                 i < j,
           (\E i \in 1..Len(calls) : calls[i].call = "leave") => toTraverse({"enumerator"}) = {},
           At("traverse") \/ At("leave")
    PROVE  TypeComesFirst'
<1> DEFINE shift == Len(calls) - 1
           T == TypeTags \cup {"subrange"}
<1>1. /\ Len(calls) \in Nat /\ shift \in Int
      /\ \A i \in toLeave : i \in Nat /\ i > 0
      /\ \A i \in toLeave : i # 1 =>
            i + shift \in toLeave' /\ todo'[i + shift] = todo[i] /\ i + shift > Len(calls)
      /\ \A j \in toLeave' :
            /\ j \in Nat
            /\ \/ j \in 1..Len(calls) /\ calls[j].call = "leave"
               \/ j > Len(calls) /\ j - shift > 1 /\ j - shift \in toLeave
      /\ \A i \in 1..Len(calls) : calls[i].call = "leave" => i \in toLeave'
  BY LeaveFacts DEF Typed
<1>2. ASSUME NEW CONSTANT tags
      PROVE  /\ \A j \in toTraverse(tags)' :
                   /\ j \in Nat
                   /\ \/ /\ j \in 1..Len(calls) /\ todo'[j] = calls[j]
                         /\ calls[j].call = "traverse" /\ graph.tag[calls[j].node] \in tags
                      \/ /\ j > Len(calls) /\ j - shift > 1
                         /\ j - shift \in toTraverse(tags) /\ todo'[j] = todo[j - shift]
             /\ \A i \in 1..Len(calls) :
                   calls[i].call = "traverse" /\ graph.tag[calls[i].node] \in tags =>
                      i \in toTraverse(tags)'
             /\ \A i \in toTraverse(tags) : i \in Nat /\ i > 0
             /\ \A i \in toTraverse(tags) : i # 1 => i + shift \in toTraverse(tags)'
  BY TraverseFacts DEF Typed
<1>3. /\ todo' \in Seq(Calls)
      /\ \A j \in DOMAIN todo' : j \in Nat /\ j > 0 /\ (j \in 1..Len(calls) \/ j - shift \in 2..Len(todo))
      /\ DOMAIN todo = 1..Len(todo) /\ Len(todo) \in Nat
  BY ContinueFacts, LenProperties DEF Typed
<1>4. /\ \A i \in toTraverse(T) : \A j \in DOMAIN todo : j < i => j \in toTraverse({"subrange"})
      /\ \A i \in toTraverse(Elements) : \E j \in toLeave : i < j
      /\ \A i \in toTraverse({"enumerator"}) : \A j \in toLeave : i < j
  BY DEF TypeComesFirst
<1>5. ASSUME calls # <<>> PROVE \A i \in toTraverse(T) : i = 1
  BY <1>5, NoneBehind
<1> HIDE DEF shift
<1>6. ASSUME NEW i \in toTraverse(T)', NEW j \in DOMAIN todo', j < i
      PROVE  j \in toTraverse({"subrange"})'
  <2> HIDE DEF T
  <2>1. CASE i \in 1..Len(calls)
    <3>1. calls[i].call = "traverse" /\ graph.tag[calls[i].node] \in T
      BY <2>1, <1>1, <1>2 DEF shift
    <3>2. j \in 1..Len(calls)
      BY <2>1, <1>1, <1>3, <1>6
    <3>3. calls[j].call = "traverse" /\ graph.tag[calls[j].node] \in {"subrange"}
      BY <2>1, <3>1, <3>2, <1>6 DEF T
    <3> QED BY <1>2, <3>2, <3>3
  <2>2. CASE i \notin 1..Len(calls)
    <3>1. i - shift \in toTraverse(T) /\ i - shift > 1 /\ i \in Nat
      BY <2>2, <1>2
    <3>2. calls = <<>>
      BY <3>1, <1>5
    <3>3. shift = 0 - 1 /\ j + 1 \in 2..Len(todo)
      BY <3>2, <1>1, <1>3 DEF shift
    <3>4. j + 1 < i + 1 /\ i + 1 \in toTraverse(T) /\ j \in Nat
      BY <1>3, <1>6, <3>1, <3>3
    <3>5. j + 1 \in toTraverse({"subrange"}) /\ j + 1 # 1
      BY <1>3, <1>4, <3>3, <3>4
    <3>6. (j + 1) + shift \in toTraverse({"subrange"})' /\ (j + 1) + shift = j
      BY <1>2, <3>3, <3>4, <3>5
    <3> QED BY <3>6
  <2> QED BY <2>1, <2>2
<1> HIDE DEF T
<1>7. ASSUME NEW i \in toTraverse(Elements)'
      PROVE  \E j \in toLeave' : i < j
  <2>1. CASE i \in 1..Len(calls)
    <3>1. calls[i].call = "traverse" /\ graph.tag[calls[i].node] \in Elements
      BY <2>1, <1>1, <1>2 DEF shift
    <3>2. PICK j \in 1..Len(calls) : i < j /\ calls[j].call = "leave"
      BY <2>1, <3>1
    <3> QED BY <1>1, <3>2
  <2>2. CASE i \notin 1..Len(calls)
    <3>1. i - shift \in toTraverse(Elements) /\ i - shift > 1 /\ i \in Nat
      BY <2>2, <1>2
    <3>2. PICK j \in toLeave : i - shift < j
      BY <1>4, <3>1
    <3>3. j + shift \in toLeave' /\ i < j + shift
      BY <1>1, <3>1, <3>2
    <3> QED BY <3>3
  <2> QED BY <2>1, <2>2
<1>8. ASSUME NEW i \in toTraverse({"enumerator"})', NEW j \in toLeave'
      PROVE  i < j
  <2>1. CASE j \in 1..Len(calls)
    <3>1. calls[j].call = "leave"
      BY <2>1, <1>1 DEF shift
    <3>2. toTraverse({"enumerator"}) = {}
      BY <2>1, <3>1
    <3>3. i \in 1..Len(calls) /\ calls[i].call = "traverse" /\ graph.tag[calls[i].node] = "enumerator"
      BY <1>2, <3>2
    <3> QED BY <2>1, <3>1, <3>3
  <2>2. CASE j \notin 1..Len(calls)
    <3>1. j > Len(calls) /\ j - shift \in toLeave /\ j \in Nat
      BY <2>2, <1>1
    <3>2. CASE i \in 1..Len(calls)
      BY <3>1, <3>2, <1>1
    <3>3. CASE i \notin 1..Len(calls)
      <4>1. i - shift \in toTraverse({"enumerator"}) /\ i \in Nat
        BY <3>3, <1>2
      <4>2. i - shift < j - shift
        BY <1>4, <3>1, <4>1
      <4> QED BY <1>1, <3>1, <4>1, <4>2
    <3> QED BY <3>2, <3>3
  <2> QED BY <2>1, <2>2
<1> QED BY <1>6, <1>7, <1>8 DEF TypeComesFirst, T

\* What a visit function hands on has no element of a composite in it.
Plain(calls) ==
    /\ calls \in Seq(Traversals)
    /\ \A i \in 1..Len(calls) :
          /\ graph.tag[calls[i].node] \in TypeTags \cup {"subrange"}
          /\ \A j \in 1..Len(calls) : j < i => graph.tag[calls[j].node] = "subrange"

LEMMA PlainFacts ==
    ASSUME NEW calls, Plain(calls)
    PROVE  /\ calls \in Seq(Calls) /\ Len(calls) \in Nat
           /\ \A i \in 1..Len(calls) :
                 /\ calls[i].call = "traverse"
                 /\ graph.tag[calls[i].node] \notin Elements
                 /\ \A j \in 1..Len(calls) : j < i => graph.tag[calls[j].node] = "subrange"
<1>1. calls \in Seq(Calls) /\ \A i \in 1..Len(calls) : calls[i].call = "traverse"
  BY TraversalsFacts, SeqMonotonic, ElementOfSeq DEF Plain
<1>2. Len(calls) \in Nat
  BY <1>1, LenProperties
<1> QED BY <1>1, <1>2, TagFacts DEF Plain

LEMMA PlainOrder ==
    ASSUME Typed, TypeComesFirst, At("traverse"), NEW calls, Plain(calls), Continue(calls), graph' = graph,
           calls = <<>> \/ tag # "subrange"
    PROVE  TypeComesFirst'
<1>1. /\ calls \in Seq(Calls)
      /\ \A i \in 1..Len(calls) :
            /\ calls[i].call = "traverse" /\ calls[i].call # "leave"
            /\ graph.tag[calls[i].node] \notin Elements
            /\ \A j \in 1..Len(calls) : j < i => graph.tag[calls[j].node] = "subrange"
  BY PlainFacts
<1>2. todo # <<>> /\ "enumerator" \in Elements
  BY TagFacts DEF At
<1> QED BY <1>1, <1>2, OrderKept

\* The composite that is innermost stays so.
LEMMA PlainKeepsEnum ==
    ASSUME Typed, EnumIsInnermost, At("traverse"), NEW calls, Plain(calls), Continue(calls),
           UNCHANGED <<graph, stack_>>, enum_data_'.is_enum = enum_data_.is_enum,
           toTraverse({"enumerator"}) # {} /\ toTraverse(TypeTags)' = {} => enum_data_'.enum_base # NoNode
    PROVE  EnumIsInnermost'
<1> DEFINE shift == Len(calls) - 1
           S == Elements \ {"enumerator"}
<1>1. /\ calls \in Seq(Calls) /\ Len(calls) \in Nat
      /\ \A i \in 1..Len(calls) :
            /\ calls[i].call = "traverse"
            /\ graph.tag[calls[i].node] \notin Elements
  BY PlainFacts
<1>2. todo # <<>> /\ "enumerator" \in Elements
  BY TagFacts DEF At
<1>3. ASSUME NEW CONSTANT tags, tags \subseteq Elements
      PROVE  \A j \in toTraverse(tags)' : j \in Nat /\ j - shift \in toTraverse(tags)
  <2>1. \A j \in toTraverse(tags)' :
           /\ j \in Nat
           /\ \/ j \in 1..Len(calls) /\ graph.tag[calls[j].node] \in tags
              \/ j - shift \in toTraverse(tags)
    BY <1>1, <1>2, TraverseFacts DEF Typed
  <2> QED BY <1>1, <1>3, <2>1
<1>4. /\ \A i \in toLeave : i # 1 => i + shift \in toLeave'
      /\ \A i \in toLeave : i \in Nat
      /\ 1 \notin toLeave
  <2>1. /\ \A i \in toLeave : i # 1 => i + shift \in toLeave'
        /\ \A i \in toLeave : i \in Nat /\ i > 0
    BY <1>1, <1>2, LeaveFacts DEF Typed
  <2>2. todo[1] = Head(todo)
    BY HeadTailProperties, <1>2 DEF Typed
  <2> QED BY <2>1, <2>2 DEF At, toLeave
<1>5. (enum_data_.is_enum <=> stack_ # <<>> /\ graph.tag[stack_[Len(stack_)].type] = "enum")'
  BY DEF EnumIsInnermost
<1>6. (\A i \in DOMAIN stack_ : i < Len(stack_) => graph.tag[stack_[i].type] # "enum")'
  BY DEF EnumIsInnermost
<1>7. (toTraverse({"enumerator"}) # {} =>
         enum_data_.is_enum /\ (toTraverse(TypeTags) = {} => enum_data_.enum_base # NoNode))'
  <2> SUFFICES ASSUME toTraverse({"enumerator"})' # {}
               PROVE  enum_data_'.is_enum /\ (toTraverse(TypeTags)' = {} => enum_data_'.enum_base # NoNode)
    OBVIOUS
  <2>1. toTraverse({"enumerator"}) # {}
    BY <1>2, <1>3
  <2> QED BY <2>1 DEF EnumIsInnermost
<1>8. (enum_data_.is_enum => \A i \in toTraverse(S) : \E j \in toLeave : j < i)'
  <2> SUFFICES ASSUME enum_data_'.is_enum, NEW i \in toTraverse(S)'
               PROVE  \E j \in toLeave' : j < i
    OBVIOUS
  <2>1. i \in Nat /\ i - shift \in toTraverse(S)
    BY <1>3
  <2>2. PICK j \in toLeave : j < i - shift
    BY <2>1 DEF EnumIsInnermost
  <2>3. j + shift \in toLeave' /\ j + shift < i
    BY <1>1, <1>4, <2>1, <2>2
  <2> QED BY <2>3
<1> QED BY <1>5, <1>6, <1>7, <1>8 DEF EnumIsInnermost

\* A visit function of anything but a composite.
LEMMA PlainInOrder ==
    ASSUME Typed, NEW CONSTANT integral, WalkInOrder(integral), At("traverse"),
           NEW calls, Plain(calls), Continue(calls), calls = <<>> \/ tag # "subrange",
           UNCHANGED <<graph, stack_>>, enum_data_'.is_enum = enum_data_.is_enum,
           toTraverse({"enumerator"}) # {} /\ toTraverse(TypeTags)' = {} => enum_data_'.enum_base # NoNode,
           current_'.is_member => current_'.member_name \in Node,
           CollectedForType(integral)'
    PROVE  WalkInOrder(integral)'
<1>1. TypeComesFirst /\ EnumIsInnermost /\ OpenedForMember
  BY DEF WalkInOrder
<1>2. TypeComesFirst'
  BY <1>1, PlainOrder
<1>3. EnumIsInnermost'
  BY <1>1, PlainKeepsEnum
<1>4. OpenedForMember'
  BY <1>1 DEF OpenedForMember
<1> QED BY <1>2, <1>3, <1>4 DEF WalkInOrder

(****************************************************************************)
(* What is known of the node at the head.                                   *)
(****************************************************************************)

LEMMA AtHead ==
    ASSUME Typed, At("traverse")
    PROVE  /\ node \in Node /\ tag = graph.tag[node] /\ tag \in Tag
           /\ todo[1] = Head(todo) /\ todo[1].node = node /\ todo # <<>>
           /\ 1 \notin toLeave
           /\ \A tags : tag \in tags => 1 \in toTraverse(tags)
<1>1. /\ node \in Node /\ tag \in Tag /\ todo[1] = Head(todo) /\ todo # <<>> /\ Head(todo).call = "traverse"
  BY GraphFacts DEF At
<1>2. 1 \in DOMAIN todo
  BY <1>1, LenProperties, EmptySeq DEF Typed
<1> QED BY <1>1, <1>2 DEF tag, node, toLeave, toTraverse

\* A composite is to be left exactly if one is open.
LEMMA LeaveMeansOpen ==
    ASSUME Typed, StacksAgree
    PROVE  toLeave # {} <=> stack_ # <<>>
<1>1. /\ DOMAIN open = 1..Len(stack_) /\ Len(stack_) \in Nat
      /\ visited_dinodes_ = {open[i] : i \in DOMAIN open}
      /\ visited_dinodes_ = {todo[i].node : i \in toLeave}
  BY AgreementParts
<1>2. stack_ # <<>> <=> Len(stack_) > 0
  BY EmptySeq, LenProperties DEF Typed
<1>3. ASSUME toLeave # {} PROVE stack_ # <<>>
  <2>1. visited_dinodes_ # {}
    BY <1>1, <1>3
  <2>2. 1..Len(stack_) # {}
    BY <1>1, <2>1
  <2> QED BY <1>1, <1>2, <2>2
<1>4. ASSUME stack_ # <<>> PROVE toLeave # {}
  <2>1. 1 \in 1..Len(stack_)
    BY <1>1, <1>2, <1>4
  <2>2. visited_dinodes_ # {}
    BY <1>1, <2>1
  <2> QED BY <1>1, <2>2
<1> QED BY <1>3, <1>4

LEMMA TypeAtHead ==
    ASSUME Typed, NEW CONSTANT integral, WalkInOrder(integral), At("traverse"), tag \in TypeTags
    PROVE  CollectedFor(node, integral)
BY AtHead DEF WalkInOrder, CollectedForType

LEMMA ElementAtHead ==
    ASSUME Typed, StacksAgree, NEW CONSTANT integral, WalkInOrder(integral), At("traverse"), tag \in Elements
    PROVE  /\ stack_ # <<>>
           /\ tag # "enumerator" => ~enum_data_.is_enum
           /\ tag = "enumerator" =>
                /\ enum_data_.is_enum /\ enum_data_.enum_base # NoNode
                /\ toTraverse(TypeTags) = {}
<1>1. /\ 1 \in toTraverse(Elements) /\ 1 \notin toLeave
      /\ tag # "enumerator" => 1 \in toTraverse(Elements \ {"enumerator"})
      /\ tag = "enumerator" => 1 \in toTraverse({"enumerator"})
      /\ tag # "subrange" /\ tag \notin TypeTags /\ todo # <<>>
  BY AtHead, TagFacts
<1>2. \A i \in toLeave : i \in Nat /\ i > 1
  BY <1>1, LenProperties DEF toLeave, Typed
<1>3. stack_ # <<>>
  <2>1. toLeave # {}
    BY <1>1 DEF WalkInOrder, TypeComesFirst
  <2> QED BY <2>1, LeaveMeansOpen
<1>4. ASSUME tag # "enumerator" PROVE ~enum_data_.is_enum
  <2> SUFFICES ASSUME enum_data_.is_enum PROVE FALSE
    OBVIOUS
  <2>1. PICK j \in toLeave : j < 1
    BY <1>1, <1>4 DEF WalkInOrder, EnumIsInnermost
  <2> QED BY <1>2, <2>1
<1>5. toTraverse(TypeTags) = {}
  <2>1. \A i \in toTraverse(TypeTags \cup {"subrange"}) : i = 1
    BY <1>1, NoneBehind DEF WalkInOrder
  <2>2. 1 \notin toTraverse(TypeTags)
    BY <1>1, AtHead DEF toTraverse
  <2>3. toTraverse(TypeTags) \subseteq toTraverse(TypeTags \cup {"subrange"})
    BY TypesAreWaiting
  <2> QED BY <2>1, <2>2, <2>3
<1>6. ASSUME tag = "enumerator" PROVE enum_data_.is_enum /\ enum_data_.enum_base # NoNode
  BY <1>1, <1>5, <1>6 DEF WalkInOrder, EnumIsInnermost
<1> QED BY <1>3, <1>4, <1>5, <1>6

\* The assertions follow from the order of the walk.
LEMMA AssertionsFollow ==
    ASSUME Typed, StacksAgree, NEW CONSTANT integral \in SUBSET Node, WellFormed(graph, integral),
           WalkInOrder(integral)
    PROVE  AssertionsHold
<1>1. ASSUME At("leave")
      PROVE  LET meta == stack_[Len(stack_)]
             IN  meta.is_member \/ meta.is_base_class <=> Len(stack_) > 1
  <2>1. todo # <<>> /\ 1 \in DOMAIN todo /\ todo[1] = Head(todo)
    BY <1>1, LenProperties, EmptySeq, HeadTailProperties DEF At, Typed
  <2>2. 1 \in toLeave
    BY <1>1, <2>1 DEF At, toLeave
  <2>3. stack_ # <<>>
    BY <2>2, LeaveMeansOpen
  <2>4. Len(stack_) \in DOMAIN stack_
    BY <2>3, EmptySeq, LenProperties DEF Typed
  <2> QED BY <2>4 DEF WalkInOrder, OpenedForMember
<1>2. ASSUME At("traverse"), tag = "subrange"
      PROVE  current_.arrays # <<>>
  <2>1. 1 \in toTraverse({"subrange"})
    BY <1>2, AtHead
  <2> QED BY <2>1 DEF WalkInOrder, CollectedForType
<1>3. ASSUME At("traverse"), tag = "vtbl_ptr"
      PROVE  current_.is_member /\ stack_ # <<>>
  <2>1. CollectedFor(node, integral) /\ node \in virtualTable(graph)
    BY <1>3, TypeAtHead, AtHead, TagFacts DEF virtualTable
  <2> QED BY <2>1 DEF CollectedFor
<1>4. ASSUME At("traverse"), tag = "basic", current_.is_member
      PROVE  stack_ # <<>>
  <2>1. CollectedFor(node, integral)
    BY <1>4, TypeAtHead, TagFacts
  <2> QED BY <1>4, <2>1 DEF CollectedFor
<1>5. ASSUME At("traverse"), tag = "enumerator"
      PROVE  /\ enum_data_.enum_base # NoNode
             /\ stack_ # <<>> /\ graph.tag[stack_[Len(stack_)].type] = "enum"
  <2>1. enum_data_.is_enum /\ enum_data_.enum_base # NoNode
    BY <1>5, ElementAtHead, TagFacts
  <2> QED BY <2>1 DEF WalkInOrder, EnumIsInnermost
<1> QED BY <1>1, <1>2, <1>3, <1>4, <1>5 DEF AssertionsHold

(****************************************************************************)
(* How each kind of step keeps the walk in order.                           *)
(****************************************************************************)

LEMMA NothingHandedOn == \A tags : Plain(<<>>)
BY EmptySeq DEF Plain

\* A type that ends the walk: nothing is waiting, and nothing is collected.
LEMMA LeafInOrder ==
    ASSUME Typed, NEW CONSTANT integral, WalkInOrder(integral), At("traverse"), tag \in TypeTags,
           Continue(<<>>), UNCHANGED <<graph, stack_>>, current_' = NoMeta,
           enum_data_'.is_enum = enum_data_.is_enum,
           enum_data_.is_enum => enum_data_'.enum_base # NoNode
    PROVE  WalkInOrder(integral)'
<1>1. todo # <<>> /\ tag # "subrange" /\ Plain(<<>>) /\ <<>> \in Seq(Calls) /\ Len(<<>>) = 0
  BY TagFacts, NothingHandedOn, EmptySeq DEF At
<1>2. toTraverse(TypeTags)' = {} /\ toTraverse({"subrange"})' = {}
  <2>1. \A i \in (toTraverse(TypeTags) \cup toTraverse({"subrange"}))' : i \in 1..0
    BY <1>1, WaitingAfter DEF WalkInOrder
  <2>2. 1..0 = {}
    OBVIOUS
  <2> QED BY <2>1, <2>2
<1>3. CollectedForType(integral)'
  BY <1>2 DEF CollectedForType
<1>4. toTraverse({"enumerator"}) # {} => enum_data_'.enum_base # NoNode
  BY DEF WalkInOrder, EnumIsInnermost
<1>5. current_'.is_member => current_'.member_name \in Node
  BY DEF NoMeta
<1> QED BY <1>1, <1>3, <1>4, <1>5, PlainInOrder

\* A node that hands on its base type, if it has one.
LEMMA BaseInOrder ==
    ASSUME Typed, NEW CONSTANT integral \in SUBSET Node, WellFormed(graph, integral), WalkInOrder(integral),
           At("traverse"), tag # "subrange", Continue(traverse_base(node)),
           UNCHANGED <<graph, stack_, enum_data_>>,
           enum_data_.is_enum => graph.base[node] # NoNode,
           toTraverse({"enumerator"}) # {} => enum_data_.is_enum,
           current_'.is_member => current_'.member_name \in Node,
           \A n \in Node : n = graph.base[node] => CollectedFor(n, integral)'
    PROVE  WalkInOrder(integral)'
<1> DEFINE calls == traverse_base(node)
           b == graph.base[node]
<1>1. /\ node \in Node /\ calls \in Seq(Traversals) /\ todo # <<>>
      /\ graph.base \in [Node -> Node \cup {NoNode}]
  BY GraphFacts, GraphsAssumption DEF At, Typed
<1>2. /\ b = NoNode => calls = <<>> /\ Len(calls) = 0
      /\ b # NoNode => calls = <<traverse(b)>> /\ Len(calls) = 1 /\ b \in Node /\ graph.tag[b] \in TypeTags
  BY <1>1 DEF traverse_base, WellFormed
<1>3. traverse(b).call = "traverse" /\ traverse(b).node = b
  BY DEF traverse
<1> HIDE DEF calls, b
<1>4. \A i \in 1..Len(calls) : i = 1 /\ b # NoNode /\ calls[i] = traverse(b)
  <2>1. CASE b = NoNode
    BY <1>2, <2>1
  <2>2. CASE b # NoNode
    <3>1. 1..1 = {1} /\ \A c : <<c>>[1] = c
      OBVIOUS
    <3>2. Len(calls) = 1 /\ calls = <<traverse(b)>>
      BY <1>2, <2>2
    <3>3. calls[1] = traverse(b) /\ 1..Len(calls) = {1}
      BY <3>1, <3>2
    <3> QED BY <2>2, <3>3
  <2> QED BY <2>1, <2>2
<1>5. Plain(calls)
  BY <1>1, <1>2, <1>3, <1>4 DEF Plain
<1>6. Continue(calls) /\ calls \in Seq(Calls)
  BY <1>5, PlainFacts DEF calls
<1>7. \A i \in (toTraverse(TypeTags) \cup toTraverse({"subrange"}))' :
         i = 1 /\ b # NoNode /\ todo'[i] = traverse(b)
  BY <1>1, <1>4, <1>6, WaitingAfter DEF WalkInOrder
<1>8. toTraverse({"subrange"})' = {}
  <2> SUFFICES ASSUME NEW i \in toTraverse({"subrange"})' PROVE FALSE
    OBVIOUS
  <2>1. graph.tag[b] = "subrange" /\ b # NoNode
    BY <1>3, <1>7 DEF toTraverse
  <2> QED BY <1>2, <2>1, TagFacts
<1>9. CollectedForType(integral)'
  <2>1. ASSUME NEW i \in toTraverse(TypeTags)'
        PROVE  CollectedFor(todo[i].node, integral)'
    <3>1. todo'[i].node = b /\ b \in Node
      BY <1>2, <1>3, <1>7
    <3> QED BY <3>1 DEF CollectedFor, b
  <2> QED BY <1>8, <2>1 DEF CollectedForType
<1>10. ASSUME toTraverse({"enumerator"}) # {}, toTraverse(TypeTags)' = {}
       PROVE  enum_data_'.enum_base # NoNode
  <2>1. b # NoNode
    BY <1>10 DEF b
  <2>2. 1 \in 1..Len(calls) /\ calls[1].call = "traverse" /\ graph.tag[calls[1].node] \in TypeTags
    BY <1>2, <1>3, <2>1
  <2>3. 1 \in toTraverse(TypeTags)'
    BY <1>1, <1>6, <2>2, TraverseFacts DEF Typed
  <2> QED BY <1>10, <2>3
<1> QED BY <1>5, <1>6, <1>9, <1>10, PlainInOrder

\* What a derived type says about the member it is part of is not forgotten.
LEMMA VisitDerivedFacts ==
    ASSUME Typed, At("traverse"), tag \in Derived
    PROVE  LET meta == visitDerivedType(current_, node)
           IN  /\ tag \in {"member", "static_member"} => meta.is_member /\ meta.member_name = node
               /\ tag = "inheritance" => meta.is_base_class
               /\ tag \notin {"member", "static_member"} =>
                    meta.is_member = current_.is_member /\ meta.member_name = current_.member_name
               /\ tag \in TypeTags => meta.is_base_class = current_.is_base_class
<1>1. current_ \in MetaData /\ tag = graph.tag[node]
  BY DEF Typed, tag
<1>2. CASE tag \in {"member", "static_member"}
  BY <1>1, <1>2, TagFacts DEF visitDerivedType, make_member, MetaData, TypeTags, Elements
<1>3. CASE tag = "typedef"
  BY <1>1, <1>3 DEF visitDerivedType, MetaData
<1>4. CASE tag = "inheritance"
  BY <1>1, <1>4, TagFacts DEF visitDerivedType, MetaData, TypeTags, Elements
<1>5. CASE tag \notin {"member", "static_member", "typedef", "inheritance"}
  BY <1>1, <1>5 DEF visitDerivedType, MetaData
<1> QED BY <1>2, <1>3, <1>4, <1>5

LEMMA DerivedInOrder ==
    ASSUME Typed, StacksAgree, NEW CONSTANT integral \in SUBSET Node, WellFormed(graph, integral),
           WalkInOrder(integral), traverseDerivedType
    PROVE  WalkInOrder(integral)'
<1> DEFINE meta == visitDerivedType(current_, node)
           b == graph.base[node]
<1>1. /\ At("traverse") /\ tag \in Derived \ {"vtbl_ptr"} /\ ~isVoidPointer
      /\ current_' = meta /\ Continue(traverse_base(node))
      /\ UNCHANGED <<graph, stack_, enum_data_>>
  BY DEF traverseDerivedType, traverseDerived
<1>2. node \in Node /\ tag = graph.tag[node]
  BY <1>1, AtHead
<1>3. /\ tag \in {"member", "static_member"} => meta.is_member /\ meta.member_name = node
      /\ tag = "inheritance" => meta.is_base_class
      /\ tag \notin {"member", "static_member"} =>
           meta.is_member = current_.is_member /\ meta.member_name = current_.member_name
      /\ tag \in TypeTags => meta.is_base_class = current_.is_base_class
  BY <1>1, VisitDerivedFacts
<1>4. current_.is_member => current_.member_name \in Node
  BY DEF WalkInOrder, OpenedForMember
<1>5. toTraverse({"enumerator"}) # {} => enum_data_.is_enum
  BY DEF WalkInOrder, EnumIsInnermost
<1>6. /\ b # NoNode =>
           /\ graph.tag[b] \in TypeTags
           /\ b \in virtualTable(graph) =>
                tag \in {"member", "static_member"} \/ node \in virtualTable(graph)
      /\ tag \in Elements \ {"enumerator"} => b # NoNode
      /\ node \in integral =>
           \/ tag = "basic"
           \/ tag \in {"typedef", "const", "volatile"} /\ b \in integral
  BY <1>2 DEF WellFormed
<1> HIDE DEF meta, b
<1>7. meta.is_member => meta.member_name \in Node
  BY <1>2, <1>3, <1>4
<1>8. CASE tag \in Elements
  <2>1. stack_ # <<>> /\ ~enum_data_.is_enum
    BY <1>1, <1>8, ElementAtHead, TagFacts
  <2>2. tag \in {"member", "static_member", "inheritance"}
    BY <1>1, <1>8, TagFacts DEF Elements
  <2>3. ASSUME NEW n \in Node, n = b PROVE CollectedFor(n, integral)'
    <3>0. b # NoNode
      BY <2>3, NoNodeAssumption
    <3>1. b \in virtualTable(graph) => meta.is_member
      <4>1. node \notin virtualTable(graph)
        BY <1>2, <2>2 DEF virtualTable
      <4> QED BY <1>3, <1>6, <3>0, <4>1
    <3>2. virtualTable(graph)' = virtualTable(graph)
      BY <1>1 DEF virtualTable
    <3>3. meta.is_member \/ meta.is_base_class
      BY <1>3, <2>2
    <3> QED BY <1>1, <2>1, <2>3, <3>1, <3>2, <3>3 DEF CollectedFor
  <2> QED BY <1>1, <1>5, <1>7, <2>1, <2>3, BaseInOrder, TagFacts DEF b
<1>9. CASE tag \in TypeTags
  <2>1. CollectedFor(node, integral)
    BY <1>1, <1>9, TypeAtHead
  <2>2. tag \notin {"member", "static_member"} /\ tag # "basic" /\ tag # "subroutine" /\ tag # "subrange"
    BY <1>1, <1>9, TagFacts DEF Elements, Derived
  <2>3. enum_data_.is_enum => b \in integral /\ b # NoNode
    BY <1>6, <2>1, <2>2, NoNodeAssumption DEF CollectedFor
  <2>4. ASSUME NEW n \in Node, n = b PROVE CollectedFor(n, integral)'
    <3>1. b \in virtualTable(graph) => node \in virtualTable(graph)
      BY <1>6, <2>2, <2>4, NoNodeAssumption
    <3>2. virtualTable(graph)' = virtualTable(graph)
      BY <1>1 DEF virtualTable
    <3>3. meta.is_member = current_.is_member /\ meta.is_base_class = current_.is_base_class
      BY <1>3, <1>9, <2>2
    <3> QED BY <1>1, <1>2, <2>1, <2>2, <2>3, <2>4, <3>1, <3>2, <3>3 DEF CollectedFor
  <2> QED BY <1>1, <1>5, <1>7, <2>2, <2>3, <2>4, BaseInOrder DEF b
<1> QED BY <1>1, <1>8, <1>9, TagFacts

\* Neither the table of a class nor void* is part of anything else.
LEMMA TypedPointerInOrder ==
    ASSUME Typed, NEW CONSTANT integral \in SUBSET Node, WellFormed(graph, integral),
           WalkInOrder(integral), traverseTypedPointer
    PROVE  WalkInOrder(integral)'
<1> DEFINE b == graph.base[node]
<1>1. /\ At("traverse") /\ tag \in {"vtbl_ptr", "pointer"} /\ (tag = "pointer" => b = NoNode)
      /\ current_' = NoMeta /\ Continue(traverse_base(node))
      /\ UNCHANGED <<graph, stack_, enum_data_>>
  BY DEF traverseTypedPointer, traverseDerived, isVoidPointer
<1>2. node \in Node /\ tag = graph.tag[node] /\ tag \in TypeTags /\ tag # "subrange"
  BY <1>1, AtHead, TagFacts
<1>3. CollectedFor(node, integral)
  BY <1>1, <1>2, TypeAtHead
<1>4. ~enum_data_.is_enum
  BY <1>1, <1>2, <1>3 DEF CollectedFor, WellFormed
<1>5. toTraverse({"enumerator"}) # {} => enum_data_.is_enum
  BY DEF WalkInOrder, EnumIsInnermost
<1>6. b # NoNode => graph.tag[b] = "subroutine"
  BY <1>1, <1>2 DEF WellFormed
<1>7. ~NoMeta.is_member /\ ~NoMeta.is_base_class
  BY DEF NoMeta
<1>8. ASSUME NEW n \in Node, n = b PROVE CollectedFor(n, integral)'
  <2>1. n \notin virtualTable(graph)' /\ graph.tag[n] = "subroutine"
    BY <1>1, <1>6, <1>8, NoNodeAssumption DEF virtualTable
  <2> QED BY <1>1, <1>4, <1>6, <1>7, <1>8, <2>1 DEF CollectedFor
<1> QED BY <1>1, <1>2, <1>4, <1>5, <1>7, <1>8, BaseInOrder DEF b

LEMMA VisitArrayFacts ==
    ASSUME Typed
    PROVE  LET meta == visitArrayType(current_, node)
           IN  /\ meta.arrays # <<>>
               /\ meta.is_member = current_.is_member /\ meta.member_name = current_.member_name
               /\ meta.is_base_class = current_.is_base_class
<1> DEFINE tags == CASE graph.tag[node] = "associated" -> <<"array", "pointer">>
                     [] OTHER -> <<graph.tag[node]>>
           arrays == Append(current_.arrays, <<>>)
<1>1. current_ \in MetaData
  BY DEF Typed
<1>2. visitArrayType(current_, node) =
         [current_ EXCEPT !.dwarf_tags = @ \o tags, !.arrays = Append(@, <<>>)]
  BY DEF visitArrayType
<1> HIDE DEF tags
<1>3. visitArrayType(current_, node).arrays = arrays
  BY <1>1, <1>2 DEF MetaData
<1>4. current_.arrays \in Seq(Seq(Node)) /\ <<>> \in Seq(Node)
  BY <1>1, EmptySeq DEF MetaData
<1>5. arrays # <<>>
  <2>1. Len(arrays) = Len(current_.arrays) + 1 /\ Len(current_.arrays) \in Nat
    BY <1>4, AppendProperties, LenProperties
  <2>2. Len(arrays) # 0
    BY <2>1
  <2> HIDE DEF arrays
  <2> QED BY <2>2, EmptySeq
<1> QED BY <1>1, <1>2, <1>3, <1>5 DEF MetaData

\* An array: its subranges, then its element type.
LEMMA ArrayInOrder ==
    ASSUME Typed, NEW CONSTANT integral \in SUBSET Node, WellFormed(graph, integral),
           WalkInOrder(integral), traverseArrayType
    PROVE  WalkInOrder(integral)'
<1> DEFINE b == graph.base[node]
           e == traverse_elements(node)
           s == traverse_base(node)
           calls == e \o s
<1>1. /\ At("traverse") /\ tag \in Array
      /\ current_' = visitArrayType(current_, node) /\ Continue(calls)
      /\ UNCHANGED <<graph, stack_, enum_data_>>
  BY DEF traverseArrayType, traverseArray
<1>2. /\ node \in Node /\ tag = graph.tag[node] /\ tag \in TypeTags /\ tag # "subrange" /\ todo # <<>>
  BY <1>1, AtHead, TagFacts
<1>3. CollectedFor(node, integral)
  BY <1>1, <1>2, TypeAtHead
<1>4. ~enum_data_.is_enum
  <2>1. tag \notin {"basic", "typedef", "const", "volatile"}
    BY <1>1 DEF Array
  <2>2. node \notin integral
    BY <1>2, <2>1 DEF WellFormed
  <2> QED BY <1>3, <2>2 DEF CollectedFor
<1>5. /\ e \in Seq(Traversals) /\ s \in Seq(Traversals) /\ calls \in Seq(Traversals)
      /\ graph.base \in [Node -> Node \cup {NoNode}] /\ graph.elements \in [Node -> Seq(Node)]
  BY <1>1, GraphFacts, GraphsAssumption DEF Typed
<1>6. /\ Len(e) \in Nat
      /\ \A i \in 1..Len(e) : graph.tag[e[i].node] = "subrange"
  <2> DEFINE g == graph.elements[node]
  <2>1. g \in Seq(Node) /\ DOMAIN g = 1..Len(g) /\ Len(g) \in Nat
    BY <1>2, <1>5, LenProperties
  <2>2. DOMAIN e = 1..Len(e) /\ Len(e) \in Nat /\ DOMAIN e = DOMAIN g
    BY <1>5, LenProperties DEF traverse_elements
  <2>3. \A i \in DOMAIN g : graph.tag[g[i]] = "subrange"
    BY <1>1, <1>2 DEF WellFormed
  <2>4. \A i \in DOMAIN g : e[i].node = g[i]
    BY DEF traverse_elements, traverse
  <2> QED BY <2>2, <2>3, <2>4
<1>7. /\ b = NoNode => Len(s) = 0
      /\ b # NoNode => s = <<traverse(b)>> /\ Len(s) = 1 /\ b \in Node /\ graph.tag[b] \in TypeTags
                       /\ b \notin virtualTable(graph)
  <2>1. tag \notin {"member", "static_member", "vtbl_ptr", "pointer"}
    BY <1>1 DEF Array
  <2>2. node \notin virtualTable(graph)
    BY <1>2, <2>1 DEF virtualTable
  <2> QED BY <1>2, <1>5, <2>1, <2>2 DEF traverse_base, WellFormed
<1>8. \A c : <<c>>[1] = c
  OBVIOUS
<1>9. traverse(b).call = "traverse" /\ traverse(b).node = b
  BY DEF traverse
<1> HIDE DEF e, s, b
<1>10. /\ Len(calls) = Len(e) + Len(s)
       /\ \A i \in 1..Len(calls) :
             \/ i <= Len(e) /\ graph.tag[calls[i].node] = "subrange"
             \/ i = Len(e) + 1 /\ i = Len(calls) /\ b # NoNode /\ calls[i] = traverse(b)
  <2>1. (b = NoNode /\ Len(s) = 0) \/ (b # NoNode /\ Len(s) = 1)
    BY <1>7
  <2>2. /\ Len(calls) = Len(e) + Len(s)
        /\ \A i \in 1..Len(e) + Len(s) : calls[i] = IF i <= Len(e) THEN e[i] ELSE s[i - Len(e)]
    BY <1>5, ConcatProperties
  <2> HIDE DEF calls
  <2>3. ASSUME NEW i \in 1..Len(e) + Len(s), i <= Len(e)
        PROVE  graph.tag[calls[i].node] = "subrange"
    BY <1>6, <2>2, <2>3
  <2>4. ASSUME NEW i \in 1..Len(e) + Len(s), ~(i <= Len(e))
        PROVE  i = Len(e) + 1 /\ i = Len(calls) /\ b # NoNode /\ calls[i] = traverse(b)
    <3>1. Len(s) = 1 /\ b # NoNode
      <4>1. Len(e) + 0 = Len(e) /\ \A k \in 1..Len(e) : k <= Len(e)
        BY <1>6
      <4> QED BY <2>1, <2>4, <4>1
    <3>3. i = Len(e) + 1 /\ i - Len(e) = 1
      BY <1>6, <2>4, <3>1
    <3>2. calls[i] = s[1]
      BY <2>2, <2>4, <3>1, <3>3
    <3> QED BY <1>7, <1>8, <2>2, <3>1, <3>2, <3>3
  <2> QED BY <2>2, <2>3, <2>4
<1> HIDE DEF calls
<1>11. Plain(calls)
  <2> SUFFICES ASSUME NEW i \in 1..Len(calls)
               PROVE  /\ graph.tag[calls[i].node] \in TypeTags \cup {"subrange"}
                      /\ \A j \in 1..Len(calls) : j < i => graph.tag[calls[j].node] = "subrange"
    BY <1>5 DEF Plain
  <2>1. graph.tag[calls[i].node] \in TypeTags \cup {"subrange"}
    BY <1>7, <1>9, <1>10
  <2>2. ASSUME NEW j \in 1..Len(calls), j < i PROVE graph.tag[calls[j].node] = "subrange"
    BY <1>6, <1>7, <1>10, <2>2
  <2> QED BY <2>1, <2>2
<1>12. calls \in Seq(Calls)
  BY <1>11, PlainFacts
<1>13. CollectedForType(integral)'
  <2>1. current_'.arrays # <<>>
    BY <1>1, VisitArrayFacts
  <2>2. ASSUME NEW i \in toTraverse(TypeTags)'
        PROVE  CollectedFor(todo[i].node, integral)'
    <3>1. i \in 1..Len(calls) /\ todo'[i] = calls[i]
      BY <1>1, <1>2, <1>12, WaitingAfter DEF WalkInOrder
    <3>2. graph.tag[todo'[i].node] \in TypeTags
      BY <1>1 DEF toTraverse
    <3>3. todo'[i].node = b /\ b # NoNode
      BY <1>9, <1>10, <3>1, <3>2, TagFacts
    <3>4. b \notin virtualTable(graph)'
      BY <1>1, <1>7, <3>3 DEF virtualTable
    <3>5. tag # "subroutine"
      BY <1>1 DEF Array
    <3>6. current_'.is_member = current_.is_member /\ current_'.is_base_class = current_.is_base_class
      BY <1>1, VisitArrayFacts
    <3> QED BY <1>1, <1>2, <1>3, <1>4, <3>3, <3>4, <3>5, <3>6 DEF CollectedFor
  <2> QED BY <2>1, <2>2 DEF CollectedForType
<1>14. toTraverse({"enumerator"}) = {}
  BY <1>4 DEF WalkInOrder, EnumIsInnermost
<1>15. current_'.is_member => current_'.member_name \in Node
  <2>1. current_.is_member => current_.member_name \in Node
    BY DEF WalkInOrder, OpenedForMember
  <2>2. current_'.is_member = current_.is_member /\ current_'.member_name = current_.member_name
    BY <1>1, VisitArrayFacts
  <2> QED BY <2>1, <2>2
<1> QED BY <1>1, <1>2, <1>11, <1>13, <1>14, <1>15, PlainInOrder

\* A subrange is added to the array that was visited last.
LEMMA SubrangeInOrder ==
    ASSUME Typed, NEW CONSTANT integral, WalkInOrder(integral), traverseSubrange
    PROVE  WalkInOrder(integral)'
<1>1. /\ At("traverse") /\ tag = "subrange"
      /\ current_' = visitSubrange(current_, node) /\ Continue(<<>>)
      /\ UNCHANGED <<graph, stack_, enum_data_>>
  BY DEF traverseSubrange, Skip
<1>2. /\ todo # <<>> /\ Plain(<<>>) /\ <<>> \in Seq(Calls) /\ Len(<<>>) = 0
      /\ 1 \in toTraverse({"subrange"}) /\ tag \notin TypeTags /\ tag # "enumerator"
  BY <1>1, AtHead, TagFacts, NothingHandedOn, EmptySeq
<1>3. current_.arrays # <<>>
  BY <1>2 DEF WalkInOrder, CollectedForType
<1>4. current_ \in MetaData /\ current_.arrays \in Seq(Seq(Node))
  BY DEF Typed, MetaData
<1>5. /\ \/ current_' = current_
         \/ current_' = [current_ EXCEPT !.arrays[Len(current_.arrays)] = Append(@, node)]
      /\ current_'.is_member = current_.is_member /\ current_'.member_name = current_.member_name
      /\ current_'.is_base_class = current_.is_base_class
  BY <1>1, <1>4 DEF visitSubrange, MetaData
<1>6. current_'.arrays # <<>>
  <2> DEFINE a == [current_.arrays EXCEPT ![Len(current_.arrays)] = Append(@, node)]
  <2>1. current_'.arrays = a \/ current_'.arrays = current_.arrays
    BY <1>4, <1>5 DEF MetaData
  <2>2. DOMAIN a = DOMAIN current_.arrays
    OBVIOUS
  <2>3. DOMAIN current_.arrays # {}
    <3>1. DOMAIN current_.arrays = 1..Len(current_.arrays) /\ Len(current_.arrays) \in Nat
          /\ Len(current_.arrays) # 0
      BY <1>3, <1>4, LenProperties, EmptySeq
    <3>2. 1 \in DOMAIN current_.arrays
      BY <3>1
    <3> QED BY <3>2
  <2> HIDE DEF a
  <2>4. DOMAIN <<>> = {}
    OBVIOUS
  <2> QED BY <1>3, <2>1, <2>2, <2>3, <2>4
<1>7. ASSUME NEW i \in toTraverse(TypeTags)'
      PROVE  i + 1 \in toTraverse(TypeTags) /\ todo'[i] = todo[i + 1]
  <2> DEFINE calls == <<>>
  <2>1. /\ calls \in Seq(Calls) /\ Continue(calls)
        /\ todo \in Seq(Calls) /\ todo # <<>> /\ graph' = graph
    BY <1>1, <1>2 DEF Typed
  <2>2. Len(calls) = 0
    OBVIOUS
  <2> HIDE DEF calls
  <2>3. /\ i \in Nat
        /\ \/ i \in 1..Len(calls)
           \/ /\ i - (Len(calls) - 1) \in toTraverse(TypeTags)
              /\ todo'[i] = todo[i - (Len(calls) - 1)]
    BY <2>1, TraverseFacts
  <2>4. i - (0 - 1) = i + 1 /\ i \notin 1..0
    BY <2>3
  <2> QED BY <2>2, <2>3, <2>4
<1>8. CollectedForType(integral)'
  <2>1. virtualTable(graph)' = virtualTable(graph)
    BY <1>1 DEF virtualTable
  <2>2. ASSUME NEW i \in toTraverse(TypeTags)'
        PROVE  CollectedFor(todo[i].node, integral)'
    <3>1. CollectedFor(todo[i + 1].node, integral) /\ todo'[i] = todo[i + 1]
      BY <1>7 DEF WalkInOrder, CollectedForType
    <3> QED BY <1>1, <1>5, <2>1, <3>1 DEF CollectedFor
  <2> QED BY <1>6, <2>2 DEF CollectedForType
<1>9. ASSUME toTraverse({"enumerator"}) # {}, toTraverse(TypeTags)' = {}
      PROVE  enum_data_'.enum_base # NoNode
  <2>1. ASSUME NEW i \in toTraverse(TypeTags) PROVE FALSE
    <3>1. i # 1
      BY <1>1, <1>2, AtHead DEF toTraverse
    <3>2. i + (0 - 1) \in toTraverse(TypeTags)'
      BY <1>1, <1>2, <3>1, TraverseFacts DEF Typed
    <3> QED BY <1>9, <3>2
  <2>2. toTraverse(TypeTags) = {}
    BY <2>1
  <2> QED BY <1>1, <1>9, <2>2 DEF WalkInOrder, EnumIsInnermost
<1>10. current_'.is_member => current_'.member_name \in Node
  BY <1>5 DEF WalkInOrder, OpenedForMember
<1> QED BY <1>1, <1>2, <1>8, <1>9, <1>10, PlainInOrder

\* An enumerator: no type is waiting, and nothing is handed on.
LEMMA EnumeratorInOrder ==
    ASSUME Typed, StacksAgree, NEW CONSTANT integral, WalkInOrder(integral), traverseEnumerator
    PROVE  WalkInOrder(integral)'
<1>1. /\ At("traverse") /\ tag = "enumerator"
      /\ current_' = visitEnumerator(current_, node) /\ Continue(<<>>)
      /\ UNCHANGED <<graph, stack_, enum_data_>>
  BY DEF traverseEnumerator, Skip
<1>2. /\ todo # <<>> /\ Plain(<<>>) /\ <<>> \in Seq(Calls) /\ Len(<<>>) = 0
      /\ tag \in Elements /\ tag # "subrange" /\ node \in Node
  BY <1>1, AtHead, TagFacts, NothingHandedOn, EmptySeq
<1>3. enum_data_.enum_base # NoNode
  BY <1>1, <1>2, ElementAtHead
<1>4. toTraverse(TypeTags)' = {} /\ toTraverse({"subrange"})' = {}
  <2>1. \A i \in (toTraverse(TypeTags) \cup toTraverse({"subrange"}))' : i \in 1..0
    BY <1>1, <1>2, WaitingAfter DEF WalkInOrder
  <2>2. 1..0 = {}
    OBVIOUS
  <2> QED BY <2>1, <2>2
<1>5. CollectedForType(integral)'
  BY <1>4 DEF CollectedForType
<1>6. current_'.member_name \in Node
  BY <1>1, <1>2 DEF visitEnumerator, Typed, MetaData
<1> QED BY <1>1, <1>2, <1>3, <1>5, <1>6, PlainInOrder

\* What ends the walk down: the types without a base type, and a composite that
\* is open already.
LEMMA EndInOrder ==
    ASSUME Typed, NEW CONSTANT integral \in SUBSET Node, WellFormed(graph, integral), WalkInOrder(integral),
           traverseBasicType \/ traverseLeaf \/ traverseRecurringCompositeType
    PROVE  WalkInOrder(integral)'
<1>1. CASE traverseBasicType
  <2>1. At("traverse") /\ tag = "basic" /\ Continue(<<>>) /\ UNCHANGED <<graph, stack_>> /\ current_' = NoMeta
    BY <1>1 DEF traverseBasicType, Skip
  <2>2. node \in Node /\ tag \in TypeTags
    BY <2>1, AtHead, TagFacts
  <2>3. /\ enum_data_'.is_enum = enum_data_.is_enum
        /\ enum_data_.is_enum => enum_data_'.enum_base # NoNode
    BY <1>1, <2>2, NoNodeAssumption DEF traverseBasicType, Typed
  <2> QED BY <2>1, <2>2, <2>3, LeafInOrder
<1>2. CASE traverseLeaf \/ traverseRecurringCompositeType
  <2>1. /\ At("traverse") /\ tag \in {"string", "subroutine", "struct", "enum"}
        /\ Continue(<<>>) /\ UNCHANGED <<graph, stack_>> /\ current_' = NoMeta
        /\ enum_data_' = enum_data_ \/ enum_data_' = NoEnum
    BY <1>2 DEF traverseLeaf, traverseRecurringCompositeType, Skip
  <2>2. node \in Node /\ tag = graph.tag[node] /\ tag \in TypeTags
    BY <2>1, AtHead, TagFacts
  <2>3. ~enum_data_.is_enum
    <3>1. node \notin integral
      BY <2>1, <2>2 DEF WellFormed
    <3> QED BY <2>1, <2>2, <3>1, TypeAtHead DEF CollectedFor
  <2>4. enum_data_'.is_enum = enum_data_.is_enum
    <3>1. enum_data_.is_enum = FALSE
      <4>1. enum_data_.is_enum \in BOOLEAN
        BY DEF Typed
      <4> QED BY <2>3, <4>1, Zenon
    <3>2. NoEnum.is_enum = FALSE
      BY DEF NoEnum
    <3> QED BY <2>1, <3>1, <3>2, Zenon
  <2> QED BY <2>1, <2>2, <2>3, <2>4, LeafInOrder
<1> QED BY <1>1, <1>2

(****************************************************************************)
(* Opening and leaving a composite.                                         *)
(****************************************************************************)

\* What a composite hands on: the integral base type of an enum, its elements,
\* and the call that leaves it.
LEMMA CompositeCalls ==
    ASSUME Typed, NEW CONSTANT integral \in SUBSET Node, WellFormed(graph, integral),
           At("traverse"), tag \in {"struct", "enum"}
    PROVE  LET b == graph.base[node]
               calls == traverse_base(node) \o traverse_elements(node) \o <<leave(node)>>
               c == Len(calls)
           IN  /\ calls \in Seq(Calls) /\ c \in Nat /\ c > 0 /\ calls[c] = leave(node)
               /\ \A i \in 1..c : i < c =>
                     /\ calls[i].call = "traverse"
                     /\ \/ /\ i = 1 /\ calls[i].node = b /\ b \in integral
                           /\ tag = "enum" /\ graph.tag[b] \in TypeTags
                        \/ /\ graph.tag[calls[i].node] \in Elements
                           /\ graph.tag[calls[i].node] = "enumerator" <=> tag = "enum"
               /\ \A i \in 1..c : i < c /\ graph.tag[calls[i].node] = "enumerator" =>
                     1 < c /\ graph.tag[calls[1].node] \in TypeTags
<1> DEFINE b == graph.base[node]
           s == traverse_base(node)
           e == traverse_elements(node)
           calls == s \o e \o <<leave(node)>>
           c == Len(calls)
           g == graph.elements[node]
<1>1. /\ node \in Node /\ tag = graph.tag[node] /\ s \in Seq(Traversals) /\ e \in Seq(Traversals)
      /\ graph.base \in [Node -> Node \cup {NoNode}] /\ graph.elements \in [Node -> Seq(Node)]
  BY AtHead, GraphFacts, GraphsAssumption DEF Typed
<1>2. /\ tag = "struct" => b = NoNode
      /\ tag = "enum" => b \in integral \/ (b = NoNode /\ g = <<>>)
      /\ b # NoNode => graph.tag[b] \in TypeTags /\ b \in Node
      /\ \A i \in DOMAIN g :
            /\ tag = "struct" => graph.tag[g[i]] \in Elements \ {"enumerator"}
            /\ tag = "enum" => graph.tag[g[i]] = "enumerator"
  BY <1>1 DEF WellFormed
<1>3. /\ b = NoNode => Len(s) = 0
      /\ b # NoNode => s = <<traverse(b)>> /\ Len(s) = 1
  BY DEF traverse_base
<1>4. traverse(b).node = b /\ \A x : <<x>>[1] = x
  BY DEF traverse
<1>5. /\ Len(e) \in Nat
      /\ \A i \in 1..Len(e) :
            /\ graph.tag[e[i].node] \in Elements
            /\ graph.tag[e[i].node] = "enumerator" <=> tag = "enum"
            /\ tag = "enum" => b # NoNode
  <2>1. g \in Seq(Node) /\ DOMAIN g = 1..Len(g) /\ Len(g) \in Nat
    BY <1>1, LenProperties
  <2>2. DOMAIN e = 1..Len(e) /\ Len(e) \in Nat /\ DOMAIN e = DOMAIN g
    BY <1>1, LenProperties DEF traverse_elements
  <2>3. \A i \in DOMAIN g : e[i].node = g[i]
    BY DEF traverse_elements, traverse
  <2> HIDE DEF e, b
  <2> SUFFICES ASSUME NEW i \in 1..Len(e)
               PROVE  /\ graph.tag[e[i].node] \in Elements
                      /\ graph.tag[e[i].node] = "enumerator" <=> tag = "enum"
                      /\ tag = "enum" => b # NoNode
    BY <2>2
  <2>4. i \in DOMAIN g /\ e[i].node = g[i]
    BY <2>2, <2>3
  <2> HIDE DEF g
  <2>5. g # <<>>
    BY <2>4
  <2> QED BY <1>2, <2>4, <2>5, NoNodeAssumption, TagFacts
<1> HIDE DEF s, e, b, g
<1>6. \A i \in 1..Len(s) : i = 1 /\ b # NoNode /\ s[i] = traverse(b)
  <2>1. CASE b = NoNode
    BY <1>3, <2>1
  <2>2. CASE b # NoNode
    <3>1. 1..1 = {1}
      OBVIOUS
    <3>2. s[1] = traverse(b) /\ 1..Len(s) = {1}
      BY <1>3, <1>4, <2>2, <3>1
    <3> QED BY <2>2, <3>2
  <2> QED BY <2>1, <2>2
<1> DEFINE content == s \o e
<1>7. /\ content \in Seq(Traversals) /\ Len(content) = Len(s) + Len(e) /\ Len(s) \in Nat
      /\ \A i \in 1..Len(s) + Len(e) : content[i] = IF i <= Len(s) THEN s[i] ELSE e[i - Len(s)]
  BY <1>1, ConcatProperties, LenProperties
<1>8. ASSUME NEW i \in 1..Len(content)
      PROVE  \/ i \in 1..Len(s) /\ content[i] = s[i]
             \/ i - Len(s) \in 1..Len(e) /\ content[i] = e[i - Len(s)]
  BY <1>5, <1>7
<1> HIDE DEF content
<1>9. content \in Seq(Calls) /\ \A i \in 1..Len(content) : content[i].call = "traverse"
  BY <1>7, TraversalsFacts, SeqMonotonic, ElementOfSeq
<1>10. <<leave(node)>> \in Seq(Calls) /\ Len(<<leave(node)>>) = 1
  BY <1>1 DEF Calls, leave
<1>11. /\ calls \in Seq(Calls) /\ c = Len(content) + 1 /\ Len(content) \in Nat
       /\ \A i \in 1..(Len(content) + 1) :
             calls[i] = IF i <= Len(content) THEN content[i] ELSE <<leave(node)>>[i - Len(content)]
  BY <1>9, <1>10, ConcatProperties, LenProperties DEF content
<1> HIDE DEF calls
<1>12. calls[c] = leave(node)
  BY <1>4, <1>11
<1>13. \A i \in 1..c : i < c => i \in 1..Len(content) /\ calls[i] = content[i]
  BY <1>11
<1>14. b # NoNode => b \in integral /\ tag = "enum"
  BY <1>2
<1>15. ASSUME NEW i \in 1..c, i < c
       PROVE  \/ /\ i = 1 /\ calls[i].node = b /\ b \in integral
                 /\ tag = "enum" /\ graph.tag[b] \in TypeTags
              \/ /\ graph.tag[calls[i].node] \in Elements
                 /\ graph.tag[calls[i].node] = "enumerator" <=> tag = "enum"
                 /\ tag = "enum" => b # NoNode
  <2>1. i \in 1..Len(content) /\ calls[i] = content[i]
    BY <1>13, <1>15
  <2>2. CASE i \in 1..Len(s) /\ content[i] = s[i]
    BY <1>2, <1>4, <1>6, <1>14, <2>1, <2>2
  <2>3. CASE i - Len(s) \in 1..Len(e) /\ content[i] = e[i - Len(s)]
    BY <1>5, <2>1, <2>3
  <2> QED BY <1>8, <2>1, <2>2, <2>3
<1>16. ASSUME NEW i \in 1..c, i < c, graph.tag[calls[i].node] = "enumerator"
       PROVE  1 < c /\ graph.tag[calls[1].node] \in TypeTags
  <2>1. b # NoNode
    BY <1>14, <1>15, <1>16, NoNodeAssumption, TagFacts
  <2>2. Len(s) = 1 /\ s[1] = traverse(b)
    BY <1>3, <1>4, <2>1
  <2>3. 1 \in 1..Len(content) /\ 1 < c /\ content[1] = s[1]
    BY <1>5, <1>7, <1>11, <2>2
  <2>4. calls[1].node = b
    BY <1>4, <1>11, <2>2, <2>3
  <2> QED BY <1>2, <2>1, <2>3, <2>4
<1> QED BY <1>9, <1>11, <1>12, <1>13, <1>15, <1>16 DEF calls, content, s, e, b

\* A composite is opened: an enum on its integral type, a class on its elements.
LEMMA OpenInOrder ==
    ASSUME Typed, StacksAgree, NEW CONSTANT integral \in SUBSET Node, WellFormed(graph, integral),
           WalkInOrder(integral), traverseCompositeType
    PROVE  WalkInOrder(integral)'
<1> DEFINE b == graph.base[node]
           calls == traverse_base(node) \o traverse_elements(node) \o <<leave(node)>>
           c == Len(calls)
           n == Len(stack_)
           meta == typed(current_, node)
<1>1. /\ At("traverse") /\ tag \in {"struct", "enum"} /\ Continue(calls)
      /\ stack_' = Append(stack_, meta) /\ current_' = NoMeta /\ graph' = graph
      /\ enum_data_' = [enum_data_ EXCEPT !.is_enum = (tag = "enum")]
  BY DEF traverseCompositeType, traverseComposite, visitCompositeType
<1>2. /\ node \in Node /\ tag = graph.tag[node] /\ tag \in TypeTags /\ tag # "subrange"
      /\ tag # "subroutine" /\ todo # <<>>
  BY <1>1, AtHead, TagFacts
<1>3. CollectedFor(node, integral)
  BY <1>1, <1>2, TypeAtHead
<1>4. ~enum_data_.is_enum
  <2>1. node \notin integral
    BY <1>1, <1>2 DEF WellFormed
  <2> QED BY <1>3, <2>1 DEF CollectedFor
<1>5. TypeComesFirst /\ EnumIsInnermost /\ OpenedForMember
  BY DEF WalkInOrder
<1>6. toTraverse({"enumerator"}) = {}
  BY <1>4, <1>5 DEF EnumIsInnermost
<1>7. /\ calls \in Seq(Calls) /\ c \in Nat /\ c > 0 /\ calls[c] = leave(node)
      /\ \A i \in 1..c : i < c =>
            /\ calls[i].call = "traverse"
            /\ \/ /\ i = 1 /\ calls[i].node = b /\ b \in integral
                  /\ tag = "enum" /\ graph.tag[b] \in TypeTags
               \/ /\ graph.tag[calls[i].node] \in Elements
                  /\ graph.tag[calls[i].node] = "enumerator" <=> tag = "enum"
      /\ \A i \in 1..c : i < c /\ graph.tag[calls[i].node] = "enumerator" =>
            1 < c /\ graph.tag[calls[1].node] \in TypeTags
  BY <1>1, CompositeCalls
<1>8. leave(node).call = "leave"
  BY DEF leave
<1> HIDE DEF calls, b
<1>9. calls[c].call = "leave" /\ c \in 1..c /\ \A i \in 1..c : i # c => i < c
  BY <1>7, <1>8
<1>10. TypeComesFirst'
  <2>1. ASSUME NEW i \in 1..c, calls[i].call = "traverse",
               graph.tag[calls[i].node] \in TypeTags \cup {"subrange"}, NEW j \in 1..c, j < i
        PROVE  FALSE
    <3>1. i < c /\ i # 1
      BY <1>7, <1>9, <2>1
    <3> QED BY <1>7, <2>1, <3>1, TagFacts
  <2>2. \A i \in 1..c : calls[i].call = "traverse" => i < c
    BY <1>9
  <2>3. \A i \in 1..c : calls[i].call = "leave" => i = c
    BY <1>7, <1>9
  <2>4. \A i \in 1..c : calls[i].call = "traverse" /\ graph.tag[calls[i].node] \in Elements =>
           \E j \in 1..c : i < j /\ calls[j].call = "leave"
    BY <1>9, <2>2
  <2>5. \A i, j \in 1..c :
           calls[i].call = "traverse" /\ graph.tag[calls[i].node] = "enumerator" /\ calls[j].call = "leave" =>
             i < j
    BY <2>2, <2>3
  <2> HIDE DEF c
  <2> QED BY <1>1, <1>2, <1>5, <1>6, <1>7, <2>1, <2>4, <2>5, OrderKept DEF c
<1>11. ASSUME NEW i \in (toTraverse(TypeTags) \cup toTraverse({"subrange"}))'
       PROVE  /\ todo'[i].node = b /\ b \in integral /\ tag = "enum" /\ graph.tag[b] \in TypeTags
  <2>1. i \in 1..c /\ todo'[i] = calls[i]
    BY <1>1, <1>2, <1>5, <1>7, WaitingAfter
  <2>2. todo'[i].call = "traverse" /\ graph.tag[todo'[i].node] \in TypeTags \cup {"subrange"}
    BY <1>1 DEF toTraverse
  <2>3. i < c
    BY <1>9, <2>1, <2>2
  <2> QED BY <1>7, <2>1, <2>2, <2>3, TagFacts
<1>12. /\ n \in Nat /\ stack_' \in Seq(MetaData) /\ Len(stack_') = n + 1
       /\ \A i \in 1..n : stack_'[i] = stack_[i]
       /\ stack_'[n + 1] = meta
       /\ DOMAIN stack_' = 1..(n + 1) /\ DOMAIN stack_ = 1..n
       /\ stack_' # <<>> /\ (stack_ = <<>> <=> n = 0)
  <2>1. meta \in MetaData
    BY <1>2 DEF typed, Typed, MetaData
  <2> HIDE DEF meta
  <2>2. /\ n \in Nat /\ stack_' \in Seq(MetaData) /\ Len(stack_') = n + 1
        /\ \A i \in 1..n : stack_'[i] = stack_[i]
        /\ stack_'[n + 1] = meta
    BY <1>1, <2>1, AppendProperties, LenProperties DEF Typed
  <2>3. DOMAIN stack_' = 1..(n + 1) /\ DOMAIN stack_ = 1..n
    BY <2>2, LenProperties DEF Typed
  <2>4. stack_' # <<>> /\ (stack_ = <<>> <=> n = 0)
    BY <2>2, EmptySeq DEF Typed
  <2> QED BY <2>2, <2>3, <2>4
<1>13. meta.type = node /\ meta.is_member = current_.is_member /\ meta.is_base_class = current_.is_base_class
       /\ meta.member_name = current_.member_name
  BY DEF typed, Typed, MetaData
<1> HIDE DEF n, meta, c
<1>14. enum_data_'.is_enum <=> tag = "enum"
  BY <1>1 DEF Typed
<1>15. CollectedForType(integral)'
  <2>1. toTraverse({"subrange"})' = {}
    <3> SUFFICES ASSUME NEW i \in toTraverse({"subrange"})' PROVE FALSE
      OBVIOUS
    <3>1. todo'[i].node = b /\ graph.tag[b] \in TypeTags
      BY <1>11
    <3>2. graph.tag[todo'[i].node] = "subrange"
      BY <1>1 DEF toTraverse
    <3> QED BY <3>1, <3>2, TagFacts
  <2>2. ASSUME NEW i \in toTraverse(TypeTags)'
        PROVE  CollectedFor(todo[i].node, integral)'
    <3>1. todo'[i].node = b /\ b \in integral /\ tag = "enum"
      BY <1>11
    <3>2. b \notin virtualTable(graph)'
      <4>1. graph.tag[b] \in {"basic", "typedef", "const", "volatile"}
        BY <3>1 DEF WellFormed
      <4> QED BY <1>1, <4>1 DEF virtualTable
    <3> QED BY <1>12, <1>14, <3>1, <3>2 DEF CollectedFor
  <2> QED BY <2>1, <2>2 DEF CollectedForType
<1>16. EnumIsInnermost'
  <2>1. (enum_data_.is_enum <=> stack_ # <<>> /\ graph.tag[stack_[Len(stack_)].type] = "enum")'
    BY <1>1, <1>2, <1>12, <1>13, <1>14
  <2>2. (\A i \in DOMAIN stack_ : i < Len(stack_) => graph.tag[stack_[i].type] # "enum")'
    <3> SUFFICES ASSUME NEW i \in 1..(n + 1), i < n + 1 PROVE graph.tag[stack_[i].type] # "enum"
      BY <1>1, <1>12
    <3>1. CASE i = n
      BY <1>4, <1>5, <1>12, <3>1 DEF EnumIsInnermost, n
    <3>2. CASE i < n
      BY <1>5, <1>12, <3>2 DEF EnumIsInnermost, n
    <3> QED BY <1>12, <3>1, <3>2
  <2>3. (toTraverse({"enumerator"}) # {} =>
           enum_data_.is_enum /\ (toTraverse(TypeTags) = {} => enum_data_.enum_base # NoNode))'
    <3> SUFFICES ASSUME NEW i \in toTraverse({"enumerator"})'
                 PROVE  enum_data_'.is_enum /\ toTraverse(TypeTags)' # {}
      OBVIOUS
    <3>1. i \in 1..c /\ calls[i].call = "traverse" /\ graph.tag[calls[i].node] = "enumerator"
      BY <1>1, <1>2, <1>6, <1>7, TraverseFacts DEF Typed, c
    <3>2. i < c
      BY <1>9, <3>1
    <3>3. tag = "enum" /\ 1 < c /\ graph.tag[calls[1].node] \in TypeTags
      BY <1>7, <3>1, <3>2, TagFacts
    <3>4. 1 \in 1..c /\ calls[1].call = "traverse"
      BY <1>7, <3>3
    <3>5. 1 \in toTraverse(TypeTags)'
      BY <1>1, <1>2, <1>7, <3>3, <3>4, TraverseFacts DEF Typed, c
    <3> QED BY <1>14, <3>3, <3>5
  <2>4. (enum_data_.is_enum => \A i \in toTraverse(Elements \ {"enumerator"}) : \E j \in toLeave : j < i)'
    <3> SUFFICES ASSUME tag = "enum", NEW i \in toTraverse(Elements \ {"enumerator"})'
                 PROVE  \E j \in toLeave' : j < i
      BY <1>14
    <3>1. /\ i \in Nat
          /\ \/ i \in 1..c /\ calls[i].call = "traverse" /\ graph.tag[calls[i].node] \in Elements \ {"enumerator"}
             \/ i > c
      BY <1>1, <1>2, <1>7, TraverseFacts DEF Typed, c
    <3>2. CASE i \in 1..c /\ calls[i].call = "traverse" /\ graph.tag[calls[i].node] \in Elements \ {"enumerator"}
      <4>1. i < c
        BY <1>9, <3>2
      <4> QED BY <1>7, <3>2, <4>1, TagFacts
    <3>3. CASE i > c
      <4>1. c \in toLeave'
        BY <1>1, <1>2, <1>7, <1>9, LeaveFacts DEF Typed, c
      <4> QED BY <3>3, <4>1
    <3> QED BY <3>1, <3>2, <3>3
  <2> QED BY <2>1, <2>2, <2>3, <2>4 DEF EnumIsInnermost
<1>17. OpenedForMember'
  <2>1. ASSUME NEW i \in 1..(n + 1)
        PROVE  (stack_'[i].is_member \/ stack_'[i].is_base_class) <=> i > 1
    <3>1. CASE i \in 1..n
      BY <1>5, <1>12, <3>1 DEF OpenedForMember
    <3>2. CASE i = n + 1
      <4>1. stack_ = <<>> => ~current_.is_member /\ ~current_.is_base_class
        BY <1>3 DEF CollectedFor
      <4>2. stack_ # <<>> => current_.is_member \/ current_.is_base_class
        BY <1>2, <1>3, <1>4 DEF CollectedFor
      <4> QED BY <1>12, <1>13, <3>2, <4>1, <4>2
    <3> QED BY <1>12, <3>1, <3>2
  <2>2. ASSUME NEW i \in 1..(n + 1), stack_'[i].is_member
        PROVE  stack_'[i].member_name \in Node
    <3>1. CASE i \in 1..n
      BY <1>5, <1>12, <2>2, <3>1 DEF OpenedForMember
    <3>2. CASE i = n + 1
      BY <1>5, <1>12, <1>13, <2>2, <3>2 DEF OpenedForMember
    <3> QED BY <1>12, <3>1, <3>2
  <2>3. ~current_'.is_member
    BY <1>1 DEF NoMeta
  <2> QED BY <1>12, <2>1, <2>2, <2>3 DEF OpenedForMember
<1> QED BY <1>10, <1>15, <1>16, <1>17 DEF WalkInOrder

\* A composite is left: what was collected is kept, and no type is waiting.
LEMMA CloseInOrder ==
    ASSUME Typed, StacksAgree, NEW CONSTANT integral, WalkInOrder(integral), leaveCompositeType
    PROVE  WalkInOrder(integral)'
<1> DEFINE n == Len(stack_)
           calls == <<>>
<1>1. /\ At("leave") /\ todo # <<>> /\ Continue(calls)
      /\ stack_' = SubSeq(stack_, 1, n - 1) /\ enum_data_' = NoEnum /\ UNCHANGED <<graph, current_>>
  BY DEF leaveCompositeType, leaveComposite, At
<1>2. calls \in Seq(Calls) /\ Len(calls) = 0 /\ 1..0 = {}
  BY EmptySeq
<1>3. TypeComesFirst /\ EnumIsInnermost /\ OpenedForMember
  BY DEF WalkInOrder
<1>4. 1 \in toLeave /\ ~At("traverse")
  <2>1. todo[1] = Head(todo) /\ 1 \in DOMAIN todo
    BY <1>1, LenProperties, EmptySeq, HeadTailProperties DEF Typed
  <2> QED BY <1>1, <2>1 DEF At, toLeave
<1>5. TypeComesFirst'
  BY <1>1, <1>2, <1>3, OrderKept
<1>6. toTraverse(TypeTags)' = {} /\ toTraverse({"subrange"})' = {}
  <2>1. \A i \in (toTraverse(TypeTags) \cup toTraverse({"subrange"}))' : i \in 1..Len(calls)
    <3> HIDE DEF calls
    <3> QED BY <1>1, <1>2, <1>3, <1>4, WaitingAfter
  <2> QED BY <1>2, <2>1
<1>7. CollectedForType(integral)'
  BY <1>6 DEF CollectedForType
<1>8. /\ n \in Nat /\ n > 0 /\ stack_' \in Seq(MetaData) /\ DOMAIN stack_' = 1..(n - 1)
      /\ Len(stack_') = n - 1 /\ DOMAIN stack_ = 1..n
      /\ \A i \in 1..(n - 1) : stack_'[i] = stack_[i]
      /\ (stack_' # <<>> => n - 1 > 0)
  <2>1. stack_ # <<>>
    BY <1>4, LeaveMeansOpen
  <2>2. n \in Nat /\ n > 0 /\ DOMAIN stack_ = 1..n
    BY <2>1, LenProperties, EmptySeq DEF Typed
  <2>3. /\ stack_' \in Seq(MetaData) /\ DOMAIN stack_' = 1..(n - 1)
        /\ \A i \in 1..(n - 1) : stack_'[i] = stack_[i]
    BY <1>1, <2>2, Front DEF Typed
  <2>4. Len(stack_') = n - 1
    <3>1. Len(SubSeq(stack_, 1, n - 1)) = IF 1 <= n - 1 THEN n - 1 - 1 + 1 ELSE 0
      BY <2>2, SubSeqProperties DEF Typed
    <3> QED BY <1>1, <2>2, <3>1
  <2>5. stack_' # <<>> => Len(stack_') > 0
    BY <2>3, LenProperties, EmptySeq
  <2> QED BY <2>2, <2>3, <2>4, <2>5
<1> HIDE DEF n, calls
<1>9. toTraverse({"enumerator"})' = {}
  <2> SUFFICES ASSUME NEW i \in toTraverse({"enumerator"})' PROVE FALSE
    OBVIOUS
  <2>1. \/ i - (Len(calls) - 1) > 1 /\ i - (Len(calls) - 1) \in toTraverse({"enumerator"})
        \/ i \in 1..Len(calls)
    BY <1>1, <1>2, TraverseFacts DEF Typed
  <2>2. i - (Len(calls) - 1) > 1 /\ i - (Len(calls) - 1) \in toTraverse({"enumerator"})
    BY <1>2, <2>1
  <2>3. i - (Len(calls) - 1) < 1
    BY <1>3, <1>4, <2>2 DEF TypeComesFirst
  <2>4. i \in Nat
    BY <1>1, <1>2, TraverseFacts DEF Typed
  <2> QED BY <1>2, <2>2, <2>3, <2>4
<1>10. EnumIsInnermost'
  <2>1. \A i \in 1..(n - 1) : graph.tag[stack_[i].type] # "enum"
    BY <1>3, <1>8 DEF EnumIsInnermost, n
  <2>2. enum_data_'.is_enum = FALSE
    BY <1>1 DEF NoEnum
  <2>3. ~(stack_ # <<>> /\ graph.tag[stack_[Len(stack_)].type] = "enum")'
    BY <1>1, <1>8, <2>1
  <2>4. (\A i \in DOMAIN stack_ : i < Len(stack_) => graph.tag[stack_[i].type] # "enum")'
    BY <1>1, <1>8, <2>1
  <2> QED BY <1>9, <2>2, <2>3, <2>4 DEF EnumIsInnermost
<1>11. OpenedForMember'
  BY <1>1, <1>3, <1>8 DEF OpenedForMember
<1> QED BY <1>5, <1>7, <1>10, <1>11 DEF WalkInOrder

(****************************************************************************)
(* The invariant.                                                           *)
(****************************************************************************)

\* The integral types of the graph at hand, for which the walk is in order.
InOrder == \E integral \in SUBSET Node : WellFormed(graph, integral) /\ WalkInOrder(integral)

\* Nothing is open, and at most the root is waiting.
LEMMA StartInOrder ==
    ASSUME NEW CONSTANT integral \in SUBSET Node, WellFormed(graph, integral), Typed,
           todo = <<>> \/ todo = <<traverse(graph.root)>>,
           current_ = NoMeta, stack_ = <<>>, enum_data_ = NoEnum
    PROVE  WalkInOrder(integral)
<1> DEFINE r == graph.root
<1>1. /\ r \in Node /\ graph.tag[r] \in TypeTags /\ r \notin virtualTable(graph)
  BY GraphsAssumption DEF Typed, WellFormed
<1>2. ~NoMeta.is_member /\ ~NoMeta.is_base_class /\ ~NoEnum.is_enum
  BY DEF NoMeta, NoEnum
<1>3. \A i \in DOMAIN todo : i = 1 /\ todo[i].call = "traverse" /\ todo[i].node = r
  BY DEF traverse
<1> HIDE DEF r
<1>4. /\ toLeave = {} /\ toTraverse(Elements) = {} /\ toTraverse({"enumerator"}) = {}
      /\ toTraverse({"subrange"}) = {}
  BY <1>1, <1>3, TagFacts DEF toLeave, toTraverse
<1>5. TypeComesFirst
  <2>1. \A i \in toTraverse(TypeTags \cup {"subrange"}) : \A j \in DOMAIN todo : ~(j < i)
    BY <1>3 DEF toTraverse
  <2> QED BY <1>4, <2>1 DEF TypeComesFirst
<1>6. CollectedForType(integral)
  <2>1. \A i \in toTraverse(TypeTags) : todo[i].node = r
    BY <1>3 DEF toTraverse
  <2> QED BY <1>1, <1>2, <1>4, <2>1 DEF CollectedForType, CollectedFor
<1>7. DOMAIN stack_ = {}
  OBVIOUS
<1>8. EnumIsInnermost
  BY <1>2, <1>4, <1>7 DEF EnumIsInnermost
<1>9. OpenedForMember
  BY <1>2, <1>7 DEF OpenedForMember
<1> QED BY <1>5, <1>6, <1>8, <1>9 DEF WalkInOrder

LEMMA InitInOrder ==
    ASSUME WrittenByClang, Init
    PROVE  Typed /\ StacksAgree /\ InOrder
<1>1. Typed /\ StacksAgree
  BY InitAgrees
<1>2. PICK integral \in SUBSET Node : WellFormed(graph, integral)
  BY DEF WrittenByClang, Init
<1>3. WalkInOrder(integral)
  BY <1>1, <1>2, StartInOrder DEF Init
<1> QED BY <1>1, <1>2, <1>3 DEF InOrder

LEMMA StartStep ==
    ASSUME Typed', NEW CONSTANT integral \in SUBSET Node, WellFormed(graph, integral),
           make_dimetadata(graph.root)
    PROVE  WalkInOrder(integral)'
<1>1. /\ todo' = <<traverse(graph'.root)>> /\ graph' = graph
      /\ current_' = NoMeta /\ stack_' = <<>> /\ enum_data_' = NoEnum
  BY DEF make_dimetadata, Start
<1>2. WellFormed(graph, integral)'
  BY <1>1 DEF WellFormed, virtualTable
<1> DEFINE r == graph'.root
<1>3. /\ r \in Node /\ graph'.tag[r] \in TypeTags /\ r \notin virtualTable(graph')
  BY <1>2, GraphsAssumption DEF Typed, WellFormed
<1>4. ~NoMeta.is_member /\ ~NoMeta.is_base_class /\ ~NoEnum.is_enum
  BY DEF NoMeta, NoEnum
<1>5. \A i \in DOMAIN todo' : i = 1 /\ todo'[i].call = "traverse" /\ todo'[i].node = r
  BY <1>1 DEF traverse
<1> HIDE DEF r
<1>6. /\ toLeave' = {} /\ toTraverse(Elements)' = {} /\ toTraverse({"enumerator"})' = {}
      /\ toTraverse({"subrange"})' = {}
  BY <1>3, <1>5, TagFacts DEF toLeave, toTraverse
<1>7. TypeComesFirst'
  <2>1. \A i \in toTraverse(TypeTags \cup {"subrange"})' : \A j \in DOMAIN todo' : ~(j < i)
    BY <1>5 DEF toTraverse
  <2> QED BY <1>6, <2>1 DEF TypeComesFirst
<1>8. CollectedForType(integral)'
  <2>1. \A i \in toTraverse(TypeTags)' : todo'[i].node = r
    BY <1>5 DEF toTraverse
  <2> QED BY <1>1, <1>3, <1>4, <1>6, <2>1 DEF CollectedForType, CollectedFor
<1>9. DOMAIN stack_' = {}
  BY <1>1
<1>10. EnumIsInnermost'
  BY <1>1, <1>4, <1>6, <1>9 DEF EnumIsInnermost
<1>11. OpenedForMember'
  BY <1>1, <1>4, <1>9 DEF OpenedForMember
<1> QED BY <1>7, <1>8, <1>10, <1>11 DEF WalkInOrder

LEMMA InOrderStep ==
    ASSUME Typed, StacksAgree, InOrder, [Next]_vars
    PROVE  InOrder'
<1>1. PICK integral \in SUBSET Node : WellFormed(graph, integral) /\ WalkInOrder(integral)
  BY DEF InOrder
<1>2. Typed'
  BY AgreementStep
<1>3. CASE UNCHANGED vars
  <2>1. UNCHANGED <<graph, todo, current_, stack_, enum_data_>>
    BY <1>3 DEF vars, visitor
  <2>2. toLeave' = toLeave /\ \A tags : toTraverse(tags)' = toTraverse(tags)
    BY <2>1 DEF toLeave, toTraverse
  <2>3. \A g : virtualTable(g)' = virtualTable(g)
    BY DEF virtualTable
  <2>4. TypeComesFirst' /\ EnumIsInnermost' /\ OpenedForMember'
    BY <1>1, <2>1, <2>2 DEF WalkInOrder, TypeComesFirst, EnumIsInnermost, OpenedForMember
  <2>5. CollectedForType(integral)'
    BY <1>1, <2>1, <2>2, <2>3 DEF WalkInOrder, CollectedForType, CollectedFor
  <2>6. WellFormed(graph, integral)'
    BY <1>1, <2>1 DEF WellFormed, virtualTable
  <2> QED BY <2>4, <2>5, <2>6 DEF InOrder, WalkInOrder
<1>4. CASE Next
  <2>1. graph' = graph
    BY <1>4 DEF Next, Traverse, make_dimetadata, traverseBasicType, traverseLeaf, traverseDerivedType,
       traverseTypedPointer, traverseArrayType, traverseSubrange, traverseEnumerator,
       traverseCompositeType, traverseRecurringCompositeType, leaveCompositeType
  <2>2. WellFormed(graph, integral)'
    BY <1>1, <2>1 DEF WellFormed, virtualTable
  <2>3. WalkInOrder(integral)'
    BY <1>1, <1>2, <1>4, StartStep, EndInOrder, DerivedInOrder, TypedPointerInOrder, ArrayInOrder,
       SubrangeInOrder, EnumeratorInOrder, OpenInOrder, CloseInOrder
       DEF Next, Traverse
  <2> QED BY <2>2, <2>3 DEF InOrder
<1> QED BY <1>3, <1>4

\* For debug info as Clang writes it the assertions of the event visitor and of
\* the type builder hold when they are reached, cyclic types and types of const
\* void included.
THEOREM Assertions == WrittenByClang => (Spec => []AssertionsHold)
<1> SUFFICES ASSUME WrittenByClang PROVE Spec => []AssertionsHold
  OBVIOUS
<1>1. Init => Typed /\ StacksAgree /\ InOrder
  BY InitInOrder
<1>2. Typed /\ StacksAgree /\ InOrder /\ [Next]_vars => Typed' /\ StacksAgree' /\ InOrder'
  BY AgreementStep, InOrderStep
<1>3. Typed /\ StacksAgree /\ InOrder => AssertionsHold
  BY AssertionsFollow DEF InOrder
<1> QED BY <1>1, <1>2, <1>3, PTL DEF Spec

\* On debug info as Clang writes it, what waits, what was collected for the next
\* type and what is open fit together at every step of the walk.
THEOREM WalkOrder ==
    WrittenByClang => (Spec => [](\E integral \in SUBSET Node : WalkInOrder(integral)))
<1> SUFFICES ASSUME WrittenByClang PROVE Spec => [](\E integral \in SUBSET Node : WalkInOrder(integral))
  OBVIOUS
<1>1. Init => Typed /\ StacksAgree /\ InOrder
  BY InitInOrder
<1>2. Typed /\ StacksAgree /\ InOrder /\ [Next]_vars => Typed' /\ StacksAgree' /\ InOrder'
  BY AgreementStep, InOrderStep
<1>3. InOrder => \E integral \in SUBSET Node : WalkInOrder(integral)
  BY DEF InOrder
<1> QED BY <1>1, <1>2, <1>3, PTL DEF Spec

(****************************************************************************)
(* The members of the types that are built.                                 *)
(****************************************************************************)

\* The members of c have a name and a type.
Described(c) ==
    /\ "members" \in DOMAIN c /\ c.members \in Seq(Range(c.members))
    /\ \A m \in DOMAIN c.members : c.members[m].name \in Node /\ c.members[m].type.type \in Node

AllDescribed(s) == \A i \in DOMAIN s : Described(s[i])

LEMMA OneMoreMember ==
    ASSUME NEW c, Described(c), NEW x, x.name \in Node, x.type.type \in Node,
           NEW d, "members" \in DOMAIN d, d.members = Append(c.members, x)
    PROVE  Described(d)
<1> DEFINE ms == c.members
           S == Range(ms) \cup {x}
           t == Append(ms, x)
<1>1. ms \in Seq(S) /\ Len(ms) \in Nat /\ DOMAIN ms = 1..Len(ms)
  BY SeqMonotonic, LenProperties DEF Described
<1>2. /\ t \in Seq(S) /\ Len(t) = Len(ms) + 1 /\ t[Len(ms) + 1] = x
      /\ \A i \in 1..Len(ms) : t[i] = ms[i]
  BY <1>1, AppendProperties
<1>3. t \in Seq(Range(t)) /\ DOMAIN t = 1..(Len(ms) + 1)
  BY <1>2, SeqOfRange, LenProperties
<1>4. \A i \in 1..Len(ms) : ms[i].name \in Node /\ ms[i].type.type \in Node
  BY <1>1 DEF Described
<1> HIDE DEF ms, S, t
<1>5. \A i \in DOMAIN t : t[i].name \in Node /\ t[i].type.type \in Node
  <2> TAKE i \in DOMAIN t
  <2>1. CASE i \in 1..Len(ms)
    BY <1>2, <1>4, <2>1
  <2>2. CASE i = Len(ms) + 1
    BY <1>2, <2>2
  <2> QED BY <1>1, <1>3, <2>1, <2>2
<1>6. d.members = t
  BY DEF t, ms
<1> QED BY <1>3, <1>5, <1>6 DEF Described

LEMMA SameMembers ==
    ASSUME NEW c, Described(c), NEW d, "members" \in DOMAIN d, d.members = c.members
    PROVE  Described(d)
BY DEF Described

LEMMA WithMember ==
    ASSUME NEW c, Described(c), NEW type, NEW meta, meta.member_name \in Node, type.type \in Node
    PROVE  Described(with_member(c, type, meta))
<1> DEFINE x == [name |-> meta.member_name, type |-> type]
           d == with_member(c, type, meta)
<1>1. x.name \in Node /\ x.type.type \in Node
  OBVIOUS
<1>2. CASE meta.is_member_static
  <2>1. d = [c EXCEPT !.static_members = Append(@, x)]
    BY <1>2 DEF with_member
  <2>2. "members" \in DOMAIN d /\ d.members = c.members
    BY <2>1 DEF Described
  <2> QED BY <2>2, SameMembers
<1>3. CASE ~meta.is_member_static
  <2>1. d = [c EXCEPT !.members = Append(@, x), !.offsets = Append(@, meta.member_offset),
                      !.sizes = Append(@, meta.member_size)]
    BY <1>3 DEF with_member
  <2>2. "members" \in DOMAIN d /\ d.members = Append(c.members, x)
    BY <2>1 DEF Described
  <2> HIDE DEF x, d
  <2> QED BY <1>1, <2>2, OneMoreMember DEF d
<1> QED BY <1>2, <1>3

LEMMA EmplaceDescribed ==
    ASSUME NEW s, IsStack(s), AllDescribed(s), NEW type, NEW meta,
           meta.member_name \in Node, type.type \in Node
    PROVE  AllDescribed(emplace_member(s, type, meta))
<1> DEFINE n == Len(s)
           t == emplace_member(s, type, meta)
<1>1. t = [s EXCEPT ![n] = with_member(s[n], type, meta)]
  BY DEF emplace_member
<1>2. s \in [1..n -> Range(s)] /\ DOMAIN s = 1..n
  BY StackFacts
<1>3. n \in DOMAIN s => Described(with_member(s[n], type, meta))
  BY WithMember DEF AllDescribed
<1> QED BY <1>1, <1>2, <1>3 DEF AllDescribed

LEMMA FinalizedDescribed ==
    ASSUME NEW s, IsStack(s), AllDescribed(s), NEW composite, composite.type \in Node, NEW meta,
           meta.is_member => meta.member_name \in Node, emplace_finalized(s, composite, meta)
    PROVE  AllDescribed(composite_stack_')
<1>1. CASE meta.is_member
  BY <1>1, EmplaceDescribed DEF emplace_finalized
<1>2. CASE ~meta.is_member /\ meta.is_base_class
  <2> DEFINE n == Len(s)
             c == [s[n] EXCEPT !.bases = Append(@, [base |-> composite, offset |-> meta.member_offset])]
  <2>1. composite_stack_' = [s EXCEPT ![n] = c]
    BY <1>2 DEF emplace_finalized
  <2>2. s \in [1..n -> Range(s)] /\ DOMAIN s = 1..n
    BY StackFacts
  <2>3. ASSUME n \in DOMAIN s PROVE Described(c)
    <3>1. Described(s[n])
      BY <2>3 DEF AllDescribed
    <3>2. "members" \in DOMAIN c /\ c.members = s[n].members
      BY <3>1 DEF Described
    <3> QED BY <3>1, <3>2, SameMembers
  <2> HIDE DEF c
  <2> QED BY <2>1, <2>2, <2>3 DEF AllDescribed
<1>3. CASE ~meta.is_member /\ ~meta.is_base_class
  BY <1>3 DEF emplace_finalized
<1> QED BY <1>1, <1>2, <1>3

LEMMA FundamentalDescribed ==
    ASSUME IsStack(composite_stack_), AllDescribed(composite_stack_), NEW meta, meta.type \in Node,
           meta.is_member => meta.member_name \in Node, emplace_fundamental(meta)
    PROVE  AllDescribed(composite_stack_')
BY EmplaceDescribed, MadeType DEF emplace_fundamental

LEMMA EnumMemberDescribed ==
    ASSUME IsStack(composite_stack_), AllDescribed(composite_stack_), NEW meta, meta.type \in Node,
           meta.member_name \in Node, make_enum_member(meta)
    PROVE  AllDescribed(composite_stack_')
<1> DEFINE s == emplace_member(composite_stack_, make_qual_type(meta), meta)
           n == Len(composite_stack_)
           t == composite_stack_'
<1>1. IsStack(s) /\ AllDescribed(s)
  BY EmplaceMember, EmplaceDescribed, MadeType
<1>2. t = [s EXCEPT ![n].sizes = SubSeq(@, 1, 1), ![n].offsets = SubSeq(@, 1, 1)]
  BY DEF make_enum_member
<1> HIDE DEF s, n
<1>3. DOMAIN s = 1..Len(s) /\ s \in [1..Len(s) -> Range(s)]
  BY <1>1, StackFacts
<1>4. DOMAIN t = DOMAIN s
  BY <1>2, <1>3
<1>5. ASSUME NEW i \in DOMAIN s PROVE "members" \in DOMAIN t[i] /\ t[i].members = s[i].members
  BY <1>1, <1>2, <1>3 DEF AllDescribed, Described
<1> HIDE DEF t
<1>6. \A i \in DOMAIN t : Described(t[i])
  BY <1>1, <1>4, <1>5, SameMembers DEF AllDescribed
<1> QED BY <1>6 DEF AllDescribed, t

LEMMA CompositeDescribed ==
    ASSUME IsStack(composite_stack_), AllDescribed(composite_stack_), NEW meta, make_composite(meta)
    PROVE  AllDescribed(composite_stack_')
<1> DEFINE s == composite_stack_
           e == make_qual_type(meta)
           t == Append(s, e)
           S == Range(s) \cup {e}
<1>1. s \in Seq(S) /\ Len(s) \in Nat /\ DOMAIN s = 1..Len(s)
  BY StackFacts, SeqMonotonic DEF IsStack
<1>2. /\ t \in Seq(S) /\ Len(t) = Len(s) + 1 /\ t[Len(s) + 1] = e
      /\ \A i \in 1..Len(s) : t[i] = s[i]
  BY <1>1, AppendProperties
<1>3. DOMAIN t = 1..(Len(s) + 1)
  BY <1>2, LenProperties
<1>4. Described(e)
  <2>1. "members" \in DOMAIN e /\ e.members = <<>>
    BY DEF make_qual_type
  <2>2. <<>> \in Seq(Range(<<>>)) /\ DOMAIN <<>> = {}
    BY EmptySeq
  <2> QED BY <2>1, <2>2 DEF Described
<1> HIDE DEF e
<1>5. ASSUME NEW i \in 1..(Len(s) + 1) PROVE Described(t[i])
  <2>1. CASE i = Len(s) + 1
    BY <2>1, <1>2, <1>4
  <2>2. CASE i \in 1..Len(s)
    BY <2>2, <1>1, <1>2 DEF AllDescribed
  <2> QED BY <1>1, <2>1, <2>2
<1>6. composite_stack_' = t
  BY DEF make_composite, e
<1> QED BY <1>3, <1>5, <1>6 DEF AllDescribed

LEMMA DescribedStep ==
    ASSUME Typed, StacksAgree, InOrder, AllDescribed(composite_stack_), [Next]_vars
    PROVE  AllDescribed(composite_stack_')
<1> DEFINE s == composite_stack_
<1>1. PICK integral \in SUBSET Node : WellFormed(graph, integral) /\ WalkInOrder(integral)
  BY DEF InOrder
<1>2. IsStack(s) /\ current_ \in MetaData
  BY DEF Typed
<1>3. /\ current_.is_member => current_.member_name \in Node
      /\ \A i \in DOMAIN stack_ : stack_[i].is_member => stack_[i].member_name \in Node
  BY <1>1 DEF WalkInOrder, OpenedForMember
<1>4. ASSUME NEW n \in Node
      PROVE  /\ typed(current_, n).type = n
             /\ typed(current_, n).is_member => typed(current_, n).member_name \in Node
  BY <1>2, <1>3 DEF typed, MetaData
<1>5. CASE UNCHANGED s
  BY <1>5
<1>6. CASE make_dimetadata(graph.root)
  <2>1. composite_stack_' = <<>> /\ DOMAIN <<>> = {}
    BY <1>6 DEF make_dimetadata
  <2> QED BY <2>1 DEF AllDescribed
<1>7. CASE traverseBasicType \/ traverseLeaf
  <2>1. At("traverse") /\ (UNCHANGED s \/ emplace_fundamental(typed(current_, node)))
    BY <1>7 DEF traverseBasicType, traverseLeaf, builder
  <2>2. node \in Node
    BY <2>1, AtHead
  <2> QED BY <1>2, <1>4, <2>1, <2>2, FundamentalDescribed
<1>8. CASE traverseDerivedType \/ traverseArrayType \/ traverseSubrange
  <2>1. UNCHANGED s
    BY <1>8 DEF traverseDerivedType, traverseArrayType, traverseSubrange, builder
  <2> QED BY <2>1
<1>9. CASE traverseTypedPointer
  <2> DEFINE meta == visitDerivedType(current_, node)
  <2>1. /\ At("traverse") /\ tag \in {"vtbl_ptr", "pointer"}
        /\ emplace_fundamental(typed(meta, node))
    BY <1>9 DEF traverseTypedPointer, isVoidPointer
  <2>2. node \in Node /\ meta \in MetaData
    BY <2>1, AtHead, VisitTypes
  <2>3. meta.is_member = current_.is_member /\ meta.member_name = current_.member_name
    <3>1. tag \in Derived /\ tag \notin {"member", "static_member"}
      BY <2>1 DEF Derived
    <3> QED BY <2>1, <3>1, VisitDerivedFacts
  <2> HIDE DEF meta
  <2>4. typed(meta, node).type = node /\ typed(meta, node).is_member = meta.is_member
        /\ typed(meta, node).member_name = meta.member_name
    BY <2>2 DEF typed, MetaData
  <2> QED BY <1>2, <1>3, <2>1, <2>2, <2>3, <2>4, FundamentalDescribed
<1>10. CASE traverseEnumerator
  <2> DEFINE meta == visitEnumerator(current_, node)
  <2>1. At("traverse") /\ tag = "enumerator" /\ make_enum_member(meta)
    BY <1>10 DEF traverseEnumerator
  <2>2. node \in Node /\ enum_data_.enum_base # NoNode /\ enum_data_.enum_base \in Node \cup {NoNode}
    BY <1>1, <2>1, AtHead, ElementAtHead, TagFacts DEF Typed
  <2>3. meta.type = enum_data_.enum_base /\ meta.member_name = node
    BY <1>2 DEF visitEnumerator, MetaData
  <2> HIDE DEF meta
  <2> QED BY <1>2, <2>1, <2>2, <2>3, EnumMemberDescribed
<1>11. CASE traverseCompositeType
  <2>1. make_composite(typed(current_, node))
    BY <1>11 DEF traverseCompositeType, visitCompositeType
  <2> QED BY <1>2, <2>1, CompositeDescribed
<1>12. CASE traverseRecurringCompositeType
  <2> DEFINE meta == [typed(current_, node) EXCEPT !.is_recurring = TRUE]
  <2>1. At("traverse") /\ emplace_finalized(s, make_qual_type(meta), meta)
    BY <1>12 DEF traverseRecurringCompositeType, make_recurring
  <2>2. node \in Node
    BY <2>1, AtHead
  <2>3. meta.type = node /\ (meta.is_member => meta.member_name \in Node)
    BY <1>2, <1>3, <2>2 DEF typed, MetaData
  <2> HIDE DEF meta
  <2>4. make_qual_type(meta).type \in Node
    BY <2>2, <2>3, MadeType
  <2> QED BY <1>2, <2>1, <2>3, <2>4, FinalizedDescribed
<1>13. CASE leaveCompositeType
  <2> DEFINE n == Len(stack_)
             around == SubSeq(s, 1, n - 1)
  <2>1. Len(s) = n /\ n \in Nat /\ \A i \in 1..n : s[i].type = open[i]
    BY AgreementParts
  <2>2. todo # <<>> /\ At("leave") /\ emplace_finalized(around, s[n], stack_[n])
    BY <1>13, <2>1 DEF leaveCompositeType, finalize_composite, At
  <2>3. n > 0
    <3>1. 1 \in toLeave
      BY <2>2, LenProperties, EmptySeq, HeadTailProperties DEF Typed, At, toLeave
    <3>2. stack_ # <<>>
      BY <3>1, LeaveMeansOpen
    <3> QED BY <3>2, LenProperties, EmptySeq DEF Typed
  <2>4. n \in DOMAIN stack_ /\ n \in 1..n /\ DOMAIN s = 1..n
    BY <1>2, <2>1, <2>3, LenProperties, StackFacts DEF Typed
  <2>5. s[n].type \in Node
    <3>1. open[n] \in visited_dinodes_
      BY <2>4, AgreementParts
    <3> QED BY <2>1, <2>4, <3>1 DEF Typed
  <2>6. IsStack(around) /\ DOMAIN around = 1..(n - 1) /\ \A i \in 1..(n - 1) : around[i] = s[i]
    BY <1>2, <2>1, <2>3, PopStack
  <2>7. AllDescribed(around)
    BY <2>1, <2>4, <2>6 DEF AllDescribed
  <2>8. stack_[n].is_member => stack_[n].member_name \in Node
    BY <1>3, <2>4
  <2> HIDE DEF n, around
  <2> QED BY <2>2, <2>5, <2>6, <2>7, <2>8, FinalizedDescribed
<1>14. CASE UNCHANGED vars
  <2>1. UNCHANGED s
    BY <1>14 DEF vars, builder
  <2> QED BY <2>1
<1> QED BY <1>6, <1>7, <1>8, <1>9, <1>10, <1>11, <1>12, <1>13, <1>14 DEF Next, Traverse

\* For debug info as Clang writes it the variables have their types, and every
\* member of the types that are built has a name and a type: the enumerators
\* that of the enum, and the members after them their own.
THEOREM TypeCorrect == WrittenByClang => (Spec => []TypeOK)
<1> SUFFICES ASSUME WrittenByClang PROVE Spec => []TypeOK
  OBVIOUS
<1> DEFINE IInv == Typed /\ StacksAgree /\ InOrder /\ AllDescribed(composite_stack_)
<1>1. Init => IInv
  <2>1. Init => AllDescribed(composite_stack_)
    BY DEF Init, AllDescribed
  <2> QED BY <2>1, InitInOrder
<1>2. IInv /\ [Next]_vars => IInv'
  BY AgreementStep, InOrderStep, DescribedStep
<1>3. IInv => TypeOK
  BY DEF Typed, TypeOK, AllDescribed, Described
<1> QED BY <1>1, <1>2, <1>3, PTL DEF Spec

===============================================================================
