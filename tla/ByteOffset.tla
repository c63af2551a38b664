------------------------------ MODULE ByteOffset ------------------------------
(****************************************************************************)
(* resolve_byte_offset_to_member_of (lib/type/DIUtil.cpp): the member of a  *)
(* composite that lies at a byte offset, for a getelementptr on i8 or a     *)
(* TBAA access.  DestructureComposite is a DIVisitor that walks the         *)
(* composite and everything below it; a member whose bytes include the      *)
(* offset becomes the candidate and, when it is a composite, the base for   *)
(* the offsets of its own members.                                          *)
(****************************************************************************)
EXTENDS DIVisitor

CONSTANTS
    Graphs,     \* records [tag, base, elements, root, offset, size]
    Offsets,    \* byte offsets asked for
    Ways        \* into composites, for PointersAreFound

\* basic: also an enumerator, a subrange or a method; pointer: also a pointer
\* to member; struct: also a class, and a union or enum where they do not
\* differ; declaration: a composite that is only declared.
Tag == {"member", "static_member", "inheritance", "typedef", "pointer", "reference",
        "array", "struct", "union", "declaration", "basic"}

ASSUME GraphsAssumption ==
    \A g \in Graphs :
        /\ g.tag \in [Node -> Tag]
        /\ g.base \in [Node -> Node \cup {NoNode}]
        /\ g.elements \in [Node -> Seq(Node)]
        /\ g.root \in Node
        /\ g.offset \in [Node -> Nat] /\ g.size \in [Node -> Nat]

ASSUME OffsetsAssumption == Offsets \subseteq Nat

ASSUME WaysAssumption == Ways \subseteq Seq([member : Node, at : Nat])

Structured == {"struct", "union", "declaration"}

VARIABLES
    byte_index_,            \* the offset asked for, NoOffset before the first query
    offset_base_,           \* what member offsets are relative to
    outermost_candidate_,   \* the member found, NoNode before one is
    terminate               \* a pointer or array was found

destructure == <<byte_index_, offset_base_, outermost_candidate_, terminate>>

NoOffset == NoNode

vars == <<graph, todo, visited_dinodes_, destructure>>

\* No search has been made yet.
Idle ==
    /\ todo = <<>>
    /\ visited_dinodes_ = {}
    /\ byte_index_ = NoOffset
    /\ offset_base_ = 0
    /\ outermost_candidate_ = NoNode
    /\ terminate = FALSE

Init == graph \in Graphs /\ Idle

resolve_byte_offset(composite, offset) ==
    /\ todo = <<>>
    /\ Start(composite)
    /\ byte_index_' = offset
    /\ offset_base_' = 0
    /\ outermost_candidate_' = NoNode
    /\ terminate' = FALSE
    /\ UNCHANGED graph

\* Mutant: a member reaches to the first byte of the next one.
covers_Inclusive(m) ==
    /\ offset_base_ + graph.offset[m] <= byte_index_
    /\ byte_index_ <= offset_base_ + graph.offset[m] + graph.size[m]

covers(m) ==
    /\ offset_base_ + graph.offset[m] <= byte_index_
    /\ byte_index_ < offset_base_ + graph.offset[m] + graph.size[m]

\* is_pointer_like or is_array.
endsSearch(type) == graph.tag[type] \in {"pointer", "reference", "array"}

\* Mutant: the type of the member is taken for the member.
visitLastMember_Type ==
    /\ At("traverse") /\ tag = "member"
    /\ covers(node) /\ endsSearch(graph.base[node])
    /\ outermost_candidate_' = graph.base[node]
    /\ terminate' = TRUE
    /\ Skip
    /\ UNCHANGED <<graph, byte_index_, offset_base_>>

\* Mutant: the search goes on in other composites.
visitLastMember_GoesOn ==
    /\ At("traverse") /\ tag = "member"
    /\ covers(node) /\ endsSearch(graph.base[node])
    /\ outermost_candidate_' = node
    /\ Skip
    /\ UNCHANGED <<graph, byte_index_, offset_base_, terminate>>

\* The offset lies in a pointer or array: what is below it is not visited.
visitLastMember ==
    /\ At("traverse") /\ tag = "member"
    /\ covers(node) /\ endsSearch(graph.base[node])
    /\ outermost_candidate_' = node
    /\ terminate' = TRUE
    /\ Skip
    /\ UNCHANGED <<graph, byte_index_, offset_base_>>

\* The offset lies in any other member, whose type is visited.  The base is
\* never set back, and a typedef of a composite does not set it.
visitMember ==
    /\ At("traverse") /\ tag = "member"
    /\ covers(node) /\ ~endsSearch(graph.base[node])
    /\ outermost_candidate_' = node
    /\ offset_base_' = IF graph.tag[graph.base[node]] \in Structured
                       THEN offset_base_ + graph.offset[node] ELSE offset_base_
    /\ traverseDerived
    /\ UNCHANGED <<graph, byte_index_, terminate>>

\* The type of a member elsewhere is visited all the same, and so are base
\* classes and what pointers point to.
visitOther ==
    /\ At("traverse")
    /\ \/ tag \in {"static_member", "inheritance", "typedef", "pointer", "reference"}
       \/ tag = "member" /\ ~covers(node)
    /\ traverseDerived
    /\ UNCHANGED <<graph, destructure>>

visitComposite ==
    /\ At("traverse") /\ ~terminate
    /\ \/ tag = "array" /\ traverseArray
       \/ tag \in Structured /\ traverseComposite
    /\ UNCHANGED <<graph, destructure>>

\* Nothing below: visitCompositeType returns false once the search has ended.
visitNothing ==
    /\ At("traverse")
    /\ \/ tag = "basic"
       \/ tag = "array" /\ terminate
       \/ tag \in Structured /\ (recurring \/ terminate)
    /\ Skip
    /\ UNCHANGED <<graph, destructure>>

leaveCompositeType ==
    /\ At("leave")
    /\ leaveComposite
    /\ UNCHANGED <<graph, destructure>>

Traverse ==
    \/ visitLastMember \/ visitMember \/ visitOther
    \/ visitComposite \/ visitNothing \/ leaveCompositeType

Next == (\E offset \in Offsets : resolve_byte_offset(graph.root, offset)) \/ Traverse

\* The traversal is sequential code: once started it runs.
Spec == Init /\ [][Next]_vars /\ WF_vars(Traverse)

(****************************************************************************)
(* Properties.                                                              *)
(****************************************************************************)

TypeOK ==
    /\ todo \in Seq(Calls)
    /\ visited_dinodes_ \subseteq Node
    /\ byte_index_ \in Offsets \cup {NoOffset}
    /\ offset_base_ \in Nat
    /\ outermost_candidate_ \in {m \in Node : graph.tag[m] = "member"} \cup {NoNode}
    /\ terminate \in BOOLEAN

\* The members of the composite that the candidate's offset is relative to.
ElementsAt(m) ==
    LET outer == IF m = NoNode THEN graph.root ELSE graph.base[m]
    IN  {graph.elements[outer][i] : i \in DOMAIN graph.elements[outer]}

\* The search goes from a member into the composite that is its type, never
\* anywhere else: it narrows the bytes around the offset down.
CandidatesNarrow ==
    [][ outermost_candidate_' \in {outermost_candidate_, NoNode}
          \cup ElementsAt(outermost_candidate_) ]_vars

\* No member visited after the pointer or array was found takes its place,
\* although the rest of the members is visited with a base that is not theirs.
LastMemberStays ==
    [][ terminate /\ terminate' => outermost_candidate_' = outermost_candidate_ ]_vars

(****************************************************************************)
(* What the search finds.  A way leads into the composite that is searched, *)
(* member by member: each step names a member and where the composite that  *)
(* holds it starts.  A base class counts as a member when it starts where   *)
(* the class does; the code knows no other.                                 *)
(****************************************************************************)

elementsOf(n) == {graph.elements[n][i] : i \in DOMAIN graph.elements[n]}

coversByte(step) ==
    LET first == step.at + graph.offset[step.member]
    IN  /\ first <= byte_index_
        /\ \/ graph.tag[step.member] = "member" /\ byte_index_ < first + graph.size[step.member]
           \/ graph.tag[step.member] = "inheritance" /\ graph.offset[step.member] = 0

\* The offset lies in the pointer or array that the way leads to.
LeadsToPointer(way) ==
    /\ way # <<>>
    /\ way[1].at = 0 /\ way[1].member \in elementsOf(graph.root)
    /\ \A i \in DOMAIN way : coversByte(way[i])
    /\ \A i \in 2 .. Len(way) :
          LET outer == way[i - 1]
          IN  /\ way[i].member \in elementsOf(graph.base[outer.member])
              /\ way[i].at = outer.at + graph.offset[outer.member]
    /\ graph.tag[way[Len(way)].member] = "member" /\ endsSearch(graph.base[way[Len(way)].member])

\* An offset of a pointer or an array finds that pointer or array, however deep
\* it is nested.
PointersAreFound ==
    todo = <<>> /\ byte_index_ # NoOffset =>
        \A way \in Ways : LeadsToPointer(way) => outermost_candidate_ = way[Len(way)].member

(****************************************************************************)
(* The layouts for which it does, and what holds of the walk over them.     *)
(****************************************************************************)

\* Composites hold others by value: their members are sorted and do not
\* overlap, each within its extent, and none holds itself.  What is apart is
\* not: a typedef, a pointer or reference to something else or to the
\* composite searched, a static member, a method; behind it is no other member.
LaidOut(g, extent, depth, apart) ==
    LET holds(n, m) == m \in apart \/ (depth[m] < depth[n] /\ extent[m] <= extent[n])
        sub(n) == {g.elements[n][i] : i \in DOMAIN g.elements[n]}
    IN
    /\ g.root \notin apart /\ g.tag[g.root] \in Structured
    /\ \A n \in apart :
         /\ g.tag[n] \notin Structured \cup {"member", "inheritance"}
         /\ g.base[n] \in apart \cup {g.root, NoNode}
         /\ sub(n) \subseteq apart
    /\ \A n \in Node \ apart :
         /\ g.tag[n] \in Structured \cup {"member", "inheritance", "array"}
         /\ g.tag[n] = "member" => extent[n] = g.offset[n] + g.size[n]
         /\ g.tag[n] \in {"member", "inheritance"} =>
              /\ g.base[n] # NoNode /\ holds(n, g.base[n])
              /\ g.base[n] \notin apart =>
                    /\ g.tag[g.base[n]] \in Structured \cup {"array"}
                    /\ g.offset[n] + extent[g.base[n]] <= extent[n]
         /\ g.tag[n] = "array" =>
              /\ sub(n) \subseteq apart /\ g.base[n] # NoNode /\ holds(n, g.base[n])
              /\ g.base[n] \notin apart => g.tag[g.base[n]] \in Structured \cup {"array"}
         /\ g.tag[n] \in Structured =>
              /\ g.base[n] \in apart \cup {NoNode}
              /\ \A m \in sub(n) :
                    holds(n, m) /\ (m \notin apart => g.tag[m] \in {"member", "inheritance"})
              /\ \A i, j \in DOMAIN g.elements[n] :
                    LET e == g.elements[n][i]
                        f == g.elements[n][j]
                    IN  i < j /\ {e, f} \cap apart = {} => extent[e] <= g.offset[f]

\* Where what is held by value waits to be traversed.
toTraverse(apart) ==
    {i \in DOMAIN todo : todo[i].call = "traverse" /\ todo[i].node \notin apart \cup {graph.root}}

\* The composites open are those still to be left, from the inside out, and the
\* composite searched is the last of them.
OpenFromInside(depth, apart) ==
    /\ visited_dinodes_ = {todo[i].node : i \in toLeave}
    /\ \A i \in toLeave : todo[i].node \notin apart
    /\ \A i \in toLeave \cup toTraverse(apart), j \in toLeave :
          i < j => depth[todo[i].node] < depth[todo[j].node]
    /\ \/ todo = <<>>
       \/ todo = <<traverse(graph.root)>>
       \/ todo[Len(todo)] = leave(graph.root)

\* A member waits for what lies before it; a type waits for nothing that is
\* held by value.
WaitsInOrder(extent, apart) ==
    \A j \in toTraverse(apart) :
        LET n == todo[j].node
        IN  IF graph.tag[n] \in {"member", "inheritance"}
            THEN \A i \in toTraverse(apart) : i < j => extent[todo[i].node] <= graph.offset[n]
            ELSE \A i \in DOMAIN todo : i < j => i \notin toTraverse(apart) \cup toLeave

\* Once a pointer or array was found, the members that wait lie behind it, also
\* with the base that is not theirs.
LieBehind(apart) ==
    terminate =>
        \A i \in toTraverse(apart) :
            graph.tag[todo[i].node] = "member" =>
                byte_index_ < offset_base_ + graph.offset[todo[i].node]

WalkInOrder(extent, depth, apart) ==
    /\ LaidOut(graph, extent, depth, apart)
    /\ OpenFromInside(depth, apart)
    /\ WaitsInOrder(extent, apart)
    /\ LieBehind(apart)

\* Every search ends, whatever cycles the debug info has.
SearchEnds == todo # <<>> ~> todo = <<>>

==============================================================================
