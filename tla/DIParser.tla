------------------------------- MODULE DIParser -------------------------------
(****************************************************************************)
(* DIEventVisitor (lib/type/DIParser.cpp), the DIVisitor that tells         *)
(* DITypeParser (DimetaParse) about the types and members it meets.         *)
(*                                                                          *)
(* What the nodes between a member and its type say is collected in         *)
(* current_, on the way down; whoever consumes it has to clear it before    *)
(* the walk reaches the next member.  stack_ has the MetaData of the open   *)
(* composites.  All visit functions return true.                            *)
(****************************************************************************)
EXTENDS DimetaParse

CONSTANT Graphs     \* records [tag, base, elements, root]

Derived == {"member", "static_member", "typedef", "inheritance", "pointer", "vtbl_ptr",
            "reference", "const", "ptr_to_member", "volatile"}

Array == {"array", "associated", "vector"}

\* struct: also class and union; associated: the array of a Fortran pointer;
\* vtbl_ptr: a pointer of that name; volatile: any derived type without qualifier.
Tag == Derived \cup Array \cup
       {"basic", "string", "struct", "enum", "subroutine", "enumerator", "subrange"}

\* What a node is the base or an element of is a node of the graph.
ASSUME GraphsAssumption ==
    \A g \in Graphs :
        /\ g.tag \in [Node -> Tag]
        /\ g.base \in [Node -> Node \cup {NoNode}]
        /\ g.elements \in [Node -> Seq(Node)]
        /\ g.root \in Node

VARIABLES
    current_,           \* MetaData collected since the last event
    stack_,             \* MetaData of the open composites
    enum_data_          \* is an enum open, and its base type

visitor == <<todo, visited_dinodes_, current_, stack_, enum_data_>>

vars == <<graph, visitor, builder>>

NoEnum == [is_enum |-> FALSE, enum_base |-> NoNode]

(****************************************************************************)
(* The visit functions of DIEventVisitor: what a node adds to current_.     *)
(****************************************************************************)

make_member(meta, n) ==
    [meta EXCEPT !.member_name = n, !.member_offset = n, !.member_size = n,
                 !.is_member = TRUE, !.is_member_static = (graph.tag[n] = "static_member")]

\* Mutant: a base class is not told from a member.
visitDerivedType_NoBase(meta, n) ==
    CASE graph.tag[n] \in {"member", "static_member"} -> make_member(meta, n)
      [] graph.tag[n] = "typedef" -> [meta EXCEPT !.typedef_names = Append(@, n)]
      [] graph.tag[n] = "inheritance" -> [meta EXCEPT !.member_offset = n]
      [] graph.tag[n] = "vtbl_ptr" -> [meta EXCEPT !.dwarf_tags = Append(@, "pointer")]
      [] OTHER -> [meta EXCEPT !.dwarf_tags = Append(@, graph.tag[n])]

visitDerivedType(meta, n) ==
    CASE graph.tag[n] \in {"member", "static_member"} -> make_member(meta, n)
      [] graph.tag[n] = "typedef" -> [meta EXCEPT !.typedef_names = Append(@, n)]
      [] graph.tag[n] = "inheritance" -> [meta EXCEPT !.is_base_class = TRUE, !.member_offset = n]
      [] graph.tag[n] = "vtbl_ptr" -> [meta EXCEPT !.dwarf_tags = Append(@, "pointer")]
      [] OTHER -> [meta EXCEPT !.dwarf_tags = Append(@, graph.tag[n])]

\* An array type: its subranges are still to come.
visitArrayType(meta, n) ==
    [meta EXCEPT !.dwarf_tags = @ \o CASE graph.tag[n] = "associated" -> <<"array", "pointer">>
                                       [] OTHER -> <<graph.tag[n]>>,
                 !.arrays = Append(@, <<>>)]

\* Only constant counts are kept.  A subrange whose count is a variable names it
\* as its element.
visitSubrange(meta, n) ==
    IF graph.elements[n] # <<>> THEN meta
    ELSE [meta EXCEPT !.arrays[Len(meta.arrays)] = Append(@, n)]

visitEnumerator(meta, n) ==
    [meta EXCEPT !.member_name = n, !.member_offset = NoNode,
                 !.member_size = enum_data_.enum_base, !.type = enum_data_.enum_base,
                 !.is_member = TRUE]

typed(meta, n) == [meta EXCEPT !.type = n]

(****************************************************************************)
(* make_dimetadata, and the traversal.                                      *)
(****************************************************************************)

Init ==
    /\ graph \in Graphs
    /\ todo = <<>>
    /\ visited_dinodes_ = {}
    /\ current_ = NoMeta
    /\ stack_ = <<>>
    /\ enum_data_ = NoEnum
    /\ composite_stack_ = <<>>
    /\ result_ = NoResult

\* A new parser and a new visitor for each query.
make_dimetadata(root) ==
    /\ todo = <<>>
    /\ Start(root)
    /\ current_' = NoMeta
    /\ stack_' = <<>>
    /\ enum_data_' = NoEnum
    /\ composite_stack_' = <<>>
    /\ result_' = NoResult
    /\ UNCHANGED graph

\* Mutant: the base type of an enum is not remembered.
traverseBasicType_NoEnumBase ==
    /\ At("traverse") /\ tag = "basic"
    /\ IF enum_data_.is_enum THEN UNCHANGED builder ELSE emplace_fundamental(typed(current_, node))
    /\ current_' = NoMeta
    /\ Skip
    /\ UNCHANGED <<graph, stack_, enum_data_>>

\* The first basic type in an enum is the type of the enumerators; leaving the
\* basic type clears current_.
traverseBasicType ==
    /\ At("traverse") /\ tag = "basic"
    /\ IF enum_data_.is_enum
       THEN enum_data_' = [enum_data_ EXCEPT !.enum_base = node] /\ UNCHANGED builder
       ELSE emplace_fundamental(typed(current_, node)) /\ UNCHANGED enum_data_
    /\ current_' = NoMeta
    /\ Skip
    /\ UNCHANGED <<graph, stack_>>

\* A Fortran character, and a function, which is not looked into.
traverseLeaf ==
    /\ At("traverse") /\ tag \in {"string", "subroutine"}
    /\ emplace_fundamental(typed(current_, node))
    /\ current_' = NoMeta
    /\ Skip
    /\ UNCHANGED <<graph, stack_, enum_data_>>

isVoidPointer == tag = "pointer" /\ graph.base[node] = NoNode

traverseDerivedType ==
    /\ At("traverse") /\ tag \in Derived \ {"vtbl_ptr"}
    /\ ~isVoidPointer
    /\ current_' = visitDerivedType(current_, node)
    /\ traverseDerived
    /\ UNCHANGED <<graph, stack_, enum_data_, builder>>

\* A void* or the table of a class is a type of its own; current_ is cleared.
traverseTypedPointer ==
    /\ At("traverse")
    /\ tag = "vtbl_ptr" \/ isVoidPointer
    /\ emplace_fundamental(typed(visitDerivedType(current_, node), node))
    /\ current_' = NoMeta
    /\ traverseDerived
    /\ UNCHANGED <<graph, stack_, enum_data_>>

\* An array collects its subranges, and its element type applies to current_.
traverseArrayType ==
    /\ At("traverse") /\ tag \in Array
    /\ current_' = visitArrayType(current_, node)
    /\ traverseArray
    /\ UNCHANGED <<graph, stack_, enum_data_, builder>>

traverseSubrange ==
    /\ At("traverse") /\ tag = "subrange"
    /\ current_' = visitSubrange(current_, node)
    /\ Skip
    /\ UNCHANGED <<graph, stack_, enum_data_, builder>>

\* current_ keeps what the enumerator said.
traverseEnumerator ==
    /\ At("traverse") /\ tag = "enumerator"
    /\ current_' = visitEnumerator(current_, node)
    /\ make_enum_member(visitEnumerator(current_, node))
    /\ Skip
    /\ UNCHANGED <<graph, stack_, enum_data_>>

\* Mutant: what was collected for the composite stays for its first member.
visitCompositeType_KeepsCurrent ==
    /\ make_composite(typed(current_, node))
    /\ stack_' = Append(stack_, typed(current_, node))
    /\ enum_data_' = [enum_data_ EXCEPT !.is_enum = (tag = "enum")]
    /\ UNCHANGED current_

\* current_ belongs to the composite that is opened, so it goes on the stack.
visitCompositeType ==
    /\ make_composite(typed(current_, node))
    /\ stack_' = Append(stack_, typed(current_, node))
    /\ current_' = NoMeta
    /\ enum_data_' = [enum_data_ EXCEPT !.is_enum = (tag = "enum")]

traverseCompositeType ==
    /\ At("traverse") /\ tag \in {"struct", "enum"}
    /\ traverseComposite
    /\ visitCompositeType
    /\ UNCHANGED graph

\* A composite that is open already is made and finalized without content.
traverseRecurringCompositeType ==
    /\ At("traverse") /\ tag \in {"struct", "enum"}
    /\ recurring
    /\ make_recurring([typed(current_, node) EXCEPT !.is_recurring = TRUE])
    /\ current_' = NoMeta
    /\ enum_data_' = NoEnum
    /\ Skip
    /\ UNCHANGED <<graph, stack_>>

\* Closes the innermost composite, with the MetaData it was opened with.
leaveCompositeType ==
    /\ At("leave")
    /\ leaveComposite
    /\ finalize_composite(stack_[Len(stack_)])
    /\ stack_' = SubSeq(stack_, 1, Len(stack_) - 1)
    /\ enum_data_' = NoEnum
    /\ UNCHANGED <<graph, current_>>

Traverse ==
    \/ traverseBasicType \/ traverseLeaf \/ traverseDerivedType \/ traverseTypedPointer
    \/ traverseArrayType \/ traverseSubrange \/ traverseEnumerator
    \/ traverseCompositeType \/ traverseRecurringCompositeType \/ leaveCompositeType

Next == make_dimetadata(graph.root) \/ Traverse

\* The traversal is sequential code: once started it runs.
Spec == Init /\ [][Next]_vars /\ WF_vars(Traverse)

(****************************************************************************)
(* Properties.                                                              *)
(****************************************************************************)

MetaData ==
    [type : Node \cup {NoNode}, member_name : Node \cup {NoNode},
     member_offset : Node \cup {NoNode}, member_size : Node \cup {NoNode},
     is_member : BOOLEAN, is_member_static : BOOLEAN, is_base_class : BOOLEAN,
     is_recurring : BOOLEAN, typedef_names : Seq(Node), dwarf_tags : Seq(Tag),
     arrays : Seq(Seq(Node))]

\* The types of the variables, and a type and a name for each member.
TypeOK ==
    /\ todo \in Seq(Calls)
    /\ visited_dinodes_ \subseteq Node
    /\ current_ \in MetaData
    /\ stack_ \in Seq(MetaData)
    /\ enum_data_ \in [is_enum : BOOLEAN, enum_base : Node \cup {NoNode}]
    /\ \A i \in DOMAIN composite_stack_ :
         \A m \in DOMAIN composite_stack_[i].members :
            /\ composite_stack_[i].members[m].name \in Node
            /\ composite_stack_[i].members[m].type.type \in Node

open == [i \in DOMAIN stack_ |-> stack_[i].type]

\* The composites the traversal is in, those of the event visitor, those of the
\* type parser, and those still to be left are the same; none is open twice,
\* and the one opened last is left first.
StacksAgree ==
    /\ open = [i \in DOMAIN composite_stack_ |-> composite_stack_[i].type]
    /\ visited_dinodes_ = {open[i] : i \in DOMAIN open}
    /\ \A i, j \in DOMAIN open : open[i] = open[j] => i = j
    /\ visited_dinodes_ = {todo[i].node : i \in toLeave}
    /\ \A i, j \in toLeave : \A k, l \in DOMAIN open :
          i < j /\ open[k] = todo[i].node /\ open[l] = todo[j].node => l < k

\* The assertions of DIEventVisitor and DITypeParser hold when they are reached.
AssertionsHold ==
    /\ At("leave") =>
         LET meta == stack_[Len(stack_)]
         IN  meta.is_member \/ meta.is_base_class <=> Len(stack_) > 1
    /\ At("traverse") /\ tag = "subrange" => current_.arrays # <<>>
    /\ At("traverse") /\ tag = "vtbl_ptr" => current_.is_member /\ stack_ # <<>>
    /\ At("traverse") /\ tag = "basic" /\ current_.is_member => stack_ # <<>>
    /\ At("traverse") /\ tag = "enumerator" =>
         /\ enum_data_.enum_base # NoNode
         /\ stack_ # <<>> /\ graph.tag[stack_[Len(stack_)].type] = "enum"

\* Every traversal ends, whatever cycles the debug info has.
TraversalEnds == todo # <<>> ~> todo = <<>>

(****************************************************************************)
(* The debug info that Clang writes, and what holds of the walk over it.    *)
(****************************************************************************)

Elements == {"member", "static_member", "inheritance", "enumerator"}

TypeTags == Tag \ (Elements \cup {"subrange"})

\* The pointers to the table of a class, which only a member can have.
virtualTable(g) ==
    {n \in Node : \/ g.tag[n] = "vtbl_ptr"
                  \/ g.tag[n] = "pointer" /\ g.base[n] # NoNode /\ g.tag[g.base[n]] = "vtbl_ptr"}

\* Which node may be the base or an element of which.  The integral nodes are
\* those an enum may be based on: basic types, and names and qualifiers of one.
\* Everything else may be missing or recur, a type of const void included.
WellFormed(g, integral) ==
    /\ g.tag[g.root] \in TypeTags /\ g.root \notin virtualTable(g)
    /\ \A n \in Node :
         /\ g.base[n] # NoNode =>
              /\ g.tag[g.base[n]] \in TypeTags
              /\ g.base[n] \in virtualTable(g) =>
                   g.tag[n] \in {"member", "static_member"} \/ n \in virtualTable(g)
         /\ g.tag[n] \in Elements \ {"enumerator"} => g.base[n] # NoNode
         /\ g.tag[n] = "vtbl_ptr" => g.base[n] = NoNode \/ g.tag[g.base[n]] = "subroutine"
         /\ g.tag[n] = "struct" => g.base[n] = NoNode
         /\ g.tag[n] = "enum" =>
              g.base[n] \in integral \/ (g.base[n] = NoNode /\ g.elements[n] = <<>>)
         /\ n \in integral =>
              \/ g.tag[n] = "basic"
              \/ g.tag[n] \in {"typedef", "const", "volatile"} /\ g.base[n] \in integral
         /\ \A i \in DOMAIN g.elements[n] :
              LET e == g.tag[g.elements[n][i]]
              IN  /\ g.tag[n] = "struct" => e \in Elements \ {"enumerator"}
                  /\ g.tag[n] = "enum" => e = "enumerator"
                  /\ g.tag[n] \in Array => e = "subrange"

\* Where nodes with these tags are that are still to be traversed.
toTraverse(tags) ==
    {i \in DOMAIN todo : todo[i].call = "traverse" /\ graph.tag[todo[i].node] \in tags}

\* At most one type is waiting, behind the subranges of the arrays it is the
\* element type of; every element is traversed before its composite is left,
\* and an enumerator before any other is.
TypeComesFirst ==
    /\ \A i \in toTraverse(TypeTags \cup {"subrange"}) :
         \A j \in DOMAIN todo : j < i => j \in toTraverse({"subrange"})
    /\ \A i \in toTraverse(Elements) : \E j \in toLeave : i < j
    /\ \A i \in toTraverse({"enumerator"}) : \A j \in toLeave : i < j

\* What was collected in current_ is about n: it belongs to a member or a base
\* class exactly if a class is open.
CollectedFor(n, integral) ==
    /\ stack_ = <<>> => ~current_.is_member /\ ~current_.is_base_class
    /\ stack_ # <<>> /\ ~enum_data_.is_enum /\ graph.tag[n] # "subroutine" =>
         current_.is_member \/ current_.is_base_class
    /\ enum_data_.is_enum => n \in integral
    /\ n \in virtualTable(graph) => current_.is_member /\ stack_ # <<>>

CollectedForType(integral) ==
    /\ toTraverse({"subrange"}) # {} => current_.arrays # <<>>
    /\ \A i \in toTraverse(TypeTags) : CollectedFor(todo[i].node, integral)

\* enum_data_ is about the innermost composite, which alone can be an enum; its
\* base type is known when there are enumerators and no type before them.
EnumIsInnermost ==
    /\ enum_data_.is_enum <=> stack_ # <<>> /\ graph.tag[stack_[Len(stack_)].type] = "enum"
    /\ \A i \in DOMAIN stack_ : i < Len(stack_) => graph.tag[stack_[i].type] # "enum"
    /\ toTraverse({"enumerator"}) # {} =>
         enum_data_.is_enum /\ (toTraverse(TypeTags) = {} => enum_data_.enum_base # NoNode)
    /\ enum_data_.is_enum =>
         \A i \in toTraverse(Elements \ {"enumerator"}) : \E j \in toLeave : j < i

\* A composite on the stack was opened for a member or a base class of the one
\* around it, and a member has a name.
OpenedForMember ==
    /\ \A i \in DOMAIN stack_ : (stack_[i].is_member \/ stack_[i].is_base_class) <=> i > 1
    /\ \A meta \in {current_} \cup {stack_[i] : i \in DOMAIN stack_} :
         meta.is_member => meta.member_name \in Node

\* The walk over well-formed debug info: what waits, what was collected, and
\* what is open fit together.
WalkInOrder(integral) ==
    TypeComesFirst /\ CollectedForType(integral) /\ EnumIsInnermost /\ OpenedForMember

==============================================================================
