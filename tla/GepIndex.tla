------------------------------- MODULE GepIndex -------------------------------
(****************************************************************************)
(* extract_gep_dereferenced_type (lib/type/GEP.cpp): which member of a      *)
(* debug info type a getelementptr addresses.  The indices count the fields *)
(* of an LLVM struct; the elements of a DICompositeType also hold static    *)
(* members, methods and base classes without a field, so an index is        *)
(* matched with an element by rules of thumb.  A getelementptr on i8 is an  *)
(* offset in bytes, which ByteOffset resolves.                              *)
(*                                                                          *)
(* An action is a step of the function: an early return, one round of one   *)
(* of its loops.  Where an assertion of the code would fail, no action is   *)
(* enabled: the program has been aborted.                                   *)
(****************************************************************************)
EXTENDS Integers, Sequences, FiniteSets

CONSTANTS Node, NoNode, MaxNesting

ASSUME NodeAssumption == IsFiniteSet(Node) /\ NoNode \notin Node

VARIABLES
    graph, todo, visited_dinodes_, byte_index_, offset_base_, outermost_candidate_, terminate,
    phase,          \* where the function is, "none" before and after a call
    root,           \* its argument: the type the pointer operand points to
    inst,           \* its argument: the getelementptr
    composite_type, \* the composite the next index counts in
    indices_,       \* the indices not iterated over yet
    found           \* GepIndexToType: the result of the last call

Bytes == INSTANCE ByteOffset WITH Graphs <- {}, Offsets <- {}, Ways <- {}

bytesVars == <<todo, visited_dinodes_, byte_index_, offset_base_, outermost_candidate_, terminate>>

gepVars == <<phase, root, inst, composite_type, indices_, found>>

dynamic == -1   \* an index that is not a ConstantInt

(****************************************************************************)
(* The debug info (lib/type/DIUtil.cpp).                                    *)
(****************************************************************************)

tagOf(n) == IF n = NoNode THEN "none" ELSE graph.tag[n]

Derived == {"member", "static_member", "inheritance", "typedef", "pointer", "reference"}

isComposite(n) == tagOf(n) \in {"array", "struct", "union", "declaration"}

isStructOrClass(n) == tagOf(n) \in {"struct", "declaration"}

elementsOf(n) == graph.elements[n]

elementSet(n) == {elementsOf(n)[i] : i \in DOMAIN elementsOf(n)}

non_static_members(n) == {m \in elementSet(n) : tagOf(m) = "member"}

\* The first type below n that is not derived, or whose tag is one of stops.
find_non_derived_type_unless(stops, n) ==
    LET below[m \in Node \cup {NoNode}] ==
            IF tagOf(m) \in Derived \ stops THEN below[graph.base[m]] ELSE m
    IN  below[n]

find_non_derived_type_unless_ptr(n) == find_non_derived_type_unless({"pointer", "reference"}, n)

composite_root ==
    LET type == find_non_derived_type_unless({}, root)
    IN  IF isComposite(type) THEN type ELSE NoNode

(****************************************************************************)
(* From the call to the indices.                                            *)
(****************************************************************************)

GepInit ==
    /\ phase = "none"
    /\ root = NoNode
    /\ inst = NoNode
    /\ composite_type = NoNode
    /\ indices_ = <<>>
    /\ found = [type |-> NoNode, member |-> NoNode]

extract_gep_dereferenced_type(type, gep) ==
    /\ phase' = "extract"
    /\ root' = type
    /\ inst' = gep
    /\ UNCHANGED <<composite_type, indices_, found, bytesVars>>

Found(type, member) ==
    /\ phase' = "none"
    /\ found' = [type |-> type, member |-> member]
    /\ UNCHANGED <<root, inst, composite_type, indices_, bytesVars>>

byteIndexing == inst.src = "i8"

singleIndex == Len(inst.indices) = 1

\* What the code does with a type that has no composite below it is to return
\* it, when the getelementptr is one of pointers, arrays or bytes.
returnsRoot ==
    \/ inst.src = "ptr" /\ tagOf(composite_root) # "declaration"
    \/ inst.src = "array"
    \/ byteIndexing /\ composite_root = NoNode
    \/ byteIndexing /\ tagOf(root) \in Derived /\ tagOf(graph.base[root]) = "pointer"
    \/ tagOf(composite_root) = "declaration"

\* An operator[] that was inlined: its return type, without the reference.
gep_inlined_operator ==
    /\ phase = "extract" /\ inst.inlined # NoNode
    /\ Found(find_non_derived_type_unless({"pointer"}, inst.inlined), NoNode)

gep_root ==
    /\ phase = "extract" /\ inst.inlined = NoNode
    /\ returnsRoot
    /\ Found(root, NoNode)

\* p[i] for a pointer p to a composite.
gep_array_like ==
    /\ phase = "extract" /\ inst.inlined = NoNode
    /\ ~returnsRoot /\ composite_root # NoNode
    /\ ~byteIndexing /\ singleIndex /\ tagOf(root) = "pointer"
    /\ Found(graph.base[root], NoNode)

\* Mutant: the first index is counted as a member of the composite, too.
skip_first_Never == FALSE

\* A first index greater than zero is taken for one of a member.
skip_first == inst.indices[1] <= 0 /\ ~singleIndex /\ ~byteIndexing

\* Indices that are not constant are left out: the k-th of the others is the
\* one with k of them up to it.
create_indices ==
    LET rest == IF skip_first THEN Tail(inst.indices) ELSE inst.indices
        constant == {i \in DOMAIN rest : rest[i] # dynamic}
        upTo(i) == Cardinality({j \in constant : j <= i})
    IN  [k \in 1 .. Cardinality(constant) |-> rest[CHOOSE i \in constant : upTo(i) = k]]

resolvesIndices ==
    /\ phase = "extract" /\ inst.inlined = NoNode
    /\ ~returnsRoot /\ composite_root # NoNode
    /\ ~(~byteIndexing /\ singleIndex /\ tagOf(root) = "pointer")

gep_no_constant_index ==
    /\ resolvesIndices
    /\ create_indices = <<>>
    /\ Found(IF tagOf(composite_root) = "array" THEN graph.base[composite_root] ELSE composite_root,
             NoNode)

gep_bytes ==
    /\ resolvesIndices
    /\ byteIndexing /\ create_indices # <<>>
    /\ Bytes!resolve_byte_offset(composite_root, create_indices[1])
    /\ phase' = "bytes"
    /\ composite_type' = composite_root
    /\ UNCHANGED <<root, inst, indices_, found>>

gep_bytes_resolve ==
    /\ phase = "bytes"
    /\ Bytes!Traverse
    /\ UNCHANGED gepVars

gep_bytes_found ==
    /\ phase = "bytes" /\ todo = <<>>
    /\ IF outermost_candidate_ = NoNode THEN Found(composite_type, NoNode)
       ELSE Found(graph.base[outermost_candidate_], outermost_candidate_)

gep_indices ==
    /\ resolvesIndices
    /\ ~byteIndexing /\ create_indices # <<>>
    /\ phase' = IF skip_first /\ create_indices[1] # 0 THEN "skip" ELSE "iterate"
    /\ composite_type' = composite_root
    /\ indices_' = create_indices
    /\ UNCHANGED <<root, inst, found, bytesVars>>

(****************************************************************************)
(* skip_first_gep_access and iterate_gep_index.                             *)
(****************************************************************************)

\* Mutant: the offsets are not compared.
select_non_zero_element_AnyOffset(element, next_element) ==
    IF tagOf(element) \in Derived /\ tagOf(next_element) \in Derived THEN next_element ELSE element

\* The second element when it lies where the first one does: an empty base
\* class comes first and takes no space.
select_non_zero_element(element, next_element) ==
    IF /\ tagOf(element) \in Derived
       /\ tagOf(next_element) \in Derived
       /\ graph.offset[element] = graph.offset[next_element]
    THEN next_element ELSE element

first_element(n) ==
    IF Len(elementsOf(n)) > 1 THEN select_non_zero_element(elementsOf(n)[1], elementsOf(n)[2])
    ELSE elementsOf(n)[1]

\* Into the only member of a struct, as long as it is a composite, and on from
\* there: a zero index of it has been left out of the getelementptr.
next_composite ==
    LET type == find_non_derived_type_unless_ptr(first_element(composite_type))
    IN  IF Cardinality(non_static_members(composite_type)) = 1 /\ isComposite(type)
        THEN type ELSE composite_type

skip_first_gep_access ==
    /\ phase = "skip"
    /\ composite_type' = next_composite
    /\ phase' = IF next_composite = composite_type THEN "iterate" ELSE "skip"
    /\ UNCHANGED <<root, inst, indices_, found, bytesVars>>

gep_index == Head(indices_)

\* Mutant: a base class with members is taken for an empty one.
is_ebo_inherited_composite_AnyBase(element) ==
    tagOf(element) = "inheritance" /\ isComposite(graph.base[element])

is_ebo_inherited_composite(element) ==
    /\ tagOf(element) = "inheritance"
    /\ isComposite(graph.base[element])
    /\ non_static_members(graph.base[element]) = {}

ebo_inheritance_offset ==
    IF gep_index = 0 THEN 0
    ELSE Cardinality({i \in DOMAIN elementsOf(composite_type) :
                        is_ebo_inherited_composite(elementsOf(composite_type)[i])})

\* The element at a position that counts from zero; NoNode past the end.
elementAt(i) ==
    IF i < Len(elementsOf(composite_type)) THEN elementsOf(composite_type)[i + 1] ELSE NoNode

indexed_element ==
    IF gep_index = 0 THEN first_element(composite_type)
    ELSE elementAt(gep_index + ebo_inheritance_offset)

\* The element, or when it is a static member the next one that is none.
element ==
    LET at == gep_index + ebo_inheritance_offset
        others == {i \in at + 1 .. Len(elementsOf(composite_type)) : tagOf(elementAt(i)) # "static_member"}
    IN  IF tagOf(indexed_element) = "static_member"
        THEN elementAt(CHOOSE i \in others : \A j \in others : i <= j)
        ELSE indexed_element

iterates == phase = "iterate" /\ indices_ # <<>> /\ gep_index < Len(elementsOf(composite_type))

member_type == find_non_derived_type_unless_ptr(graph.base[element])

hasNext == Len(indices_) > 1

iterate_struct ==
    /\ iterates /\ tagOf(element) \in Derived
    /\ isStructOrClass(member_type) /\ hasNext
    /\ composite_type' = member_type
    /\ indices_' = Tail(indices_)
    /\ UNCHANGED <<phase, root, inst, found, bytesVars>>

\* Any other member ends the iteration, whatever indices follow.
iterate_member ==
    /\ iterates /\ tagOf(element) \in Derived
    /\ ~(isStructOrClass(member_type) /\ hasNext)
    /\ Found(IF tagOf(member_type) = "array" /\ hasNext THEN graph.base[member_type] ELSE member_type,
             element)


\* The subrange of an array, or a method: on to the next index.
iterate_other ==
    /\ iterates /\ element # NoNode
    /\ tagOf(element) \notin Derived /\ tagOf(element) # "array"
    /\ indices_' = Tail(indices_)
    /\ UNCHANGED <<phase, root, inst, composite_type, found, bytesVars>>

iterate_end ==
    /\ phase = "iterate" /\ indices_ = <<>>
    /\ Found(NoNode, NoNode)

GepNext ==
    \/ gep_inlined_operator \/ gep_root \/ gep_array_like \/ gep_no_constant_index
    \/ gep_bytes \/ gep_bytes_resolve \/ gep_bytes_found \/ gep_indices
    \/ skip_first_gep_access
    \/ iterate_struct \/ iterate_member \/ iterate_other \/ iterate_end

(****************************************************************************)
(* Properties.                                                              *)
(****************************************************************************)

GepTypeOK ==
    /\ phase \in {"none", "extract", "bytes", "skip", "iterate"}
    /\ {root, composite_type, found.type, found.member} \subseteq Node \cup {NoNode}
    /\ indices_ \in Seq(Nat)

\* The assertion in iterate_gep_index: an index is one of an element, before it
\* is shifted.
IndexInElements ==
    phase = "iterate" /\ indices_ # <<>> => gep_index < Len(elementsOf(composite_type))

\* The assertion in extract_gep_dereferenced_type: what is not returned as it
\* is has a composite below.
RootIsComposite ==
    phase = "extract" /\ inst.inlined = NoNode /\ ~returnsRoot => composite_root # NoNode

\* The elements that may have a field in the LLVM struct.
fieldsOf(n) ==
    {i \in DOMAIN elementsOf(n) : /\ tagOf(elementsOf(n)[i]) # "static_member"
                                 /\ ~is_ebo_inherited_composite(elementsOf(n)[i])}

\* What the shift of the index relies on: the index that the compiler computed
\* is one of a field of the composite that the iteration has come to.
IndexInFields ==
    phase = "iterate" /\ indices_ # <<>> => gep_index < Cardinality(fieldsOf(composite_type))

\* select_non_zero_element is there for empty base classes: a first element that
\* has a field does not give way to the next one.
FirstFieldKept ==
    iterates /\ gep_index = 0 /\ 1 \in fieldsOf(composite_type) =>
        first_element(composite_type) = elementsOf(composite_type)[1]

\* Neither the shift by the empty base classes nor the search past the static
\* members reads an element past the last one.
ElementsInBounds == iterates => element # NoNode

==============================================================================
