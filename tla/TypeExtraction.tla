---------------------------- MODULE TypeExtraction ----------------------------
(****************************************************************************)
(* find_type (lib/type/DITypeExtractor.cpp): the type an allocation is      *)
(* assigned to.  The value path, found against the flow of the data, is     *)
(* replayed from the variable it starts from (root) to the store: every     *)
(* getelementptr, load and store resets the debug info type of the          *)
(* variable to that of what it computes, reads or assigns.  At last the     *)
(* type is refined with the TBAA tag of the store (lib/type/TBAA.cpp).      *)
(*                                                                          *)
(* The pointer operand of a value of the path is the value after it;        *)
(* bitcasts are left out.  A TBAA struct type lists the fields of a         *)
(* composite with their offsets and is represented by that composite.       *)
(****************************************************************************)
EXTENDS GepIndex, SequencesExt

CONSTANTS
    Graphs,         \* the debug info of a program
    CallPaths(_)    \* its call paths

ASSUME GraphsAssumption ==
    \A g \in Graphs :
        /\ g.tag \in [Node -> Bytes!Tag]
        /\ g.base \in [Node -> Node \cup {NoNode}]
        /\ g.elements \in [Node -> Seq(Node)]
        /\ g.offset \in [Node -> Nat] /\ g.size \in [Node -> Nat]
        /\ g.anonymous \subseteq Node /\ g.vptr \subseteq Node
        /\ \A n \in Node : g.tag[n] \in {"member", "static_member", "inheritance", "reference", "array"} =>
                             g.base[n] # NoNode

\* A value of a path.  The fields that only some operations have are empty for
\* the others; a getelementptr may be the work of an inlined operator[], whose
\* return type it names.  No model reads denotes or, of a path, expected: they
\* say what the program means.
PathValue ==
    [op : {"alloca", "global", "argument", "call", "load", "store", "gep", "constant_gep"},
     src : {"none", "struct", "array", "ptr", "i8", "descriptor"},
     indices : Seq(Nat \cup {dynamic}),
     inlined : Node \cup {NoNode},
     tbaa : [kind : {"none", "pointer", "struct"}, base : Node \cup {NoNode}, offset : Nat],
     denotes : Node \cup {NoNode}]

CallPath ==
    [path : Seq(PathValue), root : Node \cup {NoNode}, fortran : BOOLEAN,
     memcpy : {"none", "global", "other"}, expected : Node \cup {NoNode}]

ASSUME CallPathsAssumption ==
    \A g \in Graphs : \A p \in CallPaths(g) :
        /\ p \in CallPath
        /\ \A i \in DOMAIN p.path : p.path[i].op \in {"gep", "constant_gep"} => p.path[i].indices # <<>>

VARIABLES
    program,        \* the call path that is asked about
    position,       \* in its path, of the value to replay next
    type,
    logged_dipath,  \* the types the values were mapped to
    pc,             \* "idle", "replay", or whose result is awaited
    answer          \* what find_type returned last

extractionVars == <<position, type, logged_dipath, pc, answer>>

vars == <<graph, program, extractionVars, gepVars, bytesVars>>

Init ==
    /\ graph \in Graphs
    /\ program \in CallPaths(graph)
    /\ GepInit
    /\ Bytes!Idle
    /\ position = 0
    /\ type = NoNode
    /\ logged_dipath = <<>>
    /\ pc = "idle"
    /\ answer = NoNode

current_value == program.path[position]

\* The pointer operand of the load or store; the first value has none.
pointer_operand == program.path[position + 1]

Replays(op) == pc = "replay" /\ position > 0 /\ current_value.op = op

(****************************************************************************)
(* Predicates on debug info types (lib/type/DIUtil.cpp).                    *)
(****************************************************************************)

is_pointer(n) == tagOf(n) \in {"pointer", "reference"}

is_array(n) == tagOf(n) = "array"

is_member(n) == tagOf(n) \in {"member", "static_member"}

is_array_member(n) == is_member(n) /\ is_array(graph.base[n])

\* The composite below at most two pointers.
desugar(n) ==
    LET below[at \in (Node \cup {NoNode}) \X (0 .. 2)] ==
            IF tagOf(at[1]) \notin Derived \/ at[2] = 2 THEN at[1]
            ELSE below[<<graph.base[at[1]], IF is_pointer(at[1]) THEN at[2] + 1 ELSE at[2]>>]
        type_below == below[<<n, 0>>]
    IN  IF isComposite(type_below) THEN type_below ELSE NoNode

(****************************************************************************)
(* TBAA.                                                                    *)
(****************************************************************************)

\* C names its composites, C++ gives them an identifier; an anonymous one has
\* the empty name.
struct_name(n) == IF n \in graph.anonymous THEN NoNode ELSE n

get_composite_members(n) ==
    SelectSeq(elementsOf(n), LAMBDA m : tagOf(m) = "member")

\* The fields of a TBAA struct type: empty base classes have none.
tbaa_operands(n) ==
    SelectSeq(elementsOf(n), LAMBDA m :
        \/ tagOf(m) = "member"
        \/ tagOf(m) = "inheritance" /\ non_static_members(graph.base[m]) # {})

tbaa_type(m) == find_non_derived_type_unless_ptr(graph.base[m])

\* What the visitor of find_composite_with_name meets.
nodesBelow(n) ==
    LET next(m) == ({m, graph.base[m]} \ {NoNode}) \cup elementSet(m)
        below[S \in SUBSET Node] ==
            LET met == UNION {next(m) : m \in S} IN IF met = S THEN S ELSE below[met]
    IN  below[{n}]

\* traverse_tbaa_nodes: the offsets it adds up on its way to the struct types
\* with this name.  Only the direct parent adds one, and only it stops there.
offsets_of_sub_nodes(name, base) ==
    LET named(field) == struct_name(tbaa_type(field)) = name
        offsets[n \in Node \cup {NoNode}] ==
            LET fields == IF tagOf(n) \in {"struct", "union"} THEN tbaa_operands(n) ELSE <<>>
                before == IF \E i \in DOMAIN fields : named(fields[i])
                          THEN SubSeq(fields, 1, SelectInSeq(fields, named) - 1) ELSE fields
            IN  FlattenSeq([i \in DOMAIN before |-> offsets[tbaa_type(before[i])]])
                \o IF before = fields THEN <<>> ELSE <<graph.offset[fields[Len(before) + 1]]>>
    IN  offsets[base]

\* The members have the offsets of the fields.
composite_fits_tbaa(n, base) ==
    LET members == get_composite_members(n)
        fields == tbaa_operands(base)
    IN  /\ Len(members) = Len(fields)
        /\ \A i \in DOMAIN fields : graph.offset[members[i]] = graph.offset[fields[i]]

NoAccess == [composite |-> NoNode, offset |-> 0]

\* tbaa_resolver: the composite below the type that the access is made to and
\* the offset in it, or NoAccess when the tag does not say.
tbaa_access(root_type, tag) ==
    LET composite == find_non_derived_type_unless({}, root_type)
        name == struct_name(composite)
        base_name == struct_name(tag.base)
        below == {n \in nodesBelow(composite) : isComposite(n) /\ struct_name(n) = base_name}
        sub == CHOOSE n \in below : TRUE
        offsets == offsets_of_sub_nodes(name, tag.base)
        access ==
            IF base_name \in {name, NoNode} THEN [composite |-> composite, offset |-> tag.offset]
            ELSE IF below # {}
            THEN IF Len(get_composite_members(sub)) = Len(tbaa_operands(tag.base))
                 THEN [composite |-> sub, offset |-> tag.offset] ELSE NoAccess
            ELSE IF name = NoNode \/ offsets = <<>> THEN NoAccess
            ELSE [composite |-> composite,
                  offset |-> tag.offset - FoldSeq(LAMBDA x, y : x + y, 0, offsets)]
    IN  IF \/ tag.kind # "struct" \/ ~isComposite(composite) \/ access = NoAccess
           \/ name = NoNode /\ ~composite_fits_tbaa(access.composite, tag.base)
        THEN NoAccess ELSE access

(****************************************************************************)
(* The call, and the getelementptr of the path.                             *)
(****************************************************************************)

Continue == UNCHANGED <<graph, program>>

\* The value is logged with what it was mapped to, and the replay goes on from
\* the type.
Log(mapped, new_type) ==
    /\ type' = new_type
    /\ logged_dipath' = Append(logged_dipath, mapped)
    /\ position' = position - 1
    /\ pc' = "replay"
    /\ UNCHANGED answer
    /\ Continue

Reset(new_type) == Log(new_type, new_type)

\* Mutant: a variable without debug info is replayed, too.
find_type_Untyped ==
    /\ pc = "idle"
    /\ pc' = "replay"
    /\ type' = program.root
    /\ position' = Len(program.path)
    /\ logged_dipath' = <<>>
    /\ UNCHANGED <<answer, gepVars, bytesVars>>
    /\ Continue

find_type ==
    /\ pc = "idle"
    /\ IF program.root = NoNode THEN answer' = NoNode /\ pc' = "idle"
       ELSE pc' = "replay" /\ UNCHANGED answer
    /\ type' = program.root
    /\ position' = Len(program.path)
    /\ logged_dipath' = <<>>
    /\ UNCHANGED <<gepVars, bytesVars>>
    /\ Continue

\* An alloca, a global, an argument or a call; a descriptor that Fortran keeps
\* for an array; loads and stores on the way to a Fortran allocation.
skips ==
    \/ current_value.op \in {"alloca", "global", "argument", "call"}
    \/ current_value.op = "gep" /\ current_value.src = "descriptor"
    \/ current_value.op \in {"load", "store"} /\ program.fortran

\* Mutant: what is skipped is not logged.
reset_skip_Unlogged ==
    /\ pc = "replay" /\ position > 0 /\ skips
    /\ position' = position - 1
    /\ UNCHANGED <<type, logged_dipath, pc, answer, gepVars, bytesVars>>
    /\ Continue

reset_skip ==
    /\ pc = "replay" /\ position > 0 /\ skips
    /\ Reset(type)
    /\ UNCHANGED <<gepVars, bytesVars>>

is_gep(value) == value.op \in {"gep", "constant_gep"} /\ value.src # "descriptor"

reset_gep ==
    /\ pc = "replay" /\ position > 0 /\ is_gep(current_value)
    /\ extract_gep_dereferenced_type(type, current_value)
    /\ pc' = "gep"
    /\ UNCHANGED <<position, type, logged_dipath, answer>>
    /\ Continue

gep_step ==
    /\ pc = "gep" /\ phase # "none"
    /\ GepNext
    /\ UNCHANGED extractionVars
    /\ Continue


\* When GEP finds nothing the type is kept; what Fortran logs then is a null.
gep_result ==
    /\ pc = "gep" /\ phase = "none"
    /\ \/ found.member # NoNode /\ Reset(found.member)
       \/ found.member = NoNode /\ found.type # NoNode /\ Reset(found.type)
       \/ found.member = NoNode /\ found.type = NoNode /\ Log(IF program.fortran THEN NoNode ELSE type, type)
    /\ UNCHANGED <<gepVars, bytesVars>>

(****************************************************************************)
(* reset_load_related_basic.                                                *)
(****************************************************************************)

has_non_const_index(value) == \E i \in DOMAIN value.indices : value.indices[i] = dynamic

load_of_array_gep ==
    /\ pointer_operand.op = "gep"
    /\ has_non_const_index(pointer_operand) \/ pointer_operand.src = "array"

last_load == position = 1

loads_variable == pointer_operand.op \in {"alloca", "global"}

\* Mutant: the load of a variable is one of what it points to.
load_keeps_type_NotVariable == pointer_operand.op = "gep" /\ pointer_operand.src = "descriptor"

\* A variable holds its own type; so does a descriptor its array's.
load_keeps_type == loads_variable \/ (pointer_operand.op = "gep" /\ pointer_operand.src = "descriptor")

Loads == Replays("load") /\ ~program.fortran

reset_load_same ==
    /\ Loads /\ load_keeps_type
    /\ Reset(type)
    /\ UNCHANGED <<gepVars, bytesVars>>

reset_load_element ==
    /\ Loads /\ ~load_keeps_type
    /\ is_array_member(type)
    /\ Reset(graph.base[graph.base[type]])
    /\ UNCHANGED <<gepVars, bytesVars>>

\* The pointer loaded from a composite is its first member, unless a
\* getelementptr has just found the member.
try_resolve_to_first_member ==
    /\ ~is_member(type) \/ last_load
    /\ ~load_of_array_gep
    /\ desugar(type) # NoNode

Await(what, composite, offset) ==
    /\ Bytes!resolve_byte_offset(composite, offset)
    /\ pc' = what
    /\ UNCHANGED <<position, type, logged_dipath, answer, gepVars>>
    /\ Continue

ordinary_load == Loads /\ ~load_keeps_type /\ ~is_array_member(type)

reset_load_first_member ==
    /\ ordinary_load /\ try_resolve_to_first_member
    /\ Await("load_first_member", desugar(type), 0)

base_loaded == IF tagOf(type) \in Derived THEN graph.base[type] ELSE type

load_access ==
    IF tagOf(type) \in Derived /\ isComposite(base_loaded)
    THEN tbaa_access(base_loaded, current_value.tbaa) ELSE NoAccess

\* What is pointed to, refined with TBAA when it is a composite.
load_base ==
    \/ /\ load_access = NoAccess
       /\ Reset(base_loaded)
       /\ UNCHANGED <<gepVars, bytesVars>>
    \/ /\ load_access # NoAccess /\ load_access.offset >= 0
       /\ Await("load_tbaa", load_access.composite, load_access.offset)

reset_load_base == ordinary_load /\ ~try_resolve_to_first_member /\ load_base

(****************************************************************************)
(* reset_store_related_basic.                                               *)
(****************************************************************************)

is_non_ptr_member == tagOf(type) = "member" /\ ~is_pointer(graph.base[type])

Stores == Replays("store") /\ ~program.fortran

stores_variable == pointer_operand.op \in {"alloca", "global"}

\* The pointer stored to points to a composite, hence to its first member.
stores_to_first_member ==
    /\ desugar(type) # NoNode /\ ~is_array_member(type)
    /\ \/ is_non_ptr_member
       \/ pointer_operand.op = "gep" /\ has_non_const_index(pointer_operand)
       \/ pointer_operand.op \in {"argument", "load"}

reset_store_element ==
    /\ Stores /\ ~stores_variable /\ is_array(type)
    /\ Reset(graph.base[type])
    /\ UNCHANGED <<gepVars, bytesVars>>

reset_store_first_member ==
    /\ Stores /\ ~stores_variable /\ ~is_array(type) /\ stores_to_first_member
    /\ Await("store_first_member", desugar(type), 0)

\* What the left side of the assignment is: the type of the member, an array
\* of pointers as one of these, a pointer to a pointer without one level.
assigned ==
    CASE is_array_member(type) -> LET array == graph.base[type] IN
                                  IF is_pointer(graph.base[array]) THEN graph.base[array] ELSE array
      [] tagOf(type) = "member" /\ ~is_array_member(type) -> graph.base[type]
      [] is_pointer(type) /\ is_pointer(graph.base[type]) -> graph.base[type]
      [] OTHER -> type

reset_store ==
    /\ Stores
    /\ \/ stores_variable /\ Reset(type)
       \/ ~stores_variable /\ ~is_array(type) /\ ~stores_to_first_member /\ Reset(assigned)
    /\ UNCHANGED <<gepVars, bytesVars>>

(****************************************************************************)
(* The results of the searches by offset.                                   *)
(****************************************************************************)

Awaits(what) == pc = what /\ todo = <<>>

type_of_member == graph.base[outermost_candidate_]

resolve_step ==
    /\ pc \in {"load_first_member", "load_tbaa", "store_first_member", "store_tbaa"}
    /\ Bytes!Traverse
    /\ UNCHANGED <<extractionVars, gepVars>>
    /\ Continue

resolved_member ==
    /\ \/ Awaits("load_first_member") \/ Awaits("load_tbaa")
       \/ Awaits("store_first_member") /\ outermost_candidate_ \notin graph.vptr
    /\ outermost_candidate_ # NoNode
    /\ Reset(type_of_member)
    /\ UNCHANGED <<gepVars, bytesVars>>

\* A virtual table is nothing that is allocated: TBAA may know the member.
resolved_vptr ==
    /\ Awaits("store_first_member") /\ outermost_candidate_ \in graph.vptr
    /\ Reset(type)
    /\ UNCHANGED <<gepVars, bytesVars>>

no_member_resolved ==
    /\ outermost_candidate_ = NoNode
    /\ \/ Awaits("load_first_member") /\ load_base
       \/ /\ Awaits("load_tbaa")
          /\ Reset(base_loaded)
          /\ UNCHANGED <<gepVars, bytesVars>>
       \/ /\ Awaits("store_first_member")
          /\ Reset(assigned)
          /\ UNCHANGED <<gepVars, bytesVars>>

(****************************************************************************)
(* The end of the path.                                                     *)
(****************************************************************************)

Replayed == pc = "replay" /\ position = 0

final_type(log) == IF log = <<>> THEN NoNode ELSE Last(log)

\* find_type answers with what the log ends in.
Return(log) ==
    /\ logged_dipath' = log
    /\ answer' = final_type(log)
    /\ pc' = "idle"
    /\ UNCHANGED <<position, type, gepVars, bytesVars>>
    /\ Continue

refines == program.path[1].op = "store" /\ ~program.fortran

final_access ==
    IF refines THEN tbaa_access(type, program.path[1].tbaa) ELSE NoAccess

\* Fortran allocates in a global of a derived type, or a copy of one in a local
\* variable: in its first member.
only_global ==
    /\ program.fortran /\ isComposite(type)
    /\ program.memcpy = "none" => Len(program.path) = 1 /\ program.path[1].op = "global"
    /\ program.memcpy # "other"

\* A tag that does not say what is accessed leaves the type, logged once more.
find_type_done ==
    /\ Replayed /\ final_access = NoAccess /\ ~only_global
    /\ Return(IF refines THEN Append(logged_dipath, type) ELSE logged_dipath)

find_type_tbaa ==
    /\ Replayed /\ final_access # NoAccess /\ final_access.offset >= 0
    /\ Await("store_tbaa", final_access.composite, final_access.offset)

fortran_first_member ==
    /\ Replayed /\ only_global
    /\ Await("store_tbaa", type, 0)

find_type_refined ==
    /\ Awaits("store_tbaa")
    /\ Return(IF outermost_candidate_ = NoNode THEN logged_dipath
              ELSE Append(logged_dipath, type_of_member))

Replay ==
    \/ reset_skip \/ reset_gep \/ gep_step \/ gep_result
    \/ reset_load_same \/ reset_load_element \/ reset_load_first_member \/ reset_load_base
    \/ reset_store_element \/ reset_store_first_member \/ reset_store
    \/ resolve_step \/ resolved_member \/ resolved_vptr \/ no_member_resolved
    \/ find_type_done \/ find_type_tbaa \/ fortran_first_member \/ find_type_refined

Next == find_type \/ Replay

\* find_type is sequential code: once called it runs.
Spec == Init /\ [][Next]_vars /\ WF_vars(Replay)

(****************************************************************************)
(* Properties.                                                              *)
(****************************************************************************)

\* The variables keep their types, and the replay, which dereferences the type
\* it carries for every value of the path, never carries a null.
TypeOK ==
    /\ GepTypeOK
    /\ position \in 0 .. Len(program.path)
    /\ pc \in {"idle", "replay", "gep", "load_first_member", "load_tbaa", "store_first_member", "store_tbaa"}
    /\ {type, answer} \subseteq Node \cup {NoNode}
    /\ pc # "idle" => type # NoNode
    /\ logged_dipath \in Seq(Node \cup {NoNode})

\* Every value of the path is logged once, in the order of the path, with the
\* type that the replay goes on from or, in Fortran, a null; a store may be
\* logged again with what its tag says.  The answer is the last entry.
PathInStep ==
    LET replayed == Len(logged_dipath) + position
        n == Len(program.path)
    IN  IF pc = "idle"
        THEN /\ answer = final_type(logged_dipath)
             /\ logged_dipath # <<>> => replayed \in {n, n + 1}
        ELSE /\ replayed = n
             /\ logged_dipath # <<>> =>
                   \/ Last(logged_dipath) = type
                   \/ program.fortran /\ Last(logged_dipath) = NoNode

\* Derived types are not derived from each other in a circle: a rank falls from
\* each to its base.
DerivedEnds(g, rank) ==
    \A n \in Node : g.tag[n] \in Derived /\ g.base[n] # NoNode => rank[g.base[n]] < rank[n]

\* What is loaded through a pointer has a type: there is none behind void*.
NoVoidLoaded ==
    /\ pc \in {"replay", "load_first_member", "load_tbaa"} /\ position > 0
    /\ current_value.op = "load" /\ ~program.fortran /\ ~load_keeps_type
    => base_loaded # NoNode

\* What the replay and GEP take for granted of the path: a load is of what has a
\* type, and what is indexed is a field of the composite it is looked for in.
PathFits == NoVoidLoaded /\ IndexInFields /\ FirstFieldKept

\* The assertion in subtract_offset: a struct that a tag's base type has as a
\* member does not lie behind what the tag says is accessed.
OffsetInBase ==
    /\ Replayed => final_access.offset >= 0
    /\ ordinary_load /\ ~try_resolve_to_first_member => load_access.offset >= 0

\* The assertions of the replay hold: the types that it hands to GEP and TBAA
\* are of the shape that these take for granted.
AssertionsHold == IndexInElements /\ RootIsComposite /\ OffsetInBase


==============================================================================
