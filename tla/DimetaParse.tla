----------------------------- MODULE DimetaParse -----------------------------
(****************************************************************************)
(* DITypeParser (lib/type/DimetaParse.cpp): builds the type a query returns *)
(* from the events of the debug info traversal in DIParser.  Each event     *)
(* carries the MetaData collected since the last one; the open composites   *)
(* are on composite_stack_, and a finished type becomes a member or a base  *)
(* of the innermost open one, or the result.                                *)
(*                                                                          *)
(* Names, offsets and sizes are represented by the debug info node they     *)
(* were read from (NoNode for an offset of 0); encodings and extents follow *)
(* from the type's node and are left out, as is the size of a vector.       *)
(****************************************************************************)
EXTENDS DIVisitor

\* The DWARF tags that dwarf2qual maps to a Qualifier; others are dropped.
Qualifier == {"pointer", "reference", "const", "ptr_to_member", "array", "vector"}

VARIABLES
    composite_stack_,   \* the composites being built, innermost at the end
    result_             \* the type parsed last, NoResult before one is

builder == <<composite_stack_, result_>>

NoResult == NoNode

\* state::MetaData as it is default constructed.
NoMeta ==
    [type |-> NoNode, member_name |-> NoNode, member_offset |-> NoNode, member_size |-> NoNode,
     is_member |-> FALSE, is_member_static |-> FALSE, is_base_class |-> FALSE,
     is_recurring |-> FALSE, typedef_names |-> <<>>, dwarf_tags |-> <<>>, arrays |-> <<>>]

make_qualifiers(meta) ==
    SelectSeq(meta.dwarf_tags, LAMBDA t : t \in Qualifier)
      \o (IF meta.is_member_static THEN <<"static">> ELSE <<>>)

\* A qualified fundamental type, or a qualified compound without content yet.
make_qual_type(meta) ==
    [type |-> meta.type, quals |-> make_qualifiers(meta), arrays |-> meta.arrays,
     typedef_name |-> IF meta.typedef_names = <<>> THEN NoNode ELSE Head(meta.typedef_names),
     is_recurring |-> meta.is_recurring,
     members |-> <<>>, offsets |-> <<>>, sizes |-> <<>>, static_members |-> <<>>, bases |-> <<>>]

\* The compound c with type as its next member.
with_member(c, type, meta) ==
    LET member == [name |-> meta.member_name, type |-> type]
    IN  IF meta.is_member_static
        THEN [c EXCEPT !.static_members = Append(@, member)]
        ELSE [c EXCEPT !.members = Append(@, member),
                       !.offsets = Append(@, meta.member_offset),
                       !.sizes = Append(@, meta.member_size)]

emplace_member(stack, type, meta) ==
    [stack EXCEPT ![Len(stack)] = with_member(@, type, meta)]

emplace_fundamental(meta) ==
    IF meta.is_member
    THEN /\ composite_stack_' = emplace_member(composite_stack_, make_qual_type(meta), meta)
         /\ UNCHANGED result_
    ELSE /\ result_' = make_qual_type(meta)
         /\ UNCHANGED composite_stack_

\* Enumerators are members of the enum, which has one offset and one size.
make_enum_member(meta) ==
    /\ composite_stack_' =
         [emplace_member(composite_stack_, make_qual_type(meta), meta)
            EXCEPT ![Len(composite_stack_)].sizes = SubSeq(@, 1, 1),
                   ![Len(composite_stack_)].offsets = SubSeq(@, 1, 1)]
    /\ UNCHANGED result_

make_composite(meta) ==
    /\ composite_stack_' = Append(composite_stack_, make_qual_type(meta))
    /\ UNCHANGED result_

\* Where the finished composite goes, given the composites around it.
emplace_finalized(around, composite, meta) ==
    CASE meta.is_member ->
           /\ composite_stack_' = emplace_member(around, composite, meta)
           /\ UNCHANGED result_
      [] ~meta.is_member /\ meta.is_base_class ->
           /\ composite_stack_' =
                [around EXCEPT ![Len(around)].bases =
                    Append(@, [base |-> composite, offset |-> meta.member_offset])]
           /\ UNCHANGED result_
      [] OTHER ->
           /\ composite_stack_' = around
           /\ result_' = composite

finalize_composite(meta) ==
    emplace_finalized(SubSeq(composite_stack_, 1, Len(composite_stack_) - 1),
                      composite_stack_[Len(composite_stack_)], meta)

\* make_composite followed at once by finalize_composite: a recurring composite.
make_recurring(meta) ==
    emplace_finalized(composite_stack_, make_qual_type(meta), meta)

==============================================================================
