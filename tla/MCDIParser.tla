------------------------------ MODULE MCDIParser ------------------------------
(****************************************************************************)
(* Debug info graphs for DIParser, as Clang writes them: a class R with two *)
(* members, a static member, up to two base classes B and C, a virtual      *)
(* table, and member types that point back to R and B.  The reference type  *)
(* of a node is read off the graph by recursion, without traversal state.   *)
(****************************************************************************)
EXTENDS DIParser, FiniteSets, TLC

MCNode == {"R", "B", "C", "E", "red", "blue", "unsigned", "int", "tint", "vcint", "pR", "tpR", "pB",
           "pvoid", "cpvoid", "row", "rows", "d1", "d2", "fun", "pfun", "vptr", "pvtbl", "vtbl", "str",
           "m1", "m2", "ms", "b1", "c1", "isB", "isC", "cvoid", "pcvoid", "vla", "dn", "count"}

tags ==
    [n \in MCNode |->
        CASE n \in {"R", "B", "C"} -> "struct" [] n = "E" -> "enum"
          [] n \in {"red", "blue"} -> "enumerator"
          [] n \in {"unsigned", "int", "count"} -> "basic" [] n = "str" -> "string"
          [] n \in {"tint", "tpR"} -> "typedef" [] n = "vcint" -> "volatile"
          [] n \in {"cpvoid", "cvoid"} -> "const"
          [] n \in {"pR", "pB", "pvoid", "pfun", "pvtbl", "pcvoid"} -> "pointer"
          [] n = "vtbl" -> "vtbl_ptr" [] n = "fun" -> "subroutine"
          [] n \in {"row", "vla"} -> "array" [] n = "rows" -> "associated"
          [] n \in {"d1", "d2", "dn"} -> "subrange"
          [] n = "ms" -> "static_member"
          [] n \in {"isB", "isC"} -> "inheritance"
          [] OTHER -> "member"]

\* The base types of the nodes whose base type is always the same.
fixed == "E" :> "unsigned" @@ "tint" :> "int" @@ "vcint" :> "int" @@ "pR" :> "R" @@ "tpR" :> "pR"
         @@ "pB" :> "B" @@ "cpvoid" :> "pvoid" @@ "row" :> "tint" @@ "rows" :> "pB" @@ "pfun" :> "fun"
         @@ "vptr" :> "pvtbl" @@ "pvtbl" :> "vtbl" @@ "vtbl" :> "fun" @@ "ms" :> "vcint"
         @@ "c1" :> "int" @@ "vla" :> "int" @@ "isB" :> "B" @@ "isC" :> "C" @@ "pcvoid" :> "cvoid"

Graph(m1, m2, b1, inR, root) ==
    [tag |-> tags,
     base |-> [n \in MCNode |->
                 CASE n = "m1" -> m1 [] n = "m2" -> m2 [] n = "b1" -> IF b1 = NoNode THEN "int" ELSE b1
                   [] n \in DOMAIN fixed -> fixed[n] [] OTHER -> NoNode],
     elements |-> [n \in MCNode |->
                     CASE n = "R" -> inR \o <<"m1", "ms", "m2">>
                       [] n = "B" -> IF b1 = NoNode THEN <<>> ELSE <<"b1">>
                       [] n = "C" -> <<"c1">> [] n = "E" -> <<"red", "blue">>
                       [] n = "row" -> <<"d1", "d2">> [] n = "rows" -> <<"d1">>
                       [] n = "vla" -> <<"dn", "d1">> [] n = "dn" -> <<"count">>
                       [] OTHER -> <<>>],
     root |-> root]

MCGraphs ==
    {Graph(m1, m2, b1, inR, root) :
        m1 \in {"int", "pR", "pB", "B", "pfun", "E", "row", "rows", "cpvoid"},
        m2 \in {"tint", "tpR", "E"}, b1 \in {NoNode, "pR", "pB", "pvoid", "row"},
        inR \in {<<"vptr">>, <<"isB">>, <<"isB", "isC", "vptr">>},
        root \in {"R", "tpR", "pB"}}
      \cup
    {Graph("int", "int", NoNode, <<>>, root) : root \in {"str", "E", "rows", "vla", "pfun", "cpvoid", "vcint"}}

\* A base class whose last member is an enum, before another base class.
EnumInBase == {Graph("int", "int", "E", <<"isB", "isC">>, "R")}

\* A pointer to const void among the members.
PointerToConstVoid == {Graph("pcvoid", "int", NoNode, <<>>, "R")}

\* The base of the enum.
MCIntegral == {"unsigned"}

\* What the theorems about the walk suppose holds of all the graphs here, the
\* ones of the findings included.
ASSUME \A g \in MCGraphs \cup EnumInBase \cup PointerToConstVoid : WellFormed(g, MCIntegral)

----------------------------------------------------------------------------

RECURSIVE Chain(_), TypeAt(_, _, _)

\* From n to the type it ends in.
Chain(n) ==
    IF graph.base[n] = NoNode \/ graph.tag[n] \in {"struct", "enum", "vtbl_ptr"}
    THEN <<n>> ELSE <<n>> \o Chain(graph.base[n])

ElementsOf(n, wanted) == SelectSeq(graph.elements[n], LAMBDA m : graph.tag[m] \in wanted)

Each(s, Op(_)) == [i \in DOMAIN s |-> Op(s[i])]

Fundamental(n) ==
    [type |-> n, quals |-> <<>>, arrays |-> <<>>, typedef_name |-> NoNode, is_recurring |-> FALSE,
     members |-> <<>>, offsets |-> <<>>, sizes |-> <<>>, static_members |-> <<>>, bases |-> <<>>]

\* The type described at n, within the composites in outer.
TypeAt(n, quals, outer) ==
    LET chain == Chain(n)
        leaf == chain[Len(chain)]
        with(t) == SelectSeq(chain, LAMBDA m : graph.tag[m] \in t)
        names == with({"typedef"})
        qualsOf(m) == CASE graph.tag[m] = "vtbl_ptr" -> <<"pointer">>
                        [] graph.tag[m] = "associated" -> <<"array", "pointer">>
                        [] graph.tag[m] \in Qualifier -> <<graph.tag[m]>>
                        [] OTHER -> <<>>
        RECURSIVE join(_)
        join(s) == IF s = <<>> THEN <<>> ELSE qualsOf(Head(s)) \o join(Tail(s))
        content == IF leaf \in outer \/ graph.tag[leaf] # "struct" THEN {} ELSE {leaf}
        memberType(m) == TypeAt(graph.base[m], IF graph.tag[m] = "static_member" THEN <<"static">> ELSE <<>>,
                                outer \cup content)
        member(m) == [name |-> m, type |-> memberType(m)]
        base(m) == [base |-> memberType(m), offset |-> m]
        plain == IF content = {} THEN <<>> ELSE ElementsOf(leaf, {"member"})
        static == IF content = {} THEN <<>> ELSE ElementsOf(leaf, {"static_member"})
        bases == IF content = {} THEN <<>> ELSE ElementsOf(leaf, {"inheritance"})
        enumerators == IF graph.tag[leaf] = "enum" THEN graph.elements[leaf] ELSE <<>>
        enumerator(m) == [name |-> m, type |-> Fundamental(graph.base[leaf])]
    IN  [type |-> leaf, quals |-> join(chain) \o quals,
         arrays |-> Each(with(Array), LAMBDA m : SelectSeq(graph.elements[m], LAMBDA d : graph.elements[d] = <<>>)),
         typedef_name |-> IF names = <<>> THEN NoNode ELSE Head(names),
         is_recurring |-> leaf \in outer,
         members |-> Each(plain, member) \o Each(enumerators, enumerator),
         offsets |-> IF enumerators = <<>> THEN plain ELSE <<NoNode>>,
         sizes |-> IF enumerators = <<>> THEN plain ELSE <<graph.base[leaf]>>,
         static_members |-> Each(static, member), bases |-> Each(bases, base)]

\* A parsed type is the one the debug info describes: every member and base
\* class in its order, with its own name, offset, qualifiers and type, and
\* nothing of what was collected for another.
ResultIsDescribed ==
    todo = <<>> /\ result_ # NoResult => result_ = TypeAt(graph.root, <<>>, {})

\* A base class in the debug info becomes a base class of the parsed type.
BaseClassesAreKept ==
    todo = <<>> /\ result_ # NoResult /\ result_.type = "R" =>
        Len(result_.bases) = Len(ElementsOf("R", {"inheritance"}))

\* Whatever the traversal of a composite meets is added to it.
MembersAreAdded ==
    todo = <<>> /\ result_ # NoResult /\ result_.type = "R" =>
        Len(result_.members) = Len(ElementsOf("R", {"member"}))

==============================================================================
