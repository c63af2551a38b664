----------------------------- MODULE MCByteOffset -----------------------------
(****************************************************************************)
(* Layouts for ByteOffset: a composite R with three members, some of them   *)
(* nested composites S and T by value, arrays, or pointers.  The unit is an *)
(* int; pointers and composites with a pointer are aligned to two units, so *)
(* there is padding.                                                        *)
(****************************************************************************)
EXTENDS ByteOffset, SequencesExt, TLC

MCNode == {"R", "Q", "S", "T", "inh", "q1", "m1", "m2", "m3", "ms", "s1", "s2", "s3", "t1", "t2",
           "int", "pint", "pR", "pS", "row", "tint", "dim"}

\* S has an int, a pointer and a T; T has two ints.
Size(t) == CASE t \in {"int", "tint"} -> 1 [] t = "row" -> 3 [] t = "S" -> 6 [] OTHER -> 2

Aligned(at, t) == IF t \in {"int", "tint", "row", "T"} THEN at ELSE at + (at % 2)

\* R may have a base class Q with a pointer.
Layout(base, t1, t2, t3) ==
    LET o1 == IF base THEN 2 ELSE 0
        o2 == Aligned(o1 + Size(t1), t2)
        o3 == Aligned(o2 + Size(t2), t3)
    IN  [tag |-> [n \in MCNode |->
                    CASE n \in {"R", "Q", "S", "T"} -> "struct" [] n \in {"int", "dim"} -> "basic"
                      [] n \in {"pint", "pR", "pS"} -> "pointer" [] n = "row" -> "array"
                      [] n = "tint" -> "typedef" [] n = "ms" -> "static_member"
                      [] n = "inh" -> "inheritance" [] OTHER -> "member"],
         base |-> "m1" :> t1 @@ "m2" :> t2 @@ "m3" :> t3 @@ "pint" :> "int" @@ "pR" :> "R"
                  @@ "pS" :> (IF "pS" \in {t1, t2, t3} THEN "S" ELSE NoNode) @@ "inh" :> "Q" @@ "q1" :> "pint"
                  @@ "tint" :> "int" @@ "row" :> "int" @@ "ms" :> "int" @@ "s1" :> "int"
                  @@ "s2" :> "pint" @@ "s3" :> "T" @@ "t1" :> "int" @@ "t2" :> "int"
                  @@ [n \in MCNode |-> NoNode],
         elements |-> "R" :> (IF base THEN <<"inh">> ELSE <<>>) \o <<"m1", "ms", "m2", "m3">>
                      @@ "Q" :> <<"q1">> @@ "S" :> <<"s1", "s2", "s3">>
                      @@ "T" :> <<"t1", "t2">> @@ "row" :> <<"dim">> @@ [n \in MCNode |-> <<>>],
         root |-> "R",
         offset |-> "m1" :> o1 @@ "m2" :> o2 @@ "m3" :> o3 @@ "s2" :> 2 @@ "s3" :> 4 @@ "t2" :> 1
                    @@ [n \in MCNode |-> 0],
         size |-> "m1" :> Size(t1) @@ "m2" :> Size(t2) @@ "m3" :> Size(t3) @@ "s2" :> 2 @@ "s3" :> 2
                  @@ "q1" :> 2 @@ [n \in MCNode |-> 1]]

\* No composite is reached through a pointer but R itself.
ByValue == {Layout(FALSE, t1, t2, t3) : t1, t2, t3 \in {"int", "tint", "pint", "pR", "row", "S", "T"}}
           \cup {Layout(TRUE, t1, t2, t3) : t1, t2, t3 \in {"int", "pR", "S"}}

\* A pointer to another composite, before a pointer.
ThroughPointer == {Layout(FALSE, "pS", "pint", "int")}

MCOffsets == 0 .. 20

\* The ways into a composite of g that starts at byte `at`, by recursion.
RECURSIVE WaysInto(_, _, _)

WaysInto(g, struct, at) ==
    UNION { LET m == g.elements[struct][i]
                step == [member |-> m, at |-> at]
            IN  {<<step>>} \cup {<<step>> \o way : way \in WaysInto(g, g.base[m], at + g.offset[m])} :
            i \in {i \in DOMAIN g.elements[struct] : g.tag[g.elements[struct][i]] \in {"member", "inheritance"}} }

MCWays == UNION {WaysInto(g, g.root, 0) : g \in ByValue \cup ThroughPointer}

MCApart == {"int", "pint", "pR", "pS", "row", "tint", "dim", "ms"}

MCDepth == "R" :> 6 @@ "S" :> 4 @@ "Q" :> 4 @@ "T" :> 2 @@ "s1" :> 3 @@ "s2" :> 3 @@ "s3" :> 3 @@ "q1" :> 3
           @@ "t1" :> 1 @@ "t2" :> 1 @@ [n \in MCNode |-> 5]

MCExtent(g) ==
    [n \in MCNode |-> IF g.tag[n] = "member" THEN g.offset[n] + g.size[n]
                      ELSE IF n = "inh" THEN 2 ELSE IF n = "R" THEN 20 ELSE Size(n)]

\* What the theorems about the search suppose holds of the layouts by value.
ASSUME \A g \in ByValue : LaidOut(g, MCExtent(g), MCDepth, MCApart)

==============================================================================
